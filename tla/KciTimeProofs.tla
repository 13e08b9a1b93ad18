---------------------------- MODULE KciTimeProofs ----------------------------
(***************************************************************************)
(* The dates, for every day: tm2date undoes date2tm except on the days     *)
(* Drifts names, on which it does not; an interval moves a time by what it *)
(* says; seven bytes and texts keep a day; and date2tm goes through the    *)
(* days as Calendar does.                                                  *)
(*                                                                         *)
(* The lemmas hide numbers and definitions behind small operators (By...,  *)
(* Found, Placed, ...): the provers count to large numbers one by one.     *)
(***************************************************************************)
EXTENDS KciTime, TLAPS

(* The days of a year as the code counts them. *)
YearLength(y, julian) == IF LeapInTm2date(y, julian) THEN 366 ELSE 365

(* One more year, one more leap day if it is a leap year. *)
LEMMA NextYearStart ==
  ASSUME NEW y \in Int, NEW julian \in BOOLEAN
  PROVE  /\ YearStart(y, julian) \in Int
         /\ YearStart(y + 1, julian) = YearStart(y, julian) + YearLength(y, julian)
<1>1. YearStart(y, julian) \in Int
  BY DEF YearStart
<1>2. /\ (y + 1) - 1 = y
      /\ y \div 4 = (y - 1) \div 4 + IF y % 4 = 0 THEN 1 ELSE 0
      /\ y \div 100 = (y - 1) \div 100 + IF y % 100 = 0 THEN 1 ELSE 0
      /\ y \div 400 = (y - 1) \div 400 + IF y % 400 = 0 THEN 1 ELSE 0
  OBVIOUS
<1>3. (y % 100 = 0 => y % 4 = 0) /\ (y % 400 = 0 => y % 100 = 0)
  OBVIOUS
<1> QED
  BY <1>1, <1>2, <1>3 DEF YearStart, YearLength, LeapInTm2date

(* Later years start later. *)
YearsApart(y, z, julian) == YearStart(y, julian) + 365 * (z - y) <= YearStart(z, julian)

LEMMA YearStartGrows ==
  ASSUME NEW y \in Int, NEW z \in Int, y <= z, NEW julian \in BOOLEAN
  PROVE  YearsApart(y, z, julian)
<1>1. /\ (y - 1) \div 4 <= (z - 1) \div 4
      /\ (y - 1) \div 400 <= (z - 1) \div 400
  OBVIOUS
<1>2. (z - 1) \div 100 - (y - 1) \div 100 <= (z - 1) \div 4 - (y - 1) \div 4
  <2> DEFINE a == y - 1
             b == z - 1
  <2>1. a \in Int /\ b \in Int /\ a <= b
    OBVIOUS
  <2> HIDE DEF a, b
  <2>2. \A x \in Int : x \div 100 = (x \div 4) \div 25
    OBVIOUS
  <2>3. \A x, w \in Int : x <= w => w \div 25 - x \div 25 <= w - x
    OBVIOUS
  <2>4. a \div 4 \in Int /\ b \div 4 \in Int /\ a \div 4 <= b \div 4
    BY <2>1
  <2> QED
    BY <2>1, <2>2, <2>3, <2>4, SMTT(40) DEF a, b
<1> QED
  BY <1>1, <1>2, SMT DEF YearsApart, YearStart

-----------------------------------------------------------------------------
(* Division by the lengths of the cycles of the calendars.                 *)
LEMMA By146097 ==
  ASSUME NEW x \in Int
  PROVE  /\ x \div 146097 \in Int /\ x % 146097 \in Int
         /\ 0 <= x % 146097 /\ x % 146097 < 146097
         /\ x = 146097 * (x \div 146097) + (x % 146097)
BY SMT

LEMMA By36524 ==
  ASSUME NEW x \in Int
  PROVE  /\ x \div 36524 \in Int /\ x % 36524 \in Int
         /\ 0 <= x % 36524 /\ x % 36524 < 36524
         /\ x = 36524 * (x \div 36524) + (x % 36524)
BY SMT

LEMMA By1461 ==
  ASSUME NEW x \in Int
  PROVE  /\ x \div 1461 \in Int /\ x % 1461 \in Int
         /\ 0 <= x % 1461 /\ x % 1461 < 1461
         /\ x = 1461 * (x \div 1461) + (x % 1461)
BY SMT

LEMMA By365 ==
  ASSUME NEW x \in Int
  PROVE  /\ x \div 365 \in Int /\ x % 365 \in Int
         /\ 0 <= x % 365 /\ x % 365 < 365
         /\ x = 365 * (x \div 365) + (x % 365)
BY SMT

(* The guess at the year is made of cycles: 400, 100, 4 years and one.      *)
JulianParts(d, q, c, r, y) ==
    /\ d - 10 = 1461 * q + c /\ 0 <= c /\ c < 1461
    /\ 365 * r <= c /\ c < 365 * r + 365
    /\ y = q * 4 + r

GregorianParts(d, p, h, q, c, r, y) ==
    /\ d - 10 = 146097 * p + 36524 * h + 1461 * q + c
    /\ 0 <= h /\ h <= 4 /\ 0 <= q /\ q <= 24 /\ 0 <= c /\ c < 1461
    /\ h = 4 => q = 0 /\ r = 0
    /\ 365 * r <= c /\ c < 365 * r + 365
    /\ y = p * 400 + h * 100 + q * 4 + r

(* The day is at least ten days and at most 375 after the start of the year *)
(* so made.                                                                *)
LEMMA JulianCycles ==
  ASSUME NEW d \in Int, NEW q \in Int, NEW c \in Int, NEW r \in Int, NEW y \in Int,
         JulianParts(d, q, c, r, y)
  PROVE  10 <= d - YearStart(y, TRUE) /\ d - YearStart(y, TRUE) <= 375
<1> USE DEF JulianParts
<1>1. 0 <= r /\ r <= 4
  BY SMT
<1>2. PICK a \in Int : a = (y - 1) \div 4
  BY SMT
<1>3. (r = 0 => a = q - 1) /\ (r # 0 => a = q)
  BY <1>1, <1>2, SMT
<1>4. 10 <= d - y * 365 - a /\ d - y * 365 - a <= 375
  BY <1>1, <1>3, SMT
<1> QED
  BY <1>2, <1>4, SMT DEF YearStart

LEMMA GregorianCycles ==
  ASSUME NEW d \in Int, NEW p \in Int, NEW h \in Int, NEW q \in Int, NEW c \in Int, NEW r \in Int,
         NEW y \in Int, GregorianParts(d, p, h, q, c, r, y)
  PROVE  10 <= d - YearStart(y, FALSE) /\ d - YearStart(y, FALSE) <= 375
<1> USE DEF GregorianParts
<1>1. 0 <= r /\ r <= 4
  BY SMT
<1>2. PICK a \in Int : a = (y - 1) \div 4
  BY SMT
<1>3. PICK b \in Int : b = (y - 1) \div 100
  BY SMT
<1>4. PICK e \in Int : e = (y - 1) \div 400
  BY SMT
<1>5. /\ r = 0 => a = 100 * p + 25 * h + q - 1
      /\ r # 0 => a = 100 * p + 25 * h + q
  BY <1>1, <1>2, SMT
<1>6. /\ q # 0 \/ r # 0 => b = 4 * p + h
      /\ q = 0 /\ r = 0 => b = 4 * p + h - 1
  BY <1>1, <1>3, SMT
<1>7. /\ h # 0 \/ q # 0 \/ r # 0 => e = p
      /\ h = 0 /\ q = 0 /\ r = 0 => e = p - 1
  BY <1>1, <1>4, SMT
<1>8. PICK s \in Int : s = y * 365 + a - (b - e)
  BY SMT
<1>9. y * 365 = 146000 * p + 36500 * h + 1460 * q + 365 * r
  BY SMT
<1>10. 10 <= d - s /\ d - s <= 375
  <2>1. CASE r # 0
    BY <1>1, <1>5, <1>6, <1>7, <1>8, <1>9, <2>1, SMT
  <2>2. CASE r = 0 /\ q # 0
    BY <1>1, <1>5, <1>6, <1>7, <1>8, <1>9, <2>2, SMT
  <2>3. CASE r = 0 /\ q = 0
    BY <1>1, <1>5, <1>6, <1>7, <1>8, <1>9, <2>3, SMT
  <2> QED
    BY <2>1, <2>2, <2>3, SMT
<1>11. YearStart(y, FALSE) = s
  BY <1>2, <1>3, <1>4, <1>8, SMT DEF YearStart
<1> HIDE DEF GregorianParts
<1> QED
  BY <1>10, <1>11, Zenon

LEMMA GuessJulian ==
  ASSUME NEW d \in Int
  PROVE  /\ GuessYear(d, TRUE) \in Int
         /\ 10 <= d - YearStart(GuessYear(d, TRUE), TRUE)
         /\ d - YearStart(GuessYear(d, TRUE), TRUE) <= 375
<1>1. PICK q \in Int, c \in Int : /\ q = (d - 10) \div 1461 /\ c = (d - 10) % 1461
                                  /\ 0 <= c /\ c < 1461 /\ d - 10 = 1461 * q + c
  BY By1461, SMT
<1>2. PICK r \in Int : r = c \div 365 /\ 365 * r <= c /\ c < 365 * r + 365
  BY By365, SMT
<1>3. PICK y \in Int : y = q * 4 + r
  BY SMT
<1>4. GuessYear(d, TRUE) = y
  BY <1>1, <1>2, <1>3, SMT DEF GuessYear
<1>5. JulianParts(d, q, c, r, y)
  BY <1>1, <1>2, <1>3, SMT DEF JulianParts
<1>6. 10 <= d - YearStart(y, TRUE) /\ d - YearStart(y, TRUE) <= 375
  BY <1>5, JulianCycles, ZenonT(60)
<1> QED
  BY <1>4, <1>6, Zenon

LEMMA GuessGregorian ==
  ASSUME NEW d \in Int
  PROVE  /\ GuessYear(d, FALSE) \in Int
         /\ 10 <= d - YearStart(GuessYear(d, FALSE), FALSE)
         /\ d - YearStart(GuessYear(d, FALSE), FALSE) <= 375
<1>1. PICK p \in Int, a \in Int : /\ p = (d - 10) \div 146097 /\ a = (d - 10) % 146097
                                  /\ 0 <= a /\ a < 146097 /\ d - 10 = 146097 * p + a
  BY By146097, SMT
<1>2. PICK h \in Int, b \in Int : /\ h = a \div 36524 /\ b = a % 36524
                                  /\ 0 <= b /\ b < 36524 /\ a = 36524 * h + b
  BY By36524, SMT
<1>3. PICK q \in Int, c \in Int : /\ q = b \div 1461 /\ c = b % 1461
                                  /\ 0 <= c /\ c < 1461 /\ b = 1461 * q + c
  BY By1461, SMT
<1>4. PICK r \in Int : r = c \div 365 /\ 365 * r <= c /\ c < 365 * r + 365
  BY By365, SMT
<1>5. PICK y \in Int : y = p * 400 + h * 100 + q * 4 + r
  BY SMT
<1>6. GuessYear(d, FALSE) = y
  BY <1>1, <1>2, <1>3, <1>4, <1>5, SMT DEF GuessYear
<1>7. 0 <= h /\ h <= 4 /\ 0 <= q /\ q <= 24 /\ (h = 4 => b = 0)
  BY <1>1, <1>2, <1>3, SMT
<1>8. h = 4 => q = 0 /\ r = 0
  BY <1>3, <1>4, <1>7, SMT
<1>9. GregorianParts(d, p, h, q, c, r, y)
  BY <1>1, <1>2, <1>3, <1>4, <1>5, <1>7, <1>8, SMT DEF GregorianParts
<1>10. 10 <= d - YearStart(y, FALSE) /\ d - YearStart(y, FALSE) <= 375
  BY <1>9, GregorianCycles, ZenonT(60)
<1> QED
  BY <1>6, <1>10, Zenon

LEMMA GuessNear ==
  ASSUME NEW d \in Int, NEW julian \in BOOLEAN
  PROVE  /\ GuessYear(d, julian) \in Int
         /\ 10 <= d - YearStart(GuessYear(d, julian), julian)
         /\ d - YearStart(GuessYear(d, julian), julian) <= 375
<1>1. CASE julian = TRUE
  BY <1>1, GuessJulian, ZenonT(60)
<1>2. CASE julian = FALSE
  BY <1>2, GuessGregorian, ZenonT(60)
<1> QED
  BY <1>1, <1>2, Zenon

-----------------------------------------------------------------------------
(* Months.                                                                 *)
LEMMA MonthTable ==
  ASSUME NEW leap \in BOOLEAN
  PROVE  /\ mtod(leap, 0) = 0 /\ mtod(leap, 1) = 31
         /\ mtod(leap, 2) = 59 + IF leap THEN 1 ELSE 0
         /\ mtod(leap, 3) = 90 + IF leap THEN 1 ELSE 0
         /\ mtod(leap, 4) = 120 + IF leap THEN 1 ELSE 0
         /\ mtod(leap, 5) = 151 + IF leap THEN 1 ELSE 0
         /\ mtod(leap, 6) = 181 + IF leap THEN 1 ELSE 0
         /\ mtod(leap, 7) = 212 + IF leap THEN 1 ELSE 0
         /\ mtod(leap, 8) = 243 + IF leap THEN 1 ELSE 0
         /\ mtod(leap, 9) = 273 + IF leap THEN 1 ELSE 0
         /\ mtod(leap, 10) = 304 + IF leap THEN 1 ELSE 0
         /\ mtod(leap, 11) = 334 + IF leap THEN 1 ELSE 0
         /\ mtod(leap, 12) = 365 + IF leap THEN 1 ELSE 0
BY SMT DEF mtod, days_before

LEMMA TwelveMonths ==
  ASSUME NEW m \in 1 .. 12
  PROVE  \/ m = 1 \/ m = 2 \/ m = 3 \/ m = 4 \/ m = 5 \/ m = 6 \/ m = 7 \/ m = 8 \/ m = 9
         \/ m = 10 \/ m = 11 \/ m = 12
BY SMT

(* Day dd of a year falls into month m. *)
InMonth(leap, dd, m) == mtod(leap, m - 1) <= dd /\ dd < mtod(leap, m)

LEMMA MonthLengths ==
  ASSUME NEW leap \in BOOLEAN, NEW m \in 1 .. 12
  PROVE  /\ mtod(leap, m) \in Int /\ mtod(leap, m - 1) \in Int
         /\ mtod(leap, m) - mtod(leap, m - 1) <= 31 /\ 0 <= mtod(leap, m - 1)
<1>1. \/ m = 1 \/ m = 2 \/ m = 3 \/ m = 4 \/ m = 5 \/ m = 6 \/ m = 7 \/ m = 8 \/ m = 9
      \/ m = 10 \/ m = 11 \/ m = 12
  BY TwelveMonths
<1> QED
  BY <1>1, MonthTable, SMT

(* Every day of a year is in a month. *)
LEMMA MonthOfDay ==
  ASSUME NEW leap \in BOOLEAN, NEW dd \in Int, 0 <= dd, dd < 365 + IF leap THEN 1 ELSE 0
  PROVE  \E m \in 1 .. 12 : /\ InMonth(leap, dd, m)
                            /\ day2md(leap, dd) = <<m, dd - mtod(leap, m - 1) + 1>>
<1> DEFINE m == CHOOSE i \in 1 .. 12 : InMonth(leap, dd, i)
<1>1. \E i \in 1 .. 12 : InMonth(leap, dd, i)
  <2>1. \/ InMonth(leap, dd, 1) \/ InMonth(leap, dd, 2) \/ InMonth(leap, dd, 3)
        \/ InMonth(leap, dd, 4) \/ InMonth(leap, dd, 5) \/ InMonth(leap, dd, 6)
        \/ InMonth(leap, dd, 7) \/ InMonth(leap, dd, 8) \/ InMonth(leap, dd, 9)
        \/ InMonth(leap, dd, 10) \/ InMonth(leap, dd, 11) \/ InMonth(leap, dd, 12)
    BY MonthTable, SMT DEF InMonth
  <2> QED
    BY <2>1, SMT
<1>2. m \in 1 .. 12 /\ InMonth(leap, dd, m)
  BY <1>1, Zenon
<1>3. day2md(leap, dd) = <<m, dd - mtod(leap, m - 1) + 1>>
  BY SMT DEF day2md, InMonth
<1> QED
  BY <1>2, <1>3

-----------------------------------------------------------------------------
(* What date2tm finds of day d of a calendar: year y0 at the first guess,  *)
(* of which it is day e; year y and day dd of it after the correction by   *)
(* the Gregorian rule; month m.                                            *)
Found(d, julian, y0, e, y, dd, m) ==
    /\ d \in Int /\ y0 \in Int /\ e \in Int /\ y \in Int /\ dd \in Int /\ m \in 1 .. 12
    /\ 10 <= e /\ e <= 375 /\ YearStart(y0, julian) + e = d
    /\ \/ y = y0 /\ dd = e
       \/ y = y0 + 1 /\ dd = e - (IF IsRn(y0) THEN 366 ELSE 365) /\ dd <= 10
    /\ 0 <= dd /\ dd < 365 + IF IsRn(y) THEN 1 ELSE 0
    /\ InMonth(IsRn(y), dd, m)

YearOf(y) == y - 110000
MdayOf(y, dd, m) == dd - mtod(IsRn(y), m - 1) + 1

FieldsOf(d, julian, y, dd, m) ==
    [year |-> YearOf(y), month |-> m, mday |-> MdayOf(y, dd, m), wday |-> WeekDay(d, julian)]

LEMMA CorrectedDay ==
  ASSUME NEW y0 \in Int, NEW e \in Int, 10 <= e, e <= 375
  PROVE  \E y \in Int, dd \in Int :
            /\ Corrected(y0, e) = <<y, dd>>
            /\ \/ y = y0 /\ dd = e
               \/ y = y0 + 1 /\ dd = e - (IF IsRn(y0) THEN 366 ELSE 365) /\ dd <= 10
            /\ 0 <= dd /\ dd < 365 + IF IsRn(y) THEN 1 ELSE 0
<1>1. CASE e < 365
  <2>1. Corrected(y0, e) = <<y0, e>>
    BY <1>1, SMT DEF Corrected
  <2> QED
    BY <1>1, <2>1, SMT
<1>2. CASE 365 <= e /\ ~IsRn(y0)
  <2>1. Corrected(y0, e) = <<y0 + 1, e - 365>>
    BY <1>2, SMT DEF Corrected, LeapInDate2tm
  <2> QED
    BY <1>2, <2>1, SMT
<1>3. CASE e = 365 /\ IsRn(y0)
  <2>1. Corrected(y0, e) = <<y0, e>>
    BY <1>3, SMT DEF Corrected, LeapInDate2tm
  <2> QED
    BY <1>3, <2>1, SMT
<1>4. CASE 365 < e /\ IsRn(y0)
  <2>1. Corrected(y0, e) = <<y0 + 1, e - 366>>
    BY <1>4, SMT DEF Corrected, LeapInDate2tm
  <2> QED
    BY <1>4, <2>1, SMT
<1> QED
  BY <1>1, <1>2, <1>3, <1>4, SMT

LEMMA DayFound ==
  ASSUME NEW d \in Int, NEW julian \in BOOLEAN
  PROVE  \E y0 \in Int, e \in Int, y \in Int, dd \in Int, m \in 1 .. 12 :
            /\ Found(d, julian, y0, e, y, dd, m)
            /\ InYears(d, julian) = FieldsOf(d, julian, y, dd, m)
<1>1. PICK y0 \in Int : /\ y0 = GuessYear(d, julian)
                        /\ 10 <= d - YearStart(y0, julian) /\ d - YearStart(y0, julian) <= 375
  BY GuessNear, ZenonT(60)
<1>2. PICK e \in Int : e = d - YearStart(y0, julian)
  BY NextYearStart, SMT
<1>3. YearStart(y0, julian) + e = d /\ 10 <= e /\ e <= 375
  BY <1>1, <1>2, NextYearStart, SMT
<1>4. PICK y \in Int, dd \in Int :
            /\ Corrected(y0, e) = <<y, dd>>
            /\ \/ y = y0 /\ dd = e
               \/ y = y0 + 1 /\ dd = e - (IF IsRn(y0) THEN 366 ELSE 365) /\ dd <= 10
            /\ 0 <= dd /\ dd < 365 + IF IsRn(y) THEN 1 ELSE 0
  BY <1>3, CorrectedDay, SMT
<1>5. IsRn(y) \in BOOLEAN
  BY DEF IsRn
<1>6. PICK m \in 1 .. 12 : /\ InMonth(IsRn(y), dd, m)
                           /\ day2md(IsRn(y), dd) = <<m, dd - mtod(IsRn(y), m - 1) + 1>>
  BY <1>4, <1>5, MonthOfDay, SMT
<1>7. Found(d, julian, y0, e, y, dd, m)
  BY <1>3, <1>4, <1>6, SMT DEF Found
<1>8. /\ Corrected(GuessYear(d, julian), d - YearStart(GuessYear(d, julian), julian)) = <<y, dd>>
  BY <1>1, <1>2, <1>4, Zenon
<1>9. InYears(d, julian) = FieldsOf(d, julian, y, dd, m)
  BY <1>6, <1>8, SMT DEF InYears, FieldsOf, YearOf, MdayOf, LeapInDate2tm
<1> QED
  BY <1>7, <1>9, Zenon

-----------------------------------------------------------------------------
(* Where the day found lies in the years that tm2date counts.              *)
Century(y) == y % 100 = 0 /\ y % 400 # 0

LEMMA Leaps ==
  ASSUME NEW y \in Int
  PROVE  /\ IsRn(y) \in BOOLEAN /\ Century(y) \in BOOLEAN
         /\ LeapInTm2date(y, FALSE) <=> IsRn(y)
         /\ LeapInTm2date(y, TRUE) <=> (IsRn(y) \/ Century(y))
         /\ ~(IsRn(y) /\ Century(y))
         /\ Century(y) => ~Century(y + 1) /\ ~IsRn(y + 1)
<1>1. (y % 100 = 0 => y % 4 = 0) /\ (y % 400 = 0 => y % 100 = 0)
  BY SMT
<1>2. y % 100 = 0 => (y + 1) % 4 # 0 /\ (y + 1) % 100 # 0 /\ (y + 1) % 400 # 0
  BY SMT
<1> QED
  BY <1>1, <1>2, ZenonT(60) DEF IsRn, Century, LeapInTm2date

(* The length of a year in days, for the one calendar and for the other. *)
FromYearToYear(y, julian) ==
    /\ YearStart(y, julian) \in Int /\ YearStart(y + 1, julian) \in Int
    /\ LeapInTm2date(y, julian) => YearStart(y + 1, julian) = YearStart(y, julian) + 366
    /\ ~LeapInTm2date(y, julian) => YearStart(y + 1, julian) = YearStart(y, julian) + 365

LEMMA Lengths ==
  ASSUME NEW y \in Int, NEW julian \in BOOLEAN
  PROVE  FromYearToYear(y, julian)
<1>1. y + 1 \in Int
  BY SMT
<1>2. /\ LeapInTm2date(y, julian) => YearLength(y, julian) = 366
      /\ ~LeapInTm2date(y, julian) => YearLength(y, julian) = 365
  BY SMT DEF YearLength
<1>3. /\ YearStart(y, julian) \in Int /\ YearStart(y + 1, julian) \in Int
      /\ YearStart(y + 1, julian) = YearStart(y, julian) + YearLength(y, julian)
  BY <1>1, NextYearStart, Zenon
<1> QED
  BY <1>2, <1>3, ZenonT(60) DEF FromYearToYear

(* In the Gregorian calendar the corrected day is the day. *)
GregorianAt(d, y, dd) == YearStart(y, FALSE) \in Int /\ YearStart(y, FALSE) + dd = d

LEMMA GregorianPlace ==
  ASSUME NEW d, NEW y0, NEW e, NEW y, NEW dd, NEW m, Found(d, FALSE, y0, e, y, dd, m)
  PROVE  GregorianAt(d, y, dd)
<1> USE DEF GregorianAt
<1> DEFINE s == YearStart(y0, FALSE)
           t == YearStart(y0 + 1, FALSE)
<1>0. d \in Int /\ y0 \in Int /\ e \in Int /\ y \in Int /\ dd \in Int /\ m \in 1 .. 12
  BY Zenon DEF Found
<1>1. s + e = d
  BY Zenon DEF Found
<1>2. /\ s \in Int /\ t \in Int
      /\ LeapInTm2date(y0, FALSE) => t = s + 366
      /\ ~LeapInTm2date(y0, FALSE) => t = s + 365
  <2>1. FromYearToYear(y0, FALSE)
    BY <1>0, Lengths, Zenon
  <2> QED
    BY <2>1, Zenon DEF FromYearToYear
<1>3. LeapInTm2date(y0, FALSE) <=> IsRn(y0)
  BY <1>0, Leaps, Zenon
<1>4. CASE y = y0 /\ dd = e
  BY <1>1, <1>2, <1>4, Zenon
<1>5. CASE y = y0 + 1 /\ dd = e - (IF IsRn(y0) THEN 366 ELSE 365)
  <2> DEFINE Adds(a, l) == a + e = d => (a + l) + (e - l) = d
  <2>1. \A a \in Int : Adds(a, 366) /\ Adds(a, 365)
    BY <1>0, SMT
  <2>2. YearStart(y, FALSE) = t
    BY <1>5, Zenon
  <2> HIDE DEF s, t
  <2>3. CASE IsRn(y0)
    <3>1. t = s + 366 /\ dd = e - 366
      BY <1>2, <1>3, <1>5, <2>3, ZenonT(60)
    <3>2. t + dd = d
      BY <1>0, <1>1, <1>2, <3>1, SMT
    <3> QED
      BY <1>2, <2>2, <3>2, Zenon
  <2>4. CASE ~IsRn(y0)
    <3>1. t = s + 365 /\ dd = e - 365
      BY <1>2, <1>3, <1>5, <2>4, Zenon
    <3>2. t + dd = d
      BY <1>0, <1>1, <1>2, <3>1, SMT
    <3> QED
      BY <1>2, <2>2, <3>2, Zenon
  <2> QED
    BY <2>3, <2>4
<1> QED
  BY <1>4, <1>5, Zenon DEF Found

(* In the Julian calendar it is, too, except that the century years have a *)
(* day more than the correction takes off.                                 *)
JulianAt(d, y0, e, y, dd) ==
    /\ YearStart(y, TRUE) \in Int
    /\ Century(y0) /\ y = y0 + 1 => YearStart(y, TRUE) + dd = d + 1 /\ 365 <= e
    /\ ~(Century(y0) /\ y = y0 + 1) => YearStart(y, TRUE) + dd = d

LEMMA JulianPlace ==
  ASSUME NEW d, NEW y0, NEW e, NEW y, NEW dd, NEW m, Found(d, TRUE, y0, e, y, dd, m)
  PROVE  JulianAt(d, y0, e, y, dd)
<1> USE DEF JulianAt
<1> DEFINE s == YearStart(y0, TRUE)
           t == YearStart(y0 + 1, TRUE)
<1>0. d \in Int /\ y0 \in Int /\ e \in Int /\ y \in Int /\ dd \in Int /\ m \in 1 .. 12
  BY Zenon DEF Found
<1>1. s + e = d
  BY Zenon DEF Found
<1>2. /\ s \in Int /\ t \in Int
      /\ LeapInTm2date(y0, TRUE) => t = s + 366
      /\ ~LeapInTm2date(y0, TRUE) => t = s + 365
  <2>1. FromYearToYear(y0, TRUE)
    BY <1>0, Lengths, Zenon
  <2> QED
    BY <2>1, Zenon DEF FromYearToYear
<1>3. /\ LeapInTm2date(y0, TRUE) <=> IsRn(y0) \/ Century(y0)
      /\ ~(IsRn(y0) /\ Century(y0))
  BY <1>0, Leaps, Zenon
<1>4. CASE y = y0 /\ dd = e
  <2>1. y # y0 + 1
    BY <1>0, <1>4, SMT
  <2> QED
    BY <1>1, <1>2, <1>4, <2>1, Zenon
<1>5. CASE y = y0 + 1 /\ dd = e - (IF IsRn(y0) THEN 366 ELSE 365)
  <2> DEFINE Adds(a, l) == a + e = d => (a + l) + (e - l) = d
  <2>1. \A a \in Int : Adds(a, 366) /\ Adds(a, 365)
    BY <1>0, SMT
  <2>2. \A a \in Int : a + e = d => (a + 366) + (e - 365) = d + 1
    BY <1>0, SMT
  <2>3. ~IsRn(y0) => 365 <= e
    BY <1>0, <1>5, SMT DEF Found
  <2>4. YearStart(y, TRUE) = t
    BY <1>5, Zenon
  <2> HIDE DEF s, t
  <2>5. CASE IsRn(y0)
    <3>1. t = s + 366 /\ dd = e - 366 /\ ~Century(y0)
      BY <1>2, <1>3, <1>5, <2>5, ZenonT(60)
    <3>2. t + dd = d
      BY <1>0, <1>1, <1>2, <3>1, SMT
    <3> QED
      BY <1>2, <2>4, <3>1, <3>2, ZenonT(60)
  <2>6. CASE Century(y0)
    <3>1. t = s + 366 /\ dd = e - 365 /\ ~IsRn(y0)
      BY <1>2, <1>3, <1>5, <2>6, Zenon
    <3>2. t + dd = d + 1
      BY <1>0, <1>1, <1>2, <3>1, SMT
    <3> QED
      BY <1>2, <1>5, <2>3, <2>4, <2>6, <3>1, <3>2, Zenon
  <2>7. CASE ~IsRn(y0) /\ ~Century(y0)
    <3>1. t = s + 365 /\ dd = e - 365
      BY <1>2, <1>3, <1>5, <2>7, Zenon
    <3>2. t + dd = d
      BY <1>0, <1>1, <1>2, <3>1, SMT
    <3> QED
      BY <1>2, <2>4, <2>7, <3>2, Zenon
  <2> QED
    BY <2>5, <2>6, <2>7
<1> QED
  BY <1>4, <1>5, Zenon DEF Found

(* The days date2tm mistakes: from 29 February of a Julian century year    *)
(* on, as long as its first guess is that year.                            *)
Late(y0, e) == Century(y0) /\ 59 <= e

(* What tm2date makes of fields, before it goes over to days since 1970.   *)
DayCount(julian, y, dd, m) ==
    MdayOf(y, dd, m) + mtod(LeapInTm2date(y, julian), m - 1) - 1 + YearStart(y, julian)

GregorianCounted(d, y, dd, m) == DayCount(FALSE, y, dd, m) = d

LEMMA GregorianCount ==
  ASSUME NEW d, NEW y0, NEW e, NEW y, NEW dd, NEW m, Found(d, FALSE, y0, e, y, dd, m)
  PROVE  GregorianCounted(d, y, dd, m)
<1> DEFINE b == YearStart(y, FALSE)
           k == mtod(IsRn(y), m - 1)
<1>0. d \in Int /\ y0 \in Int /\ e \in Int /\ y \in Int /\ dd \in Int /\ m \in 1 .. 12
  BY Zenon DEF Found
<1>1. b \in Int /\ b + dd = d
  <2>1. GregorianAt(d, y, dd)
    BY GregorianPlace, Zenon
  <2> QED
    BY <2>1, Zenon DEF GregorianAt
<1>2. mtod(LeapInTm2date(y, FALSE), m - 1) = k /\ IsRn(y) \in BOOLEAN
  BY <1>0, Leaps, Zenon DEF mtod
<1>3. k \in Int
  BY <1>0, <1>2, MonthLengths, Zenon
<1>4. \A u, v \in Int : v + dd = d => dd - u + 1 + u - 1 + v = d
  BY <1>0, SMT
<1>5. DayCount(FALSE, y, dd, m) = dd - k + 1 + k - 1 + b
  BY <1>2, Zenon DEF DayCount, MdayOf
<1> HIDE DEF b, k
<1> QED
  BY <1>1, <1>3, <1>4, <1>5, Zenon DEF GregorianCounted

(* From March on a leap year is a day further; March begins with day 59.   *)
LEMMA LeapMonths ==
  ASSUME NEW m \in 1 .. 12, NEW dd \in Int, mtod(FALSE, m - 1) <= dd, dd < mtod(FALSE, m)
  PROVE  /\ 59 <= dd => mtod(TRUE, m - 1) = mtod(FALSE, m - 1) + 1
         /\ ~(59 <= dd) => mtod(TRUE, m - 1) = mtod(FALSE, m - 1)
<1>1. \/ m = 1 \/ m = 2 \/ m = 3 \/ m = 4 \/ m = 5 \/ m = 6 \/ m = 7 \/ m = 8 \/ m = 9
      \/ m = 10 \/ m = 11 \/ m = 12
  BY TwelveMonths
<1> QED
  BY <1>1, SMT DEF mtod, days_before

JulianCounted(d, y0, e, y, dd, m) ==
    /\ Late(y0, e) => DayCount(TRUE, y, dd, m) = d + 1
    /\ ~Late(y0, e) => DayCount(TRUE, y, dd, m) = d

LEMMA JulianCount ==
  ASSUME NEW d, NEW y0, NEW e, NEW y, NEW dd, NEW m, Found(d, TRUE, y0, e, y, dd, m)
  PROVE  JulianCounted(d, y0, e, y, dd, m)
<1> USE DEF JulianCounted
<1> DEFINE b == YearStart(y, TRUE)
           k == mtod(IsRn(y), m - 1)
           l == mtod(LeapInTm2date(y, TRUE), m - 1)
<1>0. d \in Int /\ y0 \in Int /\ e \in Int /\ y \in Int /\ dd \in Int /\ m \in 1 .. 12
  BY Zenon DEF Found
<1>1. /\ b \in Int
      /\ Century(y0) /\ y = y0 + 1 => b + dd = d + 1 /\ 365 <= e
      /\ ~(Century(y0) /\ y = y0 + 1) => b + dd = d
  <2>1. JulianAt(d, y0, e, y, dd)
    BY JulianPlace, Zenon
  <2> QED
    BY <2>1, Zenon DEF JulianAt
<1>2. IsRn(y) \in BOOLEAN /\ LeapInTm2date(y, TRUE) \in BOOLEAN
  BY <1>0, Leaps, Zenon DEF LeapInTm2date
<1>3. k \in Int /\ l \in Int
  BY <1>0, <1>2, MonthLengths, Zenon
<1>4. DayCount(TRUE, y, dd, m) = dd - k + 1 + l - 1 + b
  BY Zenon DEF DayCount, MdayOf
<1>5. \A u, v \in Int : /\ v + dd = d + 1 => dd - u + 1 + u - 1 + v = d + 1
                        /\ v + dd = d => dd - u + 1 + u - 1 + v = d
                        /\ v + dd = d => dd - u + 1 + (u + 1) - 1 + v = d + 1
  BY <1>0, SMT
<1> HIDE DEF b, k, l
<1>6. CASE ~Century(y)
  <2>1. k = l
    BY <1>0, <1>6, Leaps, Zenon DEF mtod, k, l
  <2>2. Century(y0) /\ y = y0 + 1 => Late(y0, e)
    <3>1. 365 <= e => 59 <= e
      BY <1>0, SMT
    <3> QED
      BY <1>1, <3>1, Zenon DEF Late
  <2>3. Late(y0, e) => y = y0 + 1
    BY <1>6, Zenon DEF Late, Found
  <2> QED
    BY <1>1, <1>3, <1>4, <1>5, <2>1, <2>2, <2>3, Zenon DEF Late
<1>7. CASE Century(y)
  <2>1. LeapInTm2date(y, TRUE) = TRUE /\ IsRn(y) = FALSE
    BY <1>0, <1>2, <1>7, Leaps, Zenon
  <2>2. b + dd = d
    BY <1>0, <1>1, <1>7, Leaps, Zenon
  <2>3. mtod(FALSE, m - 1) <= dd /\ dd < mtod(FALSE, m)
    BY <2>1, Zenon DEF Found, InMonth
  <2>4. /\ 59 <= dd => mtod(TRUE, m - 1) = mtod(FALSE, m - 1) + 1
        /\ ~(59 <= dd) => mtod(TRUE, m - 1) = mtod(FALSE, m - 1)
    BY <1>0, <2>3, LeapMonths, Zenon
  <2>5. 59 <= dd <=> Late(y0, e)
    <3>1. CASE y = y0 /\ dd = e
      BY <1>7, <3>1, Zenon DEF Late
    <3>2. CASE y = y0 + 1 /\ dd <= 10
      <4>1. ~Century(y0)
        BY <1>0, <1>7, <3>2, Leaps, Zenon
      <4>2. ~(59 <= dd)
        BY <1>0, <3>2, SMT
      <4> QED
        BY <4>1, <4>2, Zenon DEF Late
    <3> QED
      BY <3>1, <3>2, Zenon DEF Found
  <2>6. /\ Late(y0, e) => l = k + 1
        /\ ~Late(y0, e) => l = k
    BY <2>1, <2>4, <2>5, Zenon DEF k, l
  <2>7. CASE Late(y0, e)
    <3>1. l = k + 1
      BY <2>6, <2>7, Zenon
    <3>2. dd - k + 1 + l - 1 + b = d + 1
      BY <1>0, <1>1, <1>3, <2>2, <3>1, SMT
    <3> QED
      BY <1>4, <2>7, <3>2, Zenon
  <2>8. CASE ~Late(y0, e)
    <3>1. l = k
      BY <2>6, <2>8, Zenon
    <3>2. dd - k + 1 + l - 1 + b = d
      BY <1>0, <1>1, <1>3, <2>2, <3>1, SMT
    <3> QED
      BY <1>4, <2>8, <3>2, Zenon
  <2> QED
    BY <2>7, <2>8
<1> QED
  BY <1>6, <1>7

-----------------------------------------------------------------------------
(* The reform lies where tm2date looks for it: in October 1582, which is   *)
(* year 111582 as the years are counted here.                              *)
ReformYear == 111582
FirstGregorian(julian) == JulianBefore + IF julian THEN JulianShift ELSE GregorianShift

LEMMA ReformNoLeap == ReformYear \in Int /\ ~IsRn(ReformYear) /\ ~Century(ReformYear - 1)
BY SMT DEF ReformYear, IsRn, Century

LEMMA October ==
  ASSUME NEW m \in 1 .. 12, NEW dd \in Int, InMonth(FALSE, dd, m)
  PROVE  LET early == m < 10 \/ (m = 10 /\ dd - mtod(FALSE, m - 1) + 1 < 5)
         IN  (dd <= 276 => early) /\ (287 <= dd => ~early)
<1>1. \/ m = 1 \/ m = 2 \/ m = 3 \/ m = 4 \/ m = 5 \/ m = 6 \/ m = 7 \/ m = 8 \/ m = 9
      \/ m = 10 \/ m = 11 \/ m = 12
  BY TwelveMonths
<1> QED
  BY <1>1, SMT DEF InMonth, mtod, days_before

LEMMA JulianIsBefore ==
  ASSUME NEW d, NEW y0, NEW e, NEW y, NEW dd, NEW m, Found(d, TRUE, y0, e, y, dd, m),
         d < FirstGregorian(TRUE)
  PROVE  BeforeReform(YearOf(y), m, MdayOf(y, dd, m))
<1> DEFINE s == YearStart(y, TRUE)
           r == YearStart(ReformYear, TRUE)
           yy == YearOf(y)
           md == MdayOf(y, dd, m)
<1>0. d \in Int /\ y0 \in Int /\ e \in Int /\ y \in Int /\ dd \in Int /\ m \in 1 .. 12 /\ 0 <= dd
  BY Zenon DEF Found
<1>1. JulianAt(d, y0, e, y, dd)
  BY JulianPlace, Zenon
<1>2. s \in Int /\ (s + dd = d \/ s + dd = d + 1)
  BY <1>1, Zenon DEF JulianAt
<1>3. ~(Century(y0) /\ y = y0 + 1) => s + dd = d
  BY <1>1, Zenon DEF JulianAt
<1>4. ReformYear <= y => r + 365 * (y - ReformYear) <= s
  BY <1>0, YearStartGrows, ReformNoLeap, ZenonT(60) DEF YearsApart
<1>5. r = 40755325
  BY SMT DEF YearStart, ReformYear
<1>6. d < 40755602
  BY <1>0, SMT DEF FirstGregorian, JulianBefore, JulianShift
<1>7. IsRn(y) = FALSE /\ InMonth(IsRn(y), dd, m) => InMonth(FALSE, dd, m)
  BY Zenon
<1> HIDE DEF s, r
<1>8. y <= ReformYear
  BY <1>0, <1>2, <1>4, <1>5, <1>6, SMT DEF ReformYear
<1>9. CASE y < ReformYear
  <2>1. yy < 1582
    BY <1>0, <1>9, SMT DEF ReformYear, YearOf
  <2> HIDE DEF yy, md
  <2>2. BeforeReform(yy, m, md)
    BY <2>1, SMT DEF BeforeReform
  <2> QED
    BY <2>2, Zenon DEF yy, md
<1>10. CASE y = ReformYear
  <2>1. y = y0 + 1 => ~Century(y0)
    <3>1. y = y0 + 1 => y0 = ReformYear - 1
      BY <1>0, <1>10, SMT
    <3> QED
      BY <3>1, ReformNoLeap, Zenon
  <2>2. s + dd = d
    BY <1>3, <2>1, Zenon
  <2>3. dd <= 276
    <3>1. r <= s
      BY <1>0, <1>2, <1>4, <1>5, <1>10, SMT DEF ReformYear
    <3> QED
      BY <1>0, <1>2, <1>5, <1>6, <2>2, <3>1, SMT
  <2>4. IsRn(y) = FALSE
    BY <1>10, ReformNoLeap, Zenon DEF IsRn
  <2>5. InMonth(FALSE, dd, m)
    BY <1>7, <2>4, Zenon DEF Found
  <2>6. m < 10 \/ (m = 10 /\ md < 5)
    BY <1>0, <2>3, <2>4, <2>5, October, ZenonT(60) DEF MdayOf
  <2>7. yy = 1582
    BY <1>10, SMT DEF ReformYear, YearOf
  <2> HIDE DEF yy, md
  <2>8. BeforeReform(yy, m, md)
    BY <2>6, <2>7, SMT DEF BeforeReform
  <2> QED
    BY <2>8, Zenon DEF yy, md
<1>11. y < ReformYear \/ y = ReformYear
  BY <1>0, <1>8, SMT DEF ReformYear
<1> QED
  BY <1>9, <1>10, <1>11, Zenon

LEMMA GregorianIsAfter ==
  ASSUME NEW d, NEW y0, NEW e, NEW y, NEW dd, NEW m, Found(d, FALSE, y0, e, y, dd, m),
         FirstGregorian(FALSE) <= d
  PROVE  ~BeforeReform(YearOf(y), m, MdayOf(y, dd, m))
<1> DEFINE s == YearStart(y, FALSE)
           t == YearStart(y + 1, FALSE)
           r == YearStart(ReformYear, FALSE)
           yy == YearOf(y)
           md == MdayOf(y, dd, m)
<1>0. d \in Int /\ y0 \in Int /\ e \in Int /\ y \in Int /\ dd \in Int /\ m \in 1 .. 12
  BY Zenon DEF Found
<1>1. (IsRn(y) => dd < 366) /\ (~IsRn(y) => dd < 365)
  BY <1>0, SMT DEF Found
<1>2. s \in Int /\ s + dd = d
  <2>1. GregorianAt(d, y, dd)
    BY GregorianPlace, Zenon
  <2> QED
    BY <2>1, Zenon DEF GregorianAt
<1>3. /\ t \in Int
      /\ IsRn(y) => t = s + 366
      /\ ~IsRn(y) => t = s + 365
  <2>1. FromYearToYear(y, FALSE)
    BY <1>0, Lengths, Zenon
  <2>2. LeapInTm2date(y, FALSE) <=> IsRn(y)
    BY <1>0, Leaps, Zenon
  <2> QED
    BY <2>1, <2>2, Zenon DEF FromYearToYear
<1>4. y + 1 <= ReformYear => t + 365 * (ReformYear - (y + 1)) <= r
  <2>1. y + 1 \in Int
    BY <1>0, SMT
  <2> QED
    BY <2>1, YearStartGrows, ReformNoLeap, ZenonT(60) DEF YearsApart
<1>5. r = 40754488
  BY SMT DEF YearStart, ReformYear
<1>6. 40754775 <= d
  BY <1>0, SMT DEF FirstGregorian, JulianBefore, GregorianShift
<1> HIDE DEF s, t, r
<1>7. s + dd < t
  BY <1>0, <1>1, <1>2, <1>3, SMT
<1>8. ReformYear <= y
  BY <1>0, <1>2, <1>3, <1>4, <1>5, <1>7, <1>6, SMT DEF ReformYear
<1>9. CASE ReformYear < y
  <2>1. yy \in Int /\ 1582 < yy
    BY <1>0, <1>9, SMT DEF ReformYear, YearOf
  <2> HIDE DEF yy, md
  <2>2. ~(yy < 1582) /\ yy # 1582
    BY <2>1, SMT
  <2>3. ~BeforeReform(yy, m, md)
    BY <2>2, SMT DEF BeforeReform
  <2> QED
    BY <2>3, Zenon DEF yy, md
<1>10. CASE y = ReformYear
  <2>1. s = r
    BY <1>10, Zenon DEF s, r
  <2>2. 287 <= dd
    BY <1>0, <1>2, <1>5, <1>6, <2>1, SMT
  <2>3. IsRn(y) = FALSE
    BY <1>10, ReformNoLeap, Zenon DEF IsRn
  <2>4. InMonth(FALSE, dd, m)
    BY <2>3, Zenon DEF Found
  <2>5. ~(m < 10 \/ (m = 10 /\ md < 5))
    BY <1>0, <2>2, <2>3, <2>4, October, ZenonT(60) DEF MdayOf
  <2>6. yy = 1582 /\ ~(yy < 1582)
    BY <1>10, SMT DEF ReformYear, YearOf
  <2> HIDE DEF yy, md
  <2>7. ~BeforeReform(yy, m, md)
    BY <2>5, <2>6, SMT DEF BeforeReform
  <2> QED
    BY <2>7, Zenon DEF yy, md
<1>11. ReformYear < y \/ y = ReformYear
  BY <1>0, <1>8, SMT DEF ReformYear
<1> QED
  BY <1>9, <1>10, <1>11, Zenon

-----------------------------------------------------------------------------
(* There and back, for each calendar: the day itself, or the day after if  *)
(* date2tm is late.                                                        *)
Epoch(julian) == IF julian THEN JulianShift ELSE GregorianShift
Back(d, julian, y, dd, m) ==
    tm2date(FieldsOf(d, julian, y, dd, m)) = DayCount(julian, y, dd, m) - Epoch(julian)

LEMMA CountOfFields ==
  ASSUME NEW d, NEW y \in Int, NEW dd \in Int, NEW m \in 1 .. 12, NEW julian \in BOOLEAN,
         BeforeReform(YearOf(y), m, MdayOf(y, dd, m)) <=> julian
  PROVE  Back(d, julian, y, dd, m)
<1> DEFINE t == FieldsOf(d, julian, y, dd, m)
           md == MdayOf(y, dd, m)
<1>1. t.year = YearOf(y) /\ t.month = m /\ t.mday = md
  BY Zenon DEF FieldsOf
<1>2. t.year + 110000 = y
  BY <1>1, SMT DEF YearOf
<1>3. BeforeReform(t.year, t.month, t.mday) = julian
  <2>1. BeforeReform(YearOf(y), m, MdayOf(y, dd, m)) \in BOOLEAN
    BY SMT DEF BeforeReform
  <2> QED
    BY <1>1, <2>1, Zenon
<1> HIDE DEF t, md
<1> DEFINE back(yy, j) == t.mday + mtod(LeapInTm2date(yy, j), t.month - 1) - 1 + YearStart(yy, j)
                             - Epoch(j)
<1>4. tm2date(t) = back(t.year + 110000, BeforeReform(t.year, t.month, t.mday))
  BY SMT DEF tm2date, Epoch
<1>5. tm2date(t) = back(y, julian)
  BY <1>2, <1>3, <1>4, SMT
<1>6. back(y, julian) = DayCount(julian, y, dd, m) - Epoch(julian)
  <2>1. t.month = m /\ t.mday = md
    BY <1>1
  <2>2. back(y, julian)
          = md + mtod(LeapInTm2date(y, julian), m - 1) - 1 + YearStart(y, julian) - Epoch(julian)
    BY <2>1
  <2> DEFINE l == mtod(LeapInTm2date(y, julian), m - 1)
             b == YearStart(y, julian)
  <2>3. l \in Int /\ b \in Int /\ md \in Int /\ Epoch(julian) \in Int
    <3>1. IsRn(y) \in BOOLEAN /\ LeapInTm2date(y, julian) \in BOOLEAN
      BY Leaps, ZenonT(60) DEF LeapInTm2date
    <3>2. l \in Int /\ mtod(IsRn(y), m - 1) \in Int
      BY <3>1, MonthLengths, Zenon
    <3>3. b \in Int
      BY NextYearStart, Zenon
    <3>4. md \in Int
      BY <3>2, SMT DEF md, MdayOf
    <3>5. Epoch(julian) \in Int
      BY SMT DEF Epoch, JulianShift, GregorianShift
    <3> QED
      BY <3>2, <3>3, <3>4, <3>5, Zenon
  <2>4. md + l - 1 + b - Epoch(julian) = (md + l - 1 + b) - Epoch(julian)
    <3> HIDE DEF l, b
    <3> QED
      BY <2>3, SMT
  <2>5. DayCount(julian, y, dd, m) = md + l - 1 + b
    BY Zenon DEF DayCount, md
  <2> QED
    BY <2>2, <2>4, <2>5, Zenon
<1> QED
  BY <1>5, <1>6, Zenon DEF t, Back

LEMMA JulianDay ==
  ASSUME NEW n \in Int, n < JulianBefore
  PROVE  \E d, y0, e, y, dd, m :
            /\ Found(d, TRUE, y0, e, y, dd, m) /\ d = n + JulianShift
            /\ date2tm(n) = FieldsOf(d, TRUE, y, dd, m)
            /\ Late(y0, e) => tm2date(date2tm(n)) = n + 1
            /\ ~Late(y0, e) => tm2date(date2tm(n)) = n
<1>1. PICK d \in Int : d = n + JulianShift
  BY SMT DEF JulianShift
<1>2. PICK y0 \in Int, e \in Int, y \in Int, dd \in Int, m \in 1 .. 12 :
            /\ Found(d, TRUE, y0, e, y, dd, m)
            /\ InYears(d, TRUE) = FieldsOf(d, TRUE, y, dd, m)
  BY DayFound, Zenon
<1>3. date2tm(n) = FieldsOf(d, TRUE, y, dd, m)
  BY <1>1, <1>2, Zenon DEF date2tm
<1>4. d < FirstGregorian(TRUE)
  BY <1>1, SMT DEF FirstGregorian, JulianBefore, JulianShift
<1>5. BeforeReform(YearOf(y), m, MdayOf(y, dd, m))
  BY <1>2, <1>4, JulianIsBefore, Zenon
<1>6. tm2date(FieldsOf(d, TRUE, y, dd, m)) = DayCount(TRUE, y, dd, m) - JulianShift
  <2>1. Back(d, TRUE, y, dd, m)
    BY <1>5, CountOfFields, Zenon
  <2>2. Epoch(TRUE) = JulianShift
    BY Zenon DEF Epoch
  <2> QED
    BY <2>1, <2>2, Zenon DEF Back
<1>7. /\ Late(y0, e) => DayCount(TRUE, y, dd, m) = d + 1
      /\ ~Late(y0, e) => DayCount(TRUE, y, dd, m) = d
  <2>1. JulianCounted(d, y0, e, y, dd, m)
    BY <1>2, JulianCount, Zenon
  <2> QED
    BY <2>1, Zenon DEF JulianCounted
<1>8. d - JulianShift = n /\ (d + 1) - JulianShift = n + 1
  BY <1>1, SMT DEF JulianShift
<1>9. /\ Late(y0, e) => tm2date(date2tm(n)) = n + 1
      /\ ~Late(y0, e) => tm2date(date2tm(n)) = n
  BY <1>3, <1>6, <1>7, <1>8, Zenon
<1> QED
  BY <1>1, <1>2, <1>3, <1>9, Zenon

LEMMA GregorianDay ==
  ASSUME NEW n \in Int, ~(n < JulianBefore)
  PROVE  \E d, y0, e, y, dd, m :
            /\ Found(d, FALSE, y0, e, y, dd, m) /\ d = n + GregorianShift
            /\ date2tm(n) = FieldsOf(d, FALSE, y, dd, m)
            /\ tm2date(date2tm(n)) = n
<1>1. PICK d \in Int : d = n + GregorianShift
  BY SMT DEF GregorianShift
<1>2. PICK y0 \in Int, e \in Int, y \in Int, dd \in Int, m \in 1 .. 12 :
            /\ Found(d, FALSE, y0, e, y, dd, m)
            /\ InYears(d, FALSE) = FieldsOf(d, FALSE, y, dd, m)
  BY DayFound, Zenon
<1>3. date2tm(n) = FieldsOf(d, FALSE, y, dd, m)
  BY <1>1, <1>2, Zenon DEF date2tm
<1>4. FirstGregorian(FALSE) <= d
  BY <1>1, SMT DEF FirstGregorian, JulianBefore, GregorianShift
<1>5. ~BeforeReform(YearOf(y), m, MdayOf(y, dd, m))
  BY <1>2, <1>4, GregorianIsAfter, Zenon
<1>6. tm2date(FieldsOf(d, FALSE, y, dd, m)) = DayCount(FALSE, y, dd, m) - GregorianShift
  <2>1. Back(d, FALSE, y, dd, m)
    BY <1>5, CountOfFields, Zenon
  <2>2. Epoch(FALSE) = GregorianShift
    BY Zenon DEF Epoch
  <2> QED
    BY <2>1, <2>2, Zenon DEF Back
<1>7. DayCount(FALSE, y, dd, m) = d
  <2>1. GregorianCounted(d, y, dd, m)
    BY <1>2, GregorianCount, Zenon
  <2> QED
    BY <2>1, Zenon DEF GregorianCounted
<1>8. d - GregorianShift = n
  BY <1>1, SMT DEF GregorianShift
<1>9. tm2date(date2tm(n)) = n
  BY <1>3, <1>6, <1>7, <1>8, Zenon
<1> QED
  BY <1>1, <1>2, <1>3, <1>9, Zenon

-----------------------------------------------------------------------------
(* The days date2tm mistakes are those of Drifts.                          *)
LeapDay(c) == [year |-> c, month |-> 2, mday |-> 29]
YearFrom(c) == c + 110000
TenthOfJanuary(c) == [year |-> c + 1, month |-> 1, mday |-> 10]

OfJulianYear(t, y, k) ==
    /\ y \in Int /\ k \in {0, 1} /\ t.mday \in Int
    /\ t.year + 110000 = y /\ t.month - 1 = k
    /\ BeforeReform(t.year, t.month, t.mday) = TRUE
JulianBack(t, y, k) == tm2date(t) = t.mday - 1 + 31 * k + YearStart(y, TRUE) - JulianShift

LEMMA JulianDate ==
  ASSUME NEW t, NEW y, NEW k, OfJulianYear(t, y, k)
  PROVE  JulianBack(t, y, k)
<1> DEFINE back(yy, j, mm) == t.mday + mtod(LeapInTm2date(yy, j), mm) - 1 + YearStart(yy, j) - Epoch(j)
<1>0. y \in Int /\ k \in {0, 1} /\ t.mday \in Int
  BY SMT DEF OfJulianYear
<1>1. t.year + 110000 = y /\ t.month - 1 = k /\ BeforeReform(t.year, t.month, t.mday) = TRUE
  BY SMT DEF OfJulianYear
<1>2. tm2date(t) = back(t.year + 110000, BeforeReform(t.year, t.month, t.mday), t.month - 1)
  BY SMT DEF tm2date, Epoch
<1>3. tm2date(t) = back(y, TRUE, k)
  <2> DEFINE yy == t.year + 110000
             jj == BeforeReform(t.year, t.month, t.mday)
             mm == t.month - 1
  <2>1. yy = y /\ jj = TRUE /\ mm = k
    BY <1>1
  <2>2. tm2date(t) = back(yy, jj, mm)
    BY <1>2
  <2> HIDE DEF yy, jj, mm, back
  <2> QED
    BY <2>1, <2>2, Zenon
<1>4. LeapInTm2date(y, TRUE) \in BOOLEAN
  BY <1>0, Leaps, Zenon DEF LeapInTm2date
<1>5. mtod(LeapInTm2date(y, TRUE), k) = 31 * k
  <2>1. CASE k = 0
    BY <1>4, <2>1, SMT DEF mtod, days_before
  <2>2. CASE k = 1
    BY <1>4, <2>2, SMT DEF mtod, days_before
  <2> QED
    BY <1>0, <2>1, <2>2
<1>6. YearStart(y, TRUE) \in Int
  BY <1>0, NextYearStart, Zenon
<1> DEFINE s == YearStart(y, TRUE)
           md == t.mday
           l == mtod(LeapInTm2date(y, TRUE), k)
<1>7. tm2date(t) = md + l - 1 + s - JulianShift
  BY <1>3, Zenon DEF Epoch
<1>8. md \in Int /\ s \in Int /\ l = 31 * k
  BY <1>0, <1>5, <1>6
<1> HIDE DEF s, md, l
<1>9. md + l - 1 + s - JulianShift = md - 1 + 31 * k + s - JulianShift
  BY <1>0, <1>8, SMT DEF JulianShift
<1> QED
  BY <1>7, <1>9, Zenon DEF s, md, JulianBack

JulianCentury(c) == c \in Int /\ c <= 1500
EdgesOf(c) ==
    /\ tm2date(LeapDay(c)) = 59 + YearStart(YearFrom(c), TRUE) - JulianShift
    /\ tm2date(TenthOfJanuary(c)) = 9 + YearStart(YearFrom(c + 1), TRUE) - JulianShift

LEMMA JulianEdges ==
  ASSUME NEW c \in Int, JulianCentury(c)
  PROVE  EdgesOf(c)
<1> USE DEF EdgesOf
<1>1. BeforeReform(c, 2, 29) = TRUE /\ BeforeReform(c + 1, 1, 10) = TRUE
  BY SMT DEF BeforeReform, JulianCentury
<1>2. PICK y \in Int : y = c + 110000
  BY SMT
<1>3. PICK z \in Int : z = c + 1 + 110000
  BY SMT
<1>4. tm2date(LeapDay(c)) = 29 - 1 + 31 * 1 + YearStart(y, TRUE) - JulianShift
  <2> DEFINE t == LeapDay(c)
  <2>1. t.year = c /\ t.month = 2 /\ t.mday = 29
    BY DEF LeapDay
  <2> HIDE DEF t
  <2>2. tm2date(t) = t.mday - 1 + 31 * 1 + YearStart(y, TRUE) - JulianShift
    <3>1. OfJulianYear(t, y, 1)
      BY <1>1, <1>2, <2>1, SMT DEF OfJulianYear
    <3>2. JulianBack(t, y, 1)
      BY <3>1, JulianDate, Zenon
    <3> QED
      BY <3>2, Zenon DEF JulianBack
  <2> QED
    BY <2>1, <2>2, SMT DEF t
<1>5. tm2date(TenthOfJanuary(c)) = 10 - 1 + 31 * 0 + YearStart(z, TRUE) - JulianShift
  <2> DEFINE t == TenthOfJanuary(c)
  <2>1. t.year = c + 1 /\ t.month = 1 /\ t.mday = 10
    BY DEF TenthOfJanuary
  <2> HIDE DEF t
  <2>2. tm2date(t) = t.mday - 1 + 31 * 0 + YearStart(z, TRUE) - JulianShift
    <3>1. OfJulianYear(t, z, 0)
      BY <1>1, <1>3, <2>1, SMT DEF OfJulianYear
    <3>2. JulianBack(t, z, 0)
      BY <3>1, JulianDate, Zenon
    <3> QED
      BY <3>2, Zenon DEF JulianBack
  <2> QED
    BY <2>1, <2>2, SMT DEF t
<1>6. YearStart(y, TRUE) \in Int /\ YearStart(z, TRUE) \in Int
  BY SMT DEF YearStart
<1> DEFINE s == YearStart(y, TRUE)
           r == YearStart(z, TRUE)
<1>7. s \in Int /\ r \in Int
  BY <1>6
<1> HIDE DEF s, r
<1>8. /\ 29 - 1 + 31 * 1 + s - JulianShift = 59 + s - JulianShift
      /\ 10 - 1 + 31 * 0 + r - JulianShift = 9 + r - JulianShift
  BY <1>7, SMT DEF JulianShift
<1>9. /\ tm2date(LeapDay(c)) = 59 + YearStart(y, TRUE) - JulianShift
      /\ tm2date(TenthOfJanuary(c)) = 9 + YearStart(z, TRUE) - JulianShift
  BY <1>4, <1>5, <1>8, Zenon DEF s, r
<1> QED
  BY <1>2, <1>3, <1>9, SMT DEF YearFrom

(* Late says the same of the year of the first guess as Drifts of the      *)
(* century of the year found.                                              *)
CenturyOf(y) == (y \div 100) * 100

Near(d, c) ==
    /\ Century(c)
    /\ 59 + YearStart(c, TRUE) <= d /\ d <= 375 + YearStart(c, TRUE)

LEMMA LateIsNear ==
  ASSUME NEW d, NEW y0, NEW e, NEW y, NEW dd, NEW m, Found(d, TRUE, y0, e, y, dd, m)
  PROVE  Late(y0, e) <=> Near(d, CenturyOf(y))
<1> DEFINE c == CenturyOf(y)
           s == YearStart(c, TRUE)
           s0 == YearStart(y0, TRUE)
<1>0. d \in Int /\ y0 \in Int /\ e \in Int /\ y \in Int /\ dd \in Int /\ m \in 1 .. 12
  BY Zenon DEF Found
<1>1. s0 + e = d /\ 10 <= e /\ e <= 375 /\ ((y = y0 /\ dd = e) \/ (y = y0 + 1 /\ dd <= 10))
  BY Zenon DEF Found
<1>2. c \in Int /\ c <= y /\ y < c + 100 /\ c % 100 = 0
  BY <1>0, SMT DEF CenturyOf
<1>3. s \in Int /\ s0 \in Int
  BY <1>0, <1>2, NextYearStart, Zenon
<1>4. ASSUME Late(y0, e) PROVE Near(d, c)
  <2>1. y0 % 100 = 0 /\ 59 <= e /\ Century(y0)
    BY <1>4, Zenon DEF Late, Century
  <2>2. c = y0
    BY <1>0, <1>1, <1>2, <2>1, SMT
  <2>3. 59 + s0 <= d /\ d <= 375 + s0
    <3> HIDE DEF s0
    <3> QED
      BY <1>0, <1>1, <1>3, <2>1, SMT
  <2> QED
    BY <2>1, <2>2, <2>3, Zenon DEF Near
<1>5. ASSUME Near(d, c) PROVE Late(y0, e)
  <2>1. Century(c) /\ 59 + s <= d /\ d <= 375 + s
    BY <1>5, Zenon DEF Near
  <2>2. CASE y0 = c
    <3>1. s = s0
      BY <2>2, Zenon
    <3>2. 59 <= e
      <4> HIDE DEF s, s0, c
      <4> QED
        BY <1>0, <1>1, <1>3, <2>1, <3>1, SMT
    <3> QED
      BY <2>1, <2>2, <3>2, Zenon DEF Late
  <2>3. CASE y0 < c
    <3>1. y = y0 + 1 /\ y = c /\ dd <= 10
      <4> HIDE DEF c, s0
      <4> QED
        BY <1>0, <1>1, <1>2, <2>3, SMT
    <3>2. ~Century(y0)
      <4>1. y0 + 1 = c
        BY <3>1, Zenon
      <4> QED
        BY <1>0, <2>1, <4>1, Leaps, Zenon
    <3>3. JulianAt(d, y0, e, y, dd)
      BY JulianPlace, Zenon
    <3>4. s + dd = d
      BY <3>1, <3>2, <3>3, Zenon DEF JulianAt
    <3> HIDE DEF s, c
    <3> QED
      BY <1>0, <1>3, <2>1, <3>1, <3>4, SMT
  <2>4. CASE c < y0
    <3> DEFINE t == YearStart(c + 1, TRUE)
    <3>1. c + 1 \in Int /\ c + 1 <= y0
      <4> HIDE DEF c
      <4> QED
        BY <1>0, <1>2, <2>4, SMT
    <3>2. t \in Int /\ t = s + 366
      <4>1. FromYearToYear(c, TRUE)
        BY <1>2, Lengths, Zenon
      <4>2. LeapInTm2date(c, TRUE)
        BY <1>2, <2>1, Leaps, Zenon
      <4> QED
        BY <4>1, <4>2, Zenon DEF FromYearToYear
    <3>3. t + 365 * (y0 - (c + 1)) <= s0
      BY <1>0, <3>1, YearStartGrows, ZenonT(60) DEF YearsApart
    <3> HIDE DEF s, s0, c, t
    <3>4. FALSE
      BY <1>0, <1>1, <1>2, <1>3, <2>1, <3>1, <3>2, <3>3, SMT
    <3> QED
      BY <3>4
  <2>5. y0 < c \/ y0 = c \/ c < y0
    <3> HIDE DEF c
    <3> QED
      BY <1>0, <1>2, SMT
  <2> QED
    BY <2>2, <2>3, <2>4, <2>5, Zenon
<1> QED
  BY <1>4, <1>5, Zenon

BeforeNewYear1583(y) == YearOf(y) <= 1582
YearOfDay(n, d, y) ==
    /\ n \in Int /\ d \in Int /\ y \in Int
    /\ n < JulianBefore /\ d = n + JulianShift
    /\ date2tm(n).year = YearOf(y) /\ BeforeNewYear1583(y)

LEMMA DriftsIsNear ==
  ASSUME NEW n, NEW d, NEW y, YearOfDay(n, d, y)
  PROVE  Drifts(n) <=> Near(d, CenturyOf(y))
<1> DEFINE c == CenturyOf(y)
           c0 == (YearOf(y) \div 100) * 100
           s == YearStart(c, TRUE)
           t == YearStart(c + 1, TRUE)
<1>0. /\ n \in Int /\ d \in Int /\ y \in Int
      /\ n < JulianBefore /\ d = n + JulianShift
      /\ date2tm(n).year = YearOf(y) /\ YearOf(y) <= 1582
  BY SMT DEF YearOfDay, BeforeNewYear1583
<1>1. c0 \in Int /\ c0 <= 1500 /\ YearFrom(c0) = c /\ YearFrom(c0 + 1) = c + 1 /\ c \in Int
  BY <1>0, SMT DEF YearOf, CenturyOf, YearFrom
<1>2. (YearOf(y) \div 100) % 4 # 0 <=> Century(c)
  <2>1. PICK k \in Int : k = y \div 100
    BY <1>0, SMT
  <2>2. YearOf(y) \div 100 = k - 1100
    BY <1>0, <2>1, SMT DEF YearOf
  <2>3. (k - 1100) % 4 # 0 <=> k % 4 # 0
    BY SMT
  <2>4. c = k * 100
    BY <2>1, SMT DEF CenturyOf
  <2>5. Century(k * 100) <=> k % 4 # 0
    BY SMT DEF Century
  <2> QED
    BY <2>2, <2>3, <2>4, <2>5, SMT
<1>3. tm2date(LeapDay(c0)) = 59 + s - JulianShift /\ tm2date(TenthOfJanuary(c0)) = 9 + t - JulianShift
  <2>1. c0 \in Int /\ JulianCentury(c0)
    BY <1>1, SMT DEF JulianCentury
  <2>2. YearFrom(c0) = c /\ YearFrom(c0 + 1) = c + 1
    BY <1>1
  <2> HIDE DEF c0, c
  <2>3. EdgesOf(c0)
    BY <2>1, JulianEdges, Zenon
  <2> QED
    BY <2>2, <2>3, Zenon DEF EdgesOf
<1>4. s \in Int /\ t \in Int /\ (Century(c) => t = s + 366)
  <2>0. c \in Int
    BY <1>1
  <2> HIDE DEF c
  <2>1. FromYearToYear(c, TRUE)
    BY <2>0, Lengths, Zenon
  <2>2. Century(c) => LeapInTm2date(c, TRUE)
    BY <2>0, Leaps, Zenon
  <2> QED
    BY <2>1, <2>2, Zenon DEF FromYearToYear
<1>5. Drifts(n) <=> /\ (YearOf(y) \div 100) % 4 # 0
                    /\ tm2date(LeapDay(c0)) <= n /\ n <= tm2date(TenthOfJanuary(c0))
  BY <1>0, SMT DEF Drifts, LeapDay, TenthOfJanuary
<1>6. Drifts(n) <=> Century(c) /\ 59 + s - JulianShift <= n /\ n <= 9 + t - JulianShift
  <2> HIDE DEF s, t, c, c0
  <2> QED
    BY <1>2, <1>3, <1>5, Zenon
<1> HIDE DEF s, t, c, c0
<1>7. Century(c) => /\ 59 + s - JulianShift <= n <=> 59 + s <= d
                    /\ n <= 9 + t - JulianShift <=> d <= 375 + s
  BY <1>0, <1>4, SMT DEF JulianShift
<1>8. Drifts(n) <=> Century(c) /\ 59 + s <= d /\ d <= 375 + s
  BY <1>6, <1>7, Zenon
<1>9. Near(d, c) <=> Century(c) /\ 59 + s <= d /\ d <= 375 + s
  BY Zenon DEF Near, s
<1>10. Drifts(n) <=> Near(d, c)
  BY <1>8, <1>9, Zenon
<1> QED
  BY <1>10, Zenon DEF c

(* Every day but those of Drifts comes back from date2tm and tm2date, and  *)
(* those do not.                                                           *)
THEOREM DayRoundTrip ==
  ASSUME NEW n \in Int
  PROVE  tm2date(date2tm(n)) = n <=> ~Drifts(n)
<1>1. CASE n < JulianBefore
  <2>1. PICK d, y0, e, y, dd, m :
            /\ Found(d, TRUE, y0, e, y, dd, m) /\ d = n + JulianShift
            /\ date2tm(n) = FieldsOf(d, TRUE, y, dd, m)
            /\ Late(y0, e) => tm2date(date2tm(n)) = n + 1
            /\ ~Late(y0, e) => tm2date(date2tm(n)) = n
    BY <1>1, JulianDay, Zenon
  <2>2. d \in Int /\ y \in Int
    BY <2>1, Zenon DEF Found
  <2>3. date2tm(n).year = YearOf(y)
    <3>1. FieldsOf(d, TRUE, y, dd, m).year = YearOf(y)
      BY Zenon DEF FieldsOf
    <3> QED
      BY <2>1, <3>1, Zenon
  <2>4. BeforeNewYear1583(y)
    <3>1. d < FirstGregorian(TRUE)
      BY <1>1, <2>1, SMT DEF FirstGregorian, JulianBefore, JulianShift
    <3>2. BeforeReform(YearOf(y), m, MdayOf(y, dd, m))
      BY <2>1, <3>1, JulianIsBefore, Zenon
    <3>3. YearOf(y) \in Int
      BY <2>2, SMT DEF YearOf
    <3> QED
      BY <3>2, <3>3, SMT DEF BeforeReform, BeforeNewYear1583
  <2>5. Drifts(n) <=> Near(d, CenturyOf(y))
    <3>1. d = n + JulianShift
      BY <2>1
    <3>2. YearOfDay(n, d, y)
      BY <1>1, <2>2, <2>3, <2>4, <3>1, Zenon DEF YearOfDay
    <3> QED
      BY <3>2, DriftsIsNear, Zenon
  <2>6. Late(y0, e) <=> Near(d, CenturyOf(y))
    BY <2>1, LateIsNear, Zenon
  <2>7. n + 1 # n
    BY SMT
  <2> QED
    BY <2>1, <2>5, <2>6, <2>7, Zenon
<1>2. CASE ~(n < JulianBefore)
  <2>1. tm2date(date2tm(n)) = n
    BY <1>2, GregorianDay, Zenon
  <2>2. ~Drifts(n)
    BY <1>2, Zenon DEF Drifts
  <2> QED
    BY <2>1, <2>2, Zenon
<1> QED
  BY <1>1, <1>2, Zenon

-----------------------------------------------------------------------------
(* What every day's fields are.                                            *)
Located(n, julian, y, dd, m) ==
    /\ n \in Int /\ y \in Int /\ dd \in Int /\ m \in 1 .. 12 /\ julian \in BOOLEAN
    /\ InMonth(IsRn(y), dd, m)
    /\ date2tm(n) = FieldsOf(n + Epoch(julian), julian, y, dd, m)

LEMMA DayLocated ==
  ASSUME NEW n \in Int
  PROVE  \E julian, y, dd, m : Located(n, julian, y, dd, m)
<1>1. CASE n < JulianBefore
  <2>1. PICK d, y0, e, y, dd, m :
            /\ Found(d, TRUE, y0, e, y, dd, m) /\ d = n + JulianShift
            /\ date2tm(n) = FieldsOf(d, TRUE, y, dd, m)
            /\ Late(y0, e) => tm2date(date2tm(n)) = n + 1
            /\ ~Late(y0, e) => tm2date(date2tm(n)) = n
    BY <1>1, JulianDay, Zenon
  <2>2. y \in Int /\ dd \in Int /\ m \in 1 .. 12 /\ InMonth(IsRn(y), dd, m)
    BY <2>1, Zenon DEF Found
  <2>3. d = n + Epoch(TRUE)
    BY <2>1, Zenon DEF Epoch
  <2>4. date2tm(n) = FieldsOf(n + Epoch(TRUE), TRUE, y, dd, m)
    BY <2>1, <2>3, Zenon
  <2>5. Located(n, TRUE, y, dd, m)
    BY <2>2, <2>4, Zenon DEF Located
  <2> QED
    BY <2>5, Zenon
<1>2. CASE ~(n < JulianBefore)
  <2>1. PICK d, y0, e, y, dd, m :
            /\ Found(d, FALSE, y0, e, y, dd, m) /\ d = n + GregorianShift
            /\ date2tm(n) = FieldsOf(d, FALSE, y, dd, m)
            /\ tm2date(date2tm(n)) = n
    BY <1>2, GregorianDay, Zenon
  <2>2. y \in Int /\ dd \in Int /\ m \in 1 .. 12 /\ InMonth(IsRn(y), dd, m)
    BY <2>1, Zenon DEF Found
  <2>3. d = n + Epoch(FALSE)
    BY <2>1, Zenon DEF Epoch
  <2>4. date2tm(n) = FieldsOf(n + Epoch(FALSE), FALSE, y, dd, m)
    BY <2>1, <2>3, Zenon
  <2>5. Located(n, FALSE, y, dd, m)
    BY <2>2, <2>4, Zenon DEF Located
  <2> QED
    BY <2>5, Zenon
<1> QED
  BY <1>1, <1>2, Zenon

(* The fields are in their ranges, the day of the month in that of its     *)
(* month.                                                                  *)
LastOf(month, leap) == IF month = 2 /\ leap THEN 29 ELSE month_days[month]

InRange(t) ==
    /\ t.year \in Int /\ t.month \in 1 .. 12 /\ t.mday \in Int /\ t.wday \in 0 .. 6
    /\ 1 <= t.mday /\ t.mday <= 31 /\ t.mday <= LastOf(t.month, IsRn(t.year))

LEMMA FieldsInRange ==
  ASSUME NEW n \in Int
  PROVE  InRange(date2tm(n))
<1>1. PICK julian, y, dd, m : Located(n, julian, y, dd, m)
  BY DayLocated, Zenon
<1>2. y \in Int /\ dd \in Int /\ m \in 1 .. 12 /\ julian \in BOOLEAN /\ InMonth(IsRn(y), dd, m)
  BY <1>1, Zenon DEF Located
<1> DEFINE d == n + Epoch(julian)
           t == FieldsOf(d, julian, y, dd, m)
<1>3. d \in Int
  BY SMT DEF Epoch, JulianShift, GregorianShift
<1>4. t.year = YearOf(y) /\ t.month = m /\ t.mday = MdayOf(y, dd, m) /\ t.wday = WeekDay(d, julian)
  BY Zenon DEF FieldsOf
<1>5. YearOf(y) \in Int /\ (IsRn(YearOf(y)) <=> IsRn(y)) /\ IsRn(y) \in BOOLEAN
  BY <1>2, SMT DEF YearOf, IsRn
<1>6. WeekDay(d, julian) \in 0 .. 6
  <2> HIDE DEF d
  <2> QED
    BY <1>2, <1>3, SMT DEF WeekDay
<1>7. mtod(IsRn(y), m) - mtod(IsRn(y), m - 1) = LastOf(m, IsRn(y))
  <2>1. \/ m = 1 \/ m = 2 \/ m = 3 \/ m = 4 \/ m = 5 \/ m = 6 \/ m = 7 \/ m = 8 \/ m = 9
        \/ m = 10 \/ m = 11 \/ m = 12
    BY <1>2, TwelveMonths
  <2> QED
    BY <1>5, <2>1, SMT DEF mtod, days_before, LastOf, month_days
<1>8. /\ MdayOf(y, dd, m) \in Int /\ 1 <= MdayOf(y, dd, m) /\ MdayOf(y, dd, m) <= 31
      /\ MdayOf(y, dd, m) <= LastOf(m, IsRn(y))
  <2>1. /\ mtod(IsRn(y), m) \in Int /\ mtod(IsRn(y), m - 1) \in Int
        /\ mtod(IsRn(y), m) - mtod(IsRn(y), m - 1) <= 31
    BY <1>2, <1>5, MonthLengths, Zenon
  <2> DEFINE u == mtod(IsRn(y), m)
             v == mtod(IsRn(y), m - 1)
             w == LastOf(m, IsRn(y))
  <2>2. u \in Int /\ v \in Int /\ u - v <= 31 /\ u - v = w /\ v <= dd /\ dd < u
    BY <1>2, <1>7, <2>1, Zenon DEF InMonth
  <2>3. MdayOf(y, dd, m) = dd - v + 1
    BY Zenon DEF MdayOf
  <2> HIDE DEF u, v, w
  <2>4. dd - v + 1 \in Int /\ 1 <= dd - v + 1 /\ dd - v + 1 <= 31 /\ dd - v + 1 <= w
    BY <1>2, <2>2, SMT
  <2> QED
    BY <2>3, <2>4, Zenon DEF w
<1>9. LastOf(m, IsRn(y)) = LastOf(m, IsRn(YearOf(y)))
  BY <1>5, Zenon DEF LastOf
<1>10. date2tm(n) = t
  BY <1>1, Zenon DEF Located
<1> HIDE DEF t, d
<1>11. InRange(t)
  BY <1>2, <1>4, <1>5, <1>6, <1>8, <1>9, Zenon DEF InRange
<1> QED
  BY <1>10, <1>11, Zenon

-----------------------------------------------------------------------------
(* Times.  Normal carries whole seconds and whole days over.               *)
LEMMA By86400 ==
  ASSUME NEW x \in Int
  PROVE  /\ x \div 86400 \in Int /\ x % 86400 \in Int
         /\ 0 <= x % 86400 /\ x % 86400 < 86400
         /\ x = 86400 * (x \div 86400) + (x % 86400)
BY SMT

LEMMA By1000000 ==
  ASSUME NEW x \in Int
  PROVE  /\ x \div 1000000 \in Int /\ x % 1000000 \in Int
         /\ 0 <= x % 1000000 /\ x % 1000000 < 1000000
         /\ x = 1000000 * (x \div 1000000) + (x % 1000000)
BY SMT

(* Two carries in a row are one. *)
LEMMA NormalAdds ==
  ASSUME NEW day \in Int, NEW s \in Int, NEW us \in Int, NEW s2 \in Int, NEW us2 \in Int
  PROVE  LET t == Normal(day, s, us)
         IN  Normal(t.day, t.s + s2, t.us + us2) = Normal(day, s + s2, us + us2)
<1>1. PICK u \in Int, r \in Int : u = us \div 1000000 /\ r = us % 1000000 /\ us = 1000000 * u + r
  BY By1000000, SMT
<1>2. PICK v \in Int, q \in Int : v = (s + u) \div 86400 /\ q = (s + u) % 86400 /\ s + u = 86400 * v + q
  BY By86400, SMT
<1>3. Normal(day, s, us) = [day |-> day + v, s |-> q, us |-> r]
  BY <1>1, <1>2, SMT DEF Normal
<1>4. /\ (r + us2) \div 1000000 = (us + us2) \div 1000000 - u
      /\ (r + us2) % 1000000 = (us + us2) % 1000000
  BY <1>1, SMT
<1>5. PICK w \in Int : w = (us + us2) \div 1000000
  BY SMT
<1>6. /\ (q + s2 + (w - u)) \div 86400 = (s + s2 + w) \div 86400 - v
      /\ (q + s2 + (w - u)) % 86400 = (s + s2 + w) % 86400
  BY <1>2, SMT
<1>7. Normal(day + v, q + s2, r + us2)
        = [day |-> day + v + (q + s2 + (w - u)) \div 86400, s |-> (q + s2 + (w - u)) % 86400,
           us |-> (r + us2) % 1000000]
  BY <1>4, <1>5, SMT DEF Normal
<1>8. Normal(day, s + s2, us + us2)
        = [day |-> day + (s + s2 + w) \div 86400, s |-> (s + s2 + w) % 86400,
           us |-> (us + us2) % 1000000]
  BY <1>5, SMT DEF Normal
<1>9. day + v + (q + s2 + (w - u)) \div 86400 = day + (s + s2 + w) \div 86400
  BY <1>6, SMT
<1> QED
  BY <1>3, <1>4, <1>6, <1>7, <1>8, <1>9, SMT

LEMMA NormalTypes ==
  ASSUME NEW day \in Int, NEW s \in Int, NEW us \in Int
  PROVE  LET t == Normal(day, s, us)
         IN  /\ t.day \in Int /\ t.s \in Int /\ t.us \in Int
             /\ 0 <= t.s /\ t.s < 86400 /\ 0 <= t.us /\ t.us < 1000000
             /\ t = [day |-> t.day, s |-> t.s, us |-> t.us]
<1>1. PICK u \in Int, r \in Int :
        u = us \div 1000000 /\ r = us % 1000000 /\ 0 <= r /\ r < 1000000
  BY By1000000, SMT
<1>2. PICK v \in Int, q \in Int :
        v = (s + u) \div 86400 /\ q = (s + u) % 86400 /\ 0 <= q /\ q < 86400
  BY By86400, SMT
<1>3. Normal(day, s, us) = [day |-> day + v, s |-> q, us |-> r]
  BY <1>1, <1>2, SMT DEF Normal
<1> QED
  BY <1>1, <1>2, <1>3, SMT

(* What is in its ranges already stays as it is. *)
LEMMA NormalStays ==
  ASSUME NEW day \in Int, NEW s \in Int, NEW us \in Int,
         0 <= s, s < 86400, 0 <= us, us < 1000000
  PROVE  Normal(day, s, us) = [day |-> day, s |-> s, us |-> us]
<1>1. us \div 1000000 = 0 /\ us % 1000000 = us
  BY SMT
<1>2. s \div 86400 = 0 /\ s % 86400 = s
  BY SMT
<1> QED
  BY <1>1, <1>2, SMT DEF Normal

-----------------------------------------------------------------------------
(* An interval of 32 bits is not wrapped.                                  *)
LEMMA InInt32Bounds ==
  ASSUME NEW s \in Int, NEW us \in Int, InInt32(s, us)
  PROVE  -2147483648 <= 1000000 * s + us /\ 1000000 * s + us <= 2147483647
<1>1. PICK u \in Int, r \in Int :
        u = us \div 1000000 /\ r = us % 1000000 /\ 0 <= r /\ r < 1000000 /\ us = 1000000 * u + r
  BY By1000000, SMT
<1>2. PICK v \in Int, q \in Int :
        v = (s + 43200 + u) \div 86400 /\ q = (s + 43200 + u) % 86400 /\ s + 43200 + u = 86400 * v + q
  BY By86400, SMT
<1>3. Normal(0, s + 43200, us) = [day |-> v, s |-> q, us |-> r]
  BY <1>1, <1>2, SMT DEF Normal
<1>4. /\ v = 0
      /\ q - 43200 > -2148 \/ (q - 43200 = -2148 /\ r >= 516352)
      /\ q - 43200 < 2147 \/ (q - 43200 = 2147 /\ r <= 483647)
  BY <1>3, SMT DEF InInt32
<1>5. s + u = q - 43200
  BY <1>2, <1>4, SMT
<1>6. 1000000 * s + us = 1000000 * (q - 43200) + r
  BY <1>1, <1>5, SMT
<1> QED
  BY <1>1, <1>4, <1>6, SMT

LEMMA NoWrap ==
  ASSUME NEW s \in Int, NEW us \in Int, InInt32(s, us)
  PROVE  Wraps(s, us) = 0
<1> DEFINE P(k) == InInt32(s - 4294 * k, us - 967296 * k)
<1>1. s - 4294 * 0 = s /\ us - 967296 * 0 = us
  BY SMT
<1>2. P(0)
  BY <1>1, SMT
<1>3. ASSUME NEW k \in -21 .. 21, P(k) PROVE k = 0
  <2>1. PICK a \in Int, b \in Int : a = s - 4294 * k /\ b = us - 967296 * k /\ InInt32(a, b)
    BY <1>3, SMT
  <2>2. -2147483648 <= 1000000 * a + b /\ 1000000 * a + b <= 2147483647
    BY <2>1, InInt32Bounds, SMT
  <2>3. -2147483648 <= 1000000 * s + us /\ 1000000 * s + us <= 2147483647
    BY InInt32Bounds, SMT
  <2>4. 1000000 * a + b = 1000000 * s + us - 4294967296 * k
    BY <2>1, SMT
  <2> QED
    BY <2>2, <2>3, <2>4, SMT
<1>4. Wraps(s, us) = CHOOSE k \in -21 .. 21 : P(k)
  BY SMT DEF Wraps
<1>5. 0 \in -21 .. 21
  BY SMT
<1> HIDE DEF P
<1> QED
  BY <1>2, <1>3, <1>4, <1>5, SMT

-----------------------------------------------------------------------------
(* Times as fields and back.                                               *)
LEMMA FieldsOnly ==
  ASSUME NEW t, NEW u, t.year = u.year, t.month = u.month, t.mday = u.mday
  PROVE  tm2date(t) = tm2date(u)
BY SMT DEF tm2date

BackAsFields(t, l) ==
    /\ tm2dt(dt2tm(t)) = Normal(t.day, t.s, t.us)
    /\ tm2dt([dt2tm(t) EXCEPT !.us = l]) = Normal(t.day, t.s, l)

LEMMA TimeBack ==
  ASSUME NEW t, t.day \in Int, ~Drifts(t.day), NEW l
  PROVE  BackAsFields(t, l)
<1> DEFINE n == t.day
           d == date2tm(n)
           f == dt2tm(t)
           g == [f EXCEPT !.us = l]
<1>1. f = [year |-> d.year, month |-> d.month, mday |-> d.mday, wday |-> d.wday,
           s |-> t.s, us |-> t.us]
  BY Zenon DEF dt2tm
<1>2. tm2date(d) = n
  BY DayRoundTrip, Zenon
<1> HIDE DEF d, f
<1>3. f.year = d.year /\ f.month = d.month /\ f.mday = d.mday /\ f.s = t.s /\ f.us = t.us
  BY <1>1
<1>4. g.year = d.year /\ g.month = d.month /\ g.mday = d.mday /\ g.s = t.s /\ g.us = l
  BY <1>1
<1> HIDE DEF g
<1>5. tm2date(f) = n /\ tm2date(g) = n
  BY <1>2, <1>3, <1>4, FieldsOnly, Zenon
<1>6. tm2dt(f) = Normal(n, t.s, t.us) /\ tm2dt(g) = Normal(n, t.s, l)
  BY <1>3, <1>4, <1>5, Zenon DEF tm2dt
<1> QED
  BY <1>6, Zenon DEF f, g, BackAsFields

(* An interval moves a time by what it says. *)
MovesBy(n, c, i, l) ==
    tm2dt(KCIDateTimeIntervalAdd([day |-> n, s |-> c, us |-> 0], i, l)) = Normal(n, c + i[1], i[2] + l)

LEMMA Moves ==
  ASSUME NEW n \in Int, ~Drifts(n), NEW c \in Int, NEW i, i[1] \in Int, i[2] \in Int, NEW l \in Int,
         InInt32(i[1], i[2]), ~Drifts(Normal(n, c + i[1], i[2] + l).day)
  PROVE  MovesBy(n, c, i, l)
<1> DEFINE t == [day |-> n, s |-> c, us |-> 0]
           from == Normal(n, c, l)
           to == Normal(n, c + i[1], i[2] + l)
<1>1. Wraps(i[1], i[2]) = 0
  BY NoWrap, Zenon
<1>2. tm2dt([dt2tm(t) EXCEPT !.us = l]) = from
  <2>1. t.day = n /\ t.s = c
    OBVIOUS
  <2> HIDE DEF t
  <2>2. BackAsFields(t, l)
    BY <2>1, TimeBack, Zenon
  <2> QED
    BY <2>1, <2>2, Zenon DEF BackAsFields
<1>3. from.day \in Int /\ from.s \in Int /\ from.us \in Int
  BY NormalTypes, SMT
<1>4. KCIDateTimeIntervalAdd(t, i, l) = dt2tm(to)
  <2>1. KCIDateTimeIntervalAdd(t, i, l)
          = dt2tm(Normal(from.day, from.s + i[1] - 4294 * 0, from.us + i[2] - 967296 * 0))
    <3> HIDE DEF from, t
    <3> QED
      BY <1>1, <1>2, SMT DEF KCIDateTimeIntervalAdd
  <2>2. from.s + i[1] - 4294 * 0 = from.s + i[1] /\ from.us + i[2] - 967296 * 0 = from.us + i[2]
    <3> HIDE DEF from
    <3> QED
      BY <1>3, SMT
  <2>3. Normal(from.day, from.s + i[1], from.us + i[2]) = Normal(n, c + i[1], l + i[2])
    BY NormalAdds, SMT
  <2>4. l + i[2] = i[2] + l
    BY SMT
  <2> HIDE DEF from
  <2> QED
    BY <2>1, <2>2, <2>3, <2>4, SMT
<1>5. /\ to.day \in Int /\ to.s \in Int /\ to.us \in Int
      /\ 0 <= to.s /\ to.s < 86400 /\ 0 <= to.us /\ to.us < 1000000
      /\ to = [day |-> to.day, s |-> to.s, us |-> to.us]
  <2>1. c + i[1] \in Int /\ i[2] + l \in Int
    BY SMT
  <2> QED
    BY <2>1, NormalTypes, SMT
<1>6. tm2dt(dt2tm(to)) = to
  <2>1. ~Drifts(to.day)
    OBVIOUS
  <2> HIDE DEF to
  <2>2. to.day \in Int /\ to = [day |-> to.day, s |-> to.s, us |-> to.us]
    BY <1>5
  <2>3. BackAsFields(to, 0)
    BY <2>1, <2>2, TimeBack, Zenon
  <2>4. tm2dt(dt2tm(to)) = Normal(to.day, to.s, to.us)
    BY <2>3, Zenon DEF BackAsFields
  <2>5. Normal(to.day, to.s, to.us) = [day |-> to.day, s |-> to.s, us |-> to.us]
    BY <1>5, NormalStays, SMT
  <2> QED
    BY <2>2, <2>4, <2>5, Zenon
<1> QED
  BY <1>4, <1>6, Zenon DEF MovesBy

(* A day in a text. *)
TextBack(n) ==
    LET tm == date2tm(n)
        back == str2tm(tm2str(tm))
    IN  ~Drifts(n) => IF tm.year = 0 THEN back = NoDate ELSE back.month > 0 /\ tm2date(back) = n

LEMMA Texts ==
  ASSUME NEW n \in Int
  PROVE  TextBack(n)
<1> DEFINE tm == date2tm(n)
           text == tm2str(tm)
           back == [year |-> tm.year, month |-> tm.month, mday |-> tm.mday]
<1>1. InRange(tm)
  BY FieldsInRange, Zenon
<1>2. ~Drifts(n) => tm2date(tm) = n
  BY DayRoundTrip, Zenon
<1>3. tm2date(back) = tm2date(tm)
  <2> HIDE DEF tm
  <2>1. back.year = tm.year /\ back.month = tm.month /\ back.mday = tm.mday
    OBVIOUS
  <2> HIDE DEF back
  <2> QED
    BY <2>1, FieldsOnly, Zenon
<1> HIDE DEF tm
<1>4. tm.year \in Int /\ tm.month \in 1 .. 12 /\ tm.mday \in Int
  BY <1>1, Zenon DEF InRange
<1>5. (IF text.bc THEN 1 - text.yyyy ELSE text.yyyy) = tm.year /\ text.mm = tm.month /\ text.dd = tm.mday
  <2>1. text = [ yyyy |-> IF tm.year > 0 THEN tm.year ELSE 1 - tm.year,
                 mm |-> tm.month, dd |-> tm.mday, bc |-> tm.year <= 0 ]
    BY Zenon DEF tm2str
  <2> HIDE DEF text
  <2>2. text.mm = tm.month /\ text.dd = tm.mday /\ (text.bc <=> tm.year <= 0)
    BY <2>1
  <2>3. text.yyyy = IF tm.year > 0 THEN tm.year ELSE 1 - tm.year
    BY <2>1
  <2>4. CASE tm.year > 0
    <3>1. text.yyyy = tm.year /\ ~(tm.year <= 0)
      BY <1>4, <2>3, <2>4, SMT
    <3> QED
      BY <2>2, <3>1, Zenon
  <2>5. CASE ~(tm.year > 0)
    <3>1. tm.year <= 0 /\ 1 - (1 - tm.year) = tm.year
      BY <1>4, <2>5, SMT
    <3> QED
      BY <2>2, <2>3, <2>5, <3>1, Zenon
  <2> QED
    BY <2>4, <2>5
<1>6. tm.mday <= LastOf(tm.month, IsRn(tm.year))
  BY <1>1, Zenon DEF InRange
<1>7. LastOf(tm.month, IsRn(tm.year)) \in Int
  <2>1. \/ tm.month = 1 \/ tm.month = 2 \/ tm.month = 3 \/ tm.month = 4 \/ tm.month = 5 \/ tm.month = 6
        \/ tm.month = 7 \/ tm.month = 8 \/ tm.month = 9 \/ tm.month = 10 \/ tm.month = 11 \/ tm.month = 12
    BY <1>4, TwelveMonths
  <2> QED
    BY <2>1, SMT DEF LastOf, month_days
<1>8. ~(tm.mday > LastOf(tm.month, IsRn(tm.year)))
  BY <1>4, <1>6, <1>7, SMT
<1>9. str2tm(text) = IF tm.year = 0 THEN NoDate ELSE back
  <2> HIDE DEF text
  <2> QED
    BY <1>5, <1>8, SMT DEF str2tm, LastOf
<1>10. back.month > 0
  BY <1>4, SMT
<1> HIDE DEF back
<1>11. ~Drifts(n) => IF tm.year = 0 THEN str2tm(text) = NoDate
                     ELSE str2tm(text).month > 0 /\ tm2date(str2tm(text)) = n
  BY <1>2, <1>3, <1>9, <1>10, Zenon
<1> QED
  BY <1>11, Zenon DEF TextBack, tm

-----------------------------------------------------------------------------
(* The days a date may have by the header are of the years it may have.    *)
FirstYear == 105288
EndYear == 120000
HeaderYear(y) == -4712 <= y /\ y <= 9999
OfHeader(t) == HeaderYear(t.year)

LEMMA HeaderBounds == FirstYear \in Int /\ EndYear \in Int
BY SMT DEF FirstYear, EndYear

LEMMA JulianYears ==
  ASSUME NEW d, NEW y0, NEW e, NEW y, NEW dd, NEW m, Found(d, TRUE, y0, e, y, dd, m),
         FirstDay + JulianShift <= d, d < FirstGregorian(TRUE)
  PROVE  HeaderYear(YearOf(y))
<1> DEFINE s == YearStart(y, TRUE)
           t == YearStart(y + 1, TRUE)
           r == YearStart(FirstYear, TRUE)
           yy == YearOf(y)
<1>0. d \in Int /\ y0 \in Int /\ e \in Int /\ y \in Int /\ dd \in Int /\ m \in 1 .. 12
  BY Zenon DEF Found
<1>1. (IsRn(y) => dd < 366) /\ (~IsRn(y) => dd < 365)
  BY <1>0, SMT DEF Found
<1>2. s \in Int /\ (s + dd = d \/ s + dd = d + 1)
  <2>1. JulianAt(d, y0, e, y, dd)
    BY JulianPlace, Zenon
  <2> QED
    BY <2>1, Zenon DEF JulianAt
<1>3. /\ t \in Int
      /\ IsRn(y) => t = s + 366
      /\ t = s + 366 \/ t = s + 365
  <2>1. FromYearToYear(y, TRUE)
    BY <1>0, Lengths, Zenon
  <2>2. IsRn(y) => LeapInTm2date(y, TRUE)
    BY <1>0, Leaps, Zenon
  <2> QED
    BY <2>1, <2>2, Zenon DEF FromYearToYear
<1>4. y + 1 <= FirstYear => t + 365 * (FirstYear - (y + 1)) <= r
  <2>1. y + 1 \in Int
    BY <1>0, SMT
  <2> QED
    BY <2>1, YearStartGrows, HeaderBounds, ZenonT(60) DEF YearsApart
<1>5. r = 38456441
  BY SMT DEF YearStart, FirstYear
<1>6. 38456441 <= d
  BY <1>0, SMT DEF FirstDay, JulianShift
<1> HIDE DEF s, t, r
<1>7. d < t
  BY <1>0, <1>1, <1>2, <1>3, SMT
<1>8. FirstYear <= y
  BY <1>0, <1>3, <1>4, <1>5, <1>6, <1>7, SMT DEF FirstYear
<1>9. yy \in Int /\ -4712 <= yy
  BY <1>0, <1>8, SMT DEF FirstYear, YearOf
<1>10. yy < 1582 \/ yy = 1582
  <2>1. BeforeReform(yy, m, MdayOf(y, dd, m))
    BY JulianIsBefore, Zenon
  <2> HIDE DEF yy
  <2> QED
    BY <2>1, <1>9, SMT DEF BeforeReform
<1> HIDE DEF yy
<1>11. HeaderYear(yy)
  BY <1>9, <1>10, SMT DEF HeaderYear
<1> QED
  BY <1>11, Zenon DEF yy

LEMMA GregorianYears ==
  ASSUME NEW d, NEW y0, NEW e, NEW y, NEW dd, NEW m, Found(d, FALSE, y0, e, y, dd, m),
         FirstGregorian(FALSE) <= d, d <= LastDay + GregorianShift
  PROVE  HeaderYear(YearOf(y))
<1> DEFINE s == YearStart(y, FALSE)
           r == YearStart(EndYear, FALSE)
           yy == YearOf(y)
<1>0. d \in Int /\ y0 \in Int /\ e \in Int /\ y \in Int /\ dd \in Int /\ m \in 1 .. 12 /\ 0 <= dd
  BY Zenon DEF Found
<1>1. s \in Int /\ s + dd = d
  <2>1. GregorianAt(d, y, dd)
    BY GregorianPlace, Zenon
  <2> QED
    BY <2>1, Zenon DEF GregorianAt
<1>2. d < 43829099
  BY <1>0, SMT DEF LastDay, GregorianShift
<1>3. r = 43829099
  BY SMT DEF YearStart, EndYear
<1>4. EndYear <= y => r + 365 * (y - EndYear) <= s
  BY <1>0, YearStartGrows, HeaderBounds, ZenonT(60) DEF YearsApart
<1> HIDE DEF s, r
<1>5. y < EndYear
  BY <1>0, <1>1, <1>2, <1>3, <1>4, SMT DEF EndYear
<1>6. yy \in Int /\ yy <= 9999
  BY <1>0, <1>5, SMT DEF EndYear, YearOf
<1>7. ~(yy < 1582)
  <2>1. ~BeforeReform(yy, m, MdayOf(y, dd, m))
    BY GregorianIsAfter, Zenon
  <2> HIDE DEF yy
  <2> QED
    BY <2>1, <1>6, SMT DEF BeforeReform
<1> HIDE DEF yy
<1>8. HeaderYear(yy)
  BY <1>6, <1>7, SMT DEF HeaderYear
<1> QED
  BY <1>8, Zenon DEF yy

LEMMA HeaderYears ==
  ASSUME NEW n \in Int, FirstDay <= n, n <= LastDay
  PROVE  OfHeader(date2tm(n))
<1>1. CASE n < JulianBefore
  <2>1. PICK d, y0, e, y, dd, m :
            /\ Found(d, TRUE, y0, e, y, dd, m) /\ d = n + JulianShift
            /\ date2tm(n) = FieldsOf(d, TRUE, y, dd, m)
            /\ Late(y0, e) => tm2date(date2tm(n)) = n + 1
            /\ ~Late(y0, e) => tm2date(date2tm(n)) = n
    BY <1>1, JulianDay, Zenon
  <2>2. d = n + JulianShift
    BY <2>1
  <2>3. FirstDay + JulianShift <= d /\ d < FirstGregorian(TRUE)
    BY <1>1, <2>2, SMT DEF FirstGregorian, JulianBefore, JulianShift, FirstDay
  <2>4. HeaderYear(YearOf(y))
    BY <2>1, <2>3, JulianYears, Zenon
  <2>5. FieldsOf(d, TRUE, y, dd, m).year = YearOf(y)
    BY Zenon DEF FieldsOf
  <2> QED
    BY <2>1, <2>4, <2>5, Zenon DEF OfHeader
<1>2. CASE ~(n < JulianBefore)
  <2>1. PICK d, y0, e, y, dd, m :
            /\ Found(d, FALSE, y0, e, y, dd, m) /\ d = n + GregorianShift
            /\ date2tm(n) = FieldsOf(d, FALSE, y, dd, m)
            /\ tm2date(date2tm(n)) = n
    BY <1>2, GregorianDay, Zenon
  <2>2. d = n + GregorianShift
    BY <2>1
  <2>3. FirstGregorian(FALSE) <= d /\ d <= LastDay + GregorianShift
    BY <1>2, <2>2, SMT DEF FirstGregorian, JulianBefore, GregorianShift, LastDay
  <2>4. HeaderYear(YearOf(y))
    BY <2>1, <2>3, GregorianYears, Zenon
  <2>5. FieldsOf(d, FALSE, y, dd, m).year = YearOf(y)
    BY Zenon DEF FieldsOf
  <2> QED
    BY <2>1, <2>4, <2>5, Zenon DEF OfHeader
<1> QED
  BY <1>1, <1>2, Zenon

-----------------------------------------------------------------------------
(* A year in two bytes, each 100 too high so that it is not negative; a    *)
(* second of the day in hours, minutes and seconds; milliseconds.          *)
InTwoBytes(y) == (Byte(Quot(y, 100) + 100) - 100) * 100 + (Byte(Rem(y, 100) + 100) - 100) = y

LEMMA TwoBytes ==
  ASSUME NEW y \in Int, HeaderYear(y)
  PROVE  InTwoBytes(y)
<1>1. PICK q \in Int, r \in Int :
        /\ q = Quot(y, 100) /\ -47 <= q /\ q <= 99
        /\ r = y - 100 * q /\ -99 <= r /\ r <= 99
  BY SMT DEF Quot, HeaderYear
<1>2. Rem(y, 100) = r
  BY <1>1, SMT DEF Rem
<1>3. \A n \in Int : 0 <= n /\ n <= 255 => Byte(n) = n
  BY SMT DEF Byte
<1>4. Byte(q + 100) = q + 100 /\ Byte(r + 100) = r + 100
  BY <1>1, <1>3, SMT
<1>5. ((q + 100) - 100) * 100 + ((r + 100) - 100) = y
  BY <1>1, SMT
<1> QED
  BY <1>1, <1>2, <1>4, <1>5, SMT DEF InTwoBytes

InThreeBytes(c) == (c \div 3600) * 3600 + ((c % 3600) \div 60) * 60 + (c % 60) = c

LEMMA ClockFace ==
  ASSUME NEW c \in Int
  PROVE  InThreeBytes(c)
<1>1. PICK h \in Int, r \in Int : h = c \div 3600 /\ r = c % 3600 /\ c = 3600 * h + r
  BY SMT
<1>2. PICK k \in Int, q \in Int : k = r \div 60 /\ q = r % 60 /\ r = 60 * k + q
  BY SMT
<1>3. c % 60 = q
  BY <1>1, <1>2, SMT
<1>4. h * 3600 + k * 60 + q = c
  BY <1>1, <1>2, SMT
<1> QED
  BY <1>1, <1>2, <1>3, <1>4, SMT DEF InThreeBytes

LEMMA Millis ==
  ASSUME NEW c \in Int
  PROVE  (1000 * c + 999) \div 1000 = c /\ ((1000 * c + 999) % 1000) * 1000 = 999000
BY SMT

(* The seven bytes of a time given in fields.                              *)
Bytes(tm) ==
    << Byte(Quot(tm.year, 100) + 100), Byte(Rem(tm.year, 100) + 100), tm.month, tm.mday,
       tm.s \div 3600, (tm.s % 3600) \div 60, tm.s % 60 >>

TimeOfBytes(b) ==
    [ year |-> (b[1] - 100) * 100 + (b[2] - 100), month |-> b[3], mday |-> b[4],
      s |-> b[5] * 3600 + b[6] * 60 + b[7], us |-> 0 ]

LEMMA BytesBack ==
  ASSUME NEW tm, tm.year \in Int, HeaderYear(tm.year), tm.s \in Int
  PROVE  LET f == TimeOfBytes(Bytes(tm))
         IN  /\ f.year = tm.year /\ f.month = tm.month /\ f.mday = tm.mday
             /\ f.s = tm.s /\ f.us = 0
<1> DEFINE y == tm.year
           c == tm.s
           hi == Byte(Quot(y, 100) + 100)
           lo == Byte(Rem(y, 100) + 100)
           hour == c \div 3600
           minute == (c % 3600) \div 60
           second == c % 60
           f == TimeOfBytes(Bytes(tm))
<1>1. Bytes(tm) = << hi, lo, tm.month, tm.mday, hour, minute, second >>
  BY Zenon DEF Bytes
<1>2. (hi - 100) * 100 + (lo - 100) = y
  BY TwoBytes, Zenon DEF InTwoBytes
<1>3. hour * 3600 + minute * 60 + second = c
  <2>1. InThreeBytes(c)
    BY ClockFace, Zenon
  <2> QED
    BY <2>1, SMT DEF InThreeBytes
<1> HIDE DEF hi, lo, hour, minute, second, y, c
<1>4. f = [ year |-> (hi - 100) * 100 + (lo - 100), month |-> tm.month, mday |-> tm.mday,
            s |-> hour * 3600 + minute * 60 + second, us |-> 0 ]
  BY <1>1, SMT DEF TimeOfBytes
<1>5. f = [year |-> y, month |-> tm.month, mday |-> tm.mday, s |-> c, us |-> 0]
  BY <1>2, <1>3, <1>4, SMT
<1> HIDE DEF f
<1>6. f.year = y /\ f.month = tm.month /\ f.mday = tm.mday /\ f.s = c /\ f.us = 0
  BY <1>5
<1> QED
  BY <1>6, Zenon DEF f, y, c

(* A day of the header's years with a second of it, in seven bytes.        *)
DatBack(n, c) == ParamOfDat(DatOfColumn(n, 1000 * c + 999)) = [day |-> n, s |-> c, us |-> 0]

LEMMA FieldsBack ==
  ASSUME NEW n \in Int, FirstDay <= n, n <= LastDay, ~Drifts(n), NEW t, t.day = n, t.s \in Int
  PROVE  tm2dt(TimeOfBytes(Bytes(dt2tm(t)))) = Normal(n, t.s, 0)
<1> DEFINE d == date2tm(n)
           tm == dt2tm(t)
           f == TimeOfBytes(Bytes(tm))
<1>1. tm.year = d.year /\ tm.month = d.month /\ tm.mday = d.mday /\ tm.s = t.s
  <2> HIDE DEF d
  <2>1. tm = [year |-> d.year, month |-> d.month, mday |-> d.mday, wday |-> d.wday,
              s |-> t.s, us |-> t.us]
    BY Zenon DEF dt2tm, d
  <2> HIDE DEF tm
  <2> QED
    BY <2>1
<1>2. d.year \in Int /\ HeaderYear(d.year)
  BY FieldsInRange, HeaderYears, Zenon DEF InRange, OfHeader
<1>3. tm2date(d) = n
  BY DayRoundTrip, Zenon
<1> HIDE DEF d, tm
<1>4. f.year = tm.year /\ f.month = tm.month /\ f.mday = tm.mday /\ f.s = tm.s /\ f.us = 0
  BY <1>1, <1>2, BytesBack, Zenon
<1> HIDE DEF f
<1>5. tm2date(f) = n
  <2>1. f.year = d.year /\ f.month = d.month /\ f.mday = d.mday
    BY <1>1, <1>4, Zenon
  <2> QED
    BY <1>3, <2>1, FieldsOnly, Zenon
<1>6. tm2dt(f) = Normal(n, t.s, 0)
  BY <1>1, <1>4, <1>5, Zenon DEF tm2dt
<1> QED
  BY <1>6, Zenon DEF f, tm

InADay(c) == c \in Int /\ 0 <= c /\ c < 86400

LEMMA Dats ==
  ASSUME NEW n \in Int, FirstDay <= n, n <= LastDay, ~Drifts(n), NEW c, InADay(c)
  PROVE  DatBack(n, c)
<1> DEFINE t == [day |-> n, s |-> c, us |-> 999000]
<1>0. c \in Int
  BY SMT DEF InADay
<1>1. Normal(n, (1000 * c + 999) \div 1000, ((1000 * c + 999) % 1000) * 1000) = t
  <2>1. Normal(n, c, 999000) = t
    BY <1>0, NormalStays, SMT DEF InADay
  <2> QED
    BY <1>0, <2>1, Millis, SMT
<1>2. t.day = n /\ t.s = c
  OBVIOUS
<1>3. Normal(n, c, 0) = [day |-> n, s |-> c, us |-> 0]
  BY <1>0, NormalStays, SMT DEF InADay
<1> HIDE DEF t
<1>4. DatOfColumn(n, 1000 * c + 999) = Bytes(dt2tm(t))
  BY <1>1, SMT DEF DatOfColumn, Bytes
<1>5. ParamOfDat(Bytes(dt2tm(t))) = tm2dt(TimeOfBytes(Bytes(dt2tm(t))))
  BY SMT DEF ParamOfDat, TimeOfBytes
<1>6. tm2dt(TimeOfBytes(Bytes(dt2tm(t)))) = Normal(n, c, 0)
  BY <1>0, <1>2, FieldsBack, Zenon
<1>7. ParamOfDat(Bytes(dt2tm(t))) = [day |-> n, s |-> c, us |-> 0]
  BY <1>3, <1>5, <1>6, Zenon
<1> QED
  BY <1>4, <1>7, SMT DEF DatBack

-----------------------------------------------------------------------------
(* The specification.  The date stays within its window, and so within the *)
(* years of the header.                                                    *)
InWindow == \E w \in Windows : date \in w[1] .. w[2]
InHeader(n) == n \in Int /\ FirstDay <= n /\ n <= LastDay

LEMMA Stays == Spec => []InWindow
<1>1. Init => InWindow
  BY WindowsAssumption, SMT DEF Init, InWindow
<1>2. InWindow /\ [Tomorrow]_date => InWindow'
  <2> SUFFICES ASSUME InWindow, [Tomorrow]_date PROVE InWindow'
    OBVIOUS
  <2>1. CASE Tomorrow
    <3>1. PICK w \in Windows : w[1] <= date /\ date < w[2]
      BY <2>1, Zenon DEF Tomorrow
    <3>2. date \in Int /\ w[1] \in Int /\ w[2] \in Int
      BY WindowsAssumption, SMT DEF InWindow
    <3>3. date' \in w[1] .. w[2]
      BY <2>1, <3>1, <3>2, SMT DEF Tomorrow
    <3> QED
      BY <3>3, Zenon DEF InWindow
  <2>2. CASE UNCHANGED date
    BY <2>2, Zenon DEF InWindow
  <2> QED
    BY <2>1, <2>2
<1> QED
  BY <1>1, <1>2, PTL DEF Spec

LEMMA OfTheHeader ==
  ASSUME InWindow
  PROVE  InHeader(date)
<1>1. PICK w \in Windows : date \in w[1] .. w[2]
  BY Zenon DEF InWindow
<1>2. /\ w[1] \in Int /\ w[2] \in Int
      /\ FirstDay <= w[1] /\ w[2] <= LastDay
  BY WindowsAssumption, Zenon
<1>3. FirstDay \in Int /\ LastDay \in Int
  BY SMT DEF FirstDay, LastDay
<1> QED
  BY <1>1, <1>2, <1>3, SMT DEF InHeader

(* Every state's date is a day with its month, day and weekday in range.   *)
THEOREM TypeCorrect == Spec => []TypeOK
<1>1. InWindow => TypeOK
  <2> SUFFICES ASSUME InWindow PROVE TypeOK
    OBVIOUS
  <2>1. InRange(date2tm(date))
    BY OfTheHeader, FieldsInRange, Zenon DEF InHeader
  <2> DEFINE t == date2tm(date)
  <2> HIDE DEF t
  <2>2. t.month \in 1 .. 12 /\ t.mday \in 1 .. 31 /\ t.wday \in 0 .. 6
    BY <2>1, SMT DEF InRange, t
  <2> QED
    BY <2>2, Zenon DEF TypeOK, InWindow, t
<1> QED
  BY <1>1, Stays, PTL

(* tm2date undoes date2tm on every day but those of the late centuries.    *)
THEOREM DatesUndone == Spec => []DateRoundTrip
<1>1. InWindow => DateRoundTrip
  BY OfTheHeader, DayRoundTrip, Zenon DEF DateRoundTrip, InHeader
<1> QED
  BY <1>1, Stays, PTL

(* A day in a date column's seven bytes is bound again as the same second. *)
THEOREM DatsUndone == Spec => []DatRoundTrip
<1>1. ASSUME NEW c \in Clocks PROVE InADay(c)
  BY ClocksAssumption, SMT DEF InADay
<1>2. InWindow => DatRoundTrip
  <2> SUFFICES ASSUME InWindow, ~Drifts(date), NEW c \in Clocks
               PROVE  DatBack(date, c)
    BY Zenon DEF DatRoundTrip, DatBack
  <2> QED
    BY <1>1, OfTheHeader, Dats, Zenon DEF InHeader
<1> QED
  BY <1>2, Stays, PTL

(* What tm2str prints of a day str2tm reads as that day, unless of 1 BC.   *)
THEOREM TextsUndone == Spec => []TextRoundTrip
<1>1. InWindow => TextRoundTrip
  BY OfTheHeader, Texts, Zenon DEF TextRoundTrip, TextBack, InHeader
<1> QED
  BY <1>1, Stays, PTL

(* Every conversion of a date is undone by its inverse.                    *)
THEOREM Undone == Spec => []ConversionsUndone
<1>1. TypeOK /\ DateRoundTrip /\ DatRoundTrip /\ TextRoundTrip => ConversionsUndone
  BY DEF ConversionsUndone
<1> QED
  BY <1>1, TypeCorrect, DatesUndone, DatsUndone, TextsUndone, PTL

(* An interval whose microseconds fit 32 bits moves a time by exactly that *)
(* much and what the DateTime's memory held, over the reform too.          *)
THEOREM IntervalsMove == Spec => []IntervalMoves
<1>1. /\ \A c \in Clocks : c \in Int
      /\ \A i \in Intervals : i[1] \in Int /\ i[2] \in Int
      /\ \A l \in Leftovers : l \in Int
  <2>1. ASSUME NEW c \in Clocks PROVE c \in Int
    BY ClocksAssumption, SMT
  <2>2. ASSUME NEW i \in Intervals PROVE i[1] \in Int /\ i[2] \in Int
    <3>1. i \in Int \X Int
      BY IntervalsAssumption, Zenon
    <3> QED
      BY <3>1, SMT
  <2>3. \A l \in Leftovers : l \in Int
    BY LeftoversAssumption, Zenon
  <2> QED
    BY <2>1, <2>2, <2>3, Zenon
<1>2. InWindow => IntervalMoves
  <2> SUFFICES ASSUME InWindow, ~Drifts(date), NEW c \in Clocks, NEW i \in Intervals, NEW l \in Leftovers,
                      InInt32(i[1], i[2]), ~Drifts(Normal(date, c + i[1], i[2] + l).day)
               PROVE  MovesBy(date, c, i, l)
    BY Zenon DEF IntervalMoves, MovesBy
  <2> QED
    BY <1>1, OfTheHeader, Moves, Zenon DEF InHeader
<1> QED
  BY <1>2, Stays, PTL

-----------------------------------------------------------------------------
(* The civil calendar.  Day dd of year y is in month m by the rule of its  *)
(* calendar, which is not the rule date2tm looks it up by, and has the     *)
(* fields t.                                                               *)
Placed(n, julian, y, dd, m, t) ==
    LET leap == LeapInTm2date(y, julian)
    IN  /\ n \in Int /\ julian \in BOOLEAN /\ y \in Int /\ dd \in Int /\ m \in 1 .. 12
        /\ InMonth(leap, dd, m)
        /\ YearStart(y, julian) + dd = n + Epoch(julian)
        /\ t = [ year |-> YearOf(y), month |-> m, mday |-> dd - mtod(leap, m - 1) + 1,
                 wday |-> WeekDay(n + Epoch(julian), julian) ]
        /\ BeforeReform(YearOf(y), m, dd - mtod(leap, m - 1) + 1) <=> julian

LEMMA NoShorter ==
  ASSUME NEW y \in Int, NEW julian \in BOOLEAN, NEW m \in 1 .. 12
  PROVE  LET leap == LeapInTm2date(y, julian)
         IN  /\ leap \in BOOLEAN /\ IsRn(y) \in BOOLEAN
             /\ mtod(leap, m) \in Int /\ mtod(leap, m - 1) \in Int
             /\ mtod(IsRn(y), m) \in Int /\ mtod(IsRn(y), m - 1) \in Int
             /\ mtod(IsRn(y), m) - mtod(IsRn(y), m - 1) <= mtod(leap, m) - mtod(leap, m - 1)
<1> DEFINE leap == LeapInTm2date(y, julian)
<1>1. leap \in BOOLEAN /\ IsRn(y) \in BOOLEAN /\ (IsRn(y) => leap)
  <2>1. IsRn(y) => LeapInTm2date(y, TRUE) /\ LeapInTm2date(y, FALSE)
    BY Leaps, Zenon
  <2>2. leap \in BOOLEAN /\ IsRn(y) \in BOOLEAN
    BY Leaps, Zenon DEF LeapInTm2date
  <2>3. julian = TRUE \/ julian = FALSE
    OBVIOUS
  <2> QED
    BY <2>1, <2>2, <2>3, Zenon
<1> HIDE DEF leap
<1>2. /\ mtod(leap, m) \in Int /\ mtod(leap, m - 1) \in Int
      /\ mtod(IsRn(y), m) \in Int /\ mtod(IsRn(y), m - 1) \in Int
  BY <1>1, MonthLengths, Zenon
<1>3. mtod(IsRn(y), m) - mtod(IsRn(y), m - 1) <= mtod(leap, m) - mtod(leap, m - 1)
  <2>1. \/ m = 1 \/ m = 2 \/ m = 3 \/ m = 4 \/ m = 5 \/ m = 6 \/ m = 7 \/ m = 8 \/ m = 9
        \/ m = 10 \/ m = 11 \/ m = 12
    BY TwelveMonths
  <2> QED
    BY <1>1, <2>1, SMT DEF mtod, days_before
<1> QED
  BY <1>1, <1>2, <1>3, Zenon DEF leap

(* A day that comes back from its fields is placed by the right rule. *)
LEMMA BackIsPlaced ==
  ASSUME NEW n, NEW julian, NEW y, NEW dd, NEW m, Located(n, julian, y, dd, m),
         BeforeReform(YearOf(y), m, MdayOf(y, dd, m)) <=> julian,
         tm2date(date2tm(n)) = n
  PROVE  \E D : Placed(n, julian, y, D, m, date2tm(n))
<1> DEFINE leap == LeapInTm2date(y, julian)
           d == n + Epoch(julian)
           md == MdayOf(y, dd, m)
           k == mtod(IsRn(y), m - 1)
           u == mtod(leap, m - 1)
           v == mtod(leap, m)
           s == YearStart(y, julian)
           D == md + u - 1
<1>1. /\ n \in Int /\ y \in Int /\ dd \in Int /\ m \in 1 .. 12 /\ julian \in BOOLEAN
      /\ InMonth(IsRn(y), dd, m) /\ date2tm(n) = FieldsOf(d, julian, y, dd, m)
  BY Zenon DEF Located
<1>2. /\ k \in Int /\ u \in Int /\ v \in Int /\ mtod(IsRn(y), m) \in Int
      /\ mtod(IsRn(y), m) - k <= v - u
  BY <1>1, NoShorter, Zenon
<1>3. s \in Int /\ Epoch(julian) \in Int
  <2>1. s \in Int
    BY <1>1, NextYearStart, Zenon
  <2>2. Epoch(julian) \in Int
    BY SMT DEF Epoch, JulianShift, GregorianShift
  <2> QED
    BY <2>1, <2>2, Zenon
<1>4. n = DayCount(julian, y, dd, m) - Epoch(julian)
  <2>1. Back(d, julian, y, dd, m)
    BY <1>1, CountOfFields, Zenon
  <2> QED
    BY <1>1, <2>1, Zenon DEF Back
<1>5. DayCount(julian, y, dd, m) = md + u - 1 + s
  BY Zenon DEF DayCount
<1>6. md = dd - k + 1
  BY Zenon DEF MdayOf
<1>7. k <= dd /\ dd < mtod(IsRn(y), m)
  BY <1>1, Zenon DEF InMonth
<1>8. date2tm(n) = [year |-> YearOf(y), month |-> m, mday |-> md, wday |-> WeekDay(d, julian)]
  BY <1>1, Zenon DEF FieldsOf
<1>9. BeforeReform(YearOf(y), m, md) <=> julian
  OBVIOUS
<1> DEFINE l == mtod(IsRn(y), m)
           ep == Epoch(julian)
<1>10. l \in Int /\ ep \in Int /\ l - k <= v - u /\ dd < l /\ n = md + u - 1 + s - ep
  <2>1. n = (md + u - 1 + s) - ep
    BY <1>4, <1>5, Zenon
  <2>2. (md + u - 1 + s) - ep = md + u - 1 + s - ep
    <3>1. md \in Int
      <4> HIDE DEF md, k
      <4> QED
        BY <1>1, <1>2, <1>6, SMT
    <3> HIDE DEF md, u, s, ep
    <3> QED
      BY <1>2, <1>3, <3>1, SMT DEF ep
  <2> HIDE DEF md, u, s
  <2> QED
    BY <1>2, <1>3, <1>7, <2>1, <2>2, Zenon
<1> HIDE DEF k, u, v, s, md, l, ep, leap
<1>11. D \in Int /\ u <= D /\ D < v /\ s + D = n + ep /\ D - u + 1 = md
  BY <1>1, <1>2, <1>3, <1>6, <1>7, <1>10, SMT
<1> HIDE DEF D
<1>12. Placed(n, julian, y, D, m, date2tm(n))
  BY <1>1, <1>8, <1>9, <1>11, Zenon DEF Placed, InMonth, u, v, s, ep, leap, d
<1> QED
  BY <1>12, Zenon

(* date2tm and tm2date agree on the calendar of a day. *)
LocatedInEra(n, julian, y, dd, m) ==
    /\ Located(n, julian, y, dd, m)
    /\ BeforeReform(YearOf(y), m, MdayOf(y, dd, m)) <=> julian

LEMMA DayInEra ==
  ASSUME NEW n \in Int
  PROVE  \E y, dd, m : LocatedInEra(n, n < JulianBefore, y, dd, m)
<1>1. CASE n < JulianBefore
  <2>1. PICK d, y0, e, y, dd, m :
            /\ Found(d, TRUE, y0, e, y, dd, m) /\ d = n + JulianShift
            /\ date2tm(n) = FieldsOf(d, TRUE, y, dd, m)
            /\ Late(y0, e) => tm2date(date2tm(n)) = n + 1
            /\ ~Late(y0, e) => tm2date(date2tm(n)) = n
    BY <1>1, JulianDay, Zenon
  <2>2. y \in Int /\ dd \in Int /\ m \in 1 .. 12 /\ InMonth(IsRn(y), dd, m)
    BY <2>1, Zenon DEF Found
  <2>3. d = n + Epoch(TRUE)
    BY <2>1, Zenon DEF Epoch
  <2>4. Located(n, TRUE, y, dd, m)
    BY <2>1, <2>2, <2>3, Zenon DEF Located
  <2>5. d < FirstGregorian(TRUE)
    <3>1. d = n + JulianShift
      BY <2>1
    <3> QED
      BY <1>1, <3>1, SMT DEF FirstGregorian, JulianBefore, JulianShift
  <2>6. BeforeReform(YearOf(y), m, MdayOf(y, dd, m))
    BY <2>1, <2>5, JulianIsBefore, Zenon
  <2>7. LocatedInEra(n, TRUE, y, dd, m)
    BY <2>4, <2>6, Zenon DEF LocatedInEra
  <2>8. (n < JulianBefore) = TRUE
    BY <1>1, Zenon
  <2> QED
    BY <2>7, <2>8, Zenon
<1>2. CASE ~(n < JulianBefore)
  <2>1. PICK d, y0, e, y, dd, m :
            /\ Found(d, FALSE, y0, e, y, dd, m) /\ d = n + GregorianShift
            /\ date2tm(n) = FieldsOf(d, FALSE, y, dd, m)
            /\ tm2date(date2tm(n)) = n
    BY <1>2, GregorianDay, Zenon
  <2>2. y \in Int /\ dd \in Int /\ m \in 1 .. 12 /\ InMonth(IsRn(y), dd, m)
    BY <2>1, Zenon DEF Found
  <2>3. d = n + Epoch(FALSE)
    BY <2>1, Zenon DEF Epoch
  <2>4. Located(n, FALSE, y, dd, m)
    BY <2>1, <2>2, <2>3, Zenon DEF Located
  <2>5. FirstGregorian(FALSE) <= d
    <3>1. d = n + GregorianShift
      BY <2>1
    <3> QED
      BY <1>2, <3>1, SMT DEF FirstGregorian, JulianBefore, GregorianShift
  <2>6. ~BeforeReform(YearOf(y), m, MdayOf(y, dd, m))
    BY <2>1, <2>5, GregorianIsAfter, Zenon
  <2>7. LocatedInEra(n, FALSE, y, dd, m)
    BY <2>4, <2>6, Zenon DEF LocatedInEra
  <2>8. (n < JulianBefore) = FALSE
    BY <1>2, SMT
  <2> QED
    BY <2>7, <2>8, Zenon
<1> QED
  BY <1>1, <1>2, Zenon

LEMMA DayPlaced ==
  ASSUME NEW n \in Int, ~Drifts(n)
  PROVE  \E y, dd, m : Placed(n, n < JulianBefore, y, dd, m, date2tm(n))
<1>1. tm2date(date2tm(n)) = n
  BY DayRoundTrip, Zenon
<1>2. PICK y, dd, m : LocatedInEra(n, n < JulianBefore, y, dd, m)
  BY DayInEra, Zenon
<1> QED
  BY <1>1, <1>2, BackIsPlaced, Zenon DEF LocatedInEra

(* The next day is the next of the same year or the first of the next.     *)
InYear(julian, y, dd) ==
    /\ julian \in BOOLEAN /\ y \in Int /\ dd \in Int
    /\ 0 <= dd /\ YearStart(y, julian) + dd < YearStart(y + 1, julian)

LEMMA PlacedInYear ==
  ASSUME NEW n, NEW julian, NEW y, NEW dd, NEW m, NEW t, Placed(n, julian, y, dd, m, t)
  PROVE  InYear(julian, y, dd)
<1> DEFINE leap == LeapInTm2date(y, julian)
           s == YearStart(y, julian)
           z == YearStart(y + 1, julian)
           u == mtod(leap, m - 1)
           v == mtod(leap, m)
<1>1. julian \in BOOLEAN /\ y \in Int /\ dd \in Int /\ m \in 1 .. 12 /\ u <= dd /\ dd < v
  BY Zenon DEF Placed, InMonth
<1>2. /\ s \in Int /\ z \in Int
      /\ leap => z = s + 366
      /\ ~leap => z = s + 365
  <2>1. FromYearToYear(y, julian)
    BY <1>1, Lengths, Zenon
  <2> QED
    BY <2>1, Zenon DEF FromYearToYear
<1>3. leap \in BOOLEAN
  BY <1>1, NoShorter, Zenon
<1> HIDE DEF leap, s, z
<1>4. u \in Int /\ v \in Int /\ 0 <= u /\ (leap => v <= 366) /\ (~leap => v <= 365)
  <2>1. \/ m = 1 \/ m = 2 \/ m = 3 \/ m = 4 \/ m = 5 \/ m = 6 \/ m = 7 \/ m = 8 \/ m = 9
        \/ m = 10 \/ m = 11 \/ m = 12
    BY <1>1, TwelveMonths
  <2> QED
    BY <1>3, <2>1, SMT DEF mtod, days_before
<1> HIDE DEF u, v
<1>5. 0 <= dd /\ s + dd < z
  BY <1>1, <1>2, <1>4, SMT
<1> QED
  BY <1>1, <1>5, Zenon DEF InYear, s, z

NextPlace(julian, y, dd, z, ee) ==
    \/ z = y /\ ee = dd + 1
    \/ z = y + 1 /\ ee = 0 /\ YearStart(y + 1, julian) = YearStart(y, julian) + dd + 1

LEMMA NextInYear ==
  ASSUME NEW julian, NEW y, NEW dd, NEW z, NEW ee, InYear(julian, y, dd), InYear(julian, z, ee),
         YearStart(z, julian) + ee = YearStart(y, julian) + dd + 1
  PROVE  NextPlace(julian, y, dd, z, ee)
<1> DEFINE s == YearStart(y, julian)
           s1 == YearStart(y + 1, julian)
           r == YearStart(z, julian)
           r1 == YearStart(z + 1, julian)
<1>1. /\ julian \in BOOLEAN /\ y \in Int /\ dd \in Int /\ z \in Int /\ ee \in Int
      /\ 0 <= dd /\ s + dd < s1 /\ 0 <= ee /\ r + ee < r1 /\ r + ee = s + dd + 1
  BY Zenon DEF InYear
<1>2. s \in Int /\ s1 \in Int /\ r \in Int /\ r1 \in Int
  <2>1. FromYearToYear(y, julian) /\ FromYearToYear(z, julian)
    BY <1>1, Lengths, Zenon
  <2> QED
    BY <2>1, Zenon DEF FromYearToYear
<1>3. z + 1 \in Int /\ y + 1 \in Int
  BY <1>1, SMT
<1>4. z + 1 <= y => r1 + 365 * (y - (z + 1)) <= s
  <2>1. z + 1 <= y => YearsApart(z + 1, y, julian)
    BY <1>1, <1>3, YearStartGrows, Zenon
  <2> QED
    BY <2>1, Zenon DEF YearsApart
<1>5. y + 1 <= z => s1 + 365 * (z - (y + 1)) <= r
  <2>1. y + 1 <= z => YearsApart(y + 1, z, julian)
    BY <1>1, <1>3, YearStartGrows, Zenon
  <2> QED
    BY <2>1, Zenon DEF YearsApart
<1>6. z = y => r = s
  BY Zenon
<1>7. z = y + 1 => r = s1
  BY Zenon
<1> HIDE DEF s, s1, r, r1
<1>8. z = y \/ z = y + 1
  BY <1>1, <1>2, <1>4, <1>5, SMT
<1>9. CASE z = y
  <2>1. ee = dd + 1
    BY <1>1, <1>2, <1>6, <1>9, SMT
  <2> QED
    BY <1>9, <2>1, Zenon DEF NextPlace
<1>10. CASE z = y + 1
  <2>1. r = s1
    BY <1>7, <1>10
  <2>2. ee = 0 /\ s1 = s + dd + 1
    BY <1>1, <1>2, <2>1, SMT
  <2> QED
    BY <1>10, <2>2, Zenon DEF NextPlace, s, s1
<1> QED
  BY <1>8, <1>9, <1>10, Zenon

(* Within a year, the next day of the month or the first of the next.      *)
LEMMA MonthsGrow ==
  ASSUME NEW leap \in BOOLEAN, NEW a \in 0 .. 12, NEW b \in 0 .. 12, a <= b
  PROVE  /\ mtod(leap, a) \in Int /\ mtod(leap, b) \in Int
         /\ mtod(leap, a) + 28 * (b - a) <= mtod(leap, b)
<1>1. \A i \in 0 .. 12 : \/ i = 0 \/ i = 1 \/ i = 2 \/ i = 3 \/ i = 4 \/ i = 5 \/ i = 6 \/ i = 7
                         \/ i = 8 \/ i = 9 \/ i = 10 \/ i = 11 \/ i = 12
  BY SMT
<1>2. \/ a = 0 \/ a = 1 \/ a = 2 \/ a = 3 \/ a = 4 \/ a = 5 \/ a = 6 \/ a = 7
      \/ a = 8 \/ a = 9 \/ a = 10 \/ a = 11 \/ a = 12
  BY <1>1
<1>3. \/ b = 0 \/ b = 1 \/ b = 2 \/ b = 3 \/ b = 4 \/ b = 5 \/ b = 6 \/ b = 7
      \/ b = 8 \/ b = 9 \/ b = 10 \/ b = 11 \/ b = 12
  BY <1>1
<1> QED
  BY <1>2, <1>3, MonthTable, SMT

NextMonths(leap, dd, m, k) == k = m \/ (k = m + 1 /\ dd + 1 = mtod(leap, m))

LEMMA NextInMonth ==
  ASSUME NEW leap \in BOOLEAN, NEW dd \in Int, NEW m \in 1 .. 12, NEW k \in 1 .. 12,
         InMonth(leap, dd, m), InMonth(leap, dd + 1, k)
  PROVE  NextMonths(leap, dd, m, k)
<1> DEFINE u == mtod(leap, m - 1)
           v == mtod(leap, m)
           p == mtod(leap, k - 1)
           q == mtod(leap, k)
<1>1. u <= dd /\ dd < v /\ p <= dd + 1 /\ dd + 1 < q
  BY Zenon DEF InMonth
<1>2. u \in Int /\ v \in Int /\ p \in Int /\ q \in Int
  BY MonthLengths, Zenon
<1>3. k <= m - 1 => q + 28 * ((m - 1) - k) <= u
  <2>1. m - 1 \in 0 .. 12 /\ k \in 0 .. 12
    BY SMT
  <2> QED
    BY <2>1, MonthsGrow, Zenon
<1>4. m <= k - 1 => v + 28 * ((k - 1) - m) <= p
  <2>1. k - 1 \in 0 .. 12 /\ m \in 0 .. 12
    BY SMT
  <2> QED
    BY <2>1, MonthsGrow, Zenon
<1>5. k = m + 1 => p = v
  <2>1. k = m + 1 => k - 1 = m
    BY SMT
  <2> QED
    BY <2>1, Zenon
<1> HIDE DEF u, v, p, q
<1>6. k = m \/ k = m + 1
  BY <1>1, <1>2, <1>3, <1>4, SMT
<1>7. k = m + 1 => dd + 1 = v
  BY <1>1, <1>2, <1>5, SMT
<1> QED
  BY <1>6, <1>7, Zenon DEF NextMonths, v

(* The calendar's lengths are those of the table. *)
OfEra(julian, year) == (julian => year <= 1582) /\ (~julian => 1582 <= year)

LEMMA MonthsAgree ==
  ASSUME NEW y \in Int, NEW julian \in BOOLEAN, NEW m \in 1 .. 12,
         OfEra(julian, YearOf(y))
  PROVE  LET leap == LeapInTm2date(y, julian)
         IN  mtod(leap, m) - mtod(leap, m - 1) = Cal!LengthOf(YearOf(y), m)
<1> DEFINE leap == LeapInTm2date(y, julian)
<1>1. leap \in BOOLEAN
  BY NoShorter, Zenon
<1>2. Cal!IsLeap(YearOf(y)) = leap
  <2>1. CASE julian
    BY <2>1, SMT DEF OfEra, Cal!IsLeap, YearOf, LeapInTm2date
  <2>2. CASE ~julian
    <3>1. CASE y = ReformYear
      BY <2>2, <3>1, SMT DEF Cal!IsLeap, YearOf, LeapInTm2date, ReformYear
    <3>2. CASE y # ReformYear
      <4>1. ~(YearOf(y) <= 1582)
        BY <2>2, <3>2, SMT DEF OfEra, YearOf, ReformYear
      <4>2. /\ YearOf(y) % 4 = y % 4 /\ YearOf(y) % 100 = y % 100
            /\ YearOf(y) % 400 = y % 400 /\ (y % 400 = 0 => y % 4 = 0)
        BY SMT DEF YearOf
      <4> QED
        BY <2>2, <4>1, <4>2, SMT DEF Cal!IsLeap, LeapInTm2date
    <3> QED
      BY <3>1, <3>2
  <2> QED
    BY <2>1, <2>2
<1> HIDE DEF leap
<1>3. \/ m = 1 \/ m = 2 \/ m = 3 \/ m = 4 \/ m = 5 \/ m = 6 \/ m = 7 \/ m = 8 \/ m = 9
      \/ m = 10 \/ m = 11 \/ m = 12
  BY TwelveMonths
<1>4. mtod(leap, m) - mtod(leap, m - 1) = Cal!LengthOf(YearOf(y), m)
  BY <1>1, <1>2, <1>3, SMT DEF mtod, days_before, Cal!LengthOf
<1> QED
  BY <1>4, Zenon DEF leap

(* The day after t is u: Cal!Next without its variable.                    *)
Day(year, month, mday, wday) == [year |-> year, month |-> month, mday |-> mday, wday |-> wday]

After(y, m, a, v, u) ==
    LET last == Cal!LengthOf(y, m)
        reform == y = 1582 /\ m = 10 /\ a = 4
    IN  \/ a < last /\ ~reform /\ u = Day(y, m, a + 1, v)
        \/ a = last /\ m < 12 /\ u = Day(y, m + 1, 1, v)
        \/ a = 31 /\ m = 12 /\ u = Day(y + 1, 1, 1, v)
        \/ reform /\ u = Day(1582, 10, 15, v)

Follows(t, u) == After(t.year, t.month, t.mday, (t.wday + 1) % 7, u)

LEMMA AfterFollows ==
  ASSUME NEW y, NEW m, NEW a, NEW w, NEW v, v = (w + 1) % 7, NEW u, After(y, m, a, v, u)
  PROVE  Follows(Day(y, m, a, w), u)
<1> DEFINE t == Day(y, m, a, w)
<1>1. t.year = y /\ t.month = m /\ t.mday = a /\ t.wday = w
  BY DEF Day
<1> HIDE DEF t
<1>2. Follows(t, u)
  BY <1>1, Zenon DEF Follows
<1> QED
  BY <1>2 DEF t

LEMMA WeekGoesOn ==
  ASSUME NEW d \in Int, NEW julian \in BOOLEAN
  PROVE  WeekDay(d + 1, julian) = (WeekDay(d, julian) + 1) % 7
<1>1. (d + 1) - 1 = (d - 1) + 1
  BY SMT
<1>2. \A x \in Int : (x + 1) % 7 = ((x % 7) + 1) % 7
  BY SMT
<1>3. (d + 1) % 7 = ((d % 7) + 1) % 7 /\ ((d - 1) + 1) % 7 = (((d - 1) % 7) + 1) % 7
  BY <1>2, SMT
<1> QED
  BY <1>1, <1>3, Zenon DEF WeekDay

(* The fields of a placed day.                                             *)
EraOf(julian, y, m, a) == OfEra(julian, y) /\ (BeforeReform(y, m, a) <=> julian)

LEMMA ErasApart ==
  ASSUME NEW y \in Int, NEW m, NEW a, NEW julian \in BOOLEAN, BeforeReform(y, m, a) <=> julian
  PROVE  EraOf(julian, y, m, a)
BY SMT DEF EraOf, OfEra, BeforeReform

(* In the same calendar, the next day follows.                             *)
LEMMA NextDayFollows ==
  ASSUME NEW n, NEW julian, NEW y, NEW dd, NEW m, NEW t, Placed(n, julian, y, dd, m, t),
         NEW z, NEW ee, NEW k, NEW u, Placed(n + 1, julian, z, ee, k, u)
  PROVE  Follows(t, u)
<1> DEFINE leap == LeapInTm2date(y, julian)
           leap1 == LeapInTm2date(z, julian)
           d == n + Epoch(julian)
           d1 == (n + 1) + Epoch(julian)
           w == WeekDay(d, julian)
           v == WeekDay(d1, julian)
           a == dd - mtod(leap, m - 1) + 1
           b == ee - mtod(leap1, k - 1) + 1
           p == mtod(leap, m - 1)
           q == mtod(leap, m)
           last == Cal!LengthOf(YearOf(y), m)
<1>1. /\ n \in Int /\ julian \in BOOLEAN /\ y \in Int /\ dd \in Int /\ m \in 1 .. 12
      /\ p <= dd /\ dd < q /\ YearStart(y, julian) + dd = d
      /\ t = Day(YearOf(y), m, a, w) /\ (BeforeReform(YearOf(y), m, a) <=> julian)
  BY Zenon DEF Placed, InMonth, Day
<1>2. /\ z \in Int /\ ee \in Int /\ k \in 1 .. 12
      /\ InMonth(leap1, ee, k) /\ YearStart(z, julian) + ee = d1
      /\ u = Day(YearOf(z), k, b, v) /\ (BeforeReform(YearOf(z), k, b) <=> julian)
  BY Zenon DEF Placed, Day
<1>3. d \in Int /\ d1 = d + 1
  <2>1. Epoch(julian) \in Int
    BY SMT DEF Epoch, JulianShift, GregorianShift
  <2> QED
    BY <1>1, <2>1, SMT
<1>4. v = (w + 1) % 7
  BY <1>1, <1>3, WeekGoesOn, SMT
<1>5. leap \in BOOLEAN /\ p \in Int /\ q \in Int
  BY <1>1, NoShorter, Zenon
<1>6. YearOf(y) \in Int /\ YearOf(z) \in Int
  BY <1>1, <1>2, SMT DEF YearOf
<1>7. q - p = last
  <2>1. OfEra(julian, YearOf(y))
    BY <1>1, <1>6, ErasApart, Zenon DEF EraOf
  <2> QED
    BY <1>1, <2>1, MonthsAgree, Zenon
<1>8. \/ z = y /\ ee = dd + 1
      \/ z = y + 1 /\ ee = 0 /\ YearStart(y + 1, julian) = YearStart(y, julian) + dd + 1
  <2>1. InYear(julian, y, dd) /\ InYear(julian, z, ee)
    BY PlacedInYear, Zenon
  <2>2. YearStart(y, julian) \in Int
    BY <1>1, NextYearStart, Zenon
  <2>3. YearStart(z, julian) + ee = YearStart(y, julian) + dd + 1
    BY <1>1, <1>2, <1>3, <2>2, SMT
  <2>4. NextPlace(julian, y, dd, z, ee)
    BY <2>1, <2>3, NextInYear, Zenon
  <2> QED
    BY <2>4, Zenon DEF NextPlace
<1> HIDE DEF d, d1, w, v, last, leap
<1>9. CASE z = y /\ ee = dd + 1
  <2>1. InMonth(leap, dd, m) /\ InMonth(leap, dd + 1, k) /\ b = (dd + 1) - mtod(leap, k - 1) + 1
    BY <1>1, <1>2, <1>9, Zenon DEF InMonth, leap
  <2>2. CASE k = m
    <3>1. b = a + 1 /\ a < last
      <4>1. dd + 1 < q /\ b = (dd + 1) - p + 1 /\ a = dd - p + 1
        BY <2>1, <2>2, Zenon DEF InMonth
      <4> HIDE DEF p, q, a, b
      <4> QED
        BY <1>1, <1>5, <1>7, <4>1, SMT
    <3>2. ~(YearOf(y) = 1582 /\ m = 10 /\ a = 4)
      <4>1. SUFFICES ASSUME YearOf(y) = 1582, m = 10, a = 4 PROVE FALSE
        OBVIOUS
      <4>2. BeforeReform(1582, 10, 4) /\ ~BeforeReform(1582, 10, 4 + 1)
        BY SMT DEF BeforeReform
      <4>3. YearOf(z) = 1582 /\ k = 10 /\ b = 4 + 1
        BY <1>9, <2>2, <3>1, <4>1, SMT
      <4> QED
        BY <1>1, <1>2, <4>1, <4>2, <4>3, SMT
    <3>3. u = Day(YearOf(y), m, a + 1, v)
      BY <1>2, <1>9, <2>2, <3>1, Zenon
    <3> HIDE DEF a, b
    <3>4. After(YearOf(y), m, a, v, u)
      BY <3>1, <3>2, <3>3, SMT DEF After, last
    <3> QED
      BY <1>1, <1>4, <3>4, AfterFollows, Zenon
  <2>3. CASE k = m + 1 /\ dd + 1 = q
    <3>1. b = 1 /\ a = last /\ m < 12
      <4>1. k - 1 = m /\ m < 12
        BY <1>1, <1>2, <2>3, SMT
      <4>2. b = (dd + 1) - q + 1 /\ a = dd - p + 1
        BY <2>1, <4>1, Zenon
      <4> HIDE DEF p, q, a, b
      <4> QED
        BY <1>1, <1>5, <1>7, <2>3, <4>1, <4>2, SMT
    <3>2. u = Day(YearOf(y), m + 1, 1, v)
      BY <1>2, <1>9, <2>3, <3>1, Zenon
    <3> HIDE DEF a, b
    <3>3. After(YearOf(y), m, a, v, u)
      BY <3>1, <3>2, SMT DEF After, last
    <3> QED
      BY <1>1, <1>4, <3>3, AfterFollows, Zenon
  <2>4. k = m \/ (k = m + 1 /\ dd + 1 = q)
    <3>1. NextMonths(leap, dd, m, k)
      BY <1>1, <1>2, <1>5, <2>1, NextInMonth, Zenon
    <3> QED
      BY <3>1, Zenon DEF NextMonths
  <2> QED
    BY <2>2, <2>3, <2>4, Zenon
<1>10. CASE z = y + 1 /\ ee = 0 /\ YearStart(y + 1, julian) = YearStart(y, julian) + dd + 1
  <2>1. dd + 1 = mtod(leap, 12)
    <3> DEFINE s == YearStart(y, julian)
               s1 == YearStart(y + 1, julian)
    <3>1. /\ s \in Int /\ s1 = s + dd + 1
          /\ leap => s1 = s + 366
          /\ ~leap => s1 = s + 365
      <4>1. FromYearToYear(y, julian)
        BY <1>1, Lengths, Zenon
      <4> QED
        BY <1>10, <4>1, Zenon DEF FromYearToYear, leap
    <3> HIDE DEF s, s1
    <3> QED
      BY <1>1, <1>5, <3>1, MonthTable, SMT
  <2>2. m = 12 /\ p = (dd + 1) - 31
    <3>1. m <= 11 => FALSE
      <4>1. m <= 11 => mtod(leap, m) + 28 * (12 - m) <= mtod(leap, 12)
        <5>1. m \in 0 .. 12 /\ 12 \in 0 .. 12 /\ (m <= 11 => m <= 12)
          BY <1>1, SMT
        <5> QED
          BY <1>5, <5>1, MonthsGrow, SMT
      <4> HIDE DEF p
      <4> QED
        BY <1>1, <1>5, <2>1, <4>1, SMT
    <3>2. m = 12
      BY <1>1, <3>1, SMT
    <3>3. mtod(leap, 11) = mtod(leap, 12) - 31
      BY <1>5, MonthTable, SMT
    <3>4. p = mtod(leap, 11)
      BY <3>2, SMT
    <3> QED
      BY <2>1, <3>2, <3>3, <3>4, Zenon
  <2>3. a = 31
    <3> HIDE DEF p
    <3>1. a = dd - p + 1
      BY DEF p
    <3> QED
      BY <1>1, <1>5, <2>2, <3>1, SMT
  <2>4. k = 1 /\ b = 1
    <3>1. leap1 \in BOOLEAN
      BY <1>1, <1>2, NoShorter, Zenon
    <3>2. mtod(leap1, k - 1) <= 0
      BY <1>2, <1>10, Zenon DEF InMonth
    <3> HIDE DEF leap1
    <3>3. k # 1 => mtod(leap1, 0) + 28 * ((k - 1) - 0) <= mtod(leap1, k - 1)
      <4>1. 0 \in 0 .. 12 /\ k - 1 \in 0 .. 12 /\ 0 <= k - 1
        BY <1>2, SMT
      <4> QED
        BY <3>1, <4>1, MonthsGrow, SMT
    <3>4. mtod(leap1, 0) = 0 /\ mtod(leap1, k - 1) \in Int
      BY <1>2, <3>1, MonthTable, MonthLengths, SMT
    <3>5. k = 1
      BY <1>2, <3>2, <3>3, <3>4, SMT
    <3>6. mtod(leap1, k - 1) = 0
      BY <3>4, <3>5, SMT
    <3> QED
      BY <1>10, <3>5, <3>6, SMT DEF b
  <2>5. YearOf(z) = YearOf(y) + 1
    BY <1>1, <1>10, SMT DEF YearOf
  <2>6. u = Day(YearOf(y) + 1, 1, 1, v)
    BY <1>2, <2>4, <2>5, Zenon
  <2> HIDE DEF a, b
  <2>7. After(YearOf(y), m, a, v, u)
    BY <2>2, <2>3, <2>6, SMT DEF After
  <2> QED
    BY <1>1, <1>4, <2>7, AfterFollows, Zenon
<1> QED
  BY <1>8, <1>9, <1>10, Zenon

(* A day of the year of the reform is placed there.                        *)
EarlyDay(e) == e \in Int /\ 0 <= e /\ e < 364
OfReform(e, y, dd, m) == y = ReformYear /\ dd = e + 1 /\ InMonth(FALSE, e + 1, m)

LEMMA InReformYear ==
  ASSUME NEW julian \in BOOLEAN, NEW e, EarlyDay(e),
         NEW n, NEW y, NEW dd, NEW m, NEW t, Placed(n, julian, y, dd, m, t),
         YearStart(ReformYear, julian) + e + 1 = n + Epoch(julian)
  PROVE  OfReform(e, y, dd, m)
<1> DEFINE s == YearStart(ReformYear, julian)
           s1 == YearStart(ReformYear + 1, julian)
<1>1. ReformYear \in Int /\ ~LeapInTm2date(ReformYear, julian)
  BY SMT DEF ReformYear, LeapInTm2date
<1>2. s \in Int /\ s1 = s + 365
  <2>1. FromYearToYear(ReformYear, julian)
    BY <1>1, Lengths, Zenon
  <2> QED
    BY <1>1, <2>1, Zenon DEF FromYearToYear
<1> e \in Int /\ 0 <= e /\ e < 364
  BY Zenon DEF EarlyDay
<1>3. InYear(julian, ReformYear, e)
  <2> HIDE DEF s, s1
  <2>1. s + e < s1
    BY <1>2, SMT
  <2> QED
    BY <1>1, <2>1, Zenon DEF InYear, s, s1
<1>4. InYear(julian, y, dd)
  BY PlacedInYear, Zenon
<1>5. YearStart(y, julian) + dd = YearStart(ReformYear, julian) + e + 1
  BY Zenon DEF Placed
<1>6. NextPlace(julian, ReformYear, e, y, dd)
  BY <1>3, <1>4, <1>5, NextInYear, Zenon
<1>7. ~(s1 = s + e + 1)
  <2> HIDE DEF s, s1
  <2> QED
    BY <1>2, SMT
<1>8. y = ReformYear /\ dd = e + 1
  BY <1>6, <1>7, Zenon DEF NextPlace, s, s1
<1>9. InMonth(FALSE, e + 1, m)
  <2>1. LeapInTm2date(y, julian) = FALSE
    BY <1>1, <1>8, SMT DEF LeapInTm2date
  <2> QED
    BY <1>8, <2>1, Zenon DEF Placed
<1> QED
  BY <1>8, <1>9, Zenon DEF OfReform

MidAutumn(e) == e \in Int /\ 273 <= e /\ e < 304
InTenth(m) == m = 10 /\ mtod(FALSE, m - 1) = 273

LEMMA TenthMonth ==
  ASSUME NEW m \in 1 .. 12, NEW e, MidAutumn(e), InMonth(FALSE, e, m)
  PROVE  InTenth(m)
<1>1. \/ m = 1 \/ m = 2 \/ m = 3 \/ m = 4 \/ m = 5 \/ m = 6 \/ m = 7 \/ m = 8 \/ m = 9
      \/ m = 10 \/ m = 11 \/ m = 12
  BY TwelveMonths
<1> QED
  BY <1>1, SMT DEF MidAutumn, InTenth, InMonth, mtod, days_before

InOctober(mday, w) == Day(1582, 10, mday, w)
DayOfReform(julian, e, y, dd, m, w) ==
    Day(YearOf(y), m, dd - mtod(LeapInTm2date(y, julian), m - 1) + 1, w) = InOctober(e - 271, w)

LEMMA ReformFields ==
  ASSUME NEW julian \in BOOLEAN, NEW e \in Int, NEW y, NEW dd, NEW m, NEW w,
         OfReform(e, y, dd, m), InTenth(m)
  PROVE  DayOfReform(julian, e, y, dd, m, w)
<1> DEFINE x == mtod(LeapInTm2date(y, julian), m - 1)
<1>1. y = ReformYear /\ dd = e + 1
  BY Zenon DEF OfReform
<1>2. LeapInTm2date(ReformYear, julian) = FALSE /\ YearOf(ReformYear) = 1582
  BY SMT DEF LeapInTm2date, ReformYear, YearOf
<1>3. x = mtod(FALSE, m - 1)
  <2>1. LeapInTm2date(ReformYear, julian) = FALSE
    BY <1>2
  <2> QED
    BY <1>1, <2>1, Zenon
<1>4. YearOf(y) = 1582
  <2>1. YearOf(y) = YearOf(ReformYear)
    BY <1>1, Zenon
  <2> HIDE DEF x
  <2> QED
    BY <1>2, <2>1
<1> HIDE DEF x
<1>5. x = 273 /\ m = 10
  <2>1. m = 10 /\ mtod(FALSE, m - 1) = 273
    BY Zenon DEF InTenth
  <2> QED
    BY <1>3, <2>1, Zenon
<1>6. dd - x + 1 = e - 271
  <2>1. dd = e + 1
    BY <1>1
  <2> QED
    BY <1>5, <2>1, SMT
<1> DEFINE yy == YearOf(y)
           a == dd - x + 1
<1>7. yy = 1582 /\ m = 10 /\ a = e - 271
  BY <1>4, <1>5, <1>6
<1> HIDE DEF yy, a
<1>8. Day(yy, m, a, w) = InOctober(e - 271, w)
  BY <1>7, SMT DEF InOctober
<1> QED
  BY <1>8, Zenon DEF DayOfReform, x, yy, a

(* 4 October 1582 is followed by 15 October. *)
LEMMA ReformFollows ==
  ASSUME NEW n, n + 1 = JulianBefore,
         NEW y, NEW dd, NEW m, NEW t, Placed(n, TRUE, y, dd, m, t),
         NEW z, NEW ee, NEW k, NEW u, Placed(n + 1, FALSE, z, ee, k, u)
  PROVE  Follows(t, u)
<1>0. n \in Int /\ m \in 1 .. 12 /\ k \in 1 .. 12
  BY Zenon DEF Placed
<1> DEFINE w == WeekDay(n + Epoch(TRUE), TRUE)
           v == WeekDay((n + 1) + Epoch(FALSE), FALSE)
<1> HIDE DEF w, v
<1>1. PICK e \in Int : e = 275
  BY SMT
<1>2. PICK f \in Int : f = 286
  BY SMT
<1>3. OfReform(e, y, dd, m)
  <2>1. YearStart(ReformYear, TRUE) + e + 1 = n + Epoch(TRUE)
    BY <1>0, <1>1, SMT DEF YearStart, ReformYear, Epoch, JulianBefore, JulianShift
  <2>2. EarlyDay(e)
    BY <1>1, SMT DEF EarlyDay
  <2> QED
    BY <2>1, <2>2, InReformYear, Zenon
<1>4. OfReform(f, z, ee, k)
  <2>1. YearStart(ReformYear, FALSE) + f + 1 = (n + 1) + Epoch(FALSE)
    BY <1>0, <1>2, SMT DEF YearStart, ReformYear, Epoch, JulianBefore, GregorianShift
  <2>2. EarlyDay(f)
    BY <1>2, SMT DEF EarlyDay
  <2> QED
    BY <2>1, <2>2, InReformYear, Zenon
<1>5. DayOfReform(TRUE, e, y, dd, m, w)
  <2>1. MidAutumn(e + 1)
    BY <1>1, SMT DEF MidAutumn
  <2>2. InTenth(m)
    BY <1>0, <1>3, <2>1, TenthMonth, Zenon DEF OfReform
  <2> QED
    BY <1>3, <2>2, ReformFields, Zenon
<1>6. DayOfReform(FALSE, f, z, ee, k, v)
  <2>1. MidAutumn(f + 1)
    BY <1>2, SMT DEF MidAutumn
  <2>2. InTenth(k)
    BY <1>0, <1>4, <2>1, TenthMonth, Zenon DEF OfReform
  <2> QED
    BY <1>4, <2>2, ReformFields, Zenon
<1>7. e - 271 = 4 /\ f - 271 = 15
  BY <1>1, <1>2, SMT
<1>8. v = (w + 1) % 7
  BY <1>0, SMT DEF v, w, WeekDay, Epoch, JulianBefore, JulianShift, GregorianShift
<1>9. t = InOctober(4, w)
  <2>1. t = Day(YearOf(y), m, dd - mtod(LeapInTm2date(y, TRUE), m - 1) + 1, w)
    BY Zenon DEF Placed, Day, w
  <2> QED
    BY <1>5, <1>7, <2>1, Zenon DEF DayOfReform
<1>10. u = InOctober(15, v)
  <2>1. u = Day(YearOf(z), k, ee - mtod(LeapInTm2date(z, FALSE), k - 1) + 1, v)
    BY Zenon DEF Placed, Day, v
  <2> QED
    BY <1>6, <1>7, <2>1, Zenon DEF DayOfReform
<1>11. After(1582, 10, 4, v, u)
  BY <1>10, SMT DEF After, InOctober
<1>12. Follows(InOctober(4, w), u)
  <2>1. Follows(Day(1582, 10, 4, w), u)
    BY <1>8, <1>11, AfterFollows, SMT
  <2> QED
    BY <2>1, SMT DEF InOctober
<1> QED
  BY <1>9, <1>12, Zenon

(* Every day of date2tm is one of the calendar, the wrong ones too.        *)
InGap(t) == t.year = 1582 /\ t.month = 10 /\ t.mday \in 5 .. 14

LEMMA NotInGap ==
  ASSUME NEW n \in Int
  PROVE  ~InGap(date2tm(n))
<1> DEFINE t == date2tm(n)
<1>1. SUFFICES ASSUME InGap(t) PROVE FALSE
  OBVIOUS
<1>2. PICK y0, dd0, m0 : LocatedInEra(n, n < JulianBefore, y0, dd0, m0)
  BY DayInEra, Zenon
<1>3. ~(n < JulianBefore)
  <2>1. BeforeReform(t.year, t.month, t.mday) <=> n < JulianBefore
    <3>1. t.year = YearOf(y0) /\ t.month = m0 /\ t.mday = MdayOf(y0, dd0, m0)
      <4>1. t = FieldsOf(n + Epoch(n < JulianBefore), n < JulianBefore, y0, dd0, m0)
        BY <1>2, Zenon DEF LocatedInEra, Located
      <4> HIDE DEF t
      <4> QED
        BY <4>1, Zenon DEF FieldsOf
    <3> HIDE DEF t
    <3> QED
      BY <1>2, <3>1, Zenon DEF LocatedInEra
  <2> HIDE DEF t
  <2>2. ~BeforeReform(t.year, t.month, t.mday)
    BY <1>1, SMT DEF InGap, BeforeReform
  <2> QED
    BY <2>1, <2>2, Zenon
<1>4. ~Drifts(n)
  BY <1>3, Zenon DEF Drifts
<1>5. PICK y, dd, m : Placed(n, n < JulianBefore, y, dd, m, t)
  BY <1>4, DayPlaced, Zenon
<1>6. Placed(n, FALSE, y, dd, m, t)
  <2>1. (n < JulianBefore) = FALSE
    BY <1>3, SMT
  <2> QED
    BY <1>5, <2>1, Zenon
<1> HIDE DEF t
<1> DEFINE x == mtod(LeapInTm2date(y, FALSE), m - 1)
           s == YearStart(y, FALSE)
<1>7. /\ y \in Int /\ dd \in Int /\ m \in 1 .. 12 /\ s + dd = n + Epoch(FALSE)
      /\ t = Day(YearOf(y), m, dd - x + 1, WeekDay(n + Epoch(FALSE), FALSE))
  BY <1>6, Zenon DEF Placed, Day
<1>8. t.year = YearOf(y) /\ t.month = m /\ t.mday = dd - x + 1
  <2> HIDE DEF x
  <2> QED
    BY <1>7 DEF Day
<1>9. y = ReformYear /\ m = 10
  <2>1. t.year = 1582 /\ t.month = 10
    BY <1>1, SMT DEF InGap
  <2>2. YearOf(y) = 1582
    BY <1>8, <2>1
  <2>3. y = ReformYear
    BY <1>7, <2>2, SMT DEF YearOf, ReformYear
  <2> QED
    BY <1>8, <2>1, <2>3
<1>10. x = 273
  BY <1>9, SMT DEF mtod, days_before, LeapInTm2date, ReformYear
<1>11. s = 40754488
  BY <1>9, SMT DEF YearStart, ReformYear
<1>12. dd - x + 1 \in 5 .. 14
  <2> HIDE DEF x
  <2> QED
    BY <1>1, <1>8, SMT DEF InGap
<1> HIDE DEF x, s
<1> QED
  BY <1>3, <1>7, <1>10, <1>11, <1>12, SMT DEF Epoch, JulianBefore, GregorianShift

LEMMA EveryDay ==
  ASSUME NEW n \in Int
  PROVE  Cal!IsDay(date2tm(n))
<1> DEFINE t == date2tm(n)
<1>1. InRange(t) /\ ~InGap(t)
  BY FieldsInRange, NotInGap, Zenon
<1>2. PICK y, dd, m : LocatedInEra(n, n < JulianBefore, y, dd, m)
  BY DayInEra, Zenon
<1> DEFINE julian == n < JulianBefore
           p == mtod(IsRn(y), m - 1)
           q == mtod(IsRn(y), m)
           l == LeapInTm2date(y, julian)
<1>3. /\ julian \in BOOLEAN /\ y \in Int /\ dd \in Int /\ m \in 1 .. 12 /\ p <= dd /\ dd < q
      /\ t = FieldsOf(n + Epoch(julian), julian, y, dd, m)
  BY <1>2, Zenon DEF LocatedInEra, Located, InMonth
<1>4. t.year = YearOf(y) /\ t.month = m /\ t.mday = dd - p + 1
  <2>1. t = FieldsOf(n + Epoch(julian), julian, y, dd, m) /\ MdayOf(y, dd, m) = dd - p + 1
    BY <1>3, Zenon DEF MdayOf
  <2> HIDE DEF t, julian, p
  <2> QED
    BY <2>1, Zenon DEF FieldsOf
<1>5. BeforeReform(YearOf(y), m, MdayOf(y, dd, m)) <=> julian
  BY <1>2, Zenon DEF LocatedInEra
<1> HIDE DEF t, julian
<1>6. p \in Int /\ q \in Int /\ q - p <= mtod(l, m) - mtod(l, m - 1)
  BY <1>3, NoShorter, Zenon
<1>7. mtod(l, m) - mtod(l, m - 1) = Cal!LengthOf(YearOf(y), m)
  <2>1. YearOf(y) \in Int
    BY <1>3, SMT DEF YearOf
  <2>2. OfEra(julian, YearOf(y))
    BY <1>3, <1>5, <2>1, ErasApart, Zenon DEF EraOf
  <2> QED
    BY <1>3, <2>2, MonthsAgree, Zenon
<1>8. t.mday <= Cal!LengthOf(t.year, t.month)
  <2>1. q - p <= Cal!LengthOf(YearOf(y), m)
    BY <1>6, <1>7, Zenon
  <2> HIDE DEF p, q
  <2>2. Cal!LengthOf(YearOf(y), m) \in Int
    BY SMT DEF Cal!LengthOf
  <2>3. dd - p + 1 <= Cal!LengthOf(YearOf(y), m)
    BY <1>3, <1>6, <2>1, <2>2, SMT
  <2> QED
    BY <1>4, <2>3, Zenon
<1>9. Cal!LengthOf(t.year, t.month) \in Int
  BY SMT DEF Cal!LengthOf
<1>10. Cal!IsDay(t)
  BY <1>1, <1>8, <1>9, SMT DEF InRange, InGap, Cal!IsDay
<1> QED
  BY <1>10, Zenon DEF t

(* The day after a day, unless one of them is of Drifts.                   *)
LEMMA TomorrowFollows ==
  ASSUME NEW n \in Int, ~Drifts(n), ~Drifts(n + 1)
  PROVE  Follows(date2tm(n), date2tm(n + 1))
<1>0. n + 1 \in Int
  BY SMT
<1>1. PICK y, dd, m : Placed(n, n < JulianBefore, y, dd, m, date2tm(n))
  BY DayPlaced, Zenon
<1>2. PICK z, ee, k : Placed(n + 1, n + 1 < JulianBefore, z, ee, k, date2tm(n + 1))
  BY <1>0, DayPlaced, Zenon
<1>3. \/ (n < JulianBefore) = TRUE /\ (n + 1 < JulianBefore) = TRUE
      \/ (n < JulianBefore) = FALSE /\ (n + 1 < JulianBefore) = FALSE
      \/ (n < JulianBefore) = TRUE /\ (n + 1 < JulianBefore) = FALSE /\ n + 1 = JulianBefore
  BY SMT DEF JulianBefore
<1>4. CASE (n < JulianBefore) = (n + 1 < JulianBefore)
  BY <1>1, <1>2, <1>4, NextDayFollows, Zenon
<1>5. CASE (n < JulianBefore) = TRUE /\ (n + 1 < JulianBefore) = FALSE /\ n + 1 = JulianBefore
  BY <1>1, <1>2, <1>5, ReformFollows, Zenon
<1> QED
  BY <1>3, <1>4, <1>5, Zenon

LEMMA StepOfCalendar ==
  ASSUME Follows(date2tm(date), date2tm(date'))
  PROVE  Cal!Next
<1> DEFINE t == date2tm(date)
<1>1. After(t.year, t.month, t.mday, (t.wday + 1) % 7, date2tm(date'))
  BY Zenon DEF Follows
<1> HIDE DEF t
<1> QED
  BY <1>1, SMT DEF After, Day, Cal!Next, Cal!WithinMonth, Cal!NextMonth, Cal!NextYear, Cal!Reform,
     Cal!Dawns, t

(* date2tm goes through a window as Calendar goes from day to day, over    *)
(* ends of months and years, leap days, the reform and the week; it leaves *)
(* it only on the days of Drifts.                                          *)
THEOREM FollowsTheCalendar == Spec => FollowsCalendar
<1>1. InWindow => Cal!Init
  BY OfTheHeader, EveryDay, Zenon DEF Cal!Init, InHeader
<1>2. Init => InWindow
  BY WindowsAssumption, SMT DEF Init, InWindow
<1>3. InWindow /\ [Tomorrow]_date => [Drifts(date) \/ Drifts(date') \/ Cal!Next]_date
  <2> SUFFICES ASSUME InWindow, Tomorrow, ~Drifts(date), ~Drifts(date') PROVE Cal!Next
    OBVIOUS
  <2>1. date \in Int /\ date' = date + 1
    BY OfTheHeader, Zenon DEF InHeader, Tomorrow
  <2>2. Follows(date2tm(date), date2tm(date'))
    BY <2>1, TomorrowFollows, Zenon
  <2> QED
    BY <2>2, StepOfCalendar, Zenon
<1> QED
  BY <1>1, <1>2, <1>3, Stays, PTL DEF Spec, FollowsCalendar
=============================================================================
