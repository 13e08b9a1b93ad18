------------------------------- MODULE KciTime -------------------------------
(***************************************************************************)
(* Dates of the driver: utl_time.cpp, the conversions of kci_utls.cpp and   *)
(* those of date columns and parameters in utl_dtype.cpp.                   *)
(*                                                                         *)
(* A date is a number of days since 1970-01-01.  A time is a 64-bit number  *)
(* of microseconds in the code; here it is the triple of the day, the       *)
(* second of the day and the microsecond, with carries done by Normal.      *)
(* Texts are the fields they are printed with; years stay below 10000, so   *)
(* that four digits hold them.                                              *)
(* Division and remainder truncate in C; every dividend in date2tm and      *)
(* tm2date is positive (110000 years are added first), so \div and % agree. *)
(***************************************************************************)
EXTENDS Integers, Sequences

CONSTANTS
    Windows,             \* the days that are looked at: pairs of a first and a last day
    Clocks,              \* seconds of a day that are combined with a date
    Intervals,           \* intervals, as pairs of seconds and microseconds
    Leftovers            \* microseconds a DateTime nobody initialised may hold

\* The years the header gives a date: -4712 to 9999.
FirstDay == -2440588
LastDay == 2932896

ASSUME WindowsAssumption ==
    \A w \in Windows : /\ w[1] \in Int /\ w[2] \in Int
                       /\ FirstDay <= w[1] /\ w[1] <= w[2] /\ w[2] <= LastDay
ASSUME ClocksAssumption == \A c \in Clocks : c \in Int /\ 0 <= c /\ c < 86400
ASSUME IntervalsAssumption == Intervals \subseteq Int \X Int
ASSUME LeftoversAssumption == Leftovers \subseteq Int

VARIABLE date            \* the date at hand

-----------------------------------------------------------------------------
(* The day tables.                                                         *)

\* IsRn: the Gregorian rule, whatever the year.
IsRn(y) == y % 400 = 0 \/ (y % 4 = 0 /\ y % 100 # 0)

month_days == <<31, 28, 31, 30, 31, 30, 31, 31, 30, 31, 30, 31>>

\* The days of the year before each month, and at the end all of them.
days_before == <<0, 31, 59, 90, 120, 151, 181, 212, 243, 273, 304, 334, 365>>
mtod(leap, m) == days_before[m + 1] + (IF leap /\ m >= 2 THEN 1 ELSE 0)

\* day2md, day2md_rn: month and day of the month of the d-th day of a year.
day2md(leap, d) ==
    LET m == CHOOSE i \in 1..12 : mtod(leap, i - 1) <= d /\ d < mtod(leap, i)
    IN  <<m, d - mtod(leap, m - 1) + 1>>

-----------------------------------------------------------------------------
(* From days to the calendar.                                              *)

JulianShift == 40897029       \* from 1 January of year -110000 to 1970, Julian
GregorianShift == 40896202    \* the same, Gregorian
JulianBefore == -141427       \* 15 October 1582

\* Days of the years before year y, counted as the code does.
YearStart(y, julian) ==
    y * 365 + (y - 1) \div 4
            - (IF julian THEN 0 ELSE (y - 1) \div 100 - (y - 1) \div 400)

\* A first guess at the year of day d, never too late and at most one too early.
GuessYear(d, julian) ==
    LET d1 == d - 10
        in400 == IF julian THEN d1 ELSE d1 % 146097
        in100 == IF julian THEN in400 ELSE in400 % 36524
        years == IF julian THEN 0 ELSE (d1 \div 146097) * 400 + (in400 \div 36524) * 100
    IN  years + (in100 \div 1461) * 4 + (in100 % 1461) \div 365

\* Mutant: every fourth year.
LeapEveryFour(y) == y % 4 = 0

\* The leap rule the code corrects the guess with and looks up the month by.
LeapInDate2tm(y) == IsRn(y)

\* The year of day d and the day within it, both after the correction.
Corrected(y, d) ==
    IF d >= 365
    THEN IF LeapInDate2tm(y)
         THEN IF d > 365 THEN <<y + 1, d - 366>> ELSE <<y, d>>
         ELSE <<y + 1, d - 365>>
    ELSE <<y, d>>

WeekDay(d, julian) == IF julian THEN (d - 1) % 7 ELSE d % 7

InYears(d, julian) ==
    LET guess == GuessYear(d, julian)
        yd == Corrected(guess, d - YearStart(guess, julian))
        md == day2md(LeapInDate2tm(yd[1]), yd[2])
    IN  [year |-> yd[1] - 110000, month |-> md[1], mday |-> md[2], wday |-> WeekDay(d, julian)]

date2tm(n) ==
    IF n < JulianBefore THEN InYears(n + JulianShift, TRUE)
                        ELSE InYears(n + GregorianShift, FALSE)

-----------------------------------------------------------------------------
(* And back.                                                               *)

\* Mutant: the reform is put at the end of its year.
ReformAtNewYear(y, m, d) == y <= 1582

BeforeReform(y, m, d) == y < 1582 \/ (y = 1582 /\ (m < 10 \/ (m = 10 /\ d < 5)))

LeapInTm2date(y, julian) ==
    IF julian THEN y % 4 = 0 ELSE (y % 4 = 0 /\ y % 100 # 0) \/ y % 400 = 0

tm2date(t) ==
    LET julian == BeforeReform(t.year, t.month, t.mday)
        y == t.year + 110000
    IN  t.mday + mtod(LeapInTm2date(y, julian), t.month - 1) - 1 + YearStart(y, julian)
          - (IF julian THEN JulianShift ELSE GregorianShift)
-----------------------------------------------------------------------------
(* Times: the same with a second of the day and a microsecond.             *)

Normal(day, s, us) ==
    LET sec == s + us \div 1000000
    IN  [day |-> day + sec \div 86400, s |-> sec % 86400, us |-> us % 1000000]

dt2tm(t) ==
    LET d == date2tm(t.day)
    IN  [year |-> d.year, month |-> d.month, mday |-> d.mday, wday |-> d.wday,
         s |-> t.s, us |-> t.us]

tm2dt(tm) == Normal(tm2date(tm), tm.s, tm.us)

(* KCIDateTimeIntervalAdd.  The DateTime made of the argument keeps the     *)
(* microseconds its memory happens to hold; the seconds of the interval are *)
(* multiplied and its microseconds added in 32 bits.                        *)

\* Whether s seconds and us microseconds are a 32-bit number of microseconds.
InInt32(s, us) ==
    LET t == Normal(0, s + 43200, us)      \* half a day keeps the day at 0
        sec == t.s - 43200
    IN  /\ t.day = 0
        /\ sec > -2148 \/ (sec = -2148 /\ t.us >= 516352)
        /\ sec < 2147 \/ (sec = 2147 /\ t.us <= 483647)

\* The number of times 2^32 microseconds to take off: at most that of 2^31 seconds.
Wraps(s, us) == CHOOSE k \in -21..21 : InInt32(s - 4294 * k, us - 967296 * k)

\* Mutant: the microseconds of the interval are forgotten.
AddSecondsOnly(t, inter, leftover) ==
    LET k == Wraps(inter[1], 0)
        from == tm2dt([dt2tm(t) EXCEPT !.us = leftover])
    IN  dt2tm(Normal(from.day, from.s + inter[1] - 4294 * k, from.us - 967296 * k))

KCIDateTimeIntervalAdd(t, inter, leftover) ==
    LET k == Wraps(inter[1], inter[2])
        from == tm2dt([dt2tm(t) EXCEPT !.us = leftover])
    IN  dt2tm(Normal(from.day, from.s + inter[1] - 4294 * k, from.us + inter[2] - 967296 * k))

-----------------------------------------------------------------------------
(* Date columns and parameters of type SQLT_DAT: seven bytes.              *)

Quot(a, b) == IF a >= 0 THEN a \div b ELSE -((-a) \div b)     \* as C divides
Rem(a, b) == a - b * Quot(a, b)
Byte(n) == n % 256

\* toSysData: the server sends milliseconds.
DatOfColumn(day, ms) ==
    LET tm == dt2tm(Normal(day, ms \div 1000, (ms % 1000) * 1000))
    IN  << Byte(Quot(tm.year, 100) + 100), Byte(Rem(tm.year, 100) + 100), tm.month, tm.mday,
           tm.s \div 3600, (tm.s % 3600) \div 60, tm.s % 60 >>

\* toKunData: the server takes microseconds.
ParamOfDat(b) ==
    tm2dt([ year |-> (b[1] - 100) * 100 + (b[2] - 100), month |-> b[3], mday |-> b[4],
            s |-> b[5] * 3600 + b[6] * 60 + b[7], us |-> 0 ])

-----------------------------------------------------------------------------
(* Texts in the default format, of which only yyyy-mm-dd is understood.    *)

tm2str(tm) ==
    [ yyyy |-> IF tm.year > 0 THEN tm.year ELSE 1 - tm.year,
      mm |-> tm.month, dd |-> tm.mday, bc |-> tm.year <= 0 ]

NoDate == [year |-> 0, month |-> 0, mday |-> 0]     \* str2tm returned false

str2tm(text) ==
    LET y == IF text.bc THEN 1 - text.yyyy ELSE text.yyyy
        last == IF text.mm = 2 /\ IsRn(y) THEN 29 ELSE month_days[text.mm]
    IN  IF y = 0 \/ text.dd > last THEN NoDate
        ELSE [year |-> y, month |-> text.mm, mday |-> text.dd]

-----------------------------------------------------------------------------
(* One day after the other, through each window.                           *)

Init == \E w \in Windows : date = w[1]

Tomorrow ==
    /\ \E w \in Windows : w[1] <= date /\ date < w[2]
    /\ date' = date + 1

Spec == Init /\ [][Tomorrow]_date

-----------------------------------------------------------------------------
(* Properties.                                                             *)

\* Every day of a window is a date with its fields in range.
TypeOK ==
    /\ \E w \in Windows : date \in w[1]..w[2]
    /\ date2tm(date).month \in 1..12 /\ date2tm(date).mday \in 1..31 /\ date2tm(date).wday \in 0..6

\* The days date2tm gets wrong: it looks them up by the Gregorian rule, and the Julian
\* calendar has a 29 February in century years too.  They last to 10 January of the next
\* year, as the guess at the year is ten days late.
Drifts(n) ==
    LET y == tm2date([year |-> (date2tm(n).year \div 100) * 100, month |-> 2, mday |-> 29])
        e == tm2date([year |-> (date2tm(n).year \div 100) * 100 + 1, month |-> 1, mday |-> 10])
    IN  n < JulianBefore /\ (date2tm(n).year \div 100) % 4 # 0 /\ y <= n /\ n <= e

\* Elsewhere date2tm follows the calendar: the day after, the month after, the year after,
\* the reform, and the day of the week with them.
Cal == INSTANCE Calendar WITH today <- date2tm(date)
FollowsCalendar == Cal!Init /\ [][Drifts(date) \/ Drifts(date') \/ Cal!Next]_date

\* tm2date undoes date2tm, across the two calendars with their different constants, on
\* all the days but those.
DateRoundTrip == tm2date(date2tm(date)) = date <=> ~Drifts(date)

\* An interval whose microseconds fit 32 bits moves a time by exactly that much, over the
\* ends of days, years and the reform; what the DateTime's memory held comes on top.
IntervalMoves ==
    ~Drifts(date) => \A c \in Clocks, i \in Intervals, l \in Leftovers :
        InInt32(i[1], i[2]) /\ ~Drifts(Normal(date, c + i[1], i[2] + l).day) =>
            tm2dt(KCIDateTimeIntervalAdd([day |-> date, s |-> c, us |-> 0], i, l))
                = Normal(date, c + i[1], i[2] + l)

\* A date column fetched into seven bytes and bound again as a parameter is the same
\* second, also before year 1, where the two halves of the year are negative.
DatRoundTrip ==
    ~Drifts(date) => \A c \in Clocks :
        ParamOfDat(DatOfColumn(date, 1000 * c + 999)) = [day |-> date, s |-> c, us |-> 0]

\* What tm2str prints of a day str2tm reads as that day, but it refuses the days of 1 BC.
TextRoundTrip ==
    LET tm == date2tm(date)
        back == str2tm(tm2str(tm))
    IN  ~Drifts(date) => IF tm.year = 0 THEN back = NoDate
                         ELSE back.month > 0 /\ tm2date(back) = date

\* Every conversion of a date is undone by its inverse: to the calendar and back, to the
\* seven bytes of a column and back, to a text and back.
ConversionsUndone == TypeOK /\ DateRoundTrip /\ DatRoundTrip /\ TextRoundTrip
=============================================================================
