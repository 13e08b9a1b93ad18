------------------------------ MODULE Calendar ------------------------------
(***************************************************************************)
(* What the date functions of utl_time.cpp promise (kci_time.h:60-63): the  *)
(* civil calendar, one day after the other.  It is the Julian calendar up   *)
(* to 4 October 1582, and the Gregorian from the next day, 15 October 1582, *)
(* on.  Year 0 is the year before year 1.  Weeks were never interrupted.    *)
(***************************************************************************)
EXTENDS Integers

VARIABLE today    \* [year, month, mday, wday], as struct DateTime has them

IsLeap(year) ==
    IF year <= 1582 THEN year % 4 = 0
                    ELSE year % 4 = 0 /\ (year % 100 # 0 \/ year % 400 = 0)

LengthOf(year, month) ==
    CASE month = 2                -> IF IsLeap(year) THEN 29 ELSE 28
      [] month \in {4, 6, 9, 11}  -> 30
      [] OTHER                    -> 31

IsDay(t) ==
    /\ t.month \in 1..12
    /\ t.mday \in 1..LengthOf(t.year, t.month)
    /\ t.wday \in 0..6
    /\ ~(t.year = 1582 /\ t.month = 10 /\ t.mday \in 5..14)

-----------------------------------------------------------------------------

Init == IsDay(today)

\* The next day, whatever its date, has the next day of the week.
Dawns(year, month, mday) ==
    today' = [year |-> year, month |-> month, mday |-> mday, wday |-> (today.wday + 1) % 7]

WithinMonth ==
    /\ today.mday < LengthOf(today.year, today.month)
    /\ ~(today.year = 1582 /\ today.month = 10 /\ today.mday = 4)
    /\ Dawns(today.year, today.month, today.mday + 1)

NextMonth ==
    /\ today.mday = LengthOf(today.year, today.month)
    /\ today.month < 12
    /\ Dawns(today.year, today.month + 1, 1)

NextYear ==
    /\ today.mday = 31 /\ today.month = 12
    /\ Dawns(today.year + 1, 1, 1)

\* The ten days that never were.
Reform ==
    /\ today.year = 1582 /\ today.month = 10 /\ today.mday = 4
    /\ Dawns(1582, 10, 15)

Next == WithinMonth \/ NextMonth \/ NextYear \/ Reform

Spec == Init /\ [][Next]_today
=============================================================================
