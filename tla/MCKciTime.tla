------------------------------ MODULE MCKciTime ------------------------------
EXTENDS KciTime

Years(from, to) ==
    << tm2date([year |-> from, month |-> 1, mday |-> 1]),
       tm2date([year |-> to, month |-> 12, mday |-> 31]) >>

\* The first years the header allows, the turn of the era, a century of the Julian
\* calendar, the reform, centuries and fours, day 0, and the last years.
mc_Windows ==
    { Years(-4712, -4711), Years(-1, 4), Years(1499, 1502), Years(1582, 1583), Years(1699, 1701),
      Years(1900, 1900), Years(1968, 1970), Years(2000, 2001), Years(9999, 9999) }

mc_Clocks == {0, 1, 43200, 86399}
mc_Intervals == { <<0, 1>>, <<1, 0>>, <<-1, 999999>>, <<2147, 0>>, <<-2147, 0>>, <<2148, 0>> }
mc_Leftovers == {0, 1, -1, 2147483}
==============================================================================
