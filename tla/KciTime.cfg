SPECIFICATION Spec
CONSTANTS
    Windows <- mc_Windows
    Clocks <- mc_Clocks
    Intervals <- mc_Intervals
    Leftovers <- mc_Leftovers
CHECK_DEADLOCK FALSE
INVARIANTS ConversionsUndone IntervalMoves
PROPERTY FollowsCalendar
