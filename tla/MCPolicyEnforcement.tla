------------------------- MODULE MCPolicyEnforcement -------------------------
(* Finite instances of PolicyEnforcement for TLC: two moments to a day.    *)
EXTENDS PolicyEnforcement

CONSTANTS p, q

MCIds == {p, q}

Morning == [start |-> 0, stop |-> 1]
Afternoon == [start |-> 1, stop |-> 2]
WholeDay == [start |-> 0, stop |-> 2]

AllDayTimes == [label |-> "Daily", days |-> Days, rows |-> {WholeDay}]
DailyMornings == [label |-> "Daily", days |-> Days, rows |-> {Morning}]
DailyAfternoons == [label |-> "Daily", days |-> Days, rows |-> {Afternoon}]
TwoWholeDays == [label |-> "Named", days |-> {1, 2}, rows |-> {WholeDay}]
Weekdays == [label |-> "Weekday", days |-> 1 .. 5, rows |-> {WholeDay}]
Saturday == [label |-> "Named", days |-> {6}, rows |-> {Afternoon}]

\* DailyAfternoons ends at 23:59 on every day, which the code cannot turn into jobs,
\* nor Weekdays, for its label.
MCOffers ==
  {[filtering |-> "active", times |-> t] :
     t \in {AllDayTimes, DailyMornings, DailyAfternoons, TwoWholeDays, Weekdays, Saturday}}
  \cup {[filtering |-> "passive", times |-> AllDayTimes]}

=============================================================================
