------------------------------ MODULE MCSchedule ------------------------------
(***************************************************************************)
(* Nights of Schedule: around a leap day, a year's end, the hour the clocks  *)
(* skip, the hour they repeat, and two long walks of the calendar.           *)
(***************************************************************************)
EXTENDS Schedule

\* Fifteen seconds are a unit.
MCMinute == 4
MCSlice == 2

Each == <<Star>>
At(n) == <<[span |-> <<n>>, step |-> <<>>]>>
From(a, b) == <<[span |-> <<a, b>>, step |-> <<>>]>>
Every(n) == <<[span |-> <<>>, step |-> <<n>>]>>
After(a, n) == <<[span |-> <<a>>, step |-> <<n>>]>>

\* The wall time of a day, as minutes.
Time(day, hour, minute) == day * Day + hour * Hour + minute
Opens(day, hour, minute, length, at, shift, schedules) ==
  LET t == Time(day, hour, minute) * Minute IN
  [opens |-> t + 1, closes |-> t + length, schedules |-> schedules,
   zone |-> [at |-> IF shift = 0 THEN t + length + 1 ELSE at * Minute, shift |-> shift]]

Leap == Opens(35062, 23, 58, 16, 0, 0,                \* 28 February 2096
  {<<At(0), At(0), At(29), From(2, 3), Each>>, <<Every(2), At(0), Each, Each, From(3, 4)>>,
   <<At(0), At(25), Each, Each, Each>>, <<At(59), At(23), After(28, 1), Each, Each>>})
NewYear == Opens(10166, 23, 57, 24, 0, 0,             \* 31 December 2027, a Friday
  {<<At(59), At(23), At(31), At(12) \o At(1), At(5)>>, <<At(0), At(0), At(9), At(1), At(6)>>,
   <<After(58, 1), At(23), From(1, 31), Each, At(1)>>, <<At(1), At(0), Each, At(1), From(6, 7)>>,
   <<At(58), At(23), Each \o Each, Each, At(3)>>})
Skipped == Opens(9706, 1, 58, 20, Time(9706, 2, 0), 60,   \* 27 September 2026
  {<<At(30), At(2), Each, Each, Each>>, <<At(0), At(3), Each, Each, At(7)>>,
   <<At(0) \o At(1), From(2, 3), Each, Each, At(0)>>, <<At(59), Every(1), Each, Each, Each>>})
Repeated == Opens(9531, 2, 57, 28, Time(9531, 3, 0), -60, \* 5 April 2026
  {<<At(58), At(2), Each, Each, Each>>, <<At(0), At(3), Each, Each, Each>>,
   <<At(1), At(2), At(5), From(4, 6), Each>>, <<At(0), From(2, 3), Each, Each, At(0)>>})
Far == Opens(35064, 0, 0, 1, 0, 0,                    \* 1 March 2096
  {<<At(0), At(0), At(29), At(2), Each>>, <<At(0), At(0), At(30), At(2), Each>>})

MCNight == {Leap, NewYear, Skipped, Repeated, Far}
MCRepeated == {Repeated}
=============================================================================
