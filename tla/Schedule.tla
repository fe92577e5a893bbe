------------------------------- MODULE Schedule -------------------------------
(***************************************************************************)
(* Schedule: the thread that starts the scheduled sweeps, src/trackstarr/    *)
(* sweep.py's scheduler, and the cron expression it goes by, cron.py.        *)
(*                                                                         *)
(* The clock counts units of a minute since midnight of 1 March 2000, by the *)
(* offset in force when a night opens.  A night is a stretch of it over      *)
(* which the clocks of the zone may change once.                             *)
(***************************************************************************)
EXTENDS Integers, FiniteSets, Sequences

CONSTANTS
  Night,       \* zone, when it opens and closes, and the schedules of it
  Minute,      \* units in a minute
  Slice,       \* _TICK, in units
  NoSchedule,  \* an empty SWEEP_AT
  MaxResets    \* bound on the saves of SWEEP_AT

\* A field of an expression: its pieces as they are listed, one at least.
Field == Seq([span : Seq(Int), step : Seq(Int)]) \ {<<>>}

ASSUME ScheduleAssumption ==
  /\ Minute \in Nat \ {0} /\ Slice \in Nat \ {0} /\ MaxResets \in Nat
  /\ \A n \in Night : /\ n.opens \in Nat /\ n.closes \in Nat /\ n.opens <= n.closes
                      /\ n.zone.at \in Int /\ n.zone.shift \in Int
                      /\ n.schedules \subseteq Seq(Field)

VARIABLES
  night,     \* where and when
  clock,     \* the moment
  sweepAt,   \* SWEEP_AT
  fresh,     \* units until it will have stood for longer than a slice
  resets,    \* bounded counter
  producing,   \* lifecycle.producing()
  thread,    \* where the thread is
  walk,      \* next_run's locals
  wake       \* since when it sleeps, until when, and whether a run is due then

scheduleVars == <<night, clock, sweepAt, fresh, resets, producing, thread, walk, wake>>

-----------------------------------------------------------------------------
(***************************************************************************)
(* Expressions: five fields, each a list of pieces; a piece is the numbers   *)
(* of its span, none for "*", and its step if it states one.                 *)
(***************************************************************************)
FieldRange == <<<<0, 59>>, <<0, 23>>, <<1, 31>>, <<1, 12>>, <<0, 7>>>>
Star == [span |-> <<>>, step |-> <<>>]
Pieces(part) == {part[i] : i \in 1..Len(part)}

FirstOf(piece, low) == IF piece.span = <<>> THEN low ELSE piece.span[1]
\* A bare number with a step opens a range.
LastOf(piece, high) ==
  IF piece.span = <<>> \/ (Len(piece.span) = 1 /\ piece.step # <<>>)
  THEN high ELSE piece.span[Len(piece.span)]
Step(piece) == IF piece.step = <<>> THEN 1 ELSE piece.step[1]

Reads(part, low, high) ==
  \A piece \in Pieces(part) :
    /\ Step(piece) >= 1
    /\ low <= FirstOf(piece, low) /\ LastOf(piece, high) <= high
    /\ FirstOf(piece, low) <= LastOf(piece, high)
Values(part, low, high) ==
  UNION {{x \in FirstOf(piece, low)..LastOf(piece, high) : (x - FirstOf(piece, low)) % Step(piece) = 0}
         : piece \in Pieces(part)}

Parses(expr) ==
  Len(expr) = 5 /\ \A i \in 1..5 : Reads(expr[i], FieldRange[i][1], FieldRange[i][2])
\* A day field restricts unless it is the one "*": "*,*" restricts.
CronOf(expr) ==
  LET field(i) == Values(expr[i], FieldRange[i][1], FieldRange[i][2]) IN
  [minutes |-> field(1), hours |-> field(2), days |-> field(3), months |-> field(4),
   weekdays |-> {d % 7 : d \in field(5)},
   days_restricted |-> expr[3] # <<Star>>, weekdays_restricted |-> expr[5] # <<Star>>]

-----------------------------------------------------------------------------
(***************************************************************************)
(* The calendar, of days since 1 March 2000, a Wednesday; minutes since.     *)
(***************************************************************************)
Hour == 60
Day == 24 * Hour
Cycle == 146097  \* days in 400 years

Year(d) == (d - d \div 1460 + d \div 36524 - d \div (Cycle - 1)) \div 365
DayOfYear(d) == d - (365 * Year(d) + Year(d) \div 4 - Year(d) \div 100)
Fifth(d) == (5 * DayOfYear(d) + 2) \div 153  \* months since March
MonthOf(d) == IF Fifth(d) < 10 THEN Fifth(d) + 3 ELSE Fifth(d) - 9
DayOf(d) == DayOfYear(d) - (153 * Fifth(d) + 2) \div 5 + 1
WeekdayOf(d) == (d + 2) % 7  \* Monday is 0

DayMatches(cron, d) ==
  LET in_days == DayOf(d) \in cron.days
      in_weekdays == (WeekdayOf(d) + 1) % 7 \in cron.weekdays
  IN IF cron.days_restricted /\ cron.weekdays_restricted
     THEN in_days \/ in_weekdays ELSE in_days /\ in_weekdays
DateMatches(cron, d) == MonthOf(d % Cycle) \in cron.months /\ DayMatches(cron, d % Cycle)

-----------------------------------------------------------------------------
(***************************************************************************)
(* Wall clocks.  In a repeated hour a wall time is taken for the first of    *)
(* its two moments, and one the clocks skip for the moment it would have     *)
(* been, as a naive datetime's timestamp() does.                             *)
(***************************************************************************)
Wall(t) == IF t < night.zone.at THEN t ELSE t + night.zone.shift * Minute
\* Mutant: the second of its moments.
TimestampAgain(w) ==
  LET later == w - night.zone.shift * Minute IN
  IF later >= night.zone.at THEN later ELSE w
Timestamp(w) ==
  LET later == w - night.zone.shift * Minute IN
  IF w >= night.zone.at /\ later >= night.zone.at THEN later ELSE w

Horizon == 366 * 9 * Day
Candidate(t) == (Wall(t) \div Minute) + 1
NoWalk == [cron |-> CronOf(<<<<>>, <<>>, <<>>, <<>>, <<>>>>), at |-> 0, limit |-> 0]
Awake == [since |-> 0, until |-> 0, due |-> FALSE]

Doze(units, due) ==
  /\ thread' = "asleep"
  /\ wake' = [since |-> clock, until |-> clock + units, due |-> due]

\* The loop's head: while producing, the schedule in force, and next_run begins.
Read ==
  /\ thread = "reading"
  /\ LET usable == sweepAt # NoSchedule /\ Parses(sweepAt) IN
     \/ /\ ~producing
        /\ thread' = "done" /\ UNCHANGED <<walk, wake>>
     \/ /\ producing /\ ~usable
        /\ Doze(Slice, FALSE) /\ UNCHANGED walk
     \/ /\ producing /\ usable
        /\ thread' = "walking"
        /\ walk' = [cron |-> CronOf(sweepAt), at |-> Candidate(clock),
                    limit |-> Candidate(clock) + Horizon]
        /\ UNCHANGED wake
  /\ UNCHANGED <<night, clock, sweepAt, fresh, resets, producing>>

-----------------------------------------------------------------------------
(***************************************************************************)
(* next_run, a day, then an hour, then a minute at a time.  It takes no time *)
(* that a clock would show.                                                 *)
(***************************************************************************)
OnDay == DateMatches(walk.cron, walk.at \div Day)
InHour == (walk.at % Day) \div Hour \in walk.cron.hours
InMinute == walk.at % Hour \in walk.cron.minutes

NextDay(at) == (at \div Day + 1) * Day
\* Mutant: an hour later, at the same minute.
NextHourKept(at) == at + Hour
NextHour(at) == (at \div Hour + 1) * Hour

Stepping ==
  /\ thread = "walking" /\ walk.at < walk.limit
  /\ \/ ~OnDay /\ walk' = [walk EXCEPT !.at = NextDay(@)]
     \/ OnDay /\ ~InHour /\ walk' = [walk EXCEPT !.at = NextHour(@)]
     \/ OnDay /\ InHour /\ ~InMinute /\ walk' = [walk EXCEPT !.at = @ + 1]
  /\ UNCHANGED <<night, clock, sweepAt, fresh, resets, producing, thread, wake>>

\* The time to the run: a slice of it is slept, or all of it, to be counted from
\* the moment the clock was read.  A sleep of less than nothing is an error
\* outside the loop's try, and ends the thread.
Found ==
  /\ thread = "walking" /\ walk.at < walk.limit /\ OnDay /\ InHour /\ InMinute
  /\ walk' = NoWalk
  /\ LET delay == Timestamp(walk.at * Minute) - clock IN
     \/ delay > Slice /\ Doze(Slice, FALSE)
     \/ delay \in 0..Slice /\ Doze(delay, TRUE)
     \/ delay < 0 /\ thread' = "dead" /\ UNCHANGED wake
  /\ UNCHANGED <<night, clock, sweepAt, fresh, resets, producing>>

\* The ValueError of a schedule that never matches is caught as a bad one's is.
GiveUp ==
  /\ thread = "walking" /\ walk.at >= walk.limit
  /\ walk' = NoWalk /\ Doze(Slice, FALSE)
  /\ UNCHANGED <<night, clock, sweepAt, fresh, resets, producing>>

-----------------------------------------------------------------------------
\* A sleep lasts as long as asked at least, and may end late by any time: the run
\* that is due begins then, unless the process winds down.
Wake ==
  /\ thread = "asleep" /\ clock >= wake.until
  /\ thread' = IF ~wake.due THEN "reading" ELSE IF producing THEN "sweeping" ELSE "done"
  /\ wake' = Awake
  /\ UNCHANGED <<night, clock, sweepAt, fresh, resets, producing, walk>>

\* run_scheduled returns: at once where processing is paused or a walk is
\* under way, when its sweep ends or fails otherwise.
RunScheduled ==
  /\ thread = "sweeping"
  /\ thread' = "reading"
  /\ UNCHANGED <<night, clock, sweepAt, fresh, resets, producing, walk, wake>>

\* Time passes for a thread that sleeps, however long, or sweeps.
Pass ==
  /\ clock < night.closes /\ thread \in {"asleep", "sweeping"}
  /\ clock' = clock + 1
  /\ fresh' = IF fresh = 0 THEN 0 ELSE fresh - 1
  /\ UNCHANGED <<night, sweepAt, resets, producing, thread, walk, wake>>

\* The owner saves another schedule, or none.
SaveSchedule ==
  /\ resets < MaxResets /\ thread \in {"asleep", "sweeping"}
  /\ \E s \in night.schedules \cup {NoSchedule} : s # sweepAt /\ sweepAt' = s
  /\ fresh' = Slice + 1
  /\ resets' = resets + 1
  /\ UNCHANGED <<night, clock, producing, thread, walk, wake>>

StopProducing ==
  /\ producing /\ thread \in {"asleep", "sweeping"}
  /\ producing' = FALSE
  /\ UNCHANGED <<night, clock, sweepAt, fresh, resets, thread, walk, wake>>

ScheduleInit ==
  /\ night \in Night
  /\ clock = night.opens /\ sweepAt \in night.schedules \cup {NoSchedule}
  /\ fresh = 0 /\ resets = 0 /\ producing = TRUE
  /\ thread = "reading" /\ walk = NoWalk /\ wake = Awake

ScheduleNext ==
  Read \/ Stepping \/ Found \/ GiveUp \/ Wake \/ RunScheduled \/ Pass \/ SaveSchedule \/ StopProducing
ScheduleSpec == ScheduleInit /\ [][ScheduleNext]_scheduleVars

-----------------------------------------------------------------------------
(***************************************************************************)
(* Properties.                                                             *)
(***************************************************************************)
ScheduleTypeOK ==
  /\ night \in Night /\ clock \in night.opens..night.closes
  /\ sweepAt \in night.schedules \cup {NoSchedule}
  /\ fresh \in 0..(Slice + 1) /\ resets \in 0..MaxResets /\ producing \in BOOLEAN
  /\ thread \in {"reading", "walking", "asleep", "sweeping", "done", "dead"}
  /\ (thread = "walking") = (walk # NoWalk)
  /\ (thread = "asleep") = (wake # Awake)

\* A moment at which SWEEP_AT, read as cron reads it, asks for a run: the first
\* of the wall times that match.
IsSlot(t) ==
  LET cron == CronOf(sweepAt)
      minute == Wall(t) \div Minute
  IN /\ sweepAt # NoSchedule /\ Parses(sweepAt)
     /\ Wall(t) % Minute = 0 /\ Timestamp(Wall(t)) = t
     /\ DateMatches(cron, minute \div Day)
     /\ (minute % Day) \div Hour \in cron.hours /\ minute % Hour \in cron.minutes

\* A slot of a schedule that has stood for longer than a slice does not come while
\* the thread sleeps, unless the sleep is for that slot's run and was to end just
\* then, or was to be over already and goes on too long.  So the slices lose a slot
\* to a late wake-up only, and one that falls between the end asked for and the
\* moment the thread looks at the clock again.  Nor is a slot that just fired slept
\* for again: sweep.py's seconds_until, _TICK and scheduler.
SlotsAreKept ==
  thread = "asleep" =>
    /\ wake.since < clock /\ clock <= wake.until /\ fresh = 0 /\ IsSlot(clock)
         => wake.due /\ wake.until = clock
    /\ wake.due => wake.since < wake.until

\* next_run walks past no minute that its expression matches, and gives up only
\* on one that no date of the calendar matches: cron.py's strides and _HORIZON.
NoRunPassedOver ==
  [][thread = "walking" =>
       LET matches(d) == DateMatches(walk.cron, d) IN
       IF thread' = "walking"
       THEN \A d \in (walk.at \div Day)..((walk'.at - 1) \div Day) :
              matches(d) =>
                ~\E h \in walk.cron.hours, m \in walk.cron.minutes :
                   d * Day + h * Hour + m \in walk.at..(walk'.at - 1)
       ELSE walk.at >= walk.limit => ~\E d \in 0..(Cycle - 1) : matches(d)
    ]_scheduleVars

\* sweep.py:911: "03:00 means 03:00 in the container's TZ, across DST." The
\* thread goes on for as long as the process does: sweep.py's scheduler.
OutlivesTheHour == thread # "dead"
=============================================================================
