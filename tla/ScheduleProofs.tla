----------------------------- MODULE ScheduleProofs -----------------------------
(***************************************************************************)
(* What holds of the scheduler's thread for any nights, clocks and schedules. *)
(***************************************************************************)
EXTENDS Schedule, TLAPS

-----------------------------------------------------------------------------
(***************************************************************************)
(* The calendar.  A day of the cycle is the r-th of the s-th year of the q-th *)
(* four years of the c-th century; only the last year of a four has a 366th   *)
(* day, but for the last of a century that is not the cycle's.               *)
(***************************************************************************)
Between(a, x, b) == x \in Int /\ a <= x /\ x <= b

IsDate(c, q, s, r) ==
  /\ Between(0, c, 3) /\ Between(0, q, 24) /\ Between(0, s, 3) /\ Between(0, r, 365)
  /\ r = 365 => s = 3 /\ (q < 24 \/ c = 3)
DayNumber(c, q, s, r) == 36524 * c + 1461 * q + 365 * s + r
InCycle(d) == Between(0, d, 146096)

LEMMA DatesOfCycle ==
  ASSUME NEW c \in Int, NEW q \in Int, NEW s \in Int, NEW r \in Int, IsDate(c, q, s, r),
         NEW d \in Int, d = DayNumber(c, q, s, r)
  PROVE  InCycle(d) /\ Year(d) = 100 * c + 4 * q + s /\ DayOfYear(d) = r
  <1>1. /\ 0 <= c /\ c <= 3 /\ 0 <= q /\ q <= 24 /\ 0 <= s /\ s <= 3 /\ 0 <= r /\ r <= 365
        /\ r = 365 => s = 3 /\ (q < 24 \/ c = 3)
        /\ d = 36524 * c + 1461 * q + 365 * s + r
    BY DEF IsDate, Between, DayNumber
  <1>2. InCycle(d)
    BY <1>1 DEF InCycle, Between
  <1>3. d \div 36524 - d \div 146096 = c
    <2>1. CASE d = 146096
      BY <1>1, <2>1
    <2>2. CASE d # 146096
      <3>1. d \div 146096 = 0
        BY <1>2, <2>2 DEF InCycle, Between
      <3>2. 0 <= 1461 * q + 365 * s + r /\ 1461 * q + 365 * s + r < 36524
        BY <1>1, <2>2
      <3>3. d \div 36524 = c
        BY <1>1, <3>2
      <3> QED
        BY <3>1, <3>3
    <2> QED
      BY <2>1, <2>2
  <1>4. PICK k \in Int : k = (24 * c + q + 365 * s + r) \div 1460
    OBVIOUS
  <1>5. d \div 1460 = 25 * c + q + k
    BY <1>1, <1>4
  <1>6. 0 <= r - k /\ r - k < 365
    <2>1. CASE s < 3
      <3>1. k = 0
        BY <1>1, <1>4, <2>1
      <3> QED
        BY <1>1, <2>1, <3>1
    <2>2. CASE s = 3
      BY <1>1, <1>4, <2>2
    <2> QED
      BY <1>1, <2>1, <2>2
  <1>7. d - d \div 1460 + c = 365 * (100 * c + 4 * q + s) + (r - k)
    BY <1>1, <1>5
  <1>8. Year(d) = (d - d \div 1460 + c) \div 365
    <2>1. d - d \div 1460 + d \div 36524 - d \div (Cycle - 1) = d - d \div 1460 + c
      BY <1>3 DEF Cycle
    <2> QED
      BY <2>1 DEF Year
  <1>9. Year(d) = 100 * c + 4 * q + s
    BY <1>6, <1>7, <1>8
  <1>10. DayOfYear(d) = r
    <2>1. Year(d) \div 4 = 25 * c + q /\ Year(d) \div 100 = c
      BY <1>1, <1>9
    <2> QED
      BY <1>1, <1>9, <2>1 DEF DayOfYear
  <1> QED
    BY <1>2, <1>9, <1>10

LEMMA EveryDayIsDated ==
  ASSUME NEW d \in Int, InCycle(d)
  PROVE  \E c, q, s, r \in Int : IsDate(c, q, s, r) /\ d = DayNumber(c, q, s, r)
  <1>1. \E c, e \in Int : /\ 0 <= c /\ c <= 3 /\ 0 <= e /\ e <= 36524 /\ d = 36524 * c + e
                          /\ e = 36524 => c = 3
    <2>1. CASE d = 146096
      <3>1. d = 36524 * 3 + 36524
        BY <2>1
      <3> QED
        BY <3>1
    <2>2. CASE d # 146096
      <3> DEFINE c == d \div 36524
                 e == d % 36524
      <3>1. /\ c \in Int /\ e \in Int /\ 0 <= c /\ c <= 3 /\ 0 <= e /\ e < 36524
            /\ d = 36524 * c + e
        BY <2>2 DEF InCycle, Between
      <3> HIDE DEF c, e
      <3> QED
        BY <3>1
    <2> QED
      BY <2>1, <2>2
  <1>2. PICK c, e \in Int : /\ 0 <= c /\ c <= 3 /\ 0 <= e /\ e <= 36524 /\ d = 36524 * c + e
                            /\ e = 36524 => c = 3
    BY <1>1
  <1>3. PICK q, f \in Int : q = e \div 1461 /\ f = e % 1461
    BY <1>2
  <1>4. 0 <= q /\ q <= 24 /\ 0 <= f /\ f <= 1460 /\ e = 1461 * q + f
    BY <1>2, <1>3
  <1>5. \E s, r \in Int : /\ 0 <= s /\ s <= 3 /\ 0 <= r /\ r <= 365 /\ f = 365 * s + r
                          /\ r = 365 => f = 1460 /\ s = 3
    <2>1. CASE f = 1460
      <3>1. f = 365 * 3 + 365
        BY <2>1
      <3> QED
        BY <2>1, <3>1
    <2>2. CASE f # 1460
      <3> DEFINE s == f \div 365
                 r == f % 365
      <3>1. s \in Int /\ r \in Int /\ 0 <= s /\ s <= 3 /\ 0 <= r /\ r < 365 /\ f = 365 * s + r
        BY <1>4, <2>2
      <3> HIDE DEF s, r
      <3> QED
        BY <3>1
    <2> QED
      BY <2>1, <2>2
  <1>6. PICK s, r \in Int : /\ 0 <= s /\ s <= 3 /\ 0 <= r /\ r <= 365 /\ f = 365 * s + r
                            /\ r = 365 => f = 1460 /\ s = 3
    BY <1>5
  <1>7. f = 1460 => q < 24 \/ c = 3
    BY <1>2, <1>4
  <1>8. IsDate(c, q, s, r) /\ d = DayNumber(c, q, s, r)
    BY <1>2, <1>4, <1>6, <1>7 DEF IsDate, Between, DayNumber
  <1> QED
    BY <1>8

\* Days apart from a day, within its cycle or the next.
LEMMA DaysOn ==
  ASSUME NEW z \in Int, NEW x \in Int, x = z % Cycle, NEW y \in Int, InCycle(y)
  PROVE  (z + (y - x)) % Cycle = y /\ (z + (y - x) + Cycle) % Cycle = y
  <1>1. 0 <= y /\ y < 146097
    BY DEF InCycle, Between
  <1>2. PICK n \in Int : z = 146097 * n + x /\ 0 <= x /\ x < 146097
    <2> DEFINE n == z \div 146097
    <2>1. n \in Int /\ z = 146097 * n + x /\ 0 <= x /\ x < 146097
      BY DEF Cycle
    <2> HIDE DEF n
    <2> QED
      BY <2>1
  <1>3. z + (y - x) = 146097 * n + y /\ z + (y - x) + 146097 = 146097 * (n + 1) + y
    BY <1>2
  <1>4. (146097 * n + y) % 146097 = y /\ (146097 * (n + 1) + y) % 146097 = y
    BY <1>1
  <1> QED
    BY <1>3, <1>4 DEF Cycle

LEMMA DayOfCycle ==
  ASSUME NEW z \in Int
  PROVE  \E x \in Int : x = z % Cycle /\ InCycle(x)
  BY DEF Cycle, InCycle, Between

\* A year begins within the year after a day.
LEMMA YearBegins ==
  ASSUME NEW b \in Int
  PROVE  \E z, c, q, s \in Int : /\ b <= z /\ z <= b + 365
                                 /\ IsDate(c, q, s, 0) /\ z % Cycle = DayNumber(c, q, s, 0)
  <1>1. PICK x \in Int : x = b % Cycle /\ InCycle(x)
    BY DayOfCycle
  <1>2. PICK c, q, s, r \in Int : IsDate(c, q, s, r) /\ x = DayNumber(c, q, s, r)
    BY <1>1, EveryDayIsDated
  <1>3. /\ 0 <= c /\ c <= 3 /\ 0 <= q /\ q <= 24 /\ 0 <= s /\ s <= 3 /\ 0 <= r /\ r <= 365
        /\ r = 365 => s = 3 /\ (q < 24 \/ c = 3)
        /\ x = 36524 * c + 1461 * q + 365 * s + r
    BY <1>2 DEF IsDate, Between, DayNumber
  <1>4. ASSUME NEW c2 \in Int, NEW q2 \in Int, NEW s2 \in Int, IsDate(c2, q2, s2, 0),
               NEW z \in Int, \/ z = b + (DayNumber(c2, q2, s2, 0) - x)
                              \/ z = b + (DayNumber(c2, q2, s2, 0) - x) + Cycle,
               b <= z, z <= b + 365
        PROVE  \E y, m, n, o \in Int : /\ b <= y /\ y <= b + 365
                                       /\ IsDate(m, n, o, 0) /\ y % Cycle = DayNumber(m, n, o, 0)
    <2>1. PICK y \in Int : y = DayNumber(c2, q2, s2, 0)
      BY DEF DayNumber
    <2>2. InCycle(y)
      BY <1>4, <2>1, DatesOfCycle
    <2>3. (b + (y - x)) % Cycle = y /\ (b + (y - x) + Cycle) % Cycle = y
      BY <1>1, <2>2, DaysOn
    <2>4. z = b + (y - x) \/ z = b + (y - x) + Cycle
      BY <1>4, <2>1
    <2>5. z % Cycle = y
      BY <2>3, <2>4
    <2> QED
      BY <1>4, <2>1, <2>5
  <1>5. CASE r = 0
    <2>1. b = b + (DayNumber(c, q, s, 0) - x)
      BY <1>2, <1>5 DEF DayNumber
    <2> QED
      BY <1>2, <1>4, <1>5, <2>1
  <1>6. CASE r # 0 /\ s < 3
    <2>1. IsDate(c, q, s + 1, 0) /\ s + 1 \in Int
      BY <1>3, <1>6 DEF IsDate, Between
    <2>2. b + (DayNumber(c, q, s + 1, 0) - x) = b + 365 - r
      BY <1>3 DEF DayNumber
    <2>3. b <= b + 365 - r /\ b + 365 - r <= b + 365 /\ b + 365 - r \in Int
      BY <1>3, <1>6
    <2> QED
      BY <1>4, <2>1, <2>2, <2>3
  <1>7. CASE r # 0 /\ s = 3 /\ q < 24
    <2>1. IsDate(c, q + 1, 0, 0) /\ q + 1 \in Int
      BY <1>3, <1>7 DEF IsDate, Between
    <2>2. b + (DayNumber(c, q + 1, 0, 0) - x) = b + 366 - r
      BY <1>3, <1>7 DEF DayNumber
    <2>3. b <= b + 366 - r /\ b + 366 - r <= b + 365 /\ b + 366 - r \in Int
      BY <1>3, <1>7
    <2> QED
      BY <1>4, <2>1, <2>2, <2>3
  <1>8. CASE r # 0 /\ s = 3 /\ q = 24 /\ c < 3
    <2>1. IsDate(c + 1, 0, 0, 0) /\ c + 1 \in Int
      BY <1>3, <1>8 DEF IsDate, Between
    <2>2. b + (DayNumber(c + 1, 0, 0, 0) - x) = b + 365 - r
      BY <1>3, <1>8 DEF DayNumber
    <2>3. b <= b + 365 - r /\ b + 365 - r <= b + 365 /\ b + 365 - r \in Int
      BY <1>3, <1>8
    <2> QED
      BY <1>4, <2>1, <2>2, <2>3
  <1>9. CASE r # 0 /\ s = 3 /\ q = 24 /\ c = 3
    <2>1. IsDate(0, 0, 0, 0)
      BY DEF IsDate, Between
    <2>2. b + (DayNumber(0, 0, 0, 0) - x) + Cycle = b + 366 - r
      BY <1>3, <1>9 DEF DayNumber, Cycle
    <2>3. b <= b + 366 - r /\ b + 366 - r <= b + 365 /\ b + 366 - r \in Int
      BY <1>3, <1>9
    <2> QED
      BY <1>4, <2>1, <2>2, <2>3
  <1> QED
    BY <1>3, <1>5, <1>6, <1>7, <1>8, <1>9

\* Days of a year are as many days from its first.
LEMMA DaysOfYear ==
  ASSUME NEW c \in Int, NEW q \in Int, NEW s \in Int, NEW r \in Int, IsDate(c, q, s, r),
         NEW z \in Int, z % Cycle = DayNumber(c, q, s, 0)
  PROVE  DayOfYear((z + r) % Cycle) = r /\ (z + r) % Cycle = DayNumber(c, q, s, r)
  <1>1. PICK x, y \in Int : /\ x = DayNumber(c, q, s, 0) /\ y = DayNumber(c, q, s, r)
                            /\ y - x = r
    BY DEF DayNumber
  <1>2. InCycle(y) /\ DayOfYear(y) = r
    BY <1>1, DatesOfCycle
  <1>3. (z + (y - x)) % Cycle = y
    BY <1>1, <1>2, DaysOn
  <1> QED
    BY <1>1, <1>2, <1>3

DayComes(r, b) == \E e \in Int : b <= e /\ e <= b + 3292 /\ DayOfYear(e % Cycle) = r

\* A day of the year comes again within nine years, 29 February too.
LEMMA DateRecurs ==
  ASSUME NEW r \in Int, NEW c0 \in Int, NEW q0 \in Int, NEW s0 \in Int, IsDate(c0, q0, s0, r),
         NEW b \in Int
  PROVE  DayComes(r, b)
  <1>1. PICK z, c, q, s \in Int : /\ b <= z /\ z <= b + 365
                                  /\ IsDate(c, q, s, 0) /\ z % Cycle = DayNumber(c, q, s, 0)
    BY YearBegins
  <1>2. 0 <= r /\ r <= 365 /\ 0 <= c /\ c <= 3 /\ 0 <= q /\ q <= 24 /\ 0 <= s /\ s <= 3
    BY <1>1 DEF IsDate, Between
  <1>3. CASE r < 365
    <2>1. IsDate(c, q, s, r)
      BY <1>2, <1>3 DEF IsDate, Between
    <2>2. DayOfYear((z + r) % Cycle) = r
      BY <1>1, <2>1, DaysOfYear
    <2>3. z + r \in Int /\ b <= z + r /\ z + r <= b + 3292
      BY <1>1, <1>2
    <2> QED
      BY <2>2, <2>3 DEF DayComes
  <1>4. CASE r = 365
    <2>1. ASSUME NEW m \in Int, NEW n \in Int, NEW x \in Int, IsDate(m, n, 3, 365),
                 x % Cycle = DayNumber(m, n, 3, 0), b <= x, x <= b + 2920
          PROVE  DayComes(r, b)
      <3>1. 3 \in Int /\ 365 \in Int
        OBVIOUS
      <3>2. DayOfYear((x + 365) % Cycle) = 365
        BY <2>1, <3>1, DaysOfYear
      <3>3. x + 365 \in Int /\ b <= x + 365 /\ x + 365 <= b + 3292
        BY <2>1
      <3> QED
        BY <1>4, <3>2, <3>3 DEF DayComes
    <2>2. PICK y \in Int : y = DayNumber(c, q, s, 0) /\ y = z % Cycle
      BY <1>1 DEF DayNumber
    <2>3. CASE q < 24 \/ c = 3
      <3>1. IsDate(c, q, 3, 365) /\ IsDate(c, q, 3, 0)
        BY <1>2, <2>3 DEF IsDate, Between
      <3>2. PICK n \in Int : n = DayNumber(c, q, 3, 0) /\ n - y = 365 * (3 - s)
        BY <2>2 DEF DayNumber
      <3>3. InCycle(n)
        BY <3>1, <3>2, DatesOfCycle
      <3>4. (z + (n - y)) % Cycle = n
        BY <2>2, <3>3, DaysOn
      <3>5. PICK x \in Int : x = z + (n - y)
        OBVIOUS
      <3>6. b <= x /\ x <= b + 2920
        BY <1>1, <1>2, <3>2, <3>5
      <3> QED
        BY <2>1, <3>1, <3>2, <3>4, <3>5, <3>6
    <2>4. CASE q = 24 /\ c < 3
      <3>1. IsDate(c + 1, 0, 3, 365) /\ IsDate(c + 1, 0, 3, 0) /\ c + 1 \in Int
        BY <1>2, <2>4 DEF IsDate, Between
      <3>2. PICK n \in Int : n = DayNumber(c + 1, 0, 3, 0) /\ n - y = 365 * (3 - s) + 1460
        BY <2>2, <2>4 DEF DayNumber
      <3>3. InCycle(n)
        BY <3>1, <3>2, DatesOfCycle
      <3>4. (z + (n - y)) % Cycle = n
        BY <2>2, <3>3, DaysOn
      <3>5. PICK x \in Int : x = z + (n - y)
        OBVIOUS
      <3>6. b <= x /\ x <= b + 2920
        BY <1>1, <1>2, <3>2, <3>5
      <3> QED
        BY <2>1, <3>1, <3>2, <3>4, <3>5, <3>6
    <2> QED
      BY <1>2, <2>3, <2>4
  <1> QED
    BY <1>2, <1>3, <1>4

LEMMA DayRecurs ==
  ASSUME NEW d \in Int, InCycle(d), NEW b \in Int
  PROVE  DayComes(DayOfYear(d), b)
  <1>1. PICK c, q, s, r \in Int : IsDate(c, q, s, r) /\ DayOfYear(d) = r
    BY EveryDayIsDated, DatesOfCycle
  <1>2. DayComes(r, b)
    BY <1>1, DateRecurs
  <1> QED
    BY <1>1, <1>2

\* The months' lengths: a week at least, and 31 days at most.
LEMMA MonthsOfYear ==
  ASSUME NEW r \in Int, 0 <= r, r <= 365, NEW f \in Int, f = (5 * r + 2) \div 153,
         NEW first \in Int, first = (153 * f + 2) \div 5
  PROVE  /\ 0 <= first /\ first <= 337 /\ first <= r /\ r <= first + 30
         /\ \A j \in Int : 0 <= j /\ j <= 6 => (5 * (first + j) + 2) \div 153 = f
  <1>1. 0 <= f /\ f <= 11 /\ 153 * f <= 5 * r + 2 /\ 5 * r + 2 <= 153 * f + 152
    OBVIOUS
  <1>2. 5 * first <= 153 * f + 2 /\ 153 * f + 2 <= 5 * first + 4
    OBVIOUS
  <1> QED
    BY <1>1, <1>2

\* A weekday of a month comes again within nine years, in two.
LEMMA WeekdayRecurs ==
  ASSUME NEW d \in Int, InCycle(d), NEW b \in Int
  PROVE  \E e \in Int : /\ b <= e /\ e <= b + 3292 /\ Fifth(e % Cycle) = Fifth(d)
                        /\ WeekdayOf(e % Cycle) = WeekdayOf(d)
  <1>1. PICK c0, q0, s0, r \in Int : IsDate(c0, q0, s0, r) /\ d = DayNumber(c0, q0, s0, r)
    BY EveryDayIsDated
  <1>2. DayOfYear(d) = r /\ 0 <= r /\ r <= 365
    BY <1>1, DatesOfCycle DEF IsDate, Between
  <1>3. PICK f, first \in Int : f = (5 * r + 2) \div 153 /\ first = (153 * f + 2) \div 5
    BY <1>2
  <1>4. /\ 0 <= first /\ first <= 337
        /\ \A j \in Int : 0 <= j /\ j <= 6 => (5 * (first + j) + 2) \div 153 = f
    BY <1>2, <1>3, MonthsOfYear
  <1>5. PICK z, c, q, s \in Int : /\ b <= z /\ z <= b + 365
                                  /\ IsDate(c, q, s, 0) /\ z % Cycle = DayNumber(c, q, s, 0)
    BY YearBegins
  <1>6. PICK n \in Int : n = DayNumber(c, q, s, 0)
    BY DEF DayNumber
  <1>7. PICK j \in Int : j = ((d + 2) - (n + first + 2)) % 7
    OBVIOUS
  <1>8. 0 <= j /\ j <= 6 /\ (n + (first + j) + 2) % 7 = (d + 2) % 7
    BY <1>7
  <1>9. PICK k \in Int : k = first + j /\ 0 <= k /\ k <= 343
    BY <1>4, <1>8
  <1>10. IsDate(c, q, s, k)
    BY <1>5, <1>9 DEF IsDate, Between
  <1>11. DayOfYear((z + k) % Cycle) = k /\ (z + k) % Cycle = n + k
    <2>1. DayNumber(c, q, s, k) = n + k
      BY <1>6 DEF DayNumber
    <2> QED
      BY <1>5, <1>10, <2>1, DaysOfYear
  <1>12. Fifth((z + k) % Cycle) = f /\ Fifth(d) = f
    BY <1>2, <1>3, <1>4, <1>8, <1>9, <1>11 DEF Fifth
  <1>13. WeekdayOf((z + k) % Cycle) = WeekdayOf(d)
    BY <1>8, <1>9, <1>11 DEF WeekdayOf
  <1>14. z + k \in Int /\ b <= z + k /\ z + k <= b + 3292
    BY <1>5, <1>9
  <1> QED
    BY <1>12, <1>13, <1>14

-----------------------------------------------------------------------------
(***************************************************************************)
(* Expressions, and the dates they match.                                   *)
(***************************************************************************)
CronShape(cron) ==
  /\ cron.minutes # {} /\ \A m \in cron.minutes : Between(0, m, 59)
  /\ cron.hours # {} /\ \A h \in cron.hours : Between(0, h, 23)
  /\ ~cron.days_restricted => \A k \in Int : Between(1, k, 31) => k \in cron.days
  /\ ~cron.weekdays_restricted => \A w \in Int : Between(0, w, 6) => w \in cron.weekdays

\* A field has a number at least, and none outside its range.
LEMMA FieldValues ==
  ASSUME NEW part \in Field, NEW low \in Int, NEW high \in Int, Reads(part, low, high)
  PROVE  /\ Values(part, low, high) # {}
         /\ \A x \in Values(part, low, high) : Between(low, x, high)
  <1>1. ASSUME NEW piece \in Pieces(part)
        PROVE  /\ FirstOf(piece, low) \in Int /\ LastOf(piece, high) \in Int
               /\ Step(piece) \in Int /\ Step(piece) >= 1
               /\ low <= FirstOf(piece, low) /\ LastOf(piece, high) <= high
               /\ FirstOf(piece, low) <= LastOf(piece, high)
    <2>0. piece \in [span : Seq(Int), step : Seq(Int)]
      <3>1. PICK i \in 1..Len(part) : piece = part[i]
        BY DEF Pieces
      <3>2. ASSUME NEW R, part \in Seq(R) PROVE piece \in R
        <4>1. part[i] \in R
          BY <3>2
        <4> QED
          BY <3>1, <4>1
      <3>3. part \in Seq([span : Seq(Int), step : Seq(Int)])
        BY DEF Field
      <3> QED
        BY <3>2, <3>3
    <2>1. piece.span \in Seq(Int) /\ piece.step \in Seq(Int)
      BY <2>0
    <2>2. piece.span # <<>> => /\ piece.span[1] \in Int
                               /\ piece.span[Len(piece.span)] \in Int
      BY <2>1
    <2>3. piece.step # <<>> => piece.step[1] \in Int
      BY <2>1
    <2>4. FirstOf(piece, low) \in Int
      BY <2>2 DEF FirstOf
    <2>5. LastOf(piece, high) \in Int
      BY <2>2 DEF LastOf
    <2>6. Step(piece) \in Int
      BY <2>3 DEF Step
    <2> QED
      BY <2>4, <2>5, <2>6 DEF Reads
  <1>2. PICK piece : piece \in Pieces(part)
    <2>1. Len(part) \in Nat /\ Len(part) # 0
      BY DEF Field
    <2>2. part[1] \in Pieces(part)
      BY <2>1 DEF Pieces
    <2> QED
      BY <2>2
  <1>3. FirstOf(piece, low) \in Values(part, low, high)
    <2>1. PICK first, last, step \in Int :
            /\ first = FirstOf(piece, low) /\ last = LastOf(piece, high) /\ step = Step(piece)
            /\ first <= last /\ step >= 1
      BY <1>1, <1>2
    <2>2. first \in first..last /\ (first - first) % step = 0
      BY <2>1
    <2> QED
      BY <1>2, <2>1, <2>2 DEF Values
  <1>4. ASSUME NEW x \in Values(part, low, high) PROVE Between(low, x, high)
    <2>1. PICK p \in Pieces(part) : x \in FirstOf(p, low)..LastOf(p, high)
      BY DEF Values
    <2> QED
      BY <1>1, <2>1 DEF Between
  <1> QED
    BY <1>3, <1>4

LEMMA CronParsed ==
  ASSUME NEW expr \in Seq(Field), Parses(expr)
  PROVE  CronShape(CronOf(expr))
  <1>1. /\ Len(expr) = 5 /\ expr[1] \in Field /\ expr[2] \in Field
        /\ Reads(expr[1], 0, 59) /\ Reads(expr[2], 0, 23)
    <2>1. Len(expr) = 5 /\ 1 \in 1..5 /\ 2 \in 1..5
      BY DEF Parses
    <2>2. expr[1] \in Field /\ expr[2] \in Field
      <3>1. \A i \in 1..Len(expr) : expr[i] \in Field
        OBVIOUS
      <3> QED
        BY <2>1, <3>1
    <2>3. FieldRange[1] = <<0, 59>> /\ FieldRange[2] = <<0, 23>>
      BY DEF FieldRange
    <2>4. /\ Reads(expr[1], FieldRange[1][1], FieldRange[1][2])
          /\ Reads(expr[2], FieldRange[2][1], FieldRange[2][2])
      BY <2>1, Zenon DEF Parses
    <2>5. /\ FieldRange[1][1] = 0 /\ FieldRange[1][2] = 59
          /\ FieldRange[2][1] = 0 /\ FieldRange[2][2] = 23
      BY <2>3
    <2> QED
      BY <2>1, <2>2, <2>4, <2>5
  <1>2. /\ Values(expr[1], 0, 59) # {} /\ \A m \in Values(expr[1], 0, 59) : Between(0, m, 59)
        /\ Values(expr[2], 0, 23) # {} /\ \A h \in Values(expr[2], 0, 23) : Between(0, h, 23)
    BY <1>1, FieldValues
  <1>3. ASSUME NEW low \in Int, NEW high \in Int, NEW x \in Int, Between(low, x, high)
        PROVE  x \in Values(<<Star>>, low, high)
    <2>1. FirstOf(Star, low) = low /\ LastOf(Star, high) = high /\ Step(Star) = 1
      BY DEF Star, FirstOf, LastOf, Step
    <2>2. x \in low..high /\ (x - low) % 1 = 0
      BY <1>3 DEF Between
    <2>3. Star \in Pieces(<<Star>>)
      BY DEF Pieces
    <2> QED
      BY <2>1, <2>2, <2>3 DEF Values
  <1>4. expr[3] = <<Star>> => \A k \in Int : Between(1, k, 31) => k \in Values(expr[3], 1, 31)
    <2>1. 1 \in Int /\ 31 \in Int
      OBVIOUS
    <2>2. \A k \in Int : Between(1, k, 31) => k \in Values(<<Star>>, 1, 31)
      BY <1>3, <2>1, Zenon
    <2> QED
      BY <2>2
  <1>5. expr[5] = <<Star>> =>
          \A w \in Int : Between(0, w, 6) => w \in {d % 7 : d \in Values(expr[5], 0, 7)}
    <2>1. ASSUME expr[5] = <<Star>>, NEW w \in Int, Between(0, w, 6)
          PROVE  w \in {d % 7 : d \in Values(expr[5], 0, 7)}
      <3>0. 0 \in Int /\ 7 \in Int /\ Between(0, w, 7)
        BY <2>1 DEF Between
      <3>1. w \in Values(expr[5], 0, 7)
        BY <1>3, <2>1, <3>0, Zenon
      <3>2. w = w % 7
        BY <2>1 DEF Between
      <3> QED
        BY <3>1, <3>2
    <2> QED
      BY <2>1
  <1> DEFINE cron == CronOf(expr)
  <1>6. /\ cron.minutes = Values(expr[1], 0, 59) /\ cron.hours = Values(expr[2], 0, 23)
        /\ cron.days = Values(expr[3], 1, 31)
        /\ cron.weekdays = {d % 7 : d \in Values(expr[5], 0, 7)}
        /\ cron.days_restricted = (expr[3] # <<Star>>)
        /\ cron.weekdays_restricted = (expr[5] # <<Star>>)
    BY DEF CronOf, FieldRange
  <1> HIDE DEF cron
  <1> QED
    BY <1>2, <1>4, <1>5, <1>6 DEF CronShape, cron

\* What a field that restricts nothing holds, every date has.
LEMMA UnrestrictedMatches ==
  ASSUME NEW cron, CronShape(cron), NEW d \in Int, InCycle(d)
  PROVE  /\ ~cron.days_restricted => DayOf(d) \in cron.days
         /\ ~cron.weekdays_restricted => (WeekdayOf(d) + 1) % 7 \in cron.weekdays
  <1>1. PICK c, q, s, r \in Int : IsDate(c, q, s, r) /\ d = DayNumber(c, q, s, r)
    BY EveryDayIsDated
  <1>2. DayOfYear(d) = r /\ 0 <= r /\ r <= 365
    BY <1>1, DatesOfCycle DEF IsDate, Between
  <1>3. PICK f, first \in Int : f = (5 * r + 2) \div 153 /\ first = (153 * f + 2) \div 5
    BY <1>2
  <1>4. first <= r /\ r <= first + 30
    BY <1>2, <1>3, MonthsOfYear
  <1>5. DayOf(d) = r - first + 1
    BY <1>2, <1>3 DEF DayOf, Fifth
  <1>6. Between(1, DayOf(d), 31)
    BY <1>4, <1>5 DEF Between
  <1>7. Between(0, (WeekdayOf(d) + 1) % 7, 6)
    BY DEF WeekdayOf, Between
  <1> QED
    BY <1>6, <1>7 DEF CronShape, Between

\* A date that matches comes again before next_run gives up.
DateComes(cron, b) == \E e \in Int : b <= e /\ e <= b + 3292 /\ DateMatches(cron, e)

LEMMA MatchesRecur ==
  ASSUME NEW cron, NEW d \in Int, InCycle(d), NEW b \in Int
  PROVE  CronShape(cron) /\ DateMatches(cron, d) => DateComes(cron, b)
  <1>1. PICK onDate \in Int : /\ b <= onDate /\ onDate <= b + 3292
                              /\ DayOfYear(onDate % Cycle) = DayOfYear(d)
    <2>1. DayComes(DayOfYear(d), b)
      BY DayRecurs
    <2> QED
      BY <2>1 DEF DayComes
  <1>2. PICK onWeekday \in Int : /\ b <= onWeekday /\ onWeekday <= b + 3292
                                 /\ Fifth(onWeekday % Cycle) = Fifth(d)
                                 /\ WeekdayOf(onWeekday % Cycle) = WeekdayOf(d)
    BY WeekdayRecurs
  <1>3. SUFFICES ASSUME CronShape(cron), DateMatches(cron, d)
                 PROVE  \E e \in Int : b <= e /\ e <= b + 3292 /\ DateMatches(cron, e)
    BY DEF DateComes
  <1>4. d % Cycle = d
    BY DEF InCycle, Between, Cycle
  <1>5. MonthOf(d) \in cron.months /\ DayMatches(cron, d)
    BY <1>3, <1>4 DEF DateMatches
  <1>6. ASSUME NEW e \in Int, Fifth(e % Cycle) = Fifth(d), DayMatches(cron, e % Cycle)
        PROVE  DateMatches(cron, e)
    BY <1>5, <1>6 DEF DateMatches, MonthOf
  <1>7. CASE DayOf(d) \in cron.days /\ (cron.days_restricted \/ ~cron.weekdays_restricted)
    <2>1. Fifth(onDate % Cycle) = Fifth(d) /\ DayOf(onDate % Cycle) = DayOf(d)
      BY <1>1 DEF Fifth, DayOf
    <2>2. PICK x \in Int : x = onDate % Cycle /\ InCycle(x)
      BY DayOfCycle
    <2>3. ~cron.weekdays_restricted => (WeekdayOf(x) + 1) % 7 \in cron.weekdays
      BY <1>3, <2>2, UnrestrictedMatches
    <2>4. DayMatches(cron, x)
      BY <1>7, <2>1, <2>2, <2>3 DEF DayMatches
    <2> QED
      BY <1>1, <1>6, <2>1, <2>2, <2>4
  <1>8. CASE /\ (WeekdayOf(d) + 1) % 7 \in cron.weekdays
             /\ cron.weekdays_restricted \/ ~cron.days_restricted
    <2>1. PICK x \in Int : x = onWeekday % Cycle /\ InCycle(x)
      BY DayOfCycle
    <2>2. ~cron.days_restricted => DayOf(x) \in cron.days
      BY <1>3, <2>1, UnrestrictedMatches
    <2>3. DayMatches(cron, x)
      BY <1>2, <1>8, <2>1, <2>2 DEF DayMatches
    <2> QED
      BY <1>2, <1>6, <2>1, <2>3
  <1> QED
    BY <1>5, <1>7, <1>8 DEF DayMatches
-----------------------------------------------------------------------------
(***************************************************************************)
(* next_run's strides.                                                     *)
(***************************************************************************)
\* No wall time from one minute up to another is the expression's.
NoneIn(cron, from, to) ==
  \A d \in Int : \A h \in cron.hours, m \in cron.minutes :
    DateMatches(cron, d) => ~(from <= d * Day + h * Hour + m /\ d * Day + h * Hour + m < to)

\* A minute's day, hour and minute.
LEMMA ClockTimes ==
  ASSUME NEW d \in Int, NEW h \in Int, NEW m \in Int, Between(0, h, 23), Between(0, m, 59),
         NEW v \in Int, v = d * Day + h * Hour + m
  PROVE  v \div Day = d /\ (v % Day) \div Hour = h /\ v % Hour = m
  <1>1. 0 <= h /\ h <= 23 /\ 0 <= m /\ m <= 59 /\ v = 1440 * d + 60 * h + m
    BY DEF Between, Day, Hour
  <1>2. v \div 1440 = d /\ v % 1440 = 60 * h + m
    BY <1>1
  <1>3. (60 * h + m) \div 60 = h /\ v % 60 = m
    BY <1>1
  <1> QED
    BY <1>2, <1>3 DEF Day, Hour

LEMMA SameDay ==
  ASSUME NEW at \in Int, NEW v \in Int, at <= v, v < NextDay(at)
  PROVE  v \div Day = at \div Day
  BY DEF NextDay, Day, Hour

LEMMA SameHour ==
  ASSUME NEW at \in Int, NEW v \in Int, at <= v, v < NextHour(at)
  PROVE  (v % Day) \div Hour = (at % Day) \div Hour
  <1>1. PICK a, b \in Int : a = at \div 60 /\ b = v \div 60
    OBVIOUS
  <1>2. a = b
    BY <1>1 DEF NextHour, Hour
  <1>3. (at % 1440) \div 60 = a % 24 /\ (v % 1440) \div 60 = b % 24
    BY <1>1
  <1> QED
    BY <1>2, <1>3 DEF Day, Hour

\* A stride passes over no wall time of the expression.
LEMMA Strides ==
  ASSUME NEW cron, NEW at \in Int, NEW next \in Int, CronShape(cron),
         \/ ~DateMatches(cron, at \div Day) /\ next = NextDay(at)
         \/ (at % Day) \div Hour \notin cron.hours /\ next = NextHour(at)
         \/ at % Hour \notin cron.minutes /\ next = at + 1
  PROVE  NoneIn(cron, at, next)
  <1>1. SUFFICES ASSUME NEW d \in Int, NEW h \in cron.hours, NEW m \in cron.minutes,
                        DateMatches(cron, d),
                        NEW v \in Int, v = d * Day + h * Hour + m, at <= v, v < next
                 PROVE  FALSE
    <2>1. \A h \in cron.hours, m \in cron.minutes : h \in Int /\ m \in Int
      BY DEF CronShape, Between
    <2>2. \A d \in Int : \A h \in cron.hours, m \in cron.minutes : d * Day + h * Hour + m \in Int
      BY <2>1 DEF Day, Hour
    <2> QED
      BY <2>2 DEF NoneIn
  <1>2. h \in Int /\ m \in Int /\ Between(0, h, 23) /\ Between(0, m, 59)
    BY DEF CronShape, Between
  <1>3. v \div Day = d /\ (v % Day) \div Hour = h /\ v % Hour = m
    BY <1>1, <1>2, ClockTimes
  <1>4. CASE ~DateMatches(cron, at \div Day) /\ next = NextDay(at)
    <2>1. v \div Day = at \div Day
      BY <1>1, <1>4, SameDay
    <2> QED
      BY <1>1, <1>3, <1>4, <2>1
  <1>5. CASE (at % Day) \div Hour \notin cron.hours /\ next = NextHour(at)
    <2>1. (v % Day) \div Hour = (at % Day) \div Hour
      BY <1>1, <1>5, SameHour
    <2> QED
      BY <1>3, <1>5, <2>1
  <1>6. CASE at % Hour \notin cron.minutes /\ next = at + 1
    <2>1. v = at
      BY <1>1, <1>6
    <2> QED
      BY <1>3, <1>6, <2>1
  <1> QED
    BY <1>4, <1>5, <1>6

\* Where next_run comes to its limit, no date of the calendar matches.
LEMMA NothingToFind ==
  ASSUME NEW cron, NEW at \in Int, NEW limit \in Int, limit <= at,
         CronShape(cron), NoneIn(cron, limit - Horizon, at), NEW d \in Int, InCycle(d)
  PROVE  ~DateMatches(cron, d)
  <1>1. SUFFICES ASSUME DateMatches(cron, d) PROVE FALSE
    OBVIOUS
  <1>2. PICK b \in Int : b = (limit - Horizon) \div Day + 1
    BY DEF Horizon, Day, Hour
  <1>3. PICK e \in Int : b <= e /\ e <= b + 3292 /\ DateMatches(cron, e)
    <2>1. DateComes(cron, b)
      BY <1>1, MatchesRecur
    <2> QED
      BY <2>1 DEF DateComes
  <1>4. PICK h \in cron.hours, m \in cron.minutes : TRUE
    BY DEF CronShape
  <1>5. /\ h \in Int /\ m \in Int /\ 0 <= h /\ h <= 23 /\ 0 <= m /\ m <= 59
    BY DEF CronShape, Between
  <1>6. limit - Horizon <= e * Day + h * Hour + m /\ e * Day + h * Hour + m < at
    BY <1>2, <1>3, <1>5 DEF Horizon, Day, Hour
  <1> QED
    BY <1>3, <1>6 DEF NoneIn

-----------------------------------------------------------------------------
(***************************************************************************)
(* The invariant of the walk: the schedule in force is walked, from the      *)
(* first minute to come, and none of its times lies behind.                  *)
(***************************************************************************)
Types ==
  night \in Night /\ clock \in Int /\ sweepAt \in night.schedules \cup {NoSchedule} /\ fresh \in Nat

WalkInv ==
  thread = "walking" =>
    /\ sweepAt # NoSchedule /\ Parses(sweepAt)
    /\ walk = [cron |-> CronOf(sweepAt), at |-> walk.at, limit |-> Candidate(clock) + Horizon]
    /\ walk.at \in Int /\ Candidate(clock) <= walk.at
    /\ NoneIn(walk.cron, Candidate(clock), walk.at)

LEMMA WallTimes ==
  ASSUME Types, NEW t \in Int
  PROVE  Wall(t) \in Int /\ Candidate(t) \in Int
  <1>1. Minute \in Int /\ Minute > 0 /\ night.zone.shift \in Int
    BY ScheduleAssumption DEF Types
  <1>2. night.zone.shift * Minute \in Int
    BY <1>1
  <1>3. Wall(t) \in Int
    BY <1>2 DEF Wall
  <1> QED
    BY <1>1, <1>3 DEF Candidate

\* What is walked has the shape of an expression that was read.
LEMMA WalkedShape ==
  ASSUME Types, sweepAt # NoSchedule, Parses(sweepAt)
  PROVE  CronShape(CronOf(sweepAt))
  <1>1. sweepAt \in Seq(Field)
    BY ScheduleAssumption DEF Types
  <1> QED
    BY <1>1, CronParsed

LEMMA WalkInvInit ==
  ASSUME ScheduleInit
  PROVE  Types /\ WalkInv
  <1>1. Types
    BY ScheduleAssumption DEF ScheduleInit, Types
  <1> QED
    BY <1>1 DEF ScheduleInit, WalkInv

LEMMA SteppingPassesNothing ==
  ASSUME Types, WalkInv, Stepping
  PROVE  /\ walk'.cron = walk.cron /\ walk'.limit = walk.limit /\ walk' = [walk EXCEPT !.at = walk'.at]
         /\ walk'.at \in Int /\ walk.at \in Int /\ walk.at < walk'.at
         /\ NoneIn(walk.cron, walk.at, walk'.at)
  <1>1. /\ thread = "walking" /\ sweepAt # NoSchedule /\ Parses(sweepAt)
        /\ walk = [cron |-> CronOf(sweepAt), at |-> walk.at, limit |-> Candidate(clock) + Horizon]
        /\ walk.at \in Int
    BY DEF Stepping, WalkInv
  <1>2. CronShape(walk.cron)
    BY <1>1, WalkedShape
  <1>3. PICK next \in Int :
          /\ walk' = [walk EXCEPT !.at = next] /\ walk.at < next
          /\ \/ ~DateMatches(walk.cron, walk.at \div Day) /\ next = NextDay(walk.at)
             \/ (walk.at % Day) \div Hour \notin walk.cron.hours /\ next = NextHour(walk.at)
             \/ walk.at % Hour \notin walk.cron.minutes /\ next = walk.at + 1
    <2>1. /\ NextDay(walk.at) \in Int /\ walk.at < NextDay(walk.at)
          /\ NextHour(walk.at) \in Int /\ walk.at < NextHour(walk.at)
          /\ walk.at + 1 \in Int /\ walk.at < walk.at + 1
      BY <1>1 DEF NextDay, NextHour, Day, Hour
    <2>2. CASE ~OnDay /\ walk' = [walk EXCEPT !.at = NextDay(@)]
      BY <2>1, <2>2 DEF OnDay
    <2>3. CASE ~InHour /\ walk' = [walk EXCEPT !.at = NextHour(@)]
      BY <2>1, <2>3 DEF InHour
    <2>4. CASE ~InMinute /\ walk' = [walk EXCEPT !.at = @ + 1]
      BY <2>1, <2>4 DEF InMinute
    <2> QED
      BY <2>2, <2>3, <2>4 DEF Stepping
  <1>4. walk'.cron = walk.cron /\ walk'.limit = walk.limit /\ walk'.at = next
    BY <1>1, <1>3
  <1>5. NoneIn(walk.cron, walk.at, next)
    BY <1>1, <1>2, <1>3, Strides
  <1> QED
    BY <1>1, <1>3, <1>4, <1>5

LEMMA WalkInvKept ==
  ASSUME Types, WalkInv, [ScheduleNext]_scheduleVars
  PROVE  Types' /\ WalkInv'
  <1>1. CASE Read
    <2>1. Types'
      BY <1>1 DEF Read, Types
    <2>2. CASE thread' # "walking"
      BY <2>1, <2>2 DEF WalkInv
    <2>3. CASE thread' = "walking"
      <3>1. /\ sweepAt # NoSchedule /\ Parses(sweepAt)
            /\ walk' = [cron |-> CronOf(sweepAt), at |-> Candidate(clock),
                        limit |-> Candidate(clock) + Horizon]
            /\ UNCHANGED <<night, clock, sweepAt>>
        BY <1>1, <2>3 DEF Read, Doze
      <3>2. Candidate(clock) \in Int /\ Candidate(clock)' = Candidate(clock)
        BY <3>1, WallTimes DEF Types, Candidate, Wall
      <3>3. NoneIn(CronOf(sweepAt), Candidate(clock), Candidate(clock))
        <4>1. CronShape(CronOf(sweepAt))
          BY <3>1, WalkedShape
        <4> QED
          BY <3>2, <4>1 DEF NoneIn, CronShape, Between, Day, Hour
      <3> QED
        BY <2>1, <3>1, <3>2, <3>3 DEF WalkInv
    <2> QED
      BY <2>2, <2>3
  <1>2. CASE Stepping
    <2>1. Types'
      BY <1>2 DEF Stepping, Types
    <2>2. /\ walk'.cron = walk.cron /\ walk'.limit = walk.limit /\ walk' = [walk EXCEPT !.at = walk'.at]
          /\ walk'.at \in Int /\ walk.at \in Int /\ walk.at < walk'.at
          /\ NoneIn(walk.cron, walk.at, walk'.at)
      BY <1>2, SteppingPassesNothing
    <2>3. /\ thread = "walking" /\ UNCHANGED <<night, clock, sweepAt>>
      BY <1>2 DEF Stepping
    <2>4. Candidate(clock) \in Int /\ Candidate(clock)' = Candidate(clock)
      BY <2>3, WallTimes DEF Types, Candidate, Wall
    <2>5. CronShape(walk.cron)
      BY <2>3, WalkedShape DEF WalkInv
    <2>6. NoneIn(walk.cron, Candidate(clock), walk'.at)
      <3>1. SUFFICES ASSUME NEW d \in Int, NEW h \in walk.cron.hours, NEW m \in walk.cron.minutes,
                            DateMatches(walk.cron, d),
                            NEW v, v = d * Day + h * Hour + m,
                            Candidate(clock) <= v, v < walk'.at
                     PROVE  FALSE
        BY DEF NoneIn
      <3>2. v \in Int
        BY <2>5, <3>1 DEF CronShape, Between, Day, Hour
      <3>3. ~(Candidate(clock) <= v /\ v < walk.at)
        BY <2>3, <3>1 DEF WalkInv, NoneIn
      <3>4. ~(walk.at <= v /\ v < walk'.at)
        BY <2>2, <3>1 DEF NoneIn
      <3> QED
        BY <2>2, <2>4, <3>1, <3>2, <3>3, <3>4
    <2>7. /\ sweepAt # NoSchedule /\ Parses(sweepAt)
          /\ walk = [cron |-> CronOf(sweepAt), at |-> walk.at, limit |-> Candidate(clock) + Horizon]
          /\ Candidate(clock) <= walk.at
      BY <2>3 DEF WalkInv
    <2>8. walk' = [cron |-> CronOf(sweepAt), at |-> walk'.at, limit |-> Candidate(clock) + Horizon]
      BY <2>2, <2>7
    <2> QED
      BY <2>1, <2>2, <2>3, <2>4, <2>6, <2>7, <2>8 DEF WalkInv
  <1>3. CASE Found \/ GiveUp \/ Wake \/ RunScheduled
    BY <1>3 DEF Found, GiveUp, Wake, RunScheduled, Doze, Types, WalkInv
  <1>4. CASE Pass
    BY <1>4 DEF Pass, Types, WalkInv
  <1>5. CASE SaveSchedule
    BY <1>5, ScheduleAssumption DEF SaveSchedule, Types, WalkInv
  <1>6. CASE StopProducing
    BY <1>6 DEF StopProducing, Types, WalkInv
  <1>7. CASE UNCHANGED scheduleVars
    BY <1>7 DEF scheduleVars, Types, WalkInv, Candidate, Wall
  <1> QED
    BY <1>1, <1>2, <1>3, <1>4, <1>5, <1>6, <1>7 DEF ScheduleNext

THEOREM WalkInvHolds == ScheduleSpec => [](Types /\ WalkInv)
  <1>1. ScheduleInit => Types /\ WalkInv
    BY WalkInvInit
  <1>2. Types /\ WalkInv /\ [ScheduleNext]_scheduleVars => (Types /\ WalkInv)'
    BY WalkInvKept
  <1> QED
    BY <1>1, <1>2, PTL DEF ScheduleSpec

-----------------------------------------------------------------------------
(***************************************************************************)
(* Types.  What is walked is no empty expression, and a sleep takes time or  *)
(* has a run due at its end.                                                *)
(***************************************************************************)
Turns ==
  /\ clock \in night.opens..night.closes
  /\ fresh \in 0..(Slice + 1) /\ resets \in 0..MaxResets /\ producing \in BOOLEAN
  /\ thread \in {"reading", "walking", "asleep", "sweeping", "done", "dead"}
  /\ thread # "walking" => walk = NoWalk
  /\ thread # "asleep" => wake = Awake
  /\ thread = "asleep" => /\ wake.since \in Int /\ wake.until \in Int
                          /\ wake.since < wake.until \/ wake.due

LEMMA WalksSomething ==
  ASSUME Types, WalkInv, thread = "walking"
  PROVE  walk # NoWalk
  <1>1. CronShape(walk.cron)
    BY WalkedShape DEF WalkInv
  <1>2. walk.cron.minutes # {}
    BY <1>1 DEF CronShape
  <1>3. NoWalk.cron.minutes = {}
    BY DEF NoWalk, CronOf, Values, Pieces
  <1> QED
    BY <1>2, <1>3

LEMMA TurnsKept ==
  ASSUME Types, Turns, [ScheduleNext]_scheduleVars
  PROVE  Turns'
  <1> DEFINE Stages == {"reading", "walking", "asleep", "sweeping", "done", "dead"}
             Naps == thread = "asleep" => /\ wake.since \in Int /\ wake.until \in Int
                                          /\ wake.since < wake.until \/ wake.due
  <1>1. /\ Slice \in Nat \ {0} /\ MaxResets \in Nat /\ clock \in Int
        /\ night.opens \in Nat /\ night.closes \in Nat
    BY ScheduleAssumption DEF Types
  <1>2. clock' \in night'.opens..night'.closes
    <2>1. CASE UNCHANGED <<night, clock>>
      BY <2>1 DEF Turns
    <2>2. CASE Pass
      BY <1>1, <2>2 DEF Pass, Turns
    <2> QED
      BY <2>1, <2>2
      DEF ScheduleNext, Read, Stepping, Found, GiveUp, Wake, RunScheduled, SaveSchedule,
          StopProducing, scheduleVars
  <1>3. fresh' \in 0..(Slice + 1) /\ resets' \in 0..MaxResets /\ producing' \in BOOLEAN
    <2>1. CASE UNCHANGED <<fresh, resets, producing>>
      BY <2>1 DEF Turns
    <2>2. CASE Pass
      BY <1>1, <2>2 DEF Pass, Turns
    <2>3. CASE SaveSchedule
      BY <1>1, <2>3 DEF SaveSchedule, Turns
    <2>4. CASE StopProducing
      BY <2>4 DEF StopProducing, Turns
    <2> QED
      BY <2>1, <2>2, <2>3, <2>4
      DEF ScheduleNext, Read, Stepping, Found, GiveUp, Wake, RunScheduled, scheduleVars
  <1>4. /\ Doze(Slice, FALSE) => thread' = "asleep" /\ Naps'
        /\ \A delay \in 0..Slice : Doze(delay, TRUE) => thread' = "asleep" /\ Naps'
    <2>1. ASSUME NEW units \in Int, NEW due \in BOOLEAN, units > 0 \/ due, Doze(units, due)
          PROVE  thread' = "asleep" /\ Naps'
      <3>1. /\ thread' = "asleep" /\ wake'.since = clock /\ wake'.until = clock + units
            /\ wake'.due = due
        BY <2>1 DEF Doze
      <3> QED
        BY <1>1, <2>1, <3>1
    <2>2. Slice \in Int /\ Slice > 0 /\ \A delay \in 0..Slice : delay \in Int
      BY <1>1
    <2> HIDE DEF Naps
    <2> QED
      BY <2>1, <2>2
  <1> HIDE DEF Naps
  <1>5. /\ thread' \in Stages /\ (thread' # "walking" => walk' = NoWalk)
        /\ (thread' # "asleep" => wake' = Awake) /\ Naps'
    <2>1. CASE Read
      <3>1. CASE Doze(Slice, FALSE) /\ UNCHANGED walk
        BY <1>4, <2>1, <3>1 DEF Read, Turns
      <3>2. CASE thread' \in {"done", "walking"} /\ wake' = wake
                 /\ (thread' = "done" => walk' = walk)
        BY <2>1, <3>2 DEF Read, Turns, Naps
      <3> QED
        BY <2>1, <3>1, <3>2 DEF Read
    <2>2. CASE Stepping
      BY <2>2 DEF Stepping, Turns, Naps
    <2>3. CASE Found
      <3>1. CASE Doze(Slice, FALSE)
        BY <1>4, <2>3, <3>1 DEF Found
      <3>2. CASE \E delay \in 0..Slice : Doze(delay, TRUE)
        BY <1>4, <2>3, <3>2 DEF Found
      <3>3. CASE thread' = "dead" /\ UNCHANGED wake
        BY <2>3, <3>3 DEF Found, Turns, Naps
      <3> QED
        BY <2>3, <3>1, <3>2, <3>3 DEF Found
    <2>4. CASE GiveUp
      BY <1>4, <2>4 DEF GiveUp
    <2>5. CASE Wake
      BY <2>5 DEF Wake, Turns, Naps
    <2>6. CASE RunScheduled
      BY <2>6 DEF RunScheduled, Turns, Naps
    <2>7. CASE UNCHANGED <<thread, walk, wake>>
      BY <2>7 DEF Turns, Naps
    <2> QED
      BY <2>1, <2>2, <2>3, <2>4, <2>5, <2>6, <2>7
      DEF ScheduleNext, Pass, SaveSchedule, StopProducing, scheduleVars
  <1> QED
    BY <1>2, <1>3, <1>5 DEF Turns, Naps

\* The scheduler's thread has next_run's locals just while it walks, and an end of its
\* sleep just while it sleeps (sweep.py's scheduler, cron.py's next_run).
THEOREM ScheduleTypeCorrect == ScheduleSpec => []ScheduleTypeOK
  <1>1. ScheduleInit => Turns
    BY ScheduleAssumption DEF ScheduleInit, Turns
  <1>2. Types /\ Turns /\ [ScheduleNext]_scheduleVars => Turns'
    BY TurnsKept
  <1>3. Types /\ WalkInv /\ Turns => ScheduleTypeOK
    <2>1. SUFFICES ASSUME Types, WalkInv, Turns PROVE ScheduleTypeOK
      OBVIOUS
    <2>2. (thread = "walking") = (walk # NoWalk)
      BY <2>1, WalksSomething DEF Turns
    <2>3. (thread = "asleep") = (wake # Awake)
      BY <2>1 DEF Turns, Awake
    <2> QED
      BY <2>1, <2>2, <2>3 DEF ScheduleTypeOK, Types, Turns
  <1> QED
    BY <1>1, <1>2, <1>3, WalkInvHolds, PTL DEF ScheduleSpec

-----------------------------------------------------------------------------
\* A step of the walk leaves no match behind, and its end finds none anywhere.
PassesNone ==
  thread = "walking" =>
    LET matches(d) == DateMatches(walk.cron, d) IN
    IF thread' = "walking"
    THEN \A d \in (walk.at \div Day)..((walk'.at - 1) \div Day) :
           matches(d) =>
             ~\E h \in walk.cron.hours, m \in walk.cron.minutes :
                d * Day + h * Hour + m \in walk.at..(walk'.at - 1)
    ELSE walk.at >= walk.limit => ~\E d \in 0..(Cycle - 1) : matches(d)

LEMMA WalksPassNone ==
  ASSUME Types, WalkInv, ScheduleNext
  PROVE  PassesNone
  <1>1. SUFFICES ASSUME thread = "walking" PROVE PassesNone
    BY DEF PassesNone
  <1>2. CASE Stepping
    <2>1. /\ walk'.at \in Int /\ walk.at \in Int /\ NoneIn(walk.cron, walk.at, walk'.at)
      BY <1>2, SteppingPassesNothing
    <2>2. thread' = "walking"
      BY <1>1, <1>2 DEF Stepping
    <2>3. ASSUME NEW d \in (walk.at \div Day)..((walk'.at - 1) \div Day), DateMatches(walk.cron, d),
                 NEW h \in walk.cron.hours, NEW m \in walk.cron.minutes,
                 d * Day + h * Hour + m \in walk.at..(walk'.at - 1)
          PROVE  FALSE
      <3>1. d \in Int
        BY <2>1 DEF Day, Hour
      <3>2. PICK v \in Int : v = d * Day + h * Hour + m /\ walk.at <= v /\ v < walk'.at
        BY <2>1, <2>3
      <3> QED
        BY <2>1, <2>3, <3>1, <3>2 DEF NoneIn
    <2> QED
      BY <2>2, <2>3 DEF PassesNone
  <1>3. CASE GiveUp
    <2>1. /\ sweepAt # NoSchedule /\ Parses(sweepAt) /\ walk.cron = CronOf(sweepAt)
          /\ walk.at \in Int /\ walk.limit = Candidate(clock) + Horizon
          /\ NoneIn(walk.cron, Candidate(clock), walk.at)
      BY <1>1 DEF WalkInv
    <2>2. CronShape(walk.cron)
      BY <2>1, WalkedShape
    <2>3. PICK limit \in Int : limit = walk.limit /\ limit - Horizon = Candidate(clock) /\ limit <= walk.at
      BY <1>3, <2>1, WallTimes DEF GiveUp, Types, Horizon, Day, Hour
    <2>4. PICK last \in Int : last = Cycle - 1 /\ last = 146096
      BY DEF Cycle
    <2>5. ASSUME NEW d \in 0..last PROVE ~DateMatches(walk.cron, d)
      <3>1. d \in Int /\ 0 <= d /\ d <= last
        OBVIOUS
      <3>2. InCycle(d)
        BY <2>4, <3>1 DEF InCycle, Between
      <3> QED
        BY <2>1, <2>2, <2>3, <3>1, <3>2, NothingToFind
    <2>6. thread' # "walking"
      BY <1>3 DEF GiveUp, Doze
    <2> QED
      BY <2>4, <2>5, <2>6 DEF PassesNone
  <1>4. CASE Found
    <2>1. thread' # "walking" /\ walk.at < walk.limit
      BY <1>4 DEF Found, Doze
    <2>2. walk.at \in Int /\ walk.limit \in Int
      BY <1>1, WallTimes DEF WalkInv, Types, Horizon, Day, Hour
    <2> QED
      BY <2>1, <2>2 DEF PassesNone
  <1> QED
    BY <1>1, <1>2, <1>3, <1>4
       DEF ScheduleNext, Read, Wake, RunScheduled, Pass, SaveSchedule, StopProducing

\* next_run walks past no minute that its expression matches, and gives up only
\* on one that no date of the calendar matches: cron.py's strides and _HORIZON.
THEOREM RunsAreNeverPassedOver == ScheduleSpec => NoRunPassedOver
  <1>1. Types /\ WalkInv /\ [ScheduleNext]_scheduleVars => [PassesNone]_scheduleVars
    BY WalksPassNone
  <1>2. ScheduleSpec => [][PassesNone]_scheduleVars
    BY <1>1, WalkInvHolds, PTL DEF ScheduleSpec
  <1> QED
    BY <1>2 DEF NoRunPassedOver, PassesNone

-----------------------------------------------------------------------------
(***************************************************************************)
(* Slots.  The clocks of a zone go forward by an hour, on the hour; they may *)
(* go back by as much as they like.                                         *)
(***************************************************************************)
HourForward ==
  \A n \in Night : n.zone.shift > 0 => /\ n.zone.shift = Hour
                                       /\ \E x \in Int : n.zone.at = (x * Hour) * Minute

Matching(cron, v) ==
  DateMatches(cron, v \div Day) /\ (v % Day) \div Hour \in cron.hours /\ v % Hour \in cron.minutes

LEMMA Divided ==
  ASSUME NEW n \in Int, n > 0, NEW x \in Int
  PROVE  x = (x \div n) * n + (x % n) /\ 0 <= x % n /\ x % n < n
  OBVIOUS

LEMMA TimesOrdered ==
  ASSUME NEW n \in Int, n > 0, NEW a \in Int, NEW b \in Int
  PROVE  a * n \in Int /\ (a < b => a * n + n <= b * n) /\ (a <= b => a * n <= b * n)
  <1>1. a * n \in Int /\ b * n \in Int
    OBVIOUS
  <1>2. ASSUME NEW k \in Int, 0 <= k PROVE 0 <= k * n
    BY <1>2
  <1>3. a <= b => 0 <= (b - a) * n
    BY <1>2
  <1>4. a < b => 0 <= (b - a - 1) * n
    BY <1>2
  <1>5. (b - a) * n = b * n - a * n /\ (b - a - 1) * n = b * n - a * n - n
    OBVIOUS
  <1> QED
    BY <1>1, <1>3, <1>4, <1>5

\* A matching minute is not among those passed over.
LEMMA MatchAhead ==
  ASSUME NEW cron, CronShape(cron), NEW from \in Int, NEW to \in Int, NoneIn(cron, from, to),
         NEW v \in Int, Matching(cron, v), from <= v
  PROVE  to <= v
  <1>1. PICK d, h, m \in Int : d = v \div Day /\ h = (v % Day) \div Hour /\ m = v % Hour
    BY DEF Day, Hour
  <1>2. v = d * Day + h * Hour + m
    <2>1. v % 60 = (v % 1440) % 60
      OBVIOUS
    <2> QED
      BY <1>1, <2>1 DEF Day, Hour
  <1>3. DateMatches(cron, d) /\ h \in cron.hours /\ m \in cron.minutes
    BY <1>1 DEF Matching
  <1>4. ~(from <= d * Day + h * Hour + m /\ d * Day + h * Hour + m < to)
    BY <1>3 DEF NoneIn
  <1> QED
    BY <1>2, <1>4

\* The minutes of a matching hour that are the expression's match as well.
LEMMA SameHourMatches ==
  ASSUME NEW cron, NEW x \in Int, NEW a \in Int, NEW b \in Int,
         60 * x <= a, a < 60 * x + 60, 60 * x <= b, b < 60 * x + 60,
         Matching(cron, a), b % 60 \in cron.minutes
  PROVE  Matching(cron, b)
  <1>1. a \div Hour = x /\ b \div Hour = x
    BY DEF Hour
  <1>2. b \div Day = a \div Day /\ (b % Day) \div Hour = (a % Day) \div Hour
    <2>1. PICK y, z \in Int : x = 24 * y + z /\ 0 <= z /\ z < 24
      <3> DEFINE y == x \div 24
                 z == x % 24
      <3>1. y \in Int /\ z \in Int /\ x = 24 * y + z /\ 0 <= z /\ z < 24
        OBVIOUS
      <3> HIDE DEF y, z
      <3> QED
        BY <3>1
    <2>2. a \div 1440 = y /\ b \div 1440 = y
      BY <2>1
    <2>3. (a % 1440) \div 60 = z /\ (b % 1440) \div 60 = z
      BY <2>1, <2>2
    <2> QED
      BY <2>2, <2>3 DEF Day, Hour
  <1> QED
    BY <1>2 DEF Matching, Hour

LEMMA SlotMinute ==
  ASSUME Types, NEW t \in Int, IsSlot(t)
  PROVE  /\ sweepAt # NoSchedule /\ Parses(sweepAt)
         /\ \E v \in Int : /\ Wall(t) = v * Minute /\ Timestamp(v * Minute) = t
                           /\ Matching(CronOf(sweepAt), v)
  <1>1. Minute \in Int /\ Minute > 0 /\ Wall(t) \in Int
    BY ScheduleAssumption, WallTimes
  <1>2. PICK v \in Int : v = Wall(t) \div Minute
    BY <1>1
  <1>3. Wall(t) = v * Minute
    BY <1>1, <1>2, Divided DEF IsSlot
  <1> QED
    BY <1>2, <1>3 DEF IsSlot, Matching

LEMMA ClockTypes ==
  ASSUME Types
  PROVE  /\ Minute \in Int /\ Minute > 0 /\ clock \in Int /\ Wall(clock) \in Int
         /\ night.zone.at \in Int /\ night.zone.shift \in Int /\ Candidate(clock) \in Int
  <1>1. clock \in Int /\ night.zone.at \in Int /\ night.zone.shift \in Int
    BY ScheduleAssumption DEF Types
  <1>2. Minute \in Int /\ Minute > 0
    BY ScheduleAssumption
  <1> QED
    BY <1>1, <1>2, WallTimes

\* The moment of a minute to come is never the present one.
LEMMA NeverAtOnce ==
  ASSUME Types, NEW w \in Int, Candidate(clock) <= w
  PROVE  w * Minute \in Int /\ Wall(clock) < w * Minute
         /\ Timestamp(w * Minute) \in Int /\ Timestamp(w * Minute) # clock
  <1>1. /\ Minute \in Int /\ Minute > 0 /\ clock \in Int /\ Wall(clock) \in Int
        /\ night.zone.at \in Int /\ night.zone.shift \in Int
    BY ClockTypes
  <1>2. PICK now \in Int : now = Wall(clock) \div Minute
    BY <1>1
  <1>3. Wall(clock) < now * Minute + Minute /\ now * Minute \in Int
    BY <1>1, <1>2, Divided
  <1>4. now < w
    BY <1>2 DEF Candidate
  <1>5. PICK u \in Int : u = w * Minute
    BY <1>1
  <1>6. now * Minute + Minute <= u
    BY <1>1, <1>4, <1>5, TimesOrdered
  <1>7. PICK shift \in Int : shift = night.zone.shift * Minute
    BY <1>1
  <1>8. Timestamp(u) \in Int /\ Timestamp(u) # clock
    BY <1>1, <1>3, <1>6, <1>7 DEF Timestamp, Wall
  <1> QED
    BY <1>1, <1>3, <1>5, <1>6, <1>8

\* The moment that next_run finds is no later than any slot ahead.
LEMMA FirstSlotFound ==
  ASSUME HourForward, Types, WalkInv, thread = "walking", OnDay, InHour, InMinute,
         NEW t \in Int, clock < t, IsSlot(t)
  PROVE  Timestamp(walk.at * Minute) <= t
  <1>1. /\ Minute \in Int /\ Minute > 0 /\ clock \in Int /\ Wall(clock) \in Int
        /\ night.zone.at \in Int /\ night.zone.shift \in Int /\ Candidate(clock) \in Int
    BY ClockTypes
  <1>2. /\ sweepAt # NoSchedule /\ Parses(sweepAt) /\ walk.cron = CronOf(sweepAt)
        /\ walk.at \in Int /\ Candidate(clock) <= walk.at
        /\ NoneIn(walk.cron, Candidate(clock), walk.at)
    BY DEF WalkInv
  <1>3. CronShape(walk.cron)
    BY <1>2, WalkedShape
  <1>4. PICK v \in Int : /\ Wall(t) = v * Minute /\ Timestamp(v * Minute) = t
                         /\ Matching(walk.cron, v)
    BY <1>2, SlotMinute
  <1>5. PICK w \in Int : w = walk.at /\ Candidate(clock) <= w
    BY <1>2
  <1>6. Matching(walk.cron, w)
    BY <1>5 DEF OnDay, InHour, InMinute, Matching
  <1>7. PICK now, at, shift, u, y \in Int :
          /\ now = Wall(clock) /\ at = night.zone.at /\ shift = night.zone.shift * Minute
          /\ u = w * Minute /\ y = v * Minute
    BY <1>1
  <1>8. /\ now = IF clock < at THEN clock ELSE clock + shift
        /\ y = IF t < at THEN t ELSE t + shift
        /\ t = IF y >= at /\ y - shift >= at THEN y - shift ELSE y
        /\ Timestamp(u) = IF u >= at /\ u - shift >= at THEN u - shift ELSE u
    BY <1>4, <1>7 DEF Wall, Timestamp
  <1>9. now < u
    BY <1>5, <1>7, NeverAtOnce
  <1>10. Candidate(clock) <= v
    <2>1. PICK c \in Int : c = now \div Minute
      BY <1>1
    <2>2. Candidate(clock) = c + 1 /\ c * Minute \in Int /\ c * Minute <= now
      BY <1>1, <1>7, <2>1, Divided DEF Candidate
    <2>3. now < y
      BY <1>1, <1>8
    <2>4. SUFFICES ASSUME v <= c PROVE FALSE
      BY <2>2
    <2>5. y <= c * Minute
      BY <1>1, <1>7, <2>4, TimesOrdered
    <2> QED
      BY <2>2, <2>3, <2>5
  <1>11. w <= v
    BY <1>1, <1>2, <1>3, <1>4, <1>5, <1>10, MatchAhead
  <1>12. u <= y
    BY <1>1, <1>7, <1>11, TimesOrdered
  <1>13. CASE ~(shift > 0 /\ at <= u /\ u < at + shift /\ t < u)
    <2>1. Timestamp(u) <= t
      BY <1>7, <1>8, <1>12, <1>13
    <2> QED
      BY <1>5, <1>7, <2>1
  <1>14. CASE shift > 0 /\ at <= u /\ u < at + shift /\ t < u
    <2>1. night.zone.shift > 0
      <3>1. SUFFICES ASSUME night.zone.shift <= 0 PROVE FALSE
        BY <1>1
      <3>2. night.zone.shift * Minute <= 0 * Minute
        BY <1>1, <3>1, TimesOrdered
      <3> QED
        BY <1>1, <1>7, <1>14, <3>2
    <2>2. PICK x \in Int : night.zone.shift = 60 /\ at = (x * 60) * Minute
      BY <1>7, <2>1 DEF HourForward, Types, Hour
    <2>3. /\ 60 * x \in Int /\ (60 * x) * Minute = at /\ (60 * x + 60) * Minute = at + shift
          /\ (v - 60) * Minute = y - shift
      BY <1>1, <1>7, <2>2
    <2>4. /\ clock < at /\ at <= t /\ t = y - shift /\ now = clock
      BY <1>1, <1>7, <1>8, <1>9, <1>12, <1>14
    <2>5. 60 * x <= w /\ w < 60 * x + 60
      <3>1. w < 60 * x => u + Minute <= at
        BY <1>1, <1>7, <2>3, TimesOrdered
      <3>2. 60 * x + 60 <= w => at + shift <= u
        BY <1>1, <1>7, <2>3, TimesOrdered
      <3> QED
        BY <1>1, <1>14, <3>1, <3>2
    <2>6. 60 * x <= v - 60 /\ v - 60 < w
      <3>1. v - 60 < 60 * x => (y - shift) + Minute <= at
        BY <1>1, <2>3, TimesOrdered
      <3>2. w <= v - 60 => u <= y - shift
        BY <1>1, <1>7, <2>3, TimesOrdered
      <3> QED
        BY <1>1, <1>14, <2>4, <3>1, <3>2
    <2>7. Matching(walk.cron, v - 60)
      <3>1. (v - 60) % 60 \in walk.cron.minutes
        <4>1. (v - 60) % 60 = v % 60
          OBVIOUS
        <4> QED
          BY <1>4, <4>1 DEF Matching, Hour
      <3> QED
        BY <1>6, <2>5, <2>6, <3>1, SameHourMatches
    <2>8. Candidate(clock) <= v - 60
      <3>1. PICK c \in Int : c = now \div Minute
        BY <1>1
      <3>2. Candidate(clock) = c + 1 /\ c * Minute \in Int /\ c * Minute <= now
        BY <1>1, <1>7, <3>1, Divided DEF Candidate
      <3>3. 60 * x <= c => at <= c * Minute
        BY <1>1, <2>3, TimesOrdered
      <3> QED
        BY <2>3, <2>4, <2>6, <3>2, <3>3
    <2>9. w <= v - 60
      BY <1>1, <1>2, <1>3, <1>5, <2>7, <2>8, MatchAhead
    <2> QED
      BY <2>6, <2>9
  <1> QED
    BY <1>5, <1>7, <1>13, <1>14

\* A walk that comes to its limit has no slot ahead.
LEMMA NoSlotFound ==
  ASSUME Types, WalkInv, thread = "walking", walk.at >= walk.limit, NEW t \in Int, IsSlot(t)
  PROVE  FALSE
  <1>1. /\ walk.cron = CronOf(sweepAt) /\ sweepAt # NoSchedule /\ Parses(sweepAt)
        /\ walk.at \in Int /\ walk.limit = Candidate(clock) + Horizon
        /\ NoneIn(walk.cron, Candidate(clock), walk.at)
    BY DEF WalkInv
  <1>2. CronShape(walk.cron)
    BY <1>1, WalkedShape
  <1>3. PICK limit \in Int : limit = walk.limit /\ limit - Horizon = Candidate(clock) /\ limit <= walk.at
    BY <1>1, WallTimes DEF Types, Horizon, Day, Hour
  <1>4. PICK v \in Int : Matching(walk.cron, v)
    BY <1>1, SlotMinute
  <1>5. PICK z \in Int : z = v \div Day /\ DateMatches(walk.cron, z)
    BY <1>4 DEF Matching, Day, Hour
  <1>6. PICK d \in Int : d = z % Cycle /\ InCycle(d)
    BY DayOfCycle
  <1>7. d % Cycle = d
    BY <1>6 DEF InCycle, Between, Cycle
  <1>8. DateMatches(walk.cron, d)
    BY <1>5, <1>6, <1>7 DEF DateMatches
  <1> QED
    BY <1>1, <1>2, <1>3, <1>6, <1>8, NothingToFind

\* The invariant of a sleep: no slot of the schedule in force lies within what was
\* asked of it but at the end, where a run is due then; unless the schedule was
\* saved during the sleep, and is fresh until then.
Answered(nap) ==
  \A t \in Int : nap.since < t /\ t <= nap.until /\ IsSlot(t) => nap.due /\ t = nap.until

SleepInv ==
  thread = "asleep" =>
    /\ wake.since \in Int /\ wake.until \in Int
    /\ wake.since <= clock /\ wake.until <= wake.since + Slice
    /\ wake.due => wake.since < wake.until
    /\ clock <= wake.until => fresh > wake.until - clock \/ Answered(wake)

LEMMA SlotsStand ==
  ASSUME UNCHANGED <<night, sweepAt>>
  PROVE  \A t \in Int : IsSlot(t)' = IsSlot(t)
  BY DEF IsSlot, Wall, Timestamp

\* A sleep that begins as its schedule asks.
LEMMA SleepBegins ==
  ASSUME Types, UNCHANGED <<night, clock, sweepAt>>, wake'.since = clock, wake'.until \in Int,
         clock <= wake'.until, wake'.until <= clock + Slice,
         wake'.due => clock < wake'.until, Answered(wake')
  PROVE  SleepInv'
  <1>1. clock \in Int /\ clock' = clock
    BY DEF Types
  <1>2. Answered(wake)'
    BY SlotsStand DEF Answered
  <1> QED
    BY <1>1, <1>2 DEF SleepInv

LEMMA SleepInvKept ==
  ASSUME HourForward, Types, WalkInv, SleepInv, [ScheduleNext]_scheduleVars
  PROVE  SleepInv'
  <1>1. clock \in Int /\ fresh \in Int /\ fresh >= 0 /\ Slice \in Int /\ Slice >= 1
    BY ScheduleAssumption DEF Types
  <1>2. CASE Read
    <2>1. CASE thread' # "asleep"
      BY <2>1 DEF SleepInv
    <2>2. CASE thread' = "asleep"
      <3>1. /\ Doze(Slice, FALSE) /\ ~(sweepAt # NoSchedule /\ Parses(sweepAt))
            /\ UNCHANGED <<night, clock, sweepAt>>
        BY <1>2, <2>2 DEF Read
      <3>2. wake' = [since |-> clock, until |-> clock + Slice, due |-> FALSE]
        BY <3>1 DEF Doze
      <3>3. Answered(wake')
        BY <3>1 DEF IsSlot, Answered
      <3> QED
        BY <1>1, <3>1, <3>2, <3>3, SleepBegins
    <2> QED
      BY <2>1, <2>2
  <1>3. CASE Found
    <2>1. /\ thread = "walking" /\ OnDay /\ InHour /\ InMinute
          /\ UNCHANGED <<night, clock, sweepAt>>
      BY <1>3 DEF Found
    <2>2. walk.at \in Int /\ Candidate(clock) <= walk.at
      BY <2>1 DEF WalkInv
    <2>3. PICK moment \in Int : moment = Timestamp(walk.at * Minute) /\ moment # clock
      BY <2>2, NeverAtOnce
    <2>4. \A t \in Int : clock < t /\ IsSlot(t) => moment <= t
      BY <2>1, <2>3, FirstSlotFound
    <2>5. CASE moment - clock > Slice /\ Doze(Slice, FALSE)
      <3>1. wake' = [since |-> clock, until |-> clock + Slice, due |-> FALSE]
        BY <2>5 DEF Doze
      <3>2. Answered(wake')
        BY <1>1, <2>3, <2>4, <2>5, <3>1 DEF Answered
      <3> QED
        BY <1>1, <2>1, <3>1, <3>2, SleepBegins
    <2>6. CASE moment - clock \in 0..Slice /\ Doze(moment - clock, TRUE)
      <3>1. wake' = [since |-> clock, until |-> clock + (moment - clock), due |-> TRUE]
        BY <2>6 DEF Doze
      <3>2. /\ wake'.since = clock /\ wake'.until = moment /\ wake'.due
            /\ clock < moment /\ moment <= clock + Slice
        BY <1>1, <2>3, <2>6, <3>1
      <3>3. Answered(wake')
        BY <1>1, <2>3, <2>4, <3>2 DEF Answered
      <3> QED
        BY <1>1, <2>1, <2>3, <3>2, <3>3, SleepBegins
    <2>7. CASE thread' = "dead"
      BY <2>7 DEF SleepInv
    <2> QED
      BY <1>3, <2>3, <2>5, <2>6, <2>7 DEF Found
  <1>4. CASE GiveUp
    <2>1. /\ thread = "walking" /\ walk.at >= walk.limit /\ Doze(Slice, FALSE)
          /\ UNCHANGED <<night, clock, sweepAt>>
      BY <1>4 DEF GiveUp
    <2>2. wake' = [since |-> clock, until |-> clock + Slice, due |-> FALSE]
      BY <2>1 DEF Doze
    <2>3. Answered(wake')
      BY <2>1, NoSlotFound DEF Answered
    <2> QED
      BY <1>1, <2>1, <2>2, <2>3, SleepBegins
  <1>5. CASE Pass /\ thread = "asleep"
    <2>1. /\ clock' = clock + 1
          /\ fresh' = IF fresh = 0 THEN 0 ELSE fresh - 1
          /\ UNCHANGED <<night, sweepAt, thread, wake>>
      BY <1>5 DEF Pass
    <2>2. Answered(wake) => Answered(wake)'
      BY <2>1, SlotsStand DEF Answered
    <2> QED
      BY <1>1, <1>5, <2>1, <2>2 DEF SleepInv
  <1>6. CASE SaveSchedule
    BY <1>1, <1>6 DEF SaveSchedule, SleepInv
  <1>7. CASE StopProducing \/ UNCHANGED scheduleVars
    <2>1. UNCHANGED <<night, clock, sweepAt, fresh, thread, wake>>
      BY <1>7 DEF StopProducing, scheduleVars
    <2>2. Answered(wake) => Answered(wake)'
      BY <2>1, SlotsStand DEF Answered
    <2> QED
      BY <2>1, <2>2 DEF SleepInv
  <1>8. CASE Stepping \/ Wake \/ RunScheduled \/ (Pass /\ thread # "asleep")
    BY <1>8 DEF Stepping, Wake, RunScheduled, Pass, SleepInv
  <1> QED
    BY <1>2, <1>3, <1>4, <1>5, <1>6, <1>7, <1>8 DEF ScheduleNext

LEMMA SlotsKept ==
  ASSUME Types, SleepInv
  PROVE  SlotsAreKept
  <1>1. SUFFICES ASSUME thread = "asleep"
                 PROVE  /\ wake.since < clock /\ clock <= wake.until /\ fresh = 0 /\ IsSlot(clock)
                             => wake.due /\ wake.until = clock
                        /\ wake.due => wake.since < wake.until
    BY DEF SlotsAreKept
  <1>2. clock \in Int /\ wake.until \in Int
    BY <1>1 DEF Types, SleepInv
  <1>3. clock <= wake.until /\ fresh = 0 => Answered(wake)
    BY <1>1, <1>2 DEF SleepInv
  <1> QED
    BY <1>1, <1>2, <1>3 DEF SleepInv, Answered

\* A slot of a schedule that has stood for longer than a slice does not come while
\* the thread sleeps, unless the sleep is for that slot's run and was to end just
\* then, or was to be over already; and a slot that just fired is not slept for
\* again.  So it is wherever the clocks go forward by an hour on the hour, however
\* late sleeps end: sweep.py's seconds_until, _TICK and scheduler.
THEOREM SlotsAreAlwaysKept ==
  ASSUME HourForward
  PROVE  ScheduleSpec => []SlotsAreKept
  <1>1. ScheduleInit => SleepInv
    BY DEF ScheduleInit, SleepInv
  <1>2. Types /\ WalkInv /\ SleepInv /\ [ScheduleNext]_scheduleVars => SleepInv'
    BY SleepInvKept
  <1>3. Types /\ SleepInv => SlotsAreKept
    BY SlotsKept
  <1> QED
    BY <1>1, <1>2, <1>3, WalkInvHolds, PTL DEF ScheduleSpec
=============================================================================
