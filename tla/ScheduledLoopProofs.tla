------------------------- MODULE ScheduledLoopProofs -------------------------
(***************************************************************************)
(* That no slot of a schedule is passed over, and that none is served      *)
(* twice, whatever the zone, the change of its offset and the length of    *)
(* the backups: from what each mode computes as the next run.              *)
(***************************************************************************)
EXTENDS ScheduledLoop, FiniteSetTheorems, TLAPS

---------------------------------------------------------------------------
(* Days                                                                     *)

LEMMA DayBounds ==
  ASSUME NEW D \in Nat \ {0}, NEW w \in Int
  PROVE  /\ w \div D \in Int
         /\ (w \div D) * D <= w /\ w < (w \div D) * D + D
  BY SMT

(* The days are apart.                                                      *)
LEMMA DaysApart ==
  ASSUME NEW D \in Nat \ {0}, NEW d \in Int, NEW e \in Int, d < e
  PROVE  d * D \in Int /\ e * D \in Int /\ d * D + D <= e * D
<1>1. e - d >= 1 /\ e - d \in Int
  OBVIOUS
<1>2. (e - d) * D >= D
  BY <1>1, SMT
<1>3. (e - d) * D = e * D - d * D
  BY SMT
<1> QED
  BY <1>2, <1>3, SMT

(* The day of a time is the one whose bounds it is in.                      *)
LEMMA DayIs ==
  ASSUME NEW D \in Nat \ {0}, NEW d \in Int, NEW w \in Int,
         d * D <= w, w < d * D + D
  PROVE  w \div D = d
<1>1. /\ w \div D \in Int /\ d * D \in Int /\ (w \div D) * D \in Int
      /\ (w \div D) * D <= w /\ w < (w \div D) * D + D
  BY DayBounds, SMT
<1>2. ~(w \div D < d)
  BY <1>1, DaysApart, SMT
<1>3. ~(d < w \div D)
  BY <1>1, DaysApart, SMT
<1> QED
  BY <1>1, <1>2, <1>3, SMT

(* A later time is on a later day, or on the same.                          *)
LEMMA DaysFollow ==
  ASSUME NEW D \in Nat \ {0}, NEW v \in Int, NEW w \in Int, v <= w
  PROVE  v \div D <= w \div D
<1>1. /\ v \div D \in Int /\ w \div D \in Int
      /\ (v \div D) * D \in Int /\ (w \div D) * D \in Int
      /\ (v \div D) * D <= v /\ w < (w \div D) * D + D
  BY DayBounds, SMT
<1> QED
  BY <1>1, DaysApart, SMT

(* Times that are no more than a day apart are on days next to each other.  *)
LEMMA DaysNear ==
  ASSUME NEW D \in Nat \ {0}, NEW v \in Int, NEW w \in Int, v <= w + D, w <= v + D
  PROVE  w \div D \in ((v \div D) - 1)..((v \div D) + 1)
<1>1. /\ v \div D \in Int /\ w \div D \in Int
      /\ (v \div D) * D \in Int /\ (w \div D) * D \in Int
      /\ (v \div D) * D <= v /\ v < (v \div D) * D + D
      /\ (w \div D) * D <= w /\ w < (w \div D) * D + D
  BY DayBounds, SMT
<1>2. ASSUME NEW a \in Int, NEW b \in Int, a + 1 < b
      PROVE  a * D + D + D <= b * D /\ a * D \in Int /\ b * D \in Int
  <2>1. a * D + D <= (a + 1) * D /\ (a + 1) * D + D <= b * D
    BY <1>2, DaysApart, SMT
  <2>2. a * D \in Int /\ b * D \in Int /\ (a + 1) * D \in Int
    BY SMT
  <2> QED
    BY <2>1, <2>2, SMT
<1>3. ~((w \div D) + 1 < v \div D)
  BY <1>1, <1>2, SMT
<1>4. ~((v \div D) + 1 < w \div D)
  BY <1>1, <1>2, SMT
<1> QED
  BY <1>1, <1>3, <1>4, SMT

(* A time of day, on its day.                                               *)
LEMMA TimeOfDay ==
  ASSUME NEW d \in Int, NEW time \in 0..(DayTicks - 1)
  PROVE  /\ d * DayTicks \in Int /\ time \in Nat /\ time < DayTicks
         /\ d * DayTicks + time \in Int
         /\ (d * DayTicks + time) \div DayTicks = d
<1>1. d * DayTicks \in Int /\ time \in Nat /\ time < DayTicks /\ DayTicks \in Nat \ {0}
  BY TicksAssumption, SMT
<1>2. d * DayTicks + time \in Int
  BY <1>1, SMT
<1>3. (d * DayTicks + time) \div DayTicks = d
  BY <1>1, <1>2, DayIs, SMT
<1> QED
  BY <1>1, <1>2, <1>3

(* The same time of two days.                                               *)
LEMMA TimesApart ==
  ASSUME NEW d \in Int, NEW e \in Int, NEW time \in 0..(DayTicks - 1)
  PROVE  /\ d < e => d * DayTicks + time + DayTicks <= e * DayTicks + time
         /\ d * DayTicks + time < e * DayTicks + time => d < e
<1>1. /\ d * DayTicks \in Int /\ e * DayTicks \in Int /\ time \in Nat
      /\ DayTicks \in Nat \ {0}
  BY TimeOfDay, TicksAssumption
<1>2. d < e => d * DayTicks + DayTicks <= e * DayTicks
  BY <1>1, DaysApart
<1>3. e < d => e * DayTicks + DayTicks <= d * DayTicks
  BY <1>1, DaysApart
<1> QED
  BY <1>1, <1>2, <1>3, SMT

---------------------------------------------------------------------------
(* Local times                                                              *)

At(w, f) == [wall |-> w, fold |-> f]

(* What is changed at once is less than two days' worth, on one of them.    *)
LEMMA ZoneFacts ==
  ASSUME NEW z \in Zones
  PROVE  /\ z.at \in Nat /\ z.change \in Int
         /\ z.change <= DayTicks /\ -DayTicks <= z.change
         /\ z.change < 0 => (z.at + z.change) \div DayTicks = (z.at - 1) \div DayTicks
<1>1. PICK s \in Scenes : z = s.zone
  BY DEF Zones
<1>2. z.at \in Nat /\ z.change \in Int /\ DayTicks \in Nat \ {0}
  BY <1>1, SettingsAssumption, TicksAssumption
<1>3. \/ z.change = 0
      \/ z.change < 0 /\ (z.at + z.change) \div DayTicks = (z.at - 1) \div DayTicks
      \/ z.change > 0 /\ z.at \div DayTicks = (z.at + z.change - 1) \div DayTicks
  BY <1>1, <1>2, ChangeAssumption
<1>4. ASSUME NEW v \in Int, NEW w \in Int, v \div DayTicks = w \div DayTicks
      PROVE  w - v < DayTicks
  BY <1>2, <1>4, DayBounds, SMT
<1>5. CASE z.change < 0 /\ (z.at + z.change) \div DayTicks = (z.at - 1) \div DayTicks
  <2>1. (z.at - 1) - (z.at + z.change) < DayTicks
    BY <1>2, <1>4, <1>5
  <2> QED
    BY <1>2, <1>5, <2>1
<1>6. CASE z.change > 0 /\ z.at \div DayTicks = (z.at + z.change - 1) \div DayTicks
  <2>1. z.at \in Int /\ z.at + z.change - 1 \in Int
    BY <1>2
  <2>2. (z.at + z.change - 1) - z.at < DayTicks
    BY <2>1, <1>4, <1>6
  <2> QED
    BY <1>2, <1>6, <2>1, <2>2
<1> QED
  BY <1>2, <1>3, <1>5, <1>6

(* A local time, before and after the change of the offset.                 *)
LEMMA LocalIs ==
  ASSUME NEW z \in Zones, NEW t \in Nat
  PROVE  /\ LocalTime(z, t) = At(LocalTime(z, t).wall, LocalTime(z, t).fold)
         /\ LocalTime(z, t).wall \in Int /\ LocalTime(z, t).fold \in {0, 1}
         /\ t < z.at => LocalTime(z, t).wall = t /\ LocalTime(z, t).fold = 0
         /\ ~(t < z.at) => /\ LocalTime(z, t).wall = t + z.change
                           /\ LocalTime(z, t).fold = 1 <=> t + z.change < z.at
  BY ZoneFacts DEF LocalTime, At

(* By its local time an instant is on its own day or one next to it.        *)
LEMMA LocalDay ==
  ASSUME NEW z \in Zones, NEW t \in Instants
  PROVE  Day(LocalTime(z, t)) \in Days /\ Day(LocalTime(z, t)) \in Int
<1>1. t \in Nat /\ DayTicks \in Nat \ {0}
  BY SettingsAssumption, TicksAssumption
<1>2. /\ LocalTime(z, t).wall \in Int
      /\ LocalTime(z, t).wall <= t + DayTicks /\ t <= LocalTime(z, t).wall + DayTicks
  BY <1>1, LocalIs, ZoneFacts
<1>3. Day(LocalTime(z, t)) \in ((t \div DayTicks) - 1)..((t \div DayTicks) + 1)
  BY <1>1, <1>2, DaysNear DEF Day
<1>4. t \div DayTicks \in Int
  BY <1>1, DayBounds
<1> QED
  BY <1>3, <1>4 DEF Days

(* The instant of a local time, on either side of the change.               *)
LEMMA TimestampIs ==
  ASSUME NEW z \in Zones, NEW w \in Int, NEW f \in {0, 1}
  PROVE  /\ Timestamp(z, At(w, f)) \in {w, w - z.change}
         /\ z.change < 0 /\ f = 0 =>
              Timestamp(z, At(w, f)) = IF w < z.at THEN w ELSE w - z.change
         /\ z.change < 0 /\ f = 1 =>
              Timestamp(z, At(w, f)) = IF w < z.at + z.change THEN w ELSE w - z.change
         /\ z.change > 0 /\ f = 0 =>
              Timestamp(z, At(w, f)) = IF w < z.at + z.change THEN w ELSE w - z.change
<1>1. z.at \in Nat /\ z.change \in Int
  BY ZoneFacts
<1> QED
  BY <1>1 DEF Timestamp, At

LEMMA TimestampType ==
  ASSUME NEW z \in Zones, NEW w \in Int, NEW f \in {0, 1}
  PROVE  /\ Timestamp(z, At(w, f)) \in Int
         /\ Timestamp(z, At(w, f)) <= w + DayTicks /\ w <= Timestamp(z, At(w, f)) + DayTicks
  BY TimestampIs, ZoneFacts, TicksAssumption

(* Local times a day apart are read as instants in the same order.          *)
LEMMA DayApart ==
  ASSUME NEW z \in Zones, NEW v \in Int, NEW w \in Int, v + DayTicks <= w
  PROVE  Timestamp(z, At(v, 0)) <= Timestamp(z, At(w, 0))
<1>1. /\ z.at \in Int /\ z.change \in Int /\ DayTicks \in Nat
      /\ z.change <= DayTicks /\ -DayTicks <= z.change
  BY ZoneFacts, TicksAssumption
<1>2. /\ Timestamp(z, At(v, 0)) \in {v, v - z.change}
      /\ Timestamp(z, At(w, 0)) \in {w, w - z.change}
  BY TimestampIs
<1>3. CASE z.change <= 0
  <2>1. /\ Timestamp(z, At(v, 0)) \in Int /\ Timestamp(z, At(v, 0)) <= v - z.change
        /\ Timestamp(z, At(w, 0)) \in Int /\ w <= Timestamp(z, At(w, 0))
    BY <1>1, <1>2, <1>3
  <2> QED
    BY <1>1, <2>1
<1>4. CASE z.change > 0
  <2>1. /\ Timestamp(z, At(v, 0)) \in Int /\ Timestamp(z, At(v, 0)) <= v
        /\ Timestamp(z, At(w, 0)) \in Int /\ w - z.change <= Timestamp(z, At(w, 0))
    BY <1>1, <1>2, <1>4
  <2> QED
    BY <1>1, <2>1
<1> QED
  BY <1>1, <1>3, <1>4

(* A time of day is read as an instant not past that of a later day.        *)
LEMMA EarlierDay ==
  ASSUME NEW z \in Zones, NEW d \in Int, NEW e \in Int, d <= e,
         NEW time \in 0..(DayTicks - 1)
  PROVE  Timestamp(z, At(d * DayTicks + time, 0)) <= Timestamp(z, At(e * DayTicks + time, 0))
<1>1. d * DayTicks + time \in Int /\ e * DayTicks + time \in Int
  BY TimeOfDay
<1>2. CASE d = e
  BY <1>1, <1>2, TimestampType
<1>3. CASE d < e
  BY <1>1, <1>3, TimesApart, DayApart
<1> QED
  BY <1>2, <1>3

(* A slot that is ahead is not passed over for a later time, also when the  *)
(* clock is in the second pass through a repeated hour and takes the target *)
(* to be in the same.                                                       *)
LEMMA TargetNotLate ==
  ASSUME NEW z \in Zones, NEW t \in Nat, NEW d \in Int, NEW e \in Int, d <= e,
         NEW time \in 0..(DayTicks - 1), NEW f \in {0, LocalTime(z, t).fold},
         d * DayTicks + time > LocalTime(z, t).wall,
         Timestamp(z, At(e * DayTicks + time, 0)) > t
  PROVE  Timestamp(z, At(d * DayTicks + time, f)) <= Timestamp(z, At(e * DayTicks + time, 0))
<1>1. CASE f = 0
  BY <1>1, EarlierDay
<1>2. CASE f = 1 /\ LocalTime(z, t).fold = 1
  <2> DEFINE v == d * DayTicks + time
             w == e * DayTicks + time
  <2>1. v \in Int /\ w \in Int /\ v <= w
    BY TimeOfDay, TimesApart
  <2>2. z.change < 0 /\ ~(t < z.at) /\ LocalTime(z, t).wall = t + z.change
    BY <1>2, LocalIs, ZoneFacts
  <2>3. v > t + z.change /\ Timestamp(z, At(w, 0)) > t
    BY <2>2
  <2> HIDE DEF v, w
  <2>4. Timestamp(z, At(v, 1)) <= Timestamp(z, At(w, 0))
    BY <2>1, <2>2, <2>3, TimestampIs, ZoneFacts
  <2> QED
    BY <1>2, <2>4 DEF v, w
<1> QED
  BY <1>1, <1>2, LocalIs

(* The instant of a target that is ahead by the local clock is ahead and is *)
(* the one a slot at that time stands for, unless it is computed in the     *)
(* repeated hour for a time of that hour.                                   *)
LEMMA TargetIsAhead ==
  ASSUME NEW z \in Zones, NEW t \in Nat, NEW w \in Int, NEW f \in {0, LocalTime(z, t).fold},
         w > LocalTime(z, t).wall,
         InRepeat(z, t) => Timestamp(z, At(w, f)) >= z.at - z.change
  PROVE  /\ Timestamp(z, At(w, f)) > t
         /\ Timestamp(z, At(w, f)) = Timestamp(z, At(w, 0))
<1>1. z.at \in Nat /\ z.change \in Int /\ LocalTime(z, t).wall \in Int
      /\ LocalTime(z, t).fold \in {0, 1}
  BY ZoneFacts, LocalIs
<1>2. CASE LocalTime(z, t).fold = 0
  <2>1. f = 0
    BY <1>2
  <2>2. Timestamp(z, At(w, 0)) > t
    BY <1>1, <1>2, TimestampIs, LocalIs
  <2> QED
    BY <2>1, <2>2
<1>3. CASE LocalTime(z, t).fold = 1
  <2>1. z.change < 0 /\ ~(t < z.at) /\ LocalTime(z, t).wall = t + z.change
        /\ t + z.change < z.at
    BY <1>1, <1>3, LocalIs
  <2>2. Timestamp(z, At(w, f)) >= z.at - z.change
    BY <1>3 DEF InRepeat
  <2>3. CASE f = 1
    <3>1. Timestamp(z, At(w, 1)) = w - z.change
      BY <1>1, <2>1, TimestampIs
    <3>2. Timestamp(z, At(w, 0)) = w - z.change
      BY <1>1, <2>1, <2>2, <2>3, <3>1, TimestampIs
    <3> QED
      BY <1>1, <2>1, <2>3, <3>1, <3>2
  <2>4. CASE f = 0
    <3>1. Timestamp(z, At(w, 0)) \in Int
      BY <1>1, TimestampIs
    <3> QED
      BY <1>1, <2>1, <2>2, <2>4, <3>1
  <2> QED
    BY <1>3, <2>3, <2>4
<1> QED
  BY <1>1, <1>2, <1>3

---------------------------------------------------------------------------
(* The next run of each mode                                                *)

(* The next run is read from a scheduled time that the local clock still    *)
(* has ahead; in the weekly modes, as if it were the first of two.          *)
IsNextRun(c, z, t, n) ==
  \E d \in Int, f \in {0, LocalTime(z, t).fold} :
    /\ n = Timestamp(z, At(d * DayTicks + c.time, f))
    /\ ScheduledDay(c, d)
    /\ d * DayTicks + c.time > LocalTime(z, t).wall

(* No slot that is ahead comes before it.                                   *)
ReachedFirst(c, z, t, n) ==
  \A e \in Days :
    /\ ScheduledDay(c, e)
    /\ e * DayTicks + c.time > LocalTime(z, t).wall
    /\ Timestamp(z, At(e * DayTicks + c.time, 0)) > t
    => n <= Timestamp(z, At(e * DayTicks + c.time, 0))

LEMMA DaysAreInt == Days \subseteq Int
<1> SUFFICES ASSUME NEW t \in Instants
             PROVE  ((t \div DayTicks) - 1)..((t \div DayTicks) + 1) \subseteq Int
  BY DEF Days
<1> QED
  BY SettingsAssumption, TicksAssumption, DayBounds

(* The least element of a set that has one.                                 *)
LEMMA MinIs ==
  ASSUME NEW S, NEW x \in S, \A y \in S : x <= y
  PROVE  Min(S) \in S /\ \A y \in S : Min(S) <= y
  BY Zenon DEF Min

(* A day whose time is still ahead is today or later; later than a day      *)
(* whose time is behind.                                                    *)
LEMMA AheadOf ==
  ASSUME NEW w \in Int, NEW e \in Int, NEW time \in 0..(DayTicks - 1),
         e * DayTicks + time > w
  PROVE  /\ w \div DayTicks \in Int /\ w \div DayTicks <= e
         /\ (w \div DayTicks) * DayTicks + time <= w => w \div DayTicks < e
<1>1. /\ e * DayTicks \in Int /\ e * DayTicks + time \in Int
      /\ (e * DayTicks + time) \div DayTicks = e
      /\ DayTicks \in Nat \ {0}
  BY TimeOfDay, TicksAssumption
<1>2. w \div DayTicks \in Int
  BY <1>1, DayBounds
<1>3. w \div DayTicks <= e
  <2>1. w <= e * DayTicks + time
    BY <1>1
  <2> QED
    BY <1>1, <2>1, DaysFollow
<1>4. w \div DayTicks = e => ~((w \div DayTicks) * DayTicks + time <= w)
  BY <1>1
<1> QED
  BY <1>2, <1>3, <1>4

(* Any time of a later day is ahead.                                        *)
LEMMA LaterDay ==
  ASSUME NEW w \in Int, NEW e \in Int, w \div DayTicks < e,
         NEW time \in 0..(DayTicks - 1)
  PROVE  e * DayTicks + time > w
<1>1. /\ DayTicks \in Nat \ {0} /\ time \in Nat /\ w \div DayTicks \in Int
      /\ w < (w \div DayTicks) * DayTicks + DayTicks
  BY TicksAssumption, DayBounds
<1>2. /\ (w \div DayTicks) * DayTicks \in Int /\ e * DayTicks \in Int
      /\ (w \div DayTicks) * DayTicks + DayTicks <= e * DayTicks
  BY <1>1, DaysApart
<1> QED
  BY <1>1, <1>2

(* What datetime.replace and the addition of days make of a local time.     *)
LEMMA LocalShape ==
  ASSUME NEW z \in Zones, NEW t \in Nat, NEW d \in Int, NEW time \in 0..(DayTicks - 1)
  PROVE  /\ Replace(LocalTime(z, t), d, time) = At(d * DayTicks + time, LocalTime(z, t).fold)
         /\ \A k \in Int : Add(At(d * DayTicks + time, LocalTime(z, t).fold), k)
                             = At((d + k) * DayTicks + time, 0)
<1>1. Replace(LocalTime(z, t), d, time) = At(d * DayTicks + time, LocalTime(z, t).fold)
  BY LocalIs DEF Replace, At
<1>2. ASSUME NEW k \in Int
      PROVE  Add(At(d * DayTicks + time, LocalTime(z, t).fold), k) = At((d + k) * DayTicks + time, 0)
  <2>1. /\ DayTicks \in Int /\ time \in Int
        /\ d * DayTicks \in Int /\ k * DayTicks \in Int /\ (d + k) * DayTicks \in Int
    BY TicksAssumption, SMT
  <2>2. (d + k) * DayTicks = d * DayTicks + k * DayTicks
    BY <2>1, SMT
  <2>3. d * DayTicks + time + k * DayTicks = (d + k) * DayTicks + time
    BY <2>1, <2>2
  <2> QED
    BY <2>3 DEF Add, At
<1> QED
  BY <1>1, <1>2

(* Each mode computes the instant of the first scheduled time ahead.        *)
LEMMA DailyRun ==
  ASSUME NEW c, c.mode = "daily", c.time \in 0..(DayTicks - 1),
         NEW z \in Zones, NEW t \in Instants
  PROVE  /\ IsNextRun(c, z, t, NextDaily(z, LocalTime(z, t), c.time))
         /\ ReachedFirst(c, z, t, NextDaily(z, LocalTime(z, t), c.time))
<1> DEFINE n == Day(LocalTime(z, t))
           wall == LocalTime(z, t).wall
           fold == LocalTime(z, t).fold
<1>1. /\ t \in Nat /\ wall \in Int /\ fold \in {0, 1} /\ n \in Int
      /\ n = wall \div DayTicks
  BY SettingsAssumption, LocalIs, LocalDay DEF Day
<1>2. PICK d \in {n, n + 1}, f \in {0, fold} :
        /\ NextDaily(z, LocalTime(z, t), c.time) = Timestamp(z, At(d * DayTicks + c.time, f))
        /\ d = n => n * DayTicks + c.time > wall
        /\ d = n + 1 => n * DayTicks + c.time <= wall
  <2>1. /\ Replace(LocalTime(z, t), n, c.time) = At(n * DayTicks + c.time, fold)
        /\ Add(At(n * DayTicks + c.time, fold), 1) = At((n + 1) * DayTicks + c.time, 0)
        /\ n * DayTicks + c.time \in Int
    <3>1. /\ n \in Int /\ t \in Nat /\ 1 \in Int
      BY <1>1
    <3> HIDE DEF n
    <3>2. n * DayTicks + c.time \in Int
      BY <3>1, TimeOfDay
    <3>3. /\ Replace(LocalTime(z, t), n, c.time) = At(n * DayTicks + c.time, LocalTime(z, t).fold)
          /\ \A k \in Int : Add(At(n * DayTicks + c.time, LocalTime(z, t).fold), k)
                             = At((n + k) * DayTicks + c.time, 0)
      BY <3>1, LocalShape, Zenon
    <3> QED
      BY <3>1, <3>2, <3>3, Zenon
  <2>2. At(n * DayTicks + c.time, fold).wall = n * DayTicks + c.time
    BY DEF At
  <2>3. NextDaily(z, LocalTime(z, t), c.time) =
          Timestamp(z, IF n * DayTicks + c.time <= wall
                       THEN At((n + 1) * DayTicks + c.time, 0)
                       ELSE At(n * DayTicks + c.time, fold))
    BY <2>1, <2>2, Zenon DEF NextDaily
  <2>4. CASE n * DayTicks + c.time <= wall
    BY <1>1, <2>3, <2>4
  <2>5. CASE ~(n * DayTicks + c.time <= wall)
    <3>1. n * DayTicks + c.time > wall
      BY <1>1, <2>1, <2>5
    <3> QED
      BY <1>1, <2>3, <2>5, <3>1
  <2> QED
    BY <2>4, <2>5
<1>3. /\ d \in Int /\ d * DayTicks + c.time \in Int
      /\ d * DayTicks + c.time > wall
  <2>1. d \in Int /\ n * DayTicks \in Int /\ c.time \in Int
    BY <1>1, TimeOfDay
  <2>2. CASE d = n
    BY <1>2, <2>1, <2>2
  <2>3. CASE d = n + 1
    <3>1. wall \div DayTicks < d
      BY <1>1, <2>1, <2>3
    <3>2. d * DayTicks + c.time > wall
      BY <1>1, <2>1, <3>1, LaterDay
    <3> QED
      BY <1>1, <2>1, <2>3, <3>2, TimeOfDay
  <2> QED
    BY <2>2, <2>3
<1>4. IsNextRun(c, z, t, NextDaily(z, LocalTime(z, t), c.time))
  BY <1>2, <1>3 DEF IsNextRun, ScheduledDay
<1>5. ASSUME NEW e \in Days, e * DayTicks + c.time > wall,
             Timestamp(z, At(e * DayTicks + c.time, 0)) > t
      PROVE  Timestamp(z, At(d * DayTicks + c.time, f)) <= Timestamp(z, At(e * DayTicks + c.time, 0))
  <2>1. e \in Int
    BY DaysAreInt
  <2>2. n <= e /\ (n * DayTicks + c.time <= wall => n < e)
    BY <1>1, <1>5, <2>1, AheadOf
  <2>3. d <= e
    BY <1>1, <1>2, <2>1, <2>2
  <2> QED
    BY <1>1, <1>2, <1>3, <1>5, <2>1, <2>3, TargetNotLate
<1> QED
  BY <1>2, <1>4, <1>5, Zenon DEF ReachedFirst

---------------------------------------------------------------------------
(* The days of a weekday are seven apart.                                   *)
LEMMA WeekdayAhead ==
  ASSUME NEW n \in Int, NEW wd \in 0..6
  PROVE  \E a \in 0..6 :
           /\ a = (wd - Weekday(n)) % 7
           /\ Weekday(n + a) = wd /\ Weekday(n + a + 7) = wd
           /\ \A e \in Int : Weekday(e) = wd =>
                /\ n <= e => n + a <= e
                /\ n + a < e => n + a + 7 <= e
<1>1. PICK a \in 0..6 : a = (wd - Weekday(n)) % 7
  BY SMT DEF Weekday
<1>2. Weekday(n + a) = wd /\ Weekday(n + a + 7) = wd
  BY <1>1, SMT DEF Weekday
<1>3. ASSUME NEW e \in Int, Weekday(e) = wd
      PROVE  (n <= e => n + a <= e) /\ (n + a < e => n + a + 7 <= e)
  BY <1>2, <1>3, SMT DEF Weekday
<1> QED
  BY <1>1, <1>2, <1>3

LEMMA WeeklyRun ==
  ASSUME NEW z \in Zones, NEW t \in Instants, NEW wd \in 0..6,
         NEW time \in 0..(DayTicks - 1)
  PROVE  \E d \in Int :
           /\ NextWeekly(z, LocalTime(z, t), wd, time) = Timestamp(z, At(d * DayTicks + time, 0))
           /\ Weekday(d) = wd
           /\ d * DayTicks + time > LocalTime(z, t).wall
           /\ \A e \in Int : /\ Weekday(e) = wd
                             /\ e * DayTicks + time > LocalTime(z, t).wall
                             => d <= e
<1>1. PICK n \in Int, wall \in Int, fold \in {0, 1} :
        /\ n = Day(LocalTime(z, t)) /\ n = wall \div DayTicks
        /\ wall = LocalTime(z, t).wall /\ fold = LocalTime(z, t).fold
        /\ LocalTime(z, t) = At(wall, fold)
  BY SettingsAssumption, LocalIs, LocalDay DEF Day
<1>2. PICK a \in 0..6 :
        /\ a = (wd - Weekday(n)) % 7
        /\ Weekday(n + a) = wd /\ Weekday(n + a + 7) = wd
        /\ \A e \in Int : Weekday(e) = wd =>
             /\ n <= e => n + a <= e
             /\ n + a < e => n + a + 7 <= e
  BY WeekdayAhead
<1>3. /\ n + a \in Int /\ n + a + 7 \in Int /\ 7 \in Int
      /\ (n + a) * DayTicks + time \in Int /\ DayTicks \in Nat \ {0} /\ time \in Nat
  <2>1. n + a \in Int /\ n + a + 7 \in Int /\ DayTicks \in Nat \ {0} /\ time \in Nat
    BY TicksAssumption
  <2> QED
    BY <2>1, TimeOfDay
<1>4. /\ Replace(Add(LocalTime(z, t), a), n + a, time) = At((n + a) * DayTicks + time, 0)
      /\ At((n + a) * DayTicks + time, 0).wall = (n + a) * DayTicks + time
      /\ Add(At((n + a) * DayTicks + time, 0), 7) = At((n + a + 7) * DayTicks + time, 0)
  <2>1. (n + a) * DayTicks + time + 7 * DayTicks = (n + a + 7) * DayTicks + time
    <3>1. /\ DayTicks \in Int /\ time \in Int /\ n + a \in Int
          /\ (n + a) * DayTicks \in Int /\ 7 * DayTicks \in Int
          /\ (n + a + 7) * DayTicks \in Int
      BY <1>3, SMT
    <3>2. (n + a + 7) * DayTicks = (n + a) * DayTicks + 7 * DayTicks
      BY <3>1, SMT
    <3> QED
      BY <3>1, <3>2
  <2>2. Replace(Add(At(wall, fold), a), n + a, time) = At((n + a) * DayTicks + time, 0)
    BY DEF Replace, Add, At
  <2>3. Add(At((n + a) * DayTicks + time, 0), 7) = At((n + a + 7) * DayTicks + time, 0)
    BY <2>1, Zenon DEF Add, At
  <2>4. At((n + a) * DayTicks + time, 0).wall = (n + a) * DayTicks + time
    BY DEF At
  <2> QED
    BY <1>1, <2>2, <2>3, <2>4, Zenon
<1>5. NextWeekly(z, LocalTime(z, t), wd, time) =
        Timestamp(z, IF (n + a) * DayTicks + time <= wall
                     THEN At((n + a + 7) * DayTicks + time, 0)
                     ELSE At((n + a) * DayTicks + time, 0))
  BY <1>1, <1>2, <1>4, Zenon DEF NextWeekly
<1>6. CASE (n + a) * DayTicks + time <= wall
  <2>1. (n + a + 7) * DayTicks + time > wall
    <3>1. wall \div DayTicks < n + a + 7
      BY <1>1, <1>3
    <3> QED
      BY <1>3, <3>1, LaterDay
  <2>2. ASSUME NEW e \in Int, Weekday(e) = wd, e * DayTicks + time > wall
        PROVE  n + a + 7 <= e
    <3>1. e > n + a
      <4>1. (n + a) * DayTicks + time < e * DayTicks + time
        <5>1. e * DayTicks + time \in Int
          BY TimeOfDay
        <5> QED
          BY <1>3, <1>6, <2>2, <5>1
      <4> QED
        BY <1>3, <4>1, TimesApart
    <3> QED
      BY <1>2, <1>3, <2>2, <3>1
  <2>3. NextWeekly(z, LocalTime(z, t), wd, time)
          = Timestamp(z, At((n + a + 7) * DayTicks + time, 0))
    BY <1>5, <1>6, Zenon
  <2> QED
    BY <1>1, <1>2, <1>3, <2>1, <2>2, <2>3, Zenon
<1>7. CASE ~((n + a) * DayTicks + time <= wall)
  <2>1. (n + a) * DayTicks + time > wall
    BY <1>3, <1>7
  <2>2. ASSUME NEW e \in Int, Weekday(e) = wd, e * DayTicks + time > wall
        PROVE  n + a <= e
    <3>1. n <= e
      BY <1>1, <2>2, AheadOf
    <3> QED
      BY <1>2, <2>2, <3>1
  <2>3. NextWeekly(z, LocalTime(z, t), wd, time)
          = Timestamp(z, At((n + a) * DayTicks + time, 0))
    BY <1>5, <1>7, Zenon
  <2> QED
    BY <1>1, <1>2, <1>3, <2>1, <2>2, <2>3, Zenon
<1> QED
  BY <1>6, <1>7

(* A set of one or two.                                                     *)
LEMMA OneOrTwo ==
  ASSUME NEW S, IsFiniteSet(S), Cardinality(S) \in {1, 2}
  PROVE  \E a \in S, b \in S : S = {a, b}
<1>1. PICK a \in S : TRUE
  <2>1. S # {}
    BY FS_EmptySet
  <2> QED
    BY <2>1
<1>2. IsFiniteSet(S \ {a}) /\ Cardinality(S \ {a}) = Cardinality(S) - 1
  BY <1>1, FS_RemoveElement
<1>3. CASE Cardinality(S) = 1
  <2>1. S \ {a} = {}
    BY <1>2, <1>3, FS_EmptySet
  <2> QED
    BY <1>1, <2>1
<1>4. CASE Cardinality(S) = 2
  <2>1. S \ {a} # {}
    BY <1>2, <1>4, FS_EmptySet
  <2>2. PICK b \in S \ {a} : TRUE
    BY <2>1
  <2>3. IsFiniteSet((S \ {a}) \ {b}) /\ Cardinality((S \ {a}) \ {b}) = Cardinality(S \ {a}) - 1
    BY <1>2, <2>2, FS_RemoveElement
  <2>4. (S \ {a}) \ {b} = {}
    <3>1. Cardinality((S \ {a}) \ {b}) = 0
      BY <1>2, <1>4, <2>3
    <3> QED
      BY <2>3, <3>1, FS_EmptySet
  <2> QED
    BY <1>1, <2>2, <2>4
<1> QED
  BY <1>3, <1>4

LEMMA TwiceWeeklyRun ==
  ASSUME NEW c, c.mode \in {"weekly", "twice_weekly"}, c.time \in 0..(DayTicks - 1),
         c.weekdays \subseteq 0..6, Cardinality(c.weekdays) \in {1, 2},
         NEW z \in Zones, NEW t \in Instants
  PROVE  /\ IsNextRun(c, z, t, NextTwiceWeekly(z, LocalTime(z, t), c.weekdays, c.time))
         /\ ReachedFirst(c, z, t, NextTwiceWeekly(z, LocalTime(z, t), c.weekdays, c.time))
<1> DEFINE F(wd) == NextWeekly(z, LocalTime(z, t), wd, c.time)
           S == {F(wd) : wd \in c.weekdays}
<1>1. \A wd \in c.weekdays : \E d \in Int :
        /\ F(wd) = Timestamp(z, At(d * DayTicks + c.time, 0))
        /\ Weekday(d) = wd
        /\ d * DayTicks + c.time > LocalTime(z, t).wall
        /\ \A e \in Int : /\ Weekday(e) = wd
                          /\ e * DayTicks + c.time > LocalTime(z, t).wall
                          => d <= e
  BY WeeklyRun, Zenon
<1>2. \A wd \in c.weekdays : F(wd) \in Int
  <2> SUFFICES ASSUME NEW wd \in c.weekdays PROVE F(wd) \in Int
    OBVIOUS
  <2>1. PICK d \in Int : F(wd) = Timestamp(z, At(d * DayTicks + c.time, 0))
    BY <1>1
  <2>2. d * DayTicks + c.time \in Int
    BY TimeOfDay
  <2> QED
    BY <2>1, <2>2, TimestampType
<1>3. PICK a \in c.weekdays, b \in c.weekdays : c.weekdays = {a, b}
  <2>1. IsFiniteSet(c.weekdays)
    <3>1. IsFiniteSet(0..6)
      <4>1. 0 \in Int /\ 6 \in Int
        OBVIOUS
      <4> QED
        BY <4>1, FS_Interval, Zenon
    <3> QED
      BY <3>1, FS_Subset, Zenon
  <2> QED
    BY <2>1, OneOrTwo
<1> HIDE DEF F
<1>4. \E x \in S : \A y \in S : x <= y
  <2>1. CASE F(a) <= F(b)
    BY <1>2, <1>3, <2>1
  <2>2. CASE F(b) <= F(a)
    BY <1>2, <1>3, <2>2
  <2>3. F(a) \in Int /\ F(b) \in Int
    BY <1>2
  <2> QED
    BY <2>1, <2>2, <2>3
<1>5. Min(S) \in S /\ \A y \in S : Min(S) <= y
  BY <1>4, MinIs
<1>6. NextTwiceWeekly(z, LocalTime(z, t), c.weekdays, c.time) = Min(S)
  BY Zenon DEF NextTwiceWeekly, F
<1>7. IsNextRun(c, z, t, Min(S))
  <2>1. PICK wd \in c.weekdays : Min(S) = F(wd)
    BY <1>5
  <2>2. PICK d \in Int :
          /\ F(wd) = Timestamp(z, At(d * DayTicks + c.time, 0))
          /\ Weekday(d) = wd
          /\ d * DayTicks + c.time > LocalTime(z, t).wall
    BY <1>1
  <2> QED
    BY <2>1, <2>2 DEF IsNextRun, ScheduledDay
<1>8. ASSUME NEW e \in Days, ScheduledDay(c, e),
             e * DayTicks + c.time > LocalTime(z, t).wall
      PROVE  Min(S) <= Timestamp(z, At(e * DayTicks + c.time, 0))
  <2>1. e \in Int /\ Weekday(e) \in c.weekdays
    BY <1>8, DaysAreInt DEF ScheduledDay
  <2>2. PICK d \in Int :
          /\ F(Weekday(e)) = Timestamp(z, At(d * DayTicks + c.time, 0))
          /\ d <= e
    BY <1>1, <1>8, <2>1
  <2>3. /\ Min(S) <= F(Weekday(e)) /\ Min(S) \in Int /\ F(Weekday(e)) \in Int
    BY <1>2, <1>5, <2>1
  <2>4. F(Weekday(e)) <= Timestamp(z, At(e * DayTicks + c.time, 0))
    BY <2>1, <2>2, EarlierDay
  <2>5. Timestamp(z, At(e * DayTicks + c.time, 0)) \in Int
    <3>1. e * DayTicks + c.time \in Int
      BY <2>1, TimeOfDay
    <3> QED
      BY <3>1, TimestampType
  <2> QED
    BY <2>3, <2>4, <2>5
<1> QED
  BY <1>6, <1>7, <1>8, Zenon DEF ReachedFirst

---------------------------------------------------------------------------
(* The months                                                               *)

LEMMA MonthTypes ==
  /\ Len(MonthStarts) \in Nat
  /\ \A m \in 1..Len(MonthStarts) : MonthStarts[m] \in Int
  /\ \A m, n \in 1..Len(MonthStarts) : m < n => MonthStarts[m] < MonthStarts[n]
  /\ \A m \in 1..(Len(MonthStarts) - 1) :
       /\ m \in 1..Len(MonthStarts) /\ m + 1 \in 1..Len(MonthStarts)
       /\ MonthStarts[m + 1] - MonthStarts[m] \in 28..31
<1>1. Len(MonthStarts) \in Nat /\ \A m \in 1..Len(MonthStarts) : MonthStarts[m] \in Nat
  BY MonthsAssumption
<1> QED
  BY <1>1, MonthsAssumption

(* A day is in one month.                                                   *)
LEMMA MonthIs ==
  ASSUME NEW day \in Int, NEW m \in 1..(Len(MonthStarts) - 1),
         MonthStarts[m] <= day, day < MonthStarts[m + 1]
  PROVE  Month(day) = m
<1>1. ASSUME NEW k \in 1..(Len(MonthStarts) - 1),
             MonthStarts[k] <= day, day < MonthStarts[k + 1]
      PROVE  k = m
  <2>1. /\ k \in 1..Len(MonthStarts) /\ k + 1 \in 1..Len(MonthStarts)
        /\ m \in 1..Len(MonthStarts) /\ m + 1 \in 1..Len(MonthStarts)
    BY MonthTypes
  <2>2. CASE k < m
    <3>1. k + 1 = m \/ MonthStarts[k + 1] < MonthStarts[m]
      BY <2>1, <2>2, MonthTypes
    <3> QED
      BY <1>1, <2>1, <3>1, MonthTypes
  <2>3. CASE m < k
    <3>1. m + 1 = k \/ MonthStarts[m + 1] < MonthStarts[k]
      BY <2>1, <2>3, MonthTypes
    <3> QED
      BY <1>1, <2>1, <3>1, MonthTypes
  <2> QED
    BY <2>1, <2>2, <2>3
<1>2. /\ Month(day) \in 1..(Len(MonthStarts) - 1)
      /\ MonthStarts[Month(day)] <= day /\ day < MonthStarts[Month(day) + 1]
  BY Zenon DEF Month
<1> QED
  BY <1>1, <1>2

(* The month of a day that a local calendar may show.                       *)
LEMMA MonthOf ==
  ASSUME NEW day \in Days
  PROVE  /\ day \in Int
         /\ Month(day) \in 1..(Len(MonthStarts) - 3)
         /\ MonthStarts[Month(day)] <= day /\ day < MonthStarts[Month(day) + 1]
<1>1. day \in Int
  BY DaysAreInt
<1>2. PICK m \in 1..(Len(MonthStarts) - 3) : MonthStarts[m] <= day /\ day < MonthStarts[m + 1]
  BY CalendarAssumption
<1>3. m \in 1..(Len(MonthStarts) - 1)
  BY MonthTypes
<1>4. Month(day) = m
  BY <1>1, <1>2, <1>3, MonthIs
<1> QED
  BY <1>1, <1>2, <1>4

(* The day of a weekday is in its month.                                    *)
LEMMA MonthlyDayInMonth ==
  ASSUME NEW m \in 1..(Len(MonthStarts) - 1), NEW wd \in 0..6, NEW week \in Weeks
  PROVE  /\ MonthlyDay(m, wd, week) \in Int
         /\ MonthStarts[m] <= MonthlyDay(m, wd, week)
         /\ MonthlyDay(m, wd, week) < MonthStarts[m + 1]
<1>1. /\ MonthStarts[m] \in Int /\ MonthStarts[m + 1] \in Int
      /\ MonthStarts[m + 1] - MonthStarts[m] \in 28..31
  BY MonthsAssumption
<1>2. PICK first \in Int, last \in Int :
        /\ first = MonthStarts[m] /\ last = MonthStarts[m + 1] - 1
  BY <1>1
<1>3. PICK x \in 0..6, y \in 0..6 : x = (last - wd) % 7 /\ y = (wd - first) % 7
  BY SMT
<1>length. last - first >= 27
  BY <1>1, <1>2
<1>4. CASE week = -1
  <2>1. MonthlyDay(m, wd, week) = last - x
    BY <1>2, <1>3, <1>4, Zenon DEF MonthlyDay
  <2>2. last - x \in Int /\ first <= last - x /\ last - x < last + 1
    BY <1>length
  <2> QED
    BY <1>1, <1>2, <2>1, <2>2
<1>5. CASE week \in 1..4
  <2>1. MonthlyDay(m, wd, week) = first + y + 7 * (week - 1)
    <3>1. week # -1
      BY <1>5
    <3> QED
      BY <1>2, <1>3, <3>1, Zenon DEF MonthlyDay
  <2>2. /\ first + y + 7 * (week - 1) \in Int
        /\ first <= first + y + 7 * (week - 1) /\ first + y + 7 * (week - 1) < last + 1
    BY <1>5, <1>length
  <2> QED
    BY <1>1, <1>2, <2>1, <2>2
<1> QED
  BY <1>4, <1>5 DEF Weeks

(* Two days of one weekday are a week apart or are one.                      *)
LEMMA SameWeekday ==
  ASSUME NEW a \in Int, NEW b \in Int, a % 7 = b % 7, a - b < 7, b - a < 7
  PROVE  a = b
<1>1. PICK q \in Int, r \in Int, x \in 0..6 : a = 7 * q + x /\ b = 7 * r + x
  <2>1. /\ a \div 7 \in Int /\ b \div 7 \in Int /\ a % 7 \in 0..6
        /\ a = 7 * (a \div 7) + (a % 7) /\ b = 7 * (b \div 7) + (b % 7)
    BY SMT
  <2> QED
    BY <2>1, Zenon
<1> QED
  BY <1>1

(* The last day of a weekday before a day.                                  *)
LEMMA WeekdayBefore ==
  ASSUME NEW last \in Int, NEW wd \in 0..6, NEW x \in 0..6, x = (last - wd) % 7
  PROVE  (last - x) % 7 = wd
<1>1. PICK q \in Int : last - wd = 7 * q + x
  <2>1. (last - wd) \div 7 \in Int /\ last - wd = 7 * ((last - wd) \div 7) + x
    BY SMT
  <2> QED
    BY <2>1, Zenon
<1>2. last - x = 7 * q + wd
  BY <1>1
<1> QED
  BY <1>2, SMT

(* The first day of a weekday from a day on, and the same some weeks later. *)
LEMMA WeekdayAfter ==
  ASSUME NEW first \in Int, NEW wd \in 0..6, NEW y \in 0..6, y = (wd - first) % 7,
         NEW k \in Int
  PROVE  (first + y + 7 * k) % 7 = wd
<1>1. PICK q \in Int : wd - first = 7 * q + y
  <2>1. (wd - first) \div 7 \in Int /\ wd - first = 7 * ((wd - first) \div 7) + y
    BY SMT
  <2> QED
    BY <2>1, Zenon
<1>2. first + y + 7 * k = 7 * (k - q) + wd /\ k - q \in Int
  BY <1>1
<1> QED
  BY <1>2, SMT

(* get_monthly_weekday_day gives the day of a month that is the n-th, or    *)
(* the last, of its weekday there, and only this day is.                    *)
THEOREM MonthlyDayIsNth ==
  ASSUME NEW m \in 1..(Len(MonthStarts) - 1), NEW wd \in 0..6, NEW week \in Weeks,
         NEW day \in Int, MonthStarts[m] <= day, day < MonthStarts[m + 1]
  PROVE  day = MonthlyDay(m, wd, week) <=> Weekday(day) = wd /\ InWeek(day, m, week)
<1>1. PICK first \in Int, last \in Int :
        /\ first = MonthStarts[m] /\ last = MonthStarts[m + 1] - 1
        /\ MonthStarts[m + 1] = last + 1
  <2>1. MonthStarts[m] \in Int /\ MonthStarts[m + 1] \in Int
    BY MonthsAssumption
  <2>2. MonthStarts[m + 1] = (MonthStarts[m + 1] - 1) + 1 /\ MonthStarts[m + 1] - 1 \in Int
    BY <2>1
  <2> QED
    BY <2>1, <2>2, Zenon
<1>2. PICK x \in 0..6, y \in 0..6 : x = (last - wd) % 7 /\ y = (wd - first) % 7
  BY SMT
<1>3. first <= day /\ day <= last
  BY <1>1
<1>4. CASE week = -1
  <2>1. /\ MonthlyDay(m, wd, week) = last - x
        /\ InWeek(day, m, week) <=> last + 1 - day <= 7
    <3>1. MonthlyDay(m, wd, week) = last - x
      BY <1>1, <1>2, <1>4, Zenon DEF MonthlyDay
    <3>2. InWeek(day, m, week) <=> last + 1 - day <= 7
      BY <1>1, <1>4 DEF InWeek
    <3> QED
      BY <3>1, <3>2
  <2>2. (last - x) % 7 = wd
    BY <1>2, WeekdayBefore
  <2>3. day = last - x => last + 1 - day <= 7
    OBVIOUS
  <2>4. ASSUME day % 7 = wd, last + 1 - day <= 7
        PROVE  day = last - x
    <3>1. day - (last - x) < 7 /\ (last - x) - day < 7 /\ last - x \in Int
      BY <1>3, <2>4
    <3> QED
      BY <2>2, <2>4, <3>1, SameWeekday
  <2> QED
    BY <2>1, <2>2, <2>3, <2>4, Zenon DEF Weekday
<1>5. CASE week \in 1..4
  <2>1. /\ MonthlyDay(m, wd, week) = first + y + 7 * (week - 1)
        /\ InWeek(day, m, week) <=> (day - first) \div 7 = week - 1
    <3>1. week # -1
      BY <1>5
    <3> QED
      BY <1>1, <1>2, <3>1, Zenon DEF MonthlyDay, InWeek
  <2>2. week - 1 \in Int
    BY <1>5
  <2>3. (first + y + 7 * (week - 1)) % 7 = wd
    <3>1. \A k \in Int : (first + y + 7 * k) % 7 = wd
      <4>1. y = (wd - first) % 7
        BY <1>2
      <4> QED
        BY <4>1, WeekdayAfter, Zenon
    <3> QED
      BY <2>2, <3>1, Zenon
  <2>4. day = first + y + 7 * (week - 1) => (day - first) \div 7 = week - 1
    BY <1>5
  <2>5. ASSUME day % 7 = wd, (day - first) \div 7 = week - 1
        PROVE  day = first + y + 7 * (week - 1)
    <3>1. 7 * (week - 1) <= day - first /\ day - first < 7 * (week - 1) + 7
      BY <2>5, <2>2
    <3>2. /\ first + y + 7 * (week - 1) \in Int
          /\ day - (first + y + 7 * (week - 1)) < 7
          /\ (first + y + 7 * (week - 1)) - day < 7
      BY <2>2, <3>1
    <3> QED
      BY <2>3, <2>5, <3>2, SameWeekday
  <2> QED
    BY <2>1, <2>3, <2>4, <2>5, Zenon DEF Weekday
<1> QED
  BY <1>4, <1>5 DEF Weeks

(* The days of later months are later.                                      *)
LEMMA MonthlyDaysFollow ==
  ASSUME NEW k \in 1..(Len(MonthStarts) - 1), NEW m \in 1..(Len(MonthStarts) - 1),
         NEW day \in Int, NEW wd \in 0..6, NEW week \in Weeks
  PROVE  /\ k < m /\ day < MonthStarts[k + 1] => day < MonthlyDay(m, wd, week)
         /\ k < m /\ MonthStarts[m] <= day => MonthlyDay(k, wd, week) < day
<1>1. /\ k + 1 \in 1..Len(MonthStarts) /\ m + 1 \in 1..Len(MonthStarts)
      /\ k \in 1..Len(MonthStarts) /\ m \in 1..Len(MonthStarts)
      /\ \A i \in 1..Len(MonthStarts) : MonthStarts[i] \in Int
  BY MonthsAssumption
<1>2. k < m => MonthStarts[k + 1] <= MonthStarts[m]
  <2>1. k < m => k + 1 = m \/ MonthStarts[k + 1] < MonthStarts[m]
    BY <1>1, MonthsAssumption
  <2> QED
    BY <1>1, <2>1
<1>3. /\ MonthlyDay(m, wd, week) \in Int
      /\ MonthStarts[m] <= MonthlyDay(m, wd, week)
      /\ MonthlyDay(m, wd, week) < MonthStarts[m + 1]
      /\ MonthlyDay(k, wd, week) \in Int
      /\ MonthlyDay(k, wd, week) < MonthStarts[k + 1]
  BY MonthlyDayInMonth
<1> QED
  BY <1>1, <1>2, <1>3

(* A day that is before the end of a month is in it or in an earlier one.   *)
LEMMA MonthReached ==
  ASSUME NEW k \in 1..(Len(MonthStarts) - 1), NEW m \in 1..(Len(MonthStarts) - 1),
         NEW day \in Int, MonthStarts[k] <= day, day < MonthStarts[m + 1]
  PROVE  k <= m
<1>1. m < k => m + 1 = k \/ MonthStarts[m + 1] < MonthStarts[k]
  BY MonthTypes
<1> QED
  BY <1>1, MonthTypes

LEMMA MonthlyRun ==
  ASSUME NEW c, c.mode = "monthly", c.time \in 0..(DayTicks - 1),
         NEW wd \in 0..6, c.weekdays = {wd}, c.week \in Weeks,
         NEW z \in Zones, NEW t \in Instants
  PROVE  /\ IsNextRun(c, z, t, NextMonthly(z, LocalTime(z, t), wd, c.week, c.time))
         /\ ReachedFirst(c, z, t, NextMonthly(z, LocalTime(z, t), wd, c.week, c.time))
<1>1. PICK n \in Int, wall \in Int, fold \in {0, 1} :
        /\ n = Day(LocalTime(z, t)) /\ n = wall \div DayTicks /\ n \in Days
        /\ wall = LocalTime(z, t).wall /\ fold = LocalTime(z, t).fold
        /\ LocalTime(z, t) = At(wall, fold)
  BY SettingsAssumption, LocalIs, LocalDay DEF Day
<1>2. PICK m \in 1..(Len(MonthStarts) - 3) :
        m = Month(n) /\ MonthStarts[m] <= n /\ n < MonthStarts[m + 1]
  BY <1>1, MonthOf
<1> DEFINE D(o) == MonthlyDay(m + o, wd, c.week)
           T(o) == D(o) * DayTicks + c.time
           ahead == {o \in 0..2 : T(o) > wall}
<1>3. \A o \in 0..2 : m + o \in 1..(Len(MonthStarts) - 1)
  BY MonthsAssumption
<1>4. \A o \in 0..2 : D(o) \in Int /\ T(o) \in Int
  BY <1>3, MonthlyDayInMonth, TimeOfDay
<1>5. \A o \in 0..2 : Replace(LocalTime(z, t), D(o), c.time) = At(T(o), fold)
  BY <1>1 DEF Replace, At
<1>6. 1 \in ahead
  <2>1. n < D(1)
    <3>1. m \in 1..(Len(MonthStarts) - 1) /\ m + 1 \in 1..(Len(MonthStarts) - 1) /\ m < m + 1
      BY MonthTypes
    <3>2. D(1) = MonthlyDay(m + 1, wd, c.week)
      OBVIOUS
    <3> QED
      BY <1>1, <1>2, <3>1, <3>2, MonthlyDaysFollow
  <2>2. T(1) > wall
    <3>1. D(1) \in Int /\ wall \div DayTicks < D(1)
      BY <1>1, <1>4, <2>1
    <3> HIDE DEF D
    <3> QED
      BY <3>1, LaterDay
  <2>3. 1 \in 0..2
    OBVIOUS
  <2> QED
    BY <2>2, <2>3, Zenon
<1>7. Min(ahead) \in ahead /\ \A o \in ahead : Min(ahead) <= o
  <2>1. ahead \subseteq 0..2
    OBVIOUS
  <2> HIDE DEF ahead
  <2>2. \E x \in ahead : \A y \in ahead : x <= y
    <3>1. CASE 0 \in ahead
      BY <2>1, <3>1
    <3>2. CASE 0 \notin ahead
      BY <2>1, <1>6, <3>2
    <3> QED
      BY <3>1, <3>2
  <2> QED
    BY <2>2, MinIs
<1>8. PICK o \in 0..2 : o = Min(ahead) /\ T(o) > wall /\ o <= 1
  BY <1>6, <1>7
<1>9. NextMonthly(z, LocalTime(z, t), wd, c.week, c.time) = Timestamp(z, At(T(o), fold))
  <2>1. ahead = {p \in 0..2 :
                   Replace(LocalTime(z, t),
                           MonthlyDay(Month(Day(LocalTime(z, t))) + p, wd, c.week),
                           c.time).wall > LocalTime(z, t).wall}
    <3>1. \A p \in 0..2 : At(T(p), fold).wall = T(p)
      BY DEF At
    <3> QED
      BY <1>1, <1>2, <1>5, <3>1, Zenon
  <2>2. ahead # {}
    BY <1>6
  <2>3. NextMonthly(z, LocalTime(z, t), wd, c.week, c.time)
          = Timestamp(z, Replace(LocalTime(z, t), D(Min(ahead)), c.time))
    <3> HIDE DEF ahead
    <3> QED
      BY <1>1, <1>2, <2>1, <2>2, Zenon DEF NextMonthly
  <2> QED
    BY <1>5, <1>8, <2>3, Zenon
<1>10. IsNextRun(c, z, t, Timestamp(z, At(T(o), fold)))
  <2>1. ScheduledDay(c, D(o))
    <3>1. m + o \in 1..(Len(MonthStarts) - 1) /\ D(o) \in Int
      BY <1>3, <1>4
    <3>2. MonthStarts[m + o] <= D(o) /\ D(o) < MonthStarts[m + o + 1]
      BY <3>1, MonthlyDayInMonth
    <3>3. Month(D(o)) = m + o
      <4> HIDE DEF D
      <4> QED
        BY <3>1, <3>2, MonthIs
    <3>4. Weekday(D(o)) = wd /\ InWeek(D(o), Month(D(o)), c.week)
      BY <3>1, <3>2, <3>3, MonthlyDayIsNth
    <3> QED
      BY <3>4 DEF ScheduledDay
  <2> QED
    BY <1>1, <1>4, <1>8, <2>1 DEF IsNextRun
<1>11. ASSUME NEW e \in Days, ScheduledDay(c, e), e * DayTicks + c.time > wall,
              Timestamp(z, At(e * DayTicks + c.time, 0)) > t
       PROVE  Timestamp(z, At(T(o), fold)) <= Timestamp(z, At(e * DayTicks + c.time, 0))
  <2>1. /\ e \in Int /\ Month(e) \in 1..(Len(MonthStarts) - 3)
        /\ MonthStarts[Month(e)] <= e /\ e < MonthStarts[Month(e) + 1]
    BY MonthOf
  <2>2. e = MonthlyDay(Month(e), wd, c.week)
    <3>1. Weekday(e) = wd /\ InWeek(e, Month(e), c.week)
      BY <1>11 DEF ScheduledDay
    <3>2. Month(e) \in 1..(Len(MonthStarts) - 1)
      BY <2>1, MonthTypes
    <3> QED
      BY <2>1, <3>1, <3>2, MonthlyDayIsNth
  <2>3. n <= e
    BY <1>1, <1>11, <2>1, AheadOf
  <2>4. m \in 1..(Len(MonthStarts) - 1) /\ Month(e) \in 1..(Len(MonthStarts) - 1)
    BY <2>1, MonthTypes
  <2>5. m <= Month(e)
    <3>1. MonthStarts[m] \in Int /\ MonthStarts[m] <= e
      BY <1>1, <1>2, <2>1, <2>3, <2>4, MonthTypes
    <3> QED
      BY <2>1, <2>4, <3>1, MonthReached
  <2>6. m + o <= Month(e)
    <3>1. CASE m = Month(e)
      <4>1. T(0) = e * DayTicks + c.time
        <5>1. D(0) = MonthlyDay(m, wd, c.week)
          OBVIOUS
        <5> QED
          BY <2>2, <3>1, <5>1, Zenon
      <4>2. 0 \in ahead
        <5>1. 0 \in 0..2
          OBVIOUS
        <5> QED
          BY <1>11, <4>1, <5>1, Zenon
      <4>3. o <= 0
        BY <1>7, <1>8, <4>2
      <4> QED
        BY <3>1, <4>3
    <3>2. CASE m < Month(e)
      BY <1>8, <2>1, <3>2
    <3> QED
      BY <2>1, <2>5, <3>1, <3>2
  <2>7. D(o) <= e
    <3>1. m + o \in 1..(Len(MonthStarts) - 1)
      BY <1>3
    <3>2. CASE m + o = Month(e)
      <4>1. D(o) = e
        BY <2>2, <3>2, Zenon
      <4> QED
        BY <2>1, <4>1
    <3>3. CASE m + o < Month(e)
      <4>1. MonthlyDay(m + o, wd, c.week) < e
        BY <2>1, <2>4, <3>1, <3>3, MonthlyDaysFollow
      <4>2. D(o) \in Int
        BY <1>4
      <4> QED
        BY <2>1, <4>1, <4>2
    <3> QED
      BY <2>1, <2>6, <3>1, <3>2, <3>3
  <2>8. D(o) \in Int /\ t \in Nat /\ fold \in {0, LocalTime(z, t).fold}
        /\ T(o) > LocalTime(z, t).wall
    BY <1>1, <1>4, <1>8, SettingsAssumption
  <2> HIDE DEF D
  <2> QED
    BY <1>11, <2>1, <2>7, <2>8, TargetNotLate
<1> QED
  BY <1>1, <1>9, <1>10, <1>11, Zenon DEF ReachedFirst

---------------------------------------------------------------------------
(* The tables                                                               *)

(* What validation leaves of the settings of a calendar mode.               *)
LEMMA CalendarSettings ==
  ASSUME NEW c \in CalendarConfigs
  PROVE  /\ c.mode \in {"daily", "weekly", "twice_weekly", "monthly"}
         /\ c.time # NoTime => c.time \in 0..(DayTicks - 1)
         /\ c.mode \in {"daily", "monthly"} => c.time # NoTime
         /\ c.mode \in {"weekly", "twice_weekly", "monthly"} =>
              /\ c.weekdays \subseteq 0..6 /\ IsFiniteSet(c.weekdays)
              /\ Cardinality(c.weekdays) \in {1, 2}
         /\ c.mode = "monthly" => Cardinality(c.weekdays) = 1 /\ c.week \in Weeks
<1>1. /\ c \in Settings /\ Validated(c) /\ c.mode # "interval"
  BY SettingsAssumption DEF CalendarConfigs
<1>2. /\ c.mode \in Modes /\ c.time \in 0..(DayTicks - 1) \cup {NoTime}
      /\ c.weekdays \in (SUBSET (0..6)) \cup {NoDays}
  BY <1>1 DEF Settings
<1>3. ASSUME c.weekdays # NoDays
      PROVE  c.weekdays \subseteq 0..6 /\ IsFiniteSet(c.weekdays)
  <2>1. IsFiniteSet(0..6)
    <3>1. 0 \in Int /\ 6 \in Int
      OBVIOUS
    <3> QED
      BY <3>1, FS_Interval, Zenon
  <2>2. c.weekdays \in SUBSET (0..6)
    BY <1>2, <1>3, Zenon
  <2>3. c.weekdays \subseteq 0..6
    BY <2>2, Zenon
  <2> QED
    BY <2>1, <2>3, FS_Subset, Zenon
<1> QED
  BY <1>1, <1>2, <1>3 DEF Validated, Modes

LEMMA TableIs ==
  /\ \A c \in CalendarConfigs, z \in Zones, t \in Instants :
       NextRun[c][z][t] = CalendarNextRun(c, z, t)
  /\ \A c \in CalendarConfigs, z \in Zones : SlotTimes[c][z] = SlotsOf(c, z, Days)
  BY Zenon DEF NextRun, SlotTimes

(* get_next_run_epoch, in every calendar mode: the next run is a scheduled  *)
(* time ahead of the local clock, and no slot that is ahead comes before it.*)
THEOREM NextRunIsFirstSlot ==
  ASSUME NEW c \in CalendarConfigs, NEW z \in Zones, NEW t \in Instants, c.time # NoTime
  PROVE  IsNextRun(c, z, t, NextRun[c][z][t]) /\ ReachedFirst(c, z, t, NextRun[c][z][t])
<1>1. c.time \in 0..(DayTicks - 1)
  BY CalendarSettings
<1>2. NextRun[c][z][t] = CalendarNextRun(c, z, t)
  BY TableIs
<1>3. CASE c.mode = "daily"
  <2>1. CalendarNextRun(c, z, t) = NextDaily(z, LocalTime(z, t), c.time)
    BY <1>3 DEF CalendarNextRun
  <2> QED
    BY <1>1, <1>2, <1>3, <2>1, DailyRun
<1>4. CASE c.mode \in {"weekly", "twice_weekly"}
  <2>1. CalendarNextRun(c, z, t) = NextTwiceWeekly(z, LocalTime(z, t), c.weekdays, c.time)
    BY <1>4 DEF CalendarNextRun
  <2>2. c.weekdays \subseteq 0..6 /\ Cardinality(c.weekdays) \in {1, 2}
    BY <1>4, CalendarSettings
  <2> QED
    BY <1>1, <1>2, <1>4, <2>1, <2>2, TwiceWeeklyRun
<1>5. CASE c.mode = "monthly"
  <2>1. /\ c.weekdays \subseteq 0..6 /\ c.week \in Weeks
        /\ IsFiniteSet(c.weekdays) /\ Cardinality(c.weekdays) = 1
    BY <1>5, CalendarSettings
  <2>2. PICK wd \in c.weekdays : c.weekdays = {wd}
    <3>1. PICK wd : c.weekdays = {wd}
      BY <2>1, FS_Singleton
    <3> QED
      BY <3>1
  <2>3. (CHOOSE w \in c.weekdays : TRUE) = wd /\ wd \in 0..6
    BY <2>1, <2>2
  <2>4. CalendarNextRun(c, z, t) = NextMonthly(z, LocalTime(z, t), wd, c.week, c.time)
    BY <1>5, <2>3 DEF CalendarNextRun
  <2> QED
    BY <1>1, <1>2, <1>5, <2>1, <2>2, <2>3, <2>4, MonthlyRun
<1> QED
  BY <1>3, <1>4, <1>5, CalendarSettings

LEMMA NextRunType ==
  ASSUME NEW c \in CalendarConfigs, NEW z \in Zones, NEW t \in Instants
  PROVE  NextRun[c][z][t] \in Int
<1>1. CASE c.time = NoTime
  <2>1. NextRun[c][z][t] = Timestamp(z, LocalTime(z, t))
    BY <1>1, TableIs DEF CalendarNextRun
  <2>2. t \in Nat
    BY SettingsAssumption
  <2> QED
    BY <2>1, <2>2, LocalIs, TimestampType
<1>2. CASE c.time # NoTime
  <2>1. PICK d \in Int, f \in {0, LocalTime(z, t).fold} :
          NextRun[c][z][t] = Timestamp(z, At(d * DayTicks + c.time, f))
    BY <1>2, NextRunIsFirstSlot DEF IsNextRun
  <2>2. d * DayTicks + c.time \in Int /\ f \in {0, 1}
    BY <1>2, CalendarSettings, TimeOfDay, SettingsAssumption, LocalIs
  <2> QED
    BY <2>1, <2>2, TimestampType
<1> QED
  BY <1>1, <1>2

(* No slot that is ahead of the local clock comes before the next run.      *)
LEMMA NextRunNotLate ==
  ASSUME NEW c \in CalendarConfigs, NEW z \in Zones, NEW t \in Instants,
         NEW s \in SlotTimes[c][z], s.at > t, LocalTime(z, t).wall < s.wall
  PROVE  NextRun[c][z][t] <= s.at
<1>1. PICK d \in Days :
        /\ c.time # NoTime /\ ScheduledDay(c, d)
        /\ s = [wall |-> d * DayTicks + c.time,
                at   |-> Timestamp(z, [wall |-> d * DayTicks + c.time, fold |-> 0])]
  BY TableIs DEF SlotsOf
<1>2. /\ s.wall = d * DayTicks + c.time
      /\ s.at = Timestamp(z, At(d * DayTicks + c.time, 0))
  BY <1>1 DEF At
<1>3. d \in Int /\ d * DayTicks + c.time \in Int /\ LocalTime(z, t).wall \in Int
  BY <1>1, DaysAreInt, CalendarSettings, TimeOfDay, SettingsAssumption, LocalIs
<1>4. d * DayTicks + c.time > LocalTime(z, t).wall
  BY <1>2, <1>3
<1> QED
  BY <1>1, <1>2, <1>4, NextRunIsFirstSlot DEF ReachedFirst

(* A next run that has come is a slot, unless it was computed in the        *)
(* repeated hour for a time of that hour.                                   *)
LEMMA NextRunJustified ==
  ASSUME NEW c \in CalendarConfigs, NEW z \in Zones, NEW t \in Instants, c.time # NoTime,
         InRepeat(z, t) => NextRun[c][z][t] >= z.at - z.change,
         NEW n \in Instants, t..n \subseteq Instants, NextRun[c][z][t] <= n
  PROVE  \E s \in SlotTimes[c][z] : s.at \in (t + 1)..n
<1> DEFINE u == NextRun[c][z][t]
<1>1. PICK d \in Int, f \in {0, LocalTime(z, t).fold} :
        /\ u = Timestamp(z, At(d * DayTicks + c.time, f))
        /\ ScheduledDay(c, d)
        /\ d * DayTicks + c.time > LocalTime(z, t).wall
  BY NextRunIsFirstSlot DEF IsNextRun
<1>2. PICK w \in Int : w = d * DayTicks + c.time /\ w \div DayTicks = d
  BY CalendarSettings, TimeOfDay
<1>3. /\ t \in Nat /\ n \in Nat /\ f \in {0, 1} /\ LocalTime(z, t).fold \in {0, 1}
  BY SettingsAssumption, LocalIs
<1>4. u > t /\ u = Timestamp(z, At(w, 0))
  BY <1>1, <1>2, <1>3, TargetIsAhead
<1>5. u \in Int /\ u <= w + DayTicks /\ w <= u + DayTicks
  BY <1>1, <1>2, <1>3, TimestampType
<1>6. u \in (t + 1)..n /\ u \in Instants
  BY <1>3, <1>4, <1>5
<1>7. d \in Days
  <2>1. d \in ((u \div DayTicks) - 1)..((u \div DayTicks) + 1)
    <3>1. DayTicks \in Nat \ {0}
      BY TicksAssumption
    <3> HIDE DEF u
    <3> QED
      BY <1>2, <1>5, <3>1, DaysNear
  <2> QED
    BY <1>6, <2>1 DEF Days
<1> DEFINE s == [wall |-> d * DayTicks + c.time,
                 at   |-> Timestamp(z, [wall |-> d * DayTicks + c.time, fold |-> 0])]
<1>8. s \in SlotTimes[c][z]
  BY <1>1, <1>7, TableIs DEF SlotsOf
<1>9. s.at = u
  BY <1>2, <1>4 DEF At
<1> QED
  BY <1>6, <1>8, <1>9, Zenon

---------------------------------------------------------------------------
(* The inductive invariant                                                  *)

(* The settings are those of the container.                                 *)
SettingsInv == config \in Configs /\ zone \in Zones

(* While the process runs, the next run is the one computed from `settled', *)
(* and the clock has been observed all the way from there.                  *)
NextRunInv ==
  Running =>
    IF Calendar
    THEN /\ settled \in Instants /\ settled <= now /\ settled..now \subseteq Instants
         /\ next_run = NextRun[config][zone][settled]
    ELSE settled # Never => next_run = settled + config.interval

(* A turn that goes on has a run that is due, or a request.                 *)
DecisionInv ==
  pc = "recompute" =>
    /\ now_epoch \in Instants /\ now_epoch <= now
    /\ backup_requested \/ now_epoch >= next_run

LoopInv == TypeOK /\ SettingsInv /\ NextRunInv /\ DecisionInv

LEMMA SettingsOf ==
  ASSUME TypeOK, SettingsInv
  PROVE  /\ Calendar => config \in CalendarConfigs
         /\ config.interval \in Int
         /\ now \in Int /\ (now_epoch \in Instants => now_epoch \in Int)
  BY SettingsAssumption DEF TypeOK, SettingsInv, Calendar, CalendarConfigs, Settings

(* What get_next_run_epoch returns.                                         *)
LEMMA GetNextRunIs ==
  ASSUME TypeOK, SettingsInv
  PROVE  /\ Calendar => \A e : /\ GetNextRun(e, now) = NextRun[config][zone][now]
                               /\ GetNextRun(e, now) \in Int
         /\ ~Calendar => \A e \in Int : /\ GetNextRun(e, now) = e + config.interval
                                        /\ GetNextRun(e, now) \in Int
<1>1. now \in Instants /\ zone \in Zones
  BY DEF TypeOK, SettingsInv
<1>2. CASE Calendar
  BY <1>1, <1>2, SettingsOf, NextRunType DEF GetNextRun
<1>3. CASE ~Calendar
  BY <1>3, SettingsOf DEF GetNextRun
<1> QED
  BY <1>2, <1>3

LEMMA JustNow == \A t \in Instants : t <= t /\ t..t \subseteq Instants
<1> SUFFICES ASSUME NEW t \in Instants PROVE t <= t /\ t..t \subseteq Instants
  OBVIOUS
<1>1. t \in Int
  BY SettingsAssumption
<1> QED
  BY <1>1

(* The invariant holds at the start, and every step keeps it.               *)
LEMMA LoopInvInit == Init => LoopInv
<1> SUFFICES ASSUME Init PROVE LoopInv
  OBVIOUS
<1>1. PICK s \in Scenes : now = s.start /\ zone = s.zone
  BY DEF Init
<1>2. /\ now \in Instants /\ zone \in Zones
      /\ zone.at \in Nat /\ zone.change \in Int
  BY <1>1, SettingsAssumption DEF Zones
<1>3. /\ config \in Configs /\ Validated(config) /\ pc = "down" /\ now_epoch = Never
      /\ next_run = Never /\ backup_requested = FALSE /\ settled = Never /\ Never \in Int
  BY DEF Init, Never
<1> QED
  BY <1>2, <1>3 DEF LoopInv, TypeOK, SettingsInv, NextRunInv, DecisionInv, Running

LEMMA LoopInvStep == LoopInv /\ [Next]_vars => LoopInv'
<1> SUFFICES ASSUME LoopInv, [Next]_vars PROVE LoopInv'
  OBVIOUS
<1>1. TypeOK /\ SettingsInv /\ NextRunInv /\ DecisionInv
  BY DEF LoopInv
<1>types. /\ Validated(config) /\ zone.at \in Nat /\ zone.change \in Int
      /\ now \in Instants /\ now_epoch \in Instants \cup {Never}
      /\ next_run \in Int /\ backup_requested \in BOOLEAN /\ settled \in Instants \cup {Never}
      /\ config \in Configs /\ zone \in Zones
  BY <1>1 DEF TypeOK, SettingsInv
<1>2. ASSUME UNCHANGED timeVars
      PROVE  /\ (Validated(config) /\ zone.at \in Nat /\ zone.change \in Int)'
             /\ SettingsInv' /\ (Calendar' <=> Calendar) /\ config' = config /\ zone' = zone
  BY <1>types, <1>2 DEF timeVars, SettingsInv, Calendar
(* A step of the process that leaves the next run, the clock and its        *)
(* reading as they are.                                                     *)
<1>3. ASSUME UNCHANGED <<timeVars, now, next_run, settled, now_epoch>>, pc # "down",
             pc' \in {"loop", "gates", "backup"}, backup_requested' \in BOOLEAN
      PROVE  LoopInv'
  <2>1. TypeOK'
    BY <1>types, <1>2, <1>3 DEF TypeOK
  <2>2. NextRunInv' /\ DecisionInv'
    BY <1>1, <1>2, <1>3 DEF NextRunInv, DecisionInv, Running, Calendar
  <2> QED
    BY <1>2, <1>3, <2>1, <2>2 DEF LoopInv
<1>4. CASE EnterLoop
  <2>1. /\ UNCHANGED <<timeVars, now, now_epoch, backup_requested>> /\ pc' = "loop"
        /\ next_run' = IF Calendar THEN GetNextRun(now, now) ELSE now
        /\ settled' = IF Calendar THEN now ELSE Never
    BY <1>4 DEF EnterLoop
  <2>2. CASE Calendar
    <3>1. next_run' = NextRun[config][zone][now] /\ next_run' \in Int /\ settled' = now
      BY <1>1, <2>1, <2>2, GetNextRunIs
    <3>2. TypeOK'
      BY <1>types, <1>2, <2>1, <3>1 DEF TypeOK
    <3>3. NextRunInv' /\ DecisionInv'
      BY <1>types, <1>2, <2>1, <2>2, <3>1, JustNow DEF NextRunInv, DecisionInv
    <3> QED
      BY <1>2, <2>1, <3>2, <3>3 DEF LoopInv
  <2>3. CASE ~Calendar
    <3>1. next_run' \in Int /\ settled' = Never
      BY <1>1, <2>1, <2>3, SettingsOf
    <3>2. TypeOK'
      BY <1>types, <1>2, <2>1, <3>1 DEF TypeOK
    <3>3. NextRunInv' /\ DecisionInv'
      BY <1>2, <2>1, <2>3, <3>1 DEF NextRunInv, DecisionInv
    <3> QED
      BY <1>2, <2>1, <3>2, <3>3 DEF LoopInv
  <2> QED
    BY <2>2, <2>3
<1>5. CASE Decide
  <2>1. /\ UNCHANGED <<timeVars, now, next_run, backup_requested, settled>> /\ pc = "loop"
        /\ now_epoch' = now
        /\ pc' = IF now >= next_run \/ backup_requested THEN "recompute" ELSE "loop"
    BY <1>5 DEF Decide
  <2>2. TypeOK'
    BY <1>types, <1>2, <2>1 DEF TypeOK
  <2>3. NextRunInv'
    BY <1>1, <1>2, <2>1 DEF NextRunInv, Running, Calendar
  <2>4. DecisionInv'
    BY <1>types, <2>1, JustNow DEF DecisionInv
  <2> QED
    BY <1>2, <2>1, <2>2, <2>3, <2>4 DEF LoopInv
<1>6. CASE Recompute
  <2>1. /\ UNCHANGED <<timeVars, now, backup_requested>> /\ pc = "recompute" /\ pc' = "gates"
        /\ next_run' = GetNextRun(now_epoch, now) /\ now_epoch' = Never
        /\ settled' = IF Calendar THEN now ELSE now_epoch
    BY <1>6 DEF Recompute
  <2>2. now_epoch \in Instants /\ now_epoch \in Int
    BY <1>1, <2>1, SettingsOf DEF DecisionInv
  <2>3. /\ next_run' \in Int /\ settled' \in Instants
        /\ Calendar => next_run' = NextRun[config][zone][now] /\ settled' = now
        /\ ~Calendar => next_run' = now_epoch + config.interval /\ settled' = now_epoch
    BY <1>1, <1>types, <2>1, <2>2, GetNextRunIs
  <2>4. TypeOK'
    BY <1>types, <1>2, <2>1, <2>3 DEF TypeOK
  <2>5. NextRunInv' /\ DecisionInv'
    BY <1>types, <1>2, <2>1, <2>3, JustNow DEF NextRunInv, DecisionInv
  <2> QED
    BY <1>2, <2>1, <2>4, <2>5 DEF LoopInv
<1>7. CASE SkipBackup \/ StartBackup \/ FinishBackup \/ HandleBackup
  BY <1>types, <1>3, <1>7 DEF SkipBackup, StartBackup, FinishBackup, HandleBackup, loopVars
<1>8. CASE Restart
  <2>1. /\ UNCHANGED <<timeVars, now>> /\ pc' = "down" /\ now_epoch' = Never
        /\ next_run' = Never /\ settled' = Never /\ backup_requested' = FALSE /\ Never \in Int
    BY <1>8 DEF Restart, Never
  <2>2. TypeOK'
    BY <1>types, <1>2, <2>1 DEF TypeOK
  <2>3. NextRunInv' /\ DecisionInv'
    BY <2>1 DEF NextRunInv, DecisionInv, Running
  <2> QED
    BY <1>2, <2>1, <2>2, <2>3 DEF LoopInv
<1>9. CASE Tick
  <2>1. /\ UNCHANGED <<timeVars, pc, now_epoch, next_run, backup_requested, settled>>
        /\ now' = now + 1 /\ now' \in Instants
    BY <1>9 DEF Tick, loopVars
  <2>2. TypeOK'
    BY <1>1, <1>types, <1>2, <2>1 DEF TypeOK
  <2>3. now \in Int
    BY <1>1, SettingsOf
  <2>4. NextRunInv'
    <3>1. CASE Running /\ Calendar
      <4>1. /\ settled \in Instants /\ settled <= now /\ settled..now \subseteq Instants
            /\ next_run = NextRun[config][zone][settled]
        BY <1>1, <3>1 DEF NextRunInv
      <4>2. settled \in Int
        BY <4>1, SettingsAssumption
      <4>3. settled <= now' /\ settled..now' \subseteq Instants
        BY <2>1, <2>3, <4>1, <4>2
      <4> QED
        BY <1>2, <2>1, <3>1, <4>1, <4>3 DEF NextRunInv
    <3>2. CASE ~(Running /\ Calendar)
      BY <1>1, <1>2, <2>1, <3>2 DEF NextRunInv, Running
    <3> QED
      BY <3>1, <3>2
  <2>5. DecisionInv'
    <3>1. pc = "recompute" => now_epoch \in Int
      BY <1>1, SettingsOf DEF DecisionInv
    <3> QED
      BY <1>1, <2>1, <2>3, <3>1 DEF DecisionInv
  <2> QED
    BY <1>2, <2>1, <2>2, <2>4, <2>5 DEF LoopInv
<1>10. CASE UNCHANGED vars
  <2>1. UNCHANGED <<config, zone, now, pc, now_epoch, next_run, backup_requested, settled>>
    BY <1>10 DEF vars, timeVars, loopVars
  <2> QED
    BY <1>1, <2>1 DEF LoopInv, TypeOK, SettingsInv, NextRunInv, DecisionInv, Running, Calendar
<1> QED
  BY <1>4, <1>5, <1>6, <1>7, <1>8, <1>9, <1>10 DEF Next, Process

LEMMA LoopInvAlways == Spec => []LoopInv
  BY LoopInvInit, LoopInvStep, PTL DEF Spec

(* Every variable of the loop keeps its type, and the settings stay         *)
(* validated.                                                               *)
THEOREM TypeCorrect == Spec => []TypeOK
<1>1. LoopInv => TypeOK
  BY DEF LoopInv
<1> QED
  BY LoopInvAlways, <1>1, PTL

(* No slot the clock has reached since the next run was computed is passed  *)
(* over for a later one (NoSlotMissed).                                     *)
THEOREM NoSlotIsMissed == Spec => []NoSlotMissed
<1>1. LoopInv => NoSlotMissed
  <2> SUFFICES ASSUME LoopInv, Running, Calendar, NEW s \in Slots(settled, now)
               PROVE  next_run <= s.at
    BY DEF NoSlotMissed
  <2>1. /\ settled \in Instants /\ next_run = NextRun[config][zone][settled]
        /\ config \in CalendarConfigs /\ zone \in Zones /\ now \in Int
    BY SettingsOf DEF LoopInv, NextRunInv, SettingsInv
  <2>2. /\ s \in SlotTimes[config][zone] /\ s.at \in (settled + 1)..now
        /\ LocalTime(zone, settled).wall < s.wall
    BY DEF Slots
  <2>3. s.at > settled
    BY <2>1, <2>2, SettingsAssumption
  <2> QED
    BY <2>1, <2>2, <2>3, NextRunNotLate
<1> QED
  BY LoopInvAlways, <1>1, PTL

(* No backup starts by schedule unless a slot has come, or the interval has *)
(* gone by, since the last turn that went to the gates: but for what is     *)
(* computed in the repeated hour for that hour (StaysPinnedOutsideRepeat).  *)
THEOREM StaysPinned == Spec => StaysPinnedOutsideRepeat
<1>1. LoopInv /\ [Next]_vars =>
        [/\ ScheduledTurn
         /\ Calendar => config.time # NoTime /\ ~ForRepeatedHour
         => Justified]_vars
  <2> SUFFICES ASSUME LoopInv, ScheduledTurn,
                      Calendar => config.time # NoTime /\ ~ForRepeatedHour
               PROVE  Justified
    OBVIOUS
  <2>1. TypeOK /\ SettingsInv /\ NextRunInv /\ DecisionInv
    BY DEF LoopInv
  <2>2. /\ Running /\ now_epoch >= next_run /\ now_epoch <= now
        /\ now_epoch \in Int /\ now \in Int /\ next_run \in Int /\ config.interval \in Int
    BY <2>1, SettingsOf DEF ScheduledTurn, DecisionInv, Running, TypeOK
  <2>3. next_run <= now
    BY <2>2
  <2>4. CASE Calendar
    <3>1. /\ config \in CalendarConfigs /\ zone \in Zones /\ now \in Instants
          /\ settled \in Instants /\ settled..now \subseteq Instants
          /\ next_run = NextRun[config][zone][settled]
      BY <2>1, <2>2, <2>4, SettingsOf DEF NextRunInv, SettingsInv, TypeOK
    <3>2. zone.at \in Int /\ zone.change \in Int
      BY <2>1 DEF TypeOK
    <3>3. InRepeat(zone, settled) => next_run >= zone.at - zone.change
      BY <2>2, <2>4, <3>2 DEF ForRepeatedHour
    <3>4. \E s \in SlotTimes[config][zone] : s.at \in (settled + 1)..now
      BY <2>3, <2>4, <3>1, <3>3, NextRunJustified
    <3> QED
      BY <2>4, <3>4 DEF Justified
  <2>5. CASE ~Calendar
    <3>1. settled = Never \/ next_run = settled + config.interval
      BY <2>1, <2>2, <2>5 DEF NextRunInv
    <3>2. settled \in Int
      BY <2>1, SettingsAssumption DEF TypeOK, Never
    <3> QED
      BY <2>2, <2>3, <2>5, <3>1, <3>2 DEF Justified
  <2> QED
    BY <2>4, <2>5
<1> QED
  BY LoopInvAlways, <1>1, PTL DEF Spec, StaysPinnedOutsideRepeat
=============================================================================
