-------------------------- MODULE DateStamp_proofs --------------------------
(***************************************************************************)
(* What the calendar says of a date, and how far DateStamp is from it.     *)
(***************************************************************************)
EXTENDS DateStamp, TLAPS

Leap(year) == year % 4 = 0 /\ (year % 100 = 0 => year % 400 = 0)
MonthLength(year, month) ==
  IF month = 2 THEN (IF Leap(year) THEN 29 ELSE 28)
  ELSE IF month \in {4, 6, 9, 11} THEN 30 ELSE 31
RealInstant == {i \in Instant : i.day <= MonthLength(i.year, i.month)}

(* The date one day later.                                                 *)
Tomorrow(i) ==
  IF i.day < MonthLength(i.year, i.month) THEN [i EXCEPT !.day = @ + 1]
  ELSE IF i.month < 12 THEN [i EXCEPT !.day = 1, !.month = @ + 1]
  ELSE [i EXCEPT !.day = 1, !.month = 1, !.year = @ + 1]

(* The days since the first of January 1978.                               *)
DayNumber(i) ==
  365 * (i.year - 1978) + (i.year - 1977) \div 4
    + DayAccum[i.month] + (IF Leap(i.year) /\ i.month > 2 THEN 1 ELSE 0) + (i.day - 1)

Earlier(i, j) ==
  \/ DayNumber(i) < DayNumber(j)
  \/ /\ DayNumber(i) = DayNumber(j)
     /\ i.hour * 3600 + i.minute * 60 + i.second < j.hour * 3600 + j.minute * 60 + j.second

(* From March of a leap year to the end of the next year.                  *)
InLateYears(i) == Leap(i.year - 1) \/ (Leap(i.year) /\ i.month > 2)

-----------------------------------------------------------------------------
LEMMA MonthsAre ==
  /\ DayAccum[1] = 0 /\ DayAccum[2] = 31 /\ DayAccum[3] = 59 /\ DayAccum[4] = 90
  /\ DayAccum[5] = 120 /\ DayAccum[6] = 151 /\ DayAccum[7] = 181 /\ DayAccum[8] = 212
  /\ DayAccum[9] = 243 /\ DayAccum[10] = 273 /\ DayAccum[11] = 304 /\ DayAccum[12] = 334
BY DEF DayAccum

LEMMA AccumIs == \A m \in 1..12 : DayAccum[m] \in 0..334
BY MonthsAre

(* No year in question is one of a century that is no leap year.           *)
LEMMA LeapIs == ASSUME NEW y \in 1977..2099 PROVE Leap(y) <=> y % 4 = 0
BY DEF Leap

(* A year and its place between two leap years.                            *)
LEMMA YearIs ==
  ASSUME NEW y \in 1978..2099
  PROVE  \E q \in 0..30, r \in 0..3 :
           /\ y = 1978 + 4 * q + r
           /\ Leap(y) <=> r = 2
           /\ Leap(y - 1) <=> r = 3
           /\ (y - 1977) \div 4 = q + (IF r = 3 THEN 1 ELSE 0)
           /\ YearDays(y - 1978) = 1461 * q + 365 * r
<1> DEFINE q == (y - 1978) \div 4
           r == (y - 1978) % 4
<1>1. q \in 0..30 /\ r \in 0..3 /\ y = 1978 + 4 * q + r
  OBVIOUS
<1>2. (Leap(y) <=> r = 2) /\ (Leap(y - 1) <=> r = 3)
  BY <1>1, LeapIs
<1>3. (y - 1977) \div 4 = q + (IF r = 3 THEN 1 ELSE 0)
  BY <1>1
<1>4. (1461 * (y - 1978)) \div 4 = 1461 * q + 365 * r
  BY <1>1
<1> QED
  BY <1>1, <1>2, <1>3, <1>4 DEF YearDays

(* DayNumber is the calendar's: it begins with the first of January 1978   *)
(* and grows by one from a date to the next.                               *)
THEOREM CalendarIsCounted ==
  ASSUME NEW i \in RealInstant
  PROVE  /\ DayNumber(i) \in Nat
         /\ i.year = 1978 /\ i.month = 1 /\ i.day = 1 => DayNumber(i) = 0
         /\ Tomorrow(i).year <= 2099 => DayNumber(Tomorrow(i)) = DayNumber(i) + 1
<1>1. /\ i.year \in 1978..2099 /\ i.month \in 1..12 /\ i.day \in 1..31
      /\ i.day <= MonthLength(i.year, i.month)
      /\ DOMAIN i = {"year", "month", "day", "hour", "minute", "second"}
  BY DEF RealInstant, Instant
<1>2. PICK q \in 0..30, r \in 0..3 :
        /\ i.year = 1978 + 4 * q + r
        /\ Leap(i.year) <=> r = 2
        /\ (i.year - 1977) \div 4 = q + (IF r = 3 THEN 1 ELSE 0)
  BY <1>1, YearIs
<1>3. DayNumber(i) = 1461 * q + 365 * r + (IF r = 3 THEN 1 ELSE 0)
                       + DayAccum[i.month] + (IF r = 2 /\ i.month > 2 THEN 1 ELSE 0) + (i.day - 1)
  BY <1>1, <1>2, AccumIs DEF DayNumber
<1> DEFINE before == DayAccum[i.month]
<1>a. before \in 0..334
  BY <1>1, AccumIs
<1>4. DayNumber(i) \in Nat
  <2>1. before \in Nat /\ i.day - 1 \in Nat
    BY <1>a, <1>1
  <2> HIDE DEF before
  <2>2. DayNumber(i) = 1461 * q + 365 * r + (IF r = 3 THEN 1 ELSE 0)
                         + before + (IF r = 2 /\ i.month > 2 THEN 1 ELSE 0) + (i.day - 1)
    BY <1>3 DEF before
  <2> QED
    BY <2>1, <2>2
<1>5. i.year = 1978 /\ i.month = 1 /\ i.day = 1 => DayNumber(i) = 0
  BY <1>2, <1>3, MonthsAre
<1>6. ASSUME i.day < MonthLength(i.year, i.month)
      PROVE  DayNumber(Tomorrow(i)) = DayNumber(i) + 1
  <2>1. Tomorrow(i).year = i.year /\ Tomorrow(i).month = i.month /\ Tomorrow(i).day = i.day + 1
    BY <1>1, <1>6 DEF Tomorrow
  <2> QED
    <3> DEFINE base == 365 * (i.year - 1978) + (i.year - 1977) \div 4
                         + before + (IF Leap(i.year) /\ i.month > 2 THEN 1 ELSE 0)
    <3>1. base \in Int
      BY <1>1, <1>2, <1>a
    <3>2. DayNumber(i) = base + (i.day - 1)
      BY DEF DayNumber
    <3>3. DayNumber(Tomorrow(i)) = base + (Tomorrow(i).day - 1)
      BY <2>1 DEF DayNumber
    <3> HIDE DEF base
    <3> QED
      BY <1>1, <2>1, <3>1, <3>2, <3>3
<1>7. ASSUME i.day = MonthLength(i.year, i.month), i.month < 12
      PROVE  DayNumber(Tomorrow(i)) = DayNumber(i) + 1
  <2>1. Tomorrow(i).year = i.year /\ Tomorrow(i).month = i.month + 1 /\ Tomorrow(i).day = 1
    BY <1>1, <1>7 DEF Tomorrow
  <2>2. DayAccum[i.month + 1] = DayAccum[i.month] + (IF i.month = 2 THEN 28
                                  ELSE IF i.month \in {4, 6, 9, 11} THEN 30 ELSE 31)
    BY <1>1, <1>7, MonthsAre
  <2>3. DayAccum[i.month] \in Int
    BY <1>1, AccumIs
  <2> QED
    BY <1>1, <1>2, <1>7, <2>1, <2>2, <2>3 DEF DayNumber, MonthLength
<1>8. ASSUME i.day = MonthLength(i.year, i.month), i.month = 12, i.year < 2099
      PROVE  DayNumber(Tomorrow(i)) = DayNumber(i) + 1
  <2>1. Tomorrow(i).year = i.year + 1 /\ Tomorrow(i).month = 1 /\ Tomorrow(i).day = 1
    BY <1>1, <1>8 DEF Tomorrow
  <2>2. i.day = 31
    BY <1>8 DEF MonthLength
  <2>3. (i.year + 1 - 1977) \div 4 = q + (IF r >= 2 THEN 1 ELSE 0)
    BY <1>2
  <2>4. DayNumber(Tomorrow(i)) = 365 * (i.year + 1 - 1978) + (i.year + 1 - 1977) \div 4
    BY <1>1, <2>1, MonthsAre DEF DayNumber
  <2> QED
    BY <1>2, <1>3, <1>8, <2>2, <2>3, <2>4, MonthsAre
<1>9. i.month = 12 /\ i.day = MonthLength(i.year, i.month) => Tomorrow(i).year = i.year + 1
  BY <1>1 DEF Tomorrow
<1> QED
  BY <1>1, <1>4, <1>5, <1>6, <1>7, <1>8, <1>9 DEF MonthLength

(* How a shown day compares with the true one.                             *)
LEMMA DaysIs ==
  ASSUME NEW i \in Instant
  PROVE  /\ Days(i) \in Nat /\ DayNumber(i) \in Nat
         /\ Days(i) = DayNumber(i) - (IF InLateYears(i) THEN 1 ELSE 0)
<1>1. i.year \in 1978..2099 /\ i.month \in 1..12 /\ i.day \in 1..31
  BY DEF Instant
<1>2. PICK q \in 0..30, r \in 0..3 :
        /\ i.year = 1978 + 4 * q + r
        /\ Leap(i.year) <=> r = 2
        /\ Leap(i.year - 1) <=> r = 3
        /\ (i.year - 1977) \div 4 = q + (IF r = 3 THEN 1 ELSE 0)
        /\ YearDays(i.year - 1978) = 1461 * q + 365 * r
  BY <1>1, YearIs
<1>3. DayAccum[i.month] \in Nat
  <2>1. DayAccum[i.month] \in 0..334
    BY <1>1, AccumIs
  <2> QED
    BY <2>1
<1>4. Days(i) = 1461 * q + 365 * r + DayAccum[i.month] + (i.day - 1)
  BY <1>2 DEF Days
<1>5. DayNumber(i) = 1461 * q + 365 * r + (IF r = 3 THEN 1 ELSE 0) + DayAccum[i.month]
                       + (IF r = 2 /\ i.month > 2 THEN 1 ELSE 0) + (i.day - 1)
  BY <1>1, <1>2, <1>3 DEF DayNumber
<1> QED
  BY <1>1, <1>2, <1>3, <1>4, <1>5 DEF InLateYears

(* __makeDateStamp shows a file on its day, but from the first of March of *)
(* a leap year to the last day of the next on the day before.              *)
THEOREM DayIsShown ==
  ASSUME NEW i \in RealInstant, NEW before
  PROVE  MakeDateStamp(i, before).days = DayNumber(i) - (IF InLateYears(i) THEN 1 ELSE 0)
BY DaysIs DEF MakeDateStamp, Stamp, RealInstant

(* Four years of 1461 days: the late ones begin with day 790, the first of *)
(* March behind the 29th of February.                                      *)
FourYears(i) == (i.year - 1978) \div 4
DayInThem(i) == DayNumber(i) - 1461 * FourYears(i)

LEMMA LateIs ==
  ASSUME NEW i \in RealInstant
  PROVE  /\ FourYears(i) \in 0..30 /\ DayInThem(i) \in 0..1460
         /\ DayNumber(i) = 1461 * FourYears(i) + DayInThem(i)
         /\ InLateYears(i) <=> DayInThem(i) >= 790
         /\ DayInThem(i) = 789 => i.year = 1980 + 4 * FourYears(i) /\ i.month = 2 /\ i.day = 29
         /\ DayInThem(i) = 790 => i.year = 1980 + 4 * FourYears(i) /\ i.month = 3 /\ i.day = 1
<1>1. /\ i.year \in 1978..2099 /\ i.month \in 1..12 /\ i.day \in 1..31
      /\ i.day <= MonthLength(i.year, i.month)
  BY DEF RealInstant, Instant
<1>2. PICK q \in 0..30, r \in 0..3 :
        /\ i.year = 1978 + 4 * q + r
        /\ Leap(i.year) <=> r = 2
        /\ Leap(i.year - 1) <=> r = 3
        /\ (i.year - 1977) \div 4 = q + (IF r = 3 THEN 1 ELSE 0)
  BY <1>1, YearIs
<1> DEFINE inYear == DayAccum[i.month] + (IF r = 2 /\ i.month > 2 THEN 1 ELSE 0) + (i.day - 1)
           x == 365 * r + (IF r = 3 THEN 1 ELSE 0) + inYear
<1>3. /\ inYear \in Int
      /\ 0 <= inYear /\ inYear <= IF r = 2 THEN 365 ELSE 364
      /\ r = 2 => (i.month > 2 <=> inYear >= 60)
      /\ r = 2 /\ inYear = 59 => i.month = 2 /\ i.day = 29
      /\ r = 2 /\ inYear = 60 => i.month = 3 /\ i.day = 1
  <2>1. \/ i.month = 1 \/ i.month = 2 \/ i.month = 3 \/ i.month = 4 \/ i.month = 5 \/ i.month = 6
        \/ i.month = 7 \/ i.month = 8 \/ i.month = 9 \/ i.month = 10 \/ i.month = 11 \/ i.month = 12
    BY <1>1
  <2> QED
    BY <1>1, <1>2, <2>1, MonthsAre DEF MonthLength
<1> HIDE DEF inYear
<1>4. DayNumber(i) = 1461 * q + x
  <2>1. DayAccum[i.month] \in 0..334
    BY <1>1, AccumIs
  <2> QED
    <3> DEFINE late == IF r = 2 /\ i.month > 2 THEN 1 ELSE 0
    <3>1. DayNumber(i) = 365 * (i.year - 1978) + (i.year - 1977) \div 4 + DayAccum[i.month] + late + (i.day - 1)
      BY <1>2 DEF DayNumber
    <3>2. late \in Int /\ inYear = DayAccum[i.month] + late + (i.day - 1)
      BY DEF inYear
    <3>3. 365 * (i.year - 1978) + (i.year - 1977) \div 4 = 1461 * q + 365 * r + (IF r = 3 THEN 1 ELSE 0)
      BY <1>2
    <3>4. DayAccum[i.month] \in Int
      BY <2>1
    <3> HIDE DEF late
    <3> QED
      BY <1>1, <1>2, <1>3, <3>1, <3>2, <3>3, <3>4
<1>5. x \in 0..1460
  BY <1>2, <1>3
<1>6. InLateYears(i) <=> x >= 790
  BY <1>2, <1>3 DEF InLateYears
<1>7. x \in {789, 790} => r = 2 /\ inYear = x - 730
  BY <1>2, <1>3
<1> HIDE DEF x
<1> QED
  <2>1. x = 789 => i.year = 1980 + 4 * q /\ i.month = 2 /\ i.day = 29
    BY <1>2, <1>3, <1>7
  <2>2. x = 790 => i.year = 1980 + 4 * q /\ i.month = 3 /\ i.day = 1
    BY <1>2, <1>3, <1>7
  <2>3. FourYears(i) = q /\ DayInThem(i) = x
    BY <1>2, <1>4, <1>5 DEF FourYears, DayInThem
  <2> QED
    BY <1>2, <1>4, <1>5, <1>6, <2>1, <2>2, <2>3

(* A file that is older than another is shown as older, unless the one is  *)
(* of a 29th of February and the other of the day after (__makeDateStamp,  *)
(* CompareDates): then the hours decide, and may turn the order around.    *)
THEOREM OrderIsKept ==
  ASSUME NEW i \in RealInstant, NEW j \in RealInstant, Earlier(i, j),
         ~(i.month = 2 /\ i.day = 29 /\ j.month = 3 /\ j.day = 1 /\ j.year = i.year)
  PROVE  StampEarlier(Stamp(i), Stamp(j))
<1>1. /\ i.hour \in 0..23 /\ i.minute \in 0..59 /\ i.second \in 0..59
      /\ j.hour \in 0..23 /\ j.minute \in 0..59 /\ j.second \in 0..59
  BY DEF RealInstant, Instant
<1>2. /\ DayNumber(i) \in Nat /\ DayNumber(j) \in Nat
      /\ Days(i) = DayNumber(i) - (IF InLateYears(i) THEN 1 ELSE 0)
      /\ Days(j) = DayNumber(j) - (IF InLateYears(j) THEN 1 ELSE 0)
  BY DaysIs DEF RealInstant
<1> DEFINE q == FourYears(i)
           x == DayInThem(i)
           p == FourYears(j)
           z == DayInThem(j)
<1>3. /\ q \in 0..30 /\ x \in 0..1460 /\ DayNumber(i) = 1461 * q + x
      /\ InLateYears(i) <=> x >= 790
      /\ x = 789 => i.year = 1980 + 4 * q /\ i.month = 2 /\ i.day = 29
  BY LateIs
<1>4. /\ p \in 0..30 /\ z \in 0..1460 /\ DayNumber(j) = 1461 * p + z
      /\ InLateYears(j) <=> z >= 790
      /\ z = 790 => j.year = 1980 + 4 * p /\ j.month = 3 /\ j.day = 1
  BY LateIs
<1> HIDE DEF q, x, p, z
<1>5. CASE DayNumber(i) < DayNumber(j)
  <2>1. ~(x < 790 /\ z >= 790 /\ DayNumber(j) = DayNumber(i) + 1)
    <3> SUFFICES ASSUME x < 790, z >= 790, 1461 * p + z = 1461 * q + x + 1 PROVE FALSE
      BY <1>3, <1>4
    <3>1. p = q /\ x = 789 /\ z = 790
      BY <1>3, <1>4
    <3> QED
      BY <1>3, <1>4, <3>1
  <2>2. Days(i) < Days(j)
    BY <1>2, <1>3, <1>4, <1>5, <2>1
  <2> QED
    BY <2>2 DEF StampEarlier, Stamp
<1>6. CASE DayNumber(i) = DayNumber(j) /\
           i.hour * 3600 + i.minute * 60 + i.second < j.hour * 3600 + j.minute * 60 + j.second
  <2>1. p = q /\ x = z
    <3>1. 1461 * q + x = 1461 * p + z
      BY <1>3, <1>4, <1>6
    <3>2. q \in Int /\ p \in Int /\ x \in Int /\ z \in Int /\ x - z < 1461 /\ z - x < 1461
      BY <1>3, <1>4
    <3>3. ~(q < p) /\ ~(p < q)
      BY <3>1, <3>2
    <3> QED
      BY <3>1, <3>2, <3>3
  <2>2. Days(i) = Days(j)
    BY <1>2, <1>3, <1>4, <1>6, <2>1
  <2> DEFINE a == i.hour * 60 + i.minute
             b == j.hour * 60 + j.minute
  <2>3. a \in Int /\ b \in Int /\ a * 60 + i.second < b * 60 + j.second
    <3>1. /\ i.hour \in Int /\ i.minute \in Int /\ i.second \in Int
          /\ j.hour \in Int /\ j.minute \in Int /\ j.second \in Int
      BY <1>1
    <3>2. ASSUME NEW h \in Int, NEW m \in Int PROVE h * 60 + m \in Int /\ h * 3600 + m * 60 = (h * 60 + m) * 60
      OBVIOUS
    <3>3. a \in Int /\ b \in Int
      BY <3>1, <3>2
    <3>4. i.hour * 3600 + i.minute * 60 = a * 60 /\ j.hour * 3600 + j.minute * 60 = b * 60
      BY <3>1, <3>2
    <3> QED
      BY <1>6, <3>1, <3>3, <3>4
  <2> HIDE DEF a, b
  <2>4. a < b \/ (a = b /\ i.second < j.second)
    BY <1>1, <2>3
  <2> QED
    BY <1>1, <2>2, <2>4 DEF StampEarlier, Stamp, a, b
<1> QED
  BY <1>5, <1>6 DEF Earlier

(* And they do: a file of the evening of 29 February 2024 is shown as      *)
(* newer than one of the next morning (__makeDateStamp).                   *)
THEOREM OrderTurns ==
  \E i, j \in RealInstant : Earlier(i, j) /\ StampEarlier(Stamp(j), Stamp(i))
<1> DEFINE i == [year |-> 2024, month |-> 2, day |-> 29, hour |-> 22, minute |-> 0, second |-> 0]
           j == [year |-> 2024, month |-> 3, day |-> 1, hour |-> 8, minute |-> 0, second |-> 0]
<1>1. Leap(2024)
  BY DEF Leap
<1>2. i \in RealInstant /\ j \in RealInstant
  BY <1>1 DEF RealInstant, Instant, MonthLength
<1>3. DayNumber(j) = DayNumber(i) + 1
  BY <1>1, MonthsAre DEF DayNumber
<1>4. Days(i) = Days(j)
  BY MonthsAre DEF Days, YearDays
<1>5. Earlier(i, j)
  <2>1. DayNumber(i) \in Nat
    BY <1>2, DaysIs DEF RealInstant
  <2> QED
    BY <1>3, <2>1 DEF Earlier
<1>6. StampEarlier(Stamp(j), Stamp(i))
  BY <1>4 DEF StampEarlier, Stamp
<1> QED
  BY <1>2, <1>5, <1>6
=============================================================================
