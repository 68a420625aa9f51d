---------------------------- MODULE AgeProofProofs ----------------------------
(***************************************************************************)
(* The calendar of daystamp.rs is that of chrono in every year but for the *)
(* days that it adds for centuries; none of its assertions ever fails; and *)
(* when an honest proof is refused.                                        *)
(***************************************************************************)
EXTENDS AgeProof, TLAPS

(* is_leap is the Gregorian rule.                                          *)
LEMMA LeapAgrees == \A year \in Nat : is_leap(year) <=> GregorianLeap(year)
  <1> SUFFICES ASSUME NEW year \in Nat
               PROVE  is_leap(year) <=> GregorianLeap(year)
    OBVIOUS
  <1>1. year % 100 = 0 => year % 4 = 0
    OBVIOUS
  <1>2. year % 400 = 0 => year % 100 = 0
    OBVIOUS
  <1> QED BY <1>1, <1>2 DEF is_leap, GregorianLeap

(* The table of month lengths, with its correction, is the calendar's.     *)
LEMMA MonthAgrees ==
  \A year \in Nat, month \in 1..12 :
    /\ MonthLength(year)[month] = days_in_month(year, month)
    /\ days_in_month(year, month) \in 28..31
  <1> SUFFICES ASSUME NEW year \in Nat, NEW month \in 1..12
               PROVE  /\ MonthLength(year)[month] = days_in_month(year, month)
                      /\ days_in_month(year, month) \in 28..31
    OBVIOUS
  <1>1. is_leap(year) <=> GregorianLeap(year)
    BY LeapAgrees
  <1> QED BY <1>1 DEF MonthLength, days_in_month, DAYS_IN_MONTH

(* The day after a date is a date.                                         *)
LEMMA TomorrowIsDate == \A d \in CalendarDate : Tomorrow(d) \in CalendarDate
  <1> SUFFICES ASSUME NEW d \in CalendarDate
               PROVE  Tomorrow(d) \in CalendarDate
    OBVIOUS
  <1> USE DEF CalendarDate
  <1>0. /\ d \in [year : Nat, month : 1..12, day : 1..31]
        /\ d.year > 151
        /\ d.day <= MonthLength(d.year)[d.month]
    OBVIOUS
  <1>a. MonthLength(d.year)[d.month] \in 28..31
    BY <1>0, MonthAgrees
  <1>1. CASE d.day < MonthLength(d.year)[d.month]
    <2>1. Tomorrow(d) = [d EXCEPT !.day = @ + 1]
      BY <1>1 DEF Tomorrow
    <2>2. d.day + 1 \in 1..31 /\ d.day + 1 <= MonthLength(d.year)[d.month]
      BY <1>0, <1>a, <1>1
    <2> QED BY <1>0, <2>1, <2>2
  <1>2. CASE ~(d.day < MonthLength(d.year)[d.month]) /\ d.month < 12
    <2>1. Tomorrow(d) = [year |-> d.year, month |-> d.month + 1, day |-> 1]
      BY <1>2 DEF Tomorrow
    <2>2. d.month + 1 \in 1..12
      BY <1>0, <1>2
    <2>3. MonthLength(d.year)[d.month + 1] >= 1
      BY <1>0, <2>2, MonthAgrees
    <2> QED BY <1>0, <2>1, <2>2, <2>3
  <1>3. CASE ~(d.day < MonthLength(d.year)[d.month]) /\ ~(d.month < 12)
    <2>1. Tomorrow(d) = [year |-> d.year + 1, month |-> 1, day |-> 1]
      BY <1>3 DEF Tomorrow
    <2>2. MonthLength(d.year + 1)[1] >= 1
      BY <1>0, MonthAgrees
    <2> QED BY <1>0, <2>1, <2>2
  <1> QED BY <1>1, <1>2, <1>3

-------------------------------------------------------------------------------
(* days_to_be_age(age) on the date d, without the variable.                *)
DaysBack(d, age) == ymd_to_ordinal(d) - ymd_to_ordinal(YearsAgo(d, age))

(* The date counted back to exists: 29 February is not looked for in years *)
(* that may not have it.                                                   *)
LEMMA YearsAgoIsDate ==
  \A d \in CalendarDate, age \in 1..150 :
    /\ IsDate(d)
    /\ IsDate(YearsAgo(d, age))
    /\ YearsAgo(d, age) \in [year : Nat, month : 1..12, day : 1..31]
  <1> SUFFICES ASSUME NEW d \in CalendarDate, NEW age \in 1..150
               PROVE  /\ IsDate(d)
                      /\ IsDate(YearsAgo(d, age))
                      /\ YearsAgo(d, age)
                           \in [year : Nat, month : 1..12, day : 1..31]
    OBVIOUS
  <1> DEFINE back == YearsAgo(d, age)
  <1>0. /\ d \in [year : Nat, month : 1..12, day : 1..31]
        /\ d.year > 151
        /\ d.day <= MonthLength(d.year)[d.month]
    BY DEF CalendarDate
  <1>1. d.day \in 1..days_in_month(d.year, d.month)
    BY <1>0, MonthAgrees
  <1>2. /\ back.year = d.year - age
        /\ back.month = d.month
        /\ back.day = IF d.month = 2 /\ d.day = 29 THEN 28 ELSE d.day
        /\ back \in [year : Nat, month : 1..12, day : 1..31]
    BY <1>0 DEF YearsAgo
  <1>3. back.day \in 1..days_in_month(back.year, back.month)
    BY <1>0, <1>1, <1>2 DEF days_in_month, DAYS_IN_MONTH
  <1> QED BY <1>0, <1>1, <1>2, <1>3 DEF IsDate

(* A year counts for at least 365 days, in the sum of days_before_year too.*)
LEMMA YearsGrow ==
  \A year \in Nat, age \in 1..150 :
    year > 151
      => /\ days_before_year(year) - days_before_year(year - age) >= 365 * age
         /\ days_before_year(year) \in Int
         /\ days_before_year(year - age) \in Int
  <1> SUFFICES ASSUME NEW year \in Nat, NEW age \in 1..150, year > 151
               PROVE  /\ days_before_year(year) - days_before_year(year - age)
                           >= 365 * age
                      /\ days_before_year(year) \in Int
                      /\ days_before_year(year - age) \in Int
    OBVIOUS
  <1> DEFINE y == year - 1
             z == year - age - 1
  <1>1. y \in Nat /\ z \in Nat /\ y - z = age /\ y >= z
    OBVIOUS
  <1> HIDE DEF y, z
  <1>2. y \div 4 >= z \div 4
    BY <1>1
  <1>3. y \div 100 >= z \div 100
    BY <1>1
  <1>4. y \div 400 >= z \div 400
    BY <1>1
  <1>5. /\ days_before_year(year)
             = y * 365 + y \div 4 + y \div 100 + y \div 400
        /\ days_before_year(year - age)
             = z * 365 + z \div 4 + z \div 100 + z \div 400
    BY DEF days_before_year, y, z
  <1> QED BY <1>1, <1>2, <1>3, <1>4, <1>5

(* Whoever is of an age is at least a day old.                             *)
LEMMA DaysBackPositive ==
  \A d \in CalendarDate, age \in 1..150 : DaysBack(d, age) > 0
  <1> SUFFICES ASSUME NEW d \in CalendarDate, NEW age \in 1..150
               PROVE  DaysBack(d, age) > 0
    OBVIOUS
  <1> DEFINE back == YearsAgo(d, age)
  <1>0. /\ d \in [year : Nat, month : 1..12, day : 1..31]
        /\ d.year > 151
    BY DEF CalendarDate
  <1>1. /\ back.year = d.year - age
        /\ back.month = d.month
        /\ back.day <= d.day
        /\ back.day \in 1..31
    BY <1>0 DEF YearsAgo
  <1>2. /\ days_before_year(d.year) - days_before_year(back.year) >= 365
        /\ days_before_year(d.year) \in Int
        /\ days_before_year(back.year) \in Int
    <2>1. /\ days_before_year(d.year) - days_before_year(d.year - age)
               >= 365 * age
          /\ days_before_year(d.year) \in Int
          /\ days_before_year(d.year - age) \in Int
      BY <1>0, YearsGrow
    <2>2. 365 * age >= 365
      OBVIOUS
    <2> HIDE DEF back
    <2> QED BY <1>1, <2>1, <2>2
  <1>3. /\ days_before_month(d.year, d.month)
             - days_before_month(back.year, d.month) >= -1
        /\ days_before_month(d.year, d.month) \in Int
        /\ days_before_month(back.year, d.month) \in Int
    BY <1>0, <1>1 DEF days_before_month, DAYS_BEFORE_MONTH
  <1> HIDE DEF back
  <1>4. DaysBack(d, age)
          = (days_before_year(d.year) - days_before_year(back.year))
              + (days_before_month(d.year, d.month)
                   - days_before_month(back.year, d.month))
              + (d.day - back.day)
    BY <1>0, <1>1, <1>2, <1>3 DEF DaysBack, ymd_to_ordinal, back
  <1> QED BY <1>0, <1>1, <1>2, <1>3, <1>4

-------------------------------------------------------------------------------
(* Dates far enough back that an age can be subtracted and one stays in    *)
(* the years of the calendar.                                              *)
Date == {d \in [year : Nat, month : 1..12, day : 1..31] :
           d.year > 1 /\ d.day <= MonthLength(d.year)[d.month]}

(* The months begin where the table says, with its correction.             *)
LEMMA MonthStartAgrees ==
  \A year \in Nat, month \in 1..12 :
    MonthStart(year)[month] = days_before_month(year, month)
  <1> SUFFICES ASSUME NEW year \in Nat, NEW month \in 1..12
               PROVE  MonthStart(year)[month] = days_before_month(year, month)
    OBVIOUS
  <1> DEFINE Body(s) == [m \in 1..12 |->
                           IF m = 1 THEN 0
                           ELSE s[m - 1] + MonthLength(year)[m - 1]]
             start == CHOOSE s : s = Body(s)
             g == [m \in 1..12 |-> days_before_month(year, m)]
  <1>1. MonthStart(year) = start
    BY DEF MonthStart
  <1>2. ASSUME NEW m \in 2..12
        PROVE  days_before_month(year, m)
                 = days_before_month(year, m - 1) + MonthLength(year)[m - 1]
    <2>1. MonthLength(year)[m - 1] = days_in_month(year, m - 1)
      BY MonthAgrees
    <2> QED BY <2>1 DEF days_in_month, DAYS_IN_MONTH, days_before_month,
                        DAYS_BEFORE_MONTH
  <1>3. days_before_month(year, 1) = 0
    BY DEF days_before_month, DAYS_BEFORE_MONTH
  <1>4. g = Body(g)
    <2>1. ASSUME NEW m \in 1..12
          PROVE  g[m] = Body(g)[m]
      <3>1. CASE m = 1
        BY <3>1, <1>3
      <3>2. CASE m # 1
        <4>1. m \in 2..12 /\ m - 1 \in 1..12
          BY <3>2
        <4> QED BY <4>1, <1>2
      <3> QED BY <3>1, <3>2
    <2> QED BY <2>1
  <1>5. start = Body(start)
    <2> HIDE DEF g, Body
    <2> QED BY <1>4
  <1>6. /\ start[1] = 0
        /\ \A m \in 2..12 : start[m] = start[m - 1] + MonthLength(year)[m - 1]
    <2> HIDE DEF start
    <2>1. \A m \in 1..12 : start[m] = Body(start)[m]
      BY <1>5
    <2> QED BY <2>1
  <1> DEFINE Good(m) == start[m] = days_before_month(year, m)
  <1>7. Good(1)
    BY <1>6, <1>3
  <1>8. ASSUME NEW m \in 2..12, Good(m - 1)
        PROVE  Good(m)
    <2> HIDE DEF start
    <2> QED BY <1>8, <1>6, <1>2
  <1> HIDE DEF Good
  <1>9. \A m \in 1..12 : Good(m)
    <2>2. Good(2) BY <1>7, <1>8
    <2>3. Good(3) BY <2>2, <1>8
    <2>4. Good(4) BY <2>3, <1>8
    <2>5. Good(5) BY <2>4, <1>8
    <2>6. Good(6) BY <2>5, <1>8
    <2>7. Good(7) BY <2>6, <1>8
    <2>8. Good(8) BY <2>7, <1>8
    <2>9. Good(9) BY <2>8, <1>8
    <2>10. Good(10) BY <2>9, <1>8
    <2>11. Good(11) BY <2>10, <1>8
    <2>12. Good(12) BY <2>11, <1>8
    <2> QED BY <1>7, <2>2, <2>3, <2>4, <2>5, <2>6, <2>7, <2>8, <2>9, <2>10,
               <2>11, <2>12
  <1> QED BY <1>1, <1>9 DEF Good

(* The two counts differ by the days for centuries alone.                  *)
LEMMA OrdinalAgrees ==
  \A d \in Date :
    /\ ymd_to_ordinal(d) = num_days_from_ce(d) + 2 * Centuries(d)
    /\ ymd_to_ordinal(d) \in Int
    /\ num_days_from_ce(d) \in Int
    /\ Centuries(d) \in Int
  <1> SUFFICES ASSUME NEW d \in Date
               PROVE  /\ ymd_to_ordinal(d)
                           = num_days_from_ce(d) + 2 * Centuries(d)
                      /\ ymd_to_ordinal(d) \in Int
                      /\ num_days_from_ce(d) \in Int
                      /\ Centuries(d) \in Int
    OBVIOUS
  <1>1. d.year \in Nat /\ d.month \in 1..12 /\ d.day \in Nat
    BY DEF Date
  <1> DEFINE months == days_before_month(d.year, d.month)
             y == d.year - 1
  <1>2. months \in Int
    BY <1>1 DEF days_before_month, DAYS_BEFORE_MONTH
  <1>3. MonthStart(d.year)[d.month] = months
    BY <1>1, MonthStartAgrees
  <1>4. /\ y \in Int /\ y \div 4 \in Int /\ y \div 100 \in Int
        /\ y \div 400 \in Int
    BY <1>1
  <1>5. /\ ymd_to_ordinal(d) = y * 365 + y \div 4 + y \div 100 + y \div 400
                                 + months + d.day
        /\ num_days_from_ce(d) = y * 365 + y \div 4 - y \div 100 + y \div 400
                                   + months + d.day
        /\ Centuries(d) = y \div 100
    BY <1>3 DEF ymd_to_ordinal, days_before_year, num_days_from_ce, Centuries
  <1> HIDE DEF months, y
  <1> QED BY <1>1, <1>2, <1>4, <1>5

(* An age can be subtracted from any date of the calendar.                 *)
LEMMA BackIsDate ==
  \A d \in CalendarDate, age \in 1..150 : d \in Date /\ YearsAgo(d, age) \in Date
  <1> SUFFICES ASSUME NEW d \in CalendarDate, NEW age \in 1..150
               PROVE  d \in Date /\ YearsAgo(d, age) \in Date
    OBVIOUS
  <1>1. /\ IsDate(YearsAgo(d, age))
        /\ YearsAgo(d, age) \in [year : Nat, month : 1..12, day : 1..31]
    BY YearsAgoIsDate
  <1>2. YearsAgo(d, age).year > 1
    BY DEF YearsAgo, CalendarDate
  <1>3. d \in Date
    BY DEF CalendarDate, Date
  <1> HIDE DEF YearsAgo
  <1> QED BY <1>1, <1>2, <1>3, MonthAgrees DEF Date, IsDate

(* From one year to the next there are as many days as the months count,   *)
(* and two more at the turn of a century.                                  *)
LEMMA YearStep ==
  \A year \in Nat :
    year > 0
      => days_before_year(year + 1)
           = days_before_year(year) + 365 + (IF is_leap(year) THEN 1 ELSE 0)
               + (IF year % 100 = 0 THEN 2 ELSE 0)
  <1> SUFFICES ASSUME NEW year \in Nat, year > 0
               PROVE  days_before_year(year + 1)
                        = days_before_year(year) + 365
                            + (IF is_leap(year) THEN 1 ELSE 0)
                            + (IF year % 100 = 0 THEN 2 ELSE 0)
    OBVIOUS
  <1>1. year \div 4 = (year - 1) \div 4 + (IF year % 4 = 0 THEN 1 ELSE 0)
    OBVIOUS
  <1>2. year \div 100 = (year - 1) \div 100 + (IF year % 100 = 0 THEN 1 ELSE 0)
    OBVIOUS
  <1>3. year \div 400 = (year - 1) \div 400 + (IF year % 400 = 0 THEN 1 ELSE 0)
    OBVIOUS
  <1>4. year % 100 = 0 => year % 4 = 0
    OBVIOUS
  <1>5. year % 400 = 0 => year % 100 = 0
    OBVIOUS
  <1>6. /\ days_before_year(year)
             = (year - 1) * 365 + (year - 1) \div 4 + (year - 1) \div 100
                 + (year - 1) \div 400
        /\ days_before_year(year + 1)
             = year * 365 + year \div 4 + year \div 100 + year \div 400
    BY DEF days_before_year
  <1> QED BY <1>1, <1>2, <1>3, <1>4, <1>5, <1>6 DEF is_leap

(* Tomorrow is a day later, and two days more at the turn of a century.    *)
LEMMA OrdinalStep ==
  \A d \in Date :
    ymd_to_ordinal(Tomorrow(d))
      = ymd_to_ordinal(d) + 1 + (IF CenturyTurns(Tomorrow(d)) THEN 2 ELSE 0)
  <1> SUFFICES ASSUME NEW d \in Date
               PROVE  ymd_to_ordinal(Tomorrow(d))
                        = ymd_to_ordinal(d) + 1
                            + (IF CenturyTurns(Tomorrow(d)) THEN 2 ELSE 0)
    OBVIOUS
  <1> DEFINE next == Tomorrow(d)
  <1>0. /\ d \in [year : Nat, month : 1..12, day : 1..31]
        /\ d.year > 1
        /\ d.day <= MonthLength(d.year)[d.month]
    BY DEF Date
  <1>a. /\ MonthLength(d.year)[d.month] = days_in_month(d.year, d.month)
        /\ days_in_month(d.year, d.month) \in 28..31
    BY <1>0, MonthAgrees
  <1>b. days_before_year(d.year) \in Int
    BY <1>0 DEF days_before_year
  <1>c. days_before_month(d.year, d.month) \in Int
    BY <1>0 DEF days_before_month, DAYS_BEFORE_MONTH
  <1>1. CASE d.day < MonthLength(d.year)[d.month]
    <2>1. next = [d EXCEPT !.day = @ + 1]
      BY <1>1 DEF Tomorrow
    <2>2. next.year = d.year /\ next.month = d.month /\ next.day = d.day + 1
      BY <1>0, <2>1
    <2>3. ~CenturyTurns(next)
      BY <1>0, <2>2 DEF CenturyTurns
    <2> HIDE DEF next
    <2> QED BY <1>0, <1>b, <1>c, <2>2, <2>3 DEF ymd_to_ordinal, next
  <1>2. CASE ~(d.day < MonthLength(d.year)[d.month]) /\ d.month < 12
    <2>1. next = [year |-> d.year, month |-> d.month + 1, day |-> 1]
      BY <1>2 DEF Tomorrow
    <2>2. next.year = d.year /\ next.month = d.month + 1 /\ next.day = 1
      BY <2>1
    <2>3. ~CenturyTurns(next)
      BY <1>0, <2>2 DEF CenturyTurns
    <2>4. d.day = days_in_month(d.year, d.month)
      BY <1>0, <1>a, <1>2
    <2>5. days_before_month(d.year, d.month + 1)
            = days_before_month(d.year, d.month)
                + days_in_month(d.year, d.month)
      BY <1>0, <1>2 DEF days_in_month, DAYS_IN_MONTH, days_before_month,
                        DAYS_BEFORE_MONTH
    <2>6. /\ ymd_to_ordinal(next)
               = days_before_year(d.year)
                   + days_before_month(d.year, d.month + 1) + 1
          /\ ymd_to_ordinal(d)
               = days_before_year(d.year)
                   + days_before_month(d.year, d.month) + d.day
      BY <2>2 DEF ymd_to_ordinal
    <2> HIDE DEF next
    <2>7. ymd_to_ordinal(next) = ymd_to_ordinal(d) + 1
      BY <1>0, <1>b, <1>c, <2>4, <2>5, <2>6
    <2> QED BY <2>3, <2>6, <2>7, <1>0, <1>b, <1>c DEF next
  <1>3. CASE ~(d.day < MonthLength(d.year)[d.month]) /\ ~(d.month < 12)
    <2>1. next = [year |-> d.year + 1, month |-> 1, day |-> 1]
      BY <1>3 DEF Tomorrow
    <2>2. next.year = d.year + 1 /\ next.month = 1 /\ next.day = 1
      BY <2>1
    <2>3. CenturyTurns(next) <=> d.year % 100 = 0
      BY <1>0, <2>2 DEF CenturyTurns
    <2>4. d.month = 12 /\ d.day = 31
      BY <1>0, <1>a, <1>3 DEF days_in_month, DAYS_IN_MONTH
    <2>5. /\ days_before_month(d.year, 12)
               = 334 + (IF is_leap(d.year) THEN 1 ELSE 0)
          /\ days_before_month(d.year + 1, 1) = 0
      BY DEF days_before_month, DAYS_BEFORE_MONTH
    <2>6. days_before_year(d.year + 1)
            = days_before_year(d.year) + 365
                + (IF is_leap(d.year) THEN 1 ELSE 0)
                + (IF d.year % 100 = 0 THEN 2 ELSE 0)
      BY <1>0, YearStep
    <2>7. /\ ymd_to_ordinal(next) = days_before_year(d.year + 1) + 0 + 1
          /\ ymd_to_ordinal(d)
               = days_before_year(d.year)
                   + (334 + (IF is_leap(d.year) THEN 1 ELSE 0)) + 31
      BY <2>2, <2>4, <2>5 DEF ymd_to_ordinal
    <2> HIDE DEF next
    <2>8. ymd_to_ordinal(next)
            = ymd_to_ordinal(d) + 1 + (IF d.year % 100 = 0 THEN 2 ELSE 0)
      BY <1>b, <2>6, <2>7
    <2> QED BY <2>3, <2>8 DEF next
  <1> QED BY <1>1, <1>2, <1>3

(* Outside the days around the end of February, the day after a date goes  *)
(* back to the day after the date that the date goes back to.              *)
LEMMA BackCommutes ==
  \A d \in CalendarDate, age \in 1..150 :
    <<Tomorrow(d).month, Tomorrow(d).day>> \notin {<<2, 29>>, <<3, 1>>}
      => YearsAgo(Tomorrow(d), age) = Tomorrow(YearsAgo(d, age))
  <1> SUFFICES ASSUME NEW d \in CalendarDate, NEW age \in 1..150,
                      <<Tomorrow(d).month, Tomorrow(d).day>>
                        \notin {<<2, 29>>, <<3, 1>>}
               PROVE  YearsAgo(Tomorrow(d), age) = Tomorrow(YearsAgo(d, age))
    OBVIOUS
  <1> DEFINE next == Tomorrow(d)
             back == YearsAgo(d, age)
  <1>0. /\ d \in [year : Nat, month : 1..12, day : 1..31]
        /\ d.year > 151
        /\ d.day <= MonthLength(d.year)[d.month]
    BY DEF CalendarDate
  <1>1. /\ MonthLength(d.year)[d.month] = days_in_month(d.year, d.month)
        /\ days_in_month(d.year, d.month) \in 28..31
    BY <1>0, MonthAgrees
  <1>2. /\ MonthLength(d.year - age)[d.month]
             = days_in_month(d.year - age, d.month)
        /\ days_in_month(d.year - age, d.month) \in 28..31
    BY <1>0, MonthAgrees
  <1>3. \/ d.month # 2 /\ days_in_month(d.year, d.month)
                            = days_in_month(d.year - age, d.month)
        \/ d.month = 2 /\ d.day < 28
    <2>1. CASE d.month # 2
      BY <2>1 DEF days_in_month
    <2>2. CASE d.month = 2 /\ d.day >= 28
      <3>1. CASE d.day < MonthLength(d.year)[d.month]
        <4>1. next = [d EXCEPT !.day = @ + 1]
          BY <3>1 DEF Tomorrow
        <4>2. d.day = 28
          BY <1>0, <1>1, <2>2, <3>1 DEF days_in_month, DAYS_IN_MONTH
        <4>3. next.month = 2 /\ next.day = 29
          BY <1>0, <2>2, <4>1, <4>2
        <4> QED BY <4>3
      <3>2. CASE ~(d.day < MonthLength(d.year)[d.month])
        <4>1. next = [year |-> d.year, month |-> d.month + 1, day |-> 1]
          BY <2>2, <3>2 DEF Tomorrow
        <4>3. next.month = 3 /\ next.day = 1
          BY <1>0, <2>2, <4>1
        <4> QED BY <4>3
      <3> QED BY <3>1, <3>2
    <2> QED BY <1>0, <2>1, <2>2
  <1>4. ~(d.month = 2 /\ d.day = 29)
    BY <1>3
  <1>5. back = [year |-> d.year - age, month |-> d.month, day |-> d.day]
    BY <1>4 DEF YearsAgo
  <1>6. /\ back.year = d.year - age
        /\ back.month = d.month
        /\ back.day = d.day
    BY <1>5
  <1>7. d.day < MonthLength(d.year)[d.month]
          <=> back.day < MonthLength(back.year)[back.month]
    <2> HIDE DEF back
    <2> QED BY <1>0, <1>1, <1>2, <1>3, <1>6
  <1>8. CASE d.day < MonthLength(d.year)[d.month]
    <2>1. next = [year |-> d.year, month |-> d.month, day |-> d.day + 1]
      BY <1>0, <1>8 DEF Tomorrow
    <2>2. Tomorrow(back)
            = [year |-> d.year - age, month |-> d.month, day |-> d.day + 1]
      BY <1>0, <1>5, <1>6, <1>7, <1>8 DEF Tomorrow
    <2>3. ~(d.month = 2 /\ d.day + 1 = 29)
      BY <1>0, <1>3
    <2>4. YearsAgo(next, age)
            = [year |-> d.year - age, month |-> d.month, day |-> d.day + 1]
      BY <2>1, <2>3 DEF YearsAgo
    <2> QED BY <2>2, <2>4
  <1>9. CASE ~(d.day < MonthLength(d.year)[d.month]) /\ d.month < 12
    <2>1. next = [year |-> d.year, month |-> d.month + 1, day |-> 1]
      BY <1>9 DEF Tomorrow
    <2>2. Tomorrow(back)
            = [year |-> d.year - age, month |-> d.month + 1, day |-> 1]
      BY <1>5, <1>6, <1>7, <1>9 DEF Tomorrow
    <2>4. YearsAgo(next, age)
            = [year |-> d.year - age, month |-> d.month + 1, day |-> 1]
      BY <2>1 DEF YearsAgo
    <2> QED BY <2>2, <2>4
  <1>10. CASE ~(d.day < MonthLength(d.year)[d.month]) /\ ~(d.month < 12)
    <2>1. next = [year |-> d.year + 1, month |-> 1, day |-> 1]
      BY <1>10 DEF Tomorrow
    <2>2. Tomorrow(back)
            = [year |-> d.year - age + 1, month |-> 1, day |-> 1]
      BY <1>5, <1>6, <1>7, <1>10 DEF Tomorrow
    <2>4. YearsAgo(next, age)
            = [year |-> d.year + 1 - age, month |-> 1, day |-> 1]
      BY <1>0, <2>1 DEF YearsAgo
    <2>5. d.year - age + 1 = d.year + 1 - age
      BY <1>0
    <2> QED BY <2>2, <2>4, <2>5
  <1> QED BY <1>8, <1>9, <1>10

(* On all other days, an age has as many days as the day before.           *)
LEMMA DaysBackStays ==
  \A d \in CalendarDate, age \in 1..150 :
    \/ DaysBack(Tomorrow(d), age) = DaysBack(d, age)
    \/ <<Tomorrow(d).month, Tomorrow(d).day>> \in {<<2, 29>>, <<3, 1>>}
    \/ CenturyTurns(Tomorrow(d))
    \/ CenturyTurns(YearsAgo(Tomorrow(d), age))
  <1> SUFFICES ASSUME NEW d \in CalendarDate, NEW age \in 1..150,
                      <<Tomorrow(d).month, Tomorrow(d).day>>
                        \notin {<<2, 29>>, <<3, 1>>},
                      ~CenturyTurns(Tomorrow(d)),
                      ~CenturyTurns(YearsAgo(Tomorrow(d), age))
               PROVE  DaysBack(Tomorrow(d), age) = DaysBack(d, age)
    OBVIOUS
  <1> DEFINE next == Tomorrow(d)
             back == YearsAgo(d, age)
  <1>1. d \in Date /\ back \in Date
    BY BackIsDate
  <1>2. YearsAgo(next, age) = Tomorrow(back)
    BY BackCommutes
  <1>3. ymd_to_ordinal(next) = ymd_to_ordinal(d) + 1
    <2>1. ymd_to_ordinal(next) = ymd_to_ordinal(d) + 1 + 0
      BY <1>1, OrdinalStep
    <2> HIDE DEF next
    <2> QED BY <1>1, <2>1, OrdinalAgrees
  <1>4. ymd_to_ordinal(Tomorrow(back)) = ymd_to_ordinal(back) + 1
    <2>1. ~CenturyTurns(Tomorrow(back))
      BY <1>2
    <2> HIDE DEF back
    <2>2. ymd_to_ordinal(Tomorrow(back)) = ymd_to_ordinal(back) + 1 + 0
      BY <1>1, <2>1, OrdinalStep
    <2> QED BY <1>1, <2>2, OrdinalAgrees
  <1>5. DaysBack(next, age)
          = ymd_to_ordinal(next) - ymd_to_ordinal(Tomorrow(back))
    BY <1>2 DEF DaysBack
  <1>6. ymd_to_ordinal(d) \in Int /\ ymd_to_ordinal(back) \in Int
    BY <1>1, OrdinalAgrees
  <1>7. DaysBack(d, age) = ymd_to_ordinal(d) - ymd_to_ordinal(back)
    BY DEF DaysBack
  <1> HIDE DEF next, back
  <1> QED BY <1>3, <1>4, <1>5, <1>6, <1>7 DEF next

(* Every holder is born after as many days as there are in any age.        *)
LEMMA DaysBackFits ==
  \A d \in CalendarDate, birth \in CalendarDate, age \in 1..150 :
    /\ DaysBack(d, age) \in Int
    /\ num_days_from_ce(birth) \in Int
    /\ DaysBack(d, age) <= num_days_from_ce(birth)
  <1> SUFFICES ASSUME NEW d \in CalendarDate, NEW birth \in CalendarDate,
                      NEW age \in 1..150
               PROVE  /\ DaysBack(d, age) \in Int
                      /\ num_days_from_ce(birth) \in Int
                      /\ DaysBack(d, age) <= num_days_from_ce(birth)
    OBVIOUS
  <1> DEFINE back == YearsAgo(d, age)
  <1>1. d \in Date /\ back \in Date /\ birth \in Date
    BY BackIsDate
  <1>2. /\ d.year \in Nat /\ d.year > 151
        /\ d.month \in 1..12 /\ d.day \in 1..31
        /\ birth.year \in Nat /\ birth.year > 151
        /\ birth.month \in 1..12 /\ birth.day \in 1..31
    BY DEF CalendarDate
  <1>3. /\ back.year = d.year - age
        /\ back.month = d.month
        /\ back.day >= d.day - 1
        /\ back.day \in 1..31
    BY <1>2 DEF YearsAgo
  <1>4. /\ days_before_year(d.year) \in Int
        /\ days_before_year(d.year - age) \in Int
        /\ days_before_year(d.year) - days_before_year(d.year - age) <= 54795
    <2> DEFINE y == d.year - 1
               z == d.year - age - 1
    <2>1. y \in Nat /\ z \in Nat /\ y >= z /\ y - z <= 150
      BY <1>2
    <2>2. /\ days_before_year(d.year)
               = y * 365 + y \div 4 + y \div 100 + y \div 400
          /\ days_before_year(d.year - age)
               = z * 365 + z \div 4 + z \div 100 + z \div 400
      BY DEF days_before_year
    <2> HIDE DEF y, z
    <2>3. y \div 4 - z \div 4 <= 38
      BY <2>1
    <2>4. y \div 100 - z \div 100 <= 2
      BY <2>1
    <2>5. y \div 400 - z \div 400 <= 1
      BY <2>1
    <2>6. /\ y \div 4 \in Int /\ y \div 100 \in Int /\ y \div 400 \in Int
          /\ z \div 4 \in Int /\ z \div 100 \in Int /\ z \div 400 \in Int
      BY <2>1
    <2>7. y * 365 - z * 365 <= 54750
      BY <2>1
    <2> QED BY <2>1, <2>2, <2>3, <2>4, <2>5, <2>6, <2>7
  <1>5. /\ days_before_month(d.year, d.month)
             - days_before_month(d.year - age, d.month) <= 1
        /\ days_before_month(d.year, d.month) \in Int
        /\ days_before_month(d.year - age, d.month) \in Int
    BY <1>2 DEF days_before_month, DAYS_BEFORE_MONTH
  <1>6. DaysBack(d, age) \in Int /\ DaysBack(d, age) <= 54797
    <2>1. DaysBack(d, age)
            = (days_before_year(d.year) + days_before_month(d.year, d.month)
                 + d.day)
                - (days_before_year(d.year - age)
                     + days_before_month(d.year - age, d.month) + back.day)
      BY <1>3 DEF DaysBack, ymd_to_ordinal
    <2> HIDE DEF back
    <2> QED BY <1>2, <1>3, <1>4, <1>5, <2>1
  <1>7. num_days_from_ce(birth) \in Int /\ num_days_from_ce(birth) >= 55115
    <2> DEFINE y == birth.year - 1
               months == days_before_month(birth.year, birth.month)
    <2>1. y \in Nat /\ y >= 151
      BY <1>2
    <2>2. months \in Nat
      BY <1>2 DEF days_before_month, DAYS_BEFORE_MONTH
    <2>3. MonthStart(birth.year)[birth.month] = months
      BY <1>2, MonthStartAgrees
    <2>4. num_days_from_ce(birth)
            = y * 365 + y \div 4 - y \div 100 + y \div 400 + months + birth.day
      BY <2>3 DEF num_days_from_ce
    <2> HIDE DEF y, months
    <2>5. /\ y \div 4 >= y \div 100
          /\ y \div 400 >= 0
          /\ y \div 4 \in Int /\ y \div 100 \in Int /\ y \div 400 \in Int
      BY <2>1
    <2> QED BY <1>2, <2>1, <2>2, <2>4, <2>5
  <1> HIDE DEF back
  <1> QED BY <1>6, <1>7

-------------------------------------------------------------------------------
(* days_to_be_age counts the days back.                                    *)
LEMMA DaysToday ==
  \A d, age : days_to_be_age(d, age) = DaysBack(d, age)
  BY DEF days_to_be_age, DaysBack

(* The machines are not two dates apart.                                   *)
Neighbours(d, e) == d = e \/ d = Tomorrow(e) \/ e = Tomorrow(d)

TodayIsDate ==
  /\ today \in [Machine -> CalendarDate]
  /\ Neighbours(today["prover"], today["verifier"])

(* The local dates are dates of the calendar, whatever the midnights, and  *)
(* at most a day apart.                                                    *)
THEOREM DateCorrect == Spec => []TodayIsDate
  <1>1. Init => TodayIsDate
    BY FirstDayAssumption DEF Init, TodayIsDate, Machine, Neighbours
  <1>2. TodayIsDate /\ [Next]_vars => TodayIsDate'
    <2>1. ASSUME TodayIsDate, NEW m \in Machine, NextDay(m)
          PROVE  TodayIsDate'
      <3>1. /\ today' = [today EXCEPT ![m] = Tomorrow(today[m])]
            /\ \A n \in Machine : \/ today[n] = today[m]
                                  \/ today[n] = Tomorrow(today[m])
        BY <2>1 DEF NextDay
      <3>2. today' \in [Machine -> CalendarDate]
        BY <2>1, <3>1, TomorrowIsDate DEF TodayIsDate
      <3>3. m = "prover" \/ m = "verifier"
        BY DEF Machine
      <3>4. CASE m = "prover"
        BY <2>1, <3>1, <3>2, <3>4 DEF TodayIsDate, Neighbours, Machine
      <3>5. CASE m = "verifier"
        BY <2>1, <3>1, <3>2, <3>5 DEF TodayIsDate, Neighbours, Machine
      <3> QED BY <3>3, <3>4, <3>5
    <2>2. TodayIsDate /\ UNCHANGED today => TodayIsDate'
      BY DEF TodayIsDate
    <2> QED BY <2>1, <2>2 DEF Next, vars, Show, Verify
  <1> QED BY <1>1, <1>2, PTL DEF Spec

(* No assertion of ymd_to_ordinal or days_to_be_age fails, for any age and *)
(* on any day.                                                             *)
THEOREM NeverPanicsCorrect == Spec => []NeverPanics
  <1>1. TodayIsDate => NeverPanics
    <2> SUFFICES ASSUME TodayIsDate, NEW m \in Machine, NEW age \in Age
                 PROVE  Asserted(today[m], age)
      BY DEF NeverPanics
    <2> DEFINE d == today[m]
    <2>1. age \in 1..150 /\ d \in CalendarDate
      BY AgeAssumption DEF TodayIsDate
    <2>2. days_to_be_age(d, age) = DaysBack(d, age)
      BY DaysToday
    <2> HIDE DEF d
    <2>3. Asserted(d, age)
      BY <2>1, <2>2, YearsAgoIsDate, DaysBackPositive DEF Asserted
    <2> QED BY <2>3 DEF d
  <1> QED BY <1>1, DateCorrect, PTL

-------------------------------------------------------------------------------
(* The day that an age is counted back to parts those of age from the      *)
(* others, whoever was born when.                                          *)
LEMMA CutoffParts ==
  \A d \in CalendarDate, age \in 1..150,
     birth \in [year : Nat, month : 1..12, day : 1..31] :
    \/ NotAfter(birth, YearsAgo(d, age)) <=> OfAge(birth, age, d)
    \/ /\ birth.month = 2 /\ birth.day = 29
       /\ d.month = 2 /\ d.day = 29
  <1> SUFFICES ASSUME NEW d \in CalendarDate, NEW age \in 1..150,
                      NEW birth \in [year : Nat, month : 1..12, day : 1..31],
                      ~(/\ birth.month = 2 /\ birth.day = 29
                        /\ d.month = 2 /\ d.day = 29)
               PROVE  NotAfter(birth, YearsAgo(d, age)) <=> OfAge(birth, age, d)
    OBVIOUS
  <1> DEFINE back == YearsAgo(d, age)
             born == [birth EXCEPT !.year = @ + age]
  <1>0. /\ d.year \in Nat /\ d.month \in 1..12 /\ d.day \in 1..31
        /\ d.day <= days_in_month(d.year, d.month)
        /\ birth.year \in Nat /\ birth.month \in 1..12 /\ birth.day \in 1..31
    BY MonthAgrees DEF CalendarDate
  <1>1. d.month = 2 => d.day <= 29
    BY <1>0 DEF days_in_month, DAYS_IN_MONTH
  <1>2. /\ back.year = d.year - age /\ back.month = d.month
        /\ back.day = IF d.month = 2 /\ d.day = 29 THEN 28 ELSE d.day
    BY DEF YearsAgo
  <1>3. /\ born.year = birth.year + age /\ born.month = birth.month
        /\ born.day = birth.day
    OBVIOUS
  <1> HIDE DEF back, born
  <1>4. NotAfter(birth, back) <=> NotAfter(born, d)
    BY <1>0, <1>1, <1>2, <1>3 DEF NotAfter
  <1> QED BY <1>4 DEF back, born, OfAge

(* At most one proof is under way, and every variable stays in its type.   *)
THEOREM TypeCorrect == Spec => []TypeOK
  <1>1. Init => TypeOK
    BY FirstDayAssumption DEF Init, TypeOK
  <1>2. TypeOK /\ [Next]_vars => TypeOK'
    <2> SUFFICES ASSUME TypeOK, [Next]_vars
                 PROVE  TypeOK'
      OBVIOUS
    <2>1. ASSUME NEW birth \in Birth, NEW age \in Age, Show(birth, age)
          PROVE  TypeOK'
      <3> DEFINE now == today["prover"]
                 days == days_to_be_age(now, age)
                 made == [birth |-> birth, age |-> age, days |-> days,
                          made |-> now, late |-> FALSE]
      <3>1. now \in CalendarDate
        BY DEF TypeOK, Machine
      <3>2. days \in Nat
        <4>1. days = DaysBack(now, age)
          BY DaysToday
        <4> HIDE DEF now
        <4>2. DaysBack(now, age) \in Int /\ DaysBack(now, age) > 0
          BY <3>1, DaysBackFits, DaysBackPositive, AgeAssumption
        <4> QED BY <4>1, <4>2
      <3>3. proof' = {made} /\ UNCHANGED today /\ verdict' = "none"
        BY <2>1 DEF Show
      <3> HIDE DEF now, days
      <3>4. made \in Proof
        BY <3>1, <3>2 DEF Proof
      <3> HIDE DEF made
      <3> QED BY <3>3, <3>4 DEF TypeOK
    <2>2. CASE Verify
      BY <2>2 DEF Verify, TypeOK
    <2>3. ASSUME NEW m \in Machine, NextDay(m)
          PROVE  TypeOK'
      <3>1. \A p \in proof : p.late \in BOOLEAN
                /\ [p EXCEPT !.late = @ \/ m = "verifier"] \in Proof
        BY DEF Proof, TypeOK
      <3>2. today' \in [Machine -> CalendarDate]
        BY <2>3, TomorrowIsDate DEF NextDay, TypeOK
      <3> QED BY <2>3, <3>1, <3>2 DEF NextDay, TypeOK
    <2>4. CASE UNCHANGED vars
      BY <2>4 DEF vars, TypeOK
    <2> QED BY <2>1, <2>2, <2>3, <2>4 DEF Next
  <1> QED BY <1>1, <1>2, PTL DEF Spec

(* A proof on its way counts the days of its age on the prover's date when *)
(* it was made.  The verifier's date was next to that one then, and has    *)
(* moved on by a day if midnight has passed.                               *)
Since(p, now) ==
  IF p.late
  THEN \E e \in CalendarDate : Neighbours(p.made, e) /\ now = Tomorrow(e)
  ELSE Neighbours(p.made, now)

ShownInv ==
  \A p \in proof :
    /\ p.days = DaysBack(p.made, p.age)
    /\ Since(p, today["verifier"])

(* The days on a proof are those of its prover's date, always.             *)
LEMMA ShownCorrect == Spec => []ShownInv
  <1>1. Init => ShownInv
    BY DEF Init, ShownInv
  <1>2. TypeOK /\ TodayIsDate /\ ShownInv /\ [Next]_vars => ShownInv'
    <2> SUFFICES ASSUME TypeOK, TodayIsDate, ShownInv, [Next]_vars
                 PROVE  ShownInv'
      OBVIOUS
    <2>1. ASSUME NEW birth \in Birth, NEW age \in Age, Show(birth, age)
          PROVE  ShownInv'
      <3>1. ASSUME NEW p \in proof'
            PROVE  /\ p.days = DaysBack(p.made, p.age)
                   /\ p.made = today["prover"] /\ ~p.late
        BY <2>1, DaysToday DEF Show
      <3>2. Neighbours(today["prover"], today["verifier"])
        BY DEF TodayIsDate
      <3>3. UNCHANGED today
        BY <2>1 DEF Show
      <3> QED BY <3>1, <3>2, <3>3 DEF ShownInv, Since
    <2>2. CASE Verify
      BY <2>2 DEF Verify, ShownInv
    <2>3. ASSUME NEW m \in Machine, NextDay(m)
          PROVE  ShownInv'
      <3> SUFFICES ASSUME NEW q \in proof'
                   PROVE  /\ q.days = DaysBack(q.made, q.age)
                          /\ Since(q, today["verifier"]')
        BY DEF ShownInv
      <3>1. PICK p \in proof : q = [p EXCEPT !.late = @ \/ m = "verifier"]
        BY <2>3 DEF NextDay
      <3>2. /\ q.days = p.days /\ q.age = p.age /\ q.made = p.made
            /\ q.late = (p.late \/ m = "verifier")
        BY <3>1 DEF TypeOK, Proof
      <3>3. p.days = DaysBack(p.made, p.age) /\ Since(p, today["verifier"])
        BY DEF ShownInv
      <3>4. CASE m = "verifier"
        <4>1. /\ today["verifier"]' = Tomorrow(today["verifier"])
              /\ today["verifier"] \in CalendarDate
          BY <2>3, <3>4 DEF NextDay, TypeOK, Machine
        <4>2. ~p.late
          BY <2>3, <3>4 DEF NextDay
        <4>3. Neighbours(p.made, today["verifier"])
          BY <3>3, <4>2 DEF Since
        <4> QED BY <3>2, <3>3, <3>4, <4>1, <4>3 DEF Since
      <3>5. CASE m # "verifier"
        <4>1. today["verifier"]' = today["verifier"]
          BY <2>3, <3>5 DEF NextDay, TypeOK, Machine
        <4> QED BY <3>2, <3>3, <3>5, <4>1 DEF Since
      <3> QED BY <3>4, <3>5
    <2>4. CASE UNCHANGED vars
      BY <2>4 DEF vars, ShownInv
    <2> QED BY <2>1, <2>2, <2>3, <2>4 DEF Next
  <1> QED BY <1>1, <1>2, TypeCorrect, DateCorrect, PTL DEF Spec

-------------------------------------------------------------------------------
(* In every year and for every age, days_to_be_age counts the days that    *)
(* have gone by and two for each turn of a century in between.             *)
THEOREM CenturiesAddTwoDaysCorrect == Spec => []CenturiesAddTwoDays
  <1>1. TodayIsDate => CenturiesAddTwoDays
    <2> SUFFICES ASSUME TodayIsDate, NEW m \in Machine, NEW age \in Age
                 PROVE  LET d == today[m]
                        IN days_to_be_age(d, age)
                             = DaysElapsed(d, age)
                                 + 2 * (Centuries(d)
                                          - Centuries(YearsAgo(d, age)))
      BY DEF CenturiesAddTwoDays
    <2> DEFINE d == today[m]
               back == YearsAgo(d, age)
    <2>1. d \in Date /\ back \in Date
      <3>1. d \in CalendarDate
        BY DEF TodayIsDate
      <3> QED BY <3>1, AgeAssumption, BackIsDate
    <2>2. /\ days_to_be_age(d, age) = ymd_to_ordinal(d) - ymd_to_ordinal(back)
          /\ DaysElapsed(d, age) = num_days_from_ce(d) - num_days_from_ce(back)
      BY DEF days_to_be_age, DaysElapsed
    <2> HIDE DEF back, d
    <2> QED BY <2>1, <2>2, OrdinalAgrees DEF back, d
  <1> QED BY <1>1, DateCorrect, PTL

(* What days_to_be_age prints is so exactly if no turn of a century lies   *)
(* between today and the day that it counts back to.                       *)
SameCentury ==
  \A m \in Machine, age \in Age :
    Centuries(today[m]) = Centuries(YearsAgo(today[m], age))

THEOREM AgeDaysAreElapsedCorrect == Spec => [](AgeDaysAreElapsed <=> SameCentury)
  <1>1. TodayIsDate /\ CenturiesAddTwoDays => (AgeDaysAreElapsed <=> SameCentury)
    <2> SUFFICES ASSUME TodayIsDate, CenturiesAddTwoDays,
                        NEW m \in Machine, NEW age \in Age
                 PROVE  days_to_be_age(today[m], age)
                            = DaysElapsed(today[m], age)
                          <=> Centuries(today[m])
                                = Centuries(YearsAgo(today[m], age))
      BY DEF AgeDaysAreElapsed, SameCentury
    <2> DEFINE d == today[m]
               back == YearsAgo(d, age)
    <2>1. d \in Date /\ back \in Date
      <3>1. d \in CalendarDate
        BY DEF TodayIsDate
      <3> QED BY <3>1, AgeAssumption, BackIsDate
    <2>2. /\ DaysElapsed(d, age) = num_days_from_ce(d) - num_days_from_ce(back)
          /\ days_to_be_age(d, age)
               = DaysElapsed(d, age) + 2 * (Centuries(d) - Centuries(back))
      BY DEF CenturiesAddTwoDays, DaysElapsed
    <2> HIDE DEF back, d
    <2>3. /\ DaysElapsed(d, age) \in Int
          /\ Centuries(d) \in Int /\ Centuries(back) \in Int
      BY <2>1, <2>2, OrdinalAgrees
    <2> QED BY <2>2, <2>3 DEF back, d
  <1> QED BY <1>1, DateCorrect, CenturiesAddTwoDaysCorrect, PTL

(* On every day and for every age, the day counted back to is the latest   *)
(* birthday of those who are of age.                                       *)
THEOREM CutoffIsBirthdayCorrect == Spec => []CutoffIsBirthday
  <1>1. TodayIsDate => CutoffIsBirthday
    <2> SUFFICES ASSUME TodayIsDate, NEW m \in Machine, NEW age \in Age,
                        NEW birth \in {YearsAgo(today[m], age),
                                       Tomorrow(YearsAgo(today[m], age)),
                                       Tomorrow(Tomorrow(YearsAgo(today[m], age)))}
                 PROVE  \/ NotAfter(birth, YearsAgo(today[m], age))
                             <=> OfAge(birth, age, today[m])
                        \/ /\ birth.month = 2 /\ birth.day = 29
                           /\ today[m].month = 2 /\ today[m].day = 29
      BY DEF CutoffIsBirthday
    <2> DEFINE dates == [year : Nat, month : 1..12, day : 1..31]
    <2>1. today[m] \in CalendarDate /\ YearsAgo(today[m], age) \in dates
      BY AgeAssumption, YearsAgoIsDate DEF TodayIsDate
    <2>2. ASSUME NEW d \in dates
          PROVE  Tomorrow(d) \in dates
      <3>1. MonthLength(d.year)[d.month] \in 28..31
        BY MonthAgrees
      <3> QED BY <3>1 DEF Tomorrow
    <2>3. birth \in dates
      BY <2>1, <2>2
    <2> QED BY <2>1, <2>3, CutoffParts, AgeAssumption
  <1> QED BY <1>1, DateCorrect, PTL

-------------------------------------------------------------------------------
(* An age that has not as many days on a date as on another one near to it *)
(* changes on one of the days that begin in between.                       *)
LEMMA DaysBackChange ==
  \A made, now \in CalendarDate, age \in 1..150 :
    /\ \/ Neighbours(made, now)
       \/ \E e \in CalendarDate : Neighbours(made, e) /\ now = Tomorrow(e)
    /\ DaysBack(made, age) # DaysBack(now, age)
    => \E d \in Between(made, now) : Critical(d, age)
  <1> SUFFICES ASSUME NEW made \in CalendarDate, NEW now \in CalendarDate,
                      NEW age \in 1..150,
                      \/ Neighbours(made, now)
                      \/ \E e \in CalendarDate :
                           Neighbours(made, e) /\ now = Tomorrow(e),
                      DaysBack(made, age) # DaysBack(now, age)
               PROVE  \E d \in Between(made, now) : Critical(d, age)
    OBVIOUS
  <1>1. ASSUME NEW d \in CalendarDate, ~Critical(Tomorrow(d), age)
        PROVE  DaysBack(Tomorrow(d), age) = DaysBack(d, age)
    BY <1>1, DaysBackStays DEF Critical
  <1>2. \/ made = now \/ made = Tomorrow(now) \/ now = Tomorrow(made)
        \/ now = Tomorrow(Tomorrow(made))
    BY DEF Neighbours
  <1>3. made # now
    OBVIOUS
  <1>4. CASE made = Tomorrow(now)
    <2>1. Between(made, now) = {made}
      BY <1>3, <1>4 DEF Between
    <2> QED BY <1>1, <1>4, <2>1
  <1>5. CASE made # Tomorrow(now) /\ now = Tomorrow(made)
    <2>1. Between(made, now) = {now}
      BY <1>3, <1>5 DEF Between
    <2> QED BY <1>1, <1>5, <2>1
  <1>6. CASE made # Tomorrow(now) /\ now # Tomorrow(made)
    <2>1. Between(made, now) = {Tomorrow(made), now}
      BY <1>3, <1>6 DEF Between
    <2>2. Tomorrow(made) \in CalendarDate /\ now = Tomorrow(Tomorrow(made))
      BY <1>2, <1>3, <1>6, TomorrowIsDate
    <2> QED BY <1>1, <2>1, <2>2
  <1> QED BY <1>4, <1>5, <1>6

(* A proof is refused only if its prover and its verifier counted on       *)
(* different dates, and only if the number of days in its age changes on a *)
(* day that begins in between.                                             *)
THEOREM HonestProofVerifiesCorrect == Spec => HonestProofVerifies
  <1> DEFINE Excused(p) ==
               \E d \in Between(p.made, today["verifier"]) : Critical(d, p.age)
  <1>1. ASSUME TypeOK, ShownInv, Verify, verdict' = "refused",
               NEW p \in proof
        PROVE  Excused(p)
    <2> DEFINE now == today["verifier"]
    <2>1. /\ p.birth \in CalendarDate /\ p.age \in 1..150
          /\ p.made \in CalendarDate
      BY <1>1, BirthAssumption, AgeAssumption DEF TypeOK, Proof
    <2>2. ~RangeVerifies(p)
      BY <1>1 DEF Verify, TypeOK
    <2>3. now \in CalendarDate
      BY <1>1 DEF TypeOK, Machine
    <2>4. p.days = DaysBack(p.made, p.age) /\ Since(p, now)
      BY <1>1 DEF ShownInv
    <2>5. InRange(p)
      BY <2>1, <2>4, DaysBackFits DEF InRange
    <2>6. DaysBack(p.made, p.age) # DaysBack(now, p.age)
      BY <2>2, <2>4, <2>5, DaysToday DEF RangeVerifies
    <2> HIDE DEF now
    <2>7. \/ Neighbours(p.made, now)
          \/ \E e \in CalendarDate : Neighbours(p.made, e) /\ now = Tomorrow(e)
      BY <2>4 DEF Since
    <2>8. \E d \in Between(p.made, now) : Critical(d, p.age)
      BY <2>1, <2>3, <2>6, <2>7, DaysBackChange
    <2> QED BY <2>8 DEF now
  <1>2. TypeOK /\ ShownInv /\ [Next]_vars
          => [Verify /\ verdict' = "refused"
                => \A p \in proof : Excused(p)]_vars
    BY <1>1
  <1> QED BY <1>2, TypeCorrect, ShownCorrect, PTL DEF Spec, HonestProofVerifies
===============================================================================
