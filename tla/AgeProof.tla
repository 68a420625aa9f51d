------------------------------- MODULE AgeProof -------------------------------
(***************************************************************************)
(* Proofs of age: the day counts of creds/src/daystamp.rs and their use in *)
(* create_show_proof and verify_show (creds/src/lib.rs).                   *)
(*                                                                         *)
(* A credential commits to the day number of a birth date.  The prover     *)
(* subtracts the days in an age, counted back from its local date, and     *)
(* shows that the difference is a number of 32 bits.  The verifier counts  *)
(* the days itself, on another machine and up to 300 s later; unless both  *)
(* counted the same, the range proof is about another commitment.          *)
(*                                                                         *)
(* The machines have their own local dates.  It is assumed that their      *)
(* clocks and time zones together are less than a day apart, and that no   *)
(* proof is answered after a second midnight at the verifier: it is valid  *)
(* for SHOW_PROOF_VALIDITY_SECONDS and for as long as the prover's clock   *)
(* is ahead.                                                               *)
(***************************************************************************)
EXTENDS Integers

CONSTANTS Age,       \* the ages that proofs are asked for, in years
          Birth,     \* dates of birth of the holders
          FirstDay,  \* dates on which the calendar may start
          LastYear   \* years at the end of which it stops (a bound)

VARIABLES today,   \* the local date of each machine
          proof,   \* the proof on its way to the verifier: {} or a singleton
          verdict  \* what became of the last one

vars == <<today, proof, verdict>>

-------------------------------------------------------------------------------
(* The calendar of the crate chrono, which gives the local date and, as    *)
(* num_days_from_ce, the day numbers of birth dates in credentials.        *)

GregorianLeap(year) == IF year % 100 = 0 THEN year % 400 = 0 ELSE year % 4 = 0

MonthLength(year) ==
  <<31, IF GregorianLeap(year) THEN 29 ELSE 28, 31, 30, 31, 30,
    31, 31, 30, 31, 30, 31>>

Tomorrow(d) ==
  IF d.day < MonthLength(d.year)[d.month] THEN [d EXCEPT !.day = @ + 1]
  ELSE IF d.month < 12
    THEN [year |-> d.year, month |-> d.month + 1, day |-> 1]
  ELSE [year |-> d.year + 1, month |-> 1, day |-> 1]

(* The days of the year that have gone by when each month begins.          *)
MonthStart(year) ==
  LET start[month \in 1..12] ==
        IF month = 1 THEN 0 ELSE start[month - 1] + MonthLength(year)[month - 1]
  IN start

num_days_from_ce(d) ==
  LET y == d.year - 1
  IN y * 365 + y \div 4 - y \div 100 + y \div 400
       + MonthStart(d.year)[d.month] + d.day

(* daystamp.rs and the circuit subtract unsigned numbers: there are years  *)
(* enough to do so.                                                        *)
CalendarDate ==
  {d \in [year : Nat, month : 1..12, day : 1..31] :
     d.year > 151 /\ d.day <= MonthLength(d.year)[d.month]}

ASSUME AgeAssumption == Age \subseteq 1..150
ASSUME BirthAssumption == \A d \in Birth : d \in CalendarDate
ASSUME FirstDayAssumption == \A d \in FirstDay : d \in CalendarDate

NotAfter(d, e) ==
  \/ d.year < e.year
  \/ d.year = e.year /\ d.month < e.month
  \/ d.year = e.year /\ d.month = e.month /\ d.day <= e.day

(* Of age from the birthday on; if that is 29 February and the year has    *)
(* none, from 1 March on.                                                  *)
OfAge(birth, age, d) == NotAfter([birth EXCEPT !.year = @ + age], d)

-------------------------------------------------------------------------------
(* daystamp.rs                                                             *)

DAYS_IN_MONTH == <<31, 28, 31, 30, 31, 30, 31, 31, 30, 31, 30, 31>>

DAYS_BEFORE_MONTH == <<0, 31, 59, 90, 120, 151, 181, 212, 243, 273, 304, 334>>

(* Fault: the rule for centuries is forgotten.                             *)
is_leap_julian(year) == year % 4 = 0

is_leap(year) == year % 4 = 0 /\ (year % 100 # 0 \/ year % 400 = 0)

days_before_year(year) ==
  LET y == year - 1 IN y * 365 + y \div 4 + y \div 100 + y \div 400

days_in_month(year, month) ==
  IF month = 2 /\ is_leap(year) THEN 29 ELSE DAYS_IN_MONTH[month]

(* Fault: February itself is counted as if it followed the extra day.      *)
days_before_month_early(year, month) ==
  DAYS_BEFORE_MONTH[month] + (IF month >= 2 /\ is_leap(year) THEN 1 ELSE 0)

days_before_month(year, month) ==
  DAYS_BEFORE_MONTH[month] + (IF month > 2 /\ is_leap(year) THEN 1 ELSE 0)

ymd_to_ordinal(d) ==
  days_before_year(d.year) + days_before_month(d.year, d.month) + d.day

(* Fault: 29 February is looked up in years that do not have it.           *)
YearsAgoAsIs(d, age) == [d EXCEPT !.year = @ - age]

(* Fault: the year of birth is counted as a year of age.                   *)
YearsAgoInclusive(d, age) ==
  [year  |-> d.year - age + 1,
   month |-> d.month,
   day   |-> IF d.month = 2 /\ d.day = 29 THEN 28 ELSE d.day]

(* Fault: 29 February is clamped a day too far.                            *)
YearsAgoClamp27(d, age) ==
  [year  |-> d.year - age,
   month |-> d.month,
   day   |-> IF d.month = 2 /\ d.day = 29 THEN 27 ELSE d.day]

YearsAgo(d, age) ==
  [year  |-> d.year - age,
   month |-> d.month,
   day   |-> IF d.month = 2 /\ d.day = 29 THEN 28 ELSE d.day]

(* Called on d.                                                            *)
days_to_be_age(d, age) == ymd_to_ordinal(d) - ymd_to_ordinal(YearsAgo(d, age))

(* The assertions of ymd_to_ordinal and of days_to_be_age.                 *)
IsDate(d) == d.month \in 1..12 /\ d.day \in 1..days_in_month(d.year, d.month)

Asserted(d, age) == /\ IsDate(d)
                    /\ IsDate(YearsAgo(d, age))
                    /\ days_to_be_age(d, age) > 0

-------------------------------------------------------------------------------
(* A show proof, by what matters here: whose it is, the age it is for, the *)
(* days that the prover counted, the prover's date when it did, and        *)
(* whether the verifier's date has changed since.                          *)
Proof == [birth : Birth, age : Age, days : Nat, made : CalendarDate,
          late : BOOLEAN]

Machine == {"prover", "verifier"}

Init == /\ \E d \in FirstDay : today = [m \in Machine |-> d]
        /\ proof = {}
        /\ verdict = "none"

(* create_show_proof: anybody may try, of age or not.                      *)
Show(birth, age) ==
  LET now == today["prover"]
  IN /\ proof = {}
     /\ Asserted(now, age)
     /\ proof' = {[birth |-> birth, age |-> age,
                   days |-> days_to_be_age(now, age),
                   made |-> now, late |-> FALSE]}
     /\ verdict' = "none"
     /\ UNCHANGED today

(* The difference is shown to be in 0 .. 2^32 - 1; no date comes near the  *)
(* upper end.                                                              *)
InRange(p) == num_days_from_ce(p.birth) - p.days >= 0

RangeVerifies(p) ==
  p.days = days_to_be_age(today["verifier"], p.age) /\ InRange(p)

(* verify_show                                                             *)
Verify ==
  \E p \in proof :
    /\ Asserted(today["verifier"], p.age)
    /\ verdict' = IF RangeVerifies(p) THEN "accepted" ELSE "refused"
    /\ proof' = {}
    /\ UNCHANGED today

(* Midnight at machine m, which does not get two dates ahead of the other  *)
(* one.  A proof sees one midnight at the verifier.                        *)
NextDay(m) ==
  LET d == today[m]
  IN /\ Tomorrow(d).month # 1 \/ d.month = 1 \/ d.year \notin LastYear
     /\ \A n \in Machine : today[n] = d \/ today[n] = Tomorrow(d)
     /\ m = "verifier" => \A p \in proof : ~p.late
     /\ today' = [today EXCEPT ![m] = Tomorrow(d)]
     /\ proof' = {[p EXCEPT !.late = @ \/ m = "verifier"] : p \in proof}
     /\ UNCHANGED verdict

Next == \/ \E birth \in Birth, age \in Age : Show(birth, age)
        \/ Verify
        \/ \E m \in Machine : NextDay(m)

Spec == Init /\ [][Next]_vars

-------------------------------------------------------------------------------
(* At most one proof is under way, and every variable stays in its type.   *)
TypeOK ==
  /\ today \in [Machine -> CalendarDate]
  /\ proof \subseteq Proof /\ \A p, q \in proof : p = q
  /\ verdict \in {"none", "accepted", "refused"}

(* No assertion of daystamp.rs fails on any day, 29 February included.     *)
NeverPanics == \A m \in Machine, age \in Age : Asserted(today[m], age)

(* days_to_be_age is the number of days that have gone by since the same   *)
(* day of the month (28 for 29 February), that many years ago: what it     *)
(* prints, "To be {age} years old, you must be {days} days old", is so.    *)
DaysElapsed(d, age) ==
  num_days_from_ce(d) - num_days_from_ce(YearsAgo(d, age))

AgeDaysAreElapsed ==
  \A m \in Machine, age \in Age :
    days_to_be_age(today[m], age) = DaysElapsed(today[m], age)

(* What is so: days_to_be_age counts the days that have gone by, and two   *)
(* days more for each turn of a century on the way, because                *)
(* days_before_year adds y/100 where it has to be subtracted.              *)
Centuries(d) == (d.year - 1) \div 100

CenturiesAddTwoDays ==
  \A m \in Machine, age \in Age :
    LET d == today[m]
    IN days_to_be_age(d, age)
         = DaysElapsed(d, age)
             + 2 * (Centuries(d) - Centuries(YearsAgo(d, age)))

(* The day that days_to_be_age counts back to parts those who are of age   *)
(* from those who are not, except that on 29 February it takes those who   *)
(* have their birthday that very day for a day too young.                  *)
CutoffIsBirthday ==
  \A m \in Machine, age \in Age :
    LET cutoff == YearsAgo(today[m], age)
        next   == Tomorrow(cutoff)
    IN \A birth \in {cutoff, next, Tomorrow(next)} :
         \/ NotAfter(birth, cutoff) <=> OfAge(birth, age, today[m])
         \/ /\ birth.month = 2 /\ birth.day = 29
            /\ today[m].month = 2 /\ today[m].day = 29

(* 1 January 2001, 2101, ...                                               *)
CenturyTurns(d) == d.month = 1 /\ d.day = 1 /\ (d.year - 1) % 100 = 0

(* The days on which the number of days in an age may be another one than  *)
(* on the day before: 29 February, 1 March, and 1 January if               *)
(* days_before_year goes wrong (see CenturiesAddTwoDays) in this year or   *)
(* in the year that the age is counted back to.                            *)
Critical(d, age) ==
  \/ <<d.month, d.day>> \in {<<2, 29>>, <<3, 1>>}
  \/ CenturyTurns(d)
  \/ CenturyTurns(YearsAgo(d, age))

(* The days that begin between the dates of prover and verifier.           *)
Between(made, now) ==
  IF made = now THEN {}
  ELSE IF made = Tomorrow(now) THEN {made}
  ELSE IF now = Tomorrow(made) THEN {now}
  ELSE {Tomorrow(made), now}

(* A proof is refused only if the verifier's date in verify_show is not    *)
(* the prover's in create_show_proof, because of a midnight in between or  *)
(* because their machines have different dates; and only if one of the     *)
(* critical days begins between the two dates.                             *)
HonestProofVerifies ==
  [][Verify /\ verdict' = "refused"
       => \A p \in proof :
            \E d \in Between(p.made, today["verifier"]) : Critical(d, p.age)]_vars
===============================================================================
