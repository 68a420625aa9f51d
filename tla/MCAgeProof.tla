------------------------------ MODULE MCAgeProof ------------------------------
(* Years for TLC to walk through.                                          *)
EXTENDS AgeProof

NewYear(year) == [year |-> year, month |-> 1, day |-> 1]

(* The ages of the disclosures over_18, over_21 and over_65, and one that  *)
(* is a multiple of four.                                                  *)
MCAge == {18, 20, 21, 65}
MCRetired == {65}

MCBirth == {[year |-> 1948, month |-> 2, day |-> 29]}

(* Years about 2000, which is a leap year, and about 2100, which is not;   *)
(* and years from which three of the ages go back across 2000.             *)
MCFirstDay == {NewYear(1999), NewYear(2018), NewYear(2099)}
MCLastYear == {2001, 2022, 2101}

MCFirstDay2025 == {NewYear(2025)}
MCLastYear2025 == {2025}
===============================================================================
