-------------------------- MODULE MCVacationLedger --------------------------
(***************************************************************************)
(* A year of three days and one of two, each with a single accrual month;  *)
(* the last day is a weekend.  At 28 cents a month a day is worth 1.29: a  *)
(* rate of 1, and a deduction of 3 for two days.                           *)
(***************************************************************************)
EXTENDS VacationLedger, TLC

Years == [d \in 0 .. 4 |-> d \div 3]
Weekends == {4}

(* Two pairs that overlap and one that fits beside the first, one of next  *)
(* year that ends in the weekend, and one across the years.                *)
Pairs == {<<0, 1>>, <<1, 2>>, <<2, 2>>, <<3, 4>>, <<2, 3>>}

Low == [monthlySalary |-> 28, monthlyCredit |-> 3, daysPerYear |-> 2]
High == [monthlySalary |-> 43, monthlyCredit |-> 5, daysPerYear |-> 3]
AllTerms == {Low, High}

Symmetry == Permutations(Request) \cup Permutations(Tx)
=============================================================================
