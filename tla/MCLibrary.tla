----------------------------- MODULE MCLibrary -----------------------------
(* Dates about the ends of months and years, leap or not.                  *)
EXTENDS Library

Patterns(ys, ms, ds) == {<<y>> : y \in ys} \cup (ys \X ms) \cup (ys \X ms \X ds)
MCDates == Patterns({2023, 2024, Star}, {1, 2, 4, 12, Star}, {1, 28, 29, 30, 31, Star})
MCRangeDates == Patterns({2023, 2024}, {2, 12}, {1, 29, 31})
MCTimes ==
    {t \in {2023, 2024} \X {1, 2, 3, 4, 12} \X {1, 2, 28, 29, 30, 31} \X {0, 1} :
        t[3] <= DaysIn(t[1], t[2])}
=============================================================================
