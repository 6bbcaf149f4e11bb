---------------------------- MODULE SearchDates ----------------------------
(***************************************************************************)
(* The created: qualifier of a search, internal/search/date.go, up to the  *)
(* comparison in the query and the one in Go that follows it.  A time is   *)
(* <<year, month, day, t>> with t = 0 at midnight and 1 later in the day,  *)
(* in UTC: the query compares times in UTC whatever a photo's time zone.   *)
(*                                                                         *)
(* A pattern is a sequence of one to three components, year, month and     *)
(* day, with Star for a wildcard.                                           *)
(***************************************************************************)
EXTENDS Integers, Sequences

Star == 0
MinYear == 10
MaxYear == 9000
NoTime == <<>>

Leap(y) == y % 4 = 0 /\ (y % 100 # 0 \/ y % 400 = 0)
DaysIn(y, m) == IF m = 2 THEN (IF Leap(y) THEN 29 ELSE 28)
                ELSE IF m \in {4, 6, 9, 11} THEN 30 ELSE 31

\* time.Date: a month or a day too many is one of the next year or month, and
\* day 0 is the last of the month before.
Date(y, m, d) ==
    IF m > 12 THEN <<y + 1, m - 12, d, 0>>
    ELSE IF d > DaysIn(y, m) THEN (IF m = 12 THEN <<y + 1, 1, d - 31, 0>>
                                   ELSE <<y, m + 1, d - DaysIn(y, m), 0>>)
    ELSE IF d = 0 THEN (IF m = 1 THEN <<y - 1, 12, 31, 0>> ELSE <<y, m - 1, DaysIn(y, m - 1), 0>>)
    ELSE <<y, m, d, 0>>

Before(a, b) ==
    \E i \in 1..4 : a[i] < b[i] /\ \A j \in 1..(i - 1) : a[j] = b[j]

Bounds == <<MinYear..MaxYear, 1..12, 1..31>>
Lowest == <<MinYear, 1, 1>>
Highest == <<MaxYear, 12, 31>>

\* parseInRange succeeds for every component.
ValidDate(p) == \A i \in DOMAIN p : p[i] = Star \/ p[i] \in Bounds[i]

\* The components, with the bounds for wildcards and missing ones the first.
Component(p, i, start) ==
    IF i > Len(p) THEN 1
    ELSE IF p[i] # Star THEN p[i] ELSE IF start THEN Lowest[i] ELSE Highest[i]

\* Faulty variant: an end that is the last day of its period.
ParseDateInclusive(p, start) ==
    LET y == Component(p, 1, start)
        m == Component(p, 2, start)
        d == Component(p, 3, start)
    IN  Date(y, m, IF d > DaysIn(y, m) THEN DaysIn(y, m) ELSE d)

\* parseFlexibleDate: the first moment of the period, or the first one after it.
ParseDate(p, start) ==
    LET y == Component(p, 1, start)
        m == Component(p, 2, start)
        d == Component(p, 3, start)
        day == IF d > DaysIn(y, m) THEN DaysIn(y, m) ELSE d
    IN  IF start THEN Date(y, m, day)
        ELSE CASE Len(p) = 1 -> Date(y + 1, 1, 1)
               [] Len(p) = 2 -> Date(y, m + 1, 1)
               [] Len(p) = 3 -> Date(y, m, day + 1)

Wildcards(p) == {i \in DOMAIN p : p[i] = Star}

AddDay(t, n) == Date(t[1], t[2], t[3] + n)

\* ExpressionDateRange of an operator and one or two patterns.
DateRange(op, p, q) ==
    LET from == ParseDate(p, TRUE)
        to == ParseDate(IF op = ".." THEN q ELSE p, FALSE)
        r == [from |-> NoTime, fromWild |-> {}, to |-> NoTime, toWild |-> {}]
        r1 == [r EXCEPT !.from = from, !.fromWild = Wildcards(p)]
        r2 == [r EXCEPT !.to = to, !.toWild = Wildcards(p)]
    IN  CASE op = ">=" -> r1
          [] op = "<=" -> r2
          [] op = ">" -> [r1 EXCEPT !.from = AddDay(@, 1)]
          [] op = "<" -> [r2 EXCEPT !.to = AddDay(@, -1)]
          [] op \in {"", ".."} ->
                [r1 EXCEPT !.to = to, !.toWild = Wildcards(IF op = ".." THEN q ELSE p)]

\* The comparisons of the query.
InCreatedRange(r, t) ==
    /\ r.from = NoTime \/ ~Before(t, r.from)
    /\ r.to = NoTime \/ Before(t, r.to)

\* DateWildcard.Apply: a date of the reference with wildcards taken from t.
Applied(wild, ref, t) ==
    LET c == [i \in 1..3 |-> IF i \in wild THEN t[i] ELSE ref[i]]
        leap == 1 \in wild /\ 3 \notin wild /\ c[2] = 2 /\ c[3] = 28 /\ t[3] = 29
    IN  Date(c[1], c[2], IF leap THEN 29 ELSE c[3])

\* DateRange.Match
MatchesRange(r, t) ==
    /\ r.fromWild \notin {{}, 1..3} => ~Before(t, Applied(r.fromWild, r.from, t))
    /\ r.toWild \notin {{}, 1..3} => ~Before(Applied(r.toWild, r.to, t), t)

Created(op, p, q, t) ==
    LET r == DateRange(op, p, q) IN InCreatedRange(r, t) /\ MatchesRange(r, t)

----------------------------------------------------------------------------
(* What docs/features/search.md says.                                      *)

\* The day of a pattern that names one, in the month it names.
Normal(p) == IF Len(p) < 3 \/ Wildcards(p) # {} THEN p
             ELSE <<p[1], p[2], IF p[3] > DaysIn(p[1], p[2]) THEN DaysIn(p[1], p[2]) ELSE p[3]>>
InPeriod(p, t) == \A i \in DOMAIN p : p[i] = Star \/ Normal(p)[i] = t[i]
NotBefore(p, t) == InPeriod(p, t) \/ Before(Date(Component(p, 1, TRUE), Component(p, 2, TRUE),
                                                Component(Normal(p), 3, TRUE)), t)

Documented(op, p, q, t) ==
    CASE op = "" -> InPeriod(p, t)
      [] op = ".." -> NotBefore(p, t) /\ (~NotBefore(q, t) \/ InPeriod(q, t))
      [] op = ">=" -> NotBefore(p, t)
      [] op = "<" -> ~NotBefore(p, t)
      [] op = ">" -> NotBefore(p, t) /\ ~InPeriod(p, t)
      [] op = "<=" -> ~NotBefore(p, t) \/ InPeriod(p, t)

----------------------------------------------------------------------------
CONSTANTS
    Dates,          \* bound: the patterns of a single date
    RangeDates,     \* bound: those of a range
    Times           \* bound: the times of photos that dates are compared with

\* What is parsed without an error, and the times of the years that can be named.
ASSUME DatesAssumption ==
    /\ \A p \in Dates \cup RangeDates : p \in Seq(Nat) /\ Len(p) \in 1..3 /\ ValidDate(p)
    /\ \A t \in Times : /\ t \in (MinYear..MaxYear) \X (1..12) \X (1..31) \X {0, 1}
                        /\ t[3] <= DaysIn(t[1], t[2])

VARIABLE input      \* what is asked for

Nothing == [kind |-> "none"]

\* What a created: qualifier may be.
PickDate ==
    \/ \E op \in {"", ">=", "<=", ">", "<"}, p \in Dates :
          input' = [kind |-> "date", op |-> op, p |-> p, q |-> NoTime]
    \/ \E p, q \in RangeDates : input' = [kind |-> "date", op |-> "..", p |-> p, q |-> q]

DateSpec == input = Nothing /\ [][PickDate]_input

Full(p) == Len(p) = 3

\* A pattern for a day of any year, but for the last day of a year and February.
AnyYearsDay ==
    /\ Wildcards(input.p) = {1} /\ Full(input.p)
    /\ input.p[2] # 2 /\ input.p[3] <= DaysIn(2023, input.p[2]) /\ input.p # <<Star, 12, 31>>

\* created: finds the photos of the days, months and years it names, of a range both
\* ends included, and of a day of any year, as in *-12-25.  Left out are the last day
\* of any year, which finds nothing, other wildcards, February's rules in leap years,
\* and midnight, which with a wildcard belongs to two days.  > and < count from the
\* first day of a month or year and are compared for full dates.
DatesMatch ==
    /\ input.kind = "date" /\ Wildcards(input.p) = {} /\ Wildcards(input.q) = {}
       /\ (input.op \in {"<", ">"} => Full(input.p)) =>
          \A t \in Times :
              Created(input.op, input.p, input.q, t) <=> Documented(input.op, input.p, input.q, t)
    /\ input.kind = "date" /\ input.op = "" /\ AnyYearsDay =>
          \A t \in Times : t[4] # 0 => (Created("", input.p, input.p, t) <=> InPeriod(input.p, t))
=============================================================================
