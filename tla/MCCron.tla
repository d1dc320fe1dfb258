------------------------------- MODULE MCCron -------------------------------
(***************************************************************************)
(* Instances of Cron for TLC: a calendar of months of two or three days,   *)
(* in which a third day comes in every fourth month only, as a leap day    *)
(* comes in every fourth year.                                             *)
(***************************************************************************)
EXTENDS Cron

\* The days as <<month, day of month>>.
Dates == <<<<1, 1>>, <<1, 2>>, <<2, 1>>, <<2, 2>>, <<2, 3>>, <<1, 1>>, <<1, 2>>,
           <<2, 1>>, <<2, 2>>, <<1, 1>>, <<1, 2>>, <<2, 1>>, <<2, 2>>, <<2, 3>>,
           <<1, 1>>, <<1, 2>>, <<2, 1>>, <<2, 2>>, <<1, 1>>, <<1, 2>>, <<2, 1>>,
           <<2, 2>>, <<2, 3>>, <<1, 1>>>>

Days == 0 .. Len(Dates) - 1
Months == [d \in Days |-> Dates[d + 1][1]]
Doms == [d \in Days |-> Dates[d + 1][2]]
Dows == [d \in Days |-> d % Dow]

\* Items
Any == [star |-> TRUE, a |-> 0, b |-> 0, range |-> FALSE, step |-> 1, stepped |-> FALSE]
Every(k) == [Any EXCEPT !.step = k, !.stepped = TRUE]
Val(v) == [Any EXCEPT !.star = FALSE, !.a = v, !.b = v]
ValEvery(v, k) == [Val(v) EXCEPT !.step = k, !.stepped = TRUE]
Range(v, w) == [Val(v) EXCEPT !.b = w, !.range = TRUE]
RangeEvery(v, w, k) == [Range(v, w) EXCEPT !.step = k, !.stepped = TRUE]

Expressions(sec, min, hour, dom, mon, dow) ==
    [sec : sec, min : min, hour : hour, dom : dom, mon : mon, dow : dow]

Plain == {<<Any>>}

\* Expressions without seconds, with one that is invalid.
Minutes == Expressions({NoSeconds},
    {<<Any>>, <<Val(1)>>, <<Val(9)>>}, {<<Any>>, <<Every(2)>>, <<ValEvery(1, 2)>>, <<Range(1, 2)>>},
    {<<Any>>, <<Val(2)>>, <<Val(3)>>}, {<<Any>>, <<Val(2)>>},
    {<<Any>>, <<Val(1)>>, <<RangeEvery(1, 3, 2)>>, <<Val(3), Val(1)>>})

\* Expressions with seconds, for which the search jumps.
Seconds == Expressions(
    {<<Any>>, <<Val(1)>>}, {<<Any>>, <<Val(1)>>},
    {<<Any>>, <<Val(1)>>, <<Val(3)>>, <<Val(0), Val(2)>>},
    {<<Any>>, <<Val(1)>>}, {<<Any>>, <<Range(1, 2)>>}, {<<Any>>, <<Val(2)>>})

AllExpressions == Minutes \cup Seconds

\* Every second day of the month.
SteppedStar == Expressions({NoSeconds}, {<<Val(0)>>}, {<<Val(0)>>}, {<<Every(2)>>}, Plain, Plain)

\* The day that comes in every fourth month only.
LeapDay == Expressions({NoSeconds}, {<<Val(0)>>}, {<<Val(0)>>}, {<<Val(3)>>}, {<<Val(2)>>}, Plain)

\* The instants of the first days; one zone ahead of UTC needs the next day.
FirstDays == 0 .. 2 * DayLen

\* The instants up to the first such day.
LeapDays == 0 .. 5 * DayLen
=============================================================================
