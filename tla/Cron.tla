-------------------------------- MODULE Cron --------------------------------
(***************************************************************************)
(* internal/cron: what Parse makes of an expression and how Next looks for *)
(* the next fire time, one round of its loop per step; and cronPreview of  *)
(* the API, which goes from fire time to fire time as catch-up does too.   *)
(*                                                                         *)
(* An expression is given by its fields, a field by the sequence of its    *)
(* comma-separated items; the characters of an item are left out.  Time is *)
(* a number of seconds.  The sizes of minutes, hours and days and the      *)
(* calendar are parameters, and so is the offset of the time zone, which   *)
(* is constant: daylight saving is not modelled.                           *)
(***************************************************************************)
EXTENDS Integers, Sequences

CONSTANTS
    Second, Minute, Hour,       \* seconds in a minute, minutes in an hour, hours in a day
    Day,                        \* the days of the calendar, from 0
    MonthOf, DomOf, DowOf,      \* month, day of month and day of week of each day
    DomMax, MonMax, Dow,        \* days in the longest month, months, days in a week
    Offset,                     \* the zone's local time minus UTC, in seconds
    FourYears,                  \* what AddDate(4, 0, 0) adds, in seconds
    Expr,                       \* the expressions
    From,                       \* the instants from which a list begins
    Count                       \* how many fire times are asked for

\* One item of a field as parseField takes it apart: "*", a value or a range, with or
\* without a step.  A value is its own end, and without a step it is 1.
Item ==
    {it \in [star : BOOLEAN, a : Nat, b : Nat, range : BOOLEAN, step : Nat, stepped : BOOLEAN] :
        /\ it.range \/ it.b = it.a
        /\ it.stepped \/ it.step = 1
        /\ it.star => ~it.range}

\* A field is the sequence of its items.
IsField(f) == f \in Seq(Item)

ASSUME CronAssumption ==
    /\ {Second, Minute, Hour, DomMax, MonMax, Dow, FourYears} \subseteq Nat \ {0}
    /\ MonthOf \in [Day -> 1 .. MonMax]
    /\ DomOf \in [Day -> 1 .. DomMax]
    /\ DowOf \in [Day -> 0 .. Dow - 1]
    /\ Offset \in Nat
    /\ \A e \in Expr : \A f \in {e.sec, e.min, e.hour, e.dom, e.mon, e.dow} : IsField(f)
    /\ From \subseteq Nat
    /\ Count \in Nat \ {0}

-----------------------------------------------------------------------------
(* The parser *)

Invalid == [ok |-> FALSE, bits |-> {}]

\* The last value of an item: a stepped value goes on to the end of the field.
ItemEnd(it, hi) ==
    IF it.star \/ (it.stepped /\ ~it.range) THEN hi ELSE it.b

\* parseField for one item: the bits it sets.
ParseItem(it, lo, hi, wrap) ==
    LET from == IF it.star THEN lo ELSE it.a
        bound(v) == v >= lo /\ v <= hi
        steps == {from + k * it.step : k \in 0 .. hi}
        vals == {v \in steps : v <= ItemEnd(it, hi)}
    IN  IF \/ it.stepped /\ it.step < 1
           \/ ~it.star /\ ~(bound(it.a) /\ bound(it.b) /\ it.a <= it.b)
        THEN Invalid
        ELSE [ok |-> TRUE, bits |-> IF wrap > 0 THEN {v % wrap : v \in vals} ELSE vals]

\* parseField: the items together.
ParseField(f, lo, hi, wrap) ==
    LET parts == {ParseItem(f[i], lo, hi, wrap) : i \in DOMAIN f}
        bits == UNION {p.bits : p \in parts}
    IN  IF bits = {} \/ \E p \in parts : ~p.ok THEN Invalid
        ELSE [ok |-> TRUE, bits |-> bits]

\* strings.HasPrefix(field, "*")
StarPrefix(f) == f[1].star

NoSeconds == <<>>

\* Parse: the schedule of an expression; a five-field expression has no seconds.
Parse(e) ==
    LET hasSeconds == e.sec # NoSeconds
        sec == IF hasSeconds THEN ParseField(e.sec, 0, Second - 1, 0)
               ELSE [ok |-> TRUE, bits |-> {}]
        min == ParseField(e.min, 0, Minute - 1, 0)
        hour == ParseField(e.hour, 0, Hour - 1, 0)
        dom == ParseField(e.dom, 1, DomMax, 0)
        mon == ParseField(e.mon, 1, MonMax, 0)
        dow == ParseField(e.dow, 0, Dow, Dow)
    IN  [ok |-> sec.ok /\ min.ok /\ hour.ok /\ dom.ok /\ mon.ok /\ dow.ok,
         hasSeconds |-> hasSeconds, seconds |-> sec.bits, minutes |-> min.bits,
         hours |-> hour.bits, doms |-> dom.bits, months |-> mon.bits, dows |-> dow.bits,
         domStar |-> StarPrefix(e.dom), dowStar |-> StarPrefix(e.dow)]

-----------------------------------------------------------------------------
(* Instants *)

Truncate(u, d) == u - (u % d)

HourLen == Minute * Second
DayLen == Hour * HourLen

\* The fields of an instant in the zone.
Local(u) ==
    LET l == u + Offset
        day == l \div DayLen
    IN  [second |-> l % Second, minute |-> (l \div Second) % Minute,
         hour |-> (l \div HourLen) % Hour,
         month |-> MonthOf[day], dom |-> DomOf[day], dow |-> DowOf[day]]

\* The end of matches: a day field that starts with "*" does not restrict the day.
DayMatches(sch, l) ==
    CASE sch.domStar /\ sch.dowStar -> TRUE
      [] sch.domStar /\ ~sch.dowStar -> l.dow \in sch.dows
      [] ~sch.domStar /\ sch.dowStar -> l.dom \in sch.doms
      [] OTHER -> l.dom \in sch.doms \/ l.dow \in sch.dows

\* matches
Matches(sch, u) ==
    LET l == Local(u)
    IN  /\ l.month \in sch.months
        /\ l.hour \in sch.hours
        /\ l.minute \in sch.minutes
        /\ sch.hasSeconds => l.second \in sch.seconds
        /\ DayMatches(sch, l)

-----------------------------------------------------------------------------
(* The search *)

VARIABLES
    expr,   \* the expression
    s,      \* the Schedule it was parsed into
    begin,  \* where the list begins
    fires,  \* the fire times found so far
    from,   \* where the search for the next one starts
    t,      \* the instant under test
    pc      \* where it is: parsing, starting a search, searching, or done

vars == <<expr, s, begin, fires, from, t, pc>>

PC == {"parse", "start", "search", "found", "listed",
       "none", "invalid"}

TypeOK ==
    /\ expr \in Expr
    /\ pc # "parse" => s = Parse(expr)
    /\ begin \in From
    /\ fires \in Seq(Nat) /\ Len(fires) <= Count
    /\ from \in Nat
    /\ t \in Nat
    /\ pc \in PC

Init ==
    /\ expr \in Expr
    /\ s = [ok |-> FALSE]
    /\ begin \in From
    /\ fires = <<>>
    /\ from = begin
    /\ t = begin
    /\ pc = "parse"

\* NextAfter parses the expression.
ParseExpr ==
    /\ pc = "parse"
    /\ s' = Parse(expr)
    /\ pc' = IF s'.ok THEN "start" ELSE "invalid"
    /\ UNCHANGED <<expr, begin, fires, from, t>>

Unit == IF s.hasSeconds THEN 1 ELSE Second

\* Mutant: the search starts at the minute of from itself.
StartHere == Truncate(from, Unit)

\* Mutant: the search starts at the minute before.
StartBefore == Truncate(from, Unit) - Unit

\* Where the search starts: the next whole minute, or second.
Start == Truncate(from, Unit) + Unit

\* The lines of Next before its loop.
StartSearch ==
    /\ pc = "start"
    /\ t' = Start
    /\ pc' = "search"
    /\ UNCHANGED <<expr, s, begin, fires, from>>

Limit == from + FourYears

Found ==
    /\ pc = "search"
    /\ t < Limit
    /\ Matches(s, t)
    /\ pc' = "found"
    /\ UNCHANGED <<expr, s, begin, fires, from, t>>

\* Mutant: the next search begins a second after the fire time.
ListAfter ==
    /\ pc = "found"
    /\ fires' = Append(fires, t)
    /\ from' = t + 1
    /\ pc' = IF Len(fires') < Count THEN "start" ELSE "listed"
    /\ UNCHANGED <<expr, s, begin, t>>

\* The loop of cronPreview: what was found goes into the list, and the next search
\* starts from it.
ListFire ==
    /\ pc = "found"
    /\ fires' = Append(fires, t)
    /\ from' = t
    /\ pc' = IF Len(fires') < Count THEN "start" ELSE "listed"
    /\ UNCHANGED <<expr, s, begin, t>>

\* Where the search goes from an instant that does not match: to the next hour or
\* minute if the hour or minute is wrong and the expression has seconds.
Skip ==
    IF ~s.hasSeconds THEN t + Second
    ELSE IF Local(t).hour \notin s.hours THEN Truncate(t, HourLen) + HourLen
    ELSE IF Local(t).minute \notin s.minutes THEN Truncate(t, Second) + Second
    ELSE t + 1

GoOn ==
    /\ pc = "search"
    /\ t < Limit
    /\ ~Matches(s, t)
    /\ t' = Skip
    /\ UNCHANGED <<expr, s, begin, fires, from, pc>>

GiveUp ==
    /\ pc = "search"
    /\ t >= Limit
    /\ pc' = "none"
    /\ UNCHANGED <<expr, s, begin, fires, from, t>>

Next == ParseExpr \/ StartSearch \/ Found \/ ListFire \/ GoOn \/ GiveUp

Spec == Init /\ [][Next]_vars

-----------------------------------------------------------------------------
(* What an expression means, stated without the parser and the search: the *)
(* rules of Vixie cron, which the README names.                            *)

ItemDenotes(it, lo, hi, v) ==
    LET first == IF it.star THEN lo ELSE it.a
        last == IF it.range THEN it.b
                ELSE IF it.star \/ it.stepped THEN hi ELSE it.a
    IN  v >= first /\ v <= last /\ (it.stepped => (v - first) % it.step = 0)

Denotes(f, lo, hi, v) == \E i \in DOMAIN f : ItemDenotes(f[i], lo, hi, v)

\* The day of an instant is one of the expression's: both day fields hold when
\* one of them starts with "*", and one of them is enough when neither does.
\* Sunday is 0 and the number after Saturday.
VixieDay(e, l) ==
    LET dom == Denotes(e.dom, 1, DomMax, l.dom)
        dow == Denotes(e.dow, 0, Dow, l.dow) \/ (l.dow = 0 /\ Denotes(e.dow, 0, Dow, Dow))
    IN  IF e.dom[1].star \/ e.dow[1].star THEN dom /\ dow ELSE dom \/ dow

Fires(e, u) ==
    LET l == Local(u)
    IN  /\ IF e.sec = NoSeconds THEN l.second = 0 ELSE Denotes(e.sec, 0, Second - 1, l.second)
        /\ Denotes(e.min, 0, Minute - 1, l.minute)
        /\ Denotes(e.hour, 0, Hour - 1, l.hour)
        /\ Denotes(e.mon, 1, MonMax, l.month)
        /\ VixieDay(e, l)

\* The search never passes over a fire time: what lies between the beginning of the
\* list and the instant under test is in the list, although the search jumps over
\* hours and minutes, without seconds only looks at whole minutes, and starts anew
\* from every fire time it finds (extra.go:131).
NoFireSkipped ==
    \A u \in begin + 1 .. t - 1 : Fires(expr, u) => \E i \in DOMAIN fires : fires[i] = u

\* What a search finds is a fire time after the one before it.
FoundIsAFire == pc = "found" => t > from /\ Fires(expr, t)

\* What a search finds is the first fire time after from, which is what Scheduler takes
\* NextAfter for.
FoundIsNext ==
    pc = "found" =>
        /\ t > from /\ Fires(expr, t)
        /\ \A u \in from + 1 .. t - 1 : ~Fires(expr, u)

\* A search ends: every round goes on to a later instant, and only from one before the
\* limit, which stays where it is.
SearchGoesOn ==
    [][pc = "search" => /\ Limit' = Limit
                        /\ pc' = "search" => t < Limit /\ t < t']_vars

\* The list is the beginning of the fire times after begin: each is one, and each is
\* later than those before it.
ListIsAscending ==
    \A i \in DOMAIN fires :
        /\ fires[i] > begin /\ Fires(expr, fires[i])
        /\ \A j \in DOMAIN fires : i < j => fires[i] < fires[j]

\* A search that gives up has looked at every instant before its limit.
NoneBeforeLimit ==
    pc = "none" => \A u \in from + 1 .. Limit - 1 : ~Fires(expr, u)

\* The search gives up only if there is no fire time in the four years after from,
\* as its error has it: "has no fire time within 4 years".
NoneWithinFourYears ==
    pc = "none" => \A u \in from + 1 .. from + FourYears : ~Fires(expr, u)
=============================================================================
