----------------------------- MODULE CronProofs -----------------------------
(***************************************************************************)
(* Proofs about Cron, for every calendar, every length of minutes, hours   *)
(* and days, and every set of expressions.                                 *)
(***************************************************************************)
EXTENDS Cron, TLAPS

-----------------------------------------------------------------------------
(* Quotients and remainders *)

LEMMA DivMod ==
    ASSUME NEW u \in Nat, NEW d \in Nat \ {0}
    PROVE  /\ u \div d \in Nat
           /\ u % d \in Nat /\ u % d < d
           /\ u = (u \div d) * d + (u % d)
OBVIOUS

LEMMA TimesGrows ==
    ASSUME NEW p \in Nat, NEW q \in Nat, p <= q, NEW d \in Nat
    PROVE  p * d \in Nat /\ q * d \in Nat /\ p * d <= q * d
OBVIOUS

LEMMA TimesNext ==
    ASSUME NEW q \in Nat, NEW d \in Nat
    PROVE  q * d \in Nat /\ (q + 1) * d = q * d + d
OBVIOUS

\* A number that is q times d and a remainder is not p times d and a remainder for
\* a smaller p.
LEMMA NotLess ==
    ASSUME NEW p \in Nat, NEW q \in Nat, NEW d \in Nat \ {0},
           NEW r \in Nat, NEW s1 \in Nat, r < d, s1 < d, p * d + r = q * d + s1
    PROVE  ~(p < q)
<1> SUFFICES ASSUME p < q PROVE FALSE
  OBVIOUS
<1>1. (p + 1) * d <= q * d
  BY TimesGrows
<1>2. (p + 1) * d = p * d + d /\ p * d \in Nat /\ q * d \in Nat
  BY TimesNext
<1> QED
  BY <1>1, <1>2

\* Quotient and remainder are determined by what they are parts of.
LEMMA DivModIs ==
    ASSUME NEW d \in Nat \ {0}, NEW q \in Nat, NEW r \in Nat, r < d
    PROVE  (q * d + r) \div d = q /\ (q * d + r) % d = r
<1> DEFINE u == q * d + r
           p == u \div d
           m == u % d
<1>1. u \in Nat
  BY TimesNext
<1>2. p \in Nat /\ m \in Nat /\ m < d /\ u = p * d + m
  BY <1>1, DivMod
<1>3. q * d + r = p * d + m
  BY <1>2
<1> HIDE DEF u, p, m
<1>4. ~(p < q) /\ ~(q < p)
  BY <1>2, <1>3, NotLess
<1>5. p = q
  BY <1>2, <1>4
<1>6. m = r
  <2>1. q * d \in Nat
    BY TimesNext
  <2> QED
    BY <1>2, <1>3, <1>5, <2>1
<1> QED
  BY <1>5, <1>6 DEF u, p, m

\* A multiple leaves no remainder.
LEMMA MultipleIs ==
    ASSUME NEW d \in Nat \ {0}, NEW q \in Nat
    PROVE  (q * d) % d = 0
<1>1. \A r \in Nat : r < d => (q * d + r) % d = r
  BY DivModIs
<1>2. (q * d + 0) % d = 0
  BY <1>1
<1>3. q * d + 0 = q * d
  BY TimesNext
<1> QED
  BY <1>2, <1>3

\* What is added in whole units changes the quotient and not the remainder.
LEMMA WholeUnits ==
    ASSUME NEW d \in Nat \ {0}, NEW u \in Nat, NEW w \in Nat, w % d = 0
    PROVE  /\ (u + w) \div d = (u \div d) + (w \div d)
           /\ (u + w) % d = u % d
<1> DEFINE q == u \div d
           p == w \div d
           r == u % d
<1>1. /\ q \in Nat /\ p \in Nat /\ r \in Nat /\ r < d
      /\ u = q * d + r /\ w = p * d
  BY DivMod
<1> HIDE DEF q, p, r
<1>2. (q + p) * d = q * d + p * d /\ q * d \in Nat /\ p * d \in Nat
  BY <1>1
<1>3. u + w = (q + p) * d + r
  BY <1>1, <1>2
<1>4. (u + w) \div d = q + p /\ (u + w) % d = r
  BY <1>1, <1>3, DivModIs
<1> QED
  BY <1>4 DEF q, p, r

\* Where Truncate leads: to the beginning of the unit in which the instant lies.
LEMMA TruncateIs ==
    ASSUME NEW d \in Nat \ {0}, NEW u \in Nat
    PROVE  /\ Truncate(u, d) \in Nat
           /\ Truncate(u, d) % d = 0
           /\ Truncate(u, d) <= u /\ u < Truncate(u, d) + d
           /\ \A v \in Nat : Truncate(u, d) <= v /\ v < Truncate(u, d) + d
                             => v \div d = u \div d
<1> DEFINE q == u \div d
           r == u % d
           T == Truncate(u, d)
<1>1. q \in Nat /\ r \in Nat /\ r < d /\ u = q * d + r
  BY DivMod
<1>2. q * d \in Nat
  BY <1>1, TimesNext
<1>3. T = q * d
  BY <1>1, <1>2 DEF Truncate
<1> HIDE DEF q, r, T
<1>4. T % d = 0
  BY <1>1, <1>3, MultipleIs
<1>5. ASSUME NEW v \in Nat, T <= v, v < T + d PROVE v \div d = q
  <2>1. v - T \in Nat /\ v - T < d /\ v = q * d + (v - T)
    BY <1>2, <1>3, <1>5
  <2> QED
    BY <1>1, <2>1, DivModIs
<1> QED
  BY <1>1, <1>2, <1>3, <1>4, <1>5 DEF q, T

\* A unit after a multiple there is another one.
LEMMA NextMultiple ==
    ASSUME NEW d \in Nat \ {0}, NEW u \in Nat, u % d = 0
    PROVE  (u + d) % d = 0
<1> DEFINE q == u \div d
<1>1. q \in Nat /\ u = q * d
  BY DivMod
<1> HIDE DEF q
<1>2. q + 1 \in Nat /\ (q + 1) * d = u + d
  BY <1>1, TimesNext
<1> QED
  BY <1>2, MultipleIs

\* Between two multiples there is none.
LEMMA BetweenMultiples ==
    ASSUME NEW d \in Nat \ {0}, NEW u \in Nat, u % d = 0, NEW v \in Nat, u < v, v < u + d
    PROVE  v % d # 0
<1> DEFINE q == u \div d
<1>1. q \in Nat /\ u = q * d
  BY DivMod
<1> HIDE DEF q
<1>2. v - u \in Nat /\ v - u < d /\ v = q * d + (v - u) /\ v - u # 0
  BY <1>1
<1>3. v % d = v - u
  BY <1>1, <1>2, DivModIs
<1> QED
  BY <1>2, <1>3

\* A whole number of hours is a whole number of minutes.
LEMMA WholeHours ==
    ASSUME NEW c \in Nat \ {0}, NEW d \in Nat \ {0}, NEW u \in Nat, u % (c * d) = 0
    PROVE  c * d \in Nat \ {0} /\ u % d = 0
<1>1. c * d \in Nat \ {0}
  OBVIOUS
<1>2. PICK q \in Nat : u = q * (c * d)
  <2>1. \A e \in Nat \ {0} : u % e = 0 => u \div e \in Nat /\ u = (u \div e) * e
    BY DivMod
  <2> QED
    BY <1>1, <2>1
<1>3. q * c \in Nat /\ q * (c * d) = (q * c) * d
  OBVIOUS
<1>4. u % d = 0
  BY <1>2, <1>3, MultipleIs
<1> QED
  BY <1>1, <1>4

-----------------------------------------------------------------------------
(* The parser *)

\* A number is a multiple of the step or it has a remainder.
LEMMA Steps ==
    ASSUME NEW k \in Nat, NEW step \in Nat \ {0}
    PROVE  k % step = 0 <=> \E m \in 0 .. k : k = m * step
<1>1. ASSUME k % step = 0 PROVE \E m \in 0 .. k : k = m * step
  <2>1. PICK m \in Nat : k = m * step
    BY <1>1, DivMod
  <2>2. m <= m * step
    BY <2>1
  <2> QED
    BY <2>1, <2>2
<1>2. ASSUME NEW m \in 0 .. k, k = m * step PROVE k % step = 0
  <2>1. m \in Nat
    OBVIOUS
  <2> QED
    BY <1>2, <2>1, MultipleIs
<1> QED
  BY <1>1, <1>2

\* The values of an item before they are wrapped, as parseField counts them up.
ItemValues(it, lo, hi) ==
    LET from1 == IF it.star THEN lo ELSE it.a
    IN  {v \in {from1 + k * it.step : k \in 0 .. hi} : v <= ItemEnd(it, hi)}

\* An item that is not refused has a step, and begins and ends within the bounds.
LEMMA ItemAccepted ==
    ASSUME NEW lo \in Nat, NEW hi \in Nat, lo <= hi, NEW wrap \in Nat, NEW it \in Item,
           ParseItem(it, lo, hi, wrap).ok
    PROVE  /\ it.step \in Nat \ {0}
           /\ ~it.star => it.a \in lo .. hi /\ it.b \in lo .. hi /\ it.a <= it.b
           /\ wrap = 0 => ParseItem(it, lo, hi, wrap).bits = ItemValues(it, lo, hi)
           /\ wrap > 0 => \A x : x \in ParseItem(it, lo, hi, wrap).bits
                                 <=> \E v \in ItemValues(it, lo, hi) : x = v % wrap
<1>1. /\ it.step \in Nat /\ it.a \in Nat /\ it.b \in Nat
      /\ it.stepped \/ it.step = 1
  BY DEF Item
<1>2. Invalid.ok = FALSE
  BY DEF Invalid
<1>3. ~(\/ it.stepped /\ it.step < 1
        \/ ~it.star /\ ~(/\ it.a >= lo /\ it.a <= hi
                         /\ it.b >= lo /\ it.b <= hi /\ it.a <= it.b))
  BY <1>2 DEF ParseItem
<1>4. ParseItem(it, lo, hi, wrap).bits =
          IF wrap > 0 THEN {v % wrap : v \in ItemValues(it, lo, hi)}
          ELSE ItemValues(it, lo, hi)
  BY <1>3 DEF ParseItem, ItemValues
<1>5. wrap = 0 => ParseItem(it, lo, hi, wrap).bits = ItemValues(it, lo, hi)
  <2>1. wrap = 0 => ~(wrap > 0)
    OBVIOUS
  <2> QED
    BY <1>4, <2>1, Zenon
<1>6. wrap > 0 => \A x : x \in ParseItem(it, lo, hi, wrap).bits
                         <=> \E v \in ItemValues(it, lo, hi) : x = v % wrap
  BY <1>4
<1> QED
  BY <1>1, <1>3, <1>5, <1>6

\* parseField counts up to the values that the item denotes.
LEMMA ItemValuesAre ==
    ASSUME NEW lo \in Nat, NEW hi \in Nat, lo <= hi, NEW it \in Item,
           it.step \in Nat \ {0},
           ~it.star => it.a \in lo .. hi /\ it.b \in lo .. hi /\ it.a <= it.b
    PROVE  /\ ItemValues(it, lo, hi) \subseteq lo .. hi
           /\ \A v \in lo .. hi : v \in ItemValues(it, lo, hi) <=> ItemDenotes(it, lo, hi, v)
<1> DEFINE from1 == IF it.star THEN lo ELSE it.a
           last == ItemEnd(it, hi)
           step == it.step
<1>0. /\ it.star \in BOOLEAN /\ it.range \in BOOLEAN /\ it.stepped \in BOOLEAN
      /\ it.range \/ it.b = it.a
      /\ it.stepped \/ it.step = 1
      /\ it.star => ~it.range
  BY DEF Item
<1>1. from1 \in lo .. hi /\ last \in lo .. hi /\ step \in Nat \ {0}
  BY <1>0 DEF ItemEnd
<1>2. \A v \in lo .. hi : ItemDenotes(it, lo, hi, v) <=>
          v >= from1 /\ v <= last /\ (it.stepped => (v - from1) % step = 0)
  BY <1>0 DEF ItemDenotes, ItemEnd
<1>3. ItemValues(it, lo, hi) = {v \in {from1 + k * step : k \in 0 .. hi} : v <= last}
  BY DEF ItemValues
<1>4. it.stepped \/ step = 1
  BY <1>0
<1> HIDE DEF from1, last, step
<1>5. ASSUME NEW k \in 0 .. hi PROVE k * step \in Nat
  BY <1>1
<1>6. ItemValues(it, lo, hi) \subseteq lo .. hi
  BY <1>1, <1>3, <1>5
<1>7. ASSUME NEW v \in lo .. hi, v \in ItemValues(it, lo, hi)
      PROVE  ItemDenotes(it, lo, hi, v)
  <2>1. PICK k \in 0 .. hi : v = from1 + k * step /\ v <= last
    BY <1>3, <1>7
  <2>2. k * step \in Nat /\ k <= k * step
    BY <1>1
  <2>3. v - from1 = k * step /\ v >= from1
    BY <1>1, <2>1, <2>2
  <2>4. (v - from1) % step = 0
    BY <1>1, <2>2, <2>3, Steps
  <2> QED
    BY <1>2, <2>1, <2>3, <2>4
<1>8. ASSUME NEW v \in lo .. hi, ItemDenotes(it, lo, hi, v)
      PROVE  v \in ItemValues(it, lo, hi)
  <2>1. v - from1 \in Nat /\ v <= last
    BY <1>1, <1>2, <1>8
  <2>2. PICK k \in 0 .. (v - from1) : v - from1 = k * step
    <3>1. CASE it.stepped
      <4>1. (v - from1) % step = 0
        BY <1>2, <1>8, <3>1
      <4> QED
        BY <1>1, <2>1, <4>1, Steps
    <3>2. CASE step = 1
      BY <2>1, <3>2
    <3> QED
      BY <1>4, <3>1, <3>2
  <2>3. k \in 0 .. hi /\ v = from1 + k * step
    BY <1>1, <2>1, <2>2
  <2> QED
    BY <1>3, <2>1, <2>3
<1> QED
  BY <1>6, <1>7, <1>8

\* A field that is not refused has the values that it denotes, if nothing is wrapped.
LEMMA FieldBits ==
    ASSUME NEW lo \in Nat, NEW hi \in Nat, lo <= hi, NEW f, IsField(f),
           ParseField(f, lo, hi, 0).ok
    PROVE  \A v \in lo .. hi :
               v \in ParseField(f, lo, hi, 0).bits <=> Denotes(f, lo, hi, v)
<1>1. /\ \A i \in DOMAIN f : ParseItem(f[i], lo, hi, 0).ok
      /\ ParseField(f, lo, hi, 0).bits = UNION {ParseItem(f[i], lo, hi, 0).bits : i \in DOMAIN f}
  BY DEF ParseField, Invalid
<1>2. ASSUME NEW v \in lo .. hi, NEW i \in DOMAIN f
      PROVE  v \in ParseItem(f[i], lo, hi, 0).bits <=> ItemDenotes(f[i], lo, hi, v)
  <2>1. f[i] \in Item
    BY DEF IsField
  <2>2. /\ f[i].step \in Nat \ {0}
        /\ ~f[i].star => f[i].a \in lo .. hi /\ f[i].b \in lo .. hi /\ f[i].a <= f[i].b
        /\ ParseItem(f[i], lo, hi, 0).bits = ItemValues(f[i], lo, hi)
    BY <1>1, <2>1, ItemAccepted
  <2> QED
    BY <2>1, <2>2, ItemValuesAre
<1> QED
  BY <1>1, <1>2 DEF Denotes

\* The bits of the day of the week: the last number is the first one again.
LEMMA WrappedBits ==
    ASSUME NEW hi \in Nat \ {0}, NEW f, IsField(f), ParseField(f, 0, hi, hi).ok
    PROVE  \A v \in 0 .. hi - 1 :
               v \in ParseField(f, 0, hi, hi).bits
               <=> Denotes(f, 0, hi, v) \/ (v = 0 /\ Denotes(f, 0, hi, hi))
<1>1. /\ \A i \in DOMAIN f : ParseItem(f[i], 0, hi, hi).ok
      /\ ParseField(f, 0, hi, hi).bits = UNION {ParseItem(f[i], 0, hi, hi).bits : i \in DOMAIN f}
  BY DEF ParseField, Invalid
<1>2. ASSUME NEW x \in 0 .. hi PROVE x % hi = IF x = hi THEN 0 ELSE x
  <2>1. (0 * hi + x) % hi = x \/ x = hi
    BY DivModIs
  <2>2. (1 * hi + 0) % hi = 0
    BY DivModIs
  <2> QED
    BY <2>1, <2>2
<1>3. ASSUME NEW v \in 0 .. hi - 1, NEW i \in DOMAIN f
      PROVE  v \in ParseItem(f[i], 0, hi, hi).bits
             <=> ItemDenotes(f[i], 0, hi, v) \/ (v = 0 /\ ItemDenotes(f[i], 0, hi, hi))
  <2>1. f[i] \in Item
    BY DEF IsField
  <2>2. /\ f[i].step \in Nat \ {0}
        /\ ~f[i].star => f[i].a \in 0 .. hi /\ f[i].b \in 0 .. hi /\ f[i].a <= f[i].b
        /\ \A y : y \in ParseItem(f[i], 0, hi, hi).bits
                  <=> \E x \in ItemValues(f[i], 0, hi) : y = x % hi
    <3> DEFINE it == f[i]
    <3>1. /\ it \in Item /\ ParseItem(it, 0, hi, hi).ok
          /\ 0 \in Nat /\ hi \in Nat /\ 0 <= hi /\ hi > 0
      BY <1>1, <1>3, <2>1
    <3> HIDE DEF it
    <3>2. /\ it.step \in Nat \ {0}
          /\ ~it.star => it.a \in 0 .. hi /\ it.b \in 0 .. hi /\ it.a <= it.b
      BY <3>1, ItemAccepted
    <3>3. hi > 0 => \A y : y \in ParseItem(it, 0, hi, hi).bits
                           <=> \E x \in ItemValues(it, 0, hi) : y = x % hi
      BY <3>1, ItemAccepted
    <3> QED
      BY <3>1, <3>2, <3>3 DEF it
  <2>3. /\ ItemValues(f[i], 0, hi) \subseteq 0 .. hi
        /\ \A x \in 0 .. hi : x \in ItemValues(f[i], 0, hi) <=> ItemDenotes(f[i], 0, hi, x)
    BY <2>1, <2>2, ItemValuesAre
  <2>4. (\E x \in ItemValues(f[i], 0, hi) : v = x % hi)
        <=> v \in ItemValues(f[i], 0, hi) \/ (v = 0 /\ hi \in ItemValues(f[i], 0, hi))
    BY <1>2, <2>3
  <2> QED
    BY <2>2, <2>3, <2>4
<1> QED
  BY <1>1, <1>3 DEF Denotes

-----------------------------------------------------------------------------
(* Instants *)

\* The calendar does not end.
Endless == Nat \subseteq Day

\* A day field that starts with "*" has no step there: with one, the code takes the
\* field for unrestricted and Vixie cron does not.
PlainStars ==
    \A e \in Expr : \A f \in {e.dom, e.dow} : StarPrefix(f) => f[1].step = 1

\* The zone is off by whole minutes, for the expressions without seconds.
WholeMinuteZone == \A e \in Expr : e.sec = NoSeconds => Offset % Second = 0

\* The zone is off by whole hours, for the expressions with seconds.
WholeHourZone == \A e \in Expr : e.sec # NoSeconds => Offset % HourLen = 0

LEMMA Sizes ==
    /\ Second \in Nat \ {0} /\ Minute \in Nat \ {0} /\ Hour \in Nat \ {0}
    /\ HourLen \in Nat \ {0} /\ DayLen \in Nat \ {0}
    /\ DomMax \in Nat \ {0} /\ MonMax \in Nat \ {0} /\ Dow \in Nat \ {0}
    /\ Offset \in Nat /\ FourYears \in Nat \ {0}
<1>1. \A c, d \in Nat \ {0} : c * d \in Nat \ {0}
  OBVIOUS
<1>2. /\ Second \in Nat \ {0} /\ Minute \in Nat \ {0} /\ Hour \in Nat \ {0}
      /\ DomMax \in Nat \ {0} /\ MonMax \in Nat \ {0} /\ Dow \in Nat \ {0}
      /\ Offset \in Nat /\ FourYears \in Nat \ {0}
  BY CronAssumption
<1>3. HourLen \in Nat \ {0}
  BY <1>1, <1>2 DEF HourLen
<1>4. DayLen \in Nat \ {0}
  BY <1>1, <1>2, <1>3 DEF DayLen
<1> QED
  BY <1>2, <1>3, <1>4

\* The fields of an instant are within the bounds of the fields of an expression.
LEMMA LocalBounds ==
    ASSUME Endless, NEW u \in Nat
    PROVE  /\ Local(u).second = (u + Offset) % Second
           /\ Local(u).minute = ((u + Offset) \div Second) % Minute
           /\ Local(u).hour = ((u + Offset) \div HourLen) % Hour
           /\ Local(u).second \in 0 .. Second - 1
           /\ Local(u).minute \in 0 .. Minute - 1
           /\ Local(u).hour \in 0 .. Hour - 1
           /\ Local(u).month \in 1 .. MonMax
           /\ Local(u).dom \in 1 .. DomMax
           /\ Local(u).dow \in 0 .. Dow - 1
<1> DEFINE l == u + Offset
           day == l \div DayLen
<1>1. l \in Nat
  BY Sizes
<1>2. day \in Nat /\ l \div Second \in Nat /\ l \div HourLen \in Nat
  BY <1>1, Sizes, DivMod
<1>3. ASSUME NEW x \in Nat, NEW d \in Nat \ {0} PROVE x % d \in 0 .. d - 1
  BY DivMod
<1>4. /\ l % Second \in 0 .. Second - 1
      /\ (l \div Second) % Minute \in 0 .. Minute - 1
      /\ (l \div HourLen) % Hour \in 0 .. Hour - 1
  <2> HIDE DEF l
  <2> QED
    BY <1>1, <1>2, <1>3, Sizes
<1>5. /\ MonthOf[day] \in 1 .. MonMax
      /\ DomOf[day] \in 1 .. DomMax
      /\ DowOf[day] \in 0 .. Dow - 1
  <2>1. day \in Day
    BY <1>2 DEF Endless
  <2> HIDE DEF day
  <2> QED
    BY <2>1, CronAssumption
<1>6. Local(u) = [second |-> l % Second, minute |-> (l \div Second) % Minute,
                  hour |-> (l \div HourLen) % Hour,
                  month |-> MonthOf[day], dom |-> DomOf[day], dow |-> DowOf[day]]
  BY DEF Local
<1> HIDE DEF day
<1> QED
  BY <1>4, <1>5, <1>6

\* A field of an accepted expression has the values that it denotes.
LEMMA ParsedFields ==
    ASSUME NEW e \in Expr, Parse(e).ok
    PROVE  /\ Parse(e).hasSeconds = (e.sec # NoSeconds)
           /\ Parse(e).domStar = StarPrefix(e.dom)
           /\ Parse(e).dowStar = StarPrefix(e.dow)
           /\ e.sec # NoSeconds => \A v \in 0 .. Second - 1 :
                  v \in Parse(e).seconds <=> Denotes(e.sec, 0, Second - 1, v)
           /\ \A v \in 0 .. Minute - 1 :
                  v \in Parse(e).minutes <=> Denotes(e.min, 0, Minute - 1, v)
           /\ \A v \in 0 .. Hour - 1 :
                  v \in Parse(e).hours <=> Denotes(e.hour, 0, Hour - 1, v)
           /\ \A v \in 1 .. DomMax : v \in Parse(e).doms <=> Denotes(e.dom, 1, DomMax, v)
           /\ \A v \in 1 .. MonMax : v \in Parse(e).months <=> Denotes(e.mon, 1, MonMax, v)
           /\ \A v \in 0 .. Dow - 1 : v \in Parse(e).dows <=>
                  Denotes(e.dow, 0, Dow, v) \/ (v = 0 /\ Denotes(e.dow, 0, Dow, Dow))
<1>0. IsField(e.sec) /\ IsField(e.min) /\ IsField(e.hour) /\ IsField(e.dom)
      /\ IsField(e.mon) /\ IsField(e.dow)
  BY CronAssumption
<1> DEFINE sec == ParseField(e.sec, 0, Second - 1, 0)
           min == ParseField(e.min, 0, Minute - 1, 0)
           hour == ParseField(e.hour, 0, Hour - 1, 0)
           dom == ParseField(e.dom, 1, DomMax, 0)
           mon == ParseField(e.mon, 1, MonMax, 0)
           dow == ParseField(e.dow, 0, Dow, Dow)
<1>1. /\ e.sec # NoSeconds => sec.ok /\ Parse(e).seconds = sec.bits
      /\ min.ok /\ Parse(e).minutes = min.bits
      /\ hour.ok /\ Parse(e).hours = hour.bits
      /\ dom.ok /\ Parse(e).doms = dom.bits
      /\ mon.ok /\ Parse(e).months = mon.bits
      /\ dow.ok /\ Parse(e).dows = dow.bits
  <2> HIDE DEF sec, min, hour, dom, mon, dow
  <2> DEFINE sec1 == IF e.sec # NoSeconds THEN sec ELSE [ok |-> TRUE, bits |-> {}]
  <2>1. Parse(e).ok = (sec1.ok /\ min.ok /\ hour.ok /\ dom.ok /\ mon.ok /\ dow.ok)
    BY DEF Parse, sec, min, hour, dom, mon, dow
  <2>2. /\ Parse(e).seconds = sec1.bits /\ Parse(e).minutes = min.bits
        /\ Parse(e).hours = hour.bits /\ Parse(e).doms = dom.bits
        /\ Parse(e).months = mon.bits /\ Parse(e).dows = dow.bits
    BY DEF Parse, sec, min, hour, dom, mon, dow
  <2>3. e.sec # NoSeconds => sec1 = sec
    OBVIOUS
  <2> HIDE DEF sec1
  <2>4. sec1.ok /\ min.ok /\ hour.ok /\ dom.ok /\ mon.ok /\ dow.ok
    BY <2>1
  <2> QED
    BY <2>2, <2>3, <2>4
<1>2. /\ Parse(e).hasSeconds = (e.sec # NoSeconds)
      /\ Parse(e).domStar = StarPrefix(e.dom)
      /\ Parse(e).dowStar = StarPrefix(e.dow)
  BY DEF Parse
<1>3. /\ Second - 1 \in Nat /\ Minute - 1 \in Nat /\ Hour - 1 \in Nat
      /\ DomMax \in Nat /\ MonMax \in Nat /\ 1 <= DomMax /\ 1 <= MonMax /\ Dow \in Nat \ {0}
  BY Sizes
<1>4. e.sec # NoSeconds => \A v \in 0 .. Second - 1 :
          v \in sec.bits <=> Denotes(e.sec, 0, Second - 1, v)
  BY <1>0, <1>1, <1>3, FieldBits
<1>5. \A v \in 0 .. Minute - 1 : v \in min.bits <=> Denotes(e.min, 0, Minute - 1, v)
  BY <1>0, <1>1, <1>3, FieldBits
<1>6. \A v \in 0 .. Hour - 1 : v \in hour.bits <=> Denotes(e.hour, 0, Hour - 1, v)
  BY <1>0, <1>1, <1>3, FieldBits
<1>7. \A v \in 1 .. DomMax : v \in dom.bits <=> Denotes(e.dom, 1, DomMax, v)
  BY <1>0, <1>1, <1>3, FieldBits
<1>8. \A v \in 1 .. MonMax : v \in mon.bits <=> Denotes(e.mon, 1, MonMax, v)
  BY <1>0, <1>1, <1>3, FieldBits
<1>9. \A v \in 0 .. Dow - 1 : v \in dow.bits <=>
          Denotes(e.dow, 0, Dow, v) \/ (v = 0 /\ Denotes(e.dow, 0, Dow, Dow))
  BY <1>0, <1>1, <1>3, WrappedBits
<1> HIDE DEF sec, min, hour, dom, mon, dow
<1> QED
  BY <1>1, <1>2, <1>4, <1>5, <1>6, <1>7, <1>8, <1>9

\* A day field that starts with a plain "*" denotes every day.
LEMMA StarDenotes ==
    ASSUME NEW f, IsField(f), f # <<>>, f[1].star, f[1].step = 1,
           NEW lo \in Nat, NEW hi \in Nat
    PROVE  \A v \in lo .. hi : Denotes(f, lo, hi, v)
<1>1. 1 \in DOMAIN f /\ f[1] \in Item
  BY DEF IsField
<1>2. ~f[1].range
  BY <1>1 DEF Item
<1>3. ASSUME NEW v \in lo .. hi PROVE ItemDenotes(f[1], lo, hi, v)
  <2>1. v - lo \in Nat /\ v >= lo /\ v <= hi
    OBVIOUS
  <2>2. (v - lo) % 1 = 0
    BY <2>1
  <2> QED
    BY <1>2, <2>1, <2>2 DEF ItemDenotes
<1> QED
  BY <1>1, <1>3 DEF Denotes

\* A field without items is refused.
LEMMA FieldsNotEmpty ==
    ASSUME NEW e \in Expr, Parse(e).ok
    PROVE  e.dom # <<>> /\ e.dow # <<>>
<1>1. ASSUME NEW lo, NEW hi, NEW wrap, NEW f, f = <<>> PROVE ~ParseField(f, lo, hi, wrap).ok
  <2>1. UNION {p.bits : p \in {ParseItem(f[i], lo, hi, wrap) : i \in DOMAIN f}} = {}
    BY <1>1
  <2> QED
    BY <2>1 DEF ParseField, Invalid
<1>2. ParseField(e.dom, 1, DomMax, 0).ok /\ ParseField(e.dow, 0, Dow, Dow).ok
  BY DEF Parse
<1> QED
  BY <1>1, <1>2

\* An instant at which an expression fires is one that matches finds.
LEMMA FireMatches ==
    ASSUME Endless, NEW e \in Expr, Parse(e).ok, NEW u \in Nat, Fires(e, u)
    PROVE  Matches(Parse(e), u)
<1> DEFINE l == Local(u)
           sch == Parse(e)
<1>1. /\ IF e.sec = NoSeconds THEN l.second = 0 ELSE Denotes(e.sec, 0, Second - 1, l.second)
      /\ Denotes(e.min, 0, Minute - 1, l.minute)
      /\ Denotes(e.hour, 0, Hour - 1, l.hour)
      /\ Denotes(e.mon, 1, MonMax, l.month)
      /\ VixieDay(e, l)
  BY DEF Fires
<1>2. /\ l.month \in sch.months /\ l.hour \in sch.hours /\ l.minute \in sch.minutes
      /\ sch.hasSeconds => l.second \in sch.seconds
  BY <1>1, ParsedFields, LocalBounds
<1>3. /\ l.dom \in sch.doms <=> Denotes(e.dom, 1, DomMax, l.dom)
      /\ l.dow \in sch.dows <=>
             Denotes(e.dow, 0, Dow, l.dow) \/ (l.dow = 0 /\ Denotes(e.dow, 0, Dow, Dow))
      /\ sch.domStar = e.dom[1].star /\ sch.dowStar = e.dow[1].star
  BY ParsedFields, LocalBounds DEF StarPrefix
<1> HIDE DEF l, sch
<1>4. DayMatches(sch, l)
  BY <1>1, <1>3 DEF DayMatches, VixieDay
<1> QED
  BY <1>2, <1>4 DEF Matches, l, sch

\* What matches finds is a fire, on a whole minute if the expression has no seconds.
LEMMA MatchFires ==
    ASSUME Endless, PlainStars, NEW e \in Expr, Parse(e).ok, NEW u \in Nat,
           Matches(Parse(e), u), e.sec = NoSeconds => (u + Offset) % Second = 0
    PROVE  Fires(e, u)
<1> DEFINE l == Local(u)
           sch == Parse(e)
<1>1. /\ l.month \in sch.months /\ l.hour \in sch.hours /\ l.minute \in sch.minutes
      /\ sch.hasSeconds => l.second \in sch.seconds
      /\ DayMatches(sch, l)
  BY DEF Matches
<1>2. /\ IF e.sec = NoSeconds THEN l.second = 0 ELSE Denotes(e.sec, 0, Second - 1, l.second)
      /\ Denotes(e.min, 0, Minute - 1, l.minute)
      /\ Denotes(e.hour, 0, Hour - 1, l.hour)
      /\ Denotes(e.mon, 1, MonMax, l.month)
  BY <1>1, ParsedFields, LocalBounds
<1>3. /\ l.dom \in sch.doms <=> Denotes(e.dom, 1, DomMax, l.dom)
      /\ l.dow \in sch.dows <=>
             Denotes(e.dow, 0, Dow, l.dow) \/ (l.dow = 0 /\ Denotes(e.dow, 0, Dow, Dow))
      /\ sch.domStar = e.dom[1].star /\ sch.dowStar = e.dow[1].star
  BY ParsedFields, LocalBounds DEF StarPrefix
<1>4. IsField(e.dom) /\ IsField(e.dow) /\ e.dom # <<>> /\ e.dow # <<>>
  BY CronAssumption, FieldsNotEmpty
<1>5. e.dom[1].star => Denotes(e.dom, 1, DomMax, l.dom)
  <2>1. e.dom[1].star => e.dom[1].step = 1
    BY DEF PlainStars, StarPrefix
  <2>2. DomMax \in Nat /\ l.dom \in 1 .. DomMax
    BY Sizes, LocalBounds
  <2> QED
    BY <1>4, <2>1, <2>2, StarDenotes
<1>6. e.dow[1].star => Denotes(e.dow, 0, Dow, l.dow)
  <2>1. e.dow[1].star => e.dow[1].step = 1
    BY DEF PlainStars, StarPrefix
  <2>2. Dow \in Nat /\ l.dow \in 0 .. Dow
    <3>1. Dow \in Nat /\ l.dow \in 0 .. Dow - 1
      BY Sizes, LocalBounds
    <3> HIDE DEF l
    <3> QED
      BY <3>1
  <2> QED
    BY <1>4, <2>1, <2>2, StarDenotes
<1> HIDE DEF l, sch
<1>7. VixieDay(e, l)
  BY <1>1, <1>3, <1>5, <1>6 DEF DayMatches, VixieDay
<1> QED
  BY <1>2, <1>7 DEF Fires, l

-----------------------------------------------------------------------------
(* Types *)

LEMMA HasSeconds ==
    ASSUME s = Parse(expr)
    PROVE  s.hasSeconds <=> expr.sec # NoSeconds
<1>1. s.hasSeconds = (expr.sec # NoSeconds)
  BY DEF Parse
<1> QED
  BY <1>1

LEMMA UnitIs ==
    ASSUME s = Parse(expr)
    PROVE  /\ Unit \in Nat \ {0}
           /\ Unit = IF expr.sec = NoSeconds THEN Second ELSE 1
<1>1. s.hasSeconds <=> expr.sec # NoSeconds
  BY HasSeconds
<1>2. CASE expr.sec = NoSeconds
  <2>1. ~s.hasSeconds
    BY <1>1, <1>2
  <2> QED
    BY <1>2, <2>1, Sizes DEF Unit
<1>3. CASE expr.sec # NoSeconds
  <2>1. s.hasSeconds
    BY <1>1, <1>3
  <2> QED
    BY <1>3, <2>1 DEF Unit
<1> QED
  BY <1>2, <1>3

\* A search starts after from, on a whole unit.
LEMMA StartIs ==
    ASSUME s = Parse(expr), from \in Nat
    PROVE  /\ Start \in Nat /\ from < Start
           /\ expr.sec = NoSeconds => Start % Second = 0 /\ Start <= from + Second
           /\ expr.sec # NoSeconds => Start = from + 1
<1> DEFINE T == Truncate(from, Unit)
<1>1. /\ T \in Nat /\ T % Unit = 0 /\ T <= from /\ from < T + Unit
      /\ Unit \in Nat \ {0}
  BY UnitIs, TruncateIs
<1>2. Start = T + Unit
  BY DEF Start
<1> HIDE DEF T
<1>3. (T + Unit) % Unit = 0
  BY <1>1, NextMultiple
<1>4. CASE expr.sec = NoSeconds
  <2>1. Unit = Second
    BY <1>4, UnitIs
  <2> QED
    BY <1>1, <1>2, <1>3, <1>4, <2>1
<1>5. CASE expr.sec # NoSeconds
  <2>1. Unit = 1
    BY <1>5, UnitIs
  <2> QED
    BY <1>1, <1>2, <1>5, <2>1
<1> QED
  BY <1>4, <1>5

\* The search goes forward.
LEMMA SkipGrows ==
    ASSUME t \in Nat
    PROVE  Skip \in Nat /\ t < Skip
<1>1. ASSUME NEW d \in Nat \ {0}
      PROVE  Truncate(t, d) + d \in Nat /\ t < Truncate(t, d) + d
  <2>1. Truncate(t, d) \in Nat /\ t < Truncate(t, d) + d
    BY TruncateIs
  <2> QED
    BY <2>1
<1>2. /\ Truncate(t, HourLen) + HourLen \in Nat /\ t < Truncate(t, HourLen) + HourLen
      /\ Truncate(t, Second) + Second \in Nat /\ t < Truncate(t, Second) + Second
      /\ t + Second \in Nat /\ t < t + Second
      /\ t + 1 \in Nat /\ t < t + 1
  BY <1>1, Sizes
<1> QED
  BY <1>2 DEF Skip

\* A list that is not full yet has room for what the search finds.
ListHasRoom == pc \in {"parse", "start", "search", "found"} => Len(fires) < Count

\* Cron keeps its types (TypeOK), whatever the expressions, the calendar and the zone;
\* in particular cronPreview never lists more than it was asked for.
THEOREM CronTypeCorrect == Spec => []TypeOK
<1>1. Init => TypeOK /\ ListHasRoom
  <2> SUFFICES ASSUME Init PROVE TypeOK /\ ListHasRoom
    OBVIOUS
  <2>1. begin \in Nat /\ Count \in Nat \ {0}
    BY CronAssumption DEF Init
  <2>2. fires \in Seq(Nat) /\ Len(fires) = 0
    BY DEF Init
  <2> QED
    BY <2>1, <2>2 DEF Init, TypeOK, PC, ListHasRoom
<1>2. TypeOK /\ ListHasRoom /\ [Next]_vars => TypeOK' /\ ListHasRoom'
  <2> SUFFICES ASSUME TypeOK, ListHasRoom, [Next]_vars PROVE TypeOK' /\ ListHasRoom'
    OBVIOUS
  <2>1. CASE ParseExpr
    BY <2>1 DEF ParseExpr, TypeOK, PC, ListHasRoom
  <2>2. CASE StartSearch
    <3>1. Start \in Nat
      BY <2>2, StartIs DEF StartSearch, TypeOK
    <3> QED
      BY <2>2, <3>1 DEF StartSearch, TypeOK, PC, ListHasRoom
  <2>3. CASE Found
    BY <2>3 DEF Found, TypeOK, PC, ListHasRoom
  <2>4. CASE ListFire
    <3>1. /\ fires' \in Seq(Nat) /\ Len(fires') = Len(fires) + 1 /\ Len(fires) < Count
          /\ Len(fires) \in Nat /\ Count \in Nat
      BY <2>4, CronAssumption DEF ListFire, TypeOK, ListHasRoom
    <3>2. /\ from' \in Nat /\ t' \in Nat /\ pc' \in PC
          /\ expr' \in Expr /\ s' = Parse(expr') /\ begin' \in From
      BY <2>4 DEF ListFire, TypeOK, PC
    <3>3. ListHasRoom'
      BY <2>4 DEF ListFire, ListHasRoom
    <3> QED
      BY <3>1, <3>2, <3>3 DEF TypeOK
  <2>5. CASE GoOn
    BY <2>5, SkipGrows DEF GoOn, TypeOK, PC, ListHasRoom
  <2>6. CASE GiveUp
    BY <2>6 DEF GiveUp, TypeOK, PC, ListHasRoom
  <2>7. CASE UNCHANGED vars
    BY <2>7 DEF vars, TypeOK, ListHasRoom
  <2> QED
    BY <2>1, <2>2, <2>3, <2>4, <2>5, <2>6, <2>7 DEF Next
<1> QED
  BY <1>1, <1>2, PTL DEF Spec

-----------------------------------------------------------------------------
(* The search *)

\* Where a search is: it begins at a fire or at the beginning of the list, goes forward,
\* and without seconds stays on whole minutes.
SearchInv ==
    /\ pc \notin {"parse", "invalid"} => s.ok
    /\ begin <= from /\ begin \in Nat
    /\ pc \in {"parse", "start", "listed", "invalid"} => t = from
    /\ pc \in {"search", "found", "none"} =>
           from < t /\ (expr.sec = NoSeconds => t % Second = 0)
    /\ pc = "found" => Matches(s, t)

LEMMA SearchStep ==
    ASSUME TypeOK, SearchInv, [Next]_vars
    PROVE  SearchInv'
<1>0. from \in Nat /\ t \in Nat /\ begin \in Nat
  BY DEF TypeOK, SearchInv
<1>1. CASE ParseExpr
  BY <1>1 DEF ParseExpr, SearchInv
<1>2. CASE StartSearch
  BY <1>2, StartIs DEF StartSearch, SearchInv, TypeOK
<1>3. CASE Found
  <2>1. Matches(s', t')
    BY <1>3 DEF Found
  <2> QED
    BY <1>3, <2>1 DEF Found, SearchInv
<1>4. CASE ListFire
  BY <1>0, <1>4 DEF ListFire, SearchInv
<1>5. CASE GoOn
  <2>1. Skip \in Nat /\ t < Skip
    BY <1>0, SkipGrows
  <2>2. ASSUME expr.sec = NoSeconds PROVE Skip % Second = 0
    <3>1. ~s.hasSeconds
      <4>1. s = Parse(expr)
        BY <1>5 DEF GoOn, TypeOK
      <4> QED
        BY <2>2, <4>1, HasSeconds
    <3>2. Skip = t + Second
      BY <3>1 DEF Skip
    <3>3. t % Second = 0
      BY <1>5, <2>2 DEF GoOn, SearchInv
    <3> QED
      BY <1>0, <3>2, <3>3, NextMultiple, Sizes
  <2> QED
    BY <1>0, <1>5, <2>1, <2>2 DEF GoOn, SearchInv
<1>6. CASE GiveUp
  BY <1>6 DEF GiveUp, SearchInv
<1>7. CASE UNCHANGED vars
  <2>1. Matches(s, t)' <=> Matches(s, t)
    BY <1>7 DEF vars
  <2> QED
    BY <1>7, <2>1 DEF vars, SearchInv
<1> QED
  BY <1>1, <1>2, <1>3, <1>4, <1>5, <1>6, <1>7 DEF Next

LEMMA Searches == Spec => []SearchInv
<1>1. Init => SearchInv
  BY CronAssumption DEF Init, SearchInv
<1> QED
  BY <1>1, SearchStep, CronTypeCorrect, PTL DEF Spec

\* What a search finds is a fire (FoundIsAFire), for every calendar, in the zones that
\* are off by whole minutes, if no day field starts with a stepped star.
THEOREM FoundFires ==
    ASSUME Endless, PlainStars, WholeMinuteZone
    PROVE  Spec => []FoundIsAFire
<1>1. TypeOK /\ SearchInv => FoundIsAFire
  <2> SUFFICES ASSUME TypeOK, SearchInv, pc = "found"
               PROVE  t > from /\ Fires(expr, t)
    BY DEF FoundIsAFire
  <2>1. /\ from < t /\ from \in Nat /\ t \in Nat /\ expr \in Expr
        /\ s = Parse(expr) /\ s.ok /\ Matches(s, t)
        /\ expr.sec = NoSeconds => t % Second = 0
    BY DEF SearchInv, TypeOK
  <2>2. ASSUME expr.sec = NoSeconds PROVE (t + Offset) % Second = 0
    <3>1. Offset % Second = 0
      BY <2>1, <2>2 DEF WholeMinuteZone
    <3> QED
      BY <2>1, <2>2, <3>1, WholeUnits, Sizes
  <2>3. Fires(expr, t)
    BY <2>1, <2>2, MatchFires
  <2> QED
    BY <2>1, <2>3
<1> QED
  BY <1>1, Searches, CronTypeCorrect, PTL

\* Everything in the list is a fire between begin and from, in ascending order.
AscendInv ==
    /\ begin <= from
    /\ \A i \in DOMAIN fires :
           /\ begin < fires[i] /\ fires[i] <= from /\ Fires(expr, fires[i])
           /\ \A j \in DOMAIN fires : i < j => fires[i] < fires[j]

LEMMA AscendStep ==
    ASSUME TypeOK, AscendInv, FoundIsAFire, [Next]_vars
    PROVE  AscendInv'
<1>0. from \in Nat /\ t \in Nat /\ begin \in Nat /\ fires \in Seq(Nat)
  BY CronAssumption DEF TypeOK
<1>1. ASSUME UNCHANGED <<expr, begin, fires, from>> PROVE AscendInv'
  <2>1. \A u : Fires(expr', u) <=> Fires(expr, u)
    BY <1>1
  <2> QED
    BY <1>1, <2>1 DEF AscendInv
<1>2. CASE ListFire
  <2>1. /\ expr' = expr /\ begin' = begin /\ from' = t
        /\ fires' = Append(fires, t)
    BY <1>2 DEF ListFire
  <2>2. from < t /\ Fires(expr, t) /\ begin <= from
    BY <1>0, <1>2 DEF ListFire, FoundIsAFire, AscendInv
  <2>3. /\ DOMAIN fires = 1 .. Len(fires) /\ DOMAIN fires' = 1 .. Len(fires) + 1
        /\ Len(fires) \in Nat
        /\ \A i \in DOMAIN fires : fires'[i] = fires[i] /\ fires[i] \in Nat
        /\ fires'[Len(fires) + 1] = t
    BY <1>0, <2>1
  <2>4. ASSUME NEW i \in DOMAIN fires'
        PROVE  /\ begin < fires'[i] /\ fires'[i] <= t /\ Fires(expr, fires'[i])
               /\ \A j \in DOMAIN fires' : i < j => fires'[i] < fires'[j]
    <3>1. CASE i = Len(fires) + 1
      BY <1>0, <2>2, <2>3, <3>1
    <3>2. CASE i \in DOMAIN fires
      <4>1. /\ begin < fires[i] /\ fires[i] <= from /\ Fires(expr, fires[i])
            /\ \A j \in DOMAIN fires : i < j => fires[i] < fires[j]
        BY <3>2 DEF AscendInv
      <4>2. fires'[i] = fires[i] /\ fires[i] \in Nat
        BY <2>3, <3>2
      <4>3. ASSUME NEW j \in DOMAIN fires', i < j PROVE fires'[i] < fires'[j]
        <5>1. CASE j \in DOMAIN fires
          BY <2>3, <4>1, <4>2, <4>3, <5>1
        <5>2. CASE j = Len(fires) + 1
          BY <1>0, <2>2, <2>3, <4>1, <4>2, <5>2
        <5> QED
          BY <2>3, <5>1, <5>2
      <4>4. begin < fires'[i] /\ fires'[i] <= t /\ Fires(expr, fires'[i])
        BY <1>0, <2>2, <4>1, <4>2
      <4> QED
        BY <4>3, <4>4
    <3> QED
      BY <2>3, <3>1, <3>2
  <2>5. begin <= t
    BY <1>0, <2>2
  <2> QED
    BY <2>1, <2>4, <2>5 DEF AscendInv
<1> QED
  BY <1>1, <1>2 DEF Next, ParseExpr, StartSearch, Found, GoOn, GiveUp, vars

\* The list holds fires only, each later than begin and than those before it
\* (ListIsAscending), where what a search finds is a fire.
THEOREM ListAscends ==
    ASSUME Endless, PlainStars, WholeMinuteZone
    PROVE  Spec => []ListIsAscending
<1>1. Init => AscendInv
  <2> SUFFICES ASSUME Init PROVE AscendInv
    OBVIOUS
  <2>1. begin \in Nat /\ begin <= from
    BY CronAssumption DEF Init
  <2>2. DOMAIN fires = {}
    BY DEF Init
  <2> QED
    BY <2>1, <2>2 DEF AscendInv
<1>2. TypeOK /\ AscendInv => ListIsAscending
  BY CronAssumption DEF AscendInv, ListIsAscending, TypeOK
<1> QED
  BY <1>1, <1>2, AscendStep, FoundFires, CronTypeCorrect, PTL DEF Spec

\* In a zone that is off by whole units, instants of one unit are in one local unit.
LEMMA SameUnit ==
    ASSUME NEW d \in Nat \ {0}, Offset % d = 0, NEW u \in Nat, NEW v \in Nat,
           Truncate(u, d) <= v, v < Truncate(u, d) + d
    PROVE  (v + Offset) \div d = (u + Offset) \div d
<1>1. v \div d = u \div d
  BY TruncateIs
<1>2. /\ (v + Offset) \div d = (v \div d) + (Offset \div d)
      /\ (u + Offset) \div d = (u \div d) + (Offset \div d)
  BY Sizes, WholeUnits
<1> QED
  BY <1>1, <1>2

\* Without seconds nothing fires between two whole minutes.
LEMMA NoneInMinute ==
    ASSUME WholeMinuteZone, Endless, NEW e \in Expr, e.sec = NoSeconds,
           NEW u \in Nat, u % Second = 0, NEW v \in Nat, u < v, v < u + Second
    PROVE  ~Fires(e, v)
<1>1. v % Second # 0
  BY Sizes, BetweenMultiples
<1>2. Offset % Second = 0
  BY DEF WholeMinuteZone
<1>3. (v + Offset) % Second = v % Second
  BY <1>2, Sizes, WholeUnits
<1>4. Local(v).second # 0
  BY <1>1, <1>3, LocalBounds
<1> QED
  BY <1>4 DEF Fires

\* From an instant that does not match, the search jumps over no fire.
LEMMA SkipsNoFire ==
    ASSUME Endless, WholeMinuteZone, WholeHourZone, TypeOK, SearchInv, GoOn
    PROVE  \A u \in t .. Skip - 1 : ~Fires(expr, u)
<1>1. /\ s = Parse(expr) /\ s.ok /\ expr \in Expr /\ t \in Nat
      /\ expr.sec = NoSeconds => t % Second = 0
      /\ ~Matches(s, t)
      /\ Skip \in Nat
  BY SkipGrows DEF GoOn, TypeOK, SearchInv
<1>2. s.hasSeconds <=> expr.sec # NoSeconds
  BY <1>1, HasSeconds
<1>3. ~Fires(expr, t)
  BY <1>1, FireMatches
<1> SUFFICES ASSUME NEW u \in Nat, t < u, u < Skip PROVE ~Fires(expr, u)
  BY <1>1, <1>3
<1>4. CASE expr.sec = NoSeconds
  <2>1. Skip = t + Second
    BY <1>2, <1>4 DEF Skip
  <2> QED
    BY <1>1, <1>4, <2>1, NoneInMinute
<1>5. ASSUME expr.sec # NoSeconds, Local(t).hour \notin s.hours PROVE ~Fires(expr, u)
  <2>1. Skip = Truncate(t, HourLen) + HourLen
    BY <1>2, <1>5 DEF Skip
  <2>2. Offset % HourLen = 0
    BY <1>1, <1>5 DEF WholeHourZone
  <2>3. Truncate(t, HourLen) \in Nat /\ Truncate(t, HourLen) <= t
    BY <1>1, Sizes, TruncateIs
  <2>4. Truncate(t, HourLen) <= u /\ u < Truncate(t, HourLen) + HourLen
    BY <1>1, <2>1, <2>3
  <2>5. (u + Offset) \div HourLen = (t + Offset) \div HourLen
    BY <1>1, <2>2, <2>4, Sizes, SameUnit
  <2>6. Local(u).hour = Local(t).hour /\ Local(u).hour \in 0 .. Hour - 1
    BY <1>1, <2>5, LocalBounds
  <2>7. ~Denotes(expr.hour, 0, Hour - 1, Local(u).hour)
    BY <1>1, <1>5, <2>6, ParsedFields
  <2> QED
    BY <2>7 DEF Fires
<1>6. ASSUME expr.sec # NoSeconds, Local(t).hour \in s.hours, Local(t).minute \notin s.minutes
      PROVE  ~Fires(expr, u)
  <2>1. Skip = Truncate(t, Second) + Second
    BY <1>2, <1>6 DEF Skip
  <2>2. Offset % Second = 0
    BY <1>1, <1>6, Sizes, WholeHours DEF WholeHourZone, HourLen
  <2>3. Truncate(t, Second) \in Nat /\ Truncate(t, Second) <= t
    BY <1>1, Sizes, TruncateIs
  <2>4. Truncate(t, Second) <= u /\ u < Truncate(t, Second) + Second
    BY <1>1, <2>1, <2>3
  <2>5. (u + Offset) \div Second = (t + Offset) \div Second
    BY <1>1, <2>2, <2>4, Sizes, SameUnit
  <2>6. Local(u).minute = Local(t).minute /\ Local(u).minute \in 0 .. Minute - 1
    BY <1>1, <2>5, LocalBounds
  <2>7. ~Denotes(expr.min, 0, Minute - 1, Local(u).minute)
    BY <1>1, <1>6, <2>6, ParsedFields
  <2> QED
    BY <2>7 DEF Fires
<1>7. ASSUME expr.sec # NoSeconds, Local(t).hour \in s.hours, Local(t).minute \in s.minutes
      PROVE  ~Fires(expr, u)
  <2>1. Skip = t + 1
    BY <1>2, <1>7 DEF Skip
  <2> QED
    BY <1>1, <2>1
<1> QED
  BY <1>4, <1>5, <1>6, <1>7

Listed(u) == \E i \in DOMAIN fires : fires[i] = u

\* Up to from every fire is in the list, and from there to t there is none.
ListInv ==
    /\ \A u \in begin + 1 .. from : Fires(expr, u) => Listed(u)
    /\ \A u \in from + 1 .. t - 1 : ~Fires(expr, u)

LEMMA ListStep ==
    ASSUME Endless, WholeMinuteZone, WholeHourZone, TypeOK, SearchInv, ListInv, [Next]_vars
    PROVE  ListInv'
<1>0. from \in Nat /\ t \in Nat /\ begin \in Nat /\ expr \in Expr /\ fires \in Seq(Nat)
  BY DEF TypeOK, SearchInv
<1>1. ASSUME UNCHANGED <<expr, begin, fires, from, t>> PROVE ListInv'
  <2>1. \A u : Fires(expr, u)' <=> Fires(expr, u)
    BY <1>1 DEF Fires, VixieDay, Local
  <2> QED
    BY <1>1, <2>1 DEF ListInv, Listed
<1>2. ASSUME UNCHANGED <<expr, begin, fires, from>>, t' \in Nat,
             \A u \in from + 1 .. t' - 1 : ~Fires(expr, u)
      PROVE  ListInv'
  <2>1. \A u : Fires(expr', u) <=> Fires(expr, u)
    BY <1>2
  <2> QED
    BY <1>2, <2>1 DEF ListInv, Listed
<1>3. CASE StartSearch
  <2>1. t' = Start /\ s = Parse(expr)
    BY <1>3 DEF StartSearch, TypeOK
  <2>2. /\ Start \in Nat /\ from < Start
        /\ expr.sec = NoSeconds => Start % Second = 0 /\ Start <= from + Second
        /\ expr.sec # NoSeconds => Start = from + 1
    BY <1>0, <2>1, StartIs
  <2>3. ASSUME NEW u \in from + 1 .. Start - 1 PROVE ~Fires(expr, u)
    <3>1. expr.sec = NoSeconds
      BY <1>0, <2>2, <2>3
    <3>2. u \in Nat
      <4> HIDE DEF Start
      <4> QED
        BY <1>0, <2>2
    <3>3. u % Second # 0
      <4>1. u \in Nat /\ from < u /\ u < Start /\ Second \in Nat \ {0}
        BY <1>0, <2>2, <3>2, Sizes
      <4> HIDE DEF Start
      <4>2. Start <= from + Second /\ Start % Second = 0
        BY <2>2, <3>1
      <4>3. SUFFICES ASSUME u % Second = 0 PROVE FALSE
        OBVIOUS
      <4>4. u < Start /\ Start < u + Second
        BY <1>0, <2>2, <4>1, <4>2
      <4> QED
        BY <2>2, <4>1, <4>2, <4>3, <4>4, BetweenMultiples
    <3>4. Offset % Second = 0
      BY <1>0, <3>1 DEF WholeMinuteZone
    <3>5. (u + Offset) % Second = u % Second
      BY <3>2, <3>4, Sizes, WholeUnits
    <3>6. Local(u).second # 0
      BY <3>2, <3>3, <3>5, LocalBounds
    <3> QED
      BY <3>1, <3>6 DEF Fires
  <2> QED
    BY <1>2, <1>3, <2>1, <2>2, <2>3 DEF StartSearch
<1>4. CASE GoOn
  <2>1. t' = Skip /\ Skip \in Nat /\ t < Skip
    BY <1>0, <1>4, SkipGrows DEF GoOn
  <2>2. \A u \in t .. Skip - 1 : ~Fires(expr, u)
    BY <1>4, SkipsNoFire
  <2>3. \A u \in from + 1 .. Skip - 1 : ~Fires(expr, u)
    BY <1>0, <2>1, <2>2 DEF ListInv
  <2> QED
    BY <1>2, <1>4, <2>1, <2>3 DEF GoOn
<1>5. CASE ListFire
  <2>1. /\ expr' = expr /\ begin' = begin /\ from' = t /\ t' = t
        /\ fires' = Append(fires, t)
    BY <1>5 DEF ListFire
  <2>2. /\ DOMAIN fires \subseteq DOMAIN fires'
        /\ \A i \in DOMAIN fires : fires'[i] = fires[i]
        /\ Len(fires) + 1 \in DOMAIN fires' /\ fires'[Len(fires) + 1] = t
    BY <1>0, <2>1
  <2>3. ASSUME NEW u \in begin + 1 .. t, Fires(expr, u)
        PROVE  \E i \in DOMAIN fires' : fires'[i] = u
    <3>1. CASE u \in begin + 1 .. from
      BY <2>2, <2>3, <3>1 DEF ListInv, Listed
    <3>2. CASE u = t
      BY <2>2, <3>2
    <3>3. CASE u \in from + 1 .. t - 1
      BY <2>3, <3>3 DEF ListInv
    <3> QED
      BY <1>0, <3>1, <3>2, <3>3
  <2>4. t + 1 .. t - 1 = {}
    BY <1>0
  <2> QED
    BY <2>1, <2>3, <2>4 DEF ListInv, Listed
<1> QED
  BY <1>1, <1>3, <1>4, <1>5 DEF Next, ParseExpr, Found, GiveUp, vars

LEMMA Lists ==
    ASSUME Endless, WholeMinuteZone, WholeHourZone
    PROVE  Spec => []ListInv
<1>1. Init => ListInv
  BY CronAssumption DEF Init, ListInv
<1> QED
  BY <1>1, ListStep, Searches, CronTypeCorrect, PTL DEF Spec

\* The search passes over no fire (NoFireSkipped), for every calendar, every length of
\* hours and minutes and every expression, in the zones that are off by whole hours;
\* whole minutes are enough for expressions without seconds.
THEOREM NoFireIsSkipped ==
    ASSUME Endless, WholeMinuteZone, WholeHourZone
    PROVE  Spec => []NoFireSkipped
<1>1. TypeOK /\ SearchInv /\ ListInv => NoFireSkipped
  <2> SUFFICES ASSUME TypeOK, SearchInv, ListInv,
                      NEW u \in begin + 1 .. t - 1, Fires(expr, u)
               PROVE  Listed(u)
    BY DEF NoFireSkipped, Listed
  <2>1. from \in Nat /\ t \in Nat /\ begin \in Nat
    BY DEF TypeOK, SearchInv
  <2>2. u \in begin + 1 .. from \/ u \in from + 1 .. t - 1
    BY <2>1
  <2> QED
    BY <2>2 DEF ListInv
<1> QED
  BY <1>1, Lists, Searches, CronTypeCorrect, PTL

\* Where both hold, what Next returns is the least fire after from (FoundIsNext): the
\* operator NextAfter on which the theorems about Scheduler rest.
THEOREM NextIsLeast ==
    ASSUME Endless, PlainStars, WholeMinuteZone, WholeHourZone
    PROVE  Spec => []FoundIsNext
<1>1. FoundIsAFire /\ ListInv => FoundIsNext
  BY DEF FoundIsAFire, ListInv, FoundIsNext
<1> QED
  BY <1>1, FoundFires, Lists, PTL

\* A search ends after as many rounds as there are seconds in four years at most
\* (SearchGoesOn), in every zone and for every expression.
THEOREM SearchEnds == Spec => SearchGoesOn
<1>1. TypeOK /\ [Next]_vars =>
      [pc = "search" => Limit' = Limit /\ (pc' = "search" => t < Limit /\ t < t')]_vars
  <2> SUFFICES ASSUME TypeOK, Next, pc = "search"
               PROVE  Limit' = Limit /\ (pc' = "search" => t < Limit /\ t < t')
    OBVIOUS
  <2>1. CASE GoOn
    BY <2>1, SkipGrows DEF GoOn, TypeOK, Limit
  <2> QED
    BY <2>1 DEF Next, ParseExpr, StartSearch, Found, ListFire, GiveUp, Limit
<1> QED
  BY <1>1, CronTypeCorrect, PTL DEF Spec, SearchGoesOn

\* A search gives up only if nothing fires before its limit (NoneBeforeLimit).
THEOREM GivesUpRightly ==
    ASSUME Endless, WholeMinuteZone, WholeHourZone
    PROVE  Spec => []NoneBeforeLimit
<1> DEFINE Passed == pc = "none" => t >= Limit
<1>1. Init => Passed
  BY DEF Init
<1>2. TypeOK /\ Passed /\ [Next]_vars => Passed'
  BY DEF Next, ParseExpr, StartSearch, Found, ListFire, GoOn, GiveUp, vars, Limit
<1>3. TypeOK /\ ListInv /\ Passed => NoneBeforeLimit
  BY Sizes DEF TypeOK, ListInv, NoneBeforeLimit, Limit
<1> QED
  BY <1>1, <1>2, <1>3, Lists, CronTypeCorrect, PTL DEF Spec
=============================================================================
