---- MODULE InstallationProofs ----
(***************************************************************************)
(* Proofs about the compiled model and Installation, for all profiles,     *)
(* shapes of channels, names, payloads and devices.  First what            *)
(* resolve_slugs, Merged and compile give, then the invariant: every model *)
(* the bridge has run on is one that compile gave, and the store, the      *)
(* readings and the commands fit it.  Last what a command goes through,    *)
(* control by control, and what a state sent back as a command does.       *)
(***************************************************************************)
EXTENDS Installation, FiniteSetTheorems, SequenceTheorems, TLAPS

----------------------------------------------------------------------------
(* Numbers.                                                                *)

\* A set of naturals with an upper bound and an element has a greatest one.
LEMMA Greatest ==
    ASSUME NEW S \in SUBSET Nat, NEW n \in Nat, \A s \in S : s <= n, S # {}
    PROVE  \E k \in S : \A j \in S : j <= k
<1> DEFINE T == {k..n : k \in S}
<1>1. T \subseteq FiniteSubsetsOf(Nat) /\ T # {}
  <2>1. \A k \in S : k..n \in SUBSET Nat /\ IsFiniteSet(k..n)
    BY FS_Interval
  <2> QED BY <2>1 DEF FiniteSubsetsOf
<1>2. PICK x \in T : \A y \in T : ~ (<<y, x>> \in StrictSubsetOrdering(Nat))
  BY <1>1, FS_StrictSubsetOrderingWellFounded, WFMin
<1>3. PICK k \in S : x = k..n
  OBVIOUS
<1>4. ASSUME NEW j \in S PROVE j <= k
  <2> SUFFICES ASSUME ~(j <= k) PROVE FALSE
    OBVIOUS
  <2>1. j..n \subseteq k..n /\ k \in k..n /\ k \notin j..n
    OBVIOUS
  <2>2. <<j..n, k..n>> \in StrictSubsetOrdering(Nat)
    BY <2>1 DEF StrictSubsetOrdering
  <2> QED BY <1>2, <1>3, <2>2
<1> QED BY <1>4

\* A set of naturals with an element has a least one.
LEMMA Least ==
    ASSUME NEW S \in SUBSET Nat, S # {}
    PROVE  \E k \in S : \A j \in S : k <= j
<1>1. PICK n \in S : TRUE
  OBVIOUS
<1> DEFINE T == {m \in 0..n : \A j \in S : m <= j}
<1>2. T \in SUBSET Nat /\ T # {} /\ \A m \in T : m <= n
  <2>1. 0 \in T
    OBVIOUS
  <2> QED BY <2>1
<1>3. PICK k \in T : \A m \in T : m <= k
  <2> HIDE DEF T
  <2> QED BY <1>2, Greatest
<1>4. k \in S
  <2> SUFFICES ASSUME k \notin S PROVE FALSE
    OBVIOUS
  <2>1. \A j \in S : k + 1 <= j
    BY <1>3
  <2>2. k + 1 \in T
    BY <1>1, <1>3, <2>1
  <2> QED BY <1>2, <1>3, <2>2
<1> QED BY <1>3, <1>4

\* A set that 0 is in, and with every number the next one, has all numbers to N.
LEMMA Upwards ==
    ASSUME NEW N \in Nat, NEW T, 0 \in T, \A n \in 1..N : n - 1 \in T => n \in T
    PROVE  \A n \in 0..N : n \in T
<1> DEFINE S == {n \in 0..N : \A m \in 0..n : m \in T}
<1>1. S \in SUBSET Nat /\ S # {} /\ \A n \in S : n <= N
  <2>1. 0 \in S
    OBVIOUS
  <2> QED BY <2>1
<1>2. PICK k \in S : \A n \in S : n <= k
  <2> HIDE DEF S
  <2> QED BY <1>1, Greatest
<1>3. k = N
  <2> SUFFICES ASSUME k # N PROVE FALSE
    OBVIOUS
  <2>1. k + 1 \in 1..N /\ k \in T
    BY <1>2
  <2>2. k + 1 \in T
    BY <2>1
  <2>3. k + 1 \in S
    BY <1>2, <2>1, <2>2
  <2> QED BY <1>2, <2>3
<1> QED BY <1>2, <1>3

\* Min and Max are in their set.
LEMMA MinIn ==
    ASSUME NEW S \in SUBSET Nat, S # {}
    PROVE  Min(S) \in S
<1>1. PICK k \in S : \A j \in S : k <= j
  BY Least
<1> QED BY <1>1 DEF Min

LEMMA MaxIn ==
    ASSUME NEW S \in SUBSET Nat, NEW n \in Nat, \A s \in S : s <= n, S # {}
    PROVE  Max(S) \in S
<1>1. PICK k \in S : \A j \in S : j <= k
  BY Greatest
<1>2. \A j \in S : k >= j
  BY <1>1
<1> QED BY <1>2 DEF Max

----------------------------------------------------------------------------
(* The codecs (codecs.py).                                                 *)

LEMMA BetweenIs ==
    ASSUME NEW low \in Int, NEW number \in Int, NEW high \in Int, low <= high
    PROVE  Between(low, number, high) =
                IF number < low THEN low ELSE IF number > high THEN high ELSE number
<1> DEFINE below == IF number <= high THEN number ELSE high
<1>1. Min({high, number}) = below
  BY DEF Min
<1>2. below \in Int
  OBVIOUS
<1>3. Max({low, below}) = IF low >= below THEN low ELSE below
  BY <1>2 DEF Max
<1> QED BY <1>1, <1>3 DEF Between

\* round() is the integer that is nearest.
LEMMA RoundIs ==
    ASSUME NEW n \in Int, NEW d \in Int, d > 0
    PROVE  /\ Round(n, d) \in Int
           /\ 2 * (n - d * Round(n, d)) <= d
           /\ 2 * (d * Round(n, d) - n) <= d
<1> DEFINE q == n \div d
           r == n % d
<1>1. q \in Int /\ r \in Int /\ n = d * q + r /\ 0 <= r /\ r < d
  OBVIOUS
<1>2. /\ Round(n, d) \in {q, q + 1}
      /\ Round(n, d) = q => 2 * r <= d
      /\ Round(n, d) = q + 1 => 2 * r >= d
  <2>1. Round(n, d) = IF 2 * r < d \/ (2 * r = d /\ q % 2 = 0) THEN q ELSE q + 1
    BY DEF Round
  <2> HIDE DEF q, r
  <2> QED BY <1>1, <2>1
<1> HIDE DEF q, r
<1>3. d * (q + 1) = d * q + d /\ d * q \in Int
  BY <1>1
<1> DEFINE dq == d * q
<1>4. dq \in Int /\ n = dq + r /\ d * (q + 1) = dq + d
  BY <1>1, <1>3
<1> HIDE DEF dq
<1>5. CASE Round(n, d) = q
  BY <1>1, <1>2, <1>4, <1>5 DEF dq
<1>6. CASE Round(n, d) = q + 1
  <2>1. d * Round(n, d) = dq + d
    BY <1>4, <1>6
  <2> QED BY <1>1, <1>2, <1>4, <1>6, <2>1
<1> QED BY <1>2, <1>5, <1>6

LEMMA PercentIs ==
    ASSUME NEW t \in Int
    PROVE  /\ clamp_percent(t) \in 0..100
           /\ t \in 0..1000 =>
                2 * (t - 10 * clamp_percent(t)) <= 10 /\ 2 * (10 * clamp_percent(t) - t) <= 10
           /\ \A p \in 0..100 : t = 10 * p => clamp_percent(t) = p
<1> DEFINE r == Round(t, 10)
<1>1. r \in Int /\ 2 * (t - 10 * r) <= 10 /\ 2 * (10 * r - t) <= 10
  BY RoundIs
<1> HIDE DEF r
<1>2. Between(0, r, 100) = IF r < 0 THEN 0 ELSE IF r > 100 THEN 100 ELSE r
  BY <1>1, BetweenIs
<1>3. clamp_percent(t) = Between(0, r, 100)
  BY DEF clamp_percent, r
<1>4. ASSUME NEW p \in 0..100, t = 10 * p PROVE r = p
  BY <1>1, <1>4
<1>5. ASSUME NEW p \in 0..100, t = 10 * p PROVE clamp_percent(t) = p
  BY <1>2, <1>3, <1>4, <1>5
<1>6. clamp_percent(t) \in 0..100
  BY <1>1, <1>2, <1>3
<1>7. ASSUME t \in 0..1000
      PROVE  2 * (t - 10 * clamp_percent(t)) <= 10 /\ 2 * (10 * clamp_percent(t) - t) <= 10
  BY <1>1, <1>2, <1>3, <1>7
<1> QED BY <1>5, <1>6, <1>7

LEMMA TruncatedIs ==
    ASSUME NEW t \in Int
    PROVE  /\ Truncated(t) \in Int
           /\ \A k \in Int : t = 10 * k => Truncated(t) = k
<1>1. CASE t >= 0
  BY <1>1 DEF Truncated
<1>2. CASE t < 0
  <2>1. Truncated(t) = -((-t) \div 10)
    BY <1>2 DEF Truncated
  <2> QED BY <1>2, <2>1
<1> QED BY <1>1, <1>2

\* What a codec of numbers reads and writes.
LEMMA NumbersAre ==
    ASSUME NEW codec
    PROVE  /\ codec.kind = "int" => \A t \in Int :
                /\ \A form \in {"int", "dec"} : decode(codec, <<form, t>>) = Num(10 * Truncated(t))
                /\ encode(codec, Num(t)) = <<"int", 10 * Truncated(t)>>
           /\ codec.kind = "float" => \A t \in Int :
                /\ \A form \in {"int", "dec"} : decode(codec, <<form, t>>) = Num(t)
                /\ encode(codec, Num(t)) = <<"dec", t>>
           /\ codec.kind = "percent_int" => \A t \in Int :
                /\ \A form \in {"int", "dec"} : decode(codec, <<form, t>>) = Num(10 * clamp_percent(t))
                /\ encode(codec, Num(t)) = <<"int", 10 * clamp_percent(t)>>
           /\ codec.kind = "percent_inverted" => \A t \in Int :
                /\ \A form \in {"int", "dec"} :
                    decode(codec, <<form, t>>) = Num(10 * (100 - clamp_percent(t)))
                /\ encode(codec, Num(t)) = <<"int", 10 * (100 - clamp_percent(t))>>
<1>1. \A t \in Int : /\ \A form \in {"int", "dec"} : parse_finite_float(<<form, t>>) /\ <<form, t>>[2] = t
                     /\ FloatTakes(Num(t)) /\ Num(t)[1] = "num" /\ Tenths(Num(t)) = t
  BY DEF parse_finite_float, FloatTakes, IsNumber, Tenths, Num
<1>2. CASE codec.kind = "int"
  BY <1>1, <1>2 DEF decode, encode, Whole
<1>3. CASE codec.kind = "float"
  BY <1>1, <1>3 DEF decode, encode, Decimal
<1>4. CASE codec.kind = "percent_int"
  BY <1>1, <1>4 DEF decode, encode, Whole
<1>5. CASE codec.kind = "percent_inverted"
  BY <1>1, <1>5 DEF decode, encode, Whole
<1> QED BY <1>2, <1>3, <1>4, <1>5

\* Two percentages of a span that round to the same whole are one, or show the same.
RoundedTwice(span, p, k, x) ==
    /\ 2 * (10 * (span * p) - 1000 * k) <= 1000 /\ 2 * (1000 * k - 10 * (span * p)) <= 1000
    /\ 2 * (100 * k - span * x) <= span /\ 2 * (span * x - 100 * k) <= span
Steady(span, p, k, x) ==
    /\ x \in 0..100
    /\ \/ x = p
       \/ 2 * (10 * (span * x) - 1000 * k) < 1000 /\ 2 * (1000 * k - 10 * (span * x)) < 1000

LEMMA SpanIs ==
    ASSUME NEW span \in Int, span > 0, NEW p \in 0..100, NEW k \in Int, NEW x \in Int,
           RoundedTwice(span, p, k, x)
    PROVE  Steady(span, p, k, x)
<1> USE DEF RoundedTwice, Steady
<1> DEFINE sp == span * p
           sx == span * x
<1>1. /\ sp \in Int /\ sx \in Int
      /\ sp >= 0 /\ sp <= 100 * span
  OBVIOUS
<1>2. /\ x >= p + 1 => sx >= sp + span
      /\ x <= p - 1 => sx <= sp - span
      /\ x <= -1 => sx <= -span
      /\ x >= 101 => sx >= 101 * span
      /\ sp >= 0 /\ sp <= 100 * span
  <2>1. \A a \in Nat : span * a >= 0
    OBVIOUS
  <2>2. /\ x >= p + 1 => span * (x - p - 1) >= 0
        /\ x <= p - 1 => span * (p - 1 - x) >= 0
        /\ x <= -1 => span * (-1 - x) >= 0
        /\ x >= 101 => span * (x - 101) >= 0
    BY <2>1
  <2>3. /\ span * (x - p - 1) = sx - sp - span
        /\ span * (p - 1 - x) = sp - span - sx
        /\ span * (-1 - x) = -span - sx
        /\ span * (x - 101) = sx - 101 * span
    OBVIOUS
  <2> HIDE DEF sp, sx
  <2> QED BY <1>1, <2>2, <2>3
<1>3. /\ 2 * (10 * sp - 1000 * k) <= 1000 /\ 2 * (1000 * k - 10 * sp) <= 1000
      /\ 2 * (100 * k - sx) <= span /\ 2 * (sx - 100 * k) <= span
  OBVIOUS
<1> HIDE DEF sp, sx
<1>4. k >= 0 /\ k <= span
  BY <1>1, <1>3
<1>5. x >= 0 /\ x <= 100
  BY <1>2, <1>3, <1>4
<1>6. CASE span >= 100
  BY <1>1, <1>2, <1>3, <1>6
<1>7. CASE span < 100
  BY <1>1, <1>3, <1>7 DEF sx
<1> QED BY <1>5, <1>6, <1>7 DEF sx

\* Sent back, a value that a device has reported is reported again, whatever the wire said:
\* by every codec of numbers and booleans but the colour temperature (codecs.py).
THEOREM ShownIsStable ==
    ASSUME NEW codec, codec.kind \in {"bool01", "int", "float", "percent_int", "percent_inverted"},
           NEW form, NEW t \in Int, decode(codec, <<form, t>>) # None
    PROVE  decode(codec, encode(codec, decode(codec, <<form, t>>))) = decode(codec, <<form, t>>)
<1> DEFINE shown == decode(codec, <<form, t>>)
<1>1. CASE codec.kind = "bool01"
  <2>1. shown = IF <<form, t>> = Whole(1) THEN Bool(TRUE)
                ELSE IF <<form, t>> = Whole(0) THEN Bool(FALSE) ELSE None
    BY <1>1 DEF decode
  <2>2. shown \in {Bool(TRUE), Bool(FALSE)}
    BY <2>1
  <2> HIDE DEF shown
  <2>3. encode(codec, Bool(TRUE)) = Whole(1) /\ encode(codec, Bool(FALSE)) = Whole(0)
    BY <1>1 DEF encode, encode_bool01, parse_finite_float, Bool, None, Tenths
  <2>4. decode(codec, Whole(1)) = Bool(TRUE) /\ decode(codec, Whole(0)) = Bool(FALSE)
    BY <1>1 DEF decode, Whole
  <2>5. decode(codec, encode(codec, shown)) = shown
    BY <2>2, <2>3, <2>4
  <2> QED BY <2>5 DEF shown
<1>2. CASE codec.kind # "bool01"
  <2>1. codec.kind \in {"int", "float", "percent_int", "percent_inverted"}
    BY <1>2
  <2>2. form \in {"int", "dec"}
    BY <2>1 DEF decode, parse_finite_float
  <2>3. CASE codec.kind = "int"
    <3> DEFINE n == Truncated(t)
    <3>1. n \in Int
      BY TruncatedIs
    <3>2. shown = Num(10 * n)
      BY <2>2, <2>3, NumbersAre
    <3> HIDE DEF n, shown
    <3> DEFINE m == 10 * n
    <3>3. m \in Int /\ Truncated(m) = n
      BY <3>1, TruncatedIs
    <3> HIDE DEF m
    <3>4. encode(codec, Num(m)) = <<"int", 10 * Truncated(m)>>
      BY <2>3, <3>3, NumbersAre
    <3>5. decode(codec, <<"int", m>>) = Num(10 * Truncated(m))
      BY <2>3, <3>3, NumbersAre
    <3> QED BY <3>2, <3>3, <3>4, <3>5 DEF m, shown
  <2>4. CASE codec.kind = "float"
    <3>1. shown = Num(t)
      BY <2>2, <2>4, NumbersAre
    <3> HIDE DEF shown
    <3>2. encode(codec, shown) = <<"dec", t>> /\ decode(codec, <<"dec", t>>) = shown
      BY <2>4, <3>1, NumbersAre
    <3> QED BY <3>2 DEF shown
  <2>5. CASE codec.kind = "percent_int"
    <3> DEFINE p == clamp_percent(t)
    <3>1. p \in 0..100
      BY PercentIs
    <3>2. shown = Num(10 * p)
      BY <2>2, <2>5, NumbersAre
    <3> HIDE DEF p, shown
    <3> DEFINE m == 10 * p
    <3>3. m \in Int /\ clamp_percent(m) = p
      BY <3>1, PercentIs
    <3> HIDE DEF m
    <3>4. encode(codec, Num(m)) = <<"int", 10 * clamp_percent(m)>>
      BY <2>5, <3>3, NumbersAre
    <3>5. decode(codec, <<"int", m>>) = Num(10 * clamp_percent(m))
      BY <2>5, <3>3, NumbersAre
    <3> QED BY <3>2, <3>3, <3>4, <3>5 DEF m, shown
  <2>6. CASE codec.kind = "percent_inverted"
    <3> DEFINE p == clamp_percent(t)
               q == 100 - p
    <3>1. p \in 0..100
      BY PercentIs
    <3>2. shown = Num(10 * q)
      BY <2>2, <2>6, NumbersAre
    <3> HIDE DEF p, shown
    <3>3. q \in 0..100 /\ 100 - q = p
      BY <3>1
    <3> HIDE DEF q
    <3> DEFINE m == 10 * p
               n == 10 * q
    <3>4. m \in Int /\ clamp_percent(m) = p /\ n \in Int /\ clamp_percent(n) = q
      BY <3>1, <3>3, PercentIs
    <3> HIDE DEF m, n
    <3>5. encode(codec, Num(n)) = <<"int", 10 * (100 - clamp_percent(n))>>
      BY <2>6, <3>4, NumbersAre
    <3>6. decode(codec, <<"int", m>>) = Num(10 * (100 - clamp_percent(m)))
      BY <2>6, <3>4, NumbersAre
    <3>7. /\ 10 * (100 - clamp_percent(n)) = m
          /\ 10 * (100 - clamp_percent(m)) = n
      BY <3>3, <3>4 DEF m, n, q
    <3> QED BY <3>2, <3>5, <3>6, <3>7 DEF n, shown
  <2> QED BY <2>1, <2>3, <2>4, <2>5, <2>6
<1> QED BY <1>1, <1>2

\* A percentage that is sent shows as the one that is nearest to it (CommandsLand).
THEOREM SentIsNearest ==
    ASSUME NEW codec, codec.kind \in {"percent_int", "percent_inverted"},
           NEW t \in 0..1000, NEW percent \in 0..100
    PROVE  Distance(decode(codec, encode(codec, Num(t)))[2], t) <=
               Distance(decode(codec, Whole(percent))[2], t)
<1> DEFINE p == clamp_percent(t)
           q == 100 - p
           m == 10 * p
           n == 10 * q
           w == 10 * percent
<1>1. p \in 0..100 /\ 2 * (t - 10 * p) <= 10 /\ 2 * (10 * p - t) <= 10
  BY PercentIs
<1> HIDE DEF p
<1>2. q \in 0..100 /\ 100 - q = p
  BY <1>1
<1> HIDE DEF q
<1>3. /\ m \in Int /\ clamp_percent(m) = p
      /\ n \in Int /\ clamp_percent(n) = q
      /\ w \in Int /\ clamp_percent(w) = percent
  <2>1. \A x \in 0..100 : 10 * x \in Int /\ clamp_percent(10 * x) = x
    BY PercentIs
  <2> QED BY <1>1, <1>2, <2>1
<1>4. t \in Int
  OBVIOUS
<1> HIDE DEF m, n, w
<1>5. Whole(percent) = <<"int", w>>
  BY DEF Whole, w
<1>6. CASE codec.kind = "percent_int"
  <2>1. encode(codec, Num(t)) = <<"int", 10 * clamp_percent(t)>>
    BY <1>4, <1>6, NumbersAre
  <2>2. decode(codec, <<"int", m>>) = Num(10 * clamp_percent(m))
    BY <1>3, <1>6, NumbersAre
  <2>3. decode(codec, <<"int", w>>) = Num(10 * clamp_percent(w))
    BY <1>3, <1>6, NumbersAre
  <2>4. encode(codec, Num(t)) = <<"int", m>>
    BY <2>1 DEF m, p
  <2>5. decode(codec, encode(codec, Num(t)))[2] = m /\ decode(codec, Whole(percent))[2] = w
    BY <1>3, <1>5, <2>2, <2>3, <2>4 DEF Num, m, w
  <2>6. Distance(m, t) <= Distance(w, t)
    BY <1>1 DEF Distance, m, w
  <2> QED BY <2>5, <2>6
<1>7. CASE codec.kind = "percent_inverted"
  <2>1. encode(codec, Num(t)) = <<"int", 10 * (100 - clamp_percent(t))>>
    BY <1>4, <1>7, NumbersAre
  <2>2. decode(codec, <<"int", n>>) = Num(10 * (100 - clamp_percent(n)))
    BY <1>3, <1>7, NumbersAre
  <2>3. decode(codec, <<"int", w>>) = Num(10 * (100 - clamp_percent(w)))
    BY <1>3, <1>7, NumbersAre
  <2>4. encode(codec, Num(t)) = <<"int", n>>
    BY <2>1 DEF n, q, p
  <2> DEFINE v == 10 * (100 - percent)
  <2>5. decode(codec, encode(codec, Num(t)))[2] = m /\ decode(codec, Whole(percent))[2] = v
    BY <1>2, <1>3, <1>5, <2>2, <2>3, <2>4 DEF Num, m
  <2>6. Distance(m, t) <= Distance(v, t)
    BY <1>1 DEF Distance, m
  <2> QED BY <2>5, <2>6
<1> QED BY <1>6, <1>7

\* A colour temperature that a device has reported as a whole percentage, sent back, is
\* reported again: Kelvins that are rounded twice do not drift, however wide the channel's
\* bounds are apart (codecs.py color_temp_pct).
THEOREM TemperatureIsStable ==
    ASSUME NEW codec, codec.kind = "color_temp_pct",
           codec.warmest \in Int, codec.coolest \in Int, codec.warmest < codec.coolest,
           NEW percent \in 0..100
    PROVE  decode(codec, encode(codec, decode(codec, Whole(percent)))) = decode(codec, Whole(percent))
<1> DEFINE low == codec.warmest
           span == codec.coolest - codec.warmest
           Kelvin(p) == Round(1000 * low + span * Between(0, 10 * p, 1000), 1000)
           K == Kelvin(percent)
           k == K - low
           x == Round(10 * (10 * K - 10 * low), span)
<1>1. \A p \in 0..100 : Between(0, 10 * p, 1000) = 10 * p
  <2>1. \A p \in 0..100 : 10 * p \in Int /\ ~(10 * p < 0) /\ ~(10 * p > 1000)
    OBVIOUS
  <2>2. \A n \in Int : Between(0, n, 1000) = IF n < 0 THEN 0 ELSE IF n > 1000 THEN 1000 ELSE n
    BY BetweenIs
  <2> QED BY <2>1, <2>2
<1>2. ASSUME NEW p \in 0..100 PROVE decode(codec, Whole(p)) = Num(10 * Kelvin(p))
  <2>1. parse_finite_float(Whole(p)) /\ Whole(p)[2] = 10 * p
    BY DEF parse_finite_float, Whole
  <2> QED BY <2>1 DEF decode
<1>3. low \in Int /\ span \in Int /\ span > 0
  OBVIOUS
<1>4. encode(codec, Num(10 * K)) = Whole(Between(0, x, 100))
  <2> HIDE DEF K
  <2>1. FloatTakes(Num(10 * K)) /\ Tenths(Num(10 * K)) = 10 * K
    BY DEF FloatTakes, IsNumber, Tenths, Num
  <2> QED BY <1>3, <2>1 DEF encode
<1> HIDE DEF low, span
<1>5. ASSUME NEW p \in 0..100
      PROVE  /\ Kelvin(p) \in Int
             /\ 2 * (1000 * low + 10 * (span * p) - 1000 * Kelvin(p)) <= 1000
             /\ 2 * (1000 * Kelvin(p) - 1000 * low - 10 * (span * p)) <= 1000
  <2> DEFINE n == 1000 * low + 10 * (span * p)
  <2>1. n \in Int /\ 1000 * low + span * (10 * p) = n
    BY <1>3
  <2>2. Kelvin(p) = Round(n, 1000)
    BY <1>1, <2>1
  <2> HIDE DEF n, Kelvin
  <2>3. Round(n, 1000) \in Int /\ 2 * (n - 1000 * Round(n, 1000)) <= 1000 /\ 2 * (1000 * Round(n, 1000) - n) <= 1000
    BY <2>1, RoundIs
  <2>4. span * p \in Int
    BY <1>3
  <2> QED BY <1>3, <2>2, <2>3, <2>4 DEF n
<1> HIDE DEF Kelvin
<1>6. K \in Int
  BY <1>5
<1> HIDE DEF K
<1>7. /\ k \in Int /\ 10 * (10 * K - 10 * low) = 100 * k
      /\ 2 * (10 * (span * percent) - 1000 * k) <= 1000
      /\ 2 * (1000 * k - 10 * (span * percent)) <= 1000
  <2>1. span * percent \in Int
    BY <1>3
  <2>2. /\ 2 * (1000 * low + 10 * (span * percent) - 1000 * K) <= 1000
        /\ 2 * (1000 * K - 1000 * low - 10 * (span * percent)) <= 1000
    BY <1>5 DEF K
  <2> QED BY <1>3, <1>6, <2>1, <2>2
<1>8. x \in Int /\ 2 * (100 * k - span * x) <= span /\ 2 * (span * x - 100 * k) <= span
  <2>1. 100 * k \in Int /\ x = Round(100 * k, span)
    BY <1>7
  <2> HIDE DEF x, k
  <2> QED BY <1>3, <2>1, RoundIs
<1> HIDE DEF x
<1>9. /\ x \in 0..100
      /\ \/ x = percent
         \/ 2 * (10 * (span * x) - 1000 * k) < 1000 /\ 2 * (1000 * k - 10 * (span * x)) < 1000
  <2>1. RoundedTwice(span, percent, k, x)
    BY <1>7, <1>8 DEF RoundedTwice
  <2>2. k \in Int
    BY <1>7
  <2> HIDE DEF k
  <2>3. Steady(span, percent, k, x)
    BY <1>3, <1>8, <2>1, <2>2, SpanIs
  <2> QED BY <2>3 DEF Steady
<1>10. Kelvin(x) = K
  <2>1. CASE x = percent
    BY <2>1 DEF K
  <2>2. CASE x # percent
    <3>1. span * x \in Int
      BY <1>3, <1>9
    <3>2. /\ Kelvin(x) \in Int
          /\ 2 * (1000 * low + 10 * (span * x) - 1000 * Kelvin(x)) <= 1000
          /\ 2 * (1000 * Kelvin(x) - 1000 * low - 10 * (span * x)) <= 1000
      BY <1>5, <1>9
    <3>3. 2 * (10 * (span * x) - 1000 * (K - low)) < 1000 /\ 2 * (1000 * (K - low) - 10 * (span * x)) < 1000
      BY <1>9, <2>2
    <3> DEFINE a == span * x
               b == Kelvin(x)
    <3> HIDE DEF k, a, b
    <3>4. /\ a \in Int /\ b \in Int
          /\ 2 * (1000 * low + 10 * a - 1000 * b) <= 1000 /\ 2 * (1000 * b - 1000 * low - 10 * a) <= 1000
          /\ 2 * (10 * a - 1000 * (K - low)) < 1000 /\ 2 * (1000 * (K - low) - 10 * a) < 1000
      BY <3>1, <3>2, <3>3 DEF a, b
    <3>5. b = K
      BY <1>3, <1>6, <3>4
    <3> QED BY <3>5 DEF b
  <2> QED BY <2>1, <2>2
<1>11. Between(0, x, 100) = x
  BY <1>9, BetweenIs
<1>12. decode(codec, Whole(percent)) = Num(10 * K)
  BY <1>2 DEF K
<1>13. decode(codec, Whole(x)) = Num(10 * K)
  BY <1>2, <1>9, <1>10
<1> QED BY <1>4, <1>11, <1>12, <1>13

----------------------------------------------------------------------------
(* The naming of the entities (naming.py resolve_slugs).                   *)

\* f is the recursive function of resolve_slugs, up to the N-th candidate.
IsClaims(f, candidates, N) ==
    f = [n \in 0..N |-> IF n = 0 THEN <<>> ELSE Claim(f[n - 1], candidates[n], candidates)]

LEMMA ClaimsValues ==
    ASSUME NEW N \in Nat, NEW candidates, NEW f, IsClaims(f, candidates, N), NEW n \in 0..N
    PROVE  f[n] = IF n = 0 THEN <<>> ELSE Claim(f[n - 1], candidates[n], candidates)
  BY DEF IsClaims

LEMMA ClaimsExist ==
    ASSUME NEW N \in Nat, NEW candidates
    PROVE  \E f : IsClaims(f, candidates, N)
<1> DEFINE T == {n \in 0..N : \E f : IsClaims(f, candidates, n)}
<1>1. 0 \in T
  <2>1. IsClaims([n \in 0..0 |-> <<>>], candidates, 0)
    BY DEF IsClaims
  <2> QED BY <2>1
<1>2. ASSUME NEW n \in 1..N, n - 1 \in T PROVE n \in T
  <2>1. PICK f : IsClaims(f, candidates, n - 1)
    BY <1>2
  <2> DEFINE E(g, m) == IF m = 0 THEN <<>> ELSE Claim(g[m - 1], candidates[m], candidates)
  <2> DEFINE g == [m \in 0..n |-> IF m = n THEN Claim(f[n - 1], candidates[n], candidates) ELSE f[m]]
  <2>2. \A m \in 0..(n - 1) : f[m] = E(f, m)
    BY <2>1 DEF IsClaims
  <2>3. \A m \in 0..(n - 1) : g[m] = f[m]
    OBVIOUS
  <2>4. ASSUME NEW m \in 0..n PROVE g[m] = E(g, m)
    <3>1. CASE m = n
      <4>1. n # 0 /\ n - 1 \in 0..(n - 1)
        OBVIOUS
      <4>2. g[n - 1] = f[n - 1] /\ g[n] = Claim(f[n - 1], candidates[n], candidates)
        BY <2>3, <4>1
      <4> HIDE DEF g
      <4> QED BY <3>1, <4>1, <4>2
    <3>2. CASE m # n
      <4>1. m \in 0..(n - 1) /\ (m # 0 => m - 1 \in 0..(n - 1))
        BY <3>2
      <4> HIDE DEF g
      <4> QED BY <2>2, <2>3, <4>1
    <3> QED BY <3>1, <3>2
  <2>5. g = [m \in 0..n |-> g[m]]
    OBVIOUS
  <2>6. IsClaims(g, candidates, n)
    <3> HIDE DEF g
    <3> QED BY <2>4, <2>5 DEF IsClaims
  <2> HIDE DEF g
  <2> QED BY <2>6
<1> HIDE DEF T
<1>3. N \in T
  BY <1>1, <1>2, Upwards
<1> QED BY <1>3 DEF T

LEMMA ResolveIs ==
    ASSUME NEW candidates, Len(candidates) \in Nat
    PROVE  \E f : /\ IsClaims(f, candidates, Len(candidates))
                  /\ resolve_slugs(candidates) = f[Len(candidates)]
<1>1. resolve_slugs(candidates) =
        (CHOOSE f : IsClaims(f, candidates, Len(candidates)))[Len(candidates)]
  BY DEF resolve_slugs, IsClaims
<1> QED BY <1>1, ClaimsExist

\* Three or four options, the plain slug first.
LEMMA OptionsAre ==
    ASSUME NEW c
    PROVE  /\ DOMAIN slug_options(c) = 1..Len(slug_options(c))
           /\ Len(slug_options(c)) \in Nat /\ Len(slug_options(c)) >= 3
           /\ slug_options(c)[1] = slugify(c.name)
           /\ DOMAIN Tail(slug_options(c)) = 1..(Len(slug_options(c)) - 1)
           /\ \A k \in DOMAIN Tail(slug_options(c)) :
                 Tail(slug_options(c))[k] = slug_options(c)[k + 1]
<1> DEFINE local == slugify(c.area \o c.name)
           plain == slugify(c.name)
           exact == Append(local, c.id[2])
           options == slug_options(c)
<1>1. options = <<plain, exact, c.id>> \/ options = <<plain, local, exact, c.id>>
  BY DEF slug_options
<1> DEFINE S == {plain, local, exact, c.id}
<1> HIDE DEF local, plain, exact, options
<1>2. options \in Seq(S) /\ Len(options) >= 3 /\ options[1] = plain
  <2>1. CASE options = <<plain, exact, c.id>>
    BY <2>1
  <2>2. CASE options = <<plain, local, exact, c.id>>
    BY <2>2
  <2> QED BY <1>1, <2>1, <2>2
<1> HIDE DEF S
<1>3. /\ Tail(options) \in Seq(S)
      /\ Len(Tail(options)) = Len(options) - 1
      /\ \A k \in 1..Len(Tail(options)) : Tail(options)[k] = options[k + 1]
  BY <1>2, HeadTailProperties
<1> QED BY <1>2, <1>3 DEF options, plain

\* What a candidate may claim is an option of its own, and not the plain slug
\* where that is shared.
LEMMA EligibleAre ==
    ASSUME NEW c, NEW candidates, NEW k \in DOMAIN Eligible(c, candidates)
    PROVE  \E p \in DOMAIN slug_options(c) :
              /\ slug_options(c)[p] = Eligible(c, candidates)[k]
              /\ p = 1 => ~Shared(c, candidates)
<1> DEFINE options == slug_options(c)
<1>1. /\ DOMAIN options = 1..Len(options) /\ Len(options) \in Nat /\ Len(options) >= 3
      /\ DOMAIN Tail(options) = 1..(Len(options) - 1)
      /\ \A n \in DOMAIN Tail(options) : Tail(options)[n] = options[n + 1]
  BY OptionsAre
<1> HIDE DEF options
<1>2. CASE ~Shared(c, candidates)
  <2>1. Eligible(c, candidates) = options
    BY <1>2 DEF Eligible, options
  <2> QED BY <1>2, <2>1 DEF options
<1>3. CASE Shared(c, candidates)
  <2>1. Eligible(c, candidates) = Tail(options)
    BY <1>3 DEF Eligible, options
  <2>2. k \in 1..(Len(options) - 1) /\ Eligible(c, candidates)[k] = options[k + 1]
    BY <1>1, <2>1
  <2>3. k + 1 \in DOMAIN options /\ k + 1 # 1
    BY <1>1, <2>2
  <2> QED BY <2>2, <2>3 DEF options
<1> QED BY <1>2, <1>3

\* Slugs given so far: to candidates, each one of its own options, none twice.
Fair(claimed, candidates) ==
    /\ DOMAIN claimed \subseteq {candidates[n].id : n \in DOMAIN candidates}
    /\ \A id \in DOMAIN claimed : \E n \in DOMAIN candidates :
          /\ candidates[n].id = id
          /\ claimed[id] \in Range(Eligible(candidates[n], candidates))
    /\ \A id, other \in DOMAIN claimed : claimed[id] = claimed[other] => id = other

LEMMA ClaimIsFair ==
    ASSUME NEW candidates, NEW n \in DOMAIN candidates, NEW claimed, Fair(claimed, candidates)
    PROVE  Fair(Claim(claimed, candidates[n], candidates), candidates)
<1> DEFINE c == candidates[n]
           options == Eligible(c, candidates)
           free == {k \in DOMAIN options : options[k] \notin Range(claimed)}
<1>1. DOMAIN options \subseteq Nat
  <2> DEFINE all == slug_options(c)
  <2>1. /\ DOMAIN all = 1..Len(all) /\ Len(all) \in Nat
        /\ DOMAIN Tail(all) = 1..(Len(all) - 1)
    BY OptionsAre
  <2>2. options = all \/ options = Tail(all)
    BY DEF Eligible
  <2> HIDE DEF all, options
  <2> QED BY <2>1, <2>2
<1>2. CASE free = {}
  <2>1. Claim(claimed, c, candidates) = claimed
    BY <1>2 DEF Claim
  <2> QED BY <2>1
<1>3. CASE free # {}
  <2> DEFINE slug == options[Min(free)]
             next == Put(claimed, c.id, slug)
  <2>1. Claim(claimed, c, candidates) = next
    BY <1>3 DEF Claim
  <2>2. Min(free) \in free
    <3>1. free \in SUBSET Nat
      BY <1>1
    <3> HIDE DEF free
    <3> QED BY <1>3, <3>1, MinIn
  <2>3. slug \in Range(options) /\ slug \notin Range(claimed)
    BY <2>2 DEF Range
  <2> HIDE DEF slug, options, free
  <2>4. /\ DOMAIN next = {c.id} \cup DOMAIN claimed
        /\ next[c.id] = slug
        /\ \A id \in DOMAIN claimed \ {c.id} : next[id] = claimed[id]
    BY DEF Put
  <2>5. DOMAIN next \subseteq {candidates[m].id : m \in DOMAIN candidates}
    BY <2>4 DEF Fair
  <2>6. ASSUME NEW id \in DOMAIN next
        PROVE  \E m \in DOMAIN candidates :
                  /\ candidates[m].id = id
                  /\ next[id] \in Range(Eligible(candidates[m], candidates))
    <3>1. CASE id = c.id
      BY <2>3, <2>4, <3>1 DEF options
    <3>2. CASE id # c.id
      BY <2>4, <2>6, <3>2 DEF Fair
    <3> QED BY <3>1, <3>2
  <2>7. ASSUME NEW id \in DOMAIN next, NEW other \in DOMAIN next, next[id] = next[other]
        PROVE  id = other
    <3>1. \A x \in DOMAIN claimed : claimed[x] # slug
      BY <2>3 DEF Range
    <3> HIDE DEF next
    <3> QED BY <2>4, <2>7, <3>1 DEF Fair
  <2> HIDE DEF next
  <2>8. Fair(next, candidates)
    BY <2>5, <2>6, <2>7 DEF Fair
  <2> QED BY <2>1, <2>8
<1> QED BY <1>2, <1>3

LEMMA ResolveIsFair ==
    ASSUME NEW candidates, Len(candidates) \in Nat, DOMAIN candidates = 1..Len(candidates)
    PROVE  Fair(resolve_slugs(candidates), candidates)
<1> DEFINE N == Len(candidates)
<1>1. PICK f : IsClaims(f, candidates, N) /\ resolve_slugs(candidates) = f[N]
  BY ResolveIs
<1> DEFINE T == {n \in 0..N : Fair(f[n], candidates)}
<1> HIDE DEF N
<1>2. N \in Nat /\ DOMAIN candidates = 1..N
  BY DEF N
<1>3. 0 \in T
  <2>1. f[0] = <<>>
    BY <1>1, <1>2, ClaimsValues
  <2> QED BY <1>2, <2>1 DEF Fair
<1>4. ASSUME NEW n \in 1..N, n - 1 \in T PROVE n \in T
  <2>1. f[n] = Claim(f[n - 1], candidates[n], candidates)
    BY <1>1, <1>2, ClaimsValues
  <2>2. Fair(f[n], candidates)
    BY <1>2, <1>4, <2>1, ClaimIsFair
  <2> QED BY <1>2, <2>2
<1> HIDE DEF T
<1>5. N \in T
  BY <1>2, <1>3, <1>4, Upwards
<1> QED BY <1>1, <1>5 DEF T

----------------------------------------------------------------------------
(* The compiled model (compiler.py).                                       *)

\* How many of a set of numbers come before one.
Before(at, n) == Cardinality({m \in at : m < n})

\* Every number of a set has a rank of its own, and every rank below its size is one.
LEMMA Ranks ==
    ASSUME NEW N \in Nat, NEW at \in SUBSET (1..N)
    PROVE  /\ Cardinality(at) \in Nat
           /\ \A n \in at : Before(at, n) \in 0..(Cardinality(at) - 1)
           /\ \A m, n \in at : Before(at, m) = Before(at, n) => m = n
           /\ \A k \in 1..Cardinality(at) : \E n \in at : Before(at, n) = k - 1
<1> DEFINE c == Cardinality(at)
           Low(n) == {m \in at : m < n}
           r == [n \in at |-> Before(at, n)]
<1>1. IsFiniteSet(at) /\ c \in Nat
  <2>1. IsFiniteSet(1..N)
    BY FS_Interval
  <2>2. IsFiniteSet(at)
    BY <2>1, FS_Subset
  <2> QED BY <2>2, FS_CardinalityType
<1>2. ASSUME NEW n \in at
      PROVE  IsFiniteSet(Low(n)) /\ Cardinality(Low(n)) \in Nat /\ Low(n) \in SUBSET at
  <2>1. Low(n) \in SUBSET at
    OBVIOUS
  <2> HIDE DEF Low
  <2> QED BY <1>1, <2>1, FS_Subset, FS_CardinalityType
<1>3. ASSUME NEW n \in at PROVE Cardinality(Low(n)) \in 0..(c - 1)
  <2>1. Low(n) \in SUBSET (at \ {n})
    OBVIOUS
  <2>2. IsFiniteSet(at \ {n}) /\ Cardinality(at \ {n}) = c - 1
    BY <1>1, FS_RemoveElement
  <2> HIDE DEF Low
  <2>3. Cardinality(Low(n)) <= c - 1
    BY <2>1, <2>2, FS_Subset
  <2> QED BY <1>1, <1>2, <2>3
<1>4. ASSUME NEW m \in at, NEW n \in at, m < n PROVE Cardinality(Low(m)) < Cardinality(Low(n))
  <2>1. Low(m) \cup {m} \in SUBSET Low(n) /\ m \notin Low(m)
    <3>1. \A x \in at : x \in Nat
      OBVIOUS
    <3>2. \A x \in at : x < m => x < n
      BY <1>4, <3>1
    <3>3. ~(m < m)
      BY <3>1
    <3> QED BY <1>4, <3>2, <3>3
  <2> HIDE DEF Low
  <2>2. Cardinality(Low(m) \cup {m}) = Cardinality(Low(m)) + 1
    BY <1>2, <2>1, FS_AddElement
  <2>3. Cardinality(Low(m) \cup {m}) <= Cardinality(Low(n))
    BY <1>2, <2>1, FS_Subset
  <2> QED BY <1>2, <2>2, <2>3
<1>5. \A n \in at : Before(at, n) = Cardinality(Low(n))
  BY DEF Before
<1> HIDE DEF Low, c
<1>6. \A m, n \in at : Before(at, m) = Before(at, n) => m = n
  <2> SUFFICES ASSUME NEW m \in at, NEW n \in at, Before(at, m) = Before(at, n), m # n
               PROVE  FALSE
    OBVIOUS
  <2>1. m < n \/ n < m
    OBVIOUS
  <2> QED BY <1>2, <1>4, <1>5, <2>1
<1>7. r \in Injection(at, 0..(c - 1))
  <2>1. r \in [at -> 0..(c - 1)]
    BY <1>3, <1>5
  <2> QED BY <1>6, <2>1 DEF Injection, IsInjective
<1>8. IsFiniteSet(0..(c - 1)) /\ Cardinality(0..(c - 1)) = c
  BY <1>1, FS_Interval
<1>9. r \in Surjection(at, 0..(c - 1))
  <2> HIDE DEF r
  <2>1. Cardinality(at) = Cardinality(0..(c - 1))
    BY <1>8 DEF c
  <2> QED BY <1>7, <1>8, <2>1, FS_Injection
<1>10. \A k \in 1..c : \E n \in at : Before(at, n) = k - 1
  <2> SUFFICES ASSUME NEW k \in 1..c PROVE \E n \in at : Before(at, n) = k - 1
    OBVIOUS
  <2>1. k - 1 \in 0..(c - 1)
    BY <1>1
  <2>2. PICK n \in at : r[n] = k - 1
    BY <1>9, <2>1 DEF Surjection
  <2> QED BY <2>2
<1> QED BY <1>1, <1>3, <1>5, <1>6, <1>10 DEF c

\* Some of a sequence in its order: each element from a place of its own.
LEMMA PickedIs ==
    ASSUME NEW S, NEW s \in Seq(S), NEW some
    PROVE  LET t == Picked(s, some)
           IN  /\ t \in Seq(S) /\ Len(t) \in Nat /\ DOMAIN t = 1..Len(t)
               /\ \E from \in [1..Len(t) -> DOMAIN s] :
                     /\ \A k \in 1..Len(t) : t[k] = s[from[k]] /\ t[k] \in some
                     /\ \A j, k \in 1..Len(t) : from[j] = from[k] => j = k
               /\ \A n \in DOMAIN s : s[n] \in some => \E k \in 1..Len(t) : t[k] = s[n]
<1> DEFINE at == {n \in DOMAIN s : s[n] \in some}
           N == Len(s)
           Pick(k) == CHOOSE n \in at : Cardinality({m \in at : m < n}) = k - 1
           size == Cardinality(at)
           t == Picked(s, some)
           from == [k \in 1..size |-> Pick(k)]
<1>1. DOMAIN s = 1..N /\ N \in Nat /\ \A n \in DOMAIN s : s[n] \in S
  BY LenProperties
<1>2. t = [k \in 1..size |-> s[Pick(k)]]
  BY DEF Picked
<1>3. at \in SUBSET (1..N) /\ \A n \in DOMAIN s : n \in at <=> s[n] \in some
  BY <1>1
<1>4. \A k : Pick(k) = CHOOSE n \in at : Before(at, n) = k - 1
  BY DEF Before
<1> HIDE DEF at, N, Pick, t
<1>5. /\ size \in Nat
      /\ \A n \in at : Before(at, n) \in 0..(size - 1)
      /\ \A m, n \in at : Before(at, m) = Before(at, n) => m = n
      /\ \A k \in 1..size : \E n \in at : Before(at, n) = k - 1
  BY <1>1, <1>3, Ranks
<1> HIDE DEF size
<1>6. ASSUME NEW k \in 1..size PROVE Pick(k) \in at /\ Before(at, Pick(k)) = k - 1
  BY <1>4, <1>5
<1>7. t \in [1..size -> S] /\ \A k \in 1..size : t[k] = s[Pick(k)]
  <2>1. \A k \in 1..size : s[Pick(k)] \in S
    BY <1>1, <1>3, <1>6
  <2> QED BY <1>2, <2>1
<1>8. t \in Seq(S) /\ Len(t) = size
  BY <1>5, <1>7
<1>9. /\ from \in [1..size -> DOMAIN s]
      /\ \A k \in 1..size : t[k] = s[from[k]] /\ t[k] \in some
      /\ \A j, k \in 1..size : from[j] = from[k] => j = k
  <2>1. \A k \in 1..size : from[k] = Pick(k) /\ Pick(k) \in at /\ Before(at, Pick(k)) = k - 1
    BY <1>6
  <2>2. \A k \in 1..size : Pick(k) \in DOMAIN s /\ s[Pick(k)] \in some
    BY <1>1, <1>3, <2>1
  <2>3. \A j, k \in 1..size : from[j] = from[k] => j = k
    <3> SUFFICES ASSUME NEW j \in 1..size, NEW k \in 1..size, from[j] = from[k] PROVE j = k
      OBVIOUS
    <3>1. j - 1 = k - 1
      BY <2>1
    <3> QED BY <3>1
  <2>4. from \in [1..size -> DOMAIN s]
    BY <2>2
  <2> HIDE DEF from
  <2> QED BY <1>7, <2>1, <2>2, <2>3, <2>4
<1> HIDE DEF from
<1>10. ASSUME NEW n \in DOMAIN s, s[n] \in some PROVE \E k \in 1..size : t[k] = s[n]
  <2> DEFINE k == Before(at, n) + 1
  <2>1. n \in at
    BY <1>3, <1>10
  <2>2. k \in 1..size /\ Before(at, n) = k - 1
    BY <1>5, <2>1
  <2> HIDE DEF k
  <2>3. Pick(k) = n
    BY <1>5, <1>6, <2>1, <2>2
  <2> QED BY <1>7, <2>2, <2>3
<1> QED BY <1>5, <1>7, <1>8, <1>9, <1>10 DEF t

\* Some of the channels in order are a sequence.
LEMMA InOrderIs ==
    ASSUME NEW channels
    PROVE  /\ Len(InOrder(channels)) \in Nat
           /\ DOMAIN InOrder(channels) = 1..Len(InOrder(channels))
  BY OrderAssumption, PickedIs DEF InOrder

\* What Merged has of a key is what one of the functions has.
LEMMA MergedIs ==
    ASSUME NEW N \in Nat, NEW functions, DOMAIN functions = 1..N, NEW key \in DOMAIN Merged(functions)
    PROVE  \E i \in 1..N : /\ key \in DOMAIN functions[i]
                           /\ Merged(functions)[key] = functions[i][key]
<1> DEFINE with == {i \in DOMAIN functions : key \in DOMAIN functions[i]}
<1>1. key \in UNION {DOMAIN functions[i] : i \in DOMAIN functions}
  BY DEF Merged
<1>2. with \in SUBSET Nat /\ with # {} /\ \A i \in with : i <= N
  BY <1>1
<1>3. Max(with) \in with
  <2> HIDE DEF with
  <2> QED BY <1>2, MaxIn
<1>4. Merged(functions)[key] = functions[Max(with)][key]
  BY <1>1 DEF Merged
<1> HIDE DEF with
<1>5. QED BY <1>3, <1>4 DEF with

\* One channel of the model.
LEMMA PartIs ==
    ASSUME NEW i, NEW c, NEW p, NEW shape, NEW slug
    PROVE  LET part == build_entity(i, c, p, shape, slug)
           IN  /\ part.entity.id = c.id
               /\ part.entity.naming = c
               /\ part.entity.topic = IF TopicStyle = "id" THEN c.id ELSE slug
               /\ \A key \in DOMAIN part.ingress : part.ingress[key].entity = i /\ key[1] = c.id
               /\ \A key \in DOMAIN part.egress : key[1] = i /\ part.egress[key].path[1] = c.id
<1> DEFINE attrs == build_attributes(Profiles[p], shape)
           commands == build_commands(Profiles[p], shape)
           part == build_entity(i, c, p, shape, slug)
<1>1. /\ part.entity = Entity(c, p, shape, attrs, commands, slug)
      /\ part.ingress = build_ingress(i, c.id, shape, attrs)
      /\ part.egress = build_egress(i, c.id, shape, attrs, commands)
  BY DEF build_entity, Built
<1> HIDE DEF attrs, commands, part
<1>2. /\ part.entity.id = c.id
      /\ part.entity.naming = c
      /\ part.entity.topic = IF TopicStyle = "id" THEN c.id ELSE slug
  BY <1>1 DEF Entity
<1>3. \A key \in DOMAIN part.ingress : part.ingress[key].entity = i /\ key[1] = c.id
  BY <1>1 DEF build_ingress
<1>4. \A key \in DOMAIN part.egress : key[1] = i /\ part.egress[key].path[1] = c.id
  BY <1>1 DEF build_egress
<1> QED BY <1>2, <1>3, <1>4 DEF part

Namings(m) == [i \in DOMAIN m.entities |-> m.entities[i].naming]

\* What holds of every model that compiles: the tables agree, and every entity goes
\* by its id or by a slug of its own that it may claim among all of them.
TablesAgree(m) ==
    /\ Len(m.entities) \in Nat /\ DOMAIN m.entities = 1..Len(m.entities)
    /\ Cardinality(DOMAIN m.by_topic) = Len(m.entities)
    /\ \A key \in DOMAIN m.ingress : m.entities[m.ingress[key].entity].id = key[1]
    /\ \A key \in DOMAIN m.egress : m.entities[key[1]].id = m.egress[key].path[1]
WellNamed(m) ==
    \A i \in DOMAIN m.entities :
        LET entity == m.entities[i]
        IN  /\ entity.naming.id = entity.id
            /\ TopicStyle = "id" => entity.topic = entity.id
            /\ TopicStyle = "slug" =>
                  /\ entity.topic \in Range(Eligible(entity.naming, Namings(m)))
                  /\ entity.topic \in DOMAIN m.by_topic /\ m.by_topic[entity.topic] = i
Sound(m) == TablesAgree(m) /\ WellNamed(m)

\* The entities of m are those of the channels kept.
EntitiesOf(m, kept) ==
    /\ DOMAIN m.entities = DOMAIN kept
    /\ \A i \in DOMAIN kept : m.entities[i].id = kept[i]
    /\ \A i, j \in DOMAIN kept : kept[i] = kept[j] => i = j

\* The channels kept are exactly those that have a slug, once each.
LEMMA AllNamed ==
    ASSUME NEW N \in Nat, NEW kept, DOMAIN kept = 1..N,
           NEW slugs, DOMAIN slugs \subseteq {kept[n] : n \in 1..N},
           N = Cardinality(DOMAIN slugs)
    PROVE  /\ IsFiniteSet(DOMAIN slugs)
           /\ DOMAIN slugs = {kept[n] : n \in 1..N}
           /\ \A m, n \in 1..N : kept[m] = kept[n] => m = n
<1> DEFINE K == {kept[n] : n \in 1..N}
           f == [n \in 1..N |-> kept[n]]
<1>1. IsFiniteSet(1..N) /\ Cardinality(1..N) = N
  BY FS_Interval
<1>2. f \in Surjection(1..N, K)
  BY DEF Surjection
<1>3. /\ IsFiniteSet(K) /\ Cardinality(K) <= N
      /\ Cardinality(K) = N => f \in Injection(1..N, K)
  <2> HIDE DEF f, K
  <2> QED BY <1>1, <1>2, FS_Surjection
<1>4. DOMAIN slugs \in SUBSET K
  OBVIOUS
<1> HIDE DEF K
<1>5. /\ IsFiniteSet(DOMAIN slugs) /\ N <= Cardinality(K)
      /\ Cardinality(K) = N => DOMAIN slugs = K
  BY <1>3, <1>4, FS_Subset
<1>6. Cardinality(K) = N
  BY <1>3, <1>5, FS_CardinalityType
<1>7. \A m, n \in 1..N : kept[m] = kept[n] => m = n
  BY <1>3, <1>6 DEF Injection, IsInjective
<1> QED BY <1>5, <1>6, <1>7 DEF K

\* As many values as keys, where no value has two.
LEMMA InjectiveRange ==
    ASSUME NEW f, IsFiniteSet(DOMAIN f), \A x, y \in DOMAIN f : f[x] = f[y] => x = y
    PROVE  Cardinality(Range(f)) = Cardinality(DOMAIN f)
<1> DEFINE g == [x \in DOMAIN f |-> f[x]]
<1>1. g \in Bijection(DOMAIN f, Range(f))
  BY DEF Bijection, Injection, Surjection, IsInjective, Range
<1>2. ExistsBijection(DOMAIN f, Range(f))
  BY <1>1 DEF ExistsBijection
<1> QED BY <1>2, FS_Bijection

\* Every model that compiles is sound, whatever the channels are and are called.
LEMMA CompileIsSound ==
    ASSUME NEW cfg, NEW al, NEW ex, compile(cfg, al, ex).ok
    PROVE  /\ Sound(compile(cfg, al, ex))
           /\ EntitiesOf(compile(cfg, al, ex), collect_channels(cfg, ex))
<1> DEFINE m == compile(cfg, al, ex)
           kept == collect_channels(cfg, ex)
           N == Len(kept)
           cs == [i \in DOMAIN kept |-> SlugCandidate(kept[i], cfg, al)]
           slugs == resolve_slugs(cs)
           Part(i) == build_entity(i, SlugCandidate(kept[i], cfg, al), match_profile(cfg[kept[i]]),
                                   cfg[kept[i]], slugs[kept[i]])
           parts == [i \in DOMAIN kept |-> Part(i)]
<1>1. N \in Nat /\ DOMAIN kept = 1..N
  BY InOrderIs DEF collect_channels
<1>2. m = Joined(parts, slugs)
  BY DEF compile, Named, build_model, resolve_names_and_slugs
<1>3. \A i \in 1..N : cs[i].id = kept[i]
  BY <1>1 DEF SlugCandidate
<1> HIDE DEF kept, N
<1>4. DOMAIN cs = 1..N /\ Len(cs) = N
  <2> DEFINE S == {SlugCandidate(kept[i], cfg, al) : i \in 1..N}
  <2>1. cs \in [1..N -> S]
    BY <1>1
  <2> HIDE DEF cs, S
  <2> QED BY <1>1, <2>1
<1>5. Fair(slugs, cs)
  <2> HIDE DEF cs
  <2> QED BY <1>1, <1>4, ResolveIsFair
<1>6. DOMAIN parts = 1..N /\ Len(parts) = N /\ \A i \in 1..N : parts[i] = Part(i)
  <2> DEFINE S == {Part(i) : i \in 1..N}
  <2>1. parts \in [1..N -> S]
    BY <1>1
  <2>2. \A i \in 1..N : parts[i] = Part(i)
    BY <1>1
  <2> HIDE DEF parts, S
  <2> QED BY <1>1, <2>1, <2>2
<1> HIDE DEF cs, slugs, parts, m
<1>7. /\ m.ok => N = Cardinality(DOMAIN slugs)
      /\ DOMAIN m.entities = 1..N
      /\ \A i \in 1..N : m.entities[i] = parts[i].entity
      /\ m.ingress = Merged([i \in 1..N |-> parts[i].ingress])
      /\ m.egress = Merged([i \in 1..N |-> parts[i].egress])
  BY <1>2, <1>6 DEF Joined
<1> DEFINE Find(slug) == CHOOSE i \in DOMAIN parts : slugs[parts[i].entity.id] = slug
<1>8. m.by_topic = [slug \in Range(slugs) |-> Find(slug)]
  BY <1>2 DEF Joined
<1> HIDE DEF Find
<1>9. Len(m.entities) = N
  <2>1. m.entities = [i \in 1..N |-> parts[i].entity]
    BY <1>2, <1>6 DEF Joined
  <2> DEFINE S == {parts[i].entity : i \in 1..N}
  <2>2. m.entities \in [1..N -> S]
    BY <2>1
  <2> HIDE DEF S
  <2> QED BY <1>1, <2>2
<1>10. N = Cardinality(DOMAIN slugs)
  BY <1>7 DEF m
<1>11. DOMAIN slugs \subseteq {kept[n] : n \in 1..N}
  BY <1>3, <1>4, <1>5 DEF Fair
<1>12. /\ IsFiniteSet(DOMAIN slugs)
       /\ DOMAIN slugs = {kept[n] : n \in 1..N}
       /\ \A i, j \in 1..N : kept[i] = kept[j] => i = j
  BY <1>1, <1>10, <1>11, AllNamed
<1>13. ASSUME NEW i \in 1..N
       PROVE  /\ m.entities[i].id = kept[i]
              /\ m.entities[i].naming = cs[i]
              /\ m.entities[i].topic = IF TopicStyle = "id" THEN kept[i] ELSE slugs[kept[i]]
              /\ \A key \in DOMAIN parts[i].ingress :
                    parts[i].ingress[key].entity = i /\ key[1] = kept[i]
              /\ \A key \in DOMAIN parts[i].egress :
                    key[1] = i /\ parts[i].egress[key].path[1] = kept[i]
  <2> DEFINE c == SlugCandidate(kept[i], cfg, al)
  <2>1. c = cs[i] /\ c.id = kept[i]
    BY <1>1, <1>3, <1>13 DEF cs
  <2>2. parts[i] = build_entity(i, c, match_profile(cfg[kept[i]]), cfg[kept[i]], slugs[kept[i]])
    BY <1>6, <1>13
  <2> HIDE DEF c
  <2>3. /\ parts[i].entity.id = c.id
        /\ parts[i].entity.naming = c
        /\ parts[i].entity.topic = IF TopicStyle = "id" THEN c.id ELSE slugs[kept[i]]
        /\ \A key \in DOMAIN parts[i].ingress : parts[i].ingress[key].entity = i /\ key[1] = c.id
        /\ \A key \in DOMAIN parts[i].egress : key[1] = i /\ parts[i].egress[key].path[1] = c.id
    BY <2>2, PartIs
  <2> QED BY <1>7, <1>13, <2>1, <2>3
<1>14. Cardinality(DOMAIN m.by_topic) = Len(m.entities)
  <2>1. Cardinality(Range(slugs)) = N
    BY <1>5, <1>10, <1>12, InjectiveRange DEF Fair
  <2> QED BY <1>8, <1>9, <2>1
<1>15. ASSUME NEW key \in DOMAIN m.ingress
       PROVE  m.entities[m.ingress[key].entity].id = key[1]
  <2> DEFINE fs == [i \in 1..N |-> parts[i].ingress]
  <2>1. DOMAIN fs = 1..N /\ key \in DOMAIN Merged(fs) /\ m.ingress = Merged(fs)
    BY <1>7, <1>15
  <2>2. PICK i \in 1..N : key \in DOMAIN fs[i] /\ Merged(fs)[key] = fs[i][key]
    <3> HIDE DEF fs
    <3> QED BY <1>1, <2>1, MergedIs
  <2>3. key \in DOMAIN parts[i].ingress /\ m.ingress[key] = parts[i].ingress[key]
    BY <2>1, <2>2
  <2> QED BY <1>13, <2>3
<1>16. ASSUME NEW key \in DOMAIN m.egress
       PROVE  m.entities[key[1]].id = m.egress[key].path[1]
  <2> DEFINE fs == [i \in 1..N |-> parts[i].egress]
  <2>1. DOMAIN fs = 1..N /\ key \in DOMAIN Merged(fs) /\ m.egress = Merged(fs)
    BY <1>7, <1>16
  <2>2. PICK i \in 1..N : key \in DOMAIN fs[i] /\ Merged(fs)[key] = fs[i][key]
    <3> HIDE DEF fs
    <3> QED BY <1>1, <2>1, MergedIs
  <2>3. key \in DOMAIN parts[i].egress /\ m.egress[key] = parts[i].egress[key]
    BY <2>1, <2>2
  <2> QED BY <1>13, <2>3
<1>17. Namings(m) = cs
  <2>1. Namings(m) = [i \in 1..N |-> cs[i]]
    BY <1>7, <1>13 DEF Namings
  <2>2. cs = [i \in 1..N |-> cs[i]]
    BY <1>1 DEF cs
  <2> QED BY <2>1, <2>2
<1>18. ASSUME NEW i \in 1..N, TopicStyle = "slug"
       PROVE  /\ m.entities[i].topic \in Range(Eligible(cs[i], cs))
              /\ m.entities[i].topic \in DOMAIN m.by_topic
              /\ m.by_topic[m.entities[i].topic] = i
  <2> DEFINE slug == slugs[kept[i]]
  <2>1. m.entities[i].topic = slug
    BY <1>13, <1>18
  <2>2. kept[i] \in DOMAIN slugs
    BY <1>12, <1>18
  <2>3. slug \in Range(slugs)
    BY <2>2 DEF Range
  <2>4. slug \in Range(Eligible(cs[i], cs))
    <3>1. PICK n \in DOMAIN cs : cs[n].id = kept[i] /\ slug \in Range(Eligible(cs[n], cs))
      BY <1>5, <2>2 DEF Fair
    <3>2. n = i
      BY <1>3, <1>4, <1>12, <1>18, <3>1
    <3> QED BY <3>1, <3>2
  <2>5. \A j \in 1..N : slugs[parts[j].entity.id] = slug => j = i
    <3>1. \A j \in 1..N : parts[j].entity.id = kept[j] /\ kept[j] \in DOMAIN slugs
      BY <1>7, <1>12, <1>13
    <3> QED BY <1>5, <1>12, <1>18, <3>1 DEF Fair
  <2>6. slugs[parts[i].entity.id] = slug
    BY <1>7, <1>13, <1>18
  <2>7. m.by_topic[slug] = Find(slug)
    BY <1>8, <2>3
  <2> HIDE DEF slug
  <2>8. Find(slug) = i
    BY <1>6, <1>18, <2>5, <2>6 DEF Find
  <2> QED BY <1>8, <2>1, <2>3, <2>4, <2>7, <2>8
<1>19. TablesAgree(m)
  BY <1>1, <1>7, <1>9, <1>14, <1>15, <1>16 DEF TablesAgree
<1>20. WellNamed(m)
  <2> SUFFICES ASSUME NEW i \in DOMAIN m.entities
               PROVE  LET entity == m.entities[i]
                      IN  /\ entity.naming.id = entity.id
                          /\ TopicStyle = "id" => entity.topic = entity.id
                          /\ TopicStyle = "slug" =>
                                /\ entity.topic \in Range(Eligible(entity.naming, Namings(m)))
                                /\ entity.topic \in DOMAIN m.by_topic /\ m.by_topic[entity.topic] = i
    BY DEF WellNamed
  <2>1. i \in 1..N
    BY <1>7
  <2> QED BY <1>3, <1>13, <1>17, <1>18, <2>1
<1>21. EntitiesOf(m, kept)
  BY <1>1, <1>7, <1>12, <1>13 DEF EntitiesOf
<1> QED BY <1>19, <1>20, <1>21 DEF Sound, m, kept

\* With discovery announced, the same.
LEMMA AnnouncedIsSound ==
    ASSUME NEW cfg, NEW al, NEW ex, compile_and_build_discovery(cfg, al, ex).ok
    PROVE  /\ Sound(compile_and_build_discovery(cfg, al, ex))
           /\ EntitiesOf(compile_and_build_discovery(cfg, al, ex), collect_channels(cfg, ex))
<1> DEFINE m == compile(cfg, al, ex)
           a == compile_and_build_discovery(cfg, al, ex)
<1>1. m = [ok |-> m.ok, entities |-> m.entities, ingress |-> m.ingress,
           egress |-> m.egress, by_topic |-> m.by_topic]
  BY DEF compile, Named, build_model, Joined
<1>2. a = [m EXCEPT !.ok = m.ok /\ \A i \in DOMAIN m.entities : sole_attribute(m.entities[i])]
  BY DEF compile_and_build_discovery, Announced
<1> HIDE DEF m, a
<1>3. /\ a.ok => m.ok
      /\ a.entities = m.entities /\ a.ingress = m.ingress
      /\ a.egress = m.egress /\ a.by_topic = m.by_topic
  BY <1>1, <1>2
<1>4. Sound(m) /\ EntitiesOf(m, collect_channels(cfg, ex))
  BY <1>3, CompileIsSound DEF a, m
<1>5. Sound(a) /\ EntitiesOf(a, collect_channels(cfg, ex))
  BY <1>3, <1>4 DEF Sound, TablesAgree, WellNamed, Namings, EntitiesOf
<1> QED BY <1>5 DEF a

\* Of two entities with one topic, in models of two compilations, whose names the second
\* one has both, one has a longer name that is a name of the other.
LEMMA OneTopic ==
    ASSUME NEW m, NEW n, Sound(m), Sound(n),
           NEW i \in DOMAIN m.entities, NEW j \in DOMAIN n.entities, NEW k \in DOMAIN n.entities,
           m.entities[i].topic = n.entities[j].topic,
           m.entities[i].naming.id # n.entities[j].naming.id,
           n.entities[k].naming = m.entities[i].naming
    PROVE  Lookalike(m.entities[i].naming, n.entities[j].naming)
<1> DEFINE one == m.entities[i].naming
           other == n.entities[j].naming
           topic == m.entities[i].topic
           cs == Namings(n)
<1>1. TopicStyle = "slug"
  <2>1. TopicStyle # "id"
    BY DEF Sound, WellNamed
  <2> QED BY <2>1, OptionsAssumption
<1>2. topic \in Range(Eligible(one, Namings(m))) /\ topic \in Range(Eligible(other, cs))
  BY <1>1 DEF Sound, WellNamed
<1>3. PICK p \in DOMAIN slug_options(one) : slug_options(one)[p] = topic
  BY <1>2, EligibleAre DEF Range
<1>4. PICK q \in DOMAIN slug_options(other) :
        slug_options(other)[q] = topic /\ (q = 1 => ~Shared(other, cs))
  BY <1>2, EligibleAre DEF Range
<1>5. /\ DOMAIN slug_options(one) = 1..Len(slug_options(one)) /\ Len(slug_options(one)) \in Nat
      /\ DOMAIN slug_options(other) = 1..Len(slug_options(other)) /\ Len(slug_options(other)) \in Nat
      /\ slug_options(one)[1] = slugify(one.name) /\ slug_options(other)[1] = slugify(other.name)
  BY OptionsAre
<1>6. CASE p = 1 /\ q = 1
  <2> DEFINE same == {c \in DOMAIN cs : slugify(cs[c].name) = slugify(other.name)}
  <2>1. /\ DOMAIN cs = 1..Len(n.entities) /\ Len(n.entities) \in Nat
        /\ cs[j] = other /\ cs[k] = one /\ j \in DOMAIN cs /\ k \in DOMAIN cs
    BY DEF Namings, Sound, TablesAgree
  <2>2. slugify(one.name) = slugify(other.name)
    BY <1>3, <1>4, <1>5, <1>6
  <2>3. j \in same /\ k \in same /\ j # k
    BY <2>1, <2>2
  <2>4. IsFiniteSet(same)
    <3>1. same \in SUBSET DOMAIN cs
      OBVIOUS
    <3>2. IsFiniteSet(DOMAIN cs)
      BY <2>1, FS_Interval
    <3> HIDE DEF same
    <3> QED BY <3>1, <3>2, FS_Subset
  <2>5. Cardinality(same) > 1
    <3> HIDE DEF same
    <3>1. Cardinality(same) \in Nat
      BY <2>4, FS_CardinalityType
    <3>2. Cardinality(same) # 0
      BY <2>3, <2>4, FS_EmptySet
    <3>3. Cardinality(same) # 1
      BY <2>3, <2>4, FS_Singleton
    <3> QED BY <3>1, <3>2, <3>3
  <2>6. Shared(other, cs)
    BY <2>5 DEF Shared
  <2> QED BY <1>4, <1>6, <2>6
<1>7. CASE ~(p = 1 /\ q = 1)
  <2>1. p + q > 2
    BY <1>5, <1>7
  <2> QED BY <1>3, <1>4, <2>1 DEF Lookalike
<1> QED BY <1>6, <1>7

----------------------------------------------------------------------------
(* Commands (commands.py).                                                 *)

\* A store has a value for each attribute of each entity.
Fits(values, m) ==
    /\ DOMAIN values = DOMAIN m.entities
    /\ \A i \in DOMAIN values : DOMAIN values[i] = DOMAIN m.entities[i].names

\* The writes of a command are a sequence.
LEMMA WritesAre ==
    ASSUME NEW i, NEW name, NEW value
    PROVE  Len(resolve_writes(i, name, value)) \in Nat
<1> DEFINE writes == subWrites(Profiles[model.entities[i].profile].transform, name, value)
<1>1. resolve_writes(i, name, value) = IF writes = Unclaimed THEN <<<<name, value>>>> ELSE writes
  BY DEF resolve_writes
<1>2. Len(<<<<name, value>>>>) \in Nat
  OBVIOUS
<1>3. Len(writes) \in Nat
  BY DEF subWrites, Unclaimed
<1> HIDE DEF writes
<1> QED BY <1>1, <1>2, <1>3

IsWritten(f, i, writes, N) ==
    f = [n \in 0..N |-> IF n = 0 THEN [ok |-> TRUE, wire |-> wire, store |-> store]
                        ELSE Apply(f[n - 1], i, writes[n])]

LEMMA WrittenExists ==
    ASSUME NEW N \in Nat, NEW i, NEW writes
    PROVE  \E f : IsWritten(f, i, writes, N)
<1> DEFINE T == {n \in 0..N : \E f : IsWritten(f, i, writes, n)}
           start == [ok |-> TRUE, wire |-> wire, store |-> store]
<1>1. 0 \in T
  <2>1. IsWritten([n \in 0..0 |-> start], i, writes, 0)
    BY DEF IsWritten
  <2> QED BY <2>1
<1>2. ASSUME NEW n \in 1..N, n - 1 \in T PROVE n \in T
  <2>1. PICK f : IsWritten(f, i, writes, n - 1)
    BY <1>2
  <2> DEFINE E(g, m) == IF m = 0 THEN start ELSE Apply(g[m - 1], i, writes[m])
             g == [m \in 0..n |-> IF m = n THEN Apply(f[n - 1], i, writes[n]) ELSE f[m]]
  <2>2. \A m \in 0..(n - 1) : f[m] = E(f, m)
    BY <2>1 DEF IsWritten
  <2>3. \A m \in 0..(n - 1) : g[m] = f[m]
    OBVIOUS
  <2>4. ASSUME NEW m \in 0..n PROVE g[m] = E(g, m)
    <3>1. CASE m = n
      <4>1. n # 0 /\ n - 1 \in 0..(n - 1)
        OBVIOUS
      <4>2. g[n - 1] = f[n - 1] /\ g[n] = Apply(f[n - 1], i, writes[n])
        BY <2>3, <4>1
      <4> HIDE DEF g
      <4> QED BY <3>1, <4>1, <4>2
    <3>2. CASE m # n
      <4>1. m \in 0..(n - 1) /\ (m # 0 => m - 1 \in 0..(n - 1))
        BY <3>2
      <4> HIDE DEF g
      <4> QED BY <2>2, <2>3, <4>1
    <3> QED BY <3>1, <3>2
  <2>5. g = [m \in 0..n |-> g[m]]
    OBVIOUS
  <2>6. IsWritten(g, i, writes, n)
    <3> HIDE DEF g
    <3> QED BY <2>4, <2>5 DEF IsWritten
  <2> HIDE DEF g
  <2> QED BY <2>6
<1> HIDE DEF T
<1>3. N \in T
  BY <1>1, <1>2, Upwards
<1> QED BY <1>3 DEF T

\* One write changes values only, whether it is refused or not.
LEMMA ApplyFits ==
    ASSUME NEW so, Fits(so.store, model), NEW i, NEW write
    PROVE  Fits(Apply(so, i, write).store, model)
<1> DEFINE binding == model.egress[<<i, write[1]>>]
           valid == validate(binding.range, write[2])
           values == IF binding.optimistic = 0 THEN so.store
                     ELSE [so.store EXCEPT ![i][binding.optimistic] = valid]
<1>1. Apply(so, i, write).store \in {so.store, values}
  BY DEF Apply
<1>2. Fits(values, model)
  BY DEF Fits
<1> QED BY <1>1, <1>2

LEMMA CommandFits ==
    ASSUME NEW i, NEW name, NEW value, Fits(store, model)
    PROVE  Fits(apply_command(i, name, value).store, model)
<1> DEFINE writes == resolve_writes(i, name, value)
           N == Len(writes)
<1>1. N \in Nat
  BY WritesAre
<1>2. apply_command(i, name, value) = (CHOOSE f : IsWritten(f, i, writes, N))[N]
  BY DEF apply_command, IsWritten
<1> HIDE DEF writes, N
<1>3. PICK f : IsWritten(f, i, writes, N) /\ apply_command(i, name, value) = f[N]
  BY <1>1, <1>2, WrittenExists
<1> DEFINE T == {n \in 0..N : Fits(f[n].store, model)}
<1>4. 0 \in T
  <2>1. f[0] = [ok |-> TRUE, wire |-> wire, store |-> store]
    BY <1>1, <1>3 DEF IsWritten
  <2> QED BY <1>1, <2>1
<1>5. ASSUME NEW n \in 1..N, n - 1 \in T PROVE n \in T
  <2>0. n \in 0..N /\ n # 0
    BY <1>1
  <2>1. f[n] = Apply(f[n - 1], i, writes[n])
    BY <1>3, <2>0, Zenon DEF IsWritten
  <2>2. Fits(f[n].store, model)
    BY <1>5, <2>1, ApplyFits
  <2> QED BY <2>2
<1> HIDE DEF T
<1>6. N \in T
  BY <1>1, <1>4, <1>5, Upwards
<1> QED BY <1>3, <1>6 DEF T

----------------------------------------------------------------------------
(* Sequences of sequences.                                                 *)

\* f is the recursive function of FlattenSeq, up to the N-th sequence.
IsFlat(f, s, N) == f = [i \in 1..N |-> IF i = 1 THEN s[i] ELSE f[i - 1] \o s[i]]

LEMMA FlatExists ==
    ASSUME NEW N \in Nat, NEW s
    PROVE  \E f : IsFlat(f, s, N)
<1> DEFINE T == {n \in 0..N : \E f : IsFlat(f, s, n)}
<1>1. 0 \in T
  <2>1. IsFlat([i \in 1..0 |-> 0], s, 0)
    BY DEF IsFlat
  <2> QED BY <2>1
<1>2. ASSUME NEW n \in 1..N, n - 1 \in T PROVE n \in T
  <2>1. PICK f : IsFlat(f, s, n - 1)
    BY <1>2
  <2> DEFINE E(g, m) == IF m = 1 THEN s[m] ELSE g[m - 1] \o s[m]
             g == [m \in 1..n |-> IF m = n THEN E(f, n) ELSE f[m]]
  <2>2. \A m \in 1..(n - 1) : f[m] = E(f, m)
    BY <2>1 DEF IsFlat
  <2>3. \A m \in 1..(n - 1) : g[m] = f[m]
    OBVIOUS
  <2>4. g[n] = E(f, n)
    OBVIOUS
  <2>5. ASSUME NEW m \in 1..n PROVE g[m] = E(g, m)
    <3>1. m # 1 => g[m - 1] = f[m - 1]
      <4>1. m # 1 => m - 1 \in 1..(n - 1)
        OBVIOUS
      <4> HIDE DEF g
      <4> QED BY <2>3, <4>1
    <3>2. g[m] = E(f, m)
      <4> HIDE DEF g, E
      <4> QED BY <2>2, <2>3, <2>4
    <3> HIDE DEF g
    <3> QED BY <3>1, <3>2
  <2>6. g = [m \in 1..n |-> g[m]]
    OBVIOUS
  <2>7. IsFlat(g, s, n)
    <3> HIDE DEF g
    <3> QED BY <2>5, <2>6 DEF IsFlat
  <2> HIDE DEF g
  <2> QED BY <2>7
<1> HIDE DEF T
<1>3. N \in T
  BY <1>1, <1>2, Upwards
<1> QED BY <1>3 DEF T

LEMMA FlatValues ==
    ASSUME NEW N \in Nat, NEW s, NEW f, IsFlat(f, s, N), NEW i \in 1..N
    PROVE  f[i] = IF i = 1 THEN s[i] ELSE f[i - 1] \o s[i]
  BY DEF IsFlat

LEMMA FlattenIs ==
    ASSUME NEW S, NEW s \in Seq(Seq(S)), s # <<>>
    PROVE  \E f : IsFlat(f, s, Len(s)) /\ FlattenSeq(s) = f[Len(s)]
<1>1. Len(s) \in Nat /\ Len(s) # 0
  BY EmptySeq, LenProperties
<1>2. FlattenSeq(s) = (CHOOSE f : IsFlat(f, s, Len(s)))[Len(s)]
  BY <1>1 DEF FlattenSeq, IsFlat
<1> QED BY <1>1, <1>2, FlatExists

\* Flattened, a sequence of sequences of S is a sequence of S.
LEMMA FlattenType ==
    ASSUME NEW S, NEW s \in Seq(Seq(S))
    PROVE  FlattenSeq(s) \in Seq(S)
<1>1. CASE s = <<>>
  <2>1. Len(s) = 0
    BY <1>1
  <2>2. FlattenSeq(s) = s
    BY <2>1 DEF FlattenSeq
  <2> QED BY <1>1, <2>2, EmptySeq
<1>2. CASE s # <<>>
  <2>1. PICK f : IsFlat(f, s, Len(s)) /\ FlattenSeq(s) = f[Len(s)]
    BY <1>2, FlattenIs
  <2> DEFINE N == Len(s)
             T == {n \in 0..N : n # 0 => f[n] \in Seq(S)}
  <2>2. N \in Nat /\ N # 0 /\ \A i \in 1..N : s[i] \in Seq(S)
    BY <1>2, EmptySeq, LenProperties
  <2>3. IsFlat(f, s, N)
    BY <2>1
  <2> HIDE DEF N
  <2>4. 0 \in T
    BY <2>2
  <2>5. ASSUME NEW n \in 1..N, n - 1 \in T PROVE n \in T
    <3>1. f[n] = IF n = 1 THEN s[n] ELSE f[n - 1] \o s[n]
      BY <2>2, <2>3, FlatValues
    <3>2. CASE n = 1
      BY <2>2, <3>1, <3>2
    <3>3. CASE n # 1
      <4>1. f[n - 1] \in Seq(S) /\ s[n] \in Seq(S)
        BY <2>2, <2>5, <3>3
      <4>2. f[n - 1] \o s[n] \in Seq(S)
        BY <4>1, ConcatProperties
      <4>3. f[n] = f[n - 1] \o s[n]
        BY <3>1, <3>3
      <4>4. f[n] \in Seq(S)
        BY <4>2, <4>3, Zenon
      <4> QED BY <2>2, <4>4
    <3> QED BY <3>2, <3>3
  <2> HIDE DEF T
  <2>6. \A n \in 0..N : n \in T
    <3>1. \A n \in 1..N : n - 1 \in T => n \in T
      BY <2>5
    <3> QED BY <2>2, <2>4, <3>1, Upwards, Zenon
  <2> QED BY <2>1, <2>2, <2>6 DEF T, N
<1> QED BY <1>1, <1>2

\* One more sequence goes behind what the others flatten to.
LEMMA FlattenAppend ==
    ASSUME NEW S, NEW s \in Seq(Seq(S)), NEW x \in Seq(S)
    PROVE  FlattenSeq(Append(s, x)) = FlattenSeq(s) \o x
<1> DEFINE t == Append(s, x)
           N == Len(s)
<1>1. /\ N \in Nat /\ t \in Seq(Seq(S)) /\ t # <<>> /\ Len(t) = N + 1
      /\ \A i \in 1..N : t[i] = s[i]
      /\ t[N + 1] = x
  BY AppendProperties, LenProperties
<1> HIDE DEF t
<1>2. PICK g : IsFlat(g, t, Len(t)) /\ FlattenSeq(t) = g[Len(t)]
  BY <1>1, FlattenIs
<1>3. IsFlat(g, t, N + 1) /\ FlattenSeq(t) = g[N + 1]
  BY <1>1, <1>2
<1>4. CASE N = 0
  <2>1. s = <<>> /\ FlattenSeq(s) = <<>>
    <3>1. s = <<>>
      BY <1>4, EmptySeq
    <3> QED BY <1>4, <3>1 DEF FlattenSeq
  <2>2. g[1] = t[1]
    <3>1. 1 \in 1..(N + 1) /\ N + 1 \in Nat
      BY <1>4
    <3> QED BY <1>3, <3>1, FlatValues
  <2>3. FlattenSeq(t) = x
    BY <1>1, <1>3, <1>4, <2>2
  <2> QED BY <2>1, <2>3, ConcatEmptySeq DEF t
<1>5. CASE N # 0
  <2>1. PICK f : IsFlat(f, s, N) /\ FlattenSeq(s) = f[N]
    BY <1>5, FlattenIs, EmptySeq
  <2> DEFINE T == {n \in 0..N : n # 0 => g[n] = f[n]}
  <2> HIDE DEF N
  <2>2. 0 \in T
    BY <1>1
  <2>3. ASSUME NEW n \in 1..N, n - 1 \in T PROVE n \in T
    <3>1. f[n] = IF n = 1 THEN s[n] ELSE f[n - 1] \o s[n]
      BY <1>1, <2>1, FlatValues
    <3>2. g[n] = IF n = 1 THEN t[n] ELSE g[n - 1] \o t[n]
      <4>1. n \in 1..(N + 1) /\ N + 1 \in Nat
        BY <1>1
      <4> QED BY <1>3, <4>1, FlatValues
    <3>3. t[n] = s[n] /\ (n # 1 => g[n - 1] = f[n - 1])
      BY <1>1, <2>3
    <3>4. g[n] = f[n]
      BY <3>1, <3>2, <3>3
    <3> QED BY <1>1, <3>4
  <2> HIDE DEF T
  <2>4. \A n \in 0..N : n \in T
    <3>1. \A n \in 1..N : n - 1 \in T => n \in T
      BY <2>3
    <3> QED BY <1>1, <2>2, <3>1, Upwards, Zenon
  <2>5. g[N] = f[N]
    BY <1>1, <1>5, <2>4 DEF T
  <2>6. g[N + 1] = g[N] \o t[N + 1]
    <3>1. N + 1 \in 1..(N + 1) /\ N + 1 \in Nat /\ N + 1 # 1 /\ (N + 1) - 1 = N
      BY <1>1, <1>5
    <3>2. g[N + 1] = IF N + 1 = 1 THEN t[N + 1] ELSE g[(N + 1) - 1] \o t[N + 1]
      BY <1>3, <3>1, Zenon DEF IsFlat
    <3> QED BY <3>1, <3>2
  <2> QED BY <1>1, <1>3, <2>1, <2>5, <2>6 DEF t
<1> QED BY <1>4, <1>5

\* A nonempty sequence is its front and its last element.
LEMMA FrontLast ==
    ASSUME NEW S, NEW s \in Seq(S), s # <<>>
    PROVE  Front(s) \in Seq(S) /\ Last(s) \in S /\ s = Append(Front(s), Last(s))
<1>1. PICK t \in Seq(S), e \in S : s = Append(t, e)
  BY SequenceEmptyOrAppend
<1>2. Len(t) \in Nat /\ Len(s) = Len(t) + 1 /\ s[Len(t) + 1] = e /\ s = t \o <<e>>
  BY <1>1, AppendProperties, AppendIsConcat, LenProperties
<1>3. Last(s) = e
  BY <1>2 DEF Last
<1>4. Front(s) = t
  <2>1. Front(s) = SubSeq(s, 1, Len(t))
    BY <1>2 DEF Front
  <2>2. CASE Len(t) = 0
    <3>1. t = <<>>
      BY <2>2, EmptySeq
    <3>2. SubSeq(s, 1, 0) = <<>>
      BY SubSeqEmpty
    <3> QED BY <2>1, <2>2, <3>1, <3>2
  <2>3. CASE Len(t) # 0
    <3>1. <<e>> \in Seq(S) /\ 1 \in 1..Len(t) /\ Len(t) \in 1..Len(t)
      BY <1>2, <2>3
    <3>2. SubSeq(s, 1, Len(t)) = SubSeq(t, 1, Len(t))
      BY <1>2, <3>1, SubSeqOfConcat1
    <3> QED BY <2>1, <3>2, SubSeqFull
  <2> QED BY <2>2, <2>3
<1> QED BY <1>1, <1>3, <1>4

\* What goes behind the last sequence, goes behind all.
LEMMA FlattenLast ==
    ASSUME NEW S, NEW s \in Seq(Seq(S)), s # <<>>, NEW e \in S
    PROVE  /\ Append(Front(s), Append(Last(s), e)) \in Seq(Seq(S))
           /\ FlattenSeq(Append(Front(s), Append(Last(s), e))) = Append(FlattenSeq(s), e)
<1>1. Front(s) \in Seq(Seq(S)) /\ Last(s) \in Seq(S) /\ s = Append(Front(s), Last(s))
  BY FrontLast
<1>2. Append(Last(s), e) \in Seq(S) /\ Append(Last(s), e) = Last(s) \o <<e>> /\ <<e>> \in Seq(S)
  BY <1>1, AppendProperties, AppendIsConcat
<1>3. FlattenSeq(Front(s)) \in Seq(S) /\ FlattenSeq(s) \in Seq(S)
  BY <1>1, FlattenType
<1>4. FlattenSeq(s) = FlattenSeq(Front(s)) \o Last(s)
  BY <1>1, FlattenAppend
<1>5. FlattenSeq(Append(Front(s), Append(Last(s), e))) = FlattenSeq(Front(s)) \o (Last(s) \o <<e>>)
  BY <1>1, <1>2, FlattenAppend
<1>6. FlattenSeq(Front(s)) \o (Last(s) \o <<e>>) = FlattenSeq(s) \o <<e>>
  BY <1>1, <1>2, <1>3, <1>4, ConcatAssociative
<1>7. FlattenSeq(s) \o <<e>> = Append(FlattenSeq(s), e)
  BY <1>3, AppendIsConcat
<1>8. Append(Front(s), Append(Last(s), e)) \in Seq(Seq(S))
  BY <1>1, <1>2, AppendProperties
<1> QED BY <1>5, <1>6, <1>7, <1>8

----------------------------------------------------------------------------
(* The channels in order.                                                  *)

\* Some of the channels in order are these channels, each of them once.
LEMMA InOrderAll ==
    ASSUME NEW channels \in SUBSET Channels
    PROVE  /\ Len(InOrder(channels)) = Cardinality(channels)
           /\ \A k \in DOMAIN InOrder(channels) : InOrder(channels)[k] \in channels
           /\ \A channel \in channels : \E k \in DOMAIN InOrder(channels) :
                 InOrder(channels)[k] = channel
<1> DEFINE at == {n \in DOMAIN ChannelOrder : ChannelOrder[n] \in channels}
           N == Len(ChannelOrder)
           Pick(k) == CHOOSE n \in at : Cardinality({m \in at : m < n}) = k - 1
<1>1. /\ DOMAIN ChannelOrder = 1..N /\ N \in Nat
      /\ \A m, n \in 1..N : ChannelOrder[m] = ChannelOrder[n] => m = n
  <2>1. ChannelOrder \in Seq(Channels) /\ IsInjective(ChannelOrder)
    BY OrderAssumption
  <2> QED BY <2>1, LenProperties DEF IsInjective
<1>2. InOrder(channels) = [k \in 1..Cardinality(at) |-> ChannelOrder[Pick(k)]]
  BY DEF InOrder, Picked
<1>3. at \in SUBSET (1..N) /\ \A n \in at : ChannelOrder[n] \in channels
  BY <1>1
<1>4. \A channel \in channels : \E n \in at : ChannelOrder[n] = channel
  BY DEF Channels, Range
<1>5. \A k : Pick(k) = CHOOSE n \in at : Before(at, n) = k - 1
  BY DEF Before
<1> HIDE DEF at, N, Pick
<1>6. /\ Cardinality(at) \in Nat
      /\ \A n \in at : Before(at, n) \in 0..(Cardinality(at) - 1)
      /\ \A m, n \in at : Before(at, m) = Before(at, n) => m = n
      /\ \A k \in 1..Cardinality(at) : \E n \in at : Before(at, n) = k - 1
  BY <1>1, <1>3, Ranks
<1>7. ASSUME NEW k \in 1..Cardinality(at) PROVE Pick(k) \in at /\ Before(at, Pick(k)) = k - 1
  BY <1>5, <1>6
<1>8. ASSUME NEW channel \in channels
      PROVE  \E k \in 1..Cardinality(at) : ChannelOrder[Pick(k)] = channel
  <2>1. PICK n \in at : ChannelOrder[n] = channel
    BY <1>4
  <2> DEFINE k == Before(at, n) + 1
  <2>2. k \in 1..Cardinality(at) /\ Before(at, n) = k - 1
    BY <1>6
  <2> HIDE DEF k
  <2>3. Pick(k) = n
    BY <1>6, <1>7, <2>2
  <2> QED BY <2>1, <2>2, <2>3
<1>9. Cardinality(at) = Cardinality(channels)
  <2> DEFINE f == [n \in at |-> ChannelOrder[n]]
  <2>1. f \in Bijection(at, channels)
    <3>1. f \in [at -> channels] /\ \A m, n \in at : f[m] = f[n] => m = n
      BY <1>1, <1>3
    <3>2. \A channel \in channels : \E n \in at : f[n] = channel
      BY <1>4
    <3> HIDE DEF f
    <3> QED BY <3>1, <3>2 DEF Bijection, Injection, Surjection, IsInjective
  <2>2. ExistsBijection(at, channels)
    BY <2>1 DEF ExistsBijection
  <2>3. IsFiniteSet(1..N)
    BY <1>1, FS_Interval
  <2>4. IsFiniteSet(at)
    BY <1>3, <2>3, FS_Subset
  <2> QED BY <2>2, <2>4, FS_Bijection
<1>10. DOMAIN InOrder(channels) = 1..Cardinality(at)
       /\ \A k \in 1..Cardinality(at) : InOrder(channels)[k] = ChannelOrder[Pick(k)]
  BY <1>2
<1>11. Len(InOrder(channels)) = Cardinality(at)
  <2>1. InOrder(channels) \in [1..Cardinality(at) -> channels]
    BY <1>2, <1>3, <1>7
  <2> QED BY <1>6, <2>1
<1> QED BY <1>3, <1>7, <1>8, <1>9, <1>10, <1>11

----------------------------------------------------------------------------
(* The inventory (supervisor.py bridge/devices).                           *)

\* Another channel goes behind those there are, whichever device is its own.
LEMMA AddEntryIs ==
    ASSUME NEW S, NEW devices \in Seq(Seq(S)), NEW entry \in S
    PROVE  /\ AddEntry(devices, entry) \in Seq(Seq(S))
           /\ FlattenSeq(AddEntry(devices, entry)) = Append(FlattenSeq(devices), entry)
<1>1. CASE devices # <<>> /\ Last(devices)[1].id[1] = entry.id[1]
  <2>1. AddEntry(devices, entry) = Append(Front(devices), Append(Last(devices), entry))
    BY <1>1 DEF AddEntry
  <2> QED BY <1>1, <2>1, FlattenLast
<1>2. CASE ~(devices # <<>> /\ Last(devices)[1].id[1] = entry.id[1])
  <2>1. AddEntry(devices, entry) = Append(devices, <<entry>>)
    BY <1>2 DEF AddEntry
  <2>2. <<entry>> \in Seq(S)
    OBVIOUS
  <2>3. FlattenSeq(Append(devices, <<entry>>)) = FlattenSeq(devices) \o <<entry>>
    BY <2>2, FlattenAppend
  <2>4. FlattenSeq(devices) \in Seq(S)
    BY FlattenType
  <2>5. FlattenSeq(devices) \o <<entry>> = Append(FlattenSeq(devices), entry)
    BY <2>4, AppendIsConcat
  <2>6. Append(devices, <<entry>>) \in Seq(Seq(S))
    BY <2>2, AppendProperties
  <2> QED BY <2>1, <2>3, <2>5, <2>6
<1> QED BY <1>1, <1>2

\* f is the recursive function of build_bridge_devices.
IsDevices(f, cfg, m, channels, N) ==
    f = [n \in 0..N |-> IF n = 0 THEN <<>>
                        ELSE AddEntry(f[n - 1], channel_entry(channels[n], cfg[channels[n]], m))]

LEMMA DevicesExist ==
    ASSUME NEW N \in Nat, NEW cfg, NEW m, NEW channels
    PROVE  \E f : IsDevices(f, cfg, m, channels, N)
<1> DEFINE T == {n \in 0..N : \E f : IsDevices(f, cfg, m, channels, n)}
           entry(n) == channel_entry(channels[n], cfg[channels[n]], m)
<1>1. 0 \in T
  <2>1. IsDevices([n \in 0..0 |-> <<>>], cfg, m, channels, 0)
    BY DEF IsDevices
  <2> QED BY <2>1
<1>2. ASSUME NEW n \in 1..N, n - 1 \in T PROVE n \in T
  <2>1. PICK f : IsDevices(f, cfg, m, channels, n - 1)
    BY <1>2
  <2> DEFINE E(g, k) == IF k = 0 THEN <<>> ELSE AddEntry(g[k - 1], entry(k))
             g == [k \in 0..n |-> IF k = n THEN AddEntry(f[n - 1], entry(n)) ELSE f[k]]
  <2>2. \A k \in 0..(n - 1) : f[k] = E(f, k)
    BY <2>1 DEF IsDevices
  <2>3. \A k \in 0..(n - 1) : g[k] = f[k]
    OBVIOUS
  <2>4. ASSUME NEW k \in 0..n PROVE g[k] = E(g, k)
    <3>1. CASE k = n
      <4>1. n # 0 /\ n - 1 \in 0..(n - 1)
        OBVIOUS
      <4>2. g[n - 1] = f[n - 1] /\ g[n] = AddEntry(f[n - 1], entry(n))
        BY <2>3, <4>1
      <4> HIDE DEF g, entry
      <4> QED BY <3>1, <4>1, <4>2
    <3>2. CASE k # n
      <4>1. k \in 0..(n - 1) /\ (k # 0 => k - 1 \in 0..(n - 1))
        BY <3>2
      <4> HIDE DEF g, entry
      <4> QED BY <2>2, <2>3, <4>1
    <3> QED BY <3>1, <3>2
  <2>5. g = [k \in 0..n |-> g[k]]
    OBVIOUS
  <2>6. IsDevices(g, cfg, m, channels, n)
    <3> HIDE DEF g
    <3> QED BY <2>4, <2>5 DEF IsDevices
  <2> HIDE DEF g
  <2> QED BY <2>6
<1> HIDE DEF T
<1>3. N \in T
  BY <1>1, <1>2, Upwards
<1> QED BY <1>3 DEF T

Listed(cfg, m) ==
    LET channels == InOrder(DOMAIN cfg)
    IN  [k \in 1..Len(channels) |-> channel_entry(channels[k], cfg[channels[k]], m)]

\* The devices are every channel's entry, in the order of the channels.
LEMMA DevicesAre ==
    ASSUME NEW cfg, NEW m
    PROVE  /\ Listed(cfg, m) \in Seq(Range(Listed(cfg, m)))
           /\ build_bridge_devices(cfg, m) \in Seq(Seq(Range(Listed(cfg, m))))
           /\ FlattenSeq(build_bridge_devices(cfg, m)) = Listed(cfg, m)
<1> DEFINE channels == InOrder(DOMAIN cfg)
           N == Len(channels)
           all == Listed(cfg, m)
           S == Range(all)
<1>1. N \in Nat
  BY InOrderIs
<1>2. build_bridge_devices(cfg, m) = (CHOOSE f : IsDevices(f, cfg, m, channels, N))[N]
  BY DEF build_bridge_devices, IsDevices
<1>3. \A n \in 1..N : all[n] = channel_entry(channels[n], cfg[channels[n]], m)
  BY DEF Listed
<1>4. DOMAIN all = 1..N /\ all = [n \in 1..N |-> all[n]]
  BY DEF Listed
<1> HIDE DEF channels, N, all, S
<1>5. all \in [1..N -> S]
  BY <1>4 DEF Range, S
<1>6. all \in Seq(S) /\ Len(all) = N
  BY <1>1, <1>5
<1>7. PICK f : IsDevices(f, cfg, m, channels, N) /\ build_bridge_devices(cfg, m) = f[N]
  BY <1>1, <1>2, DevicesExist
<1> DEFINE T == {n \in 0..N : f[n] \in Seq(Seq(S)) /\ FlattenSeq(f[n]) = SubSeq(all, 1, n)}
<1>8. 0 \in T
  <2>1. f[0] = <<>>
    BY <1>1, <1>7 DEF IsDevices
  <2>2. FlattenSeq(<<>>) = <<>>
    BY EmptySeq DEF FlattenSeq
  <2>3. SubSeq(all, 1, 0) = <<>>
    BY SubSeqEmpty
  <2>4. <<>> \in Seq(Seq(S))
    BY EmptySeq
  <2>5. f[0] \in Seq(Seq(S)) /\ FlattenSeq(f[0]) = SubSeq(all, 1, 0)
    BY <2>1, <2>2, <2>3, <2>4
  <2> QED BY <1>1, <2>5
<1>9. ASSUME NEW n \in 1..N, n - 1 \in T PROVE n \in T
  <2>1. f[n - 1] \in Seq(Seq(S)) /\ FlattenSeq(f[n - 1]) = SubSeq(all, 1, n - 1)
    BY <1>9
  <2>2. n \in 0..N /\ n # 0
    BY <1>1
  <2>3. f[n] = AddEntry(f[n - 1], channel_entry(channels[n], cfg[channels[n]], m))
    BY <1>7, <2>2, Zenon DEF IsDevices
  <2>4. f[n] = AddEntry(f[n - 1], all[n]) /\ all[n] \in S
    BY <1>3, <1>5, <2>3
  <2>5. f[n] \in Seq(Seq(S)) /\ FlattenSeq(f[n]) = Append(SubSeq(all, 1, n - 1), all[n])
    BY <2>1, <2>4, AddEntryIs
  <2>6. SubSeq(all, 1, n) = SubSeq(all, 1, n - 1) \o <<all[n]>>
    <3>1. 1 \in 1..Len(all) /\ n \in 1..Len(all)
      BY <1>1, <1>6
    <3> QED BY <1>6, <3>1, SubSeqRecursiveSecond
  <2>7. Append(SubSeq(all, 1, n - 1), all[n]) = SubSeq(all, 1, n - 1) \o <<all[n]>>
    <3>1. SubSeq(all, 1, n - 1) \in Seq(S)
      BY <2>1, FlattenType
    <3> QED BY <2>4, <3>1, AppendIsConcat
  <2>8. FlattenSeq(f[n]) = SubSeq(all, 1, n)
    BY <2>5, <2>6, <2>7
  <2> QED BY <2>2, <2>5, <2>8
<1> HIDE DEF T
<1>10. N \in T
  <2>1. \A n \in 1..N : n - 1 \in T => n \in T
    BY <1>9
  <2> QED BY <1>1, <1>8, <2>1, Upwards
<1>11. FlattenSeq(f[N]) = all
  <2>1. SubSeq(all, 1, N) = all
    BY <1>6, SubSeqFull
  <2> QED BY <1>10, <2>1 DEF T
<1> QED BY <1>6, <1>7, <1>10, <1>11 DEF T, S, all

\* A message the broker takes, unless one device alone is too much.
Takable(part) == PayloadSize(part) <= MaxPacketSize \/ Len(part) = 1

\* One device more: it goes behind the others, and no part gets too large by it.
LEMMA PlaceIs ==
    ASSUME NEW S, NEW parts \in Seq(Seq(Seq(S))), parts # <<>>, NEW device \in Seq(S),
           \A n \in DOMAIN parts : Takable(parts[n])
    PROVE  LET placed == Place(parts, device)
           IN  /\ placed \in Seq(Seq(Seq(S))) /\ placed # <<>>
               /\ FlattenSeq(placed) = Append(FlattenSeq(parts), device)
               /\ \A n \in DOMAIN placed : Takable(placed[n])
<1> DEFINE D == Seq(S)
           candidate == Append(Last(parts), device)
           front == Front(parts)
           placed == Place(parts, device)
<1>1. front \in Seq(Seq(D)) /\ Last(parts) \in Seq(D) /\ parts = Append(front, Last(parts))
  BY FrontLast
<1>2. candidate \in Seq(D) /\ Len(candidate) = Len(Last(parts)) + 1
  BY <1>1, AppendProperties
<1>3. PayloadSize(candidate) \in Nat
  <2>1. FlattenSeq(candidate) \in Seq(S)
    BY <1>2, FlattenType
  <2> QED BY <2>1, LenProperties DEF PayloadSize
<1>4. MaxPacketSize \in Nat
  BY OptionsAssumption
<1>5. ASSUME NEW s \in Seq(Seq(D)), NEW x \in Seq(D),
             \A n \in 1..Len(s) : Takable(s[n]), Takable(x)
      PROVE  \A n \in DOMAIN Append(s, x) : Takable(Append(s, x)[n])
  <2>1. /\ Append(s, x) \in Seq(Seq(D)) /\ Len(Append(s, x)) = Len(s) + 1 /\ Len(s) \in Nat
        /\ \A n \in 1..Len(s) : Append(s, x)[n] = s[n]
        /\ Append(s, x)[Len(s) + 1] = x
    BY AppendProperties, LenProperties
  <2>2. DOMAIN Append(s, x) = 1..(Len(s) + 1)
    BY <2>1, LenProperties
  <2> SUFFICES ASSUME NEW n \in 1..(Len(s) + 1) PROVE Takable(Append(s, x)[n])
    BY <2>2
  <2>3. n \in 1..Len(s) \/ n = Len(s) + 1
    BY <2>1
  <2> QED BY <1>5, <2>1, <2>3
<1>6. \A n \in 1..Len(parts) : Takable(parts[n])
  BY LenProperties
<1>7. CASE PayloadSize(candidate) > MaxPacketSize /\ Last(parts) # <<>>
  <2>1. placed = Append(parts, <<device>>)
    BY <1>7 DEF Place
  <2>2. <<device>> \in Seq(D) /\ Len(<<device>>) = 1
    OBVIOUS
  <2> HIDE DEF placed, candidate, front
  <2>3. placed \in Seq(Seq(D)) /\ placed # <<>>
    BY <2>1, <2>2, AppendProperties
  <2>4. FlattenSeq(placed) = FlattenSeq(parts) \o <<device>>
    BY <2>1, <2>2, FlattenAppend
  <2>5. FlattenSeq(parts) \o <<device>> = Append(FlattenSeq(parts), device)
    <3>1. FlattenSeq(parts) \in Seq(D)
      BY FlattenType
    <3> QED BY <3>1, AppendIsConcat
  <2>6. \A n \in DOMAIN placed : Takable(placed[n])
    <3>1. Takable(<<device>>)
      BY <2>2 DEF Takable
    <3> QED BY <1>5, <1>6, <2>1, <2>2, <3>1
  <2> QED BY <2>3, <2>4, <2>5, <2>6 DEF placed
<1>8. CASE ~(PayloadSize(candidate) > MaxPacketSize /\ Last(parts) # <<>>)
  <2>1. placed = Append(front, candidate)
    BY <1>8 DEF Place
  <2>2. placed \in Seq(Seq(D)) /\ FlattenSeq(placed) = Append(FlattenSeq(parts), device)
    BY <2>1, FlattenLast
  <2>3. Takable(candidate)
    <3>1. CASE Last(parts) = <<>>
      <4>1. Len(candidate) = 1
        BY <1>2, <3>1, EmptySeq
      <4> QED BY <4>1 DEF Takable
    <3>2. CASE Last(parts) # <<>>
      BY <1>3, <1>4, <1>8, <3>2 DEF Takable
    <3> QED BY <3>1, <3>2
  <2> HIDE DEF placed, candidate, front
  <2>4. \A n \in 1..Len(front) : Takable(front[n])
    <3> DEFINE T == Seq(D)
               last == Last(parts)
    <3>1. front \in Seq(T) /\ last \in T /\ parts = Append(front, last)
      BY <1>1
    <3> HIDE DEF T, last
    <3>2. /\ Len(parts) = Len(front) + 1 /\ Len(front) \in Nat
          /\ \A n \in 1..Len(front) : parts[n] = front[n]
      BY <3>1, AppendProperties, LenProperties
    <3> QED BY <1>6, <3>2
  <2>5. \A n \in DOMAIN placed : Takable(placed[n])
    BY <1>1, <1>2, <1>5, <2>1, <2>3, <2>4
  <2>6. placed # <<>>
    BY <1>1, <1>2, <2>1, AppendProperties
  <2> QED BY <2>2, <2>5, <2>6 DEF placed
<1> QED BY <1>7, <1>8

\* f is the recursive function of split_devices_payload.
IsParts(f, devices, N) ==
    f = [n \in 0..N |-> IF n = 0 THEN <<<<>>>> ELSE Place(f[n - 1], devices[n])]

LEMMA PartsExist ==
    ASSUME NEW N \in Nat, NEW devices
    PROVE  \E f : IsParts(f, devices, N)
<1> DEFINE T == {n \in 0..N : \E f : IsParts(f, devices, n)}
<1>1. 0 \in T
  <2>1. IsParts([n \in 0..0 |-> <<<<>>>>], devices, 0)
    BY DEF IsParts
  <2> QED BY <2>1
<1>2. ASSUME NEW n \in 1..N, n - 1 \in T PROVE n \in T
  <2>1. PICK f : IsParts(f, devices, n - 1)
    BY <1>2
  <2> DEFINE E(g, k) == IF k = 0 THEN <<<<>>>> ELSE Place(g[k - 1], devices[k])
             g == [k \in 0..n |-> IF k = n THEN Place(f[n - 1], devices[n]) ELSE f[k]]
  <2>2. \A k \in 0..(n - 1) : f[k] = E(f, k)
    BY <2>1 DEF IsParts
  <2>3. \A k \in 0..(n - 1) : g[k] = f[k]
    OBVIOUS
  <2>4. ASSUME NEW k \in 0..n PROVE g[k] = E(g, k)
    <3>1. CASE k = n
      <4>1. n # 0 /\ n - 1 \in 0..(n - 1)
        OBVIOUS
      <4>2. g[n - 1] = f[n - 1] /\ g[n] = Place(f[n - 1], devices[n])
        BY <2>3, <4>1
      <4> HIDE DEF g
      <4> QED BY <3>1, <4>1, <4>2
    <3>2. CASE k # n
      <4>1. k \in 0..(n - 1) /\ (k # 0 => k - 1 \in 0..(n - 1))
        BY <3>2
      <4> HIDE DEF g
      <4> QED BY <2>2, <2>3, <4>1
    <3> QED BY <3>1, <3>2
  <2>5. g = [k \in 0..n |-> g[k]]
    OBVIOUS
  <2>6. IsParts(g, devices, n)
    <3> HIDE DEF g
    <3> QED BY <2>4, <2>5 DEF IsParts
  <2> HIDE DEF g
  <2> QED BY <2>6
<1> HIDE DEF T
<1>3. N \in T
  BY <1>1, <1>2, Upwards
<1> QED BY <1>3 DEF T

\* The parts are all the devices in their order, in messages the broker takes.
LEMMA SplitIs ==
    ASSUME NEW S, NEW devices \in Seq(Seq(S))
    PROVE  LET parts == split_devices_payload(devices)
           IN  /\ parts \in Seq(Seq(Seq(S))) /\ parts # <<>>
               /\ FlattenSeq(parts) = devices
               /\ \A n \in DOMAIN parts : Takable(parts[n])
<1> DEFINE N == Len(devices)
           D == Seq(S)
<1>1. N \in Nat /\ \A n \in 1..N : devices[n] \in D
  BY LenProperties
<1>2. split_devices_payload(devices) = (CHOOSE f : IsParts(f, devices, N))[N]
  BY DEF split_devices_payload, IsParts
<1>3. PICK f : IsParts(f, devices, N) /\ split_devices_payload(devices) = f[N]
  BY <1>1, <1>2, PartsExist
<1> DEFINE Good(n) == /\ f[n] \in Seq(Seq(D)) /\ f[n] # <<>>
                      /\ FlattenSeq(f[n]) = SubSeq(devices, 1, n)
                      /\ \A k \in DOMAIN f[n] : Takable(f[n][k])
           T == {n \in 0..N : Good(n)}
<1>4. SubSeq(devices, 1, N) = devices
  BY SubSeqFull
<1> HIDE DEF N
<1>5. 0 \in T
  <2>1. f[0] = <<<<>>>>
    BY <1>1, <1>3 DEF IsParts
  <2>2. <<>> \in Seq(D) /\ <<>> \in Seq(Seq(D)) /\ Append(<<>>, <<>>) = <<<<>>>>
    BY EmptySeq
  <2>3. f[0] \in Seq(Seq(D)) /\ f[0] # <<>>
    BY <2>1, <2>2
  <2>4. FlattenSeq(<<>>) = <<>>
    BY EmptySeq DEF FlattenSeq
  <2>5. FlattenSeq(f[0]) = <<>>
    <3>1. FlattenSeq(Append(<<>>, <<>>)) = FlattenSeq(<<>>) \o <<>>
      BY <2>2, FlattenAppend
    <3>2. <<>> \o <<>> = <<>>
      BY <2>2, ConcatEmptySeq
    <3> QED BY <2>1, <2>2, <2>4, <3>1, <3>2
  <2>6. SubSeq(devices, 1, 0) = <<>>
    BY SubSeqEmpty
  <2>7. \A k \in DOMAIN f[0] : Takable(f[0][k])
    <3>1. PayloadSize(<<>>) = 0
      BY <2>4, EmptySeq DEF PayloadSize
    <3>2. Takable(<<>>)
      BY <3>1, OptionsAssumption DEF Takable
    <3>3. \A k \in DOMAIN <<<<>>>> : <<<<>>>>[k] = <<>>
      OBVIOUS
    <3> QED BY <2>1, <3>2, <3>3
  <2>8. Good(0) /\ 0 \in 0..N
    BY <1>1, <2>3, <2>5, <2>6, <2>7
  <2> HIDE DEF Good
  <2> QED BY <2>8
<1>6. ASSUME NEW n \in 1..N, n - 1 \in T PROVE n \in T
  <2>1. Good(n - 1)
    BY <1>6
  <2>2. n \in 0..N /\ n # 0 /\ devices[n] \in D
    BY <1>1
  <2>3. f[n] = Place(f[n - 1], devices[n])
    BY <1>3, <2>2, Zenon DEF IsParts
  <2>4. /\ f[n] \in Seq(Seq(D)) /\ f[n] # <<>>
        /\ FlattenSeq(f[n]) = Append(SubSeq(devices, 1, n - 1), devices[n])
        /\ \A k \in DOMAIN f[n] : Takable(f[n][k])
    BY <2>1, <2>2, <2>3, PlaceIs
  <2>5. SubSeq(devices, 1, n) = SubSeq(devices, 1, n - 1) \o <<devices[n]>>
    <3>1. 1 \in 1..Len(devices) /\ n \in 1..Len(devices)
      BY <1>1 DEF N
    <3> QED BY <3>1, SubSeqRecursiveSecond
  <2>6. Append(SubSeq(devices, 1, n - 1), devices[n]) = SubSeq(devices, 1, n - 1) \o <<devices[n]>>
    <3>1. SubSeq(devices, 1, n - 1) \in Seq(D)
      BY <2>1, FlattenType
    <3> QED BY <2>2, <3>1, AppendIsConcat
  <2>7. Good(n)
    BY <2>4, <2>5, <2>6
  <2> HIDE DEF Good
  <2> QED BY <2>2, <2>7
<1> HIDE DEF T
<1>7. N \in T
  <2>1. \A n \in 1..N : n - 1 \in T => n \in T
    BY <1>6
  <2>2. N \in Nat
    BY <1>1
  <2>3. \A n \in 0..N : n \in T
    BY <1>5, <2>1, <2>2, Upwards, Zenon
  <2> QED BY <2>2, <2>3
<1>8. Good(N)
  <2> HIDE DEF Good
  <2> QED BY <1>7 DEF T
<1> QED BY <1>3, <1>4, <1>8

\* The parts that the index of retained topics leads to.
PartsOf(retained) ==
    IF retained.index.parts = 0 THEN <<retained.index.devices>>
    ELSE SubSeq(retained.parts, 1, retained.index.parts)

\* Published, the index leads to the new parts, whatever was retained before.
LEMMA PublishedIs ==
    ASSUME NEW S, NEW devices \in Seq(Seq(S)), NEW retained, Len(retained.parts) \in Nat
    PROVE  LET published == publish_bridge_devices(retained, devices)
           IN  /\ PartsOf(published) = split_devices_payload(devices)
               /\ Len(published.parts) \in Nat
<1> DEFINE parts == split_devices_payload(devices)
           rest == SubSeq(retained.parts, Len(parts) + 1, Len(retained.parts))
           published == publish_bridge_devices(retained, devices)
<1>1. parts \in Seq(Seq(Seq(S))) /\ parts # <<>>
  BY SplitIs
<1> HIDE DEF parts
<1>2. Len(parts) \in Nat /\ Len(parts) # 0
  BY <1>1, EmptySeq, LenProperties
<1>3. CASE Len(parts) = 1
  <2>1. published = [index |-> [parts |-> 0, devices |-> parts[1]], parts |-> retained.parts]
    BY <1>3 DEF publish_bridge_devices, parts
  <2>2. parts = <<parts[1]>>
    BY <1>1, <1>3
  <2> HIDE DEF published
  <2>3. PartsOf(published) = <<parts[1]>> /\ published.parts = retained.parts
    BY <2>1 DEF PartsOf
  <2> QED BY <2>2, <2>3 DEF published, parts
<1>4. CASE Len(parts) # 1
  <2>1. published = [index |-> [parts |-> Len(parts), devices |-> <<>>], parts |-> parts \o rest]
    BY <1>4 DEF publish_bridge_devices, parts
  <2> DEFINE R == {retained.parts[i] : i \in (Len(parts) + 1)..Len(retained.parts)}
             B == R \cup Seq(Seq(S))
  <2>2. rest \in Seq(B)
    <3>1. \A i \in (Len(parts) + 1)..Len(retained.parts) : retained.parts[i] \in B
      OBVIOUS
    <3>2. Len(parts) + 1 \in Int /\ Len(retained.parts) \in Int
      BY <1>2
    <3> HIDE DEF B
    <3> QED BY <3>1, <3>2, SubSeqProperties
  <2>3. parts \in Seq(B)
    BY <1>1, SeqMonotonic
  <2> HIDE DEF rest, B, published
  <2>4. parts \o rest \in Seq(B)
    BY <2>2, <2>3, ConcatProperties
  <2>5. SubSeq(parts \o rest, 1, Len(parts)) = parts
    <3>1. 1 \in 1..Len(parts) /\ Len(parts) \in 1..Len(parts)
      BY <1>2
    <3>2. SubSeq(parts \o rest, 1, Len(parts)) = SubSeq(parts, 1, Len(parts))
      BY <2>2, <2>3, <3>1, SubSeqOfConcat1
    <3> QED BY <2>3, <3>2, SubSeqFull
  <2>6. PartsOf(published) = SubSeq(parts \o rest, 1, Len(parts)) /\ published.parts = parts \o rest
    BY <1>2, <2>1 DEF PartsOf
  <2>7. Len(parts \o rest) \in Nat
    BY <2>4, LenProperties
  <2> QED BY <2>5, <2>6, <2>7 DEF published, parts
<1> QED BY <1>3, <1>4

\* What is listed of the channels: each of them once, with the topic of its entity or
\* the reason it has none.
LEMMA ListedIsTrue ==
    ASSUME NEW cfg, DOMAIN cfg \subseteq Channels, NEW ex, NEW m,
           EntitiesOf(m, collect_channels(cfg, ex))
    PROVE  /\ Len(Listed(cfg, m)) = Cardinality(DOMAIN cfg)
           /\ \A channel \in DOMAIN cfg : \E n \in DOMAIN Listed(cfg, m) :
                /\ Listed(cfg, m)[n].id = channel
                /\ LET outcome == collect_one_channel(channel, cfg[channel], ex)
                   IN  outcome \notin {"hidden", "excluded"} =>
                        Listed(cfg, m)[n].reason =
                            IF outcome # "kept" /\ ~cfg[channel].placed THEN "orphaned"
                            ELSE outcome
                /\ \A i \in ById(m, channel) : Listed(cfg, m)[n].topic = m.entities[i].topic
<1> DEFINE channels == InOrder(DOMAIN cfg)
           entries == Listed(cfg, m)
           outcome(channel) == collect_one_channel(channel, cfg[channel], ex)
           keepers == {channel \in DOMAIN cfg : outcome(channel) = "kept"}
           kept == InOrder(keepers)
<1>1. /\ Len(channels) \in Nat /\ DOMAIN channels = 1..Len(channels)
      /\ Len(channels) = Cardinality(DOMAIN cfg)
      /\ \A channel \in DOMAIN cfg : \E k \in DOMAIN channels : channels[k] = channel
  BY InOrderIs, InOrderAll
<1>2. /\ DOMAIN entries = 1..Len(channels)
      /\ \A k \in 1..Len(channels) : entries[k] = channel_entry(channels[k], cfg[channels[k]], m)
  BY DEF Listed
<1>3. Len(entries) = Len(channels)
  <2>1. entries \in Seq(Range(entries))
    BY DevicesAre
  <2> HIDE DEF entries
  <2> QED BY <1>1, <1>2, <2>1, LenProperties
<1>4. collect_channels(cfg, ex) = kept
  BY DEF collect_channels
<1>5. EntitiesOf(m, kept)
  BY <1>4
<1>6. keepers \in SUBSET Channels
  OBVIOUS
<1> HIDE DEF keepers
<1>7. /\ \A k \in DOMAIN kept : kept[k] \in keepers
      /\ \A channel \in keepers : \E k \in DOMAIN kept : kept[k] = channel
  BY <1>6, InOrderAll
<1> HIDE DEF channels, entries, kept
<1>8. /\ \A channel \in keepers : ById(m, channel) # {}
      /\ \A channel : channel \notin keepers => ById(m, channel) = {}
      /\ \A channel : \A i, j \in ById(m, channel) : i = j
  BY <1>5, <1>7 DEF EntitiesOf, ById
<1>9. ASSUME NEW channel \in DOMAIN cfg
      PROVE  \E n \in DOMAIN entries :
                /\ entries[n].id = channel
                /\ outcome(channel) \notin {"hidden", "excluded"} =>
                        entries[n].reason =
                            IF outcome(channel) # "kept" /\ ~cfg[channel].placed THEN "orphaned"
                            ELSE outcome(channel)
                /\ \A i \in ById(m, channel) : entries[n].topic = m.entities[i].topic
  <2>1. PICK n \in 1..Len(channels) : channels[n] = channel
    BY <1>1
  <2>2. entries[n] = channel_entry(channel, cfg[channel], m)
    BY <1>2, <2>1
  <2>3. CASE channel \in keepers
    <3>1. ById(m, channel) # {} /\ outcome(channel) = "kept"
      BY <1>8, <2>3 DEF keepers
    <3> DEFINE one == CHOOSE i \in ById(m, channel) : TRUE
    <3>2. one \in ById(m, channel)
      BY <3>1
    <3>3. entries[n] = [id |-> channel, reason |-> "kept", topic |-> m.entities[one].topic]
      BY <2>2, <3>1 DEF channel_entry
    <3>4. \A i \in ById(m, channel) : i = one
      BY <1>8, <3>2
    <3> HIDE DEF one, outcome
    <3>5. /\ entries[n].id = channel /\ entries[n].reason = "kept"
          /\ \A i \in ById(m, channel) : entries[n].topic = m.entities[i].topic
      BY <3>3, <3>4
    <3> QED BY <1>2, <2>1, <3>1, <3>5
  <2>4. CASE channel \notin keepers
    <3>1. ById(m, channel) = {} /\ outcome(channel) # "kept"
      BY <1>8, <2>4 DEF keepers
    <3> DEFINE shape == cfg[channel]
    <3>2. entries[n] = [id |-> channel, reason |-> unsupported_reason(shape), topic |-> <<>>]
      BY <2>2, <3>1 DEF channel_entry
    <3>3. outcome(channel) \notin {"hidden", "excluded"} =>
            unsupported_reason(shape) = IF ~shape.placed THEN "orphaned" ELSE outcome(channel)
      <4> DEFINE found == collect_one_channel(channel, shape, ex)
      <4>1. \/ found \in {"hidden", "excluded", "kept"}
            \/ ~shape.placed
            \/ found = "unknown function" /\ shape.function \notin KnownFunctions
            \/ found = "unclaimed" /\ shape.function \in KnownFunctions
        <5> HIDE DEF shape
        <5> QED BY DEF collect_one_channel, orphaned
      <4>2. /\ ~shape.placed => unsupported_reason(shape) = "orphaned"
            /\ shape.placed /\ shape.function \notin KnownFunctions =>
                    unsupported_reason(shape) = "unknown function"
            /\ shape.placed /\ shape.function \in KnownFunctions =>
                    unsupported_reason(shape) = "unclaimed"
        <5> HIDE DEF shape
        <5> QED BY Zenon DEF unsupported_reason
      <4>3. outcome(channel) = found
        OBVIOUS
      <4> HIDE DEF found, outcome, shape
      <4> QED BY <3>1, <4>1, <4>2, <4>3, Zenon
    <3> HIDE DEF shape, outcome
    <3>4. entries[n].id = channel /\ entries[n].reason = unsupported_reason(shape)
      BY <3>2
    <3> QED BY <1>2, <2>1, <3>1, <3>3, <3>4 DEF shape
  <2> QED BY <2>3, <2>4
<1> QED BY <1>1, <1>3, <1>9 DEF entries

----------------------------------------------------------------------------
(* The invariant.                                                          *)

IInv ==
    /\ Sound(model)
    /\ Fits(store, model)
    /\ DOMAIN readings = DOMAIN config
    /\ DOMAIN asked \subseteq DOMAIN config

LEMMA SeedFits ==
    ASSUME NEW m, NEW raws
    PROVE  Fits(Seed(m, raws), m)
  BY DEF Fits, Seed

LEMMA ProcessFits ==
    ASSUME NEW channel, NEW key, NEW raw, Fits(store, model)
    PROVE  Fits(Process(channel, key, raw), model)
<1> DEFINE binding == model.ingress[<<channel, key>>]
           value == decode(model.entities[binding.entity].codecs[binding.attr], raw)
           values == [store EXCEPT ![binding.entity][binding.attr] = value]
<1>1. Process(channel, key, raw) \in {store, values}
  BY DEF Process
<1>2. Fits(values, model)
  <2> HIDE DEF value, binding
  <2> QED BY DEF Fits
<1> QED BY <1>1, <1>2

\* The new tables, or the old ones where the compilation failed.
LEMMA ResyncFits ==
    ASSUME IInv, Resync
    PROVE  Sound(model') /\ Fits(store', model')
<1> DEFINE new == compile_and_build_discovery(config', aliases', excluded')
<1>1. CASE new.ok
  <2>1. model' = new /\ store' = Seed(new, readings')
    BY <1>1 DEF Resync
  <2>2. Sound(new)
    BY <1>1, AnnouncedIsSound
  <2> HIDE DEF new
  <2> QED BY <2>1, <2>2, SeedFits
<1>2. CASE ~new.ok
  <2>1. model' = model /\ store' = store
    BY <1>2 DEF Resync
  <2> QED BY <2>1 DEF IInv
<1> QED BY <1>1, <1>2

\* What the retained inventory tells, and of which model.
Current ==
    /\ model.ok /\ model = compile_and_build_discovery(config, aliases, excluded)
    /\ Inventory = split_devices_payload(build_bridge_devices(config, model))
InventoryInv ==
    /\ DOMAIN config \subseteq Channels
    /\ Len(inventory.parts) \in Nat
    /\ \A n \in DOMAIN Inventory : Takable(Inventory[n])
    /\ ~deaf => Current

\* The inventory of any model is taken by the broker.
LEMMA NewInventory ==
    ASSUME NEW retained, Len(retained.parts) \in Nat, NEW cfg, NEW m
    PROVE  LET published == publish_bridge_devices(retained, build_bridge_devices(cfg, m))
           IN  /\ Len(published.parts) \in Nat
               /\ PartsOf(published) = split_devices_payload(build_bridge_devices(cfg, m))
               /\ \A n \in DOMAIN PartsOf(published) : Takable(PartsOf(published)[n])
<1> DEFINE devices == build_bridge_devices(cfg, m)
           S == Range(Listed(cfg, m))
           published == publish_bridge_devices(retained, devices)
<1>1. devices \in Seq(Seq(S))
  BY DevicesAre
<1> HIDE DEF S, devices
<1>2. PartsOf(published) = split_devices_payload(devices) /\ Len(published.parts) \in Nat
  BY <1>1, PublishedIs
<1>3. \A n \in DOMAIN split_devices_payload(devices) : Takable(split_devices_payload(devices)[n])
  BY <1>1, SplitIs
<1> HIDE DEF published
<1>4. \A n \in DOMAIN PartsOf(published) : Takable(PartsOf(published)[n])
  BY <1>2, <1>3
<1> QED BY <1>2, <1>4 DEF published, devices

\* A resync tells of the new model, or falls deaf and lets the inventory be.
LEMMA ResyncTells ==
    ASSUME InventoryInv, DOMAIN config' \subseteq Channels, Resync
    PROVE  InventoryInv'
<1> DEFINE new == compile_and_build_discovery(config', aliases', excluded')
           devices == build_bridge_devices(config', new)
           published == publish_bridge_devices(inventory, devices)
<1>1. Len(inventory.parts) \in Nat /\ \A n \in DOMAIN Inventory : Takable(Inventory[n])
  BY DEF InventoryInv
<1>2. CASE new.ok
  <2>1. model' = new /\ inventory' = published /\ deaf' = FALSE
    BY <1>2 DEF Resync
  <2>2. /\ Len(published.parts) \in Nat
        /\ PartsOf(published) = split_devices_payload(devices)
        /\ \A n \in DOMAIN PartsOf(published) : Takable(PartsOf(published)[n])
    BY <1>1, NewInventory
  <2> HIDE DEF published
  <2>3. Inventory' = PartsOf(published)
    BY <2>1 DEF Inventory, PartsOf
  <2>4. Current'
    BY <1>2, <2>1, <2>2, <2>3 DEF Current
  <2> QED BY <2>1, <2>2, <2>3, <2>4 DEF InventoryInv
<1>3. CASE ~new.ok
  <2>1. deaf' = TRUE /\ inventory' = inventory
    BY <1>3 DEF Resync
  <2>2. Inventory' = Inventory
    BY <2>1 DEF Inventory
  <2> QED BY <1>1, <2>1, <2>2 DEF InventoryInv
<1> QED BY <1>2, <1>3

LEMMA InitTells == Init => InventoryInv
<1> SUFFICES ASSUME Init PROVE InventoryInv
  OBVIOUS
<1> DEFINE retained == [index |-> <<>>, parts |-> <<>>]
           devices == build_bridge_devices(config, model)
           published == publish_bridge_devices(retained, devices)
<1>1. /\ DOMAIN config \subseteq Channels /\ model.ok
      /\ model = compile_and_build_discovery(config, aliases, excluded)
      /\ inventory = published
  BY StartAssumption DEF Init
<1>2. Len(retained.parts) \in Nat
  BY EmptySeq
<1> HIDE DEF retained
<1>3. /\ Len(published.parts) \in Nat
      /\ PartsOf(published) = split_devices_payload(devices)
      /\ \A n \in DOMAIN PartsOf(published) : Takable(PartsOf(published)[n])
  BY <1>2, NewInventory
<1> HIDE DEF published
<1>4. Inventory = PartsOf(published)
  BY <1>1 DEF Inventory, PartsOf
<1> QED BY <1>1, <1>3, <1>4 DEF InventoryInv, Current

LEMMA StepTells == InventoryInv /\ [Next]_vars => InventoryInv'
<1> SUFFICES ASSUME InventoryInv, [Next]_vars PROVE InventoryInv'
  OBVIOUS
<1>1. DOMAIN config \subseteq Channels
  BY DEF InventoryInv
<1>2. ASSUME NEW channel \in Channels, NEW shape \in Shapes[channel], Install(channel, shape)
      PROVE  InventoryInv'
  <2>1. DOMAIN config' \subseteq Channels /\ Resync
    BY <1>1, <1>2 DEF Install, Put
  <2> QED BY <2>1, ResyncTells
<1>3. ASSUME NEW channel \in DOMAIN config, Uninstall(channel)
      PROVE  InventoryInv'
  <2>1. DOMAIN config' \subseteq Channels /\ Resync
    BY <1>1, <1>3 DEF Uninstall, Restrict
  <2> QED BY <2>1, ResyncTells
<1>4. ASSUME NEW channel \in DOMAIN config, Exclude(channel)
      PROVE  InventoryInv'
  <2>1. DOMAIN config' \subseteq Channels /\ Resync
    BY <1>1, <1>4 DEF Exclude
  <2> QED BY <2>1, ResyncTells
<1>5. ASSUME NEW channel \in DOMAIN config, NEW name \in Names, Rename(channel, name)
      PROVE  InventoryInv'
  <2>1. DOMAIN config' \subseteq Channels /\ Resync
    BY <1>1, <1>5 DEF Rename
  <2> QED BY <2>1, ResyncTells
<1>6. ASSUME UNCHANGED <<config, aliases, excluded, model, deaf, inventory>>
      PROVE  InventoryInv'
  <2>1. Inventory' = Inventory /\ Current' = Current
    BY <1>6 DEF Inventory, Current
  <2> QED BY <1>6, <2>1 DEF InventoryInv
<1>7. ASSUME NEW channel \in DOMAIN config, NEW pairing, NEW raw, Report(channel, pairing, raw)
      PROVE  InventoryInv'
  BY <1>6, <1>7 DEF Report
<1>8. ASSUME NEW channel \in DOMAIN config, NEW name, NEW value, Command(channel, name, value)
      PROVE  InventoryInv'
  BY <1>6, <1>8 DEF Command
<1>9. ASSUME NEW n \in DOMAIN wire, Deliver(n)
      PROVE  InventoryInv'
  BY <1>6, <1>9 DEF Deliver
<1>10. CASE UNCHANGED vars
  BY <1>6, <1>10 DEF vars
<1> QED BY <1>2, <1>3, <1>4, <1>5, <1>7, <1>8, <1>9, <1>10 DEF Next

LEMMA InitInv == Init => IInv
<1> SUFFICES ASSUME Init PROVE IInv
  OBVIOUS
<1>1. Sound(model)
  BY StartAssumption, AnnouncedIsSound DEF Init
<1>2. Fits(store, model)
  BY SeedFits DEF Init
<1>3. DOMAIN readings = DOMAIN config /\ DOMAIN asked \subseteq DOMAIN config
  BY DEF Init
<1> QED BY <1>1, <1>2, <1>3 DEF IInv

LEMMA StepInv == IInv /\ [Next]_vars => IInv'
<1> SUFFICES ASSUME IInv, [Next]_vars PROVE IInv'
  OBVIOUS
<1>1. /\ Sound(model) /\ Fits(store, model)
      /\ DOMAIN readings = DOMAIN config /\ DOMAIN asked \subseteq DOMAIN config
  BY DEF IInv
<1>2. ASSUME NEW channel \in Channels, NEW shape \in Shapes[channel], Install(channel, shape)
      PROVE  IInv'
  <2>1. Sound(model') /\ Fits(store', model')
    BY <1>2, ResyncFits DEF Install
  <2>2. DOMAIN readings' = DOMAIN config' /\ DOMAIN asked' \subseteq DOMAIN config'
    BY <1>1, <1>2 DEF Install, Put, Restrict
  <2> QED BY <2>1, <2>2 DEF IInv
<1>3. ASSUME NEW channel \in DOMAIN config, Uninstall(channel)
      PROVE  IInv'
  <2>1. Sound(model') /\ Fits(store', model')
    BY <1>3, ResyncFits DEF Uninstall
  <2>2. DOMAIN readings' = DOMAIN config' /\ DOMAIN asked' \subseteq DOMAIN config'
    BY <1>1, <1>3 DEF Uninstall, Restrict
  <2> QED BY <2>1, <2>2 DEF IInv
<1>4. ASSUME NEW channel \in DOMAIN config, Exclude(channel)
      PROVE  IInv'
  <2>1. Sound(model') /\ Fits(store', model')
    BY <1>4, ResyncFits DEF Exclude
  <2>2. DOMAIN readings' = DOMAIN config' /\ DOMAIN asked' \subseteq DOMAIN config'
    BY <1>1, <1>4 DEF Exclude, Restrict
  <2> QED BY <2>1, <2>2 DEF IInv
<1>5. ASSUME NEW channel \in DOMAIN config, NEW name \in Names, Rename(channel, name)
      PROVE  IInv'
  <2>1. Sound(model') /\ Fits(store', model')
    BY <1>5, ResyncFits DEF Rename
  <2>2. DOMAIN readings' = DOMAIN config' /\ DOMAIN asked' \subseteq DOMAIN config'
    BY <1>1, <1>5 DEF Rename
  <2> QED BY <2>1, <2>2 DEF IInv
<1>6. ASSUME NEW channel \in DOMAIN config, NEW pairing, NEW raw, Report(channel, pairing, raw)
      PROVE  IInv'
  <2> DEFINE key == find_datapoint(config[channel].outputs, pairing)
  <2>1. /\ readings' = [readings EXCEPT ![channel][key] = raw]
        /\ store' = Process(channel, key, raw)
        /\ asked' = Restrict(asked, DOMAIN asked \ {channel})
        /\ config' = config /\ model' = model
    BY <1>6 DEF Report
  <2> HIDE DEF key
  <2>2. DOMAIN readings' = DOMAIN config' /\ DOMAIN asked' \subseteq DOMAIN config'
    BY <1>1, <2>1 DEF Restrict
  <2> QED BY <1>1, <2>1, <2>2, ProcessFits DEF IInv
<1>7. ASSUME NEW channel \in DOMAIN config, NEW name, NEW value, Command(channel, name, value)
      PROVE  IInv'
  <2>1. Fits(store', model)
    <3>1. store' = store \/ \E i : store' = apply_command(i, name, value).store
      BY <1>7 DEF Command
    <3> QED BY <1>1, <3>1, CommandFits
  <2>2. config' = config /\ model' = model /\ readings' = readings
    BY <1>7 DEF Command
  <2>3. DOMAIN asked' \subseteq DOMAIN config
    BY <1>1, <1>7 DEF Command, Put, Restrict
  <2> QED BY <1>1, <2>1, <2>2, <2>3 DEF IInv
<1>8. ASSUME NEW n \in DOMAIN wire, Deliver(n)
      PROVE  IInv'
  <2> DEFINE path == wire[n][1]
             key == OutputOf(path)
             shown == Shown(path, wire[n][2])
  <2>1. /\ readings' = readings \/ readings' = [readings EXCEPT ![path[1]][key] = shown]
        /\ store' = store \/ store' = Process(path[1], key, shown)
        /\ config' = config /\ model' = model /\ asked' = asked
    BY <1>8 DEF Deliver
  <2> HIDE DEF path, key, shown
  <2>2. DOMAIN readings' = DOMAIN config'
    BY <1>1, <2>1
  <2>3. Fits(store', model')
    BY <1>1, <2>1, ProcessFits
  <2> QED BY <1>1, <2>1, <2>2, <2>3 DEF IInv
<1>9. CASE UNCHANGED vars
  BY <1>1, <1>9 DEF vars, IInv
<1> QED BY <1>2, <1>3, <1>4, <1>5, <1>6, <1>7, <1>8, <1>9 DEF Next

LEMMA Inductive == Spec => []IInv
  BY InitInv, StepInv, PTL DEF Spec

----------------------------------------------------------------------------
(* What a profile makes of a channel: all that the tables hold.            *)

\* Of the profiles that claim a channel one is the most specific, and the first of those.
Best(i, some) ==
    \A j \in some \ {i} :
        \/ specificity(Profiles[j]) < specificity(Profiles[i])
        \/ specificity(Profiles[j]) = specificity(Profiles[i]) /\ i < j

LEMMA MatchIs ==
    ASSUME NEW shape, Candidates(shape) # {}
    PROVE  match_profile(shape) \in Candidates(shape) /\ Best(match_profile(shape), Candidates(shape))
<1> DEFINE N == Len(Profiles)
           Upto(n) == Candidates(shape) \cap 1..n
           T == {n \in 0..N : Upto(n) # {} => \E i \in Upto(n) : Best(i, Upto(n))}
<1>1. DOMAIN Profiles = 1..N /\ N \in Nat
  BY ProfilesAssumption, LenProperties
<1>2. ASSUME NEW i \in 1..N PROVE specificity(Profiles[i]) \in Nat
  BY <1>1, ProfilesAssumption, FS_CardinalityType DEF specificity
<1>3. Candidates(shape) \in SUBSET (1..N)
  BY <1>1 DEF Candidates
<1>4. 0 \in T
  BY <1>1
<1>5. ASSUME NEW n \in 1..N, n - 1 \in T PROVE n \in T
  <2> SUFFICES ASSUME Upto(n) # {} PROVE \E i \in Upto(n) : Best(i, Upto(n))
    <3>1. n \in 0..N
      BY <1>1
    <3> HIDE DEF N, Upto
    <3> QED BY <3>1
  <2>1. \A j \in Upto(n) : j \in 1..N /\ (j = n \/ j \in Upto(n - 1)) /\ (j # n => j < n)
    BY <1>3
  <2>2. CASE n \notin Candidates(shape)
    <3>1. Upto(n) = Upto(n - 1)
      BY <1>1, <2>1, <2>2
    <3> QED BY <1>5, <3>1
  <2>3. CASE n \in Candidates(shape) /\ Upto(n - 1) = {}
    <3>1. n \in Upto(n) /\ \A j \in Upto(n) : j = n
      BY <1>1, <2>1, <2>3
    <3> QED BY <3>1 DEF Best
  <2>4. CASE n \in Candidates(shape) /\ Upto(n - 1) # {}
    <3>1. PICK i \in Upto(n - 1) : Best(i, Upto(n - 1))
      BY <1>5, <2>4
    <3>2. i \in 1..N /\ i < n /\ i \in Upto(n) /\ n \in Upto(n)
      BY <1>1, <1>3, <2>4
    <3>3. specificity(Profiles[i]) \in Nat /\ specificity(Profiles[n]) \in Nat
          /\ \A j \in Upto(n) : specificity(Profiles[j]) \in Nat
      BY <1>2, <2>1, <3>2
    <3>4. CASE specificity(Profiles[n]) > specificity(Profiles[i])
      <4>1. ASSUME NEW j \in Upto(n) \ {n} PROVE specificity(Profiles[j]) < specificity(Profiles[n])
        <5>1. j \in Upto(n - 1) /\ specificity(Profiles[j]) \in Nat
          BY <2>1, <3>3
        <5> HIDE DEF Upto
        <5> QED BY <3>1, <3>3, <3>4, <5>1 DEF Best
      <4> HIDE DEF Upto
      <4> QED BY <3>2, <4>1 DEF Best
    <3>5. CASE ~(specificity(Profiles[n]) > specificity(Profiles[i]))
      <4>1. ASSUME NEW j \in Upto(n) \ {i}
            PROVE  \/ specificity(Profiles[j]) < specificity(Profiles[i])
                   \/ specificity(Profiles[j]) = specificity(Profiles[i]) /\ i < j
        <5>1. j = n \/ j \in Upto(n - 1)
          BY <2>1
        <5> HIDE DEF Upto
        <5> QED BY <3>1, <3>2, <3>3, <3>5, <5>1 DEF Best
      <4> HIDE DEF Upto
      <4> QED BY <3>2, <4>1 DEF Best
    <3> QED BY <3>4, <3>5
  <2> QED BY <2>2, <2>3, <2>4
<1> HIDE DEF T, N
<1>6. N \in T
  BY <1>1, <1>4, <1>5, Upwards
<1>7. Upto(N) = Candidates(shape)
  BY <1>3
<1>8. \E i \in Candidates(shape) : Best(i, Candidates(shape))
  BY <1>6, <1>7 DEF T
<1>9. match_profile(shape) = CHOOSE i \in Candidates(shape) : Best(i, Candidates(shape))
  BY DEF match_profile, Best
<1> QED BY <1>8, <1>9

\* Where no key has two functions, each keeps its own.
LEMMA MergedOwn ==
    ASSUME NEW N \in Nat, NEW functions, DOMAIN functions = 1..N,
           NEW i \in 1..N, NEW key \in DOMAIN functions[i],
           \A j \in 1..N : key \in DOMAIN functions[j] => j = i
    PROVE  key \in DOMAIN Merged(functions) /\ Merged(functions)[key] = functions[i][key]
<1>1. DOMAIN Merged(functions) = UNION {DOMAIN functions[j] : j \in DOMAIN functions}
  BY DEF Merged
<1>2. key \in DOMAIN Merged(functions)
  BY <1>1
<1> QED BY <1>2, MergedIs

\* What compile makes of the i-th channel kept, and m as the parts of kept joined.
EntityPart(cfg, al, kept, slugs, i) ==
    build_entity(i, SlugCandidate(kept[i], cfg, al), match_profile(cfg[kept[i]]), cfg[kept[i]], slugs[kept[i]])
LEMMA JoinedPartIs ==
    ASSUME NEW cfg, NEW al, NEW kept, NEW slugs, NEW i, NEW profile, NEW shape, NEW candidate,
           shape = cfg[kept[i]], profile = match_profile(shape), candidate = SlugCandidate(kept[i], cfg, al)
    PROVE  EntityPart(cfg, al, kept, slugs, i) = build_entity(i, candidate, profile, shape, slugs[kept[i]])
BY DEF EntityPart


Parted(m, cfg, al, kept, slugs, fs, gs) ==
    /\ DOMAIN m.entities = DOMAIN kept /\ DOMAIN fs = DOMAIN kept /\ DOMAIN gs = DOMAIN kept
    /\ m.ingress = Merged(fs) /\ m.egress = Merged(gs)
    /\ \A i \in DOMAIN kept :
        /\ m.entities[i] = EntityPart(cfg, al, kept, slugs, i).entity
        /\ fs[i] = EntityPart(cfg, al, kept, slugs, i).ingress
        /\ gs[i] = EntityPart(cfg, al, kept, slugs, i).egress
        /\ m.ok => EntityPart(cfg, al, kept, slugs, i).ok

LEMMA PartsAre ==
    ASSUME NEW cfg, NEW al, NEW ex
    PROVE  \E slugs, fs, gs : Parted(compile(cfg, al, ex), cfg, al, collect_channels(cfg, ex), slugs, fs, gs)
<1> DEFINE kept == collect_channels(cfg, ex)
           slugs == resolve_names_and_slugs(cfg, kept, al)
           parts == [i \in DOMAIN kept |-> EntityPart(cfg, al, kept, slugs, i)]
           fs == [i \in DOMAIN kept |-> parts[i].ingress]
           gs == [i \in DOMAIN kept |-> parts[i].egress]
           m == compile(cfg, al, ex)
<1>1. m = Joined(parts, slugs)
  BY DEF compile, Named, build_model, EntityPart
<1>2. DOMAIN parts = DOMAIN kept /\ \A i \in DOMAIN kept : parts[i] = EntityPart(cfg, al, kept, slugs, i)
  OBVIOUS
<1> HIDE DEF m, slugs, parts, kept
<1>3. /\ DOMAIN m.entities = DOMAIN kept
      /\ \A i \in DOMAIN kept : m.entities[i] = parts[i].entity /\ (m.ok => parts[i].ok)
      /\ m.ingress = Merged(fs) /\ m.egress = Merged(gs)
  BY <1>1, <1>2 DEF Joined
<1>4. DOMAIN fs = DOMAIN kept /\ DOMAIN gs = DOMAIN kept
      /\ \A i \in DOMAIN kept : fs[i] = parts[i].ingress /\ gs[i] = parts[i].egress
  OBVIOUS
<1> HIDE DEF fs, gs
<1>5. Parted(m, cfg, al, kept, slugs, fs, gs)
  BY <1>2, <1>3, <1>4 DEF Parted
<1> QED BY <1>5 DEF m, kept

\* A channel that is kept is one of the configuration, and a profile claims it.
LEMMA KeptIs ==
    ASSUME NEW cfg, NEW ex, NEW i \in DOMAIN collect_channels(cfg, ex)
    PROVE  LET channel == collect_channels(cfg, ex)[i]
           IN  channel \in DOMAIN cfg /\ Candidates(cfg[channel]) # {}
<1> DEFINE some == {channel \in DOMAIN cfg : collect_one_channel(channel, cfg[channel], ex) = "kept"}
<1>1. collect_channels(cfg, ex) = Picked(ChannelOrder, some)
  BY DEF collect_channels, InOrder
<1> HIDE DEF some
<1>2. collect_channels(cfg, ex)[i] \in some
  BY <1>1, OrderAssumption, PickedIs
<1> USE DEF some
<1>3. PICK channel : channel = collect_channels(cfg, ex)[i]
  OBVIOUS
<1>4. channel \in DOMAIN cfg /\ collect_one_channel(channel, cfg[channel], ex) = "kept"
  BY <1>2, <1>3
<1>5. Candidates(cfg[channel]) # {}
  BY <1>4 DEF collect_one_channel
<1> QED BY <1>3, <1>4, <1>5

\* Tables that share no key are all found in their union.
LEMMA MergedOnce ==
    ASSUME NEW N \in Nat, NEW functions, DOMAIN functions = 1..N,
           \A i, j \in 1..N : \A key \in DOMAIN functions[i] : key \in DOMAIN functions[j] => j = i
    PROVE  /\ \A i \in 1..N : \A key \in DOMAIN functions[i] :
                key \in DOMAIN Merged(functions) /\ Merged(functions)[key] = functions[i][key]
           /\ \A key \in DOMAIN Merged(functions) : \E i \in 1..N : key \in DOMAIN functions[i]
<1>1. ASSUME NEW i \in 1..N, NEW key \in DOMAIN functions[i]
      PROVE  key \in DOMAIN Merged(functions) /\ Merged(functions)[key] = functions[i][key]
  <2>1. \A j \in 1..N : key \in DOMAIN functions[j] => j = i
    OBVIOUS
  <2> QED BY <2>1, MergedOwn
<1> QED BY <1>1, MergedIs

\* The keys of an entity's tables name its channel, respectively itself.
LEMMA IngressKeys ==
    ASSUME NEW i, NEW channel, NEW shape, NEW attrs,
           NEW key \in DOMAIN build_ingress(i, channel, shape, attrs)
    PROVE  key[1] = channel
BY DEF build_ingress
LEMMA EgressKeys ==
    ASSUME NEW i, NEW channel, NEW shape, NEW attrs, NEW commands,
           NEW key \in DOMAIN build_egress(i, channel, shape, attrs, commands)
    PROVE  key[1] = i
BY DEF build_egress

\* The attributes and commands of the i-th entity, and what it adds to the flat tables.
AttrsOf(m, cfg, i) == build_attributes(Profiles[m.entities[i].profile], cfg[m.entities[i].id])
CommandsOf(m, cfg, i) == build_commands(Profiles[m.entities[i].profile], cfg[m.entities[i].id])
IngressOf(m, cfg, i) ==
    build_ingress(i, m.entities[i].id, cfg[m.entities[i].id], AttrsOf(m, cfg, i))
EgressOf(m, cfg, i) ==
    build_egress(i, m.entities[i].id, cfg[m.entities[i].id], AttrsOf(m, cfg, i), CommandsOf(m, cfg, i))

\* The entity lists these attributes and commands.
Lists(entity, attrs, commands, shape) ==
    /\ entity.names = [a \in DOMAIN attrs |-> attrs[a].name]
    /\ entity.codecs = [a \in DOMAIN attrs |-> bound(attrs[a].codec, shape)]
    /\ entity.kinds = [a \in DOMAIN attrs |-> attrs[a].kind]
    /\ entity.commands = [c \in DOMAIN commands |-> commands[c].name]

\* The tables of m are made of the channels of cfg and nothing else.
EntitiesAre(m, cfg) ==
    \A i \in DOMAIN m.entities :
        /\ m.entities[i].id \in DOMAIN cfg
        /\ m.entities[i].profile \in DOMAIN Profiles
        /\ m.entities[i].profile = match_profile(cfg[m.entities[i].id])
        /\ Lists(m.entities[i], AttrsOf(m, cfg, i), CommandsOf(m, cfg, i), cfg[m.entities[i].id])
        /\ \A j \in DOMAIN m.entities : m.entities[j].id = m.entities[i].id => j = i
IngressIs(m, cfg) ==
    /\ \A i \in DOMAIN m.entities : \A key \in DOMAIN IngressOf(m, cfg, i) :
        key \in DOMAIN m.ingress /\ m.ingress[key] = IngressOf(m, cfg, i)[key]
    /\ \A key \in DOMAIN m.ingress : \E i \in DOMAIN m.entities : key \in DOMAIN IngressOf(m, cfg, i)
EgressIs(m, cfg) ==
    /\ \A i \in DOMAIN m.entities : \A key \in DOMAIN EgressOf(m, cfg, i) :
        key \in DOMAIN m.egress /\ m.egress[key] = EgressOf(m, cfg, i)[key]
    /\ \A key \in DOMAIN m.egress : \E i \in DOMAIN m.entities : key \in DOMAIN EgressOf(m, cfg, i)
Wired(m, cfg) == EntitiesAre(m, cfg) /\ IngressIs(m, cfg) /\ EgressIs(m, cfg)

LEMMA BuiltIs ==
    ASSUME NEW i, NEW candidate, NEW profile, NEW shape, NEW attrs, NEW commands, NEW slug
    PROVE  LET part == Built(i, candidate, profile, shape, attrs, commands, slug)
           IN  /\ part.entity.id = candidate.id
               /\ part.entity.profile = profile
               /\ Lists(part.entity, attrs, commands, shape)
               /\ part.ingress = build_ingress(i, candidate.id, shape, attrs)
               /\ part.egress = build_egress(i, candidate.id, shape, attrs, commands)
BY DEF Built, Entity, Lists

LEMMA CandidateIs ==
    ASSUME NEW cfg, NEW al, NEW channel
    PROVE  SlugCandidate(channel, cfg, al).id = channel
BY DEF SlugCandidate

LEMMA PartedIsWired ==
    ASSUME NEW m, NEW cfg, NEW al, NEW kept, NEW slugs, NEW fs, NEW gs, NEW N \in Nat,
           Parted(m, cfg, al, kept, slugs, fs, gs), DOMAIN kept = 1..N,
           \A i, j \in 1..N : kept[i] = kept[j] => i = j,
           \A i \in 1..N : kept[i] \in DOMAIN cfg /\ Candidates(cfg[kept[i]]) # {}
    PROVE  Wired(m, cfg)
<1>1. /\ DOMAIN m.entities = 1..N /\ DOMAIN fs = 1..N /\ DOMAIN gs = 1..N
      /\ m.ingress = Merged(fs) /\ m.egress = Merged(gs)
  BY DEF Parted
<1>2. ASSUME NEW i \in 1..N
      PROVE  /\ m.entities[i].id = kept[i]
             /\ m.entities[i].profile = match_profile(cfg[kept[i]])
             /\ Lists(m.entities[i], AttrsOf(m, cfg, i), CommandsOf(m, cfg, i), cfg[kept[i]])
             /\ fs[i] = IngressOf(m, cfg, i)
             /\ gs[i] = EgressOf(m, cfg, i)
  <2>1. PICK part : part = EntityPart(cfg, al, kept, slugs, i)
    OBVIOUS
  <2>2. m.entities[i] = part.entity /\ fs[i] = part.ingress /\ gs[i] = part.egress
    BY <2>1 DEF Parted
  <2>3. PICK shape, profile, candidate : /\ shape = cfg[kept[i]] /\ profile = match_profile(shape)
                                         /\ candidate = SlugCandidate(kept[i], cfg, al)
    OBVIOUS
  <2>4. PICK attrs, commands : /\ attrs = build_attributes(Profiles[profile], shape)
                               /\ commands = build_commands(Profiles[profile], shape)
    OBVIOUS
  <2>5. part = Built(i, candidate, profile, shape, attrs, commands, slugs[kept[i]]) /\ candidate.id = kept[i]
    <3>1. part = build_entity(i, candidate, profile, shape, slugs[kept[i]])
      BY <2>1, <2>3, JoinedPartIs
    <3>2. part = Built(i, candidate, profile, shape, attrs, commands, slugs[kept[i]])
      BY <2>4, <3>1 DEF build_entity
    <3> QED BY <2>3, <3>2, CandidateIs
  <2>6. /\ part.entity.id = kept[i]
        /\ part.entity.profile = profile
        /\ Lists(part.entity, attrs, commands, shape)
        /\ part.ingress = build_ingress(i, kept[i], shape, attrs)
        /\ part.egress = build_egress(i, kept[i], shape, attrs, commands)
    BY <2>5, BuiltIs
  <2>7. AttrsOf(m, cfg, i) = attrs /\ CommandsOf(m, cfg, i) = commands
    <3>1. m.entities[i].profile = profile /\ cfg[m.entities[i].id] = shape
      BY <2>2, <2>3, <2>6
    <3> QED BY <2>4, <3>1 DEF AttrsOf, CommandsOf
  <2>8. /\ IngressOf(m, cfg, i) = build_ingress(i, kept[i], shape, attrs)
        /\ EgressOf(m, cfg, i) = build_egress(i, kept[i], shape, attrs, commands)
    <3>1. m.entities[i].id = kept[i] /\ cfg[m.entities[i].id] = shape
      BY <2>2, <2>3, <2>6
    <3> QED BY <2>7, <3>1 DEF IngressOf, EgressOf
  <2> QED BY <2>2, <2>3, <2>6, <2>7, <2>8
<1>3. EntitiesAre(m, cfg)
  <2> SUFFICES ASSUME NEW i \in 1..N
               PROVE  /\ m.entities[i].id \in DOMAIN cfg
                      /\ m.entities[i].profile \in DOMAIN Profiles
                      /\ m.entities[i].profile = match_profile(cfg[m.entities[i].id])
                      /\ Lists(m.entities[i], AttrsOf(m, cfg, i), CommandsOf(m, cfg, i), cfg[m.entities[i].id])
                      /\ \A j \in 1..N : m.entities[j].id = m.entities[i].id => j = i
    BY <1>1 DEF EntitiesAre
  <2>1. match_profile(cfg[kept[i]]) \in Candidates(cfg[kept[i]])
    BY MatchIs
  <2> QED BY <1>2, <2>1 DEF Candidates
<1>4. IngressIs(m, cfg)
  <2>1. ASSUME NEW i \in 1..N, NEW key \in DOMAIN fs[i] PROVE key[1] = kept[i]
    <3>1. key \in DOMAIN build_ingress(i, kept[i], cfg[kept[i]], AttrsOf(m, cfg, i))
      BY <1>2 DEF IngressOf
    <3> QED BY <3>1, IngressKeys
  <2>2. \A i, j \in 1..N : \A key \in DOMAIN fs[i] : key \in DOMAIN fs[j] => j = i
    BY <2>1
  <2>3. \A i \in 1..N : fs[i] = IngressOf(m, cfg, i)
    BY <1>2
  <2>4. /\ \A i \in 1..N : \A key \in DOMAIN fs[i] : key \in DOMAIN Merged(fs) /\ Merged(fs)[key] = fs[i][key]
        /\ \A key \in DOMAIN Merged(fs) : \E i \in 1..N : key \in DOMAIN fs[i]
    BY <1>1, <2>2, MergedOnce
  <2> QED BY <1>1, <2>3, <2>4 DEF IngressIs
<1>5. EgressIs(m, cfg)
  <2>1. ASSUME NEW i \in 1..N, NEW key \in DOMAIN gs[i] PROVE key[1] = i
    <3>1. key \in DOMAIN build_egress(i, kept[i], cfg[kept[i]], AttrsOf(m, cfg, i), CommandsOf(m, cfg, i))
      BY <1>2 DEF EgressOf
    <3> QED BY <3>1, EgressKeys
  <2>2. \A i, j \in 1..N : \A key \in DOMAIN gs[i] : key \in DOMAIN gs[j] => j = i
    BY <2>1
  <2>3. \A i \in 1..N : gs[i] = EgressOf(m, cfg, i)
    BY <1>2
  <2>4. /\ \A i \in 1..N : \A key \in DOMAIN gs[i] : key \in DOMAIN Merged(gs) /\ Merged(gs)[key] = gs[i][key]
        /\ \A key \in DOMAIN Merged(gs) : \E i \in 1..N : key \in DOMAIN gs[i]
    BY <1>1, <2>2, MergedOnce
  <2> QED BY <1>1, <2>3, <2>4 DEF EgressIs
<1> QED BY <1>3, <1>4, <1>5 DEF Wired

LEMMA CompileIsWired ==
    ASSUME NEW cfg, NEW al, NEW ex, compile(cfg, al, ex).ok
    PROVE  Wired(compile(cfg, al, ex), cfg)
<1> DEFINE kept == collect_channels(cfg, ex)
           N == Len(kept)
           m == compile(cfg, al, ex)
<1>1. PICK slugs, fs, gs : Parted(m, cfg, al, kept, slugs, fs, gs)
  BY PartsAre
<1>2. N \in Nat /\ DOMAIN kept = 1..N
  BY InOrderIs DEF collect_channels
<1>3. EntitiesOf(m, kept)
  BY CompileIsSound
<1>4. \A i \in 1..N : kept[i] \in DOMAIN cfg /\ Candidates(cfg[kept[i]]) # {}
  BY <1>2, KeptIs
<1> HIDE DEF kept, N, m
<1>5. \A i, j \in 1..N : kept[i] = kept[j] => i = j
  BY <1>2, <1>3 DEF EntitiesOf
<1>6. Wired(m, cfg)
  BY <1>1, <1>2, <1>4, <1>5, PartedIsWired
<1> QED BY <1>6 DEF m

\* With discovery announced, the same.
LEMMA AnnouncedIsWired ==
    ASSUME NEW cfg, NEW al, NEW ex, compile_and_build_discovery(cfg, al, ex).ok
    PROVE  LET m == compile_and_build_discovery(cfg, al, ex)
           IN  Wired(m, cfg) /\ Sound(m) /\ \A i \in DOMAIN m.entities : sole_attribute(m.entities[i])
<1> DEFINE m == compile(cfg, al, ex)
           a == compile_and_build_discovery(cfg, al, ex)
<1>1. m = [ok |-> m.ok, entities |-> m.entities, ingress |-> m.ingress,
           egress |-> m.egress, by_topic |-> m.by_topic]
  BY DEF compile, Named, build_model, Joined
<1>2. a = [m EXCEPT !.ok = m.ok /\ \A i \in DOMAIN m.entities : sole_attribute(m.entities[i])]
  BY DEF compile_and_build_discovery, Announced
<1> HIDE DEF m, a
<1>3. /\ a.ok => m.ok /\ \A i \in DOMAIN m.entities : sole_attribute(m.entities[i])
      /\ a.entities = m.entities /\ a.ingress = m.ingress /\ a.egress = m.egress
  BY <1>1, <1>2
<1>4. Wired(m, cfg)
  BY <1>3, CompileIsWired DEF a, m
<1>5. \A i : AttrsOf(a, cfg, i) = AttrsOf(m, cfg, i) /\ CommandsOf(a, cfg, i) = CommandsOf(m, cfg, i)
  BY <1>3 DEF AttrsOf, CommandsOf
<1>6. \A i : IngressOf(a, cfg, i) = IngressOf(m, cfg, i) /\ EgressOf(a, cfg, i) = EgressOf(m, cfg, i)
  BY <1>3, <1>5 DEF IngressOf, EgressOf
<1>7. EntitiesAre(a, cfg)
  BY <1>3, <1>4, <1>5 DEF Wired, EntitiesAre
<1>8. IngressIs(a, cfg)
  BY <1>3, <1>4, <1>6 DEF Wired, IngressIs
<1>9. EgressIs(a, cfg)
  BY <1>3, <1>4, <1>6 DEF Wired, EgressIs
<1>10. Sound(a) /\ \A i \in DOMAIN a.entities : sole_attribute(a.entities[i])
  BY <1>3, AnnouncedIsSound DEF a
<1> QED BY <1>7, <1>8, <1>9, <1>10 DEF Wired, a

\* The position of a name that there is.
LEMMA PositionIs ==
    ASSUME NEW N \in Nat, NEW specs, DOMAIN specs = 1..N, NEW name, \E n \in 1..N : specs[n].name = name
    PROVE  PositionOf(name, specs) \in 1..N /\ specs[PositionOf(name, specs)].name = name
<1> DEFINE at == {n \in DOMAIN specs : specs[n].name = name}
<1>1. at \in SUBSET Nat /\ at # {} /\ at \subseteq 1..N
  OBVIOUS
<1>2. PositionOf(name, specs) = Min(at)
  BY <1>1 DEF PositionOf
<1>3. Min(at) \in at
  <2> HIDE DEF at
  <2> QED BY <1>1, MinIn
<1> QED BY <1>2, <1>3

\* A command of an entity is wired as the specification says.
Specified(m, cfg, i, name, spec) ==
    /\ spec \in Range(Profiles[m.entities[i].profile].commands)
    /\ spec.name = name
    /\ spec.pairing \in Range(cfg[m.entities[i].id].inputs)
    /\ available(spec.codec, cfg[m.entities[i].id])
    /\ <<i, name>> \in DOMAIN m.egress
    /\ m.egress[<<i, name>>] =
        [path       |-> <<m.entities[i].id, find_datapoint(cfg[m.entities[i].id].inputs, spec.pairing)>>,
         codec      |-> bound(spec.codec, cfg[m.entities[i].id]),
         range      |-> spec.range,
         optimistic |-> PositionOf(spec.optimistic, AttrsOf(m, cfg, i))]

\* A command that an entity takes is one of its profile, and wired as that says.
LEMMA CommandsAre ==
    ASSUME NEW m, NEW cfg, Wired(m, cfg), NEW i \in DOMAIN m.entities,
           NEW name, Takes(m.entities[i], name)
    PROVE  \E spec : Specified(m, cfg, i, name, spec)
<1> PICK channel, shape, profile, attrs, commands :
        /\ channel = m.entities[i].id /\ shape = cfg[channel]
        /\ profile = Profiles[m.entities[i].profile]
        /\ attrs = AttrsOf(m, cfg, i) /\ commands = CommandsOf(m, cfg, i)
  OBVIOUS
<1>1. /\ m.entities[i].profile \in DOMAIN Profiles
      /\ m.entities[i].commands = [c \in DOMAIN commands |-> commands[c].name]
  BY DEF Wired, EntitiesAre, Lists
<1>2. PICK some : /\ commands = Picked(profile.commands, some)
                  /\ \A spec \in some : /\ spec \in Range(profile.commands)
                                         /\ spec.pairing \in Range(shape.inputs) /\ available(spec.codec, shape)
  BY DEF CommandsOf, build_commands
<1>3. profile.commands \in Seq(Range(profile.commands))
  BY <1>1, ProfilesAssumption
<1>N. PICK N : N = Len(commands)
  OBVIOUS
<1>4. N \in Nat /\ DOMAIN commands = 1..N /\ \A k \in 1..N : commands[k] \in some
  <2>1. commands = Picked(profile.commands, some)
    BY <1>2
  <2>2. /\ Len(Picked(profile.commands, some)) \in Nat
        /\ DOMAIN Picked(profile.commands, some) = 1..Len(Picked(profile.commands, some))
        /\ \A k \in 1..Len(Picked(profile.commands, some)) : Picked(profile.commands, some)[k] \in some
    BY <1>3, PickedIs
  <2> QED BY <1>N, <2>1, <2>2
<1>5. \E n \in 1..N : commands[n].name = name
  <2>1. \E c \in DOMAIN m.entities[i].commands : m.entities[i].commands[c] = name
    BY DEF Takes, Range
  <2> QED BY <1>1, <1>4, <2>1
<1> PICK at : at = PositionOf(name, commands)
  OBVIOUS
<1>6. at \in 1..N /\ commands[at].name = name
  BY <1>4, <1>5, PositionIs
<1> PICK spec : spec = commands[at]
  OBVIOUS
<1>7. spec \in Range(profile.commands) /\ spec.name = name
      /\ spec.pairing \in Range(shape.inputs) /\ available(spec.codec, shape)
  BY <1>2, <1>4, <1>6
<1>8. EgressOf(m, cfg, i) = build_egress(i, channel, shape, attrs, commands)
  BY DEF EgressOf
<1>9. <<i, name>> \in DOMAIN EgressOf(m, cfg, i)
  <2>1. spec \in Range(commands)
    BY <1>4, <1>6 DEF Range
  <2> QED BY <1>7, <1>8, <2>1 DEF build_egress
<1>10. EgressOf(m, cfg, i)[<<i, name>>] =
            [path       |-> <<channel, find_datapoint(shape.inputs, spec.pairing)>>,
             codec      |-> bound(spec.codec, shape),
             range      |-> spec.range,
             optimistic |-> PositionOf(spec.optimistic, attrs)]
  BY <1>8, <1>9 DEF build_egress
<1>11. <<i, name>> \in DOMAIN m.egress /\ m.egress[<<i, name>>] = EgressOf(m, cfg, i)[<<i, name>>]
  BY <1>9 DEF Wired, EgressIs
<1> QED BY <1>7, <1>10, <1>11 DEF Specified

\* What an entity shows is what its profile offers.
LEMMA ShownIsOffered ==
    ASSUME NEW m, NEW cfg, Wired(m, cfg), NEW i \in DOMAIN m.entities,
           NEW name, Shows(m.entities[i], name)
    PROVE  name \in Offers(Profiles[m.entities[i].profile])
<1> PICK profile, attrs, shape :
        /\ profile = Profiles[m.entities[i].profile]
        /\ shape = cfg[m.entities[i].id]
        /\ attrs = AttrsOf(m, cfg, i)
  OBVIOUS
<1>1. /\ m.entities[i].profile \in DOMAIN Profiles
      /\ m.entities[i].names = [a \in DOMAIN attrs |-> attrs[a].name]
  BY DEF Wired, EntitiesAre, Lists
<1>2. PICK some : attrs = Picked(profile.attributes, some)
  BY DEF AttrsOf, build_attributes
<1>3. profile.attributes \in Seq(Range(profile.attributes))
  BY <1>1, ProfilesAssumption
<1>4. \A a \in DOMAIN attrs : attrs[a] \in Range(profile.attributes)
  BY <1>2, <1>3, PickedIs
<1> QED BY <1>1, <1>4 DEF Shows, Offers, Range

----------------------------------------------------------------------------
(* What Home Assistant may send.                                           *)

IsNumberOrBool(value) == \E x : value \in {Num(x), Bool(x)}

\* The write passes the range and the codec of its command.
IsTaken(i, write) ==
    LET binding == model.egress[<<i, write[1]>>]
        valid   == validate(binding.range, write[2])
    IN  <<i, write[1]>> \in DOMAIN model.egress /\ valid # Rejected /\ encode(binding.codec, valid) # Rejected

\* The write needs an input that the channel lacks.
IsWireless(i, name) ==
    /\ PositionOf(name, Profiles[model.entities[i].profile].commands) # 0
    /\ ~Takes(model.entities[i], name)

IsHeard(i, name, value) ==
    \/ apply_command(i, name, value).ok
    \/ \E write \in Range(resolve_writes(i, name, value)) : IsWireless(i, write[1])

LEMMA NumberEncoded ==
    ASSUME NEW codec, NEW kind, codec.kind = kind, kind \in NumberKinds,
           NEW range, NEW value, IsNumberOrBool(value)
    PROVE  validate(range, value) # Rejected /\ encode(codec, validate(range, value)) # Rejected
<1>1. PICK valid : valid = validate(range, value)
  OBVIOUS
<1>2. IsNumberOrBool(valid)
  BY <1>1 DEF validate, IsNumberOrBool, Num, Bool, IsNumber
<1>3. /\ valid # None /\ valid[1] \notin {"str", "int", "dec"} /\ valid # Rejected
      /\ FloatTakes(valid) /\ ~parse_finite_float(valid)
  BY <1>2 DEF IsNumberOrBool, None, Num, Bool, FloatTakes, IsNumber, parse_finite_float, Rejected
<1>4. \A n : Whole(n) # Rejected /\ Decimal(n) # Rejected
  BY DEF Whole, Decimal, Rejected
<1>5. encode_bool01(valid) # Rejected
  BY <1>3, <1>4 DEF encode_bool01
<1>6. encode(codec, valid) # Rejected
  <2>1. CASE kind = "bool01"
    BY <1>5, <2>1 DEF encode
  <2>2. CASE kind \in {"int", "float"}
    BY <1>3, <1>4, <2>2 DEF encode
  <2>3. CASE kind \in {"percent_int", "percent_inverted"}
    BY <1>3, <1>4, <2>3 DEF encode
  <2>4. CASE kind = "color_temp_pct"
    BY <1>3, <1>4, <2>4 DEF encode
  <2> QED BY <2>1, <2>2, <2>3, <2>4 DEF NumberKinds
<1> QED BY <1>1, <1>3, <1>6

LEMMA WordEncoded ==
    ASSUME NEW codec, codec.kind = "bool01", NEW text
    PROVE  validate(<<>>, Str(text)) # Rejected /\ encode(codec, validate(<<>>, Str(text))) # Rejected
<1>1. validate(<<>>, Str(text)) = Str(text)
  BY DEF validate
<1>2. encode(codec, Str(text)) = encode_bool01(Str(text))
  BY DEF encode
<1>3. encode_bool01(Str(text)) \in {Whole(0), Whole(1)}
  BY DEF encode_bool01, parse_finite_float, Str, None
<1>4. Str(text) # Rejected /\ Whole(0) # Rejected /\ Whole(1) # Rejected
  BY DEF Str, Rejected, Whole
<1> QED BY <1>1, <1>2, <1>3, <1>4

\* The writes of a command are numbered.
LEMMA WritesNumbered ==
    ASSUME NEW i, NEW name, NEW value
    PROVE  /\ Len(resolve_writes(i, name, value)) \in Nat
           /\ DOMAIN resolve_writes(i, name, value) = 1..Len(resolve_writes(i, name, value))
<1> DEFINE writes == subWrites(Profiles[model.entities[i].profile].transform, name, value)
<1>1. resolve_writes(i, name, value) = IF writes = Unclaimed THEN <<<<name, value>>>> ELSE writes
  BY DEF resolve_writes
<1>2. DOMAIN <<<<name, value>>>> = 1..Len(<<<<name, value>>>>)
  OBVIOUS
<1>3. DOMAIN writes = 1..Len(writes)
  <2>1. PICK p, t : p = <<<<"position", value>>>> /\ t = <<<<"slat_position", Num(0)>>>>
    OBVIOUS
  <2>2. DOMAIN (p \o <<>>) = 1..Len(p \o <<>>) /\ DOMAIN (p \o t) = 1..Len(p \o t)
    BY <2>1
  <2>3. CASE Profiles[model.entities[i].profile].transform = "cover_with_slats" /\ name = "position"
    <3>1. writes = p \o (IF value = FullyOpen THEN t ELSE <<>>)
      BY <2>1, <2>3 DEF subWrites
    <3> QED BY <2>2, <3>1
  <2>4. CASE ~(Profiles[model.entities[i].profile].transform = "cover_with_slats" /\ name = "position")
    <3>1. \E u, v, w : writes \in {<<>>, <<u>>, <<u, v>>, <<u, v, w>>}
      <4>1. \A u, v, w : /\ <<u>> \in {<<>>, <<u>>, <<u, v>>, <<u, v, w>>}
                         /\ <<u, v>> \in {<<>>, <<u>>, <<u, v>>, <<u, v, w>>}
                         /\ <<u, v, w>> \in {<<>>, <<u>>, <<u, v>>, <<u, v, w>>}
                         /\ <<>> \in {<<>>, <<u>>, <<u, v>>, <<u, v, w>>}
        OBVIOUS
      <4>2. \/ writes = <<>>
            \/ writes = <<<<"on_off", Bool(FALSE)>>>>
            \/ writes = <<<<"on_off", Bool(TRUE)>>, <<"eco", Bool(TRUE)>>>>
            \/ writes = <<<<"on_off", Bool(TRUE)>>, <<"eco", Bool(FALSE)>>, <<"mode", value>>>>
            \/ writes = <<<<"stop", Bool(TRUE)>>>>
        <5>1. CASE Profiles[model.entities[i].profile].transform = "room_temperature_controller" /\ name = "hvac_mode"
          <6>1. CASE value = Str("off")
            BY <5>1, <6>1 DEF subWrites, Str
          <6>2. CASE value # Str("off") /\ value = Str("eco")
            BY <5>1, <6>2 DEF subWrites, Str
          <6>3. CASE value \notin {Str("off"), Str("eco")} /\ value \in {Str("heating"), Str("cooling")}
            BY <5>1, <6>3 DEF subWrites
          <6>4. CASE value \notin {Str("off"), Str("eco"), Str("heating"), Str("cooling")}
            BY <5>1, <6>4 DEF subWrites, Unclaimed
          <6> QED BY <6>1, <6>2, <6>3, <6>4
        <5>2. CASE Profiles[model.entities[i].profile].transform = "cover_with_slats" /\ name = "stop"
          BY <2>4, <5>2 DEF subWrites
        <5>3. CASE /\ ~(Profiles[model.entities[i].profile].transform = "room_temperature_controller" /\ name = "hvac_mode")
                   /\ ~(Profiles[model.entities[i].profile].transform = "cover_with_slats" /\ name = "stop")
          BY <2>4, <5>3 DEF subWrites, Unclaimed
        <5> QED BY <5>1, <5>2, <5>3
      <4> HIDE DEF writes
      <4> QED BY <4>1, <4>2
    <3> HIDE DEF writes
    <3> QED BY <3>1
  <2> QED BY <2>3, <2>4
<1>4. Len(resolve_writes(i, name, value)) \in Nat
  BY WritesAre
<1> HIDE DEF writes
<1> QED BY <1>1, <1>2, <1>3, <1>4

\* A command is accepted if each of its writes is.
LEMMA AllTaken ==
    ASSUME NEW i, NEW name, NEW value,
           \A n \in DOMAIN resolve_writes(i, name, value) : IsTaken(i, resolve_writes(i, name, value)[n])
    PROVE  apply_command(i, name, value).ok
<1> DEFINE writes == resolve_writes(i, name, value)
           N == Len(writes)
<1>1. N \in Nat /\ DOMAIN writes = 1..N
  BY WritesNumbered
<1>2. apply_command(i, name, value) = (CHOOSE f : IsWritten(f, i, writes, N))[N]
  BY DEF apply_command, IsWritten
<1>3. \A n \in 1..N : IsTaken(i, writes[n])
  BY <1>1
<1> HIDE DEF writes, N
<1>4. PICK f : IsWritten(f, i, writes, N) /\ apply_command(i, name, value) = f[N]
  BY <1>1, <1>2, WrittenExists
<1> DEFINE T == {n \in 0..N : f[n].ok}
<1>5. 0 \in T
  <2>1. f[0] = [ok |-> TRUE, wire |-> wire, store |-> store]
    BY <1>1, <1>4 DEF IsWritten
  <2> QED BY <1>1, <2>1
<1>6. ASSUME NEW n \in 1..N, n - 1 \in T PROVE n \in T
  <2>1. n \in 0..N /\ n # 0
    BY <1>1
  <2>2. f[n] = Apply(f[n - 1], i, writes[n])
    BY <1>4, <2>1, Zenon DEF IsWritten
  <2>3. f[n - 1].ok /\ IsTaken(i, writes[n])
    BY <1>3, <1>6
  <2>4. Apply(f[n - 1], i, writes[n]).ok
    BY <2>3 DEF Apply, IsTaken
  <2> QED BY <2>1, <2>2, <2>4
<1> HIDE DEF T
<1>7. N \in T
  BY <1>1, <1>5, <1>6, Upwards
<1> QED BY <1>4, <1>7 DEF T

LEMMA HeardIf ==
    ASSUME NEW i, NEW name, NEW value,
           \A n \in DOMAIN resolve_writes(i, name, value) :
                \/ IsTaken(i, resolve_writes(i, name, value)[n])
                \/ IsWireless(i, resolve_writes(i, name, value)[n][1])
    PROVE  IsHeard(i, name, value)
<1> PICK writes : writes = resolve_writes(i, name, value)
  OBVIOUS
<1>1. CASE \A n \in DOMAIN writes : IsTaken(i, writes[n])
  BY <1>1, AllTaken DEF IsHeard
<1>2. CASE \E n \in DOMAIN writes : IsWireless(i, writes[n][1])
  BY <1>2 DEF IsHeard, Range
<1> QED BY <1>1, <1>2

LEMMA HeardOne ==
    ASSUME NEW i, NEW name, NEW value, NEW a, NEW x,
           resolve_writes(i, name, value) = <<<<a, x>>>>,
           IsTaken(i, <<a, x>>) \/ IsWireless(i, a)
    PROVE  IsHeard(i, name, value)
<1>1. \A u : \A n \in DOMAIN <<u>> : <<u>>[n] = u
  OBVIOUS
<1>2. <<a, x>>[1] = a
  OBVIOUS
<1> PICK u : u = <<a, x>>
  OBVIOUS
<1> QED BY <1>1, <1>2, HeardIf

LEMMA HeardTwo ==
    ASSUME NEW i, NEW name, NEW value, NEW a, NEW x, NEW b, NEW y,
           resolve_writes(i, name, value) = <<<<a, x>>, <<b, y>>>>,
           IsTaken(i, <<a, x>>) \/ IsWireless(i, a),
           IsTaken(i, <<b, y>>) \/ IsWireless(i, b)
    PROVE  IsHeard(i, name, value)
<1>1. \A u, v : \A n \in DOMAIN <<u, v>> : <<u, v>>[n] \in {u, v}
  OBVIOUS
<1>2. <<a, x>>[1] = a /\ <<b, y>>[1] = b
  OBVIOUS
<1> PICK u, v : u = <<a, x>> /\ v = <<b, y>>
  OBVIOUS
<1> QED BY <1>1, <1>2, HeardIf

LEMMA HeardThree ==
    ASSUME NEW i, NEW name, NEW value, NEW a, NEW x, NEW b, NEW y, NEW c, NEW z,
           resolve_writes(i, name, value) = <<<<a, x>>, <<b, y>>, <<c, z>>>>,
           IsTaken(i, <<a, x>>) \/ IsWireless(i, a),
           IsTaken(i, <<b, y>>) \/ IsWireless(i, b),
           IsTaken(i, <<c, z>>) \/ IsWireless(i, c)
    PROVE  IsHeard(i, name, value)
<1>1. \A u, v, w : \A n \in DOMAIN <<u, v, w>> : <<u, v, w>>[n] \in {u, v, w}
  OBVIOUS
<1>2. <<a, x>>[1] = a /\ <<b, y>>[1] = b /\ <<c, z>>[1] = c
  OBVIOUS
<1> PICK u, v, w : u = <<a, x>> /\ v = <<b, y>> /\ w = <<c, z>>
  OBVIOUS
<1> QED BY <1>1, <1>2, HeardIf

ProfileOf(i) == Profiles[model.entities[i].profile]

\* A name of the profile's is either a command of the entity, or there is no wire for it.
LEMMA TakenOrWireless ==
    ASSUME NEW cfg, Wired(model, cfg), NEW i \in DOMAIN model.entities, NEW name \in Accepts(ProfileOf(i))
    PROVE  \/ Takes(model.entities[i], name)
           \/ IsWireless(i, name)
<1> PICK commands : commands = ProfileOf(i).commands
  OBVIOUS
<1>1. commands \in Seq(Range(commands))
  BY ProfilesAssumption DEF Wired, EntitiesAre, ProfileOf
<1>2. \E n \in DOMAIN commands : commands[n].name = name
  BY DEF Accepts, Range
<1>3. Len(commands) \in Nat /\ DOMAIN commands = 1..Len(commands)
  BY <1>1, LenProperties
<1>4. PositionOf(name, commands) \in 1..Len(commands)
  BY <1>2, <1>3, PositionIs
<1>5. PositionOf(name, commands) # 0
  BY <1>3, <1>4
<1> QED BY <1>5 DEF IsWireless, ProfileOf

\* The command that an entity takes is one that its profile accepts, and regular.
LEMMA TakenIsRegular ==
    ASSUME RegularProfiles, NEW cfg, Wired(model, cfg), NEW i \in DOMAIN model.entities,
           NEW name, Takes(model.entities[i], name)
    PROVE  /\ name \in Accepts(ProfileOf(i))
           /\ <<i, name>> \in DOMAIN model.egress
           /\ \E spec : /\ spec.name = name /\ RegularCommand(ProfileOf(i), spec)
                        /\ model.egress[<<i, name>>].range = spec.range
                        /\ model.egress[<<i, name>>].codec.kind = spec.codec.kind
                        /\ spec.codec.kind # "color_temp_pct" => model.egress[<<i, name>>].codec = spec.codec
<1>0. PICK spec : Specified(model, cfg, i, name, spec)
  BY CommandsAre
<1>1. /\ spec \in Range(ProfileOf(i).commands) /\ spec.name = name
      /\ <<i, name>> \in DOMAIN model.egress
      /\ model.egress[<<i, name>>].range = spec.range
      /\ model.egress[<<i, name>>].codec = bound(spec.codec, cfg[model.entities[i].id])
  BY <1>0 DEF ProfileOf, Specified
<1>2. ProfileOf(i) \in Range(Profiles)
  BY DEF Wired, EntitiesAre, ProfileOf, Range
<1>3. RegularCommand(ProfileOf(i), spec)
  <2>1. \A profile \in Range(Profiles) : \A some \in Range(profile.commands) : RegularCommand(profile, some)
    BY DEF RegularProfiles
  <2> QED BY <1>1, <1>2, <2>1
<1>4. /\ bound(spec.codec, cfg[model.entities[i].id]).kind = spec.codec.kind
      /\ spec.codec.kind # "color_temp_pct" => bound(spec.codec, cfg[model.entities[i].id]) = spec.codec
  BY DEF bound
<1>5. name \in Accepts(ProfileOf(i))
  BY <1>1 DEF Accepts
<1> QED BY <1>1, <1>3, <1>4, <1>5

LEMMA NumberWrite ==
    ASSUME RegularProfiles, NEW cfg, Wired(model, cfg), NEW i \in DOMAIN model.entities,
           NEW name \in Accepts(ProfileOf(i)), name \in ForNumbers(ProfileOf(i)),
           NEW value, IsNumberOrBool(value)
    PROVE  IsTaken(i, <<name, value>>) \/ IsWireless(i, name)
<1>1. CASE Takes(model.entities[i], name)
  <2>1. PICK spec : /\ spec.name = name /\ RegularCommand(ProfileOf(i), spec)
                    /\ model.egress[<<i, name>>].codec.kind = spec.codec.kind
    BY <1>1, TakenIsRegular
  <2>2. model.egress[<<i, name>>].codec.kind \in NumberKinds
    BY <2>1 DEF RegularCommand
  <2>3. <<i, name>> \in DOMAIN model.egress
    BY <1>1, TakenIsRegular
  <2>4. /\ validate(model.egress[<<i, name>>].range, value) # Rejected
        /\ encode(model.egress[<<i, name>>].codec, validate(model.egress[<<i, name>>].range, value)) # Rejected
    BY <2>2, NumberEncoded
  <2> QED BY <2>3, <2>4 DEF IsTaken
<1>2. CASE ~Takes(model.entities[i], name)
  BY <1>2, TakenOrWireless
<1> QED BY <1>1, <1>2

LEMMA WordWrite ==
    ASSUME RegularProfiles, NEW cfg, Wired(model, cfg), NEW i \in DOMAIN model.entities,
           NEW name \in Accepts(ProfileOf(i)), name \in ForWords(ProfileOf(i)), NEW text
    PROVE  IsTaken(i, <<name, Str(text)>>) \/ IsWireless(i, name)
<1>1. CASE Takes(model.entities[i], name)
  <2>1. PICK spec : /\ spec.name = name /\ RegularCommand(ProfileOf(i), spec)
                    /\ model.egress[<<i, name>>].range = spec.range
                    /\ model.egress[<<i, name>>].codec.kind = spec.codec.kind
    BY <1>1, TakenIsRegular
  <2>2. model.egress[<<i, name>>].codec.kind = "bool01" /\ model.egress[<<i, name>>].range = <<>>
    BY <2>1 DEF RegularCommand
  <2>3. <<i, name>> \in DOMAIN model.egress
    BY <1>1, TakenIsRegular
  <2>4. /\ validate(<<>>, Str(text)) # Rejected
        /\ encode(model.egress[<<i, name>>].codec, validate(<<>>, Str(text))) # Rejected
    BY <2>2, WordEncoded
  <2> QED BY <2>2, <2>3, <2>4 DEF IsTaken
<1>2. CASE ~Takes(model.entities[i], name)
  BY <1>2, TakenOrWireless
<1> QED BY <1>1, <1>2

LEMMA ModeWrite ==
    ASSUME RegularProfiles, NEW cfg, Wired(model, cfg), NEW i \in DOMAIN model.entities,
           "mode" \in Accepts(ProfileOf(i)), NEW word \in {"heating", "cooling"}
    PROVE  IsTaken(i, <<"mode", Str(word)>>) \/ IsWireless(i, "mode")
<1>1. CASE Takes(model.entities[i], "mode")
  <2>1. PICK spec : /\ spec.name = "mode" /\ RegularCommand(ProfileOf(i), spec)
                    /\ model.egress[<<i, "mode">>].range = spec.range
                    /\ spec.codec.kind # "color_temp_pct" => model.egress[<<i, "mode">>].codec = spec.codec
    BY <1>1, TakenIsRegular
  <2>2. /\ model.egress[<<i, "mode">>].codec = spec.codec /\ model.egress[<<i, "mode">>].range = <<>>
        /\ spec.codec.kind = "enum" /\ word \in DOMAIN spec.codec.values
        /\ spec.codec.values[word] \in RawValues
    BY <2>1 DEF RegularCommand
  <2>3. <<i, "mode">> \in DOMAIN model.egress
    BY <1>1, TakenIsRegular
  <2>4. validate(<<>>, Str(word)) = Str(word) /\ Str(word) # Rejected
    BY DEF validate, Str, Rejected
  <2>5. encode(spec.codec, Str(word)) = spec.codec.values[word]
    BY <2>2 DEF encode, Str
  <2>6. spec.codec.values[word] # Rejected
    BY <2>2 DEF RawValues, Rejected
  <2> QED BY <2>2, <2>3, <2>4, <2>5, <2>6 DEF IsTaken
<1>2. CASE ~Takes(model.entities[i], "mode")
  BY <1>2, TakenOrWireless
<1> QED BY <1>1, <1>2

\* What no transform claims is one write.
LEMMA PlainHeard ==
    ASSUME NEW i, NEW name, NEW value,
           ~(ProfileOf(i).transform = "room_temperature_controller" /\ name = "hvac_mode"),
           ~(ProfileOf(i).transform = "cover_with_slats" /\ name \in {"position", "stop"}),
           IsTaken(i, <<name, value>>) \/ IsWireless(i, name)
    PROVE  IsHeard(i, name, value)
<1>1. subWrites(ProfileOf(i).transform, name, value) = Unclaimed
  BY DEF subWrites
<1>2. resolve_writes(i, name, value) = <<<<name, value>>>>
  BY <1>1 DEF resolve_writes, ProfileOf
<1>3. \A n \in DOMAIN <<<<name, value>>>> : <<<<name, value>>>>[n] = <<name, value>>
  OBVIOUS
<1>4. <<name, value>>[1] = name
  OBVIOUS
<1> QED BY <1>2, <1>3, <1>4, HeardIf

\* What an entity shows and takes is a sequence.
LEMMA ListsAre ==
    ASSUME NEW m, NEW cfg, Wired(m, cfg), NEW i \in DOMAIN m.entities
    PROVE  /\ Len(m.entities[i].names) \in Nat
           /\ DOMAIN m.entities[i].names = 1..Len(m.entities[i].names)
           /\ Len(m.entities[i].commands) \in Nat
           /\ DOMAIN m.entities[i].commands = 1..Len(m.entities[i].commands)
           /\ DOMAIN m.entities[i].names = DOMAIN AttrsOf(m, cfg, i)
           /\ DOMAIN AttrsOf(m, cfg, i) = 1..Len(AttrsOf(m, cfg, i))
<1> PICK profile : profile = Profiles[m.entities[i].profile]
  OBVIOUS
<1> PICK attrs, commands : attrs = AttrsOf(m, cfg, i) /\ commands = CommandsOf(m, cfg, i)
  OBVIOUS
<1>1. /\ m.entities[i].profile \in DOMAIN Profiles
      /\ m.entities[i].names = [a \in DOMAIN attrs |-> attrs[a].name]
      /\ m.entities[i].commands = [c \in DOMAIN commands |-> commands[c].name]
  BY DEF Wired, EntitiesAre, Lists
<1>2. /\ profile.attributes \in Seq(Range(profile.attributes))
      /\ profile.commands \in Seq(Range(profile.commands))
  BY <1>1, ProfilesAssumption
<1>3. /\ \E some : attrs = Picked(profile.attributes, some)
      /\ \E some : commands = Picked(profile.commands, some)
  BY DEF AttrsOf, build_attributes, CommandsOf, build_commands
<1>4. Len(attrs) \in Nat /\ DOMAIN attrs = 1..Len(attrs)
  BY <1>2, <1>3, PickedIs
<1>5. Len(commands) \in Nat /\ DOMAIN commands = 1..Len(commands)
  BY <1>2, <1>3, PickedIs
<1>6. ASSUME NEW f, NEW n \in Nat, DOMAIN f = 1..n, f = [k \in 1..n |-> f[k]]
      PROVE  Len(f) \in Nat /\ DOMAIN f = 1..Len(f)
  <2>1. f \in Seq({f[k] : k \in 1..n})
    BY <1>6
  <2> QED BY <2>1, LenProperties
<1>7. /\ DOMAIN m.entities[i].names = 1..Len(attrs)
      /\ m.entities[i].names = [k \in 1..Len(attrs) |-> m.entities[i].names[k]]
  BY <1>1, <1>4
<1>8. /\ DOMAIN m.entities[i].commands = 1..Len(commands)
      /\ m.entities[i].commands = [k \in 1..Len(commands) |-> m.entities[i].commands[k]]
  BY <1>1, <1>5
<1>9. Len(m.entities[i].names) \in Nat /\ DOMAIN m.entities[i].names = 1..Len(m.entities[i].names)
  BY <1>4, <1>6, <1>7
<1>10. Len(m.entities[i].commands) \in Nat /\ DOMAIN m.entities[i].commands = 1..Len(m.entities[i].commands)
  BY <1>5, <1>6, <1>8
<1> QED BY <1>4, <1>7, <1>9, <1>10

\* What each component may send.
LEMMA SwitchIsHeard ==
    ASSUME RegularProfiles, NEW cfg, Wired(model, cfg), NEW i \in DOMAIN model.entities,
           sole_attribute(model.entities[i]), Component(model.entities[i]) = "switch",
           NEW control \in Controls(model.entities[i]), NEW value \in control.values
    PROVE  IsHeard(i, control.name, value)
<1> PICK entity : entity = model.entities[i]
  OBVIOUS
<1>1. ProfileOf(i).component = "switch" /\ ProfileOf(i) \in Range(Profiles)
  BY DEF Component, ProfileOf, Wired, EntitiesAre, Range
<1>2. Controls(entity) = {Choice(Primary(entity), {Str("ON"), Str("OFF")})}
  BY DEF Controls, build_switch
<1>3. control.name = Primary(entity) /\ value \in {Str("ON"), Str("OFF")}
  BY <1>2 DEF Choice
<1>4. Primary(entity) \in Accepts(ProfileOf(i))
  <2>1. CASE entity.commands = <<>>
    <3>1. Len(entity.names) = 1
      BY DEF sole_attribute
    <3>2. 1 \in DOMAIN entity.names
      BY <3>1, ListsAre
    <3>3. Shows(entity, entity.names[1])
      BY <3>2 DEF Shows, Range
    <3>4. entity.names[1] \in Offers(ProfileOf(i))
      BY <3>3, ShownIsOffered DEF ProfileOf
    <3>5. Offers(ProfileOf(i)) \subseteq Accepts(ProfileOf(i))
      BY <1>1 DEF RegularProfiles
    <3> QED BY <2>1, <3>4, <3>5 DEF Primary
  <2>2. CASE entity.commands # <<>>
    <3>1. DOMAIN entity.commands = 1..Len(entity.commands) /\ Len(entity.commands) \in Nat
      BY ListsAre
    <3>2. entity.commands = [c \in DOMAIN entity.commands |-> entity.commands[c]]
      BY DEF Wired, EntitiesAre, Lists
    <3>3. Len(entity.commands) # 0
      BY <2>2, <3>1, <3>2
    <3>4. Takes(entity, entity.commands[1])
      BY <3>1, <3>3 DEF Takes, Range
    <3>5. entity.commands[1] \in Accepts(ProfileOf(i))
      BY <3>4, TakenIsRegular
    <3>6. Head(entity.commands) = entity.commands[1]
      OBVIOUS
    <3> QED BY <2>2, <3>5, <3>6 DEF Primary
  <2> QED BY <2>1, <2>2
<1>5. Primary(entity) \in ForWords(ProfileOf(i))
  BY <1>1, <1>4 DEF ForWords
<1>6. \/ IsTaken(i, <<Primary(entity), value>>)
      \/ IsWireless(i, Primary(entity))
  BY <1>3, <1>4, <1>5, WordWrite
<1>7. ProfileOf(i).transform \notin {"room_temperature_controller", "cover_with_slats"}
  BY <1>1 DEF RegularProfiles
<1> QED BY <1>3, <1>6, <1>7, PlainHeard

\* A slider is for two numbers.
LEMMA SliderIs ==
    ASSUME NEW name, NEW low, NEW high
    PROVE  /\ Slider(name, low, high).name = name
           /\ \A value \in Slider(name, low, high).values : IsNumberOrBool(value)
BY DEF Slider, IsNumberOrBool

LEMMA LightIsHeard ==
    ASSUME RegularProfiles, NEW cfg, Wired(model, cfg), NEW i \in DOMAIN model.entities,
           Component(model.entities[i]) = "light",
           NEW control \in Controls(model.entities[i]), NEW value \in control.values
    PROVE  IsHeard(i, control.name, value)
<1> PICK entity : entity = model.entities[i]
  OBVIOUS
<1>1. ProfileOf(i).component = "light" /\ ProfileOf(i) \in Range(Profiles)
  BY DEF Component, ProfileOf, Wired, EntitiesAre, Range
<1>2. /\ {"state"} \cup (Offers(ProfileOf(i)) \cap {"brightness", "color_temp"}) \subseteq Accepts(ProfileOf(i))
      /\ ProfileOf(i).transform \notin {"room_temperature_controller", "cover_with_slats"}
  BY <1>1 DEF RegularProfiles
<1>3. \/ control = Choice("state", {Str("ON"), Str("OFF")})
      \/ Shows(entity, "brightness") /\ \E low, high : control = Slider("brightness", low, high)
      \/ Shows(entity, "color_temp") /\ \E low, high : control = Slider("color_temp", low, high)
  <2>1. control \in build_light(entity)
    BY DEF Controls
  <2> DEFINE kelvin == entity.codecs[CHOOSE a \in DOMAIN entity.names : entity.names[a] = "color_temp"]
             low == 10 * Min({kelvin.warmest, kelvin.coolest})
             high == 10 * Max({kelvin.warmest, kelvin.coolest})
  <2>2. build_light(entity) = {Choice("state", {Str("ON"), Str("OFF")})}
                \cup When(Shows(entity, "brightness"), {Slider("brightness", 10, 1000)})
                \cup When(Shows(entity, "color_temp"), {Slider("color_temp", low, high)})
    BY DEF build_light
  <2> HIDE DEF low, high
  <2> QED BY <2>1, <2>2 DEF When
<1>4. CASE control = Choice("state", {Str("ON"), Str("OFF")})
  <2>1. control.name = "state" /\ value \in {Str("ON"), Str("OFF")}
    BY <1>4 DEF Choice
  <2>2. "state" \in ForWords(ProfileOf(i))
    BY <1>1 DEF ForWords
  <2>3. IsTaken(i, <<"state", value>>) \/ IsWireless(i, "state")
    BY <1>2, <2>1, <2>2, WordWrite
  <2> QED BY <1>2, <2>1, <2>3, PlainHeard
<1>5. ASSUME NEW name \in {"brightness", "color_temp"}, NEW low, NEW high,
             Shows(entity, name), control = Slider(name, low, high)
      PROVE  IsHeard(i, control.name, value)
  <2>1. control.name = name /\ IsNumberOrBool(value)
    BY <1>5, SliderIs
  <2>2. name \in Accepts(ProfileOf(i))
    BY <1>2, <1>5, ShownIsOffered DEF ProfileOf
  <2>3. name \in ForNumbers(ProfileOf(i))
    BY <1>1 DEF ForNumbers
  <2>4. IsTaken(i, <<name, value>>) \/ IsWireless(i, name)
    BY <2>1, <2>2, <2>3, NumberWrite
  <2> QED BY <1>2, <2>1, <2>4, PlainHeard
<1> QED BY <1>3, <1>4, <1>5

LEMMA NumberIsHeard ==
    ASSUME RegularProfiles, NEW cfg, Wired(model, cfg), NEW i \in DOMAIN model.entities,
           Component(model.entities[i]) = "number",
           NEW control \in Controls(model.entities[i]), NEW value \in control.values
    PROVE  IsHeard(i, control.name, value)
<1> PICK entity : entity = model.entities[i]
  OBVIOUS
<1>1. ProfileOf(i).component = "number" /\ ProfileOf(i) \in Range(Profiles)
  BY DEF Component, ProfileOf, Wired, EntitiesAre, Range
<1>2. ProfileOf(i).transform \notin {"room_temperature_controller", "cover_with_slats"}
  BY <1>1 DEF RegularProfiles
<1>3. PICK name : Takes(entity, name) /\ control = Slider(name, 0, 1000)
  BY DEF Controls, build_number, When
<1>4. control.name = name /\ IsNumberOrBool(value)
  BY <1>3, SliderIs
<1>5. name \in Accepts(ProfileOf(i))
  BY <1>3, TakenIsRegular
<1>6. name \in ForNumbers(ProfileOf(i))
  BY <1>1, <1>5 DEF ForNumbers
<1>7. IsTaken(i, <<name, value>>) \/ IsWireless(i, name)
  BY <1>4, <1>5, <1>6, NumberWrite
<1> QED BY <1>2, <1>4, <1>7, PlainHeard

LEMMA PairIs ==
    ASSUME NEW u, NEW v
    PROVE  <<u>> \o <<>> = <<u>> /\ <<u>> \o <<v>> = <<u, v>>
<1> DEFINE S == {u, v}
<1>1. <<u>> \in Seq(S) /\ <<v>> \in Seq(S)
  OBVIOUS
<1>2. <<u>> \o <<>> = <<u>>
  BY <1>1, ConcatEmptySeq
<1>3. <<u>> \o <<v>> = <<u, v>>
  <2>1. Len(<<u>> \o <<v>>) = 2 /\ <<u>> \o <<v>> \in Seq(S)
    BY <1>1, ConcatProperties
  <2>2. (<<u>> \o <<v>>)[1] = u /\ (<<u>> \o <<v>>)[2] = v
    BY <1>1, ConcatProperties
  <2>3. <<u, v>> \in Seq(S) /\ Len(<<u, v>>) = 2 /\ <<u, v>>[1] = u /\ <<u, v>>[2] = v
    OBVIOUS
  <2> HIDE DEF S
  <2>4. \A k \in 1..2 : (<<u>> \o <<v>>)[k] = <<u, v>>[k]
    BY <2>2, <2>3
  <2> QED BY <2>1, <2>3, <2>4, SeqEqual
<1> QED BY <1>2, <1>3

LEMMA CoverIsHeard ==
    ASSUME RegularProfiles, NEW cfg, Wired(model, cfg), NEW i \in DOMAIN model.entities,
           Component(model.entities[i]) = "cover",
           NEW control \in Controls(model.entities[i]), NEW value \in control.values
    PROVE  IsHeard(i, control.name, value)
<1> PICK entity : entity = model.entities[i]
  OBVIOUS
<1>1. ProfileOf(i).component = "cover" /\ ProfileOf(i) \in Range(Profiles)
  BY DEF Component, ProfileOf, Wired, EntitiesAre, Range
<1>2. /\ ProfileOf(i).transform # "room_temperature_controller"
      /\ ProfileOf(i).transform = "cover_with_slats" => "slat_position" \in Accepts(ProfileOf(i))
  BY <1>1 DEF RegularProfiles
<1>3. PICK name \in {"position", "stop", "slat_position"} :
        Takes(entity, name) /\ (control = Slider(name, 0, 1000) \/ control = Choice(name, {Bool(TRUE)}))
  BY DEF Controls, build_cover, When
<1>4. control.name = name /\ IsNumberOrBool(value)
  <2>1. CASE control = Slider(name, 0, 1000)
    BY <2>1, SliderIs
  <2>2. CASE control = Choice(name, {Bool(TRUE)})
    BY <2>2 DEF Choice, IsNumberOrBool
  <2> QED BY <1>3, <2>1, <2>2
<1>5. \A some \in {"position", "stop", "slat_position"} : some \in ForNumbers(ProfileOf(i))
  BY <1>1 DEF ForNumbers
<1>6. name \in Accepts(ProfileOf(i))
  BY <1>3, TakenIsRegular
<1>7. \A other : IsNumberOrBool(other) => IsTaken(i, <<name, other>>) \/ IsWireless(i, name)
  BY <1>3, <1>5, <1>6, NumberWrite
<1>8. CASE ~(ProfileOf(i).transform = "cover_with_slats" /\ name \in {"position", "stop"})
  BY <1>2, <1>4, <1>7, <1>8, PlainHeard
<1>9. CASE ProfileOf(i).transform = "cover_with_slats" /\ name = "stop"
  <2>1. resolve_writes(i, name, value) = <<<<"stop", Bool(TRUE)>>>>
    BY <1>9 DEF resolve_writes, subWrites, Unclaimed, ProfileOf
  <2>2. IsNumberOrBool(Bool(TRUE))
    BY DEF IsNumberOrBool
  <2>3. IsTaken(i, <<"stop", Bool(TRUE)>>) \/ IsWireless(i, "stop")
    BY <1>7, <1>9, <2>2
  <2> QED BY <1>4, <1>9, <2>1, <2>3, HeardOne
<1>10. CASE ProfileOf(i).transform = "cover_with_slats" /\ name = "position"
  <2>1. IsTaken(i, <<"position", value>>) \/ IsWireless(i, "position")
    BY <1>4, <1>7, <1>10
  <2>2. subWrites(ProfileOf(i).transform, name, value) =
            <<<<"position", value>>>> \o (IF value = FullyOpen THEN <<<<"slat_position", Num(0)>>>> ELSE <<>>)
    BY <1>10 DEF subWrites
  <2>3. \A u, v : <<u>> \o <<>> = <<u>> /\ <<u>> \o <<v>> = <<u, v>>
    BY PairIs
  <2>4. \A u, v : <<u>> # <<>> /\ <<u, v>> # <<>>
    OBVIOUS
  <2>5. CASE value = FullyOpen
    <3>1. resolve_writes(i, name, value) = <<<<"position", value>>, <<"slat_position", Num(0)>>>>
      BY <2>2, <2>3, <2>4, <2>5 DEF resolve_writes, Unclaimed, ProfileOf
    <3>2. IsNumberOrBool(Num(0))
      BY DEF IsNumberOrBool
    <3>3. IsTaken(i, <<"slat_position", Num(0)>>) \/ IsWireless(i, "slat_position")
      BY <1>2, <1>5, <1>10, <3>2, NumberWrite
    <3> QED BY <1>4, <1>10, <2>1, <3>1, <3>3, HeardTwo
  <2>6. CASE value # FullyOpen
    <3>1. resolve_writes(i, name, value) = <<<<"position", value>>>>
      BY <2>2, <2>3, <2>4, <2>6 DEF resolve_writes, Unclaimed, ProfileOf
    <3> QED BY <1>4, <1>10, <2>1, <3>1, HeardOne
  <2> QED BY <2>5, <2>6
<1> QED BY <1>3, <1>8, <1>9, <1>10

LEMMA ClimateIsHeard ==
    ASSUME RegularProfiles, NEW cfg, Wired(model, cfg), NEW i \in DOMAIN model.entities,
           Component(model.entities[i]) = "climate",
           NEW control \in Controls(model.entities[i]), NEW value \in control.values
    PROVE  IsHeard(i, control.name, value)
<1> PICK entity : entity = model.entities[i]
  OBVIOUS
<1>1. ProfileOf(i).component = "climate" /\ ProfileOf(i) \in Range(Profiles)
  BY DEF Component, ProfileOf, Wired, EntitiesAre, Range
<1>2. ProfileOf(i).transform # "cover_with_slats"
  BY <1>1 DEF RegularProfiles
<1>3. \/ /\ Takes(entity, "setpoint_temperature")
         /\ \E low, high : control = Slider("setpoint_temperature", low, high)
      \/ /\ Shows(entity, "on_off")
         /\ control = Choice("hvac_mode", {Str(HvacModeOf(mode)) : mode \in Range(HvacModeToHa)})
  BY DEF Controls, build_climate, When
<1>4. CASE /\ Takes(entity, "setpoint_temperature")
           /\ \E low, high : control = Slider("setpoint_temperature", low, high)
  <2>1. control.name = "setpoint_temperature" /\ IsNumberOrBool(value)
    BY <1>4, SliderIs
  <2>2. "setpoint_temperature" \in Accepts(ProfileOf(i))
    BY <1>4, TakenIsRegular
  <2>3. "setpoint_temperature" \in ForNumbers(ProfileOf(i))
    BY <1>1 DEF ForNumbers
  <2>4. IsTaken(i, <<"setpoint_temperature", value>>) \/ IsWireless(i, "setpoint_temperature")
    BY <2>1, <2>2, <2>3, NumberWrite
  <2> QED BY <1>2, <2>1, <2>4, PlainHeard
<1>5. CASE /\ Shows(entity, "on_off")
           /\ control = Choice("hvac_mode", {Str(HvacModeOf(mode)) : mode \in Range(HvacModeToHa)})
  <2>1. PICK mode : value = Str(HvacModeOf(mode)) /\ control.name = "hvac_mode"
    BY <1>5 DEF Choice
  <2>2. HvacModeOf(mode) \in {"off", "eco", "heating", "cooling"}
    BY DEF HvacModeOf, HvacModeToHa, Range
  <2>3. "on_off" \in Offers(ProfileOf(i))
    BY <1>5, ShownIsOffered DEF ProfileOf
  <2>4. /\ ProfileOf(i).transform = "room_temperature_controller"
        /\ {"on_off", "eco", "mode"} \subseteq Accepts(ProfileOf(i))
    BY <1>1, <2>3 DEF RegularProfiles
  <2>5. ASSUME NEW some \in {"on_off", "eco"}, NEW b
        PROVE  IsTaken(i, <<some, Bool(b)>>) \/ IsWireless(i, some)
    <3>1. IsNumberOrBool(Bool(b))
      BY DEF IsNumberOrBool
    <3>2. some \in ForNumbers(ProfileOf(i))
      BY <1>1 DEF ForNumbers
    <3> QED BY <2>4, <3>1, <3>2, NumberWrite
  <2>6. CASE HvacModeOf(mode) = "off"
    <3>1. resolve_writes(i, "hvac_mode", value) = <<<<"on_off", Bool(FALSE)>>>>
      BY <2>1, <2>4, <2>6 DEF resolve_writes, subWrites, Unclaimed, ProfileOf, Str
    <3> QED BY <2>1, <2>5, <3>1, HeardOne
  <2>7. CASE HvacModeOf(mode) = "eco"
    <3>1. resolve_writes(i, "hvac_mode", value) = <<<<"on_off", Bool(TRUE)>>, <<"eco", Bool(TRUE)>>>>
      BY <2>1, <2>4, <2>7 DEF resolve_writes, subWrites, Unclaimed, ProfileOf, Str
    <3> QED BY <2>1, <2>5, <3>1, HeardTwo
  <2>8. CASE HvacModeOf(mode) \in {"heating", "cooling"}
    <3>1. resolve_writes(i, "hvac_mode", value) =
            <<<<"on_off", Bool(TRUE)>>, <<"eco", Bool(FALSE)>>, <<"mode", value>>>>
      BY <2>1, <2>4, <2>8 DEF resolve_writes, subWrites, Unclaimed, ProfileOf, Str
    <3>2. IsTaken(i, <<"mode", value>>) \/ IsWireless(i, "mode")
      BY <2>1, <2>4, <2>8, ModeWrite
    <3> QED BY <2>1, <2>5, <3>1, <3>2, HeardThree
  <2> QED BY <2>2, <2>6, <2>7, <2>8
<1> QED BY <1>3, <1>4, <1>5

\* Sensors and events have no controls, and there are no other components.
LEMMA EachIsHeard ==
    ASSUME RegularProfiles, NEW cfg, Wired(model, cfg), NEW i \in DOMAIN model.entities,
           sole_attribute(model.entities[i]),
           NEW control \in Controls(model.entities[i]), NEW value \in control.values
    PROVE  IsHeard(i, control.name, value)
<1>1. Component(model.entities[i]) \in {"switch", "light", "cover", "number", "climate"}
  BY DEF Controls
<1> QED BY <1>1, SwitchIsHeard, LightIsHeard, CoverIsHeard, NumberIsHeard, ClimateIsHeard

LEMMA WiredIsHeard ==
    ASSUME TopicStyle = "slug", RegularProfiles, NEW cfg, Wired(model, cfg), Sound(model),
           \A i \in DOMAIN model.entities : sole_attribute(model.entities[i])
    PROVE  ControlsAreHeard
<1>1. ASSUME NEW i \in DOMAIN model.entities,
             NEW control \in Controls(model.entities[i]), NEW value \in control.values
      PROVE  LET entity == model.entities[i]
                 commands == Profiles[entity.profile].commands
                 Wireless(write) == PositionOf(write[1], commands) # 0 /\ ~Takes(entity, write[1])
             IN  \/ parse_topic(entity.topic) = {i} /\ apply_command(i, control.name, value).ok
                 \/ \E write \in Range(resolve_writes(i, control.name, value)) : Wireless(write)
  <2>1. parse_topic(model.entities[i].topic) = {i}
    BY DEF Sound, WellNamed, parse_topic
  <2>2. IsHeard(i, control.name, value)
    BY EachIsHeard
  <2> QED BY <2>1, <2>2 DEF IsHeard, IsWireless
<1> QED BY <1>1 DEF ControlsAreHeard

\* The tables are those of a configuration that compiled: at startup, and later, for a
\* failed compilation leaves the old ones.
Made == \E cfg, al, ex : model = compile_and_build_discovery(cfg, al, ex) /\ model.ok

LEMMA MadeIsHeard ==
    ASSUME TopicStyle = "slug", RegularProfiles, Made
    PROVE  ControlsAreHeard
<1>1. PICK cfg, al, ex : model = compile_and_build_discovery(cfg, al, ex) /\ model.ok
  BY DEF Made
<1>2. /\ Wired(model, cfg) /\ Sound(model)
      /\ \A i \in DOMAIN model.entities : sole_attribute(model.entities[i])
  BY <1>1, AnnouncedIsWired
<1> QED BY <1>2, WiredIsHeard

LEMMA InitMakes == Init => Made
<1> SUFFICES ASSUME Init PROVE Made
  OBVIOUS
<1>1. model = compile_and_build_discovery(Start, <<>>, {}) /\ model.ok
  BY StartAssumption DEF Init
<1> QED BY <1>1 DEF Made

LEMMA StepMakes == Made /\ [Next]_vars => Made'
<1> SUFFICES ASSUME Made, [Next]_vars PROVE Made'
  OBVIOUS
<1>1. ASSUME Resync PROVE Made'
  <2>1. PICK new : /\ new = compile_and_build_discovery(config', aliases', excluded')
                   /\ (model' = new /\ new.ok) \/ model' = model
    BY <1>1 DEF Resync
  <2> QED BY <2>1 DEF Made
<1>2. ASSUME model' = model PROVE Made'
  BY <1>2 DEF Made
<1>3. ASSUME NEW channel \in Channels, NEW shape \in Shapes[channel], Install(channel, shape)
      PROVE  Made'
  BY <1>1, <1>3 DEF Install
<1>4. ASSUME NEW channel \in DOMAIN config, Uninstall(channel)
      PROVE  Made'
  BY <1>1, <1>4 DEF Uninstall
<1>5. ASSUME NEW channel \in DOMAIN config, Exclude(channel)
      PROVE  Made'
  BY <1>1, <1>5 DEF Exclude
<1>6. ASSUME NEW channel \in DOMAIN config, NEW name \in Names, Rename(channel, name)
      PROVE  Made'
  BY <1>1, <1>6 DEF Rename
<1>7. ASSUME NEW channel \in DOMAIN config, NEW pairing, NEW raw, Report(channel, pairing, raw)
      PROVE  Made'
  BY <1>2, <1>7 DEF Report
<1>8. ASSUME NEW channel \in DOMAIN config, NEW name, NEW value, Command(channel, name, value)
      PROVE  Made'
  BY <1>2, <1>8 DEF Command
<1>9. ASSUME NEW n \in DOMAIN wire, Deliver(n)
      PROVE  Made'
  BY <1>2, <1>9 DEF Deliver
<1>10. CASE UNCHANGED vars
  BY <1>2, <1>10 DEF vars
<1> QED BY <1>3, <1>4, <1>5, <1>6, <1>7, <1>8, <1>9, <1>10 DEF Next

----------------------------------------------------------------------------
(* What the store shows.                                                   *)

\* A configuration of channels in shapes that they may take.
Installed(cfg) == \A channel \in DOMAIN cfg : channel \in Channels /\ cfg[channel] \in Shapes[channel]

\* The readings of its outputs.
Readable(cfg, raws) ==
    \A channel \in DOMAIN cfg :
        /\ DOMAIN raws[channel] = DOMAIN cfg[channel].outputs
        /\ \A key \in DOMAIN raws[channel] : raws[channel][key] \in RawValues

LEMMA ShapeIs ==
    ASSUME NEW cfg, Installed(cfg), NEW channel \in DOMAIN cfg
    PROVE  /\ cfg[channel].outputs \in Seq(DOMAIN FirstReading)
           /\ cfg[channel].inputs \in Seq(Range(cfg[channel].inputs))
           /\ cfg[channel].bounds # <<>> =>
                cfg[channel].bounds \in Int \X Int /\ cfg[channel].bounds[1] <= cfg[channel].bounds[2]
BY ShapesAssumption DEF Installed

\* The key of a datapoint that is there.
LEMMA DatapointIs ==
    ASSUME NEW S, NEW points \in Seq(S), NEW pairing \in Range(points)
    PROVE  LET key == find_datapoint(points, pairing)
           IN  key \in DOMAIN points /\ key # 0 /\ points[key] = pairing
<1> DEFINE keys == {key \in DOMAIN points : points[key] = pairing}
<1>1. Len(points) \in Nat /\ DOMAIN points = 1..Len(points)
  BY LenProperties
<1>2. keys \in SUBSET Nat /\ keys # {}
  BY <1>1 DEF Range
<1>3. Min(keys) \in keys
  <2> HIDE DEF keys
  <2> QED BY <1>2, MinIn
<1>4. find_datapoint(points, pairing) = Min(keys)
  BY <1>2 DEF find_datapoint
<1> QED BY <1>1, <1>3, <1>4

\* What is picked of different pairings has different pairings.
LEMMA PickedOnce ==
    ASSUME NEW S, NEW s \in Seq(S), NEW some,
           \A b, c \in DOMAIN s : s[b].pairing = s[c].pairing => b = c,
           NEW t, t = Picked(s, some)
    PROVE  /\ DOMAIN t = 1..Len(t)
           /\ \A k \in DOMAIN t : t[k] \in some
           /\ \A j, k \in DOMAIN t : t[j].pairing = t[k].pairing => j = k
<1>1. /\ DOMAIN t = 1..Len(t)
      /\ \E from \in [1..Len(t) -> DOMAIN s] :
            /\ \A k \in 1..Len(t) : t[k] = s[from[k]] /\ t[k] \in some
            /\ \A j, k \in 1..Len(t) : from[j] = from[k] => j = k
  <2> DEFINE P(r) == /\ r \in Seq(S) /\ Len(r) \in Nat /\ DOMAIN r = 1..Len(r)
                     /\ \E from \in [1..Len(r) -> DOMAIN s] :
                        /\ \A k \in 1..Len(r) : r[k] = s[from[k]] /\ r[k] \in some
                        /\ \A j, k \in 1..Len(r) : from[j] = from[k] => j = k
                     /\ \A n \in DOMAIN s : s[n] \in some => \E k \in 1..Len(r) : r[k] = s[n]
  <2>1. P(Picked(s, some))
    BY PickedIs
  <2> HIDE DEF P
  <2>2. P(t)
    BY <2>1
  <2> USE DEF P
  <2> QED BY <2>2
<1>2. PICK from \in [1..Len(t) -> DOMAIN s] :
            /\ \A k \in 1..Len(t) : t[k] = s[from[k]] /\ t[k] \in some
            /\ \A j, k \in 1..Len(t) : from[j] = from[k] => j = k
  BY <1>1
<1>3. \A k \in 1..Len(t) : from[k] \in DOMAIN s
  OBVIOUS
<1>4. ASSUME NEW j \in 1..Len(t), NEW k \in 1..Len(t), t[j].pairing = t[k].pairing
      PROVE  j = k
  <2>1. s[from[j]].pairing = s[from[k]].pairing
    BY <1>2, <1>4
  <2>2. from[j] = from[k]
    BY <1>3, <2>1
  <2> QED BY <1>2, <2>2
<1> QED BY <1>1, <1>2, <1>4

\* An attribute that an entity shows is one of its profile's and reads an output.
Attributed(m, cfg, i, a, spec) ==
    /\ spec = AttrsOf(m, cfg, i)[a]
    /\ spec \in Range(Profiles[m.entities[i].profile].attributes)
    /\ spec.pairing \in Range(cfg[m.entities[i].id].outputs)
    /\ available(spec.codec, cfg[m.entities[i].id])
    /\ m.entities[i].names[a] = spec.name
    /\ m.entities[i].codecs[a] = bound(spec.codec, cfg[m.entities[i].id])
    /\ m.entities[i].kinds[a] = spec.kind
    /\ \A b \in DOMAIN AttrsOf(m, cfg, i) : AttrsOf(m, cfg, i)[b].pairing = spec.pairing => b = a

LEMMA AttributesAre ==
    ASSUME NEW m, NEW cfg, Wired(m, cfg), NEW i \in DOMAIN m.entities, NEW a \in DOMAIN AttrsOf(m, cfg, i)
    PROVE  \E spec : Attributed(m, cfg, i, a, spec)
<1> PICK shape, profile, attrs :
        /\ shape = cfg[m.entities[i].id] /\ profile = Profiles[m.entities[i].profile]
        /\ attrs = AttrsOf(m, cfg, i)
  OBVIOUS
<1>1. /\ m.entities[i].profile \in DOMAIN Profiles
      /\ m.entities[i].names = [b \in DOMAIN attrs |-> attrs[b].name]
      /\ m.entities[i].codecs = [b \in DOMAIN attrs |-> bound(attrs[b].codec, shape)]
      /\ m.entities[i].kinds = [b \in DOMAIN attrs |-> attrs[b].kind]
  BY DEF Wired, EntitiesAre, Lists
<1>2. PICK some : /\ attrs = Picked(profile.attributes, some)
                  /\ \A spec \in some : /\ spec \in Range(profile.attributes)
                                         /\ spec.pairing \in Range(shape.outputs) /\ available(spec.codec, shape)
  <2> DEFINE some == {spec \in Range(profile.attributes) :
                        spec.pairing \in Range(shape.outputs) /\ available(spec.codec, shape)}
  <2>1. attrs = Picked(profile.attributes, some)
    BY DEF AttrsOf, build_attributes
  <2>2. \A spec \in some : /\ spec \in Range(profile.attributes)
                           /\ spec.pairing \in Range(shape.outputs) /\ available(spec.codec, shape)
    OBVIOUS
  <2> HIDE DEF some
  <2> QED BY <2>1, <2>2
<1>3. /\ profile.attributes \in Seq(Range(profile.attributes))
      /\ \A b, c \in DOMAIN profile.attributes :
            profile.attributes[b].pairing = profile.attributes[c].pairing => b = c
  <2>1. PICK p \in DOMAIN Profiles : profile = Profiles[p]
    BY <1>1
  <2>2. /\ Profiles[p].attributes \in Seq(Range(Profiles[p].attributes))
        /\ \A b, c \in DOMAIN Profiles[p].attributes :
            Profiles[p].attributes[b].pairing = Profiles[p].attributes[c].pairing => b = c
    BY <2>1, ProfilesAssumption
  <2> QED BY <2>1, <2>2
<1>4. PICK given : given = profile.attributes
  OBVIOUS
<1>5. given \in Seq(Range(given)) /\ \A b, c \in DOMAIN given : given[b].pairing = given[c].pairing => b = c
  BY <1>3, <1>4
<1>6. attrs = Picked(given, some)
  BY <1>2, <1>4
<1>7. /\ \A k \in DOMAIN attrs : attrs[k] \in some
      /\ \A j, k \in DOMAIN attrs : attrs[j].pairing = attrs[k].pairing => j = k
  BY <1>5, <1>6, PickedOnce
<1>8. attrs[a] \in some
  BY <1>7
<1>9. \A b \in DOMAIN attrs : attrs[b].pairing = attrs[a].pairing => b = a
  BY <1>7
<1>10. /\ m.entities[i].names[a] = attrs[a].name
       /\ m.entities[i].codecs[a] = bound(attrs[a].codec, shape)
       /\ m.entities[i].kinds[a] = attrs[a].kind
  BY <1>1
<1> QED BY <1>2, <1>8, <1>9, <1>10 DEF Attributed

KeyOf(m, cfg, i, a) ==
    <<m.entities[i].id, find_datapoint(cfg[m.entities[i].id].outputs, AttrsOf(m, cfg, i)[a].pairing)>>

\* Each attribute is heard under the key of its output.
LEMMA AttributeHeard ==
    ASSUME NEW m, NEW cfg, Wired(m, cfg), Installed(cfg),
           NEW i \in DOMAIN m.entities, NEW a \in DOMAIN AttrsOf(m, cfg, i)
    PROVE  /\ KeyOf(m, cfg, i, a) \in DOMAIN m.ingress
           /\ m.ingress[KeyOf(m, cfg, i, a)] = [entity |-> i, attr |-> a]
           /\ KeyOf(m, cfg, i, a) \in DOMAIN IngressOf(m, cfg, i)
<1> PICK channel, shape, attrs :
        channel = m.entities[i].id /\ shape = cfg[channel] /\ attrs = AttrsOf(m, cfg, i)
  OBVIOUS
<1> DEFINE Key(b) == <<channel, find_datapoint(shape.outputs, attrs[b].pairing)>>
<1>1. channel \in DOMAIN cfg
  BY DEF Wired, EntitiesAre
<1>2. shape.outputs \in Seq(DOMAIN FirstReading)
  BY <1>1, ShapeIs
<1>3. ASSUME NEW b \in DOMAIN attrs, Key(b) = Key(a) PROVE b = a
  <2>1. /\ attrs[b].pairing \in Range(shape.outputs) /\ attrs[a].pairing \in Range(shape.outputs)
        /\ \A c \in DOMAIN attrs : attrs[c].pairing = attrs[a].pairing => c = a
    BY AttributesAre DEF Attributed
  <2>2. find_datapoint(shape.outputs, attrs[b].pairing) = find_datapoint(shape.outputs, attrs[a].pairing)
    BY <1>3
  <2>3. /\ shape.outputs[find_datapoint(shape.outputs, attrs[b].pairing)] = attrs[b].pairing
        /\ shape.outputs[find_datapoint(shape.outputs, attrs[a].pairing)] = attrs[a].pairing
    BY <1>2, <2>1, DatapointIs
  <2> QED BY <2>1, <2>2, <2>3
<1>4. (CHOOSE b \in DOMAIN attrs : Key(b) = Key(a)) = a
  <2> HIDE DEF Key
  <2> QED BY <1>3
<1>5. IngressOf(m, cfg, i) = [key \in {Key(b) : b \in DOMAIN attrs} |->
            [entity |-> i, attr |-> CHOOSE b \in DOMAIN attrs : Key(b) = key]]
  BY DEF IngressOf, build_ingress
<1>6. Key(a) \in DOMAIN IngressOf(m, cfg, i) /\ IngressOf(m, cfg, i)[Key(a)] = [entity |-> i, attr |-> a]
  <2> HIDE DEF Key
  <2> QED BY <1>4, <1>5
<1>7. Key(a) \in DOMAIN m.ingress /\ m.ingress[Key(a)] = IngressOf(m, cfg, i)[Key(a)]
  <2> HIDE DEF Key
  <2> QED BY <1>6 DEF Wired, IngressIs
<1>8. KeyOf(m, cfg, i, a) = Key(a)
  BY DEF KeyOf
<1> QED BY <1>6, <1>7, <1>8

\* And nothing else is heard: every key is that of an attribute.
LEMMA HeardIsAttribute ==
    ASSUME NEW m, NEW cfg, Wired(m, cfg), Installed(cfg), NEW key \in DOMAIN m.ingress
    PROVE  \E i \in DOMAIN m.entities : \E a \in DOMAIN AttrsOf(m, cfg, i) :
                key = KeyOf(m, cfg, i, a) /\ m.ingress[key] = [entity |-> i, attr |-> a]
<1>1. PICK i \in DOMAIN m.entities : key \in DOMAIN IngressOf(m, cfg, i)
  BY DEF Wired, IngressIs
<1>2. PICK a \in DOMAIN AttrsOf(m, cfg, i) : key = KeyOf(m, cfg, i, a)
  BY <1>1 DEF IngressOf, build_ingress, KeyOf
<1> QED BY <1>2, AttributeHeard

\* The value is one that the codec shows.
IsShown(codec, value) == \E raw \in RawValues : value = decode(codec, raw)

LEMMA SeedShows ==
    ASSUME NEW m, NEW cfg, NEW raws, Wired(m, cfg), Installed(cfg), Readable(cfg, raws),
           NEW i \in DOMAIN m.entities, NEW a \in DOMAIN m.entities[i].names
    PROVE  IsShown(m.entities[i].codecs[a], Seed(m, raws)[i][a])
<1>1. a \in DOMAIN AttrsOf(m, cfg, i)
  BY ListsAre
<1> DEFINE key == CHOOSE key \in DOMAIN m.ingress : m.ingress[key] = [entity |-> i, attr |-> a]
<1>2. key \in DOMAIN m.ingress /\ m.ingress[key] = [entity |-> i, attr |-> a]
  BY <1>1, AttributeHeard
<1>3. Seed(m, raws)[i][a] = decode(m.entities[i].codecs[a], raws[key[1]][key[2]])
  BY DEF Seed
<1> HIDE DEF key
<1>4. PICK j \in DOMAIN m.entities : \E b \in DOMAIN AttrsOf(m, cfg, j) : key = KeyOf(m, cfg, j, b)
  BY <1>2, HeardIsAttribute
<1>5. PICK b \in DOMAIN AttrsOf(m, cfg, j) : key = KeyOf(m, cfg, j, b)
  BY <1>4
<1> PICK channel : channel = m.entities[j].id
  OBVIOUS
<1>6. channel \in DOMAIN cfg
  BY DEF Wired, EntitiesAre
<1>7. AttrsOf(m, cfg, j)[b].pairing \in Range(cfg[channel].outputs)
  BY AttributesAre DEF Attributed
<1>8. key[1] = channel /\ key[2] \in DOMAIN cfg[channel].outputs
  BY <1>5, <1>6, <1>7, ShapeIs, DatapointIs DEF KeyOf
<1>9. raws[key[1]][key[2]] \in RawValues
  BY <1>6, <1>8 DEF Readable
<1> QED BY <1>3, <1>9 DEF IsShown

LEMMA AttrsNumbered ==
    ASSUME NEW m, NEW cfg, Wired(m, cfg), NEW i \in DOMAIN m.entities,
           NEW attrs, attrs = AttrsOf(m, cfg, i)
    PROVE  Len(attrs) \in Nat /\ DOMAIN attrs = 1..Len(attrs)
<1> PICK profile : profile = Profiles[m.entities[i].profile]
  OBVIOUS
<1>1. profile.attributes \in Seq(Range(profile.attributes))
  BY ProfilesAssumption DEF Wired, EntitiesAre
<1>2. \E some : attrs = Picked(profile.attributes, some)
  BY DEF AttrsOf, build_attributes
<1> QED BY <1>1, <1>2, PickedIs

\* Every command in the table is one that its entity takes.
LEMMA EgressTaken ==
    ASSUME NEW m, NEW cfg, Wired(m, cfg), NEW key \in DOMAIN m.egress
    PROVE  /\ key = <<key[1], key[2]>>
           /\ key[1] \in DOMAIN m.entities /\ Takes(m.entities[key[1]], key[2])
           /\ \E spec : Specified(m, cfg, key[1], key[2], spec)
<1>1. PICK i \in DOMAIN m.entities : key \in DOMAIN EgressOf(m, cfg, i)
  BY DEF Wired, EgressIs
<1>2. PICK commands : commands = CommandsOf(m, cfg, i)
  OBVIOUS
<1>3. PICK spec \in Range(commands) : key = <<i, spec.name>>
  BY <1>1, <1>2 DEF EgressOf, build_egress
<1>4. PICK c \in DOMAIN commands : spec = commands[c]
  BY <1>3 DEF Range
<1>5. m.entities[i].commands = [d \in DOMAIN commands |-> commands[d].name]
  BY <1>2 DEF Wired, EntitiesAre, Lists
<1>6. Takes(m.entities[i], spec.name)
  BY <1>4, <1>5 DEF Takes, Range
<1>7. \E some : Specified(m, cfg, i, spec.name, some)
  BY <1>6, CommandsAre
<1> QED BY <1>3, <1>6, <1>7

\* The attribute that a command marks is the one of that name.
LEMMA MarkedIs ==
    ASSUME NEW m, NEW cfg, Wired(m, cfg), NEW i \in DOMAIN m.entities, NEW name, NEW spec,
           Specified(m, cfg, i, name, spec), m.egress[<<i, name>>].optimistic # 0
    PROVE  LET a == m.egress[<<i, name>>].optimistic
           IN  /\ a \in DOMAIN AttrsOf(m, cfg, i)
               /\ \E attribute : Attributed(m, cfg, i, a, attribute) /\ attribute.name = spec.optimistic
<1> PICK attrs, a : attrs = AttrsOf(m, cfg, i) /\ a = m.egress[<<i, name>>].optimistic
  OBVIOUS
<1>1. a = PositionOf(spec.optimistic, attrs) /\ a # 0
  BY DEF Specified
<1>2. Len(attrs) \in Nat /\ DOMAIN attrs = 1..Len(attrs)
  BY AttrsNumbered
<1>3. \E n \in 1..Len(attrs) : attrs[n].name = spec.optimistic
  BY <1>1, <1>2 DEF PositionOf
<1>4. a \in 1..Len(attrs) /\ attrs[a].name = spec.optimistic
  BY <1>1, <1>2, <1>3, PositionIs
<1>5. PICK attribute : Attributed(m, cfg, i, a, attribute)
  BY <1>2, <1>4, AttributesAre
<1>6. attribute.name = spec.optimistic
  BY <1>4, <1>5 DEF Attributed
<1> QED BY <1>2, <1>4, <1>5, <1>6

\* The input behind a command, and the output that answers it: that of the attribute.
LEMMA AnsweredIn ==
    ASSUME DevicesAnswer, Wired(model, config), Installed(config),
           NEW i \in DOMAIN model.entities, NEW name, NEW spec,
           Specified(model, config, i, name, spec),
           NEW path, path = model.egress[<<i, name>>].path,
           NEW a, a = model.egress[<<i, name>>].optimistic, a # 0, OutputOf(path) # 0
    PROVE  /\ path[1] = model.entities[i].id /\ path[1] \in DOMAIN config
           /\ Input(path) = spec.pairing /\ spec.pairing \in DOMAIN Response
           /\ a \in DOMAIN AttrsOf(model, config, i)
           /\ <<path[1], OutputOf(path)>> = KeyOf(model, config, i, a)
           /\ \E attribute : Attributed(model, config, i, a, attribute) /\ Answers(spec, attribute)
           /\ model.entities[i].kinds[a] = "state"
<1> PICK channel : channel = model.entities[i].id
  OBVIOUS
<1>1. channel \in DOMAIN config /\ model.entities[i].profile \in DOMAIN Profiles
  BY DEF Wired, EntitiesAre
<1>2. path = <<channel, find_datapoint(config[channel].inputs, spec.pairing)>>
      /\ spec.pairing \in Range(config[channel].inputs)
      /\ spec \in Range(Profiles[model.entities[i].profile].commands)
  BY DEF Specified
<1>3. config[channel].inputs[find_datapoint(config[channel].inputs, spec.pairing)] = spec.pairing
  BY <1>1, <1>2, ShapeIs, DatapointIs
<1>4. path[1] = channel /\ Input(path) = spec.pairing
  BY <1>2, <1>3 DEF Input
<1>5. spec.pairing \in DOMAIN Response
      /\ OutputOf(path) = find_datapoint(config[channel].outputs, Response[spec.pairing].output)
  BY <1>4 DEF OutputOf
<1>6. PICK attribute : /\ Attributed(model, config, i, a, attribute) /\ attribute.name = spec.optimistic
                       /\ a \in DOMAIN AttrsOf(model, config, i)
  BY MarkedIs
<1>7. attribute \in Range(Profiles[model.entities[i].profile].attributes)
      /\ attribute = AttrsOf(model, config, i)[a]
  BY <1>6 DEF Attributed
<1>8. Answers(spec, attribute)
  <2>1. Profiles[model.entities[i].profile] \in Range(Profiles)
    BY <1>1 DEF Range
  <2> QED BY <1>2, <1>5, <1>6, <1>7, <2>1 DEF DevicesAnswer
<1>9. Response[spec.pairing].output = attribute.pairing /\ attribute.kind = "state"
  BY <1>8 DEF Answers
<1>10. <<path[1], OutputOf(path)>> = KeyOf(model, config, i, a)
  BY <1>4, <1>5, <1>7, <1>9 DEF KeyOf
<1>11. model.entities[i].kinds[a] = "state"
  BY <1>6, <1>9 DEF Attributed
<1> QED BY <1>1, <1>4, <1>5, <1>6, <1>8, <1>10, <1>11

\* No two commands mark one attribute.
LEMMA MarkedByOne ==
    ASSUME DevicesAnswer, NEW m, NEW cfg, Wired(m, cfg), NEW i \in DOMAIN m.entities,
           NEW one, NEW other, NEW spec, NEW some,
           Specified(m, cfg, i, one, spec), Specified(m, cfg, i, other, some),
           m.egress[<<i, one>>].optimistic # 0,
           m.egress[<<i, one>>].optimistic = m.egress[<<i, other>>].optimistic
    PROVE  one = other
<1> PICK a : a = m.egress[<<i, one>>].optimistic
  OBVIOUS
<1>1. PICK attribute : Attributed(m, cfg, i, a, attribute) /\ attribute.name = spec.optimistic
  BY MarkedIs
<1>2. PICK again : Attributed(m, cfg, i, a, again) /\ again.name = some.optimistic
  BY MarkedIs
<1>3. attribute = again /\ attribute \in Range(Profiles[m.entities[i].profile].attributes)
  BY <1>1, <1>2 DEF Attributed
<1>4. /\ spec \in Range(Profiles[m.entities[i].profile].commands) /\ spec.name = one
      /\ some \in Range(Profiles[m.entities[i].profile].commands) /\ some.name = other
  BY DEF Specified
<1>5. Profiles[m.entities[i].profile] \in Range(Profiles)
  BY DEF Wired, EntitiesAre, Range
<1>6. some.optimistic = spec.optimistic
  BY <1>1, <1>2, <1>3
<1>7. some.name = spec.name
  BY <1>1, <1>3, <1>4, <1>5, <1>6 DEF DevicesAnswer
<1> QED BY <1>4, <1>7

----------------------------------------------------------------------------
(* What is sent, and what comes back.                                      *)

LEMMA BetweenInt ==
    ASSUME NEW low \in Int, NEW number \in Int, NEW high \in Int
    PROVE  Between(low, number, high) \in Int
<1> DEFINE below == IF number <= high THEN number ELSE high
<1>1. Min({high, number}) = below
  BY DEF Min
<1>2. below \in Int
  OBVIOUS
<1> HIDE DEF below
<1>3. Max({low, below}) = IF low >= below THEN low ELSE below
  BY <1>2 DEF Max
<1> QED BY <1>1, <1>2, <1>3 DEF Between

LEMMA TenthsInt ==
    ASSUME NEW value \in Values, FloatTakes(value)
    PROVE  Tenths(value) \in Int
BY DEF Values, FloatTakes, IsNumber, parse_finite_float, Tenths, None

\* The range of a command lets values through, or refuses them.
LEMMA ValidIs ==
    ASSUME NEW range, range # <<>> => range \in Int \X Int, NEW value \in Values
    PROVE  validate(range, value) \in Values \cup {Rejected}
<1>1. CASE range = <<>> \/ ~IsNumber(value)
  BY <1>1 DEF validate
<1>2. CASE range # <<>> /\ IsNumber(value)
  <2>1. Between(range[1], Tenths(value), range[2]) \in Int
    BY <1>2, TenthsInt, BetweenInt DEF FloatTakes
  <2>2. validate(range, value) = Num(Between(range[1], Tenths(value), range[2]))
    BY <1>2 DEF validate
  <2> QED BY <2>1, <2>2 DEF Values, Num
<1> QED BY <1>1, <1>2

\* A codec as a channel binds it.
Bound(codec) ==
    codec.kind = "color_temp_pct" =>
        codec.warmest \in Int /\ codec.coolest \in Int /\ codec.warmest <= codec.coolest

LEMMA WireInt ==
    ASSUME NEW x \in Int
    PROVE  /\ Whole(x) \in RawValues /\ Decimal(x) \in RawValues /\ <<"int", x>> \in RawValues
BY DEF Whole, Decimal, RawValues

\* What a codec of numbers writes is a number.
LEMMA EncodeNumber ==
    ASSUME NEW codec, NEW kind, codec.kind = kind, kind \in NumberKinds, Bound(codec), NEW value \in Values
    PROVE  encode(codec, value) \in RawValues \cup {Rejected}
<1>1. CASE kind = "bool01"
  <2>1. encode(codec, value) = encode_bool01(value)
    BY <1>1 DEF encode
  <2>2. encode_bool01(value) \in {Whole(0), Whole(1)}
    BY DEF encode_bool01
  <2>3. Whole(0) \in RawValues /\ Whole(1) \in RawValues
    BY DEF Whole, RawValues
  <2> QED BY <2>1, <2>2, <2>3
<1>2. CASE ~FloatTakes(value) \/ (kind = "int" /\ value[1] = "dec")
  <2>1. CASE kind = "bool01"
    BY <1>1, <2>1
  <2>2. CASE kind # "bool01"
    BY <1>2, <2>2 DEF encode, NumberKinds
  <2> QED BY <2>1, <2>2
<1>3. CASE kind # "bool01" /\ FloatTakes(value) /\ ~(kind = "int" /\ value[1] = "dec")
  <2> PICK x : x = Tenths(value)
    OBVIOUS
  <2>1. x \in Int
    BY <1>3, TenthsInt
  <2>2. clamp_percent(x) \in Int /\ Truncated(x) \in Int
    BY <2>1, PercentIs, TruncatedIs
  <2>3. CASE kind = "int"
    BY <1>3, <2>2, <2>3, WireInt DEF encode
  <2>4. CASE kind = "float"
    BY <1>3, <2>1, <2>4, WireInt DEF encode
  <2>5. CASE kind = "percent_int"
    BY <1>3, <2>2, <2>5, WireInt DEF encode
  <2>6. CASE kind = "percent_inverted"
    <3>1. 100 - clamp_percent(x) \in Int
      BY <2>2
    <3> QED BY <1>3, <2>6, <3>1, WireInt DEF encode
  <2>7. CASE kind = "color_temp_pct"
    <3> PICK span : span = codec.coolest - codec.warmest
      OBVIOUS
    <3> PICK r : r = Round(10 * (x - 10 * codec.warmest), span)
      OBVIOUS
    <3>1. encode(codec, value) = IF span = 0 THEN Whole(0) ELSE Whole(Between(0, r, 100))
      BY <1>3, <2>7 DEF encode
    <3>2. span \in Int /\ span >= 0 /\ 10 * (x - 10 * codec.warmest) \in Int
      BY <2>1, <2>7 DEF Bound
    <3>3. CASE span = 0
      <4>1. Whole(0) \in RawValues
        BY DEF Whole, RawValues
      <4> QED BY <3>1, <3>3, <4>1
    <3>4. CASE span # 0
      <4>1. r \in Int
        <5> PICK t : t = 10 * (x - 10 * codec.warmest)
          OBVIOUS
        <5>1. t \in Int /\ r = Round(t, span) /\ span > 0 /\ span \in Int
          BY <3>2, <3>4
        <5> QED BY <5>1, RoundIs
      <4>2. Between(0, r, 100) \in Int
        BY <4>1, BetweenInt
      <4> QED BY <3>1, <3>4, <4>2, WireInt
    <3> QED BY <3>3, <3>4
  <2> QED BY <1>3, <2>3, <2>4, <2>5, <2>6, <2>7 DEF NumberKinds
<1> QED BY <1>1, <1>2, <1>3

LEMMA BoundIs ==
    ASSUME NEW codec, NEW shape, available(codec, shape),
           shape.bounds # <<>> => shape.bounds \in Int \X Int /\ shape.bounds[1] <= shape.bounds[2]
    PROVE  /\ Bound(bound(codec, shape))
           /\ bound(codec, shape).kind = codec.kind
           /\ codec.kind # "color_temp_pct" => bound(codec, shape) = codec
           /\ \A other : other.kind = codec.kind /\ codec.kind = "color_temp_pct" =>
                bound(other, shape) = bound(codec, shape)
BY DEF Bound, bound, available

\* What a command writes, of a value that a client may send.
LEMMA BindingWrites ==
    ASSUME DevicesAnswer, NEW m, NEW cfg, Wired(m, cfg), Installed(cfg),
           NEW key \in DOMAIN m.egress, NEW value \in Values,
           NEW valid, valid = validate(m.egress[key].range, value), valid # Rejected
    PROVE  encode(m.egress[key].codec, valid) \in RawValues \cup {Rejected}
<1> PICK i, name : i = key[1] /\ name = key[2]
  OBVIOUS
<1>1. PICK spec : key = <<i, name>> /\ i \in DOMAIN m.entities /\ Specified(m, cfg, i, name, spec)
  BY EgressTaken
<1> PICK shape, codec : shape = cfg[m.entities[i].id] /\ codec = m.egress[key].codec
  OBVIOUS
<1>2. /\ spec \in Range(Profiles[m.entities[i].profile].commands)
      /\ available(spec.codec, shape)
      /\ codec = bound(spec.codec, shape)
      /\ m.egress[key].range = spec.range
  BY <1>1 DEF Specified
<1>3. m.entities[i].id \in DOMAIN cfg /\ m.entities[i].profile \in DOMAIN Profiles
  BY <1>1 DEF Wired, EntitiesAre
<1>4. shape.bounds # <<>> => shape.bounds \in Int \X Int /\ shape.bounds[1] <= shape.bounds[2]
  BY <1>3, ShapeIs
<1>5. Encodes(spec)
  <2>1. Profiles[m.entities[i].profile] \in Range(Profiles)
    BY <1>3 DEF Range
  <2> QED BY <1>2, <2>1 DEF DevicesAnswer
<1>6. valid \in Values
  <2> PICK range : range = spec.range
    OBVIOUS
  <2>1. range # <<>> => range \in Int \X Int
    BY <1>5 DEF Encodes
  <2>2. valid = validate(range, value)
    BY <1>2
  <2>3. validate(range, value) \in Values \cup {Rejected}
    BY <2>1, ValidIs
  <2> QED BY <2>2, <2>3
<1>7. Bound(codec) /\ codec.kind = spec.codec.kind /\ (spec.codec.kind # "color_temp_pct" => codec = spec.codec)
  <2> PICK given : given = spec.codec
    OBVIOUS
  <2>1. available(given, shape) /\ codec = bound(given, shape)
    BY <1>2
  <2>2. CASE given.kind = "color_temp_pct"
    <3> PICK bounds : bounds = shape.bounds
      OBVIOUS
    <3>1. bounds \in Int \X Int /\ bounds[1] <= bounds[2]
      <4>1. bounds # <<>>
        BY <2>1, <2>2 DEF available
      <4> QED BY <1>4, <4>1
    <3>2. codec = [kind |-> given.kind, warmest |-> bounds[1], coolest |-> bounds[2]]
      BY <2>1, <2>2 DEF bound
    <3> QED BY <2>2, <3>1, <3>2 DEF Bound
  <2>3. CASE given.kind # "color_temp_pct"
    BY <2>1, <2>3 DEF bound, Bound
  <2> QED BY <2>2, <2>3
<1>8. CASE spec.codec.kind \in NumberKinds
  <2>1. codec.kind \in NumberKinds /\ Bound(codec)
    BY <1>7, <1>8
  <2> PICK kind : kind = codec.kind
    OBVIOUS
  <2> QED BY <1>6, <2>1, EncodeNumber
<1>9. CASE spec.codec.kind = "enum"
  <2>1. Range(codec.values) \subseteq RawValues
    BY <1>5, <1>7, <1>9 DEF Encodes
  <2> QED BY <1>7, <1>9, <2>1 DEF encode, Range
<1>10. CASE spec.codec.kind = "trigger"
  BY <1>7, <1>10 DEF encode
<1> QED BY <1>5, <1>8, <1>9, <1>10 DEF Encodes

\* The five kinds of ShownIsStable write alike.
LEMMA SameKind ==
    ASSUME NEW one, NEW other, NEW kind, one.kind = kind, other.kind = kind,
           kind \in {"bool01", "int", "float", "percent_int", "percent_inverted"}, NEW value
    PROVE  encode(one, value) = encode(other, value)
<1>1. CASE kind = "bool01"
  BY <1>1 DEF encode
<1>2. CASE kind = "int"
  BY <1>2 DEF encode
<1>3. CASE kind = "float"
  BY <1>3 DEF encode
<1>4. CASE kind = "percent_int"
  BY <1>4 DEF encode
<1>5. CASE kind = "percent_inverted"
  BY <1>5 DEF encode
<1> QED BY <1>1, <1>2, <1>3, <1>4, <1>5

\* A colour temperature whose bounds are one shows that one.
LEMMA NoSpan ==
    ASSUME NEW codec, codec.kind = "color_temp_pct", codec.warmest \in Int, codec.coolest = codec.warmest,
           NEW percent \in 0..100
    PROVE  decode(codec, encode(codec, decode(codec, Whole(percent)))) = decode(codec, Whole(percent))
<1> PICK k : k = Round(1000 * codec.warmest, 1000)
  OBVIOUS
<1>1. k \in Int
  <2> PICK t : t = 1000 * codec.warmest
    OBVIOUS
  <2>1. t \in Int
    OBVIOUS
  <2>2. \A n, d \in Int : d > 0 => Round(n, d) \in Int
    BY RoundIs
  <2> QED BY <2>1, <2>2
<1>2. ASSUME NEW p \in 0..100 PROVE decode(codec, Whole(p)) = Num(10 * k)
  <2>1. parse_finite_float(Whole(p)) /\ Whole(p)[2] = 10 * p /\ 10 * p \in Int
    BY DEF parse_finite_float, Whole
  <2> PICK pct : pct = Between(0, 10 * p, 1000)
    OBVIOUS
  <2>2. pct \in Int
    BY <2>1, BetweenInt
  <2>3. decode(codec, Whole(p)) =
            Num(10 * Round(1000 * codec.warmest + (codec.coolest - codec.warmest) * pct, 1000))
    BY <2>1 DEF decode
  <2>4. 1000 * codec.warmest + (codec.coolest - codec.warmest) * pct = 1000 * codec.warmest
    BY <2>2
  <2> QED BY <2>3, <2>4
<1>3. encode(codec, Num(10 * k)) = Whole(0)
  <2>1. FloatTakes(Num(10 * k)) /\ codec.coolest - codec.warmest = 0
    BY DEF FloatTakes, IsNumber, Num
  <2> QED BY <2>1 DEF encode
<1>4. 0 \in 0..100
  OBVIOUS
<1>5. decode(codec, Whole(0)) = Num(10 * k) /\ decode(codec, Whole(percent)) = Num(10 * k)
  BY <1>2, <1>4
<1> QED BY <1>3, <1>5

\* Both ends of a command and its attribute on a channel.
Paired(spec, attribute, shape, binding, codec) ==
    /\ Answers(spec, attribute)
    /\ available(spec.codec, shape) /\ available(attribute.codec, shape)
    /\ shape.bounds # <<>> => shape.bounds \in Int \X Int /\ shape.bounds[1] <= shape.bounds[2]
    /\ binding.codec = bound(spec.codec, shape)
    /\ codec = bound(attribute.codec, shape)
    /\ Input(binding.path) = spec.pairing

\* A value that is shown and can be said comes back.
LEMMA ComesBack ==
    ASSUME NEW spec, NEW attribute, NEW shape, NEW binding, NEW codec,
           Paired(spec, attribute, shape, binding, codec),
           NEW value, IsShown(codec, value), value # None, OnScale(codec, value),
           NEW raw, raw = encode(binding.codec, value), raw # Rejected
    PROVE  decode(codec, Shown(binding.path, raw)) = value
<1> PICK to : to = Response[spec.pairing].to
  OBVIOUS
<1>1. \A x : Shown(binding.path, x) = IF x \in DOMAIN to THEN to[x] ELSE x
  BY DEF Shown, Paired
<1> PICK sent, seen : sent = spec.codec /\ seen = attribute.codec
  OBVIOUS
<1>2. /\ binding.codec.kind = sent.kind /\ (sent.kind # "color_temp_pct" => binding.codec = sent)
      /\ \A other : other.kind = sent.kind /\ sent.kind = "color_temp_pct" => bound(other, shape) = binding.codec
  <2>1. available(sent, shape) /\ binding.codec = bound(sent, shape)
    BY DEF Paired
  <2> QED BY <2>1, BoundIs DEF Paired
<1>3. Bound(codec) /\ codec.kind = seen.kind /\ (seen.kind # "color_temp_pct" => codec = seen)
  <2>1. available(seen, shape) /\ codec = bound(seen, shape)
    BY DEF Paired
  <2> QED BY <2>1, BoundIs DEF Paired
<1>4. PICK given \in RawValues : value = decode(codec, given)
  BY DEF IsShown
<1>5. CASE /\ sent.kind = seen.kind /\ sent.kind \in NumberKinds
           /\ \A x \in DOMAIN to : (IF x \in DOMAIN to THEN to[x] ELSE x) = x
  <2>1. Shown(binding.path, raw) = raw
    BY <1>1, <1>5
  <2>2. CASE sent.kind = "color_temp_pct"
    <3>1. codec = binding.codec /\ codec.kind = "color_temp_pct"
      <4>1. codec = bound(seen, shape)
        BY DEF Paired
      <4> QED BY <1>2, <1>5, <2>2, <4>1
    <3>2. PICK percent \in 0..100 : value = decode(codec, Whole(percent))
      BY <3>1 DEF OnScale
    <3>3. codec.warmest \in Int /\ codec.coolest \in Int /\ codec.warmest <= codec.coolest
      BY <1>3, <3>1 DEF Bound
    <3>4. decode(codec, encode(codec, decode(codec, Whole(percent)))) = decode(codec, Whole(percent))
      <4>1. CASE codec.warmest < codec.coolest
        BY <3>1, <3>3, <4>1, TemperatureIsStable
      <4>2. CASE codec.warmest = codec.coolest
        BY <3>1, <3>3, <4>2, NoSpan
      <4> QED BY <3>3, <4>1, <4>2
    <3> QED BY <2>1, <3>1, <3>2, <3>4
  <2>3. CASE sent.kind # "color_temp_pct"
    <3> PICK kind : kind = sent.kind
      OBVIOUS
    <3>1. kind \in {"bool01", "int", "float", "percent_int", "percent_inverted"}
      BY <1>5, <2>3 DEF NumberKinds
    <3>2. codec.kind = kind /\ binding.codec.kind = kind
      BY <1>2, <1>3, <1>5
    <3>3. raw = encode(codec, value)
      BY <3>1, <3>2, SameKind
    <3>4. PICK form, t : t \in Int /\ given = <<form, t>>
      BY DEF RawValues
    <3>5. decode(codec, encode(codec, decode(codec, <<form, t>>))) = decode(codec, <<form, t>>)
      BY <1>4, <3>1, <3>2, <3>4, ShownIsStable
    <3> QED BY <1>4, <2>1, <3>3, <3>4, <3>5
  <2> QED BY <2>2, <2>3
<1>6. CASE /\ sent.kind = "enum" /\ seen.kind = "enum" /\ seen.default \in Values
           /\ \A word \in DOMAIN sent.values :
                decode(seen, IF sent.values[word] \in DOMAIN to THEN to[sent.values[word]]
                             ELSE sent.values[word]) = Str(word)
  <2>1. codec = seen /\ binding.codec = sent
    BY <1>2, <1>3, <1>6
  <2> PICK word : word = value[2]
    OBVIOUS
  <2>2. value[1] = "str" /\ word \in DOMAIN sent.values /\ raw = sent.values[word]
    BY <1>6, <2>1 DEF encode
  <2>3. value = Str(word)
    <3>1. value \in Values \/ \E text : value = Str(text)
      BY <1>4, <1>6, <2>1 DEF decode
    <3> QED BY <2>2, <3>1 DEF Values, Str, None
  <2>4. Shown(binding.path, raw) = IF sent.values[word] \in DOMAIN to THEN to[sent.values[word]]
                                   ELSE sent.values[word]
    BY <1>1, <2>2
  <2> QED BY <1>6, <2>1, <2>2, <2>3, <2>4
<1> QED BY <1>5, <1>6 DEF Paired, Answers

LEMMA ResentIs ==
    ASSUME NEW spec, NEW attribute, NEW shape, NEW binding, NEW codec,
           Paired(spec, attribute, shape, binding, codec),
           NEW value, IsShown(codec, value), value # None, OnScale(codec, value),
           validate(binding.range, value) = value
    PROVE  Resent(binding, codec, value) \subseteq {value}
<1> PICK raw : raw = IF value = Rejected THEN Rejected ELSE encode(binding.codec, value)
  OBVIOUS
<1>1. Resent(binding, codec, value) = {decode(codec, Shown(binding.path, raw)) : x \in {raw} \ {Rejected}}
  BY DEF Resent
<1>2. CASE raw = Rejected
  BY <1>1, <1>2
<1>3. CASE raw # Rejected
  <2>1. raw = encode(binding.codec, value)
    BY <1>3
  <2>2. decode(codec, Shown(binding.path, raw)) = value
    BY <1>3, <2>1, ComesBack
  <2> QED BY <1>1, <2>2
<1> QED BY <1>2, <1>3

----------------------------------------------------------------------------
(* What the store holds: what a reading shows, or what a command told.     *)

\* The writes under way.
Carries(w) ==
    /\ \E S : w \in Seq(S)
    /\ \A n \in DOMAIN w : w[n][2] \in RawValues
UnderWay(w, path) == \E n \in DOMAIN w : w[n][1] = path

\* A command has told it, whose answer is yet to come or never does.
Awaited(w, i, a) ==
    \E key \in DOMAIN model.egress :
        /\ key[1] = i /\ model.egress[key].optimistic = a
        /\ OutputOf(model.egress[key].path) = 0 \/ UnderWay(w, model.egress[key].path)
ShownOrAwaited(values, w) ==
    \A i \in DOMAIN model.entities : \A a \in DOMAIN model.entities[i].names :
        IsShown(model.entities[i].codecs[a], values[i][a]) \/ Awaited(w, i, a)

\* The tables are made of a configuration, and of this one unless the bridge is deaf.
MadeOf == \E cfg : Installed(cfg) /\ Wired(model, cfg) /\ (~deaf => cfg = config)

Rest ==
    /\ Installed(config) /\ Readable(config, readings)
    /\ Carries(wire)
    /\ MadeOf
    /\ ~deaf => ShownOrAwaited(store, wire)

LEMMA AppendCarries ==
    ASSUME NEW w, Carries(w), NEW path, NEW raw \in RawValues
    PROVE  LET more == Append(w, <<path, raw>>)
           IN  /\ Carries(more) /\ UnderWay(more, path)
               /\ \A p : UnderWay(w, p) => UnderWay(more, p)
<1> PICK write, more : write = <<path, raw>> /\ more = Append(w, write)
  OBVIOUS
<1>1. PICK S : w \in Seq(S)
  BY DEF Carries
<1> PICK T : T = S \cup {write}
  OBVIOUS
<1>2. w \in Seq(T) /\ write \in T
  <2>1. S \subseteq T
    OBVIOUS
  <2> QED BY <1>1, <2>1, SeqMonotonic
<1>3. Len(w) \in Nat /\ DOMAIN w = 1..Len(w)
  BY <1>1, LenProperties
<1>4. /\ more \in Seq(T) /\ DOMAIN more = 1..(Len(w) + 1)
      /\ more[Len(w) + 1] = write
      /\ \A n \in 1..Len(w) : more[n] = w[n]
  BY <1>2, <1>3, AppendProperties
<1>5. Carries(more)
  BY <1>3, <1>4 DEF Carries
<1>6. UnderWay(more, path)
  BY <1>3, <1>4 DEF UnderWay
<1>7. \A p : UnderWay(w, p) => UnderWay(more, p)
  BY <1>3, <1>4 DEF UnderWay
<1> QED BY <1>5, <1>6, <1>7

\* Without one write, those to other inputs are still under way.
LEMMA RemoveCarries ==
    ASSUME NEW w, Carries(w), NEW n \in DOMAIN w
    PROVE  /\ Carries(RemoveAt(w, n))
           /\ \A p : UnderWay(w, p) /\ p # w[n][1] => UnderWay(RemoveAt(w, n), p)
<1>1. PICK S : w \in Seq(S)
  BY DEF Carries
<1>0. PICK before, after, rest :
        before = SubSeq(w, 1, n - 1) /\ after = SubSeq(w, n + 1, Len(w)) /\ rest = RemoveAt(w, n)
  OBVIOUS
<1>2. Len(w) \in Nat /\ DOMAIN w = 1..Len(w) /\ n \in 1..Len(w) /\ \A j \in 1..Len(w) : w[j] \in S
  BY <1>1, LenProperties, ElementOfSeq
<1> PICK size : size = Len(w)
  OBVIOUS
<1>3. before \in Seq(S) /\ Len(before) = n - 1 /\ \A j \in 1..(n - 1) : before[j] = w[j]
  <2> PICK last : last = n - 1
    OBVIOUS
  <2>1. 1 \in Int /\ last \in Int /\ \A j \in 1..last : w[j] \in S
    BY <1>2
  <2>2. /\ before \in Seq(S) /\ Len(before) = IF 1 <= last THEN last - 1 + 1 ELSE 0
        /\ \A j \in 1..(last - 1 + 1) : before[j] = w[1 + j - 1]
    BY <1>0, <2>1, SubSeqProperties
  <2> QED BY <1>2, <2>2
<1>4. after \in Seq(S) /\ Len(after) = Len(w) - n /\ \A j \in 1..(Len(w) - n) : after[j] = w[n + j]
  <2> PICK first : first = n + 1
    OBVIOUS
  <2>1. first \in Int /\ size \in Int /\ \A j \in first..size : w[j] \in S
    BY <1>2
  <2>2. /\ after \in Seq(S) /\ Len(after) = IF first <= size THEN size - first + 1 ELSE 0
        /\ \A j \in 1..(size - first + 1) : after[j] = w[first + j - 1]
    BY <1>0, <2>1, SubSeqProperties
  <2>3. n \in Int /\ n <= size
    BY <1>2
  <2>4. Len(after) = size - n /\ size - first + 1 = size - n
    BY <2>1, <2>2, <2>3
  <2>5. ASSUME NEW j \in 1..(size - n) PROVE after[j] = w[n + j]
    <3>1. first + j - 1 = n + j
      BY <2>3
    <3> QED BY <2>2, <2>4, <3>1
  <2> QED BY <2>2, <2>4, <2>5
<1>5. rest = before \o after
  BY <1>0 DEF RemoveAt
<1>6. /\ rest \in Seq(S) /\ Len(rest) = Len(before) + Len(after)
      /\ \A j \in 1..(Len(before) + Len(after)) :
            rest[j] = IF j <= Len(before) THEN before[j] ELSE after[j - Len(before)]
  BY <1>3, <1>4, <1>5, ConcatProperties
<1>7. DOMAIN rest = 1..(Len(w) - 1)
  <2>1. DOMAIN rest = 1..Len(rest)
    BY <1>6, LenProperties
  <2>2. Len(rest) = Len(w) - 1
    BY <1>2, <1>3, <1>4, <1>6
  <2> QED BY <2>1, <2>2
<1>8. ASSUME NEW j \in 1..(Len(w) - 1) PROVE rest[j] = IF j < n THEN w[j] ELSE w[j + 1]
  <2>1. rest[j] = IF j <= n - 1 THEN before[j] ELSE after[j - (n - 1)]
    BY <1>2, <1>3, <1>4, <1>6, <1>8
  <2>2. CASE j < n
    <3>1. j \in 1..(n - 1)
      BY <1>2, <2>2
    <3> QED BY <1>2, <1>3, <2>1, <2>2, <3>1
  <2>3. CASE ~(j < n)
    <3>1. j - (n - 1) \in 1..(Len(w) - n) /\ n + (j - (n - 1)) = j + 1 /\ ~(j <= n - 1)
      BY <1>2, <2>3
    <3>2. after[j - (n - 1)] = w[n + (j - (n - 1))]
      BY <1>4, <3>1
    <3> QED BY <2>1, <2>3, <3>1, <3>2
  <2> QED BY <2>2, <2>3
<1>9. ASSUME NEW j \in DOMAIN rest PROVE rest[j][2] \in RawValues
  <2>1. j \in DOMAIN w /\ j + 1 \in DOMAIN w
    BY <1>2, <1>7
  <2>2. w[j][2] \in RawValues /\ w[j + 1][2] \in RawValues
    BY <2>1 DEF Carries
  <2> QED BY <1>7, <1>8, <2>2
<1>10. ASSUME NEW p, UnderWay(w, p), p # w[n][1] PROVE UnderWay(rest, p)
  <2>1. PICK m \in 1..Len(w) : w[m][1] = p
    BY <1>2, <1>10 DEF UnderWay
  <2>2. m # n
    BY <1>10, <2>1
  <2>3. CASE m < n
    <3>1. m \in 1..(Len(w) - 1) /\ rest[m] = w[m]
      BY <1>2, <1>8, <2>3
    <3> QED BY <1>7, <2>1, <3>1 DEF UnderWay
  <2>4. CASE m > n
    <3>1. m - 1 \in 1..(Len(w) - 1) /\ ~(m - 1 < n) /\ (m - 1) + 1 = m
      BY <1>2, <2>4
    <3>2. rest[m - 1] = w[m]
      BY <1>8, <3>1
    <3> QED BY <1>7, <2>1, <3>1, <3>2 DEF UnderWay
  <2>5. m < n \/ m > n
    BY <1>2, <2>2
  <2> QED BY <2>3, <2>4, <2>5
<1>11. Carries(rest)
  BY <1>6, <1>9 DEF Carries
<1> QED BY <1>0, <1>10, <1>11

\* A command of a value that a client may send writes such values.
OfValues(writes) == \A n \in DOMAIN writes : writes[n][2] \in Values

LEMMA FewOfValues ==
    ASSUME NEW a, NEW b, NEW c, NEW u \in Values, NEW v \in Values, NEW w \in Values
    PROVE  /\ OfValues(<<>>) /\ OfValues(<<<<a, u>>>>) /\ OfValues(<<<<a, u>>, <<b, v>>>>)
           /\ OfValues(<<<<a, u>>, <<b, v>>, <<c, w>>>>)
BY DEF OfValues

LEMMA WritesOfValues ==
    ASSUME NEW i, NEW name, NEW value \in Values
    PROVE  OfValues(resolve_writes(i, name, value))
<1> PICK transform : transform = Profiles[model.entities[i].profile].transform
  OBVIOUS
<1> PICK writes : writes = subWrites(transform, name, value)
  OBVIOUS
<1>0. Bool(TRUE) \in Values /\ Bool(FALSE) \in Values /\ Num(0) \in Values
  <2>1. TRUE \in BOOLEAN /\ FALSE \in BOOLEAN
    OBVIOUS
  <2>2. \A b \in BOOLEAN : <<"bool", b>> \in {"bool"} \X BOOLEAN
    OBVIOUS
  <2>3. Bool(TRUE) \in {"bool"} \X BOOLEAN /\ Bool(FALSE) \in {"bool"} \X BOOLEAN
    BY <2>1, <2>2, Zenon DEF Bool
  <2>4. Num(0) \in Values
    BY DEF Num, Values
  <2> QED BY <2>3, <2>4 DEF Values
<1>1. resolve_writes(i, name, value) = IF writes = Unclaimed THEN <<<<name, value>>>> ELSE writes
  BY DEF resolve_writes
<1>2. OfValues(writes)
  <2>1. CASE transform = "cover_with_slats" /\ name = "position"
    <3>1. writes = <<<<"position", value>>>> \o (IF value = FullyOpen THEN <<<<"slat_position", Num(0)>>>> ELSE <<>>)
      BY <2>1 DEF subWrites
    <3>2. writes \in {<<<<"position", value>>>>, <<<<"position", value>>, <<"slat_position", Num(0)>>>>}
      <4>1. CASE value = FullyOpen
        BY <3>1, <4>1, PairIs
      <4>2. CASE value # FullyOpen
        BY <3>1, <4>2, PairIs
      <4> QED BY <4>1, <4>2
    <3> QED BY <1>0, <3>2, FewOfValues
  <2>2. CASE transform = "cover_with_slats" /\ name = "stop"
    <3>1. writes = <<<<"stop", Bool(TRUE)>>>>
      BY <2>2 DEF subWrites
    <3> QED BY <1>0, <3>1, FewOfValues
  <2>3. CASE transform = "room_temperature_controller" /\ name = "hvac_mode"
    <3>1. \/ writes = <<>>
          \/ writes = <<<<"on_off", Bool(FALSE)>>>>
          \/ writes = <<<<"on_off", Bool(TRUE)>>, <<"eco", Bool(TRUE)>>>>
          \/ writes = <<<<"on_off", Bool(TRUE)>>, <<"eco", Bool(FALSE)>>, <<"mode", value>>>>
      <4>1. CASE value = Str("off")
        BY <2>3, <4>1 DEF subWrites, Str
      <4>2. CASE value # Str("off") /\ value = Str("eco")
        BY <2>3, <4>2 DEF subWrites, Str
      <4>3. CASE value \notin {Str("off"), Str("eco")} /\ value \in {Str("heating"), Str("cooling")}
        BY <2>3, <4>3 DEF subWrites
      <4>4. CASE value \notin {Str("off"), Str("eco"), Str("heating"), Str("cooling")}
        BY <2>3, <4>4 DEF subWrites, Unclaimed
      <4> QED BY <4>1, <4>2, <4>3, <4>4
    <3> QED BY <1>0, <3>1, FewOfValues
  <2>4. CASE /\ ~(transform = "cover_with_slats" /\ name \in {"position", "stop"})
             /\ ~(transform = "room_temperature_controller" /\ name = "hvac_mode")
    <3>1. writes = <<>>
      BY <2>4 DEF subWrites, Unclaimed
    <3> QED BY <1>0, <3>1, FewOfValues
  <2> QED BY <2>1, <2>2, <2>3, <2>4
<1>3. OfValues(<<<<name, value>>>>)
  BY FewOfValues
<1> QED BY <1>1, <1>2, <1>3

\* One write: what it tells is awaited, what was awaited still is.
RestOf(so) ==
    /\ Fits(so.store, model) /\ Carries(so.wire)
    /\ ~deaf => ShownOrAwaited(so.store, so.wire)

LEMMA ApplyRests ==
    ASSUME DevicesAnswer, MadeOf, NEW so, RestOf(so),
           NEW i, NEW write, write[2] \in Values,
           NEW done, done = Apply(so, i, write)
    PROVE  RestOf(done)
<1>1. Fits(done.store, model)
  BY ApplyFits DEF RestOf
<1> PICK key, binding : key = <<i, write[1]>> /\ binding = model.egress[<<i, write[1]>>]
  OBVIOUS
<1> PICK valid : valid = validate(binding.range, write[2])
  OBVIOUS
<1> PICK raw : raw = IF valid = Rejected THEN Rejected ELSE encode(binding.codec, valid)
  OBVIOUS
<1> PICK path, a : path = binding.path /\ a = binding.optimistic
  OBVIOUS
<1>2. done = IF so.ok /\ key \in DOMAIN model.egress /\ raw # Rejected
             THEN [ok    |-> TRUE,
                   wire  |-> Append(so.wire, <<path, raw>>),
                   store |-> IF a = 0 THEN so.store
                             ELSE [so.store EXCEPT ![i][a] = valid]]
             ELSE [ok |-> FALSE, wire |-> so.wire, store |-> so.store]
  BY DEF Apply
<1>3. CASE ~(so.ok /\ key \in DOMAIN model.egress /\ raw # Rejected)
  <2>1. done.wire = so.wire /\ done.store = so.store
    BY <1>2, <1>3
  <2> QED BY <1>1, <2>1 DEF RestOf
<1>4. CASE so.ok /\ key \in DOMAIN model.egress /\ raw # Rejected
  <2>1. done.wire = Append(so.wire, <<path, raw>>)
        /\ done.store = IF a = 0 THEN so.store ELSE [so.store EXCEPT ![i][a] = valid]
    BY <1>2, <1>4
  <2>2. raw \in RawValues
    <3>1. valid # Rejected /\ raw = encode(model.egress[key].codec, valid)
          /\ valid = validate(model.egress[key].range, write[2])
      BY <1>4
    <3>2. PICK cfg : Installed(cfg) /\ Wired(model, cfg)
      BY DEF MadeOf
    <3>3. encode(model.egress[key].codec, valid) \in RawValues \cup {Rejected}
      <4> PICK value \in Values : value = write[2]
        OBVIOUS
      <4> QED BY <1>4, <3>1, <3>2, BindingWrites
    <3> QED BY <1>4, <3>1, <3>3
  <2>3. /\ Carries(done.wire) /\ UnderWay(done.wire, path)
        /\ \A p : UnderWay(so.wire, p) => UnderWay(done.wire, p)
    <3>1. Carries(so.wire)
      BY DEF RestOf
    <3> PICK w : w = so.wire
      OBVIOUS
    <3> QED BY <2>1, <2>2, <3>1, AppendCarries
  <2>4. \A j, b : Awaited(so.wire, j, b) => Awaited(done.wire, j, b)
    BY <2>3 DEF Awaited
  <2>5. Awaited(done.wire, i, a)
    <3>1. key[1] = i /\ model.egress[key].optimistic = a /\ model.egress[key].path = path
      OBVIOUS
    <3> QED BY <1>4, <2>3, <3>1 DEF Awaited
  <2>6. ASSUME ~deaf, NEW j \in DOMAIN model.entities, NEW b \in DOMAIN model.entities[j].names
        PROVE  IsShown(model.entities[j].codecs[b], done.store[j][b]) \/ Awaited(done.wire, j, b)
    <3>1. IsShown(model.entities[j].codecs[b], so.store[j][b]) \/ Awaited(so.wire, j, b)
      BY <2>6 DEF RestOf, ShownOrAwaited
    <3>2. CASE j = i /\ b = a
      BY <2>5, <3>2
    <3>3. CASE ~(j = i /\ b = a)
      <4>1. done.store[j][b] = so.store[j][b]
        <5>1. j \in DOMAIN so.store /\ b \in DOMAIN so.store[j]
          BY DEF RestOf, Fits
        <5>2. [so.store EXCEPT ![i][a] = valid][j][b] = so.store[j][b]
          BY <3>3, <5>1
        <5> QED BY <2>1, <5>2
      <4> QED BY <2>4, <3>1, <4>1
    <3> QED BY <3>2, <3>3
  <2> QED BY <1>1, <2>3, <2>6 DEF RestOf, ShownOrAwaited
<1> QED BY <1>3, <1>4

LEMMA CommandRests ==
    ASSUME DevicesAnswer, MadeOf, RestOf([ok |-> TRUE, wire |-> wire, store |-> store]),
           NEW i, NEW name, NEW value \in Values
    PROVE  RestOf(apply_command(i, name, value))
<1> DEFINE writes == resolve_writes(i, name, value)
           N == Len(writes)
<1>1. N \in Nat /\ DOMAIN writes = 1..N
  BY WritesNumbered
<1>2. apply_command(i, name, value) = (CHOOSE f : IsWritten(f, i, writes, N))[N]
  BY DEF apply_command, IsWritten
<1>3. \A n \in 1..N : writes[n][2] \in Values
  BY <1>1, WritesOfValues DEF OfValues
<1> HIDE DEF writes, N
<1>4. PICK f : IsWritten(f, i, writes, N) /\ apply_command(i, name, value) = f[N]
  BY <1>1, <1>2, WrittenExists
<1> DEFINE T == {n \in 0..N : RestOf(f[n])}
<1>5. 0 \in T
  <2>1. f[0] = [ok |-> TRUE, wire |-> wire, store |-> store]
    BY <1>1, <1>4 DEF IsWritten
  <2> QED BY <1>1, <2>1
<1>6. ASSUME NEW n \in 1..N, n - 1 \in T PROVE n \in T
  <2>1. n \in 0..N /\ n # 0
    BY <1>1
  <2>2. f[n] = Apply(f[n - 1], i, writes[n])
    BY <1>4, <2>1, Zenon DEF IsWritten
  <2>3. RestOf(f[n - 1]) /\ writes[n][2] \in Values
    BY <1>3, <1>6
  <2>4. RestOf(f[n])
    <3> PICK so, write, done : so = f[n - 1] /\ write = writes[n] /\ done = f[n]
      OBVIOUS
    <3>1. RestOf(so) /\ write[2] \in Values /\ done = Apply(so, i, write)
      BY <2>2, <2>3
    <3> QED BY <3>1, ApplyRests
  <2> QED BY <2>1, <2>4
<1> HIDE DEF T
<1>7. N \in T
  BY <1>1, <1>5, <1>6, Upwards
<1> QED BY <1>4, <1>7 DEF T

\* A reading that arrives is shown, by the attribute that hears it.
LEMMA ProcessShows ==
    ASSUME Fits(store, model), ~deaf, NEW channel, NEW key, NEW raw \in RawValues,
           NEW values, values = Process(channel, key, raw),
           NEW j \in DOMAIN model.entities, NEW b \in DOMAIN model.entities[j].names
    PROVE  /\ values[j][b] = store[j][b] \/ IsShown(model.entities[j].codecs[b], values[j][b])
           /\ <<channel, key>> \in DOMAIN model.ingress /\ model.entities[j].kinds[b] = "state"
              /\ model.ingress[<<channel, key>>] = [entity |-> j, attr |-> b] =>
                    IsShown(model.entities[j].codecs[b], values[j][b])
<1> PICK i, a : i = model.ingress[<<channel, key>>].entity /\ a = model.ingress[<<channel, key>>].attr
  OBVIOUS
<1> PICK value : value = decode(model.entities[i].codecs[a], raw)
  OBVIOUS
<1>1. j \in DOMAIN store /\ b \in DOMAIN store[j]
  BY DEF Fits
<1>2. values = IF \/ <<channel, key>> \notin DOMAIN model.ingress
                     \/ model.entities[i].kinds[a] = "event"
               THEN store ELSE [store EXCEPT ![i][a] = value]
  BY DEF Process
<1>3. [store EXCEPT ![i][a] = value][j][b] = IF j = i /\ b = a THEN value ELSE store[j][b]
  BY <1>1
<1>4. IsShown(model.entities[i].codecs[a], value)
  BY DEF IsShown
<1>5. [entity |-> j, attr |-> b].entity = j /\ [entity |-> j, attr |-> b].attr = b
  OBVIOUS
<1> QED BY <1>2, <1>3, <1>4, <1>5

LEMMA ReadAnew ==
    ASSUME Readable(config, readings), DOMAIN readings = DOMAIN config,
           NEW channel \in DOMAIN config, NEW key, NEW raw \in RawValues
    PROVE  Readable(config, [readings EXCEPT ![channel][key] = raw])
<1> PICK raws : raws = [readings EXCEPT ![channel][key] = raw]
  OBVIOUS
<1>1. ASSUME NEW c \in DOMAIN config
      PROVE  /\ DOMAIN raws[c] = DOMAIN config[c].outputs
             /\ \A k \in DOMAIN raws[c] : raws[c][k] \in RawValues
  <2>1. DOMAIN readings[c] = DOMAIN config[c].outputs /\ \A k \in DOMAIN readings[c] : readings[c][k] \in RawValues
    BY DEF Readable
  <2>2. raws[c] = IF c = channel THEN [readings[c] EXCEPT ![key] = raw] ELSE readings[c]
    OBVIOUS
  <2>3. CASE c = channel
    <3> PICK old, new : old = readings[c] /\ new = raws[c]
      OBVIOUS
    <3>1. DOMAIN new = DOMAIN old /\ \A k \in DOMAIN new : new[k] \in {raw, old[k]}
      BY <2>2, <2>3
    <3> QED BY <2>1, <3>1
  <2>4. CASE c # channel
    BY <2>1, <2>2, <2>4
  <2> QED BY <2>3, <2>4
<1> QED BY <1>1 DEF Readable

LEMMA ReportRests ==
    ASSUME IInv, Rest, NEW channel \in DOMAIN config, NEW report \in Stray,
           Report(channel, report[1], report[2])
    PROVE  Readable(config, readings') /\ (~deaf => ShownOrAwaited(store', wire))
<1> PICK raw, key : raw = report[2] /\ key = find_datapoint(config[channel].outputs, report[1])
  OBVIOUS
<1>1. raw \in RawValues
  BY ValuesAssumption
<1>2. readings' = [readings EXCEPT ![channel][key] = raw] /\ store' = Process(channel, key, raw)
  BY DEF Report
<1>3. Readable(config, readings')
  BY <1>1, <1>2, ReadAnew DEF IInv, Rest
<1>4. ASSUME ~deaf PROVE ShownOrAwaited(store', wire)
  <2>1. Fits(store, model) /\ ShownOrAwaited(store, wire)
    BY <1>4 DEF IInv, Rest
  <2>2. \A j \in DOMAIN model.entities : \A b \in DOMAIN model.entities[j].names :
            store'[j][b] = store[j][b] \/ IsShown(model.entities[j].codecs[b], store'[j][b])
    <3> PICK values : values = store'
      OBVIOUS
    <3>1. values = Process(channel, key, raw)
      BY <1>2
    <3> QED BY <1>1, <1>4, <2>1, <3>1, ProcessShows
  <2> QED BY <2>1, <2>2 DEF ShownOrAwaited
<1> QED BY <1>3, <1>4

\* The answer of the device is heard by the attribute that awaits it.
LEMMA DeliverRests ==
    ASSUME DevicesAnswer, IInv, Rest, NEW n \in DOMAIN wire, Deliver(n)
    PROVE  /\ Readable(config, readings') /\ Carries(wire')
           /\ ~deaf => ShownOrAwaited(store', wire')
<1> PICK path, key, raw : path = wire[n][1] /\ key = OutputOf(path) /\ raw = wire[n][2]
  OBVIOUS
<1> PICK w : w = RemoveAt(wire, n)
  OBVIOUS
<1>1. wire' = w
  BY DEF Deliver
<1>2. /\ key = 0 => readings' = readings /\ store' = store
      /\ key # 0 => /\ readings' = [readings EXCEPT ![path[1]][key] = Shown(path, raw)]
                    /\ store' = Process(path[1], key, Shown(path, raw))
  BY DEF Deliver
<1>3. Carries(w) /\ \A p : UnderWay(wire, p) /\ p # path => UnderWay(w, p)
  <2> PICK old : old = wire
    OBVIOUS
  <2>1. Carries(old)
    BY DEF Rest
  <2> QED BY <2>1, RemoveCarries
<1>4. ASSUME key # 0 PROVE path[1] \in DOMAIN config /\ Shown(path, raw) \in RawValues
  <2>1. path[1] \in DOMAIN config /\ Input(path) \in DOMAIN Response
    BY <1>4 DEF OutputOf
  <2>2. raw \in RawValues
    BY DEF Rest, Carries
  <2> QED BY <2>1, <2>2, ValuesAssumption DEF Shown
<1>5. Readable(config, readings')
  <2>1. CASE key = 0
    BY <1>2, <2>1 DEF Rest
  <2>2. CASE key # 0
    <3> PICK channel, told : channel = path[1] /\ told = Shown(path, raw)
      OBVIOUS
    <3>1. channel \in DOMAIN config /\ told \in RawValues /\ readings' = [readings EXCEPT ![channel][key] = told]
      BY <1>2, <1>4, <2>2
    <3> QED BY <3>1, ReadAnew DEF IInv, Rest
  <2> QED BY <2>1, <2>2
<1>6. ASSUME ~deaf, NEW j \in DOMAIN model.entities, NEW b \in DOMAIN model.entities[j].names
      PROVE  IsShown(model.entities[j].codecs[b], store'[j][b]) \/ Awaited(w, j, b)
  <2>1. /\ Fits(store, model)
        /\ IsShown(model.entities[j].codecs[b], store[j][b]) \/ Awaited(wire, j, b)
    BY <1>6 DEF IInv, Rest, ShownOrAwaited
  <2>2. \/ store'[j][b] = store[j][b]
        \/ IsShown(model.entities[j].codecs[b], store'[j][b])
    <3>1. CASE key = 0
      BY <1>2, <3>1
    <3>2. CASE key # 0
      <4> PICK values, channel, told : values = store' /\ channel = path[1] /\ told = Shown(path, raw)
        OBVIOUS
      <4>1. values = Process(channel, key, told) /\ told \in RawValues
        BY <1>2, <1>4, <3>2
      <4> QED BY <1>6, <2>1, <4>1, ProcessShows
    <3> QED BY <3>1, <3>2
  <2>3. ASSUME Awaited(wire, j, b), ~Awaited(w, j, b)
        PROVE  IsShown(model.entities[j].codecs[b], store'[j][b])
    <3>1. PICK k \in DOMAIN model.egress :
            /\ k[1] = j /\ model.egress[k].optimistic = b
            /\ OutputOf(model.egress[k].path) = 0 \/ UnderWay(wire, model.egress[k].path)
      BY <2>3 DEF Awaited
    <3>2. ~(OutputOf(model.egress[k].path) = 0 \/ UnderWay(w, model.egress[k].path))
      BY <2>3, <3>1 DEF Awaited
    <3>3. model.egress[k].path = path /\ key # 0
      BY <1>3, <3>1, <3>2
    <3>4. Wired(model, config) /\ Installed(config)
      BY <1>6 DEF Rest, MadeOf
    <3> PICK name : name = k[2]
      OBVIOUS
    <3>5. k = <<j, name>> /\ \E spec : Specified(model, config, j, name, spec)
      BY <3>1, <3>4, EgressTaken
    <3>6. PICK spec : Specified(model, config, j, name, spec)
      BY <3>5
    <3>7. b # 0
      <4>1. DOMAIN model.entities[j].names = 1..Len(model.entities[j].names)
            /\ Len(model.entities[j].names) \in Nat
        BY <3>4, ListsAre
      <4> QED BY <4>1
    <3>8. /\ <<path[1], key>> = KeyOf(model, config, j, b) /\ b \in DOMAIN AttrsOf(model, config, j)
          /\ model.entities[j].kinds[b] = "state"
      <4>1. path = model.egress[<<j, name>>].path /\ b = model.egress[<<j, name>>].optimistic
            /\ OutputOf(path) # 0
        BY <3>1, <3>3, <3>5
      <4> QED BY <3>4, <3>6, <3>7, <4>1, AnsweredIn
    <3>9. /\ <<path[1], key>> \in DOMAIN model.ingress
          /\ model.ingress[<<path[1], key>>] = [entity |-> j, attr |-> b]
      BY <3>4, <3>8, AttributeHeard
    <3> PICK values : values = store'
      OBVIOUS
    <3>10. values = Process(path[1], key, Shown(path, raw)) /\ Shown(path, raw) \in RawValues
      BY <1>2, <1>4, <3>3
    <3> QED BY <1>6, <2>1, <3>8, <3>9, <3>10, ProcessShows
  <2> QED BY <2>1, <2>2, <2>3
<1> QED BY <1>1, <1>3, <1>5, <1>6 DEF ShownOrAwaited

LEMMA FreshReads ==
    ASSUME NEW channel \in Channels, NEW shape \in Shapes[channel]
    PROVE  /\ DOMAIN Fresh(shape) = DOMAIN shape.outputs
           /\ \A key \in DOMAIN Fresh(shape) : Fresh(shape)[key] \in RawValues
<1>1. shape.outputs \in Seq(DOMAIN FirstReading)
  BY ShapesAssumption
<1>2. \A key \in DOMAIN shape.outputs : shape.outputs[key] \in DOMAIN FirstReading
  BY <1>1, LenProperties, ElementOfSeq
<1> QED BY <1>2, ValuesAssumption DEF Fresh

LEMMA MadeRests ==
    ASSUME NEW cfg, NEW m, NEW raws, Wired(m, cfg), Installed(cfg), Readable(cfg, raws)
    PROVE  \A i \in DOMAIN m.entities : \A a \in DOMAIN m.entities[i].names :
                IsShown(m.entities[i].codecs[a], Seed(m, raws)[i][a])
BY SeedShows

LEMMA ResyncRests ==
    ASSUME Rest, Installed(config'), Readable(config', readings'), Resync, wire' = wire
    PROVE  Rest'
<1>1. PICK new : /\ new = compile_and_build_discovery(config', aliases', excluded')
                 /\ IF new.ok
                    THEN model' = new /\ store' = Seed(new, readings') /\ deaf' = FALSE
                    ELSE deaf' = TRUE /\ model' = model
  BY DEF Resync
<1>2. CASE new.ok
  <2>1. Wired(new, config')
    BY <1>1, <1>2, AnnouncedIsWired
  <2>2. \A i \in DOMAIN new.entities : \A a \in DOMAIN new.entities[i].names :
            IsShown(new.entities[i].codecs[a], Seed(new, readings')[i][a])
    <3> PICK cfg, raws : cfg = config' /\ raws = readings'
      OBVIOUS
    <3> QED BY <2>1, MadeRests
  <2>3. ShownOrAwaited(store, wire)'
    BY <1>1, <1>2, <2>2 DEF ShownOrAwaited
  <2>4. MadeOf'
    BY <1>1, <1>2, <2>1 DEF MadeOf
  <2>5. Carries(wire')
    BY DEF Rest
  <2> QED BY <2>3, <2>4, <2>5 DEF Rest
<1>3. CASE ~new.ok
  <2>1. MadeOf'
    BY <1>1, <1>3 DEF MadeOf, Rest
  <2>2. Carries(wire')
    BY DEF Rest
  <2> QED BY <1>1, <1>3, <2>1, <2>2 DEF Rest
<1> QED BY <1>2, <1>3

LEMMA InitRests == Init => Rest
<1> SUFFICES ASSUME Init PROVE Rest
  OBVIOUS
<1>1. config = Start /\ readings = [channel \in DOMAIN Start |-> Fresh(Start[channel])]
      /\ wire = <<>> /\ store = Seed(model, readings)
  BY DEF Init
<1>2. model = compile_and_build_discovery(Start, <<>>, {}) /\ model.ok
  BY StartAssumption DEF Init
<1>3. Wired(model, config)
  BY <1>1, <1>2, AnnouncedIsWired
<1>4. Installed(config)
  BY <1>1, StartAssumption DEF Installed
<1>5. Readable(config, readings)
  <2>1. ASSUME NEW channel \in DOMAIN config
        PROVE  /\ DOMAIN readings[channel] = DOMAIN config[channel].outputs
               /\ \A key \in DOMAIN readings[channel] : readings[channel][key] \in RawValues
    <3>1. channel \in Channels /\ config[channel] \in Shapes[channel]
      BY <1>4 DEF Installed
    <3>2. readings[channel] = Fresh(config[channel])
      BY <1>1
    <3> QED BY <3>1, <3>2, FreshReads
  <2> QED BY <2>1 DEF Readable
<1>6. Carries(wire)
  <2>1. <<>> \in Seq({}) /\ DOMAIN <<>> = {}
    OBVIOUS
  <2> QED BY <1>1, <2>1 DEF Carries
<1>7. ShownOrAwaited(store, wire)
  BY <1>1, <1>3, <1>4, <1>5, MadeRests DEF ShownOrAwaited
<1>8. MadeOf
  BY <1>3, <1>4 DEF MadeOf
<1> QED BY <1>4, <1>5, <1>6, <1>7, <1>8 DEF Rest

LEMMA SteadyRests ==
    ASSUME Rest, UNCHANGED <<config, model, deaf>>,
           Readable(config, readings'), Carries(wire'), ~deaf => ShownOrAwaited(store', wire')
    PROVE  Rest'
<1>1. \A path : OutputOf(path)' = OutputOf(path)
  BY DEF OutputOf, Input
<1>2. MadeOf'
  BY DEF Rest, MadeOf
<1>3. ~deaf => ShownOrAwaited(store, wire)'
  BY <1>1 DEF ShownOrAwaited, Awaited
<1> QED BY <1>2, <1>3 DEF Rest

LEMMA StepRests ==
    ASSUME DevicesAnswer
    PROVE  IInv /\ Rest /\ [Next]_vars => Rest'
<1> SUFFICES ASSUME IInv, Rest, [Next]_vars PROVE Rest'
  OBVIOUS
<1>1. /\ Installed(config) /\ Readable(config, readings) /\ DOMAIN readings = DOMAIN config
      /\ Carries(wire) /\ MadeOf /\ (~deaf => ShownOrAwaited(store, wire))
  BY DEF IInv, Rest
<1>2. ASSUME NEW channel \in Channels, NEW shape \in Shapes[channel], Install(channel, shape)
      PROVE  Rest'
  <2>1. config' = Put(config, channel, shape) /\ readings' = Put(readings, channel, Fresh(shape))
        /\ wire' = wire /\ Resync
    BY <1>2 DEF Install
  <2>2. Installed(config')
    BY <1>1, <2>1 DEF Installed, Put
  <2>3. Readable(config', readings')
    BY <1>1, <2>1, FreshReads DEF Readable, Put
  <2> QED BY <2>1, <2>2, <2>3, ResyncRests
<1>3. ASSUME NEW channel \in DOMAIN config, Uninstall(channel)
      PROVE  Rest'
  <2>1. config' = Restrict(config, DOMAIN config \ {channel}) /\ readings' = Restrict(readings, DOMAIN config')
        /\ wire' = wire /\ Resync
    BY <1>3 DEF Uninstall
  <2>2. Installed(config')
    BY <1>1, <2>1 DEF Installed, Restrict
  <2>3. Readable(config', readings')
    BY <1>1, <2>1 DEF Readable, Restrict
  <2> QED BY <2>1, <2>2, <2>3, ResyncRests
<1>4. ASSUME NEW channel \in DOMAIN config, Exclude(channel)
      PROVE  Rest'
  <2>1. config' = config /\ readings' = readings /\ wire' = wire /\ Resync
    BY <1>4 DEF Exclude
  <2> QED BY <1>1, <2>1, ResyncRests
<1>5. ASSUME NEW channel \in DOMAIN config, NEW name \in Names, Rename(channel, name)
      PROVE  Rest'
  <2>1. config' = config /\ readings' = readings /\ wire' = wire /\ Resync
    BY <1>5 DEF Rename
  <2> QED BY <1>1, <2>1, ResyncRests
<1>6. ASSUME NEW channel \in DOMAIN config, NEW report \in Stray, Report(channel, report[1], report[2])
      PROVE  Rest'
  <2>1. UNCHANGED <<config, model, deaf, wire>>
    BY <1>6 DEF Report
  <2>2. Readable(config, readings') /\ (~deaf => ShownOrAwaited(store', wire'))
    BY <1>6, <2>1, ReportRests
  <2> QED BY <1>1, <2>1, <2>2, SteadyRests
<1>7. ASSUME NEW channel \in DOMAIN config, NEW payload_ \in Payloads, Command(channel, payload_[1], payload_[2])
      PROVE  Rest'
  <2> PICK name, value : name = payload_[1] /\ value = payload_[2]
    OBVIOUS
  <2>1. value \in Values
    BY ValuesAssumption
  <2>2. UNCHANGED <<config, readings, model, deaf>>
    BY <1>7 DEF Command
  <2>3. PICK done : /\ wire' = done.wire /\ store' = done.store
                    /\ \/ done = [ok |-> TRUE, wire |-> wire, store |-> store]
                       \/ \E i : done = apply_command(i, name, value)
    BY <1>7 DEF Command
  <2>4. RestOf([ok |-> TRUE, wire |-> wire, store |-> store])
    BY <1>1 DEF RestOf, IInv
  <2>5. RestOf(done)
    BY <1>1, <2>1, <2>3, <2>4, CommandRests
  <2>6. Carries(wire') /\ (~deaf => ShownOrAwaited(store', wire'))
    BY <2>3, <2>5 DEF RestOf
  <2> QED BY <1>1, <2>2, <2>6, SteadyRests
<1>8. ASSUME NEW n \in DOMAIN wire, Deliver(n)
      PROVE  Rest'
  <2>1. UNCHANGED <<config, model, deaf>>
    BY <1>8 DEF Deliver
  <2> QED BY <1>8, <2>1, DeliverRests, SteadyRests
<1>9. CASE UNCHANGED vars
  <2>1. UNCHANGED <<config, readings, model, store, deaf, wire>>
    BY <1>9 DEF vars
  <2> QED BY <1>1, <2>1, SteadyRests
<1> QED BY <1>2, <1>3, <1>4, <1>5, <1>6, <1>7, <1>8, <1>9 DEF Next

\* At rest, what a command has told is answered: the store shows it.
LEMMA ShownAtRest ==
    ASSUME DevicesAnswer, Rest, wire = <<>>, ~deaf,
           NEW i \in DOMAIN model.entities, NEW name, NEW spec, Specified(model, config, i, name, spec),
           NEW path, path = model.egress[<<i, name>>].path, OutputOf(path) # 0,
           NEW a \in DOMAIN model.entities[i].names, a = model.egress[<<i, name>>].optimistic, a # 0
    PROVE  IsShown(model.entities[i].codecs[a], store[i][a])
<1>1. Wired(model, config) /\ Installed(config) /\ ShownOrAwaited(store, wire)
  BY DEF Rest, MadeOf
<1>2. \A p : ~UnderWay(wire, p)
  <2>1. DOMAIN <<>> = {}
    OBVIOUS
  <2> QED BY <2>1 DEF UnderWay
<1>3. ASSUME Awaited(wire, i, a) PROVE FALSE
  <2>1. PICK k \in DOMAIN model.egress :
            /\ k[1] = i /\ model.egress[k].optimistic = a
            /\ OutputOf(model.egress[k].path) = 0 \/ UnderWay(wire, model.egress[k].path)
    BY <1>3 DEF Awaited
  <2>2. PICK other : other = k[2]
    OBVIOUS
  <2>3. k = <<i, other>> /\ \E some : Specified(model, config, i, other, some)
    BY <1>1, <2>1, <2>2, EgressTaken
  <2>4. PICK some : Specified(model, config, i, other, some)
    BY <2>3
  <2>5. model.egress[<<i, name>>].optimistic = model.egress[<<i, other>>].optimistic
    BY <2>1, <2>3
  <2>6. name = other
    BY <1>1, <2>4, <2>5, MarkedByOne
  <2>7. model.egress[k].path = path
    BY <2>3, <2>6
  <2> QED BY <1>2, <2>1, <2>7
<1>4. IsShown(model.entities[i].codecs[a], store[i][a]) \/ Awaited(wire, i, a)
  BY <1>1 DEF ShownOrAwaited
<1> QED BY <1>3, <1>4

LEMMA PairedAtRest ==
    ASSUME DevicesAnswer, Rest, wire = <<>>, ~deaf,
           NEW i, NEW name, <<i, name>> \in DOMAIN model.egress,
           NEW binding, binding = model.egress[<<i, name>>],
           NEW a, a = binding.optimistic, a # 0, OutputOf(binding.path) # 0
    PROVE  /\ \E spec, attribute, shape : Paired(spec, attribute, shape, binding, model.entities[i].codecs[a])
           /\ IsShown(model.entities[i].codecs[a], store[i][a])
<1>1. Wired(model, config) /\ Installed(config)
  BY DEF Rest, MadeOf
<1>2. i \in DOMAIN model.entities /\ \E spec : Specified(model, config, i, name, spec)
  <2>1. PICK key : key = <<i, name>> /\ key \in DOMAIN model.egress /\ key[1] = i /\ key[2] = name
    OBVIOUS
  <2> QED BY <1>1, <2>1, EgressTaken
<1>3. PICK spec : Specified(model, config, i, name, spec)
  BY <1>2
<1>4. PICK path, channel, shape : path = binding.path /\ channel = path[1] /\ shape = config[channel]
  OBVIOUS
<1>5. path = model.egress[<<i, name>>].path /\ a = model.egress[<<i, name>>].optimistic /\ OutputOf(path) # 0
  BY <1>4
<1>6. /\ channel = model.entities[i].id /\ channel \in DOMAIN config /\ Input(path) = spec.pairing
      /\ a \in DOMAIN AttrsOf(model, config, i)
      /\ \E attribute : Attributed(model, config, i, a, attribute) /\ Answers(spec, attribute)
  BY <1>1, <1>2, <1>3, <1>4, <1>5, AnsweredIn
<1>7. PICK attribute : Attributed(model, config, i, a, attribute) /\ Answers(spec, attribute)
  BY <1>6
<1>8. a \in DOMAIN model.entities[i].names
  <2>1. DOMAIN model.entities[i].names = DOMAIN AttrsOf(model, config, i)
    BY <1>1, <1>2, ListsAre
  <2> QED BY <1>6, <2>1
<1>9. IsShown(model.entities[i].codecs[a], store[i][a])
  BY <1>2, <1>3, <1>5, <1>8, ShownAtRest
<1>10. available(spec.codec, shape) /\ binding.codec = bound(spec.codec, shape)
  BY <1>3, <1>4, <1>6 DEF Specified
<1>11. available(attribute.codec, shape) /\ model.entities[i].codecs[a] = bound(attribute.codec, shape)
  BY <1>4, <1>6, <1>7 DEF Attributed
<1>12. shape.bounds # <<>> => shape.bounds \in Int \X Int /\ shape.bounds[1] <= shape.bounds[2]
  BY <1>1, <1>4, <1>6, ShapeIs
<1>13. Answers(spec, attribute) /\ Input(binding.path) = spec.pairing
  BY <1>4, <1>6, <1>7
<1>14. Paired(spec, attribute, shape, binding, model.entities[i].codecs[a])
  BY <1>10, <1>11, <1>12, <1>13 DEF Paired
<1> QED BY <1>9, <1>14

SendsBack(binding, value, codec) ==
    binding.optimistic # 0 /\ OutputOf(binding.path) # 0
        /\ value # None /\ validate(binding.range, value) = value /\ OnScale(codec, value) =>
            Resent(binding, codec, value) \subseteq {value}

LEMMA RestIsHarmless ==
    ASSUME DevicesAnswer, Rest
    PROVE  RestoreIsHarmless
<1>1. ASSUME wire = <<>>, ~deaf, NEW key \in DOMAIN model.egress,
             NEW binding, binding = model.egress[key],
             NEW value, value = store[key[1]][binding.optimistic],
             NEW codec, codec = model.entities[key[1]].codecs[binding.optimistic]
      PROVE  SendsBack(binding, value, codec)
  <2> SUFFICES ASSUME binding.optimistic # 0, OutputOf(binding.path) # 0,
                      value # None, validate(binding.range, value) = value, OnScale(codec, value)
               PROVE  Resent(binding, codec, value) \subseteq {value}
    BY DEF SendsBack
  <2>1. Wired(model, config)
    BY <1>1 DEF Rest, MadeOf
  <2>2. PICK i, name, a : i = key[1] /\ name = key[2] /\ a = binding.optimistic
    OBVIOUS
  <2>3. key = <<i, name>>
    BY <2>1, <2>2, EgressTaken
  <2>4. <<i, name>> \in DOMAIN model.egress /\ binding = model.egress[<<i, name>>]
        /\ a # 0 /\ OutputOf(binding.path) # 0
    BY <1>1, <2>2, <2>3
  <2>5. codec = model.entities[i].codecs[a] /\ value = store[i][a]
    BY <1>1, <2>2
  <2>6. /\ \E spec, attribute, shape : Paired(spec, attribute, shape, binding, model.entities[i].codecs[a])
        /\ IsShown(model.entities[i].codecs[a], store[i][a])
    BY <1>1, <2>2, <2>4, PairedAtRest
  <2>7. PICK spec, attribute, shape : Paired(spec, attribute, shape, binding, codec)
    BY <2>5, <2>6
  <2>8. IsShown(codec, value)
    BY <2>5, <2>6
  <2> QED BY <2>7, <2>8, ResentIs
<1>2. ASSUME wire = <<>>, ~deaf, NEW key \in DOMAIN model.egress
      PROVE  SendsBack(model.egress[key], store[key[1]][model.egress[key].optimistic],
                       model.entities[key[1]].codecs[model.egress[key].optimistic])
  BY <1>1, <1>2
<1> QED BY <1>2, Zenon DEF RestoreIsHarmless, SendsBack

----------------------------------------------------------------------------
(* Theorems.                                                               *)

\* Whatever channels come, go, change, are renamed or excluded, whatever is reported and
\* commanded: topics and entities are one to one, and every key of the flat tables, of
\* the store and of the readings is what it was compiled from (compiler.py, bus/).
THEOREM TypeCorrect == Spec => []TypeOK
<1>1. IInv => TypeOK
  BY DEF IInv, Sound, TablesAgree, Fits, TypeOK
<1> QED BY <1>1, Inductive, PTL

\* Retained states and the commands sent to them never change hands, between any
\* configurations that compile, but for lookalikes (naming.py resolve_slugs, P-39).
THEOREM TopicsKeepOwners == Spec => TopicsNeverChangeHands
<1>1. ASSUME IInv, IInv',
             NEW i \in DOMAIN model.entities, NEW j \in DOMAIN model'.entities
      PROVE  LET one   == model.entities[i].naming
                 other == model'.entities[j].naming
             IN  one.id # other.id /\ model.entities[i].topic = model'.entities[j].topic =>
                     \/ \A k \in DOMAIN model'.entities : model'.entities[k].naming # one
                     \/ Lookalike(one, other)
  <2>1. Sound(model) /\ Sound(model')
    BY <1>1 DEF IInv
  <2> QED BY <1>1, <2>1, OneTopic
<1>2. IInv /\ IInv' =>
        \A i \in DOMAIN model.entities, j \in DOMAIN model'.entities :
            LET one   == model.entities[i].naming
                other == model'.entities[j].naming
            IN  one.id # other.id /\ model.entities[i].topic = model'.entities[j].topic =>
                    \/ \A k \in DOMAIN model'.entities : model'.entities[k].naming # one
                    \/ Lookalike(one, other)
  BY <1>1
<1> QED BY <1>2, Inductive, PTL DEF TopicsNeverChangeHands

\* Whatever changes, a reader of the retained inventory finds every channel once, with the
\* topic of its entity or the reason it has none, in messages the broker takes, and never
\* a part of an earlier inventory (supervisor.py bridge/devices, _split_devices_payload).
THEOREM InventoryTold == Spec => []InventoryIsTrue
<1>1. InventoryInv => InventoryIsTrue
  <2> SUFFICES ASSUME InventoryInv PROVE InventoryIsTrue
    OBVIOUS
  <2>1. \A n \in DOMAIN Inventory :
            PayloadSize(Inventory[n]) <= MaxPacketSize \/ Len(Inventory[n]) = 1
    BY DEF InventoryInv, Takable
  <2>2. ASSUME ~deaf
        PROVE  /\ FlattenSeq(FlattenSeq(Inventory)) = Listed(config, model)
               /\ DOMAIN config \subseteq Channels
               /\ EntitiesOf(model, collect_channels(config, excluded))
    <3> DEFINE devices == build_bridge_devices(config, model)
               S == Range(Listed(config, model))
    <3>1. DOMAIN config \subseteq Channels /\ Current
      BY <2>2 DEF InventoryInv
    <3>2. Inventory = split_devices_payload(devices)
      BY <3>1 DEF Current
    <3>3. devices \in Seq(Seq(S)) /\ FlattenSeq(devices) = Listed(config, model)
      BY DevicesAre
    <3> HIDE DEF devices, S
    <3>4. FlattenSeq(Inventory) = devices
      BY <3>2, <3>3, SplitIs
    <3>5. EntitiesOf(model, collect_channels(config, excluded))
      BY <3>1, AnnouncedIsSound DEF Current
    <3> QED BY <3>1, <3>3, <3>4, <3>5
  <2> QED BY <2>1, <2>2, ListedIsTrue DEF InventoryIsTrue
<1> QED BY <1>1, InitTells, StepTells, PTL DEF Spec

\* Whatever the installation is altered to, with the profiles of the bridge and topics by
\* name, whatever Home Assistant may send by way of the controls it is told of passes the
\* topic lookup, the transform, the range and the codec (components.py, compiler.py,
\* transforms.py, codecs.py), but where a write needs an input that the channel lacks.
THEOREM ControlsHeard ==
    ASSUME TopicStyle = "slug", RegularProfiles
    PROVE  Spec => []ControlsAreHeard
<1>1. Made => ControlsAreHeard
  BY MadeIsHeard
<1> QED BY <1>1, InitMakes, StepMakes, PTL DEF Spec

\* Whatever comes, goes, is reported and commanded: at rest the store holds what the
\* devices show, and a state that a client has read, sent back, changes nothing
\* (codecs.py, compiler.py optimistic, commands.py, ingress.py), where the devices answer
\* in the attributes that commands mark, as those of the shipped profiles do.
THEOREM RestoreHolds ==
    ASSUME DevicesAnswer
    PROVE  Spec => []RestoreIsHarmless
<1>1. Rest => RestoreIsHarmless
  BY RestIsHarmless
<1>2. IInv /\ Rest /\ [Next]_vars => Rest'
  BY StepRests
<1> QED BY <1>1, <1>2, InitRests, Inductive, PTL DEF Spec
====
