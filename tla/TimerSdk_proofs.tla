--------------------------- MODULE TimerSdk_proofs ---------------------------
(***************************************************************************)
(* Proofs about the timer software development kit, for every width of the *)
(* registers and every number of calls.                                    *)
(***************************************************************************)
EXTENDS TimerSdk, SequenceTheorems, WellFoundedInduction, TLAPS

-----------------------------------------------------------------------------
(* The steps a function is made of                                         *)

Rates == [prescale : Nat, step : Nat]
Values == 0..W * W - 1      \* of the two words

Accesses ==
    {Access(r, 0) : r \in {"read_upper", "read_lower", "check_upper",
                           "mtime_lower", "mtime_upper"}}
    \cup {Access(r, v) : r \in {"cmp_lower", "cmp_upper"}, v \in Words}
    \cup {Access(r, b) : r \in {"ctrl", "intr_enable", "intr_state", "intr_test"},
                         b \in BOOLEAN}
    \cup {Access("cfg", p) : p \in Rates}

Arming(t) == [do |-> "arming", threshold |-> t]
Armed(t) == [do |-> "armed", threshold |-> t]

Computations ==
    {[do |-> w] : w \in {"subtract", "add", "zero", "wfi", "asleep"}}
    \cup {Arming(t) : t \in Values} \cup {Armed(t) : t \in Values}

Steps == Accesses \cup Computations

CmpUpper(v) == Access("cmp_upper", v)
CmpLower(v) == Access("cmp_lower", v)

(* The steps are told apart by their fields.                               *)
LEMMA StepIs ==
    ASSUME NEW s \in Steps
    PROVE  /\ IsAccess(s) <=> s \in Accesses
           /\ IsAccess(s) => /\ s = [reg |-> s.reg, value |-> s.value]
                             /\ s.reg \in {"mtime_lower", "mtime_upper"} => s.value = 0
                             /\ s.reg \in {"cmp_lower", "cmp_upper"} => s.value \in Words
                             /\ s.reg = "cfg" => s.value \in Rates
                             /\ \A t : s # Armed(t) /\ s # Arming(t)
           /\ ~IsAccess(s) => /\ s.do \in {"subtract", "add", "zero", "wfi", "asleep",
                                           "arming", "armed"}
                              /\ s.do = "armed" => s = Armed(s.threshold)
                              /\ s.do = "arming" => s = Arming(s.threshold)
                              /\ s.do \in {"armed", "arming"} => s.threshold \in Values
                              /\ s.do \notin {"armed", "arming"} => s = [do |-> s.do]
<1>1. CASE s \in Accesses
  BY <1>1 DEF Accesses, Access, IsAccess, Armed, Arming
<1>2. CASE s \in Computations
  BY <1>2 DEF Computations, Accesses, Access, IsAccess, Armed, Arming
<1> QED BY <1>1, <1>2 DEF Steps

-----------------------------------------------------------------------------
(* The two words of a value                                                *)

LEMMA Division ==
    ASSUME NEW q \in Int, NEW r \in Words, NEW v, v = q * W + r
    PROVE  v \div W = q /\ v % W = r
BY TimerAssumption DEF Words

LEMMA PairIs ==
    ASSUME NEW v \in Nat
    PROVE  /\ Pair(v).hi \in Nat /\ Pair(v).lo \in Words /\ Value(Pair(v)) = v
           /\ v < W * W => Pair(v) \in [hi : Words, lo : Words]
<1>1. v \div W \in Nat /\ v % W \in 0..W - 1 /\ v = W * (v \div W) + (v % W)
  BY TimerAssumption
<1> DEFINE q == v \div W
           r == v % W
<1>2. W \in Nat /\ W > 1 /\ q * W = W * q
  BY <1>1, TimerAssumption
<1> HIDE DEF q, r
<1>3. v < W * W => q < W
  <2> SUFFICES ASSUME q >= W PROVE v >= W * W
    BY <1>1, <1>2 DEF q
  <2>1. W * q >= W * W
    BY <1>1, <1>2 DEF q
  <2> QED BY <1>1, <1>2, <2>1 DEF q, r
<1> QED BY <1>1, <1>2, <1>3 DEF Pair, Value, Words, q, r

(* A value is within the two words, and is the sum it is read as.          *)
LEMMA ValueIs ==
    ASSUME NEW p \in [hi : Words, lo : Words]
    PROVE  /\ Value(p) \in Values /\ Pair(Value(p)) = p /\ Value(p) = p.hi * W + p.lo
           /\ Value(p) <= p.hi * W + (W - 1)
           /\ p.hi * W <= (W - 1) * W
<1>1. W \in Nat /\ W > 1 /\ p.hi \in 0..W - 1 /\ p.lo \in 0..W - 1
  BY TimerAssumption DEF Words
<1>2. p.hi * W <= (W - 1) * W
  BY <1>1
<1>3. Value(p) \div W = p.hi /\ Value(p) % W = p.lo
  <2> DEFINE q == p.hi
             r == p.lo
             v == q * W + r
  <2>1. q \in Int /\ r \in Words
    BY <1>1
  <2> HIDE DEF q, r
  <2>2. v = q * W + r
    OBVIOUS
  <2> HIDE DEF v
  <2>3. v \div W = q /\ v % W = r
    BY <2>1, <2>2, Division
  <2> QED BY <2>3 DEF Value, q, r, v
<1>4. (W - 1) * W = W * W - W /\ p.hi * W \in Nat
  BY <1>1
<1>5. Value(p) = p.hi * W + p.lo
  BY DEF Value
<1>6. Pair(Value(p)) = p
  BY <1>3 DEF Pair
<1> DEFINE v == Value(p)
           m == p.hi * W
           n == W * W
<1>7. v = m + p.lo /\ m \in Nat /\ m <= n - W /\ n \in Nat
  BY <1>1, <1>2, <1>4, <1>5
<1> HIDE DEF v, m, n
<1>8. v \in 0..n - 1 /\ v <= m + (W - 1)
  BY <1>1, <1>7
<1> QED BY <1>2, <1>5, <1>6, <1>8 DEF Values, v, m, n

-----------------------------------------------------------------------------
(* Euclid's loop                                                           *)

(* A non-empty set of numbers has a least one.                             *)
LEMMA LeastNumber ==
    ASSUME NEW T \in SUBSET Nat, T # {}
    PROVE  \E n \in T : \A m \in T : n <= m
<1> DEFINE R == OpToRel(<, Nat)
<1>1. IsWellFoundedOn(R, Nat)
  BY NatLessThanWellFounded
<1>2. \A m, n \in Nat : <<m, n>> \in R <=> m < n
  BY DEF OpToRel
<1> HIDE DEF R
<1>3. \E n \in T : \A m \in T : ~(<<m, n>> \in R)
  BY <1>1, WFMin
<1>4. PICK n \in T : \A m \in T : ~(<<m, n>> \in R)
  BY <1>3
<1>5. \A m \in T : ~(m < n) /\ m \in Nat /\ n \in Nat
  BY <1>2, <1>4
<1>6. \A m \in T : n <= m
  BY <1>5
<1> QED BY <1>6

Divides(d, n) == \E q \in Nat : n = d * q
Divisors(n) == {d \in Nat : Divides(d, n)}
Common(a, b) == Divisors(a) \cap Divisors(b)

LEMMA Quotient ==
    ASSUME NEW g \in Nat \ {0}, NEW p \in Nat, NEW n, n = g * p
    PROVE  n \div g = p
OBVIOUS

(* A remainder is a number less than what it is divided by.                *)
LEMMA Remainder ==
    ASSUME NEW a \in Nat, NEW b \in Nat \ {0}
    PROVE  /\ a \div b \in Nat /\ a % b \in Nat /\ a % b < b
           /\ a = b * (a \div b) + (a % b)
OBVIOUS

(* A step of Euclid's loop keeps the common divisors.                      *)
LEMMA CommonStep ==
    ASSUME NEW a \in Nat, NEW b \in Nat \ {0}
    PROVE  Common(b, a % b) = Common(a, b)
<1> DEFINE k == a \div b
           r == a % b
<1>1. k \in Nat /\ r \in Nat /\ r < b /\ a = b * k + r
  BY Remainder
<1> HIDE DEF k, r
<1>2. ASSUME NEW d \in Nat, NEW p \in Nat, NEW q \in Nat, b = d * p, r = d * q
      PROVE  Divides(d, a)
  <2>1. (d * p) * k = d * (p * k)
    BY <1>1
  <2>2. a = d * (p * k + q) /\ p * k + q \in Nat
    BY <1>1, <1>2, <2>1
  <2> QED BY <2>2 DEF Divides
<1>3. ASSUME NEW d \in Nat, NEW p \in Nat, NEW q \in Nat, b = d * p, a = d * q
      PROVE  Divides(d, r)
  <2>1. (d * p) * k = d * (p * k) /\ p * k \in Nat
    BY <1>1
  <2> DEFINE u == p * k
  <2>2. r = d * q - d * u /\ u \in Nat
    BY <1>1, <1>3, <2>1
  <2>3. d > 0
    BY <1>3
  <2> HIDE DEF u
  <2>4. r = d * (q - u) /\ q - u \in Int
    BY <2>2
  <2>5. q - u \in Nat
    BY <1>1, <2>3, <2>4
  <2> QED BY <2>4, <2>5 DEF Divides
<1>4. Common(b, r) = Common(a, b)
  BY <1>2, <1>3 DEF Common, Divisors, Divides
<1> QED BY <1>4 DEF r

(* The numbers that divide it tell a number.                               *)
LEMMA DivisorsTell ==
    ASSUME NEW a \in Nat, NEW b \in Nat, Divisors(a) = Divisors(b)
    PROVE  a = b
<1>1. a = a * 1 /\ b = b * 1
  OBVIOUS
<1>2. a \in Divisors(b) /\ b \in Divisors(a)
  BY <1>1 DEF Divisors, Divides
<1>3. PICK p \in Nat, q \in Nat : b = a * p /\ a = b * q
  BY <1>2 DEF Divisors, Divides
<1>4. CASE a = 0
  BY <1>3, <1>4
<1>5. CASE a # 0
  <2>1. p # 0 /\ q # 0
    BY <1>3, <1>5
  <2>2. a * p >= a /\ b * q >= b
    BY <2>1
  <2> QED BY <1>3, <2>2
<1> QED BY <1>4, <1>5

(* Two numbers have a greatest common divisor: all common divisors divide  *)
(* it.  By descent along Euclid's loop.                                    *)
LEMMA GreatestExists ==
    ASSUME NEW a \in Nat, NEW b \in Nat
    PROVE  \E g \in Nat : Divisors(g) = Common(a, b)
<1> DEFINE Has(x, y) == \E g \in Nat : Divisors(g) = Common(x, y)
           Without == {y \in Nat : \E x \in Nat : ~Has(x, y)}
<1>1. ASSUME Without # {}
      PROVE  FALSE
  <2>1. PICK y \in Without : \A z \in Without : y <= z
    <3>1. Without \in SUBSET Nat
      OBVIOUS
    <3> HIDE DEF Without
    <3> QED BY <1>1, <3>1, LeastNumber
  <2>2. PICK x \in Nat : ~Has(x, y)
    BY <2>1
  <2>3. y \in Nat
    BY <2>1
  <2>4. CASE y = 0
    <3>1. \A d \in Nat : 0 = d * 0
      OBVIOUS
    <3>2. Divisors(x) = Common(x, y)
      BY <2>4, <3>1 DEF Common, Divisors, Divides
    <3> QED BY <2>2, <3>2
  <2>5. CASE y # 0
    <3>1. x % y \in Nat /\ x % y < y
      BY <2>3, <2>5, Remainder
    <3>2. x % y \notin Without
      BY <2>1, <2>3, <3>1
    <3>3. Has(y, x % y)
      BY <2>3, <3>1, <3>2
    <3>4. Common(y, x % y) = Common(x, y)
      BY <2>3, <2>5, CommonStep
    <3> QED BY <2>2, <3>3, <3>4
  <2> QED BY <2>4, <2>5
<1>2. Has(a, b)
  BY <1>1
<1> QED BY <1>2

Greatest(a, b) == CHOOSE g \in Nat : Divisors(g) = Common(a, b)

LEMMA GreatestIs ==
    ASSUME NEW a \in Nat, NEW b \in Nat
    PROVE  /\ Greatest(a, b) \in Nat /\ Divisors(Greatest(a, b)) = Common(a, b)
           /\ b = 0 => Greatest(a, b) = a
           /\ b # 0 => Greatest(a, b) = Greatest(b, a % b)
<1>1. Greatest(a, b) \in Nat /\ Divisors(Greatest(a, b)) = Common(a, b)
  BY GreatestExists DEF Greatest
<1>2. ASSUME b = 0
      PROVE  Greatest(a, b) = a
  <2>1. \A d \in Nat : 0 = d * 0
    OBVIOUS
  <2>2. Divisors(a) = Common(a, b)
    BY <1>2, <2>1 DEF Common, Divisors, Divides
  <2> QED BY <1>1, <2>2, DivisorsTell
<1>3. ASSUME b # 0
      PROVE  Greatest(a, b) = Greatest(b, a % b)
  BY <1>3, CommonStep DEF Greatest
<1> QED BY <1>1, <1>2, <1>3

\* What the recursive function of euclidean_gcd is, up to a bound.
Loop(f, m) == [b \in 0..m |-> [a \in 0..m |-> IF b = 0 THEN a ELSE f[a % b][b]]]
Table(m) == CHOOSE f : f = Loop(f, m)

LEMMA EuclidIsTable ==
    ASSUME NEW x \in Nat, NEW y \in Nat
    PROVE  euclidean_gcd(x, y) = Table(Max({x, y}))[y][x]
BY DEF euclidean_gcd, Table, Loop

(* The recursion has a solution, the greatest common divisors: the table   *)
(* is one.                                                                 *)
LEMMA TableIs ==
    ASSUME NEW m \in Nat
    PROVE  Table(m) = Loop(Table(m), m)
<1> DEFINE G == [b \in 0..m |-> [a \in 0..m |-> Greatest(a, b)]]
<1>1. ASSUME NEW a \in 0..m, NEW b \in 0..m
      PROVE  G[b][a] = IF b = 0 THEN a ELSE G[a % b][b]
  <2>1. CASE b = 0
    BY <2>1, GreatestIs
  <2>2. CASE b # 0
    <3>1. a % b \in 0..m
      BY <2>2, Remainder
    <3> QED BY <2>2, <3>1, GreatestIs
  <2> QED BY <2>1, <2>2
<1>2. G = Loop(G, m)
  BY <1>1 DEF Loop
<1> HIDE DEF G
<1> QED BY <1>2 DEF Table

(* And whatever solves it divides both numbers.                            *)
LEMMA TableDivides ==
    ASSUME NEW m \in Nat, NEW a \in 0..m, NEW b \in 0..m
    PROVE  Table(m)[b][a] \in Nat /\ Divisors(Table(m)[b][a]) = Common(a, b)
<1> DEFINE f == Table(m)
           Good(x, y) == f[y][x] \in Nat /\ Divisors(f[y][x]) = Common(x, y)
           Bad == {y \in 0..m : \E x \in 0..m : ~Good(x, y)}
<1>1. \A x, y \in 0..m : f[y][x] = IF y = 0 THEN x ELSE f[x % y][y]
  <2>1. f = Loop(f, m)
    BY TableIs
  <2> HIDE DEF f
  <2>2. \A x, y \in 0..m : Loop(f, m)[y][x] = IF y = 0 THEN x ELSE f[x % y][y]
    BY DEF Loop
  <2> QED BY <2>1, <2>2
<1> HIDE DEF f
<1>2. ASSUME Bad # {}
      PROVE  FALSE
  <2>1. PICK y \in Bad : \A z \in Bad : y <= z
    <3>1. Bad \in SUBSET Nat
      OBVIOUS
    <3> HIDE DEF Bad
    <3> QED BY <1>2, <3>1, LeastNumber
  <2>2. PICK x \in 0..m : ~Good(x, y)
    BY <2>1
  <2>3. y \in 0..m
    BY <2>1
  <2>4. CASE y = 0
    <3>1. \A d \in Nat : 0 = d * 0
      OBVIOUS
    <3>2. Divisors(x) = Common(x, y)
      BY <2>4, <3>1 DEF Common, Divisors, Divides
    <3> QED BY <1>1, <2>2, <2>3, <2>4, <3>2
  <2>5. CASE y # 0
    <3>1. x % y \in 0..m /\ x % y < y
      BY <2>3, <2>5, Remainder
    <3>2. x % y \notin Bad
      BY <2>1, <2>3, <3>1
    <3>3. Good(y, x % y)
      BY <2>3, <3>1, <3>2
    <3>4. Common(y, x % y) = Common(x, y)
      BY <2>3, <2>5, CommonStep
    <3>5. f[y][x] = f[x % y][y]
      BY <1>1, <2>3, <2>5
    <3> QED BY <2>2, <3>3, <3>4, <3>5
  <2> QED BY <2>4, <2>5
<1>3. Good(a, b)
  BY <1>2
<1> QED BY <1>3 DEF f

(* Euclid's loop ends with the greatest common divisor: a number that      *)
(* divides both and is divided by every number that does.                  *)
LEMMA EuclidGcd ==
    ASSUME NEW x \in Nat, NEW y \in Nat
    PROVE  /\ euclidean_gcd(x, y) \in Nat
           /\ Divisors(euclidean_gcd(x, y)) = Divisors(x) \cap Divisors(y)
<1> DEFINE m == Max({x, y})
<1>1. m \in Nat /\ x \in 0..m /\ y \in 0..m
  <2>1. \E z \in {x, y} : \A w \in {x, y} : z >= w
    OBVIOUS
  <2>2. m \in {x, y} /\ \A w \in {x, y} : m >= w
    BY <2>1 DEF Max
  <2> QED BY <2>2
<1>2. euclidean_gcd(x, y) = Table(m)[y][x]
  BY EuclidIsTable
<1> HIDE DEF m
<1> QED BY <1>1, <1>2, TableDivides DEF Common

(* What is written to CFG0 for a rate is its ratio in lowest terms.        *)
LEMMA RatioKept ==
    ASSUME NEW clock \in Nat \ {0}, NEW counter \in Nat \ {0},
           NEW params, params = rv_timer_approximate_tick_params(clock, counter),
           params # <<>>
    PROVE  /\ params[1] \in [prescale : Nat, step : Nat]
           /\ params[1].step * clock = (params[1].prescale + 1) * counter
<1> DEFINE g == euclidean_gcd(clock, counter)
<1>1. g \in Nat /\ Divides(g, clock) /\ Divides(g, counter)
  <2>1. g \in Nat /\ Divisors(g) = Divisors(clock) \cap Divisors(counter)
    BY EuclidGcd
  <2> HIDE DEF g
  <2>2. g \in Divisors(g)
    <3>1. g = g * 1
      BY <2>1
    <3> QED BY <2>1, <3>1 DEF Divisors, Divides
  <2> QED BY <2>1, <2>2 DEF Divisors
<1>2. params[1] = [prescale |-> clock \div g - 1, step |-> counter \div g]
  BY DEF rv_timer_approximate_tick_params
<1> HIDE DEF g
<1>3. PICK p \in Nat, q \in Nat : clock = g * p /\ counter = g * q
  BY <1>1 DEF Divides
<1>4. g > 0 /\ p > 0
  BY <1>1, <1>3
<1>5. clock \div g = p /\ counter \div g = q
  BY <1>1, <1>3, <1>4, Quotient
<1>6. q * (g * p) = p * (g * q)
  BY <1>1, <1>3
<1>7. params[1].prescale + 1 = p /\ params[1].step = q
  BY <1>2, <1>3, <1>5
<1>8. params[1] \in [prescale : Nat, step : Nat]
  BY <1>2, <1>3, <1>4, <1>5
<1> QED BY <1>3, <1>6, <1>7, <1>8

(* The rate of timer_cycles_init can be represented.                       *)
LEMMA UnitRate ==
    /\ rv_timer_approximate_tick_params(1, 1) # <<>>
    /\ rv_timer_approximate_tick_params(1, 1)[1] \in Rates
<1> DEFINE g == euclidean_gcd(1, 1)
<1>1. g = 1
  <2>1. g \in Nat /\ Divisors(g) = Divisors(1) \cap Divisors(1)
    BY EuclidGcd
  <2> HIDE DEF g
  <2> QED BY <2>1, DivisorsTell
<1>2. rv_timer_approximate_tick_params(1, 1)
         = IF 1 \div g - 1 > PRESCALE_MASK \/ 1 \div g > STEP_MASK
           THEN <<>> ELSE <<[prescale |-> 1 \div g - 1, step |-> 1 \div g]>>
  BY DEF rv_timer_approximate_tick_params
<1>3. 1 \div 1 = 1
  OBVIOUS
<1> HIDE DEF g
<1> QED BY <1>1, <1>2, <1>3, TimerAssumption DEF Rates

-----------------------------------------------------------------------------
(* The functions                                                           *)

\* Where a threshold is noted as armed, at i, the comparator has been written
\* just before: by timer_arm_set after the new threshold was noted, or by the
\* reset.  What lies before the first step has been done already.
ArmShape(p, i, t) ==
    /\ i > 1 => p[i - 1] = CmpUpper(Pair(t).hi)
    /\ i > 2 => p[i - 2] = CmpLower(Pair(t).lo)
    /\ i > 3 => p[i - 3] = CmpUpper(W - 1)
    /\ i > 4 => p[i - 4] = Arming(t)

ResetShape(p, i, t) ==
    /\ t = Value(AllOnes)
    /\ i > 1 => p[i - 1] = Access("mtime_upper", 0)
    /\ i > 2 => p[i - 2] = Access("mtime_lower", 0)
    /\ i > 3 => p[i - 3] = CmpUpper(W - 1)
    /\ i > 4 => p[i - 4] = CmpLower(W - 1)

\* A half of the comparator is either put out of reach or written on the way to
\* a threshold.
CmpWrites(p) ==
    \A i \in 1..Len(p) : \A v :
        p[i] \in {CmpUpper(v), CmpLower(v)} =>
            \/ v = W - 1
            \/ \E t \in Values : \/ i + 1 <= Len(p) /\ p[i + 1] = Armed(t)
                                 \/ i + 2 <= Len(p) /\ p[i + 2] = Armed(t)

CodeOK(c) ==
    /\ c \in Seq(Steps) /\ CmpWrites(c)
    /\ \A i \in 1..Len(c), t \in Values :
          c[i] = Armed(t) => i >= 5 /\ (ArmShape(c, i, t) \/ ResetShape(c, i, t))

(* One function after another.                                             *)
LEMMA CodesOneAfterAnother ==
    ASSUME NEW s, NEW t, CodeOK(s), CodeOK(t)
    PROVE  CodeOK(s \o t)
<1> DEFINE c == s \o t
           m == Len(s)
           n == Len(t)
<1>1. /\ c \in Seq(Steps) /\ Len(c) = m + n /\ m \in Nat /\ n \in Nat
      /\ \A i \in 1..m : c[i] = s[i]
      /\ \A i \in 1..n : c[m + i] = t[i]
  BY DEF CodeOK
<1>2. \A i \in 1..m + n : i \in 1..m \/ \E j \in 1..n : i = m + j
  <2> TAKE i \in 1..m + n
  <2>1. CASE i <= m
    BY <1>1, <2>1
  <2>2. CASE i > m
    <3>1. i - m \in 1..n /\ i = m + (i - m)
      BY <1>1, <2>2
    <3> QED BY <3>1
  <2> QED BY <1>1, <2>1, <2>2
<1> HIDE DEF c
<1>3. CmpWrites(c)
  <2> SUFFICES ASSUME NEW i \in 1..Len(c), NEW v, c[i] \in {CmpUpper(v), CmpLower(v)},
                      v # W - 1
               PROVE  \E x \in Values : \/ i + 1 <= Len(c) /\ c[i + 1] = Armed(x)
                                        \/ i + 2 <= Len(c) /\ c[i + 2] = Armed(x)
    BY DEF CmpWrites
  <2>1. CASE i \in 1..m
    <3>1. PICK x \in Values : \/ i + 1 <= m /\ s[i + 1] = Armed(x)
                              \/ i + 2 <= m /\ s[i + 2] = Armed(x)
      BY <1>1, <2>1 DEF CodeOK, CmpWrites, m
    <3> HIDE DEF m, n
    <3> QED BY <1>1, <2>1, <3>1
  <2>2. ASSUME NEW j \in 1..n, i = m + j
        PROVE  \E x \in Values : \/ i + 1 <= Len(c) /\ c[i + 1] = Armed(x)
                                 \/ i + 2 <= Len(c) /\ c[i + 2] = Armed(x)
    <3>1. PICK x \in Values : \/ j + 1 <= n /\ t[j + 1] = Armed(x)
                              \/ j + 2 <= n /\ t[j + 2] = Armed(x)
      BY <1>1, <2>2 DEF CodeOK, CmpWrites, n
    <3> HIDE DEF m, n
    <3>2. i + 1 = m + (j + 1) /\ i + 2 = m + (j + 2)
      BY <1>1, <2>2
    <3>3. CASE j + 1 <= n /\ t[j + 1] = Armed(x)
      <4>1. j + 1 \in 1..n
        BY <1>1, <3>3
      <4>2. c[i + 1] = Armed(x)
        BY <1>1, <3>2, <3>3, <4>1
      <4> QED BY <1>1, <3>2, <4>1, <4>2
    <3>4. CASE j + 2 <= n /\ t[j + 2] = Armed(x)
      <4>1. j + 2 \in 1..n
        BY <1>1, <3>4
      <4>2. c[i + 2] = Armed(x)
        BY <1>1, <3>2, <3>4, <4>1
      <4> QED BY <1>1, <3>2, <4>1, <4>2
    <3> QED BY <3>1, <3>3, <3>4
  <2> QED BY <1>1, <1>2, <2>1, <2>2
<1>4. ASSUME NEW i \in 1..Len(c), NEW x \in Values, c[i] = Armed(x)
      PROVE  i >= 5 /\ (ArmShape(c, i, x) \/ ResetShape(c, i, x))
  <2>1. CASE i \in 1..m
    <3>1. i >= 5 /\ (ArmShape(s, i, x) \/ ResetShape(s, i, x))
      BY <1>1, <1>4, <2>1 DEF CodeOK, m
    <3>2. \A k \in 1..4 : c[i - k] = s[i - k]
      <4> TAKE k \in 1..4
      <4>1. i - k \in 1..m
        BY <1>1, <2>1, <3>1
      <4> QED BY <1>1, <4>1
    <3> QED BY <3>1, <3>2 DEF ArmShape, ResetShape
  <2>2. ASSUME NEW j \in 1..n, i = m + j
        PROVE  i >= 5 /\ (ArmShape(c, i, x) \/ ResetShape(c, i, x))
    <3>1. j >= 5 /\ (ArmShape(t, j, x) \/ ResetShape(t, j, x))
      BY <1>1, <1>4, <2>2 DEF CodeOK, n
    <3> HIDE DEF m, n
    <3>2. \A k \in 1..4 : c[i - k] = t[j - k]
      <4> TAKE k \in 1..4
      <4>1. j - k \in 1..n /\ i - k = m + (j - k)
        BY <1>1, <2>2, <3>1
      <4> QED BY <1>1, <4>1
    <3>3. i >= 5
      BY <1>1, <2>2, <3>1
    <3> QED BY <3>1, <3>2, <3>3 DEF ArmShape, ResetShape
  <2> QED BY <1>1, <1>2, <2>1, <2>2
<1> QED BY <1>1, <1>3, <1>4 DEF CodeOK, c

(* A function that neither writes the comparator nor arms it.              *)
Plain == {a \in Steps : /\ \A v : a # CmpUpper(v) /\ a # CmpLower(v)
                        /\ \A t : a # Armed(t)}

LEMMA PlainCode ==
    ASSUME NEW c \in Seq(Plain)
    PROVE  CodeOK(c)
<1>1. c \in Seq(Steps)
  BY SeqMonotonic DEF Plain
<1>2. \A i \in 1..Len(c) : c[i] \in Plain
  OBVIOUS
<1> QED BY <1>1, <1>2 DEF CodeOK, CmpWrites, Plain

LEMMA PlainSteps ==
    /\ \A r \in {"read_upper", "read_lower", "check_upper", "mtime_lower", "mtime_upper"} :
          Access(r, 0) \in Plain
    /\ \A r \in {"ctrl", "intr_enable", "intr_state", "intr_test"}, b \in BOOLEAN :
          Access(r, b) \in Plain
    /\ \A p \in Rates : Access("cfg", p) \in Plain
    /\ \A w \in {"subtract", "add", "zero", "wfi", "asleep"} : [do |-> w] \in Plain
<1>1. ASSUME NEW a \in Accesses, a.reg \notin {"cmp_lower", "cmp_upper"}
      PROVE  a \in Plain
  BY <1>1, StepIs DEF Plain, Steps, Access, CmpUpper, CmpLower, IsAccess
<1>2. \A r \in {"read_upper", "read_lower", "check_upper", "mtime_lower", "mtime_upper"} :
          Access(r, 0) \in Plain
  BY <1>1 DEF Accesses, Access
<1>3. \A r \in {"ctrl", "intr_enable", "intr_state", "intr_test"}, b \in BOOLEAN :
          Access(r, b) \in Plain
  <2> TAKE r \in {"ctrl", "intr_enable", "intr_state", "intr_test"}, b \in BOOLEAN
  <2> DEFINE a == Access(r, b)
  <2>1. a \in Accesses
    BY DEF Accesses
  <2>2. a.reg = r
    BY DEF Access
  <2> HIDE DEF a
  <2>3. a \in Plain
    BY <1>1, <2>1, <2>2
  <2> QED BY <2>3 DEF a
<1>4. \A p \in Rates : Access("cfg", p) \in Plain
  <2> TAKE p \in Rates
  <2> DEFINE a == Access("cfg", p)
  <2>1. a \in Accesses
    BY DEF Accesses
  <2>2. a.reg = "cfg"
    BY DEF Access
  <2> HIDE DEF a
  <2>3. a \in Plain
    BY <1>1, <2>1, <2>2
  <2> QED BY <2>3 DEF a
<1>5. \A w \in {"subtract", "add", "zero", "wfi", "asleep"} : [do |-> w] \in Plain
  <2> TAKE w \in {"subtract", "add", "zero", "wfi", "asleep"}
  <2> DEFINE a == [do |-> w]
  <2>1. a \in Steps
    BY DEF Steps, Computations
  <2>2. \A v : a # CmpUpper(v) /\ a # CmpLower(v) /\ a # Armed(v)
    BY DEF CmpUpper, CmpLower, Access, Armed
  <2> QED BY <2>1, <2>2 DEF Plain
<1> QED BY <1>2, <1>3, <1>4, <1>5

(* A sequence written out in parts.                                        *)
LEMMA Join1And1 ==
    ASSUME NEW a, NEW b
    PROVE  <<a>> \o <<b>> = <<a, b>>
<1> DEFINE s == <<a>>
           t == <<b>>
           r == <<a, b>>
           S == {a, b}
<1>1. s \in Seq(S) /\ t \in Seq(S) /\ r \in Seq(S)
  OBVIOUS
<1> HIDE DEF S
<1>2. s \o t \in Seq(S) /\ Len(s \o t) = Len(r)
  BY <1>1
<1>3. ASSUME NEW i \in 1..Len(r) PROVE (s \o t)[i] = r[i]
  BY <1>1
<1> QED BY <1>1, <1>2, <1>3, SeqEqual

LEMMA Join1And3 ==
    ASSUME NEW a, NEW b, NEW c, NEW d
    PROVE  <<a>> \o <<b, c, d>> = <<a, b, c, d>>
<1> DEFINE s == <<a>>
           t == <<b, c, d>>
           r == <<a, b, c, d>>
           S == {a, b, c, d}
<1>1. s \in Seq(S) /\ t \in Seq(S) /\ r \in Seq(S)
  OBVIOUS
<1> HIDE DEF S
<1>2. s \o t \in Seq(S) /\ Len(s \o t) = Len(r)
  BY <1>1
<1>3. ASSUME NEW i \in 1..Len(r) PROVE (s \o t)[i] = r[i]
  BY <1>1
<1> QED BY <1>1, <1>2, <1>3, SeqEqual

LEMMA Join3And1 ==
    ASSUME NEW a, NEW b, NEW c, NEW d
    PROVE  <<a, b, c>> \o <<d>> = <<a, b, c, d>>
<1> DEFINE s == <<a, b, c>>
           t == <<d>>
           r == <<a, b, c, d>>
           S == {a, b, c, d}
<1>1. s \in Seq(S) /\ t \in Seq(S) /\ r \in Seq(S)
  OBVIOUS
<1> HIDE DEF S
<1>2. s \o t \in Seq(S) /\ Len(s \o t) = Len(r)
  BY <1>1
<1>3. ASSUME NEW i \in 1..Len(r) PROVE (s \o t)[i] = r[i]
  BY <1>1
<1> QED BY <1>1, <1>2, <1>3, SeqEqual

LEMMA Join3And2 ==
    ASSUME NEW a, NEW b, NEW c, NEW d, NEW e
    PROVE  <<a, b, c>> \o <<d, e>> = <<a, b, c, d, e>>
<1> DEFINE s == <<a, b, c>>
           t == <<d, e>>
           r == <<a, b, c, d, e>>
           S == {a, b, c, d, e}
<1>1. s \in Seq(S) /\ t \in Seq(S) /\ r \in Seq(S)
  OBVIOUS
<1> HIDE DEF S
<1>2. s \o t \in Seq(S) /\ Len(s \o t) = Len(r)
  BY <1>1
<1>3. ASSUME NEW i \in 1..Len(r) PROVE (s \o t)[i] = r[i]
  BY <1>1
<1> QED BY <1>1, <1>2, <1>3, SeqEqual

LEMMA Join3And3 ==
    ASSUME NEW a, NEW b, NEW c, NEW d, NEW e, NEW f
    PROVE  <<a, b, c>> \o <<d, e, f>> = <<a, b, c, d, e, f>>
<1> DEFINE s == <<a, b, c>>
           t == <<d, e, f>>
           r == <<a, b, c, d, e, f>>
           S == {a, b, c, d, e, f}
<1>1. s \in Seq(S) /\ t \in Seq(S) /\ r \in Seq(S)
  OBVIOUS
<1> HIDE DEF S
<1>2. s \o t \in Seq(S) /\ Len(s \o t) = Len(r)
  BY <1>1
<1>3. ASSUME NEW i \in 1..Len(r) PROVE (s \o t)[i] = r[i]
  BY <1>1
<1> QED BY <1>1, <1>2, <1>3, SeqEqual

LEMMA Join4And1 ==
    ASSUME NEW a, NEW b, NEW c, NEW d, NEW e
    PROVE  <<a, b, c, d>> \o <<e>> = <<a, b, c, d, e>>
<1> DEFINE s == <<a, b, c, d>>
           t == <<e>>
           r == <<a, b, c, d, e>>
           S == {a, b, c, d, e}
<1>1. s \in Seq(S) /\ t \in Seq(S) /\ r \in Seq(S)
  OBVIOUS
<1> HIDE DEF S
<1>2. s \o t \in Seq(S) /\ Len(s \o t) = Len(r)
  BY <1>1
<1>3. ASSUME NEW i \in 1..Len(r) PROVE (s \o t)[i] = r[i]
  BY <1>1
<1> QED BY <1>1, <1>2, <1>3, SeqEqual

LEMMA Join6And2 ==
    ASSUME NEW a, NEW b, NEW c, NEW d, NEW e, NEW f, NEW g, NEW h
    PROVE  <<a, b, c, d, e, f>> \o <<g, h>> = <<a, b, c, d, e, f, g, h>>
<1> DEFINE s == <<a, b, c, d, e, f>>
           t == <<g, h>>
           r == <<a, b, c, d, e, f, g, h>>
           S == {a, b, c, d, e, f, g, h}
<1>1. s \in Seq(S) /\ t \in Seq(S) /\ r \in Seq(S)
  OBVIOUS
<1> HIDE DEF S
<1>2. s \o t \in Seq(S) /\ Len(s \o t) = Len(r)
  BY <1>1
<1>3. ASSUME NEW i \in 1..Len(r) PROVE (s \o t)[i] = r[i]
  BY <1>1
<1> QED BY <1>1, <1>2, <1>3, SeqEqual

LEMMA Join1And8 ==
    ASSUME NEW a, NEW b, NEW c, NEW d, NEW e, NEW f, NEW g, NEW h, NEW k
    PROVE  <<a>> \o <<b, c, d, e, f, g, h, k>> = <<a, b, c, d, e, f, g, h, k>>
<1> DEFINE s == <<a>>
           t == <<b, c, d, e, f, g, h, k>>
           r == <<a, b, c, d, e, f, g, h, k>>
           S == {a, b, c, d, e, f, g, h, k}
<1>1. s \in Seq(S) /\ t \in Seq(S) /\ r \in Seq(S)
  OBVIOUS
<1> HIDE DEF S
<1>2. s \o t \in Seq(S) /\ Len(s \o t) = Len(r)
  BY <1>1
<1>3. ASSUME NEW i \in 1..Len(r) PROVE (s \o t)[i] = r[i]
  BY <1>1
<1> QED BY <1>1, <1>2, <1>3, SeqEqual

LEMMA Join9And1 ==
    ASSUME NEW a, NEW b, NEW c, NEW d, NEW e, NEW f, NEW g, NEW h, NEW k, NEW j
    PROVE  <<a, b, c, d, e, f, g, h, k>> \o <<j>> = <<a, b, c, d, e, f, g, h, k, j>>
<1> DEFINE s == <<a, b, c, d, e, f, g, h, k>>
           t == <<j>>
           r == <<a, b, c, d, e, f, g, h, k, j>>
           S == {a, b, c, d, e, f, g, h, k, j}
<1>1. s \in Seq(S) /\ t \in Seq(S) /\ r \in Seq(S)
  OBVIOUS
<1> HIDE DEF S
<1>2. s \o t \in Seq(S) /\ Len(s \o t) = Len(r)
  BY <1>1
<1>3. ASSUME NEW i \in 1..Len(r) PROVE (s \o t)[i] = r[i]
  BY <1>1
<1> QED BY <1>1, <1>2, <1>3, SeqEqual

(* The reset, and the reset that is noted.                                 *)
LEMMA ResetCode ==
    /\ CodeOK(rv_timer_reset) /\ CodeOK(timer_reset)
<1> DEFINE a1 == Access("ctrl", FALSE)
           a2 == Access("intr_enable", FALSE)
           a3 == Access("intr_state", FALSE)
           a4 == CmpUpper(W - 1)
           a5 == CmpLower(W - 1)
           a6 == Access("mtime_lower", 0)
           a7 == Access("mtime_upper", 0)
           z == [do |-> "zero"]
           m == Value(AllOnes)
           d == Armed(m)
           r == <<a1, a2, a3, a4, a5, a4, a6, a7>>
           c == <<z, a1, a2, a3, a4, a5, a4, a6, a7, d>>
<1>1. AllOnes \in [hi : Words, lo : Words] /\ Pair(m) = AllOnes /\ m \in Values
  BY ValueIs, TimerAssumption DEF AllOnes, Words
<1>2. {a1, a2, a3, a6, a7, z} \subseteq Plain
  BY PlainSteps
<1>3. {a4, a5, d} \subseteq Steps
  BY <1>1, TimerAssumption
  DEF Steps, Accesses, Computations, CmpUpper, CmpLower, Words
<1>4. /\ rv_timer_reset = <<a1, a2, a3>> \o <<a4, a5, a4>> \o <<a6, a7>>
      /\ timer_reset = <<z>> \o rv_timer_reset \o <<d>>
  BY <1>1 DEF rv_timer_reset, rv_timer_arm, timer_reset, Do, CmpUpper, CmpLower, AllOnes, Armed
<1>5. \A v : /\ a5 = CmpUpper(v) \/ a5 = CmpLower(v) => v = W - 1
             /\ a4 = CmpUpper(v) \/ a4 = CmpLower(v) => v = W - 1
             /\ d # CmpUpper(v) /\ d # CmpLower(v)
  BY DEF CmpUpper, CmpLower, Access, Armed
<1>6. \A t : a4 # Armed(t) /\ a5 # Armed(t) /\ (d = Armed(t) => t = m)
  BY DEF CmpUpper, CmpLower, Access, Armed
<1> HIDE DEF a1, a2, a3, a4, a5, a6, a7, z, m, d
<1>7. {a1, a2, a3, a4, a5, a6, a7, z, d} \subseteq Steps
  BY <1>2, <1>3 DEF Plain
<1>8. <<a1, a2, a3>> \o <<a4, a5, a4>> \o <<a6, a7>> = r
  <2>1. <<a1, a2, a3>> \o <<a4, a5, a4>> = <<a1, a2, a3, a4, a5, a4>>
    BY Join3And3
  <2>2. <<a1, a2, a3, a4, a5, a4>> \o <<a6, a7>> = r
    BY Join6And2
  <2> QED BY <2>1, <2>2
<1>9. <<z>> \o r \o <<d>> = c
  <2>1. <<z>> \o r = <<z, a1, a2, a3, a4, a5, a4, a6, a7>>
    BY Join1And8
  <2>2. <<z, a1, a2, a3, a4, a5, a4, a6, a7>> \o <<d>> = c
    BY Join9And1
  <2> QED BY <2>1, <2>2
<1>10. CodeOK(r)
  <2>1. r \in Seq(Steps) /\ Len(r) = 8
    BY <1>7
  <2>2. CmpWrites(r)
    BY <1>2, <1>5 DEF CmpWrites, Plain
  <2>3. \A i \in 1..8, t \in Values : r[i] # Armed(t)
    BY <1>2, <1>6 DEF Plain
  <2> QED BY <2>1, <2>2, <2>3 DEF CodeOK
<1>11. CodeOK(c)
  <2>1. c \in Seq(Steps) /\ Len(c) = 10
    BY <1>7
  <2>2. CmpWrites(c)
    BY <1>2, <1>5 DEF CmpWrites, Plain
  <2>3. ASSUME NEW i \in 1..10, NEW t \in Values, c[i] = Armed(t)
        PROVE  i = 10 /\ ResetShape(c, i, t)
    <3>1. i = 10 /\ t = m
      BY <1>2, <1>6, <2>3 DEF Plain
    <3> QED BY <3>1 DEF ResetShape, a4, a5, a6, a7, m
  <2> QED BY <2>1, <2>2, <2>3 DEF CodeOK
<1> QED BY <1>4, <1>8, <1>9, <1>10, <1>11

(* A threshold is noted, written and noted as armed.                       *)
LEMMA ArmCode ==
    ASSUME NEW t \in Values
    PROVE  CodeOK(timer_arm_set(t))
<1> DEFINE a == Arming(t)
           u == CmpUpper(W - 1)
           l == CmpLower(Pair(t).lo)
           h == CmpUpper(Pair(t).hi)
           d == Armed(t)
           c == <<a, u, l, h, d>>
<1>1. Pair(t).hi \in Words /\ Pair(t).lo \in Words /\ W - 1 \in Words
  <2>1. t \in Nat /\ t < W * W
    BY TimerAssumption DEF Values
  <2> QED BY <2>1, PairIs, TimerAssumption DEF Words
<1>2. {u, l, h} \subseteq Steps
  BY <1>1 DEF Steps, Accesses, CmpUpper, CmpLower
<1>3. a \in Steps /\ d \in Steps
  BY DEF Steps, Computations
<1>4. timer_arm_set(t) = <<a>> \o <<u, l, h>> \o <<d>>
  BY DEF timer_arm_set, rv_timer_arm, Arming, Armed, CmpUpper, CmpLower
<1>5. \A v : /\ u = CmpUpper(v) \/ u = CmpLower(v) => v = W - 1
             /\ a # CmpUpper(v) /\ a # CmpLower(v)
             /\ d # CmpUpper(v) /\ d # CmpLower(v)
  BY DEF CmpUpper, CmpLower, Access, Armed, Arming
<1>6. \A x : /\ u # Armed(x) /\ l # Armed(x) /\ h # Armed(x) /\ a # Armed(x)
             /\ d = Armed(x) => x = t
  BY DEF CmpUpper, CmpLower, Access, Armed, Arming
<1>7. ArmShape(c, 5, t)
  BY DEF ArmShape
<1> HIDE DEF a, u, l, h, d
<1>8. <<a>> \o <<u, l, h>> \o <<d>> = c
  <2>1. <<a>> \o <<u, l, h>> = <<a, u, l, h>>
    BY Join1And3
  <2>2. <<a, u, l, h>> \o <<d>> = c
    BY Join4And1
  <2> QED BY <2>1, <2>2
<1>9. c \in Seq(Steps) /\ Len(c) = 5
  BY <1>2, <1>3
<1>10. CmpWrites(c)
  <2> SUFFICES ASSUME NEW i \in 1..5, NEW v, c[i] \in {CmpUpper(v), CmpLower(v)},
                      v # W - 1
               PROVE  \/ i + 1 <= 5 /\ c[i + 1] = Armed(t)
                      \/ i + 2 <= 5 /\ c[i + 2] = Armed(t)
    BY <1>9 DEF CmpWrites
  <2>1. i = 3 \/ i = 4
    BY <1>5
  <2> QED BY <2>1 DEF d
<1>11. ASSUME NEW i \in 1..5, NEW x \in Values, c[i] = Armed(x)
       PROVE  i >= 5 /\ ArmShape(c, i, x)
  <2>1. i = 5 /\ x = t
    BY <1>6, <1>11
  <2> QED BY <2>1, <1>7
<1> QED BY <1>4, <1>8, <1>9, <1>10, <1>11 DEF CodeOK

(* The functions the properties are about.                                 *)
U == Access("read_upper", 0)
L == Access("read_lower", 0)
C == Access("check_upper", 0)
Sub == [do |-> "subtract"]
Add == [do |-> "add"]
On == Access("ctrl", TRUE)
Off == Access("ctrl", FALSE)

LEMMA ShortCodes ==
    /\ timer_get_cycles = <<U, L, C>>
    /\ timer_start = <<U, L, C, Sub, On>>
    /\ timer_stop = <<U, L, C, Add, Off>>
    /\ CodeOK(timer_get_cycles) /\ CodeOK(timer_start) /\ CodeOK(timer_stop)
<1>1. {U, L, C, Sub, Add, On, Off} \subseteq Plain
  BY PlainSteps DEF U, L, C, Sub, Add, On, Off
<1>2. /\ timer_get_cycles = <<U, L, C>>
      /\ timer_start = <<U, L, C>> \o <<Sub>> \o <<On>>
      /\ timer_stop = <<U, L, C>> \o <<Add>> \o <<Off>>
  BY DEF timer_get_cycles, timer_start, timer_stop, rv_timer_counter_read,
         rv_timer_counter_set_enabled, Do, U, L, C, Sub, Add, On, Off
<1>3. timer_start = <<U, L, C, Sub, On>>
  <2>1. <<U, L, C>> \o <<Sub>> = <<U, L, C, Sub>>
    BY Join3And1
  <2>2. <<U, L, C, Sub>> \o <<On>> = <<U, L, C, Sub, On>>
    BY Join4And1
  <2> QED BY <1>2, <2>1, <2>2
<1>4. timer_stop = <<U, L, C, Add, Off>>
  <2>1. <<U, L, C>> \o <<Add>> = <<U, L, C, Add>>
    BY Join3And1
  <2>2. <<U, L, C, Add>> \o <<Off>> = <<U, L, C, Add, Off>>
    BY Join4And1
  <2> QED BY <1>2, <2>1, <2>2
<1>5. /\ <<U, L, C>> \in Seq(Plain)
      /\ <<U, L, C, Sub, On>> \in Seq(Plain)
      /\ <<U, L, C, Add, Off>> \in Seq(Plain)
  BY <1>1
<1> QED BY <1>2, <1>3, <1>4, <1>5, PlainCode

(* The functions of one access or two.                                     *)
LEMMA OneStepCodes ==
    /\ \A on \in BOOLEAN : /\ CodeOK(rv_timer_counter_set_enabled(on))
                           /\ CodeOK(rv_timer_irq_enable(on))
                           /\ CodeOK(rv_timer_irq_restore(on))
    /\ CodeOK(rv_timer_irq_disable) /\ CodeOK(rv_timer_irq_clear)
    /\ CodeOK(rv_timer_irq_force) /\ CodeOK(Do("wfi"))
    /\ \A p \in Rates : CodeOK(rv_timer_set_tick_params(p))
<1>1. ASSUME NEW a \in Plain PROVE CodeOK(<<a>>)
  <2>1. <<a>> \in Seq(Plain)
    OBVIOUS
  <2> QED BY <2>1, PlainCode
<1>2. ASSUME NEW r \in {"ctrl", "intr_enable", "intr_state", "intr_test"},
             NEW b \in BOOLEAN
      PROVE  CodeOK(<<Access(r, b)>>)
  BY <1>1, PlainSteps
<1> QED BY <1>1, <1>2, PlainSteps
DEF rv_timer_counter_set_enabled, rv_timer_irq_enable, rv_timer_irq_restore,
    rv_timer_irq_disable, rv_timer_irq_clear, rv_timer_irq_force, Do,
    rv_timer_set_tick_params

LEMMA FunctionCodes ==
    ASSUME NEW f \in Functions
    PROVE  /\ CodeOK(f.code)
           /\ f.name = "timer_get_cycles" => f.code = <<U, L, C>>
           /\ f.name = "timer_start" => f.code = <<U, L, C, Sub, On>>
           /\ f.name = "timer_stop" => f.code = <<U, L, C, Add, Off>>
<1>1. \A t \in Thresholds : t \in Values
  BY SdkAssumption DEF Values
<1>2. \A us \in Waits : WaitThreshold(us) \in Values
  <2> TAKE us \in Waits
  <2> DEFINE n == W + us * CyclesPerUs - Lead
  <2>1. us * CyclesPerUs \in Nat /\ Lead \in 0..W /\ W \in Nat /\ W > 1
    BY SdkAssumption, TimerAssumption
  <2>2. n \in Nat
    BY <2>1
  <2> HIDE DEF n
  <2>3. n % W \in 0..W - 1
    BY <2>1, <2>2
  <2>4. W <= W * W
    BY <2>1
  <2>5. n % W \in 0..W * W - 1
    BY <2>1, <2>3, <2>4
  <2> QED BY <2>5 DEF WaitThreshold, Values, n
<1>3. \A t \in Values : CodeOK(timer_arm_set(t)) /\ CodeOK(timer_arm_start(t))
  BY ArmCode, ShortCodes, CodesOneAfterAnother DEF timer_arm_start
<1>4. CodeOK(timer_cycles_init)
  <2> DEFINE p == rv_timer_approximate_tick_params(1, 1)[1]
  <2>1. p \in Rates
    BY UnitRate
  <2> HIDE DEF p
  <2>2. CodeOK(rv_timer_set_tick_params(p))
    BY <2>1, OneStepCodes
  <2>3. timer_cycles_init = timer_reset \o rv_timer_init \o rv_timer_set_tick_params(p)
    BY DEF timer_cycles_init, p
  <2>4. CodeOK(timer_reset \o rv_timer_init)
    BY ResetCode, CodesOneAfterAnother DEF rv_timer_init
  <2> QED BY <2>2, <2>3, <2>4, CodesOneAfterAnother
<1>5. ASSUME NEW us \in Waits
      PROVE  CodeOK(timer_wait_us(us))
  <2> DEFINE a == timer_cycles_init
             b == rv_timer_irq_enable(TRUE)
             c == timer_arm_start(WaitThreshold(us))
             d == Do("wfi")
             e == rv_timer_irq_clear
  <2>1. CodeOK(a) /\ CodeOK(b) /\ CodeOK(c) /\ CodeOK(d) /\ CodeOK(e)
    BY <1>2, <1>3, <1>4, OneStepCodes
  <2>2. timer_wait_us(us) = a \o b \o c \o d \o e
    BY DEF timer_wait_us
  <2> HIDE DEF a, b, c, d, e
  <2>3. CodeOK(a \o b)
    BY <2>1, CodesOneAfterAnother
  <2>4. CodeOK(a \o b \o c)
    BY <2>1, <2>3, CodesOneAfterAnother
  <2>5. CodeOK(a \o b \o c \o d)
    BY <2>1, <2>4, CodesOneAfterAnother
  <2>6. CodeOK(a \o b \o c \o d \o e)
    BY <2>1, <2>5, CodesOneAfterAnother
  <2> QED BY <2>2, <2>6
<1>6. /\ CodeOK(timer_start) /\ CodeOK(timer_stop) /\ CodeOK(timer_get_cycles)
      /\ CodeOK(timer_reset) /\ CodeOK(rv_timer_irq_clear) /\ CodeOK(rv_timer_irq_force)
      /\ CodeOK(rv_timer_irq_disable)
      /\ \A on \in BOOLEAN : CodeOK(rv_timer_irq_enable(on)) /\ CodeOK(rv_timer_irq_restore(on))
  BY ShortCodes, ResetCode, OneStepCodes
<1>7. CodeOK(f.code)
  BY <1>1, <1>3, <1>4, <1>5, <1>6 DEF Functions
<1>8. f.name = "timer_get_cycles" => f.code = timer_get_cycles
  BY DEF Functions
<1>9. f.name = "timer_start" => f.code = timer_start
  BY DEF Functions
<1>10. f.name = "timer_stop" => f.code = timer_stop
  BY DEF Functions
<1> QED BY <1>7, <1>8, <1>9, <1>10, ShortCodes

-----------------------------------------------------------------------------
(* The alarm                                                               *)

\* What has been written when the note that t is armed is the i-th step to come.
ArmHere(p, i, t, cmp, set) ==
    /\ ArmShape(p, i, t)
    /\ i <= 4 => t \in set
    /\ i = 3 => cmp.hi = W - 1
    /\ i = 2 => cmp.hi = W - 1 /\ cmp.lo = Pair(t).lo
    /\ i = 1 => cmp = Pair(t)

ResetHere(p, i, t, cmp) ==
    /\ ResetShape(p, i, t)
    /\ i <= 4 => cmp.lo = W - 1
    /\ i <= 3 => cmp.hi = W - 1

\* The comparator is never below the thresholds in force, and stays so whatever
\* the rest of the function writes.
AlarmOf(p, cmp, set) ==
    /\ CmpWrites(p)
    /\ \E t \in set : t <= Value(cmp)
    /\ \A i \in 1..Len(p), t \in Values :
          p[i] = Armed(t) => ArmHere(p, i, t, cmp, set) \/ ResetHere(p, i, t, cmp)

Cmps == [hi : Words, lo : Words]

\* What a step does to the comparator and to the thresholds in force.
Done(a, cmp, set, cmp2, set2) ==
    /\ \A v : a = CmpUpper(v) => cmp2 = [cmp EXCEPT !.hi = v] /\ set2 = set
    /\ \A v : a = CmpLower(v) => cmp2 = [cmp EXCEPT !.lo = v] /\ set2 = set
    /\ \A t : a = Arming(t) => cmp2 = cmp /\ set2 = set \cup {t}
    /\ \A t : a = Armed(t) => cmp2 = cmp /\ set2 = {t}
    /\ (\A v : a # CmpUpper(v) /\ a # CmpLower(v) /\ a # Arming(v) /\ a # Armed(v))
          => cmp2 = cmp /\ set2 = set

(* The steps the alarm is about differ from one another.                   *)
LEMMA Apart ==
    ASSUME NEW v, NEW t
    PROVE  /\ CmpUpper(v) # CmpLower(t) /\ CmpUpper(v) # Armed(t) /\ CmpUpper(v) # Arming(t)
           /\ CmpLower(v) # Armed(t) /\ CmpLower(v) # Arming(t) /\ Armed(v) # Arming(t)
           /\ \A r \in {"mtime_upper", "mtime_lower", "read_upper", "read_lower", "check_upper"} :
                 /\ Access(r, 0) # CmpUpper(v) /\ Access(r, 0) # CmpLower(v)
                 /\ Access(r, 0) # Armed(v) /\ Access(r, 0) # Arming(v)
           /\ \A w \in {"subtract", "add", "zero", "wfi", "asleep"} :
                 /\ [do |-> w] # CmpUpper(v) /\ [do |-> w] # CmpLower(v)
                 /\ [do |-> w] # Armed(v) /\ [do |-> w] # Arming(v)
           /\ CmpUpper(v) = CmpUpper(t) => v = t
           /\ CmpLower(v) = CmpLower(t) => v = t
           /\ Armed(v) = Armed(t) => v = t
BY DEF CmpUpper, CmpLower, Armed, Arming, Access

(* A greater half makes a greater value.                                   *)
LEMMA Greater ==
    ASSUME NEW p \in Cmps, NEW q \in Cmps, p.hi <= q.hi, p.lo <= q.lo
    PROVE  Value(p) <= Value(q)
<1> DEFINE a == p.hi
           b == q.hi
           x == p.lo
           y == q.lo
<1>1. W \in Nat /\ a \in Nat /\ b \in Nat /\ x \in Nat /\ y \in Nat /\ a <= b /\ x <= y
  BY TimerAssumption DEF Cmps, Words
<1>2. a * W <= b * W
  <2>1. b = a + (b - a) /\ b - a \in Nat
    BY <1>1
  <2> DEFINE d == b - a
  <2>2. d * W \in Nat
    BY <1>1, <2>1
  <2>3. b * W = a * W + d * W
    BY <1>1, <2>1
  <2>4. a * W \in Nat
    BY <1>1
  <2> HIDE DEF a, b, d
  <2> QED BY <2>2, <2>3, <2>4
<1>3. a * W \in Nat /\ b * W \in Nat
  BY <1>1
<1> DEFINE m == a * W
           n == b * W
<1> HIDE DEF m, n
<1>4. m + x <= n + y
  BY <1>1, <1>2, <1>3 DEF m, n
<1> QED BY <1>4 DEF Value, m, n

(* One step further.                                                       *)
LEMMA AlarmStep ==
    ASSUME NEW p \in Seq(Steps), p # <<>>, NEW cmp \in Cmps, NEW cmp2 \in Cmps,
           NEW set \in SUBSET Values, NEW set2,
           AlarmOf(p, cmp, set), Done(p[1], cmp, set, cmp2, set2)
    PROVE  AlarmOf(Tail(p), cmp2, set2)
<1> DEFINE q == Tail(p)
<1>1. /\ q \in Seq(Steps) /\ Len(p) = Len(q) + 1 /\ Len(q) \in Nat
      /\ \A i \in 1..Len(q) : q[i] = p[i + 1]
  OBVIOUS
<1>2. \A i \in 1..Len(q) : i + 1 \in 1..Len(p)
  BY <1>1
<1> HIDE DEF q
<1>3. CmpWrites(q)
  <2> SUFFICES ASSUME NEW i \in 1..Len(q), NEW v, q[i] \in {CmpUpper(v), CmpLower(v)},
                      v # W - 1
               PROVE  \E t \in Values : \/ i + 1 <= Len(q) /\ q[i + 1] = Armed(t)
                                        \/ i + 2 <= Len(q) /\ q[i + 2] = Armed(t)
    BY DEF CmpWrites
  <2>1. p[i + 1] \in {CmpUpper(v), CmpLower(v)}
    BY <1>1
  <2>2. PICK t \in Values : \/ i + 2 <= Len(p) /\ p[i + 2] = Armed(t)
                            \/ i + 3 <= Len(p) /\ p[i + 3] = Armed(t)
    BY <1>2, <2>1 DEF AlarmOf, CmpWrites
  <2>3. CASE i + 2 <= Len(p) /\ p[i + 2] = Armed(t)
    <3>1. i + 1 \in 1..Len(q) /\ (i + 1) + 1 = i + 2
      BY <1>1, <2>3
    <3> QED BY <1>1, <2>3, <3>1
  <2>4. CASE i + 3 <= Len(p) /\ p[i + 3] = Armed(t)
    <3>1. i + 2 \in 1..Len(q) /\ (i + 2) + 1 = i + 3
      BY <1>1, <2>4
    <3> QED BY <1>1, <2>4, <3>1
  <2> QED BY <2>2, <2>3, <2>4
<1>4. \A i \in 1..Len(p), t \in Values :
         p[i] = Armed(t) => ArmHere(p, i, t, cmp, set) \/ ResetHere(p, i, t, cmp)
  BY DEF AlarmOf
<1>5. p[1] \in Steps /\ W \in Nat /\ W > 1
  BY TimerAssumption
<1>6. \E t \in set2 : t <= Value(cmp2)
  <2>1. PICK t \in set : t <= Value(cmp)
    BY DEF AlarmOf
  <2>2. t \in Nat /\ Value(cmp) \in Nat /\ Value(cmp2) \in Nat
    <3>1. W * W \in Nat
      BY <1>5
    <3> QED BY <3>1, ValueIs DEF Values, Cmps
  <2>3. ASSUME NEW v, p[1] = CmpUpper(v) \/ p[1] = CmpLower(v)
        PROVE  \E x \in set2 : x <= Value(cmp2)
    <3>1. /\ set2 = set
          /\ p[1] = CmpUpper(v) => cmp2 = [cmp EXCEPT !.hi = v]
          /\ p[1] = CmpLower(v) => cmp2 = [cmp EXCEPT !.lo = v]
      BY <2>3 DEF Done
    <3>2. CASE v = W - 1
      <4>1. cmp.hi <= cmp2.hi /\ cmp.lo <= cmp2.lo
        BY <1>5, <2>3, <3>1, <3>2 DEF Cmps, Words
      <4>2. Value(cmp) <= Value(cmp2)
        BY <4>1, Greater
      <4> QED BY <2>1, <2>2, <3>1, <4>2
    <3>3. CASE v # W - 1
      <4>1. PICK x \in Values : \/ 2 <= Len(p) /\ p[2] = Armed(x)
                                \/ 3 <= Len(p) /\ p[3] = Armed(x)
        <5>1. 1 \in 1..Len(p) /\ 1 + 1 = 2 /\ 1 + 2 = 3
          BY <1>1
        <5> QED BY <2>3, <3>3, <5>1 DEF AlarmOf, CmpWrites
      <4>2. CASE 2 <= Len(p) /\ p[2] = Armed(x)
        <5>1. ArmHere(p, 2, x, cmp, set) \/ ResetHere(p, 2, x, cmp)
          BY <1>1, <1>4, <4>2
        <5>2. p[1] # Access("mtime_upper", 0)
          BY <2>3, Apart
        <5>3. p[1] = CmpUpper(Pair(x).hi) /\ x \in set /\ cmp.lo = Pair(x).lo
          BY <5>1, <5>2 DEF ArmHere, ArmShape, ResetHere, ResetShape
        <5>4. cmp2.hi = Pair(x).hi /\ cmp2.lo = Pair(x).lo
          BY <5>3 DEF Done, Cmps
        <5>5. Value(cmp2) = Value(Pair(x)) /\ Value(Pair(x)) = x
          <6>1. x \in Nat
            BY <1>5 DEF Values
          <6> QED BY <5>4, <6>1, PairIs DEF Value
        <5> QED BY <2>2, <3>1, <5>3, <5>5
      <4>3. CASE 3 <= Len(p) /\ p[3] = Armed(x)
        <5>1. ArmHere(p, 3, x, cmp, set) \/ ResetHere(p, 3, x, cmp)
          BY <1>1, <1>4, <4>3
        <5>2. p[1] # Access("mtime_lower", 0)
          BY <2>3, Apart
        <5>3. p[1] = CmpLower(Pair(x).lo) /\ x \in set /\ cmp.hi = W - 1
          BY <5>1, <5>2 DEF ArmHere, ArmShape, ResetHere, ResetShape
        <5>4. cmp2.hi = W - 1 /\ cmp2.lo = Pair(x).lo
          BY <5>3 DEF Done, Cmps
        <5>5. x \in Nat /\ x < W * W
          BY <1>5 DEF Values
        <5>6. Pair(x) \in Cmps /\ Value(Pair(x)) = x
          BY <5>5, PairIs DEF Cmps
        <5>7. Value(Pair(x)) <= Value(cmp2)
          <6>1. Pair(x).hi <= cmp2.hi /\ Pair(x).lo <= cmp2.lo
            BY <1>5, <5>4, <5>6 DEF Cmps, Words
          <6> QED BY <5>6, <6>1, Greater
        <5> QED BY <3>1, <5>3, <5>6, <5>7
      <4> QED BY <4>1, <4>2, <4>3
    <3> QED BY <3>2, <3>3
  <2>4. ASSUME NEW x, p[1] = Arming(x)
        PROVE  \E y \in set2 : y <= Value(cmp2)
    BY <2>1, <2>4 DEF Done
  <2>5. ASSUME NEW x \in Values, p[1] = Armed(x)
        PROVE  \E y \in set2 : y <= Value(cmp2)
    <3>1. set2 = {x} /\ cmp2 = cmp
      BY <2>5 DEF Done
    <3>2. ArmHere(p, 1, x, cmp, set) \/ ResetHere(p, 1, x, cmp)
      BY <1>1, <1>4, <2>5
    <3>3. x \in Nat
      BY <1>5 DEF Values
    <3>4. CASE ArmHere(p, 1, x, cmp, set)
      <4>1. Value(cmp) = x
        BY <3>3, <3>4, PairIs DEF ArmHere
      <4> QED BY <3>1, <3>3, <4>1
    <3>5. CASE ResetHere(p, 1, x, cmp)
      <4>1. cmp.lo = W - 1 /\ cmp.hi = W - 1 /\ x = Value(AllOnes)
        BY <3>5 DEF ResetHere, ResetShape
      <4>2. Value(cmp) = x
        BY <4>1 DEF Value, AllOnes
      <4> QED BY <3>1, <3>3, <4>2
    <3> QED BY <3>2, <3>4, <3>5
  <2>6. CASE \A v : p[1] # CmpUpper(v) /\ p[1] # CmpLower(v) /\ p[1] # Arming(v) /\ p[1] # Armed(v)
    BY <2>1, <2>6 DEF Done
  <2>7. ASSUME NEW x, p[1] = Armed(x)
        PROVE  x \in Values
    BY <1>5, <2>7, StepIs DEF Armed, Steps, Computations, Accesses, Access, Arming
  <2> QED BY <2>3, <2>4, <2>5, <2>6, <2>7
<1>7. ASSUME NEW i \in 1..Len(q), NEW t \in Values, q[i] = Armed(t)
      PROVE  ArmHere(q, i, t, cmp2, set2) \/ ResetHere(q, i, t, cmp2)
  <2>1. ArmHere(p, i + 1, t, cmp, set) \/ ResetHere(p, i + 1, t, cmp)
    BY <1>1, <1>2, <1>4, <1>7
  <2>2. \A k \in 1..4 : i > k => q[i - k] = p[(i + 1) - k]
    <3> SUFFICES ASSUME NEW k \in 1..4, i > k
                 PROVE  q[i - k] = p[(i + 1) - k]
      OBVIOUS
    <3>1. i - k \in 1..Len(q) /\ (i - k) + 1 = (i + 1) - k
      BY <1>1
    <3> QED BY <1>1, <3>1
  <2>3. CASE ArmHere(p, i + 1, t, cmp, set)
    <3>1. ArmShape(p, i + 1, t)
      BY <2>3 DEF ArmHere
    <3>2. ArmShape(q, i, t)
      BY <1>1, <2>2, <3>1 DEF ArmShape
    <3>3. /\ i = 4 => p[1] = Arming(t)
          /\ i = 3 => p[1] = CmpUpper(W - 1)
          /\ i = 2 => p[1] = CmpLower(Pair(t).lo)
          /\ i = 1 => p[1] = CmpUpper(Pair(t).hi)
      BY <1>1, <3>1 DEF ArmShape
    <3>4. i < 4 => set2 = set /\ t \in set
      BY <2>3, <3>3, <1>1 DEF ArmHere, Done
    <3>5. i = 4 => t \in set2
      BY <3>3 DEF Done
    <3>6. i = 3 => cmp2.hi = W - 1
      BY <3>3 DEF Done, Cmps
    <3>7. i = 2 => cmp2.hi = W - 1 /\ cmp2.lo = Pair(t).lo
      BY <2>3, <3>3 DEF Done, Cmps, ArmHere
    <3>8. i = 1 => cmp2 = Pair(t)
      <4> SUFFICES ASSUME i = 1 PROVE cmp2 = Pair(t)
        OBVIOUS
      <4>1. cmp.lo = Pair(t).lo
        BY <2>3 DEF ArmHere
      <4>2. cmp2 = [cmp EXCEPT !.hi = Pair(t).hi]
        BY <3>3 DEF Done
      <4>3. cmp = [hi |-> cmp.hi, lo |-> cmp.lo]
        BY DEF Cmps
      <4> QED BY <4>1, <4>2, <4>3 DEF Pair
    <3> QED BY <1>1, <3>2, <3>4, <3>5, <3>6, <3>7, <3>8 DEF ArmHere
  <2>4. CASE ResetHere(p, i + 1, t, cmp)
    <3>1. ResetShape(p, i + 1, t)
      BY <2>4 DEF ResetHere
    <3>2. ResetShape(q, i, t)
      BY <1>1, <2>2, <3>1 DEF ResetShape
    <3>3. /\ i = 4 => p[1] = CmpLower(W - 1)
          /\ i = 3 => p[1] = CmpUpper(W - 1)
          /\ i = 2 => p[1] = Access("mtime_lower", 0)
          /\ i = 1 => p[1] = Access("mtime_upper", 0)
      BY <1>1, <3>1 DEF ResetShape
    <3>4. i = 4 => cmp2.lo = W - 1
      BY <3>3 DEF Done, Cmps
    <3>5. i = 3 => cmp2.lo = W - 1 /\ cmp2.hi = W - 1
      BY <2>4, <3>3 DEF Done, Cmps, ResetHere
    <3>6. i \in {1, 2} => cmp2 = cmp /\ cmp.lo = W - 1 /\ cmp.hi = W - 1
      BY <2>4, <3>3, Apart DEF Done, ResetHere
    <3> QED BY <1>1, <3>2, <3>4, <3>5, <3>6 DEF ResetHere
  <2> QED BY <2>1, <2>3, <2>4
<1> QED BY <1>3, <1>6, <1>7 DEF AlarmOf, q

(* A step that is replaced by others the alarm does not depend on.         *)
LEMMA AlarmStays ==
    ASSUME NEW p \in Seq(Steps), p # <<>>, NEW cmp, NEW set,
           NEW s \in Seq(Plain), Len(s) >= 1,
           p[1] \in {C, [do |-> "wfi"]}, AlarmOf(p, cmp, set)
    PROVE  AlarmOf(s \o Tail(p), cmp, set)
<1> DEFINE u == Tail(p)
           q == s \o u
           m == Len(s) - 1
<1>1. /\ u \in Seq(Steps) /\ Len(p) = Len(u) + 1 /\ Len(u) \in Nat
      /\ \A i \in 1..Len(u) : u[i] = p[i + 1]
  OBVIOUS
<1>2. s \in Seq(Steps) /\ m \in Nat /\ Len(s) = m + 1
  <2>1. s \in Seq(Steps)
    BY SeqMonotonic DEF Plain
  <2> QED BY <2>1
<1>3. \A i \in 1..Len(s) : s[i] \in Plain
  OBVIOUS
<1> HIDE DEF u, m
<1>4. /\ q \in Seq(Steps) /\ Len(q) = Len(p) + m /\ Len(p) \in Nat
      /\ \A i \in 1..Len(s) : q[i] = s[i]
      /\ \A i \in 1..Len(u) : q[Len(s) + i] = u[i]
  BY <1>1, <1>2
<1> HIDE DEF q
<1>5. \A i \in 2..Len(p) : q[m + i] = p[i] /\ m + i \in 1..Len(q)
  <2> TAKE i \in 2..Len(p)
  <2>1. i - 1 \in 1..Len(u) /\ Len(s) + (i - 1) = m + i /\ (i - 1) + 1 = i
    BY <1>1, <1>2
  <2>2. q[m + i] = u[i - 1] /\ u[i - 1] = p[i]
    BY <1>1, <1>4, <2>1
  <2> QED BY <1>2, <1>4, <2>2
<1>6. \A i \in 1..Len(q) : q[i] \in Plain \/ \E j \in 2..Len(p) : i = m + j
  <2> TAKE i \in 1..Len(q)
  <2>1. CASE i <= Len(s)
    BY <1>2, <1>3, <1>4, <2>1
  <2>2. CASE i > Len(s)
    <3>1. i - m \in 2..Len(p) /\ i = m + (i - m)
      BY <1>2, <1>4, <2>2
    <3> QED BY <3>1
  <2> QED BY <1>2, <1>4, <2>1, <2>2
<1>7. CmpWrites(q)
  <2> SUFFICES ASSUME NEW i \in 1..Len(q), NEW v, q[i] \in {CmpUpper(v), CmpLower(v)},
                      v # W - 1
               PROVE  \E t \in Values : \/ i + 1 <= Len(q) /\ q[i + 1] = Armed(t)
                                        \/ i + 2 <= Len(q) /\ q[i + 2] = Armed(t)
    BY DEF CmpWrites
  <2>1. PICK j \in 2..Len(p) : i = m + j
    BY <1>6 DEF Plain
  <2>2. PICK t \in Values : \/ j + 1 <= Len(p) /\ p[j + 1] = Armed(t)
                            \/ j + 2 <= Len(p) /\ p[j + 2] = Armed(t)
    <3>1. p[j] = q[i] /\ j \in 1..Len(p)
      BY <1>4, <1>5, <2>1
    <3> QED BY <3>1 DEF AlarmOf, CmpWrites
  <2>3. \A k \in 1..2 : j + k <= Len(p) => i + k <= Len(q) /\ q[i + k] = p[j + k]
    <3> SUFFICES ASSUME NEW k \in 1..2, j + k <= Len(p)
                 PROVE  i + k <= Len(q) /\ q[i + k] = p[j + k]
      OBVIOUS
    <3>1. j + k \in 2..Len(p) /\ i + k = m + (j + k)
      BY <1>2, <1>4, <2>1
    <3> QED BY <1>4, <1>5, <3>1
  <2> QED BY <2>2, <2>3
<1>8. ASSUME NEW i \in 1..Len(q), NEW t \in Values, q[i] = Armed(t)
      PROVE  ArmHere(q, i, t, cmp, set) \/ ResetHere(q, i, t, cmp)
  <2>1. PICK j \in 2..Len(p) : i = m + j
    BY <1>6, <1>8 DEF Plain
  <2>2. p[j] = Armed(t)
    BY <1>5, <1>8, <2>1
  <2>3. ArmHere(p, j, t, cmp, set) \/ ResetHere(p, j, t, cmp)
    BY <1>4, <2>2 DEF AlarmOf
  <2>4. /\ \A v : p[1] # CmpUpper(v) /\ p[1] # CmpLower(v) /\ p[1] # Arming(v)
        /\ p[1] # Access("mtime_upper", 0) /\ p[1] # Access("mtime_lower", 0)
    BY DEF C, Access, CmpUpper, CmpLower, Arming
  <2>5. ArmShape(p, j, t) \/ ResetShape(p, j, t)
    BY <2>3 DEF ArmHere, ResetHere
  <2>6. j >= 6
    <3>1. j \in Nat /\ j > 1
      BY <1>4
    <3>2. j # 2
      BY <2>4, <2>5 DEF ArmShape, ResetShape
    <3>3. j # 3
      BY <2>4, <2>5 DEF ArmShape, ResetShape
    <3>4. j # 4
      BY <2>4, <2>5 DEF ArmShape, ResetShape
    <3>5. j # 5
      BY <2>4, <2>5 DEF ArmShape, ResetShape
    <3> QED BY <3>1, <3>2, <3>3, <3>4, <3>5
  <2>7. i >= 6 /\ i \in Nat
    BY <1>2, <1>4, <2>1, <2>6
  <2>8. \A k \in 1..4 : q[i - k] = p[j - k]
    <3> TAKE k \in 1..4
    <3>1. j - k \in 2..Len(p) /\ i - k = m + (j - k)
      BY <1>2, <1>4, <2>1, <2>6
    <3> QED BY <1>5, <3>1
  <2>9. ArmShape(p, j, t) => ArmShape(q, i, t)
    BY <1>4, <2>6, <2>7, <2>8 DEF ArmShape
  <2>10. ResetShape(p, j, t) => ResetShape(q, i, t)
    BY <1>4, <2>6, <2>7, <2>8 DEF ResetShape
  <2> QED BY <2>5, <2>7, <2>9, <2>10 DEF ArmHere, ResetHere
<1> QED BY <1>7, <1>8 DEF AlarmOf, q, u

(* A function that is called.                                              *)
LEMMA AlarmCall ==
    ASSUME NEW c, CodeOK(c), NEW p, NEW cmp, NEW set, AlarmOf(p, cmp, set)
    PROVE  AlarmOf(c, cmp, set)
<1> SUFFICES ASSUME NEW i \in 1..Len(c), NEW t \in Values, c[i] = Armed(t)
             PROVE  ArmHere(c, i, t, cmp, set) \/ ResetHere(c, i, t, cmp)
  BY DEF AlarmOf, CodeOK
<1>1. i >= 5 /\ (ArmShape(c, i, t) \/ ResetShape(c, i, t))
  BY DEF CodeOK
<1>2. Len(c) \in Nat
  BY DEF CodeOK
<1> QED BY <1>1, <1>2 DEF ArmHere, ResetHere

-----------------------------------------------------------------------------
(* The invariant of the functions                                          *)

Clear == Access("intr_state", FALSE)

SdkTypes ==
    /\ mtime \in Cmps /\ mtimecmp \in Cmps /\ cfg \in Rates
    /\ upper \in Words /\ lower \in Words /\ hw_timer_value \in Words
    /\ prog \in Seq(Steps) /\ isr \in {<<>>, <<Clear>>, <<Off, Clear>>}
    /\ armed \subseteq Values

SdkInv == SdkTypes /\ AlarmOf(prog, mtimecmp, armed)

(* What an access does.                                                    *)
LEMMA WritesIs ==
    ASSUME NEW a \in Accesses, mtime \in Cmps, mtimecmp \in Cmps, cfg \in Rates, Writes(a)
    PROVE  /\ mtime' \in Cmps /\ mtimecmp' \in Cmps /\ cfg' \in Rates
           /\ a.reg \notin {"mtime_lower", "mtime_upper"} => mtime' = mtime
           /\ Done(a, mtimecmp, armed, mtimecmp', armed)
           /\ ~intr_state /\ intr_state' => a.reg = "intr_test"
<1>1. a \in Steps /\ IsAccess(a)
  BY StepIs DEF Steps
<1>2. /\ a = [reg |-> a.reg, value |-> a.value]
      /\ a.reg \in {"mtime_lower", "mtime_upper"} => a.value = 0
      /\ a.reg \in {"cmp_lower", "cmp_upper"} => a.value \in Words
      /\ a.reg = "cfg" => a.value \in Rates
      /\ \A t : a # Armed(t) /\ a # Arming(t)
  BY <1>1, StepIs
<1>3. 0 \in Words
  BY TimerAssumption DEF Words
<1>4. mtime' \in Cmps
  BY <1>2, <1>3 DEF Writes, Cmps
<1>5. mtimecmp' \in Cmps
  BY <1>2 DEF Writes, Cmps
<1>6. cfg' \in Rates
  BY <1>2 DEF Writes
<1>7. a.reg \notin {"mtime_lower", "mtime_upper"} => mtime' = mtime
  BY DEF Writes
<1>8. \A v : a = CmpUpper(v) => mtimecmp' = [mtimecmp EXCEPT !.hi = v]
  BY DEF Writes, CmpUpper, Access
<1>9. \A v : a = CmpLower(v) => mtimecmp' = [mtimecmp EXCEPT !.lo = v]
  BY DEF Writes, CmpLower, Access
<1>10. (\A v : a # CmpUpper(v) /\ a # CmpLower(v)) => mtimecmp' = mtimecmp
  <2>1. a.reg = "cmp_upper" => a = CmpUpper(a.value)
    BY <1>2 DEF CmpUpper, Access
  <2>2. a.reg = "cmp_lower" => a = CmpLower(a.value)
    BY <1>2 DEF CmpLower, Access
  <2> QED BY <2>1, <2>2 DEF Writes
<1>11. ~intr_state /\ intr_state' => a.reg = "intr_test"
  BY DEF Writes
<1> QED BY <1>2, <1>4, <1>5, <1>6, <1>7, <1>8, <1>9, <1>10, <1>11 DEF Done

(* The counter only goes up when it is not written.                        *)
LEMMA TickIs ==
    ASSUME mtime \in Cmps, cfg \in Rates, Tick
    PROVE  mtime' \in Cmps /\ Value(mtime) <= Value(mtime')
<1> DEFINE v == Value(mtime)
           n == W * W
           x == v + cfg.step
<1>1. v \in Nat /\ n \in Nat /\ cfg.step \in Nat
  BY TimerAssumption, ValueIs DEF Values, Cmps, Rates
<1>2. x < n /\ mtime' = Pair(x)
  BY DEF Tick
<1>3. x \in Nat /\ v <= x
  BY <1>1
<1> HIDE DEF x
<1>4. mtime' \in Cmps /\ Value(mtime') = x
  BY <1>2, <1>3, PairIs DEF Cmps
<1> QED BY <1>3, <1>4

LEMMA InitSdk == SdkInit => SdkInv
<1> SUFFICES ASSUME SdkInit PROVE SdkInv
  OBVIOUS
<1>1. AllOnes \in Cmps /\ 0 \in Words /\ Pair(0) \in Cmps
  <2>1. 0 < W * W
    BY TimerAssumption
  <2> QED BY <2>1, PairIs, TimerAssumption DEF AllOnes, Cmps, Words
<1>2. Value(AllOnes) \in Values
  BY <1>1, ValueIs DEF Cmps
<1>3. SdkTypes
  BY <1>1, <1>2 DEF SdkInit, TimerInit, SdkTypes, Rates
<1>4. AlarmOf(prog, mtimecmp, armed)
  <2>1. Value(AllOnes) <= Value(AllOnes)
    <3>1. Value(AllOnes) \in Int
      BY <1>2, TimerAssumption DEF Values
    <3> QED BY <3>1
  <2> QED BY <2>1 DEF SdkInit, TimerInit, AlarmOf, CmpWrites
<1> QED BY <1>3, <1>4 DEF SdkInv

LEMMA SdkStep ==
    ASSUME SdkInv, [SdkNext]_vars
    PROVE  SdkInv'
<1> USE DEF SdkTypes
<1>1. SdkTypes /\ AlarmOf(prog, mtimecmp, armed)
  BY DEF SdkInv
<1>2. ASSUME NEW f \in Functions, Call(f)
      PROVE  SdkInv'
  <2>1. CodeOK(f.code)
    BY FunctionCodes
  <2>2. prog' = f.code /\ UNCHANGED <<timerVars, isr, upper, lower, hw_timer_value, armed>>
    BY <1>2 DEF Call
  <2>3. AlarmOf(prog', mtimecmp, armed)
    BY <1>1, <2>1, <2>2, AlarmCall
  <2>4. prog' \in Seq(Steps)
    BY <2>1, <2>2 DEF CodeOK
  <2> QED BY <1>1, <2>2, <2>3, <2>4 DEF SdkInv, timerVars
<1>3. ASSUME NEW clock \in Frequencies, NEW counter \in Frequencies,
             SetTickParams(clock, counter)
      PROVE  SdkInv'
  <2> DEFINE p == rv_timer_approximate_tick_params(clock, counter)[1]
             a == Access("cfg", p)
  <2>1. p \in Rates
    <3>1. clock \in Nat \ {0} /\ counter \in Nat \ {0}
      BY SdkAssumption
    <3> QED BY <1>3, <3>1, RatioKept DEF SetTickParams, Rates
  <2>2. Writes(a)
    BY <1>3 DEF SetTickParams, rv_timer_set_tick_params
  <2> HIDE DEF p
  <2>3. a \in Accesses /\ a.reg = "cfg" /\ \A v : a # CmpUpper(v) /\ a # CmpLower(v)
    BY <2>1 DEF Accesses, Access, CmpUpper, CmpLower
  <2> HIDE DEF a
  <2>4. /\ mtime' \in Cmps /\ mtimecmp' \in Cmps /\ cfg' \in Rates
        /\ Done(a, mtimecmp, armed, mtimecmp', armed)
    BY <1>1, <2>2, <2>3, WritesIs
  <2>5. \A t : a # Armed(t) /\ a # Arming(t)
    BY <2>3 DEF a, Access, Armed, Arming
  <2>6. mtimecmp' = mtimecmp
    BY <2>3, <2>4, <2>5 DEF Done
  <2> QED BY <1>1, <1>3, <2>4, <2>6 DEF SdkInv, SetTickParams
<1>4. CASE enable_timer_interrupt
  BY <1>1, <1>4 DEF enable_timer_interrupt, timerVars, SdkInv
<1>5. CASE WriteRegister
  <2>1. prog # <<>> /\ prog[1] \in Steps /\ IsAccess(prog[1])
    BY <1>1, <1>5 DEF WriteRegister, Running
  <2>2. prog[1] \in Accesses
    BY <2>1, StepIs
  <2>3. /\ mtime' \in Cmps /\ mtimecmp' \in Cmps /\ cfg' \in Rates
        /\ Done(prog[1], mtimecmp, armed, mtimecmp', armed)
    BY <1>1, <1>5, <2>2, WritesIs DEF WriteRegister
  <2>4. AlarmOf(Tail(prog), mtimecmp', armed)
    BY <1>1, <2>1, <2>3, AlarmStep
  <2>5. prog' = Tail(prog) /\ Tail(prog) \in Seq(Steps)
    BY <1>1, <1>5, <2>1 DEF WriteRegister, Leave
  <2> QED BY <1>1, <1>5, <2>3, <2>4, <2>5 DEF WriteRegister, SdkInv
<1>6. CASE ReadRegister
  <2>1. prog # <<>> /\ prog[1] \in Steps /\ IsAccess(prog[1])
    BY <1>1, <1>6 DEF ReadRegister, Running
  <2>2. Tail(prog) \in Seq(Steps)
    BY <1>1, <2>1
  <2>3. /\ upper' \in Words /\ lower' \in Words
        /\ UNCHANGED <<timerVars, isr, hw_timer_value, armed>>
    BY <1>1, <1>6 DEF ReadRegister, Cmps
  <2>4. prog[1].reg \in {"read_upper", "read_lower", "check_upper"}
    BY <1>6 DEF ReadRegister
  <2>5. \A v : /\ prog[1] # CmpUpper(v) /\ prog[1] # CmpLower(v)
               /\ prog[1] # Armed(v) /\ prog[1] # Arming(v)
    <3>1. prog[1] = [reg |-> prog[1].reg, value |-> prog[1].value]
      BY <2>1, StepIs
    <3>2. \A v : prog[1] # Armed(v) /\ prog[1] # Arming(v)
      BY <2>1, StepIs
    <3> QED BY <2>4, <3>2 DEF CmpUpper, CmpLower, Access
  <2>6. Done(prog[1], mtimecmp, armed, mtimecmp, armed)
    BY <2>5 DEF Done
  <2>7. AlarmOf(Tail(prog), mtimecmp, armed)
    BY <1>1, <2>1, <2>6, AlarmStep
  <2>8. CASE prog' = Tail(prog)
    BY <1>1, <2>2, <2>3, <2>7, <2>8 DEF SdkInv, timerVars
  <2>9. CASE prog[1].reg = "check_upper" /\ prog' = rv_timer_counter_read \o Tail(prog)
    <3>1. prog[1] = C
      <4>1. prog[1] \in Accesses
        BY <2>1, StepIs
      <4> QED BY <2>9, <4>1 DEF Accesses, Access, C
    <3>2. rv_timer_counter_read \in Seq(Plain) /\ Len(rv_timer_counter_read) >= 1
      <4>1. {U, L, C} \subseteq Plain
        BY PlainSteps DEF U, L, C
      <4> DEFINE r == <<U, L, C>>
      <4>2. r \in Seq(Plain) /\ Len(r) = 3
        BY <4>1
      <4>3. rv_timer_counter_read = r
        BY DEF rv_timer_counter_read, U, L, C
      <4> HIDE DEF r
      <4> QED BY <4>2, <4>3
    <3>3. AlarmOf(prog', mtimecmp, armed)
      BY <1>1, <2>1, <2>9, <3>1, <3>2, AlarmStays
    <3>4. prog' \in Seq(Steps)
      <4>1. rv_timer_counter_read \in Seq(Steps)
        BY <3>2, SeqMonotonic DEF Plain
      <4> QED BY <2>2, <2>9, <4>1
    <3> QED BY <1>1, <2>3, <3>3, <3>4 DEF SdkInv, timerVars
  <2> QED BY <1>6, <2>8, <2>9 DEF ReadRegister, Leave
<1>7. CASE Compute
  <2>1. prog # <<>> /\ prog[1] \in Steps /\ ~IsAccess(prog[1])
    BY <1>1, <1>7 DEF Compute, Running
  <2>2. prog' = Tail(prog) /\ Tail(prog) \in Seq(Steps)
    BY <1>1, <1>7, <2>1 DEF Compute, Leave
  <2>3. /\ prog[1].do \in {"subtract", "add", "zero", "wfi", "asleep", "arming", "armed"}
        /\ prog[1].do = "armed" => prog[1] = Armed(prog[1].threshold)
        /\ prog[1].do = "arming" => prog[1] = Arming(prog[1].threshold)
        /\ prog[1].do \in {"armed", "arming"} => prog[1].threshold \in Values
        /\ prog[1].do \notin {"armed", "arming"} => prog[1] = [do |-> prog[1].do]
    BY <2>1, StepIs
  <2>4. hw_timer_value' \in Words
    <3>1. W \in Nat /\ W > 1 /\ lower \in 0..W - 1 /\ hw_timer_value \in 0..W - 1
      BY <1>1, TimerAssumption DEF Words
    <3>2. (W - lower) % W \in 0..W - 1 /\ (hw_timer_value + lower) % W \in 0..W - 1
      BY <3>1
    <3> QED BY <1>1, <1>7, <3>1, <3>2 DEF Compute, Words
  <2>5. armed' \subseteq Values
    BY <1>1, <1>7, <2>3 DEF Compute
  <2>6. Done(prog[1], mtimecmp, armed, mtimecmp, armed')
    <3>1. \A v : prog[1] # CmpUpper(v) /\ prog[1] # CmpLower(v)
      BY <2>1 DEF IsAccess, CmpUpper, CmpLower, Access
    <3>2. \A t : prog[1] = Arming(t) => armed' = armed \cup {t}
      BY <1>7 DEF Compute, Arming
    <3>3. \A t : prog[1] = Armed(t) => armed' = {t}
      BY <1>7 DEF Compute, Armed
    <3>4. (\A t : prog[1] # Armed(t) /\ prog[1] # Arming(t)) => armed' = armed
      BY <1>7, <2>3 DEF Compute
    <3> QED BY <3>1, <3>2, <3>3, <3>4 DEF Done
  <2>7. AlarmOf(Tail(prog), mtimecmp, armed')
    BY <1>1, <2>1, <2>6, AlarmStep
  <2> QED BY <1>1, <1>7, <2>2, <2>4, <2>5, <2>7 DEF Compute, SdkInv, timerVars
<1>8. ASSUME prog # <<>>, prog[1] \in {[do |-> "wfi"], [do |-> "asleep"]}
      PROVE  Tail(prog) \in Seq(Steps) /\ AlarmOf(Tail(prog), mtimecmp, armed)
  <2>1. Done(prog[1], mtimecmp, armed, mtimecmp, armed)
    BY <1>8, Apart DEF Done
  <2> QED BY <1>1, <1>8, <2>1, AlarmStep
<1>9. CASE wfi
  <2>1. prog # <<>> /\ prog[1] \in {[do |-> "wfi"], [do |-> "asleep"]}
    BY <1>9 DEF wfi, Running
  <2>2. CASE prog' = Tail(prog)
    BY <1>1, <1>8, <1>9, <2>1, <2>2 DEF wfi, SdkInv, timerVars
  <2>3. CASE prog[1] = [do |-> "wfi"] /\ prog' = <<[do |-> "asleep"]>> \o Tail(prog)
    <3> DEFINE a == [do |-> "asleep"]
               s == <<a>>
    <3>1. a \in Plain
      BY PlainSteps
    <3> HIDE DEF a
    <3>2. s \in Seq(Plain) /\ Len(s) = 1 /\ s \in Seq(Steps)
      BY <3>1 DEF Plain
    <3> HIDE DEF s
    <3>3. prog' = s \o Tail(prog)
      BY <2>3 DEF s, a
    <3>4. AlarmOf(prog', mtimecmp, armed)
      BY <1>1, <2>1, <2>3, <3>2, <3>3, AlarmStays
    <3>5. prog' \in Seq(Steps)
      BY <1>8, <2>1, <3>2, <3>3
    <3> QED BY <1>1, <1>9, <3>4, <3>5 DEF wfi, SdkInv, timerVars
  <2> QED BY <1>9, <2>2, <2>3 DEF wfi, Leave
<1>10. CASE TakeInterrupt
  <2>1. isr' = <<Off, Clear>>
    <3>1. isr' = <<Off>> \o <<Clear>>
      BY <1>10 DEF TakeInterrupt, timer_arm_stop, rv_timer_counter_set_enabled,
                   rv_timer_irq_clear, Off, Clear
    <3> QED BY <3>1, Join1And1
  <2>2. prog' \in Seq(Steps) /\ AlarmOf(prog', mtimecmp, armed)
    BY <1>1, <1>8, <1>10 DEF TakeInterrupt
  <2> QED BY <1>1, <1>10, <2>1, <2>2 DEF TakeInterrupt, SdkInv, timerVars
<1>11. CASE handler_irq_timer
  <2>1. isr[1] \in {Off, Clear} /\ isr' \in {<<>>, <<Clear>>}
    <3>1. isr # <<>> /\ isr' = Tail(isr)
      BY <1>11 DEF handler_irq_timer
    <3>2. CASE isr = <<Clear>>
      <4>1. isr[1] = Clear /\ Tail(isr) = <<>>
        BY <3>2
      <4> QED BY <3>1, <4>1
    <3>3. CASE isr = <<Off, Clear>>
      <4>1. isr[1] = Off /\ Tail(isr) = <<Clear>>
        BY <3>3
      <4> QED BY <3>1, <4>1
    <3> QED BY <1>1, <3>1, <3>2, <3>3
  <2>2. isr[1] \in Plain /\ isr[1] \in Accesses
    <3>1. Off \in Plain /\ Clear \in Plain
      BY PlainSteps DEF Off, Clear
    <3>2. Off \in Accesses /\ Clear \in Accesses
      <4>1. IsAccess(Off) /\ IsAccess(Clear)
        BY DEF IsAccess, Off, Clear, Access
      <4> QED BY <3>1, <4>1, StepIs DEF Plain
    <3> QED BY <2>1, <3>1, <3>2
  <2>3. /\ mtime' \in Cmps /\ mtimecmp' \in Cmps /\ cfg' \in Rates
        /\ Done(isr[1], mtimecmp, armed, mtimecmp', armed)
    BY <1>1, <1>11, <2>2, WritesIs DEF handler_irq_timer
  <2>4. mtimecmp' = mtimecmp
    <3>1. \A v : isr[1] # Arming(v)
      BY <2>1 DEF Off, Clear, Access, Arming
    <3> QED BY <2>2, <2>3, <3>1 DEF Done, Plain
  <2> QED BY <1>1, <1>11, <2>1, <2>3, <2>4 DEF handler_irq_timer, SdkInv
<1>12. CASE Tick /\ UNCHANGED sdkVars
  <2>1. mtime' \in Cmps
    BY <1>1, <1>12, TickIs
  <2> QED BY <1>1, <1>12, <2>1 DEF Tick, sdkVars, SdkInv
<1>13. CASE Expire /\ UNCHANGED sdkVars
  BY <1>1, <1>13 DEF Expire, sdkVars, SdkInv
<1>14. CASE UNCHANGED vars
  BY <1>1, <1>14 DEF vars, timerVars, sdkVars, SdkInv
<1> QED BY <1>2, <1>3, <1>4, <1>5, <1>6, <1>7, <1>9, <1>10, <1>11, <1>12, <1>13, <1>14
        DEF SdkNext, Main, Handler

LEMMA SdkInvariant == SdkSpec => []SdkInv
<1>1. SdkInit => SdkInv
  BY InitSdk
<1>2. SdkInv /\ [SdkNext]_vars => SdkInv'
  BY SdkStep
<1> QED BY <1>1, <1>2, PTL DEF SdkSpec

-----------------------------------------------------------------------------
(* The counter is read without being torn                                  *)

\* The functions the properties are about are sequences of these; the rest of
\* one is told by its first step.
LEMMA ShortSteps ==
    /\ U.reg = "read_upper" /\ L.reg = "read_lower" /\ C.reg = "check_upper"
    /\ On.reg = "ctrl" /\ Off.reg = "ctrl" /\ Clear.reg = "intr_state"
    /\ \A a \in {U, L, C, On, Off, Clear} : a \in Accesses /\ IsAccess(a)
    /\ \A a \in {U, L, C} : ReadsRegister(a)
    /\ \A a \in {On, Off} : ~ReadsRegister(a)
    /\ \A a \in {Sub, Add} : ~IsAccess(a)
    /\ Sub.do = "subtract" /\ Add.do = "add"
    /\ [do |-> "asleep"] \notin {U, L, C, Sub, Add, On, Off}
    /\ [do |-> "wfi"] \notin {U, L, C, Sub, Add, On, Off}
<1>1. \A a \in {U, L, C, On, Off, Clear} : IsAccess(a)
  BY DEF IsAccess, U, L, C, On, Off, Clear, Access
<1>2. \A a \in {U, L, C, On, Off, Clear} : a \in Plain
  BY PlainSteps DEF U, L, C, On, Off, Clear
<1>3. \A a \in {U, L, C, On, Off, Clear} : a \in Accesses
  BY <1>1, <1>2, StepIs DEF Plain
<1> QED BY <1>1, <1>3 DEF ReadsRegister, IsAccess, U, L, C, On, Off, Clear, Sub, Add, Access

\* What was read of the counter during the call, by the steps still to come.
ReadInv ==
    /\ seen \in [from : Nat, value : Nat, to : Nat]
    /\ fn = "timer_get_cycles" =>
          \/ prog = <<U, L, C>>
          \/ /\ prog = <<L, C>>
             /\ upper * W <= seen.from /\ seen.from <= Value(mtime)
          \/ /\ prog = <<C>>
             /\ upper * W <= seen.from
             /\ \E h \in Words : /\ upper <= h
                                 /\ seen.from <= h * W + lower /\ h * W + lower <= Value(mtime)
          \/ prog = <<>> /\ seen.value \in seen.from..seen.to

(* The upper halves are ordered as the values.                             *)
LEMMA UpperOrder ==
    ASSUME NEW a \in Nat, NEW b \in Nat, NEW x \in Words, NEW y \in Words,
           a * W + x <= b * W + y
    PROVE  a <= b
<1>1. W \in Nat /\ W > 1 /\ x \in 0..W - 1 /\ y \in 0..W - 1
  BY TimerAssumption DEF Words
<1> SUFFICES ASSUME a >= b + 1 PROVE FALSE
  OBVIOUS
<1> DEFINE d == a - (b + 1)
<1>2. d \in Nat /\ a = b + 1 + d
  OBVIOUS
<1> HIDE DEF d
<1>3. a * W = b * W + W + d * W
  BY <1>1, <1>2
<1> DEFINE m == b * W
           n == d * W
           k == a * W
<1>4. m \in Nat /\ n \in Nat /\ k = m + W + n /\ k + x <= m + y
  BY <1>1, <1>2, <1>3
<1> HIDE DEF m, n, k
<1> QED BY <1>1, <1>4

LEMMA InitRead == SdkInit => ReadInv
BY DEF SdkInit, ReadInv, NotSeen

(* Nothing happens to the counter but that it goes up, except when it is   *)
(* written; and nothing happens to what a function reads but by itself.    *)
LEMMA ReadStep ==
    ASSUME SdkInv, ReadInv, [SdkNext]_vars
    PROVE  ReadInv'
<1>1. /\ mtime \in Cmps /\ mtimecmp \in Cmps /\ cfg \in Rates
      /\ upper \in Words /\ lower \in Words
      /\ isr \in {<<>>, <<Clear>>, <<Off, Clear>>}
  BY DEF SdkInv, SdkTypes
<1>2. ASSUME UNCHANGED <<prog, fn, seen, upper, lower>>,
             Value(mtime) <= Value(mtime'), mtime' \in Cmps
      PROVE  ReadInv'
  <2>1. Value(mtime) \in Nat /\ Value(mtime') \in Nat
    <3>1. W * W \in Nat
      BY TimerAssumption
    <3> QED BY <1>1, <1>2, <3>1, ValueIs DEF Values, Cmps
  <2> DEFINE v == Value(mtime)
             w == Value(mtime')
  <2>2. v \in Nat /\ w \in Nat /\ v <= w
    BY <1>2, <2>1
  <2>3. W \in Nat /\ lower \in Nat /\ \A h \in Words : h * W + lower \in Nat
    BY <1>1, TimerAssumption DEF Words
  <2> HIDE DEF v, w
  <2>4. seen.from \in Nat
    BY DEF ReadInv
  <2>5. /\ \A h \in Words : h * W + lower <= v => h * W + lower <= w
        /\ seen.from <= v => seen.from <= w
    BY <2>2, <2>3, <2>4
  <2> QED BY <1>2, <2>5 DEF ReadInv, v, w
<1>3. Value(mtime) <= Value(mtime)
  <2>1. Value(mtime) \in Int
    BY <1>1, ValueIs, TimerAssumption DEF Values, Cmps
  <2> QED BY <2>1
<1>4. ASSUME UNCHANGED <<prog, fn, seen, upper, lower, mtime>>
      PROVE  ReadInv'
  BY <1>1, <1>2, <1>3, <1>4
<1>5. ASSUME NEW f \in Functions, Call(f)
      PROVE  ReadInv'
  BY <1>5, FunctionCodes DEF Call, ReadInv, NotSeen
<1>6. ASSUME NEW clock \in Frequencies, NEW counter \in Frequencies,
             SetTickParams(clock, counter)
      PROVE  ReadInv'
  <2>1. mtime' = mtime
    BY <1>6 DEF SetTickParams, rv_timer_set_tick_params, Writes, Access
  <2> QED BY <1>4, <1>6, <2>1 DEF SetTickParams
<1>7. CASE enable_timer_interrupt
  BY <1>4, <1>7 DEF enable_timer_interrupt, timerVars
<1>8. fn = "timer_get_cycles" /\ prog # <<>> => prog[1] \in {U, L, C}
  BY DEF ReadInv
<1>9. CASE WriteRegister
  <2>1. fn # "timer_get_cycles"
    BY <1>8, <1>9, ShortSteps DEF WriteRegister, Running
  <2> QED BY <1>9, <2>1 DEF WriteRegister, ReadInv
<1>10. CASE Compute
  <2>1. fn # "timer_get_cycles"
    BY <1>8, <1>10, ShortSteps DEF Compute, Running
  <2> QED BY <1>10, <2>1 DEF Compute, ReadInv
<1>11. CASE wfi
  <2>1. fn # "timer_get_cycles"
    BY <1>8, <1>11, ShortSteps DEF wfi, Running
  <2> QED BY <1>11, <2>1 DEF wfi, ReadInv
<1>12. CASE ReadRegister
  <2>1. /\ Value(mtime) \in Nat /\ Value(mtime) = mtime.hi * W + mtime.lo
        /\ mtime.hi \in Words /\ mtime.lo \in Words /\ \A h \in Words : h \in Nat
        /\ W \in Nat /\ seen.from \in Nat /\ upper * W + lower \in Nat
        /\ upper * W + mtime.lo \in Nat
    <3>1. W \in Nat /\ W * W \in Nat /\ mtime.hi \in Words /\ mtime.lo \in Words
      BY <1>1, TimerAssumption DEF Cmps
    <3>2. upper \in Nat /\ lower \in Nat /\ mtime.lo \in Nat
      BY <1>1, <3>1 DEF Words
    <3>3. Value(mtime) \in Nat /\ Value(mtime) = mtime.hi * W + mtime.lo
      BY <1>1, <3>1, ValueIs DEF Values, Cmps
    <3>4. upper * W + lower \in Nat /\ upper * W + mtime.lo \in Nat
      BY <3>1, <3>2
    <3>5. seen.from \in Nat /\ \A h \in Words : h \in Nat
      BY DEF ReadInv, Words
    <3> QED BY <3>1, <3>3, <3>4, <3>5
  <2>2. seen' \in [from : Nat, value : Nat, to : Nat]
    BY <1>12, <2>1 DEF ReadRegister, ReadInv
  <2>3. mtime' = mtime /\ fn' = fn
    BY <1>12 DEF ReadRegister, timerVars
  <2>4. CASE fn # "timer_get_cycles"
    BY <2>2, <2>3, <2>4 DEF ReadInv
  <2>5. CASE fn = "timer_get_cycles" /\ prog = <<U, L, C>>
    <3>1. prog[1] = U /\ Tail(prog) = <<L, C>>
      BY <2>5
    <3>2. /\ upper' = mtime.hi /\ seen' = [seen EXCEPT !.from = Value(mtime)]
          /\ prog' = <<L, C>>
      BY <1>12, <3>1, ShortSteps DEF ReadRegister, Leave
    <3>3. seen'.from = Value(mtime)
      BY <3>2 DEF ReadInv
    <3>4. upper' * W <= Value(mtime)
      <4> DEFINE m == mtime.hi * W
      <4>1. m \in Nat /\ Value(mtime) = m + mtime.lo /\ mtime.lo \in Nat
        BY <2>1 DEF Words
      <4> HIDE DEF m
      <4>2. m <= Value(mtime)
        BY <4>1
      <4> QED BY <3>2, <4>2 DEF m
    <3> QED BY <1>3, <2>2, <2>3, <3>2, <3>3, <3>4 DEF ReadInv
  <2>6. CASE fn = "timer_get_cycles" /\ prog = <<L, C>>
    <3>1. prog[1] = L /\ Tail(prog) = <<C>>
      BY <2>6
    <3>2. /\ lower' = mtime.lo /\ upper' = upper /\ prog' = <<C>>
          /\ seen' = [seen EXCEPT !.value = upper * W + mtime.lo, !.to = Value(mtime)]
      BY <1>12, <3>1, ShortSteps DEF ReadRegister, Leave
    <3>3. seen'.from = seen.from
      BY <3>2 DEF ReadInv
    <3>4. upper * W <= seen.from /\ seen.from <= Value(mtime)
      <4>1. prog # <<U, L, C>> /\ prog # <<C>> /\ prog # <<>>
        <5>1. Len(prog) = 2
          BY <2>6
        <5>2. Len(<<U, L, C>>) = 3 /\ Len(<<C>>) = 1
          OBVIOUS
        <5> QED BY <5>1, <5>2, <2>6
      <4> QED BY <2>6, <4>1 DEF ReadInv
    <3>5. upper <= mtime.hi
      <4> DEFINE m == upper * W
                 n == mtime.hi * W
      <4>1. m \in Nat /\ n \in Nat /\ Value(mtime) = n + mtime.lo /\ mtime.lo \in Nat
            /\ m <= seen.from
        <5>1. upper \in Nat
          BY <1>1, <2>1
        <5> QED BY <2>1, <3>4, <5>1
      <4> HIDE DEF m, n
      <4>2. m + 0 <= n + mtime.lo
        BY <2>1, <3>4, <4>1
      <4>3. 0 \in Words
        BY TimerAssumption DEF Words
      <4> QED BY <1>1, <2>1, <4>2, <4>3, UpperOrder DEF m, n
    <3> QED BY <1>3, <2>1, <2>2, <2>3, <3>2, <3>3, <3>4, <3>5 DEF ReadInv
  <2>7. CASE fn = "timer_get_cycles" /\ prog = <<C>>
    <3>1. prog[1] = C /\ Tail(prog) = <<>> /\ Len(prog) = 1
      BY <2>7
    <3>2. /\ upper' = upper /\ lower' = lower
          /\ \/ /\ mtime.hi = upper /\ prog' = <<>>
                /\ seen' = [seen EXCEPT !.value = upper * W + lower, !.to = Value(mtime)]
             \/ prog' = rv_timer_counter_read \o <<>> /\ seen' = seen
      BY <1>12, <3>1, ShortSteps DEF ReadRegister, Leave
    <3>3. prog # <<U, L, C>> /\ prog # <<L, C>> /\ prog # <<>>
      <4>1. Len(<<U, L, C>>) = 3 /\ Len(<<L, C>>) = 2
        OBVIOUS
      <4> QED BY <2>7, <3>1, <4>1
    <3>4. PICK h \in Words : /\ upper <= h
                             /\ seen.from <= h * W + lower /\ h * W + lower <= Value(mtime)
      BY <2>7, <3>3 DEF ReadInv
    <3>5. CASE /\ mtime.hi = upper /\ prog' = <<>>
               /\ seen' = [seen EXCEPT !.value = upper * W + lower, !.to = Value(mtime)]
      <4>1. h * W + lower <= upper * W + mtime.lo
        BY <2>1, <3>4, <3>5
      <4>2. h <= upper
        BY <1>1, <2>1, <4>1, UpperOrder
      <4>3. h = upper
        BY <1>1, <2>1, <3>4, <4>2
      <4>4. seen'.value = upper * W + lower /\ seen'.to = Value(mtime) /\ seen'.from = seen.from
        BY <3>5 DEF ReadInv
      <4> DEFINE x == upper * W + lower
      <4>5. seen.from <= x /\ x <= Value(mtime) /\ x \in Nat
        BY <2>1, <3>4, <4>3
      <4> HIDE DEF x
      <4>6. x \in seen.from..Value(mtime)
        BY <2>1, <4>5
      <4> QED BY <2>2, <2>3, <3>5, <4>4, <4>6 DEF ReadInv, x
    <3>6. CASE prog' = rv_timer_counter_read \o <<>> /\ seen' = seen
      <4>1. prog' = <<U, L, C>>
        <5>1. <<U, L, C>> \o <<>> = <<U, L, C>>
          <6> DEFINE S == {U, L, C}
                     r == <<U, L, C>>
          <6>1. r \in Seq(S)
            OBVIOUS
          <6> HIDE DEF S, r
          <6>2. r \o <<>> = r
            BY <6>1
          <6> QED BY <6>2 DEF r
        <5>2. rv_timer_counter_read = <<U, L, C>>
          BY DEF rv_timer_counter_read, U, L, C
        <5> QED BY <3>6, <5>1, <5>2
      <4> QED BY <2>2, <2>3, <4>1 DEF ReadInv
    <3> QED BY <3>2, <3>5, <3>6
  <2>8. CASE prog = <<>>
    BY <1>12, <2>8 DEF ReadRegister, Running
  <2> QED BY <2>4, <2>5, <2>6, <2>7, <2>8 DEF ReadInv
<1>13. CASE TakeInterrupt
  <2>1. fn = "timer_get_cycles" => prog' = prog
    BY <1>8, <1>13, ShortSteps DEF TakeInterrupt
  <2> QED BY <1>4, <1>13, <2>1 DEF TakeInterrupt, timerVars, ReadInv
<1>14. CASE handler_irq_timer
  <2>1. isr[1] \in {Off, Clear}
    BY <1>1, <1>14 DEF handler_irq_timer
  <2>2. mtime' = mtime
    <3>1. isr[1].reg \in {"ctrl", "intr_state"}
      BY <2>1, ShortSteps
    <3> QED BY <1>14, <3>1 DEF handler_irq_timer, Writes
  <2> QED BY <1>4, <1>14, <2>2 DEF handler_irq_timer
<1>15. CASE Tick /\ UNCHANGED sdkVars
  <2>1. mtime' \in Cmps /\ Value(mtime) <= Value(mtime')
    BY <1>1, <1>15, TickIs
  <2> QED BY <1>2, <1>15, <2>1 DEF sdkVars
<1>16. CASE Expire /\ UNCHANGED sdkVars
  BY <1>4, <1>16 DEF Expire, sdkVars
<1>17. CASE UNCHANGED vars
  BY <1>4, <1>17 DEF vars, timerVars, sdkVars
<1> QED BY <1>5, <1>6, <1>7, <1>9, <1>10, <1>11, <1>12, <1>13, <1>14, <1>15, <1>16, <1>17
        DEF SdkNext, Main, Handler

-----------------------------------------------------------------------------
(* The stopwatch                                                           *)

\* The word kept by timer_start for a counter of v, and what timer_stop makes
\* of it when the counter is at w.
Kept(v) == (W - (v % W)) % W
Elapsed(v, w) == (Kept(v) + (w % W)) % W

(* The difference of two words is the difference of the values, as a word. *)
LEMMA ElapsedIs ==
    ASSUME NEW v \in Nat, NEW w \in Nat
    PROVE  Elapsed(v, w) = (w - v) % W
<1> DEFINE q == v \div W
           r == v % W
           x == w \div W
           y == w % W
<1>1. /\ W \in Nat /\ W > 1 /\ q \in Nat /\ x \in Nat /\ r \in 0..W - 1 /\ y \in 0..W - 1
      /\ v = q * W + r /\ w = x * W + y
  <2>1. W \in Nat /\ W > 1
    BY TimerAssumption
  <2>2. /\ q \in Nat /\ r \in 0..W - 1 /\ v = W * q + r
        /\ x \in Nat /\ y \in 0..W - 1 /\ w = W * x + y
    BY <2>1
  <2>3. W * q = q * W /\ W * x = x * W
    BY <2>1, <2>2
  <2> QED BY <2>1, <2>2, <2>3
<1> HIDE DEF q, r, x, y
<1>2. ASSUME NEW d \in Int, NEW z \in 0..W - 1, w - v = d * W + z
      PROVE  (w - v) % W = z
  <2> DEFINE n == w - v
  <2>1. n = d * W + z
    BY <1>2
  <2> HIDE DEF n
  <2>2. n % W = z
    BY <1>2, <2>1, Division DEF Words
  <2> QED BY <2>2 DEF n
<1>3. w - v = (x - q) * W + (y - r)
  <2>1. (x - q) * W = x * W - q * W
    BY <1>1
  <2>2. x * W \in Nat /\ q * W \in Nat
    BY <1>1
  <2> DEFINE m == x * W
             n == q * W
  <2>3. m \in Nat /\ n \in Nat /\ v = n + r /\ w = m + y
    BY <1>1, <2>2
  <2> HIDE DEF m, n
  <2>4. w - v = (m - n) + (y - r)
    BY <1>1, <2>3
  <2> QED BY <2>1, <2>4 DEF m, n
<1>4. Elapsed(v, w) = (((W - r) % W) + y) % W
  BY DEF Elapsed, Kept, r, y
<1>5. CASE r = 0
  <2>1. (W - r) % W = 0 /\ (0 + y) % W = y
    BY <1>1, <1>5
  <2>2. (w - v) % W = y
    <3>1. x - q \in Int /\ w - v = (x - q) * W + y
      BY <1>1, <1>3, <1>5
    <3> QED BY <1>1, <1>2, <3>1
  <2> QED BY <1>4, <2>1, <2>2
<1>6. CASE r > 0 /\ y >= r
  <2>1. (W - r) % W = W - r
    BY <1>1, <1>6
  <2>2. ((W - r) + y) % W = y - r
    <3> DEFINE n == (W - r) + y
    <3>1. n = 1 * W + (y - r) /\ y - r \in 0..W - 1
      BY <1>1, <1>6
    <3> HIDE DEF n
    <3>2. n % W = y - r
      BY <3>1, Division DEF Words
    <3> QED BY <3>2 DEF n
  <2>3. (w - v) % W = y - r
    <3>1. x - q \in Int /\ y - r \in 0..W - 1
      BY <1>1, <1>6
    <3> QED BY <1>2, <1>3, <3>1
  <2> QED BY <1>4, <2>1, <2>2, <2>3
<1>7. CASE r > 0 /\ y < r
  <2>1. (W - r) % W = W - r
    BY <1>1, <1>7
  <2>2. ((W - r) + y) % W = W + (y - r)
    <3> DEFINE n == (W - r) + y
    <3>1. n = 0 * W + (W + (y - r)) /\ W + (y - r) \in 0..W - 1
      BY <1>1, <1>7
    <3> HIDE DEF n
    <3>2. n % W = W + (y - r)
      BY <3>1, Division DEF Words
    <3> QED BY <3>2 DEF n
  <2>3. (w - v) % W = W + (y - r)
    <3> DEFINE d == x - q
    <3>1. d \in Int /\ W + (y - r) \in 0..W - 1
      BY <1>1, <1>7
    <3>2. w - v = d * W + (y - r)
      BY <1>3
    <3> HIDE DEF d
    <3>3. d * W \in Int /\ (d - 1) * W = d * W - W
      BY <1>1, <3>1
    <3> DEFINE m == d * W
    <3>4. m \in Int /\ w - v = m + (y - r)
      BY <3>2, <3>3
    <3> HIDE DEF m
    <3>5. w - v = (m - W) + (W + (y - r))
      BY <1>1, <3>4
    <3>6. d - 1 \in Int /\ w - v = (d - 1) * W + (W + (y - r))
      BY <3>1, <3>3, <3>5 DEF m
    <3> QED BY <1>2, <3>1, <3>6
  <2> QED BY <1>4, <2>1, <2>2, <2>3
<1> QED BY <1>1, <1>5, <1>6, <1>7

\* Nothing runs but a read of the counter, which leaves the stopwatch alone.
Quiet == prog = <<>> \/ fn = "timer_get_cycles"

\* timer_start, by the steps still to come.
Starting ==
    /\ fn = "timer_start" /\ watch.result = <<>>
    /\ \/ /\ prog \in {<<U, L, C, Sub, On>>, <<L, C, Sub, On>>}
          /\ watch.called <= Value(mtime)
       \/ /\ prog \in {<<C, Sub, On>>, <<Sub, On>>}
          /\ \E v \in watch.called..Value(mtime) : lower = v % W
       \/ /\ prog = <<On>>
          /\ \E v \in watch.called..Value(mtime) : hw_timer_value = Kept(v)

\* The stopwatch runs.
Measuring ==
    /\ Quiet /\ watch.result = <<>> /\ watch.started <= Value(mtime)
    /\ \E v \in watch.called..watch.started : hw_timer_value = Kept(v)

\* timer_stop, by the steps still to come.
Stopping ==
    /\ fn = "timer_stop" /\ watch.result = <<>>
    /\ watch.started <= watch.stopping
    /\ \E v \in watch.called..watch.started :
          \/ /\ prog \in {<<U, L, C, Add, Off>>, <<L, C, Add, Off>>}
             /\ hw_timer_value = Kept(v)
             /\ watch.stopping <= Value(mtime)
          \/ /\ prog \in {<<C, Add, Off>>, <<Add, Off>>}
             /\ hw_timer_value = Kept(v)
             /\ \E w \in watch.stopping..Value(mtime) : lower = w % W
          \/ /\ prog = <<Off>>
             /\ \E w \in watch.stopping..Value(mtime) : hw_timer_value = Elapsed(v, w)

Stopped == Quiet /\ watch.result # <<>> /\ StopwatchExact

WatchInv ==
    /\ watch = [on |-> watch.on, called |-> watch.called, started |-> watch.started,
                stopping |-> watch.stopping, until |-> watch.until, result |-> watch.result]
    /\ {watch.called, watch.started, watch.stopping, watch.until} \subseteq Nat
    /\ IF watch.on THEN Starting \/ Measuring \/ Stopping \/ Stopped
       ELSE watch.result = <<>>

LEMMA InitWatch == SdkInit => WatchInv
BY DEF SdkInit, WatchInv, NoWatch

(* A read of the counter within a function.                                *)
LEMMA ReadWithin ==
    ASSUME SdkInv, ReadRegister, NEW b, NEW e, b \in {Sub, Add}, e \in {On, Off},
           prog \in {<<U, L, C, b, e>>, <<L, C, b, e>>, <<C, b, e>>, <<b, e>>, <<e>>}
    PROVE  \/ prog = <<U, L, C, b, e>> /\ prog' = <<L, C, b, e>>
           \/ prog = <<L, C, b, e>> /\ prog' = <<C, b, e>> /\ lower' = Value(mtime) % W
           \/ /\ prog = <<C, b, e>> /\ prog' \in {<<U, L, C, b, e>>, <<b, e>>}
              /\ lower' = lower
<1>1. prog \notin {<<b, e>>, <<e>>}
  <2>1. prog # <<b, e>>
    BY ShortSteps DEF ReadRegister
  <2>2. prog # <<e>>
    BY ShortSteps DEF ReadRegister
  <2> QED BY <2>1, <2>2
<1>2. CASE prog = <<U, L, C, b, e>>
  <2>1. prog[1] = U /\ Tail(prog) = <<L, C, b, e>>
    BY <1>2
  <2> QED BY <1>2, <2>1, ShortSteps DEF ReadRegister, Leave
<1>3. CASE prog = <<L, C, b, e>>
  <2>1. prog[1] = L /\ Tail(prog) = <<C, b, e>>
    BY <1>3
  <2>2. prog' = <<C, b, e>> /\ lower' = mtime.lo
    BY <2>1, ShortSteps DEF ReadRegister, Leave
  <2>3. Value(mtime) % W = mtime.lo
    <3>1. mtime \in Cmps
      BY DEF SdkInv, SdkTypes
    <3>2. Pair(Value(mtime)) = mtime
      BY <3>1, ValueIs DEF Cmps
    <3>3. Pair(Value(mtime)).lo = Value(mtime) % W
      BY DEF Pair
    <3> QED BY <3>2, <3>3
  <2> QED BY <1>3, <2>2, <2>3
<1>4. CASE prog = <<C, b, e>>
  <2>1. prog[1] = C /\ Tail(prog) = <<b, e>>
    BY <1>4
  <2>2. /\ lower' = lower
        /\ prog' = <<b, e>> \/ prog' = rv_timer_counter_read \o <<b, e>>
    BY <2>1, ShortSteps DEF ReadRegister, Leave
  <2>3. rv_timer_counter_read \o <<b, e>> = <<U, L, C, b, e>>
    <3>1. rv_timer_counter_read = <<U, L, C>>
      BY DEF rv_timer_counter_read, U, L, C
    <3>2. <<U, L, C>> \o <<b, e>> = <<U, L, C, b, e>>
      BY Join3And2
    <3> QED BY <3>1, <3>2
  <2> QED BY <1>4, <2>2, <2>3
<1> QED BY <1>1, <1>2, <1>3, <1>4

LEMMA WatchStep ==
    ASSUME SdkInv, ReadInv, WatchInv, [SdkNext]_vars
    PROVE  WatchInv'
<1>1. /\ mtime \in Cmps /\ mtimecmp \in Cmps /\ cfg \in Rates
      /\ isr \in {<<>>, <<Clear>>, <<Off, Clear>>}
  BY DEF SdkInv, SdkTypes
<1>2. Value(mtime) \in Nat
  <2>1. W * W \in Nat
    BY TimerAssumption
  <2> QED BY <1>1, <2>1, ValueIs DEF Values, Cmps
<1>3. /\ watch.called \in Nat /\ watch.started \in Nat
      /\ watch.stopping \in Nat /\ watch.until \in Nat
  BY DEF WatchInv
<1>4. ASSUME watch' = NoWatch
      PROVE  WatchInv'
  BY <1>4 DEF WatchInv, NoWatch
<1>5. ASSUME ~watch.on, watch' = watch
      PROVE  WatchInv'
  BY <1>5 DEF WatchInv
<1>6. ASSUME UNCHANGED <<prog, fn, watch, lower, hw_timer_value>>,
             Value(mtime) <= Value(mtime'), Value(mtime') \in Nat
      PROVE  WatchInv'
  <2> DEFINE v == Value(mtime)
             w == Value(mtime')
  <2>1. v \in Nat /\ w \in Nat /\ v <= w
    BY <1>2, <1>6
  <2>2. watch.called..v \subseteq watch.called..w /\ watch.stopping..v \subseteq watch.stopping..w
    <3> HIDE DEF v, w
    <3> QED BY <1>3, <2>1
  <2> HIDE DEF v, w
  <2>3. /\ watch.called <= v => watch.called <= w
        /\ watch.started <= v => watch.started <= w
        /\ watch.stopping <= v => watch.stopping <= w
    BY <1>3, <2>1
  <2>4. Starting => Starting'
    BY <1>6, <2>2, <2>3 DEF Starting, v, w
  <2>5. Measuring => Measuring'
    BY <1>6, <2>3 DEF Measuring, Quiet, v, w
  <2>6. Stopping => Stopping'
    BY <1>6, <2>2, <2>3 DEF Stopping, v, w
  <2>7. Stopped => Stopped'
    BY <1>6 DEF Stopped, Quiet, StopwatchExact
  <2> QED BY <1>6, <2>4, <2>5, <2>6, <2>7 DEF WatchInv
<1>7. ASSUME UNCHANGED <<prog, fn, watch, lower, hw_timer_value, mtime>>
      PROVE  WatchInv'
  <2>1. Value(mtime) <= Value(mtime)
    BY <1>2
  <2> QED BY <1>2, <1>6, <1>7, <2>1
\* A step of timer_get_cycles, or of the core while nothing runs.
<1>8. ASSUME Quiet', UNCHANGED <<watch, hw_timer_value, mtime>>, Measuring \/ Stopped
      PROVE  Measuring' \/ Stopped'
  BY <1>8 DEF Measuring, Stopped, StopwatchExact
<1>9. prog # <<>> => Len(prog) > 0
  BY DEF SdkInv, SdkTypes
<1>10. ASSUME NEW f \in Functions, Call(f)
       PROVE  WatchInv'
  <2>1. /\ prog = <<>> /\ prog' = f.code /\ fn' = f.name /\ watch' = Called(f.name)
        /\ UNCHANGED <<mtime, lower, hw_timer_value>>
        /\ f.name = "timer_stop" => watch.on /\ watch.result = <<>>
    BY <1>10 DEF Call, Idle, timerVars
  <2>2. watch.on => Measuring \/ Stopped
    <3>1. ~Starting /\ ~Stopping
      BY <2>1 DEF Starting, Stopping
    <3> QED BY <3>1 DEF WatchInv
  <2>3. CASE f.name = "timer_start"
    <3>1. prog' = <<U, L, C, Sub, On>>
      BY <2>1, <2>3, FunctionCodes
    <3>2. watch' = [NoWatch EXCEPT !.on = TRUE, !.called = Value(mtime)]
      BY <2>1, <2>3 DEF Called
    <3>3. /\ watch'.on /\ watch'.called = Value(mtime) /\ watch'.result = <<>>
          /\ watch'.started = 0 /\ watch'.stopping = 0 /\ watch'.until = 0
          /\ watch' = [on |-> watch'.on, called |-> watch'.called, started |-> watch'.started,
                stopping |-> watch'.stopping, until |-> watch'.until, result |-> watch'.result]
      BY <3>2 DEF NoWatch
    <3>4. Value(mtime) <= Value(mtime)
      BY <1>2
    <3>5. Starting'
      BY <2>1, <2>3, <3>1, <3>3, <3>4 DEF Starting
    <3> QED BY <1>2, <3>3, <3>5 DEF WatchInv
  <2>4. CASE f.name = "timer_stop"
    <3>1. prog' = <<U, L, C, Add, Off>>
      BY <2>1, <2>4, FunctionCodes
    <3>2. watch' = [watch EXCEPT !.stopping = Value(mtime)]
      BY <2>1, <2>4 DEF Called
    <3>3. /\ watch'.on = watch.on /\ watch'.called = watch.called /\ watch'.result = watch.result
          /\ watch'.started = watch.started /\ watch'.stopping = Value(mtime)
          /\ watch'.until = watch.until
          /\ watch' = [on |-> watch'.on, called |-> watch'.called, started |-> watch'.started,
                stopping |-> watch'.stopping, until |-> watch'.until, result |-> watch'.result]
      BY <3>2 DEF WatchInv
    <3>4. Measuring
      BY <2>1, <2>2, <2>4 DEF Stopped
    <3>5. Value(mtime) <= Value(mtime)
      BY <1>2
    <3>6. PICK v \in watch.called..watch.started : hw_timer_value = Kept(v)
      BY <3>4 DEF Measuring
    <3>7. Stopping'
      <4>1. watch.started <= Value(mtime) /\ watch.result = <<>>
        BY <3>4 DEF Measuring
      <4>2. v \in watch'.called..watch'.started /\ hw_timer_value' = Kept(v)
        BY <2>1, <3>3, <3>6
      <4>3. watch'.stopping <= Value(mtime')
        BY <2>1, <3>3, <3>5
      <4> QED BY <2>1, <2>4, <3>1, <3>3, <4>1, <4>2, <4>3 DEF Stopping
    <3> QED BY <1>2, <1>3, <2>1, <2>4, <3>3, <3>7 DEF WatchInv
  <2>5. CASE f.name = "timer_get_cycles"
    <3>1. watch' = watch /\ Quiet'
      BY <2>1, <2>5 DEF Called, Quiet
    <3>2. watch.on => Measuring' \/ Stopped'
      BY <1>8, <2>1, <2>2, <3>1
    <3> QED BY <3>1, <3>2 DEF WatchInv
  <2>6. CASE f.name \notin {"timer_start", "timer_stop", "timer_get_cycles"}
    <3>1. watch' = NoWatch
      BY <2>1, <2>6 DEF Called
    <3> QED BY <1>4, <3>1
  <2> QED BY <2>3, <2>4, <2>5, <2>6
<1>11. ASSUME NEW clock \in Frequencies, NEW counter \in Frequencies,
              SetTickParams(clock, counter)
       PROVE  WatchInv'
  BY <1>4, <1>11 DEF SetTickParams
<1>12. CASE enable_timer_interrupt
  BY <1>7, <1>12 DEF enable_timer_interrupt, timerVars
<1>13. ASSUME watch.on, Measuring \/ Stopped, prog # <<>>
       PROVE  fn = "timer_get_cycles" /\ prog \in {<<U, L, C>>, <<L, C>>, <<C>>} /\ prog[1] \in {U, L, C}
  <2>1. fn = "timer_get_cycles"
    BY <1>13 DEF Measuring, Stopped, Quiet
  <2>2. prog \in {<<U, L, C>>, <<L, C>>, <<C>>}
    BY <1>13, <2>1 DEF ReadInv
  <2> QED BY <2>1, <2>2
\* The last step of timer_start and of timer_stop writes CTRL.
<1>14. CASE WriteRegister
  <2>1. /\ prog # <<>> /\ IsAccess(prog[1]) /\ ~ReadsRegister(prog[1]) /\ prog' = Tail(prog)
        /\ watch' = Returned(watch) /\ Writes(prog[1]) /\ UNCHANGED <<fn, lower, hw_timer_value>>
    BY <1>14 DEF WriteRegister, Running, Leave
  <2>2. CASE ~watch.on
    BY <1>5, <2>1, <2>2 DEF Returned
  <2>3. CASE watch.on /\ (Measuring \/ Stopped)
    BY <1>13, <2>1, <2>3, ShortSteps
  <2>4. CASE watch.on /\ Starting
    <3>1. prog = <<On>>
      <4>1. prog[1] \notin {U, L, C, Sub}
        BY <2>1, ShortSteps
      <4> QED BY <2>4, <4>1 DEF Starting
    <3>2. prog' = <<>> /\ Len(prog) = 1 /\ prog[1] = On
      BY <2>1, <3>1
    <3>3. mtime' = mtime
      BY <2>1, <3>2, ShortSteps DEF Writes
    <3>4. watch' = [watch EXCEPT !.started = Value(mtime)]
      BY <2>1, <2>4, <3>2 DEF Returned, Starting
    <3>5. /\ watch'.on = watch.on /\ watch'.called = watch.called /\ watch'.result = watch.result
          /\ watch'.started = Value(mtime) /\ watch'.stopping = watch.stopping
          /\ watch'.until = watch.until
          /\ watch' = [on |-> watch'.on, called |-> watch'.called, started |-> watch'.started,
                stopping |-> watch'.stopping, until |-> watch'.until, result |-> watch'.result]
      BY <3>4 DEF WatchInv
    <3>6. PICK v \in watch.called..Value(mtime) : hw_timer_value = Kept(v)
      <4>1. /\ prog # <<U, L, C, Sub, On>> /\ prog # <<L, C, Sub, On>>
            /\ prog # <<C, Sub, On>> /\ prog # <<Sub, On>>
        <5>1. /\ Len(<<U, L, C, Sub, On>>) = 5 /\ Len(<<L, C, Sub, On>>) = 4
              /\ Len(<<C, Sub, On>>) = 3 /\ Len(<<Sub, On>>) = 2 /\ Len(<<On>>) = 1
          OBVIOUS
        <5> QED BY <3>1, <5>1
      <4> QED BY <2>4, <4>1 DEF Starting
    <3>7. watch.result = <<>>
      BY <2>4 DEF Starting
    <3>8. Measuring'
      <4>1. Value(mtime) <= Value(mtime)
        BY <1>2
      <4> QED BY <2>1, <3>2, <3>3, <3>5, <3>6, <3>7, <4>1 DEF Measuring, Quiet
    <3> QED BY <1>2, <1>3, <2>4, <3>5, <3>8 DEF WatchInv
  <2>5. CASE watch.on /\ Stopping
    <3>1. prog = <<Off>>
      <4>1. prog[1] \notin {U, L, C, Add}
        BY <2>1, ShortSteps
      <4> QED BY <2>5, <4>1 DEF Stopping
    <3>2. prog' = <<>> /\ Len(prog) = 1 /\ prog[1] = Off
      BY <2>1, <3>1
    <3>3. watch' = [watch EXCEPT !.until = Value(mtime), !.result = <<hw_timer_value>>]
      BY <2>1, <2>5, <3>2 DEF Returned, Stopping
    <3>4. /\ watch'.on = watch.on /\ watch'.called = watch.called
          /\ watch'.result = <<hw_timer_value>>
          /\ watch'.started = watch.started /\ watch'.stopping = watch.stopping
          /\ watch'.until = Value(mtime)
          /\ watch' = [on |-> watch'.on, called |-> watch'.called, started |-> watch'.started,
                stopping |-> watch'.stopping, until |-> watch'.until, result |-> watch'.result]
      BY <3>3 DEF WatchInv
    <3>5. PICK v \in watch.called..watch.started, w \in watch.stopping..Value(mtime) :
             hw_timer_value = Elapsed(v, w)
      <4>1. /\ prog # <<U, L, C, Add, Off>> /\ prog # <<L, C, Add, Off>>
            /\ prog # <<C, Add, Off>> /\ prog # <<Add, Off>>
        <5>1. /\ Len(<<U, L, C, Add, Off>>) = 5 /\ Len(<<L, C, Add, Off>>) = 4
              /\ Len(<<C, Add, Off>>) = 3 /\ Len(<<Add, Off>>) = 2 /\ Len(<<Off>>) = 1
          OBVIOUS
        <5> QED BY <3>1, <5>1
      <4> QED BY <2>5, <4>1 DEF Stopping
    <3>6. v \in Nat /\ w \in Nat /\ w - v \in (watch.stopping - watch.started)..(Value(mtime) - watch.called)
      BY <1>2, <1>3, <3>5
    <3>7. hw_timer_value = (w - v) % W
      BY <3>5, <3>6, ElapsedIs
    <3>8. watch'.result[1] = hw_timer_value /\ watch'.result # <<>>
      BY <3>4
    <3>9. Stopped'
      BY <3>2, <3>4, <3>6, <3>7, <3>8 DEF Stopped, Quiet, StopwatchExact
    <3> QED BY <1>2, <1>3, <2>5, <3>4, <3>9 DEF WatchInv
  <2> QED BY <2>2, <2>3, <2>4, <2>5 DEF WatchInv
<1>15. CASE ReadRegister
  <2>1. prog # <<>> /\ UNCHANGED <<mtime, watch, hw_timer_value, fn>>
    BY <1>15 DEF ReadRegister, Running, timerVars
  <2>2. CASE ~watch.on
    BY <1>5, <2>1, <2>2
  <2>3. CASE watch.on /\ (Measuring \/ Stopped)
    <3>1. Quiet'
      BY <1>13, <2>1, <2>3 DEF Quiet
    <3> QED BY <1>8, <2>1, <2>3, <3>1 DEF WatchInv
  <2>4. CASE watch.on /\ Starting
    <3>1. \/ prog = <<U, L, C, Sub, On>> /\ prog' = <<L, C, Sub, On>>
          \/ prog = <<L, C, Sub, On>> /\ prog' = <<C, Sub, On>> /\ lower' = Value(mtime) % W
          \/ /\ prog = <<C, Sub, On>> /\ prog' \in {<<U, L, C, Sub, On>>, <<Sub, On>>}
             /\ lower' = lower
      <4>1. prog \in {<<U, L, C, Sub, On>>, <<L, C, Sub, On>>, <<C, Sub, On>>, <<Sub, On>>, <<On>>}
        BY <2>4 DEF Starting
      <4> QED BY <1>15, <4>1, ReadWithin
    <3>2. watch.called <= Value(mtime)
      <4>1. \A v \in watch.called..Value(mtime) : watch.called <= Value(mtime)
        BY <1>2, <1>3
      <4> QED BY <2>4, <4>1 DEF Starting
    <3>3. Value(mtime) \in watch.called..Value(mtime)
      BY <1>2, <1>3, <3>2
    <3>4. prog = <<C, Sub, On>> => \E v \in watch.called..Value(mtime) : lower = v % W
      <4> SUFFICES ASSUME prog = <<C, Sub, On>>
                   PROVE  \E v \in watch.called..Value(mtime) : lower = v % W
        OBVIOUS
      <4>1. prog # <<U, L, C, Sub, On>> /\ prog # <<L, C, Sub, On>> /\ prog # <<On>>
        <5>1. /\ Len(<<U, L, C, Sub, On>>) = 5 /\ Len(<<L, C, Sub, On>>) = 4
              /\ Len(<<C, Sub, On>>) = 3 /\ Len(<<On>>) = 1
          OBVIOUS
        <5> QED BY <5>1
      <4> QED BY <2>4, <4>1 DEF Starting
    <3>5. Starting'
      BY <2>1, <2>4, <3>1, <3>2, <3>3, <3>4 DEF Starting
    <3> QED BY <2>1, <3>5 DEF WatchInv
  <2>5. CASE watch.on /\ Stopping
    <3>1. \/ prog = <<U, L, C, Add, Off>> /\ prog' = <<L, C, Add, Off>>
          \/ prog = <<L, C, Add, Off>> /\ prog' = <<C, Add, Off>> /\ lower' = Value(mtime) % W
          \/ /\ prog = <<C, Add, Off>> /\ prog' \in {<<U, L, C, Add, Off>>, <<Add, Off>>}
             /\ lower' = lower
      <4>1. prog \in {<<U, L, C, Add, Off>>, <<L, C, Add, Off>>, <<C, Add, Off>>, <<Add, Off>>, <<Off>>}
        BY <2>5 DEF Stopping
      <4> QED BY <1>15, <4>1, ReadWithin
    <3>2. watch.stopping <= Value(mtime)
      <4>1. \A v \in watch.stopping..Value(mtime) : watch.stopping <= Value(mtime)
        BY <1>2, <1>3
      <4> QED BY <2>5, <4>1 DEF Stopping
    <3>3. Value(mtime) \in watch.stopping..Value(mtime)
      BY <1>2, <1>3, <3>2
    <3>4. prog # <<Off>>
      <4>1. /\ Len(<<U, L, C, Add, Off>>) = 5 /\ Len(<<L, C, Add, Off>>) = 4
            /\ Len(<<C, Add, Off>>) = 3 /\ Len(<<Off>>) = 1
        OBVIOUS
      <4> QED BY <3>1, <4>1
    <3>5. PICK v \in watch.called..watch.started : hw_timer_value = Kept(v)
      BY <2>5, <3>4 DEF Stopping
    <3>6. prog = <<C, Add, Off>> => \E w \in watch.stopping..Value(mtime) : lower = w % W
      <4> SUFFICES ASSUME prog = <<C, Add, Off>>
                   PROVE  \E w \in watch.stopping..Value(mtime) : lower = w % W
        OBVIOUS
      <4>1. prog # <<U, L, C, Add, Off>> /\ prog # <<L, C, Add, Off>> /\ prog # <<Off>>
        <5>1. /\ Len(<<U, L, C, Add, Off>>) = 5 /\ Len(<<L, C, Add, Off>>) = 4
              /\ Len(<<C, Add, Off>>) = 3 /\ Len(<<Off>>) = 1
          OBVIOUS
        <5> QED BY <5>1
      <4> QED BY <2>5, <4>1 DEF Stopping
    <3>7. Stopping'
      BY <2>1, <2>5, <3>1, <3>2, <3>3, <3>5, <3>6 DEF Stopping
    <3> QED BY <2>1, <3>7 DEF WatchInv
  <2> QED BY <2>2, <2>3, <2>4, <2>5 DEF WatchInv
<1>16. CASE Compute
  <2>1. /\ prog # <<>> /\ ~IsAccess(prog[1]) /\ prog' = Tail(prog)
        /\ UNCHANGED <<mtime, watch, lower, fn>>
        /\ prog[1].do = "subtract" => hw_timer_value' = (W - lower) % W
        /\ prog[1].do = "add" => hw_timer_value' = (hw_timer_value + lower) % W
    BY <1>16 DEF Compute, Running, timerVars, Leave
  <2>2. CASE ~watch.on
    BY <1>5, <2>1, <2>2
  <2>3. CASE watch.on /\ (Measuring \/ Stopped)
    BY <1>13, <2>1, <2>3, ShortSteps
  <2>4. CASE watch.on /\ Starting
    <3>1. prog = <<Sub, On>>
      <4>1. prog[1] \notin {U, L, C, On}
        BY <2>1, ShortSteps
      <4> QED BY <2>4, <4>1 DEF Starting
    <3>2. prog[1] = Sub /\ prog' = <<On>>
      BY <2>1, <3>1
    <3>3. PICK v \in watch.called..Value(mtime) : lower = v % W
      <4>1. /\ prog # <<U, L, C, Sub, On>> /\ prog # <<L, C, Sub, On>> /\ prog # <<On>>
        <5>1. /\ Len(<<U, L, C, Sub, On>>) = 5 /\ Len(<<L, C, Sub, On>>) = 4
              /\ Len(<<Sub, On>>) = 2 /\ Len(<<On>>) = 1
          OBVIOUS
        <5> QED BY <3>1, <5>1
      <4> QED BY <2>4, <4>1 DEF Starting
    <3>4. hw_timer_value' = Kept(v)
      BY <2>1, <3>2, <3>3, ShortSteps DEF Kept
    <3>5. Starting'
      BY <2>1, <2>4, <3>2, <3>3, <3>4 DEF Starting
    <3> QED BY <2>1, <3>5 DEF WatchInv
  <2>5. CASE watch.on /\ Stopping
    <3>1. prog = <<Add, Off>>
      <4>1. prog[1] \notin {U, L, C, Off}
        BY <2>1, ShortSteps
      <4> QED BY <2>5, <4>1 DEF Stopping
    <3>2. prog[1] = Add /\ prog' = <<Off>>
      BY <2>1, <3>1
    <3>3. PICK v \in watch.called..watch.started, w \in watch.stopping..Value(mtime) :
             hw_timer_value = Kept(v) /\ lower = w % W
      <4>1. /\ prog # <<U, L, C, Add, Off>> /\ prog # <<L, C, Add, Off>> /\ prog # <<Off>>
        <5>1. /\ Len(<<U, L, C, Add, Off>>) = 5 /\ Len(<<L, C, Add, Off>>) = 4
              /\ Len(<<Add, Off>>) = 2 /\ Len(<<Off>>) = 1
          OBVIOUS
        <5> QED BY <3>1, <5>1
      <4> QED BY <2>5, <4>1 DEF Stopping
    <3>4. hw_timer_value' = Elapsed(v, w)
      BY <2>1, <3>2, <3>3, ShortSteps DEF Elapsed
    <3>5. Stopping'
      BY <2>1, <2>5, <3>2, <3>3, <3>4 DEF Stopping
    <3> QED BY <2>1, <3>5 DEF WatchInv
  <2> QED BY <2>2, <2>3, <2>4, <2>5 DEF WatchInv
<1>17. CASE wfi
  <2>1. /\ prog # <<>> /\ prog[1] \in {[do |-> "wfi"], [do |-> "asleep"]} /\ watch' = watch
    BY <1>17 DEF wfi, Running
  <2>2. prog[1] \notin {U, L, C, Sub, Add, On, Off}
    BY <2>1, ShortSteps
  <2>3. ~watch.on
    <3>1. ~(watch.on /\ (Measuring \/ Stopped))
      BY <1>13, <2>1, <2>2
    <3>2. ~Starting
      BY <2>2 DEF Starting
    <3>3. ~Stopping
      BY <2>2 DEF Stopping
    <3> QED BY <3>1, <3>2, <3>3 DEF WatchInv
  <2> QED BY <1>5, <2>1, <2>3
<1>18. CASE TakeInterrupt
  BY <1>4, <1>18 DEF TakeInterrupt
<1>19. CASE handler_irq_timer
  <2>1. isr[1] \in {Off, Clear}
    BY <1>1, <1>19 DEF handler_irq_timer
  <2>2. mtime' = mtime
    <3>1. isr[1].reg \in {"ctrl", "intr_state"}
      BY <2>1, ShortSteps
    <3> QED BY <1>19, <3>1 DEF handler_irq_timer, Writes
  <2> QED BY <1>7, <1>19, <2>2 DEF handler_irq_timer
<1>20. CASE Tick /\ UNCHANGED sdkVars
  <2>1. mtime' \in Cmps /\ Value(mtime) <= Value(mtime')
    BY <1>1, <1>20, TickIs
  <2>2. Value(mtime') \in Nat
    <3>1. W * W \in Nat
      BY TimerAssumption
    <3> QED BY <2>1, <3>1, ValueIs DEF Values, Cmps
  <2> QED BY <1>6, <1>20, <2>1, <2>2 DEF sdkVars
<1>21. CASE Expire /\ UNCHANGED sdkVars
  BY <1>7, <1>21 DEF Expire, sdkVars
<1>22. CASE UNCHANGED vars
  BY <1>7, <1>22 DEF vars, timerVars, sdkVars
<1> QED BY <1>10, <1>11, <1>12, <1>14, <1>15, <1>16, <1>17, <1>18, <1>19, <1>20, <1>21, <1>22
        DEF SdkNext, Main, Handler

-----------------------------------------------------------------------------
(* What is promised.                                                       *)

\* timer_get_cycles, rv_timer_counter_read of rv_timer.c, returns a value the
\* counter had between the call and the return, however often the lower half
\* overflows between the reads and whatever the interrupt handler does.
THEOREM ReadSafety == SdkSpec => []ReadNotTorn
<1>1. SdkInit => ReadInv
  BY InitRead
<1>2. SdkInv /\ ReadInv /\ [SdkNext]_vars => ReadInv'
  BY ReadStep
<1>3. ReadInv => ReadNotTorn
  <2> SUFFICES ASSUME ReadInv, prog = <<>>, fn = "timer_get_cycles"
               PROVE  seen.value \in seen.from..seen.to
    BY DEF ReadNotTorn
  <2>1. prog # <<U, L, C>> /\ prog # <<L, C>> /\ prog # <<C>>
    OBVIOUS
  <2> QED BY <2>1 DEF ReadInv
<1> QED BY <1>1, <1>2, <1>3, SdkInvariant, PTL DEF SdkSpec

\* timer_start and timer_stop of timer_sdk.c, with a 32-bit accumulator and a
\* 64-bit counter, measure the cycles between them modulo the word, whenever the
\* halves overflow; a read of the counter in between does not disturb them.
THEOREM StopwatchSafety == SdkSpec => []StopwatchExact
<1>1. SdkInit => ReadInv /\ WatchInv
  BY InitRead, InitWatch
<1>2. SdkInv /\ ReadInv /\ WatchInv /\ [SdkNext]_vars => ReadInv' /\ WatchInv'
  BY ReadStep, WatchStep
<1>3. WatchInv => StopwatchExact
  <2> SUFFICES ASSUME WatchInv, watch.result # <<>> PROVE StopwatchExact
    BY DEF StopwatchExact
  <2>1. watch.on
    BY DEF WatchInv
  <2>2. ~Starting /\ ~Measuring /\ ~Stopping
    BY DEF Starting, Measuring, Stopping
  <2> QED BY <2>1, <2>2 DEF WatchInv, Stopped
<1> QED BY <1>1, <1>2, <1>3, SdkInvariant, PTL DEF SdkSpec

\* The interrupt of an alarm is raised by an expiry only when the counter has
\* reached a threshold in force: rv_timer_arm puts the comparator out of reach
\* before it writes the halves, so that no half of an old threshold and half of a
\* new one is ever compared with the counter.
THEOREM AlarmSafety == SdkSpec => NoSpuriousAlarm
<1> DEFINE Raised == ~intr_state /\ intr_state' =>
                        \/ \E t \in armed : Value(mtime) >= t
                        \/ prog # <<>> /\ IsAccess(prog[1]) /\ prog[1].reg = "intr_test"
<1>1. SdkInv /\ [SdkNext]_vars => [Raised]_vars
  <2> SUFFICES ASSUME SdkInv, SdkNext, ~intr_state, intr_state'
               PROVE  \/ \E t \in armed : Value(mtime) >= t
                      \/ prog # <<>> /\ IsAccess(prog[1]) /\ prog[1].reg = "intr_test"
    OBVIOUS
  <2>1. /\ mtime \in Cmps /\ mtimecmp \in Cmps /\ cfg \in Rates /\ armed \subseteq Values
        /\ isr \in {<<>>, <<Clear>>, <<Off, Clear>>} /\ prog \in Seq(Steps)
    BY DEF SdkInv, SdkTypes
  <2>2. CASE WriteRegister
    <3>1. prog # <<>> /\ IsAccess(prog[1]) /\ Writes(prog[1]) /\ prog[1] \in Steps
      BY <2>1, <2>2 DEF WriteRegister, Running
    <3>2. prog[1].reg = "intr_test"
      BY <2>1, <3>1, StepIs, WritesIs
    <3> QED BY <3>1, <3>2
  <2>3. CASE Expire
    <3>1. Value(mtime) >= Value(mtimecmp)
      BY <2>3 DEF Expire, Expired
    <3>2. PICK t \in armed : t <= Value(mtimecmp)
      BY DEF SdkInv, AlarmOf
    <3>3. Value(mtime) \in Int /\ Value(mtimecmp) \in Int /\ t \in Int
      BY <2>1, ValueIs, TimerAssumption DEF Values, Cmps
    <3> QED BY <3>1, <3>2, <3>3
  <2>4. CASE handler_irq_timer
    <3>1. isr[1] \in {Off, Clear} /\ Writes(isr[1])
      BY <2>1, <2>4 DEF handler_irq_timer
    <3>2. isr[1].reg \in {"ctrl", "intr_state"}
      BY <3>1, ShortSteps
    <3> QED BY <3>1, <3>2 DEF Writes
  <2>5. ASSUME NEW clock \in Frequencies, NEW counter \in Frequencies,
               SetTickParams(clock, counter)
        PROVE  FALSE
    BY <2>5 DEF SetTickParams, rv_timer_set_tick_params, Writes, Access
  <2>6. CASE UNCHANGED intr_state
    BY <2>6
  <2>7. ASSUME NEW f \in Functions, Call(f)
        PROVE  UNCHANGED intr_state
    BY <2>7 DEF Call, timerVars
  <2>8. ReadRegister \/ Compute \/ wfi \/ TakeInterrupt \/ enable_timer_interrupt \/ Tick
           => UNCHANGED intr_state
    BY DEF ReadRegister, Compute, wfi, TakeInterrupt, enable_timer_interrupt, Tick, timerVars
  <2> QED BY <2>2, <2>3, <2>4, <2>5, <2>6, <2>7, <2>8 DEF SdkNext, Main, Handler
<1>2. NoSpuriousAlarm <=> [][Raised]_vars
  BY DEF NoSpuriousAlarm
<1> QED BY <1>1, <1>2, SdkInvariant, PTL DEF SdkSpec

-----------------------------------------------------------------------------
(* The rate                                                                *)

LEMMA RateStep ==
    ASSUME SdkInv, RateExact, SdkNext
    PROVE  RateExact'
<1>1. /\ isr \in {<<>>, <<Clear>>, <<Off, Clear>>} /\ prog \in Seq(Steps)
  BY DEF SdkInv, SdkTypes
<1>2. ASSUME NEW clock \in Frequencies, NEW counter \in Frequencies,
             SetTickParams(clock, counter)
      PROVE  RateExact'
  <2> DEFINE params == rv_timer_approximate_tick_params(clock, counter)
  <2>1. clock \in Nat \ {0} /\ counter \in Nat \ {0}
    BY SdkAssumption
  <2>2. params # <<>> /\ cfg' = params[1] /\ ticks' = <<[clock |-> clock, counter |-> counter]>>
    BY <1>2 DEF SetTickParams, rv_timer_set_tick_params, Writes, Access
  <2>3. params[1].step * clock = (params[1].prescale + 1) * counter
    BY <2>1, <2>2, RatioKept
  <2> QED BY <2>2, <2>3 DEF RateExact
<1>3. CASE WriteRegister
  <2>1. CASE prog[1].reg = "cfg"
    BY <1>3, <2>1 DEF WriteRegister, RateExact
  <2>2. CASE prog[1].reg # "cfg"
    BY <1>3, <2>2 DEF WriteRegister, Writes, RateExact
  <2> QED BY <2>1, <2>2
<1>4. CASE handler_irq_timer
  <2>1. isr[1] \in {Off, Clear} /\ Writes(isr[1])
    BY <1>1, <1>4 DEF handler_irq_timer
  <2>2. isr[1].reg \in {"ctrl", "intr_state"}
    BY <2>1, ShortSteps
  <2>3. cfg' = cfg /\ ticks' = ticks
    BY <1>4, <2>1, <2>2 DEF Writes, handler_irq_timer
  <2> QED BY <2>3 DEF RateExact
<1>5. ASSUME NEW f \in Functions, Call(f)
      PROVE  UNCHANGED <<cfg, ticks>>
  BY <1>5 DEF Call, timerVars
<1>6. ReadRegister \/ Compute \/ wfi \/ TakeInterrupt \/ enable_timer_interrupt
         => UNCHANGED <<cfg, ticks>>
  BY DEF ReadRegister, Compute, wfi, TakeInterrupt, enable_timer_interrupt, timerVars
<1>7. (Tick \/ Expire) /\ UNCHANGED sdkVars => UNCHANGED <<cfg, ticks>>
  BY DEF Tick, Expire, sdkVars
<1>8. UNCHANGED <<cfg, ticks>> => RateExact'
  BY DEF RateExact
<1> QED BY <1>2, <1>3, <1>4, <1>5, <1>6, <1>7, <1>8 DEF SdkNext, Main, Handler

\* The counter runs at the rate asked for: Euclid's loop finds a common divisor
\* of the two frequencies, whatever they are, so that nothing is lost when they
\* are divided by it, and CFG0 keeps the ratio until it is written again.
THEOREM RateSafety == SdkSpec => []RateExact
<1>1. SdkInit => RateExact
  BY DEF SdkInit, RateExact
<1>2. SdkInv /\ RateExact /\ [SdkNext]_vars => RateExact'
  <2>1. CASE UNCHANGED vars
    BY <2>1 DEF vars, timerVars, sdkVars, RateExact
  <2>2. CASE SdkNext
    BY <2>2, RateStep
  <2> QED BY <2>1, <2>2
<1> QED BY <1>1, <1>2, SdkInvariant, PTL DEF SdkSpec
=============================================================================
