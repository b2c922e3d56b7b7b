----------------------------- MODULE Gpio_proofs -----------------------------
(***************************************************************************)
(* Proofs about the GPIO driver, for every set of pins, every sequence of  *)
(* calls and every interrupt that preempts them.                           *)
(*                                                                         *)
(* What is left of a thread is followed for one pin p and one register r:  *)
(* a track says which block is selected, whether the bit is on and whether *)
(* the value loaded last agrees with the register on that bit.  A thread   *)
(* keeps its promise when its accesses lead from the bit as it is to the   *)
(* bit as it was asked for.                                                *)
(***************************************************************************)
EXTENDS Gpio, SequenceTheorems, TLAPS

-----------------------------------------------------------------------------
(* Tracks                                                                  *)

Names == {"select", "unselected", "load", "set", "unset", "toggle", "clear", "ones",
          "prio", "prio0", "threshold", "handlers", "gpio_handlers", "assign",
          "claim", "complete", "mret"}
Registers == {"", "MODE0", "EN0", "OUT0", "RISE_EN0", "FALL_EN0", "HIGH_EN0", "LOW_EN0",
              "RISE_STATUS0", "FALL_STATUS0", "HIGH_STATUS0", "LOW_STATUS0", "CFG",
              "STATUS0", "IN0", "IE0", "LE0", "IP0", "PRIO", "THRESHOLD0", "CC0"}
Ops == [op : Names, reg : Registers, bit : Nat, n : Nat]
Stores == {"set", "unset", "toggle", "clear", "ones"}
Bits == {"on", "off"}
Bit(v) == IF v THEN "on" ELSE "off"
Tracks == [block : {AO, PERI, "any"}, bit : Bits, loaded : {"fresh", "stale"}]

\* The bit of p after a write of the register.
Stored(p, op, u) ==
    CASE op.op = "set" /\ op.bit = p    -> "on"
      [] op.op = "unset" /\ op.bit = p  -> "off"
      [] op.op = "toggle" /\ op.bit = p -> IF u = "on" THEN "off" ELSE "on"
      [] op.op = "clear"                -> "off"
      [] OTHER                          -> u

Touches(p, r, op, x) == op.op \in Stores /\ op.reg = r /\ x.block = Domain(p)

\* A write of the register goes to a known block, and writes back what is there.
Permitted(p, r, op, x) ==
    op.op \in Stores /\ op.reg = r =>
        /\ x.block # "any" /\ op.op # "ones"
        /\ x.block = Domain(p) => \/ x.loaded = "fresh" \/ op.op = "clear"
                                  \/ op.op \in {"set", "unset"} /\ op.bit = p

After(p, r, op, x) ==
    IF op.op = "select"
    THEN [block |-> Domain(op.bit), bit |-> x.bit, loaded |-> "stale"]
    ELSE IF op.op = "unselected"
    THEN [block |-> "any", bit |-> x.bit, loaded |-> "stale"]
    ELSE IF op.op = "load"
    THEN [block |-> x.block, bit |-> x.bit,
          loaded |-> IF op.reg = r /\ x.block = Domain(p) THEN "fresh" ELSE "stale"]
    ELSE IF Touches(p, r, op, x)
    THEN [block |-> x.block, bit |-> Stored(p, op, x.bit), loaded |-> "stale"]
    ELSE x

IsTrack(p, r, ops, tr) ==
    \A i \in 1..Len(ops) : Permitted(p, r, ops[i], tr[i]) /\ tr[i + 1] = After(p, r, ops[i], tr[i])

Leads(p, r, ops, x, y) ==
    \E tr \in [1..Len(ops) + 1 -> Tracks] :
        tr[1] = x /\ tr[Len(ops) + 1] = y /\ IsTrack(p, r, ops, tr)

LEMMA DomainIs ==
    ASSUME NEW p
    PROVE  Domain(p) \in {AO, PERI} /\ Domain(p) # "any"
BY DEF Domain, AO, PERI

LEMMA AfterIs ==
    ASSUME NEW p, NEW r, NEW op, NEW x \in Tracks
    PROVE  After(p, r, op, x) \in Tracks
<1>1. Stored(p, op, x.bit) \in Bits
  BY DEF Stored, Bits, Tracks
<1>2. Domain(op.bit) \in {AO, PERI}
  BY DomainIs
<1> QED BY <1>1, <1>2 DEF After, Tracks

LEMMA LeadsNowhere ==
    ASSUME NEW p, NEW r, NEW x \in Tracks, NEW y \in Tracks
    PROVE  Leads(p, r, <<>>, x, y) <=> x = y
<1>1. Len(<<>>) = 0
  OBVIOUS
<1>2. ASSUME x = y
      PROVE  Leads(p, r, <<>>, x, y)
  <2> DEFINE tr == [i \in 1..1 |-> x]
  <2>1. tr \in [1..0 + 1 -> Tracks] /\ tr[1] = x /\ tr[0 + 1] = y
    BY <1>2
  <2>2. IsTrack(p, r, <<>>, tr)
    BY <1>1 DEF IsTrack
  <2> QED BY <1>1, <2>1, <2>2 DEF Leads
<1> QED BY <1>1, <1>2 DEF Leads

LEMMA LeadsOne ==
    ASSUME NEW p, NEW r, NEW op, NEW x \in Tracks, Permitted(p, r, op, x)
    PROVE  Leads(p, r, <<op>>, x, After(p, r, op, x))
<1> DEFINE y == After(p, r, op, x)
           tr == [i \in 1..2 |-> IF i = 1 THEN x ELSE y]
           s == <<op>>
<1>1. Len(s) = 1 /\ s[1] = op
  OBVIOUS
<1>2. y \in Tracks
  BY AfterIs
<1> HIDE DEF s
<1>3. IsTrack(p, r, s, tr)
  <2>1. 1..1 = {1}
    OBVIOUS
  <2>2. tr[1] = x /\ tr[1 + 1] = y
    OBVIOUS
  <2> HIDE DEF tr
  <2> QED BY <1>1, <2>1, <2>2 DEF IsTrack
<1>4. tr \in [1..1 + 1 -> Tracks] /\ tr[1] = x /\ tr[1 + 1] = y
  BY <1>2
<1> HIDE DEF tr, y
<1>5. Leads(p, r, s, x, y)
  BY <1>1, <1>3, <1>4 DEF Leads
<1> QED BY <1>5 DEF s, y

LEMMA LeadsJoin ==
    ASSUME NEW p, NEW r, NEW s \in Seq(Ops), NEW t \in Seq(Ops),
           NEW x \in Tracks, NEW y \in Tracks, NEW z \in Tracks,
           Leads(p, r, s, x, y), Leads(p, r, t, y, z)
    PROVE  Leads(p, r, s \o t, x, z)
<1> DEFINE m == Len(s)
           n == Len(t)
           u == s \o t
<1>1. PICK a \in [1..m + 1 -> Tracks] : a[1] = x /\ a[m + 1] = y /\ IsTrack(p, r, s, a)
  BY DEF Leads
<1>2. PICK b \in [1..n + 1 -> Tracks] : b[1] = y /\ b[n + 1] = z /\ IsTrack(p, r, t, b)
  BY DEF Leads
<1>3. /\ m \in Nat /\ n \in Nat /\ Len(u) = m + n
      /\ \A i \in 1..m + n : u[i] = IF i <= m THEN s[i] ELSE t[i - m]
  BY ConcatProperties
<1>4. \A i \in 1..m : Permitted(p, r, s[i], a[i]) /\ a[i + 1] = After(p, r, s[i], a[i])
  BY <1>1 DEF IsTrack
<1>5. \A i \in 1..n : Permitted(p, r, t[i], b[i]) /\ b[i + 1] = After(p, r, t[i], b[i])
  BY <1>2 DEF IsTrack
<1> DEFINE c == [i \in 1..m + n + 1 |-> IF i <= m THEN a[i] ELSE b[i - m]]
<1> HIDE DEF m, n, u
<1>6. c \in [1..m + n + 1 -> Tracks]
  BY <1>1, <1>2, <1>3
<1>7. c[1] = x /\ c[m + n + 1] = z
  BY <1>1, <1>2, <1>3
<1>8. ASSUME NEW i \in 1..m + n
      PROVE  Permitted(p, r, u[i], c[i]) /\ c[i + 1] = After(p, r, u[i], c[i])
  <2>1. CASE i < m
    <3>1. c[i] = a[i] /\ c[i + 1] = a[i + 1] /\ u[i] = s[i] /\ i \in 1..m
      BY <1>3, <2>1
    <3> QED BY <1>4, <3>1
  <2>2. CASE i = m
    <3>1. c[i] = a[i] /\ c[i + 1] = b[1] /\ u[i] = s[i] /\ i \in 1..m
      BY <1>3, <2>2
    <3> QED BY <1>1, <1>2, <1>4, <2>2, <3>1
  <2>3. CASE i > m
    <3> DEFINE j == i - m
    <3>1. j \in 1..n /\ c[i] = b[j] /\ c[i + 1] = b[j + 1] /\ u[i] = t[j]
      BY <1>3, <2>3
    <3> HIDE DEF j
    <3> QED BY <1>5, <3>1
  <2> QED BY <1>3, <2>1, <2>2, <2>3
<1> HIDE DEF c
<1>9. IsTrack(p, r, u, c)
  BY <1>3, <1>8 DEF IsTrack
<1>10. Leads(p, r, u, x, z)
  BY <1>3, <1>6, <1>7, <1>9 DEF Leads
<1> QED BY <1>10 DEF u

LEMMA LeadsTail ==
    ASSUME NEW p, NEW r, NEW s \in Seq(Ops), s # <<>>,
           NEW x \in Tracks, NEW y \in Tracks, Leads(p, r, s, x, y)
    PROVE  /\ Permitted(p, r, Head(s), x) /\ Tail(s) \in Seq(Ops)
           /\ Leads(p, r, Tail(s), After(p, r, Head(s), x), y)
<1> DEFINE n == Len(s)
           t == Tail(s)
           z == After(p, r, Head(s), x)
<1>1. /\ n \in Nat /\ n > 0 /\ t \in Seq(Ops) /\ Len(t) = n - 1 /\ Head(s) = s[1]
      /\ \A i \in 1..n - 1 : t[i] = s[i + 1]
  <2>1. s[1] = Head(s)
    OBVIOUS
  <2>2. /\ n \in Nat /\ n > 0 /\ t \in Seq(Ops) /\ Len(t) = n - 1
        /\ \A i \in 1..n - 1 : t[i] = s[i + 1]
    BY EmptySeq, HeadTailProperties
  <2> QED BY <2>1, <2>2
<1>2. PICK a \in [1..n + 1 -> Tracks] : a[1] = x /\ a[n + 1] = y /\ IsTrack(p, r, s, a)
  BY DEF Leads
<1>3. \A i \in 1..n : Permitted(p, r, s[i], a[i]) /\ a[i + 1] = After(p, r, s[i], a[i])
  BY <1>2 DEF IsTrack
<1>4. Permitted(p, r, Head(s), x) /\ a[2] = z
  <2>1. 1 \in 1..n
    BY <1>1
  <2> QED BY <1>1, <1>2, <1>3, <2>1
<1> DEFINE b == [i \in 1..n |-> a[i + 1]]
<1> HIDE DEF n, t, z
<1>5. b \in [1..n -> Tracks] /\ b[1] = z /\ b[n] = y
  BY <1>1, <1>2, <1>4
<1>6. ASSUME NEW i \in 1..n - 1
      PROVE  Permitted(p, r, t[i], b[i]) /\ b[i + 1] = After(p, r, t[i], b[i])
  <2> DEFINE j == i + 1
  <2>1. j \in 1..n /\ b[i] = a[j] /\ b[i + 1] = a[j + 1] /\ t[i] = s[j]
    BY <1>1
  <2> HIDE DEF j
  <2> QED BY <1>3, <2>1
<1> HIDE DEF b
<1>7. IsTrack(p, r, t, b) /\ (n - 1) + 1 = n
  BY <1>1, <1>6 DEF IsTrack
<1>8. Leads(p, r, t, z, y)
  BY <1>1, <1>5, <1>7 DEF Leads
<1> QED BY <1>1, <1>4, <1>8 DEF t, z

-----------------------------------------------------------------------------
(* Pieces of code: from any track with the bit u to a track with the bit v, *)
(* from a track in the block d, and to a track in the block d.              *)

Code(p, r, c, u, v) ==
    c \in Seq(Ops) /\ \A x \in Tracks : x.bit = u =>
        \E y \in Tracks : y.bit = v /\ Leads(p, r, c, x, y)

Within(p, r, d, c, u, v) ==
    c \in Seq(Ops) /\ \A x \in Tracks : x.bit = u /\ x.block = d =>
        \E y \in Tracks : y.bit = v /\ y.block = d /\ Leads(p, r, c, x, y)

Into(p, r, d, c, u, v) ==
    c \in Seq(Ops) /\ \A x \in Tracks : x.bit = u =>
        \E y \in Tracks : y.bit = v /\ y.block = d /\ Leads(p, r, c, x, y)

LEMMA CodeNothing ==
    ASSUME NEW p, NEW r, NEW u
    PROVE  Code(p, r, <<>>, u, u)
BY LeadsNowhere DEF Code

LEMMA CodeJoin ==
    ASSUME NEW p, NEW r, NEW u, NEW v, NEW w, NEW s, NEW t,
           Code(p, r, s, u, v), Code(p, r, t, v, w)
    PROVE  Code(p, r, s \o t, u, w)
<1>1. s \in Seq(Ops) /\ t \in Seq(Ops) /\ s \o t \in Seq(Ops)
  BY ConcatProperties DEF Code
<1>2. ASSUME NEW x \in Tracks, x.bit = u
      PROVE  \E z \in Tracks : z.bit = w /\ Leads(p, r, s \o t, x, z)
  <2>1. PICK y \in Tracks : y.bit = v /\ Leads(p, r, s, x, y)
    BY <1>2 DEF Code
  <2>2. PICK z \in Tracks : z.bit = w /\ Leads(p, r, t, y, z)
    BY <2>1 DEF Code
  <2> QED BY <1>1, <2>1, <2>2, LeadsJoin
<1> QED BY <1>1, <1>2 DEF Code

LEMMA IntoJoin ==
    ASSUME NEW p, NEW r, NEW d, NEW u, NEW v, NEW w, NEW s, NEW t,
           Into(p, r, d, s, u, v), Within(p, r, d, t, v, w)
    PROVE  Into(p, r, d, s \o t, u, w)
<1>1. s \in Seq(Ops) /\ t \in Seq(Ops) /\ s \o t \in Seq(Ops)
  BY ConcatProperties DEF Into, Within
<1>2. ASSUME NEW x \in Tracks, x.bit = u
      PROVE  \E z \in Tracks : z.bit = w /\ z.block = d /\ Leads(p, r, s \o t, x, z)
  <2>1. PICK y \in Tracks : y.bit = v /\ y.block = d /\ Leads(p, r, s, x, y)
    BY <1>2 DEF Into
  <2>2. PICK z \in Tracks : z.bit = w /\ z.block = d /\ Leads(p, r, t, y, z)
    BY <2>1 DEF Within
  <2> QED BY <1>1, <2>1, <2>2, LeadsJoin
<1> QED BY <1>1, <1>2 DEF Into

LEMMA WithinJoin ==
    ASSUME NEW p, NEW r, NEW d, NEW u, NEW v, NEW w, NEW s, NEW t,
           Within(p, r, d, s, u, v), Within(p, r, d, t, v, w)
    PROVE  Within(p, r, d, s \o t, u, w)
<1>1. s \in Seq(Ops) /\ t \in Seq(Ops) /\ s \o t \in Seq(Ops)
  BY ConcatProperties DEF Within
<1>2. ASSUME NEW x \in Tracks, x.bit = u, x.block = d
      PROVE  \E z \in Tracks : z.bit = w /\ z.block = d /\ Leads(p, r, s \o t, x, z)
  <2>1. PICK y \in Tracks : y.bit = v /\ y.block = d /\ Leads(p, r, s, x, y)
    BY <1>2 DEF Within
  <2>2. PICK z \in Tracks : z.bit = w /\ z.block = d /\ Leads(p, r, t, y, z)
    BY <2>1 DEF Within
  <2> QED BY <1>1, <2>1, <2>2, LeadsJoin
<1> QED BY <1>1, <1>2 DEF Within

LEMMA IntoIsCode ==
    ASSUME NEW p, NEW r, NEW d, NEW c, NEW u, NEW v, Into(p, r, d, c, u, v)
    PROVE  Code(p, r, c, u, v)
BY DEF Into, Code

LEMMA Join1And1 ==
    ASSUME NEW a, NEW b
    PROVE  <<a>> \o <<b>> = <<a, b>>
<1> DEFINE s == <<a>>
           t == <<b>>
           c == <<a, b>>
<1>1. /\ Len(s) = 1 /\ Len(t) = 1 /\ Len(c) = 2 /\ s \in Seq({a, b}) /\ t \in Seq({a, b})
      /\ c \in Seq({a, b}) /\ s[1] = a /\ t[1] = b /\ c[1] = a /\ c[2] = b
  OBVIOUS
<1> HIDE DEF s, t, c
<1>2. /\ s \o t \in Seq({a, b}) /\ Len(s \o t) = 2
      /\ \A i \in 1..2 : (s \o t)[i] = IF i <= 1 THEN s[i] ELSE t[i - 1]
  BY <1>1, ConcatProperties
<1>3. \A i \in 1..2 : (s \o t)[i] = c[i]
  BY <1>1, <1>2
<1>4. s \o t = c
  BY <1>1, <1>2, <1>3, SeqEqual
<1> QED BY <1>4 DEF s, t, c

LEMMA SelectInto ==
    ASSUME NEW p, NEW r, NEW q \in Nat, NEW u \in Bits
    PROVE  Into(p, r, Domain(q), select_gpio_domain(q), u, u)
<1> DEFINE a == Op("select", "", q, 0)
<1>1. a \in Ops /\ a.op = "select" /\ a.bit = q /\ <<a>> \in Seq(Ops)
  BY DEF Op, Ops, Names, Registers
<1> HIDE DEF a
<1>2. ASSUME NEW x \in Tracks, x.bit = u
      PROVE  \E y \in Tracks : y.bit = u /\ y.block = Domain(q) /\ Leads(p, r, <<a>>, x, y)
  <2> DEFINE y == After(p, r, a, x)
  <2>1. Permitted(p, r, a, x)
    BY <1>1 DEF Permitted, Stores
  <2>2. y \in Tracks /\ Leads(p, r, <<a>>, x, y)
    BY <2>1, AfterIs, LeadsOne
  <2>3. y.bit = u /\ y.block = Domain(q)
    BY <1>1, <1>2 DEF After
  <2> QED BY <2>2, <2>3
<1>3. Into(p, r, Domain(q), <<a>>, u, u)
  BY <1>1, <1>2 DEF Into
<1> QED BY <1>3 DEF select_gpio_domain, a

(* An access that neither selects a block nor writes the register.         *)
LEMMA OtherWithin ==
    ASSUME NEW p, NEW r, NEW d, NEW a \in Ops, NEW u \in Bits,
           a.op \notin {"select", "unselected"}, a.op \in Stores => a.reg # r
    PROVE  Within(p, r, d, <<a>>, u, u)
<1>1. ASSUME NEW x \in Tracks, x.bit = u, x.block = d
      PROVE  \E y \in Tracks : y.bit = u /\ y.block = d /\ Leads(p, r, <<a>>, x, y)
  <2> DEFINE y == After(p, r, a, x)
  <2>1. Permitted(p, r, a, x)
    BY DEF Permitted
  <2>2. y \in Tracks /\ Leads(p, r, <<a>>, x, y)
    BY <2>1, AfterIs, LeadsOne
  <2>3. y.bit = u /\ y.block = d
    BY <1>1 DEF After, Touches
  <2> QED BY <2>2, <2>3
<1> QED BY <1>1 DEF Within

LEMMA ClearWithin ==
    ASSUME NEW p, NEW r, NEW d \in {AO, PERI}, NEW g \in Registers, NEW u \in Bits
    PROVE  Within(p, r, d, <<Op("clear", g, 0, 0)>>, u,
                  IF g = r /\ d = Domain(p) THEN "off" ELSE u)
<1> DEFINE a == Op("clear", g, 0, 0)
           v == IF g = r /\ d = Domain(p) THEN "off" ELSE u
<1>1. a \in Ops /\ a.op = "clear" /\ a.reg = g /\ <<a>> \in Seq(Ops)
  BY DEF Op, Ops, Names
<1> HIDE DEF a
<1>2. ASSUME NEW x \in Tracks, x.bit = u, x.block = d
      PROVE  \E y \in Tracks : y.bit = v /\ y.block = d /\ Leads(p, r, <<a>>, x, y)
  <2> DEFINE y == After(p, r, a, x)
  <2>1. Permitted(p, r, a, x)
    BY <1>1, <1>2 DEF Permitted, AO, PERI
  <2>2. y \in Tracks /\ Leads(p, r, <<a>>, x, y)
    BY <2>1, AfterIs, LeadsOne
  <2>3. y.bit = v /\ y.block = d
    BY <1>1, <1>2 DEF After, Touches, Stores, Stored
  <2> QED BY <2>2, <2>3
<1>3. Within(p, r, d, <<a>>, u, v)
  BY <1>1, <1>2 DEF Within
<1> QED BY <1>3 DEF a

(* A read-modify-write changes the bit it names and no other, because what *)
(* it writes back was loaded from the same block.                          *)
LEMMA ModifyWithin ==
    ASSUME NEW p, NEW r, NEW d \in {AO, PERI}, NEW g \in Registers, NEW b \in Nat,
           NEW v \in BOOLEAN, NEW u \in Bits
    PROVE  Within(p, r, d, Modify(g, b, v), u,
                  IF g = r /\ b = p /\ d = Domain(p) THEN Bit(v) ELSE u)
<1> DEFINE o == IF v THEN "set" ELSE "unset"
           a == Op("load", g, 0, 0)
           e == Op(o, g, b, 0)
           w == IF g = r /\ b = p /\ d = Domain(p) THEN Bit(v) ELSE u
<1>1. /\ a \in Ops /\ a.op = "load" /\ a.reg = g
      /\ e \in Ops /\ e.op = o /\ e.reg = g /\ e.bit = b
      /\ <<a>> \in Seq(Ops) /\ <<e>> \in Seq(Ops)
  BY DEF Op, Ops, Names
<1> HIDE DEF a, e
<1>2. <<a>> \o <<e>> = <<a, e>> /\ <<a, e>> \in Seq(Ops)
  BY <1>1, Join1And1
<1>3. ASSUME NEW x \in Tracks, x.bit = u, x.block = d
      PROVE  \E y \in Tracks : y.bit = w /\ y.block = d /\ Leads(p, r, <<a>> \o <<e>>, x, y)
  <2> DEFINE y == After(p, r, a, x)
             z == After(p, r, e, y)
  <2>1. Permitted(p, r, a, x)
    BY <1>1 DEF Permitted, Stores
  <2>2. y \in Tracks /\ Leads(p, r, <<a>>, x, y)
    BY <2>1, AfterIs, LeadsOne
  <2>3. /\ y.bit = u /\ y.block = d
        /\ y.loaded = IF g = r /\ d = Domain(p) THEN "fresh" ELSE "stale"
    BY <1>1, <1>3 DEF After
  <2> HIDE DEF y
  <2>4. Permitted(p, r, e, y)
    BY <1>1, <2>3 DEF Permitted, AO, PERI
  <2>5. z \in Tracks /\ Leads(p, r, <<e>>, y, z)
    BY <2>2, <2>4, AfterIs, LeadsOne
  <2>6. z.bit = w /\ z.block = d
    <3>1. CASE v
      BY <1>1, <2>3, <3>1 DEF After, Touches, Stores, Stored, Bit
    <3>2. CASE ~v
      BY <1>1, <2>3, <3>2 DEF After, Touches, Stores, Stored, Bit
    <3> QED BY <3>1, <3>2
  <2> HIDE DEF z
  <2>7. Leads(p, r, <<a>> \o <<e>>, x, z)
    BY <1>1, <2>2, <2>5, LeadsJoin
  <2> QED BY <2>5, <2>6, <2>7
<1>4. Within(p, r, d, <<a>> \o <<e>>, u, w)
  BY <1>1, <1>2, <1>3 DEF Within
<1>5. Within(p, r, d, <<a, e>>, u, w)
  BY <1>2, <1>4
<1> QED BY <1>5 DEF Modify, a, e

-----------------------------------------------------------------------------
(* The calls of the driver                                                 *)

KindRegs == {"RISE_EN0", "FALL_EN0", "HIGH_EN0", "LOW_EN0"}

LEMMA RegistersAre ==
    /\ ConfigRegs = {"MODE0", "EN0", "OUT0"} \cup KindRegs
    /\ ConfigRegs \subseteq Registers /\ ConfigRegs \subseteq BlockRegs
    /\ \A k \in Kinds : Enables[k] \in KindRegs /\ Enables[k] \in Registers
    /\ \A k \in Kinds : Status[k] \in Registers /\ Status[k] \notin ConfigRegs
    /\ \A j, k \in Kinds : Enables[j] = Enables[k] => j = k
<1>1. /\ Enables["RISE"] = "RISE_EN0" /\ Enables["FALL"] = "FALL_EN0"
      /\ Enables["HIGH"] = "HIGH_EN0" /\ Enables["LOW"] = "LOW_EN0"
      /\ Status["RISE"] = "RISE_STATUS0" /\ Status["FALL"] = "FALL_STATUS0"
      /\ Status["HIGH"] = "HIGH_STATUS0" /\ Status["LOW"] = "LOW_STATUS0"
  BY DEF Enables, Status
<1>2. {Enables[k] : k \in Kinds} = KindRegs
  BY <1>1 DEF Kinds, KindRegs
<1>3. ConfigRegs = {"MODE0", "EN0", "OUT0"} \cup KindRegs
  BY <1>2 DEF ConfigRegs
<1>4. ConfigRegs \subseteq Registers
  BY <1>3 DEF KindRegs, Registers
<1>5. ConfigRegs \subseteq BlockRegs
  BY DEF BlockRegs
<1>6. \A k \in Kinds : Enables[k] \in KindRegs /\ Enables[k] \in Registers
  BY <1>1 DEF Kinds, KindRegs, Registers
<1>7. \A k \in Kinds : Status[k] \in Registers /\ Status[k] \notin ConfigRegs
  BY <1>1, <1>3 DEF Kinds, KindRegs, Registers
<1>8. \A j, k \in Kinds : Enables[j] = Enables[k] => j = k
  BY <1>1 DEF Kinds
<1> QED BY <1>3, <1>4, <1>5, <1>6, <1>7, <1>8

LEMMA ModifyInto ==
    ASSUME NEW p, NEW r, NEW q \in Nat, NEW g \in Registers, NEW b \in Nat,
           NEW v \in BOOLEAN, NEW u \in Bits
    PROVE  Into(p, r, Domain(q), select_gpio_domain(q) \o Modify(g, b, v), u,
                IF g = r /\ b = p /\ Domain(q) = Domain(p) THEN Bit(v) ELSE u)
<1> DEFINE d == Domain(q)
           w == IF g = r /\ b = p /\ d = Domain(p) THEN Bit(v) ELSE u
<1>1. Into(p, r, d, select_gpio_domain(q), u, u)
  BY SelectInto
<1>2. d \in {AO, PERI}
  BY DomainIs
<1> HIDE DEF d
<1>3. Within(p, r, d, Modify(g, b, v), u, w)
  BY <1>2, ModifyWithin
<1> HIDE DEF w
<1>4. Into(p, r, d, select_gpio_domain(q) \o Modify(g, b, v), u, w)
  BY <1>1, <1>3, IntoJoin
<1> QED BY <1>4 DEF d, w

LEMMA Set1Code ==
    ASSUME NEW p, NEW r, NEW q \in Nat, NEW g \in Registers, NEW v \in BOOLEAN, NEW u \in Bits
    PROVE  Code(p, r, Set1(q, g, v), u, IF g = r /\ q = p THEN Bit(v) ELSE u)
<1>1. Code(p, r, select_gpio_domain(q) \o Modify(g, q, v), u,
           IF g = r /\ q = p /\ Domain(q) = Domain(p) THEN Bit(v) ELSE u)
  BY ModifyInto, IntoIsCode
<1>2. (g = r /\ q = p /\ Domain(q) = Domain(p)) <=> (g = r /\ q = p)
  OBVIOUS
<1> QED BY <1>1, <1>2 DEF Set1

LEMMA IntrModeCode ==
    ASSUME NEW p, NEW r \in ConfigRegs, NEW q \in Nat, NEW v \in BOOLEAN, NEW u \in Bits
    PROVE  Code(p, r, gpio_intr_set_mode(q, v), u, u)
<1>1. "CFG" \in Registers /\ "CFG" # r
  BY RegistersAre DEF Registers, KindRegs
<1>2. Into(p, r, Domain(q), select_gpio_domain(q) \o Modify("CFG", 0, v), u,
           IF "CFG" = r /\ 0 = p /\ Domain(q) = Domain(p) THEN Bit(v) ELSE u)
  BY <1>1, ModifyInto
<1>3. Into(p, r, Domain(q), select_gpio_domain(q) \o Modify("CFG", 0, v), u, u)
  BY <1>1, <1>2
<1> QED BY <1>3, IntoIsCode DEF gpio_intr_set_mode

LEMMA DisAllCode ==
    ASSUME NEW p, NEW r \in ConfigRegs, NEW q \in Nat, NEW u \in Bits
    PROVE  Code(p, r, gpio_intr_dis_all(q), u, IF q = p /\ r \in KindRegs THEN "off" ELSE u)
<1> DEFINE d == Domain(q)
           c0 == select_gpio_domain(q)
           Cleared1(g, w) == IF g = r /\ q = p /\ d = Domain(p) THEN Bit(FALSE) ELSE w
           u1 == Cleared1("RISE_EN0", u)
           u2 == Cleared1("FALL_EN0", u1)
           u3 == Cleared1("HIGH_EN0", u2)
           u4 == Cleared1("LOW_EN0", u3)
<1>1. \A g \in Registers, w \in Bits : Within(p, r, d, Modify(g, q, FALSE), w, Cleared1(g, w))
  <2> SUFFICES ASSUME NEW g \in Registers, NEW w \in Bits
               PROVE  Within(p, r, d, Modify(g, q, FALSE), w, Cleared1(g, w))
    OBVIOUS
  <2>1. d \in {AO, PERI}
    BY DomainIs
  <2> HIDE DEF d
  <2> QED BY <2>1, ModifyWithin
<1>2. u1 \in Bits /\ u2 \in Bits /\ u3 \in Bits /\ u4 \in Bits
  BY DEF Bits, Bit
<1>3. "RISE_EN0" \in Registers /\ "FALL_EN0" \in Registers /\ "HIGH_EN0" \in Registers
      /\ "LOW_EN0" \in Registers
  BY DEF Registers
<1>4. u4 = IF q = p /\ r \in KindRegs THEN "off" ELSE u
  BY DEF KindRegs, Bit
<1>5. Into(p, r, d, c0, u, u)
  BY SelectInto
<1> HIDE DEF d, c0, Cleared1, u1, u2, u3, u4
<1>6. Into(p, r, d, c0 \o Modify("RISE_EN0", q, FALSE), u, u1)
  BY <1>1, <1>3, <1>5, IntoJoin DEF u1
<1>7. Into(p, r, d, c0 \o Modify("RISE_EN0", q, FALSE) \o Modify("FALL_EN0", q, FALSE), u, u2)
  BY <1>1, <1>2, <1>3, <1>6, IntoJoin DEF u2
<1>8. Into(p, r, d, c0 \o Modify("RISE_EN0", q, FALSE) \o Modify("FALL_EN0", q, FALSE)
                       \o Modify("HIGH_EN0", q, FALSE), u, u3)
  BY <1>1, <1>2, <1>3, <1>7, IntoJoin DEF u3
<1>9. Into(p, r, d, c0 \o Modify("RISE_EN0", q, FALSE) \o Modify("FALL_EN0", q, FALSE)
                       \o Modify("HIGH_EN0", q, FALSE) \o Modify("LOW_EN0", q, FALSE), u, u4)
  BY <1>1, <1>2, <1>3, <1>8, IntoJoin DEF u4
<1> QED BY <1>4, <1>9, IntoIsCode DEF gpio_intr_dis_all, c0

\* The registers gpio_intr_en enables.
Enabled(type) == {Enables[type[i]] : i \in DOMAIN type}

LEMMA IntrEnCode ==
    ASSUME NEW p, NEW r \in ConfigRegs, NEW q \in Nat, NEW type \in Types, NEW u \in Bits
    PROVE  Code(p, r, gpio_intr_en(q, type), u,
                IF q = p /\ r \in KindRegs THEN Bit(r \in Enabled(type)) ELSE u)
<1> DEFINE c0 == gpio_intr_dis_all(q)
           c1 == IF Len(type) > 0 THEN gpio_intr_en_kind(q, type[1]) ELSE <<>>
           c2 == IF Len(type) > 1 THEN gpio_intr_en_kind(q, type[2]) ELSE <<>>
           u0 == IF q = p /\ r \in KindRegs THEN "off" ELSE u
           u1 == IF Len(type) > 0 /\ q = p /\ r = Enables[type[1]] THEN "on" ELSE u0
           u2 == IF Len(type) > 1 /\ q = p /\ r = Enables[type[2]] THEN "on" ELSE u1
<1>1. /\ Len(type) \in 0..2 /\ DOMAIN type = 1..Len(type)
      /\ Len(type) > 0 => type[1] \in Kinds
      /\ Len(type) > 1 => type[2] \in Kinds
  BY DEF Types
<1>2. u0 \in Bits /\ u1 \in Bits /\ u2 \in Bits
  BY DEF Bits
<1>3. Code(p, r, c0, u, u0)
  BY DisAllCode
<1>4. \A k \in Kinds, w \in Bits :
         Code(p, r, gpio_intr_en_kind(q, k), w, IF Enables[k] = r /\ q = p THEN "on" ELSE w)
  <2> SUFFICES ASSUME NEW k \in Kinds, NEW w \in Bits
               PROVE  Code(p, r, gpio_intr_en_kind(q, k), w,
                           IF Enables[k] = r /\ q = p THEN "on" ELSE w)
    OBVIOUS
  <2>1. Enables[k] \in Registers
    BY RegistersAre
  <2>2. Code(p, r, Set1(q, Enables[k], TRUE), w,
             IF Enables[k] = r /\ q = p THEN Bit(TRUE) ELSE w)
    BY <2>1, Set1Code
  <2> QED BY <2>2 DEF gpio_intr_en_kind, Bit
<1>5. Code(p, r, c1, u0, u1)
  <2>1. CASE Len(type) > 0
    BY <1>1, <1>2, <1>4, <2>1
  <2>2. CASE ~(Len(type) > 0)
    BY <2>2, CodeNothing
  <2> QED BY <2>1, <2>2
<1>6. Code(p, r, c2, u1, u2)
  <2>1. CASE Len(type) > 1
    BY <1>1, <1>2, <1>4, <2>1
  <2>2. CASE ~(Len(type) > 1)
    BY <2>2, CodeNothing
  <2> QED BY <2>1, <2>2
<1>7. u2 = IF q = p /\ r \in KindRegs THEN Bit(r \in Enabled(type)) ELSE u
  <2>1. r \in Enabled(type) <=> \/ Len(type) > 0 /\ r = Enables[type[1]]
                                \/ Len(type) > 1 /\ r = Enables[type[2]]
    BY <1>1 DEF Enabled
  <2>2. r \in Enabled(type) => r \in KindRegs
    BY <1>1, <2>1, RegistersAre
  <2> QED BY <1>1, <2>1, <2>2 DEF Bit
<1> HIDE DEF c0, c1, c2, u0, u1, u2
<1>8. Code(p, r, c0 \o c1 \o c2, u, u2)
  BY <1>3, <1>5, <1>6, CodeJoin
<1> QED BY <1>7, <1>8 DEF gpio_intr_en, c0, c1, c2

LEMMA ResetCode ==
    ASSUME NEW p, NEW r \in ConfigRegs, NEW q \in Nat, NEW u \in Bits
    PROVE  Code(p, r, gpio_reset(q), u, IF q = p /\ r # "OUT0" THEN "off" ELSE u)
<1> DEFINE c1 == gpio_intr_set_mode(q, FALSE)
           c2 == gpio_set_mode(q, FALSE)
           c3 == gpio_dis_input_sampling(q)
           c4 == gpio_intr_dis_all(q)
           c5 == gpio_intr_clear_stat(q)
           u2 == IF "MODE0" = r /\ q = p THEN "off" ELSE u
           u3 == IF "EN0" = r /\ q = p THEN "off" ELSE u2
           u4 == IF q = p /\ r \in KindRegs THEN "off" ELSE u3
<1>1. u2 \in Bits /\ u3 \in Bits /\ u4 \in Bits /\ Bit(FALSE) = "off"
  BY DEF Bits, Bit
<1>2. "MODE0" \in Registers /\ "EN0" \in Registers /\ "STATUS0" \in Registers /\ "STATUS0" # r
  BY RegistersAre DEF Registers, KindRegs
<1>3. u4 = IF q = p /\ r # "OUT0" THEN "off" ELSE u
  BY RegistersAre DEF KindRegs
<1>4. Code(p, r, c1, u, u)
  BY IntrModeCode
<1>5. Code(p, r, c2, u, u2)
  <2>1. Code(p, r, c2, u, IF "MODE0" = r /\ q = p THEN Bit(FALSE) ELSE u)
    BY <1>2, Set1Code DEF gpio_set_mode
  <2> QED BY <1>1, <2>1
<1>6. Code(p, r, c3, u2, u3)
  <2> HIDE DEF u2
  <2>1. Code(p, r, c3, u2, IF "EN0" = r /\ q = p THEN Bit(FALSE) ELSE u2)
    BY <1>1, <1>2, Set1Code DEF gpio_dis_input_sampling
  <2> QED BY <1>1, <2>1
<1>7. Code(p, r, c4, u3, u4)
  <2> HIDE DEF u3
  <2> QED BY <1>1, DisAllCode
<1>8. Code(p, r, c5, u4, u4)
  <2> HIDE DEF u4
  <2>1. Code(p, r, c5, u4, IF "STATUS0" = r /\ q = p THEN Bit(TRUE) ELSE u4)
    BY <1>1, <1>2, Set1Code DEF gpio_intr_clear_stat
  <2> QED BY <1>2, <2>1
<1> HIDE DEF c1, c2, c3, c4, c5, u2, u3, u4
<1>9. Code(p, r, c1 \o c2, u, u2)
  BY <1>4, <1>5, CodeJoin
<1>10. Code(p, r, c1 \o c2 \o c3, u, u3)
  BY <1>6, <1>9, CodeJoin
<1>11. Code(p, r, c1 \o c2 \o c3 \o c4, u, u4)
  BY <1>7, <1>10, CodeJoin
<1>12. Code(p, r, c1 \o c2 \o c3 \o c4 \o c5, u, u4)
  BY <1>8, <1>11, CodeJoin
<1> QED BY <1>3, <1>12 DEF gpio_reset, c1, c2, c3, c4, c5

LEMMA ConfigCode ==
    ASSUME NEW p, NEW r \in ConfigRegs, NEW u \in Bits,
           NEW q \in Nat, NEW c, c.pin = q, c.out \in BOOLEAN,
           c.en_input_sampling \in BOOLEAN, c.intr \in Types
    PROVE  Code(p, r, gpio_config(c), u,
                IF q = p
                THEN CASE r = "OUT0" -> u
                       [] r = "MODE0" -> Bit(c.out)
                       [] r = "EN0"   -> Bit(c.en_input_sampling)
                       [] OTHER       -> Bit(r \in Enabled(c.intr))
                ELSE u)
<1> DEFINE c1 == gpio_reset(q)
           c2 == gpio_set_mode(q, c.out)
           c3 == IF c.en_input_sampling THEN gpio_en_input_sampling(q) ELSE <<>>
           c4 == IF c.intr # <<>> THEN gpio_intr_en(q, c.intr) ELSE <<>>
           u1 == IF q = p /\ r # "OUT0" THEN "off" ELSE u
           u2 == IF "MODE0" = r /\ q = p THEN Bit(c.out) ELSE u1
           u3 == IF "EN0" = r /\ q = p /\ c.en_input_sampling THEN "on" ELSE u2
           u4 == IF q = p /\ r \in KindRegs /\ c.intr # <<>> THEN Bit(r \in Enabled(c.intr)) ELSE u3
<1>1. u1 \in Bits /\ u2 \in Bits /\ u3 \in Bits /\ u4 \in Bits /\ Bit(TRUE) = "on"
  BY DEF Bits, Bit
<1>2. "MODE0" \in Registers /\ "EN0" \in Registers
  BY DEF Registers
<1>3. u4 = IF q = p
           THEN CASE r = "OUT0" -> u
                  [] r = "MODE0" -> Bit(c.out)
                  [] r = "EN0"   -> Bit(c.en_input_sampling)
                  [] OTHER       -> Bit(r \in Enabled(c.intr))
           ELSE u
  <2>1. r \in KindRegs <=> r \notin {"MODE0", "EN0", "OUT0"}
    BY RegistersAre DEF KindRegs
  <2>2. c.intr = <<>> => r \notin Enabled(c.intr)
    BY DEF Enabled
  <2> QED BY <2>1, <2>2 DEF Bit
<1>4. Code(p, r, c1, u, u1)
  BY ResetCode
<1>5. Code(p, r, c2, u1, u2)
  <2> HIDE DEF u1
  <2> QED BY <1>1, <1>2, Set1Code DEF gpio_set_mode
<1>6. Code(p, r, c3, u2, u3)
  <2> HIDE DEF u2
  <2>1. CASE c.en_input_sampling
    <3>1. Code(p, r, gpio_en_input_sampling(q), u2, IF "EN0" = r /\ q = p THEN Bit(TRUE) ELSE u2)
      BY <1>1, <1>2, Set1Code DEF gpio_en_input_sampling
    <3> QED BY <1>1, <2>1, <3>1
  <2>2. CASE ~c.en_input_sampling
    BY <2>2, CodeNothing
  <2> QED BY <2>1, <2>2
<1>7. Code(p, r, c4, u3, u4)
  <2> HIDE DEF u3
  <2>1. CASE c.intr # <<>>
    <3>1. Code(p, r, gpio_intr_en(q, c.intr), u3,
               IF q = p /\ r \in KindRegs THEN Bit(r \in Enabled(c.intr)) ELSE u3)
      BY <1>1, IntrEnCode
    <3> QED BY <2>1, <3>1
  <2>2. CASE c.intr = <<>>
    BY <2>2, CodeNothing
  <2> QED BY <2>1, <2>2
<1> HIDE DEF c1, c2, c3, c4, u1, u2, u3, u4
<1>8. Code(p, r, c1 \o c2, u, u2)
  BY <1>4, <1>5, CodeJoin
<1>9. Code(p, r, c1 \o c2 \o c3, u, u3)
  BY <1>6, <1>8, CodeJoin
<1>10. Code(p, r, c1 \o c2 \o c3 \o c4, u, u4)
  BY <1>7, <1>9, CodeJoin
<1> QED BY <1>3, <1>10 DEF gpio_config, c1, c2, c3, c4

LEMMA Join1And2 ==
    ASSUME NEW a, NEW b, NEW c
    PROVE  <<a>> \o <<b, c>> = <<a, b, c>>
<1> DEFINE s == <<a>>
           t == <<b, c>>
           q == <<a, b, c>>
           S == {a, b, c}
<1>1. s \in Seq(S) /\ t \in Seq(S) /\ q \in Seq(S)
  OBVIOUS
<1> HIDE DEF S
<1>2. s \o t \in Seq(S) /\ Len(s \o t) = Len(q)
  BY <1>1
<1>3. ASSUME NEW i \in 1..Len(q) PROVE (s \o t)[i] = q[i]
  BY <1>1
<1> QED BY <1>1, <1>2, <1>3, SeqEqual

Flip(u) == IF u = "on" THEN "off" ELSE "on"

LEMMA ToggleCode ==
    ASSUME NEW p, NEW r \in ConfigRegs, NEW q \in Nat, NEW u \in Bits
    PROVE  Code(p, r, gpio_toggle(q), u, IF "OUT0" = r /\ q = p THEN Flip(u) ELSE u)
<1> DEFINE d == Domain(q)
           a == Op("load", "OUT0", 0, 0)
           e == Op("toggle", "OUT0", q, 0)
           w == IF "OUT0" = r /\ q = p THEN Flip(u) ELSE u
<1>1. /\ a \in Ops /\ a.op = "load" /\ a.reg = "OUT0" /\ <<a>> \in Seq(Ops)
      /\ e \in Ops /\ e.op = "toggle" /\ e.reg = "OUT0" /\ e.bit = q /\ <<e>> \in Seq(Ops)
  BY DEF Op, Ops, Names, Registers
<1>2. d \in {AO, PERI} /\ (q = p => d = Domain(p))
  BY DomainIs
<1>3. <<a>> \o (<<a>> \o <<e>>) = <<a, a, e>>
  BY Join1And1, Join1And2
<1> HIDE DEF a, e, d
<1>4. <<a>> \o <<e>> \in Seq(Ops)
  BY <1>1, ConcatProperties
<1>5. ASSUME NEW x \in Tracks, x.bit = u, x.block = d
      PROVE  \E y \in Tracks : y.bit = w /\ y.block = d /\ Leads(p, r, <<a>> \o <<e>>, x, y)
  <2> DEFINE y == After(p, r, a, x)
             z == After(p, r, e, y)
  <2>1. Permitted(p, r, a, x)
    BY <1>1 DEF Permitted, Stores
  <2>2. y \in Tracks /\ Leads(p, r, <<a>>, x, y)
    BY <1>1, <2>1, AfterIs, LeadsOne
  <2>3. /\ y.bit = u /\ y.block = d
        /\ y.loaded = IF "OUT0" = r /\ d = Domain(p) THEN "fresh" ELSE "stale"
    BY <1>1, <1>5 DEF After
  <2> HIDE DEF y
  <2>4. Permitted(p, r, e, y)
    BY <1>1, <1>2, <2>3 DEF Permitted, AO, PERI
  <2>5. z \in Tracks /\ Leads(p, r, <<e>>, y, z)
    BY <1>1, <2>2, <2>4, AfterIs, LeadsOne
  <2>6. z.bit = w /\ z.block = d
    BY <1>1, <1>2, <2>3 DEF After, Touches, Stores, Stored, Flip
  <2> HIDE DEF z
  <2>7. Leads(p, r, <<a>> \o <<e>>, x, z)
    BY <1>1, <2>2, <2>5, LeadsJoin
  <2> QED BY <2>5, <2>6, <2>7
<1>6. Within(p, r, d, <<a>> \o <<e>>, u, w)
  BY <1>4, <1>5 DEF Within
<1>7. Within(p, r, d, <<a>>, u, u)
  BY <1>1, OtherWithin DEF Stores
<1>8. Within(p, r, d, <<a>> \o (<<a>> \o <<e>>), u, w)
  BY <1>6, <1>7, WithinJoin
<1>9. Into(p, r, d, select_gpio_domain(q), u, u)
  BY SelectInto DEF d
<1> HIDE DEF w
<1>10. Into(p, r, d, select_gpio_domain(q) \o <<a, a, e>>, u, w)
  BY <1>3, <1>8, <1>9, IntoJoin
<1>11. Code(p, r, select_gpio_domain(q) \o <<a, a, e>>, u, w)
  BY <1>10, IntoIsCode
<1> QED BY <1>11 DEF gpio_toggle, a, e, w

LEMMA Join2And1 ==
    ASSUME NEW a, NEW b, NEW c
    PROVE  <<a, b>> \o <<c>> = <<a, b, c>>
<1> DEFINE s == <<a, b>>
           t == <<c>>
           q == <<a, b, c>>
           S == {a, b, c}
<1>1. s \in Seq(S) /\ t \in Seq(S) /\ q \in Seq(S)
  OBVIOUS
<1> HIDE DEF S
<1>2. s \o t \in Seq(S) /\ Len(s \o t) = Len(q)
  BY <1>1
<1>3. ASSUME NEW i \in 1..Len(q) PROVE (s \o t)[i] = q[i]
  BY <1>1
<1> QED BY <1>1, <1>2, <1>3, SeqEqual

LEMMA Join3And1 ==
    ASSUME NEW a, NEW b, NEW c, NEW d
    PROVE  <<a, b, c>> \o <<d>> = <<a, b, c, d>>
<1> DEFINE s == <<a, b, c>>
           t == <<d>>
           q == <<a, b, c, d>>
           S == {a, b, c, d}
<1>1. s \in Seq(S) /\ t \in Seq(S) /\ q \in Seq(S)
  OBVIOUS
<1> HIDE DEF S
<1>2. s \o t \in Seq(S) /\ Len(s \o t) = Len(q)
  BY <1>1
<1>3. ASSUME NEW i \in 1..Len(q) PROVE (s \o t)[i] = q[i]
  BY <1>1
<1> QED BY <1>1, <1>2, <1>3, SeqEqual

LEMMA Join4And1 ==
    ASSUME NEW a, NEW b, NEW c, NEW d, NEW e
    PROVE  <<a, b, c, d>> \o <<e>> = <<a, b, c, d, e>>
<1> DEFINE s == <<a, b, c, d>>
           t == <<e>>
           q == <<a, b, c, d, e>>
           S == {a, b, c, d, e}
<1>1. s \in Seq(S) /\ t \in Seq(S) /\ q \in Seq(S)
  OBVIOUS
<1> HIDE DEF S
<1>2. s \o t \in Seq(S) /\ Len(s \o t) = Len(q)
  BY <1>1
<1>3. ASSUME NEW i \in 1..Len(q) PROVE (s \o t)[i] = q[i]
  BY <1>1
<1> QED BY <1>1, <1>2, <1>3, SeqEqual

LEMMA Join5And1 ==
    ASSUME NEW a, NEW b, NEW c, NEW d, NEW e, NEW f
    PROVE  <<a, b, c, d, e>> \o <<f>> = <<a, b, c, d, e, f>>
<1> DEFINE s == <<a, b, c, d, e>>
           t == <<f>>
           q == <<a, b, c, d, e, f>>
           S == {a, b, c, d, e, f}
<1>1. s \in Seq(S) /\ t \in Seq(S) /\ q \in Seq(S)
  OBVIOUS
<1> HIDE DEF S
<1>2. s \o t \in Seq(S) /\ Len(s \o t) = Len(q)
  BY <1>1
<1>3. ASSUME NEW i \in 1..Len(q) PROVE (s \o t)[i] = q[i]
  BY <1>1
<1> QED BY <1>1, <1>2, <1>3, SeqEqual

LEMMA ClearBlockCode ==
    ASSUME NEW p, NEW r \in ConfigRegs, NEW q \in Nat, NEW u \in Bits
    PROVE  Code(p, r, ClearBlock(q), u,
                IF Domain(q) = Domain(p) /\ r # "OUT0" THEN "off" ELSE u)
<1> DEFINE d == Domain(q)
           C(g) == <<Op("clear", g, 0, 0)>>
           names == <<"MODE0", "EN0", "RISE_EN0", "FALL_EN0", "HIGH_EN0", "LOW_EN0">>
           six == [i \in 1..6 |-> Op("clear", names[i], 0, 0)]
           ones == Op("ones", "STATUS0", 0, 0)
           Off(g, w) == IF g = r /\ d = Domain(p) THEN "off" ELSE w
           u1 == Off("MODE0", u)
           u2 == Off("EN0", u1)
           u3 == Off("RISE_EN0", u2)
           u4 == Off("FALL_EN0", u3)
           u5 == Off("HIGH_EN0", u4)
           u6 == Off("LOW_EN0", u5)
<1>1. d \in {AO, PERI}
  BY DomainIs
<1>2. \A g \in Registers, w \in Bits : Within(p, r, d, C(g), w, Off(g, w))
  <2> SUFFICES ASSUME NEW g \in Registers, NEW w \in Bits
               PROVE  Within(p, r, d, C(g), w, Off(g, w))
    OBVIOUS
  <2> HIDE DEF d
  <2> QED BY <1>1, ClearWithin
<1>3. /\ u1 \in Bits /\ u2 \in Bits /\ u3 \in Bits /\ u4 \in Bits /\ u5 \in Bits /\ u6 \in Bits
      /\ u6 = IF d = Domain(p) /\ r # "OUT0" THEN "off" ELSE u
  <2>1. r \in {"MODE0", "EN0", "OUT0", "RISE_EN0", "FALL_EN0", "HIGH_EN0", "LOW_EN0"}
    BY RegistersAre DEF KindRegs
  <2> HIDE DEF d
  <2> QED BY <2>1 DEF Bits
<1>4. {"MODE0", "EN0", "RISE_EN0", "FALL_EN0", "HIGH_EN0", "LOW_EN0"} \subseteq Registers
  BY DEF Registers
<1>5. six = C("MODE0") \o C("EN0") \o C("RISE_EN0") \o C("FALL_EN0") \o C("HIGH_EN0") \o C("LOW_EN0")
  <2> DEFINE t == <<Op("clear", "MODE0", 0, 0), Op("clear", "EN0", 0, 0),
                    Op("clear", "RISE_EN0", 0, 0), Op("clear", "FALL_EN0", 0, 0),
                    Op("clear", "HIGH_EN0", 0, 0), Op("clear", "LOW_EN0", 0, 0)>>
  <2>1. six = t
    <3>1. /\ names[1] = "MODE0" /\ names[2] = "EN0" /\ names[3] = "RISE_EN0"
          /\ names[4] = "FALL_EN0" /\ names[5] = "HIGH_EN0" /\ names[6] = "LOW_EN0"
      OBVIOUS
    <3> HIDE DEF names
    <3>2. t = [i \in 1..6 |-> t[i]]
      OBVIOUS
    <3>3. \A i \in 1..6 : t[i] = Op("clear", names[i], 0, 0)
      BY <3>1
    <3> HIDE DEF t
    <3> QED BY <3>2, <3>3
  <2>2. t = C("MODE0") \o C("EN0") \o C("RISE_EN0") \o C("FALL_EN0") \o C("HIGH_EN0") \o C("LOW_EN0")
    <3> DEFINE a1 == Op("clear", "MODE0", 0, 0)
               a2 == Op("clear", "EN0", 0, 0)
               a3 == Op("clear", "RISE_EN0", 0, 0)
               a4 == Op("clear", "FALL_EN0", 0, 0)
               a5 == Op("clear", "HIGH_EN0", 0, 0)
               a6 == Op("clear", "LOW_EN0", 0, 0)
    <3> HIDE DEF a1, a2, a3, a4, a5, a6
    <3>1. <<a1>> \o <<a2>> = <<a1, a2>>
      BY Join1And1
    <3>2. <<a1, a2>> \o <<a3>> = <<a1, a2, a3>>
      BY Join2And1
    <3>3. <<a1, a2, a3>> \o <<a4>> = <<a1, a2, a3, a4>>
      BY Join3And1
    <3>4. <<a1, a2, a3, a4>> \o <<a5>> = <<a1, a2, a3, a4, a5>>
      BY Join4And1
    <3>5. <<a1, a2, a3, a4, a5>> \o <<a6>> = <<a1, a2, a3, a4, a5, a6>>
      BY Join5And1
    <3>6. <<a1>> \o <<a2>> \o <<a3>> \o <<a4>> \o <<a5>> \o <<a6>> = <<a1, a2, a3, a4, a5, a6>>
      BY <3>1, <3>2, <3>3, <3>4, <3>5
    <3> QED BY <3>6 DEF a1, a2, a3, a4, a5, a6
  <2> QED BY <2>1, <2>2
<1>6. Within(p, r, d, <<ones>>, u6, u6)
  <2>1. ones \in Ops /\ ones.op = "ones" /\ ones.reg = "STATUS0"
    BY DEF Op, Ops, Names, Registers
  <2>2. "STATUS0" # r
    BY RegistersAre DEF KindRegs
  <2> HIDE DEF ones, d, u6
  <2> QED BY <1>3, <2>1, <2>2, OtherWithin
<1>7. Into(p, r, d, select_gpio_domain(q), u, u)
  BY SelectInto
<1> HIDE DEF d, C, six, ones, Off, u1, u2, u3, u4, u5, u6
<1>8. Within(p, r, d, C("MODE0") \o C("EN0"), u, u2)
  BY <1>2, <1>3, <1>4, WithinJoin DEF u1, u2
<1>9. Within(p, r, d, C("MODE0") \o C("EN0") \o C("RISE_EN0"), u, u3)
  BY <1>2, <1>3, <1>4, <1>8, WithinJoin DEF u3
<1>10. Within(p, r, d, C("MODE0") \o C("EN0") \o C("RISE_EN0") \o C("FALL_EN0"), u, u4)
  BY <1>2, <1>3, <1>4, <1>9, WithinJoin DEF u4
<1>11. Within(p, r, d, C("MODE0") \o C("EN0") \o C("RISE_EN0") \o C("FALL_EN0") \o C("HIGH_EN0"),
              u, u5)
  BY <1>2, <1>3, <1>4, <1>10, WithinJoin DEF u5
<1>12. Within(p, r, d, six, u, u6)
  BY <1>2, <1>3, <1>4, <1>5, <1>11, WithinJoin DEF u6
<1>13. Into(p, r, d, select_gpio_domain(q) \o six \o <<ones>>, u, u6)
  BY <1>6, <1>7, <1>12, IntoJoin
<1>14. Code(p, r, select_gpio_domain(q) \o six \o <<ones>>, u, u6)
  BY <1>13, IntoIsCode
<1> QED BY <1>3, <1>14 DEF ClearBlock, six, ones, d

(* An access that does not write the register.                             *)
LEMMA OtherCode ==
    ASSUME NEW p, NEW r, NEW a \in Ops, NEW u \in Bits, a.op \in Stores => a.reg # r
    PROVE  Code(p, r, <<a>>, u, u)
<1>1. ASSUME NEW x \in Tracks, x.bit = u
      PROVE  \E y \in Tracks : y.bit = u /\ Leads(p, r, <<a>>, x, y)
  <2> DEFINE y == After(p, r, a, x)
  <2>1. Permitted(p, r, a, x)
    BY DEF Permitted
  <2>2. y \in Tracks /\ Leads(p, r, <<a>>, x, y)
    BY <2>1, AfterIs, LeadsOne
  <2>3. y.bit = u
    BY <1>1 DEF After, Touches
  <2> QED BY <2>2, <2>3
<1> QED BY <1>1 DEF Code

LEMMA ResetAllCode ==
    ASSUME NEW p \in Pins, NEW r \in ConfigRegs, NEW u \in Bits
    PROVE  Code(p, r, gpio_reset_all, u, IF r # "OUT0" THEN "off" ELSE u)
<1> DEFINE l == GPIO_AO_DOMAIN_LIMIT
           h == Op("gpio_handlers", "", 0, 0)
           u1 == IF Domain(0) = Domain(p) /\ r # "OUT0" THEN "off" ELSE u
           u2 == IF Domain(l) = Domain(p) /\ r # "OUT0" THEN "off" ELSE u1
<1>1. l \in Nat /\ p \in Nat
  BY GpioAssumption
<1>2. Domain(p) = Domain(0) \/ Domain(p) = Domain(l)
  BY <1>1 DEF Domain
<1>3. u1 \in Bits /\ u2 \in Bits /\ u2 = IF r # "OUT0" THEN "off" ELSE u
  BY <1>2 DEF Bits
<1>4. Code(p, r, ClearBlock(0), u, u1)
  BY ClearBlockCode
<1>5. Code(p, r, ClearBlock(l), u1, u2)
  <2> HIDE DEF u1, l
  <2> QED BY <1>1, <1>3, ClearBlockCode
<1>6. Code(p, r, <<h>>, u2, u2)
  <2>1. h \in Ops /\ h.op = "gpio_handlers"
    BY DEF Op, Ops, Names, Registers
  <2> HIDE DEF h, u2
  <2> QED BY <1>3, <2>1, OtherCode DEF Stores
<1> HIDE DEF u1, u2, h, l
<1>7. Code(p, r, ClearBlock(0) \o ClearBlock(l), u, u2)
  BY <1>4, <1>5, CodeJoin
<1>8. Code(p, r, ClearBlock(0) \o ClearBlock(l) \o <<h>>, u, u2)
  BY <1>6, <1>7, CodeJoin
<1> QED BY <1>3, <1>8 DEF gpio_reset_all, h, l

LEMMA PinsAre == Pins \subseteq Nat /\ Sources \subseteq Pins /\ GPIO_AO_DOMAIN_LIMIT \in Nat
BY GpioAssumption

(* The accesses of the calls that configure no pin.                        *)
LEMMA PlicCode ==
    ASSUME NEW p, NEW r \in ConfigRegs, NEW u \in Bits
    PROVE  /\ Code(p, r, plic_Init, u, u)
           /\ Code(p, r, plic_irq_get_enabled \o plic_irq_is_pending, u, u)
           /\ \A s \in Nat, on \in BOOLEAN : /\ Code(p, r, plic_irq_set_enabled(s, on), u, u)
                                             /\ Code(p, r, plic_irq_set_trigger(s, on), u, u)
           /\ \A s, n \in Nat : Code(p, r, plic_irq_set_priority(s, n), u, u)
           /\ \A n \in Nat : Code(p, r, plic_target_set_threshold(n), u, u)
           /\ \A s \in Nat : Code(p, r, <<Op("assign", "", s, 0)>>, u, u)
<1> DEFINE Neutral(a) == a \in Ops /\ (a.op \in Stores => a.reg # r)
<1>1. \A a : Neutral(a) => Code(p, r, <<a>>, u, u)
  BY OtherCode
<1>2. r \notin {"LE0", "IE0", "PRIO", "THRESHOLD0", ""}
  BY RegistersAre DEF KindRegs
<1>3. Code(p, r, plic_Init, u, u)
  <2> DEFINE a1 == Op("clear", "LE0", 0, 0)
             a2 == Op("prio0", "PRIO", 0, 0)
             a3 == Op("clear", "IE0", 0, 0)
             a4 == Op("threshold", "THRESHOLD0", 0, 0)
             a5 == Op("handlers", "", 0, 0)
  <2>1. Neutral(a1) /\ Neutral(a2) /\ Neutral(a3) /\ Neutral(a4) /\ Neutral(a5)
    BY <1>2 DEF Op, Ops, Names, Registers
  <2> HIDE DEF a1, a2, a3, a4, a5, Neutral
  <2>2. <<a1>> \o <<a2>> = <<a1, a2>>
    BY Join1And1
  <2>3. <<a1, a2>> \o <<a3>> = <<a1, a2, a3>>
    BY Join2And1
  <2>4. <<a1, a2, a3>> \o <<a4>> = <<a1, a2, a3, a4>>
    BY Join3And1
  <2>5. <<a1, a2, a3, a4>> \o <<a5>> = <<a1, a2, a3, a4, a5>>
    BY Join4And1
  <2>6. Code(p, r, <<a1, a2>>, u, u)
    BY <1>1, <2>1, <2>2, CodeJoin
  <2>7. Code(p, r, <<a1, a2, a3>>, u, u)
    BY <1>1, <2>1, <2>3, <2>6, CodeJoin
  <2>8. Code(p, r, <<a1, a2, a3, a4>>, u, u)
    BY <1>1, <2>1, <2>4, <2>7, CodeJoin
  <2>9. Code(p, r, <<a1, a2, a3, a4, a5>>, u, u)
    BY <1>1, <2>1, <2>5, <2>8, CodeJoin
  <2> QED BY <2>9 DEF plic_Init, a1, a2, a3, a4, a5
<1>4. Code(p, r, plic_irq_get_enabled \o plic_irq_is_pending, u, u)
  <2> DEFINE a1 == Op("load", "IE0", 0, 0)
             a2 == Op("load", "IP0", 0, 0)
  <2>1. Neutral(a1) /\ Neutral(a2)
    BY DEF Op, Ops, Names, Registers, Stores
  <2> HIDE DEF a1, a2, Neutral
  <2>2. Code(p, r, <<a1>> \o <<a2>>, u, u)
    BY <1>1, <2>1, CodeJoin
  <2> QED BY <2>2 DEF plic_irq_get_enabled, plic_irq_is_pending, a1, a2
<1>5. ASSUME NEW s \in Nat, NEW on \in BOOLEAN, NEW g \in {"IE0", "LE0"}
      PROVE  Code(p, r, Modify(g, s, on), u, u)
  <2> DEFINE o == IF on THEN "set" ELSE "unset"
             a1 == Op("load", g, 0, 0)
             a2 == Op(o, g, s, 0)
  <2>1. Neutral(a1) /\ Neutral(a2)
    BY <1>2 DEF Op, Ops, Names, Registers, Stores
  <2> HIDE DEF a1, a2, Neutral
  <2>2. Code(p, r, <<a1>> \o <<a2>>, u, u)
    BY <1>1, <2>1, CodeJoin
  <2>3. Code(p, r, <<a1, a2>>, u, u)
    BY <2>2, Join1And1
  <2> QED BY <2>3 DEF Modify, a1, a2
<1>6. ASSUME NEW s \in Nat, NEW n \in Nat
      PROVE  /\ Code(p, r, plic_irq_set_priority(s, n), u, u)
             /\ Code(p, r, plic_target_set_threshold(n), u, u)
             /\ Code(p, r, <<Op("assign", "", s, 0)>>, u, u)
  <2> DEFINE a1 == Op("prio", "PRIO", s, n)
             a2 == Op("threshold", "THRESHOLD0", 0, n)
             a3 == Op("assign", "", s, 0)
  <2>1. Neutral(a1) /\ Neutral(a2) /\ Neutral(a3)
    BY DEF Op, Ops, Names, Registers, Stores
  <2> HIDE DEF a1, a2, a3, Neutral
  <2>2. Code(p, r, <<a1>>, u, u) /\ Code(p, r, <<a2>>, u, u) /\ Code(p, r, <<a3>>, u, u)
    BY <1>1, <2>1
  <2>3. Code(p, r, <<>>, u, u)
    BY CodeNothing
  <2> QED BY <2>2, <2>3 DEF plic_irq_set_priority, plic_target_set_threshold, a1, a2, a3
<1> QED BY <1>3, <1>4, <1>5, <1>6 DEF plic_irq_set_enabled, plic_irq_set_trigger

LEMMA ReadCode ==
    ASSUME NEW p, NEW r \in ConfigRegs, NEW u \in Bits, NEW q \in Nat
    PROVE  /\ Code(p, r, gpio_read(q), u, u)
           /\ Code(p, r, gpio_intr_check_stat(q), u, u)
           /\ \A k \in Kinds : Code(p, r, gpio_intr_check_stat_kind(q, k), u, u)
<1> DEFINE Neutral(a) == a \in Ops /\ (a.op \in Stores => a.reg # r)
           L(g) == Op("load", g, 0, 0)
           a0 == Op("unselected", "", q, 0)
           s0 == Op("select", "", q, 0)
<1>1. \A a : Neutral(a) => Code(p, r, <<a>>, u, u)
  BY OtherCode
<1>2. ASSUME NEW g \in Registers
      PROVE  Neutral(L(g))
  BY <1>2 DEF Op, Ops, Names, Stores
<1>3. Neutral(a0) /\ Neutral(s0)
  BY DEF Op, Ops, Names, Registers, Stores
<1>4. "IN0" \in Registers /\ "STATUS0" \in Registers
  BY DEF Registers
<1> HIDE DEF Neutral, a0, s0, L
<1>5. Code(p, r, <<s0>>, u, u) /\ Code(p, r, <<a0>>, u, u)
  BY <1>1, <1>3
<1>6. ASSUME NEW g \in Registers
      PROVE  Code(p, r, <<s0>> \o <<L(g)>>, u, u) /\ Code(p, r, <<a0, L(g)>>, u, u)
  <2>1. Code(p, r, <<L(g)>>, u, u)
    BY <1>1, <1>2
  <2>2. Code(p, r, <<s0>> \o <<L(g)>>, u, u) /\ Code(p, r, <<a0>> \o <<L(g)>>, u, u)
    BY <1>5, <2>1, CodeJoin
  <2> QED BY <2>2, Join1And1
<1>7. Code(p, r, <<s0>> \o <<L("IN0")>>, u, u) /\ Code(p, r, <<a0, L("STATUS0")>>, u, u)
  BY <1>4, <1>6
<1>8. ASSUME NEW k \in Kinds
      PROVE  Code(p, r, <<s0>> \o <<L(Status[k])>>, u, u)
  BY <1>6, RegistersAre
<1> QED BY <1>7, <1>8 DEF gpio_read, gpio_intr_check_stat, gpio_intr_check_stat_kind,
                         select_gpio_domain, s0, a0, L

LEMMA ClearStatCode ==
    ASSUME NEW p, NEW r \in ConfigRegs, NEW u \in Bits, NEW q \in Nat
    PROVE  /\ Code(p, r, gpio_intr_clear_stat(q), u, u)
           /\ \A k \in Kinds : Code(p, r, gpio_intr_clear_stat_kind(q, k), u, u)
<1>1. "STATUS0" \in Registers /\ "STATUS0" # r
  BY RegistersAre DEF Registers, KindRegs
<1>2. Code(p, r, Set1(q, "STATUS0", TRUE), u, IF "STATUS0" = r /\ q = p THEN Bit(TRUE) ELSE u)
  BY <1>1, Set1Code
<1>3. ASSUME NEW k \in Kinds
      PROVE  Code(p, r, Set1(q, Status[k], TRUE), u, u)
  <2> DEFINE g == Status[k]
  <2>1. g \in Registers /\ g # r
    BY RegistersAre
  <2> HIDE DEF g
  <2>2. Code(p, r, Set1(q, g, TRUE), u, IF g = r /\ q = p THEN Bit(TRUE) ELSE u)
    BY <2>1, Set1Code
  <2>3. Code(p, r, Set1(q, g, TRUE), u, u)
    BY <2>1, <2>2
  <2> QED BY <2>3 DEF g
<1> QED BY <1>1, <1>2, <1>3 DEF gpio_intr_clear_stat, gpio_intr_clear_stat_kind

LEMMA ProgramIs ==
    ASSUME NEW c
    PROVE  /\ c.f = "config" => Program(c) = gpio_config(c)
           /\ c.f = "reset" => Program(c) = gpio_reset(c.pin)
           /\ c.f = "reset_all" => Program(c) = gpio_reset_all
           /\ c.f = "set_mode" => Program(c) = gpio_set_mode(c.pin, c.out)
           /\ c.f = "sampling" => Program(c) = IF c.v THEN gpio_en_input_sampling(c.pin)
                                                      ELSE gpio_dis_input_sampling(c.pin)
           /\ c.f = "read" => Program(c) = gpio_read(c.pin)
           /\ c.f = "write" => Program(c) = gpio_write(c.pin, c.v)
           /\ c.f = "toggle" => Program(c) = gpio_toggle(c.pin)
           /\ c.f = "intr" => Program(c) = IF c.v THEN gpio_intr_en_kind(c.pin, c.k)
                                                  ELSE gpio_intr_dis_kind(c.pin, c.k)
           /\ c.f = "check" => Program(c) = gpio_intr_check_stat(c.pin)
           /\ c.f = "check_kind" => Program(c) = gpio_intr_check_stat_kind(c.pin, c.k)
           /\ c.f = "clear" => Program(c) = gpio_intr_clear_stat(c.pin)
           /\ c.f = "clear_kind" => Program(c) = gpio_intr_clear_stat_kind(c.pin, c.k)
           /\ c.f = "intr_mode" => Program(c) = gpio_intr_set_mode(c.pin, c.v)
           /\ c.f = "assign" => Program(c) = <<Op("assign", "", c.pin, 0)>>
           /\ c.f = "plic_init" => Program(c) = plic_Init
           /\ c.f = "plic_enable" => Program(c) = plic_irq_set_enabled(c.pin, c.v)
           /\ c.f = "plic_read" => Program(c) = plic_irq_get_enabled \o plic_irq_is_pending
           /\ c.f = "plic_edge" => Program(c) = plic_irq_set_trigger(c.pin, c.v)
           /\ c.f = "plic_prio" => Program(c) = plic_irq_set_priority(c.pin, c.p)
           /\ c.f = "threshold" => Program(c) = plic_target_set_threshold(c.p)
BY DEF Program

(* Every call leads from what was asked for before to what it asks for.    *)
LEMMA CallCode ==
    ASSUME NEW c \in DriverCalls, NEW p \in Pins, NEW r \in ConfigRegs
    PROVE  Code(p, r, Program(c), Bit(r \in want[p]), Bit(r \in Asked(c, p)))
<1> DEFINE w == want[p]
           u == Bit(r \in w)
           q == c.pin
<1>1. u \in Bits
  BY DEF Bits, Bit
<1>2. p \in Nat
  BY PinsAre
<1>3. CASE c \in [f : {"config"}, pin : Pins, out : BOOLEAN, en_input_sampling : BOOLEAN, intr : Types]
  <2>1. /\ c.f = "config" /\ q \in Nat /\ c.out \in BOOLEAN /\ c.en_input_sampling \in BOOLEAN
        /\ c.intr \in Types
    BY <1>3, PinsAre
  <2> DEFINE v == IF q = p
                  THEN CASE r = "OUT0" -> u
                         [] r = "MODE0" -> Bit(c.out)
                         [] r = "EN0"   -> Bit(c.en_input_sampling)
                         [] OTHER       -> Bit(r \in Enabled(c.intr))
                  ELSE u
  <2>2. Code(p, r, gpio_config(c), u, v)
    <3> HIDE DEF u
    <3> QED BY <1>1, <2>1, ConfigCode
  <2>3. q # p => Asked(c, p) = w
    BY <2>1 DEF Asked, Configuring
  <2>4. q = p => Asked(c, p) = (w \cap {"OUT0"}) \cup (IF c.out THEN {"MODE0"} ELSE {})
                                 \cup (IF c.en_input_sampling THEN {"EN0"} ELSE {})
                                 \cup Enabled(c.intr)
    BY <2>1 DEF Asked, Enabled, Configuring
  <2>5. Enabled(c.intr) \subseteq KindRegs
    <3>1. \A i \in DOMAIN c.intr : c.intr[i] \in Kinds
      BY <2>1 DEF Types
    <3> QED BY <3>1, RegistersAre DEF Enabled
  <2>6. v = Bit(r \in Asked(c, p))
    <3>1. r \in KindRegs <=> r \notin {"MODE0", "EN0", "OUT0"}
      BY RegistersAre DEF KindRegs
    <3> QED BY <2>3, <2>4, <2>5, <3>1 DEF Bit
  <2> QED BY <2>1, <2>2, <2>6, ProgramIs
<1>4. CASE c.f = "reset" /\ q \in Pins
  <2>1. Code(p, r, gpio_reset(q), u, IF q = p /\ r # "OUT0" THEN "off" ELSE u)
    <3> HIDE DEF u
    <3> QED BY <1>1, <1>4, PinsAre, ResetCode
  <2>2. Asked(c, p) = IF q = p THEN w \cap {"OUT0"} ELSE w
    BY <1>4 DEF Asked, Configuring
  <2>3. Bit(r \in Asked(c, p)) = IF q = p /\ r # "OUT0" THEN "off" ELSE u
    BY <2>2 DEF Bit
  <2> QED BY <1>4, <2>1, <2>3, ProgramIs
<1>5. CASE c.f = "reset_all"
  <2>1. Code(p, r, gpio_reset_all, u, IF r # "OUT0" THEN "off" ELSE u)
    <3> HIDE DEF u
    <3> QED BY <1>1, ResetAllCode
  <2>2. Asked(c, p) = w \cap {"OUT0"}
    BY <1>5 DEF Asked, Configuring
  <2>3. Bit(r \in Asked(c, p)) = IF r # "OUT0" THEN "off" ELSE u
    BY <2>2 DEF Bit
  <2> QED BY <1>5, <2>1, <2>3, ProgramIs
<1> DEFINE Result(g, on) == IF g = r /\ q = p THEN Bit(on) ELSE u
           Wanted(g, on) == IF q = p THEN IF on THEN w \cup {g} ELSE w \ {g} ELSE w
<1>6. \A g, on : on \in BOOLEAN => Bit(r \in Wanted(g, on)) = Result(g, on)
  BY DEF Bit
<1>7. \A g \in Registers, on \in BOOLEAN : q \in Pins => Code(p, r, Set1(q, g, on), u, Result(g, on))
  <2> HIDE DEF u
  <2> QED BY <1>1, PinsAre, Set1Code
<1>8. "MODE0" \in Registers /\ "EN0" \in Registers /\ "OUT0" \in Registers
  BY DEF Registers
<1>9. CASE c.f = "set_mode" /\ q \in Pins /\ c.out \in BOOLEAN
  <2>1. Asked(c, p) = Wanted("MODE0", c.out)
    BY <1>9 DEF Asked, Configuring
  <2>2. Program(c) = Set1(q, "MODE0", c.out)
    BY <1>9, ProgramIs DEF gpio_set_mode
  <2> HIDE DEF Result, Wanted
  <2> QED BY <1>6, <1>7, <1>8, <1>9, <2>1, <2>2
<1>10. CASE c.f = "sampling" /\ q \in Pins /\ c.v \in BOOLEAN
  <2>1. Asked(c, p) = Wanted("EN0", c.v)
    BY <1>10 DEF Asked, Configuring
  <2>2. Program(c) = Set1(q, "EN0", c.v)
    BY <1>10, ProgramIs DEF gpio_en_input_sampling, gpio_dis_input_sampling
  <2> HIDE DEF Result, Wanted
  <2> QED BY <1>6, <1>7, <1>8, <1>10, <2>1, <2>2
<1>11. CASE c.f = "write" /\ q \in Pins /\ c.v \in BOOLEAN
  <2>1. Asked(c, p) = Wanted("OUT0", c.v)
    BY <1>11 DEF Asked, Configuring
  <2>2. Program(c) = Set1(q, "OUT0", c.v)
    BY <1>11, ProgramIs DEF gpio_write
  <2> HIDE DEF Result, Wanted
  <2> QED BY <1>6, <1>7, <1>8, <1>11, <2>1, <2>2
<1>12. CASE c.f = "intr" /\ q \in Pins /\ c.v \in BOOLEAN /\ c.k \in Kinds
  <2>1. Asked(c, p) = Wanted(Enables[c.k], c.v)
    BY <1>12 DEF Asked, Configuring
  <2>2. Program(c) = Set1(q, Enables[c.k], c.v)
    BY <1>12, ProgramIs DEF gpio_intr_en_kind, gpio_intr_dis_kind
  <2>3. Enables[c.k] \in Registers
    BY <1>12, RegistersAre
  <2> HIDE DEF Result, Wanted
  <2> QED BY <1>6, <1>7, <1>12, <2>1, <2>2, <2>3
<1>13. CASE c.f = "toggle" /\ q \in Pins
  <2>1. Code(p, r, gpio_toggle(q), u, IF "OUT0" = r /\ q = p THEN Flip(u) ELSE u)
    <3> HIDE DEF u
    <3> QED BY <1>1, <1>13, PinsAre, ToggleCode
  <2>2. Asked(c, p) = Wanted("OUT0", "OUT0" \notin w)
    BY <1>13 DEF Asked, Configuring
  <2>3. Bit(r \in Asked(c, p)) = IF "OUT0" = r /\ q = p THEN Flip(u) ELSE u
    BY <2>2 DEF Bit, Flip
  <2> QED BY <1>13, <2>1, <2>3, ProgramIs
<1>14. c.f \notin Configuring \cup {"reset_all"} => Asked(c, p) = w
  BY DEF Asked, Configuring
<1>15. ASSUME c.f \notin Configuring \cup {"reset_all"}, Code(p, r, Program(c), u, u)
       PROVE  Code(p, r, Program(c), u, Bit(r \in Asked(c, p)))
  BY <1>14, <1>15
<1>16. CASE c.f \in {"read", "check", "clear"} /\ q \in Pins
  <2>1. Code(p, r, Program(c), u, u)
    <3> HIDE DEF u
    <3> QED BY <1>1, <1>16, PinsAre, ProgramIs, ReadCode, ClearStatCode
  <2> QED BY <1>15, <1>16, <2>1 DEF Configuring
<1>17. CASE c.f = "intr_mode" /\ q \in Pins /\ c.v \in BOOLEAN
  <2>1. Code(p, r, Program(c), u, u)
    <3> HIDE DEF u
    <3> QED BY <1>1, <1>17, PinsAre, ProgramIs, IntrModeCode
  <2> QED BY <1>15, <1>17, <2>1 DEF Configuring
<1>18. CASE c.f \in {"check_kind", "clear_kind"} /\ q \in Pins /\ c.k \in Kinds
  <2>1. Code(p, r, Program(c), u, u)
    <3> HIDE DEF u
    <3> QED BY <1>1, <1>18, PinsAre, ProgramIs, ReadCode, ClearStatCode
  <2> QED BY <1>15, <1>18, <2>1 DEF Configuring
<1>19. CASE c.f \in {"plic_enable", "plic_edge"} /\ q \in Sources /\ c.v \in BOOLEAN
  <2>1. Code(p, r, Program(c), u, u)
    <3> HIDE DEF u
    <3> QED BY <1>1, <1>19, PinsAre, ProgramIs, PlicCode
  <2> QED BY <1>15, <1>19, <2>1 DEF Configuring
<1>20. CASE c.f = "assign" /\ q \in Sources
  <2>1. Code(p, r, Program(c), u, u)
    <3> HIDE DEF u
    <3> QED BY <1>1, <1>20, PinsAre, ProgramIs, PlicCode
  <2> QED BY <1>15, <1>20, <2>1 DEF Configuring
<1>21. CASE c.f = "plic_prio" /\ q \in Sources /\ c.p \in Nat
  <2>1. Code(p, r, Program(c), u, u)
    <3> HIDE DEF u
    <3> QED BY <1>1, <1>21, PinsAre, ProgramIs, PlicCode
  <2> QED BY <1>15, <1>21, <2>1 DEF Configuring
<1>22. CASE c.f = "threshold" /\ c.p \in Nat
  <2>1. Code(p, r, Program(c), u, u)
    <3> HIDE DEF u
    <3> QED BY <1>1, <1>22, ProgramIs, PlicCode
  <2> QED BY <1>15, <1>22, <2>1 DEF Configuring
<1>23. CASE c.f \in {"plic_init", "plic_read"}
  <2>1. Code(p, r, Program(c), u, u)
    <3> HIDE DEF u
    <3> QED BY <1>1, <1>23, ProgramIs, PlicCode
  <2> QED BY <1>15, <1>23, <2>1 DEF Configuring
<1> HIDE DEF Result, Wanted
<1> QED BY <1>3, <1>4, <1>5, <1>9, <1>10, <1>11, <1>12, <1>13, <1>16, <1>17, <1>18, <1>19,
           <1>20, <1>21, <1>22, <1>23 DEF DriverCalls

-----------------------------------------------------------------------------
(* The threads                                                             *)

On(p, r) == Bit(p \in regs[Domain(p)][r])

\* A thread is on a track.
Follows(p, r, t, x) ==
    /\ x.bit = On(p, r)
    /\ x.block # "any" => x.block = t.base
    /\ x.loaded = "fresh" => (p \in t.value <=> p \in regs[Domain(p)][r])

\* No access writes the bit.
Still(p, r, ops) ==
    \A i \in 1..Len(ops) : ops[i].op \in Stores /\ ops[i].reg = r =>
        ops[i].op \in {"set", "unset", "toggle"} /\ ops[i].bit # p

ThreadOK(t) == t = [ops |-> t.ops, base |-> t.base, value |-> t.value] /\ t.ops \in Seq(Ops)
Threads ==
    /\ thread = [main |-> thread.main, isr |-> thread.isr]
    /\ ThreadOK(thread.main) /\ ThreadOK(thread.isr)

\* What is left of main leads to what was asked for; the handler does not touch the bit.
Promise(p, r) ==
    \E x, y \in Tracks : /\ Leads(p, r, thread.main.ops, x, y) /\ y.bit = Bit(r \in want[p])
                         /\ Follows(p, r, thread.main, x)
Harmless(p, r) ==
    /\ Still(p, r, thread.isr.ops)
    /\ thread.isr.ops # <<>> =>
           \E x, y \in Tracks : Leads(p, r, thread.isr.ops, x, y) /\ Follows(p, r, thread.isr, x)

\* The output the handlers toggle is theirs.
Kept(p, r) == p # Led \/ r # "OUT0"

GpioInv ==
    /\ Threads /\ calls \in Nat /\ ip \subseteq Sources /\ irq_id \in Nat
    /\ \A p \in Pins, r \in ConfigRegs : Kept(p, r) => Promise(p, r) /\ Harmless(p, r)

(* What a cycle writes to a configuration register.                        *)
LEMMA WriteIs ==
    ASSUME NEW d \in {AO, PERI}, NEW g, NEW value, Write(d, g, value),
           NEW b \in {AO, PERI}, NEW r \in ConfigRegs
    PROVE  regs'[b][r] = IF b = d /\ r = g THEN value ELSE regs[b][r]
<1>1. r \in BlockRegs /\ r # "" /\ ~(\E k \in Kinds : r = Status[k])
  BY RegistersAre DEF KindRegs
<1>2. regs'[b] = Updated(b, IF b = d THEN g ELSE "", value)
  BY DEF Write
<1>3. regs'[b][r] = IF r = (IF b = d THEN g ELSE "") THEN value ELSE regs[b][r]
  BY <1>1, <1>2 DEF Updated
<1> QED BY <1>1, <1>3

LEMMA NoWriteIs ==
    ASSUME NoWrite, NEW b \in {AO, PERI}, NEW r \in ConfigRegs
    PROVE  regs'[b][r] = regs[b][r]
<1>1. r \in BlockRegs /\ r # "" /\ ~(\E k \in Kinds : r = Status[k])
  BY RegistersAre DEF KindRegs
<1>2. regs'[b] = Updated(b, "", {})
  BY DEF NoWrite, Write
<1> QED BY <1>1, <1>2 DEF Updated

LEMMA AdvanceIs ==
    ASSUME Threads, NEW n, n = Running, NEW b, NEW v, Advance(b, v), Current.ops # <<>>
    PROVE  /\ Threads'
           /\ thread[n].ops # <<>> /\ thread[n].ops \in Seq(Ops) /\ op1 = Head(thread[n].ops)
           /\ thread'[n].ops = Tail(thread[n].ops)
           /\ thread'[n].base = b /\ thread'[n].value = v
           /\ n = "main" => thread'.isr = thread.isr /\ thread.isr.ops = <<>>
           /\ n = "isr" => thread'.main = thread.main
<1>1. n \in {"main", "isr"}
  BY DEF Running
<1>2. thread[n].ops # <<>> /\ thread[n].ops \in Seq(Ops) /\ op1 = Head(thread[n].ops)
  BY <1>1 DEF Current, op1, Threads, ThreadOK
<1> DEFINE t == [ops |-> Tail(thread[n].ops), base |-> b, value |-> v]
<1>3. thread' = [thread EXCEPT ![n] = t]
  BY DEF Advance
<1>4. t.ops = Tail(thread[n].ops) /\ t.base = b /\ t.value = v /\ ThreadOK(t)
  <2>1. Tail(thread[n].ops) \in Seq(Ops)
    BY <1>2
  <2> QED BY <2>1 DEF ThreadOK
<1> HIDE DEF t
<1>5. CASE n = "main"
  <2>1. thread' = [main |-> t, isr |-> thread.isr]
    BY <1>3, <1>5 DEF Threads
  <2> QED BY <1>2, <1>4, <1>5, <2>1 DEF Threads, Running
<1>6. CASE n = "isr"
  <2>1. thread' = [main |-> thread.main, isr |-> t]
    BY <1>3, <1>6 DEF Threads
  <2> QED BY <1>2, <1>4, <1>6, <2>1 DEF Threads
<1> QED BY <1>1, <1>5, <1>6

\* The cycles in which the processor makes an access of the current thread.
AccessStep ==
    \/ Select \/ Unselected \/ Load \/ Store \/ SetPlic \/ SetHandlers
    \/ plic_irq_complete \/ Return

(* An access keeps the thread on its track.                                *)
LEMMA FollowStep ==
    ASSUME Threads, AccessStep, NEW n, n = Running, NEW p \in Pins, NEW r \in ConfigRegs,
           NEW x \in Tracks, Permitted(p, r, op1, x), Follows(p, r, thread[n], x),
           NEW z, z = After(p, r, op1, x)
    PROVE  /\ Follows(p, r, thread[n], z)' /\ Threads'
           /\ thread[n].ops # <<>> /\ thread[n].ops \in Seq(Ops) /\ op1 = Head(thread[n].ops)
           /\ thread'[n].ops = Tail(thread[n].ops)
           /\ n = "main" => thread'.isr = thread.isr /\ thread.isr.ops = <<>>
           /\ n = "isr" => thread'.main = thread.main
<1> DEFINE d == Domain(p)
           t == thread[n]
<1>1. Current = t /\ d \in {AO, PERI} /\ d # "any"
  BY DomainIs DEF Current
<1>2. /\ x.bit = On(p, r) /\ (x.block # "any" => x.block = t.base)
      /\ (x.loaded = "fresh" => (p \in t.value <=> p \in regs[d][r]))
  BY DEF Follows
<1>3. \A b, v : Advance(b, v) /\ Current.ops # <<>> =>
         /\ Threads'
         /\ thread[n].ops # <<>> /\ thread[n].ops \in Seq(Ops) /\ op1 = Head(thread[n].ops)
         /\ thread'[n].ops = Tail(thread[n].ops)
         /\ thread'[n].base = b /\ thread'[n].value = v
         /\ n = "main" => thread'.isr = thread.isr /\ thread.isr.ops = <<>>
         /\ n = "isr" => thread'.main = thread.main
  BY AdvanceIs
<1>4. NoWrite => regs'[d][r] = regs[d][r]
  BY <1>1, NoWriteIs
<1>5. ASSUME z.bit = On(p, r)', z.block # "any" => z.block = thread'[n].base,
             z.loaded = "fresh" => (p \in thread'[n].value <=> p \in regs'[d][r])
      PROVE  Follows(p, r, thread[n], z)'
  BY <1>5 DEF Follows
<1>6. regs'[d][r] = regs[d][r] => On(p, r)' = On(p, r)
  BY DEF On
<1>7. CASE Select
  <2>1. op1.op = "select" /\ Advance(Domain(op1.bit), Current.value) /\ NoWrite /\ Current.ops # <<>>
    BY <1>7 DEF Select, Ready, Quiet, op1
  <2>2. z.block = Domain(op1.bit) /\ z.bit = x.bit /\ z.loaded = "stale"
    BY <2>1 DEF After
  <2> QED BY <1>2, <1>3, <1>4, <1>5, <1>6, <2>1, <2>2
<1>8. CASE Unselected
  <2>1. op1.op = "unselected" /\ Advance(gpio_perif, Current.value) /\ NoWrite /\ Current.ops # <<>>
    BY <1>8 DEF Unselected, Ready, Quiet, op1
  <2>2. z.block = "any" /\ z.bit = x.bit /\ z.loaded = "stale"
    BY <2>1 DEF After
  <2> QED BY <1>2, <1>3, <1>4, <1>5, <1>6, <2>1, <2>2
<1>9. CASE Load
  <2>1. /\ op1.op = "load" /\ Advance(Current.base, ReadReg(Current.base, op1.reg)) /\ NoWrite
        /\ Current.ops # <<>>
    BY <1>9 DEF Load, Ready, Quiet, op1
  <2>2. /\ z.block = x.block /\ z.bit = x.bit
        /\ z.loaded = "fresh" => op1.reg = r /\ x.block = d
    BY <2>1 DEF After
  <2>3. z.loaded = "fresh" => ReadReg(Current.base, op1.reg) = regs[d][r]
    <3>1. r \notin {"IE0", "LE0", "IP0", "IN0", "STATUS0"}
      BY RegistersAre DEF KindRegs
    <3>2. z.loaded = "fresh" => Current.base = d
      BY <1>1, <1>2, <2>2
    <3> QED BY <2>2, <3>1, <3>2 DEF ReadReg
  <2> QED BY <1>1, <1>2, <1>3, <1>4, <1>5, <1>6, <2>1, <2>2, <2>3
<1>10. CASE SetPlic \/ SetHandlers \/ plic_irq_complete \/ Return
  <2>1. /\ op1.op \in {"prio", "prio0", "threshold", "handlers", "gpio_handlers", "assign",
                       "complete", "mret"}
        /\ Advance(Current.base, Current.value) /\ NoWrite /\ Current.ops # <<>>
    BY <1>10 DEF SetPlic, SetHandlers, plic_irq_complete, Return, Ready, Quiet, op1, Proceed
  <2>2. z = x
    BY <2>1 DEF After, Touches, Stores
  <2> QED BY <1>1, <1>2, <1>3, <1>4, <1>5, <1>6, <2>1, <2>2
<1>11. CASE Store
  <2>1. /\ op1.op \in Stores /\ Advance(Current.base, Current.value)
        /\ Current.ops # <<>> /\ Write(Current.base, op1.reg, StoreValue)
    BY <1>11 DEF Store, Storing, Ready, op1, Proceed, Stores
  <2>2. CASE ~Touches(p, r, op1, x)
    <3>1. z = x
      BY <2>1, <2>2 DEF After, Stores
    <3>2. regs'[d][r] = regs[d][r]
      <4>1. CASE op1.reg = r
        <5>1. x.block # "any" /\ x.block # d
          BY <2>1, <2>2, <4>1 DEF Touches, Permitted
        <5>2. Current.base \in {AO, PERI} /\ Current.base # d
          BY <1>1, <1>2, <5>1 DEF Tracks
        <5> HIDE DEF d
        <5> QED BY <1>1, <2>1, <5>2, WriteIs
      <4>2. CASE op1.reg # r
        <5>1. regs'[d] = Updated(d, IF d = Current.base THEN op1.reg ELSE "", StoreValue)
          BY <1>1, <2>1 DEF Write
        <5>2. r \in BlockRegs /\ r # "" /\ ~(\E k \in Kinds : r = Status[k])
          BY RegistersAre DEF KindRegs
        <5>3. r # IF d = Current.base THEN op1.reg ELSE ""
          BY <4>2, <5>2
        <5> QED BY <5>1, <5>2, <5>3 DEF Updated
      <4> QED BY <4>1, <4>2
    <3> QED BY <1>1, <1>2, <1>3, <1>5, <1>6, <2>1, <3>1, <3>2
  <2>3. CASE Touches(p, r, op1, x)
    <3>1. op1.reg = r /\ x.block = d /\ Current.base = d
      BY <1>1, <1>2, <2>3 DEF Touches
    <3>2. regs'[d][r] = StoreValue
      BY <1>1, <2>1, <3>1, WriteIs
    <3>3. /\ op1.op # "ones"
          /\ \/ x.loaded = "fresh" \/ op1.op = "clear"
             \/ op1.op \in {"set", "unset"} /\ op1.bit = p
      BY <2>1, <3>1 DEF Permitted
    <3>4. z.block = x.block /\ z.bit = Stored(p, op1, x.bit) /\ z.loaded = "stale"
      BY <2>1, <2>3 DEF After, Stores
    <3>5. x.bit = "on" <=> p \in regs[d][r]
      BY <1>2 DEF On, Bit
    <3>6. z.bit = Bit(p \in StoreValue)
      <4>1. CASE op1.op = "set"
        <5>1. StoreValue = t.value \cup {op1.bit}
          BY <1>1, <4>1 DEF StoreValue
        <5> QED BY <1>2, <3>3, <3>4, <3>5, <4>1, <5>1 DEF Stored, Bit, Tracks, Bits
      <4>2. CASE op1.op = "unset"
        <5>1. StoreValue = t.value \ {op1.bit}
          BY <1>1, <4>2 DEF StoreValue
        <5> QED BY <1>2, <3>3, <3>4, <3>5, <4>2, <5>1 DEF Stored, Bit, Tracks, Bits
      <4>3. CASE op1.op = "toggle"
        <5>1. StoreValue = IF op1.bit \in t.value THEN t.value \ {op1.bit} ELSE t.value \cup {op1.bit}
          BY <1>1, <4>3 DEF StoreValue
        <5> QED BY <1>2, <3>3, <3>4, <3>5, <4>3, <5>1 DEF Stored, Bit, Tracks, Bits
      <4>4. CASE op1.op = "clear"
        <5>1. StoreValue = {}
          BY <4>4 DEF StoreValue
        <5> QED BY <3>4, <4>4, <5>1 DEF Stored, Bit
      <4> QED BY <2>1, <3>3, <4>1, <4>2, <4>3, <4>4 DEF Stores
    <3>7. On(p, r)' = Bit(p \in StoreValue)
      BY <3>2 DEF On
    <3> QED BY <1>1, <1>2, <1>3, <1>5, <2>1, <3>1, <3>4, <3>6, <3>7
  <2> QED BY <2>2, <2>3
<1> QED BY <1>7, <1>8, <1>9, <1>10, <1>11 DEF AccessStep

-----------------------------------------------------------------------------
(* The handlers of interrupts                                              *)

LEMMA StillJoin ==
    ASSUME NEW p, NEW r, NEW s \in Seq(Ops), NEW t \in Seq(Ops), Still(p, r, s), Still(p, r, t)
    PROVE  Still(p, r, s \o t)
<1>1. /\ Len(s) \in Nat /\ Len(t) \in Nat /\ Len(s \o t) = Len(s) + Len(t)
      /\ \A i \in 1..Len(s) + Len(t) : (s \o t)[i] = IF i <= Len(s) THEN s[i] ELSE t[i - Len(s)]
  BY ConcatProperties
<1>2. ASSUME NEW i \in 1..Len(s) + Len(t)
      PROVE  LET a == (s \o t)[i]
             IN a.op \in Stores /\ a.reg = r => a.op \in {"set", "unset", "toggle"} /\ a.bit # p
  <2>1. CASE i <= Len(s)
    <3>1. (s \o t)[i] = s[i] /\ i \in 1..Len(s)
      BY <1>1, <2>1
    <3> QED BY <3>1 DEF Still
  <2>2. CASE i > Len(s)
    <3> DEFINE j == i - Len(s)
    <3>1. (s \o t)[i] = t[j] /\ j \in 1..Len(t)
      BY <1>1, <2>2
    <3> HIDE DEF j
    <3> QED BY <3>1 DEF Still
  <2> QED BY <1>1, <2>1, <2>2
<1> QED BY <1>1, <1>2 DEF Still

LEMMA StillOne ==
    ASSUME NEW p, NEW r, NEW a \in Ops,
           a.op \in Stores /\ a.reg = r => a.op \in {"set", "unset", "toggle"} /\ a.bit # p
    PROVE  Still(p, r, <<a>>) /\ <<a>> \in Seq(Ops)
<1> DEFINE s == <<a>>
<1>1. Len(s) = 1 /\ s[1] = a /\ s \in Seq(Ops)
  OBVIOUS
<1> HIDE DEF s
<1>2. \A i \in 1..1 : s[i] = a
  BY <1>1
<1>3. Still(p, r, s)
  BY <1>1, <1>2 DEF Still
<1> QED BY <1>1, <1>3 DEF s

LEMMA StillNothing == ASSUME NEW p, NEW r PROVE Still(p, r, <<>>)
<1>1. Len(<<>>) = 0
  OBVIOUS
<1> QED BY <1>1 DEF Still

(* The handler of an application keeps every bit but that of its output.   *)
LEMMA HandlerStill ==
    ASSUME NEW p \in Pins, NEW r \in ConfigRegs, Kept(p, r), NEW s \in Nat, NEW u \in Bits
    PROVE  Still(p, r, app_handler(s)) /\ Code(p, r, app_handler(s), u, u)
<1> DEFINE s1 == Op("select", "", s, 0)
           a1 == Op("load", "STATUS0", 0, 0)
           a2 == Op("set", "STATUS0", s, 0)
           s2 == Op("select", "", Led, 0)
           b1 == Op("load", "OUT0", 0, 0)
           b2 == Op("toggle", "OUT0", Led, 0)
           Fine(a) == a \in Ops /\ (a.op \in Stores /\ a.reg = r =>
                                       a.op \in {"set", "unset", "toggle"} /\ a.bit # p)
<1>1. Led \in Nat /\ p \in Nat /\ "STATUS0" # r
  BY GpioAssumption, RegistersAre DEF KindRegs
<1>2. Fine(s1) /\ Fine(a1) /\ Fine(a2) /\ Fine(s2) /\ Fine(b1) /\ Fine(b2)
  BY <1>1 DEF Op, Ops, Names, Registers, Stores, Kept
<1>3. /\ gpio_intr_clear_stat(s) = <<s1>> \o <<a1, a2>>
      /\ gpio_toggle(Led) = <<s2>> \o <<b1, b1, b2>>
  BY DEF gpio_intr_clear_stat, gpio_toggle, select_gpio_domain, Set1, Modify
<1> HIDE DEF s1, a1, a2, s2, b1, b2
<1>4. \A a : Fine(a) => Still(p, r, <<a>>) /\ <<a>> \in Seq(Ops)
  BY StillOne
<1>5. <<a1>> \o <<a2>> = <<a1, a2>> /\ <<b1>> \o <<b2>> = <<b1, b2>>
      /\ <<b1>> \o <<b1, b2>> = <<b1, b1, b2>>
  BY Join1And1, Join1And2
<1> HIDE DEF Fine
<1>6. Still(p, r, <<a1, a2>>) /\ <<a1, a2>> \in Seq(Ops)
  BY <1>2, <1>4, <1>5, StillJoin, ConcatProperties
<1>7. Still(p, r, <<b1, b2>>) /\ <<b1, b2>> \in Seq(Ops)
  BY <1>2, <1>4, <1>5, StillJoin, ConcatProperties
<1>8. Still(p, r, <<b1, b1, b2>>) /\ <<b1, b1, b2>> \in Seq(Ops)
  BY <1>2, <1>4, <1>5, <1>7, StillJoin, ConcatProperties
<1>9. Still(p, r, gpio_intr_clear_stat(s)) /\ gpio_intr_clear_stat(s) \in Seq(Ops)
  BY <1>2, <1>3, <1>4, <1>6, StillJoin, ConcatProperties
<1>10. Still(p, r, gpio_toggle(Led)) /\ gpio_toggle(Led) \in Seq(Ops)
  BY <1>2, <1>3, <1>4, <1>8, StillJoin, ConcatProperties
<1>11. Still(p, r, app_handler(s))
  BY <1>9, <1>10, StillJoin DEF app_handler
<1>12. Code(p, r, gpio_intr_clear_stat(s), u, u)
  BY ClearStatCode
<1>13. Code(p, r, gpio_toggle(Led), u, u)
  <2>1. Code(p, r, gpio_toggle(Led), u, IF "OUT0" = r /\ Led = p THEN Flip(u) ELSE u)
    BY <1>1, ToggleCode
  <2> QED BY <2>1 DEF Kept
<1>14. Code(p, r, app_handler(s), u, u)
  BY <1>12, <1>13, CodeJoin DEF app_handler
<1> QED BY <1>11, <1>14

(* What is still to do after a claim.                                      *)
LEMMA DispatchStill ==
    ASSUME NEW p \in Pins, NEW r \in ConfigRegs, Kept(p, r), NEW u \in Bits, NEW h,
           h = <<>> \/ \E s \in Nat : h = app_handler(s),
           NEW c, c = h \o <<Op("complete", "CC0", 0, 0), Op("mret", "", 0, 0)>>
    PROVE  Still(p, r, c) /\ Code(p, r, c, u, u)
<1> DEFINE a1 == Op("complete", "CC0", 0, 0)
           a2 == Op("mret", "", 0, 0)
           e == <<a1, a2>>
<1>1. /\ a1 \in Ops /\ a1.op \notin Stores /\ a2 \in Ops /\ a2.op \notin Stores
  BY DEF Op, Ops, Names, Registers, Stores
<1> HIDE DEF a1, a2
<1>2. <<a1>> \o <<a2>> = e
  BY Join1And1
<1>3. Still(p, r, <<a1>>) /\ Still(p, r, <<a2>>) /\ <<a1>> \in Seq(Ops) /\ <<a2>> \in Seq(Ops)
  BY <1>1, StillOne
<1>4. Code(p, r, <<a1>>, u, u) /\ Code(p, r, <<a2>>, u, u)
  BY <1>1, OtherCode
<1> HIDE DEF e
<1>5. Still(p, r, e) /\ Code(p, r, e, u, u) /\ e \in Seq(Ops)
  BY <1>2, <1>3, <1>4, StillJoin, CodeJoin, ConcatProperties
<1>6. Still(p, r, h) /\ Code(p, r, h, u, u)
  BY HandlerStill, StillNothing, CodeNothing
<1>7. h \in Seq(Ops)
  BY <1>6 DEF Code
<1>8. Still(p, r, h \o e) /\ Code(p, r, h \o e, u, u)
  BY <1>5, <1>6, <1>7, StillJoin, CodeJoin
<1> QED BY <1>8 DEF e, a1, a2

-----------------------------------------------------------------------------
(* The invariant                                                           *)

\* A track to start from.
Start(p, r) == [block |-> "any", bit |-> On(p, r), loaded |-> "stale"]

LEMMA StartFollows ==
    ASSUME NEW p, NEW r, NEW t
    PROVE  Start(p, r) \in Tracks /\ Start(p, r).bit = On(p, r) /\ Follows(p, r, t, Start(p, r))
           /\ On(p, r) \in Bits
BY DEF Start, Tracks, Follows, On, Bit, Bits

LEMMA LinesAre == Lines \subseteq Sources
<1>1. \A k : Raised(PERI, k) \subseteq Sources
  <2>1. \A q \in Pins : Domain(q) = PERI => q >= GPIO_AO_DOMAIN_LIMIT
    BY GpioAssumption DEF Domain, AO, PERI
  <2> QED BY <2>1, GpioAssumption DEF Raised, Signals
<1> QED BY <1>1 DEF Lines

LEMMA InitGpio == Init => GpioInv
<1> SUFFICES ASSUME Init PROVE GpioInv
  OBVIOUS
<1>1. Idle.ops = <<>> /\ ThreadOK(Idle)
  BY EmptySeq DEF Idle, ThreadOK
<1>2. thread.main = Idle /\ thread.isr = Idle /\ thread = [main |-> Idle, isr |-> Idle]
  BY DEF Init
<1>3. Threads
  BY <1>1, <1>2 DEF Threads
<1>4. calls \in Nat /\ ip \subseteq Sources /\ irq_id \in Nat
  BY DEF Init, PlicInit, NULL_INTR
<1>5. ASSUME NEW p \in Pins, NEW r \in ConfigRegs
      PROVE  Promise(p, r) /\ Harmless(p, r)
  <2> DEFINE x == Start(p, r)
  <2>1. x \in Tracks /\ x.bit = On(p, r) /\ Follows(p, r, thread.main, x)
    BY StartFollows
  <2>2. regs[Domain(p)][r] = {} /\ want[p] = {}
    <3>1. Domain(p) \in {AO, PERI} /\ r \in BlockRegs
      BY DomainIs, RegistersAre
    <3> QED BY <3>1 DEF Init
  <2>3. On(p, r) = Bit(r \in want[p])
    BY <2>2 DEF On, Bit
  <2> HIDE DEF x
  <2>4. Leads(p, r, <<>>, x, x)
    BY <2>1, LeadsNowhere
  <2>5. Promise(p, r)
    BY <1>1, <1>2, <2>1, <2>3, <2>4 DEF Promise
  <2>6. Harmless(p, r)
    BY <1>1, <1>2, StillNothing DEF Harmless
  <2> QED BY <2>5, <2>6
<1> QED BY <1>3, <1>4, <1>5 DEF GpioInv

(* A cycle without an access of main or of the handler.                    *)
LEMMA PromiseKept ==
    ASSUME NEW p \in Pins, NEW r \in ConfigRegs, Promise(p, r),
           thread.main' = thread.main, On(p, r)' = On(p, r), want' = want,
           (p \in regs[Domain(p)][r])' <=> p \in regs[Domain(p)][r]
    PROVE  Promise(p, r)'
<1>1. PICK x \in Tracks, y \in Tracks : /\ Leads(p, r, thread.main.ops, x, y)
                                        /\ y.bit = Bit(r \in want[p])
                                        /\ Follows(p, r, thread.main, x)
  BY DEF Promise
<1>2. Follows(p, r, thread.main, x)'
  BY <1>1 DEF Follows
<1>3. Leads(p, r, thread'.main.ops, x, y) /\ y.bit = Bit(r \in want'[p])
  BY <1>1
<1> QED BY <1>2, <1>3 DEF Promise

\* The wires a cycle leaves within their range.
WiresStep == calls' \in Nat /\ ip' \subseteq Sources /\ irq_id' \in Nat

LEMMA WiresKept ==
    ASSUME GpioInv, Next
    PROVE  WiresStep
<1>1. calls \in Nat /\ ip \subseteq Sources
  BY DEF GpioInv
<1>2. \A claim, complete : Gateway(Lines, claim, complete) => ip' \subseteq Sources
  BY <1>1, LinesAre DEF Gateway, Triggered
<1>3. Step => ip' \subseteq Sources
  BY <1>2 DEF Step, Select, Unselected, Load, Store, SetPlic, SetHandlers, Trap,
              handler_irq_external, plic_irq_complete, Return, Wait, Quiet
<1>4. \A c : Call(c) => ip' \subseteq Sources /\ calls' \in Nat
  BY <1>1, <1>2 DEF Call, Quiet
<1>5. Target
  BY DEF Next, Environment
<1>6. irq_id' \in Nat
  <2>1. Winners \subseteq Sources /\ Sources \subseteq Nat
    BY <1>1, PlicAssumption DEF Winners
  <2>2. Winners # {} => (CHOOSE s \in Winners : TRUE) \in Winners
    OBVIOUS
  <2> QED BY <1>5, <2>1, <2>2 DEF Target, NULL_INTR
<1> QED BY <1>1, <1>3, <1>4, <1>6 DEF Next, WiresStep

LEMMA AccessKept ==
    ASSUME Threads, AccessStep, want' = want, NEW p \in Pins, NEW r \in ConfigRegs,
           Promise(p, r), Harmless(p, r)
    PROVE  Threads' /\ Promise(p, r)' /\ Harmless(p, r)'
<1> DEFINE d == Domain(p)
<1>1. CASE Running = "main"
  <2>1. PICK x \in Tracks, y \in Tracks : /\ Leads(p, r, thread.main.ops, x, y)
                                          /\ y.bit = Bit(r \in want[p])
                                          /\ Follows(p, r, thread.main, x)
    BY DEF Promise
  <2>2. thread.main.ops # <<>> /\ thread.main.ops \in Seq(Ops) /\ op1 = Head(thread.main.ops)
    <3>1. Current.ops # <<>>
      BY DEF AccessStep, Select, Unselected, Load, Store, SetPlic, SetHandlers,
             plic_irq_complete, Return, Ready
    <3> QED BY <1>1, <3>1 DEF Current, op1, Threads, ThreadOK
  <2>a. PICK z : z = After(p, r, op1, x)
    OBVIOUS
  <2>3. Permitted(p, r, op1, x) /\ Leads(p, r, Tail(thread.main.ops), z, y) /\ z \in Tracks
    BY <2>a, <2>1, <2>2, LeadsTail, AfterIs
  <2>4. /\ Follows(p, r, thread["main"], z)' /\ Threads'
        /\ thread'["main"].ops = Tail(thread["main"].ops)
        /\ thread'.isr = thread.isr /\ thread.isr.ops = <<>>
    BY <1>1, <2>a, <2>1, <2>3, FollowStep
    <2>5. Promise(p, r)'
    <3>1. Follows(p, r, thread.main, z)'
      BY <2>4
    <3>2. Leads(p, r, thread'.main.ops, z, y) /\ y.bit = Bit(r \in want'[p])
      BY <2>1, <2>3, <2>4
    <3> QED BY <2>3, <3>1, <3>2 DEF Promise
  <2>6. Harmless(p, r)'
    <3>1. thread'.isr.ops = <<>>
      BY <2>4
    <3> QED BY <3>1, StillNothing DEF Harmless
  <2> QED BY <2>4, <2>5, <2>6
<1>2. CASE Running = "isr"
  <2>1. thread.isr.ops # <<>> /\ thread.isr.ops \in Seq(Ops) /\ op1 = Head(thread.isr.ops)
    <3>1. Current.ops # <<>>
      BY DEF AccessStep, Select, Unselected, Load, Store, SetPlic, SetHandlers,
             plic_irq_complete, Return, Ready
    <3> QED BY <1>2, <3>1 DEF Current, op1, Threads, ThreadOK
  <2>2. PICK x \in Tracks, y \in Tracks : /\ Leads(p, r, thread.isr.ops, x, y)
                                          /\ Follows(p, r, thread.isr, x)
    BY <2>1 DEF Harmless
  <2>a. PICK z : z = After(p, r, op1, x)
    OBVIOUS
  <2>3. Permitted(p, r, op1, x) /\ Leads(p, r, Tail(thread.isr.ops), z, y) /\ z \in Tracks
    BY <2>a, <2>1, <2>2, LeadsTail, AfterIs
  <2>4. z.bit = x.bit
    <3>1. /\ Len(thread.isr.ops) \in Nat /\ 1 \in 1..Len(thread.isr.ops)
          /\ op1 = thread.isr.ops[1]
      BY <2>1, EmptySeq, HeadTailProperties
    <3>2. op1.op \in Stores /\ op1.reg = r => op1.op \in {"set", "unset", "toggle"} /\ op1.bit # p
      BY <3>1 DEF Harmless, Still
    <3> QED BY <2>a, <3>2 DEF After, Touches, Stored
  <2>5. /\ Follows(p, r, thread["isr"], z)' /\ Threads'
        /\ thread'["isr"].ops = Tail(thread["isr"].ops)
        /\ thread'.main = thread.main
    BY <1>2, <2>a, <2>2, <2>3, FollowStep
    <2>6. On(p, r)' = On(p, r)
    BY <2>2, <2>4, <2>5 DEF Follows
  <2>7. (p \in regs[Domain(p)][r])' <=> p \in regs[Domain(p)][r]
    BY <2>6 DEF On, Bit
  <2>8. Promise(p, r)'
    BY <2>5, <2>6, <2>7, PromiseKept
  <2>9. Still(p, r, thread'.isr.ops)
    <3> DEFINE s == thread.isr.ops
               t == Tail(s)
    <3>1. Len(s) \in Nat /\ Len(t) = Len(s) - 1 /\ \A i \in 1..Len(s) - 1 : t[i] = s[i + 1]
      BY <2>1, EmptySeq, HeadTailProperties
    <3>2. Still(p, r, s) /\ thread'.isr.ops = t
      BY <2>5 DEF Harmless
    <3> HIDE DEF s, t
    <3>3. ASSUME NEW i \in 1..Len(t)
          PROVE  t[i].op \in Stores /\ t[i].reg = r =>
                    t[i].op \in {"set", "unset", "toggle"} /\ t[i].bit # p
      <4> DEFINE j == i + 1
      <4>1. j \in 1..Len(s) /\ t[i] = s[j]
        BY <3>1
      <4> HIDE DEF j
      <4> QED BY <3>2, <4>1 DEF Still
    <3>4. Still(p, r, t)
      BY <3>3 DEF Still
    <3> QED BY <3>2, <3>4
  <2>10. Leads(p, r, thread'.isr.ops, z, y) /\ Follows(p, r, thread.isr, z)'
    BY <2>3, <2>5
  <2>11. Harmless(p, r)'
    BY <2>2, <2>3, <2>9, <2>10 DEF Harmless
  <2> QED BY <2>5, <2>8, <2>11
<1> QED BY <1>1, <1>2 DEF Running

WithOps(t, ops) == [t EXCEPT !.ops = ops]

LEMMA WithOpsIs ==
    ASSUME NEW t, NEW o, t = [ops |-> t.ops, base |-> t.base, value |-> t.value]
    PROVE  WithOps(t, o) = [ops |-> o, base |-> t.base, value |-> t.value]
BY DEF WithOps

(* The processor takes the interrupt, or claims it.                        *)
LEMMA InterruptKept ==
    ASSUME Threads, Trap \/ handler_irq_external, irq_id \in Nat, want' = want,
           NEW p \in Pins, NEW r \in ConfigRegs, Kept(p, r), Promise(p, r), Harmless(p, r)
    PROVE  Threads' /\ Promise(p, r)' /\ Harmless(p, r)'
<1> DEFINE new == thread'.isr
<1>1. /\ NoWrite /\ thread' = [main |-> thread.main, isr |-> new]
      /\ new = [ops |-> new.ops, base |-> new.base, value |-> new.value]
  <2>1. thread = [main |-> thread.main, isr |-> thread.isr]
        /\ thread.isr = [ops |-> thread.isr.ops, base |-> thread.isr.base, value |-> thread.isr.value]
    BY DEF Threads, ThreadOK
  <2>2. CASE Trap
    <3>1. PICK o : NoWrite /\ thread' = [thread EXCEPT !.isr = [Idle EXCEPT !.ops = o]]
      BY <2>2 DEF Trap, Quiet
    <3> DEFINE t == [Idle EXCEPT !.ops = o]
    <3>2. t = [ops |-> o, base |-> AO, value |-> {}]
      <4>1. Idle = [ops |-> Idle.ops, base |-> Idle.base, value |-> Idle.value]
            /\ Idle.base = AO /\ Idle.value = {}
        BY DEF Idle
      <4>2. t = WithOps(Idle, o)
        BY DEF WithOps
      <4> HIDE DEF t
      <4> QED BY <4>1, <4>2, WithOpsIs
    <3> HIDE DEF t
    <3>3. thread' = [main |-> thread.main, isr |-> t]
      BY <2>1, <3>1 DEF t
    <3>4. t = [ops |-> t.ops, base |-> t.base, value |-> t.value]
      BY <3>2
    <3>5. new = t
      BY <3>3
    <3> QED BY <3>1, <3>3, <3>4, <3>5
  <2>3. CASE handler_irq_external
    <3>1. PICK a : NoWrite /\ thread' = [thread EXCEPT !.isr.ops = a]
      BY <2>3 DEF handler_irq_external
    <3> DEFINE t == [thread.isr EXCEPT !.ops = a]
    <3>2. thread' = [main |-> thread.main, isr |-> t]
      BY <2>1, <3>1
    <3>3. t = [ops |-> t.ops, base |-> t.base, value |-> t.value]
      BY <2>1
    <3> HIDE DEF t
    <3>4. new = t
      BY <3>2
    <3> QED BY <3>1, <3>2, <3>3, <3>4
  <2> QED BY <2>2, <2>3
<1>2. On(p, r)' = On(p, r) /\ ((p \in regs[Domain(p)][r])' <=> p \in regs[Domain(p)][r])
  BY <1>1, DomainIs, NoWriteIs DEF On
<1>3. Promise(p, r)'
  BY <1>1, <1>2, PromiseKept
<1>4. \A u \in Bits : Still(p, r, new.ops) /\ Code(p, r, new.ops, u, u)
  <2>1. CASE Trap
    <3> DEFINE a == Op("claim", "CC0", 0, 0)
    <3>1. a \in Ops /\ a.op \notin Stores
      BY DEF Op, Ops, Names, Registers, Stores
    <3>2. new.ops = <<a>>
      BY <2>1 DEF Trap, Threads, ThreadOK, Idle
    <3> HIDE DEF a
    <3> QED BY <3>1, <3>2, StillOne, OtherCode
  <2>2. CASE handler_irq_external
    <3> DEFINE h == IF handlers[irq_id] = "handler_irq_gpio" THEN handler_irq_gpio(irq_id) ELSE <<>>
    <3>1. new.ops = h \o <<Op("complete", "CC0", 0, 0), Op("mret", "", 0, 0)>>
      BY <2>2 DEF handler_irq_external, Threads, ThreadOK
    <3>2. h = <<>> \/ h = app_handler(irq_id)
      BY DEF handler_irq_gpio
    <3> HIDE DEF h, new
    <3>3. h = <<>> \/ \E s \in Nat : h = app_handler(s)
      BY <3>2
    <3> QED BY <3>1, <3>3, DispatchStill
  <2> QED BY <2>1, <2>2
<1>5. new.ops \in Seq(Ops)
  BY <1>4 DEF Code, Bits
<1>6. Harmless(p, r)'
  <2>1. PICK x \in Tracks : x.bit = On(p, r)' /\ x.block = "any" /\ x.loaded = "stale"
    <3> DEFINE w == [block |-> "any", bit |-> Bit(p \in regs'[Domain(p)][r]), loaded |-> "stale"]
    <3>1. \A v : LET t == [block |-> "any", bit |-> Bit(v), loaded |-> "stale"]
                 IN t \in Tracks /\ t.bit = Bit(v) /\ t.block = "any" /\ t.loaded = "stale"
      BY DEF Tracks, Bit, Bits
    <3>2. On(p, r)' = Bit(p \in regs'[Domain(p)][r])
      BY DEF On
    <3>3. w \in Tracks /\ w.bit = On(p, r)' /\ w.block = "any" /\ w.loaded = "stale"
      BY <3>1, <3>2
    <3> HIDE DEF w
    <3> QED BY <3>3
  <2>5. On(p, r)' \in Bits /\ Follows(p, r, thread.isr, x)'
    BY <2>1 DEF Follows, On, Bit, Bits
  <2>2. Code(p, r, new.ops, On(p, r)', On(p, r)')
    BY <1>4, <2>5
  <2>3. \E y \in Tracks : Leads(p, r, new.ops, x, y)
    BY <2>1, <2>2 DEF Code
  <2>4. Still(p, r, new.ops)
    BY <1>4, <2>5
  <2> QED BY <2>1, <2>3, <2>4, <2>5 DEF Harmless
<1>7. Threads'
  BY <1>1, <1>5 DEF Threads, ThreadOK
<1> QED BY <1>3, <1>6, <1>7

(* Main makes a call.                                                      *)
LEMMA CallKept ==
    ASSUME Threads, NEW c \in DriverCalls, Call(c), NEW p \in Pins, NEW r \in ConfigRegs,
           Promise(p, r), Harmless(p, r)
    PROVE  Threads' /\ Promise(p, r)' /\ Harmless(p, r)'
<1> DEFINE new == [ops |-> Program(c), base |-> thread.main.base, value |-> thread.main.value]
<1>1. /\ thread' = [main |-> new, isr |-> thread.isr] /\ thread.isr.ops = <<>>
      /\ thread.main.ops = <<>> /\ NoWrite /\ want'[p] = Asked(c, p)
  BY DEF Call, MainIdle, Running, Threads, ThreadOK, Quiet
<1>2. On(p, r)' = On(p, r) /\ ((p \in regs[Domain(p)][r])' <=> p \in regs[Domain(p)][r])
  BY <1>1, DomainIs, NoWriteIs DEF On
<1>3. On(p, r) = Bit(r \in want[p])
  <2>1. PICK x \in Tracks, y \in Tracks : /\ Leads(p, r, <<>>, x, y)
                                          /\ y.bit = Bit(r \in want[p])
                                          /\ Follows(p, r, thread.main, x)
    BY <1>1 DEF Promise
  <2>2. x = y
    BY <2>1, LeadsNowhere
  <2> QED BY <2>1, <2>2 DEF Follows
<1>4. Code(p, r, Program(c), On(p, r), Bit(r \in Asked(c, p)))
  BY <1>3, CallCode
<1>5. PICK x \in Tracks : x.bit = On(p, r) /\ x.block = "any" /\ x.loaded = "stale"
  BY StartFollows DEF Start, Tracks, Bits
<1>6. PICK y \in Tracks : y.bit = Bit(r \in Asked(c, p)) /\ Leads(p, r, Program(c), x, y)
  BY <1>4, <1>5 DEF Code
<1>7. Promise(p, r)'
  <2>1. Leads(p, r, thread'.main.ops, x, y) /\ y.bit = Bit(r \in want'[p])
    BY <1>1, <1>6
  <2>2. Follows(p, r, thread.main, x)'
    BY <1>2, <1>5 DEF Follows
  <2> QED BY <1>5, <2>1, <2>2 DEF Promise
<1>8. Harmless(p, r)'
  <2>1. thread'.isr.ops = <<>>
    BY <1>1
  <2> QED BY <2>1, StillNothing DEF Harmless
<1>9. Threads'
  <2>1. Program(c) \in Seq(Ops)
    BY <1>4 DEF Code
  <2>2. ThreadOK(new)
    BY <2>1 DEF ThreadOK
  <2> HIDE DEF new
  <2> QED BY <1>1, <2>2 DEF Threads
<1> QED BY <1>7, <1>8, <1>9

LEMMA GpioStep ==
    ASSUME GpioInv, [Next]_vars
    PROVE  GpioInv'
<1>1. CASE UNCHANGED vars
  <2>1. /\ thread' = thread /\ regs' = regs /\ want' = want /\ calls' = calls
        /\ ip' = ip /\ irq_id' = irq_id
    BY <1>1 DEF vars, gpioVars, plicVars
  <2> QED BY <2>1 DEF GpioInv, Threads, Promise, Harmless, Follows, On
<1>2. CASE Next
  <2>1. calls' \in Nat /\ ip' \subseteq Sources /\ irq_id' \in Nat
    BY <1>2, WiresKept DEF WiresStep
  <2>2. Threads /\ irq_id \in Nat /\ calls \in Nat
    BY DEF GpioInv
  <2>3. \A p \in Pins, r \in ConfigRegs : Kept(p, r) => Promise(p, r) /\ Harmless(p, r)
    BY DEF GpioInv
  <2>4. ASSUME Threads', \A p \in Pins, r \in ConfigRegs : Kept(p, r) => (Promise(p, r) /\ Harmless(p, r))'
        PROVE  GpioInv'
    BY <2>1, <2>4 DEF GpioInv, Kept
  <2>5. \E p \in Pins, r \in ConfigRegs : Kept(p, r)
    <3>1. "MODE0" \in ConfigRegs /\ Led \in Pins
      BY GpioAssumption DEF ConfigRegs
    <3> QED BY <3>1 DEF Kept
  <2>6. CASE AccessStep /\ UNCHANGED want
    BY <2>2, <2>3, <2>4, <2>5, <2>6, AccessKept
  <2>7. CASE (Trap \/ handler_irq_external) /\ UNCHANGED want
    BY <2>2, <2>3, <2>4, <2>5, <2>7, InterruptKept
  <2>8. CASE Wait /\ UNCHANGED want
    <3>1. thread' = thread /\ NoWrite
      BY <2>8 DEF Wait, Quiet
    <3>2. ASSUME NEW p \in Pins, NEW r \in ConfigRegs, Promise(p, r), Harmless(p, r)
          PROVE  (Promise(p, r) /\ Harmless(p, r))'
      <4>1. On(p, r)' = On(p, r) /\ ((p \in regs[Domain(p)][r])' <=> p \in regs[Domain(p)][r])
        BY <3>1, DomainIs, NoWriteIs DEF On
      <4>2. Promise(p, r)'
        BY <2>8, <3>1, <3>2, <4>1, PromiseKept
      <4>3. thread.isr.ops = <<>>
        BY <2>8 DEF Wait, Running
      <4>4. thread'.isr.ops = <<>>
        BY <3>1, <4>3
      <4>5. Harmless(p, r)'
        BY <4>4, StillNothing DEF Harmless
      <4> QED BY <4>2, <4>5
    <3>3. Threads'
      BY <2>2, <3>1 DEF Threads
    <3> QED BY <2>3, <2>4, <3>2, <3>3
  <2>9. ASSUME NEW c \in NextCalls, Call(c)
        PROVE  GpioInv'
    <3>1. c \in DriverCalls
      <4>1. CASE calls < Len(Setup)
        <5>1. calls + 1 \in 1..Len(Setup)
          BY <2>2, <4>1, CallsAssumption
        <5>2. Setup[calls + 1] \in DriverCalls
          BY <5>1, CallsAssumption, ElementOfSeq
        <5> QED BY <4>1, <5>2, <2>9 DEF NextCalls
      <4>2. CASE ~(calls < Len(Setup))
        BY <4>2, <2>9, CallsAssumption DEF NextCalls
      <4> QED BY <4>1, <4>2
    <3> QED BY <2>2, <2>3, <2>4, <2>5, <2>9, <3>1, CallKept
  <2> QED BY <1>2, <2>6, <2>7, <2>8, <2>9 DEF Next, Step, AccessStep
<1> QED BY <1>1, <1>2

LEMMA GpioInvariant == Spec => []GpioInv
BY InitGpio, GpioStep, PTL DEF Spec

\* Whenever no call of main is under way, every pin is configured as the calls so
\* far asked, for every sequence of calls of the driver and every interrupt that
\* comes between two of its accesses: a call selects the block of its pin before
\* it touches a register and keeps it in a local pointer, writes back what it has
\* loaded from the same block, and the handlers write no bit but that of their
\* own output.
THEOREM PinsSafety == Spec => []PinsAsConfigured
<1>1. GpioInv => PinsAsConfigured
  <2> SUFFICES ASSUME GpioInv, MainIdle, NEW p \in Pins, NEW r \in ConfigRegs, Kept(p, r)
               PROVE  p \in regs[Domain(p)][r] <=> r \in want[p]
    BY DEF PinsAsConfigured, Kept
  <2>1. PICK x \in Tracks, y \in Tracks : /\ Leads(p, r, <<>>, x, y)
                                          /\ y.bit = Bit(r \in want[p])
                                          /\ Follows(p, r, thread.main, x)
    BY DEF GpioInv, MainIdle, Promise
  <2>2. x = y
    BY <2>1, LeadsNowhere
  <2>3. On(p, r) = Bit(r \in want[p])
    BY <2>1, <2>2 DEF Follows
  <2> QED BY <2>3 DEF On, Bit
<1> QED BY <1>1, GpioInvariant, PTL
=============================================================================
