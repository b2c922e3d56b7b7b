----------------------------- MODULE W25q_programs --------------------------
(***************************************************************************)
(* What the driver of the W25Q128JW may count on when it makes an access   *)
(* is a view: the words that wait in the TX FIFO for a command, the        *)
(* command the flash is in the middle of, the facts that will hold of the  *)
(* flash when all that is queued is done, the words to come, the DMA.      *)
(*                                                                         *)
(* Leads: the steps of each function of the driver, and of every loop it   *)
(* unrolls, are permitted one after the other, from the view in which the  *)
(* function is called to the view in which it returns.  It speaks of       *)
(* programs only: W25q_proofs says of the states what a view says.         *)
(***************************************************************************)
EXTENDS W25q, SequenceTheorems, TLAPS

-----------------------------------------------------------------------------
(* Views, and what the commands under way leave.                           *)

\* A value is a sequence.
IsSequence(s) == \E S : s \in Seq(S)

\* What the driver may count on of the flash: it is not powered down, it is
\* idle, its write enable latch is set, its bit QE is set.
Facts == {"up", "idle", "wel", "qe"}
Mutating == {"PP", "PPQ", "SE", "BE32", "BE64", "CE"}

\* The facts a command needs to be taken, those it may end and those it gives
\* when it is taken.
Needs(op) ==
    {f \in Facts : \/ f = "up" /\ op # "RPD"
                   \/ f = "idle" /\ op \notin {"RSR1", "RSR2", "ERESET", "RESET", "RPD"}
                   \/ f = "wel" /\ op \in Mutating \cup {"WSR2"}
                   \/ f = "qe" /\ op \in {"RDQIO", "PPQ"}}
Ends(op) ==
    IF op \in Mutating \cup {"RESET"} THEN {"idle", "wel"}
    ELSE IF op = "WSR2" THEN {"idle", "wel", "qe"}
    ELSE IF op = "PD" THEN {"up"} ELSE {}
Gives(op) == IF op = "WE" THEN {"wel"} ELSE IF op = "RPD" THEN {"up"} ELSE {}
Taken(op, K) == Needs(op) \subseteq K
Known(op, K, tk) == (K \ Ends(op)) \cup (IF tk THEN Gives(op) ELSE {})

\* What a command under way does to what is pending, when the word that opens
\* it, if it opens one, is an opcode o.
Opens(c, s) == s.op = "none" /\ Sends(c.cmd) /\ c.left > 0
Effect(c, s, o) ==
    LET op == IF Opens(c, s) THEN o ELSE s.op
        tk == IF Opens(c, s) THEN Taken(o, s.K) ELSE s.tk
    IN [t |-> IF Sends(c.cmd) THEN s.t + c.left ELSE s.t,
        r |-> IF Receives(c.cmd) THEN s.r + c.left ELSE s.r,
        op |-> IF c.cmd.csaat THEN op ELSE "none",
        tk |-> tk,
        K |-> IF c.cmd.csaat THEN s.K ELSE Known(op, s.K, tk),
        ask |-> IF Receives(c.cmd) THEN op ELSE "none"]
HostAfter(c, s) == Effect(c, s, tx[s.t + 1].op)

\* What the driver may count on between two of its accesses: the words it has
\* put out, the command in progress on the bus, the words that come in, the
\* DMA, and whether the host takes a command.
View(kind, out, bus, in, dmaDir, rdy) ==
    [kind |-> kind, out |-> out, bus |-> bus, in |-> in, dma |-> dmaDir, rdy |-> rdy]

\* t words wait for a command, of which the first two are opcodes first and
\* second when the bus is idle; at most b words are in the TX FIFO.
Out(t, b, first, second) == [t |-> t, b |-> b, first |-> first, second |-> second]

\* op is in progress, and taken if tk; the facts K hold when it is over; the
\* last word to come is the answer to ask; last: the last command receives.
Bus(op, K, tk, ask, last) == [op |-> op, K |-> K, tk |-> tk, ask |-> ask, last |-> last]

\* e words are to be read, of which have are in the FIFO, whose watermark is
\* wm at least.
In(e, wm, have) == [e |-> e, wm |-> wm, have |-> have]

\* The views between two calls, and those in which a call begins.
Awake == {"up", "idle", "qe"}
NoWords(b) == Out(0, b, "none", "none")
Rest(k) == View(k, NoWords(0), Bus("none", Awake, TRUE, "none", TRUE), In(0, 0, 0), "none", TRUE)
Reading(b) == View("async", NoWords(b), Bus("none", Awake, TRUE, "none", TRUE), In(0, 0, 0), "rx", TRUE)
Cold == View("off", NoWords(0), Bus("none", {}, FALSE, "none", FALSE), In(0, 0, 0), "none", TRUE)
Waking == View("init", NoWords(1), Bus("none", {}, FALSE, "none", FALSE), In(0, 0, 0), "none", TRUE)
Down == View("off", NoWords(1), Bus("none", Awake \ {"up"}, TRUE, "none", FALSE), In(0, 0, 0), "none", TRUE)

\* The view when the answer no longer matters.
Forget(q) == View(q.kind, q.out, Bus(q.bus.op, q.bus.K, q.bus.tk, "none", q.bus.last), In(q.in.e, 0, q.in.have),
                  q.dma, q.rdy)
AtRest(q) == q \in {Rest("plain"), Rest("async"), Reading(1), Reading(2), Down, Cold}

Polled(k, K, op) == View(k, NoWords(0), Bus("none", K, TRUE, op, TRUE), In(1, 1, 1), "none", TRUE)

Opening(q) == q.bus.op = "none"

\* A command has its words, or asks for an answer, and is for a flash that
\* takes it; while the driver is initialised the flash may refuse it.
CommandFits(q, cmd) ==
    /\ cmd.len \in Nat \ {0} /\ cmd.csaat \in BOOLEAN /\ q.rdy /\ q.dma # "tx"
    /\ \/ /\ cmd.direction = "TX_ONLY"
          /\ \/ q.out.t = LenWords(cmd.len)
             \/ q.out.t = 2 /\ LenWords(cmd.len) = 1 /\ Opening(q) /\ ~cmd.csaat
          /\ Opening(q) => q.kind = "init" \/ Taken(q.out.first, q.bus.K)
       \/ cmd.direction = "RX_ONLY" /\ ~Opening(q) /\ q.out.t = 0
       \/ cmd.direction = "DUMMY" /\ ~Opening(q) /\ cmd.csaat

\* The steps that may be taken in a view.
Permitted(q, s) ==
    \/ s.do = "word" /\ s.word.op # "none" /\ q.out.b < TxDepth /\ q.dma # "tx" /\ (Opening(q) => q.out.t <= 1)
    \/ s.do = "command" /\ CommandFits(q, s.cmd)
    \/ s.do = "watermark" /\ s.n \in Nat
    \/ s.do = "rxwm" /\ q.dma = "none"
    \/ s.do = "status" /\ \E k, K : "up" \in K /\ q = Polled(k, K, "RSR1")
    \/ s.do = "status2" /\ \E k, K : q = Polled(k, K, "RSR2")
    \/ s.do = "qe" /\ \E K : q = Polled("init", K, "RSR2")
    \/ s.do = "data" /\ ~Opening(q) /\ q.dma # "tx"
    \/ s.do = "read" /\ q.in.have > 0 /\ q.dma = "none"
    \/ s.do = "dma" /\ s.n \in Nat \ {0} /\ q.dma = "none" /\ s.dir \in {"rx", "tx"} /\ (s.dir = "tx" => ~Opening(q))
    \/ s.do \in {"ready", "dma_is_ready", "memcpy"}
    \/ /\ s.do = "fill" /\ s.left \in Nat /\ s.start \in Nat /\ s.to_read = 4 * s.start
       /\ \E b, K, ask, wm : q = View("plain", NoWords(b), Bus("none", K, TRUE, ask, TRUE), In(LenWords(s.left), wm, 0), "none", TRUE)
    \/ /\ s.do = "pages" /\ q = Rest("plain") /\ s.len \in Nat \ {0} /\ s.addr \in Nat
       /\ UsesDma(s.variant) => s.len % 4 = 0
    \/ /\ s.do = "sectors" /\ q = Rest("plain") /\ s.len \in Nat /\ s.addr \in Nat
       /\ s.variant \in ReadWays
    \/ s.do = "return" /\ AtRest(q) /\ (q.dma = "rx" => s.code = "OK")

\* The words and the bus after a word, and after a command.
Pushed(out, bus, op) ==
    Out(out.t + 1, out.b + 1, IF bus.op = "none" /\ out.t = 0 THEN op ELSE out.first,
        IF bus.op = "none" /\ out.t = 1 THEN op ELSE out.second)
Held(csaat, op, K, tk, ask, last) ==
    IF csaat THEN Bus(op, K, tk, ask, last) ELSE Bus("none", Known(op, K, tk), tk, ask, last)
Sent(q, words, csaat) ==
    LET out == Out(q.out.t - words, q.out.b, q.out.second, "none")
        op == q.out.first
    IN IF Opening(q)
       THEN View(q.kind, out, Held(csaat, op, q.bus.K, Taken(op, q.bus.K), "none", FALSE),
                 q.in, q.dma, FALSE)
       ELSE View(q.kind, out, Held(csaat, q.bus.op, q.bus.K, q.bus.tk, "none", FALSE),
                 q.in, q.dma, FALSE)
Received(q, words, csaat) ==
    View(q.kind, q.out, Held(csaat, q.bus.op, q.bus.K, q.bus.tk, q.bus.op, TRUE),
         In(q.in.e + words, q.in.wm, q.in.have), q.dma, FALSE)
AfterCommand(q, cmd) ==
    IF cmd.direction = "TX_ONLY" THEN Sent(q, LenWords(cmd.len), cmd.csaat)
    ELSE IF cmd.direction = "RX_ONLY" THEN Received(q, LenWords(cmd.len), cmd.csaat)
    ELSE View(q.kind, q.out, Bus(q.bus.op, q.bus.K, q.bus.tk, "none", FALSE), q.in, q.dma, FALSE)

Bounded(q, b) == Out(q.out.t, b, q.out.first, q.out.second)

\* What the loop over the RX FIFO leaves: the last word, when it is not whole.
Rest4(left) == IF left % 4 = 0 THEN 0 ELSE 1

\* The view after a step.
After(q, s) ==
    IF s.do = "word"
    THEN View(q.kind, Pushed(q.out, q.bus, s.word.op), q.bus, q.in, q.dma, q.rdy)
    ELSE IF s.do = "command" THEN AfterCommand(q, s.cmd)
    ELSE IF s.do = "ready" THEN View(q.kind, q.out, q.bus, q.in, q.dma, TRUE)
    ELSE IF s.do = "watermark"
    THEN View(q.kind, q.out, q.bus, In(q.in.e, s.n, q.in.have), q.dma, q.rdy)
    ELSE IF s.do = "rxwm"
    THEN View(q.kind, IF q.bus.last /\ q.in.e <= q.in.wm THEN Bounded(q, q.out.t) ELSE q.out,
              q.bus, In(q.in.e, q.in.wm, q.in.wm), q.dma, q.rdy)
    ELSE IF s.do = "status"
    THEN View(q.kind, q.out, Bus("none", q.bus.K \cup {"idle"}, TRUE, "RSR1", TRUE), In(0, 1, 0), "none", TRUE)
    ELSE IF s.do = "status2"
    THEN View(q.kind, q.out, q.bus, In(0, 1, 0), "none", TRUE)
    ELSE IF s.do = "qe"
    THEN View("plain", q.out, Bus("none", q.bus.K \cup {"qe"}, TRUE, "RSR2", TRUE), In(0, 1, 0), "none", TRUE)
    ELSE IF s.do = "data"
    THEN View(q.kind, Out(q.out.t + 1, q.out.b + 1, q.out.first, q.out.second), q.bus, q.in, q.dma, q.rdy)
    ELSE IF s.do = "read"
    THEN View(q.kind, q.out, q.bus, In(q.in.e - 1, q.in.wm, q.in.have - 1), q.dma, q.rdy)
    ELSE IF s.do = "dma" /\ s.dir = "rx"
    THEN View(q.kind, q.out, q.bus, In(q.in.e - s.n, q.in.wm, 0), "rx", q.rdy)
    ELSE IF s.do = "dma"
    THEN View(q.kind, Out(q.out.t + s.n, q.out.b + s.n, q.out.first, q.out.second), q.bus, q.in, "tx", q.rdy)
    ELSE IF s.do = "dma_is_ready"
    THEN View(q.kind, IF q.bus.last /\ q.in.e = 0 THEN Bounded(q, q.out.t) ELSE q.out,
              q.bus, q.in, "none", q.rdy)
    ELSE IF s.do = "fill"
    THEN View(q.kind, NoWords(0), Bus("none", q.bus.K, TRUE, "none", TRUE),
              In(Rest4(s.left), 0, Rest4(s.left)), "none", TRUE)
    ELSE IF s.do \in {"pages", "sectors"} THEN Rest("plain")
    ELSE q

-----------------------------------------------------------------------------
(* Sequences of steps.                                                     *)

\* A step leads from one view to another, in which an answer may be
\* forgotten.
Follows(q, s, r) == Permitted(q, s) /\ (r = After(q, s) \/ r = Forget(After(q, s)))

\* Steps lead from one view to another: the promise of each function of the
\* driver.
Leads(x, steps, y) ==
    /\ IsSequence(steps)
    /\ \E tr : /\ tr[1] = x /\ tr[Len(steps) + 1] = y
               /\ \A i \in 1..Len(steps) : Follows(tr[i], steps[i], tr[i + 1])

\* Two sequences, one after the other.
LEMMA SequenceIs ==
    ASSUME NEW s, NEW t, IsSequence(s), IsSequence(t)
    PROVE  /\ IsSequence(s \o t) /\ Len(s) \in Nat /\ Len(t) \in Nat
           /\ Len(s \o t) = Len(s) + Len(t)
           /\ \A i \in 1..Len(s) + Len(t) : (s \o t)[i] = IF i <= Len(s) THEN s[i] ELSE t[i - Len(s)]
<1>1. PICK A : s \in Seq(A)
  BY DEF IsSequence
<1>2. PICK B : t \in Seq(B)
  BY DEF IsSequence
<1> DEFINE C == A \cup B
<1>3. s \in Seq(C) /\ t \in Seq(C)
  BY <1>1, <1>2
<1> HIDE DEF C
<1> QED BY <1>3, ConcatProperties DEF IsSequence

\* A sequence of one.
LEMMA OneIs ==
    ASSUME NEW a
    PROVE  IsSequence(<<a>>) /\ Len(<<a>>) = 1 /\ <<a>>[1] = a
<1>1. <<a>> \in Seq({a})
  OBVIOUS
<1> QED BY <1>1 DEF IsSequence

\* No step leads to the same view.
LEMMA LeadsNowhere ==
    ASSUME NEW x, NEW y
    PROVE  Leads(x, <<>>, y) <=> x = y
<1>1. IsSequence(<<>>) /\ Len(<<>>) = 0
  <2>1. <<>> \in Seq({})
    OBVIOUS
  <2> QED BY <2>1 DEF IsSequence
<1>2. ASSUME x = y
      PROVE  Leads(x, <<>>, y)
  <2> DEFINE tr == [i \in 1..1 |-> x]
  <2>1. tr[1] = x /\ tr[0 + 1] = y
    BY <1>2
  <2> HIDE DEF tr
  <2> QED BY <1>1, <2>1 DEF Leads
<1> QED BY <1>1, <1>2 DEF Leads

\* One step.
LEMMA LeadsOne ==
    ASSUME NEW x, NEW s, NEW y, Follows(x, s, y)
    PROVE  Leads(x, <<s>>, y)
<1> DEFINE tr == [i \in 1..2 |-> IF i = 1 THEN x ELSE y]
           one == <<s>>
<1>1. IsSequence(one) /\ Len(one) = 1 /\ one[1] = s
  BY OneIs
<1>2. tr[1] = x /\ tr[1 + 1] = y
  OBVIOUS
<1> HIDE DEF tr, one
<1>3. \A i \in 1..1 : Follows(tr[i], one[i], tr[i + 1])
  BY <1>1, <1>2
<1>4. Leads(x, one, y)
  BY <1>1, <1>2, <1>3 DEF Leads
<1> QED BY <1>4 DEF one

\* What one piece of a function leads to, the next one starts from.
LEMMA LeadsJoin ==
    ASSUME NEW x, NEW s, NEW y, NEW t, NEW z, Leads(x, s, y), Leads(y, t, z)
    PROVE  Leads(x, s \o t, z)
<1> DEFINE m == Len(s)
           n == Len(t)
           u == s \o t
<1>1. PICK a : a[1] = x /\ a[m + 1] = y /\ \A i \in 1..m : Follows(a[i], s[i], a[i + 1])
  BY DEF Leads
<1>2. PICK b : b[1] = y /\ b[n + 1] = z /\ \A i \in 1..n : Follows(b[i], t[i], b[i + 1])
  BY DEF Leads
<1>3. /\ IsSequence(u) /\ m \in Nat /\ n \in Nat /\ Len(u) = m + n
      /\ \A i \in 1..m + n : u[i] = IF i <= m THEN s[i] ELSE t[i - m]
  BY SequenceIs DEF Leads
<1> DEFINE c == [i \in 1..m + n + 1 |-> IF i <= m THEN a[i] ELSE b[i - m]]
<1> HIDE DEF m, n, u
<1>4. \A i \in 1..m : c[i] = a[i] /\ c[i + 1] = a[i + 1]
  BY <1>1, <1>2, <1>3
<1>5. \A i \in m + 1..m + n : c[i] = b[i - m] /\ c[i + 1] = b[i - m + 1]
  BY <1>3
<1>6. c[1] = x /\ c[m + n + 1] = z
  BY <1>1, <1>2, <1>3
<1> HIDE DEF c
<1>7. \A i \in 1..m : Follows(c[i], u[i], c[i + 1])
  BY <1>1, <1>3, <1>4
<1>8. \A i \in m + 1..m + n : Follows(c[i], u[i], c[i + 1])
  BY <1>2, <1>3, <1>5, SMTT(30)
<1>9. \A i \in 1..m + n : Follows(c[i], u[i], c[i + 1])
  BY <1>3, <1>7, <1>8
<1>10. Leads(x, u, z)
  BY <1>3, <1>6, <1>9 DEF Leads
<1> QED BY <1>10 DEF u

\* A step in front.
LEMMA LeadsFirst ==
    ASSUME NEW x, NEW steps, NEW z, Leads(x, steps, z), steps # <<>>
    PROVE  \E y : Follows(x, steps[1], y) /\ Leads(y, Tail(steps), z)
<1> DEFINE n == Len(steps)
           u == Tail(steps)
<1>1. PICK a : a[1] = x /\ a[n + 1] = z /\ \A i \in 1..n : Follows(a[i], steps[i], a[i + 1])
  BY DEF Leads
<1>2. PICK S : steps \in Seq(S)
  BY DEF Leads, IsSequence
<1>3. n \in Nat \ {0} /\ u \in Seq(S) /\ Len(u) = n - 1 /\ \A i \in 1..n - 1 : u[i] = steps[i + 1]
  BY <1>2, HeadTailProperties, EmptySeq
<1> DEFINE c == [i \in 1..n |-> a[i + 1]]
<1> HIDE DEF n, u
<1>4. /\ c[1] = a[2] /\ c[n - 1 + 1] = z
      /\ \A i \in 1..n - 1 : c[i] = a[i + 1] /\ c[i + 1] = a[i + 1 + 1]
  BY <1>1, <1>3
<1> HIDE DEF c
<1>5. \A i \in 1..n - 1 : Follows(c[i], u[i], c[i + 1])
  <2> TAKE i \in 1..n - 1
  <2>1. i + 1 \in 1..n
    BY <1>3
  <2> QED BY <2>1, <1>1, <1>3, <1>4
<1>6. Leads(a[2], u, z)
  BY <1>3, <1>4, <1>5 DEF Leads, IsSequence
<1>7. Follows(x, steps[1], a[2])
  BY <1>1, <1>3
<1> QED BY <1>6, <1>7 DEF u

-----------------------------------------------------------------------------
(* Words and commands.                                                     *)

\* Two steps.
LEMMA TwoAre ==
    ASSUME NEW a, NEW b
    PROVE  <<a, b>> = <<a>> \o <<b>>
<1> DEFINE s == <<a>>
           t == <<b>>
           u == <<a, b>>
           S == {a, b}
<1>1. /\ s \in Seq(S) /\ t \in Seq(S) /\ u \in Seq(S)
      /\ Len(s) = 1 /\ Len(t) = 1 /\ Len(u) = 2 /\ s[1] = a /\ t[1] = b /\ u[1] = a /\ u[2] = b
  OBVIOUS
<1> HIDE DEF s, t, u, S
<1>2. /\ s \o t \in Seq(S) /\ Len(s \o t) = 2
      /\ \A i \in 1..2 : (s \o t)[i] = IF i <= 1 THEN s[i] ELSE t[i - 1]
  BY <1>1, ConcatProperties
<1>3. \A i \in 1..2 : (s \o t)[i] = u[i]
  BY <1>1, <1>2
<1>4. s \o t = u
  BY <1>1, <1>2, <1>3, SeqEqual
<1> QED BY <1>4 DEF s, t, u

\* Two steps, one after the other.
LEMMA LeadsTwo ==
    ASSUME NEW x, NEW a, NEW y, NEW b, NEW z, Follows(x, a, y), Follows(y, b, z)
    PROVE  Leads(x, <<a, b>>, z)
<1>1. Leads(x, <<a>> \o <<b>>, z)
  BY LeadsOne, LeadsJoin
<1> QED BY <1>1, TwoAre

\* An opcode for an idle bus.
LEMMA FollowsOpcode ==
    ASSUME NEW k, NEW n \in Nat, n < TxDepth, NEW K, NEW tk, NEW ask, NEW last, NEW in,
           NEW d, d # "tx", NEW w, w.op # "none"
    PROVE  Follows(View(k, NoWords(n), Bus("none", K, tk, ask, last), in, d, TRUE), Word(w),
                   View(k, Out(1, n + 1, w.op, "none"), Bus("none", K, tk, ask, last), in, d, TRUE))
<1> DEFINE q == View(k, NoWords(n), Bus("none", K, tk, ask, last), in, d, TRUE)
           s == Word(w)
<1>1. Permitted(q, s)
  BY HostAssumption DEF Permitted, View, NoWords, Out, Bus, Word, Opening
<1>2. Pushed(q.out, q.bus, w.op) = Out(1, n + 1, w.op, "none")
  BY DEF Pushed, View, NoWords, Out, Bus, Word
<1>3. After(q, s) = View(k, Out(1, n + 1, w.op, "none"), Bus("none", K, tk, ask, last), in, d, TRUE)
  BY <1>2 DEF After, View, Word
<1> QED BY <1>1, <1>3 DEF Follows

\* A word for the command in progress.
LEMMA FollowsWord ==
    ASSUME NEW k, NEW n \in Nat, n < TxDepth, NEW op, op # "none", NEW K, NEW tk, NEW ask, NEW last,
           NEW in, NEW d, d # "tx", NEW w, w.op # "none"
    PROVE  Follows(View(k, NoWords(n), Bus(op, K, tk, ask, last), in, d, TRUE), Word(w),
                   View(k, Out(1, n + 1, "none", "none"), Bus(op, K, tk, ask, last), in, d, TRUE))
<1> DEFINE q == View(k, NoWords(n), Bus(op, K, tk, ask, last), in, d, TRUE)
           s == Word(w)
<1>1. Permitted(q, s)
  BY HostAssumption DEF Permitted, View, NoWords, Out, Bus, Word, Opening
<1>2. Pushed(q.out, q.bus, w.op) = Out(1, n + 1, "none", "none")
  BY DEF Pushed, View, NoWords, Out, Bus, Word
<1>3. After(q, s) = View(k, Out(1, n + 1, "none", "none"), Bus(op, K, tk, ask, last), in, d, TRUE)
  BY <1>2 DEF After, View, Word
<1> QED BY <1>1, <1>3 DEF Follows

\* spi_wait_for_ready: the host takes a command again.
LEMMA FollowsReady ==
    ASSUME NEW k, NEW out, NEW bus, NEW in, NEW d, NEW rdy
    PROVE  Follows(View(k, out, bus, in, d, rdy), Step("ready"), View(k, out, bus, in, d, TRUE))
BY DEF Follows, Permitted, After, View, Step

\* spi_set_command with its wait, once its words are there.
LEMMA LeadsCommand ==
    ASSUME NEW x, NEW len, NEW csaat, NEW direction,
           LET cmd == [len |-> len, csaat |-> csaat, direction |-> direction]
           IN  CommandFits(x, cmd),
           NEW k, NEW out, NEW bus, NEW in, NEW d,
           AfterCommand(x, [len |-> len, csaat |-> csaat, direction |-> direction])
              = View(k, out, bus, in, d, FALSE)
    PROVE  Leads(x, Command(len, csaat, direction), View(k, out, bus, in, d, TRUE))
<1> DEFINE c == [do |-> "command", cmd |-> [len |-> len, csaat |-> csaat, direction |-> direction]]
<1>1. Follows(x, c, View(k, out, bus, in, d, FALSE))
  BY DEF Follows, Permitted, After
<1>2. Follows(View(k, out, bus, in, d, FALSE), Step("ready"), View(k, out, bus, in, d, TRUE))
  BY FollowsReady
<1> HIDE DEF c
<1>3. Leads(x, <<c, Step("ready")>>, View(k, out, bus, in, d, TRUE))
  BY <1>1, <1>2, LeadsTwo
<1> QED BY <1>3 DEF Command, c

\* The first word of a transaction of the flash goes out, and the transaction ends.
LEMMA LeadsSingle ==
    ASSUME NEW k, NEW n \in Nat, NEW op, NEW K, NEW tk, NEW ask, NEW last, NEW in,
           NEW d, d # "tx", NEW len \in Nat \ {0}, LenWords(len) = 1,
           k = "init" \/ Taken(op, K)
    PROVE  Leads(View(k, Out(1, n, op, "none"), Bus("none", K, tk, ask, last), in, d, TRUE),
                 Command(len, FALSE, "TX_ONLY"),
                 View(k, NoWords(n), Bus("none", Known(op, K, Taken(op, K)),
                                         Taken(op, K), "none", FALSE), in, d, TRUE))
<1> DEFINE x == View(k, Out(1, n, op, "none"), Bus("none", K, tk, ask, last), in, d, TRUE)
           cmd == [len |-> len, csaat |-> FALSE, direction |-> "TX_ONLY"]
<1>1. CommandFits(x, cmd)
  BY DEF CommandFits, View, Out, Bus, Opening
<1>2. AfterCommand(x, cmd) = Sent(x, 1, FALSE)
  BY DEF AfterCommand
<1>3. /\ x.kind = k /\ x.in = in /\ x.dma = d /\ x.bus.op = "none" /\ x.bus.K = K
      /\ x.out.t = 1 /\ x.out.b = n /\ x.out.second = "none" /\ x.out.first = op
  BY DEF View, Out, Bus
<1> HIDE DEF x
<1>4. Sent(x, 1, FALSE) = View(k, NoWords(n), Bus("none", Known(op, K, Taken(op, K)), Taken(op, K), "none", FALSE), in, d, FALSE)
  BY <1>3 DEF Sent, Held, NoWords, Opening
<1> USE DEF x
<1> QED BY <1>1, <1>2, <1>4, LeadsCommand

-----------------------------------------------------------------------------
(* The pieces of a transaction of the flash.                               *)

\* Views with no transaction of the flash in progress, and with one.
Free(k, n, K, tk, ask, last, in, d) ==
    View(k, NoWords(n), Bus("none", K, tk, ask, last), in, d, TRUE)
Busy(k, n, op, K, tk, in, d) == View(k, NoWords(n), Bus(op, K, tk, "none", FALSE), in, d, TRUE)

\* The answer need not be remembered.
LEMMA LeadsForget ==
    ASSUME NEW x, NEW s, NEW y, Leads(x, s, y), s # <<>>
    PROVE  Leads(x, s, Forget(y))
<1> DEFINE n == Len(s)
<1>1. PICK a : a[1] = x /\ a[n + 1] = y /\ \A i \in 1..n : Follows(a[i], s[i], a[i + 1])
  BY DEF Leads
<1>2. n \in Nat \ {0}
  BY EmptySeq DEF Leads, IsSequence
<1> HIDE DEF n
<1> DEFINE c == [i \in 1..n + 1 |-> IF i = n + 1 THEN Forget(y) ELSE a[i]]
<1>3. \A r : Forget(Forget(r)) = Forget(r)
  BY DEF Forget, View, Bus, In
<1>4. Follows(a[n], s[n], Forget(a[n + 1]))
  <2>1. Follows(a[n], s[n], a[n + 1])
    BY <1>1, <1>2
  <2> QED BY <1>3, <2>1 DEF Follows
<1>5. c[1] = x /\ c[n + 1] = Forget(y) /\ \A i \in 1..n : c[i] = a[i] /\ (i < n => c[i + 1] = a[i + 1])
  BY <1>1, <1>2
<1> HIDE DEF c
<1>6. \A i \in 1..n : Follows(c[i], s[i], c[i + 1])
  <2> TAKE i \in 1..n
  <2>1. CASE i = n
    BY <1>1, <1>4, <1>5, <2>1
  <2>2. CASE i < n
    BY <1>1, <1>5, <2>2
  <2> QED BY <1>2, <2>1, <2>2
<1> QED BY <1>2, <1>5, <1>6 DEF Leads, n

\* A word that opens a command.
LEMMA LeadsOpcode ==
    ASSUME NEW k, NEW n \in Nat, n < TxDepth, NEW K, NEW tk, NEW ask, NEW last, NEW in,
           NEW d, d # "tx", NEW w, w.op # "none"
    PROVE  Leads(Free(k, n, K, tk, ask, last, in, d), <<Word(w)>>,
                 View(k, Out(1, n + 1, w.op, "none"), Bus("none", K, tk, ask, last), in, d, TRUE))
BY FollowsOpcode, LeadsOne DEF Free

\* An opcode for an idle bus, with a wait for the host.
LEMMA LeadsOpcodeReady ==
    ASSUME NEW k, NEW n \in Nat, n < TxDepth, NEW K, NEW tk, NEW ask, NEW last, NEW in,
           NEW d, d # "tx", NEW w, w.op # "none"
    PROVE  Leads(Free(k, n, K, tk, ask, last, in, d), <<Word(w), Step("ready")>>,
                 View(k, Out(1, n + 1, w.op, "none"), Bus("none", K, tk, ask, last), in, d, TRUE))
<1> DEFINE y == View(k, Out(1, n + 1, w.op, "none"), Bus("none", K, tk, ask, last), in, d, TRUE)
<1>1. Follows(Free(k, n, K, tk, ask, last, in, d), Word(w), y)
  BY FollowsOpcode DEF Free
<1>2. Follows(y, Step("ready"), y)
  BY FollowsReady
<1> QED BY <1>1, <1>2, LeadsTwo

\* A word for the command in progress, from nothing queued.
LEMMA LeadsWord ==
    ASSUME NEW k, NEW n \in Nat, n < TxDepth, NEW op, op # "none", NEW K, NEW tk, NEW in,
           NEW d, d # "tx", NEW w, w.op # "none"
    PROVE  Leads(Busy(k, n, op, K, tk, in, d), <<Word(w)>>,
                 View(k, Out(1, n + 1, "none", "none"), Bus(op, K, tk, "none", FALSE), in, d, TRUE))
BY FollowsWord, LeadsOne DEF Busy

\* A command that opens a transaction of the flash.
LEMMA LeadsFirstCommand ==
    ASSUME NEW k, NEW n \in Nat, NEW op, NEW K, NEW tk, NEW ask, NEW last, NEW in,
           NEW d, d # "tx", NEW len \in Nat \ {0}, LenWords(len) = 1, NEW csaat \in BOOLEAN,
           k = "init" \/ Taken(op, K)
    PROVE  Leads(View(k, Out(1, n, op, "none"), Bus("none", K, tk, ask, last), in, d, TRUE),
                 Command(len, csaat, "TX_ONLY"),
                 View(k, NoWords(n), Held(csaat, op, K, Taken(op, K), "none", FALSE), in, d, TRUE))
<1> DEFINE x == View(k, Out(1, n, op, "none"), Bus("none", K, tk, ask, last), in, d, TRUE)
           cmd == [len |-> len, csaat |-> csaat, direction |-> "TX_ONLY"]
<1>1. CommandFits(x, cmd)
  BY DEF CommandFits, View, Out, Bus, Opening
<1>2. AfterCommand(x, cmd) = Sent(x, 1, csaat)
  BY DEF AfterCommand
<1>3. /\ x.kind = k /\ x.in = in /\ x.dma = d /\ x.bus.op = "none" /\ x.bus.K = K
      /\ x.out.t = 1 /\ x.out.b = n /\ x.out.second = "none" /\ x.out.first = op
  BY DEF View, Out, Bus
<1> HIDE DEF x
<1>4. Sent(x, 1, csaat)
        = View(k, NoWords(n), Held(csaat, op, K, Taken(op, K), "none", FALSE), in, d, FALSE)
  BY <1>3 DEF Sent, NoWords, Opening
<1> USE DEF x
<1> QED BY <1>1, <1>2, <1>4, LeadsCommand

\* A command that sends more of a transaction.
LEMMA LeadsNextCommand ==
    ASSUME NEW k, NEW n \in Nat, NEW op, op # "none", NEW K, NEW tk, NEW in,
           NEW d, d # "tx", NEW len \in Nat \ {0}, NEW t \in Nat, LenWords(len) = t,
           NEW csaat \in BOOLEAN
    PROVE  Leads(View(k, Out(t, n, "none", "none"), Bus(op, K, tk, "none", FALSE), in, d, TRUE),
                 Command(len, csaat, "TX_ONLY"),
                 View(k, NoWords(n), Held(csaat, op, K, tk, "none", FALSE), in, d, TRUE))
<1> DEFINE x == View(k, Out(t, n, "none", "none"), Bus(op, K, tk, "none", FALSE), in, d, TRUE)
           cmd == [len |-> len, csaat |-> csaat, direction |-> "TX_ONLY"]
<1>1. CommandFits(x, cmd)
  BY DEF CommandFits, View, Out, Bus, Opening
<1>2. AfterCommand(x, cmd) = Sent(x, t, csaat)
  BY DEF AfterCommand
<1>3. /\ x.kind = k /\ x.in = in /\ x.dma = d /\ x.bus.op = op /\ x.bus.K = K /\ x.bus.tk = tk
      /\ x.out.t = t /\ x.out.b = n /\ x.out.second = "none" /\ x.out.first = "none"
  BY DEF View, Out, Bus
<1> HIDE DEF x
<1>4. Sent(x, t, csaat)
        = View(k, NoWords(n), Held(csaat, op, K, tk, "none", FALSE), in, d, FALSE)
  BY <1>3 DEF Sent, NoWords, Opening
<1> USE DEF x
<1> QED BY <1>1, <1>2, <1>4, LeadsCommand

\* Dummy cycles in a transaction.
LEMMA LeadsDummy ==
    ASSUME NEW k, NEW n \in Nat, NEW op, op # "none", NEW K, NEW tk, NEW in,
           NEW d, d # "tx", NEW len \in Nat \ {0}
    PROVE  Leads(Busy(k, n, op, K, tk, in, d), Command(len, TRUE, "DUMMY"),
                 Busy(k, n, op, K, tk, in, d))
<1> DEFINE x == Busy(k, n, op, K, tk, in, d)
           cmd == [len |-> len, csaat |-> TRUE, direction |-> "DUMMY"]
<1>1. CommandFits(x, cmd)
  BY DEF CommandFits, Busy, View, Bus, Opening
<1>2. AfterCommand(x, cmd) = View(k, NoWords(n), Bus(op, K, tk, "none", FALSE), in, d, FALSE)
  BY DEF AfterCommand, Busy, View, Bus
<1> QED BY <1>1, <1>2, LeadsCommand DEF Busy

\* A command that receives, the last of its transaction.
LEMMA LeadsReceive ==
    ASSUME NEW k, NEW n \in Nat, NEW op, op # "none", NEW K, NEW tk, NEW e, NEW wm, NEW have,
           NEW d, d # "tx", NEW len \in Nat \ {0}, NEW f, e + LenWords(len) = f
    PROVE  Leads(Busy(k, n, op, K, tk, In(e, wm, have), d), Command(len, FALSE, "RX_ONLY"),
                 Free(k, n, Known(op, K, tk), tk, op, TRUE, In(f, wm, have), d))
<1> DEFINE x == Busy(k, n, op, K, tk, In(e, wm, have), d)
           cmd == [len |-> len, csaat |-> FALSE, direction |-> "RX_ONLY"]
<1>1. CommandFits(x, cmd)
  BY DEF CommandFits, Busy, View, Bus, Opening, NoWords, Out
<1>2. AfterCommand(x, cmd) = Received(x, LenWords(len), FALSE)
  BY DEF AfterCommand
<1>3. /\ x.kind = k /\ x.dma = d /\ x.bus.op = op /\ x.bus.K = K /\ x.bus.tk = tk
      /\ x.in.e = e /\ x.in.wm = wm /\ x.in.have = have /\ x.out = NoWords(n)
  BY DEF Busy, View, Bus, In
<1> HIDE DEF x
<1>4. Received(x, LenWords(len), FALSE)
        = View(k, NoWords(n), Bus("none", Known(op, K, tk), tk, op, TRUE), In(f, wm, have), d, FALSE)
  BY <1>3 DEF Received, Held
<1> USE DEF x
<1> QED BY <1>1, <1>2, <1>4, LeadsCommand DEF Free

\* spi_set_rx_watermark.
LEMMA LeadsWatermark ==
    ASSUME NEW k, NEW out, NEW bus, NEW e, NEW wm, NEW have, NEW d, NEW rdy, NEW n \in Nat
    PROVE  Leads(View(k, out, bus, In(e, wm, have), d, rdy), <<Watermark(n)>>,
                 View(k, out, bus, In(e, n, have), d, rdy))
<1> DEFINE q == View(k, out, bus, In(e, wm, have), d, rdy)
           s == Watermark(n)
<1>1. Permitted(q, s)
  BY DEF Permitted, Watermark
<1>2. After(q, s) = View(k, out, bus, In(e, n, have), d, rdy)
  BY DEF After, View, In, Watermark
<1> HIDE DEF q, s
<1>3. Follows(q, s, View(k, out, bus, In(e, n, have), d, rdy))
  BY <1>1, <1>2 DEF Follows
<1> QED BY <1>3, LeadsOne DEF q, s

\* The wait for the RX watermark: with no more expected than the watermark,
\* every command is over.
LEMMA FollowsRxwm ==
    ASSUME NEW k, NEW n \in Nat, NEW K, NEW tk, NEW ask, NEW e \in Nat, NEW wm \in Nat, NEW have
    PROVE  /\ e <= wm => Follows(Free(k, n, K, tk, ask, TRUE, In(e, wm, have), "none"), Step("rxwm"),
                                 Free(k, 0, K, tk, ask, TRUE, In(e, wm, wm), "none"))
           /\ e > wm => Follows(Free(k, n, K, tk, ask, TRUE, In(e, wm, have), "none"), Step("rxwm"),
                                Free(k, n, K, tk, ask, TRUE, In(e, wm, wm), "none"))
<1> DEFINE q == Free(k, n, K, tk, ask, TRUE, In(e, wm, have), "none")
           s == Step("rxwm")
<1>1. Permitted(q, s)
  BY DEF Permitted, Step, Free, View
<1>2. /\ q.kind = k /\ q.out = NoWords(n) /\ q.out.t = 0 /\ q.bus = Bus("none", K, tk, ask, TRUE)
      /\ q.in.e = e /\ q.in.wm = wm /\ q.dma = "none" /\ q.rdy = TRUE
      /\ q.out.first = "none" /\ q.out.second = "none"
  BY DEF Free, View, NoWords, Out, Bus, In
<1>3. q.bus.last
  BY DEF Free, View, Bus
<1>4. s.do = "rxwm"
  BY DEF Step
<1> HIDE DEF q, s
<1>5. e <= wm => After(q, s) = Free(k, 0, K, tk, ask, TRUE, In(e, wm, wm), "none")
  BY <1>2, <1>3, <1>4 DEF After, Free, Bounded, NoWords
<1>6. e > wm => After(q, s) = Free(k, n, K, tk, ask, TRUE, In(e, wm, wm), "none")
  <2>1. ASSUME e > wm PROVE ~(q.in.e <= q.in.wm)
    BY <1>2, <2>1
  <2>2. ASSUME ~(q.in.e <= q.in.wm)
        PROVE  After(q, s) = View(q.kind, q.out, q.bus, In(q.in.e, q.in.wm, q.in.wm), q.dma, q.rdy)
    BY <1>4, <2>2 DEF After
  <2> QED BY <1>2, <2>1, <2>2 DEF Free
<1> QED BY <1>1, <1>5, <1>6 DEF Follows, q, s

-----------------------------------------------------------------------------
(* What the flash takes, and what a status read tells.                     *)

\* One byte and four bytes are one word.
LEMMA OneWord == LenWords(1) = 1 /\ LenWords(4) = 1
BY DEF LenWords

\* Which commands a flash in a known state takes.
LEMMA TakenIs ==
    ASSUME NEW K, NEW op
    PROVE  /\ op = "RPD" => Taken(op, K) = TRUE
           /\ op \in {"RSR1", "RSR2", "ERESET", "RESET"} /\ "up" \in K => Taken(op, K) = TRUE
           /\ op \in {"WE", "RD", "PD", "RDQIO"} /\ Awake \subseteq K => Taken(op, K) = TRUE
           /\ op \in Mutating /\ Awake \cup {"wel"} \subseteq K => Taken(op, K) = TRUE
           /\ op \in {"WE", "WSR2"} /\ "idle" \notin K => Taken(op, K) = FALSE
<1>1. \A f : f \in Needs(op) <=> \/ f = "up" /\ op # "RPD"
                                 \/ f = "idle" /\ op \notin {"RSR1", "RSR2", "ERESET", "RESET", "RPD"}
                                 \/ f = "wel" /\ op \in Mutating \cup {"WSR2"}
                                 \/ f = "qe" /\ op \in {"RDQIO", "PPQ"}
  BY DEF Needs, Facts
<1>2. op = "RPD" => Needs(op) \subseteq K
  BY <1>1 DEF Mutating
<1>3. op \in {"RSR1", "RSR2", "ERESET", "RESET"} /\ "up" \in K => Needs(op) \subseteq K
  BY <1>1 DEF Mutating
<1>4. op \in {"WE", "RD", "PD", "RDQIO"} /\ Awake \subseteq K => Needs(op) \subseteq K
  BY <1>1 DEF Mutating, Awake
<1>5. op \in Mutating /\ Awake \cup {"wel"} \subseteq K => Needs(op) \subseteq K
  BY <1>1 DEF Mutating, Awake
<1>6. op \in {"WE", "WSR2"} /\ "idle" \notin K => ~(Needs(op) \subseteq K)
  BY <1>1
<1> QED BY <1>2, <1>3, <1>4, <1>5, <1>6 DEF Taken

\* What is known of the flash after a command.
LEMMA KnownIs ==
    ASSUME NEW K, NEW tk \in BOOLEAN, NEW op
    PROVE  /\ op \in {"RSR1", "RSR2", "ERESET", "RD", "RDQIO"} => Known(op, K, tk) = K
           /\ op = "WE" /\ tk => Known(op, K, tk) = K \cup {"wel"}
           /\ op = "WE" /\ ~tk => Known(op, K, tk) = K
           /\ op = "RPD" /\ tk => Known(op, K, tk) = K \cup {"up"}
           /\ op \in Mutating \cup {"RESET"} => Known(op, K, tk) = K \ {"idle", "wel"}
           /\ op = "WSR2" => Known(op, K, tk) = K \ {"idle", "wel", "qe"}
           /\ op = "PD" => Known(op, K, tk) = K \ {"up"}
<1>1. /\ op \in {"RSR1", "RSR2", "ERESET", "RD", "RDQIO"} => Ends(op) = {} /\ Gives(op) = {}
      /\ op = "WE" => Ends(op) = {} /\ Gives(op) = {"wel"}
      /\ op = "RPD" => Ends(op) = {} /\ Gives(op) = {"up"}
      /\ op \in Mutating \cup {"RESET"} => Ends(op) = {"idle", "wel"} /\ Gives(op) = {}
      /\ op = "WSR2" => Ends(op) = {"idle", "wel", "qe"} /\ Gives(op) = {}
      /\ op = "PD" => Ends(op) = {"up"} /\ Gives(op) = {}
  BY DEF Ends, Gives, Mutating
<1>2. tk => Known(op, K, tk) = (K \ Ends(op)) \cup Gives(op)
  BY DEF Known
<1>3. ~tk => Known(op, K, tk) = K \ Ends(op)
  BY DEF Known
<1> QED BY <1>1, <1>2, <1>3

\* The answer to a status read is in the RX FIFO.
LEMMA PolledIs ==
    ASSUME NEW k, NEW K, NEW op
    PROVE  Polled(k, K, op) = Free(k, 0, K, TRUE, op, TRUE, In(1, 1, 1), "none")
BY DEF Polled, Free

\* What a status read is left with, and what is remembered of it.
Answered(k, K, op) == Free(k, 0, K, TRUE, op, TRUE, In(0, 1, 0), "none")

\* Forgetting touches the answer only.
LEMMA ForgetFree ==
    ASSUME NEW k, NEW n, NEW K, NEW tk, NEW ask, NEW last, NEW e, NEW wm, NEW have, NEW d
    PROVE  Forget(Free(k, n, K, tk, ask, last, In(e, wm, have), d))
             = Free(k, n, K, tk, "none", last, In(e, 0, have), d)
BY DEF Forget, Free, View, Bus, In

\* The reads of a status register, and what each tells.
LEMMA FollowsStatus ==
    ASSUME NEW k, NEW K
    PROVE  /\ "up" \in K => /\ Permitted(Polled(k, K, "RSR1"), Step("status"))
                            /\ After(Polled(k, K, "RSR1"), Step("status"))
                                 = Answered(k, K \cup {"idle"}, "RSR1")
           /\ Permitted(Polled(k, K, "RSR2"), Step("status2"))
           /\ After(Polled(k, K, "RSR2"), Step("status2")) = Answered(k, K, "RSR2")
           /\ Permitted(Polled("init", K, "RSR2"), Step("qe"))
           /\ After(Polled("init", K, "RSR2"), Step("qe")) = Answered("plain", K \cup {"qe"}, "RSR2")
<1> DEFINE q == Polled(k, K, "RSR1")
           r == Polled(k, K, "RSR2")
<1>1. "up" \in K => Permitted(q, Step("status"))
  BY DEF Permitted, Step
<1>2. Permitted(r, Step("status2"))
  BY DEF Permitted, Step
<1>3. Permitted(Polled("init", K, "RSR2"), Step("qe"))
  BY DEF Permitted, Step
<1>4. q.kind = k /\ q.out = NoWords(0) /\ q.bus.K = K
  BY DEF Polled, View, Bus
<1>5. r.kind = k /\ r.out = NoWords(0) /\ r.bus = Bus("none", K, TRUE, "RSR2", TRUE) /\ r.bus.K = K
  BY DEF Polled, View, Bus
<1>6. Step("status").do = "status" /\ Step("status2").do = "status2" /\ Step("qe").do = "qe"
  BY DEF Step
<1>7. Polled("init", K, "RSR2").out = NoWords(0) /\ Polled("init", K, "RSR2").bus.K = K
  BY DEF Polled, View, Bus
<1> HIDE DEF q, r
<1>8. After(q, Step("status")) = Answered(k, K \cup {"idle"}, "RSR1")
  BY <1>4, <1>6 DEF After, Answered, Free
<1>9. After(r, Step("status2")) = Answered(k, K, "RSR2")
  BY <1>5, <1>6 DEF After, Answered, Free
<1>10. After(Polled("init", K, "RSR2"), Step("qe")) = Answered("plain", K \cup {"qe"}, "RSR2")
  BY <1>6, <1>7 DEF After, Answered, Free
<1> QED BY <1>1, <1>2, <1>3, <1>8, <1>9, <1>10 DEF q, r

\* The read of a status register, up to its answer.
LEMMA LeadsAsk ==
    ASSUME NEW k, NEW n \in Nat, n < TxDepth, NEW K, "up" \in K, NEW tk, NEW ask, NEW last,
           NEW have, NEW op \in {"RSR1", "RSR2"}, NEW s, NEW z, Follows(Polled(k, K, op), s, z)
    PROVE  Leads(Free(k, n, K, tk, ask, last, In(0, 1, have), "none"),
                 <<Word(Op(op, 0))>> \o Command(1, TRUE, "TX_ONLY") \o Command(1, FALSE, "RX_ONLY")
                    \o <<Step("rxwm"), s>>, z)
<1> DEFINE in == In(0, 1, have)
           x0 == Free(k, n, K, tk, ask, last, in, "none")
           x1 == View(k, Out(1, n + 1, op, "none"), Bus("none", K, tk, ask, last), in, "none", TRUE)
           x2 == Busy(k, n + 1, op, K, TRUE, in, "none")
           x3 == Free(k, n + 1, K, TRUE, op, TRUE, In(1, 1, have), "none")
<1>1. Op(op, 0).op = op /\ op # "none"
  BY DEF Op
<1>2. Leads(x0, <<Word(Op(op, 0))>>, x1)
  BY <1>1, LeadsOpcode
<1>3. Taken(op, K) = TRUE
  BY TakenIs
<1>4. View(k, NoWords(n + 1), Held(TRUE, op, K, Taken(op, K), "none", FALSE), in, "none", TRUE) = x2
  BY <1>3 DEF Held, Busy
<1>a. 1 \in Nat \ {0} /\ TRUE \in BOOLEAN /\ n + 1 \in Nat /\ "none" # "tx" /\ op # "none"
  OBVIOUS
<1>5. Leads(x1, Command(1, TRUE, "TX_ONLY"), x2)
  <2>1. LenWords(1) = 1 /\ Taken(op, K)
    BY OneWord, <1>3
  <2> HIDE DEF in
  <2>2. Leads(x1, Command(1, TRUE, "TX_ONLY"),
              View(k, NoWords(n + 1), Held(TRUE, op, K, Taken(op, K), "none", FALSE), in, "none", TRUE))
    BY <1>a, <2>1, LeadsFirstCommand
  <2> QED BY <2>2, <1>4
<1>6. Known(op, K, TRUE) = K
  BY KnownIs
<1>7. Leads(x2, Command(1, FALSE, "RX_ONLY"), x3)
  <2>1. 0 + LenWords(1) = 1
    BY OneWord
  <2>2. Leads(x2, Command(1, FALSE, "RX_ONLY"),
              Free(k, n + 1, Known(op, K, TRUE), TRUE, op, TRUE, In(1, 1, have), "none"))
    BY <1>a, <2>1, LeadsReceive
  <2> QED BY <2>2, <1>6
<1>8. Follows(x3, Step("rxwm"), Polled(k, K, op))
  <2>1. 1 \in Nat /\ 1 <= 1
    OBVIOUS
  <2>2. Follows(x3, Step("rxwm"), Free(k, 0, K, TRUE, op, TRUE, In(1, 1, 1), "none"))
    BY <1>a, <2>1, FollowsRxwm
  <2> QED BY <2>2, PolledIs
<1>9. Leads(x3, <<Step("rxwm"), s>>, z)
  BY <1>8, LeadsTwo
<1> HIDE DEF x0, x1, x2, x3
<1>10. Leads(x0, <<Word(Op(op, 0))>> \o Command(1, TRUE, "TX_ONLY"), x2)
  BY <1>2, <1>5, LeadsJoin
<1>11. Leads(x0, <<Word(Op(op, 0))>> \o Command(1, TRUE, "TX_ONLY") \o Command(1, FALSE, "RX_ONLY"), x3)
  BY <1>7, <1>10, LeadsJoin
<1>12. Leads(x0, <<Word(Op(op, 0))>> \o Command(1, TRUE, "TX_ONLY") \o Command(1, FALSE, "RX_ONLY")
                    \o <<Step("rxwm"), s>>, z)
  BY <1>9, <1>11, LeadsJoin
<1> QED BY <1>12 DEF x0

-----------------------------------------------------------------------------
(* Waiting for the flash, and instructions of one opcode.                  *)

\* One round of flash_wait.
LEMMA LeadsPoll ==
    ASSUME NEW k, NEW n \in Nat, n < TxDepth, NEW K, "up" \in K, NEW tk, NEW ask, NEW last, NEW have
    PROVE  Leads(Free(k, n, K, tk, ask, last, In(0, 1, have), "none"), Poll,
                 Answered(k, K \cup {"idle"}, "RSR1"))
<1>1. Follows(Polled(k, K, "RSR1"), Step("status"), Answered(k, K \cup {"idle"}, "RSR1"))
  BY FollowsStatus DEF Follows
<1>2. "RSR1" \in {"RSR1", "RSR2"}
  OBVIOUS
<1> QED BY <1>1, <1>2, LeadsAsk DEF Poll

\* A view in which nothing is under way on any side.
Clean(k, n, K, last) == Free(k, n, K, TRUE, "none", last, In(0, 0, 0), "none")

\* Poll is a sequence of steps.
LEMMA PollNotEmpty == Poll # <<>> /\ IsSequence(Poll)
<1> DEFINE a == <<Word(Op("RSR1", 0))>> \o Command(1, TRUE, "TX_ONLY") \o Command(1, FALSE, "RX_ONLY")
           b == <<Step("rxwm"), Step("status")>>
           S == {Word(Op("RSR1", 0)), Step("ready"), Step("rxwm"), Step("status"),
                 Command(1, TRUE, "TX_ONLY")[1], Command(1, FALSE, "RX_ONLY")[1]}
<1>1. a \in Seq(S) /\ b \in Seq(S) /\ Len(b) = 2
  BY DEF Command
<1> HIDE DEF a, b, S
<1>2. IsSequence(a \o b) /\ Len(a \o b) = Len(a) + 2 /\ Len(a) \in Nat
  BY <1>1, SequenceIs, ZenonT(30) DEF IsSequence
<1>3. a \o b # <<>>
  BY <1>2, EmptySeq
<1> QED BY <1>2, <1>3 DEF Poll, a, b

\* flash_wait ends with the flash idle.
LEMMA LeadsWait ==
    ASSUME NEW k, NEW n \in Nat, n < TxDepth, NEW K, "up" \in K, NEW tk, NEW ask, NEW last,
           NEW wm, NEW have
    PROVE  Leads(Free(k, n, K, tk, ask, last, In(0, wm, have), "none"), flash_wait,
                 Clean(k, 0, K \cup {"idle"}, TRUE))
<1> DEFINE x0 == Free(k, n, K, tk, ask, last, In(0, wm, have), "none")
           x1 == Free(k, n, K, tk, ask, last, In(0, 1, have), "none")
           x2 == Answered(k, K \cup {"idle"}, "RSR1")
<1>1. Leads(x0, <<Watermark(1)>>, x1)
  BY LeadsWatermark DEF Free
<1>2. Leads(x1, Poll, x2)
  BY LeadsPoll
<1>3. Forget(x2) = Clean(k, 0, K \cup {"idle"}, TRUE)
  <2> DEFINE K2 == K \cup {"idle"}
  <2> HIDE DEF K2
  <2>1. Forget(Free(k, 0, K2, TRUE, "RSR1", TRUE, In(0, 1, 0), "none")) = Clean(k, 0, K2, TRUE)
    BY DEF Clean, Forget, Free, View, Bus, In
  <2> QED BY <2>1 DEF Answered, K2
<1>4. Leads(x1, Poll, Forget(x2))
  BY <1>2, PollNotEmpty, LeadsForget
<1> HIDE DEF x0, x1, x2
<1> QED BY <1>1, <1>3, <1>4, LeadsJoin DEF flash_wait, x0

\* An instruction of one opcode, with or without its address.
LEMMA LeadsSimple ==
    ASSUME NEW w, NEW s, NEW k, NEW n \in Nat, n < TxDepth, NEW m, m = n + 1,
           NEW K, NEW tk, NEW ask, NEW last, NEW in,
           Leads(w, s, Free(k, n, K, tk, ask, last, in, "none")),
           NEW op, op # "none", NEW addr, NEW len \in Nat \ {0}, LenWords(len) = 1, k = "init" \/ Taken(op, K),
           NEW tk2, tk2 = Taken(op, K), NEW K2, K2 = Known(op, K, tk2)
    PROVE  /\ Leads(w, s \o <<Word(Op(op, addr))>> \o Command(len, FALSE, "TX_ONLY"),
                    Free(k, m, K2, tk2, "none", FALSE, in, "none"))
           /\ Leads(w, s \o <<Word(Op(op, addr)), Step("ready")>> \o Command(len, FALSE, "TX_ONLY"),
                    Free(k, m, K2, tk2, "none", FALSE, in, "none"))
           /\ Leads(Free(k, n, K, tk, ask, last, in, "none"),
                    <<Word(Op(op, addr))>> \o Command(len, FALSE, "TX_ONLY"),
                    Free(k, m, K2, tk2, "none", FALSE, in, "none"))
           /\ Leads(Free(k, n, K, tk, ask, last, in, "none"),
                    <<Word(Op(op, addr)), Step("ready")>> \o Command(len, FALSE, "TX_ONLY"),
                    Free(k, m, K2, tk2, "none", FALSE, in, "none"))
<1> DEFINE x0 == Free(k, n, K, tk, ask, last, in, "none")
           x1 == View(k, Out(1, m, op, "none"), Bus("none", K, tk, ask, last), in, "none", TRUE)
           x2 == Free(k, m, K2, tk2, "none", FALSE, in, "none")
<1>1. Op(op, addr).op = op /\ "none" # "tx" /\ m \in Nat
  BY DEF Op
<1>2. Leads(x0, <<Word(Op(op, addr))>>, x1)
  BY <1>1, LeadsOpcode
<1>3. Leads(x0, <<Word(Op(op, addr)), Step("ready")>>, x1)
  BY <1>1, LeadsOpcodeReady
<1>4. Leads(x1, Command(len, FALSE, "TX_ONLY"), x2)
  BY <1>1, LeadsSingle DEF Free
<1>5. Leads(w, s, x0)
  OBVIOUS
<1> HIDE DEF x0, x1, x2
<1>6. Leads(w, s \o <<Word(Op(op, addr))>>, x1)
  BY <1>2, <1>5, LeadsJoin
<1>7. Leads(w, s \o <<Word(Op(op, addr)), Step("ready")>>, x1)
  BY <1>3, <1>5, LeadsJoin
<1> DEFINE c == Command(len, FALSE, "TX_ONLY")
           v == <<Word(Op(op, addr))>>
           r == <<Word(Op(op, addr)), Step("ready")>>
<1>8. Leads(x1, c, x2)
  BY <1>4
<1>9. Leads(w, s \o v, x1) /\ Leads(w, s \o r, x1) /\ Leads(x0, v, x1) /\ Leads(x0, r, x1)
  BY <1>2, <1>3, <1>6, <1>7
<1> HIDE DEF c, v, r
<1>10. Leads(w, s \o v \o c, x2) /\ Leads(w, s \o r \o c, x2)
  BY <1>8, <1>9, LeadsJoin
<1>11. Leads(x0, v \o c, x2) /\ Leads(x0, r \o c, x2)
  BY <1>8, <1>9, LeadsJoin
<1> QED BY <1>10, <1>11 DEF x0, x2, c, v, r

\* flash_write_enable, for an idle flash.
LEMMA LeadsEnable ==
    ASSUME NEW k, NEW n \in Nat, n < TxDepth, NEW m, m = n + 1, NEW K, Awake \subseteq K,
           NEW tk, NEW ask, NEW last, NEW in
    PROVE  Leads(Free(k, n, K, tk, ask, last, in, "none"), flash_write_enable,
                 Free(k, m, K \cup {"wel"}, TRUE, "none", FALSE, in, "none"))
<1>1. Taken("WE", K) = TRUE
  BY TakenIs
<1>2. Known("WE", K, TRUE) = K \cup {"wel"}
  BY KnownIs
<1>3. LenWords(1) = 1 /\ 1 \in Nat \ {0} /\ "WE" # "none"
  BY OneWord
<1> DEFINE x == Free(k, n, K, tk, ask, last, in, "none")
<1>4. Leads(x, <<>>, x)
  BY LeadsNowhere
<1> QED BY <1>1, <1>2, <1>3, <1>4, LeadsSimple DEF flash_write_enable

\* w25q128jw_power_down, from the rest of an idle flash.
LEMMA LeadsPowerDown ==
    ASSUME NEW n \in Nat, n < TxDepth, NEW m, m = n + 1, NEW tk, NEW ask, NEW last, NEW in
    PROVE  Leads(Free("off", n, Awake, tk, ask, last, in, "none"), w25q128jw_power_down,
                 Free("off", m, Awake \ {"up"}, TRUE, "none", FALSE, in, "none"))
<1>1. Taken("PD", Awake) = TRUE
  BY TakenIs
<1>2. Known("PD", Awake, TRUE) = Awake \ {"up"}
  BY KnownIs
<1>3. LenWords(1) = 1 /\ 1 \in Nat \ {0} /\ "PD" # "none"
  BY OneWord
<1> DEFINE x == Free("off", n, Awake, tk, ask, last, in, "none")
<1>4. Leads(x, <<>>, x)
  BY LeadsNowhere
<1> QED BY <1>1, <1>2, <1>3, <1>4, LeadsSimple DEF w25q128jw_power_down

-----------------------------------------------------------------------------
(* Erasing.                                                                *)

\* The TX FIFO has room for the words of a short instruction.
LEMMA RoomIs ==
    0 < TxDepth /\ 1 < TxDepth /\ 2 < TxDepth /\ 3 < TxDepth
BY HostAssumption, GeometryAssumption, SizesAssumption

\* At rest nothing is under way.
LEMMA RestIs == \A k : Rest(k) = Clean(k, 0, Awake, TRUE)
BY DEF Rest, Clean, Free

\* At rest the DMA has nothing to do.
LEMMA RestIsQuiet == Down.dma = "none" /\ \A k : Rest(k).dma = "none"
BY DEF Rest, Down, View

\* flash_wait, with its last answer remembered.
LEMMA LeadsWaitAnswered ==
    ASSUME NEW k, NEW n \in Nat, n < TxDepth, NEW K, "up" \in K, NEW tk, NEW ask, NEW last,
           NEW wm, NEW have
    PROVE  Leads(Free(k, n, K, tk, ask, last, In(0, wm, have), "none"), flash_wait,
                 Answered(k, K \cup {"idle"}, "RSR1"))
<1> DEFINE x0 == Free(k, n, K, tk, ask, last, In(0, wm, have), "none")
           x1 == Free(k, n, K, tk, ask, last, In(0, 1, have), "none")
           x2 == Answered(k, K \cup {"idle"}, "RSR1")
<1>1. Leads(x0, <<Watermark(1)>>, x1)
  BY LeadsWatermark DEF Free
<1>2. Leads(x1, Poll, x2)
  BY LeadsPoll
<1> HIDE DEF x0, x1, x2
<1> QED BY <1>1, <1>2, LeadsJoin DEF flash_wait, x0, x2

\* An erase: WE, the erase command, and the wait for its end.
LEMMA LeadsErase ==
    ASSUME NEW k, NEW op \in {"SE", "BE32", "BE64", "CE"}, NEW addr,
           NEW len \in Nat \ {0}, LenWords(len) = 1
    PROVE  Leads(Rest(k), EraseCommand(op, addr, len), Rest(k))
<1> DEFINE K1 == Awake \cup {"wel"}
           K2 == {"up", "qe"}
           x1 == Rest(k)
           x2 == Free(k, 1, K1, TRUE, "none", FALSE, In(0, 0, 0), "none")
           x3 == Free(k, 2, K2, TRUE, "none", FALSE, In(0, 0, 0), "none")
           s1 == flash_wait
           s2 == flash_write_enable
           s3 == <<Word(Op(op, addr)), Step("ready")>>
           s4 == Command(len, FALSE, "TX_ONLY")
<1>1. "up" \in Awake /\ Awake \cup {"idle"} = Awake /\ K2 \cup {"idle"} = Awake /\ "up" \in K2
  BY DEF Awake
<1>2. Leads(Rest(k), s1, x1)
  <2>1. Leads(Free(k, 0, Awake, TRUE, "none", TRUE, In(0, 0, 0), "none"), s1, Clean(k, 0, Awake \cup {"idle"}, TRUE))
    BY <1>1, RoomIs, LeadsWait
  <2> QED BY <2>1, <1>1, RestIs DEF Clean
<1>3. Leads(x1, s2, x2)
  <2>1. Leads(Free(k, 0, Awake, TRUE, "none", TRUE, In(0, 0, 0), "none"), s2,
              Free(k, 1, Awake \cup {"wel"}, TRUE, "none", FALSE, In(0, 0, 0), "none"))
    <3>1. 0 \in Nat /\ 0 < TxDepth /\ 1 = 0 + 1 /\ Awake \subseteq Awake
      BY RoomIs
    <3> QED BY <3>1, LeadsEnable
  <2> QED BY <2>1, RestIs DEF Clean
<1>4. Leads(Rest(k), s1 \o s2, x2)
  <2> HIDE DEF x1, x2, s1, s2
  <2> QED BY <1>2, <1>3, LeadsJoin
<1>5. Leads(Rest(k), s1 \o s2 \o s3 \o s4, x3)
  <2>1. Taken(op, K1) = TRUE
    BY TakenIs DEF Mutating
  <2>2. Known(op, K1, TRUE) = K2
    <3>1. Known(op, K1, TRUE) = K1 \ {"idle", "wel"}
      BY KnownIs DEF Mutating
    <3> QED BY <3>1 DEF Awake
  <2>3. 1 \in Nat /\ 1 < TxDepth /\ 2 = 1 + 1 /\ op # "none"
    BY RoomIs
  <2>4. Leads(Rest(k), s1 \o s2, Free(k, 1, K1, TRUE, "none", FALSE, In(0, 0, 0), "none"))
    BY <1>4
  <2> HIDE DEF K1, K2, s1, s2
  <2>5. ASSUME NEW o, o # "none", Taken(o, K1) = TRUE, Known(o, K1, TRUE) = K2
        PROVE  Leads(Rest(k), s1 \o s2 \o <<Word(Op(o, addr)), Step("ready")>> \o s4, x3)
    BY <2>4, <2>3, <2>5, LeadsSimple, ZenonT(30)
  <2> QED BY <2>1, <2>2, <2>3, <2>5
<1>6. Leads(x3, s1, Rest(k))
  <2>1. Leads(x3, s1, Clean(k, 0, K2 \cup {"idle"}, TRUE))
    BY <1>1, RoomIs, LeadsWait
  <2> QED BY <2>1, <1>1, RestIs
<1>7. Leads(Rest(k), s1 \o s2 \o s3 \o s4 \o s1, Rest(k))
  <2> HIDE DEF x3, s1, s2, s3, s4
  <2> QED BY <1>5, <1>6, LeadsJoin
<1>8. EraseCommand(op, addr, len) = s1 \o s2 \o s3 \o s4 \o s1
  BY DEF EraseCommand
<1> QED BY <1>7, <1>8

-----------------------------------------------------------------------------
(* Resets of the flash.                                                    *)

\* Three steps.
LEMMA ThreeAre ==
    ASSUME NEW a, NEW b, NEW c
    PROVE  <<a, b>> \o <<c>> = <<a, b, c>>
<1> DEFINE s == <<a, b>>
           t == <<c>>
           u == <<a, b, c>>
           S == {a, b, c}
<1>1. /\ s \in Seq(S) /\ t \in Seq(S) /\ u \in Seq(S)
      /\ Len(s) = 2 /\ Len(t) = 1 /\ Len(u) = 3
      /\ s[1] = a /\ s[2] = b /\ t[1] = c /\ u[1] = a /\ u[2] = b /\ u[3] = c
  OBVIOUS
<1> HIDE DEF s, t, u, S
<1>a. Len(s) + Len(t) = 3
  BY <1>1
<1>2. /\ s \o t \in Seq(S) /\ Len(s \o t) = 3
      /\ \A i \in 1..3 : (s \o t)[i] = IF i <= 2 THEN s[i] ELSE t[i - 2]
  <2>1. /\ s \o t \in Seq(S) /\ Len(s \o t) = Len(s) + Len(t)
        /\ \A i \in 1..Len(s) + Len(t) : (s \o t)[i] = IF i <= Len(s) THEN s[i] ELSE t[i - Len(s)]
    BY <1>1, ConcatProperties
  <2> QED BY <2>1, <1>1, <1>a
<1>3. \A i \in 1..3 : (s \o t)[i] = u[i]
  BY <1>1, <1>2
<1>4. s \o t = u
  BY <1>1, <1>2, <1>3, SeqEqual
<1> QED BY <1>4 DEF s, t, u

\* An instruction goes to the TX FIFO of an idle bus.
LEMMA FollowsOpcodeOf ==
    ASSUME NEW k, NEW n \in Nat, n < TxDepth, NEW m, m = n + 1, NEW K, NEW tk, NEW ask, NEW last, NEW in,
           NEW d, d # "tx", NEW op, op # "none", NEW addr
    PROVE  Follows(View(k, NoWords(n), Bus("none", K, tk, ask, last), in, d, TRUE), Word(Op(op, addr)),
                   View(k, Out(1, m, op, "none"), Bus("none", K, tk, ask, last), in, d, TRUE))
<1>1. Op(op, addr).op = op
  BY DEF Op
<1> QED BY <1>1, FollowsOpcode

\* Two opcodes in the FIFO, each sent by a command of its own.
LEMMA LeadsReset ==
    ASSUME NEW k
    PROVE  Leads(Rest(k), flash_reset, Free(k, 2, {"up", "qe"}, TRUE, "none", FALSE, In(0, 0, 0), "none"))
<1> DEFINE in == In(0, 0, 0)
           bus == Bus("none", Awake, TRUE, "none", TRUE)
           x0 == View(k, NoWords(0), bus, in, "none", TRUE)
           x1 == View(k, Out(1, 1, "ERESET", "none"), bus, in, "none", TRUE)
           x2 == View(k, Out(2, 2, "ERESET", "RESET"), bus, in, "none", TRUE)
           x3 == View(k, Out(1, 2, "RESET", "none"), Bus("none", Awake, TRUE, "none", FALSE), in, "none", TRUE)
           x4 == Free(k, 2, {"up", "qe"}, TRUE, "none", FALSE, in, "none")
           w1 == Word(Op("ERESET", 0))
           w2 == Word(Op("RESET", 0))
           c == Command(1, FALSE, "TX_ONLY")
<1>1. Op("ERESET", 0).op = "ERESET" /\ Op("RESET", 0).op = "RESET"
  BY DEF Op
<1>2. Follows(x0, w1, x1)
  <2>1. 0 \in Nat /\ 0 < TxDepth /\ "none" # "tx" /\ 1 = 0 + 1
    BY RoomIs
  <2> QED BY <2>1, FollowsOpcodeOf
<1>3. Follows(x1, w2, x2)
  <2>1. x1.kind = k /\ x1.out = Out(1, 1, "ERESET", "none") /\ x1.bus = bus /\ x1.in = in /\ x1.dma = "none" /\ x1.rdy = TRUE
    BY DEF View
  <2> HIDE DEF x1
  <2>2. x1.bus.op = "none" /\ x1.out.t = 1 /\ x1.out.b = 1 /\ x1.out.first = "ERESET" /\ x1.out.second = "none"
    BY <2>1 DEF Out, Bus
  <2>3. w2.do = "word" /\ w2.word.op = "RESET"
    BY <1>1 DEF Word
  <2> HIDE DEF w2
  <2>4. Permitted(x1, w2)
    <3>1. x1.out.b < TxDepth /\ x1.dma # "tx" /\ x1.out.t <= 1
      BY <2>1, <2>2, RoomIs
    <3> QED BY <3>1, <2>3 DEF Permitted, Opening
  <2>5. Pushed(x1.out, x1.bus, "RESET") = Out(2, 2, "ERESET", "RESET")
    BY <2>2 DEF Pushed
  <2>6. After(x1, w2) = x2
    BY <2>1, <2>3, <2>5 DEF After
  <2> HIDE DEF x2
  <2> QED BY <2>4, <2>6 DEF Follows
<1>4. Follows(x2, Step("ready"), x2)
  BY FollowsReady
<1>5. Leads(x0, <<w1, w2, Step("ready")>>, x2)
  <2>1. Leads(x0, <<w1, w2>>, x2)
    BY <1>2, <1>3, LeadsTwo
  <2>2. Leads(x2, <<Step("ready")>>, x2)
    BY <1>4, LeadsOne
  <2> HIDE DEF x0, x2, w1, w2
  <2>3. Leads(x0, <<w1, w2>> \o <<Step("ready")>>, x2)
    BY <2>1, <2>2, LeadsJoin
  <2>4. <<w1, w2>> \o <<Step("ready")>> = <<w1, w2, Step("ready")>>
    BY ThreeAre
  <2> QED BY <2>3, <2>4
<1>6. Leads(x2, c, x3)
  <2> DEFINE cmd == [len |-> 1, csaat |-> FALSE, direction |-> "TX_ONLY"]
  <2>a. x2.bus = bus /\ x2.out = Out(2, 2, "ERESET", "RESET")
    BY DEF View
  <2>1. /\ x2.kind = k /\ x2.in = in /\ x2.dma = "none" /\ x2.bus = bus /\ x2.bus.op = "none" /\ x2.bus.K = Awake
        /\ x2.out.t = 2 /\ x2.out.b = 2 /\ x2.out.second = "RESET" /\ x2.out.first = "ERESET" /\ x2.rdy = TRUE
    <3>1. x2.kind = k /\ x2.in = in /\ x2.dma = "none" /\ x2.rdy = TRUE
      BY DEF View
    <3> HIDE DEF x2
    <3> QED BY <3>1, <2>a DEF Out, Bus
  <2>2. Taken("ERESET", Awake) = TRUE
    BY TakenIs DEF Awake
  <2>3. Known("ERESET", Awake, TRUE) = Awake
    BY KnownIs
  <2> HIDE DEF x2
  <2>4. CommandFits(x2, cmd)
    <3>1. Opening(x2) /\ Taken(x2.out.first, x2.bus.K) /\ x2.out.t = 2 /\ x2.rdy /\ x2.dma # "tx"
      BY <2>1, <2>2 DEF Opening
    <3>2. LenWords(cmd.len) = 1 /\ ~cmd.csaat /\ cmd.direction = "TX_ONLY" /\ cmd.len \in Nat \ {0} /\ cmd.csaat \in BOOLEAN
      BY OneWord
    <3> HIDE DEF cmd
    <3> QED BY <3>1, <3>2 DEF CommandFits
  <2>5. AfterCommand(x2, cmd) = Sent(x2, 1, FALSE)
    BY OneWord DEF AfterCommand
  <2>6. Sent(x2, 1, FALSE) = View(k, Out(1, 2, "RESET", "none"), Bus("none", Awake, TRUE, "none", FALSE), in, "none", FALSE)
    <3>a. x2.out.t = 2 /\ x2.bus.op = "none"
      BY <2>1
    <3>b. x2.out.t - 1 = 1
      BY <3>a
    <3>1. Opening(x2) /\ x2.out.t - 1 = 1
      BY <3>a, <3>b DEF Opening
    <3>2. Out(x2.out.t - 1, x2.out.b, x2.out.second, "none") = Out(1, 2, "RESET", "none")
      BY <2>1, <3>1
    <3>3. Held(FALSE, x2.out.first, x2.bus.K, Taken(x2.out.first, x2.bus.K), "none", FALSE)
             = Bus("none", Awake, TRUE, "none", FALSE)
      BY <2>1, <2>2, <2>3 DEF Held
    <3> QED BY <2>1, <3>1, <3>2, <3>3 DEF Sent
  <2> QED BY <2>4, <2>5, <2>6, LeadsCommand
<1>7. Leads(x3, c, x4)
  <2>1. Taken("RESET", Awake) = TRUE
    BY TakenIs DEF Awake
  <2>2. Known("RESET", Awake, TRUE) = {"up", "qe"}
    <3>1. Known("RESET", Awake, TRUE) = Awake \ {"idle", "wel"}
      BY KnownIs
    <3> QED BY <3>1 DEF Awake
  <2>3. 2 \in Nat /\ 1 \in Nat \ {0} /\ LenWords(1) = 1 /\ "none" # "tx"
    BY OneWord
  <2>4. Leads(x3, c, View(k, NoWords(2), Bus("none", Known("RESET", Awake, Taken("RESET", Awake)),
                                         Taken("RESET", Awake), "none", FALSE), in, "none", TRUE))
    BY <2>1, <2>3, LeadsSingle
  <2> QED BY <2>4, <2>1, <2>2 DEF Free
<1>8. Leads(x0, <<w1, w2, Step("ready")>> \o c \o c, x4)
  <2> HIDE DEF x0, x2, x3, x4, w1, w2, c
  <2>1. Leads(x0, <<w1, w2, Step("ready")>> \o c, x3)
    BY <1>5, <1>6, LeadsJoin
  <2> QED BY <2>1, <1>7, LeadsJoin
<1>9. Rest(k) = x0
  BY DEF Rest
<1> QED BY <1>8, <1>9 DEF flash_reset

\* w25q128jw_reset and w25q128jw_reset_force.
LEMMA LeadsResets ==
    ASSUME NEW k
    PROVE  Leads(Rest(k), w25q128jw_reset, Rest(k)) /\ Leads(Rest(k), w25q128jw_reset_force, Rest(k))
<1> DEFINE K2 == {"up", "qe"}
           x == Free(k, 2, K2, TRUE, "none", FALSE, In(0, 0, 0), "none")
<1>1. "up" \in Awake /\ Awake \cup {"idle"} = Awake /\ K2 \cup {"idle"} = Awake /\ "up" \in K2
  BY DEF Awake
<1>2. Leads(Rest(k), flash_wait, Rest(k))
  <2>1. Leads(Free(k, 0, Awake, TRUE, "none", TRUE, In(0, 0, 0), "none"), flash_wait, Clean(k, 0, Awake \cup {"idle"}, TRUE))
    BY <1>1, RoomIs, LeadsWait
  <2> QED BY <2>1, <1>1, RestIs DEF Clean
<1>3. Leads(x, flash_wait, Rest(k))
  <2>1. Leads(x, flash_wait, Clean(k, 0, K2 \cup {"idle"}, TRUE))
    BY <1>1, RoomIs, LeadsWait
  <2> QED BY <2>1, <1>1, RestIs
<1>4. Leads(Rest(k), flash_reset, x)
  BY LeadsReset
<1> HIDE DEF x
<1>5. Leads(Rest(k), flash_wait \o flash_reset, x)
  BY <1>2, <1>4, LeadsJoin
<1>6. Leads(Rest(k), flash_wait \o flash_reset \o flash_wait, Rest(k))
  BY <1>3, <1>5, LeadsJoin
<1>7. Leads(Rest(k), flash_reset \o flash_wait, Rest(k))
  BY <1>3, <1>4, LeadsJoin
<1> QED BY <1>6, <1>7 DEF w25q128jw_reset, w25q128jw_reset_force

-----------------------------------------------------------------------------
(* The initialisation.                                                     *)

\* The read of status register 2, up to its use.
LEMMA LeadsStatus2 ==
    ASSUME NEW k, NEW n \in Nat, n < TxDepth, NEW K, "up" \in K, NEW tk, NEW ask, NEW last,
           NEW have, NEW do, NEW z, Follows(Polled(k, K, "RSR2"), Step(do), z)
    PROVE  Leads(Free(k, n, K, tk, ask, last, In(0, 1, have), "none"), ReadStatus2(do), z)
<1>1. "RSR2" \in {"RSR1", "RSR2"}
  OBVIOUS
<1> QED BY <1>1, LeadsAsk DEF ReadStatus2

\* An instruction of one word, with what is known of the flash after it.
LEMMA LeadsOnly ==
    ASSUME NEW k, NEW n \in Nat, n < TxDepth, NEW m, m = n + 1,
           NEW K, NEW tk, NEW ask, NEW last, NEW in,
           NEW op, op # "none", NEW addr, NEW len \in Nat \ {0}, LenWords(len) = 1,
           NEW tk2, tk2 = Taken(op, K), k = "init" \/ tk2, NEW K2, K2 = Known(op, K, tk2)
    PROVE  /\ Leads(Free(k, n, K, tk, ask, last, in, "none"),
                    <<Word(Op(op, addr))>> \o Command(len, FALSE, "TX_ONLY"),
                    Free(k, m, K2, tk2, "none", FALSE, in, "none"))
           /\ Leads(Free(k, n, K, tk, ask, last, in, "none"),
                    <<Word(Op(op, addr)), Step("ready")>> \o Command(len, FALSE, "TX_ONLY"),
                    Free(k, m, K2, tk2, "none", FALSE, in, "none"))
<1> DEFINE x == Free(k, n, K, tk, ask, last, in, "none")
<1>1. Leads(x, <<>>, x)
  BY LeadsNowhere
<1> QED BY <1>1, LeadsSimple, ZenonT(30)

\* After RPD the flash is awake, and refuses WE and WSR2 until it is seen
\* idle.
LEMMA WakesUp ==
    /\ Taken("RPD", {}) = TRUE /\ Known("RPD", {}, TRUE) = {"up"}
    /\ Taken("WE", {"up"}) = FALSE /\ Known("WE", {"up"}, FALSE) = {"up"}
    /\ Taken("WSR2", {"up"}) = FALSE /\ Known("WSR2", {"up"}, FALSE) = {"up"}
<1>1. Taken("RPD", {}) = TRUE
  BY TakenIs
<1>2. Known("RPD", {}, TRUE) = {"up"}
  <2>1. Known("RPD", {}, TRUE) = {} \cup {"up"}
    BY KnownIs
  <2> QED BY <2>1
<1>3. Taken("WE", {"up"}) = FALSE /\ Taken("WSR2", {"up"}) = FALSE
  <2> DEFINE u == {"up"}
  <2>1. "idle" \notin u
    OBVIOUS
  <2> HIDE DEF u
  <2>2. Taken("WE", u) = FALSE /\ Taken("WSR2", u) = FALSE
    BY <2>1, TakenIs
  <2> QED BY <2>2 DEF u
<1>4. Known("WE", {"up"}, FALSE) = {"up"}
  BY KnownIs
<1>5. Known("WSR2", {"up"}, FALSE) = {"up"}
  <2>1. Known("WSR2", {"up"}, FALSE) = {"up"} \ {"idle", "wel", "qe"}
    BY KnownIs
  <2> QED BY <2>1
<1> QED BY <1>1, <1>2, <1>3, <1>4, <1>5

\* The write of status register 2, from the opcode to its last byte.
LEMMA LeadsWriteStatus ==
    ASSUME NEW w, NEW s, NEW in,
           Leads(w, s, Free("init", 1, {"up"}, FALSE, "none", FALSE, in, "none"))
    PROVE  Leads(w, s \o <<Word(Op("WSR2", 0))>> \o Command(1, TRUE, "TX_ONLY")
                      \o <<Word([Op("DATA", 0) EXCEPT !.bytes = <<1>>])>> \o Command(1, FALSE, "TX_ONLY"),
                 Free("init", 3, {"up"}, FALSE, "none", FALSE, in, "none"))
<1> DEFINE x0 == Free("init", 1, {"up"}, FALSE, "none", FALSE, in, "none")
           x1 == View("init", Out(1, 2, "WSR2", "none"), Bus("none", {"up"}, FALSE, "none", FALSE), in, "none", TRUE)
           x2 == Busy("init", 2, "WSR2", {"up"}, FALSE, in, "none")
           x3 == View("init", Out(1, 3, "none", "none"), Bus("WSR2", {"up"}, FALSE, "none", FALSE), in, "none", TRUE)
           x4 == Free("init", 3, {"up"}, FALSE, "none", FALSE, in, "none")
           s1 == <<Word(Op("WSR2", 0))>>
           s2 == Command(1, TRUE, "TX_ONLY")
           s3 == <<Word([Op("DATA", 0) EXCEPT !.bytes = <<1>>])>>
           s4 == Command(1, FALSE, "TX_ONLY")
<1>a. /\ 1 \in Nat /\ 1 < TxDepth /\ 2 = 1 + 1 /\ 2 \in Nat /\ 2 < TxDepth /\ 3 = 2 + 1 /\ 3 \in Nat
      /\ "none" # "tx" /\ "WSR2" # "none" /\ 1 \in Nat \ {0} /\ LenWords(1) = 1
      /\ TRUE \in BOOLEAN /\ FALSE \in BOOLEAN
  BY RoomIs, OneWord
<1>1. Leads(x0, s1, x1)
  <2>1. Follows(View("init", NoWords(1), Bus("none", {"up"}, FALSE, "none", FALSE), in, "none", TRUE),
                Word(Op("WSR2", 0)), x1)
    BY <1>a, FollowsOpcodeOf
  <2> QED BY <2>1, LeadsOne DEF Free
<1>2. Leads(x1, s2, x2)
  <2>1. Leads(x1, s2, View("init", NoWords(2), Held(TRUE, "WSR2", {"up"}, Taken("WSR2", {"up"}), "none", FALSE),
                           in, "none", TRUE))
    BY <1>a, LeadsFirstCommand
  <2>2. Held(TRUE, "WSR2", {"up"}, Taken("WSR2", {"up"}), "none", FALSE) = Bus("WSR2", {"up"}, FALSE, "none", FALSE)
    BY WakesUp DEF Held
  <2> QED BY <2>1, <2>2 DEF Busy
<1>3. Leads(x2, s3, x3)
  <2>1. [Op("DATA", 0) EXCEPT !.bytes = <<1>>].op # "none"
    BY DEF Op
  <2> QED BY <1>a, <2>1, LeadsWord
<1>4. Leads(x3, s4, x4)
  <2>1. Leads(x3, s4, View("init", NoWords(3), Held(FALSE, "WSR2", {"up"}, FALSE, "none", FALSE), in, "none", TRUE))
    BY <1>a, LeadsNextCommand
  <2>2. Held(FALSE, "WSR2", {"up"}, FALSE, "none", FALSE) = Bus("none", {"up"}, FALSE, "none", FALSE)
    BY WakesUp DEF Held
  <2> QED BY <2>1, <2>2 DEF Free
<1>5. Leads(w, s, x0)
  OBVIOUS
<1>6. Leads(w, s \o s1 \o s2 \o s3 \o s4, x4)
  <2> HIDE DEF x0, x1, x2, x3, x4, s1, s2, s3, s4
  <2>1. Leads(w, s \o s1, x1)
    BY <1>1, <1>5, LeadsJoin
  <2>2. Leads(w, s \o s1 \o s2, x2)
    BY <1>2, <2>1, LeadsJoin
  <2>3. Leads(w, s \o s1 \o s2 \o s3, x3)
    BY <1>3, <2>2, LeadsJoin
  <2> QED BY <1>4, <2>3, LeadsJoin
<1> QED BY <1>6

\* w25q128jw_init: whatever the flash did before, it is at rest then, with
\* bit QE set.
LEMMA LeadsInit ==
    Leads(Waking, flash_power_up \o set_QE_bit, Rest("plain"))
<1> DEFINE u == {"up"}
           x0 == Free("init", 1, {}, FALSE, "none", FALSE, In(0, 0, 0), "none")
           x1 == Free("init", 2, u, TRUE, "none", FALSE, In(0, 0, 0), "none")
           x2 == Free("init", 2, u, TRUE, "none", FALSE, In(0, 1, 0), "none")
           x3 == Answered("init", u, "RSR2")
           x4 == Free("init", 1, u, FALSE, "none", FALSE, In(0, 1, 0), "none")
           x5 == Free("init", 3, u, FALSE, "none", FALSE, In(0, 1, 0), "none")
           x6 == Answered("init", {"up", "idle"}, "RSR1")
           s1 == <<Watermark(1)>>
           s2 == ReadStatus2("status2")
           s3 == flash_write_enable
           s4 == <<Word(Op("WSR2", 0))>>
           s5 == Command(1, TRUE, "TX_ONLY")
           s6 == <<Word([Op("DATA", 0) EXCEPT !.bytes = <<1>>])>>
           s7 == Command(1, FALSE, "TX_ONLY")
           s8 == flash_wait
           s9 == ReadStatus2("qe")
<1>a. /\ 0 \in Nat /\ 0 < TxDepth /\ 1 = 0 + 1 /\ 1 \in Nat /\ 1 < TxDepth /\ 2 = 1 + 1
      /\ 2 \in Nat /\ 2 < TxDepth /\ 3 = 2 + 1 /\ 3 \in Nat /\ 3 < TxDepth
      /\ 1 \in Nat \ {0} /\ LenWords(1) = 1 /\ "up" \in u
  BY RoomIs, OneWord
<1>1. x0 = Waking
  BY DEF Waking, Free
<1>2. Leads(x0, flash_power_up, x1)
  BY <1>a, WakesUp, LeadsOnly DEF flash_power_up
<1>3. Leads(x1, s1, x2)
  BY <1>a, LeadsWatermark DEF Free
<1>4. Leads(x2, s2, x3)
  <2>1. Follows(Polled("init", u, "RSR2"), Step("status2"), x3)
    BY FollowsStatus DEF Follows
  <2> QED BY <2>1, <1>a, LeadsStatus2
<1>5. Leads(x3, s3, x4)
  <2>1. Taken("WE", u) = FALSE /\ Known("WE", u, FALSE) = u
    BY WakesUp
  <2> HIDE DEF u
  <2> QED BY <2>1, <1>a, LeadsOnly DEF flash_write_enable, Answered
<1>6. Leads(x5, s8, x6)
  <2>1. Leads(x5, s8, Answered("init", u \cup {"idle"}, "RSR1"))
    BY <1>a, LeadsWaitAnswered
  <2>2. u \cup {"idle"} = {"up", "idle"}
    OBVIOUS
  <2> QED BY <2>1, <2>2
<1>7. Leads(x6, s9, Rest("plain"))
  <2> DEFINE K == {"up", "idle"}
  <2>1. K \cup {"qe"} = Awake /\ "up" \in K
    BY DEF Awake
  <2>2. After(Polled("init", K, "RSR2"), Step("qe")) = Answered("plain", Awake, "RSR2")
    BY <2>1, FollowsStatus
  <2>3. Forget(Answered("plain", Awake, "RSR2")) = Rest("plain")
    BY DEF Answered, Rest, Forget, Free, View, Bus, In
  <2>4. Follows(Polled("init", K, "RSR2"), Step("qe"), Rest("plain"))
    BY <2>2, <2>3, FollowsStatus DEF Follows
  <2> HIDE DEF K
  <2>5. Leads(Free("init", 0, K, TRUE, "RSR1", TRUE, In(0, 1, 0), "none"), s9, Rest("plain"))
    BY <2>1, <2>4, <1>a, LeadsStatus2
  <2> QED BY <2>5 DEF Answered, K
<1>8. Leads(x2, s2 \o s3, x4)
  <2> HIDE DEF x2, x3, x4, s2, s3
  <2> QED BY <1>4, <1>5, LeadsJoin
<1>9. Leads(x1, s1 \o s2 \o s3, x4)
  <2> HIDE DEF x1, x2, x3, x4, s1, s2, s3
  <2>1. Leads(x1, s1 \o s2, x3)
    BY <1>3, <1>4, LeadsJoin
  <2> QED BY <2>1, <1>5, LeadsJoin
<1>10. Leads(x1, s1 \o s2 \o s3 \o s4 \o s5 \o s6 \o s7, x5)
  <2> HIDE DEF x1, s1, s2, s3
  <2>1. Leads(x1, s1 \o s2 \o s3, Free("init", 1, {"up"}, FALSE, "none", FALSE, In(0, 1, 0), "none"))
    BY <1>9
  <2> QED BY <2>1, LeadsWriteStatus
<1>11. Leads(x1, s1 \o s2 \o s3 \o s4 \o s5 \o s6 \o s7 \o s8 \o s9, Rest("plain"))
  <2> HIDE DEF x1, x5, x6, s1, s2, s3, s4, s5, s6, s7, s8, s9
  <2>1. Leads(x1, s1 \o s2 \o s3 \o s4 \o s5 \o s6 \o s7 \o s8, x6)
    BY <1>6, <1>10, LeadsJoin
  <2> QED BY <2>1, <1>7, LeadsJoin
<1>12. Leads(x1, set_QE_bit, Rest("plain"))
  BY <1>11 DEF set_QE_bit
<1> HIDE DEF x0, x1
<1> QED BY <1>1, <1>2, <1>12, LeadsJoin

-----------------------------------------------------------------------------
(* The instructions of the reads.                                          *)

\* The instruction of a standard read and its data.
LEMMA LeadsStandardRead ==
    ASSUME NEW k, NEW n \in Nat, n < TxDepth, NEW m, m = n + 1, NEW tk, NEW ask, NEW last,
           NEW e, NEW wm, NEW have, NEW d, d # "tx",
           NEW addr, NEW len \in Nat \ {0}, NEW f, e + LenWords(len) = f
    PROVE  Leads(Free(k, n, Awake, tk, ask, last, In(e, wm, have), d), StandardRead(addr, len),
                 Free(k, m, Awake, TRUE, "RD", TRUE, In(f, wm, have), d))
<1> DEFINE in == In(e, wm, have)
           x0 == Free(k, n, Awake, tk, ask, last, in, d)
           x1 == View(k, Out(1, m, "RD", "none"), Bus("none", Awake, tk, ask, last), in, d, TRUE)
           x2 == Busy(k, m, "RD", Awake, TRUE, in, d)
           x3 == Free(k, m, Awake, TRUE, "RD", TRUE, In(f, wm, have), d)
           s1 == <<Word(Op("RD", addr)), Step("ready")>>
           s2 == Command(4, TRUE, "TX_ONLY")
           s3 == Command(len, FALSE, "RX_ONLY")
<1>1. Leads(x0, s1, x1)
  <2>1. Op("RD", addr).op = "RD"
    BY DEF Op
  <2> HIDE DEF in
  <2> QED BY <2>1, LeadsOpcodeReady
<1>2. Taken("RD", Awake) = TRUE
  BY TakenIs
<1>3. Known("RD", Awake, TRUE) = Awake
  BY KnownIs
<1>a. /\ 4 \in Nat \ {0} /\ TRUE \in BOOLEAN /\ LenWords(4) = 1 /\ m \in Nat /\ Taken("RD", Awake)
      /\ "RD" # "none"
  BY OneWord, <1>2
<1>4. Leads(x1, s2, x2)
  <2> HIDE DEF in
  <2>1. Leads(x1, s2, View(k, NoWords(m), Held(TRUE, "RD", Awake, Taken("RD", Awake), "none", FALSE), in, d, TRUE))
    BY <1>a, LeadsFirstCommand
  <2>2. Held(TRUE, "RD", Awake, Taken("RD", Awake), "none", FALSE) = Bus("RD", Awake, TRUE, "none", FALSE)
    BY <1>2 DEF Held
  <2> QED BY <2>1, <2>2 DEF Busy
<1>5. Leads(x2, s3, x3)
  <2>1. Leads(x2, s3, Free(k, m, Known("RD", Awake, TRUE), TRUE, "RD", TRUE, In(f, wm, have), d))
    BY <1>a, LeadsReceive
  <2> QED BY <2>1, <1>3
<1>6. Leads(x0, s1 \o s2 \o s3, x3)
  <2> HIDE DEF x0, x1, x2, x3, s1, s2, s3
  <2>1. Leads(x0, s1 \o s2, x2)
    BY <1>1, <1>4, LeadsJoin
  <2> QED BY <2>1, <1>5, LeadsJoin
<1> QED BY <1>6 DEF StandardRead

\* The instruction of a quad read, its dummy cycles and its data.
LEMMA LeadsQuadRead ==
    ASSUME NEW k, NEW tk, NEW ask, NEW last, NEW e, NEW wm, NEW have,
           NEW addr, NEW len \in Nat \ {0}, NEW f, e + LenWords(len) = f
    PROVE  Leads(Free(k, 0, Awake, tk, ask, last, In(e, wm, have), "none"), QuadRead(addr, len),
                 Free(k, 2, Awake, TRUE, "RDQIO", TRUE, In(f, wm, have), "none"))
<1> DEFINE in == In(e, wm, have)
           x0 == Free(k, 0, Awake, tk, ask, last, in, "none")
           x1 == View(k, Out(1, 1, "RDQIO", "none"), Bus("none", Awake, tk, ask, last), in, "none", TRUE)
           x2 == Busy(k, 1, "RDQIO", Awake, TRUE, in, "none")
           x3 == View(k, Out(1, 2, "none", "none"), Bus("RDQIO", Awake, TRUE, "none", FALSE), in, "none", TRUE)
           x4 == Busy(k, 2, "RDQIO", Awake, TRUE, in, "none")
           x5 == Free(k, 2, Awake, TRUE, "RDQIO", TRUE, In(f, wm, have), "none")
           s1 == <<Word(Op("RDQIO", 0))>>
           s2 == Command(1, TRUE, "TX_ONLY")
           s3 == <<Word(Op("ADDR", addr))>>
           s4 == Command(4, TRUE, "TX_ONLY")
           s5 == Command(4, TRUE, "DUMMY")
           s6 == Command(len, FALSE, "RX_ONLY")
<1>1. Taken("RDQIO", Awake) = TRUE
  BY TakenIs
<1>2. Known("RDQIO", Awake, TRUE) = Awake
  BY KnownIs
<1>a. /\ 4 \in Nat \ {0} /\ 1 \in Nat \ {0} /\ TRUE \in BOOLEAN /\ LenWords(4) = 1 /\ LenWords(1) = 1
      /\ Taken("RDQIO", Awake) /\ "RDQIO" # "none" /\ "none" # "tx"
      /\ 0 \in Nat /\ 0 < TxDepth /\ 1 = 0 + 1 /\ 1 \in Nat /\ 1 < TxDepth /\ 2 = 1 + 1 /\ 2 \in Nat
  BY OneWord, RoomIs, <1>1
<1>3. Leads(x0, s1, x1)
  <2> HIDE DEF in
  <2>1. Follows(View(k, NoWords(0), Bus("none", Awake, tk, ask, last), in, "none", TRUE), Word(Op("RDQIO", 0)), x1)
    BY <1>a, FollowsOpcodeOf
  <2> QED BY <2>1, LeadsOne DEF Free
<1>4. Leads(x1, s2, x2)
  <2> HIDE DEF in
  <2>1. Leads(x1, s2, View(k, NoWords(1), Held(TRUE, "RDQIO", Awake, Taken("RDQIO", Awake), "none", FALSE), in, "none", TRUE))
    BY <1>a, LeadsFirstCommand
  <2>2. Held(TRUE, "RDQIO", Awake, Taken("RDQIO", Awake), "none", FALSE) = Bus("RDQIO", Awake, TRUE, "none", FALSE)
    BY <1>1 DEF Held
  <2> QED BY <2>1, <2>2 DEF Busy
<1>5. Leads(x2, s3, x3)
  <2> HIDE DEF in
  <2>1. Op("ADDR", addr).op # "none"
    BY DEF Op
  <2> QED BY <1>a, <2>1, LeadsWord
<1>6. Leads(x3, s4, x4)
  <2> HIDE DEF in
  <2>1. Leads(x3, s4, View(k, NoWords(2), Held(TRUE, "RDQIO", Awake, TRUE, "none", FALSE), in, "none", TRUE))
    BY <1>a, LeadsNextCommand
  <2>2. Held(TRUE, "RDQIO", Awake, TRUE, "none", FALSE) = Bus("RDQIO", Awake, TRUE, "none", FALSE)
    BY DEF Held
  <2> QED BY <2>1, <2>2 DEF Busy
<1>7. Leads(x4, s5, x4)
  <2> HIDE DEF in
  <2> QED BY <1>a, LeadsDummy
<1>8. Leads(x4, s6, x5)
  <2>1. Leads(x4, s6, Free(k, 2, Known("RDQIO", Awake, TRUE), TRUE, "RDQIO", TRUE, In(f, wm, have), "none"))
    BY <1>a, LeadsReceive
  <2> QED BY <2>1, <1>2
<1>9. Leads(x0, s1 \o s2 \o s3 \o s4 \o s5 \o s6, x5)
  <2> HIDE DEF x0, x1, x2, x3, x4, x5, s1, s2, s3, s4, s5, s6
  <2>1. Leads(x0, s1 \o s2, x2)
    BY <1>3, <1>4, LeadsJoin
  <2>2. Leads(x0, s1 \o s2 \o s3, x3)
    BY <2>1, <1>5, LeadsJoin
  <2>3. Leads(x0, s1 \o s2 \o s3 \o s4, x4)
    BY <2>2, <1>6, LeadsJoin
  <2>4. Leads(x0, s1 \o s2 \o s3 \o s4 \o s5, x4)
    BY <2>3, <1>7, LeadsJoin
  <2> QED BY <2>4, <1>8, LeadsJoin
<1> QED BY <1>9 DEF QuadRead

\* The launch of a transfer from the RX FIFO.
LEMMA FollowsDmaRx ==
    ASSUME NEW k, NEW out, NEW bus, NEW e, NEW wm, NEW have, NEW rdy, NEW buf, NEW len,
           len \div 4 \in Nat \ {0}, NEW f, f = e - (len \div 4)
    PROVE  Follows(View(k, out, bus, In(e, wm, have), "none", rdy), DmaRx(buf, len),
                   View(k, out, bus, In(f, wm, 0), "rx", rdy))
<1> DEFINE q == View(k, out, bus, In(e, wm, have), "none", rdy)
           s == DmaRx(buf, len)
<1>1. s.do = "dma" /\ s.dir = "rx" /\ s.n = len \div 4
  BY DEF DmaRx
<1>2. /\ q.kind = k /\ q.out = out /\ q.bus = bus /\ q.in.e = e /\ q.in.wm = wm
      /\ q.dma = "none" /\ q.rdy = rdy
  BY DEF View, In
<1> HIDE DEF q, s
<1>3. Permitted(q, s)
  BY <1>1, <1>2 DEF Permitted
<1>4. After(q, s) = View(k, out, bus, In(f, wm, 0), "rx", rdy)
  BY <1>1, <1>2 DEF After
<1> QED BY <1>3, <1>4 DEF Follows, q, s

\* The wait for the DMA: every word it was for has come.
LEMMA FollowsDmaReady ==
    ASSUME NEW k, NEW n, NEW K, NEW tk, NEW ask, NEW have, NEW d
    PROVE  /\ Follows(Free(k, n, K, tk, ask, TRUE, In(0, 0, have), d), DmaReady,
                      Free(k, 0, K, tk, "none", TRUE, In(0, 0, have), "none"))
<1> DEFINE q == Free(k, n, K, tk, ask, TRUE, In(0, 0, have), d)
           s == DmaReady
           r == Free(k, 0, K, tk, ask, TRUE, In(0, 0, have), "none")
<1>1. s.do = "dma_is_ready"
  BY DEF DmaReady, Step
<1>2. /\ q.kind = k /\ q.out = NoWords(n) /\ q.out.t = 0 /\ q.bus = Bus("none", K, tk, ask, TRUE)
      /\ q.in = In(0, 0, have) /\ q.in.e = 0 /\ q.rdy = TRUE
      /\ q.out.first = "none" /\ q.out.second = "none"
  BY DEF Free, View, NoWords, Out, Bus, In
<1>3. q.bus.last
  BY DEF Free, View, Bus
<1> HIDE DEF q, s
<1>4. Permitted(q, s)
  BY <1>1 DEF Permitted
<1>5. After(q, s) = r
  BY <1>1, <1>2, <1>3 DEF After, Free, Bounded, NoWords
<1>6. Forget(r) = Free(k, 0, K, tk, "none", TRUE, In(0, 0, have), "none")
  BY DEF Forget, Free, View, Bus, In
<1> HIDE DEF r
<1> QED BY <1>4, <1>5, <1>6 DEF Follows, q, s

-----------------------------------------------------------------------------
(* Emptying the RX FIFO.                                                   *)

\* spi_set_rx_watermark, as a step.
LEMMA FollowsWatermark ==
    ASSUME NEW k, NEW out, NEW bus, NEW e, NEW wm, NEW have, NEW d, NEW rdy, NEW n \in Nat
    PROVE  Follows(View(k, out, bus, In(e, wm, have), d, rdy), Watermark(n),
                   View(k, out, bus, In(e, n, have), d, rdy))
<1> DEFINE q == View(k, out, bus, In(e, wm, have), d, rdy)
           s == Watermark(n)
<1>1. Permitted(q, s)
  BY DEF Permitted, Watermark
<1>2. After(q, s) = View(k, out, bus, In(e, n, have), d, rdy)
  BY DEF After, View, In, Watermark
<1> HIDE DEF q, s
<1> QED BY <1>1, <1>2 DEF Follows, q, s

\* spi_read_word, for a word that is there.
LEMMA FollowsRead ==
    ASSUME NEW k, NEW n, NEW K, NEW tk, NEW ask, NEW last, NEW e, NEW wm, NEW have, have > 0,
           NEW buf, NEW at, NEW c, NEW f, f = e - 1, NEW g, g = have - 1
    PROVE  Follows(Free(k, n, K, tk, ask, last, In(e, wm, have), "none"), ReadWord(buf, at, c),
                   Free(k, n, K, tk, ask, last, In(f, wm, g), "none"))
<1> DEFINE q == Free(k, n, K, tk, ask, last, In(e, wm, have), "none")
           s == ReadWord(buf, at, c)
<1>1. s.do = "read"
  BY DEF ReadWord
<1>2. /\ q.kind = k /\ q.out = NoWords(n) /\ q.bus = Bus("none", K, tk, ask, last) /\ q.in.e = e
      /\ q.in.wm = wm /\ q.in.have = have /\ q.dma = "none" /\ q.rdy = TRUE
  BY DEF Free, View, In
<1> HIDE DEF q, s
<1>3. Permitted(q, s)
  BY <1>1, <1>2 DEF Permitted
<1>4. After(q, s) = Free(k, n, K, tk, ask, last, In(f, wm, g), "none")
  BY <1>1, <1>2 DEF After, Free
<1> QED BY <1>3, <1>4 DEF Follows, q, s

\* A function over 1..c is a sequence.
LEMMA FunctionIs ==
    ASSUME NEW c \in Nat, NEW S, NEW s \in [1..c -> S]
    PROVE  IsSequence(s) /\ Len(s) = c
<1>1. s \in Seq(S)
  BY SeqDef
<1>2. Len(s) \in Nat /\ DOMAIN s = 1..Len(s) /\ DOMAIN s = 1..c
  BY <1>1, LenProperties
<1>3. Len(s) = c
  BY <1>2
<1> QED BY <1>1, <1>3 DEF IsSequence

\* The words of the FIFO that a wait for the watermark has seen.
LEMMA LeadsReadWords ==
    ASSUME NEW k, NEW n, NEW K, NEW tk, NEW ask, NEW last, NEW e \in Int, NEW wm, NEW have \in Nat,
           NEW buf, NEW from \in Nat, NEW to \in Nat, NEW c \in Nat, to = from + c, c <= have,
           NEW f, f = e - c, NEW g, g = have - c
    PROVE  Leads(Free(k, n, K, tk, ask, last, In(e, wm, have), "none"), ReadWords(buf, from, to),
                 Free(k, n, K, tk, ask, last, In(f, wm, g), "none"))
<1> DEFINE s == ReadWords(buf, from, to)
           at(i) == Free(k, n, K, tk, ask, last, In(e - (i - 1), wm, have - (i - 1)), "none")
           tr == [i \in 1..c + 1 |-> at(i)]
<1>1. /\ IsSequence(s) /\ Len(s) = c
      /\ \A i \in 1..c : s[i] = ReadWord(buf, 4 * (from + i - 1), 4)
  <2> DEFINE S == {ReadWord(buf, 4 * (from + i - 1), 4) : i \in 1..c}
  <2>1. s = [i \in 1..c |-> ReadWord(buf, 4 * (from + i - 1), 4)]
    <3>1. (IF to > from THEN to - from ELSE 0) = c
      OBVIOUS
    <3> QED BY <3>1 DEF ReadWords
  <2>2. s \in [1..c -> S] /\ \A i \in 1..c : s[i] = ReadWord(buf, 4 * (from + i - 1), 4)
    BY <2>1
  <2> HIDE DEF s, S
  <2> QED BY <2>2, FunctionIs
<1>2. \A i \in 1..c : Follows(at(i), s[i], at(i + 1))
  <2> TAKE i \in 1..c
  <2>1. /\ have - (i - 1) > 0 /\ e - (i + 1 - 1) = e - (i - 1) - 1
        /\ have - (i + 1 - 1) = have - (i - 1) - 1
    OBVIOUS
  <2>2. have - (i - 1) > 0
    BY <2>1
  <2> DEFINE e1 == e - (i - 1)
             h1 == have - (i - 1)
             e2 == e - (i + 1 - 1)
             h2 == have - (i + 1 - 1)
  <2>3. e2 = e1 - 1 /\ h2 = h1 - 1 /\ h1 > 0
    BY <2>1
  <2> HIDE DEF e1, h1, e2, h2, s
  <2>4. Follows(Free(k, n, K, tk, ask, last, In(e1, wm, h1), "none"), s[i],
                Free(k, n, K, tk, ask, last, In(e2, wm, h2), "none"))
    BY <1>1, <2>3, FollowsRead
  <2> QED BY <2>4 DEF e1, h1, e2, h2
<1>3. tr[1] = at(1) /\ tr[c + 1] = at(c + 1) /\ \A i \in 1..c : tr[i] = at(i) /\ tr[i + 1] = at(i + 1)
  OBVIOUS
<1>4. /\ at(1) = Free(k, n, K, tk, ask, last, In(e, wm, have), "none")
      /\ at(c + 1) = Free(k, n, K, tk, ask, last, In(f, wm, g), "none")
  <2>1. e - (1 - 1) = e /\ have - (1 - 1) = have /\ e - (c + 1 - 1) = f /\ have - (c + 1 - 1) = g
    OBVIOUS
  <2> QED BY <2>1
<1> HIDE DEF tr, at, s
<1>5. \A i \in 1..c : Follows(tr[i], s[i], tr[i + 1])
  BY <1>2, <1>3
<1> QED BY <1>1, <1>3, <1>4, <1>5 DEF Leads, s

\* The view after the loop over the RX FIFO.
Left(K, left) == Free("plain", 0, K, TRUE, "none", TRUE, In(Rest4(left), 0, Rest4(left)), "none")

\* The loop that empties the RX FIFO, to be unrolled.
LEMMA FollowsFill ==
    ASSUME NEW n, NEW K, NEW ask, NEW wm, NEW buf, NEW left \in Nat, NEW start \in Nat,
           NEW to_read, to_read = 4 * start, NEW e, e = LenWords(left)
    PROVE  Follows(Free("plain", n, K, TRUE, ask, TRUE, In(e, wm, 0), "none"),
                   Fill(buf, left, to_read, start), Left(K, left))
<1> DEFINE q == Free("plain", n, K, TRUE, ask, TRUE, In(LenWords(left), wm, 0), "none")
           s == Fill(buf, left, to_read, start)
<1>1. s.do = "fill" /\ s.left = left /\ s.start = start /\ s.to_read = to_read
  BY DEF Fill
<1>2. Permitted(q, s)
  <2>1. q = View("plain", NoWords(n), Bus("none", K, TRUE, ask, TRUE), In(LenWords(s.left), wm, 0), "none", TRUE)
    BY <1>1 DEF Free
  <2> HIDE DEF q, s
  <2> QED BY <1>1, <2>1 DEF Permitted
<1>3. q.bus.K = K /\ q.kind = "plain"
  BY DEF Free, View, Bus
<1> HIDE DEF q, s
<1>4. After(q, s) = Left(K, left)
  <2>1. After(q, s) = View("plain", NoWords(0), Bus("none", K, TRUE, "none", TRUE),
                           In(Rest4(left), 0, Rest4(left)), "none", TRUE)
    BY <1>1, <1>3 DEF After
  <2> QED BY <2>1 DEF Left, Free
<1> QED BY <1>2, <1>4 DEF Follows, q, s

\* A round of the loop that empties the RX FIFO does what the loop promises.
LEMMA LeadsFill ==
    ASSUME NEW n \in Nat, NEW K, NEW ask, NEW wm, NEW f, f.left \in Nat, f.start \in Nat,
           f.to_read = 4 * f.start, NEW e, e = LenWords(f.left)
    PROVE  Leads(Free("plain", n, K, TRUE, ask, TRUE, In(e, wm, 0), "none"), FillRound(f), Left(K, f.left))
<1> DEFINE left == f.left
           start == f.start
           D == RxDepth \div 4
           x0 == Free("plain", n, K, TRUE, ask, TRUE, In(e, wm, 0), "none")
<1>1. RxDepth \in Nat \ {0} /\ D \in Nat \ {0} /\ RxDepth = 4 * D
  BY HostAssumption, GeometryAssumption
<1>2. e \in Nat /\ e = (left + 3) \div 4
  BY DEF LenWords
<1>3. ASSUME left >= RxDepth
      PROVE  Leads(x0, FillRound(f), Left(K, left))
  <2> DEFINE x1 == Free("plain", n, K, TRUE, ask, TRUE, In(e, D, 0), "none")
             x3(b) == Free("plain", b, K, TRUE, ask, TRUE, In(e, D, D), "none")
             x4(b) == Free("plain", b, K, TRUE, ask, TRUE, In(e - D, D, 0), "none")
             s1 == <<Watermark(D), Step("rxwm")>>
             s2 == ReadWords(f.buf, start, (f.to_read + RxDepth) \div 4)
             s3 == <<Fill(f.buf, left - RxDepth, f.to_read + RxDepth, start + D)>>
  <2>1. Follows(x0, Watermark(D), x1)
    BY <1>1, FollowsWatermark DEF Free
  <2>2. \E b : b \in {0, n} /\ Follows(x1, Step("rxwm"), x3(b))
    <3>1. e <= D \/ e > D
      BY <1>1, <1>2
    <3>2. CASE e <= D
      <4>1. Follows(x1, Step("rxwm"), x3(0))
        BY <1>1, <1>2, <3>2, FollowsRxwm
      <4> QED BY <4>1
    <3>3. CASE e > D
      <4>1. Follows(x1, Step("rxwm"), x3(n))
        BY <1>1, <1>2, <3>3, FollowsRxwm
      <4> QED BY <4>1
    <3> QED BY <3>1, <3>2, <3>3
  <2>3. PICK b : b \in {0, n} /\ Follows(x1, Step("rxwm"), x3(b))
    BY <2>2
  <2>4. Leads(x0, s1, x3(b))
    BY <2>1, <2>3, LeadsTwo
  <2>5. Leads(x3(b), s2, x4(b))
    <3>1. /\ (f.to_read + RxDepth) \div 4 = start + D /\ (f.to_read + RxDepth) \div 4 \in Nat
          /\ D <= D /\ 0 = D - D /\ e \in Int /\ D \in Nat /\ start \in Nat
      BY <1>1, <1>2
    <3> HIDE DEF D
    <3> QED BY <3>1, LeadsReadWords
  <2>6. Leads(x4(b), s3, Left(K, left))
    <3>1. /\ left - RxDepth \in Nat /\ start + D \in Nat /\ f.to_read + RxDepth = 4 * (start + D)
          /\ e - D = LenWords(left - RxDepth)
      BY <1>1, <1>2, <1>3 DEF LenWords
    <3>2. Left(K, left - RxDepth) = Left(K, left)
      <4>1. (left - RxDepth) % 4 = left % 4
        BY <1>1, <1>3
      <4> QED BY <4>1 DEF Left, Rest4
    <3>3. Follows(x4(b), Fill(f.buf, left - RxDepth, f.to_read + RxDepth, start + D), Left(K, left - RxDepth))
      <4> HIDE DEF D
      <4> QED BY <3>1, FollowsFill
    <3> QED BY <3>2, <3>3, LeadsOne
  <2>7. FillRound(f) = s1 \o s2 \o s3
    BY <1>3 DEF FillRound
  <2> HIDE DEF x0, x3, x4, s1, s2, s3
  <2>8. Leads(x0, s1 \o s2, x4(b))
    BY <2>4, <2>5, LeadsJoin
  <2>9. Leads(x0, s1 \o s2 \o s3, Left(K, left))
    BY <2>6, <2>8, LeadsJoin
  <2> QED BY <2>7, <2>9
<1>4. ASSUME ~(left >= RxDepth)
      PROVE  Leads(x0, FillRound(f), Left(K, left))
  <2> DEFINE L == LenWords(left)
             x1 == Free("plain", n, K, TRUE, ask, TRUE, In(e, L, 0), "none")
             x2 == Free("plain", 0, K, TRUE, ask, TRUE, In(e, L, L), "none")
             x3 == Free("plain", 0, K, TRUE, "none", TRUE, In(e, 0, L), "none")
             s1 == <<Watermark(L), Step("rxwm")>>
             s2 == ReadWords(f.buf, start, (f.to_read + left) \div 4)
  <2>1. L = e /\ L \in Nat /\ e <= L
    BY <1>2
  <2>2. Follows(x0, Watermark(L), x1)
    <3> HIDE DEF L
    <3> QED BY <2>1, FollowsWatermark DEF Free
  <2>3. Follows(x1, Step("rxwm"), x2)
    <3> HIDE DEF L
    <3> QED BY <1>2, <2>1, FollowsRxwm
  <2>4. Forget(x2) = x3
    <3> HIDE DEF L
    <3> QED BY DEF Forget, Free, View, Bus, In
  <2>5. Leads(x0, s1, x3)
    <3> HIDE DEF L, x0, x1, x2, x3
    <3>1. Leads(x0, s1, x2)
      BY <2>2, <2>3, LeadsTwo
    <3>2. s1 # <<>>
      OBVIOUS
    <3> QED BY <3>1, <3>2, <2>4, LeadsForget
  <2>6. Leads(x3, s2, Left(K, left))
    <3> DEFINE c == left \div 4
               r == Rest4(left)
    <3>1. /\ (f.to_read + left) \div 4 = start + c /\ (f.to_read + left) \div 4 \in Nat
          /\ c \in Nat /\ c <= L /\ r = L - c /\ r = e - c /\ e \in Int
      BY <1>2, <2>1 DEF Rest4
    <3> HIDE DEF c, r, L
    <3>2. Leads(x3, s2, Free("plain", 0, K, TRUE, "none", TRUE, In(r, 0, r), "none"))
      BY <2>1, <3>1, LeadsReadWords
    <3> QED BY <3>2 DEF Left, r
  <2>7. FillRound(f) = s1 \o s2
    BY <1>4 DEF FillRound
  <2> HIDE DEF x0, x3, s1, s2
  <2>8. Leads(x0, s1 \o s2, Left(K, left))
    BY <2>5, <2>6, LeadsJoin
  <2> QED BY <2>7, <2>8
<1> QED BY <1>3, <1>4

-----------------------------------------------------------------------------
(* Reads by the processor and by DMA.                                      *)

\* The end of a call.
LEMMA LeadsReturn ==
    ASSUME NEW q, AtRest(q), NEW code, q.dma = "rx" => code = "OK"
    PROVE  Leads(q, <<Return(code)>>, q)
<1>1. Permitted(q, Return(code))
  BY DEF Permitted, Return
<1>2. After(q, Return(code)) = q
  BY DEF After, Return
<1> QED BY <1>1, <1>2, LeadsOne DEF Follows

\* The last bytes of a read, by the processor.
LEMMA LeadsTail ==
    ASSUME NEW buf, NEW len \in Nat
    PROVE  Leads(Left(Awake, len), Tail4(buf, len), Rest("plain"))
<1>1. CASE len % 4 = 0
  <2>1. Tail4(buf, len) = <<>>
    BY <1>1 DEF Tail4
  <2>2. Left(Awake, len) = Rest("plain")
    BY <1>1, RestIs DEF Left, Clean, Rest4
  <2> QED BY <2>1, <2>2, LeadsNowhere
<1>2. CASE len % 4 # 0
  <2>1. Tail4(buf, len) = <<ReadWord(buf, 4 * (len \div 4), len % 4)>>
    BY <1>2 DEF Tail4
  <2>2. Left(Awake, len) = Free("plain", 0, Awake, TRUE, "none", TRUE, In(1, 0, 1), "none")
    BY <1>2 DEF Left, Rest4
  <2>3. 1 > 0 /\ 0 = 1 - 1
    OBVIOUS
  <2>4. Follows(Free("plain", 0, Awake, TRUE, "none", TRUE, In(1, 0, 1), "none"),
                ReadWord(buf, 4 * (len \div 4), len % 4),
                Free("plain", 0, Awake, TRUE, "none", TRUE, In(0, 0, 0), "none"))
    BY <2>3, FollowsRead
  <2>5. Free("plain", 0, Awake, TRUE, "none", TRUE, In(0, 0, 0), "none") = Rest("plain")
    BY RestIs DEF Clean
  <2> QED BY <2>1, <2>2, <2>4, <2>5, LeadsOne
<1> QED BY <1>1, <1>2

\* A length of whole words has no last bytes.
LEMMA WholeTail ==
    ASSUME NEW x, NEW s, NEW y, Leads(x, s, y), NEW buf, NEW len, len % 4 = 0
    PROVE  Leads(x, s \o Tail4(buf, len), y)
<1>1. Tail4(buf, len) = <<>>
  BY DEF Tail4
<1>2. Leads(y, <<>>, y)
  BY LeadsNowhere
<1> QED BY <1>1, <1>2, LeadsJoin

\* A length of whole words, in words.
LEMMA WholeIs ==
    ASSUME NEW len \in Nat \ {0}, len % 4 = 0
    PROVE  len \div 4 \in Nat \ {0} /\ LenWords(len) = len \div 4
BY DEF LenWords

\* The channel has taken every word: the transfer is over.
LEMMA LeadsDmaEnd ==
    ASSUME NEW n, NEW ask, NEW d
    PROVE  Leads(Free("plain", n, Awake, TRUE, ask, TRUE, In(0, 0, 0), d), <<DmaReady>>, Rest("plain"))
<1>1. Follows(Free("plain", n, Awake, TRUE, ask, TRUE, In(0, 0, 0), d), DmaReady,
              Free("plain", 0, Awake, TRUE, "none", TRUE, In(0, 0, 0), "none"))
  BY FollowsDmaReady
<1>2. Free("plain", 0, Awake, TRUE, "none", TRUE, In(0, 0, 0), "none") = Rest("plain")
  BY RestIs DEF Clean
<1> QED BY <1>1, <1>2, LeadsOne

\* The words that have come, read one by one.
LEMMA LeadsReadFifo ==
    ASSUME NEW n, NEW ask, NEW buf, NEW len \in Nat
    PROVE  Leads(Free("plain", n, Awake, TRUE, ask, TRUE, In(LenWords(len), 0, 0), "none"), ReadFifo(buf, len),
                 Rest("plain"))
<1> DEFINE e == LenWords(len)
<1>1. 0 \in Nat /\ 0 = 4 * 0 /\ e = LenWords(len)
  OBVIOUS
<1> HIDE DEF e
<1>2. Follows(Free("plain", n, Awake, TRUE, ask, TRUE, In(e, 0, 0), "none"), Fill(buf, len, 0, 0), Left(Awake, len))
  BY <1>1, FollowsFill
<1>3. Leads(Free("plain", n, Awake, TRUE, ask, TRUE, In(e, 0, 0), "none"), <<Fill(buf, len, 0, 0)>>, Left(Awake, len))
  BY <1>2, LeadsOne
<1> QED BY <1>3, LeadsTail, LeadsJoin DEF ReadFifo, e

\* w25q128jw_read_standard.
LEMMA LeadsReadStandard ==
    ASSUME NEW addr, NEW buf, NEW len \in Nat \ {0}
    PROVE  Leads(Rest("plain"), w25q128jw_read_standard(addr, buf, len), Rest("plain"))
<1> DEFINE e == LenWords(len)
<1>1. 0 \in Nat /\ 0 < TxDepth /\ 1 = 0 + 1 /\ "none" # "tx" /\ 0 + LenWords(len) = e
  BY RoomIs DEF LenWords
<1> HIDE DEF e
<1>2. Leads(Free("plain", 0, Awake, TRUE, "none", TRUE, In(0, 0, 0), "none"), StandardRead(addr, len),
            Free("plain", 1, Awake, TRUE, "RD", TRUE, In(e, 0, 0), "none"))
  BY <1>1, LeadsStandardRead
<1>3. Leads(Free("plain", 1, Awake, TRUE, "RD", TRUE, In(e, 0, 0), "none"), ReadFifo(buf, len), Rest("plain"))
  BY LeadsReadFifo DEF e
<1>4. Free("plain", 0, Awake, TRUE, "none", TRUE, In(0, 0, 0), "none") = Rest("plain")
  BY RestIs DEF Clean
<1> QED BY <1>2, <1>3, <1>4, LeadsJoin DEF w25q128jw_read_standard

\* w25q128jw_read_quad.
LEMMA LeadsReadQuad ==
    ASSUME NEW addr, NEW buf, NEW len \in Nat \ {0}
    PROVE  Leads(Rest("plain"), w25q128jw_read_quad(addr, buf, len), Rest("plain"))
<1> DEFINE e == LenWords(len)
<1>1. 0 + LenWords(len) = e
  BY DEF LenWords
<1> HIDE DEF e
<1>2. Leads(Free("plain", 0, Awake, TRUE, "none", TRUE, In(0, 0, 0), "none"), QuadRead(addr, len),
            Free("plain", 2, Awake, TRUE, "RDQIO", TRUE, In(e, 0, 0), "none"))
  BY <1>1, LeadsQuadRead
<1>3. Leads(Free("plain", 2, Awake, TRUE, "RDQIO", TRUE, In(e, 0, 0), "none"), ReadFifo(buf, len), Rest("plain"))
  BY LeadsReadFifo DEF e
<1>4. Free("plain", 0, Awake, TRUE, "none", TRUE, In(0, 0, 0), "none") = Rest("plain")
  BY RestIs DEF Clean
<1> QED BY <1>2, <1>3, <1>4, LeadsJoin DEF w25q128jw_read_quad

\* The channel is started before the command, or after it.
LEMMA LeadsDmaThenRead ==
    ASSUME NEW k, NEW addr, NEW buf, NEW len \in Nat \ {0}, len % 4 = 0
    PROVE  /\ Leads(Rest(k), <<DmaRx(buf, len)>> \o StandardRead(addr, len),
                    Free(k, 1, Awake, TRUE, "RD", TRUE, In(0, 0, 0), "rx"))
           /\ Leads(Rest(k), QuadRead(addr, len) \o <<DmaRx(buf, len)>>,
                    Free(k, 2, Awake, TRUE, "RDQIO", TRUE, In(0, 0, 0), "rx"))
<1> DEFINE n == len \div 4
           m == 0 - n
           x0 == Free(k, 0, Awake, TRUE, "none", TRUE, In(0, 0, 0), "none")
           x1 == Free(k, 0, Awake, TRUE, "none", TRUE, In(m, 0, 0), "rx")
           x2 == Free(k, 1, Awake, TRUE, "RD", TRUE, In(0, 0, 0), "rx")
           x3 == Free(k, 2, Awake, TRUE, "RDQIO", TRUE, In(n, 0, 0), "none")
           x4 == Free(k, 2, Awake, TRUE, "RDQIO", TRUE, In(0, 0, 0), "rx")
<1>1. n \in Nat \ {0} /\ LenWords(len) = n /\ m + LenWords(len) = 0 /\ 0 + LenWords(len) = n /\ 0 = n - n
  BY WholeIs
<1>2. x0 = Rest(k)
  BY RestIs DEF Clean
<1>3. Follows(x0, DmaRx(buf, len), x1)
  <2>1. m = 0 - (len \div 4) /\ len \div 4 \in Nat \ {0}
    BY <1>1
  <2> HIDE DEF m
  <2> QED BY <2>1, FollowsDmaRx DEF Free
<1>4. Leads(x1, StandardRead(addr, len), x2)
  <2>1. 0 \in Nat /\ 0 < TxDepth /\ 1 = 0 + 1 /\ "rx" # "tx"
    BY RoomIs
  <2> HIDE DEF m
  <2> QED BY <2>1, <1>1, LeadsStandardRead
<1>5. Leads(x0, QuadRead(addr, len), x3)
  <2> HIDE DEF n
  <2> QED BY <1>1, LeadsQuadRead
<1>6. Follows(x3, DmaRx(buf, len), x4)
  <2>1. 0 = n - (len \div 4) /\ len \div 4 \in Nat \ {0}
    BY <1>1
  <2> HIDE DEF n
  <2> QED BY <2>1, FollowsDmaRx DEF Free
<1> HIDE DEF x0, x1, x2, x3, x4
<1>7. Leads(x0, <<DmaRx(buf, len)>>, x1) /\ Leads(x3, <<DmaRx(buf, len)>>, x4)
  BY <1>3, <1>6, LeadsOne
<1>8. Leads(x0, <<DmaRx(buf, len)>> \o StandardRead(addr, len), x2)
  BY <1>4, <1>7, LeadsJoin
<1>9. Leads(x0, QuadRead(addr, len) \o <<DmaRx(buf, len)>>, x4)
  BY <1>5, <1>7, LeadsJoin
<1> QED BY <1>2, <1>8, <1>9 DEF x2, x4

\* w25q128jw_read_standard_dma and w25q128jw_read_quad_dma.
LEMMA LeadsReadDma ==
    ASSUME NEW addr, NEW buf, NEW len \in Nat \ {0}, len % 4 = 0
    PROVE  /\ Leads(Rest("plain"), w25q128jw_read_standard_dma(addr, buf, len), Rest("plain"))
           /\ Leads(Rest("plain"), w25q128jw_read_quad_dma(addr, buf, len), Rest("plain"))
<1> DEFINE x2 == Free("plain", 1, Awake, TRUE, "RD", TRUE, In(0, 0, 0), "rx")
           x3 == Free("plain", 2, Awake, TRUE, "RDQIO", TRUE, In(LenWords(len), 0, 0), "none")
           x4 == Free("plain", 2, Awake, TRUE, "RDQIO", TRUE, In(0, 0, 0), "rx")
           n == len \div 4
<1>1. Leads(x2, <<DmaReady>>, Rest("plain")) /\ Leads(x4, <<DmaReady>>, Rest("plain"))
  BY LeadsDmaEnd
<1>2. Leads(Rest("plain"), <<DmaRx(buf, len)>> \o StandardRead(addr, len), x2)
  BY LeadsDmaThenRead
<1>3. Leads(Rest("plain"), QuadRead(addr, len), x3)
  <2>1. 0 + LenWords(len) = LenWords(len)
    BY DEF LenWords
  <2>2. Leads(Free("plain", 0, Awake, TRUE, "none", TRUE, In(0, 0, 0), "none"), QuadRead(addr, len), x3)
    BY <2>1, LeadsQuadRead
  <2> QED BY <2>2, RestIs DEF Clean
<1>4. Leads(x3, <<DmaRx(buf, len), DmaReady>>, Rest("plain"))
  <2>1. 0 = LenWords(len) - (len \div 4) /\ len \div 4 \in Nat \ {0}
    BY WholeIs
  <2> DEFINE e == LenWords(len)
  <2> HIDE DEF e
  <2>2. Follows(Free("plain", 2, Awake, TRUE, "RDQIO", TRUE, In(e, 0, 0), "none"), DmaRx(buf, len), x4)
    BY <2>1, FollowsDmaRx DEF Free, e
  <2>3. Follows(x4, DmaReady, Free("plain", 0, Awake, TRUE, "none", TRUE, In(0, 0, 0), "none"))
    BY FollowsDmaReady
  <2>4. Free("plain", 0, Awake, TRUE, "none", TRUE, In(0, 0, 0), "none") = Rest("plain")
    BY RestIs DEF Clean
  <2> QED BY <2>2, <2>3, <2>4, LeadsTwo DEF e
<1> HIDE DEF x2, x3, x4
<1>5. Leads(Rest("plain"), <<DmaRx(buf, len)>> \o StandardRead(addr, len) \o <<DmaReady>>, Rest("plain"))
  BY <1>1, <1>2, LeadsJoin
<1>6. Leads(Rest("plain"), QuadRead(addr, len) \o <<DmaRx(buf, len), DmaReady>>, Rest("plain"))
  BY <1>3, <1>4, LeadsJoin
<1> QED BY <1>5, <1>6, WholeTail DEF w25q128jw_read_standard_dma, w25q128jw_read_quad_dma

-----------------------------------------------------------------------------
(* The reads the application may choose.                                   *)

\* w25q128jw_read: by DMA from the threshold on.
LEMMA LeadsAuto ==
    ASSUME NEW addr, NEW buf, NEW len \in Nat \ {0}, WholeRead("auto", len)
    PROVE  Leads(Rest("plain"), w25q128jw_read(addr, buf, len), Rest("plain"))
<1>1. CASE len < RX_DMA_THRESHOLD
  BY <1>1, LeadsReadQuad DEF w25q128jw_read
<1>2. CASE ~(len < RX_DMA_THRESHOLD)
  <2>1. len % 4 = 0
    <3>1. RX_DMA_THRESHOLD \in Int
      BY SizesAssumption
    <3> QED BY <1>2, <3>1 DEF WholeRead
  <2>2. Leads(Rest("plain"), <<DmaReady>>, Rest("plain"))
    <3>1. Rest("plain") = Free("plain", 0, Awake, TRUE, "none", TRUE, In(0, 0, 0), "none")
      BY RestIs DEF Clean
    <3> QED BY <3>1, LeadsDmaEnd
  <2>3. Leads(Rest("plain"), w25q128jw_read_quad_dma(addr, buf, len), Rest("plain"))
    BY <2>1, LeadsReadDma
  <2> QED BY <1>2, <2>2, <2>3, LeadsJoin DEF w25q128jw_read
<1> QED BY <1>1, <1>2

\* Every read that waits for its data.
LEMMA LeadsRead ==
    ASSUME NEW variant \in ReadWays, NEW addr, NEW buf, NEW len \in Nat, WholeRead(variant, len)
    PROVE  Leads(Rest("plain"), Read(variant, addr, buf, len), Rest("plain"))
<1>1. CASE Sane(addr, len)
  <2>1. len \in Nat \ {0}
    BY <1>1 DEF Sane
  <2>2. Read(variant, addr, buf, len) = ReadBy(variant, addr, buf, len)
    BY <1>1 DEF Read, ReadWays
  <2>3. CASE variant = "standard"
    <3>1. ReadBy(variant, addr, buf, len) = w25q128jw_read_standard(addr, buf, len)
      BY <2>3 DEF ReadBy
    <3> QED BY <2>1, <2>2, <3>1, LeadsReadStandard
  <2>4. CASE variant = "quad"
    <3>1. ReadBy(variant, addr, buf, len) = w25q128jw_read_quad(addr, buf, len)
      BY <2>4 DEF ReadBy
    <3> QED BY <2>1, <2>2, <3>1, LeadsReadQuad
  <2>5. CASE variant = "standard_dma"
    <3>1. ReadBy(variant, addr, buf, len) = w25q128jw_read_standard_dma(addr, buf, len)
      BY <2>5 DEF ReadBy
    <3>2. len % 4 = 0
      BY <2>5 DEF WholeRead
    <3> QED BY <2>1, <2>2, <3>1, <3>2, LeadsReadDma
  <2>6. CASE variant = "quad_dma"
    <3>1. ReadBy(variant, addr, buf, len) = w25q128jw_read_quad_dma(addr, buf, len)
      BY <2>6 DEF ReadBy
    <3>2. len % 4 = 0
      BY <2>6 DEF WholeRead
    <3> QED BY <2>1, <2>2, <3>1, <3>2, LeadsReadDma
  <2>7. CASE variant = "auto"
    <3>1. ReadBy(variant, addr, buf, len) = w25q128jw_read(addr, buf, len)
      BY <2>7 DEF ReadBy
    <3> QED BY <2>1, <2>2, <2>7, <3>1, LeadsAuto
  <2> QED BY <2>3, <2>4, <2>5, <2>6, <2>7 DEF ReadWays
<1>2. CASE ~Sane(addr, len)
  <2>1. Read(variant, addr, buf, len) = <<Return("ERROR")>>
    BY <1>2 DEF Read
  <2>2. AtRest(Rest("plain"))
    BY DEF AtRest
  <2> QED BY <2>1, <2>2, RestIsQuiet, LeadsReturn
<1> QED BY <1>1, <1>2

\* A read that does not wait leaves the channel at work, or is refused.
LEMMA LeadsReadAsync ==
    ASSUME NEW variant \in AsyncWays, NEW addr, NEW buf, NEW len \in Nat, WholeRead(variant, len)
    PROVE  \E r : r \in {Rest("async"), Reading(1), Reading(2)} /\ Leads(Rest("async"), Read(variant, addr, buf, len), r)
<1>1. CASE Sane(addr, len) /\ (variant = "standard_dma_async" => len % 4 = 0)
  <2>1. len \in Nat \ {0} /\ len % 4 = 0
    BY <1>1 DEF Sane, WholeRead, AsyncWays
  <2>2. Read(variant, addr, buf, len) = ReadBy(variant, addr, buf, len)
    BY <1>1 DEF Read
  <2>3. CASE variant = "standard_dma_async"
    <3> DEFINE a == <<DmaRx(buf, len)>> \o StandardRead(addr, len)
               x == Free("async", 1, Awake, TRUE, "RD", TRUE, In(0, 0, 0), "rx")
    <3>1. Read(variant, addr, buf, len) = a
      BY <2>2, <2>3 DEF ReadBy, w25q128jw_read_standard_dma_async
    <3>2. Leads(Rest("async"), a, x)
      BY <2>1, LeadsDmaThenRead
    <3>3. Forget(x) = Reading(1)
      BY DEF Forget, Reading, Free, View, Bus, In
    <3>4. a # <<>>
      <4> DEFINE b == <<DmaRx(buf, len)>>
                 c == StandardRead(addr, len)
      <4>1. IsSequence(b) /\ Len(b) = 1
        BY OneIs
      <4>2. IsSequence(c)
        <5>1. Leads(Free("async", 0, Awake, TRUE, "none", TRUE, In(0, 0, 0), "none"), c,
                    Free("async", 1, Awake, TRUE, "RD", TRUE, In(LenWords(len), 0, 0), "none"))
          <6>1. 0 \in Nat /\ 0 < TxDepth /\ 1 = 0 + 1 /\ "none" # "tx" /\ 0 + LenWords(len) = LenWords(len)
            BY RoomIs DEF LenWords
          <6> QED BY <6>1, <2>1, LeadsStandardRead
        <5> QED BY <5>1 DEF Leads
      <4> HIDE DEF b, c
      <4>3. Len(b \o c) = 1 + Len(c) /\ Len(c) \in Nat
        BY <4>1, <4>2, SequenceIs
      <4>4. b \o c # <<>>
        BY <4>3, EmptySeq
      <4> QED BY <4>4 DEF b, c
    <3> HIDE DEF a, x
    <3>5. Leads(Rest("async"), a, Reading(1))
      BY <3>2, <3>3, <3>4, LeadsForget
    <3> QED BY <3>1, <3>5
  <2>4. CASE variant = "quad_dma_async"
    <3> DEFINE a == QuadRead(addr, len) \o <<DmaRx(buf, len)>>
               x == Free("async", 2, Awake, TRUE, "RDQIO", TRUE, In(0, 0, 0), "rx")
    <3>1. Read(variant, addr, buf, len) = a
      BY <2>2, <2>4 DEF ReadBy, w25q128jw_read_quad_dma_async
    <3>2. Leads(Rest("async"), a, x)
      BY <2>1, LeadsDmaThenRead
    <3>3. Forget(x) = Reading(2)
      BY DEF Forget, Reading, Free, View, Bus, In
    <3>4. a # <<>>
      <4> DEFINE b == <<DmaRx(buf, len)>>
                 c == QuadRead(addr, len)
      <4>1. IsSequence(b) /\ Len(b) = 1
        BY OneIs
      <4>2. IsSequence(c)
        <5>1. Leads(Free("async", 0, Awake, TRUE, "none", TRUE, In(0, 0, 0), "none"), c,
                    Free("async", 2, Awake, TRUE, "RDQIO", TRUE, In(LenWords(len), 0, 0), "none"))
          <6>1. 0 + LenWords(len) = LenWords(len)
            BY DEF LenWords
          <6> QED BY <6>1, <2>1, LeadsQuadRead
        <5> QED BY <5>1 DEF Leads
      <4> HIDE DEF b, c
      <4>3. Len(c \o b) = Len(c) + 1 /\ Len(c) \in Nat
        BY <4>1, <4>2, SequenceIs
      <4>4. c \o b # <<>>
        BY <4>3, EmptySeq
      <4> QED BY <4>4 DEF b, c
    <3> HIDE DEF a, x
    <3>5. Leads(Rest("async"), a, Reading(2))
      BY <3>2, <3>3, <3>4, LeadsForget
    <3> QED BY <3>1, <3>5
  <2> QED BY <2>3, <2>4 DEF AsyncWays
<1>2. CASE ~(Sane(addr, len) /\ (variant = "standard_dma_async" => len % 4 = 0))
  <2>1. Read(variant, addr, buf, len) = <<Return("ERROR")>>
    BY <1>2 DEF Read
  <2>2. AtRest(Rest("async"))
    BY DEF AtRest
  <2> QED BY <2>1, <2>2, RestIsQuiet, LeadsReturn
<1> QED BY <1>1, <1>2

\* w25q128jw_wait_quad_dma_async.
LEMMA LeadsWaitDma ==
    ASSUME NEW b, NEW d, NEW buf, NEW len, len % 4 = 0
    PROVE  Leads(Free("plain", b, Awake, TRUE, "none", TRUE, In(0, 0, 0), d),
                 w25q128jw_wait_quad_dma_async(buf, len), Rest("plain"))
BY LeadsDmaEnd, WholeTail DEF w25q128jw_wait_quad_dma_async

-----------------------------------------------------------------------------
(* The data of a page.                                                     *)

\* Data for the command in progress: a number of words is in the FIFO for it.
Filled(k, t, n, op, K, d) ==
    View(k, Out(t, n, "none", "none"), Bus(op, K, TRUE, "none", FALSE), In(0, 0, 0), d, TRUE)

\* A word of data for the command in progress.
LEMMA FollowsData ==
    ASSUME NEW k, NEW t \in Nat, NEW n \in Nat, NEW op, op # "none", NEW K, NEW s, s.do = "data",
           NEW u, u = t + 1, NEW m, m = n + 1
    PROVE  Follows(Filled(k, t, n, op, K, "none"), s, Filled(k, u, m, op, K, "none"))
<1> DEFINE q == Filled(k, t, n, op, K, "none")
<1>1. /\ q.kind = k /\ q.out = Out(t, n, "none", "none") /\ q.bus = Bus(op, K, TRUE, "none", FALSE)
      /\ q.in = In(0, 0, 0) /\ q.dma = "none" /\ q.rdy = TRUE
  BY DEF Filled, View
<1> HIDE DEF q
<1>2. /\ q.out.t = t /\ q.out.b = n /\ q.out.first = "none" /\ q.out.second = "none" /\ q.bus.op = op
  BY <1>1 DEF Out, Bus
<1>3. Permitted(q, s)
  BY <1>1, <1>2 DEF Permitted, Opening
<1>4. Out(q.out.t + 1, q.out.b + 1, q.out.first, q.out.second) = Out(u, m, "none", "none")
  BY <1>2
<1>5. After(q, s) = Filled(k, u, m, op, K, "none")
  BY <1>1, <1>4 DEF After, Filled
<1> QED BY <1>3, <1>5 DEF Follows, q

\* The data of a page, written by the processor.
LEMMA LeadsData ==
    ASSUME NEW k, NEW t \in Nat, NEW n \in Nat, NEW op, op # "none", NEW K, NEW buf, NEW at,
           NEW len \in Nat, NEW c, c = LenWords(len), NEW u, u = t + c, NEW m, m = n + c
    PROVE  Leads(Filled(k, t, n, op, K, "none"), DataWords(buf, at, len), Filled(k, u, m, op, K, "none"))
<1> DEFINE s == DataWords(buf, at, len)
           step(i) == [do |-> "data", buf |-> buf, at |-> at + 4 * (i - 1), n |-> Min({4, len - 4 * (i - 1)})]
           view(i) == Filled(k, t + (i - 1), n + (i - 1), op, K, "none")
           tr == [i \in 1..c + 1 |-> view(i)]
<1>a. c \in Nat
  BY DEF LenWords
<1>1. /\ IsSequence(s) /\ Len(s) = c /\ \A i \in 1..c : s[i].do = "data"
  <2> DEFINE S == {step(i) : i \in 1..c}
  <2>1. s = [i \in 1..c |-> step(i)]
    BY DEF DataWords
  <2>2. s \in [1..c -> S] /\ \A i \in 1..c : s[i] = step(i)
    BY <2>1
  <2>3. \A i \in 1..c : step(i).do = "data"
    OBVIOUS
  <2> HIDE DEF s, S, step
  <2>4. IsSequence(s) /\ Len(s) = c
    BY <1>a, <2>2, FunctionIs
  <2> QED BY <2>2, <2>3, <2>4
<1>2. \A i \in 1..c : Follows(view(i), s[i], view(i + 1))
  <2> TAKE i \in 1..c
  <2> DEFINE t1 == t + (i - 1)
             n1 == n + (i - 1)
             t2 == t + (i + 1 - 1)
             n2 == n + (i + 1 - 1)
  <2>1. t1 \in Nat /\ n1 \in Nat /\ t2 = t1 + 1 /\ n2 = n1 + 1 /\ s[i].do = "data"
    BY <1>a, <1>1, SMTT(30)
  <2> HIDE DEF t1, n1, t2, n2, s
  <2>2. Follows(Filled(k, t1, n1, op, K, "none"), s[i], Filled(k, t2, n2, op, K, "none"))
    BY <2>1, FollowsData
  <2> QED BY <2>2 DEF t1, n1, t2, n2
<1>3. tr[1] = view(1) /\ tr[c + 1] = view(c + 1) /\ \A i \in 1..c : tr[i] = view(i) /\ tr[i + 1] = view(i + 1)
  BY <1>a, SMTT(30)
<1>4. view(1) = Filled(k, t, n, op, K, "none") /\ view(c + 1) = Filled(k, u, m, op, K, "none")
  <2> DEFINE t1 == t + (1 - 1)
             n1 == n + (1 - 1)
             j == c + 1
             t2 == t + (j - 1)
             n2 == n + (j - 1)
  <2>1. t1 = t /\ n1 = n /\ t2 = u /\ n2 = m
    BY <1>a
  <2>2. \A i, a, b : a = t + (i - 1) /\ b = n + (i - 1) => view(i) = Filled(k, a, b, op, K, "none")
    OBVIOUS
  <2> HIDE DEF view
  <2>3. view(1) = Filled(k, t1, n1, op, K, "none")
    BY <2>2
  <2> HIDE DEF j
  <2>4. view(j) = Filled(k, t2, n2, op, K, "none")
    BY <2>2
  <2>5. view(c + 1) = view(j)
    BY DEF j
  <2> HIDE DEF t1, n1, t2, n2
  <2> QED BY <2>1, <2>3, <2>4, <2>5
<1> HIDE DEF tr, view, s
<1>5. \A i \in 1..c : Follows(tr[i], s[i], tr[i + 1])
  BY <1>2, <1>3
<1> QED BY <1>1, <1>3, <1>4, <1>5 DEF Leads, s

\* The channel brings the words.
LEMMA LeadsDmaTx ==
    ASSUME NEW k, NEW n \in Nat, NEW op, op # "none", NEW K, NEW s, s.do = "dma", s.dir = "tx",
           s.n \in Nat \ {0}, NEW m, m = n + s.n
    PROVE  Leads(Filled(k, 0, n, op, K, "none"), <<s, DmaReady>>, Filled(k, s.n, m, op, K, "none"))
<1> DEFINE q == Filled(k, 0, n, op, K, "none")
           r == Filled(k, s.n, m, op, K, "tx")
           z == Filled(k, s.n, m, op, K, "none")
<1>1. /\ q.kind = k /\ q.out = Out(0, n, "none", "none") /\ q.bus = Bus(op, K, TRUE, "none", FALSE)
      /\ q.in = In(0, 0, 0) /\ q.dma = "none" /\ q.rdy = TRUE
  BY DEF Filled, View
<1>2. /\ r.kind = k /\ r.out = Out(s.n, m, "none", "none") /\ r.bus = Bus(op, K, TRUE, "none", FALSE)
      /\ r.in = In(0, 0, 0) /\ r.dma = "tx" /\ r.rdy = TRUE
  BY DEF Filled, View
<1>3. DmaReady.do = "dma_is_ready"
  BY DEF DmaReady, Step
<1> HIDE DEF q, r
<1>4. q.out.t = 0 /\ q.out.b = n /\ q.out.first = "none" /\ q.out.second = "none" /\ q.bus.op = op
  BY <1>1 DEF Out, Bus
<1>5. ~r.bus.last
  BY <1>2 DEF Bus
<1>6. Permitted(q, s)
  BY <1>1, <1>4 DEF Permitted, Opening
<1>7. Permitted(r, DmaReady)
  BY <1>3 DEF Permitted
<1>8. Out(q.out.t + s.n, q.out.b + s.n, q.out.first, q.out.second) = Out(s.n, m, "none", "none")
  <2>1. q.out.t + s.n = s.n /\ q.out.b + s.n = m
    BY <1>4
  <2> QED BY <1>4, <2>1
<1>9. After(q, s) = r
  BY <1>1, <1>8 DEF After, Filled, r
<1>10. After(r, DmaReady) = z
  BY <1>2, <1>3, <1>5 DEF After, Filled
<1> HIDE DEF z
<1>11. Follows(q, s, r) /\ Follows(r, DmaReady, z)
  BY <1>6, <1>7, <1>9, <1>10 DEF Follows
<1> QED BY <1>11, LeadsTwo DEF q, z

\* dma_send_toflash.
LEMMA LeadsSend ==
    ASSUME NEW k, NEW n \in Nat, NEW op, op # "none", NEW K, NEW buf, NEW at,
           NEW len \in Nat \ {0}, len >= 4, NEW c, c = LenWords(len), NEW m, m = n + c
    PROVE  Leads(Filled(k, 0, n, op, K, "none"), dma_send_toflash(buf, at, len), Filled(k, c, m, op, K, "none"))
<1> DEFINE s == [do |-> "dma", dir |-> "tx", buf |-> buf, at |-> at, n |-> len \div 4]
           a == len \div 4
           b == LenWords(len % 4)
           l == len % 4
           m1 == n + a
           at1 == at + 4 * (len \div 4)
<1>1. s.do = "dma" /\ s.dir = "tx" /\ s.n = a
  OBVIOUS
<1>2. /\ a \in Nat \ {0} /\ l \in Nat /\ b \in Nat /\ c = a + b /\ m1 \in Nat /\ m1 = n + a /\ m = m1 + b
      /\ b = LenWords(l)
  BY DEF LenWords
<1>3. dma_send_toflash(buf, at, len) = <<s, DmaReady>> \o DataWords(buf, at1, l)
  BY DEF dma_send_toflash
<1> HIDE DEF s, a, b, l, m1, at1
<1>4. Leads(Filled(k, 0, n, op, K, "none"), <<s, DmaReady>>, Filled(k, a, m1, op, K, "none"))
  <2>1. s.n \in Nat \ {0} /\ m1 = n + s.n
    BY <1>1, <1>2
  <2> QED BY <1>1, <2>1, LeadsDmaTx
<1>5. Leads(Filled(k, a, m1, op, K, "none"), DataWords(buf, at1, l), Filled(k, c, m, op, K, "none"))
  BY <1>2, LeadsData
<1> QED BY <1>3, <1>4, <1>5, LeadsJoin

-----------------------------------------------------------------------------
(* Writing a page.                                                         *)

\* The lesser of two.
LEMMA MinOfTwo ==
    ASSUME NEW a \in Int, NEW b \in Int
    PROVE  Min({a, b}) = IF a <= b THEN a ELSE b
<1>1. \E m \in {a, b} : \A y \in {a, b} : m <= y
  OBVIOUS
<1> QED BY <1>1 DEF Min

\* A page with its data: what comes within the room of the FIFO.
LEMMA LeadsPage ==
    ASSUME NEW variant, NEW addr, NEW buf, NEW at, NEW len \in Nat \ {0},
           len <= FLASH_PAGE_SIZE, UsesDma(variant) => len >= 4
    PROVE  Leads(Rest("plain"), page_write(variant, addr, buf, at, len), Rest("plain"))
<1> DEFINE k == "plain"
           op == IF UsesQuad(variant) THEN "PPQ" ELSE "PP"
           c == LenWords(len)
           m == 2 + c
           K1 == Awake \cup {"wel"}
           K2 == {"up", "qe"}
           in == In(0, 0, 0)
           x1 == Free(k, 1, K1, TRUE, "none", FALSE, in, "none")
           x2 == View(k, Out(1, 2, op, "none"), Bus("none", K1, TRUE, "none", FALSE), in, "none", TRUE)
           x3 == Busy(k, 2, op, K1, TRUE, in, "none")
           x4 == Filled(k, c, m, op, K1, "none")
           x5 == Free(k, m, K2, TRUE, "none", FALSE, in, "none")
           s1 == flash_write_enable
           s2 == <<Word(Op(op, addr))>>
           s3 == Command(4, TRUE, "TX_ONLY")
           s4 == IF UsesDma(variant) THEN dma_send_toflash(buf, at, len) ELSE DataWords(buf, at, len)
           s5 == Command(len, FALSE, "TX_ONLY")
           s6 == flash_wait
<1>1. op \in {"PP", "PPQ"} /\ op # "none" /\ op \in Mutating
  BY DEF Mutating
<1>2. c \in Nat \ {0} /\ m \in Nat /\ m < TxDepth /\ m = 2 + c /\ c = 0 + c
  <2>1. FLASH_PAGE_SIZE \in Nat /\ FLASH_PAGE_SIZE % 4 = 0 /\ TxDepth \in Nat
    BY HostAssumption, SizesAssumption
  <2>2. TxDepth >= FLASH_PAGE_SIZE \div 4 + 3
    BY GeometryAssumption
  <2>3. LenWords(len) \in Nat \ {0} /\ LenWords(len) <= FLASH_PAGE_SIZE \div 4
    BY <2>1 DEF LenWords
  <2> QED BY <2>1, <2>2, <2>3
<1>3. Taken(op, K1) = TRUE
  <2> HIDE DEF op
  <2> QED BY <1>1, TakenIs
<1>4. Known(op, K1, TRUE) = K2
  <2>1. Known(op, K1, TRUE) = K1 \ {"idle", "wel"}
    <3> HIDE DEF op, K1
    <3> QED BY <1>1, KnownIs
  <2> QED BY <2>1 DEF Awake
<1>a. /\ 0 \in Nat /\ 0 < TxDepth /\ 1 = 0 + 1 /\ Awake \subseteq Awake /\ 1 \in Nat /\ 1 < TxDepth /\ 2 = 1 + 1
      /\ 2 \in Nat /\ 4 \in Nat \ {0} /\ LenWords(4) = 1 /\ TRUE \in BOOLEAN /\ FALSE \in BOOLEAN /\ "none" # "tx"
  BY RoomIs, OneWord
<1>5. Leads(Rest(k), s1, x1)
  <2>1. Leads(Free(k, 0, Awake, TRUE, "none", TRUE, In(0, 0, 0), "none"), s1, x1)
    BY <1>a, LeadsEnable
  <2> QED BY <2>1, RestIs DEF Clean
<1> HIDE DEF k, op, c, m, K1, K2, in
<1>6. Leads(x1, s2, x2)
  <2>1. Follows(View(k, NoWords(1), Bus("none", K1, TRUE, "none", FALSE), in, "none", TRUE), Word(Op(op, addr)), x2)
    BY <1>a, <1>1, FollowsOpcodeOf
  <2> QED BY <2>1, LeadsOne DEF Free
<1>7. Leads(x2, s3, x3)
  <2>1. Leads(x2, s3, View(k, NoWords(2), Held(TRUE, op, K1, Taken(op, K1), "none", FALSE), in, "none", TRUE))
    BY <1>a, <1>3, LeadsFirstCommand
  <2>2. Held(TRUE, op, K1, Taken(op, K1), "none", FALSE) = Bus(op, K1, TRUE, "none", FALSE)
    BY <1>3 DEF Held
  <2> QED BY <2>1, <2>2 DEF Busy
<1>8. x3 = Filled(k, 0, 2, op, K1, "none")
  BY DEF Busy, Filled, NoWords, in
<1>9. Leads(x3, s4, x4)
  <2>1. CASE UsesDma(variant)
    <3>1. Leads(Filled(k, 0, 2, op, K1, "none"), dma_send_toflash(buf, at, len), x4)
      <4>1. len >= 4 /\ c = LenWords(len)
        BY <2>1 DEF c
      <4> QED BY <1>1, <1>2, <1>a, <4>1, LeadsSend
    <3> QED BY <1>8, <2>1, <3>1
  <2>2. CASE ~UsesDma(variant)
    <3>1. Leads(Filled(k, 0, 2, op, K1, "none"), DataWords(buf, at, len), x4)
      <4>1. len \in Nat /\ c = LenWords(len)
        BY DEF c
      <4> QED BY <1>1, <1>2, <1>a, <4>1, LeadsData
    <3> QED BY <1>8, <2>2, <3>1
  <2> QED BY <2>1, <2>2
<1>10. Leads(x4, s5, x5)
  <2>1. c \in Nat /\ LenWords(len) = c
    BY <1>2 DEF c
  <2>2. Leads(View(k, Out(c, m, "none", "none"), Bus(op, K1, TRUE, "none", FALSE), in, "none", TRUE), s5,
              View(k, NoWords(m), Held(FALSE, op, K1, TRUE, "none", FALSE), in, "none", TRUE))
    BY <1>1, <1>2, <1>a, <2>1, LeadsNextCommand
  <2>3. Held(FALSE, op, K1, TRUE, "none", FALSE) = Bus("none", K2, TRUE, "none", FALSE)
    BY <1>4 DEF Held
  <2> QED BY <2>2, <2>3 DEF Filled, Free, in
<1>11. Leads(x5, s6, Rest(k))
  <2>1. "up" \in K2 /\ K2 \cup {"idle"} = Awake
    BY DEF K2, Awake
  <2>2. Leads(Free(k, m, K2, TRUE, "none", FALSE, In(0, 0, 0), "none"), s6, Clean(k, 0, K2 \cup {"idle"}, TRUE))
    BY <1>2, <2>1, LeadsWait
  <2> QED BY <2>1, <2>2, RestIs DEF in
<1>12. Leads(Rest(k), s1 \o s2 \o s3 \o s4 \o s5 \o s6, Rest(k))
  <2> HIDE DEF x1, x2, x3, x4, x5, s1, s2, s3, s4, s5, s6
  <2>1. Leads(Rest(k), s1 \o s2, x2)
    BY <1>5, <1>6, LeadsJoin
  <2>2. Leads(Rest(k), s1 \o s2 \o s3, x3)
    BY <2>1, <1>7, LeadsJoin
  <2>3. Leads(Rest(k), s1 \o s2 \o s3 \o s4, x4)
    BY <2>2, <1>9, LeadsJoin
  <2>4. Leads(Rest(k), s1 \o s2 \o s3 \o s4 \o s5, x5)
    BY <2>3, <1>10, LeadsJoin
  <2> QED BY <2>4, <1>11, LeadsJoin
<1> USE DEF k, op
<1>13. page_write(variant, addr, buf, at, len) = s1 \o s2 \o s3 \o s4 \o s5 \o s6
  BY DEF page_write
<1> QED BY <1>12, <1>13

\* The loop over the pages, to be unrolled.
LEMMA FollowsPages ==
    ASSUME NEW variant, NEW addr \in Nat, NEW buf, NEW at, NEW len \in Nat \ {0}, UsesDma(variant) => len % 4 = 0
    PROVE  Follows(Rest("plain"), Pages(variant, addr, buf, at, len), Rest("plain"))
<1> DEFINE s == Pages(variant, addr, buf, at, len)
<1>1. s.do = "pages" /\ s.len = len /\ s.addr = addr /\ s.variant = variant
  BY DEF Pages
<1> HIDE DEF s
<1>2. Permitted(Rest("plain"), s)
  BY <1>1 DEF Permitted
<1>3. After(Rest("plain"), s) = Rest("plain")
  BY <1>1 DEF After
<1> QED BY <1>2, <1>3 DEF Follows, s

\* A round of the loop over the pages.
LEMMA LeadsPagesRound ==
    ASSUME NEW p, p.len \in Nat \ {0}, p.addr \in Nat, UsesDma(p.variant) => p.len % 4 = 0
    PROVE  Leads(Rest("plain"), PagesRound(p), Rest("plain"))
<1> DEFINE page == FLASH_PAGE_SIZE
<1>1. page \in Nat \ {0} /\ page % 4 = 0
  BY SizesAssumption
<1>2. CASE p.len > page
  <2>1. Leads(Rest("plain"), page_write(p.variant, p.addr, p.buf, p.at, page), Rest("plain"))
    <3>1. page >= 4 /\ page <= page
      BY <1>1
    <3> QED BY <1>1, <3>1, LeadsPage
  <2> DEFINE r == Pages(p.variant, p.addr + page, p.buf, p.at + page, p.len - page)
  <2>2. Leads(Rest("plain"), <<r>>, Rest("plain"))
    <3>1. p.addr + page \in Nat /\ p.len - page \in Nat \ {0} /\ (UsesDma(p.variant) => (p.len - page) % 4 = 0)
      BY <1>1, <1>2
    <3> QED BY <3>1, FollowsPages, LeadsOne
  <2>3. PagesRound(p) = page_write(p.variant, p.addr, p.buf, p.at, page) \o <<r>>
    BY <1>2 DEF PagesRound
  <2> HIDE DEF r
  <2> QED BY <2>1, <2>2, <2>3, LeadsJoin
<1>3. CASE ~(p.len > page)
  <2>1. p.len <= page /\ (UsesDma(p.variant) => p.len >= 4)
    BY <1>1, <1>3
  <2>2. PagesRound(p) = page_write(p.variant, p.addr, p.buf, p.at, p.len)
    BY <1>3 DEF PagesRound
  <2> QED BY <2>1, <2>2, LeadsPage
<1> QED BY <1>2, <1>3

-----------------------------------------------------------------------------
(* Writing pages and sectors.                                              *)

\* Quotient and rest.
LEMMA Divided ==
    ASSUME NEW a \in Nat, NEW p \in Nat \ {0}
    PROVE  a = p * (a \div p) + (a % p) /\ a % p \in 0..p - 1 /\ a \div p \in Nat
OBVIOUS

\* The rest of whole words by whole words is whole words.
LEMMA WholeMod ==
    ASSUME NEW a \in Nat, NEW p \in Nat \ {0}, a % 4 = 0, p % 4 = 0
    PROVE  (a % p) % 4 = 0
<1> DEFINE t == p \div 4
           d == a \div p
           b == a \div 4
           r == a % p
<1>1. t \in Nat /\ b \in Nat /\ p = 4 * t /\ a = 4 * b
  OBVIOUS
<1>2. d \in Nat /\ r \in Nat /\ a = p * d + r
  BY Divided
<1> HIDE DEF t, d, b, r
<1>3. 4 * b = (4 * t) * d + r
  BY <1>1, <1>2
<1> DEFINE x == t * d
<1>4. x \in Nat /\ (4 * t) * d = 4 * x
  BY <1>1, <1>2
<1> HIDE DEF x
<1>5. r % 4 = 0
  BY <1>1, <1>2, <1>3, <1>4
<1> QED BY <1>5 DEF r

\* The start of a sector is a whole number of words.
LEMMA StartIs ==
    ASSUME NEW addr \in Nat
    PROVE  LET start == AlignDown(addr, FLASH_SECTOR_SIZE)
           IN  start \in Nat /\ addr - start \in 0..FLASH_SECTOR_SIZE - 1 /\ start % 4 = 0
<1> DEFINE S == FLASH_SECTOR_SIZE
           t == S \div 4
           d == addr \div S
           r == addr % S
<1>1. S \in Nat \ {0} /\ S % 4 = 0
  BY SizesAssumption
<1>2. t \in Nat /\ S = 4 * t
  BY <1>1
<1>3. d \in Nat /\ r \in 0..S - 1 /\ addr = S * d + r
  BY <1>1, Divided
<1>4. AlignDown(addr, S) = addr - r
  BY DEF AlignDown
<1> HIDE DEF S, t, d, r
<1> DEFINE x == t * d
<1>5. x \in Nat /\ S * d = 4 * x
  BY <1>2, <1>3
<1> HIDE DEF x
<1>6. addr - r = 4 * x /\ (4 * x) % 4 = 0
  BY <1>3, <1>5
<1> QED BY <1>1, <1>3, <1>4, <1>5, <1>6 DEF S

\* The loop over the pages.
LEMMA LeadsPages ==
    ASSUME NEW variant, NEW addr \in Nat, NEW buf, NEW at, NEW len \in Nat \ {0}, UsesDma(variant) => len % 4 = 0
    PROVE  Leads(Rest("plain"), <<Pages(variant, addr, buf, at, len)>>, Rest("plain"))
BY FollowsPages, LeadsOne

\* page_write_wrapper: the first page up to its end, then whole pages.
LEMMA LeadsWrapper ==
    ASSUME NEW variant, NEW addr \in Nat, NEW buf, NEW len \in Nat, WholeWrite(variant, addr, len)
    PROVE  Leads(Rest("plain"), page_write_wrapper(variant, addr, buf, len), Rest("plain"))
<1> DEFINE page == FLASH_PAGE_SIZE
           in_page == addr % page
           tmp_len == IF in_page = 0 THEN 0 ELSE Min({page - in_page, len})
           first == IF in_page # 0 THEN page_write(variant, addr, buf, 0, tmp_len) ELSE <<>>
           rest == IF len > tmp_len
                   THEN <<Pages(variant, addr + tmp_len, buf, tmp_len, len - tmp_len)>> ELSE <<>>
<1>1. CASE ~Sane(addr, len)
  <2>1. page_write_wrapper(variant, addr, buf, len) = <<Return("ERROR")>>
    BY <1>1 DEF page_write_wrapper
  <2>2. AtRest(Rest("plain"))
    BY DEF AtRest
  <2> QED BY <2>1, <2>2, RestIsQuiet, LeadsReturn
<1>2. CASE Sane(addr, len)
  <2>1. len > 0 /\ page \in Nat \ {0} /\ page % 4 = 0
    BY <1>2, SizesAssumption DEF Sane
  <2>2. page_write_wrapper(variant, addr, buf, len) = first \o rest
    BY <1>2 DEF page_write_wrapper
  <2>3. in_page \in 0..page - 1
    BY <2>1, Divided
  <2>4. UsesDma(variant) => in_page % 4 = 0 /\ len % 4 = 0
    BY <2>1, WholeMod DEF WholeWrite
  <2>5. /\ tmp_len \in Nat /\ tmp_len <= len /\ tmp_len <= page
        /\ in_page # 0 => tmp_len # 0
        /\ UsesDma(variant) => tmp_len % 4 = 0
    <3> HIDE DEF in_page, page
    <3>1. CASE in_page = 0
      BY <2>1, <3>1
    <3>2. CASE in_page # 0
      <4>1. page - in_page \in Int /\ len \in Int
        BY <2>1, <2>3
      <4>2. tmp_len = IF page - in_page <= len THEN page - in_page ELSE len
        BY <4>1, <3>2, MinOfTwo
      <4> QED BY <2>1, <2>3, <2>4, <3>2, <4>2
    <3> QED BY <3>1, <3>2
  <2> HIDE DEF tmp_len, in_page, page
  <2>6. Leads(Rest("plain"), first, Rest("plain"))
    <3>1. CASE in_page = 0
      <4>1. first = <<>>
        BY <3>1
      <4> HIDE DEF first
      <4> QED BY <4>1, LeadsNowhere
    <3>2. CASE in_page # 0
      <4>1. first = page_write(variant, addr, buf, 0, tmp_len)
        BY <3>2
      <4>2. tmp_len \in Nat \ {0} /\ tmp_len <= FLASH_PAGE_SIZE /\ (UsesDma(variant) => tmp_len >= 4)
        BY <2>5, <3>2 DEF page
      <4> HIDE DEF first
      <4> QED BY <4>1, <4>2, LeadsPage
    <3> QED BY <3>1, <3>2
  <2>7. Leads(Rest("plain"), rest, Rest("plain"))
    <3>1. CASE ~(len > tmp_len)
      <4>1. rest = <<>>
        BY <3>1
      <4> HIDE DEF rest
      <4> QED BY <4>1, LeadsNowhere
    <3>2. CASE len > tmp_len
      <4>1. rest = <<Pages(variant, addr + tmp_len, buf, tmp_len, len - tmp_len)>>
        BY <3>2
      <4>2. /\ addr + tmp_len \in Nat /\ len - tmp_len \in Nat \ {0}
            /\ UsesDma(variant) => (len - tmp_len) % 4 = 0
        BY <2>4, <2>5, <3>2
      <4> HIDE DEF rest
      <4> QED BY <4>1, <4>2, LeadsPages
    <3> QED BY <3>1, <3>2
  <2> HIDE DEF first, rest
  <2> QED BY <2>2, <2>6, <2>7, LeadsJoin
<1> QED BY <1>1, <1>2

\* Every write, for memory that is erased.
LEMMA LeadsWrite ==
    ASSUME NEW variant, NEW addr \in Nat, NEW buf, NEW len \in Nat, WholeWrite(variant, addr, len)
    PROVE  Leads(Rest("plain"), Write(variant, addr, buf, len), Rest("plain"))
<1>1. Leads(Rest("plain"), page_write_wrapper(variant, addr, buf, len), Rest("plain"))
  BY LeadsWrapper
<1>2. Leads(Rest("plain"), <<DmaReady>>, Rest("plain"))
  <2>1. Rest("plain") = Free("plain", 0, Awake, TRUE, "none", TRUE, In(0, 0, 0), "none")
    BY RestIs DEF Clean
  <2> QED BY <2>1, LeadsDmaEnd
<1> QED BY <1>1, <1>2, LeadsJoin DEF Write

\* The loop over the sectors, to be unrolled.
LEMMA LeadsSectors ==
    ASSUME NEW variant \in ReadWays, NEW addr \in Nat, NEW at, NEW len \in Nat
    PROVE  Leads(Rest("plain"), <<Sectors(variant, addr, at, len)>>, Rest("plain"))
<1> DEFINE s == Sectors(variant, addr, at, len)
<1>1. s.do = "sectors" /\ s.len = len /\ s.addr = addr /\ s.variant = variant
  BY DEF Sectors
<1> HIDE DEF s
<1>2. Permitted(Rest("plain"), s)
  BY <1>1 DEF Permitted
<1>3. After(Rest("plain"), s) = Rest("plain")
  BY <1>1 DEF After
<1> QED BY <1>2, <1>3, LeadsOne DEF Follows, s

\* The four erases.
LEMMA LeadsSectorErase ==
    ASSUME NEW addr
    PROVE  /\ Leads(Rest("plain"), w25q128jw_4k_erase(addr), Rest("plain"))
           /\ Leads(Rest("plain"), w25q128jw_32k_erase(addr), Rest("plain"))
           /\ Leads(Rest("plain"), w25q128jw_64k_erase(addr), Rest("plain"))
           /\ Leads(Rest("plain"), w25q128jw_chip_erase, Rest("plain"))
<1>1. 4 \in Nat \ {0} /\ 1 \in Nat \ {0} /\ LenWords(4) = 1 /\ LenWords(1) = 1
  BY OneWord
<1>2. \A op \in {"SE", "BE32", "BE64", "CE"} : /\ Leads(Rest("plain"), EraseCommand(op, addr, 4), Rest("plain"))
                                               /\ Leads(Rest("plain"), EraseCommand(op, 0, 1), Rest("plain"))
  BY <1>1, LeadsErase
<1>3. Leads(Rest("plain"), <<>>, Rest("plain"))
  BY LeadsNowhere
<1>4. \A steps : Leads(Rest("plain"), steps, Rest("plain")) => Leads(Rest("plain"), IfInFlash(addr, steps), Rest("plain"))
  BY <1>3 DEF IfInFlash
<1> QED BY <1>2, <1>4 DEF w25q128jw_4k_erase, w25q128jw_32k_erase, w25q128jw_64k_erase, w25q128jw_chip_erase

\* A round of the loop over the sectors: read, erase, write back.
LEMMA LeadsSectorsRound ==
    ASSUME NEW s, s.variant \in ReadWays, s.addr \in Nat, s.len \in Nat
    PROVE  Leads(Rest("plain"), SectorsRound(s), Rest("plain"))
<1> DEFINE S == FLASH_SECTOR_SIZE
           start == AlignDown(s.addr, S)
           n == Min({S - (s.addr - start), s.len})
           c == [do |-> "memcpy", to |-> s.addr - start, at |-> s.at, n |-> n]
           s1 == Read(s.variant, start, "sector", S)
           s2 == w25q128jw_4k_erase(start)
           s3 == <<c>>
           s4 == Write(s.variant, start, "sector", S)
           s5 == <<Sectors(s.variant, s.addr + n, s.at + n, s.len - n)>>
           x == Rest("plain")
<1>1. CASE s.len = 0
  BY <1>1, LeadsNowhere DEF SectorsRound
<1>2. CASE s.len # 0
  <2>1. S \in Nat \ {0} /\ S % 4 = 0
    BY SizesAssumption
  <2>2. start \in Nat /\ s.addr - start \in 0..S - 1 /\ start % 4 = 0
    BY StartIs
  <2>3. SectorsRound(s) = s1 \o s2 \o s3 \o s4 \o s5
    BY <1>2 DEF SectorsRound
  <2>4. n \in Nat /\ n <= s.len
    <3> HIDE DEF start, S
    <3>1. S - (s.addr - start) \in Nat
      BY <2>1, <2>2
    <3> DEFINE m == S - (s.addr - start)
    <3> HIDE DEF m
    <3>2. m \in Nat
      BY <3>1 DEF m
    <3>3. Min({m, s.len}) = IF m <= s.len THEN m ELSE s.len
      BY <3>2, MinOfTwo
    <3>4. Min({m, s.len}) \in Nat /\ Min({m, s.len}) <= s.len
      BY <3>2, <3>3
    <3> QED BY <3>4 DEF m
  <2>5. Leads(x, s1, x)
    <3>1. WholeRead(s.variant, S)
      BY <2>1 DEF WholeRead
    <3> HIDE DEF start
    <3> QED BY <2>1, <3>1, LeadsRead
  <2>6. Leads(x, s2, x)
    BY LeadsSectorErase
  <2>7. Leads(x, s3, x)
    <3>1. c.do = "memcpy"
      OBVIOUS
    <3> HIDE DEF c
    <3>2. Permitted(x, c) /\ After(x, c) = x
      BY <3>1 DEF Permitted, After
    <3> QED BY <3>2, LeadsOne DEF Follows
  <2>8. Leads(x, s4, x)
    <3>1. WholeWrite(s.variant, start, S)
      BY <2>1, <2>2 DEF WholeWrite
    <3> HIDE DEF start
    <3> QED BY <2>1, <2>2, <3>1, LeadsWrite
  <2>9. Leads(x, s5, x)
    <3> HIDE DEF n
    <3>1. s.addr + n \in Nat /\ s.len - n \in Nat
      BY <2>4
    <3> QED BY <3>1, LeadsSectors
  <2> HIDE DEF s1, s2, s3, s4, s5, x
  <2>10. Leads(x, s1 \o s2, x)
    BY <2>5, <2>6, LeadsJoin
  <2>11. Leads(x, s1 \o s2 \o s3, x)
    BY <2>7, <2>10, LeadsJoin
  <2>12. Leads(x, s1 \o s2 \o s3 \o s4, x)
    BY <2>8, <2>11, LeadsJoin
  <2>13. Leads(x, s1 \o s2 \o s3 \o s4 \o s5, x)
    BY <2>9, <2>12, LeadsJoin
  <2> QED BY <2>3, <2>13 DEF x
<1> QED BY <1>1, <1>2

-----------------------------------------------------------------------------
(* Every call leads to a rest.                                             *)

\* The kind of view a call ends in.
KindOf(c) == IF c.fn = "power_down" THEN "off" ELSE IF Async(c) THEN "async" ELSE "plain"

\* The views of the driver between two calls.
LEMMA RestsAre == /\ AtRest(Rest("plain")) /\ AtRest(Rest("async")) /\ AtRest(Reading(1)) /\ AtRest(Reading(2))
                  /\ AtRest(Down) /\ AtRest(Cold)
BY DEF AtRest

\* A function with its return value.
LEMMA LeadsAndReturns ==
    ASSUME NEW x, NEW s, NEW r, Leads(x, s, r), AtRest(r), NEW code, r.dma = "rx" => code = "OK"
    PROVE  Leads(x, s \o <<Return(code)>>, r)
BY LeadsReturn, LeadsJoin

\* The functions that erase and write.
LEMMA LeadsEraseAndWrite ==
    ASSUME NEW variant \in ReadWays, NEW addr \in Nat, NEW len \in Nat
    PROVE  Leads(Rest("plain"), EraseAndWrite(variant, addr, len), Rest("plain"))
<1>1. \A v \in ReadWays : Leads(Rest("plain"), <<Sectors(v, addr, 0, len)>>, Rest("plain"))
  BY LeadsSectors
<1>2. Leads(Rest("plain"), <<Return("ERROR")>>, Rest("plain"))
  BY RestsAre, RestIsQuiet, LeadsReturn
<1>3. \/ EraseAndWrite(variant, addr, len) = <<Sectors(variant, addr, 0, len)>>
      \/ EraseAndWrite(variant, addr, len) = <<Return("ERROR")>>
  <2>1. CASE variant = "standard"
    BY <2>1 DEF EraseAndWrite, w25q128jw_erase_and_write_standard
  <2>2. CASE variant = "standard_dma"
    BY <2>2 DEF EraseAndWrite, w25q128jw_erase_and_write_standard_dma
  <2>3. CASE variant = "quad"
    BY <2>3 DEF EraseAndWrite, w25q128jw_erase_and_write_quad
  <2>4. CASE variant = "quad_dma"
    BY <2>4 DEF EraseAndWrite, w25q128jw_erase_and_write_quad_dma
  <2>5. CASE variant = "auto"
    BY <2>5 DEF EraseAndWrite, erase_and_write
  <2> QED BY <2>1, <2>2, <2>3, <2>4, <2>5 DEF ReadWays
<1> QED BY <1>1, <1>2, <1>3

\* A call starts and ends with nothing under way, but for the reads that do not wait.
LEMMA LeadsProgram ==
    ASSUME NEW c, WellFormed(c)
    PROVE  \E r : AtRest(r) /\ Leads(Rest(KindOf(c)), Program(c), r)
<1> DEFINE x == Rest("plain")
<1>a. c.addr \in Nat /\ c.len \in Nat
  BY DEF WellFormed
<1>1. CASE c.fn = "read" /\ c.variant \in ReadWays
  <2>1. KindOf(c) = "plain"
    BY <1>1 DEF KindOf, Async, ReadWays
  <2>2. WholeRead(c.variant, c.len)
    BY <1>1 DEF WellFormed
  <2>3. Leads(x, Read(c.variant, c.addr, "user", c.len), x)
    BY <1>1, <1>a, <2>2, LeadsRead
  <2>4. Program(c) = Read(c.variant, c.addr, "user", c.len) \o <<Return("OK")>>
    BY <1>1 DEF Program
  <2> QED BY <2>1, <2>3, <2>4, RestsAre, RestIsQuiet, LeadsAndReturns
<1>2. CASE c.fn = "read" /\ c.variant \in AsyncWays
  <2>1. KindOf(c) = "async"
    BY <1>2 DEF KindOf, Async, AsyncWays
  <2>2. WholeRead(c.variant, c.len)
    BY <1>2 DEF WellFormed
  <2>3. PICK r : /\ r \in {Rest("async"), Reading(1), Reading(2)}
                 /\ Leads(Rest("async"), Read(c.variant, c.addr, "user", c.len), r)
    BY <1>2, <1>a, <2>2, LeadsReadAsync
  <2>4. Program(c) = Read(c.variant, c.addr, "user", c.len) \o <<Return("OK")>>
    BY <1>2 DEF Program
  <2>5. AtRest(r)
    BY <2>3, RestsAre
  <2> QED BY <2>1, <2>3, <2>4, <2>5, LeadsAndReturns
<1>3. CASE c.fn = "write"
  <2>1. KindOf(c) = "plain"
    BY <1>3 DEF KindOf, Async
  <2>2. WholeWrite(c.variant, c.addr, c.len)
    BY <1>3 DEF WellFormed
  <2>3. Leads(x, Write(c.variant, c.addr, "user", c.len), x)
    BY <1>a, <2>2, LeadsWrite
  <2>4. Program(c) = Write(c.variant, c.addr, "user", c.len) \o <<Return("OK")>>
    BY <1>3 DEF Program
  <2> QED BY <2>1, <2>3, <2>4, RestsAre, RestIsQuiet, LeadsAndReturns
<1>4. CASE c.fn = "erase_and_write"
  <2>1. KindOf(c) = "plain"
    BY <1>4 DEF KindOf, Async
  <2>2. Leads(x, EraseAndWrite(c.variant, c.addr, c.len), x)
    <3>1. c.variant \in ReadWays
      BY <1>4 DEF WellFormed
    <3> QED BY <1>a, <3>1, LeadsEraseAndWrite
  <2>3. Program(c) = EraseAndWrite(c.variant, c.addr, c.len) \o <<Return("OK")>>
    BY <1>4 DEF Program
  <2> QED BY <2>1, <2>2, <2>3, RestsAre, RestIsQuiet, LeadsAndReturns
<1>5. CASE c.fn = "erase"
  <2>1. KindOf(c) = "plain"
    BY <1>5 DEF KindOf, Async
  <2>2. c.variant \in EraseWays
    BY <1>5 DEF WellFormed
  <2>3. Leads(x, Erase(c.variant, c.addr), x)
    <3>1. CASE c.variant = "SE"
      BY <3>1, LeadsSectorErase DEF Erase
    <3>2. CASE c.variant = "BE32"
      BY <3>2, LeadsSectorErase DEF Erase
    <3>3. CASE c.variant = "BE64"
      BY <3>3, LeadsSectorErase DEF Erase
    <3>4. CASE c.variant = "CE"
      BY <3>4, LeadsSectorErase DEF Erase
    <3> QED BY <2>2, <3>1, <3>2, <3>3, <3>4 DEF EraseWays
  <2>4. Program(c) = Erase(c.variant, c.addr) \o <<Return("NONE")>>
    BY <1>5 DEF Program
  <2> QED BY <2>1, <2>3, <2>4, RestsAre, RestIsQuiet, LeadsAndReturns
<1>6. CASE c.fn = "reset"
  <2>1. KindOf(c) = "plain"
    BY <1>6 DEF KindOf, Async
  <2>2. Program(c) = w25q128jw_reset \o <<Return("NONE")>>
    BY <1>6 DEF Program
  <2> QED BY <2>1, <2>2, LeadsResets, RestsAre, RestIsQuiet, LeadsAndReturns
<1>7. CASE c.fn = "reset_force"
  <2>1. KindOf(c) = "plain"
    BY <1>7 DEF KindOf, Async
  <2>2. Program(c) = w25q128jw_reset_force \o <<Return("NONE")>>
    BY <1>7 DEF Program
  <2> QED BY <2>1, <2>2, LeadsResets, RestsAre, RestIsQuiet, LeadsAndReturns
<1>8. CASE c.fn = "power_down"
  <2>1. KindOf(c) = "off"
    BY <1>8 DEF KindOf
  <2>2. Program(c) = w25q128jw_power_down \o <<Return("NONE")>>
    BY <1>8 DEF Program
  <2>3. Leads(Rest("off"), w25q128jw_power_down, Down)
    <3>1. 0 \in Nat /\ 0 < TxDepth /\ 1 = 0 + 1
      BY RoomIs
    <3>2. Leads(Free("off", 0, Awake, TRUE, "none", TRUE, In(0, 0, 0), "none"), w25q128jw_power_down,
                Free("off", 1, Awake \ {"up"}, TRUE, "none", FALSE, In(0, 0, 0), "none"))
      BY <3>1, LeadsPowerDown
    <3>3. Free("off", 1, Awake \ {"up"}, TRUE, "none", FALSE, In(0, 0, 0), "none") = Down
      BY DEF Down, Free
    <3> QED BY <3>2, <3>3, RestIs DEF Clean
  <2> QED BY <2>1, <2>2, <2>3, RestsAre, RestIsQuiet, LeadsAndReturns
<1> QED BY <1>1, <1>2, <1>3, <1>4, <1>5, <1>6, <1>7, <1>8 DEF WellFormed

\* The call that initialises and the call that waits for an asynchronous
\* read.
LEMMA LeadsOthers ==
    ASSUME NEW c
    PROVE  /\ c.fn = "init" => Leads(Waking, Program(c), Rest("plain"))
           /\ c.fn = "wait" /\ c.len % 4 = 0 =>
                 \A b, d : Leads(Free("plain", b, Awake, TRUE, "none", TRUE, In(0, 0, 0), d), Program(c), Rest("plain"))
<1>1. CASE c.fn = "init"
  <2>1. Program(c) = flash_power_up \o set_QE_bit
    BY <1>1 DEF Program
  <2> QED BY <1>1, <2>1, LeadsInit
<1>2. CASE c.fn = "wait" /\ c.len % 4 = 0
  <2>1. Program(c) = w25q128jw_wait_quad_dma_async("user", c.len) \o <<Return("OK")>>
    BY <1>2 DEF Program
  <2> QED BY <1>2, <2>1, LeadsWaitDma, RestsAre, RestIsQuiet, LeadsAndReturns
<1> QED BY <1>1, <1>2

=============================================================================
