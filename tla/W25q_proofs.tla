----------------------------- MODULE W25q_proofs ----------------------------
(***************************************************************************)
(* What holds of the driver of the W25Q128JW, for every flash, every FIFO  *)
(* depth, every set of tests and every interleaving of the host, the DMA   *)
(* and the flash with the driver: no command is lost, and a write is       *)
(* confined to its sectors.                                                *)
(*                                                                         *)
(* A command is lost when the flash refuses it, and it is the flash that   *)
(* takes it, long after the driver queued it.  W25q_programs says that the *)
(* programs of the driver respect its view of what is under way.           *)
(*                                                                         *)
(* Tracked: a chain of states, one for each command under way, starts from *)
(* the state of the flash now and ends in a state that agrees with the     *)
(* view of the driver.  The host, the DMA and the flash keep it; a         *)
(* permitted step of the driver extends it.  The chain says that the       *)
(* command at its head is taken, which is what the step that executes it   *)
(* needs.                                                                  *)
(*                                                                         *)
(* That a write is confined to its sectors needs of the view only that     *)
(* nothing waits when the write begins.  From there on, each word that is  *)
(* queued, under way or still to be queued is harmless on its own.         *)
(***************************************************************************)
EXTENDS W25q_programs

-----------------------------------------------------------------------------
(* What the states have to do with the views.                              *)

\* The facts that are so.
TrueFacts == {f \in Facts : /\ f = "up" => ~flash.down
                            /\ f = "idle" => ~flash.busy
                            /\ f = "wel" => flash.wel
                            /\ f = "qe" => (app.ready => flash.qe)}

\* The commands under way: the running one and those in the queue.
PendOf(running, queued) == running \o [i \in 1..Len(queued) |-> Begin(queued[i])]
Pend == PendOf(cur, cmdq)

\* The words the DMA has still to move from the RX FIFO, and to the TX FIFO.
Drx == IF dma.dir = "rx" THEN dma.n ELSE 0
Dtx == IF dma.dir = "tx" THEN dma.n ELSE 0

\* The state of the bus and of the flash now.
Fits(s) ==
    /\ s.t = 0 /\ s.r = 0
    /\ s.op = (IF flash.sel = <<>> THEN "none" ELSE flash.sel[1].op)
    /\ s.tk /\ flash.sel # <<>> /\ (s.op \in {"RDQIO", "PPQ"} => app.ready) => flash.sel[1].taken
    /\ s.K \subseteq TrueFacts

\* What the commands under way leave, one after the other.
Chain(st) ==
    /\ Fits(st[0])
    /\ \A i \in 1..Len(Pend) : st[i] = HostAfter(Pend[i], st[i - 1])
    /\ \A i \in 0..Len(Pend) : st[i].t \in Nat /\ st[i].r \in Nat /\ st[i].t <= Len(tx) /\ (app.ready => st[i].tk)
    /\ \A i, j \in 0..Len(Pend) : i <= j => st[i].t <= st[j].t /\ st[i].r <= st[j].r

\* The commands under way.
Commands ==
    \A i \in 1..Len(Pend) :
       /\ Pend[i].cmd.direction \in {"TX_ONLY", "RX_ONLY", "DUMMY"}
       /\ Pend[i].cmd.len \in Nat \ {0} /\ Pend[i].left \in Nat
       /\ i > 1 => Pend[i].left = WordsOf(Pend[i].cmd)

\* The view q agrees with the state s that the commands under way leave.
WordsAgree(q, s) ==
    /\ q.out.t = Len(tx) + Dtx - s.t /\ q.in.e = Len(rx) + s.r - Drx
    /\ q.out.b \in Nat /\ Len(tx) + Dtx <= q.out.b
    /\ q.bus.op = "none" /\ q.out.t >= 1 => tx[s.t + 1].op = q.out.first
    /\ q.bus.op = "none" /\ q.out.t = 2 => tx[s.t + 2].op = q.out.second

BusAgrees(q, s) ==
    /\ q.bus.op = s.op /\ q.bus.K \subseteq s.K /\ (q.bus.tk => s.tk)
    /\ q.bus.ask # "none" => q.bus.ask = s.ask
    /\ q.bus.last => s.ask # "none"

DmaAgrees(q) ==
    /\ q.dma \in {"none", "rx", "tx"} /\ (dma.n > 0 => dma.dir = q.dma)
    /\ q.bus.op = "none" => q.dma # "tx"

InAgrees(q) ==
    /\ q.in.wm \in Nat /\ q.in.have \in Nat /\ q.in.wm <= control.rxwm /\ q.in.have <= Len(rx)
    /\ q.dma = "rx" => q.in.have = 0
    /\ q.rdy => Len(cmdq) < CmdDepth

\* The last word received is what the flash answered to the last question.
AnswerKnown(q, s) ==
    s.r = 0 /\ rx # <<>> =>
       /\ q.bus.ask = "RSR1" /\ rx[Len(rx)][1] % 2 # 1 => ~flash.busy
       /\ q.bus.ask = "RSR2" /\ q.bus.tk /\ rx[Len(rx)][1] % 2 = 1 => flash.qe

\* The view agrees with the call and with the application.
CallAgrees(q) ==
    /\ q.kind = "init" => ~app.ready /\ call.fn = "init"
    /\ q.kind = "async" => app.ready /\ Async(call)
    /\ q.kind = "off" => IF prog = <<>> THEN ~app.ready ELSE call.fn = "power_down"
    /\ prog = <<>> /\ q.kind = "async" /\ q.dma = "rx" => call.code = "OK"
    /\ prog # <<>> /\ q.kind \in {"async", "off"} => prog[Len(prog)].do = "return"
    /\ Async(call) /\ call.len % 4 # 0 =>
          call.code # "OK" /\ (prog # <<>> => prog[1] = Return("ERROR"))

Agrees(q, s) ==
    WordsAgree(q, s) /\ BusAgrees(q, s) /\ DmaAgrees(q) /\ InAgrees(q) /\ AnswerKnown(q, s)

Tracked(q, st) == Chain(st) /\ Agrees(q, st[Len(Pend)])

\* The variables are what the code declares.
HostTyped ==
    /\ IsSequence(cur) /\ Len(cur) <= 1 /\ IsSequence(cmdq) /\ (cur = <<>> => cmdq = <<>>)
    /\ \A i \in 1..Len(cur) : cur[i] = [cmd |-> cur[i].cmd, left |-> cur[i].left]
    /\ IsSequence(tx) /\ IsSequence(rx) /\ \A i \in 1..Len(tx) : tx[i].op # "none"
    /\ control = [txwm |-> control.txwm, rxwm |-> control.rxwm] /\ control.rxwm \in Nat
    /\ dma = [dir |-> dma.dir, buf |-> dma.buf, at |-> dma.at, n |-> dma.n] /\ dma.n \in Nat

\* The flash, with the command in its shift register.
IsRecordOfSel(s) ==
    s = [op |-> s.op, addr |-> s.addr, bytes |-> s.bytes, sent |-> s.sent, taken |-> s.taken]
FlashTyped ==
    /\ flash = [sel |-> flash.sel, busy |-> flash.busy, wel |-> flash.wel, qe |-> flash.qe,
                armed |-> flash.armed, down |-> flash.down, lost |-> flash.lost]
    /\ flash.sel # <<>> =>
          /\ flash.sel = <<flash.sel[1]>> /\ flash.sel[1].op # "none" /\ IsRecordOfSel(flash.sel[1])

\* The application and its call.
AppTyped ==
    /\ app = [ready |-> app.ready, tests |-> app.tests, todo |-> app.todo, crashes |-> app.crashes]
    /\ call = [fn |-> call.fn, variant |-> call.variant, addr |-> call.addr, len |-> call.len,
               code |-> call.code, before |-> call.before]
    /\ IsSequence(app.todo)

HostKnown == HostTyped /\ FlashTyped /\ Commands

-----------------------------------------------------------------------------
(* The commands under way.                                                 *)

\* At most one, and not none.
LEMMA OneLeft == \A n \in Nat : n <= 1 /\ n # 0 => n = 1
OBVIOUS

\* The commands under way, as a sequence.
LEMMA PendIs ==
    ASSUME NEW c, NEW d, IsSequence(c), IsSequence(d), Len(c) <= 1, c = <<>> => d = <<>>
    PROVE  /\ Len(c) \in Nat /\ Len(d) \in Nat /\ Len(PendOf(c, d)) = Len(c) + Len(d)
           /\ IsSequence(PendOf(c, d))
           /\ \A i \in 1..Len(c) + Len(d) :
                 PendOf(c, d)[i] = IF i <= Len(c) THEN c[i] ELSE Begin(d[i - Len(c)])
           /\ c = <<>> => Len(c) = 0 /\ Len(d) = 0
           /\ c # <<>> => Len(c) = 1
<1> DEFINE e == [i \in 1..Len(d) |-> Begin(d[i])]
<1>1. PICK S, T : c \in Seq(S) /\ d \in Seq(T)
  BY DEF IsSequence
<1>2. Len(c) \in Nat /\ Len(d) \in Nat
  BY <1>1
<1>3. e \in Seq({Begin(d[i]) : i \in 1..Len(d)})
  BY <1>2
<1>4. Len(e) = Len(d)
  BY <1>2
<1>5. IsSequence(c) /\ IsSequence(e)
  BY <1>1, <1>3 DEF IsSequence
<1>6. \A i \in 1..Len(d) : e[i] = Begin(d[i])
  OBVIOUS
<1> HIDE DEF e
<1>7. PendOf(c, d) = c \o e
  BY DEF PendOf, e
<1>8. /\ IsSequence(c \o e) /\ Len(c \o e) = Len(c) + Len(e)
      /\ \A i \in 1..Len(c) + Len(e) : (c \o e)[i] = IF i <= Len(c) THEN c[i] ELSE e[i - Len(c)]
  BY <1>5, SequenceIs
<1>9. c # <<>> => Len(c) = 1
  <2> SUFFICES ASSUME c # <<>> PROVE Len(c) = 1
    OBVIOUS
  <2>1. Len(c) # 0
    BY <1>1, EmptySeq
  <2>2. Len(c) \in Nat /\ Len(c) <= 1
    BY <1>2
  <2> QED BY <2>1, <2>2, OneLeft, Zenon
<1>10. c = <<>> => Len(c) = 0 /\ Len(d) = 0
  OBVIOUS
<1>11. IsSequence(PendOf(c, d))
  BY <1>7, <1>8 DEF IsSequence
<1>12. \A i \in 1..Len(c) + Len(d) :
          PendOf(c, d)[i] = IF i <= Len(c) THEN c[i] ELSE Begin(d[i - Len(c)])
  BY <1>2, <1>4, <1>6, <1>7, <1>8, SMTT(30)
<1> QED BY <1>2, <1>4, <1>7, <1>8, <1>9, <1>10, <1>11, <1>12

-----------------------------------------------------------------------------
(* The effect of the commands under way.                                   *)

\* The commands under way, with the running one first.
Parts(c, d, p) ==
    /\ Len(c) \in Nat /\ Len(d) \in Nat /\ Len(p) \in Nat /\ Len(p) = Len(c) + Len(d)
    /\ \A i \in 1..Len(p) : p[i] = IF i <= Len(c) THEN c[i] ELSE Begin(d[i - Len(c)])
    /\ c = <<>> => Len(c) = 0 /\ Len(d) = 0 /\ Len(p) = 0
    /\ c # <<>> => Len(c) = 1 /\ p[1] = c[1] /\ 1 \in 1..Len(p)

\* The running command is the first.
LEMMA PartsAre ==
    ASSUME NEW c, NEW d, IsSequence(c), IsSequence(d), Len(c) <= 1, c = <<>> => d = <<>>
    PROVE  Parts(c, d, PendOf(c, d))
<1>1. /\ Len(c) \in Nat /\ Len(d) \in Nat /\ Len(PendOf(c, d)) = Len(c) + Len(d)
      /\ \A i \in 1..Len(c) + Len(d) :
                 PendOf(c, d)[i] = IF i <= Len(c) THEN c[i] ELSE Begin(d[i - Len(c)])
      /\ c = <<>> => Len(c) = 0 /\ Len(d) = 0
      /\ c # <<>> => Len(c) = 1
  BY PendIs
<1> DEFINE p == PendOf(c, d)
<1> HIDE DEF p
<1>2. /\ Len(c) \in Nat /\ Len(d) \in Nat /\ Len(p) = Len(c) + Len(d)
      /\ \A i \in 1..Len(c) + Len(d) : p[i] = IF i <= Len(c) THEN c[i] ELSE Begin(d[i - Len(c)])
      /\ c = <<>> => Len(c) = 0 /\ Len(d) = 0
      /\ c # <<>> => Len(c) = 1
  BY <1>1 DEF p
<1>3. Len(p) \in Nat /\ Len(p) = Len(c) + Len(d)
  BY <1>2
<1>4. c # <<>> => Len(c) = 1 /\ p[1] = c[1] /\ 1 \in 1..Len(p)
  BY <1>2
<1>5. \A i \in 1..Len(p) : p[i] = IF i <= Len(c) THEN c[i] ELSE Begin(d[i - Len(c)])
  BY <1>2
<1>6. Parts(c, d, p)
  BY <1>2, <1>3, <1>4, <1>5 DEF Parts
<1> QED BY <1>6 DEF p

\* The commands under way, before and after a step.
LEMMA PendNow ==
    /\ HostTyped => Parts(cur, cmdq, Pend)
    /\ HostTyped' => Parts(cur', cmdq', Pend')
<1>1. HostTyped => Parts(cur, cmdq, Pend)
  BY PartsAre DEF HostTyped, Pend
<1>2. HostTyped' => Parts(cur', cmdq', Pend')
  BY PartsAre DEF HostTyped, Pend
<1> QED BY <1>1, <1>2

\* The effect of a command, field by field.
LEMMA EffectIs ==
    ASSUME NEW c, NEW s, NEW o
    PROVE  /\ Effect(c, s, o).t = IF Sends(c.cmd) THEN s.t + c.left ELSE s.t
           /\ Effect(c, s, o).r = IF Receives(c.cmd) THEN s.r + c.left ELSE s.r
           /\ ~Opens(c, s) => Effect(c, s, o).op = (IF c.cmd.csaat THEN s.op ELSE "none")
           /\ ~Opens(c, s) => Effect(c, s, o).tk = s.tk
           /\ ~Opens(c, s) => Effect(c, s, o).K = IF c.cmd.csaat THEN s.K ELSE Known(s.op, s.K, s.tk)
           /\ ~Opens(c, s) => Effect(c, s, o).ask = (IF Receives(c.cmd) THEN s.op ELSE "none")
           /\ Opens(c, s) => Effect(c, s, o).op = (IF c.cmd.csaat THEN o ELSE "none")
           /\ Opens(c, s) => Effect(c, s, o).tk = Taken(o, s.K)
           /\ Opens(c, s) => Effect(c, s, o).K = IF c.cmd.csaat THEN s.K ELSE Known(o, s.K, Taken(o, s.K))
           /\ Opens(c, s) => Effect(c, s, o).ask = (IF Receives(c.cmd) THEN o ELSE "none")
           /\ ~Receives(c.cmd) => Effect(c, s, o).ask = "none"
BY DEF Effect

\* The words gone from the front of the FIFOs.
Less(s, dt, dr) == [t |-> s.t - dt, r |-> s.r - dr, op |-> s.op, tk |-> s.tk, K |-> s.K, ask |-> s.ask]

\* A state with fewer words in front, field by field.
LEMMA LessIs ==
    ASSUME NEW s, NEW dt, NEW dr
    PROVE  /\ Less(s, dt, dr).t = s.t - dt /\ Less(s, dt, dr).r = s.r - dr /\ Less(s, dt, dr).op = s.op
           /\ Less(s, dt, dr).tk = s.tk /\ Less(s, dt, dr).K = s.K /\ Less(s, dt, dr).ask = s.ask
BY DEF Less

\* The effect of a command does not depend on where its words are.
LEMMA EffectLess ==
    ASSUME NEW c, NEW s, NEW o, NEW dt \in Nat, NEW dr \in Nat, s.t \in Nat, s.r \in Nat, c.left \in Nat
    PROVE  Effect(c, Less(s, dt, dr), o) = Less(Effect(c, s, o), dt, dr)
<1> DEFINE u == Less(s, dt, dr)
<1>1. Opens(c, u) = Opens(c, s)
  BY LessIs DEF Opens
<1>2. /\ u.t = s.t - dt /\ u.r = s.r - dr /\ u.op = s.op /\ u.tk = s.tk /\ u.K = s.K /\ u.ask = s.ask
  BY LessIs
<1> HIDE DEF u
<1>3. (IF Sends(c.cmd) THEN u.t + c.left ELSE u.t) = (IF Sends(c.cmd) THEN s.t + c.left ELSE s.t) - dt
  BY <1>2
<1>4. (IF Receives(c.cmd) THEN u.r + c.left ELSE u.r) = (IF Receives(c.cmd) THEN s.r + c.left ELSE s.r) - dr
  BY <1>2
<1>5. Effect(c, u, o) = Less(Effect(c, s, o), dt, dr)
  BY <1>1, <1>2, <1>3, <1>4, Zenon DEF Effect, Less
<1> QED BY <1>5 DEF u

-----------------------------------------------------------------------------
(* A word goes over the wires: the flash.                                  *)

\* A sequence without its first element.
LEMMA TailIs ==
    ASSUME NEW s, IsSequence(s), s # <<>>
    PROVE  /\ IsSequence(Tail(s)) /\ Len(s) \in Nat /\ Len(s) >= 1 /\ Len(Tail(s)) = Len(s) - 1 /\ Head(s) = s[1]
           /\ \A i \in 1..Len(s) - 1 : Tail(s)[i] = s[i + 1]
<1>1. PICK S : s \in Seq(S)
  BY DEF IsSequence
<1>2. Len(s) \in Nat /\ Len(s) # 0
  BY <1>1, EmptySeq
<1>3. Tail(s) \in Seq(S) /\ Len(Tail(s)) = Len(s) - 1 /\ \A i \in 1..Len(s) - 1 : Tail(s)[i] = s[i + 1]
  BY <1>1, <1>2
<1> QED BY <1>2, <1>3 DEF IsSequence

\* A sequence with one more element.
LEMMA AppendIs ==
    ASSUME NEW s, IsSequence(s), NEW e
    PROVE  /\ IsSequence(Append(s, e)) /\ Len(s) \in Nat /\ Len(Append(s, e)) = Len(s) + 1
           /\ \A i \in 1..Len(s) : Append(s, e)[i] = s[i]
           /\ Append(s, e)[Len(s) + 1] = e /\ Append(s, e) # <<>>
<1>1. PICK S : s \in Seq(S)
  BY DEF IsSequence
<1>2. s \in Seq(S \cup {e}) /\ e \in S \cup {e}
  BY <1>1
<1>3. Append(s, e) \in Seq(S \cup {e})
  BY <1>2
<1>4. Len(Append(s, e)) = Len(s) + 1 /\ Len(s) \in Nat
  BY <1>2
<1>5. Append(s, e) # <<>>
  BY <1>4
<1> QED BY <1>2, <1>3, <1>4, <1>5 DEF IsSequence

\* A word goes over the wires.
LEMMA ExchangeIs ==
    ASSUME HostKnown, ExchangeWord
    PROVE  /\ cur # <<>> /\ cur[1].left \in Nat /\ cur[1].left > 0
           /\ cur' = <<[cmd |-> cur[1].cmd, left |-> cur[1].left - 1]>>
           /\ cmdq' = cmdq /\ control' = control /\ dma' = dma /\ mem' = mem /\ error_status' = error_status
           /\ prog' = prog /\ call' = call /\ user' = user /\ sector' = sector /\ app' = app
           /\ Sends(cur[1].cmd) => tx # <<>> /\ tx' = Tail(tx)
           /\ ~Sends(cur[1].cmd) => tx' = tx
           /\ Receives(cur[1].cmd) => rx' = Append(rx, Answer)
           /\ ~Receives(cur[1].cmd) => rx' = rx
           /\ ~(Sends(cur[1].cmd) /\ Receives(cur[1].cmd))
           /\ Len(cur) = 1 /\ Len(Pend) >= 1 /\ Len(Pend) \in Nat /\ Pend[1] = cur[1]
           /\ Len(Pend') = Len(Pend) /\ Pend'[1] = cur'[1]
           /\ cur'[1].left = cur[1].left - 1 /\ cur'[1].cmd = cur[1].cmd
           /\ \A i \in 2..Len(Pend) : Pend'[i] = Pend[i]
<1>1. /\ cur # <<>> /\ cur[1].left > 0 /\ (Sends(cur[1].cmd) => tx # <<>>)
      /\ cur' = <<[cur[1] EXCEPT !.left = @ - 1]>>
      /\ tx' = (IF Sends(cur[1].cmd) THEN Tail(tx) ELSE tx)
      /\ rx' = (IF Receives(cur[1].cmd) THEN Append(rx, Answer) ELSE rx)
      /\ cmdq' = cmdq
  BY DEF ExchangeWord, Exchange, CanExchange
<1>2. Parts(cur, cmdq, Pend)
  BY PendNow DEF HostKnown
<1>3. Len(cur) = 1 /\ Pend[1] = cur[1] /\ 1 \in 1..Len(Pend) /\ Len(Pend) \in Nat
  BY <1>1, <1>2 DEF Parts
<1>4. cur[1] = [cmd |-> cur[1].cmd, left |-> cur[1].left]
  BY <1>3 DEF HostKnown, HostTyped
<1>5. cur[1].left \in Nat /\ cur[1].cmd.direction \in {"TX_ONLY", "RX_ONLY", "DUMMY"}
  BY <1>3 DEF HostKnown, Commands
<1>6. cur' = <<[cmd |-> cur[1].cmd, left |-> cur[1].left - 1]>>
  BY <1>1, <1>4
<1>7. cur'[1].left = cur[1].left - 1 /\ cur'[1].cmd = cur[1].cmd /\ cur' # <<>>
  BY <1>6
<1>8. IsSequence(cur') /\ Len(cur') = 1
  BY <1>6, OneIs
<1>9. Parts(cur', cmdq', Pend')
  <2>1. IsSequence(cmdq') /\ Len(cur') <= 1
    BY <1>1, <1>8 DEF HostKnown, HostTyped
  <2> QED BY <1>7, <1>8, <2>1, PartsAre DEF Pend
<1>10. Len(Pend') = Len(Pend) /\ Pend'[1] = cur'[1] /\ \A i \in 2..Len(Pend) : Pend'[i] = Pend[i]
  <2>1. Len(Pend') = Len(Pend)
    BY <1>1, <1>2, <1>3, <1>8, <1>9 DEF Parts
  <2>2. Pend'[1] = cur'[1]
    BY <1>7, <1>9 DEF Parts
  <2>3. ASSUME NEW i \in 2..Len(Pend)
        PROVE  Pend'[i] = Pend[i]
    <3>1. i \in 1..Len(Pend) /\ ~(i <= 1)
      BY <1>3
    <3>2. Pend[i] = Begin(cmdq[i - Len(cur)])
      BY <1>2, <1>3, <3>1 DEF Parts
    <3>3. Pend'[i] = Begin(cmdq'[i - Len(cur')])
      BY <1>8, <1>9, <2>1, <3>1 DEF Parts
    <3> QED BY <1>1, <1>3, <1>8, <3>2, <3>3
  <2> QED BY <2>1, <2>2, <2>3
<1>11. ~(Sends(cur[1].cmd) /\ Receives(cur[1].cmd))
  BY <1>5 DEF Sends, Receives, Sending, Receiving
<1>12. /\ control' = control /\ dma' = dma /\ mem' = mem /\ error_status' = error_status
       /\ prog' = prog /\ call' = call /\ user' = user /\ sector' = sector /\ app' = app
  BY DEF ExchangeWord, HostKept, DriverKept
<1> QED BY <1>1, <1>3, <1>5, <1>6, <1>7, <1>10, <1>11, <1>12

\* A word changes the command in the shift register of the flash, and nothing
\* else of the flash.
LEMMA ExchangeSel ==
    ASSUME HostKnown, ExchangeWord
    PROVE  /\ FlashTyped' /\ flash'.busy = flash.busy /\ flash'.wel = flash.wel /\ flash'.qe = flash.qe
           /\ flash'.down = flash.down /\ flash'.lost = flash.lost
           /\ ~Sends(cur[1].cmd) => /\ flash'.sel = <<>> <=> flash.sel = <<>>
                                    /\ flash.sel # <<>> => /\ flash'.sel[1].op = flash.sel[1].op
                                                           /\ flash'.sel[1].taken = flash.sel[1].taken
           /\ Sends(cur[1].cmd) => /\ flash'.sel # <<>>
                                   /\ flash.sel # <<>> => /\ flash'.sel[1].op = flash.sel[1].op
                                                          /\ flash'.sel[1].taken = flash.sel[1].taken
                                   /\ flash.sel = <<>> => /\ flash'.sel[1].op = tx[1].op
                                                          /\ flash'.sel[1].taken = Takes(tx[1].op)
<1>1. flash = [sel |-> flash.sel, busy |-> flash.busy, wel |-> flash.wel, qe |-> flash.qe,
                armed |-> flash.armed, down |-> flash.down, lost |-> flash.lost]
  BY DEF HostKnown, FlashTyped
<1> DEFINE sel == IF Sends(cur[1].cmd) THEN Shift(Head(tx))
                  ELSE IF flash.sel = <<>> THEN flash.sel
                  ELSE <<Clocked(flash.sel[1])>>
<1>2. flash' = [flash EXCEPT !.sel = sel]
  BY DEF ExchangeWord
<1>3. flash' = [sel |-> sel, busy |-> flash.busy, wel |-> flash.wel, qe |-> flash.qe,
                armed |-> flash.armed, down |-> flash.down, lost |-> flash.lost]
  <2> HIDE DEF sel
  <2> QED BY <1>1, <1>2
<1>4. flash'.sel = sel /\ flash'.busy = flash.busy /\ flash'.wel = flash.wel /\ flash'.qe = flash.qe
      /\ flash'.down = flash.down /\ flash'.lost = flash.lost /\ flash'.armed = flash.armed
  <2> HIDE DEF sel
  <2> QED BY <1>3
<1>5. flash.sel # <<>> => /\ flash.sel = <<flash.sel[1]>> /\ flash.sel[1].op # "none"
                          /\ IsRecordOfSel(flash.sel[1])
  BY DEF HostKnown, FlashTyped
<1>6. ASSUME ~Sends(cur[1].cmd), flash.sel = <<>>
      PROVE  sel = <<>>
  BY <1>6
<1>7. ASSUME ~Sends(cur[1].cmd), flash.sel # <<>>
      PROVE  /\ sel # <<>> /\ sel = <<sel[1]>> /\ IsRecordOfSel(sel[1]) /\ sel[1].op = flash.sel[1].op
             /\ sel[1].taken = flash.sel[1].taken
  <2> DEFINE s == flash.sel[1]
             u == Clocked(s)
  <2>1. u = [op |-> s.op, addr |-> s.addr, bytes |-> s.bytes, sent |-> s.sent + BytesNow, taken |-> s.taken]
    BY <1>5, <1>7 DEF IsRecordOfSel, Clocked
  <2>2. sel = <<u>>
    BY <1>7
  <2> HIDE DEF u, sel
  <2>3. sel # <<>> /\ sel[1] = u
    BY <2>2
  <2>4. u.op = s.op /\ u.taken = s.taken /\ u.addr = s.addr /\ u.bytes = s.bytes /\ u.sent = s.sent + BytesNow
    BY <2>1
  <2>5. IsRecordOfSel(u)
    BY <2>1, <2>4 DEF IsRecordOfSel
  <2> QED BY <2>2, <2>3, <2>4, <2>5
<1>8. ASSUME Sends(cur[1].cmd), flash.sel = <<>>
      PROVE  /\ sel # <<>> /\ sel = <<sel[1]>> /\ IsRecordOfSel(sel[1]) /\ sel[1].op = tx[1].op
             /\ sel[1].taken = Takes(tx[1].op) /\ sel[1].op # "none"
  <2>1. tx # <<>> /\ IsSequence(tx) /\ \A i \in 1..Len(tx) : tx[i].op # "none"
    BY <1>8, ExchangeIs DEF HostKnown, HostTyped
  <2>2. Head(tx) = tx[1] /\ 1 \in 1..Len(tx)
    BY <2>1, TailIs
  <2> DEFINE u == [op |-> tx[1].op, addr |-> tx[1].addr, bytes |-> <<>>, sent |-> 0, taken |-> Takes(tx[1].op)]
  <2>3. sel = <<u>>
    BY <1>8, <2>2 DEF Shift
  <2> HIDE DEF sel
  <2>4. sel # <<>> /\ sel[1] = u
    BY <2>3
  <2>5. u.op = tx[1].op /\ u.addr = tx[1].addr /\ u.bytes = <<>> /\ u.sent = 0 /\ u.taken = Takes(tx[1].op)
    OBVIOUS
  <2>6. IsRecordOfSel(u)
    BY DEF IsRecordOfSel
  <2> QED BY <2>1, <2>2, <2>3, <2>4, <2>5, <2>6
<1>9. ASSUME Sends(cur[1].cmd), flash.sel # <<>>
      PROVE  /\ sel # <<>> /\ sel = <<sel[1]>> /\ IsRecordOfSel(sel[1]) /\ sel[1].op = flash.sel[1].op
             /\ sel[1].taken = flash.sel[1].taken
  <2> DEFINE s == flash.sel[1]
             w == Head(tx)
             bytes == s.bytes \o SubSeq(w.bytes \o <<Garbage, Garbage, Garbage, Garbage>>, 1, BytesNow)
             u == IF s.op = "RDQIO" THEN [s EXCEPT !.addr = w.addr] ELSE [s EXCEPT !.bytes = bytes]
  <2>1. sel = <<u>>
    BY <1>9 DEF Shift
  <2>2. s = [op |-> s.op, addr |-> s.addr, bytes |-> s.bytes, sent |-> s.sent, taken |-> s.taken]
    BY <1>5, <1>9 DEF IsRecordOfSel
  <2> HIDE DEF s, sel, bytes
  <2>3. /\ u = [op |-> u.op, addr |-> u.addr, bytes |-> u.bytes, sent |-> u.sent, taken |-> u.taken]
        /\ u.op = s.op /\ u.taken = s.taken
    <3>1. CASE s.op = "RDQIO"
      <4>1. u = [op |-> s.op, addr |-> w.addr, bytes |-> s.bytes, sent |-> s.sent, taken |-> s.taken]
        BY <3>1, <2>2
      <4> HIDE DEF u
      <4> QED BY <4>1
    <3>2. CASE s.op # "RDQIO"
      <4>1. u = [op |-> s.op, addr |-> s.addr, bytes |-> bytes, sent |-> s.sent, taken |-> s.taken]
        BY <3>2, <2>2
      <4> HIDE DEF u
      <4> QED BY <4>1
    <3> QED BY <3>1, <3>2
  <2> HIDE DEF u
  <2>4. sel # <<>> /\ sel[1] = u
    BY <2>1
  <2> QED BY <2>1, <2>3, <2>4 DEF IsRecordOfSel, s
<1> HIDE DEF sel
<1>10. FlashTyped'
  <2>1. flash' = [sel |-> flash'.sel, busy |-> flash'.busy, wel |-> flash'.wel, qe |-> flash'.qe,
                armed |-> flash'.armed, down |-> flash'.down, lost |-> flash'.lost]
    BY <1>3, <1>4
  <2>2. sel # <<>> => sel = <<sel[1]>> /\ sel[1].op # "none" /\ IsRecordOfSel(sel[1])
    BY <1>5, <1>6, <1>7, <1>8, <1>9
  <2>3. IsRecordOfSel(flash.sel[1])' = IsRecordOfSel(flash'.sel[1])
    BY DEF IsRecordOfSel
  <2> QED BY <1>4, <2>1, <2>2, <2>3 DEF FlashTyped
<1> QED BY <1>4, <1>6, <1>7, <1>8, <1>9, <1>10

-----------------------------------------------------------------------------
(* A word goes over the wires: the types.                                  *)

\* ExchangeWord keeps the types.
LEMMA ExchangeTyped ==
    ASSUME HostKnown, ExchangeWord
    PROVE  HostKnown'
<1>1. /\ cur # <<>> /\ cur[1].left \in Nat /\ cur[1].left > 0
      /\ cur' = <<[cmd |-> cur[1].cmd, left |-> cur[1].left - 1]>>
      /\ cmdq' = cmdq /\ control' = control /\ dma' = dma
      /\ Sends(cur[1].cmd) => tx # <<>> /\ tx' = Tail(tx)
      /\ ~Sends(cur[1].cmd) => tx' = tx
      /\ Receives(cur[1].cmd) => rx' = Append(rx, Answer)
      /\ ~Receives(cur[1].cmd) => rx' = rx
      /\ Len(cur) = 1 /\ Len(Pend) >= 1 /\ Len(Pend) \in Nat /\ Pend[1] = cur[1]
      /\ Len(Pend') = Len(Pend) /\ Pend'[1] = cur'[1]
      /\ cur'[1].left = cur[1].left - 1 /\ cur'[1].cmd = cur[1].cmd
      /\ \A i \in 2..Len(Pend) : Pend'[i] = Pend[i]
  BY ExchangeIs
<1>2. HostTyped'
  <2>1. IsSequence(cur') /\ Len(cur') = 1 /\ cur' # <<>>
    BY <1>1, OneIs
  <2>2. \A i \in 1..Len(cur') : cur'[i] = [cmd |-> cur'[i].cmd, left |-> cur'[i].left]
    <3>1. cur'[1] = [cmd |-> cur'[1].cmd, left |-> cur'[1].left]
      BY <1>1
    <3> QED BY <2>1, <3>1
  <2>3. IsSequence(tx') /\ \A i \in 1..Len(tx') : tx'[i].op # "none"
    <3>1. IsSequence(tx) /\ \A i \in 1..Len(tx) : tx[i].op # "none"
      BY DEF HostKnown, HostTyped
    <3>2. CASE tx' = tx
      BY <3>1, <3>2
    <3>3. CASE tx # <<>> /\ tx' = Tail(tx)
      BY <3>1, <3>3, TailIs
    <3> QED BY <1>1, <3>2, <3>3
  <2>4. IsSequence(rx')
    <3>1. IsSequence(rx)
      BY DEF HostKnown, HostTyped
    <3> QED BY <1>1, <3>1, AppendIs
  <2>5. IsSequence(cmdq') /\ control' = [txwm |-> control'.txwm, rxwm |-> control'.rxwm] /\ control'.rxwm \in Nat
        /\ dma' = [dir |-> dma'.dir, buf |-> dma'.buf, at |-> dma'.at, n |-> dma'.n] /\ dma'.n \in Nat
    BY <1>1 DEF HostKnown, HostTyped
  <2> QED BY <2>1, <2>2, <2>3, <2>4, <2>5 DEF HostTyped
<1>3. Commands'
  <2>1. Commands
    BY DEF HostKnown
  <2>2. ASSUME NEW i \in 1..Len(Pend')
        PROVE  /\ Pend'[i].cmd.direction \in {"TX_ONLY", "RX_ONLY", "DUMMY"}
               /\ Pend'[i].cmd.len \in Nat \ {0} /\ Pend'[i].left \in Nat
               /\ i > 1 => Pend'[i].left = WordsOf(Pend'[i].cmd)
    <3>1. CASE i = 1
      <4>1. 1 \in 1..Len(Pend) /\ cur[1].left - 1 \in Nat
        BY <1>1
      <4>2. Pend'[1].cmd = Pend[1].cmd /\ Pend'[1].left = cur[1].left - 1
        BY <1>1
      <4> QED BY <2>1, <3>1, <4>1, <4>2 DEF Commands
    <3>2. CASE i # 1
      <4>1. i \in 2..Len(Pend) /\ i \in 1..Len(Pend)
        BY <1>1, <3>2
      <4> QED BY <1>1, <2>1, <4>1 DEF Commands
    <3> QED BY <3>1, <3>2
  <2>3. Commands' = \A i \in 1..Len(Pend') :
                       /\ Pend'[i].cmd.direction \in {"TX_ONLY", "RX_ONLY", "DUMMY"}
                       /\ Pend'[i].cmd.len \in Nat \ {0} /\ Pend'[i].left \in Nat
                       /\ i > 1 => Pend'[i].left = WordsOf(Pend'[i].cmd)
    BY DEF Commands, WordsOf, LenWords
  <2> QED BY <2>2, <2>3
<1>4. FlashTyped'
  BY ExchangeSel
<1> QED BY <1>2, <1>3, <1>4 DEF HostKnown

\* The flash takes a command when what the command needs is so.
LEMMA TakenTakes ==
    ASSUME NEW op, NEW K, Taken(op, K), K \subseteq TrueFacts, op \in {"RDQIO", "PPQ"} => app.ready
    PROVE  Takes(op)
<1> DEFINE quad == op \in {"RDQIO", "PPQ"}
           asks == op \in {"RSR1", "RSR2", "ERESET", "RESET", "RPD"}
           writes == op \in {"PP", "PPQ", "SE", "BE32", "BE64", "CE", "WSR2"}
<1>1. \A f \in Facts : f \in Needs(op) => f \in TrueFacts
  BY DEF Taken
<1>2. op # "RPD" => ~flash.down
  BY <1>1 DEF Needs, Facts, TrueFacts
<1>3. ~asks => ~flash.busy
  BY <1>1 DEF Needs, Facts, TrueFacts
<1>4. writes => flash.wel
  BY <1>1 DEF Needs, Facts, TrueFacts, Mutating
<1>5. quad => flash.qe
  BY <1>1 DEF Needs, Facts, TrueFacts
<1>6. CASE op = "RPD"
  BY <1>6 DEF Takes
<1>7. CASE op # "RPD"
  BY <1>2, <1>3, <1>4, <1>5, <1>7 DEF Takes
<1> QED BY <1>6, <1>7

-----------------------------------------------------------------------------
(* A word goes over the wires: the first state.                            *)

\* The opcode matters for a command that opens a transaction.
LEMMA EffectAny ==
    ASSUME NEW c, NEW s, NEW o, NEW p, Opens(c, s) => o = p
    PROVE  Effect(c, s, o) = Effect(c, s, p)
<1>1. CASE Opens(c, s)
  BY <1>1
<1>2. CASE ~Opens(c, s)
  BY <1>2 DEF Effect
<1> QED BY <1>1, <1>2

\* The states behind the commands under way.
LEMMA ChainIs ==
    ASSUME HostKnown, NEW st, Chain(st)
    PROVE  /\ Len(Pend) \in Nat /\ IsSequence(tx) /\ Len(tx) \in Nat
           /\ \A i \in 1..Len(Pend) : st[i] = Effect(Pend[i], st[i - 1], tx[st[i - 1].t + 1].op)
           /\ \A i \in 0..Len(Pend) : st[i].t \in Nat /\ st[i].r \in Nat /\ st[i].t <= Len(tx) /\ (app.ready => st[i].tk)
           /\ \A i, j \in 0..Len(Pend) : i <= j => st[i].t <= st[j].t /\ st[i].r <= st[j].r
           /\ Fits(st[0])
<1>1. Parts(cur, cmdq, Pend)
  BY PendNow DEF HostKnown
<1>2. Len(Pend) \in Nat
  BY <1>1 DEF Parts
<1>3. IsSequence(tx) /\ Len(tx) \in Nat
  BY DEF HostKnown, HostTyped, IsSequence
<1> QED BY <1>2, <1>3, Zenon DEF Chain, HostAfter

\* The state of the host when a word has gone over the wires.
Shifted(st, n, first, dt, dr) == [i \in 0..n |-> IF i = 0 THEN first ELSE Less(st[i], dt, dr)]

\* The chain after a word, state by state.
LEMMA ShiftedIs ==
    ASSUME NEW st, NEW n \in Nat, NEW first, NEW dt, NEW dr
    PROVE  /\ Shifted(st, n, first, dt, dr)[0] = first
           /\ \A i \in 1..n : Shifted(st, n, first, dt, dr)[i] = Less(st[i], dt, dr)
<1>1. 0 \in 0..n /\ \A i \in 1..n : i \in 0..n /\ i # 0
  OBVIOUS
<1> QED BY <1>1 DEF Shifted

\* The flash and the command it has begun, after the word.
First(s) ==
    [t |-> 0, r |-> 0,
     op |-> IF Sends(cur[1].cmd) /\ flash.sel = <<>> THEN tx[1].op ELSE s.op,
     tk |-> IF Sends(cur[1].cmd) /\ flash.sel = <<>> THEN Taken(tx[1].op, s.K) ELSE s.tk,
     K |-> s.K, ask |-> s.ask]

\* The first state after a word, field by field.
LEMMA FirstIs ==
    ASSUME NEW s
    PROVE  /\ First(s).t = 0 /\ First(s).r = 0 /\ First(s).K = s.K /\ First(s).ask = s.ask
           /\ Sends(cur[1].cmd) /\ flash.sel = <<>> =>
                First(s).op = tx[1].op /\ First(s).tk = Taken(tx[1].op, s.K)
           /\ ~(Sends(cur[1].cmd) /\ flash.sel = <<>>) => First(s).op = s.op /\ First(s).tk = s.tk
BY DEF First

\* ExchangeWord: the first state fits the flash.
LEMMA ExchangeFits ==
    ASSUME HostKnown, ExchangeWord, NEW s, Fits(s), NEW f, f = First(s)
    PROVE  Fits(f)'
<1>1. /\ f.t = 0 /\ f.r = 0 /\ f.K = s.K /\ f.ask = s.ask
      /\ Sends(cur[1].cmd) /\ flash.sel = <<>> =>
                f.op = tx[1].op /\ f.tk = Taken(tx[1].op, s.K)
      /\ ~(Sends(cur[1].cmd) /\ flash.sel = <<>>) => f.op = s.op /\ f.tk = s.tk
  BY FirstIs
<1>2. app' = app /\ flash'.busy = flash.busy /\ flash'.wel = flash.wel /\ flash'.qe = flash.qe
      /\ flash'.down = flash.down
  BY ExchangeIs, ExchangeSel
<1>3. TrueFacts' = TrueFacts
  BY <1>2 DEF TrueFacts
<1>4. s.op = (IF flash.sel = <<>> THEN "none" ELSE flash.sel[1].op) /\ s.K \subseteq TrueFacts
      /\ (s.tk /\ flash.sel # <<>> /\ (s.op \in {"RDQIO", "PPQ"} => app.ready) => flash.sel[1].taken)
  BY DEF Fits
<1>5. CASE Sends(cur[1].cmd) /\ flash.sel = <<>>
  <2>1. flash'.sel # <<>> /\ flash'.sel[1].op = tx[1].op /\ flash'.sel[1].taken = Takes(tx[1].op)
    BY <1>5, ExchangeSel
  <2>2. f.op = tx[1].op /\ f.tk = Taken(tx[1].op, s.K)
    BY <1>1, <1>5
  <2>3. ASSUME f.tk, f.op \in {"RDQIO", "PPQ"} => app.ready
        PROVE  flash'.sel[1].taken
    <3>1. Taken(tx[1].op, s.K) /\ (tx[1].op \in {"RDQIO", "PPQ"} => app.ready)
      BY <2>2, <2>3
    <3>2. Takes(tx[1].op)
      BY <3>1, <1>4, TakenTakes
    <3> QED BY <2>1, <3>2
  <2>4. (f.t = 0 /\ f.r = 0) /\ f.op = (IF flash'.sel = <<>> THEN "none" ELSE flash'.sel[1].op) /\ f.K \subseteq TrueFacts'
    BY <1>1, <1>3, <1>4, <2>1, <2>2
  <2>5. f.tk /\ flash'.sel # <<>> /\ (f.op \in {"RDQIO", "PPQ"} => app'.ready) => flash'.sel[1].taken
    BY <1>2, <2>3
  <2> QED BY <2>4, <2>5, Zenon DEF Fits
<1>6. CASE ~(Sends(cur[1].cmd) /\ flash.sel = <<>>)
  <2>1. /\ flash'.sel = <<>> <=> flash.sel = <<>>
        /\ flash.sel # <<>> => /\ flash'.sel[1].op = flash.sel[1].op /\ flash'.sel[1].taken = flash.sel[1].taken
    BY <1>6, ExchangeSel
  <2>2. (f.t = 0 /\ f.r = 0) /\ f.op = (IF flash'.sel = <<>> THEN "none" ELSE flash'.sel[1].op) /\ f.K \subseteq TrueFacts'
    BY <1>1, <1>3, <1>4, <1>6, <2>1
  <2>3. f.tk /\ flash'.sel # <<>> /\ (f.op \in {"RDQIO", "PPQ"} => app'.ready) => flash'.sel[1].taken
    BY <1>1, <1>2, <1>4, <1>6, <2>1
  <2> QED BY <2>2, <2>3, Zenon DEF Fits
<1> QED BY <1>5, <1>6

-----------------------------------------------------------------------------
(* A word goes over the wires: the chain.                                  *)

\* ExchangeWord: the states behind the commands are the same, with fewer
\* words in front.
LEMMA ExchangeChain ==
    ASSUME HostKnown, ExchangeWord, NEW st, Chain(st), NEW n, n = Len(Pend), NEW f, f = First(st[0]),
           NEW dt, dt = (IF Sends(cur[1].cmd) THEN 1 ELSE 0),
           NEW dr, dr = (IF Receives(cur[1].cmd) THEN 1 ELSE 0),
           NEW u, u = Shifted(st, n, f, dt, dr)
    PROVE  /\ n \in Nat /\ n >= 1 /\ Chain(u)' /\ u[n] = Less(st[n], dt, dr)
           /\ st[n].t >= dt /\ st[n].r >= dr
           /\ \A i \in 1..n : st[i].r >= st[1].r /\ st[1].r = dr * cur[1].left
<1>1. /\ cur # <<>> /\ cur[1].left \in Nat /\ cur[1].left > 0
      /\ Sends(cur[1].cmd) => tx # <<>> /\ tx' = Tail(tx)
      /\ ~Sends(cur[1].cmd) => tx' = tx
      /\ ~(Sends(cur[1].cmd) /\ Receives(cur[1].cmd))
      /\ Len(Pend) >= 1 /\ Len(Pend) \in Nat /\ Pend[1] = cur[1]
      /\ Len(Pend') = Len(Pend) /\ Pend'[1] = cur'[1] /\ app' = app
      /\ cur'[1].left = cur[1].left - 1 /\ cur'[1].cmd = cur[1].cmd
      /\ \A i \in 2..Len(Pend) : Pend'[i] = Pend[i]
  BY ExchangeIs
<1>2. /\ IsSequence(tx) /\ Len(tx) \in Nat
      /\ \A i \in 1..n : st[i] = Effect(Pend[i], st[i - 1], tx[st[i - 1].t + 1].op)
      /\ \A i \in 0..n : st[i].t \in Nat /\ st[i].r \in Nat /\ st[i].t <= Len(tx) /\ (app.ready => st[i].tk)
      /\ \A i, j \in 0..n : i <= j => st[i].t <= st[j].t /\ st[i].r <= st[j].r
      /\ Fits(st[0])
  BY ChainIs
<1>3. dt \in {0, 1} /\ dr \in {0, 1} /\ n \in Nat /\ n >= 1
  BY <1>1
<1>4. u[0] = f /\ \A i \in 1..n : u[i] = Less(st[i], dt, dr)
  BY <1>3, ShiftedIs
<1>5. /\ f.t = 0 /\ f.r = 0 /\ f.K = st[0].K /\ f.ask = st[0].ask
      /\ Sends(cur[1].cmd) /\ flash.sel = <<>> => f.op = tx[1].op /\ f.tk = Taken(tx[1].op, st[0].K)
      /\ ~(Sends(cur[1].cmd) /\ flash.sel = <<>>) => f.op = st[0].op /\ f.tk = st[0].tk
  BY FirstIs
<1>6. st[0].t = 0 /\ st[0].r = 0 /\ (st[0].op = "none" <=> flash.sel = <<>>)
  BY <1>2 DEF Fits, HostKnown, FlashTyped
<1> DEFINE c == cur[1]
           d == cur'[1]
<1>7. st[1] = Effect(c, st[0], tx[1].op)
  BY <1>1, <1>2, <1>3, <1>6
<1>8. /\ st[1].t = (IF Sends(c.cmd) THEN c.left ELSE 0) /\ st[1].r = (IF Receives(c.cmd) THEN c.left ELSE 0)
      /\ ~Opens(c, st[0]) => st[1].op = (IF c.cmd.csaat THEN st[0].op ELSE "none")
      /\ ~Opens(c, st[0]) => st[1].tk = st[0].tk
      /\ ~Opens(c, st[0]) => st[1].K = IF c.cmd.csaat THEN st[0].K ELSE Known(st[0].op, st[0].K, st[0].tk)
      /\ ~Opens(c, st[0]) => st[1].ask = (IF Receives(c.cmd) THEN st[0].op ELSE "none")
      /\ Opens(c, st[0]) => st[1].op = (IF c.cmd.csaat THEN tx[1].op ELSE "none")
      /\ Opens(c, st[0]) => st[1].tk = Taken(tx[1].op, st[0].K)
      /\ Opens(c, st[0]) => st[1].K = IF c.cmd.csaat THEN st[0].K ELSE Known(tx[1].op, st[0].K, Taken(tx[1].op, st[0].K))
      /\ Opens(c, st[0]) => st[1].ask = (IF Receives(c.cmd) THEN tx[1].op ELSE "none")
  <2>1. st[0].t + c.left = c.left /\ st[0].r + c.left = c.left
    BY <1>1, <1>6
  <2> QED BY <1>6, <1>7, <2>1, EffectIs
<1>9. Opens(c, st[0]) <=> Sends(cur[1].cmd) /\ flash.sel = <<>>
  BY <1>1, <1>6 DEF Opens
<1>10. tx # <<>> /\ Sends(cur[1].cmd) => tx[1].op # "none" /\ Len(tx') = Len(tx) - 1 /\ \A i \in 1..Len(tx) - 1 : tx'[i] = tx[i + 1]
  BY <1>1, <1>2, TailIs DEF HostKnown, HostTyped
<1>11. ~Opens(d, f)
  BY <1>1, <1>5, <1>6, <1>10 DEF Opens
<1>12. \A o : Effect(d, f, o) = Less(st[1], dt, dr)
  <2> SUFFICES ASSUME NEW o PROVE Effect(d, f, o) = Less(st[1], dt, dr)
    OBVIOUS
  <2>1. (IF Sends(d.cmd) THEN f.t + d.left ELSE f.t) = st[1].t - dt
    BY <1>1, <1>5, <1>8
  <2>2. (IF Receives(d.cmd) THEN f.r + d.left ELSE f.r) = st[1].r - dr
    BY <1>1, <1>5, <1>8
  <2>3. (IF d.cmd.csaat THEN f.op ELSE "none") = st[1].op
    BY <1>1, <1>5, <1>8, <1>9
  <2>4. f.tk = st[1].tk
    BY <1>5, <1>8, <1>9
  <2>5. (IF d.cmd.csaat THEN f.K ELSE Known(f.op, f.K, f.tk)) = st[1].K
    BY <1>1, <1>5, <1>8, <1>9
  <2>6. (IF Receives(d.cmd) THEN f.op ELSE "none") = st[1].ask
    BY <1>1, <1>5, <1>8, <1>9
  <2>7. Effect(d, f, o) = [t |-> IF Sends(d.cmd) THEN f.t + d.left ELSE f.t,
                           r |-> IF Receives(d.cmd) THEN f.r + d.left ELSE f.r,
                           op |-> IF d.cmd.csaat THEN f.op ELSE "none", tk |-> f.tk,
                           K |-> IF d.cmd.csaat THEN f.K ELSE Known(f.op, f.K, f.tk),
                           ask |-> IF Receives(d.cmd) THEN f.op ELSE "none"]
    BY <1>11 DEF Effect
  <2> HIDE DEF d
  <2> QED BY <2>1, <2>2, <2>3, <2>4, <2>5, <2>6, <2>7 DEF Less
<1>13. \A i \in 1..n : st[i].t >= dt /\ st[i].r >= dr /\ st[i].r >= st[1].r
  <2>1. st[1].t >= dt /\ st[1].r >= dr
    BY <1>1, <1>8
  <2>2. ASSUME NEW i \in 1..n
        PROVE  st[i].t >= dt /\ st[i].r >= dr /\ st[i].r >= st[1].r
    <3>1. 1 \in 0..n /\ i \in 0..n /\ 1 <= i
      BY <1>3
    <3>2. st[1].t <= st[i].t /\ st[1].r <= st[i].r /\ st[i].t \in Nat /\ st[i].r \in Nat /\ st[1].t \in Nat /\ st[1].r \in Nat
      BY <1>2, <3>1
    <3> QED BY <1>3, <2>1, <3>2
  <2> QED BY <2>2
<1>14. ASSUME NEW i \in 1..n
       PROVE  u[i] = Effect(Pend'[i], u[i - 1], tx'[u[i - 1].t + 1].op)
  <2>1. CASE i = 1
    <3>1. Pend'[1] = d /\ u[0] = f /\ u[1] = Less(st[1], dt, dr) /\ i - 1 = 0
      BY <1>1, <1>3, <1>4, <2>1
    <3> HIDE DEF d
    <3> QED BY <1>12, <2>1, <3>1
  <2>2. CASE i # 1
    <3> DEFINE j == i - 1
               s == st[j]
    <3>1. j \in 1..n /\ j \in 0..n /\ i \in 0..n /\ Pend'[i] = Pend[i] /\ i \in 1..Len(Pend)
      BY <1>1, <1>3, <2>2
    <3>2. u[i] = Less(st[i], dt, dr) /\ u[j] = Less(s, dt, dr)
      BY <1>4, <3>1
    <3>3. st[i] = Effect(Pend[i], s, tx[s.t + 1].op)
      BY <1>2, <3>1
    <3>4. Pend[i].left \in Nat
      BY <3>1 DEF HostKnown, Commands
    <3>5. s.t \in Nat /\ s.r \in Nat /\ s.t >= dt /\ st[i].t <= Len(tx)
      BY <1>2, <1>13, <3>1
    <3>6. u[j].t = s.t - dt
      BY <3>2, LessIs
    <3> HIDE DEF j, s
    <3>7. Opens(Pend[i], s) => tx[s.t + 1].op = tx'[u[j].t + 1].op
      <4> SUFFICES ASSUME Opens(Pend[i], s) PROVE tx[s.t + 1].op = tx'[u[j].t + 1].op
        OBVIOUS
      <4>1. Sends(Pend[i].cmd) /\ Pend[i].left > 0
        BY DEF Opens
      <4>2. st[i].t = s.t + Pend[i].left
        BY <3>3, <4>1, EffectIs
      <4>3. s.t + 1 <= Len(tx)
        BY <3>4, <3>5, <4>1, <4>2
      <4>4. CASE dt = 0
        BY <1>1, <3>5, <3>6, <4>4
      <4>5. CASE dt = 1
        <5>1. Sends(cur[1].cmd) /\ u[j].t + 1 = s.t /\ s.t \in 1..Len(tx) - 1
          BY <1>2, <3>5, <3>6, <4>3, <4>5
        <5> QED BY <1>1, <1>10, <5>1
      <4> QED BY <1>3, <4>4, <4>5
    <3>8. Effect(Pend[i], Less(s, dt, dr), tx[s.t + 1].op) = Less(st[i], dt, dr)
      BY <1>3, <3>3, <3>4, <3>5, EffectLess
    <3>9. Opens(Pend[i], Less(s, dt, dr)) = Opens(Pend[i], s)
      BY LessIs DEF Opens
    <3>10. Effect(Pend[i], u[j], tx[s.t + 1].op) = Effect(Pend[i], u[j], tx'[u[j].t + 1].op)
      BY <3>2, <3>7, <3>9, EffectAny
    <3>11. u[i] = Effect(Pend'[i], u[j], tx'[u[j].t + 1].op)
      BY <3>1, <3>2, <3>8, <3>10
    <3> QED BY <3>11 DEF j
  <2> QED BY <2>1, <2>2
<1>15. \A i \in 1..n : u[i].t = st[i].t - dt /\ u[i].r = st[i].r - dr /\ u[i].tk = st[i].tk
  BY <1>4, LessIs
<1>16. ASSUME NEW i \in 0..n
       PROVE  u[i].t \in Nat /\ u[i].r \in Nat /\ u[i].t <= Len(tx') /\ (app'.ready => u[i].tk)
  <2>1. Len(tx') \in Nat /\ Len(tx') = Len(tx) - dt
    BY <1>1, <1>2, <1>10, TailIs
  <2>2. CASE i = 0
    <3>1. u[0].t = 0 /\ u[0].r = 0 /\ u[0].tk = f.tk
      BY <1>4, <1>5
    <3>2. 1 \in 0..n /\ 0 \in 0..n
      BY <1>3
    <3>3. app.ready => st[1].tk /\ st[0].tk
      BY <1>2, <3>2
    <3>4. app.ready => f.tk
      BY <1>5, <1>8, <1>9, <3>3
    <3> QED BY <1>1, <2>1, <2>2, <3>1, <3>4
  <2>3. CASE i # 0
    <3>1. i \in 1..n
      BY <1>3, <2>3
    <3>2. st[i].t \in Nat /\ st[i].r \in Nat /\ st[i].t <= Len(tx) /\ (app.ready => st[i].tk)
      BY <1>2
    <3>3. st[i].t >= dt /\ st[i].r >= dr
      BY <1>13, <3>1
    <3> QED BY <1>1, <1>2, <1>3, <1>15, <2>1, <3>1, <3>2, <3>3, SMTT(30)
  <2> QED BY <2>2, <2>3
<1>17. ASSUME NEW i \in 0..n, NEW j \in 0..n, i <= j
       PROVE  u[i].t <= u[j].t /\ u[i].r <= u[j].r
  <2>1. CASE i = 0
    <3>1. u[0].t = 0 /\ u[0].r = 0
      BY <1>4, <1>5
    <3> QED BY <1>16, <2>1, <3>1
  <2>2. CASE i # 0
    <3>1. i \in 1..n /\ j \in 1..n
      BY <1>3, <1>17, <2>2
    <3>2. st[i].t <= st[j].t /\ st[i].r <= st[j].r /\ st[i].t \in Nat /\ st[j].t \in Nat /\ st[i].r \in Nat /\ st[j].r \in Nat
      BY <1>2, <1>17
    <3> QED BY <1>3, <1>15, <3>1, <3>2
  <2> QED BY <2>1, <2>2
<1>18. Fits(u[0])'
  BY <1>2, <1>4, ExchangeFits, SMTT(30)
<1>19. Chain(u)'
  <2>1. Chain(u)' = /\ Fits(u[0])'
                    /\ \A i \in 1..Len(Pend') : u[i] = Effect(Pend'[i], u[i - 1], tx'[u[i - 1].t + 1].op)
                    /\ \A i \in 0..Len(Pend') : u[i].t \in Nat /\ u[i].r \in Nat /\ u[i].t <= Len(tx') /\ (app'.ready => u[i].tk)
                    /\ \A i, j \in 0..Len(Pend') : i <= j => u[i].t <= u[j].t /\ u[i].r <= u[j].r
    BY Zenon DEF Chain, HostAfter
  <2>2. Len(Pend') = n
    BY <1>1
  <2> QED BY <1>14, <1>16, <1>17, <1>18, <2>1, <2>2
<1>20. u[n] = Less(st[n], dt, dr) /\ st[n].t >= dt /\ st[n].r >= dr
  BY <1>3, <1>4, <1>13
<1>21. st[1].r = dr * cur[1].left
  BY <1>1, <1>8
<1> QED BY <1>3, <1>13, <1>19, <1>20, <1>21

-----------------------------------------------------------------------------
(* The answer of the flash.                                                *)

\* The last command under way, when it asks the flash.
LEMMA LastAsks ==
    ASSUME HostKnown, NEW st, Chain(st), NEW n, n = Len(Pend), n >= 1, st[n].ask # "none"
    PROVE  /\ n \in Nat /\ Receives(Pend[n].cmd) /\ ~Sends(Pend[n].cmd)
           /\ st[n].ask = st[n - 1].op /\ st[n].tk = st[n - 1].tk /\ st[n].t = st[n - 1].t
           /\ st[n].K = (IF Pend[n].cmd.csaat THEN st[n - 1].K ELSE Known(st[n - 1].op, st[n - 1].K, st[n - 1].tk))
           /\ st[n].op = (IF Pend[n].cmd.csaat THEN st[n - 1].op ELSE "none")
           /\ st[n].r = st[n - 1].r + Pend[n].left
           /\ n >= 2 => st[n].r >= st[1].r + 1
<1>1. /\ n \in Nat
      /\ \A i \in 1..n : st[i] = Effect(Pend[i], st[i - 1], tx[st[i - 1].t + 1].op)
      /\ \A i \in 0..n : st[i].t \in Nat /\ st[i].r \in Nat
      /\ \A i, j \in 0..n : i <= j => st[i].t <= st[j].t /\ st[i].r <= st[j].r
  BY ChainIs
<1> DEFINE c == Pend[n]
           s == st[n - 1]
           o == tx[s.t + 1].op
<1>2. n \in 1..n /\ n - 1 \in 0..n
  BY <1>1
<1>3. st[n] = Effect(c, s, o)
  BY <1>1, <1>2
<1>4. Receives(c.cmd)
  BY <1>3, EffectIs
<1>5. c.cmd.direction \in {"TX_ONLY", "RX_ONLY", "DUMMY"} /\ c.left \in Nat /\ c.cmd.len \in Nat \ {0}
      /\ (n > 1 => c.left = WordsOf(c.cmd))
  BY <1>2 DEF HostKnown, Commands
<1>6. c.cmd.direction = "RX_ONLY" /\ ~Sends(c.cmd)
  BY <1>4, <1>5 DEF Sends, Receives, Sending, Receiving
<1>7. ~Opens(c, s)
  BY <1>6 DEF Opens
<1>8. st[n].r = s.r + c.left
  BY <1>3, <1>4, EffectIs
<1>9. ASSUME n >= 2
      PROVE  st[n].r >= st[1].r + 1
  <2>1. 1 \in 0..n /\ 1 <= n - 1 /\ n > 1
    BY <1>1, <1>9
  <2>2. st[1].r <= s.r /\ st[1].r \in Nat /\ s.r \in Nat
    BY <1>1, <1>2, <2>1
  <2>3. c.left >= 1
    BY <1>5, <1>6, <2>1 DEF WordsOf, LenWords
  <2> QED BY <1>5, <1>8, <2>2, <2>3
<1> HIDE DEF c, s, o
<1>10. /\ st[n].ask = s.op /\ st[n].tk = s.tk /\ st[n].t = s.t
       /\ st[n].K = (IF c.cmd.csaat THEN s.K ELSE Known(s.op, s.K, s.tk))
       /\ st[n].op = (IF c.cmd.csaat THEN s.op ELSE "none")
  BY <1>3, <1>4, <1>6, <1>7, EffectIs
<1> QED BY <1>1, <1>4, <1>6, <1>8, <1>9, <1>10 DEF c, s

\* The first byte of an answer that is padded.
LEMMA FirstByte ==
    ASSUME NEW b, IsSequence(b), Len(b) >= 1
    PROVE  Pad(b)[1] = b[1]
<1>1. Len(b) \in Nat
  BY DEF IsSequence
<1> QED BY <1>1 DEF Pad

\* The status register, read with the last word of a command.
LEMMA AnswerIs ==
    ASSUME HostKnown, cur # <<>>, cur[1].left = 1, Receives(cur[1].cmd), flash.sel # <<>>
    PROVE  /\ flash.sel[1].op = "RSR1" /\ Answer[1] % 2 # 1 => ~flash.busy
           /\ flash.sel[1].op = "RSR2" /\ flash.sel[1].taken /\ Answer[1] % 2 = 1 => flash.qe
<1>1. Parts(cur, cmdq, Pend)
  BY PendNow DEF HostKnown
<1>2. Pend[1] = cur[1] /\ 1 \in 1..Len(Pend)
  BY <1>1 DEF Parts
<1> DEFINE len == cur[1].cmd.len
           x == len - 4 * (LenWords(len) - 1)
<1>3. len \in Nat \ {0} /\ cur[1].cmd.direction \in {"TX_ONLY", "RX_ONLY", "DUMMY"}
  BY <1>2 DEF HostKnown, Commands
<1>4. WordsOf(cur[1].cmd) = LenWords(len)
  BY <1>3 DEF WordsOf, Receives, Receiving
<1>5. BytesNow = Min({4, x})
  BY <1>4 DEF BytesNow
<1>6. x \in Nat /\ x >= 1
  BY <1>3 DEF LenWords
<1>7. BytesNow \in Nat /\ BytesNow >= 1
  <2> HIDE DEF x
  <2> QED BY <1>5, <1>6, MinOfTwo
<1>8. ASSUME ~flash.sel[1].taken
      PROVE  Answer[1] = 255
  <2> DEFINE b == [i \in 1..BytesNow |-> Blank]
  <2>1. b \in Seq({Blank}) /\ Len(b) = BytesNow /\ b[1] = Blank
    BY <1>7
  <2>2. Answer = Pad(b)
    BY <1>8 DEF Answer
  <2> HIDE DEF b
  <2>3. Pad(b)[1] = b[1]
    BY <1>7, <2>1, FirstByte DEF IsSequence
  <2> QED BY <2>1, <2>2, <2>3 DEF Blank
<1>9. ASSUME flash.sel[1].taken, flash.sel[1].op = "RSR1"
      PROVE  Answer[1] = Bit(flash.busy)
  <2>1. Answer = Pad(<<Bit(flash.busy)>>)
    BY <1>9 DEF Answer
  <2>2. Pad(<<Bit(flash.busy)>>)[1] = Bit(flash.busy)
    BY OneIs, FirstByte
  <2> QED BY <2>1, <2>2
<1>10. ASSUME flash.sel[1].taken, flash.sel[1].op = "RSR2"
       PROVE  Answer[1] = Bit(flash.qe)
  <2>1. Answer = Pad(<<Bit(flash.qe)>>)
    BY <1>10 DEF Answer
  <2>2. Pad(<<Bit(flash.qe)>>)[1] = Bit(flash.qe)
    BY OneIs, FirstByte, SMTT(30)
  <2> QED BY <2>1, <2>2
<1>11. 255 % 2 = 1 /\ 1 % 2 = 1 /\ 0 % 2 = 0
  OBVIOUS
<1>12. ASSUME flash.sel[1].op = "RSR1", Answer[1] % 2 # 1
       PROVE  ~flash.busy
  BY <1>8, <1>9, <1>11, <1>12 DEF Bit
<1>13. ASSUME flash.sel[1].op = "RSR2", flash.sel[1].taken, Answer[1] % 2 = 1
       PROVE  flash.qe
  BY <1>10, <1>11, <1>13 DEF Bit
<1> QED BY <1>12, <1>13

-----------------------------------------------------------------------------
(* A word goes over the wires: what the driver counts on.                  *)

\* The words the DMA has still to move.
LEMMA DtxIs ==
    ASSUME HostKnown
    PROVE  Dtx \in Nat /\ Drx \in Nat /\ dma.n \in Nat /\ (dma.n = 0 => Dtx = 0 /\ Drx = 0)
           /\ (dma.dir # "tx" => Dtx = 0) /\ (dma.dir # "rx" => Drx = 0)
BY DEF HostKnown, HostTyped, Dtx, Drx

\* The DMA moves what the driver knows of.
LEMMA DtxAgrees ==
    ASSUME HostKnown, NEW q, DmaAgrees(q)
    PROVE  /\ q.dma # "tx" => Dtx = 0
           /\ q.dma # "rx" => Drx = 0
BY DtxIs DEF DmaAgrees

\* ExchangeWord: an answer that comes is the answer to the question asked.
LEMMA ExchangeAnswer ==
    ASSUME HostKnown, NEW q, NEW st, NEW n, n = Len(Pend), Chain(st), BusAgrees(q, st[n]), AnswerKnown(q, st[n]),
           ExchangeWord, NEW v,
           NEW dt, dt = (IF Sends(cur[1].cmd) THEN 1 ELSE 0),
           NEW dr, dr = (IF Receives(cur[1].cmd) THEN 1 ELSE 0), v = Less(st[n], dt, dr)
    PROVE  AnswerKnown(q, v)'
<1> DEFINE s == st[n]
<1>1. v.r = s.r - dr /\ v.tk = s.tk
  BY LessIs
<1>2. flash'.busy = flash.busy /\ flash'.qe = flash.qe
  BY ExchangeSel
<1>3. /\ cur # <<>> /\ cur[1].left \in Nat /\ cur[1].left > 0
      /\ Receives(cur[1].cmd) => rx' = Append(rx, Answer)
      /\ ~Receives(cur[1].cmd) => rx' = rx
      /\ ~(Sends(cur[1].cmd) /\ Receives(cur[1].cmd)) /\ Pend[1] = cur[1]
  BY ExchangeIs
<1>4. \A i \in 1..n : st[i].r >= st[1].r /\ st[1].r = dr * cur[1].left
  <2> DEFINE f == First(st[0])
             u == Shifted(st, n, f, dt, dr)
  <2> HIDE DEF f, u
  <2> QED BY ExchangeChain DEF f, u
<1>5. /\ n \in Nat /\ n >= 1
      /\ \A i \in 1..n : st[i] = Effect(Pend[i], st[i - 1], tx[st[i - 1].t + 1].op)
      /\ \A i \in 0..n : st[i].t \in Nat /\ st[i].r \in Nat
      /\ Fits(st[0])
  BY ChainIs, ExchangeIs
<1>6. CASE dr = 0
  <2>1. rx' = rx /\ v.r = s.r
    BY <1>1, <1>3, <1>5, <1>6
  <2> QED BY <1>2, <2>1 DEF AnswerKnown
<1>7. CASE dr = 1
  <2>1. rx' = Append(rx, Answer) /\ Receives(cur[1].cmd)
    BY <1>3, <1>7
  <2>2. IsSequence(rx)
    BY DEF HostKnown, HostTyped
  <2>3. rx'[Len(rx')] = Answer
    BY <2>1, <2>2, AppendIs
  <2>4. ASSUME v.r = 0, q.bus.ask \in {"RSR1", "RSR2"}
        PROVE  /\ q.bus.ask = "RSR1" /\ Answer[1] % 2 # 1 => ~flash.busy
               /\ q.bus.ask = "RSR2" /\ q.bus.tk /\ Answer[1] % 2 = 1 => flash.qe
    <3>1. s.r = 1
      BY <1>1, <1>5, <1>7, <2>4
    <3>2. cur[1].left = 1 /\ st[1].r = 1
      <4>1. n \in 1..n
        BY <1>5
      <4>2. s.r >= st[1].r /\ st[1].r = 1 * cur[1].left
        BY <1>4, <1>7, <4>1
      <4> QED BY <1>3, <3>1, <4>2
    <3>3. s.ask = q.bus.ask /\ s.ask # "none"
      BY <2>4 DEF BusAgrees
    <3>4. n = 1
      <4>1. n >= 2 => s.r >= st[1].r + 1
        BY <1>5, <3>3, LastAsks
      <4> QED BY <1>5, <3>1, <3>2, <4>1
    <3>5. st[n].ask = st[0].op /\ st[n].tk = st[0].tk
      <4>1. st[n].ask = st[n - 1].op /\ st[n].tk = st[n - 1].tk
        BY <1>5, <3>3, LastAsks
      <4> QED BY <3>4, <4>1
    <3>6. flash.sel # <<>> /\ flash.sel[1].op = q.bus.ask
      BY <1>5, <3>3, <3>5 DEF Fits
    <3>7. q.bus.ask = "RSR2" /\ q.bus.tk => flash.sel[1].taken
      <4>1. q.bus.tk => st[0].tk
        BY <3>5 DEF BusAgrees
      <4> QED BY <1>5, <3>3, <3>5, <3>6, <4>1 DEF Fits
    <3>8. /\ flash.sel[1].op = "RSR1" /\ Answer[1] % 2 # 1 => ~flash.busy
          /\ flash.sel[1].op = "RSR2" /\ flash.sel[1].taken /\ Answer[1] % 2 = 1 => flash.qe
      BY <1>3, <2>1, <3>2, <3>6, AnswerIs
    <3> QED BY <3>6, <3>7, <3>8
  <2> QED BY <1>2, <2>3, <2>4, Zenon DEF AnswerKnown
<1> QED BY <1>6, <1>7

\* A word that moves from one place to the next.
LEMMA Balance ==
    ASSUME NEW a \in Int, NEW b \in Int, NEW c \in Int, NEW d \in Int
    PROVE  a + b - c = (a + d) + (b - d) - c /\ a + b - c = (a - d) + b - (c - d)
OBVIOUS

\* ExchangeWord: the words in the FIFOs are those of the view.
LEMMA ExchangeAgrees ==
    ASSUME HostKnown, NEW q, NEW s, Agrees(q, s), ExchangeWord, s.t \in Nat, s.r \in Nat, s.t <= Len(tx),
           NEW dt, dt = (IF Sends(cur[1].cmd) THEN 1 ELSE 0), s.t >= dt,
           NEW dr, dr = (IF Receives(cur[1].cmd) THEN 1 ELSE 0), s.r >= dr, NEW v, v = Less(s, dt, dr)
    PROVE  WordsAgree(q, v)' /\ BusAgrees(q, v)' /\ DmaAgrees(q)' /\ InAgrees(q)'
<1>1. v.t = s.t - dt /\ v.r = s.r - dr /\ v.op = s.op /\ v.tk = s.tk /\ v.K = s.K /\ v.ask = s.ask
  BY LessIs
<1>2. /\ Sends(cur[1].cmd) => tx # <<>> /\ tx' = Tail(tx)
      /\ ~Sends(cur[1].cmd) => tx' = tx
      /\ Receives(cur[1].cmd) => rx' = Append(rx, Answer)
      /\ ~Receives(cur[1].cmd) => rx' = rx
      /\ dma' = dma /\ control' = control /\ cmdq' = cmdq
  BY ExchangeIs
<1>3. IsSequence(tx) /\ IsSequence(rx) /\ Len(tx) \in Nat /\ Len(rx) \in Nat
  BY DEF HostKnown, HostTyped, IsSequence
<1>4. /\ Len(tx') = Len(tx) - dt /\ Len(tx') \in Nat
      /\ dt = 1 => \A i \in 1..Len(tx) - 1 : tx'[i] = tx[i + 1]
      /\ dt = 0 => tx' = tx
  BY <1>2, <1>3, TailIs
<1>5. Len(rx') = Len(rx) + dr
  BY <1>2, <1>3, AppendIs
<1>6. dt \in {0, 1} /\ dr \in {0, 1}
  OBVIOUS
<1>7. Dtx' = Dtx /\ Drx' = Drx /\ Dtx \in Nat /\ Drx \in Nat
  BY <1>2, DtxIs DEF Dtx, Drx
<1>8. WordsAgree(q, s) /\ BusAgrees(q, s) /\ DmaAgrees(q) /\ InAgrees(q)
  BY DEF Agrees
<1>9. WordsAgree(q, v)'
  <2>1. q.out.t = Len(tx) + Dtx - s.t /\ q.in.e = Len(rx) + s.r - Drx /\ q.out.b \in Nat /\ Len(tx) + Dtx <= q.out.b
    BY <1>8 DEF WordsAgree
  <2> DEFINE ltx == Len(tx)
             lrx == Len(rx)
  <2>a. /\ ltx \in Nat /\ lrx \in Nat /\ Len(tx') = ltx - dt /\ Len(rx') = lrx + dr
        /\ q.out.t = ltx + Dtx - s.t /\ q.in.e = lrx + s.r - Drx /\ ltx + Dtx <= q.out.b
    BY <1>3, <1>4, <1>5, <2>1
  <2> HIDE DEF ltx, lrx
  <2>b. q.out.t = Len(tx') + Dtx' - v.t
    BY <1>1, <1>6, <1>7, <2>a
  <2>c. q.in.e = Len(rx') + v.r - Drx'
    <3>1. dr \in Int /\ s.r \in Int /\ Drx \in Int /\ lrx \in Int
      BY <1>6, <1>7, <2>a
    <3>2. lrx + s.r - Drx = (lrx + dr) + (s.r - dr) - Drx
      BY <3>1, Balance
    <3> QED BY <1>1, <1>7, <2>a, <3>2
  <2>d. Len(tx') + Dtx' <= q.out.b
    <3>1. (ltx - dt) + Dtx <= ltx + Dtx /\ (ltx - dt) + Dtx \in Int /\ ltx + Dtx \in Int /\ q.out.b \in Int
      BY <1>6, <1>7, <2>1, <2>a, SMTT(30)
    <3>2. (ltx - dt) + Dtx <= q.out.b
      BY <3>1, <2>a
    <3> QED BY <1>7, <2>a, <3>2
  <2>2. q.out.t = Len(tx') + Dtx' - v.t /\ q.in.e = Len(rx') + v.r - Drx' /\ Len(tx') + Dtx' <= q.out.b
    BY <2>b, <2>c, <2>d
  <2>3. ASSUME q.bus.op = "none", NEW j \in {1, 2}, q.out.t >= j
        PROVE  tx'[v.t + j] = tx[s.t + j]
    <3>1. Dtx = 0
      BY <1>8, <2>3, DtxAgrees DEF DmaAgrees
    <3>2. s.t + j <= Len(tx)
      BY <1>3, <2>1, <2>3, <3>1
    <3>3. CASE dt = 0
      BY <1>1, <1>4, <3>3
    <3>4. CASE dt = 1
      <4>1. v.t + j \in 1..Len(tx) - 1 /\ (v.t + j) + 1 = s.t + j
        BY <1>1, <1>3, <3>2, <3>4, <2>3, SMTT(30)
      <4> QED BY <1>4, <3>4, <4>1
    <3> QED BY <1>6, <3>3, <3>4
  <2>4. ASSUME q.bus.op = "none", q.out.t >= 1
        PROVE  tx'[v.t + 1].op = q.out.first
    BY <1>8, <2>3, <2>4 DEF WordsAgree
  <2>5. ASSUME q.bus.op = "none", q.out.t = 2
        PROVE  tx'[v.t + 2].op = q.out.second
    BY <1>8, <2>3, <2>5 DEF WordsAgree
  <2> QED BY <2>1, <2>2, <2>4, <2>5, Zenon DEF WordsAgree
<1>10. BusAgrees(q, v)'
  BY <1>1, <1>8 DEF BusAgrees
<1>11. DmaAgrees(q)'
  BY <1>2, <1>8 DEF DmaAgrees
<1>12. InAgrees(q)'
  <2>1. /\ q.in.wm \in Nat /\ q.in.have \in Nat /\ q.in.wm <= control.rxwm /\ q.in.have <= Len(rx)
        /\ q.dma = "rx" => q.in.have = 0
        /\ q.rdy => Len(cmdq) < CmdDepth
    BY <1>8 DEF InAgrees
  <2>2. q.in.have <= Len(rx')
    BY <1>3, <1>5, <1>6, <2>1
  <2> QED BY <1>2, <2>1, <2>2 DEF InAgrees
<1> QED BY <1>9, <1>10, <1>11, <1>12

\* ExchangeWord keeps what the driver counts on.
LEMMA ExchangeTracks ==
    ASSUME HostKnown, NEW q, NEW st, Tracked(q, st), ExchangeWord
    PROVE  \E u : Tracked(q, u)'
<1>1. PICK n : n = Len(Pend)
  OBVIOUS
<1>2. PICK dt : dt = (IF Sends(cur[1].cmd) THEN 1 ELSE 0)
  OBVIOUS
<1>3. PICK dr : dr = (IF Receives(cur[1].cmd) THEN 1 ELSE 0)
  OBVIOUS
<1>4. PICK f : f = First(st[0])
  OBVIOUS
<1>5. PICK u : u = Shifted(st, n, f, dt, dr)
  OBVIOUS
<1>6. Chain(st) /\ Agrees(q, st[n])
  BY <1>1 DEF Tracked
<1>7. n \in Nat /\ n >= 1 /\ Chain(u)' /\ u[n] = Less(st[n], dt, dr) /\ st[n].t >= dt /\ st[n].r >= dr
  BY <1>1, <1>2, <1>3, <1>4, <1>5, <1>6, ExchangeChain
<1>8. st[n].t \in Nat /\ st[n].r \in Nat /\ st[n].t <= Len(tx)
  BY <1>1, <1>6, <1>7, ChainIs
<1>9. PICK v : v = Less(st[n], dt, dr)
  OBVIOUS
<1>10. WordsAgree(q, v)' /\ BusAgrees(q, v)' /\ DmaAgrees(q)' /\ InAgrees(q)'
  BY <1>2, <1>3, <1>6, <1>7, <1>8, <1>9, ExchangeAgrees
<1>11. AnswerKnown(q, v)'
  <2>1. BusAgrees(q, st[n]) /\ AnswerKnown(q, st[n])
    BY <1>6 DEF Agrees
  <2> QED BY <1>1, <1>2, <1>3, <1>6, <1>9, <2>1, ExchangeAnswer
<1>12. Agrees(q, v)'
  BY <1>10, <1>11 DEF Agrees
<1>13. Len(Pend') = n /\ v = u[n]
  BY <1>1, <1>7, <1>9, ExchangeIs
<1>14. Tracked(q, u)'
  BY <1>7, <1>12, <1>13 DEF Tracked
<1> QED BY <1>14

-----------------------------------------------------------------------------
(* The flash executes a command.                                           *)

\* The commands after which the flash is busy.
Changing == Mutating \cup {"RESET", "WSR2"}

\* The release of chip select.
LEMMA ExecuteIs ==
    ASSUME FlashTyped, Execute
    PROVE  /\ FlashTyped' /\ flash'.sel = <<>>
           /\ flash.sel = <<>> \/ ~flash.sel[1].taken =>
                flash'.busy = flash.busy /\ flash'.wel = flash.wel /\ flash'.qe = flash.qe /\ flash'.down = flash.down
           /\ flash.sel = <<>> \/ flash.sel[1].taken => flash'.lost = flash.lost
           /\ flash.sel # <<>> /\ flash.sel[1].taken =>
                LET o == flash.sel[1].op
                IN /\ o \notin Changing => /\ ~flash.busy => ~flash'.busy
                                           /\ flash.wel \/ o = "WE" => flash'.wel
                   /\ o # "WSR2" => flash'.qe = flash.qe
                   /\ o # "PD" /\ ~flash.down => ~flash'.down
                   /\ o = "RPD" => ~flash'.down
<1> DEFINE s == flash.sel[1]
           o == s.op
           R(busy, wel, qe, armed, down, lost) ==
              [sel |-> <<>>, busy |-> busy, wel |-> wel, qe |-> qe, armed |-> armed, down |-> down, lost |-> lost]
<1>1. flash = [sel |-> flash.sel, busy |-> flash.busy, wel |-> flash.wel, qe |-> flash.qe,
                armed |-> flash.armed, down |-> flash.down, lost |-> flash.lost]
  BY DEF FlashTyped
<1>2. [flash EXCEPT !.sel = <<>>] = R(flash.busy, flash.wel, flash.qe, flash.armed, flash.down, flash.lost)
  BY <1>1
<1>3. ASSUME NEW b, NEW w, NEW e, NEW a, NEW d, NEW l, flash' = R(b, w, e, a, d, l)
      PROVE  /\ FlashTyped' /\ flash'.sel = <<>> /\ flash'.busy = b /\ flash'.wel = w /\ flash'.qe = e
             /\ flash'.down = d /\ flash'.lost = l
  <2>1. /\ flash'.sel = <<>> /\ flash'.busy = b /\ flash'.wel = w /\ flash'.qe = e
        /\ flash'.armed = a /\ flash'.down = d /\ flash'.lost = l
    BY <1>3
  <2>2. flash' = [sel |-> flash'.sel, busy |-> flash'.busy, wel |-> flash'.wel, qe |-> flash'.qe,
                armed |-> flash'.armed, down |-> flash'.down, lost |-> flash'.lost]
    BY <1>3, <2>1
  <2> QED BY <2>1, <2>2 DEF FlashTyped
<1>4. CASE flash.sel = <<>>
  <2>1. flash' = flash
    BY <1>4 DEF Execute
  <2>2. flash' = R(flash.busy, flash.wel, flash.qe, flash.armed, flash.down, flash.lost)
    BY <1>1, <1>4, <2>1
  <2> HIDE DEF R
  <2> QED BY <1>3, <1>4, <2>2
<1>5. CASE flash.sel # <<>> /\ ~s.taken
  <2>1. flash' = [[flash EXCEPT !.sel = <<>>] EXCEPT !.lost = @ \/ app.ready]
    BY <1>5 DEF Execute
  <2>2. flash' = R(flash.busy, flash.wel, flash.qe, flash.armed, flash.down, flash.lost \/ app.ready)
    BY <1>2, <2>1
  <2> HIDE DEF R
  <2>3. /\ FlashTyped' /\ flash'.sel = <<>> /\ flash'.busy = flash.busy /\ flash'.wel = flash.wel /\ flash'.qe = flash.qe
        /\ flash'.down = flash.down
    BY <1>3, <2>2
  <2> QED BY <1>5, <2>3
<1>6. CASE flash.sel # <<>> /\ s.taken
  <2>1. \/ /\ o \in Mutating
           /\ flash' = [[flash EXCEPT !.sel = <<>>] EXCEPT !.busy = TRUE, !.wel = FALSE]
        \/ /\ o = "WSR2"
           /\ flash' = [[flash EXCEPT !.sel = <<>>] EXCEPT !.busy = TRUE, !.wel = FALSE, !.qe = (s.bytes = <<1>>)]
        \/ /\ o \in {"WE", "RD", "RDQIO", "RSR1", "RSR2", "ERESET", "RESET", "PD", "RPD"}
           /\ flash' = [[flash EXCEPT !.sel = <<>>] EXCEPT
                                !.wel = (@ \/ o = "WE") /\ ~(o = "RESET" /\ flash.armed),
                                !.busy = @ \/ (o = "RESET" /\ flash.armed),
                                !.armed = (o = "ERESET"),
                                !.down = (@ \/ o = "PD") /\ o # "RPD"]
    BY <1>6 DEF Execute, Mutating
  <2>2. CASE /\ o \in Mutating
             /\ flash' = [[flash EXCEPT !.sel = <<>>] EXCEPT !.busy = TRUE, !.wel = FALSE]
    <3> DEFINE busy == TRUE
               wel == FALSE
    <3>1. flash' = R(busy, wel, flash.qe, flash.armed, flash.down, flash.lost)
      BY <1>2, <2>2
    <3> HIDE DEF R, busy, wel
    <3>2. /\ FlashTyped' /\ flash'.sel = <<>> /\ flash'.qe = flash.qe /\ flash'.down = flash.down /\ flash'.lost = flash.lost
      BY <1>3, <3>1
    <3>3. o \in Changing /\ o # "RPD"
      BY <2>2 DEF Mutating, Changing
    <3> QED BY <1>6, <3>2, <3>3
  <2>3. CASE /\ o = "WSR2"
             /\ flash' = [[flash EXCEPT !.sel = <<>>] EXCEPT !.busy = TRUE, !.wel = FALSE, !.qe = (s.bytes = <<1>>)]
    <3> DEFINE busy == TRUE
               wel == FALSE
               qe == s.bytes = <<1>>
    <3>1. flash' = R(busy, wel, qe, flash.armed, flash.down, flash.lost)
      BY <1>2, <2>3
    <3> HIDE DEF R, busy, wel, qe
    <3>2. /\ FlashTyped' /\ flash'.sel = <<>> /\ flash'.down = flash.down /\ flash'.lost = flash.lost
      BY <1>3, <3>1
    <3>3. o \in Changing /\ o # "RPD" /\ o = "WSR2"
      BY <2>3 DEF Mutating, Changing
    <3> QED BY <1>6, <3>2, <3>3
  <2>4. CASE /\ o \in {"WE", "RD", "RDQIO", "RSR1", "RSR2", "ERESET", "RESET", "PD", "RPD"}
             /\ flash' = [[flash EXCEPT !.sel = <<>>] EXCEPT
                                !.wel = (@ \/ o = "WE") /\ ~(o = "RESET" /\ flash.armed),
                                !.busy = @ \/ (o = "RESET" /\ flash.armed),
                                !.armed = (o = "ERESET"),
                                !.down = (@ \/ o = "PD") /\ o # "RPD"]
    <3> DEFINE wel == (flash.wel \/ o = "WE") /\ ~(o = "RESET" /\ flash.armed)
               busy == flash.busy \/ (o = "RESET" /\ flash.armed)
               armed == o = "ERESET"
               down == (flash.down \/ o = "PD") /\ o # "RPD"
    <3>1. flash' = R(busy, wel, flash.qe, armed, down, flash.lost)
      BY <1>2, <2>4
    <3> HIDE DEF R, wel, busy, armed, down
    <3>2. /\ FlashTyped' /\ flash'.sel = <<>> /\ flash'.qe = flash.qe /\ flash'.lost = flash.lost
          /\ flash'.busy = busy /\ flash'.wel = wel /\ flash'.down = down
      BY <1>3, <3>1
    <3>3. o \notin Changing => (~flash.busy => ~flash'.busy) /\ (flash.wel \/ o = "WE" => flash'.wel)
      <4> SUFFICES ASSUME o \notin Changing
                   PROVE  (~flash.busy => ~flash'.busy) /\ (flash.wel \/ o = "WE" => flash'.wel)
        OBVIOUS
      <4>1. o # "RESET"
        BY DEF Changing
      <4>2. busy <=> flash.busy
        BY <4>1 DEF busy
      <4>3. flash.wel \/ o = "WE" => wel
        BY <4>1 DEF wel
      <4> QED BY <3>2, <4>2, <4>3
    <3>4. (o # "PD" /\ ~flash.down => ~flash'.down) /\ (o = "RPD" => ~flash'.down)
      <4>1. (o # "PD" /\ ~flash.down => ~down) /\ (o = "RPD" => ~down)
        BY DEF down
      <4> QED BY <3>2, <4>1
    <3> QED BY <1>6, <3>2, <3>3, <3>4
  <2> HIDE DEF R, o
  <2> QED BY <2>1, <2>2, <2>3, <2>4
<1> QED BY <1>4, <1>5, <1>6

\* A command the flash executes leaves what was known of it true.
LEMMA ExecuteKnown ==
    ASSUME FlashTyped, Execute, app' = app, NEW s, Fits(s)
    PROVE  Known(s.op, s.K, s.tk) \subseteq TrueFacts'
<1> SUFFICES ASSUME NEW f \in Known(s.op, s.K, s.tk)
             PROVE  f \in TrueFacts'
  OBVIOUS
<1> DEFINE o == flash.sel[1].op
           taken == flash.sel[1].taken
<1>1. /\ s.op = (IF flash.sel = <<>> THEN "none" ELSE o) /\ s.K \subseteq TrueFacts
      /\ s.tk /\ flash.sel # <<>> /\ (s.op \in {"RDQIO", "PPQ"} => app.ready) => taken
  BY DEF Fits
<1>2. f \in (s.K \ Ends(s.op)) \cup (IF s.tk THEN Gives(s.op) ELSE {})
  BY DEF Known
<1>3. flash.sel # <<>> => o # "none"
  BY DEF FlashTyped
<1>4. /\ flash.sel = <<>> \/ ~taken =>
             flash'.busy = flash.busy /\ flash'.wel = flash.wel /\ flash'.qe = flash.qe /\ flash'.down = flash.down
      /\ flash.sel # <<>> /\ taken =>
             /\ o \notin Changing => /\ ~flash.busy => ~flash'.busy
                                     /\ flash.wel \/ o = "WE" => flash'.wel
             /\ o # "WSR2" => flash'.qe = flash.qe
             /\ o # "PD" /\ ~flash.down => ~flash'.down
             /\ o = "RPD" => ~flash'.down
  BY ExecuteIs
<1> HIDE DEF o, taken
<1>5. CASE f \in s.K \ Ends(s.op)
  <2>1. f \in TrueFacts
    BY <1>1, <1>5
  <2>2. CASE flash.sel = <<>> \/ ~taken
    <3>1. flash'.busy = flash.busy /\ flash'.wel = flash.wel /\ flash'.qe = flash.qe /\ flash'.down = flash.down
      BY <1>4, <2>2
    <3>2. TrueFacts' = TrueFacts
      BY <3>1 DEF TrueFacts
    <3> QED BY <2>1, <3>2
  <2>3. CASE flash.sel # <<>> /\ taken
    <3>1. s.op = o /\ f \notin Ends(o)
      BY <1>1, <1>5, <2>3
    <3>2. CASE f = "up"
      <4>1. o # "PD"
        BY <3>1, <3>2 DEF Ends, Mutating
      <4> QED BY <1>4, <2>1, <2>3, <3>2, <4>1 DEF TrueFacts
    <3>3. CASE f = "idle"
      <4>1. o \notin Changing
        BY <3>1, <3>3 DEF Ends, Changing
      <4> QED BY <1>4, <2>1, <2>3, <3>3, <4>1 DEF TrueFacts
    <3>4. CASE f = "wel"
      <4>1. o \notin Changing
        BY <3>1, <3>4 DEF Ends, Changing
      <4> QED BY <1>4, <2>1, <2>3, <3>4, <4>1 DEF TrueFacts
    <3>5. CASE f = "qe"
      <4>1. o # "WSR2"
        BY <3>1, <3>5 DEF Ends, Mutating
      <4> QED BY <1>4, <2>1, <2>3, <3>5, <4>1 DEF TrueFacts
    <3>6. f \in {"up", "idle", "wel", "qe"}
      BY <2>1 DEF TrueFacts, Facts
    <3> QED BY <3>2, <3>3, <3>4, <3>5, <3>6
  <2> QED BY <2>2, <2>3
<1>6. CASE s.tk /\ f \in Gives(s.op)
  <2>1. \/ s.op = "WE" /\ f = "wel"
        \/ s.op = "RPD" /\ f = "up"
    BY <1>6 DEF Gives
  <2>2. flash.sel # <<>> /\ s.op = o
    BY <1>1, <2>1
  <2>3. taken
    BY <1>1, <1>6, <2>1, <2>2
  <2>4. CASE o = "WE" /\ f = "wel"
    <3>1. o \notin Changing
      BY <2>4 DEF Changing, Mutating
    <3> QED BY <1>4, <2>2, <2>3, <2>4, <3>1 DEF TrueFacts, Facts
  <2>5. CASE o = "RPD" /\ f = "up"
    BY <1>4, <2>2, <2>3, <2>5 DEF TrueFacts, Facts
  <2> QED BY <2>1, <2>2, <2>4, <2>5
<1> QED BY <1>2, <1>5, <1>6

-----------------------------------------------------------------------------
(* A command ends.                                                         *)

\* The command in execution has ended.
LEMMA EndIs ==
    ASSUME HostKnown, EndSegment
    PROVE  /\ cur # <<>> /\ cur[1].left = 0 /\ Len(Pend) \in Nat /\ Len(Pend) >= 1 /\ Pend[1] = cur[1]
           /\ tx' = tx /\ rx' = rx /\ control' = control /\ dma' = dma /\ app' = app
           /\ prog' = prog /\ call' = call /\ user' = user /\ sector' = sector
           /\ cur[1].cmd.csaat => flash' = flash
           /\ ~cur[1].cmd.csaat => Execute
           /\ Len(Pend') = Len(Pend) - 1 /\ \A i \in 1..Len(Pend) - 1 : Pend'[i] = Pend[i + 1]
           /\ Len(cmdq) \in Nat /\ Len(cmdq') \in Nat /\ Len(cmdq') <= Len(cmdq)
           /\ HostTyped'
<1>1. /\ cur # <<>> /\ cur[1].left = 0
      /\ cur' = (IF cmdq = <<>> THEN <<>> ELSE <<Begin(Head(cmdq))>>)
      /\ cmdq' = (IF cmdq = <<>> THEN <<>> ELSE Tail(cmdq))
      /\ tx' = tx /\ rx' = rx
  BY DEF EndSegment, EndCommand
<1>2. /\ control' = control /\ dma' = dma /\ app' = app
      /\ prog' = prog /\ call' = call /\ user' = user /\ sector' = sector
      /\ cur[1].cmd.csaat => flash' = flash
      /\ ~cur[1].cmd.csaat => Execute
  BY DEF EndSegment, HostKept, DriverKept
<1>3. Parts(cur, cmdq, Pend) /\ IsSequence(cmdq)
  BY PendNow DEF HostKnown, HostTyped
<1>4. Len(cur) = 1 /\ Pend[1] = cur[1] /\ Len(Pend) \in Nat /\ Len(Pend) = 1 + Len(cmdq) /\ Len(cmdq) \in Nat
      /\ \A i \in 1..Len(Pend) : i > 1 => Pend[i] = Begin(cmdq[i - 1])
  <2>1. /\ Len(cur) = 1 /\ Pend[1] = cur[1] /\ Len(Pend) \in Nat /\ Len(Pend) = Len(cur) + Len(cmdq) /\ Len(cmdq) \in Nat
        /\ \A i \in 1..Len(Pend) : Pend[i] = IF i <= Len(cur) THEN cur[i] ELSE Begin(cmdq[i - Len(cur)])
    BY <1>1, <1>3 DEF Parts
  <2>2. ASSUME NEW i \in 1..Len(Pend), i > 1
        PROVE  Pend[i] = Begin(cmdq[i - 1])
    <3>1. ~(i <= Len(cur)) /\ i - Len(cur) = i - 1
      BY <2>1, <2>2
    <3> QED BY <2>1, <3>1
  <2> QED BY <2>1, <2>2
<1>5. /\ IsSequence(cur') /\ Len(cur') <= 1 /\ IsSequence(cmdq') /\ (cur' = <<>> => cmdq' = <<>>)
      /\ \A i \in 1..Len(cur') : cur'[i] = [cmd |-> cur'[i].cmd, left |-> cur'[i].left]
      /\ Len(cmdq') \in Nat /\ Len(cmdq') <= Len(cmdq)
      /\ Len(cur') + Len(cmdq') = Len(cmdq)
      /\ \A i \in 1..Len(cmdq) : (IF i <= Len(cur') THEN cur'[i] ELSE Begin(cmdq'[i - Len(cur')])) = Begin(cmdq[i])
  <2>1. CASE cmdq = <<>>
    <3>1. cur' = <<>> /\ cmdq' = <<>> /\ Len(<<>>) = 0 /\ IsSequence(<<>>) /\ Len(cmdq) = 0
      BY <1>1, <2>1, LeadsNowhere, <1>3
    <3> QED BY <3>1
  <2>2. CASE cmdq # <<>>
    <3> DEFINE b == Begin(Head(cmdq))
    <3>1. /\ IsSequence(Tail(cmdq)) /\ Len(cmdq) \in Nat /\ Len(cmdq) >= 1 /\ Len(Tail(cmdq)) = Len(cmdq) - 1
          /\ Head(cmdq) = cmdq[1] /\ \A i \in 1..Len(cmdq) - 1 : Tail(cmdq)[i] = cmdq[i + 1]
      BY <1>3, <2>2, TailIs
    <3>2. cur' = <<b>> /\ cmdq' = Tail(cmdq)
      BY <1>1, <2>2
    <3>3. b = [cmd |-> b.cmd, left |-> b.left] /\ b = Begin(cmdq[1])
      BY <3>1 DEF Begin
    <3> HIDE DEF b
    <3>4. IsSequence(cur') /\ Len(cur') = 1 /\ cur'[1] = b /\ cur' # <<>>
      BY <3>2, OneIs
    <3>5. \A i \in 1..Len(cur') : cur'[i] = [cmd |-> cur'[i].cmd, left |-> cur'[i].left]
      BY <3>3, <3>4
    <3>6. ASSUME NEW i \in 1..Len(cmdq)
          PROVE  (IF i <= Len(cur') THEN cur'[i] ELSE Begin(cmdq'[i - Len(cur')])) = Begin(cmdq[i])
      <4>1. CASE i = 1
        BY <3>3, <3>4, <4>1
      <4>2. CASE i # 1
        <5>1. ~(i <= 1) /\ i - 1 \in 1..Len(cmdq) - 1 /\ (i - 1) + 1 = i
          BY <3>1, <4>2
        <5>2. cmdq'[i - 1] = cmdq[i]
          BY <3>1, <3>2, <5>1
        <5> QED BY <3>4, <5>1, <5>2
      <4> QED BY <4>1, <4>2
    <3> QED BY <3>1, <3>2, <3>4, <3>5, <3>6
  <2> QED BY <2>1, <2>2
<1>6. Parts(cur', cmdq', Pend')
  BY <1>5, PartsAre DEF Pend
<1>7. Len(Pend') = Len(Pend) - 1
  BY <1>4, <1>5, <1>6 DEF Parts
<1>8. ASSUME NEW i \in 1..Len(Pend) - 1
      PROVE  Pend'[i] = Pend[i + 1]
  <2>1. i \in 1..Len(Pend') /\ i \in 1..Len(cmdq) /\ i + 1 \in 1..Len(Pend) /\ i + 1 > 1 /\ (i + 1) - 1 = i
    BY <1>4, <1>7
  <2>2. Pend'[i] = Begin(cmdq[i])
    BY <1>5, <1>6, <2>1 DEF Parts
  <2> QED BY <1>4, <2>1, <2>2
<1>9. HostTyped'
  <2>1. IsSequence(tx') /\ IsSequence(rx') /\ (\A i \in 1..Len(tx') : tx'[i].op # "none")
        /\ control' = [txwm |-> control'.txwm, rxwm |-> control'.rxwm] /\ control'.rxwm \in Nat
        /\ dma' = [dir |-> dma'.dir, buf |-> dma'.buf, at |-> dma'.at, n |-> dma'.n] /\ dma'.n \in Nat
    BY <1>1, <1>2 DEF HostKnown, HostTyped
  <2> QED BY <1>5, <2>1 DEF HostTyped
<1> QED BY <1>1, <1>2, <1>4, <1>5, <1>7, <1>8, <1>9

\* EndSegment keeps the types.
LEMMA EndTyped ==
    ASSUME HostKnown, EndSegment
    PROVE  HostKnown'
<1>1. /\ HostTyped' /\ Len(Pend) \in Nat /\ Len(Pend') = Len(Pend) - 1 /\ Len(Pend) >= 1
      /\ \A i \in 1..Len(Pend) - 1 : Pend'[i] = Pend[i + 1]
      /\ (cur[1].cmd.csaat => flash' = flash) /\ (~cur[1].cmd.csaat => Execute)
  BY EndIs
<1>2. Commands'
  <2>1. Commands
    BY DEF HostKnown
  <2>2. ASSUME NEW i \in 1..Len(Pend')
        PROVE  /\ Pend'[i].cmd.direction \in {"TX_ONLY", "RX_ONLY", "DUMMY"}
               /\ Pend'[i].cmd.len \in Nat \ {0} /\ Pend'[i].left \in Nat
               /\ i > 1 => Pend'[i].left = WordsOf(Pend'[i].cmd)
    <3>1. i \in 1..Len(Pend) - 1 /\ i + 1 \in 1..Len(Pend) /\ i + 1 > 1
      BY <1>1
    <3> QED BY <1>1, <2>1, <3>1 DEF Commands
  <2>3. Commands' = \A i \in 1..Len(Pend') :
                       /\ Pend'[i].cmd.direction \in {"TX_ONLY", "RX_ONLY", "DUMMY"}
                       /\ Pend'[i].cmd.len \in Nat \ {0} /\ Pend'[i].left \in Nat
                       /\ i > 1 => Pend'[i].left = WordsOf(Pend'[i].cmd)
    BY DEF Commands, WordsOf, LenWords
  <2> QED BY <2>2, <2>3
<1>3. FlashTyped'
  <2>1. CASE cur[1].cmd.csaat
    <3>1. flash' = flash /\ FlashTyped
      BY <1>1, <2>1 DEF HostKnown
    <3> QED BY <3>1 DEF FlashTyped, IsRecordOfSel
  <2>2. CASE ~cur[1].cmd.csaat
    BY <1>1, <2>2, ExecuteIs DEF HostKnown
  <2> QED BY <2>1, <2>2
<1> QED BY <1>1, <1>2, <1>3 DEF HostKnown

\* EndSegment keeps what the driver counts on.
LEMMA EndTracks ==
    ASSUME HostKnown, NEW q, NEW st, Tracked(q, st), EndSegment
    PROVE  \E u : Tracked(q, u)'
<1>1. PICK n : n = Len(Pend)
  OBVIOUS
<1>2. PICK u : u = [i \in 0..n - 1 |-> st[i + 1]]
  OBVIOUS
<1>3. /\ cur # <<>> /\ cur[1].left = 0 /\ n \in Nat /\ n >= 1 /\ Pend[1] = cur[1]
      /\ tx' = tx /\ rx' = rx /\ control' = control /\ dma' = dma /\ app' = app
      /\ cur[1].cmd.csaat => flash' = flash
      /\ ~cur[1].cmd.csaat => Execute
      /\ Len(Pend') = n - 1 /\ \A i \in 1..n - 1 : Pend'[i] = Pend[i + 1]
      /\ Len(cmdq) \in Nat /\ Len(cmdq') \in Nat /\ Len(cmdq') <= Len(cmdq)
  BY <1>1, EndIs
<1>4. Chain(st) /\ Agrees(q, st[n])
  BY <1>1 DEF Tracked
<1>5. /\ \A i \in 1..n : st[i] = Effect(Pend[i], st[i - 1], tx[st[i - 1].t + 1].op)
      /\ \A i \in 0..n : st[i].t \in Nat /\ st[i].r \in Nat /\ st[i].t <= Len(tx) /\ (app.ready => st[i].tk)
      /\ \A i, j \in 0..n : i <= j => st[i].t <= st[j].t /\ st[i].r <= st[j].r
      /\ Fits(st[0])
  BY <1>1, <1>4, ChainIs
<1>6. \A i \in 0..n - 1 : u[i] = st[i + 1] /\ i + 1 \in 0..n /\ i + 1 \in 1..n
  BY <1>2, <1>3
<1> DEFINE c == cur[1]
           s == st[0]
           v == st[1]
<1>7. v = Effect(c, s, tx[s.t + 1].op)
  <2>1. 1 \in 1..n /\ 1 - 1 = 0
    BY <1>3
  <2> QED BY <1>3, <1>5, <2>1
<1>8. /\ s.t = 0 /\ s.r = 0 /\ s.K \subseteq TrueFacts
      /\ s.op = (IF flash.sel = <<>> THEN "none" ELSE flash.sel[1].op)
      /\ s.tk /\ flash.sel # <<>> /\ (s.op \in {"RDQIO", "PPQ"} => app.ready) => flash.sel[1].taken
  BY <1>5 DEF Fits
<1>9. ~Opens(c, s)
  BY <1>3 DEF Opens
<1>10. v.t = 0 /\ v.r = 0
  <2>1. s.t + c.left = 0 /\ s.r + c.left = 0
    BY <1>3, <1>8
  <2> QED BY <1>7, <1>8, <2>1, EffectIs
<1>11. /\ v.op = (IF c.cmd.csaat THEN s.op ELSE "none") /\ v.tk = s.tk
       /\ v.K = IF c.cmd.csaat THEN s.K ELSE Known(s.op, s.K, s.tk)
  BY <1>7, <1>9, EffectIs
<1>12. Fits(v)'
  <2>1. CASE c.cmd.csaat
    <3>1. flash' = flash /\ app' = app /\ v.op = s.op /\ v.K = s.K
      BY <1>3, <1>11, <2>1
    <3>2. TrueFacts' = TrueFacts
      BY <3>1 DEF TrueFacts
    <3>3. Fits(v)' = /\ v.t = 0 /\ v.r = 0
                     /\ v.op = (IF flash'.sel = <<>> THEN "none" ELSE flash'.sel[1].op)
                     /\ v.tk /\ flash'.sel # <<>> /\ (v.op \in {"RDQIO", "PPQ"} => app'.ready) => flash'.sel[1].taken
                     /\ v.K \subseteq TrueFacts'
      BY Zenon DEF Fits
    <3> QED BY <1>8, <1>10, <1>11, <3>1, <3>2, <3>3
  <2>2. CASE ~c.cmd.csaat
    <3>1. flash'.sel = <<>> /\ v.op = "none" /\ v.K = Known(s.op, s.K, s.tk)
      BY <1>3, <1>11, <2>2, ExecuteIs DEF HostKnown
    <3>2. v.K \subseteq TrueFacts'
      BY <1>3, <1>5, <2>2, <3>1, ExecuteKnown DEF HostKnown
    <3>3. Fits(v)' = /\ v.t = 0 /\ v.r = 0
                     /\ v.op = (IF flash'.sel = <<>> THEN "none" ELSE flash'.sel[1].op)
                     /\ v.tk /\ flash'.sel # <<>> /\ (v.op \in {"RDQIO", "PPQ"} => app'.ready) => flash'.sel[1].taken
                     /\ v.K \subseteq TrueFacts'
      BY Zenon DEF Fits
    <3> QED BY <1>10, <3>1, <3>2, <3>3
  <2> QED BY <2>1, <2>2
<1>13. Chain(u)'
  <2>1. Chain(u)' = /\ Fits(u[0])'
                    /\ \A i \in 1..Len(Pend') : u[i] = Effect(Pend'[i], u[i - 1], tx'[u[i - 1].t + 1].op)
                    /\ \A i \in 0..Len(Pend') : u[i].t \in Nat /\ u[i].r \in Nat /\ u[i].t <= Len(tx') /\ (app'.ready => u[i].tk)
                    /\ \A i, j \in 0..Len(Pend') : i <= j => u[i].t <= u[j].t /\ u[i].r <= u[j].r
    BY Zenon DEF Chain, HostAfter
  <2>2. u[0] = v
    <3>1. 0 \in 0..n - 1
      BY <1>3
    <3> QED BY <1>6, <3>1
  <2>3. ASSUME NEW i \in 1..n - 1
        PROVE  u[i] = Effect(Pend'[i], u[i - 1], tx'[u[i - 1].t + 1].op)
    <3>1. i \in 0..n - 1 /\ i - 1 \in 0..n - 1 /\ i + 1 \in 1..n /\ (i + 1) - 1 = i /\ (i - 1) + 1 = i
      BY <1>3
    <3>2. u[i] = st[i + 1] /\ u[i - 1] = st[i] /\ Pend'[i] = Pend[i + 1]
      BY <1>3, <1>6, <3>1
    <3>3. st[i + 1] = Effect(Pend[i + 1], st[i], tx[st[i].t + 1].op)
      BY <1>5, <3>1
    <3> QED BY <1>3, <3>2, <3>3
  <2>4. \A i \in 0..n - 1 : u[i].t \in Nat /\ u[i].r \in Nat /\ u[i].t <= Len(tx') /\ (app'.ready => u[i].tk)
    BY <1>3, <1>5, <1>6
  <2>5. ASSUME NEW i \in 0..n - 1, NEW j \in 0..n - 1, i <= j
        PROVE  u[i].t <= u[j].t /\ u[i].r <= u[j].r
    <3>1. i + 1 \in 0..n /\ j + 1 \in 0..n /\ i + 1 <= j + 1
      BY <1>3, <2>5
    <3> QED BY <1>5, <1>6, <3>1
  <2> QED BY <1>3, <1>12, <2>1, <2>2, <2>3, <2>4, <2>5
<1>14. PICK w : w = st[n]
  OBVIOUS
<1>15. Agrees(q, w)'
  <2>1. WordsAgree(q, w) /\ BusAgrees(q, w) /\ DmaAgrees(q) /\ InAgrees(q) /\ AnswerKnown(q, w)
    BY <1>4, <1>14 DEF Agrees
  <2>2. WordsAgree(q, w)'
    BY <1>3, <2>1 DEF WordsAgree, Dtx, Drx
  <2>3. BusAgrees(q, w)'
    BY <2>1 DEF BusAgrees
  <2>4. DmaAgrees(q)'
    BY <1>3, <2>1 DEF DmaAgrees
  <2>5. InAgrees(q)'
    <3>1. q.rdy => Len(cmdq') < CmdDepth
      BY <1>3, <2>1, HostAssumption DEF InAgrees
    <3> QED BY <1>3, <2>1, <3>1 DEF InAgrees
  <2>6. AnswerKnown(q, w)'
    <3>1. ASSUME w.r = 0, q.bus.ask \in {"RSR1", "RSR2"}
          PROVE  (~flash.busy => ~flash'.busy) /\ flash'.qe = flash.qe
      <4>1. w.ask = q.bus.ask /\ w.ask # "none"
        BY <2>1, <3>1 DEF BusAgrees
      <4>2. n = 1
        <5>1. n >= 2 => st[n].r >= st[1].r + 1
          BY <1>1, <1>3, <1>4, <1>14, <4>1, LastAsks
        <5>2. 1 \in 0..n
          BY <1>3
        <5> QED BY <1>3, <1>5, <1>14, <3>1, <5>1, <5>2
      <4>3. w.ask = s.op
        <5>1. st[n].ask = st[n - 1].op
          BY <1>1, <1>3, <1>4, <1>14, <4>1, LastAsks
        <5> QED BY <1>14, <4>2, <5>1
      <4>4. flash.sel # <<>> /\ flash.sel[1].op \in {"RSR1", "RSR2"}
        BY <1>8, <3>1, <4>1, <4>3
      <4>5. CASE c.cmd.csaat
        BY <1>3, <4>5
      <4>6. CASE ~c.cmd.csaat
        <5>1. flash.sel[1].op \notin Changing /\ flash.sel[1].op # "WSR2"
          BY <4>4 DEF Changing, Mutating
        <5>2. CASE flash.sel[1].taken
          BY <1>3, <4>4, <4>6, <5>1, <5>2, ExecuteIs DEF HostKnown
        <5>3. CASE ~flash.sel[1].taken
          BY <1>3, <4>4, <4>6, <5>1, <5>3, ExecuteIs DEF HostKnown
        <5> QED BY <5>2, <5>3
      <4> QED BY <4>5, <4>6
    <3>2. /\ w.r = 0 /\ rx # <<>> =>
               /\ q.bus.ask = "RSR1" /\ rx[Len(rx)][1] % 2 # 1 => ~flash.busy
               /\ q.bus.ask = "RSR2" /\ q.bus.tk /\ rx[Len(rx)][1] % 2 = 1 => flash.qe
      BY <2>1, Zenon DEF AnswerKnown
    <3>3. /\ w.r = 0 /\ rx' # <<>> =>
               /\ q.bus.ask = "RSR1" /\ rx'[Len(rx')][1] % 2 # 1 => ~flash'.busy
               /\ q.bus.ask = "RSR2" /\ q.bus.tk /\ rx'[Len(rx')][1] % 2 = 1 => flash'.qe
      BY <1>3, <3>1, <3>2
    <3> QED BY <3>3, Zenon DEF AnswerKnown
  <2> QED BY <2>2, <2>3, <2>4, <2>5, <2>6 DEF Agrees
<1>16. w = u[n - 1]
  <2>1. n - 1 \in 0..n - 1 /\ (n - 1) + 1 = n
    BY <1>3
  <2> QED BY <1>6, <1>14, <2>1
<1>17. Tracked(q, u)'
  BY <1>3, <1>13, <1>15, <1>16 DEF Tracked
<1> QED BY <1>17

-----------------------------------------------------------------------------
(* What other steps leave as it is.                                        *)

\* The flash and the application change nothing of what is known of the first command.
LEMMA FitsKeeps ==
    ASSUME NEW s, Fits(s), flash'.sel = flash.sel, app'.ready => app.ready, TrueFacts \subseteq TrueFacts'
    PROVE  Fits(s)'
<1>1. /\ s.t = 0 /\ s.r = 0 /\ s.K \subseteq TrueFacts
      /\ s.op = (IF flash.sel = <<>> THEN "none" ELSE flash.sel[1].op)
      /\ s.tk /\ flash.sel # <<>> /\ (s.op \in {"RDQIO", "PPQ"} => app.ready) => flash.sel[1].taken
  BY DEF Fits
<1>2. Fits(s)' = /\ s.t = 0 /\ s.r = 0
                 /\ s.op = (IF flash'.sel = <<>> THEN "none" ELSE flash'.sel[1].op)
                 /\ s.tk /\ flash'.sel # <<>> /\ (s.op \in {"RDQIO", "PPQ"} => app'.ready) => flash'.sel[1].taken
                 /\ s.K \subseteq TrueFacts'
  BY Zenon DEF Fits
<1> QED BY <1>1, <1>2

\* Words at the end of the TX FIFO change nothing of what is under way.
LEMMA ChainGrows ==
    ASSUME HostKnown, NEW st, Chain(st), cur' = cur, cmdq' = cmdq, Fits(st[0])',
           Len(tx') \in Nat, Len(tx') >= Len(tx), \A i \in 1..Len(tx) : tx'[i].op = tx[i].op,
           app'.ready => \A i \in 0..Len(Pend) : st[i].tk
    PROVE  Chain(st)' /\ Pend' = Pend
<1>1. PICK n : n = Len(Pend)
  OBVIOUS
<1>2. /\ n \in Nat /\ IsSequence(tx) /\ Len(tx) \in Nat
      /\ \A i \in 1..n : st[i] = Effect(Pend[i], st[i - 1], tx[st[i - 1].t + 1].op)
      /\ \A i \in 0..n : st[i].t \in Nat /\ st[i].r \in Nat /\ st[i].t <= Len(tx) /\ (app.ready => st[i].tk)
      /\ \A i, j \in 0..n : i <= j => st[i].t <= st[j].t /\ st[i].r <= st[j].r
  BY <1>1, ChainIs
<1>3. Pend' = Pend
  BY DEF Pend
<1>4. Chain(st)' = /\ Fits(st[0])'
                   /\ \A i \in 1..Len(Pend') : st[i] = Effect(Pend'[i], st[i - 1], tx'[st[i - 1].t + 1].op)
                   /\ \A i \in 0..Len(Pend') : st[i].t \in Nat /\ st[i].r \in Nat /\ st[i].t <= Len(tx') /\ (app'.ready => st[i].tk)
                   /\ \A i, j \in 0..Len(Pend') : i <= j => st[i].t <= st[j].t /\ st[i].r <= st[j].r
  BY Zenon DEF Chain, HostAfter
<1>5. ASSUME NEW i \in 1..n
      PROVE  st[i] = Effect(Pend[i], st[i - 1], tx'[st[i - 1].t + 1].op)
  <2> DEFINE c == Pend[i]
             s == st[i - 1]
             o == tx[s.t + 1].op
  <2>1. i - 1 \in 0..n /\ i \in 0..n
    BY <1>2
  <2>2. st[i] = Effect(c, s, o) /\ s.t \in Nat /\ st[i].t <= Len(tx)
    BY <1>2, <2>1
  <2>3. c.left \in Nat
    BY <1>1 DEF HostKnown, Commands
  <2>4. ASSUME Opens(c, s)
        PROVE  tx'[s.t + 1].op = o
    <3>1. st[i].t = s.t + c.left /\ c.left > 0
      BY <2>2, <2>4, EffectIs DEF Opens
    <3>2. s.t + 1 \in 1..Len(tx)
      BY <1>2, <2>2, <2>3, <3>1
    <3> QED BY <3>2
  <2> HIDE DEF c, s, o
  <2>5. Effect(c, s, o) = Effect(c, s, tx'[s.t + 1].op)
    BY <2>4, EffectAny
  <2> QED BY <2>2, <2>5 DEF c, s
<1>6. \A i \in 0..n : st[i].t \in Nat /\ st[i].r \in Nat /\ st[i].t <= Len(tx') /\ (app'.ready => st[i].tk)
  BY <1>1, <1>2
<1> QED BY <1>1, <1>2, <1>3, <1>4, <1>5, <1>6

\* The commands under way are known while they stay.
LEMMA KnownKeeps ==
    ASSUME HostKnown, cur' = cur, cmdq' = cmdq,
           IsSequence(tx'), \A i \in 1..Len(tx') : tx'[i].op # "none", IsSequence(rx'),
           control' = [txwm |-> control'.txwm, rxwm |-> control'.rxwm], control'.rxwm \in Nat,
           dma' = [dir |-> dma'.dir, buf |-> dma'.buf, at |-> dma'.at, n |-> dma'.n], dma'.n \in Nat,
           FlashTyped'
    PROVE  HostKnown'
<1>1. HostTyped'
  BY DEF HostKnown, HostTyped
<1>2. Commands'
  <2>1. Pend' = Pend /\ Commands
    BY DEF Pend, HostKnown
  <2>2. Commands' = \A i \in 1..Len(Pend') :
                       /\ Pend'[i].cmd.direction \in {"TX_ONLY", "RX_ONLY", "DUMMY"}
                       /\ Pend'[i].cmd.len \in Nat \ {0} /\ Pend'[i].left \in Nat
                       /\ i > 1 => Pend'[i].left = WordsOf(Pend'[i].cmd)
    BY DEF Commands, WordsOf, LenWords
  <2> QED BY <2>1, <2>2 DEF Commands
<1> QED BY <1>1, <1>2 DEF HostKnown

\* A word of DMA.
LEMMA DmaIs ==
    ASSUME HostKnown, DmaMove
    PROVE  /\ dma.n \in Nat \ {0} /\ dma' = [dir |-> dma'.dir, buf |-> dma'.buf, at |-> dma'.at, n |-> dma'.n]
           /\ dma'.n = dma.n - 1 /\ dma'.n \in Nat /\ (dma'.n > 0 => dma'.dir = dma.dir)
           /\ cur' = cur /\ cmdq' = cmdq /\ control' = control /\ flash' = flash /\ app' = app /\ prog' = prog /\ call' = call
           /\ \/ /\ dma.dir = "rx" /\ rx # <<>> /\ rx' = Tail(rx) /\ tx' = tx
                 /\ Drx' = Drx - 1 /\ Dtx' = Dtx /\ Dtx = 0 /\ Drx = dma.n
              \/ /\ dma.dir = "tx" /\ rx' = rx /\ (\E w : w.op = "DATA" /\ tx' = Append(tx, w))
                 /\ Dtx' = Dtx - 1 /\ Drx' = Drx /\ Drx = 0 /\ Dtx = dma.n
<1>1. dma = [dir |-> dma.dir, buf |-> dma.buf, at |-> dma.at, n |-> dma.n] /\ dma.n \in Nat
  BY DEF HostKnown, HostTyped
<1>2. /\ dma.n > 0 /\ dma' = (IF dma.n = 1 THEN DmaIdle ELSE Advance)
      /\ cur' = cur /\ cmdq' = cmdq /\ control' = control /\ flash' = flash /\ app' = app /\ prog' = prog /\ call' = call
      /\ \/ dma.dir = "rx" /\ rx # <<>> /\ rx' = Tail(rx) /\ tx' = tx
         \/ dma.dir = "tx" /\ tx' = Append(tx, [Op("DATA", 0) EXCEPT !.bytes = Fetch(dma.buf, dma.at, 4)]) /\ rx' = rx
  BY DEF DmaMove
<1>3. /\ dma' = [dir |-> dma'.dir, buf |-> dma'.buf, at |-> dma'.at, n |-> dma'.n]
      /\ dma'.n = dma.n - 1 /\ dma'.n \in Nat /\ (dma'.n > 0 => dma'.dir = dma.dir)
      /\ dma.n = 1 => dma'.dir = "none"
  <2>1. CASE dma.n = 1
    <3>1. dma' = [dir |-> "none", buf |-> "user", at |-> 0, n |-> 0]
      BY <1>2, <2>1 DEF DmaIdle
    <3> QED BY <2>1, <3>1
  <2>2. CASE dma.n # 1
    <3> DEFINE at == dma.at + 4
    <3>1. dma' = [dir |-> dma.dir, buf |-> dma.buf, at |-> at, n |-> dma.n - 1]
      BY <1>1, <1>2, <2>2 DEF Advance
    <3> HIDE DEF at
    <3> QED BY <1>1, <1>2, <2>2, <3>1
  <2> QED BY <2>1, <2>2
<1>4. [Op("DATA", 0) EXCEPT !.bytes = Fetch(dma.buf, dma.at, 4)].op = "DATA"
  BY DEF Op
<1>5. CASE dma.dir = "rx" /\ rx # <<>> /\ rx' = Tail(rx) /\ tx' = tx
  <2>1. Drx = dma.n /\ Dtx = 0
    BY <1>5 DEF Drx, Dtx
  <2>2. dma.n # 1 => dma'.dir = "rx"
    BY <1>1, <1>2, <1>3, <1>5
  <2>3. Drx' = (IF dma'.dir = "rx" THEN dma'.n ELSE 0) /\ Dtx' = (IF dma'.dir = "tx" THEN dma'.n ELSE 0)
    BY DEF Drx, Dtx
  <2>4. Drx' = Drx - 1 /\ Dtx' = Dtx
    BY <1>1, <1>3, <2>1, <2>2, <2>3
  <2> QED BY <1>1, <1>2, <1>3, <1>5, <2>1, <2>4
<1>6. CASE dma.dir = "tx" /\ tx' = Append(tx, [Op("DATA", 0) EXCEPT !.bytes = Fetch(dma.buf, dma.at, 4)]) /\ rx' = rx
  <2>1. Dtx = dma.n /\ Drx = 0
    BY <1>6 DEF Drx, Dtx
  <2>2. dma.n # 1 => dma'.dir = "tx"
    BY <1>1, <1>2, <1>3, <1>6
  <2>3. Drx' = (IF dma'.dir = "rx" THEN dma'.n ELSE 0) /\ Dtx' = (IF dma'.dir = "tx" THEN dma'.n ELSE 0)
    BY DEF Drx, Dtx
  <2>4. Dtx' = Dtx - 1 /\ Drx' = Drx
    BY <1>1, <1>3, <2>1, <2>2, <2>3
  <2>5. \E w : w.op = "DATA" /\ tx' = Append(tx, w)
    BY <1>4, <1>6
  <2> QED BY <1>1, <1>2, <1>3, <1>6, <2>1, <2>4, <2>5
<1> QED BY <1>2, <1>5, <1>6

-----------------------------------------------------------------------------
(* The DMA.                                                                *)

\* DmaMove keeps the types, and moves one word at the end of one FIFO.
LEMMA DmaTyped ==
    ASSUME HostKnown, DmaMove
    PROVE  HostKnown' /\ Len(tx') \in Nat /\ Len(tx') >= Len(tx) /\ (\A i \in 1..Len(tx) : tx'[i] = tx[i])
           /\ (dma.dir = "rx" => tx' = tx /\ IsSequence(rx) /\ Len(rx') = Len(rx) - 1 /\ Len(rx) \in Nat /\ Len(rx) >= 1
                                 /\ (rx' # <<>> => Len(rx') \in Nat /\ Len(rx') >= 1 /\ rx'[Len(rx')] = rx[Len(rx)]))
           /\ (dma.dir = "tx" => rx' = rx /\ Len(tx') = Len(tx) + 1)
<1>1. IsSequence(tx) /\ IsSequence(rx) /\ (\A i \in 1..Len(tx) : tx[i].op # "none") /\ FlashTyped
      /\ control = [txwm |-> control.txwm, rxwm |-> control.rxwm] /\ control.rxwm \in Nat
  BY DEF HostKnown, HostTyped
<1>2. FlashTyped'
  <2>1. flash' = flash
    BY DmaIs, SMTT(30)
  <2> QED BY <1>1, <2>1 DEF FlashTyped, IsRecordOfSel
<1>3. CASE dma.dir = "rx"
  <2>1. rx # <<>> /\ rx' = Tail(rx) /\ tx' = tx
    BY <1>3, DmaIs
  <2>2. IsSequence(rx') /\ Len(rx) \in Nat /\ Len(rx) >= 1 /\ Len(rx') = Len(rx) - 1
        /\ \A i \in 1..Len(rx) - 1 : rx'[i] = rx[i + 1]
    BY <1>1, <2>1, TailIs
  <2>3. rx' # <<>> => Len(rx') \in Nat /\ Len(rx') >= 1 /\ rx'[Len(rx')] = rx[Len(rx)]
    <3> SUFFICES ASSUME rx' # <<>>
                 PROVE  Len(rx') \in Nat /\ Len(rx') >= 1 /\ rx'[Len(rx')] = rx[Len(rx)]
      OBVIOUS
    <3>1. Len(rx') \in Nat /\ Len(rx') >= 1
      BY <2>2, TailIs
    <3>2. Len(rx') \in 1..Len(rx) - 1 /\ Len(rx') + 1 = Len(rx)
      BY <2>2, <3>1, SMTT(30)
    <3> QED BY <2>2, <3>1, <3>2
  <2>4. HostKnown'
    BY <1>1, <1>2, <2>1, <2>2, DmaIs, KnownKeeps
  <2>5. Len(tx) \in Nat
    BY <1>1, SequenceIs
  <2>6. Len(tx') \in Nat /\ Len(tx') >= Len(tx) /\ (\A i \in 1..Len(tx) : tx'[i] = tx[i])
    BY <2>1, <2>5
  <2>7. IsSequence(rx) /\ Len(rx') = Len(rx) - 1 /\ Len(rx) \in Nat /\ Len(rx) >= 1
    BY <1>1, <2>2
  <2>8. dma.dir # "tx"
    BY <1>3
  <2> QED BY <2>1, <2>3, <2>4, <2>6, <2>7, <2>8
<1>4. CASE dma.dir = "tx"
  <2>1. PICK w : w.op = "DATA" /\ tx' = Append(tx, w)
    BY <1>4, DmaIs
  <2>2. /\ IsSequence(tx') /\ Len(tx) \in Nat /\ Len(tx') = Len(tx) + 1 /\ tx'[Len(tx) + 1] = w
        /\ \A i \in 1..Len(tx) : tx'[i] = tx[i]
    BY <1>1, <2>1, AppendIs
  <2>3. \A i \in 1..Len(tx') : tx'[i].op # "none"
    <3> TAKE i \in 1..Len(tx')
    <3>1. CASE i = Len(tx) + 1
      BY <2>1, <2>2, <3>1
    <3>2. CASE i # Len(tx) + 1
      <4>1. i \in 1..Len(tx)
        BY <2>2, <3>2
      <4> QED BY <1>1, <2>2, <4>1
    <3> QED BY <3>1, <3>2
  <2>4. rx' = rx
    BY <1>4, DmaIs
  <2>5. HostKnown'
    BY <1>1, <1>2, <2>2, <2>3, <2>4, DmaIs, KnownKeeps
  <2> QED BY <1>4, <2>2, <2>4, <2>5
<1> QED BY <1>3, <1>4, DmaIs

\* A word that moves from the DMA to a FIFO or back.
LEMMA Moves ==
    ASSUME NEW a \in Int, NEW b \in Int
    PROVE  /\ a + b = (a + 1) + (b - 1)
           /\ \A t \in Int : a + b - t = (a + 1) + (b - 1) - t
           /\ \A r \in Int : a + r - b = (a - 1) + r - (b - 1)
OBVIOUS

\* DmaMove keeps what the driver counts on.
LEMMA DmaTracks ==
    ASSUME HostKnown, NEW q, NEW st, Tracked(q, st), DmaMove
    PROVE  Tracked(q, st)'
<1>1. PICK n : n = Len(Pend)
  OBVIOUS
<1>2. PICK s : s = st[n]
  OBVIOUS
<1>3. /\ dma.n \in Nat \ {0} /\ dma'.n = dma.n - 1 /\ (dma'.n > 0 => dma'.dir = dma.dir)
      /\ cur' = cur /\ cmdq' = cmdq /\ control' = control /\ flash' = flash /\ app' = app
      /\ \/ /\ dma.dir = "rx" /\ rx # <<>> /\ rx' = Tail(rx) /\ tx' = tx
            /\ Drx' = Drx - 1 /\ Dtx' = Dtx /\ Dtx = 0 /\ Drx = dma.n
         \/ /\ dma.dir = "tx" /\ rx' = rx /\ Dtx' = Dtx - 1 /\ Drx' = Drx /\ Drx = 0 /\ Dtx = dma.n
  BY DmaIs
<1>4. /\ HostKnown' /\ Len(tx') \in Nat /\ Len(tx') >= Len(tx) /\ (\A i \in 1..Len(tx) : tx'[i] = tx[i])
      /\ (dma.dir = "rx" => tx' = tx /\ IsSequence(rx) /\ Len(rx') = Len(rx) - 1 /\ Len(rx) \in Nat /\ Len(rx) >= 1
                            /\ (rx' # <<>> => Len(rx') \in Nat /\ Len(rx') >= 1 /\ rx'[Len(rx')] = rx[Len(rx)]))
      /\ (dma.dir = "tx" => rx' = rx /\ Len(tx') = Len(tx) + 1)
  BY DmaTyped
<1>5. Chain(st) /\ WordsAgree(q, s) /\ BusAgrees(q, s) /\ DmaAgrees(q) /\ InAgrees(q) /\ AnswerKnown(q, s)
  BY <1>1, <1>2 DEF Tracked, Agrees
<1>6. /\ n \in Nat /\ Len(tx) \in Nat /\ Fits(st[0])
      /\ \A i \in 0..n : st[i].t \in Nat /\ st[i].r \in Nat /\ st[i].t <= Len(tx) /\ (app.ready => st[i].tk)
  BY <1>1, <1>5, ChainIs
<1>7. s.t \in Nat /\ s.t <= Len(tx) /\ s.r \in Nat
  <2>1. n \in 0..n
    BY <1>6
  <2> QED BY <1>2, <1>6, <2>1
<1>8. Chain(st)' /\ Pend' = Pend
  <2>1. TrueFacts' = TrueFacts
    BY <1>3 DEF TrueFacts
  <2>2. Fits(st[0])'
    <3>1. flash'.sel = flash.sel /\ (app'.ready => app.ready)
      BY <1>3
    <3> DEFINE v == st[0]
    <3>2. Fits(v) /\ TrueFacts \subseteq TrueFacts'
      BY <1>6, <2>1
    <3> HIDE DEF v
    <3>3. Fits(v)'
      BY <3>1, <3>2, FitsKeeps
    <3> QED BY <3>3 DEF v
  <2>3. app'.ready => \A i \in 0..Len(Pend) : st[i].tk
    BY <1>1, <1>3, <1>6
  <2> QED BY <1>3, <1>4, <1>5, <2>2, <2>3, ChainGrows
<1>9. dma.dir = q.dma /\ q.dma \in {"none", "rx", "tx"} /\ (q.bus.op = "none" => q.dma # "tx")
  BY <1>3, <1>5 DEF DmaAgrees
<1>10. WordsAgree(q, s)'
  <2>1. /\ q.out.t = Len(tx) + Dtx - s.t /\ q.in.e = Len(rx) + s.r - Drx
        /\ q.out.b \in Nat /\ Len(tx) + Dtx <= q.out.b
        /\ q.bus.op = "none" /\ q.out.t >= 1 => tx[s.t + 1].op = q.out.first
        /\ q.bus.op = "none" /\ q.out.t = 2 => tx[s.t + 2].op = q.out.second
    BY <1>5 DEF WordsAgree
  <2>2. /\ q.out.t = Len(tx') + Dtx' - s.t /\ q.in.e = Len(rx') + s.r - Drx' /\ Len(tx') + Dtx' <= q.out.b
    <3>1. PICK a, b, c, d : a = Len(tx) /\ b = Dtx /\ c = Len(rx) /\ d = Drx
      OBVIOUS
    <3>2. PICK a2, b2, c2, d2 : a2 = Len(tx') /\ b2 = Dtx' /\ c2 = Len(rx') /\ d2 = Drx'
      OBVIOUS
    <3>3. a \in Nat /\ b \in Nat /\ c \in Nat /\ d \in Nat
      BY <1>6, <3>1, DtxIs, SequenceIs DEF HostKnown, HostTyped
    <3>4. \/ a2 = a /\ b2 = b /\ c2 = c - 1 /\ d2 = d - 1
          \/ a2 = a + 1 /\ b2 = b - 1 /\ c2 = c /\ d2 = d
      BY <1>3, <1>4, <3>1, <3>2
    <3>5. q.out.t = a + b - s.t /\ q.in.e = c + s.r - d /\ a + b <= q.out.b
      BY <2>1, <3>1
    <3>6. q.out.t = a2 + b2 - s.t /\ q.in.e = c2 + s.r - d2 /\ a2 + b2 <= q.out.b
      <4>1. s.t \in Int /\ s.r \in Int /\ q.out.b \in Int
        BY <1>7, <2>1
      <4>2. CASE a2 = a /\ b2 = b /\ c2 = c - 1 /\ d2 = d - 1
        <5>1. c + s.r - d = (c - 1) + s.r - (d - 1)
          BY <3>3, <4>1, Moves
        <5> QED BY <3>5, <4>2, <5>1
      <4>3. CASE a2 = a + 1 /\ b2 = b - 1 /\ c2 = c /\ d2 = d
        <5>1. a + b = (a + 1) + (b - 1) /\ a + b - s.t = (a + 1) + (b - 1) - s.t
          BY <3>3, <4>1, Moves
        <5> QED BY <3>5, <4>3, <5>1
      <4> QED BY <3>4, <4>2, <4>3
    <3> QED BY <3>2, <3>6
  <2>3. q.bus.op = "none" => tx' = tx
    BY <1>3, <1>9
  <2> QED BY <2>1, <2>2, <2>3, Zenon DEF WordsAgree
<1>11. BusAgrees(q, s)'
  BY <1>5 DEF BusAgrees
<1>12. DmaAgrees(q)'
  BY <1>3, <1>5 DEF DmaAgrees
<1>13. InAgrees(q)'
  <2>1. /\ q.in.wm \in Nat /\ q.in.have \in Nat /\ q.in.wm <= control.rxwm /\ q.in.have <= Len(rx)
        /\ q.dma = "rx" => q.in.have = 0
        /\ q.rdy => Len(cmdq) < CmdDepth
    BY <1>5 DEF InAgrees
  <2>2. q.in.have <= Len(rx')
    BY <1>3, <1>4, <1>9, <2>1
  <2> QED BY <1>3, <2>1, <2>2 DEF InAgrees
<1>14. AnswerKnown(q, s)'
  <2>1. s.r = 0 /\ rx # <<>> =>
               /\ q.bus.ask = "RSR1" /\ rx[Len(rx)][1] % 2 # 1 => ~flash.busy
               /\ q.bus.ask = "RSR2" /\ q.bus.tk /\ rx[Len(rx)][1] % 2 = 1 => flash.qe
    BY <1>5, Zenon DEF AnswerKnown
  <2>2. rx' # <<>> => rx # <<>> /\ rx'[Len(rx')] = rx[Len(rx)]
    BY <1>3, <1>4
  <2>3. s.r = 0 /\ rx' # <<>> =>
               /\ q.bus.ask = "RSR1" /\ rx'[Len(rx')][1] % 2 # 1 => ~flash'.busy
               /\ q.bus.ask = "RSR2" /\ q.bus.tk /\ rx'[Len(rx')][1] % 2 = 1 => flash'.qe
    BY <1>3, <2>1, <2>2
  <2> QED BY <2>3, Zenon DEF AnswerKnown
<1> QED BY <1>1, <1>2, <1>8, <1>10, <1>11, <1>12, <1>13, <1>14 DEF Tracked, Agrees

\* The flash has ended what it did.
LEMMA ReadyIs ==
    ASSUME HostKnown, FlashReady
    PROVE  /\ HostKnown' /\ flash'.sel = flash.sel /\ flash'.qe = flash.qe /\ flash'.lost = flash.lost /\ flash'.busy = FALSE
           /\ UNCHANGED <<cur, cmdq, tx, rx, control, dma, prog, call, app>> /\ TrueFacts \subseteq TrueFacts'
<1>1. flash = [sel |-> flash.sel, busy |-> flash.busy, wel |-> flash.wel, qe |-> flash.qe,
                armed |-> flash.armed, down |-> flash.down, lost |-> flash.lost]
  BY DEF HostKnown, FlashTyped
<1>2. flash' = [flash EXCEPT !.busy = FALSE] /\ UNCHANGED <<cur, cmdq, tx, rx, control, dma, prog, call, app>>
  BY DEF FlashReady, hostVars, DriverKept
<1> DEFINE b == FALSE
<1>3. flash' = [sel |-> flash.sel, busy |-> b, wel |-> flash.wel, qe |-> flash.qe,
                armed |-> flash.armed, down |-> flash.down, lost |-> flash.lost]
  BY <1>1, <1>2
<1>4. b = FALSE
  OBVIOUS
<1> HIDE DEF b
<1>5. /\ flash'.sel = flash.sel /\ flash'.busy = b /\ flash'.wel = flash.wel /\ flash'.qe = flash.qe
      /\ flash'.armed = flash.armed /\ flash'.down = flash.down /\ flash'.lost = flash.lost
  BY <1>3
<1>6. FlashTyped'
  <2>1. flash' = [sel |-> flash'.sel, busy |-> flash'.busy, wel |-> flash'.wel, qe |-> flash'.qe,
                armed |-> flash'.armed, down |-> flash'.down, lost |-> flash'.lost]
    BY <1>3, <1>5
  <2>2. IsRecordOfSel(flash.sel[1])' = IsRecordOfSel(flash'.sel[1])
    BY DEF IsRecordOfSel
  <2>3. flash.sel # <<>> =>
          /\ flash.sel = <<flash.sel[1]>> /\ flash.sel[1].op # "none" /\ IsRecordOfSel(flash.sel[1])
    BY DEF HostKnown, FlashTyped
  <2> QED BY <1>5, <2>1, <2>2, <2>3 DEF FlashTyped
<1>7. HostKnown'
  <2>1. /\ IsSequence(tx') /\ (\A i \in 1..Len(tx') : tx'[i].op # "none") /\ IsSequence(rx')
        /\ control' = [txwm |-> control'.txwm, rxwm |-> control'.rxwm] /\ control'.rxwm \in Nat
        /\ dma' = [dir |-> dma'.dir, buf |-> dma'.buf, at |-> dma'.at, n |-> dma'.n] /\ dma'.n \in Nat
    BY <1>2 DEF HostKnown, HostTyped
  <2> QED BY <1>2, <1>6, <2>1, KnownKeeps
<1>8. TrueFacts \subseteq TrueFacts'
  BY <1>2, <1>4, <1>5 DEF TrueFacts
<1> QED BY <1>2, <1>4, <1>5, <1>7, <1>8

-----------------------------------------------------------------------------
(* No command is lost, and resets.                                         *)

\* No command is refused while the driver is initialised.
LEMMA NoneLost ==
    ASSUME HostKnown, NEW q, NEW st, Tracked(q, st), Execute, ~flash.lost
    PROVE  ~flash'.lost
<1>1. Fits(st[0]) /\ (app.ready => st[0].tk)
  <2>1. Chain(st)
    BY DEF Tracked
  <2>2. Len(Pend) \in Nat /\ Fits(st[0]) /\ \A i \in 0..Len(Pend) : app.ready => st[i].tk
    BY <2>1, ChainIs
  <2>3. 0 \in 0..Len(Pend)
    BY <2>2
  <2> QED BY <2>2, <2>3
<1>2. flash.sel # <<>> /\ app.ready => flash.sel[1].taken
  BY <1>1 DEF Fits
<1>3. CASE flash.sel = <<>> \/ flash.sel[1].taken
  BY <1>3, ExecuteIs DEF HostKnown
<1>4. CASE flash.sel # <<>> /\ ~flash.sel[1].taken
  <2>1. flash' = [[flash EXCEPT !.sel = <<>>] EXCEPT !.lost = @ \/ app.ready]
    BY <1>4 DEF Execute
  <2>2. flash = [sel |-> flash.sel, busy |-> flash.busy, wel |-> flash.wel, qe |-> flash.qe,
                armed |-> flash.armed, down |-> flash.down, lost |-> flash.lost]
    BY DEF HostKnown, FlashTyped
  <2> DEFINE l == flash.lost \/ app.ready
  <2>3. flash' = [sel |-> <<>>, busy |-> flash.busy, wel |-> flash.wel, qe |-> flash.qe,
                armed |-> flash.armed, down |-> flash.down, lost |-> l]
    BY <2>1, <2>2
  <2>4. ~l
    BY <1>2, <1>4
  <2> HIDE DEF l
  <2>5. flash'.lost = l
    BY <2>3
  <2> QED BY <2>4, <2>5
<1> QED BY <1>3, <1>4

\* What is known of a flash that nothing is known of.
Unknown == [t |-> 0, r |-> 0, op |-> "none", tk |-> FALSE, K |-> {}, ask |-> "none"]
Nothing == [i \in 0..0 |-> Unknown]

\* The view after a reset, field by field.
LEMMA ColdIs ==
    /\ Cold.out.t = 0 /\ Cold.out.b = 0 /\ Cold.bus.op = "none" /\ Cold.bus.K = {} /\ Cold.bus.tk = FALSE /\ Cold.bus.ask = "none"
    /\ Cold.bus.last = FALSE /\ Cold.in.e = 0 /\ Cold.in.wm = 0 /\ Cold.in.have = 0 /\ Cold.dma = "none" /\ Cold.rdy = TRUE
    /\ Cold.kind = "off" /\ Nothing[0] = Unknown /\ Unknown.t = 0 /\ Unknown.r = 0 /\ Unknown.op = "none"
    /\ Unknown.tk = FALSE /\ Unknown.K = {} /\ Unknown.ask = "none"
BY DEF Cold, View, NoWords, Out, Bus, In, Unknown, Nothing

\* The microcontroller after a reset.
OffNow ==
    /\ cmdq = <<>> /\ cur = <<>> /\ tx = <<>> /\ rx = <<>> /\ control = [txwm |-> 0, rxwm |-> 127]
    /\ dma = DmaIdle /\ flash.sel = <<>> /\ ~app.ready /\ prog = <<>> /\ call.code # "OK"

\* The empty sequence.
LEMMA EmptyIs == IsSequence(<<>>) /\ Len(<<>>) = 0
<1>1. <<>> \in Seq({})
  OBVIOUS
<1> QED BY <1>1 DEF IsSequence

\* After a reset the types hold.
LEMMA OffKnown ==
    /\ OffNow /\ FlashTyped => HostKnown
    /\ OffNow' /\ FlashTyped' => HostKnown'
<1>1. IsSequence(<<>>) /\ Len(<<>>) = 0
  BY EmptyIs
<1>2. DmaIdle.n = 0 /\ DmaIdle = [dir |-> DmaIdle.dir, buf |-> DmaIdle.buf, at |-> DmaIdle.at, n |-> DmaIdle.n]
  BY DEF DmaIdle
<1> DEFINE c == [txwm |-> 0, rxwm |-> 127]
<1>3. c.rxwm \in Nat /\ c = [txwm |-> c.txwm, rxwm |-> c.rxwm]
  OBVIOUS
<1>4. OffNow => control = c
  BY DEF OffNow
<1>5. OffNow' => control' = c
  BY DEF OffNow
<1> HIDE DEF c
<1>6. OffNow => HostTyped
  BY <1>1, <1>2, <1>3, <1>4 DEF OffNow, HostTyped
<1>7. OffNow' => HostTyped'
  BY <1>1, <1>2, <1>3, <1>5 DEF OffNow, HostTyped
<1>8. OffNow => Len(Pend) = 0
  BY <1>6, PendNow DEF OffNow, Parts
<1>9. OffNow' => Len(Pend') = 0
  BY <1>7, PendNow DEF OffNow, Parts
<1>10. OffNow => Commands
  BY <1>8 DEF Commands
<1>11. OffNow' => Commands'
  BY <1>9 DEF Commands
<1> QED BY <1>6, <1>7, <1>10, <1>11 DEF HostKnown

\* After a reset the driver counts on nothing.
LEMMA OffTracks ==
    /\ OffNow /\ FlashTyped => Tracked(Cold, Nothing) /\ CallAgrees(Cold)
    /\ OffNow' /\ FlashTyped' => Tracked(Cold, Nothing)' /\ CallAgrees(Cold)'
<1>1. Len(<<>>) = 0
  BY EmptyIs
<1>2. DmaIdle.n = 0 /\ DmaIdle.dir = "none"
  BY DEF DmaIdle
<1> DEFINE c == [txwm |-> 0, rxwm |-> 127]
<1>3. c.rxwm = 127
  OBVIOUS
<1>4. OffNow => control = c
  BY DEF OffNow
<1>5. OffNow' => control' = c
  BY DEF OffNow
<1> HIDE DEF c
<1>6. OffNow => control.rxwm = 127
  BY <1>3, <1>4
<1>7. OffNow' => control'.rxwm = 127
  BY <1>3, <1>5
<1>8. CmdDepth \in Nat \ {0}
  BY HostAssumption
<1>9. ASSUME OffNow, FlashTyped
      PROVE  Tracked(Cold, Nothing) /\ CallAgrees(Cold)
  <2>1. Len(Pend) = 0
    BY <1>9, OffKnown, PendNow DEF HostKnown, OffNow, Parts
  <2>2. Fits(Unknown)
    BY <1>9, ColdIs DEF Fits, OffNow
  <2>3. Chain(Nothing)
    BY <1>1, <1>9, <2>1, <2>2, ColdIs DEF Chain, OffNow
  <2>4. Dtx = 0 /\ Drx = 0
    BY <1>2, <1>9 DEF OffNow, Dtx, Drx
  <2>5. WordsAgree(Cold, Unknown)
    BY <1>1, <1>9, <2>4, ColdIs DEF OffNow, WordsAgree
  <2>6. BusAgrees(Cold, Unknown)
    BY ColdIs DEF BusAgrees
  <2>7. DmaAgrees(Cold)
    BY <1>2, <1>9, ColdIs DEF OffNow, DmaAgrees
  <2>8. InAgrees(Cold)
    BY <1>1, <1>6, <1>8, <1>9, ColdIs DEF OffNow, InAgrees
  <2>9. AnswerKnown(Cold, Unknown)
    BY <1>9 DEF OffNow, AnswerKnown
  <2>10. CallAgrees(Cold)
    BY <1>9, ColdIs DEF OffNow, CallAgrees
  <2> QED BY <2>1, <2>3, <2>5, <2>6, <2>7, <2>8, <2>9, <2>10, ColdIs DEF Tracked, Agrees
<1>10. ASSUME OffNow', FlashTyped'
       PROVE  Tracked(Cold, Nothing)' /\ CallAgrees(Cold)'
  <2>1. Len(Pend') = 0
    BY <1>10, OffKnown, PendNow DEF HostKnown, OffNow, Parts
  <2>2. Fits(Unknown)'
    BY <1>10, ColdIs DEF Fits, OffNow
  <2>3. Chain(Nothing)'
    BY <1>1, <1>10, <2>1, <2>2, ColdIs DEF Chain, OffNow
  <2>4. Dtx' = 0 /\ Drx' = 0
    BY <1>2, <1>10 DEF OffNow, Dtx, Drx
  <2>5. WordsAgree(Cold, Unknown)'
    BY <1>1, <1>10, <2>4, ColdIs DEF OffNow, WordsAgree
  <2>6. BusAgrees(Cold, Unknown)'
    BY ColdIs DEF BusAgrees
  <2>7. DmaAgrees(Cold)'
    BY <1>2, <1>10, ColdIs DEF OffNow, DmaAgrees
  <2>8. InAgrees(Cold)'
    BY <1>1, <1>7, <1>8, <1>10, ColdIs DEF OffNow, InAgrees
  <2>9. AnswerKnown(Cold, Unknown)'
    BY <1>10 DEF OffNow, AnswerKnown
  <2>10. CallAgrees(Cold)'
    BY <1>10, ColdIs DEF OffNow, CallAgrees
  <2> QED BY <2>1, <2>3, <2>5, <2>6, <2>7, <2>8, <2>9, <2>10, ColdIs DEF Tracked, Agrees
<1> QED BY <1>9, <1>10

-----------------------------------------------------------------------------
(* The invariant, and the steps beside the driver.                         *)

\* FlashReady keeps what the driver counts on.
LEMMA FlashTracks ==
    ASSUME HostKnown, NEW q, NEW st, Tracked(q, st), FlashReady
    PROVE  Tracked(q, st)'
<1>1. PICK n : n = Len(Pend)
  OBVIOUS
<1>2. PICK s : s = st[n]
  OBVIOUS
<1>3. /\ HostKnown' /\ flash'.sel = flash.sel /\ flash'.qe = flash.qe /\ flash'.busy = FALSE
      /\ cur' = cur /\ cmdq' = cmdq /\ tx' = tx /\ rx' = rx /\ control' = control /\ dma' = dma /\ app' = app
      /\ TrueFacts \subseteq TrueFacts'
  BY ReadyIs
<1>4. Chain(st) /\ WordsAgree(q, s) /\ BusAgrees(q, s) /\ DmaAgrees(q) /\ InAgrees(q) /\ AnswerKnown(q, s)
  BY <1>1, <1>2 DEF Tracked, Agrees
<1>5. /\ n \in Nat /\ Len(tx) \in Nat /\ Fits(st[0]) /\ \A i \in 0..n : app.ready => st[i].tk
  BY <1>1, <1>4, ChainIs
<1>6. Chain(st)' /\ Pend' = Pend
  <2>1. Fits(st[0])'
    <3> DEFINE v == st[0]
    <3>1. Fits(v) /\ flash'.sel = flash.sel /\ (app'.ready => app.ready) /\ TrueFacts \subseteq TrueFacts'
      BY <1>3, <1>5
    <3> HIDE DEF v
    <3>2. Fits(v)'
      BY <3>1, FitsKeeps
    <3> QED BY <3>2 DEF v
  <2>2. app'.ready => \A i \in 0..Len(Pend) : st[i].tk
    BY <1>1, <1>3, <1>5
  <2>3. Len(tx') \in Nat /\ Len(tx') >= Len(tx) /\ \A i \in 1..Len(tx) : tx'[i].op = tx[i].op
    BY <1>3, <1>5
  <2> QED BY <1>3, <1>4, <2>1, <2>2, <2>3, ChainGrows
<1>7. WordsAgree(q, s)'
  BY <1>3, <1>4 DEF WordsAgree, Dtx, Drx
<1>8. BusAgrees(q, s)'
  BY <1>4 DEF BusAgrees
<1>9. DmaAgrees(q)'
  BY <1>3, <1>4 DEF DmaAgrees
<1>10. InAgrees(q)'
  BY <1>3, <1>4 DEF InAgrees
<1>11. AnswerKnown(q, s)'
  <2>1. s.r = 0 /\ rx # <<>> =>
               /\ q.bus.ask = "RSR1" /\ rx[Len(rx)][1] % 2 # 1 => ~flash.busy
               /\ q.bus.ask = "RSR2" /\ q.bus.tk /\ rx[Len(rx)][1] % 2 = 1 => flash.qe
    BY <1>4, Zenon DEF AnswerKnown
  <2>2. s.r = 0 /\ rx' # <<>> =>
               /\ q.bus.ask = "RSR1" /\ rx'[Len(rx')][1] % 2 # 1 => ~flash'.busy
               /\ q.bus.ask = "RSR2" /\ q.bus.tk /\ rx'[Len(rx')][1] % 2 = 1 => flash'.qe
    BY <1>3, <2>1
  <2> QED BY <2>2, Zenon DEF AnswerKnown
<1> QED BY <1>1, <1>2, <1>6, <1>7, <1>8, <1>9, <1>10, <1>11 DEF Tracked, Agrees

-----------------------------------------------------------------------------
\* What the application is still to call is well formed.
TodoKnown == \A i \in 1..Len(app.todo) : WellFormed(app.todo[i])

\* The rest of the call leads to a rest.
Reaches(q) == \E r : AtRest(r) /\ Leads(q, prog, r)

\* There is a view that agrees with what the commands under way will leave,
\* and from which the rest of the call leads to a rest.
Driven == \E q, st : CallAgrees(q) /\ Tracked(q, st) /\ Reaches(q)

\* The inductive invariant.
W25qInv == HostKnown /\ AppTyped /\ TodoKnown /\ ~flash.lost /\ Driven

\* What is said of the call holds while the call and the application do
\* nothing.
LEMMA CallKeeps ==
    ASSUME NEW q, CallAgrees(q), Reaches(q), AppTyped, TodoKnown, prog' = prog, call' = call, app' = app
    PROVE  CallAgrees(q)' /\ Reaches(q)' /\ AppTyped' /\ TodoKnown'
<1>1. CallAgrees(q)'
  BY DEF CallAgrees, Async
<1>2. Reaches(q)'
  BY DEF Reaches
<1>3. AppTyped'
  BY DEF AppTyped
<1>4. TodoKnown'
  <2>1. TodoKnown' = \A i \in 1..Len(app'.todo) : WellFormed(app'.todo[i])
    BY DEF TodoKnown, WellFormed, WholeRead, WholeWrite, UsesDma
  <2> QED BY <2>1 DEF TodoKnown
<1> QED BY <1>1, <1>2, <1>3, <1>4

\* The host, the DMA and the flash preserve the invariant.
LEMMA HostSteps ==
    ASSUME W25qInv, ExchangeWord \/ EndSegment \/ DmaMove \/ FlashReady
    PROVE  W25qInv'
<1>1. PICK q, st : CallAgrees(q) /\ Tracked(q, st) /\ Reaches(q)
  BY DEF W25qInv, Driven
<1>2. HostKnown /\ AppTyped /\ TodoKnown /\ ~flash.lost
  BY DEF W25qInv
<1>3. /\ HostKnown' /\ (\E u : Tracked(q, u)') /\ ~flash'.lost
      /\ prog' = prog /\ call' = call /\ app' = app
  <2>1. CASE ExchangeWord
    <3>1. HostKnown' /\ \E u : Tracked(q, u)'
      BY <1>1, <1>2, <2>1, ExchangeTyped, ExchangeTracks
    <3>2. prog' = prog /\ call' = call /\ app' = app
      BY <1>2, <2>1, ExchangeIs
    <3>3. flash'.lost = flash.lost
      BY <1>2, <2>1, ExchangeSel
    <3> QED BY <1>2, <3>1, <3>2, <3>3
  <2>2. CASE EndSegment
    <3>1. HostKnown' /\ \E u : Tracked(q, u)'
      BY <1>1, <1>2, <2>2, EndTyped, EndTracks
    <3>2. prog' = prog /\ call' = call /\ app' = app /\ (cur[1].cmd.csaat => flash' = flash) /\ (~cur[1].cmd.csaat => Execute)
      BY <1>2, <2>2, EndIs
    <3>3. ~flash'.lost
      BY <1>1, <1>2, <3>2, NoneLost
    <3> QED BY <3>1, <3>2, <3>3
  <2>3. CASE DmaMove
    <3>1. HostKnown' /\ Tracked(q, st)'
      BY <1>1, <1>2, <2>3, DmaTyped, DmaTracks
    <3>2. prog' = prog /\ call' = call /\ app' = app /\ flash' = flash
      BY <1>2, <2>3, DmaIs
    <3>3. \E u : Tracked(q, u)'
      BY <3>1
    <3> QED BY <1>2, <3>1, <3>2, <3>3
  <2>4. CASE FlashReady
    <3>1. HostKnown' /\ Tracked(q, st)'
      BY <1>1, <1>2, <2>4, ReadyIs, FlashTracks
    <3>2. prog' = prog /\ call' = call /\ app' = app /\ flash'.lost = flash.lost
      BY <1>2, <2>4, ReadyIs
    <3>3. \E u : Tracked(q, u)'
      BY <3>1
    <3> QED BY <1>2, <3>1, <3>2, <3>3
  <2> QED BY <2>1, <2>2, <2>3, <2>4
<1>4. CallAgrees(q)' /\ Reaches(q)' /\ AppTyped' /\ TodoKnown'
  BY <1>1, <1>2, <1>3, CallKeeps
<1>5. PICK u : Tracked(q, u)'
  BY <1>3
<1>6. CallAgrees(q)' /\ Tracked(q, u)' /\ Reaches(q)'
  BY <1>4, <1>5
<1>7. Driven'
  BY <1>6 DEF Driven
<1> QED BY <1>3, <1>4, <1>7 DEF W25qInv

\* After a reset no call is running.
LEMMA ColdRests == OffNow' => Reaches(Cold)'
<1>1. AtRest(Cold) /\ Leads(Cold, <<>>, Cold)
  BY RestsAre, LeadsNowhere
<1>2. OffNow' => prog' = <<>>
  BY DEF OffNow
<1> QED BY <1>1, <1>2 DEF Reaches

\* A reset of the microcontroller, in the middle of a call or not, preserves
\* the invariant.
LEMMA CrashStep ==
    ASSUME W25qInv, Crash
    PROVE  W25qInv'
<1>1. PICK q, st : CallAgrees(q) /\ Tracked(q, st) /\ Reaches(q)
  BY DEF W25qInv, Driven
<1>2. HostKnown /\ AppTyped /\ TodoKnown /\ ~flash.lost
  BY DEF W25qInv
<1>3. /\ cmdq' = <<>> /\ cur' = <<>> /\ tx' = <<>> /\ rx' = <<>>
      /\ control' = [txwm |-> 0, rxwm |-> 127] /\ prog' = <<>> /\ dma' = DmaIdle
      /\ call' = [call EXCEPT !.code = "CRASHED"]
      /\ app' = [app EXCEPT !.ready = FALSE, !.todo = <<>>, !.crashes = @ + 1]
      /\ Execute
  BY DEF Crash
<1>4. FlashTyped' /\ flash'.sel = <<>> /\ ~flash'.lost
  BY <1>1, <1>2, <1>3, NoneLost, ExecuteIs DEF HostKnown
<1>5. /\ app'.ready = FALSE /\ app'.todo = <<>>
      /\ app' = [ready |-> app'.ready, tests |-> app'.tests, todo |-> app'.todo, crashes |-> app'.crashes]
  <2> DEFINE b == FALSE
             n == app.crashes + 1
  <2>1. app = [ready |-> app.ready, tests |-> app.tests, todo |-> app.todo, crashes |-> app.crashes]
    BY <1>2 DEF AppTyped
  <2>2. app' = [ready |-> b, tests |-> app.tests, todo |-> <<>>, crashes |-> n]
    BY <1>3, <2>1
  <2>3. b = FALSE
    OBVIOUS
  <2> HIDE DEF b, n
  <2>4. app'.ready = b /\ app'.tests = app.tests /\ app'.todo = <<>> /\ app'.crashes = n
    BY <2>2
  <2> QED BY <2>2, <2>3, <2>4
<1>6. /\ call'.code = "CRASHED"
      /\ call' = [fn |-> call'.fn, variant |-> call'.variant, addr |-> call'.addr, len |-> call'.len,
               code |-> call'.code, before |-> call'.before]
  <2>1. call = [fn |-> call.fn, variant |-> call.variant, addr |-> call.addr, len |-> call.len,
               code |-> call.code, before |-> call.before]
    BY <1>2 DEF AppTyped
  <2>2. call' = [fn |-> call.fn, variant |-> call.variant, addr |-> call.addr, len |-> call.len,
               code |-> "CRASHED", before |-> call.before]
    BY <1>3, <2>1
  <2>3. call'.fn = call.fn /\ call'.variant = call.variant /\ call'.addr = call.addr /\ call'.len = call.len
        /\ call'.code = "CRASHED" /\ call'.before = call.before
    BY <2>2
  <2> QED BY <2>2, <2>3
<1>7. AppTyped' /\ TodoKnown'
  <2>1. IsSequence(<<>>) /\ Len(<<>>) = 0
    BY EmptyIs
  <2> QED BY <1>5, <1>6, <2>1 DEF AppTyped, TodoKnown
<1>8. OffNow'
  BY <1>3, <1>4, <1>5, <1>6 DEF OffNow
<1>9. HostKnown' /\ Tracked(Cold, Nothing)' /\ CallAgrees(Cold)' /\ Reaches(Cold)'
  BY <1>4, <1>8, OffKnown, OffTracks, ColdRests
<1>10. Driven'
  BY <1>9 DEF Driven
<1> QED BY <1>4, <1>7, <1>9, <1>10 DEF W25qInv

\* The invariant holds at first.
LEMMA InitHolds ==
    ASSUME W25qInit
    PROVE  W25qInv
<1>1. /\ cmdq = <<>> /\ cur = <<>> /\ tx = <<>> /\ rx = <<>> /\ control = [txwm |-> 0, rxwm |-> 127] /\ prog = <<>>
      /\ call = [fn |-> "none", variant |-> "auto", addr |-> 0, len |-> 0, code |-> "NONE", before |-> <<>>]
      /\ dma = DmaIdle /\ app = [ready |-> FALSE, tests |-> 0, todo |-> <<>>, crashes |-> 0]
  BY DEF W25qInit, HostInit
<1>2. PICK qe, down : flash = [sel |-> <<>>, busy |-> FALSE, wel |-> FALSE, qe |-> qe, armed |-> FALSE,
                   down |-> down, lost |-> FALSE]
  BY DEF W25qInit
<1>3. FlashTyped /\ flash.sel = <<>> /\ ~flash.lost
  <2> DEFINE b == FALSE
  <2>1. flash = [sel |-> <<>>, busy |-> b, wel |-> b, qe |-> qe, armed |-> b, down |-> down, lost |-> b]
    BY <1>2
  <2>2. ~b
    OBVIOUS
  <2> HIDE DEF b
  <2>3. /\ flash.sel = <<>> /\ flash.busy = b /\ flash.wel = b /\ flash.qe = qe /\ flash.armed = b
        /\ flash.down = down /\ flash.lost = b
    BY <2>1
  <2> QED BY <2>1, <2>2, <2>3 DEF FlashTyped
<1>4. AppTyped /\ TodoKnown /\ ~app.ready /\ call.code # "OK"
  <2> DEFINE b == FALSE
  <2>1. app = [ready |-> b, tests |-> 0, todo |-> <<>>, crashes |-> 0]
    BY <1>1
  <2>2. ~b
    OBVIOUS
  <2> HIDE DEF b
  <2>3. app.ready = b /\ app.tests = 0 /\ app.todo = <<>> /\ app.crashes = 0
    BY <2>1
  <2>4. IsSequence(<<>>) /\ Len(<<>>) = 0
    BY EmptyIs
  <2>5. call.fn = "none" /\ call.variant = "auto" /\ call.addr = 0 /\ call.len = 0 /\ call.code = "NONE" /\ call.before = <<>>
    BY <1>1
  <2> QED BY <1>1, <2>1, <2>2, <2>3, <2>4, <2>5 DEF AppTyped, TodoKnown
<1>5. OffNow
  BY <1>1, <1>3, <1>4 DEF OffNow
<1>6. HostKnown /\ Tracked(Cold, Nothing) /\ CallAgrees(Cold)
  BY <1>3, <1>5, OffKnown, OffTracks
<1>7. Reaches(Cold)
  BY <1>1, RestsAre, LeadsNowhere DEF Reaches
<1> QED BY <1>3, <1>4, <1>6, <1>7 DEF W25qInv, Driven

-----------------------------------------------------------------------------
(* Steps of the driver.                                                    *)

\* A step of the driver that leaves the host as it is.
LEMMA HostSame ==
    ASSUME HostKnown, NEW st, Chain(st), cur' = cur, cmdq' = cmdq, tx' = tx, rx' = rx, flash' = flash,
           control' = [txwm |-> control'.txwm, rxwm |-> control'.rxwm], control'.rxwm \in Nat,
           dma' = [dir |-> dma'.dir, buf |-> dma'.buf, at |-> dma'.at, n |-> dma'.n], dma'.n \in Nat,
           app'.ready => app.ready
    PROVE  HostKnown' /\ Chain(st)' /\ Pend' = Pend
<1>1. /\ Len(Pend) \in Nat /\ Len(tx) \in Nat /\ Fits(st[0]) /\ \A i \in 0..Len(Pend) : app.ready => st[i].tk
  BY ChainIs
<1>2. FlashTyped'
  BY DEF HostKnown, FlashTyped, IsRecordOfSel
<1>3. HostKnown'
  BY <1>2, KnownKeeps DEF HostKnown, HostTyped
<1>4. TrueFacts \subseteq TrueFacts'
  BY DEF TrueFacts
<1>5. Fits(st[0])'
  <2> DEFINE v == st[0]
  <2>1. Fits(v)
    BY <1>1
  <2> HIDE DEF v
  <2>2. Fits(v)'
    BY <1>4, <2>1, FitsKeeps
  <2> QED BY <2>2 DEF v
<1>6. Chain(st)' /\ Pend' = Pend
  BY <1>1, <1>5, ChainGrows
<1> QED BY <1>3, <1>6

\* Nothing changed of what the host has.
LEMMA AllSame ==
    ASSUME HostKnown, NEW st, Chain(st), cur' = cur, cmdq' = cmdq, tx' = tx, rx' = rx, flash' = flash,
           control' = control, dma' = dma, app'.ready => app.ready
    PROVE  HostKnown' /\ Chain(st)' /\ Pend' = Pend
<1>1. /\ control' = [txwm |-> control'.txwm, rxwm |-> control'.rxwm] /\ control'.rxwm \in Nat
      /\ dma' = [dir |-> dma'.dir, buf |-> dma'.buf, at |-> dma'.at, n |-> dma'.n] /\ dma'.n \in Nat
  BY DEF HostKnown, HostTyped
<1> QED BY <1>1, HostSame

\* What is tracked stays tracked when it is forgotten.
LEMMA ForgetIs ==
    ASSUME NEW q
    PROVE  /\ Forget(q).kind = q.kind /\ Forget(q).out = q.out /\ Forget(q).dma = q.dma /\ Forget(q).rdy = q.rdy
           /\ Forget(q).in.e = q.in.e /\ Forget(q).in.wm = 0 /\ Forget(q).in.have = q.in.have
           /\ Forget(q).bus.op = q.bus.op /\ Forget(q).bus.K = q.bus.K /\ Forget(q).bus.tk = q.bus.tk
           /\ Forget(q).bus.ask = "none" /\ Forget(q).bus.last = q.bus.last
BY DEF Forget, View, Bus, In

\* What is forgotten need not be so.
LEMMA ForgetTracks ==
    ASSUME NEW q, NEW st, Tracked(q, st)', control'.rxwm \in Nat
    PROVE  Tracked(Forget(q), st)'
<1>1. PICK s : s = st[Len(Pend')]
  OBVIOUS
<1>2. Chain(st)' /\ WordsAgree(q, s)' /\ BusAgrees(q, s)' /\ DmaAgrees(q)' /\ InAgrees(q)' /\ AnswerKnown(q, s)'
  BY <1>1 DEF Tracked, Agrees
<1> DEFINE y == Forget(q)
<1>3. /\ y.kind = q.kind /\ y.out = q.out /\ y.dma = q.dma /\ y.rdy = q.rdy
      /\ y.in.e = q.in.e /\ y.in.wm = 0 /\ y.in.have = q.in.have
      /\ y.bus.op = q.bus.op /\ y.bus.K = q.bus.K /\ y.bus.tk = q.bus.tk
      /\ y.bus.ask = "none" /\ y.bus.last = q.bus.last
  BY ForgetIs
<1> HIDE DEF y
<1>4. WordsAgree(y, s)'
  BY <1>2, <1>3 DEF WordsAgree
<1>5. BusAgrees(y, s)'
  BY <1>2, <1>3 DEF BusAgrees
<1>6. DmaAgrees(y)'
  BY <1>2, <1>3 DEF DmaAgrees
<1>7. InAgrees(y)'
  BY <1>2, <1>3 DEF InAgrees
<1>8. AnswerKnown(y, s)'
  <2>1. y.bus.ask # "RSR1" /\ y.bus.ask # "RSR2"
    BY <1>3
  <2> QED BY <2>1, Zenon DEF AnswerKnown
<1>9. Tracked(y, st)'
  BY <1>1, <1>2, <1>4, <1>5, <1>6, <1>7, <1>8 DEF Tracked, Agrees
<1> QED BY <1>9 DEF y

\* What is said of the call does not depend on the answer.
LEMMA ForgetCall ==
    ASSUME NEW q, CallAgrees(q)'
    PROVE  CallAgrees(Forget(q))'
<1>1. Forget(q).kind = q.kind /\ Forget(q).dma = q.dma
  BY ForgetIs
<1> QED BY <1>1 DEF CallAgrees

\* A step of a call that goes on.
LEMMA CallContinues ==
    ASSUME NEW q, CallAgrees(q), IsSequence(prog), prog # <<>>, prog[1].do # "return", prog' = Tail(prog),
           call' = call, app' = app, NEW y, y.kind = q.kind
    PROVE  CallAgrees(y)'
<1>1. /\ Len(prog) \in Nat /\ Len(prog) >= 1 /\ Len(Tail(prog)) = Len(prog) - 1
      /\ \A i \in 1..Len(prog) - 1 : Tail(prog)[i] = prog[i + 1]
  BY TailIs
<1>2. /\ q.kind = "init" => ~app.ready /\ call.fn = "init"
      /\ q.kind = "async" => app.ready /\ Async(call)
      /\ q.kind = "off" => call.fn = "power_down"
      /\ q.kind \in {"async", "off"} => prog[Len(prog)].do = "return"
      /\ Async(call) /\ call.len % 4 # 0 => prog[1] = Return("ERROR")
  BY DEF CallAgrees
<1>3. Async(call)' = Async(call)
  BY DEF Async
<1>4. q.kind \in {"async", "off"} => Tail(prog) # <<>> /\ Tail(prog)[Len(Tail(prog))].do = "return"
  <2> SUFFICES ASSUME q.kind \in {"async", "off"}
               PROVE  Tail(prog) # <<>> /\ Tail(prog)[Len(Tail(prog))].do = "return"
    OBVIOUS
  <2>1. prog[Len(prog)].do = "return"
    BY <1>2
  <2>2. Len(prog) # 1
    BY <2>1
  <2>3. Len(prog) - 1 \in 1..Len(prog) - 1 /\ (Len(prog) - 1) + 1 = Len(prog)
    BY <1>1, <2>2
  <2>4. Tail(prog) # <<>>
    BY <1>1, <2>2, EmptyIs
  <2> QED BY <1>1, <2>1, <2>3, <2>4
<1>5. ~(Async(call) /\ call.len % 4 # 0)
  <2>1. Return("ERROR").do = "return"
    BY DEF Return
  <2> QED BY <1>2, <2>1
<1>6. CallAgrees(y)' =
        /\ y.kind = "init" => ~app'.ready /\ call'.fn = "init"
        /\ y.kind = "async" => app'.ready /\ Async(call)'
        /\ y.kind = "off" => IF prog' = <<>> THEN ~app'.ready ELSE call'.fn = "power_down"
        /\ prog' = <<>> /\ y.kind = "async" /\ y.dma = "rx" => call'.code = "OK"
        /\ prog' # <<>> /\ y.kind \in {"async", "off"} => prog'[Len(prog')].do = "return"
        /\ Async(call)' /\ call'.len % 4 # 0 =>
              call'.code # "OK" /\ (prog' # <<>> => prog'[1] = Return("ERROR"))
  BY Zenon DEF CallAgrees, Return
<1> QED BY <1>2, <1>3, <1>4, <1>5, <1>6

\* What is left of the call leads on from the step.
LEMMA DriverStep ==
    ASSUME NEW q, Reaches(q), prog # <<>>, NEW x, x = After(q, prog[1]),
           Permitted(q, prog[1]) =>
              /\ prog' = Tail(prog) /\ HostKnown' /\ AppTyped' /\ TodoKnown' /\ ~flash'.lost
              /\ CallAgrees(x)' /\ \E u : Tracked(x, u)'
    PROVE  W25qInv'
<1>1. PICK r : AtRest(r) /\ Leads(q, prog, r)
  BY DEF Reaches
<1>2. PICK y : Follows(q, prog[1], y) /\ Leads(y, Tail(prog), r)
  BY <1>1, LeadsFirst
<1>4. Permitted(q, prog[1]) /\ (y = x \/ y = Forget(x))
  BY <1>2 DEF Follows
<1>5. /\ prog' = Tail(prog) /\ HostKnown' /\ AppTyped' /\ TodoKnown' /\ ~flash'.lost
      /\ CallAgrees(x)' /\ \E u : Tracked(x, u)'
  BY <1>4
<1>6. PICK u : Tracked(x, u)'
  BY <1>5
<1>7. control'.rxwm \in Nat
  BY <1>5 DEF HostKnown, HostTyped
<1>8. CallAgrees(y)' /\ Tracked(y, u)'
  BY <1>4, <1>5, <1>6, <1>7, ForgetTracks, ForgetCall
<1>9. Reaches(y)'
  BY <1>1, <1>2, <1>5 DEF Reaches
<1>10. Driven'
  BY <1>8, <1>9 DEF Driven
<1> QED BY <1>5, <1>10 DEF W25qInv

-----------------------------------------------------------------------------
(* The fields of the views.                                                *)

\* The fields of a view.
LEMMA ViewIs ==
    ASSUME NEW k, NEW o, NEW b, NEW i, NEW d, NEW r
    PROVE  /\ View(k, o, b, i, d, r).kind = k /\ View(k, o, b, i, d, r).out = o /\ View(k, o, b, i, d, r).bus = b
           /\ View(k, o, b, i, d, r).in = i /\ View(k, o, b, i, d, r).dma = d /\ View(k, o, b, i, d, r).rdy = r
BY DEF View

\* The words going out, field by field.
LEMMA OutIs ==
    ASSUME NEW t, NEW b, NEW f, NEW g
    PROVE  Out(t, b, f, g).t = t /\ Out(t, b, f, g).b = b /\ Out(t, b, f, g).first = f /\ Out(t, b, f, g).second = g
BY DEF Out

\* What is known of the bus, field by field.
LEMMA BusIs ==
    ASSUME NEW op, NEW K, NEW tk, NEW ask, NEW last
    PROVE  /\ Bus(op, K, tk, ask, last).op = op /\ Bus(op, K, tk, ask, last).K = K /\ Bus(op, K, tk, ask, last).tk = tk
           /\ Bus(op, K, tk, ask, last).ask = ask /\ Bus(op, K, tk, ask, last).last = last
BY DEF Bus

\* The words coming in, field by field.
LEMMA InIs ==
    ASSUME NEW e, NEW wm, NEW have
    PROVE  In(e, wm, have).e = e /\ In(e, wm, have).wm = wm /\ In(e, wm, have).have = have
BY DEF In

\* Once all the words of the last question have come the TX FIFO has no word for a command.
LEMMA LastEmpty ==
    ASSUME HostKnown, NEW st, Chain(st), NEW n, n = Len(Pend), NEW s, s = st[n], s.ask # "none", s.r = 0
    PROVE  /\ s.t = 0 /\ n \in {0, 1}
           /\ n = 1 => /\ st[0].op = s.ask /\ st[0].tk = s.tk /\ st[0].r = 0 /\ st[0].t = 0
                       /\ Receives(Pend[1].cmd) /\ ~Sends(Pend[1].cmd)
                       /\ st[1] = Effect(Pend[1], st[0], tx[st[0].t + 1].op)
                       /\ Pend[1].left = 0 /\ Pend[1].left \in Nat
<1>1. /\ n \in Nat /\ Fits(st[0])
      /\ \A i \in 0..n : st[i].t \in Nat /\ st[i].r \in Nat
      /\ \A i, j \in 0..n : i <= j => st[i].t <= st[j].t /\ st[i].r <= st[j].r
      /\ \A i \in 1..n : st[i] = Effect(Pend[i], st[i - 1], tx[st[i - 1].t + 1].op)
  <2>1. n \in Nat /\ Fits(st[0])
    BY ChainIs
  <2>2. \A i \in 0..n : st[i].t \in Nat /\ st[i].r \in Nat
    BY ChainIs
  <2>3. \A i, j \in 0..n : i <= j => st[i].t <= st[j].t /\ st[i].r <= st[j].r
    BY ChainIs
  <2>4. \A i \in 1..n : st[i] = Effect(Pend[i], st[i - 1], tx[st[i - 1].t + 1].op)
    BY ChainIs
  <2> QED BY <2>1, <2>2, <2>3, <2>4
<1>2. st[0].t = 0 /\ st[0].r = 0
  BY <1>1 DEF Fits
<1>3. CASE n = 0
  BY <1>2, <1>3
<1>4. CASE n >= 1
  <2>1. /\ Receives(Pend[n].cmd) /\ ~Sends(Pend[n].cmd) /\ st[n].ask = st[n - 1].op /\ st[n].tk = st[n - 1].tk
        /\ st[n].t = st[n - 1].t /\ st[n].r = st[n - 1].r + Pend[n].left
        /\ n >= 2 => st[n].r >= st[1].r + 1
    BY <1>4, LastAsks
  <2>2. n = 1
    <3>1. 1 \in 0..n
      BY <1>1, <1>4
    <3>2. st[1].r \in Nat
      BY <1>1, <3>1
    <3> QED BY <1>1, <1>4, <2>1, <3>2
  <2>3. n - 1 = 0 /\ 1 \in 1..n
    BY <2>2
  <2>4. Pend[1].left \in Nat
    BY <2>2, <2>3 DEF HostKnown, Commands
  <2>5. Pend[1].left = 0
    BY <1>2, <2>1, <2>2, <2>3, <2>4
  <2>6. st[1] = Effect(Pend[1], st[0], tx[st[0].t + 1].op)
    BY <1>1, <2>2, <2>3
  <2> QED BY <1>2, <2>1, <2>2, <2>3, <2>4, <2>5, <2>6
<1> QED BY <1>1, <1>3, <1>4

\* Nothing but the view changes.
LEMMA TracksSame ==
    ASSUME HostKnown, NEW q, NEW st, Tracked(q, st), cur' = cur, cmdq' = cmdq, tx' = tx, rx' = rx, flash' = flash,
           control' = control, dma' = dma, app'.ready => app.ready, NEW x,
           NEW n, n = Len(Pend), NEW s, s = st[n],
           WordsAgree(q, s) => WordsAgree(x, s), BusAgrees(q, s) => BusAgrees(x, s), DmaAgrees(q) => DmaAgrees(x),
           InAgrees(q) => InAgrees(x), AnswerKnown(q, s) => AnswerKnown(x, s)
    PROVE  HostKnown' /\ Tracked(x, st)'
<1>1. Chain(st) /\ WordsAgree(x, s) /\ BusAgrees(x, s) /\ DmaAgrees(x) /\ InAgrees(x) /\ AnswerKnown(x, s)
  BY DEF Tracked, Agrees
<1>2. HostKnown' /\ Chain(st)' /\ Pend' = Pend
  BY <1>1, AllSame
<1>3. WordsAgree(x, s)'
  BY <1>1 DEF WordsAgree, Dtx, Drx
<1>4. BusAgrees(x, s)'
  BY <1>1 DEF BusAgrees
<1>5. DmaAgrees(x)'
  BY <1>1 DEF DmaAgrees
<1>6. InAgrees(x)'
  BY <1>1 DEF InAgrees
<1>7. AnswerKnown(x, s)'
  BY <1>1, Zenon DEF AnswerKnown
<1> QED BY <1>2, <1>3, <1>4, <1>5, <1>6, <1>7 DEF Tracked, Agrees

\* The view after a step, kind by kind.
LEMMA AfterIs ==
    ASSUME NEW q, NEW s
    PROVE  /\ s.do = "word" => After(q, s) = View(q.kind, Pushed(q.out, q.bus, s.word.op), q.bus, q.in, q.dma, q.rdy)
           /\ s.do = "command" => After(q, s) = AfterCommand(q, s.cmd)
           /\ s.do = "ready" => After(q, s) = View(q.kind, q.out, q.bus, q.in, q.dma, TRUE)
           /\ s.do = "watermark" => After(q, s) = View(q.kind, q.out, q.bus, In(q.in.e, s.n, q.in.have), q.dma, q.rdy)
           /\ s.do = "rxwm" =>
                 After(q, s) = View(q.kind, IF q.bus.last /\ q.in.e <= q.in.wm THEN Bounded(q, q.out.t) ELSE q.out,
                                    q.bus, In(q.in.e, q.in.wm, q.in.wm), q.dma, q.rdy)
           /\ s.do = "status2" => After(q, s) = View(q.kind, q.out, q.bus, In(0, 1, 0), "none", TRUE)
           /\ s.do = "data" =>
                 After(q, s) = View(q.kind, Out(q.out.t + 1, q.out.b + 1, q.out.first, q.out.second), q.bus, q.in, q.dma, q.rdy)
           /\ s.do = "read" =>
                 After(q, s) = View(q.kind, q.out, q.bus, In(q.in.e - 1, q.in.wm, q.in.have - 1), q.dma, q.rdy)
           /\ s.do = "dma" /\ s.dir = "rx" =>
                 After(q, s) = View(q.kind, q.out, q.bus, In(q.in.e - s.n, q.in.wm, 0), "rx", q.rdy)
           /\ s.do = "dma" /\ s.dir # "rx" =>
                 After(q, s) = View(q.kind, Out(q.out.t + s.n, q.out.b + s.n, q.out.first, q.out.second), q.bus, q.in,
                                    "tx", q.rdy)
           /\ s.do = "dma_is_ready" =>
                 After(q, s) = View(q.kind, IF q.bus.last /\ q.in.e = 0 THEN Bounded(q, q.out.t) ELSE q.out,
                                    q.bus, q.in, "none", q.rdy)
           /\ s.do \in {"memcpy", "return"} => After(q, s) = q
<1>1. s.do \in {"word", "command", "ready", "watermark", "rxwm", "status2"} =>
         /\ s.do = "word" => After(q, s) = View(q.kind, Pushed(q.out, q.bus, s.word.op), q.bus, q.in, q.dma, q.rdy)
         /\ s.do = "command" => After(q, s) = AfterCommand(q, s.cmd)
         /\ s.do = "ready" => After(q, s) = View(q.kind, q.out, q.bus, q.in, q.dma, TRUE)
         /\ s.do = "watermark" => After(q, s) = View(q.kind, q.out, q.bus, In(q.in.e, s.n, q.in.have), q.dma, q.rdy)
         /\ s.do = "rxwm" =>
                 After(q, s) = View(q.kind, IF q.bus.last /\ q.in.e <= q.in.wm THEN Bounded(q, q.out.t) ELSE q.out,
                                    q.bus, In(q.in.e, q.in.wm, q.in.wm), q.dma, q.rdy)
         /\ s.do = "status2" => After(q, s) = View(q.kind, q.out, q.bus, In(0, 1, 0), "none", TRUE)
  BY DEF After
<1>2. s.do = "data" =>
                 After(q, s) = View(q.kind, Out(q.out.t + 1, q.out.b + 1, q.out.first, q.out.second), q.bus, q.in, q.dma, q.rdy)
  BY DEF After
<1>3. s.do = "read" =>
                 After(q, s) = View(q.kind, q.out, q.bus, In(q.in.e - 1, q.in.wm, q.in.have - 1), q.dma, q.rdy)
  BY DEF After
<1>4. s.do = "dma" /\ s.dir = "rx" =>
                 After(q, s) = View(q.kind, q.out, q.bus, In(q.in.e - s.n, q.in.wm, 0), "rx", q.rdy)
  BY DEF After
<1>5. s.do = "dma" /\ s.dir # "rx" =>
                 After(q, s) = View(q.kind, Out(q.out.t + s.n, q.out.b + s.n, q.out.first, q.out.second), q.bus, q.in,
                                    "tx", q.rdy)
  BY DEF After
<1>6. s.do = "dma_is_ready" =>
                 After(q, s) = View(q.kind, IF q.bus.last /\ q.in.e = 0 THEN Bounded(q, q.out.t) ELSE q.out,
                                    q.bus, q.in, "none", q.rdy)
  BY DEF After
<1>7. s.do \in {"memcpy", "return"} => After(q, s) = q
  BY DEF After
<1> QED BY <1>1, <1>2, <1>3, <1>4, <1>5, <1>6, <1>7

-----------------------------------------------------------------------------
(* Waits.                                                                  *)

\* The host takes commands again.
LEMMA ReadyStep ==
    ASSUME HostKnown, NEW q, NEW st, Tracked(q, st), UNCHANGED <<hostVars, dma, flash, app>>,
           prog[1].do = "ready", Status.ready, NEW x, x = After(q, prog[1])
    PROVE  HostKnown' /\ Tracked(x, st)' /\ x.kind = q.kind
<1>1. PICK n, s : n = Len(Pend) /\ s = st[n]
  OBVIOUS
<1> DEFINE b == TRUE
<1>2. x = View(q.kind, q.out, q.bus, q.in, q.dma, b)
  BY AfterIs
<1>3. b = TRUE
  OBVIOUS
<1> HIDE DEF b
<1>4. x.kind = q.kind /\ x.out = q.out /\ x.bus = q.bus /\ x.in = q.in /\ x.dma = q.dma
  BY <1>2, ViewIs
<1>5. WordsAgree(q, s) => WordsAgree(x, s)
  BY <1>4 DEF WordsAgree
<1>6. BusAgrees(q, s) => BusAgrees(x, s)
  BY <1>4 DEF BusAgrees
<1>7. DmaAgrees(q) => DmaAgrees(x)
  BY <1>4 DEF DmaAgrees
<1>8. InAgrees(q) => InAgrees(x)
  <2>1. Len(cmdq) < CmdDepth
    BY DEF Status
  <2> QED BY <1>4, <2>1 DEF InAgrees
<1>9. AnswerKnown(q, s) => AnswerKnown(x, s)
  BY <1>4, Zenon DEF AnswerKnown
<1>10. /\ cur' = cur /\ cmdq' = cmdq /\ tx' = tx /\ rx' = rx /\ flash' = flash
       /\ control' = control /\ dma' = dma /\ (app'.ready => app.ready)
  BY DEF hostVars
<1>11. HostKnown' /\ Tracked(x, st)'
  BY <1>1, <1>5, <1>6, <1>7, <1>8, <1>9, <1>10, TracksSame
<1> QED BY <1>4, <1>11

\* The words the driver waits for have come.
LEMMA RxwmStep ==
    ASSUME HostKnown, NEW q, NEW st, Tracked(q, st), UNCHANGED <<hostVars, dma, flash, app>>,
           prog[1].do = "rxwm", Status.rxwm, q.dma = "none", NEW x, x = After(q, prog[1])
    PROVE  HostKnown' /\ Tracked(x, st)' /\ x.kind = q.kind
<1>1. PICK n, s : n = Len(Pend) /\ s = st[n]
  OBVIOUS
<1>2. x = View(q.kind, IF q.bus.last /\ q.in.e <= q.in.wm THEN Bounded(q, q.out.t) ELSE q.out,
               q.bus, In(q.in.e, q.in.wm, q.in.wm), q.dma, q.rdy)
  BY AfterIs
<1>3. /\ x.kind = q.kind /\ x.bus = q.bus /\ x.dma = q.dma /\ x.rdy = q.rdy
      /\ x.out = (IF q.bus.last /\ q.in.e <= q.in.wm THEN Bounded(q, q.out.t) ELSE q.out)
      /\ x.in = In(q.in.e, q.in.wm, q.in.wm)
  BY <1>2, ViewIs
<1>4. x.in.e = q.in.e /\ x.in.wm = q.in.wm /\ x.in.have = q.in.wm
  BY <1>3, InIs
<1>5. Chain(st) /\ WordsAgree(q, s) /\ BusAgrees(q, s) /\ DmaAgrees(q) /\ InAgrees(q) /\ AnswerKnown(q, s)
  BY <1>1 DEF Tracked, Agrees
<1>6. /\ n \in Nat /\ Len(tx) \in Nat /\ s.t \in Nat /\ s.r \in Nat /\ s.t <= Len(tx)
  <2>1. /\ n \in Nat /\ Len(tx) \in Nat /\ \A i \in 0..n : st[i].t \in Nat /\ st[i].r \in Nat /\ st[i].t <= Len(tx)
    BY <1>1, <1>5, ChainIs
  <2>2. n \in 0..n
    BY <2>1
  <2> QED BY <1>1, <2>1, <2>2
<1>7. /\ q.out.t = Len(tx) + Dtx - s.t /\ q.in.e = Len(rx) + s.r - Drx
      /\ q.out.b \in Nat /\ Len(tx) + Dtx <= q.out.b
      /\ q.bus.op = "none" /\ q.out.t >= 1 => tx[s.t + 1].op = q.out.first
      /\ q.bus.op = "none" /\ q.out.t = 2 => tx[s.t + 2].op = q.out.second
  BY <1>5 DEF WordsAgree
<1>8. /\ q.in.wm \in Nat /\ q.in.have \in Nat /\ q.in.wm <= control.rxwm /\ q.in.have <= Len(rx)
      /\ q.rdy => Len(cmdq) < CmdDepth
  BY <1>5 DEF InAgrees
<1>9. Drx = 0 /\ Dtx = 0 /\ control.rxwm \in Nat /\ Len(rx) \in Nat
  BY <1>5, DtxAgrees, SequenceIs DEF HostKnown, HostTyped
<1>10. q.in.wm <= Len(rx)
  <2>1. Len(rx) >= control.rxwm
    BY DEF Status
  <2> QED BY <1>8, <1>9, <2>1
<1>11. x.out.t = q.out.t /\ x.out.first = q.out.first /\ x.out.second = q.out.second /\ x.out.b \in Nat
       /\ Len(tx) + Dtx <= x.out.b
  <2>1. CASE q.bus.last /\ q.in.e <= q.in.wm
    <3>1. x.out = Out(q.out.t, q.out.t, q.out.first, q.out.second)
      BY <1>3, <2>1 DEF Bounded
    <3>2. s.r = 0
      BY <1>6, <1>7, <1>8, <1>9, <1>10, <2>1
    <3>3. s.ask # "none"
      BY <1>5, <2>1 DEF BusAgrees
    <3>4. s.t = 0
      BY <1>1, <1>5, <3>2, <3>3, LastEmpty
    <3>5. q.out.t = Len(tx)
      BY <1>6, <1>7, <1>9, <3>4
    <3>6. Len(tx) + Dtx <= q.out.t /\ q.out.t \in Nat
      BY <1>6, <1>9, <3>5
    <3> QED BY <3>1, <3>6, OutIs
  <2>2. CASE ~(q.bus.last /\ q.in.e <= q.in.wm)
    BY <1>3, <1>7, <2>2
  <2> QED BY <2>1, <2>2
<1>12. WordsAgree(x, s)
  BY <1>3, <1>4, <1>7, <1>11 DEF WordsAgree
<1>13. BusAgrees(x, s)
  BY <1>3, <1>5 DEF BusAgrees
<1>14. DmaAgrees(x)
  BY <1>3, <1>5 DEF DmaAgrees
<1>15. InAgrees(x)
  BY <1>3, <1>4, <1>8, <1>10 DEF InAgrees
<1>16. AnswerKnown(x, s)
  BY <1>3, <1>5, Zenon DEF AnswerKnown
<1>17. /\ cur' = cur /\ cmdq' = cmdq /\ tx' = tx /\ rx' = rx /\ flash' = flash
       /\ control' = control /\ dma' = dma /\ (app'.ready => app.ready)
  BY DEF hostVars
<1>18. HostKnown' /\ Tracked(x, st)'
  BY <1>1, <1>12, <1>13, <1>14, <1>15, <1>16, <1>17, TracksSame
<1> QED BY <1>3, <1>18

\* The DMA has moved its words.
LEMMA DmaReadyStep ==
    ASSUME HostKnown, NEW q, NEW st, Tracked(q, st), UNCHANGED <<hostVars, dma, flash, app>>,
           prog[1].do = "dma_is_ready", dma.n = 0, NEW x, x = After(q, prog[1])
    PROVE  HostKnown' /\ Tracked(x, st)' /\ x.kind = q.kind
<1>1. PICK n, s : n = Len(Pend) /\ s = st[n]
  OBVIOUS
<1>2. x = View(q.kind, IF q.bus.last /\ q.in.e = 0 THEN Bounded(q, q.out.t) ELSE q.out, q.bus, q.in, "none", q.rdy)
  BY AfterIs
<1>3. /\ x.kind = q.kind /\ x.bus = q.bus /\ x.dma = "none" /\ x.rdy = q.rdy /\ x.in = q.in
      /\ x.out = (IF q.bus.last /\ q.in.e = 0 THEN Bounded(q, q.out.t) ELSE q.out)
  BY <1>2, ViewIs
<1>5. Chain(st) /\ WordsAgree(q, s) /\ BusAgrees(q, s) /\ DmaAgrees(q) /\ InAgrees(q) /\ AnswerKnown(q, s)
  BY <1>1 DEF Tracked, Agrees
<1>6. /\ n \in Nat /\ Len(tx) \in Nat /\ s.t \in Nat /\ s.r \in Nat /\ s.t <= Len(tx)
  <2>1. /\ n \in Nat /\ Len(tx) \in Nat /\ \A i \in 0..n : st[i].t \in Nat /\ st[i].r \in Nat /\ st[i].t <= Len(tx)
    BY <1>1, <1>5, ChainIs
  <2>2. n \in 0..n
    BY <2>1
  <2> QED BY <1>1, <2>1, <2>2
<1>7. /\ q.out.t = Len(tx) + Dtx - s.t /\ q.in.e = Len(rx) + s.r - Drx
      /\ q.out.b \in Nat /\ Len(tx) + Dtx <= q.out.b
      /\ q.bus.op = "none" /\ q.out.t >= 1 => tx[s.t + 1].op = q.out.first
      /\ q.bus.op = "none" /\ q.out.t = 2 => tx[s.t + 2].op = q.out.second
  BY <1>5 DEF WordsAgree
<1>9. Drx = 0 /\ Dtx = 0 /\ Len(rx) \in Nat
  BY <1>5, DtxIs, SequenceIs DEF HostKnown, HostTyped
<1>11. x.out.t = q.out.t /\ x.out.first = q.out.first /\ x.out.second = q.out.second /\ x.out.b \in Nat
       /\ Len(tx) + Dtx <= x.out.b
  <2>1. CASE q.bus.last /\ q.in.e = 0
    <3>1. x.out = Out(q.out.t, q.out.t, q.out.first, q.out.second)
      BY <1>3, <2>1 DEF Bounded
    <3>2. s.r = 0
      BY <1>6, <1>7, <1>9, <2>1
    <3>3. s.ask # "none"
      BY <1>5, <2>1 DEF BusAgrees
    <3>4. s.t = 0
      BY <1>1, <1>5, <3>2, <3>3, LastEmpty
    <3>5. q.out.t = Len(tx)
      BY <1>6, <1>7, <1>9, <3>4
    <3>6. Len(tx) + Dtx <= q.out.t /\ q.out.t \in Nat
      BY <1>6, <1>9, <3>5
    <3> QED BY <3>1, <3>6, OutIs
  <2>2. CASE ~(q.bus.last /\ q.in.e = 0)
    BY <1>3, <1>7, <2>2
  <2> QED BY <2>1, <2>2
<1>12. WordsAgree(x, s)
  BY <1>3, <1>7, <1>11 DEF WordsAgree
<1>13. BusAgrees(x, s)
  BY <1>3, <1>5 DEF BusAgrees
<1>14. DmaAgrees(x)
  BY <1>3 DEF DmaAgrees
<1>15. InAgrees(x)
  BY <1>3, <1>5 DEF InAgrees
<1>16. AnswerKnown(x, s)
  BY <1>3, <1>5, Zenon DEF AnswerKnown
<1>17. /\ cur' = cur /\ cmdq' = cmdq /\ tx' = tx /\ rx' = rx /\ flash' = flash
       /\ control' = control /\ dma' = dma /\ (app'.ready => app.ready)
  BY DEF hostVars
<1>18. HostKnown' /\ Tracked(x, st)'
  BY <1>1, <1>12, <1>13, <1>14, <1>15, <1>16, <1>17, TracksSame
<1> QED BY <1>3, <1>18

-----------------------------------------------------------------------------
(* Launches.                                                               *)

\* memcpy and the end of a call change nothing of what is tracked.
LEMMA CopyStep ==
    ASSUME HostKnown, NEW q, NEW st, Tracked(q, st), UNCHANGED <<hostVars, dma, flash, app>>,
           prog[1].do \in {"memcpy", "return"}, NEW x, x = After(q, prog[1])
    PROVE  HostKnown' /\ Tracked(x, st)' /\ x.kind = q.kind
<1>1. PICK n, s : n = Len(Pend) /\ s = st[n]
  OBVIOUS
<1>2. x = q
  BY AfterIs
<1>3. /\ cur' = cur /\ cmdq' = cmdq /\ tx' = tx /\ rx' = rx /\ flash' = flash
      /\ control' = control /\ dma' = dma /\ (app'.ready => app.ready)
  BY DEF hostVars
<1> QED BY <1>1, <1>2, <1>3, TracksSame

\* spi_set_rx_watermark keeps what is tracked.
LEMMA WatermarkStep ==
    ASSUME HostKnown, NEW q, NEW st, Tracked(q, st), UNCHANGED <<cmdq, cur, tx, rx, dma, flash, app>>,
           prog[1].do = "watermark", prog[1].n \in Nat, control' = [control EXCEPT !.rxwm = prog[1].n],
           NEW x, x = After(q, prog[1])
    PROVE  HostKnown' /\ Tracked(x, st)' /\ x.kind = q.kind
<1>1. PICK n, s : n = Len(Pend) /\ s = st[n]
  OBVIOUS
<1>2. x = View(q.kind, q.out, q.bus, In(q.in.e, prog[1].n, q.in.have), q.dma, q.rdy)
  BY AfterIs
<1>3. /\ x.kind = q.kind /\ x.bus = q.bus /\ x.dma = q.dma /\ x.rdy = q.rdy /\ x.out = q.out
      /\ x.in = In(q.in.e, prog[1].n, q.in.have)
  BY <1>2, ViewIs
<1>4. x.in.e = q.in.e /\ x.in.wm = prog[1].n /\ x.in.have = q.in.have
  BY <1>3, InIs
<1>5. Chain(st) /\ WordsAgree(q, s) /\ BusAgrees(q, s) /\ DmaAgrees(q) /\ InAgrees(q) /\ AnswerKnown(q, s)
  BY <1>1 DEF Tracked, Agrees
<1>6. control' = [txwm |-> control'.txwm, rxwm |-> control'.rxwm] /\ control'.rxwm = prog[1].n
  <2>1. control = [txwm |-> control.txwm, rxwm |-> control.rxwm]
    BY DEF HostKnown, HostTyped
  <2>2. control' = [txwm |-> control.txwm, rxwm |-> prog[1].n]
    BY <2>1
  <2> QED BY <2>2
<1>7. HostKnown' /\ Chain(st)' /\ Pend' = Pend
  <2>1. dma' = [dir |-> dma'.dir, buf |-> dma'.buf, at |-> dma'.at, n |-> dma'.n] /\ dma'.n \in Nat
    BY DEF HostKnown, HostTyped
  <2> QED BY <1>5, <1>6, <2>1, HostSame
<1>8. WordsAgree(x, s)'
  BY <1>3, <1>4, <1>5 DEF WordsAgree, Dtx, Drx
<1>9. BusAgrees(x, s)'
  BY <1>3, <1>5 DEF BusAgrees
<1>10. DmaAgrees(x)'
  BY <1>3, <1>5 DEF DmaAgrees
<1>11. InAgrees(x)'
  BY <1>3, <1>4, <1>5, <1>6 DEF InAgrees
<1>12. AnswerKnown(x, s)'
  <2>1. AnswerKnown(x, s)' = AnswerKnown(x, s)
    BY Zenon DEF AnswerKnown
  <2>2. AnswerKnown(x, s)
    BY <1>3, <1>5, Zenon DEF AnswerKnown
  <2> QED BY <2>1, <2>2
<1> QED BY <1>1, <1>3, <1>7, <1>8, <1>9, <1>10, <1>11, <1>12 DEF Tracked, Agrees

\* A transfer is launched.
LEMMA LaunchStep ==
    ASSUME HostKnown, NEW q, NEW st, Tracked(q, st), UNCHANGED <<hostVars, flash, app>>,
           prog[1].do = "dma", prog[1].n \in Nat \ {0}, q.dma = "none", prog[1].dir \in {"rx", "tx"},
           prog[1].dir = "tx" => ~Opening(q),
           dma' = [dir |-> prog[1].dir, buf |-> prog[1].buf, at |-> prog[1].at, n |-> prog[1].n],
           NEW x, x = After(q, prog[1])
    PROVE  HostKnown' /\ Tracked(x, st)' /\ x.kind = q.kind
<1>1. PICK n, s : n = Len(Pend) /\ s = st[n]
  OBVIOUS
<1>2. PICK m : m = prog[1].n
  OBVIOUS
<1>3. dma'.n = m /\ dma'.dir = prog[1].dir /\ m \in Nat \ {0} /\ dma'.n \in Nat
      /\ dma' = [dir |-> dma'.dir, buf |-> dma'.buf, at |-> dma'.at, n |-> dma'.n]
  BY <1>2
<1>4. /\ cur' = cur /\ cmdq' = cmdq /\ tx' = tx /\ rx' = rx /\ flash' = flash
      /\ control' = control /\ (app'.ready => app.ready)
  BY DEF hostVars
<1>5. Chain(st) /\ WordsAgree(q, s) /\ BusAgrees(q, s) /\ DmaAgrees(q) /\ InAgrees(q) /\ AnswerKnown(q, s)
  BY <1>1 DEF Tracked, Agrees
<1>6. HostKnown' /\ Chain(st)' /\ Pend' = Pend
  <2>1. control' = [txwm |-> control'.txwm, rxwm |-> control'.rxwm] /\ control'.rxwm \in Nat
    BY <1>4 DEF HostKnown, HostTyped
  <2> QED BY <1>3, <1>4, <1>5, <2>1, HostSame
<1>7. /\ n \in Nat /\ Len(tx) \in Nat /\ s.t \in Nat /\ s.r \in Nat /\ s.t <= Len(tx)
  <2>1. /\ n \in Nat /\ Len(tx) \in Nat /\ \A i \in 0..n : st[i].t \in Nat /\ st[i].r \in Nat /\ st[i].t <= Len(tx)
    BY <1>1, <1>5, ChainIs
  <2>2. n \in 0..n
    BY <2>1
  <2> QED BY <1>1, <2>1, <2>2
<1>8. /\ q.out.t = Len(tx) + Dtx - s.t /\ q.in.e = Len(rx) + s.r - Drx
      /\ q.out.b \in Nat /\ Len(tx) + Dtx <= q.out.b
      /\ q.bus.op = "none" /\ q.out.t >= 1 => tx[s.t + 1].op = q.out.first
      /\ q.bus.op = "none" /\ q.out.t = 2 => tx[s.t + 2].op = q.out.second
  BY <1>5 DEF WordsAgree
<1>9. Drx = 0 /\ Dtx = 0 /\ Len(rx) \in Nat
  BY <1>5, DtxAgrees, SequenceIs DEF HostKnown, HostTyped
<1>10. AnswerKnown(q, s)'
  <2>1. AnswerKnown(q, s)' = AnswerKnown(q, s)
    BY <1>4, Zenon DEF AnswerKnown
  <2> QED BY <1>5, <2>1
<1>11. CASE prog[1].dir = "rx"
  <2>1. x = View(q.kind, q.out, q.bus, In(q.in.e - m, q.in.wm, 0), "rx", q.rdy)
    BY <1>2, <1>11, AfterIs
  <2>2. x.kind = q.kind /\ x.out = q.out /\ x.bus = q.bus /\ x.dma = "rx" /\ x.rdy = q.rdy /\ x.in = In(q.in.e - m, q.in.wm, 0)
    BY <2>1, ViewIs
  <2>3. x.in.e = q.in.e - m /\ x.in.wm = q.in.wm /\ x.in.have = 0
    BY <2>2, InIs
  <2>4. Drx' = m /\ Dtx' = 0
    BY <1>3, <1>11 DEF Drx, Dtx
  <2>5. WordsAgree(x, s)'
    <3>1. x.in.e = Len(rx) + s.r - m
      BY <1>3, <1>7, <1>8, <1>9, <2>3
    <3> QED BY <1>4, <1>8, <1>9, <2>2, <2>4, <3>1 DEF WordsAgree
  <2>6. BusAgrees(x, s)'
    BY <1>5, <2>2 DEF BusAgrees
  <2>7. DmaAgrees(x)'
    BY <1>3, <1>11, <2>2 DEF DmaAgrees
  <2>8. InAgrees(x)'
    BY <1>4, <1>5, <1>9, <2>2, <2>3 DEF InAgrees
  <2>9. AnswerKnown(x, s)'
    BY <1>10, <2>2, Zenon DEF AnswerKnown
  <2> QED BY <1>1, <1>6, <2>2, <2>5, <2>6, <2>7, <2>8, <2>9 DEF Tracked, Agrees
<1>12. CASE prog[1].dir = "tx"
  <2>1. x = View(q.kind, Out(q.out.t + m, q.out.b + m, q.out.first, q.out.second), q.bus, q.in, "tx", q.rdy)
    BY <1>2, <1>12, AfterIs, ZenonT(30)
  <2>2. x.kind = q.kind /\ x.bus = q.bus /\ x.dma = "tx" /\ x.rdy = q.rdy /\ x.in = q.in
        /\ x.out = Out(q.out.t + m, q.out.b + m, q.out.first, q.out.second)
    BY <2>1, ViewIs
  <2>3. x.out.t = q.out.t + m /\ x.out.b = q.out.b + m
    BY <2>2, OutIs
  <2>4. Drx' = 0 /\ Dtx' = m
    BY <1>3, <1>12 DEF Drx, Dtx
  <2>5. q.bus.op # "none"
    BY <1>12 DEF Opening
  <2>6. WordsAgree(x, s)'
    <3>1. x.out.t = Len(tx) + m - s.t /\ x.out.b \in Nat /\ Len(tx) + m <= x.out.b
      BY <1>3, <1>7, <1>8, <1>9, <2>3, SMTT(30)
    <3> QED BY <1>4, <1>8, <1>9, <2>2, <2>4, <2>5, <3>1 DEF WordsAgree
  <2>7. BusAgrees(x, s)'
    BY <1>5, <2>2 DEF BusAgrees
  <2>8. DmaAgrees(x)'
    BY <1>3, <1>12, <2>2, <2>5 DEF DmaAgrees
  <2>9. InAgrees(x)'
    BY <1>4, <1>5, <2>2 DEF InAgrees
  <2>10. AnswerKnown(x, s)'
    BY <1>10, <2>2, Zenon DEF AnswerKnown
  <2> QED BY <1>1, <1>6, <2>2, <2>6, <2>7, <2>8, <2>9, <2>10 DEF Tracked, Agrees
<1> QED BY <1>11, <1>12

-----------------------------------------------------------------------------
(* Words for the TX FIFO.                                                  *)

\* A word goes to the end of the TX FIFO.
LEMMA PushTracks ==
    ASSUME HostKnown, NEW q, NEW st, Tracked(q, st), UNCHANGED <<cmdq, cur, rx, control, dma, flash, app>>,
           NEW w, w.op # "none", tx' = Append(tx, w), q.dma # "tx",
           NEW x, x.bus = q.bus, x.in = q.in, x.dma = q.dma, x.rdy = q.rdy,
           x.out.t = q.out.t + 1, x.out.b = q.out.b + 1,
           q.bus.op = "none" => /\ q.out.t <= 1
                                /\ x.out.first = (IF q.out.t = 0 THEN w.op ELSE q.out.first)
                                /\ q.out.t = 1 => x.out.second = w.op
    PROVE  HostKnown' /\ Tracked(x, st)'
<1>1. PICK n, s : n = Len(Pend) /\ s = st[n]
  OBVIOUS
<1>2. /\ cur' = cur /\ cmdq' = cmdq /\ rx' = rx /\ flash' = flash
      /\ control' = control /\ dma' = dma /\ (app'.ready => app.ready)
  OBVIOUS
<1>3. Chain(st) /\ WordsAgree(q, s) /\ BusAgrees(q, s) /\ DmaAgrees(q) /\ InAgrees(q) /\ AnswerKnown(q, s)
  BY <1>1 DEF Tracked, Agrees
<1>4. /\ n \in Nat /\ Len(tx) \in Nat /\ s.t \in Nat /\ s.r \in Nat /\ s.t <= Len(tx)
      /\ Fits(st[0]) /\ \A i \in 0..n : app.ready => st[i].tk
  <2>1. /\ n \in Nat /\ Len(tx) \in Nat /\ \A i \in 0..n : st[i].t \in Nat /\ st[i].r \in Nat /\ st[i].t <= Len(tx)
        /\ Fits(st[0]) /\ \A i \in 0..n : app.ready => st[i].tk
    BY <1>1, <1>3, ChainIs
  <2>2. n \in 0..n
    BY <2>1
  <2> QED BY <1>1, <2>1, <2>2
<1>5. /\ IsSequence(tx') /\ Len(tx') = Len(tx) + 1 /\ tx'[Len(tx) + 1] = w
      /\ \A i \in 1..Len(tx) : tx'[i] = tx[i]
  BY AppendIs DEF HostKnown, HostTyped
<1>6. HostKnown'
  <2>1. \A i \in 1..Len(tx') : tx'[i].op # "none"
    <3> TAKE i \in 1..Len(tx')
    <3>1. \A j \in 1..Len(tx) : tx[j].op # "none"
      BY DEF HostKnown, HostTyped
    <3>2. CASE i = Len(tx) + 1
      BY <1>5, <3>2
    <3>3. CASE i # Len(tx) + 1
      <4>1. i \in 1..Len(tx)
        BY <1>4, <1>5, <3>3
      <4> QED BY <1>5, <3>1, <4>1
    <3> QED BY <3>2, <3>3
  <2>2. FlashTyped'
    BY <1>2 DEF HostKnown, FlashTyped, IsRecordOfSel
  <2>3. /\ IsSequence(rx') /\ control' = [txwm |-> control'.txwm, rxwm |-> control'.rxwm] /\ control'.rxwm \in Nat
        /\ dma' = [dir |-> dma'.dir, buf |-> dma'.buf, at |-> dma'.at, n |-> dma'.n] /\ dma'.n \in Nat
    BY <1>2 DEF HostKnown, HostTyped
  <2> QED BY <1>2, <1>5, <2>1, <2>2, <2>3, KnownKeeps
<1>7. Chain(st)' /\ Pend' = Pend
  <2>1. TrueFacts' = TrueFacts
    BY DEF TrueFacts
  <2>2. Fits(st[0])'
    <3> DEFINE v == st[0]
    <3>1. Fits(v) /\ flash'.sel = flash.sel /\ TrueFacts \subseteq TrueFacts'
      BY <1>2, <1>4, <2>1
    <3> HIDE DEF v
    <3>2. Fits(v)'
      BY <1>2, <3>1, FitsKeeps
    <3> QED BY <3>2 DEF v
  <2>3. app'.ready => \A i \in 0..Len(Pend) : st[i].tk
    BY <1>1, <1>2, <1>4
  <2>4. Len(tx') \in Nat /\ Len(tx') >= Len(tx) /\ \A i \in 1..Len(tx) : tx'[i].op = tx[i].op
    BY <1>4, <1>5
  <2> QED BY <1>2, <1>3, <2>2, <2>3, <2>4, ChainGrows
<1>8. /\ q.out.t = Len(tx) + Dtx - s.t /\ q.in.e = Len(rx) + s.r - Drx
      /\ q.out.b \in Nat /\ Len(tx) + Dtx <= q.out.b
      /\ q.bus.op = "none" /\ q.out.t >= 1 => tx[s.t + 1].op = q.out.first
      /\ q.bus.op = "none" /\ q.out.t = 2 => tx[s.t + 2].op = q.out.second
  BY <1>3 DEF WordsAgree
<1>9. Dtx = 0 /\ Dtx' = 0 /\ Drx' = Drx
  <2>1. Dtx = 0
    BY <1>3, DtxAgrees
  <2>2. Dtx' = Dtx /\ Drx' = Drx
    BY <1>2 DEF Dtx, Drx
  <2> QED BY <2>1, <2>2
<1>10. q.out.t = Len(tx) - s.t /\ q.out.t \in Nat /\ x.out.t = Len(tx) + 1 - s.t /\ Len(tx) + 1 <= x.out.b /\ x.out.b \in Nat
  BY <1>4, <1>8, <1>9
<1>11. x.bus.op = "none" /\ x.out.t >= 1 => tx'[s.t + 1].op = x.out.first
  <2> SUFFICES ASSUME x.bus.op = "none"
               PROVE  tx'[s.t + 1].op = x.out.first
    OBVIOUS
  <2>1. CASE q.out.t = 0
    <3>1. s.t + 1 = Len(tx) + 1
      BY <1>4, <1>10, <2>1
    <3> QED BY <1>5, <2>1, <3>1
  <2>2. CASE q.out.t # 0
    <3>1. s.t + 1 \in 1..Len(tx) /\ q.out.t >= 1
      BY <1>4, <1>10, <2>2
    <3> QED BY <1>5, <1>8, <2>2, <3>1
  <2> QED BY <2>1, <2>2
<1>12. x.bus.op = "none" /\ x.out.t = 2 => tx'[s.t + 2].op = x.out.second
  <2> SUFFICES ASSUME x.bus.op = "none", x.out.t = 2
               PROVE  tx'[s.t + 2].op = x.out.second
    OBVIOUS
  <2>1. q.out.t = 1 /\ s.t + 2 = Len(tx) + 1
    BY <1>4, <1>10
  <2> QED BY <1>5, <2>1
<1>13. WordsAgree(x, s)'
  <2>1. x.out.t = Len(tx') + Dtx' - s.t /\ x.in.e = Len(rx') + s.r - Drx' /\ Len(tx') + Dtx' <= x.out.b
    BY <1>2, <1>4, <1>5, <1>8, <1>9, <1>10
  <2> QED BY <1>10, <1>11, <1>12, <2>1 DEF WordsAgree
<1>14. BusAgrees(x, s)'
  BY <1>3 DEF BusAgrees
<1>15. DmaAgrees(x)'
  BY <1>3 DEF DmaAgrees
<1>16. InAgrees(x)'
  BY <1>3 DEF InAgrees
<1>17. AnswerKnown(x, s)'
  <2>1. AnswerKnown(x, s)' = AnswerKnown(x, s)
    BY <1>2, Zenon DEF AnswerKnown
  <2>2. AnswerKnown(x, s)
    BY <1>3, Zenon DEF AnswerKnown
  <2> QED BY <2>1, <2>2
<1> QED BY <1>1, <1>6, <1>7, <1>13, <1>14, <1>15, <1>16, <1>17 DEF Tracked, Agrees

\* spi_write_word.
LEMMA WordStep ==
    ASSUME HostKnown, NEW q, NEW st, Tracked(q, st), UNCHANGED <<cmdq, cur, rx, control, dma, flash, app>>,
           prog[1].do = "word", prog[1].word.op # "none", q.out.b < TxDepth, q.dma # "tx", Opening(q) => q.out.t <= 1,
           IF Len(tx) < TxDepth THEN WriteTxData(prog[1].word) ELSE tx' = tx,
           NEW x, x = After(q, prog[1])
    PROVE  HostKnown' /\ Tracked(x, st)' /\ x.kind = q.kind
<1>1. PICK w : w = prog[1].word
  OBVIOUS
<1>2. PICK n, s : n = Len(Pend) /\ s = st[n]
  OBVIOUS
<1>3. WordsAgree(q, s) /\ DmaAgrees(q)
  BY <1>2 DEF Tracked, Agrees
<1>4. Dtx = 0 /\ Len(tx) \in Nat
  BY <1>3, DtxAgrees, SequenceIs DEF HostKnown, HostTyped
<1>5. Len(tx) < TxDepth
  BY <1>3, <1>4, HostAssumption DEF WordsAgree
<1>6. tx' = Append(tx, w)
  BY <1>1, <1>5 DEF WriteTxData
<1>7. x = View(q.kind, Pushed(q.out, q.bus, w.op), q.bus, q.in, q.dma, q.rdy)
  BY <1>1, AfterIs
<1>8. x.kind = q.kind /\ x.bus = q.bus /\ x.in = q.in /\ x.dma = q.dma /\ x.rdy = q.rdy /\ x.out = Pushed(q.out, q.bus, w.op)
  BY <1>7, ViewIs
<1> DEFINE f == IF q.bus.op = "none" /\ q.out.t = 0 THEN w.op ELSE q.out.first
           g == IF q.bus.op = "none" /\ q.out.t = 1 THEN w.op ELSE q.out.second
<1>9. x.out = Out(q.out.t + 1, q.out.b + 1, f, g)
  BY <1>8 DEF Pushed
<1>10. q.bus.op = "none" => /\ f = (IF q.out.t = 0 THEN w.op ELSE q.out.first)
                            /\ q.out.t = 1 => g = w.op
  OBVIOUS
<1> HIDE DEF f, g
<1>11. x.out.t = q.out.t + 1 /\ x.out.b = q.out.b + 1 /\ x.out.first = f /\ x.out.second = g
  BY <1>9, OutIs
<1>12. q.bus.op = "none" => q.out.t <= 1
  BY DEF Opening
<1>13. w.op # "none"
  BY <1>1
<1>14. HostKnown' /\ Tracked(x, st)'
  BY <1>6, <1>8, <1>10, <1>11, <1>12, <1>13, PushTracks
<1> QED BY <1>8, <1>14

\* A word of data, once there is room.
LEMMA DataStep ==
    ASSUME HostKnown, NEW q, NEW st, Tracked(q, st), UNCHANGED <<cmdq, cur, rx, control, dma, flash, app>>,
           prog[1].do = "data", ~Opening(q), q.dma # "tx", Len(tx) < TxDepth,
           NEW w, w.op # "none", WriteTxData(w), NEW x, x = After(q, prog[1])
    PROVE  HostKnown' /\ Tracked(x, st)' /\ x.kind = q.kind
<1>1. x = View(q.kind, Out(q.out.t + 1, q.out.b + 1, q.out.first, q.out.second), q.bus, q.in, q.dma, q.rdy)
  BY AfterIs
<1>2. /\ x.kind = q.kind /\ x.bus = q.bus /\ x.in = q.in /\ x.dma = q.dma /\ x.rdy = q.rdy
      /\ x.out = Out(q.out.t + 1, q.out.b + 1, q.out.first, q.out.second)
  BY <1>1, ViewIs
<1>3. x.out.t = q.out.t + 1 /\ x.out.b = q.out.b + 1
  BY <1>2, OutIs
<1>4. tx' = Append(tx, w)
  BY DEF WriteTxData
<1>5. q.bus.op # "none"
  BY DEF Opening
<1>6. HostKnown' /\ Tracked(x, st)'
  BY <1>2, <1>3, <1>4, <1>5, PushTracks
<1> QED BY <1>2, <1>6

-----------------------------------------------------------------------------
(* Words from the RX FIFO.                                                 *)

\* A word leaves the RX FIFO.
LEMMA PopTracks ==
    ASSUME HostKnown, NEW q, NEW st, Tracked(q, st), UNCHANGED <<cmdq, cur, tx, control, dma, flash>>,
           app'.ready => app.ready, rx # <<>>, rx' = Tail(rx), q.dma = "none",
           NEW x, x.bus = q.bus, x.out = q.out, x.dma = q.dma, x.rdy = q.rdy,
           x.in.e = q.in.e - 1, x.in.wm = q.in.wm, x.in.have \in Nat, x.in.have <= q.in.have - 1
    PROVE  HostKnown' /\ Tracked(x, st)'
<1>1. PICK n, s : n = Len(Pend) /\ s = st[n]
  OBVIOUS
<1>2. /\ cur' = cur /\ cmdq' = cmdq /\ tx' = tx /\ flash' = flash
      /\ control' = control /\ dma' = dma /\ (app'.ready => app.ready)
  OBVIOUS
<1>3. Chain(st) /\ WordsAgree(q, s) /\ BusAgrees(q, s) /\ DmaAgrees(q) /\ InAgrees(q) /\ AnswerKnown(q, s)
  BY <1>1 DEF Tracked, Agrees
<1>4. /\ n \in Nat /\ Len(tx) \in Nat /\ s.t \in Nat /\ s.r \in Nat
      /\ Fits(st[0]) /\ \A i \in 0..n : app.ready => st[i].tk
  <2>1. /\ n \in Nat /\ Len(tx) \in Nat /\ \A i \in 0..n : st[i].t \in Nat /\ st[i].r \in Nat
        /\ Fits(st[0]) /\ \A i \in 0..n : app.ready => st[i].tk
    BY <1>1, <1>3, ChainIs
  <2>2. n \in 0..n
    BY <2>1
  <2> QED BY <1>1, <2>1, <2>2
<1>5. /\ IsSequence(rx') /\ Len(rx) \in Nat /\ Len(rx) >= 1 /\ Len(rx') = Len(rx) - 1
      /\ \A i \in 1..Len(rx) - 1 : rx'[i] = rx[i + 1]
  BY TailIs DEF HostKnown, HostTyped
<1>6. HostKnown'
  <2>1. FlashTyped'
    BY <1>2 DEF HostKnown, FlashTyped, IsRecordOfSel
  <2>2. /\ IsSequence(tx') /\ \A i \in 1..Len(tx') : tx'[i].op # "none"
    BY <1>2 DEF HostKnown, HostTyped
  <2>3. /\ control' = [txwm |-> control'.txwm, rxwm |-> control'.rxwm] /\ control'.rxwm \in Nat
        /\ dma' = [dir |-> dma'.dir, buf |-> dma'.buf, at |-> dma'.at, n |-> dma'.n] /\ dma'.n \in Nat
    BY <1>2 DEF HostKnown, HostTyped
  <2> QED BY <1>2, <1>5, <2>1, <2>2, <2>3, KnownKeeps
<1>7. Chain(st)' /\ Pend' = Pend
  <2>1. TrueFacts \subseteq TrueFacts'
    BY <1>2 DEF TrueFacts
  <2>2. Fits(st[0])'
    <3> DEFINE v == st[0]
    <3>1. Fits(v) /\ flash'.sel = flash.sel /\ TrueFacts \subseteq TrueFacts'
      BY <1>2, <1>4, <2>1
    <3> HIDE DEF v
    <3>2. Fits(v)'
      BY <1>2, <3>1, FitsKeeps
    <3> QED BY <3>2 DEF v
  <2>3. app'.ready => \A i \in 0..Len(Pend) : st[i].tk
    BY <1>1, <1>2, <1>4
  <2>4. Len(tx') \in Nat /\ Len(tx') >= Len(tx) /\ \A i \in 1..Len(tx) : tx'[i].op = tx[i].op
    BY <1>2, <1>4
  <2> QED BY <1>2, <1>3, <2>2, <2>3, <2>4, ChainGrows
<1>8. Drx = 0 /\ Drx' = 0 /\ Dtx' = Dtx
  <2>1. Drx = 0
    BY <1>3, DtxAgrees
  <2>2. Dtx' = Dtx /\ Drx' = Drx
    BY <1>2 DEF Dtx, Drx
  <2> QED BY <2>1, <2>2
<1>9. WordsAgree(x, s)'
  <2>1. q.in.e = Len(rx) + s.r - Drx
    BY <1>3 DEF WordsAgree
  <2>2. x.in.e = Len(rx') + s.r - Drx'
    BY <1>4, <1>5, <1>8, <2>1
  <2> QED BY <1>2, <1>3, <1>8, <2>2 DEF WordsAgree
<1>10. BusAgrees(x, s)'
  BY <1>3 DEF BusAgrees
<1>11. DmaAgrees(x)'
  BY <1>2, <1>3 DEF DmaAgrees
<1>12. InAgrees(x)'
  <2>1. q.in.have \in Nat /\ q.in.have <= Len(rx)
    BY <1>3 DEF InAgrees
  <2>2. x.in.have <= Len(rx')
    BY <1>5, <2>1
  <2> QED BY <1>2, <1>3, <2>2 DEF InAgrees
<1>13. AnswerKnown(x, s)'
  <2>1. rx' # <<>> => rx'[Len(rx')] = rx[Len(rx)]
    <3> SUFFICES ASSUME rx' # <<>>
                 PROVE  rx'[Len(rx')] = rx[Len(rx)]
      OBVIOUS
    <3>1. Len(rx') \in Nat /\ Len(rx') >= 1
      BY <1>5, TailIs
    <3>2. Len(rx') \in 1..Len(rx) - 1 /\ Len(rx') + 1 = Len(rx)
      BY <1>5, <3>1
    <3> QED BY <1>5, <3>2
  <2>2. s.r = 0 /\ rx # <<>> =>
               /\ q.bus.ask = "RSR1" /\ rx[Len(rx)][1] % 2 # 1 => ~flash.busy
               /\ q.bus.ask = "RSR2" /\ q.bus.tk /\ rx[Len(rx)][1] % 2 = 1 => flash.qe
    BY <1>3, Zenon DEF AnswerKnown
  <2>3. s.r = 0 /\ rx' # <<>> =>
               /\ x.bus.ask = "RSR1" /\ rx'[Len(rx')][1] % 2 # 1 => ~flash'.busy
               /\ x.bus.ask = "RSR2" /\ x.bus.tk /\ rx'[Len(rx')][1] % 2 = 1 => flash'.qe
    BY <1>2, <2>1, <2>2
  <2> QED BY <2>3, Zenon DEF AnswerKnown
<1> QED BY <1>1, <1>6, <1>7, <1>9, <1>10, <1>11, <1>12, <1>13 DEF Tracked, Agrees

\* spi_read_word.
LEMMA ReadStep ==
    ASSUME HostKnown, NEW q, NEW st, Tracked(q, st), UNCHANGED <<cmdq, cur, tx, control, dma, flash, app>>,
           prog[1].do = "read", q.in.have > 0, q.dma = "none",
           (rx # <<>> /\ ReadRxData) \/ (rx = <<>> /\ rx' = rx), NEW x, x = After(q, prog[1])
    PROVE  HostKnown' /\ Tracked(x, st)' /\ x.kind = q.kind
<1>1. q.in.have \in Nat /\ q.in.have <= Len(rx)
  BY DEF Tracked, Agrees, InAgrees
<1>2. rx # <<>>
  BY <1>1, EmptyIs
<1>3. rx' = Tail(rx)
  BY <1>2 DEF ReadRxData
<1>4. x = View(q.kind, q.out, q.bus, In(q.in.e - 1, q.in.wm, q.in.have - 1), q.dma, q.rdy)
  BY AfterIs
<1>5. /\ x.kind = q.kind /\ x.bus = q.bus /\ x.out = q.out /\ x.dma = q.dma /\ x.rdy = q.rdy
      /\ x.in = In(q.in.e - 1, q.in.wm, q.in.have - 1)
  BY <1>4, ViewIs
<1>6. x.in.e = q.in.e - 1 /\ x.in.wm = q.in.wm /\ x.in.have = q.in.have - 1
  BY <1>5, InIs
<1>7. x.in.have \in Nat /\ x.in.have <= q.in.have - 1
  BY <1>1, <1>6
<1>8. app'.ready => app.ready
  OBVIOUS
<1>9. HostKnown' /\ Tracked(x, st)'
  BY <1>2, <1>3, <1>5, <1>6, <1>7, <1>8, PopTracks
<1> QED BY <1>5, <1>9

-----------------------------------------------------------------------------
(* A command is queued: the chain.                                         *)

\* What is known grows with what was known before.
LEMMA KnownGrows ==
    ASSUME NEW K, NEW L, K \subseteq L, NEW op
    PROVE  /\ Taken(op, K) => Taken(op, L)
           /\ \A tk, tl : (tk => tl) => Known(op, K, tk) \subseteq Known(op, L, tl)
<1>1. Taken(op, K) => Taken(op, L)
  BY DEF Taken
<1>2. ASSUME NEW tk, NEW tl, tk => tl
      PROVE  Known(op, K, tk) \subseteq Known(op, L, tl)
  <2>1. CASE tk
    BY <1>2, <2>1 DEF Known
  <2>2. CASE ~tk
    BY <2>2 DEF Known
  <2> QED BY <2>1, <2>2
<1> QED BY <1>1, <1>2

\* A command before its first word.
LEMMA BeginIs ==
    ASSUME NEW cmd, cmd.len \in Nat \ {0}, cmd.direction \in {"TX_ONLY", "RX_ONLY", "DUMMY"}
    PROVE  /\ Begin(cmd).cmd = cmd /\ Begin(cmd).left = WordsOf(cmd) /\ WordsOf(cmd) \in Nat
           /\ Begin(cmd) = [cmd |-> Begin(cmd).cmd, left |-> Begin(cmd).left]
           /\ cmd.direction # "DUMMY" => WordsOf(cmd) = LenWords(cmd.len) /\ WordsOf(cmd) >= 1
           /\ cmd.direction = "DUMMY" => WordsOf(cmd) = 0
<1>1. LenWords(cmd.len) \in Nat /\ LenWords(cmd.len) >= 1
  BY DEF LenWords
<1>2. Begin(cmd).cmd = cmd /\ Begin(cmd).left = WordsOf(cmd)
  BY DEF Begin
<1>3. Begin(cmd) = [cmd |-> Begin(cmd).cmd, left |-> Begin(cmd).left]
  BY DEF Begin
<1> QED BY <1>1, <1>2, <1>3 DEF WordsOf

\* A command is the last one of those under way.
LEMMA CommandQueued ==
    ASSUME HostKnown, NEW cmd, cmd.len \in Nat \ {0}, cmd.direction \in {"TX_ONLY", "RX_ONLY", "DUMMY"},
           Len(cmdq) < CmdDepth, WriteCommand(cmd), UNCHANGED <<tx, rx, control, dma, flash>>,
           NEW n, n = Len(Pend), NEW m, m = n + 1
    PROVE  /\ HostKnown' /\ n \in Nat /\ Len(Pend') = m /\ Pend'[m] = Begin(cmd) /\ \A i \in 1..n : Pend'[i] = Pend[i]
<1>1. IsSequence(cur) /\ Len(cur) <= 1 /\ IsSequence(cmdq) /\ (cur = <<>> => cmdq = <<>>)
      /\ \A i \in 1..Len(cur) : cur[i] = [cmd |-> cur[i].cmd, left |-> cur[i].left]
  BY DEF HostKnown, HostTyped
<1>2. /\ Len(cur) \in Nat /\ Len(cmdq) \in Nat /\ n = Len(cur) + Len(cmdq)
      /\ \A i \in 1..n : Pend[i] = IF i <= Len(cur) THEN cur[i] ELSE Begin(cmdq[i - Len(cur)])
      /\ cur = <<>> => Len(cur) = 0 /\ Len(cmdq) = 0 /\ n = 0
      /\ cur # <<>> => Len(cur) = 1
  BY PendNow DEF HostKnown, Parts
<1>3. \/ cur = <<>> /\ cur' = <<Begin(cmd)>> /\ cmdq' = cmdq
      \/ cur # <<>> /\ cmdq' = Append(cmdq, cmd) /\ cur' = cur
  BY DEF WriteCommand, Status
<1>4. /\ IsSequence(cur') /\ Len(cur') <= 1 /\ IsSequence(cmdq') /\ (cur' = <<>> => cmdq' = <<>>)
      /\ \A i \in 1..Len(cur') : cur'[i] = [cmd |-> cur'[i].cmd, left |-> cur'[i].left]
  <2>1. CASE cur = <<>>
    <3>1. IsSequence(cur') /\ Len(cur') = 1 /\ cur'[1] = Begin(cmd)
      BY <1>3, <2>1, OneIs
    <3>2. cur' # <<>>
      <4>1. Len(<<>>) = 0
        BY EmptyIs
      <4>2. Len(cur') # 0
        BY <3>1
      <4> QED BY <4>1, <4>2, Zenon
    <3>3. cur'[1] = [cmd |-> cur'[1].cmd, left |-> cur'[1].left]
      BY <3>1, BeginIs
    <3>4. \A i \in 1..Len(cur') : cur'[i] = [cmd |-> cur'[i].cmd, left |-> cur'[i].left]
      BY <3>1, <3>3
    <3>5. IsSequence(cmdq')
      BY <1>1, <1>3, <2>1
    <3> QED BY <3>1, <3>2, <3>4, <3>5
  <2>2. CASE cur # <<>>
    <3>1. IsSequence(cmdq')
      BY <1>1, <1>3, <2>2, AppendIs
    <3> QED BY <1>1, <1>3, <2>2, <3>1
  <2> QED BY <2>1, <2>2
<1>5. HostTyped'
  <2>1. /\ IsSequence(tx') /\ IsSequence(rx') /\ \A i \in 1..Len(tx') : tx'[i].op # "none"
        /\ control' = [txwm |-> control'.txwm, rxwm |-> control'.rxwm] /\ control'.rxwm \in Nat
        /\ dma' = [dir |-> dma'.dir, buf |-> dma'.buf, at |-> dma'.at, n |-> dma'.n] /\ dma'.n \in Nat
    BY DEF HostKnown, HostTyped
  <2> QED BY <1>4, <2>1 DEF HostTyped
<1>6. /\ Len(cur') \in Nat /\ Len(cmdq') \in Nat /\ Len(Pend') = Len(cur') + Len(cmdq')
      /\ \A i \in 1..Len(Pend') : Pend'[i] = IF i <= Len(cur') THEN cur'[i] ELSE Begin(cmdq'[i - Len(cur')])
  BY <1>5, PendNow DEF Parts
<1>7. n \in Nat /\ Len(Pend') = m /\ Pend'[m] = Begin(cmd) /\ \A i \in 1..n : Pend'[i] = Pend[i]
  <2>1. CASE cur = <<>>
    <3>1. Len(cur') = 1 /\ cur'[1] = Begin(cmd) /\ Len(cmdq') = 0 /\ n = 0
      BY <1>2, <1>3, <2>1, OneIs
    <3>2. Len(Pend') = 1 /\ m = 1
      BY <1>6, <3>1
    <3>3. Pend'[1] = cur'[1]
      BY <1>6, <3>1, <3>2
    <3> QED BY <3>1, <3>2, <3>3
  <2>2. CASE cur # <<>>
    <3>1. cur' = cur /\ Len(cur) = 1 /\ Len(cmdq') = Len(cmdq) + 1 /\ cmdq'[Len(cmdq) + 1] = cmd
          /\ \A i \in 1..Len(cmdq) : cmdq'[i] = cmdq[i]
      BY <1>1, <1>2, <1>3, <2>2, AppendIs
    <3>2. Len(Pend') = m /\ n = 1 + Len(cmdq) /\ n \in Nat
      BY <1>2, <1>6, <3>1
    <3>3. Pend'[m] = Begin(cmd)
      <4>1. PICK k : k = Len(cmdq)
        OBVIOUS
      <4>2. k \in Nat /\ n = 1 + k /\ m = k + 2
        BY <1>2, <3>2, <4>1
      <4>3. Len(cur') = 1 /\ Len(Pend') = m
        BY <3>1, <3>2
      <4>4. m \in 1..Len(Pend') /\ ~(m <= Len(cur')) /\ m - Len(cur') = Len(cmdq) + 1
        BY <4>1, <4>2, <4>3
      <4> QED BY <1>6, <3>1, <4>4
    <3>4. \A i \in 1..n : Pend'[i] = Pend[i]
      <4> TAKE i \in 1..n
      <4>1. i \in 1..Len(Pend')
        BY <3>2
      <4>2. CASE i <= Len(cur)
        BY <1>2, <1>6, <3>1, <4>1, <4>2
      <4>3. CASE ~(i <= Len(cur))
        <5>1. i - Len(cur) \in 1..Len(cmdq)
          BY <1>2, <3>1, <3>2, <4>3
        <5> QED BY <1>2, <1>6, <3>1, <4>1, <4>3, <5>1
      <4> QED BY <4>2, <4>3
    <3> QED BY <3>2, <3>3, <3>4
  <2> QED BY <2>1, <2>2
<1>8. Commands'
  <2>1. Commands' = \A i \in 1..Len(Pend') :
                       /\ Pend'[i].cmd.direction \in {"TX_ONLY", "RX_ONLY", "DUMMY"}
                       /\ Pend'[i].cmd.len \in Nat \ {0} /\ Pend'[i].left \in Nat
                       /\ i > 1 => Pend'[i].left = WordsOf(Pend'[i].cmd)
    BY DEF Commands, WordsOf, LenWords
  <2>2. ASSUME NEW i \in 1..m
        PROVE /\ Pend'[i].cmd.direction \in {"TX_ONLY", "RX_ONLY", "DUMMY"}
              /\ Pend'[i].cmd.len \in Nat \ {0} /\ Pend'[i].left \in Nat
              /\ i > 1 => Pend'[i].left = WordsOf(Pend'[i].cmd)
    <3>1. CASE i = m
      BY <1>7, <3>1, BeginIs
    <3>2. CASE i # m
      <4>1. i \in 1..Len(Pend) /\ Pend'[i] = Pend[i]
        BY <1>7, <3>2
      <4> QED BY <4>1 DEF HostKnown, Commands
    <3> QED BY <3>1, <3>2
  <2> QED BY <1>7, <2>1, <2>2
<1>9. FlashTyped'
  BY DEF HostKnown, FlashTyped, IsRecordOfSel
<1> QED BY <1>5, <1>7, <1>8, <1>9 DEF HostKnown

\* The chain with one more state, for a command that is queued.
Extended(st, n, v) == [i \in 0..n + 1 |-> IF i <= n THEN st[i] ELSE v]

\* The chain with one more state.
LEMMA ExtendedIs ==
    ASSUME NEW st, NEW n \in Nat, NEW v, NEW m, m = n + 1
    PROVE  /\ Extended(st, n, v)[m] = v /\ \A i \in 0..n : Extended(st, n, v)[i] = st[i]
BY DEF Extended

\* The states behind the commands under way, with one more.
LEMMA CommandChain ==
    ASSUME HostKnown, NEW st, Chain(st), NEW cmd, cmd.len \in Nat \ {0},
           cmd.direction \in {"TX_ONLY", "RX_ONLY", "DUMMY"},
           Len(cmdq) < CmdDepth, WriteCommand(cmd), UNCHANGED <<tx, rx, control, dma, flash, app>>,
           NEW n, n = Len(Pend), NEW s, s = st[n], NEW o, o = tx[s.t + 1].op, NEW v, v = Effect(Begin(cmd), s, o),
           v.t <= Len(tx), app.ready => v.tk
    PROVE  \E u : Chain(u)' /\ u[Len(Pend')] = v
<1>1. PICK m : m = n + 1
  OBVIOUS
<1>2. /\ HostKnown' /\ n \in Nat /\ Len(Pend') = m /\ Pend'[m] = Begin(cmd) /\ \A i \in 1..n : Pend'[i] = Pend[i]
  BY <1>1, CommandQueued
<1>3. /\ \A i \in 1..n : st[i] = Effect(Pend[i], st[i - 1], tx[st[i - 1].t + 1].op)
      /\ \A i \in 0..n : st[i].t \in Nat /\ st[i].r \in Nat /\ st[i].t <= Len(tx) /\ (app.ready => st[i].tk)
      /\ \A i, j \in 0..n : i <= j => st[i].t <= st[j].t /\ st[i].r <= st[j].r
      /\ Fits(st[0]) /\ Len(tx) \in Nat
  BY ChainIs
<1>4. PICK u : u = Extended(st, n, v)
  OBVIOUS
<1>5. u[m] = v /\ \A i \in 0..n : u[i] = st[i]
  BY <1>1, <1>2, <1>4, ExtendedIs
<1>6. n \in 0..n /\ 0 \in 0..n /\ s.t \in Nat /\ s.r \in Nat /\ m \in Nat
  BY <1>1, <1>2, <1>3
<1>7. v.t \in Nat /\ v.r \in Nat /\ s.t <= v.t /\ s.r <= v.r
  <2>1. /\ v.t = IF Sends(cmd) THEN s.t + Begin(cmd).left ELSE s.t
        /\ v.r = IF Receives(cmd) THEN s.r + Begin(cmd).left ELSE s.r
    BY EffectIs, BeginIs
  <2>2. Begin(cmd).left \in Nat
    BY BeginIs
  <2> QED BY <1>6, <2>1, <2>2
<1>8. Fits(u[0])'
  <2> DEFINE w == u[0]
  <2>1. Fits(w) /\ flash'.sel = flash.sel /\ (app'.ready => app.ready) /\ TrueFacts \subseteq TrueFacts'
    BY <1>3, <1>5, <1>6 DEF TrueFacts
  <2> HIDE DEF w
  <2>2. Fits(w)'
    BY <2>1, FitsKeeps
  <2> QED BY <2>2 DEF w
<1>9. ASSUME NEW i \in 1..m
      PROVE  u[i] = Effect(Pend'[i], u[i - 1], tx[u[i - 1].t + 1].op)
  <2>1. CASE i = m
    <3>1. i - 1 = n /\ u[i - 1] = s
      BY <1>1, <1>2, <1>5, <1>6, <2>1
    <3> QED BY <1>2, <1>5, <2>1, <3>1
  <2>2. CASE i # m
    <3>1. i \in 1..n /\ i \in 0..n /\ i - 1 \in 0..n
      BY <1>1, <1>2, <2>2
    <3> QED BY <1>2, <1>3, <1>5, <3>1
  <2> QED BY <2>1, <2>2
<1>10. ASSUME NEW i \in 0..m
       PROVE  u[i].t \in Nat /\ u[i].r \in Nat /\ u[i].t <= Len(tx) /\ (app.ready => u[i].tk)
  <2>1. CASE i = m
    BY <1>5, <1>7, <2>1
  <2>2. CASE i # m
    <3>1. i \in 0..n
      BY <1>1, <1>2, <2>2
    <3> QED BY <1>3, <1>5, <3>1
  <2> QED BY <2>1, <2>2
<1>11. ASSUME NEW i \in 0..m, NEW j \in 0..m, i <= j
       PROVE  u[i].t <= u[j].t /\ u[i].r <= u[j].r
  <2>1. CASE j # m
    <3>1. i \in 0..n /\ j \in 0..n
      BY <1>1, <1>2, <1>11, <2>1
    <3> QED BY <1>3, <1>5, <1>11, <3>1
  <2>2. CASE j = m /\ i = m
    BY <1>5, <1>7, <2>2
  <2>3. CASE j = m /\ i # m
    <3>1. i \in 0..n /\ i <= n
      BY <1>1, <1>2, <2>3
    <3>2. st[i].t <= s.t /\ st[i].r <= s.r /\ st[i].t \in Nat /\ st[i].r \in Nat
      BY <1>3, <1>6, <3>1
    <3>3. u[i].t <= v.t /\ u[i].r <= v.r
      BY <1>5, <1>6, <1>7, <3>1, <3>2, SMTT(30)
    <3> QED BY <1>5, <2>3, <3>3
  <2> QED BY <2>1, <2>2, <2>3
<1>12. Chain(u)'
  <2>1. Chain(u)' = /\ Fits(u[0])'
                    /\ \A i \in 1..Len(Pend') : u[i] = Effect(Pend'[i], u[i - 1], tx'[u[i - 1].t + 1].op)
                    /\ \A i \in 0..Len(Pend') : u[i].t \in Nat /\ u[i].r \in Nat /\ u[i].t <= Len(tx')
                                                  /\ (app'.ready => u[i].tk)
                    /\ \A i, j \in 0..Len(Pend') : i <= j => u[i].t <= u[j].t /\ u[i].r <= u[j].r
    BY Zenon DEF Chain, HostAfter, Effect, Opens, Taken, Known, Needs, Gives, Ends, Sends, Receives, Sending, Receiving, Facts, Mutating
  <2> QED BY <1>2, <1>8, <1>9, <1>10, <1>11, <2>1
<1> QED BY <1>2, <1>5, <1>12

-----------------------------------------------------------------------------
(* A command that sends or receives: the view.                             *)

\* The bus after a command, field by field.
LEMMA HeldIs ==
    ASSUME NEW csaat, NEW op, NEW K, NEW tk, NEW ask, NEW last
    PROVE  /\ Held(csaat, op, K, tk, ask, last).op = (IF csaat THEN op ELSE "none")
           /\ Held(csaat, op, K, tk, ask, last).K = (IF csaat THEN K ELSE Known(op, K, tk))
           /\ Held(csaat, op, K, tk, ask, last).tk = tk /\ Held(csaat, op, K, tk, ask, last).ask = ask
           /\ Held(csaat, op, K, tk, ask, last).last = last
<1>1. CASE csaat
  <2>1. Held(csaat, op, K, tk, ask, last) = Bus(op, K, tk, ask, last)
    BY <1>1 DEF Held
  <2>2. /\ Held(csaat, op, K, tk, ask, last).op = op /\ Held(csaat, op, K, tk, ask, last).K = K
        /\ Held(csaat, op, K, tk, ask, last).tk = tk /\ Held(csaat, op, K, tk, ask, last).ask = ask
        /\ Held(csaat, op, K, tk, ask, last).last = last
    BY <2>1, BusIs
  <2> QED BY <1>1, <2>2, Zenon
<1>2. CASE ~csaat
  <2> DEFINE L == Known(op, K, tk)
  <2>1. Held(csaat, op, K, tk, ask, last) = Bus("none", L, tk, ask, last)
    BY <1>2 DEF Held
  <2> HIDE DEF L
  <2>2. /\ Held(csaat, op, K, tk, ask, last).op = "none" /\ Held(csaat, op, K, tk, ask, last).K = L
        /\ Held(csaat, op, K, tk, ask, last).tk = tk /\ Held(csaat, op, K, tk, ask, last).ask = ask
        /\ Held(csaat, op, K, tk, ask, last).last = last
    BY <2>1, BusIs
  <2> QED BY <1>2, <2>2 DEF L
<1> QED BY <1>1, <1>2

\* The bus after a command that sends.
SentBus(q, csaat) ==
    IF Opening(q)
    THEN Held(csaat, q.out.first, q.bus.K, Taken(q.out.first, q.bus.K), "none", FALSE)
    ELSE Held(csaat, q.bus.op, q.bus.K, q.bus.tk, "none", FALSE)

\* What the driver knows after a command agrees with what the command leaves.
LEMMA SentAgrees ==
    ASSUME NEW q, NEW s, BusAgrees(q, s), NEW c, NEW o, NEW v, v = Effect(c, s, o), Sends(c.cmd), ~Receives(c.cmd),
           c.left \in Nat \ {0}, q.bus.op = "none" => o = q.out.first,
           NEW bus, bus = SentBus(q, c.cmd.csaat)
    PROVE  /\ bus.op = v.op /\ bus.K \subseteq v.K /\ (bus.tk => v.tk) /\ bus.ask = "none" /\ ~bus.last
           /\ (bus.op = "none" <=> ~c.cmd.csaat \/ (IF Opening(q) THEN q.out.first ELSE q.bus.op) = "none")
           /\ ~Opening(q) \/ Taken(q.out.first, q.bus.K) => (s.tk => v.tk)
           /\ Opening(q) => (v.tk <=> Taken(q.out.first, s.K))
<1> DEFINE csaat == c.cmd.csaat
           last == FALSE
<1>1. q.bus.op = s.op /\ q.bus.K \subseteq s.K /\ (q.bus.tk => s.tk) /\ ~last
  BY DEF BusAgrees
<1> HIDE DEF last
<1>2. CASE Opening(q)
  <2> DEFINE op == q.out.first
             tk == Taken(op, q.bus.K)
             tl == Taken(op, s.K)
  <2>1. Opens(c, s) /\ o = op
    BY <1>1, <1>2 DEF Opens, Opening
  <2>2. tk => tl
    BY <1>1, KnownGrows DEF Taken
  <2>3. Known(op, q.bus.K, tk) \subseteq Known(op, s.K, tl)
    BY <1>1, <2>2, KnownGrows
  <2>4. /\ v.op = (IF csaat THEN op ELSE "none") /\ v.tk = tl
        /\ v.K = (IF csaat THEN s.K ELSE Known(op, s.K, tl))
    BY <2>1, EffectIs
  <2>5. bus = Held(csaat, op, q.bus.K, tk, "none", last)
    BY <1>2 DEF last, SentBus
  <2> HIDE DEF csaat, op, tk, tl
  <2>8. /\ Held(csaat, op, q.bus.K, tk, "none", last).op = (IF csaat THEN op ELSE "none")
        /\ Held(csaat, op, q.bus.K, tk, "none", last).K = (IF csaat THEN q.bus.K ELSE Known(op, q.bus.K, tk))
        /\ Held(csaat, op, q.bus.K, tk, "none", last).tk = tk /\ Held(csaat, op, q.bus.K, tk, "none", last).ask = "none" /\ Held(csaat, op, q.bus.K, tk, "none", last).last = last
    BY HeldIs
  <2>6. /\ bus.op = (IF csaat THEN op ELSE "none") /\ bus.K = (IF csaat THEN q.bus.K ELSE Known(op, q.bus.K, tk))
        /\ bus.tk = tk /\ bus.ask = "none" /\ bus.last = last
    BY <2>5, <2>8, Zenon
  <2>7. /\ bus.op = v.op /\ bus.K \subseteq v.K /\ (bus.tk => v.tk) /\ bus.ask = "none" /\ ~bus.last
        /\ (bus.op = "none" <=> ~csaat \/ op = "none") /\ (tk => v.tk) /\ (v.tk <=> tl)
    BY <1>1, <2>2, <2>3, <2>4, <2>6
  <2> QED BY <1>2, <2>7 DEF csaat, op, tk, tl
<1>3. CASE ~Opening(q)
  <2> DEFINE op == q.bus.op
             tk == q.bus.tk
  <2>1. ~Opens(c, s) /\ s.op = op
    BY <1>1, <1>3 DEF Opens, Opening
  <2>3. Known(op, q.bus.K, tk) \subseteq Known(op, s.K, s.tk)
    BY <1>1, KnownGrows
  <2>4. /\ v.op = (IF csaat THEN op ELSE "none") /\ v.tk = s.tk
        /\ v.K = (IF csaat THEN s.K ELSE Known(op, s.K, s.tk))
    BY <2>1, EffectIs
  <2>5. bus = Held(csaat, op, q.bus.K, tk, "none", last)
    BY <1>3 DEF last, SentBus
  <2> HIDE DEF csaat, op
  <2>8. /\ Held(csaat, op, q.bus.K, tk, "none", last).op = (IF csaat THEN op ELSE "none")
        /\ Held(csaat, op, q.bus.K, tk, "none", last).K = (IF csaat THEN q.bus.K ELSE Known(op, q.bus.K, tk))
        /\ Held(csaat, op, q.bus.K, tk, "none", last).tk = tk /\ Held(csaat, op, q.bus.K, tk, "none", last).ask = "none" /\ Held(csaat, op, q.bus.K, tk, "none", last).last = last
    BY HeldIs
  <2>6. /\ bus.op = (IF csaat THEN op ELSE "none") /\ bus.K = (IF csaat THEN q.bus.K ELSE Known(op, q.bus.K, tk))
        /\ bus.tk = tk /\ bus.ask = "none" /\ bus.last = last
    BY <2>5, <2>8, Zenon
  <2>7. /\ bus.op = v.op /\ bus.K \subseteq v.K /\ (bus.tk => v.tk) /\ bus.ask = "none" /\ ~bus.last
        /\ (bus.op = "none" <=> ~csaat \/ op = "none") /\ (s.tk => v.tk)
    BY <1>1, <2>3, <2>4, <2>6
  <2> QED BY <1>3, <2>7 DEF csaat, op
<1> QED BY <1>2, <1>3

\* The view after a command that sends, field by field.
LEMMA SentIs ==
    ASSUME NEW q, NEW words, NEW csaat, NEW x, x = Sent(q, words, csaat)
    PROVE  /\ x.kind = q.kind /\ x.in = q.in /\ x.dma = q.dma /\ ~x.rdy
           /\ x.out.t = q.out.t - words /\ x.out.b = q.out.b /\ x.out.first = q.out.second
           /\ x.bus = SentBus(q, csaat)
<1> DEFINE out == Out(q.out.t - words, q.out.b, q.out.second, "none")
           a == Held(csaat, q.out.first, q.bus.K, Taken(q.out.first, q.bus.K), "none", FALSE)
           b == Held(csaat, q.bus.op, q.bus.K, q.bus.tk, "none", FALSE)
           r == FALSE
<1>1. x = IF Opening(q) THEN View(q.kind, out, a, q.in, q.dma, r) ELSE View(q.kind, out, b, q.in, q.dma, r)
  BY Zenon DEF Sent
<1>2. out.t = q.out.t - words /\ out.b = q.out.b /\ out.first = q.out.second
  BY OutIs
<1>3. ~r
  OBVIOUS
<1> HIDE DEF out, a, b, r
<1>4. x.kind = q.kind /\ x.in = q.in /\ x.dma = q.dma /\ x.rdy = r /\ x.out = out /\ x.bus = IF Opening(q) THEN a ELSE b
  BY <1>1, ViewIs
<1>5. SentBus(q, csaat) = IF Opening(q) THEN a ELSE b
  BY Zenon DEF a, b, SentBus
<1> QED BY <1>2, <1>3, <1>4, <1>5

\* The view after a command that receives, field by field.
LEMMA ReceivedIs ==
    ASSUME NEW q, NEW words, NEW csaat, NEW x, x = Received(q, words, csaat)
    PROVE  /\ x.kind = q.kind /\ x.out = q.out /\ x.dma = q.dma /\ ~x.rdy
           /\ x.in.e = q.in.e + words /\ x.in.wm = q.in.wm /\ x.in.have = q.in.have
           /\ x.bus.op = (IF csaat THEN q.bus.op ELSE "none")
           /\ x.bus.K = (IF csaat THEN q.bus.K ELSE Known(q.bus.op, q.bus.K, q.bus.tk))
           /\ x.bus.tk = q.bus.tk /\ x.bus.ask = q.bus.op
<1> DEFINE in == In(q.in.e + words, q.in.wm, q.in.have)
           b == Held(csaat, q.bus.op, q.bus.K, q.bus.tk, q.bus.op, TRUE)
           r == FALSE
           l == TRUE
<1>1. x = View(q.kind, q.out, b, in, q.dma, r)
  BY Zenon DEF Received
<1>2. in.e = q.in.e + words /\ in.wm = q.in.wm /\ in.have = q.in.have
  BY InIs
<1>3. ~r
  OBVIOUS
<1>5. b = Held(csaat, q.bus.op, q.bus.K, q.bus.tk, q.bus.op, l)
  OBVIOUS
<1> HIDE DEF in, b, r, l
<1>4. x.kind = q.kind /\ x.in = in /\ x.dma = q.dma /\ x.rdy = r /\ x.out = q.out /\ x.bus = b
  BY <1>1, ViewIs
<1>7. /\ Held(csaat, q.bus.op, q.bus.K, q.bus.tk, q.bus.op, l).op = (IF csaat THEN q.bus.op ELSE "none")
      /\ Held(csaat, q.bus.op, q.bus.K, q.bus.tk, q.bus.op, l).K = (IF csaat THEN q.bus.K ELSE Known(q.bus.op, q.bus.K, q.bus.tk))
      /\ Held(csaat, q.bus.op, q.bus.K, q.bus.tk, q.bus.op, l).tk = q.bus.tk /\ Held(csaat, q.bus.op, q.bus.K, q.bus.tk, q.bus.op, l).ask = q.bus.op
  BY HeldIs
<1>6. /\ b.op = (IF csaat THEN q.bus.op ELSE "none")
      /\ b.K = (IF csaat THEN q.bus.K ELSE Known(q.bus.op, q.bus.K, q.bus.tk))
      /\ b.tk = q.bus.tk /\ b.ask = q.bus.op
  BY <1>5, <1>7, Zenon
<1> QED BY <1>2, <1>3, <1>4, <1>6

-----------------------------------------------------------------------------
(* A command is queued: what agrees.                                       *)

\* The view after dummy cycles.
DummyOf(q) == View(q.kind, q.out, Bus(q.bus.op, q.bus.K, q.bus.tk, "none", FALSE), q.in, q.dma, FALSE)

\* The view after dummy cycles, field by field.
LEMMA DummyIs ==
    ASSUME NEW q, NEW x, x = DummyOf(q)
    PROVE  /\ x.kind = q.kind /\ x.out = q.out /\ x.dma = q.dma /\ ~x.rdy /\ x.in = q.in
           /\ x.bus.op = q.bus.op /\ x.bus.K = q.bus.K /\ x.bus.tk = q.bus.tk /\ x.bus.ask = "none" /\ ~x.bus.last
<1> DEFINE r == FALSE
<1>3. ~r
  OBVIOUS
<1> DEFINE b == Bus(q.bus.op, q.bus.K, q.bus.tk, "none", r)
<1>1. x = View(q.kind, q.out, b, q.in, q.dma, r)
  BY DEF DummyOf
<1> HIDE DEF r
<1>2. /\ b.op = q.bus.op /\ b.K = q.bus.K /\ b.tk = q.bus.tk /\ b.ask = "none" /\ b.last = r
  BY BusIs
<1> HIDE DEF b
<1>4. x.kind = q.kind /\ x.in = q.in /\ x.dma = q.dma /\ x.rdy = r /\ x.out = q.out /\ x.bus = b
  BY <1>1, ViewIs
<1> QED BY <1>2, <1>3, <1>4

\* The view after a command, by direction.
LEMMA AfterCommandIs ==
    ASSUME NEW q, NEW cmd
    PROVE  /\ cmd.direction = "TX_ONLY" => AfterCommand(q, cmd) = Sent(q, LenWords(cmd.len), cmd.csaat)
           /\ cmd.direction = "RX_ONLY" => AfterCommand(q, cmd) = Received(q, LenWords(cmd.len), cmd.csaat)
           /\ cmd.direction = "DUMMY" => AfterCommand(q, cmd) = DummyOf(q)
BY Zenon DEF AfterCommand, DummyOf

\* What agrees once a command is written.
LEMMA CommandAgrees ==
    ASSUME HostKnown, NEW q, NEW s, Agrees(q, s), NEW cmd, CommandFits(q, cmd),
           s.t \in Nat, s.r \in Nat, s.t <= Len(tx), UNCHANGED <<tx, rx, control, dma, flash, app>>,
           NEW o, o = tx[s.t + 1].op, NEW v, v = Effect(Begin(cmd), s, o), NEW x, x = AfterCommand(q, cmd)
    PROVE  /\ x.kind = q.kind /\ v.t <= Len(tx) /\ Agrees(x, v)'
           /\ s.tk /\ (Opening(q) /\ Sends(cmd) => Taken(q.out.first, q.bus.K)) => v.tk
<1>1. WordsAgree(q, s) /\ BusAgrees(q, s) /\ DmaAgrees(q) /\ InAgrees(q) /\ AnswerKnown(q, s)
  BY DEF Agrees
<1>2. cmd.len \in Nat \ {0} /\ cmd.direction \in {"TX_ONLY", "RX_ONLY", "DUMMY"} /\ q.dma # "tx"
  BY DEF CommandFits
<1>3. PICK c, k : c = Begin(cmd) /\ k = WordsOf(cmd)
  OBVIOUS
<1>4. c.cmd = cmd /\ c.left = k /\ k \in Nat /\ (cmd.direction # "DUMMY" => k = LenWords(cmd.len) /\ k >= 1)
      /\ (cmd.direction = "DUMMY" => k = 0)
  BY <1>2, <1>3, BeginIs
<1>5. Dtx = 0 /\ Len(tx) \in Nat /\ Drx \in Nat /\ Len(rx) \in Nat
  BY <1>1, <1>2, DtxAgrees, DtxIs, SequenceIs DEF HostKnown, HostTyped
<1>6. /\ q.out.t = Len(tx) + Dtx - s.t /\ q.in.e = Len(rx) + s.r - Drx
      /\ q.out.b \in Nat /\ Len(tx) + Dtx <= q.out.b
      /\ q.bus.op = "none" /\ q.out.t >= 1 => tx[s.t + 1].op = q.out.first
      /\ q.bus.op = "none" /\ q.out.t = 2 => tx[s.t + 2].op = q.out.second
  BY <1>1 DEF WordsAgree
<1>7. Dtx' = Dtx /\ Drx' = Drx
  BY DEF Dtx, Drx
<1>8. tx' = tx /\ rx' = rx /\ control' = control /\ dma' = dma /\ flash' = flash
  OBVIOUS
<1>9. q.bus.op = s.op /\ q.bus.K \subseteq s.K /\ (q.bus.tk => s.tk)
  BY <1>1 DEF BusAgrees
<1>10. /\ v.t = IF Sends(cmd) THEN s.t + k ELSE s.t
       /\ v.r = IF Receives(cmd) THEN s.r + k ELSE s.r
       /\ ~Opens(c, s) => v.op = (IF cmd.csaat THEN s.op ELSE "none")
       /\ ~Opens(c, s) => v.tk = s.tk
       /\ ~Opens(c, s) => v.K = IF cmd.csaat THEN s.K ELSE Known(s.op, s.K, s.tk)
       /\ ~Opens(c, s) => v.ask = (IF Receives(cmd) THEN s.op ELSE "none")
  <2>1. v = Effect(c, s, o)
    BY <1>3
  <2> QED BY <1>4, <2>1, EffectIs
<1>11. WordsAgree(x, v)' =
          /\ x.out.t = Len(tx) + Dtx - v.t /\ x.in.e = Len(rx) + v.r - Drx
          /\ x.out.b \in Nat /\ Len(tx) + Dtx <= x.out.b
          /\ x.bus.op = "none" /\ x.out.t >= 1 => tx[v.t + 1].op = x.out.first
          /\ x.bus.op = "none" /\ x.out.t = 2 => tx[v.t + 2].op = x.out.second
  BY <1>7, <1>8 DEF WordsAgree
<1>12. CASE cmd.direction = "TX_ONLY"
  <2>1. Sends(cmd) /\ ~Receives(cmd)
    BY <1>12 DEF Sends, Receives, Sending, Receiving
  <2>2. x = Sent(q, k, cmd.csaat)
    BY <1>4, <1>12, AfterCommandIs
  <2>3. /\ x.kind = q.kind /\ x.in = q.in /\ x.dma = q.dma /\ ~x.rdy
        /\ x.out.t = q.out.t - k /\ x.out.b = q.out.b /\ x.out.first = q.out.second /\ x.bus = SentBus(q, cmd.csaat)
    BY <2>2, SentIs
  <2>4. q.out.t = k \/ (q.out.t = 2 /\ k = 1 /\ Opening(q) /\ ~cmd.csaat)
    BY <1>4, <1>12 DEF CommandFits
  <2>5. q.bus.op = "none" => o = q.out.first
    <3>1. q.out.t >= 1
      BY <1>4, <1>12, <2>4
    <3> QED BY <1>6, <3>1
  <2>6. /\ x.bus.op = v.op /\ x.bus.K \subseteq v.K /\ (x.bus.tk => v.tk) /\ x.bus.ask = "none" /\ ~x.bus.last
        /\ (~Opening(q) \/ Taken(q.out.first, q.bus.K)) => (s.tk => v.tk)
    <3>1. Sends(c.cmd) /\ ~Receives(c.cmd) /\ c.left \in Nat \ {0} /\ v = Effect(c, s, o)
      BY <1>3, <1>4, <1>12, <2>1
    <3>2. PICK b : b = x.bus
      OBVIOUS
    <3>3. b = SentBus(q, c.cmd.csaat)
      BY <1>4, <2>3, <3>2
    <3>4. /\ b.op = v.op /\ b.K \subseteq v.K /\ (b.tk => v.tk) /\ b.ask = "none" /\ ~b.last
          /\ (~Opening(q) \/ Taken(q.out.first, q.bus.K)) => (s.tk => v.tk)
      BY <1>1, <2>5, <3>1, <3>3, SentAgrees
    <3> QED BY <3>2, <3>4
  <2>7. v.t = s.t + k /\ v.r = s.r /\ v.t <= Len(tx)
    <3>1. v.t = s.t + k /\ v.r = s.r
      BY <1>10, <2>1
    <3>2. k <= Len(tx) - s.t
      BY <1>4, <1>5, <1>6, <1>12, <2>4
    <3> QED BY <1>4, <1>5, <3>1, <3>2
  <2>8. WordsAgree(x, v)'
    <3>1. x.out.t = Len(tx) + Dtx - v.t /\ x.in.e = Len(rx) + v.r - Drx
      BY <1>4, <1>5, <1>6, <2>3, <2>7
    <3>2. x.out.t = 0 \/ (x.out.t = 1 /\ k = 1 /\ q.out.t = 2 /\ q.bus.op = "none")
      BY <1>4, <2>3, <2>4 DEF Opening
    <3>3. x.out.t >= 1 => tx[v.t + 1].op = x.out.first
      <4> SUFFICES ASSUME x.out.t >= 1
                   PROVE  tx[v.t + 1].op = x.out.first
        OBVIOUS
      <4>1. v.t + 1 = s.t + 2
        BY <2>7, <3>2
      <4>2. tx[s.t + 2].op = q.out.second
        BY <1>6, <3>2
      <4> QED BY <2>3, <4>1, <4>2
    <3> QED BY <1>6, <1>11, <2>3, <3>1, <3>2, <3>3
  <2>9. BusAgrees(x, v)'
    BY <2>6 DEF BusAgrees
  <2>10. DmaAgrees(x)'
    BY <1>1, <1>2, <1>8, <2>3 DEF DmaAgrees
  <2>11. InAgrees(x)'
    BY <1>1, <1>8, <2>3 DEF InAgrees
  <2>12. AnswerKnown(x, v)'
    <3>1. x.bus.ask # "RSR1" /\ x.bus.ask # "RSR2"
      BY <2>6
    <3> QED BY <3>1, Zenon DEF AnswerKnown
  <2> QED BY <2>1, <2>3, <2>6, <2>7, <2>8, <2>9, <2>10, <2>11, <2>12 DEF Agrees
<1>13. CASE cmd.direction = "RX_ONLY"
  <2>1. ~Sends(cmd) /\ Receives(cmd) /\ ~Opens(c, s)
    BY <1>4, <1>13 DEF Sends, Receives, Sending, Receiving, Opens
  <2>2. x = Received(q, k, cmd.csaat)
    BY <1>4, <1>13, AfterCommandIs
  <2>3. /\ x.kind = q.kind /\ x.out = q.out /\ x.dma = q.dma /\ ~x.rdy
        /\ x.in.e = q.in.e + k /\ x.in.wm = q.in.wm /\ x.in.have = q.in.have
        /\ x.bus.op = (IF cmd.csaat THEN q.bus.op ELSE "none")
        /\ x.bus.K = (IF cmd.csaat THEN q.bus.K ELSE Known(q.bus.op, q.bus.K, q.bus.tk))
        /\ x.bus.tk = q.bus.tk /\ x.bus.ask = q.bus.op
    BY <2>2, ReceivedIs
  <2>4. q.bus.op # "none" /\ q.out.t = 0
    BY <1>13 DEF CommandFits, Opening
  <2>5. /\ v.t = s.t /\ v.r = s.r + k /\ v.op = (IF cmd.csaat THEN s.op ELSE "none") /\ v.tk = s.tk
        /\ v.K = (IF cmd.csaat THEN s.K ELSE Known(s.op, s.K, s.tk)) /\ v.ask = s.op
    BY <1>10, <2>1
  <2>6. v.t <= Len(tx)
    BY <1>5, <1>6, <2>4, <2>5
  <2>7. WordsAgree(x, v)'
    <3>1. x.out.t = Len(tx) + Dtx - v.t /\ x.in.e = Len(rx) + v.r - Drx
      BY <1>4, <1>5, <1>6, <2>3, <2>5
    <3> QED BY <1>6, <1>11, <2>3, <2>4, <3>1
  <2>8. BusAgrees(x, v)'
    <3>1. x.bus.K \subseteq v.K
      <4>1. CASE cmd.csaat
        BY <1>9, <2>3, <2>5, <4>1
      <4>2. CASE ~cmd.csaat
        <5>1. Known(q.bus.op, q.bus.K, q.bus.tk) \subseteq Known(q.bus.op, s.K, s.tk)
          BY <1>9, KnownGrows
        <5> QED BY <1>9, <2>3, <2>5, <4>2, <5>1
      <4> QED BY <4>1, <4>2
    <3> QED BY <1>9, <2>3, <2>4, <2>5, <3>1 DEF BusAgrees
  <2>9. DmaAgrees(x)'
    BY <1>1, <1>2, <1>8, <2>3 DEF DmaAgrees
  <2>10. InAgrees(x)'
    BY <1>1, <1>8, <2>3 DEF InAgrees
  <2>11. AnswerKnown(x, v)'
    <3>1. v.r # 0
      BY <1>4, <1>13, <2>5
    <3> QED BY <3>1, Zenon DEF AnswerKnown
  <2> QED BY <2>3, <2>5, <2>6, <2>7, <2>8, <2>9, <2>10, <2>11 DEF Agrees
<1>14. CASE cmd.direction = "DUMMY"
  <2>1. ~Sends(cmd) /\ ~Receives(cmd) /\ ~Opens(c, s)
    BY <1>4, <1>14 DEF Sends, Receives, Sending, Receiving, Opens
  <2>2. x = DummyOf(q)
    BY <1>14, AfterCommandIs
  <2>3. /\ x.kind = q.kind /\ x.out = q.out /\ x.dma = q.dma /\ ~x.rdy /\ x.in = q.in
        /\ x.bus.op = q.bus.op /\ x.bus.K = q.bus.K /\ x.bus.tk = q.bus.tk /\ x.bus.ask = "none" /\ ~x.bus.last
    BY <2>2, DummyIs
  <2>4. q.bus.op # "none" /\ cmd.csaat
    BY <1>14 DEF CommandFits, Opening
  <2>5. /\ v.t = s.t /\ v.r = s.r /\ v.op = s.op /\ v.tk = s.tk /\ v.K = s.K
    BY <1>10, <2>1, <2>4
  <2>6. v.t <= Len(tx)
    <3>1. q.out.t \in Nat
      BY <1>1, <1>5, <1>6 DEF WordsAgree
    <3> QED BY <1>5, <1>6, <2>5, <3>1
  <2>7. WordsAgree(x, v)'
    BY <1>6, <1>11, <2>3, <2>4, <2>5
  <2>8. BusAgrees(x, v)'
    BY <1>9, <2>3, <2>5 DEF BusAgrees
  <2>9. DmaAgrees(x)'
    BY <1>1, <1>2, <1>8, <2>3 DEF DmaAgrees
  <2>10. InAgrees(x)'
    BY <1>1, <1>8, <2>3 DEF InAgrees
  <2>11. AnswerKnown(x, v)'
    <3>1. x.bus.ask # "RSR1" /\ x.bus.ask # "RSR2"
      BY <2>3
    <3> QED BY <3>1, Zenon DEF AnswerKnown
  <2> QED BY <2>3, <2>5, <2>6, <2>7, <2>8, <2>9, <2>10, <2>11 DEF Agrees
<1> QED BY <1>2, <1>12, <1>13, <1>14

-----------------------------------------------------------------------------
(* spi_set_command.                                                        *)

\* spi_set_command.
LEMMA CommandStep ==
    ASSUME HostKnown, NEW q, NEW st, Tracked(q, st), UNCHANGED <<tx, rx, control, dma, flash, app>>,
           prog[1].do = "command", CommandFits(q, prog[1].cmd), q.kind = "init" => ~app.ready,
           IF Status.ready THEN WriteCommand(prog[1].cmd) ELSE UNCHANGED <<cmdq, cur>>,
           NEW x, x = After(q, prog[1])
    PROVE  HostKnown' /\ (\E u : Tracked(x, u)') /\ x.kind = q.kind
<1>1. PICK n, s, cmd : n = Len(Pend) /\ s = st[n] /\ cmd = prog[1].cmd
  OBVIOUS
<1>2. Chain(st) /\ Agrees(q, s) /\ BusAgrees(q, s) /\ InAgrees(q)
  BY <1>1 DEF Tracked, Agrees
<1>3. cmd.len \in Nat \ {0} /\ cmd.direction \in {"TX_ONLY", "RX_ONLY", "DUMMY"} /\ CommandFits(q, cmd) /\ q.rdy
  BY <1>1 DEF CommandFits
<1>4. Len(cmdq) < CmdDepth /\ WriteCommand(cmd)
  <2>1. Len(cmdq) < CmdDepth
    BY <1>2, <1>3 DEF InAgrees
  <2>2. Status.ready
    BY <2>1 DEF Status
  <2> QED BY <1>1, <2>1, <2>2
<1>5. n \in Nat /\ s.t \in Nat /\ s.r \in Nat /\ s.t <= Len(tx) /\ (app.ready => s.tk)
  <2>1. n \in Nat /\ \A i \in 0..n : st[i].t \in Nat /\ st[i].r \in Nat /\ st[i].t <= Len(tx) /\ (app.ready => st[i].tk)
    BY <1>1, <1>2, ChainIs
  <2>2. n \in 0..n
    BY <2>1
  <2> QED BY <1>1, <2>1, <2>2
<1>6. PICK o : o = tx[s.t + 1].op
  OBVIOUS
<1>7. PICK v : v = Effect(Begin(cmd), s, o)
  OBVIOUS
<1>8. x = AfterCommand(q, cmd)
  <2>1. After(q, prog[1]) = AfterCommand(q, prog[1].cmd)
    BY AfterIs
  <2> QED BY <1>1, <2>1
<1>9. UNCHANGED <<tx, rx, control, dma, flash, app>>
  OBVIOUS
<1>10. /\ x.kind = q.kind /\ v.t <= Len(tx) /\ Agrees(x, v)'
       /\ s.tk /\ (Opening(q) /\ Sends(cmd) => Taken(q.out.first, q.bus.K)) => v.tk
  BY <1>2, <1>3, <1>5, <1>6, <1>7, <1>8, <1>9, CommandAgrees
<1>11. app.ready => v.tk
  <2>1. app.ready /\ Opening(q) /\ Sends(cmd) => Taken(q.out.first, q.bus.K)
    BY <1>3 DEF CommandFits, Sends, Sending
  <2> QED BY <1>5, <1>10, <2>1
<1>12. PICK u : Chain(u)' /\ u[Len(Pend')] = v
  BY <1>1, <1>2, <1>3, <1>4, <1>6, <1>7, <1>9, <1>10, <1>11, CommandChain
<1>13. HostKnown'
  <2>1. PICK m : m = n + 1
    OBVIOUS
  <2> QED BY <1>1, <1>3, <1>4, <1>9, <2>1, CommandQueued
<1>14. Tracked(x, u)'
  <2>1. WordsAgree(x, v)' /\ BusAgrees(x, v)' /\ DmaAgrees(x)' /\ InAgrees(x)' /\ AnswerKnown(x, v)'
    BY <1>10 DEF Agrees
  <2> QED BY <1>12, <2>1 DEF Tracked, Agrees
<1> QED BY <1>10, <1>13, <1>14

-----------------------------------------------------------------------------
(* An answer tells something of the flash.                                 *)

\* The view when a status register is in the RX FIFO, field by field.
LEMMA PolledHas ==
    ASSUME NEW k, NEW K, NEW op, NEW q, q = Polled(k, K, op)
    PROVE  /\ q.kind = k /\ q.out = NoWords(0) /\ q.out.t = 0 /\ q.out.b = 0 /\ q.dma = "none"
           /\ q.in.e = 1 /\ q.in.wm = 1 /\ q.in.have = 1 /\ q.rdy
           /\ q.bus.op = "none" /\ q.bus.K = K /\ q.bus.tk /\ q.bus.ask = op /\ q.bus.last
<1> DEFINE r == TRUE
<1>1. r
  OBVIOUS
<1> DEFINE b == Bus("none", K, r, op, r)
<1>2. q = View(k, NoWords(0), b, In(1, 1, 1), "none", r)
  BY DEF Polled
<1> HIDE DEF r
<1>3. b.op = "none" /\ b.K = K /\ b.tk = r /\ b.ask = op /\ b.last = r
  BY BusIs
<1> HIDE DEF b
<1>4. q.kind = k /\ q.out = NoWords(0) /\ q.bus = b /\ q.in = In(1, 1, 1) /\ q.dma = "none" /\ q.rdy = r
  BY <1>2, ViewIs
<1>5. q.in.e = 1 /\ q.in.wm = 1 /\ q.in.have = 1
  BY <1>4, InIs
<1>6. q.out.t = 0 /\ q.out.b = 0
  BY <1>4, OutIs DEF NoWords
<1> QED BY <1>1, <1>3, <1>4, <1>5, <1>6

\* What is so when the answer to a question has come.
LEMMA AnswerHas ==
    ASSUME HostKnown, NEW q, NEW st, Tracked(q, st), NEW k, NEW K, NEW op, op \in {"RSR1", "RSR2"}, q = Polled(k, K, op),
           NEW n, n = Len(Pend), NEW s, s = st[n]
    PROVE  /\ Chain(st) /\ rx # <<>> /\ Len(rx) = 1 /\ s.r = 0 /\ s.t = 0 /\ s.ask = op /\ s.op = "none" /\ K \subseteq s.K /\ s.tk
           /\ Dtx = 0 /\ Drx = 0 /\ Len(tx) = 0 /\ control.rxwm \in Nat /\ 1 <= control.rxwm /\ Len(cmdq) < CmdDepth
           /\ op = "RSR1" /\ Head(rx)[1] % 2 # 1 => ~flash.busy
           /\ op = "RSR2" /\ Head(rx)[1] % 2 = 1 => flash.qe
<1>1. /\ q.kind = k /\ q.out.t = 0 /\ q.out.b = 0 /\ q.dma = "none"
      /\ q.in.e = 1 /\ q.in.wm = 1 /\ q.in.have = 1 /\ q.rdy
      /\ q.bus.op = "none" /\ q.bus.K = K /\ q.bus.tk /\ q.bus.ask = op /\ q.bus.last
  BY PolledHas
<1>2. Chain(st) /\ WordsAgree(q, s) /\ BusAgrees(q, s) /\ DmaAgrees(q) /\ InAgrees(q) /\ AnswerKnown(q, s)
  BY DEF Tracked, Agrees
<1>3. n \in Nat /\ s.t \in Nat /\ s.r \in Nat /\ Len(tx) \in Nat
  <2>1. n \in Nat /\ Len(tx) \in Nat /\ \A i \in 0..n : st[i].t \in Nat /\ st[i].r \in Nat
    BY <1>2, ChainIs
  <2>2. n \in 0..n
    BY <2>1
  <2> QED BY <2>1, <2>2
<1>4. Dtx = 0 /\ Drx = 0 /\ Len(rx) \in Nat
  BY <1>1, <1>2, DtxAgrees, SequenceIs DEF HostKnown, HostTyped
<1>5. 1 = Len(rx) + s.r - Drx /\ 1 <= Len(rx) /\ 0 = Len(tx) + Dtx - s.t /\ Len(tx) + Dtx <= 0
  BY <1>1, <1>2 DEF WordsAgree, InAgrees
<1>6. Len(rx) = 1 /\ s.r = 0 /\ Len(tx) = 0 /\ s.t = 0
  <2>1. Len(tx) <= 0
    BY <1>3, <1>4, <1>5
  <2>2. Len(tx) = 0
    BY <1>3, <2>1
  <2>3. 0 = 0 + 0 - s.t
    BY <1>4, <1>5, <2>2
  <2>4. s.t = 0
    BY <1>3, <2>3
  <2>5. 1 = Len(rx) + s.r - 0
    BY <1>4, <1>5
  <2>6. PICK a, b : a = Len(rx) /\ b = s.r
    OBVIOUS
  <2>7. a \in Nat /\ b \in Nat /\ 1 <= a /\ 1 = a + b - 0
    BY <1>3, <1>4, <1>5, <2>5, <2>6
  <2>8. a = 1 /\ b = 0
    BY <2>7
  <2> QED BY <2>2, <2>4, <2>6, <2>8
<1>7. rx # <<>>
  <2>1. Len(<<>>) = 0
    BY EmptyIs
  <2>2. Len(rx) # 0
    BY <1>6
  <2> QED BY <2>1, <2>2, Zenon
<1>8. s.ask = op /\ s.op = "none" /\ K \subseteq s.K /\ s.tk
  BY <1>1, <1>2 DEF BusAgrees
<1>9. control.rxwm \in Nat /\ 1 <= control.rxwm /\ Len(cmdq) < CmdDepth
  BY <1>1, <1>2 DEF InAgrees, HostKnown, HostTyped
<1>10. Head(rx) = rx[Len(rx)]
  <2>1. Head(rx) = rx[1]
    BY <1>7, TailIs DEF HostKnown, HostTyped
  <2> QED BY <1>6, <2>1
<1>11. /\ op = "RSR1" /\ Head(rx)[1] % 2 # 1 => ~flash.busy
       /\ op = "RSR2" /\ Head(rx)[1] % 2 = 1 => flash.qe
  <2>1. /\ op = "RSR1" /\ rx[Len(rx)][1] % 2 # 1 => ~flash.busy
        /\ op = "RSR2" /\ rx[Len(rx)][1] % 2 = 1 => flash.qe
    BY <1>1, <1>2, <1>6, <1>7, Zenon DEF AnswerKnown
  <2> QED BY <1>10, <2>1
<1> QED BY <1>2, <1>4, <1>6, <1>7, <1>8, <1>9, <1>11

\* A state of which the facts F are known as well.
Learnt(s, F) == [t |-> s.t, r |-> s.r, op |-> s.op, tk |-> s.tk, K |-> s.K \cup F, ask |-> s.ask]

\* A state of which more is known, field by field.
LEMMA LearntIs ==
    ASSUME NEW s, NEW F, NEW v, v = Learnt(s, F)
    PROVE  v.t = s.t /\ v.r = s.r /\ v.op = s.op /\ v.tk = s.tk /\ v.K = s.K \cup F /\ v.ask = s.ask
BY DEF Learnt

\* What the answer tells is known of the flash.
LEMMA LearntFits ==
    ASSUME NEW s, NEW F, Fits(s), flash'.sel = flash.sel, TrueFacts \subseteq TrueFacts', F \subseteq TrueFacts',
           s.op \in {"none", "RSR1", "RSR2"}, FlashTyped, NEW v, v = Learnt(s, F)
    PROVE  Fits(v)'
<1>1. /\ s.t = 0 /\ s.r = 0
      /\ s.op = (IF flash.sel = <<>> THEN "none" ELSE flash.sel[1].op)
      /\ s.tk /\ flash.sel # <<>> /\ (s.op \in {"RDQIO", "PPQ"} => app.ready) => flash.sel[1].taken
      /\ s.K \subseteq TrueFacts
  BY DEF Fits
<1>2. v.t = s.t /\ v.r = s.r /\ v.op = s.op /\ v.tk = s.tk /\ v.K = s.K \cup F
  BY LearntIs
<1>3. s.op \notin {"RDQIO", "PPQ"}
  OBVIOUS
<1>4. Fits(v)' = /\ v.t = 0 /\ v.r = 0
                 /\ v.op = (IF flash'.sel = <<>> THEN "none" ELSE flash'.sel[1].op)
                 /\ v.tk /\ flash'.sel # <<>> /\ (v.op \in {"RDQIO", "PPQ"} => app'.ready) => flash'.sel[1].taken
                 /\ v.K \subseteq TrueFacts'
  BY Zenon DEF Fits
<1>5. v.K \subseteq TrueFacts'
  BY <1>1, <1>2
<1> QED BY <1>1, <1>2, <1>3, <1>4, <1>5

-----------------------------------------------------------------------------
(* An answer and the chain.                                                *)

\* The facts F are so, and those that were so before still are.
Tells(F) == F \subseteq TrueFacts' /\ TrueFacts \subseteq TrueFacts'

\* The commands under way once the answer has been read.
LEMMA LearntChain ==
    ASSUME HostKnown, NEW q, NEW st, Tracked(q, st), NEW k, NEW K, NEW op, op \in {"RSR1", "RSR2"}, q = Polled(k, K, op),
           cur' = cur, cmdq' = cmdq, tx' = tx, flash' = flash, NEW F, Tells(F),
           NEW n, n = Len(Pend), NEW s, s = st[n], NEW e, e = Learnt(s, F)
    PROVE  \E u : Chain(u)' /\ u[Len(Pend')] = e
<1>1. n = Len(Pend) /\ s = st[n]
  OBVIOUS
<1>2. /\ Chain(st) /\ s.r = 0 /\ s.t = 0 /\ s.ask = op /\ s.op = "none" /\ K \subseteq s.K /\ s.tk /\ Len(tx) = 0
  BY <1>1, AnswerHas
<1>3. /\ n \in {0, 1}
      /\ n = 1 => /\ st[0].op = s.ask /\ st[0].tk = s.tk /\ st[0].r = 0 /\ st[0].t = 0
                  /\ Receives(Pend[1].cmd) /\ ~Sends(Pend[1].cmd)
                  /\ st[1] = Effect(Pend[1], st[0], tx[st[0].t + 1].op)
                  /\ Pend[1].left = 0 /\ Pend[1].left \in Nat
  <2>1. s.ask # "none" /\ s.r = 0 /\ Chain(st)
    BY <1>2
  <2>2. /\ n \in {0, 1}
        /\ n = 1 => /\ st[0].op = s.ask /\ st[0].tk = s.tk /\ st[0].r = 0 /\ st[0].t = 0
                    /\ Receives(Pend[1].cmd) /\ ~Sends(Pend[1].cmd)
                    /\ st[1] = Effect(Pend[1], st[0], tx[st[0].t + 1].op)
                    /\ Pend[1].left = 0 /\ Pend[1].left \in Nat
    BY <1>1, <2>1, LastEmpty
  <2> QED BY <2>2
<1>4. Fits(st[0]) /\ FlashTyped
  BY <1>2, ChainIs DEF HostKnown
<1>5. Pend' = Pend /\ tx' = tx /\ flash'.sel = flash.sel
  BY DEF Pend
<1>6. st[0].op \in {"none", "RSR1", "RSR2"} /\ st[0].t = 0 /\ st[0].r = 0 /\ st[0].tk
  <2>1. CASE n = 0
    BY <1>1, <1>2, <2>1
  <2>2. CASE n = 1
    BY <1>2, <1>3, <2>2
  <2> QED BY <1>3, <2>1, <2>2
<1>7. PICK w : w = Learnt(st[0], F)
  OBVIOUS
<1>8. w.t = 0 /\ w.r = 0 /\ w.op = st[0].op /\ w.tk = st[0].tk /\ w.K = st[0].K \cup F /\ w.ask = st[0].ask
  <2> DEFINE z == st[0]
  <2>1. w = Learnt(z, F)
    BY <1>7
  <2> HIDE DEF z
  <2>2. w.t = z.t /\ w.r = z.r /\ w.op = z.op /\ w.tk = z.tk /\ w.K = z.K \cup F /\ w.ask = z.ask
    BY <2>1, LearntIs
  <2> QED BY <1>6, <2>2 DEF z
<1>9. Fits(w)'
  <2> DEFINE z == st[0]
  <2>1. Fits(z) /\ z.op \in {"none", "RSR1", "RSR2"} /\ w = Learnt(z, F)
    BY <1>4, <1>6, <1>7
  <2> HIDE DEF z
  <2> QED BY <1>4, <1>5, <2>1, LearntFits DEF Tells
<1>10. CASE n = 0
  <2>1. PICK u : u = [i \in 0..0 |-> w]
    OBVIOUS
  <2>2. u[0] = w /\ Len(Pend') = 0
    BY <1>1, <1>5, <1>10, <2>1
  <2>3. Chain(u)' = /\ Fits(u[0])'
                    /\ \A i \in 1..Len(Pend') : u[i] = HostAfter(Pend[i], u[i - 1])'
                    /\ \A i \in 0..Len(Pend') : u[i].t \in Nat /\ u[i].r \in Nat /\ u[i].t <= Len(tx') /\ (app'.ready => u[i].tk)
                    /\ \A i, j \in 0..Len(Pend') : i <= j => u[i].t <= u[j].t /\ u[i].r <= u[j].r
    BY Zenon DEF Chain
  <2>4. Fits(u[0])'
    <3> DEFINE z == u[0]
    <3>1. z = w
      BY <2>2
    <3> HIDE DEF z
    <3>2. Fits(z)'
      BY <1>9, <3>1
    <3> QED BY <3>2 DEF z
  <2>5. \A i \in 0..0 : u[i].t \in Nat /\ u[i].r \in Nat /\ u[i].t <= Len(tx') /\ (app'.ready => u[i].tk)
    <3>1. u[0].t = 0 /\ u[0].r = 0 /\ u[0].tk /\ Len(tx') = 0
      BY <1>2, <1>5, <1>6, <1>8, <2>2
    <3> QED BY <3>1
  <2>6. \A i, j \in 0..0 : i <= j => u[i].t <= u[j].t /\ u[i].r <= u[j].r
    <3>1. u[0].t = 0 /\ u[0].r = 0
      BY <1>8, <2>2
    <3> QED BY <3>1
  <2>7. \A i \in 1..0 : FALSE
    OBVIOUS
  <2>8. Chain(u)'
    BY <2>2, <2>3, <2>4, <2>5, <2>6, <2>7
  <2>9. w = u[Len(Pend')] /\ w = e
    <3>1. s = st[0]
      BY <1>1, <1>10
    <3> QED BY <1>7, <2>2, <3>1
  <2> QED BY <2>8, <2>9
<1>11. CASE n = 1
  <2>1. PICK c, o, v : c = Pend[1] /\ o = tx[w.t + 1].op /\ v = Effect(c, w, o)
    OBVIOUS
  <2>2. /\ st[0].op = op /\ st[1] = s /\ Receives(c.cmd) /\ ~Sends(c.cmd) /\ c.left = 0
        /\ s = Effect(c, st[0], tx[st[0].t + 1].op)
    BY <1>1, <1>2, <1>3, <1>11, <2>1
  <2>3. ~Opens(c, w) /\ ~Opens(c, st[0])
    BY <2>2 DEF Opens
  <2>4. /\ v.t = w.t /\ v.r = w.r + c.left /\ v.op = (IF c.cmd.csaat THEN w.op ELSE "none") /\ v.tk = w.tk
        /\ v.K = (IF c.cmd.csaat THEN w.K ELSE Known(w.op, w.K, w.tk)) /\ v.ask = w.op
    BY <2>1, <2>2, <2>3, EffectIs
  <2>5. /\ s.op = (IF c.cmd.csaat THEN op ELSE "none")
        /\ s.K = (IF c.cmd.csaat THEN st[0].K ELSE Known(op, st[0].K, st[0].tk))
    BY <2>2, <2>3, EffectIs
  <2>6. ~c.cmd.csaat
    BY <1>2, <2>5
  <2>7. \A M, t : Known(op, M, t) = M
    BY DEF Known, Ends, Gives, Mutating
  <2>8. s.K = st[0].K /\ v.K = w.K
    BY <1>8, <2>2, <2>4, <2>5, <2>6, <2>7
  <2>9. v.t = 0 /\ v.r = 0 /\ v.op = "none" /\ v.tk /\ v.ask = op /\ K \cup F \subseteq v.K
    <3>1. v.t = 0 /\ v.r = 0
      BY <1>8, <2>2, <2>4
    <3>2. v.op = "none" /\ v.ask = op /\ v.tk
      BY <1>6, <1>8, <2>2, <2>4, <2>6
    <3>3. K \cup F \subseteq v.K
      BY <1>2, <1>8, <2>8
    <3> QED BY <3>1, <3>2, <3>3
  <2>10. PICK u : u = [i \in 0..1 |-> IF i = 0 THEN w ELSE v]
    OBVIOUS
  <2>11. u[0] = w /\ u[1] = v /\ Len(Pend') = 1 /\ Pend'[1] = c
    BY <1>1, <1>5, <1>11, <2>1, <2>10
  <2>12. Chain(u)' = /\ Fits(u[0])'
                     /\ \A i \in 1..Len(Pend') : u[i] = Effect(Pend'[i], u[i - 1], tx'[u[i - 1].t + 1].op)
                     /\ \A i \in 0..Len(Pend') : u[i].t \in Nat /\ u[i].r \in Nat /\ u[i].t <= Len(tx') /\ (app'.ready => u[i].tk)
                     /\ \A i, j \in 0..Len(Pend') : i <= j => u[i].t <= u[j].t /\ u[i].r <= u[j].r
    BY Zenon DEF Chain, HostAfter
  <2>13. Fits(u[0])'
    <3> DEFINE z == u[0]
    <3>1. z = w
      BY <2>11
    <3> HIDE DEF z
    <3>2. Fits(z)'
      BY <1>9, <3>1
    <3> QED BY <3>2 DEF z
  <2>14. \A i \in 0..1 : u[i].t = 0 /\ u[i].r = 0 /\ u[i].tk
    <3> TAKE i \in 0..1
    <3>1. i = 0 \/ i = 1
      OBVIOUS
    <3> QED BY <1>6, <1>8, <2>9, <2>11, <3>1
  <2>15. Len(tx') = 0
    BY <1>2, <1>5
  <2>16. \A i \in 0..1 : u[i].t \in Nat /\ u[i].r \in Nat /\ u[i].t <= Len(tx') /\ (app'.ready => u[i].tk)
    BY <2>14, <2>15
  <2>17. \A i, j \in 0..1 : i <= j => u[i].t <= u[j].t /\ u[i].r <= u[j].r
    BY <2>14
  <2>18. \A i \in 1..1 : u[i] = Effect(Pend'[i], u[i - 1], tx'[u[i - 1].t + 1].op)
    <3>1. u[1] = Effect(Pend'[1], u[0], tx'[u[0].t + 1].op)
      BY <1>5, <2>1, <2>11
    <3>2. ASSUME NEW i \in 1..1
          PROVE  i = 1 /\ i - 1 = 0
      OBVIOUS
    <3> QED BY <3>1, <3>2
  <2>19. Chain(u)'
    BY <2>11, <2>12, <2>13, <2>16, <2>17, <2>18
  <2>20. v = u[Len(Pend')]
    BY <2>11
  <2>21. v = e
    <3>1. v.t = s.t /\ v.r = s.r /\ v.op = s.op /\ v.K = s.K \cup F /\ v.ask = s.ask
      BY <1>2, <1>8, <2>8, <2>9
    <3>2. v.tk = s.tk
      BY <1>3, <1>8, <1>11, <2>4
    <3>3. v = [t |-> v.t, r |-> v.r, op |-> v.op, tk |-> v.tk, K |-> v.K, ask |-> v.ask]
      BY <2>1 DEF Effect
    <3> QED BY <3>1, <3>2, <3>3 DEF Learnt
  <2> QED BY <2>19, <2>20, <2>21
<1> QED BY <1>3, <1>10, <1>11

-----------------------------------------------------------------------------
(* An answer is used.                                                      *)

\* A status register is read: the driver learns the facts F.
LEMMA StatusTracks ==
    ASSUME HostKnown, NEW q, NEW st, Tracked(q, st), NEW k, NEW K, NEW op, op \in {"RSR1", "RSR2"}, q = Polled(k, K, op),
           UNCHANGED <<cur, cmdq, tx, control, dma, flash>>, rx' = Tail(rx),
           NEW F, Tells(F),
           NEW x, x.out.t = 0, x.out.b = 0, x.bus.op = "none", x.bus.K \subseteq K \cup F, x.bus.ask = op,
           x.in.e = 0, x.in.wm = 1, x.in.have = 0, x.dma = "none"
    PROVE  HostKnown' /\ \E u : Tracked(x, u)'
<1>1. PICK n, s : n = Len(Pend) /\ s = st[n]
  OBVIOUS
<1>2. /\ Chain(st) /\ rx # <<>> /\ Len(rx) = 1 /\ Dtx = 0 /\ Drx = 0 /\ Len(tx) = 0
      /\ control.rxwm \in Nat /\ 1 <= control.rxwm /\ Len(cmdq) < CmdDepth
  BY <1>1, AnswerHas
<1>3. IsSequence(rx') /\ Len(rx') = 0
  <2>1. IsSequence(rx') /\ Len(rx') = Len(rx) - 1
    BY <1>2, TailIs DEF HostKnown, HostTyped
  <2> QED BY <1>2, <2>1
<1>4. rx' = <<>>
  <2>1. PICK y : y = rx'
    OBVIOUS
  <2>2. IsSequence(y) /\ Len(y) = 0
    BY <1>3, <2>1
  <2>3. y = <<>>
    <3>1. y # <<>> => Len(y) >= 1
      BY <2>2, TailIs
    <3> QED BY <2>2, <3>1
  <2> QED BY <2>1, <2>3
<1>5. tx' = tx /\ control' = control /\ dma' = dma /\ cmdq' = cmdq /\ cur' = cur /\ flash' = flash
  OBVIOUS
<1>6. HostKnown'
  <2>1. FlashTyped'
    BY <1>5 DEF HostKnown, FlashTyped, IsRecordOfSel
  <2>2. /\ IsSequence(tx') /\ \A i \in 1..Len(tx') : tx'[i].op # "none"
    BY <1>5 DEF HostKnown, HostTyped
  <2>3. /\ control' = [txwm |-> control'.txwm, rxwm |-> control'.rxwm] /\ control'.rxwm \in Nat
        /\ dma' = [dir |-> dma'.dir, buf |-> dma'.buf, at |-> dma'.at, n |-> dma'.n] /\ dma'.n \in Nat
    BY <1>5 DEF HostKnown, HostTyped
  <2> QED BY <1>3, <1>5, <2>1, <2>2, <2>3, KnownKeeps
<1>16. PICK v : v = Learnt(s, F)
  OBVIOUS
<1>14. PICK u : Chain(u)' /\ u[Len(Pend')] = v
  <2>1. cur' = cur /\ cmdq' = cmdq /\ tx' = tx /\ flash' = flash
    BY <1>5
  <2> QED BY <1>1, <1>16, <2>1, LearntChain
<1>7. /\ v = u[Len(Pend')] /\ v.t = 0 /\ v.r = 0 /\ v.op = "none"
      /\ K \cup F \subseteq v.K /\ v.ask = op /\ v.tk
  <2>1. v.t = s.t /\ v.r = s.r /\ v.op = s.op /\ v.K = s.K \cup F /\ v.ask = s.ask /\ v.tk = s.tk
    BY <1>16, LearntIs
  <2>2. s.r = 0 /\ s.t = 0 /\ s.ask = op /\ s.op = "none" /\ K \subseteq s.K /\ s.tk
    BY <1>1, AnswerHas
  <2> QED BY <1>14, <2>1, <2>2
<1>8. Dtx' = 0 /\ Drx' = 0
  <2>1. Dtx' = Dtx /\ Drx' = Drx
    BY <1>5 DEF Dtx, Drx
  <2> QED BY <1>2, <2>1
<1>9. WordsAgree(x, v)'
  <2>1. Len(tx') = 0
    BY <1>2, <1>5
  <2> QED BY <1>3, <1>7, <1>8, <2>1 DEF WordsAgree
<1>10. BusAgrees(x, v)'
  <2>1. x.bus.K \subseteq v.K /\ v.ask # "none"
    BY <1>7
  <2> QED BY <1>7, <2>1 DEF BusAgrees
<1>11. DmaAgrees(x)'
  <2>1. DmaAgrees(q) /\ q.dma = "none"
    BY PolledHas DEF Tracked, Agrees
  <2> QED BY <1>5, <2>1 DEF DmaAgrees
<1>12. InAgrees(x)'
  BY <1>2, <1>3, <1>5 DEF InAgrees
<1>13. AnswerKnown(x, v)'
  BY <1>4, Zenon DEF AnswerKnown
<1>15. Tracked(x, u)'
  BY <1>7, <1>14, <1>9, <1>10, <1>11, <1>12, <1>13 DEF Tracked, Agrees
<1> QED BY <1>6, <1>15

\* The view after the answer is read, field by field.
LEMMA AnsweredIs ==
    ASSUME NEW k, NEW K, NEW op, NEW x, x = Answered(k, K, op)
    PROVE  /\ x.kind = k /\ x.out.t = 0 /\ x.out.b = 0 /\ x.bus.op = "none" /\ x.bus.K = K /\ x.bus.ask = op
           /\ x.in.e = 0 /\ x.in.wm = 1 /\ x.in.have = 0 /\ x.dma = "none"
<1> DEFINE r == TRUE
           b == Bus("none", K, r, op, r)
<1>2. x = View(k, NoWords(0), b, In(0, 1, 0), "none", r)
  BY DEF Answered, Free
<1> HIDE DEF r
<1>3. b.op = "none" /\ b.K = K /\ b.ask = op
  BY BusIs
<1> HIDE DEF b
<1>4. x.kind = k /\ x.out = NoWords(0) /\ x.bus = b /\ x.in = In(0, 1, 0) /\ x.dma = "none"
  BY <1>2, ViewIs
<1>5. x.in.e = 0 /\ x.in.wm = 1 /\ x.in.have = 0
  BY <1>4, InIs
<1>6. x.out.t = 0 /\ x.out.b = 0
  BY <1>4, OutIs DEF NoWords
<1> QED BY <1>3, <1>4, <1>5, <1>6

-----------------------------------------------------------------------------
(* The steps of the driver preserve the invariant: writes and waits.       *)

\* The records of the application stay as they are.
LEMMA AppSame ==
    ASSUME AppTyped, TodoKnown, call' = call, app' = app
    PROVE  AppTyped' /\ TodoKnown'
<1>1. AppTyped' =
        /\ app' = [ready |-> app'.ready, tests |-> app'.tests, todo |-> app'.todo, crashes |-> app'.crashes]
        /\ call' = [fn |-> call'.fn, variant |-> call'.variant, addr |-> call'.addr, len |-> call'.len,
                    code |-> call'.code, before |-> call'.before]
        /\ IsSequence(app'.todo)
  BY DEF AppTyped, IsSequence
<1>2. TodoKnown' = \A i \in 1..Len(app'.todo) : WellFormed(app'.todo[i])
  BY DEF TodoKnown, WellFormed, WholeRead, WholeWrite, UsesDma
<1> QED BY <1>1, <1>2 DEF AppTyped, TodoKnown

\* The rest of a call is a sequence of steps.
LEMMA ReachesSequence ==
    ASSUME NEW q, Reaches(q)
    PROVE  IsSequence(prog)
BY DEF Reaches, Leads

\* A step of the driver after which the call goes on with the next one.
LEMMA StepGoesOn ==
    ASSUME W25qInv, prog # <<>>, prog[1].do # "return", prog' = Tail(prog), call' = call, app' = app, flash' = flash,
           \A q, st, x : /\ HostKnown /\ Tracked(q, st) /\ CallAgrees(q) /\ Permitted(q, prog[1]) /\ x = After(q, prog[1])
                         => HostKnown' /\ (\E u : Tracked(x, u)') /\ x.kind = q.kind
    PROVE  W25qInv'
<1>1. HostKnown /\ AppTyped /\ TodoKnown /\ ~flash.lost /\ Driven
  BY DEF W25qInv
<1>2. PICK q, st : CallAgrees(q) /\ Tracked(q, st) /\ Reaches(q)
  BY <1>1 DEF Driven
<1>3. PICK x : x = After(q, prog[1])
  OBVIOUS
<1>4. AppTyped' /\ TodoKnown'
  BY <1>1, AppSame
<1>5. ~flash'.lost
  BY <1>1
<1>6. ASSUME Permitted(q, prog[1])
      PROVE  HostKnown' /\ CallAgrees(x)' /\ \E u : Tracked(x, u)'
  <2>1. HostKnown' /\ (\E u : Tracked(x, u)') /\ x.kind = q.kind
    BY <1>1, <1>2, <1>3, <1>6
  <2>2. CallAgrees(x)'
    BY <1>2, <2>1, ReachesSequence, CallContinues
  <2> QED BY <2>1, <2>2
<1> QED BY <1>2, <1>3, <1>4, <1>5, <1>6, DriverStep

\* What the step under way asks for.
LEMMA PermittedIs ==
    ASSUME NEW q, NEW s, Permitted(q, s)
    PROVE  /\ s.do = "word" => s.word.op # "none" /\ q.out.b < TxDepth /\ q.dma # "tx" /\ (Opening(q) => q.out.t <= 1)
           /\ s.do = "command" => CommandFits(q, s.cmd)
           /\ s.do = "watermark" => s.n \in Nat
           /\ s.do = "rxwm" => q.dma = "none"
           /\ s.do = "status" => \E k, K : "up" \in K /\ q = Polled(k, K, "RSR1")
           /\ s.do = "status2" => \E k, K : q = Polled(k, K, "RSR2")
           /\ s.do = "qe" => \E K : q = Polled("init", K, "RSR2")
           /\ s.do = "data" => ~Opening(q) /\ q.dma # "tx"
           /\ s.do = "read" => q.in.have > 0 /\ q.dma = "none"
           /\ s.do = "dma" => s.n \in Nat \ {0} /\ q.dma = "none" /\ s.dir \in {"rx", "tx"} /\ (s.dir = "tx" => ~Opening(q))
           /\ s.do = "fill" => /\ s.left \in Nat /\ s.start \in Nat /\ s.to_read = 4 * s.start
                               /\ \E b, K, ask, wm : q = View("plain", NoWords(b), Bus("none", K, TRUE, ask, TRUE), In(LenWords(s.left), wm, 0), "none", TRUE)
           /\ s.do = "pages" => /\ q = Rest("plain") /\ s.len \in Nat \ {0} /\ s.addr \in Nat
                                /\ UsesDma(s.variant) => s.len % 4 = 0
           /\ s.do = "sectors" => /\ q = Rest("plain") /\ s.len \in Nat /\ s.addr \in Nat /\ s.variant \in ReadWays
           /\ s.do = "return" => AtRest(q) /\ (q.dma = "rx" => s.code = "OK")
BY DEF Permitted

\* spi_write_word preserves the invariant.
LEMMA WordGoes ==
    ASSUME W25qInv, spi_write_word
    PROVE  W25qInv'
<1>1. /\ prog # <<>> /\ prog[1].do = "word" /\ prog' = Tail(prog) /\ call' = call /\ app' = app /\ flash' = flash
      /\ cmdq' = cmdq /\ cur' = cur /\ rx' = rx /\ control' = control /\ dma' = dma
      /\ IF Len(tx) < TxDepth THEN WriteTxData(prog[1].word) ELSE tx' = tx
  BY DEF spi_write_word, At, Running, Continue, CallKept
<1>2. ASSUME NEW q, NEW st, NEW x, HostKnown, Tracked(q, st), Permitted(q, prog[1]), x = After(q, prog[1])
      PROVE  HostKnown' /\ (\E u : Tracked(x, u)') /\ x.kind = q.kind
  <2>1. prog[1].word.op # "none" /\ q.out.b < TxDepth /\ q.dma # "tx" /\ (Opening(q) => q.out.t <= 1)
    BY <1>1, <1>2, PermittedIs
  <2> QED BY <1>1, <1>2, <2>1, WordStep
<1> QED BY <1>1, <1>2, StepGoesOn

\* spi_set_command preserves the invariant.
LEMMA CommandGoes ==
    ASSUME W25qInv, spi_set_command
    PROVE  W25qInv'
<1>1. /\ prog # <<>> /\ prog[1].do = "command" /\ prog' = Tail(prog) /\ call' = call /\ app' = app /\ flash' = flash
      /\ tx' = tx /\ rx' = rx /\ control' = control /\ dma' = dma
      /\ IF Status.ready THEN WriteCommand(prog[1].cmd) ELSE UNCHANGED <<cmdq, cur>>
  BY DEF spi_set_command, At, Running, Continue, CallKept
<1>2. ASSUME NEW q, NEW st, NEW x, HostKnown, Tracked(q, st), CallAgrees(q), Permitted(q, prog[1]), x = After(q, prog[1])
      PROVE  HostKnown' /\ (\E u : Tracked(x, u)') /\ x.kind = q.kind
  <2>1. CommandFits(q, prog[1].cmd)
    BY <1>1, <1>2, PermittedIs
  <2>2. q.kind = "init" => ~app.ready
    BY <1>2 DEF CallAgrees
  <2> QED BY <1>1, <1>2, <2>1, <2>2, CommandStep
<1> QED BY <1>1, <1>2, StepGoesOn

\* spi_set_rx_watermark preserves the invariant.
LEMMA WatermarkGoes ==
    ASSUME W25qInv, spi_set_rx_watermark
    PROVE  W25qInv'
<1>1. /\ prog # <<>> /\ prog[1].do = "watermark" /\ prog' = Tail(prog) /\ call' = call /\ app' = app /\ flash' = flash
      /\ cmdq' = cmdq /\ cur' = cur /\ tx' = tx /\ rx' = rx /\ dma' = dma
      /\ control' = [control EXCEPT !.rxwm = prog[1].n]
  BY DEF spi_set_rx_watermark, At, Running, Continue, CallKept
<1>2. ASSUME NEW q, NEW st, NEW x, HostKnown, Tracked(q, st), Permitted(q, prog[1]), x = After(q, prog[1])
      PROVE  HostKnown' /\ (\E u : Tracked(x, u)') /\ x.kind = q.kind
  <2>1. prog[1].n \in Nat
    BY <1>1, <1>2, PermittedIs
  <2> QED BY <1>1, <1>2, <2>1, WatermarkStep
<1> QED BY <1>1, <1>2, StepGoesOn

\* The end of a wait preserves the invariant.
LEMMA WaitedGoes ==
    ASSUME W25qInv, Waited
    PROVE  W25qInv'
<1>1. /\ prog # <<>> /\ prog' = Tail(prog) /\ call' = call /\ app' = app /\ flash' = flash
      /\ UNCHANGED <<hostVars, dma, flash, app>>
      /\ \/ prog[1].do = "ready" /\ Status.ready
         \/ prog[1].do = "rxwm" /\ Status.rxwm
         \/ prog[1].do = "dma_is_ready" /\ dma.n = 0
  BY DEF Waited, At, Running, Continue, CallKept
<1>2. ASSUME NEW q, NEW st, NEW x, HostKnown, Tracked(q, st), Permitted(q, prog[1]), x = After(q, prog[1])
      PROVE  HostKnown' /\ (\E u : Tracked(x, u)') /\ x.kind = q.kind
  <2>1. prog[1].do = "rxwm" => q.dma = "none"
    BY <1>2, PermittedIs
  <2>2. CASE prog[1].do = "ready" /\ Status.ready
    BY <1>1, <1>2, <2>2, ReadyStep
  <2>3. CASE prog[1].do = "rxwm" /\ Status.rxwm
    BY <1>1, <1>2, <2>1, <2>3, RxwmStep
  <2>4. CASE prog[1].do = "dma_is_ready" /\ dma.n = 0
    BY <1>1, <1>2, <2>4, DmaReadyStep
  <2> QED BY <1>1, <2>2, <2>3, <2>4
<1>3. prog[1].do # "return"
  BY <1>1
<1> QED BY <1>1, <1>2, <1>3, StepGoesOn

-----------------------------------------------------------------------------
(* The steps of the driver preserve the invariant: data.                   *)

\* A word of data preserves the invariant.
LEMMA DataGoes ==
    ASSUME W25qInv, WriteData
    PROVE  W25qInv'
<1>1. /\ prog # <<>> /\ prog[1].do = "data" /\ prog' = Tail(prog) /\ call' = call /\ app' = app /\ flash' = flash
      /\ cmdq' = cmdq /\ cur' = cur /\ rx' = rx /\ control' = control /\ dma' = dma /\ Len(tx) < TxDepth
  BY DEF WriteData, At, Running, Continue, CallKept
<1>2. PICK w : w.op = "DATA" /\ WriteTxData(w)
  <2>1. WriteTxData([Op("DATA", 0) EXCEPT !.bytes = Fetch(prog[1].buf, prog[1].at, prog[1].n)])
    BY DEF WriteData
  <2>2. [Op("DATA", 0) EXCEPT !.bytes = Fetch(prog[1].buf, prog[1].at, prog[1].n)].op = "DATA"
    BY DEF Op
  <2> QED BY <2>1, <2>2
<1>3. w.op # "none"
  BY <1>2
<1>4. ASSUME NEW q, NEW st, NEW x, HostKnown, Tracked(q, st), Permitted(q, prog[1]), x = After(q, prog[1])
      PROVE  HostKnown' /\ (\E u : Tracked(x, u)') /\ x.kind = q.kind
  <2>1. ~Opening(q) /\ q.dma # "tx"
    BY <1>1, <1>4, PermittedIs
  <2> QED BY <1>1, <1>2, <1>3, <1>4, <2>1, DataStep
<1> QED BY <1>1, <1>4, StepGoesOn

\* spi_read_word preserves the invariant.
LEMMA ReadGoes ==
    ASSUME W25qInv, spi_read_word
    PROVE  W25qInv'
<1>1. /\ prog # <<>> /\ prog[1].do = "read" /\ prog' = Tail(prog) /\ call' = call /\ app' = app /\ flash' = flash
      /\ cmdq' = cmdq /\ cur' = cur /\ tx' = tx /\ control' = control /\ dma' = dma
      /\ (rx # <<>> /\ ReadRxData) \/ (rx = <<>> /\ rx' = rx)
  <2>1. /\ prog # <<>> /\ prog[1].do = "read" /\ prog' = Tail(prog) /\ call' = call /\ app' = app /\ flash' = flash
        /\ cmdq' = cmdq /\ cur' = cur /\ tx' = tx /\ control' = control /\ dma' = dma
    BY DEF spi_read_word, At, Running, Continue, CallKept
  <2>2. (rx # <<>> /\ ReadRxData) \/ (rx = <<>> /\ rx' = rx)
    BY Zenon DEF spi_read_word
  <2> QED BY <2>1, <2>2
<1>2. ASSUME NEW q, NEW st, NEW x, HostKnown, Tracked(q, st), Permitted(q, prog[1]), x = After(q, prog[1])
      PROVE  HostKnown' /\ (\E u : Tracked(x, u)') /\ x.kind = q.kind
  <2>1. q.in.have > 0 /\ q.dma = "none"
    BY <1>1, <1>2, PermittedIs
  <2> QED BY <1>1, <1>2, <2>1, ReadStep
<1> QED BY <1>1, <1>2, StepGoesOn

\* The launch of a transfer preserves the invariant.
LEMMA LaunchGoes ==
    ASSUME W25qInv, dma_launch
    PROVE  W25qInv'
<1>1. /\ prog # <<>> /\ prog[1].do = "dma" /\ prog' = Tail(prog) /\ call' = call /\ app' = app /\ flash' = flash
      /\ UNCHANGED <<hostVars, flash, app>>
      /\ prog[1].n # 0 => dma' = [dir |-> prog[1].dir, buf |-> prog[1].buf, at |-> prog[1].at, n |-> prog[1].n]
  BY DEF dma_launch, At, Running, Continue, CallKept
<1>2. ASSUME NEW q, NEW st, NEW x, HostKnown, Tracked(q, st), Permitted(q, prog[1]), x = After(q, prog[1])
      PROVE  HostKnown' /\ (\E u : Tracked(x, u)') /\ x.kind = q.kind
  <2>1. /\ prog[1].n \in Nat \ {0} /\ q.dma = "none" /\ prog[1].dir \in {"rx", "tx"}
        /\ prog[1].dir = "tx" => ~Opening(q)
    BY <1>1, <1>2, PermittedIs
  <2>2. dma' = [dir |-> prog[1].dir, buf |-> prog[1].buf, at |-> prog[1].at, n |-> prog[1].n]
    BY <1>1, <2>1
  <2> QED BY <1>1, <1>2, <2>1, <2>2, LaunchStep
<1> QED BY <1>1, <1>2, StepGoesOn

\* memcpy preserves the invariant.
LEMMA CopyGoes ==
    ASSUME W25qInv, memcpy
    PROVE  W25qInv'
<1>1. /\ prog # <<>> /\ prog[1].do = "memcpy" /\ prog' = Tail(prog) /\ call' = call /\ app' = app /\ flash' = flash
      /\ UNCHANGED <<hostVars, dma, flash, app>>
  BY DEF memcpy, At, Running, Continue, CallKept
<1>2. ASSUME NEW q, NEW st, NEW x, HostKnown, Tracked(q, st), Permitted(q, prog[1]), x = After(q, prog[1])
      PROVE  HostKnown' /\ (\E u : Tracked(x, u)') /\ x.kind = q.kind
  BY <1>1, <1>2, CopyStep
<1> QED BY <1>1, <1>2, StepGoesOn

\* Nothing of the host changed.
LEMMA HostRests ==
    ASSUME HostKnown, NEW q, NEW st, Tracked(q, st), UNCHANGED <<hostVars, dma, flash>>, app'.ready => app.ready
    PROVE  HostKnown' /\ Tracked(q, st)'
<1>1. /\ cur' = cur /\ cmdq' = cmdq /\ tx' = tx /\ rx' = rx /\ flash' = flash /\ control' = control /\ dma' = dma
  BY DEF hostVars
<1>2. PICK n, s : n = Len(Pend) /\ s = st[n]
  OBVIOUS
<1> QED BY <1>1, <1>2, TracksSame

\* The call goes on with more steps in the place of one.
LEMMA StepUnrolls ==
    ASSUME W25qInv, prog # <<>>, NEW round, prog' = round \o Tail(prog), call' = call, app' = app,
           prog[1].do # "return", UNCHANGED <<hostVars, dma, flash>>,
           \A q : Permitted(q, prog[1]) /\ q.out.b \in Nat => q.kind = "plain" /\ \E y : y = After(q, prog[1]) /\ y = Forget(y) /\ Leads(q, round, y)
    PROVE  W25qInv'
<1>1. HostKnown /\ AppTyped /\ TodoKnown /\ ~flash.lost /\ Driven
  BY DEF W25qInv
<1>2. PICK q, st : CallAgrees(q) /\ Tracked(q, st) /\ Reaches(q)
  BY <1>1 DEF Driven
<1>3. PICK r : AtRest(r) /\ Leads(q, prog, r)
  BY <1>2 DEF Reaches
<1>4. PICK y : Follows(q, prog[1], y) /\ Leads(y, Tail(prog), r)
  BY <1>3, LeadsFirst
<1>5. Permitted(q, prog[1]) /\ (y = After(q, prog[1]) \/ y = Forget(After(q, prog[1])))
  BY <1>4 DEF Follows
<1>6. q.kind = "plain" /\ Leads(q, round, y)
  <2>1. q.out.b \in Nat
    BY <1>2 DEF Tracked, Agrees, WordsAgree
  <2> QED BY <1>5, <2>1
<1>7. Leads(q, round \o Tail(prog), r)
  BY <1>4, <1>6, LeadsJoin
<1>8. Reaches(q)'
  BY <1>3, <1>7 DEF Reaches
<1>9. HostKnown' /\ Tracked(q, st)'
  BY <1>1, <1>2, HostRests
<1>10. AppTyped' /\ TodoKnown' /\ ~flash'.lost
  BY <1>1, AppSame
<1>11. CallAgrees(q)'
  <2>1. Async(call) /\ call.len % 4 # 0 => prog[1] = Return("ERROR")
    BY <1>2 DEF CallAgrees
  <2>2. ~(Async(call) /\ call.len % 4 # 0)
    BY <2>1 DEF Return
  <2>3. ~(Async(call)' /\ call'.len % 4 # 0)
    BY <2>2 DEF Async
  <2> QED BY <1>6, <2>3 DEF CallAgrees
<1>12. Driven'
  BY <1>8, <1>9, <1>11 DEF Driven
<1> QED BY <1>9, <1>10, <1>12 DEF W25qInv

-----------------------------------------------------------------------------
(* The steps of the driver preserve the invariant: loops.                  *)

\* The view after a loop.
LEMMA UnrolledIs ==
    ASSUME NEW q, NEW s
    PROVE  /\ s.do = "fill" => After(q, s) = View(q.kind, NoWords(0), Bus("none", q.bus.K, TRUE, "none", TRUE),
                                                  In(Rest4(s.left), 0, Rest4(s.left)), "none", TRUE)
           /\ s.do \in {"pages", "sectors"} => After(q, s) = Rest("plain")
BY DEF After

\* At rest there is nothing to forget.
LEMMA RestForgets == Forget(Rest("plain")) = Rest("plain") /\ Rest("plain").kind = "plain"
<1>1. Rest("plain") = Free("plain", 0, Awake, TRUE, "none", TRUE, In(0, 0, 0), "none")
  BY DEF Rest, Free
<1>2. Forget(Free("plain", 0, Awake, TRUE, "none", TRUE, In(0, 0, 0), "none"))
        = Free("plain", 0, Awake, TRUE, "none", TRUE, In(0, 0, 0), "none")
  BY DEF Forget, Free, View, Bus, In
<1>3. Rest("plain").kind = "plain"
  BY DEF Rest, View
<1> QED BY <1>1, <1>2, <1>3

\* The view in which the loop over the RX FIFO begins.
LEMMA FillHas ==
    ASSUME NEW q, NEW s, s.do = "fill", Permitted(q, s)
    PROVE  \E b, K, ask, wm : /\ q = Free("plain", b, K, TRUE, ask, TRUE, In(LenWords(s.left), wm, 0), "none")
                              /\ q.kind = "plain" /\ q.out.b = b /\ q.bus.K = K
<1>1. PICK b, K, ask, wm : q = View("plain", NoWords(b), Bus("none", K, TRUE, ask, TRUE),
                                    In(LenWords(s.left), wm, 0), "none", TRUE)
  BY DEF Permitted
<1>2. q.kind = "plain" /\ q.out.b = b /\ q.bus.K = K
  BY <1>1 DEF View, Bus, NoWords, Out
<1>3. q = Free("plain", b, K, TRUE, ask, TRUE, In(LenWords(s.left), wm, 0), "none")
  BY <1>1 DEF Free
<1> QED BY <1>2, <1>3

\* After the loop over the RX FIFO there is nothing to forget.
LEMMA LeftForgets ==
    ASSUME NEW K, NEW left
    PROVE  Forget(Left(K, left)) = Left(K, left)
<1>1. PICK r : r = Rest4(left)
  OBVIOUS
<1>2. Forget(Free("plain", 0, K, TRUE, "none", TRUE, In(r, 0, r), "none"))
        = Free("plain", 0, K, TRUE, "none", TRUE, In(r, 0, r), "none")
  BY DEF Forget, Free, View, Bus, In
<1> QED BY <1>1, <1>2 DEF Left

\* A round of a loop preserves the invariant.
LEMMA UnrollGoes ==
    ASSUME W25qInv, Unroll
    PROVE  W25qInv'
<1>1. prog # <<>> /\ call' = call /\ app' = app /\ UNCHANGED <<hostVars, dma, flash>>
  BY DEF Unroll, At, Running, CallKept
<1>2. CASE prog[1].do = "fill" /\ prog' = FillRound(prog[1]) \o Tail(prog)
  <2> DEFINE f == prog[1]
  <2>1. ASSUME NEW q, Permitted(q, f), q.out.b \in Nat
        PROVE  q.kind = "plain" /\ \E y : y = After(q, f) /\ y = Forget(y) /\ Leads(q, FillRound(f), y)
    <3>1. f.left \in Nat /\ f.start \in Nat /\ f.to_read = 4 * f.start
      BY <1>2, <2>1, PermittedIs
    <3>2. PICK b, K, ask, wm : /\ q = Free("plain", b, K, TRUE, ask, TRUE, In(LenWords(f.left), wm, 0), "none")
                               /\ q.kind = "plain" /\ q.out.b = b /\ q.bus.K = K
      BY <1>2, <2>1, FillHas
    <3>5. b \in Nat
      BY <2>1, <3>2
    <3>6. PICK e : e = LenWords(f.left)
      OBVIOUS
    <3>7. Leads(Free("plain", b, K, TRUE, ask, TRUE, In(e, wm, 0), "none"), FillRound(f), Left(K, f.left))
      <4> HIDE DEF f
      <4> QED BY <3>1, <3>5, <3>6, LeadsFill
    <3>8. After(q, f) = Left(K, f.left)
      <4>1. After(q, f) = View(q.kind, NoWords(0), Bus("none", q.bus.K, TRUE, "none", TRUE),
                               In(Rest4(f.left), 0, Rest4(f.left)), "none", TRUE)
        BY <1>2, UnrolledIs
      <4> QED BY <3>2, <4>1 DEF Left, Free
    <3>9. Forget(Left(K, f.left)) = Left(K, f.left)
      BY LeftForgets
    <3> QED BY <3>2, <3>6, <3>7, <3>8, <3>9
  <2> HIDE DEF f
  <2>2. PICK round : round = FillRound(f)
    OBVIOUS
  <2>3. prog' = round \o Tail(prog) /\ prog[1].do # "return"
    BY <1>2, <2>2 DEF f
  <2>4. \A q : Permitted(q, prog[1]) /\ q.out.b \in Nat
                 => q.kind = "plain" /\ \E y : y = After(q, prog[1]) /\ y = Forget(y) /\ Leads(q, round, y)
    BY <2>1, <2>2 DEF f
  <2> QED BY <1>1, <2>3, <2>4, StepUnrolls
<1>3. CASE prog[1].do = "pages" /\ prog' = PagesRound(prog[1]) \o Tail(prog)
  <2>1. PICK f, round : f = prog[1] /\ round = PagesRound(f)
    OBVIOUS
  <2>2. ASSUME NEW q, Permitted(q, f), q.out.b \in Nat
        PROVE  q.kind = "plain" /\ \E y : y = After(q, f) /\ y = Forget(y) /\ Leads(q, round, y)
    <3>1. q = Rest("plain") /\ f.len \in Nat \ {0} /\ f.addr \in Nat /\ (UsesDma(f.variant) => f.len % 4 = 0)
      BY <1>3, <2>1, <2>2, PermittedIs
    <3>2. Leads(Rest("plain"), PagesRound(f), Rest("plain"))
      BY <3>1, LeadsPagesRound
    <3>3. After(q, f) = Rest("plain")
      BY <1>3, <2>1, UnrolledIs
    <3> QED BY <2>1, <3>1, <3>2, <3>3, RestForgets
  <2>3. prog' = round \o Tail(prog) /\ prog[1].do # "return"
    BY <1>3, <2>1
  <2>4. \A q : Permitted(q, prog[1]) /\ q.out.b \in Nat
                 => q.kind = "plain" /\ \E y : y = After(q, prog[1]) /\ y = Forget(y) /\ Leads(q, round, y)
    BY <2>1, <2>2
  <2> QED BY <1>1, <2>3, <2>4, StepUnrolls
<1>4. CASE prog[1].do = "sectors" /\ prog' = SectorsRound(prog[1]) \o Tail(prog)
  <2>1. PICK f, round : f = prog[1] /\ round = SectorsRound(f)
    OBVIOUS
  <2>2. ASSUME NEW q, Permitted(q, f), q.out.b \in Nat
        PROVE  q.kind = "plain" /\ \E y : y = After(q, f) /\ y = Forget(y) /\ Leads(q, round, y)
    <3>1. q = Rest("plain") /\ f.len \in Nat /\ f.addr \in Nat /\ f.variant \in ReadWays
      BY <1>4, <2>1, <2>2, PermittedIs
    <3>2. Leads(Rest("plain"), SectorsRound(f), Rest("plain"))
      BY <3>1, LeadsSectorsRound
    <3>3. After(q, f) = Rest("plain")
      BY <1>4, <2>1, UnrolledIs
    <3> QED BY <2>1, <3>1, <3>2, <3>3, RestForgets
  <2>3. prog' = round \o Tail(prog) /\ prog[1].do # "return"
    BY <1>4, <2>1
  <2>4. \A q : Permitted(q, prog[1]) /\ q.out.b \in Nat
                 => q.kind = "plain" /\ \E y : y = After(q, prog[1]) /\ y = Forget(y) /\ Leads(q, round, y)
    BY <2>1, <2>2
  <2> QED BY <1>1, <2>3, <2>4, StepUnrolls
<1> QED BY <1>2, <1>3, <1>4 DEF Unroll, At

-----------------------------------------------------------------------------
(* The steps of the driver preserve the invariant: what an answer tells.   *)

\* The facts, one by one, before and after a step.
LEMMA FactIs ==
    /\ \A f : f \in TrueFacts <=> /\ f \in Facts
                                  /\ (f = "up" => ~flash.down)
                                  /\ (f = "idle" => ~flash.busy)
                                  /\ (f = "wel" => flash.wel)
                                  /\ (f = "qe" => (app.ready => flash.qe))
    /\ \A f : f \in TrueFacts' <=> /\ f \in Facts
                                   /\ (f = "up" => ~flash'.down)
                                   /\ (f = "idle" => ~flash'.busy)
                                   /\ (f = "wel" => flash'.wel)
                                   /\ (f = "qe" => (app'.ready => flash'.qe))
<1>1. \A f : f \in TrueFacts <=> /\ f \in Facts
                                  /\ (f = "up" => ~flash.down)
                                  /\ (f = "idle" => ~flash.busy)
                                  /\ (f = "wel" => flash.wel)
                                  /\ (f = "qe" => (app.ready => flash.qe))
  BY DEF TrueFacts
<1>2. \A f : f \in TrueFacts' <=> /\ f \in Facts
                                   /\ (f = "up" => ~flash'.down)
                                   /\ (f = "idle" => ~flash'.busy)
                                   /\ (f = "wel" => flash'.wel)
                                   /\ (f = "qe" => (app'.ready => flash'.qe))
  BY DEF TrueFacts, Facts
<1> QED BY <1>1, <1>2

\* What the answer tells is so.
LEMMA AnswerTells ==
    ASSUME flash' = flash
    PROVE  /\ app' = app => Tells({}) /\ (~flash.busy => Tells({"idle"}))
           /\ (app'.ready => flash.qe) => Tells({"qe"})
<1>1. "idle" \in Facts /\ "qe" \in Facts
  BY DEF Facts
<1>2. app' = app => TrueFacts \subseteq TrueFacts' /\ (~flash.busy => "idle" \in TrueFacts')
  BY <1>1, FactIs
<1>3. (app'.ready => flash.qe) => TrueFacts \subseteq TrueFacts' /\ "qe" \in TrueFacts'
  BY <1>1, FactIs
<1>4. app' = app => {} \subseteq TrueFacts' /\ (~flash.busy => {"idle"} \subseteq TrueFacts')
  BY <1>2
<1>5. (app'.ready => flash.qe) => {"qe"} \subseteq TrueFacts'
  BY <1>3
<1> QED BY <1>2, <1>3, <1>4, <1>5 DEF Tells

\* The answer is taken out of the FIFO.
LEMMA AnswerTaken ==
    ASSUME HostKnown, NEW q, NEW st, Tracked(q, st), NEW k, NEW K, NEW op, op \in {"RSR1", "RSR2"}, q = Polled(k, K, op),
           ReadStatus
    PROVE  /\ rx # <<>> /\ rx' = Tail(rx) /\ UNCHANGED <<cur, cmdq, tx, control, dma, flash>>
           /\ op = "RSR1" /\ Head(rx)[1] % 2 # 1 => ~flash.busy
           /\ op = "RSR2" /\ Head(rx)[1] % 2 = 1 => flash.qe
<1>1. PICK n, s : n = Len(Pend) /\ s = st[n]
  OBVIOUS
<1>2. /\ rx # <<>>
      /\ op = "RSR1" /\ Head(rx)[1] % 2 # 1 => ~flash.busy
      /\ op = "RSR2" /\ Head(rx)[1] % 2 = 1 => flash.qe
  BY <1>1, AnswerHas
<1>3. rx' = Tail(rx)
  BY <1>2 DEF ReadStatus, ReadRxData
<1>4. UNCHANGED <<cur, cmdq, tx, control, dma, flash>>
  BY DEF ReadStatus
<1> QED BY <1>2, <1>3, <1>4

\* The tracking after an answer, whatever it tells.
LEMMA AnswerTracks ==
    ASSUME HostKnown, NEW q, NEW st, Tracked(q, st), NEW k, NEW K, NEW op, op \in {"RSR1", "RSR2"}, q = Polled(k, K, op),
           ReadStatus, NEW F, Tells(F), NEW j, NEW L, L \subseteq K \cup F, NEW x, x = Answered(j, L, op)
    PROVE  HostKnown' /\ (\E u : Tracked(x, u)') /\ x.kind = j
<1>1. /\ x.kind = j /\ x.out.t = 0 /\ x.out.b = 0 /\ x.bus.op = "none" /\ x.bus.K = L /\ x.bus.ask = op
      /\ x.in.e = 0 /\ x.in.wm = 1 /\ x.in.have = 0 /\ x.dma = "none"
  BY AnsweredIs
<1>2. rx' = Tail(rx) /\ UNCHANGED <<cur, cmdq, tx, control, dma, flash>>
  BY AnswerTaken
<1>3. x.bus.K \subseteq K \cup F
  BY <1>1
<1>4. HostKnown' /\ \E u : Tracked(x, u)'
  BY <1>1, <1>2, <1>3, StatusTracks
<1> QED BY <1>1, <1>4

-----------------------------------------------------------------------------
(* The steps of the driver preserve the invariant: status register 1.      *)

\* The view when status register 1 is used.
LEMMA StatusIs ==
    ASSUME NEW q, NEW s, s.do = "status", Permitted(q, s), NEW x, x = After(q, s)
    PROVE  \E k, K, L : "up" \in K /\ q = Polled(k, K, "RSR1") /\ L = K \cup {"idle"} /\ x = Answered(k, L, "RSR1")
<1>1. PICK k, K : "up" \in K /\ q = Polled(k, K, "RSR1")
  BY DEF Permitted
<1>2. q.kind = k /\ q.out = NoWords(0) /\ q.bus.K = K
  BY <1>1 DEF Polled, View, Bus
<1>3. x = Answered(k, K \cup {"idle"}, "RSR1")
  BY <1>2 DEF After, Answered, Free
<1> QED BY <1>1, <1>3

\* The view when status register 2 is used.
LEMMA Status2Is ==
    ASSUME NEW q, NEW s, s.do = "status2", Permitted(q, s), NEW x, x = After(q, s)
    PROVE  \E k, K : q = Polled(k, K, "RSR2") /\ x = Answered(k, K, "RSR2")
<1>1. PICK k, K : q = Polled(k, K, "RSR2")
  BY DEF Permitted
<1>2. q.kind = k /\ q.out = NoWords(0) /\ q.bus = Bus("none", K, TRUE, "RSR2", TRUE)
  BY <1>1 DEF Polled, View, Bus
<1>3. x = Answered(k, K, "RSR2")
  BY <1>2 DEF After, Answered, Free
<1> QED BY <1>1, <1>3

\* The view when bit QE is checked.
LEMMA QeIs ==
    ASSUME NEW q, NEW s, s.do = "qe", Permitted(q, s), NEW x, x = After(q, s)
    PROVE  \E K, L : q = Polled("init", K, "RSR2") /\ L = K \cup {"qe"} /\ x = Answered("plain", L, "RSR2")
<1>1. PICK K : q = Polled("init", K, "RSR2")
  BY DEF Permitted
<1>2. q.kind = "init" /\ q.out = NoWords(0) /\ q.bus.K = K
  BY <1>1 DEF Polled, View, Bus
<1>3. x = Answered("plain", K \cup {"qe"}, "RSR2")
  BY <1>2 DEF After, Answered, Free
<1> QED BY <1>1, <1>3

\* The flash is idle, and the driver knows.
LEMMA IdleGoes ==
    ASSUME W25qInv, ReadStatus, prog[1].do \in {"status", "status2"},
           ~(prog[1].do = "status" /\ Head(rx)[1] % 2 = 1)
    PROVE  W25qInv'
<1>1. /\ prog # <<>> /\ prog' = Tail(prog) /\ call' = call /\ app' = app /\ flash' = flash
      /\ prog[1].do # "return"
  BY DEF ReadStatus, At, Running
<1>2. ASSUME NEW q, NEW st, NEW x, HostKnown, Tracked(q, st), Permitted(q, prog[1]), x = After(q, prog[1])
      PROVE  HostKnown' /\ (\E u : Tracked(x, u)') /\ x.kind = q.kind
  <2>1. CASE prog[1].do = "status"
    <3>1. PICK k, K, L : q = Polled(k, K, "RSR1") /\ L = K \cup {"idle"} /\ x = Answered(k, L, "RSR1")
      BY <1>2, <2>1, StatusIs
    <3>2. ~flash.busy
      BY <1>2, <2>1, <3>1, AnswerTaken
    <3>3. Tells({"idle"})
      BY <1>1, <3>2, AnswerTells
    <3>4. PICK F : F = {"idle"}
      OBVIOUS
    <3>5. L \subseteq K \cup F /\ Tells(F)
      BY <3>1, <3>3, <3>4
    <3>6. HostKnown' /\ (\E u : Tracked(x, u)') /\ x.kind = k
      BY <1>2, <3>1, <3>5, AnswerTracks
    <3>7. q.kind = k
      BY <3>1, PolledHas
    <3> QED BY <3>6, <3>7
  <2>2. CASE prog[1].do = "status2"
    <3>1. PICK k, K : q = Polled(k, K, "RSR2") /\ x = Answered(k, K, "RSR2")
      BY <1>2, <2>2, Status2Is
    <3>2. Tells({})
      BY <1>1, AnswerTells
    <3>3. PICK F : F = {}
      OBVIOUS
    <3>4. K \subseteq K \cup F /\ Tells(F)
      BY <3>2, <3>3
    <3>5. HostKnown' /\ (\E u : Tracked(x, u)') /\ x.kind = k
      BY <1>2, <3>1, <3>4, AnswerTracks
    <3>6. q.kind = k
      BY <3>1, PolledHas
    <3> QED BY <3>5, <3>6
  <2> QED BY <2>1, <2>2
<1> QED BY <1>1, <1>2, StepGoesOn

\* The flash is busy, and is asked again.
LEMMA PollAgain ==
    ASSUME NEW k, NEW K, "up" \in K, NEW L, L = K \cup {"idle"}
    PROVE  Leads(Answered(k, K, "RSR1"), Poll, Answered(k, L, "RSR1"))
<1>1. 0 \in Nat /\ 0 < TxDepth
  BY RoomIs
<1>2. Leads(Free(k, 0, K, TRUE, "RSR1", TRUE, In(0, 1, 0), "none"), Poll, Answered(k, K \cup {"idle"}, "RSR1"))
  BY <1>1, LeadsPoll
<1> QED BY <1>2 DEF Answered

\* Poll, again.
LEMMA PollIs == IsSequence(Poll) /\ Poll # <<>>
<1>1. Poll = <<Word(Op("RSR1", 0))>> \o Command(1, TRUE, "TX_ONLY") \o Command(1, FALSE, "RX_ONLY")
               \o <<Step("rxwm"), Step("status")>>
  BY DEF Poll
<1> DEFINE S == {Word(Op("RSR1", 0)), Step("ready"), Step("rxwm"), Step("status"),
                 Command(1, TRUE, "TX_ONLY")[1], Command(1, FALSE, "RX_ONLY")[1]}
<1>2. /\ <<Word(Op("RSR1", 0))>> \in Seq(S) /\ Command(1, TRUE, "TX_ONLY") \in Seq(S)
      /\ Command(1, FALSE, "RX_ONLY") \in Seq(S) /\ <<Step("rxwm"), Step("status")>> \in Seq(S)
  BY DEF Command
<1> HIDE DEF S
<1>3. Poll \in Seq(S) /\ Len(Poll) >= 1
  <2>1. PICK a, b, c, d : /\ a = <<Word(Op("RSR1", 0))>> /\ b = Command(1, TRUE, "TX_ONLY")
                          /\ c = Command(1, FALSE, "RX_ONLY") /\ d = <<Step("rxwm"), Step("status")>>
    OBVIOUS
  <2>2. a \in Seq(S) /\ b \in Seq(S) /\ c \in Seq(S) /\ d \in Seq(S) /\ Len(a) = 1
    BY <1>2, <2>1
  <2>3. Poll = a \o b \o c \o d
    BY <1>1, <2>1
  <2> QED BY <2>2, <2>3
<1>4. Poll # <<>>
  BY <1>3, EmptyIs
<1> QED BY <1>3, <1>4 DEF IsSequence

\* A read that finds the flash busy preserves the invariant.
LEMMA BusyGoes ==
    ASSUME W25qInv, ReadStatus, prog[1].do = "status", Head(rx)[1] % 2 = 1
    PROVE  W25qInv'
<1>1. /\ prog # <<>> /\ prog' = Poll \o Tail(prog) /\ call' = call /\ app' = app /\ flash' = flash
  BY DEF ReadStatus, At, Running
<1>2. HostKnown /\ AppTyped /\ TodoKnown /\ ~flash.lost /\ Driven
  BY DEF W25qInv
<1>3. PICK q, st : CallAgrees(q) /\ Tracked(q, st) /\ Reaches(q)
  BY <1>2 DEF Driven
<1>4. PICK r : AtRest(r) /\ Leads(q, prog, r)
  BY <1>3 DEF Reaches
<1>5. PICK y : Follows(q, prog[1], y) /\ Leads(y, Tail(prog), r)
  BY <1>1, <1>4, LeadsFirst
<1>6. Permitted(q, prog[1]) /\ (y = After(q, prog[1]) \/ y = Forget(After(q, prog[1])))
  BY <1>5 DEF Follows
<1>17. PICK z : z = After(q, prog[1])
  OBVIOUS
<1>7. PICK k, K, L : "up" \in K /\ q = Polled(k, K, "RSR1") /\ L = K \cup {"idle"} /\ z = Answered(k, L, "RSR1")
  BY <1>6, <1>17, StatusIs
<1>8. PICK x : x = Answered(k, K, "RSR1")
  OBVIOUS
<1>9. Leads(x, Poll, z) /\ Leads(x, Poll, Forget(z))
  BY <1>7, <1>8, PollAgain, PollIs, LeadsForget
<1>11. Leads(x, Poll \o Tail(prog), r)
  BY <1>5, <1>6, <1>9, <1>17, LeadsJoin
<1>12. Reaches(x)'
  BY <1>1, <1>4, <1>11 DEF Reaches
<1>13. HostKnown' /\ (\E u : Tracked(x, u)') /\ x.kind = q.kind
  <2>1. Tells({})
    BY <1>1, AnswerTells
  <2>2. PICK F : F = {}
    OBVIOUS
  <2>3. K \subseteq K \cup F
    OBVIOUS
  <2>4. HostKnown' /\ (\E u : Tracked(x, u)') /\ x.kind = k
    BY <1>2, <1>3, <1>7, <1>8, <2>1, <2>2, <2>3, AnswerTracks
  <2>5. q.kind = k
    BY <1>7, PolledHas
  <2> QED BY <2>4, <2>5
<1>14. CallAgrees(x)'
  <2>1. IsSequence(prog) /\ IsSequence(Tail(prog)) /\ Len(prog) \in Nat /\ Len(prog) >= 1 /\ Len(Tail(prog)) = Len(prog) - 1
        /\ \A i \in 1..Len(prog) - 1 : Tail(prog)[i] = prog[i + 1]
    BY <1>1, <1>3, ReachesSequence, TailIs
  <2>2. /\ Len(Poll) \in Nat /\ Len(prog') = Len(Poll) + (Len(prog) - 1) /\ IsSequence(prog')
        /\ \A i \in 1..Len(Poll) + (Len(prog) - 1) : prog'[i] = IF i <= Len(Poll) THEN Poll[i] ELSE Tail(prog)[i - Len(Poll)]
    BY <1>1, <2>1, PollIs, SequenceIs
  <2>3. x.kind \in {"async", "off"} => prog'[Len(prog')].do = "return"
    <3> SUFFICES ASSUME x.kind \in {"async", "off"}
                 PROVE  prog'[Len(prog')].do = "return"
      OBVIOUS
    <3>1. prog[Len(prog)].do = "return"
      BY <1>1, <1>3, <1>13 DEF CallAgrees
    <3>2. Len(prog) >= 2
      <4>1. Len(prog) # 1
        BY <3>1
      <4>2. \A m \in Nat : m >= 1 /\ m # 1 => m >= 2
        OBVIOUS
      <4>3. Len(prog) \in Nat /\ Len(prog) >= 1
        BY <2>1
      <4> QED BY <4>1, <4>2, <4>3
    <3>3. Len(prog) - 1 \in 1..Len(prog) - 1 /\ (Len(prog) - 1) + 1 = Len(prog)
      BY <2>1, <3>2
    <3>4. Tail(prog)[Len(prog) - 1] = prog[Len(prog)]
      BY <2>1, <3>3
    <3>5. prog'[Len(prog')] = Tail(prog)[Len(prog) - 1]
      <4>1. PICK i : i = Len(Poll) + (Len(prog) - 1)
        OBVIOUS
      <4>2. i \in 1..Len(Poll) + (Len(prog) - 1) /\ i - Len(Poll) = Len(prog) - 1 /\ ~(i <= Len(Poll)) /\ i = Len(prog')
        BY <2>1, <2>2, <3>2, <4>1
      <4> QED BY <2>2, <4>2
    <3> QED BY <3>1, <3>4, <3>5
  <2>4. prog' # <<>>
    <3>1. Len(Poll) >= 1
      BY <2>2, PollIs, TailIs
    <3> QED BY <2>1, <2>2, <3>1, EmptyIs
  <2>5. ~(Async(call)' /\ call'.len % 4 # 0)
    <3>1. Async(call) /\ call.len % 4 # 0 => prog[1] = Return("ERROR")
      BY <1>1, <1>3 DEF CallAgrees
    <3>2. ~(Async(call) /\ call.len % 4 # 0)
      BY <3>1 DEF Return
    <3> QED BY <1>1, <3>2 DEF Async
  <2>6. /\ x.kind = "init" => ~app'.ready /\ call'.fn = "init"
        /\ x.kind = "async" => app'.ready /\ Async(call)'
        /\ x.kind = "off" => call'.fn = "power_down"
    <3>1. /\ x.kind = "init" => ~app.ready /\ call.fn = "init"
          /\ x.kind = "async" => app.ready /\ Async(call)
          /\ x.kind = "off" => call.fn = "power_down"
      BY <1>1, <1>3, <1>13 DEF CallAgrees
    <3> QED BY <1>1, <3>1 DEF Async
  <2> QED BY <2>3, <2>4, <2>5, <2>6 DEF CallAgrees
<1>15. AppTyped' /\ TodoKnown' /\ ~flash'.lost
  BY <1>1, <1>2, AppSame
<1>16. Driven'
  <2>1. PICK u : Tracked(x, u)'
    BY <1>13
  <2>2. CallAgrees(x)' /\ Tracked(x, u)' /\ Reaches(x)'
    BY <1>12, <1>14, <2>1
  <2> QED BY <2>2 DEF Driven
<1> QED BY <1>13, <1>15, <1>16 DEF W25qInv

-----------------------------------------------------------------------------
(* The steps of the driver preserve the invariant: the end of a call.      *)

\* The records of the application after a call has a new code.
LEMMA CodeIs ==
    ASSUME AppTyped, TodoKnown, NEW code, call' = [call EXCEPT !.code = code],
           NEW rdy, app' = app \/ app' = [app EXCEPT !.ready = rdy]
    PROVE  /\ AppTyped' /\ TodoKnown' /\ app'.todo = app.todo /\ call'.code = code
           /\ call'.fn = call.fn /\ call'.variant = call.variant /\ call'.len = call.len
           /\ app' = [app EXCEPT !.ready = rdy] => app'.ready = rdy
<1>1. /\ app = [ready |-> app.ready, tests |-> app.tests, todo |-> app.todo, crashes |-> app.crashes]
      /\ call = [fn |-> call.fn, variant |-> call.variant, addr |-> call.addr, len |-> call.len,
                 code |-> call.code, before |-> call.before]
      /\ IsSequence(app.todo)
  BY DEF AppTyped
<1>2. call' = [fn |-> call.fn, variant |-> call.variant, addr |-> call.addr, len |-> call.len,
               code |-> code, before |-> call.before]
  BY <1>1
<1>3. /\ call' = [fn |-> call'.fn, variant |-> call'.variant, addr |-> call'.addr, len |-> call'.len,
                  code |-> call'.code, before |-> call'.before]
      /\ call'.code = code /\ call'.fn = call.fn /\ call'.variant = call.variant /\ call'.len = call.len
  BY <1>2
<1>4. CASE app' = app
  <2>1. app' = [ready |-> app'.ready, tests |-> app'.tests, todo |-> app'.todo, crashes |-> app'.crashes]
        /\ app'.todo = app.todo
    BY <1>1, <1>4
  <2>2. app' = [app EXCEPT !.ready = rdy] => app'.ready = rdy
    BY <1>1
  <2>3. AppTyped' /\ TodoKnown'
    <3>1. AppTyped' =
            /\ app' = [ready |-> app'.ready, tests |-> app'.tests, todo |-> app'.todo, crashes |-> app'.crashes]
            /\ call' = [fn |-> call'.fn, variant |-> call'.variant, addr |-> call'.addr, len |-> call'.len,
                        code |-> call'.code, before |-> call'.before]
            /\ IsSequence(app'.todo)
      BY DEF AppTyped, IsSequence
    <3>2. TodoKnown' = \A i \in 1..Len(app'.todo) : WellFormed(app'.todo[i])
      BY DEF TodoKnown, WellFormed, WholeRead, WholeWrite, UsesDma
    <3> QED BY <1>1, <1>3, <2>1, <3>1, <3>2 DEF TodoKnown
  <2> QED BY <1>3, <2>1, <2>2, <2>3
<1>5. CASE app' = [app EXCEPT !.ready = rdy]
  <2>1. app' = [ready |-> rdy, tests |-> app.tests, todo |-> app.todo, crashes |-> app.crashes]
    BY <1>1, <1>5
  <2>2. app' = [ready |-> app'.ready, tests |-> app'.tests, todo |-> app'.todo, crashes |-> app'.crashes]
        /\ app'.todo = app.todo /\ app'.ready = rdy
    BY <2>1
  <2>3. AppTyped' /\ TodoKnown'
    <3>1. AppTyped' =
            /\ app' = [ready |-> app'.ready, tests |-> app'.tests, todo |-> app'.todo, crashes |-> app'.crashes]
            /\ call' = [fn |-> call'.fn, variant |-> call'.variant, addr |-> call'.addr, len |-> call'.len,
                        code |-> call'.code, before |-> call'.before]
            /\ IsSequence(app'.todo)
      BY DEF AppTyped, IsSequence
    <3>2. TodoKnown' = \A i \in 1..Len(app'.todo) : WellFormed(app'.todo[i])
      BY DEF TodoKnown, WellFormed, WholeRead, WholeWrite, UsesDma
    <3> QED BY <1>1, <1>3, <2>2, <3>1, <3>2 DEF TodoKnown
  <2> QED BY <1>3, <2>2, <2>3
<1> QED BY <1>4, <1>5

\* The driver has seen whether bit QE is set.
LEMMA QeGoes ==
    ASSUME W25qInv, ReadStatus, prog[1].do = "qe"
    PROVE  W25qInv'
<1>1. PICK rdy, code : rdy = (Head(rx)[1] % 2 = 1) /\ code = IF Head(rx)[1] % 2 = 1 THEN "OK" ELSE "ERROR"
  OBVIOUS
<1>2. /\ prog # <<>> /\ prog' = Tail(prog) /\ flash' = flash
      /\ call' = [call EXCEPT !.code = code] /\ app' = [app EXCEPT !.ready = rdy]
  BY <1>1 DEF ReadStatus, At, Running
<1>3. HostKnown /\ AppTyped /\ TodoKnown /\ ~flash.lost /\ Driven
  BY DEF W25qInv
<1>4. PICK q, st : CallAgrees(q) /\ Tracked(q, st) /\ Reaches(q)
  BY <1>3 DEF Driven
<1>5. PICK x : x = After(q, prog[1])
  OBVIOUS
<1>6. AppTyped' /\ TodoKnown' /\ app'.ready = rdy /\ call'.fn = call.fn
  BY <1>2, <1>3, CodeIs
<1>7. ASSUME Permitted(q, prog[1])
      PROVE  HostKnown' /\ CallAgrees(x)' /\ \E u : Tracked(x, u)'
  <2>1. PICK K, L : q = Polled("init", K, "RSR2") /\ L = K \cup {"qe"} /\ x = Answered("plain", L, "RSR2")
    BY <1>5, <1>7, QeIs
  <2>2. app'.ready => flash.qe
    <3>1. Head(rx)[1] % 2 = 1 => flash.qe
      BY <1>3, <1>4, <2>1, AnswerTaken
    <3> QED BY <1>1, <1>6, <3>1
  <2>3. PICK F : F = {"qe"}
    OBVIOUS
  <2>4. Tells(F) /\ L \subseteq K \cup F
    BY <1>2, <2>1, <2>2, <2>3, AnswerTells
  <2>5. HostKnown' /\ (\E u : Tracked(x, u)') /\ x.kind = "plain"
    BY <1>3, <1>4, <2>1, <2>4, AnswerTracks
  <2>6. q.kind = "init"
    BY <2>1, PolledHas
  <2>7. call'.fn = "init"
    BY <1>4, <1>6, <2>6 DEF CallAgrees
  <2>8. CallAgrees(x)'
    BY <2>5, <2>7 DEF CallAgrees, Async
  <2> QED BY <2>5, <2>8
<1> QED BY <1>2, <1>3, <1>4, <1>5, <1>6, <1>7, DriverStep

\* A view at rest is not that of an initialisation.
LEMMA RestKinds ==
    ASSUME NEW q, AtRest(q)
    PROVE  q.kind \in {"plain", "async", "off"}
<1>1. \A k : Rest(k).kind = k
  BY DEF Rest, View
<1>2. \A b : Reading(b).kind = "async"
  BY DEF Reading, View
<1>3. Down.kind = "off" /\ Cold.kind = "off"
  BY DEF Down, Cold, View
<1> QED BY <1>1, <1>2, <1>3 DEF AtRest

\* The call returns.
LEMMA ReturnGoes ==
    ASSUME W25qInv, ReturnCode
    PROVE  W25qInv'
<1>1. PICK rdy, code : rdy = FALSE /\ code = prog[1].code
  OBVIOUS
<1>2. /\ prog # <<>> /\ prog[1].do = "return" /\ prog' = <<>> /\ UNCHANGED <<hostVars, dma, flash>>
      /\ call' = [call EXCEPT !.code = code]
      /\ app' = IF call.fn = "power_down" THEN [app EXCEPT !.ready = rdy] ELSE app
  BY <1>1 DEF ReturnCode, At, Running
<1>3. HostKnown /\ AppTyped /\ TodoKnown /\ ~flash.lost /\ Driven
  BY DEF W25qInv
<1>4. PICK q, st : CallAgrees(q) /\ Tracked(q, st) /\ Reaches(q)
  BY <1>3 DEF Driven
<1>5. PICK r, y : Follows(q, prog[1], y) /\ AtRest(r)
  BY <1>2, <1>4, LeadsFirst DEF Reaches
<1>6. AtRest(q) /\ (q.dma = "rx" => code = "OK")
  BY <1>1, <1>2, <1>5, PermittedIs DEF Follows
<1>7. /\ AppTyped' /\ TodoKnown' /\ call'.code = code
      /\ call'.fn = call.fn /\ call'.variant = call.variant /\ call'.len = call.len
      /\ call.fn = "power_down" => ~app'.ready
      /\ call.fn # "power_down" => app' = app
  <2>1. app' = app \/ app' = [app EXCEPT !.ready = rdy]
    BY <1>2
  <2>2. /\ AppTyped' /\ TodoKnown' /\ call'.code = code
        /\ call'.fn = call.fn /\ call'.variant = call.variant /\ call'.len = call.len
        /\ app' = [app EXCEPT !.ready = rdy] => app'.ready = rdy
    BY <1>2, <1>3, <2>1, CodeIs
  <2> QED BY <1>1, <1>2, <2>2
<1>8. HostKnown' /\ Tracked(q, st)'
  <2>1. app'.ready => app.ready
    BY <1>7
  <2> QED BY <1>2, <1>3, <1>4, <2>1, HostRests
<1>9. CallAgrees(q)'
  <2>1. q.kind \in {"plain", "async", "off"}
    BY <1>6, RestKinds
  <2>2. Async(call)' <=> Async(call)
    BY <1>7 DEF Async
  <2>3. q.kind = "async" => app'.ready /\ Async(call)'
    <3>1. q.kind = "async" => app.ready /\ Async(call)
      BY <1>4 DEF CallAgrees
    <3>2. Async(call) => call.fn # "power_down"
      BY DEF Async
    <3> QED BY <1>7, <2>2, <3>1, <3>2
  <2>4. q.kind = "off" => ~app'.ready
    <3>1. q.kind = "off" => call.fn = "power_down"
      BY <1>2, <1>4 DEF CallAgrees
    <3> QED BY <1>7, <3>1
  <2>5. Async(call)' /\ call'.len % 4 # 0 => call'.code # "OK"
    <3>1. Async(call) /\ call.len % 4 # 0 => prog[1] = Return("ERROR")
      BY <1>2, <1>4 DEF CallAgrees
    <3>2. Return("ERROR").code = "ERROR"
      BY DEF Return
    <3> QED BY <1>1, <1>7, <2>2, <3>1, <3>2
  <2>6. q.kind = "async" /\ q.dma = "rx" => call'.code = "OK"
    BY <1>6, <1>7
  <2> QED BY <1>2, <2>1, <2>3, <2>4, <2>5, <2>6 DEF CallAgrees
<1>10. Reaches(q)'
  <2>1. Leads(q, <<>>, q)
    BY LeadsNowhere
  <2> QED BY <1>2, <1>6, <2>1 DEF Reaches
<1>11. Driven'
  BY <1>8, <1>9, <1>10 DEF Driven
<1>12. ~flash'.lost
  BY <1>2, <1>3
<1> QED BY <1>7, <1>8, <1>11, <1>12 DEF W25qInv

\* Every step of the driver.
LEMMA DriverGoes ==
    ASSUME W25qInv, Driver
    PROVE  W25qInv'
<1>1. ReadStatus => W25qInv'
  <2> SUFFICES ASSUME ReadStatus PROVE W25qInv'
    OBVIOUS
  <2>1. prog[1].do \in {"status", "status2", "qe"}
    BY DEF ReadStatus, At
  <2>2. CASE prog[1].do = "status" /\ Head(rx)[1] % 2 = 1
    BY <2>2, BusyGoes
  <2>3. CASE prog[1].do = "qe"
    BY <2>3, QeGoes
  <2>4. CASE prog[1].do \in {"status", "status2"} /\ ~(prog[1].do = "status" /\ Head(rx)[1] % 2 = 1)
    BY <2>4, IdleGoes
  <2> QED BY <2>1, <2>2, <2>3, <2>4
<1> QED BY <1>1, WordGoes, CommandGoes, WatermarkGoes, WaitedGoes, DataGoes, ReadGoes, LaunchGoes, CopyGoes, UnrollGoes,
           ReturnGoes DEF Driver

-----------------------------------------------------------------------------
(* The call that begins.                                                   *)

\* The calls the application may make next.
LEMMA NextCallsAre ==
    ASSUME AppTyped, TodoKnown, NEW calls \in NextCalls
    PROVE  /\ IsSequence(calls) /\ calls # <<>> /\ Len(calls) \in Nat
           /\ \A i \in 2..Len(calls) : WellFormed(calls[i])
           /\ \/ ~app.ready /\ calls[1].fn = "init"
              \/ app.ready /\ Async(call) /\ call.code = "OK" /\ calls[1].fn = "wait" /\ calls[1].len = call.len
              \/ app.ready /\ ~(Async(call) /\ call.code = "OK") /\ WellFormed(calls[1])
<1>1. CASE ~app.ready
  <2>1. PICK c : c = Call("init", "auto", 0, 0)
    OBVIOUS
  <2>2. calls = <<c>> /\ c.fn = "init"
    BY <1>1, <2>1 DEF NextCalls, Call
  <2>3. IsSequence(calls) /\ Len(calls) = 1 /\ calls[1] = c
    BY <2>2, OneIs
  <2>4. calls # <<>>
    BY <2>3, EmptyIs
  <2> QED BY <1>1, <2>2, <2>3, <2>4
<1>2. CASE app.ready /\ Async(call) /\ call.code = "OK"
  <2>1. PICK c : c = Call("wait", call.variant, call.addr, call.len)
    OBVIOUS
  <2>2. calls = <<c>> \o app.todo /\ c.fn = "wait" /\ c.len = call.len
    <3>1. NextCalls = {<<Call("wait", call.variant, call.addr, call.len)>> \o app.todo}
      BY <1>2 DEF NextCalls
    <3> QED BY <2>1, <3>1 DEF Call
  <2>3. IsSequence(<<c>>) /\ Len(<<c>>) = 1 /\ <<c>>[1] = c /\ IsSequence(app.todo)
    BY OneIs DEF AppTyped
  <2>4. /\ IsSequence(calls) /\ Len(app.todo) \in Nat /\ Len(calls) = 1 + Len(app.todo)
        /\ \A i \in 1..1 + Len(app.todo) : calls[i] = IF i <= 1 THEN <<c>>[i] ELSE app.todo[i - 1]
    BY <2>2, <2>3, SequenceIs
  <2>5. calls[1] = c /\ \A i \in 2..Len(calls) : calls[i] = app.todo[i - 1] /\ i - 1 \in 1..Len(app.todo)
    BY <2>3, <2>4
  <2>6. calls # <<>>
    BY <2>4, EmptyIs
  <2> QED BY <1>2, <2>2, <2>4, <2>5, <2>6 DEF TodoKnown
<1>3. CASE app.ready /\ ~(Async(call) /\ call.code = "OK")
  <2>1. (calls = app.todo /\ app.todo # <<>>) \/ calls \in Tests
    BY <1>3 DEF NextCalls
  <2>2. CASE calls = app.todo /\ app.todo # <<>>
    <3>1. IsSequence(calls) /\ Len(calls) \in Nat /\ Len(calls) >= 1
      BY <2>2, TailIs DEF AppTyped
    <3>2. \A i \in 1..Len(calls) : WellFormed(calls[i])
      BY <2>2 DEF TodoKnown
    <3> QED BY <1>3, <2>2, <3>1, <3>2
  <2>3. CASE calls \in Tests
    <3>1. calls \in Seq([fn : STRING, variant : STRING, addr : Nat, len : Nat])
      BY <2>3, TestsAssumption
    <3>2. IsSequence(calls) /\ Len(calls) \in Nat
      BY <3>1 DEF IsSequence
    <3>3. calls # <<>> /\ \A i \in 1..Len(calls) : WellFormed(calls[i])
      BY <2>3, TestsAssumption
    <3>4. Len(calls) >= 1
      BY <3>2, <3>3, TailIs
    <3> QED BY <1>3, <3>2, <3>3, <3>4
  <2> QED BY <2>1, <2>2, <2>3
<1> QED BY <1>1, <1>2, <1>3

\* The call begins.
LEMMA CallBegins ==
    ASSUME AppTyped, TodoKnown, NEW calls \in NextCalls, Start(calls), NEW c, c = calls[1]
    PROVE  /\ prog = <<>> /\ prog' = Program(c) /\ UNCHANGED <<hostVars, dma, flash>>
           /\ AppTyped' /\ TodoKnown' /\ app'.ready = app.ready
           /\ call'.fn = c.fn /\ call'.variant = c.variant /\ call'.len = c.len /\ call'.code = "RUNNING"
<1>1. /\ IsSequence(calls) /\ calls # <<>> /\ Len(calls) \in Nat /\ \A i \in 2..Len(calls) : WellFormed(calls[i])
  BY NextCallsAre
<1>2. Head(calls) = c /\ IsSequence(Tail(calls)) /\ Len(Tail(calls)) = Len(calls) - 1
      /\ \A i \in 1..Len(calls) - 1 : Tail(calls)[i] = calls[i + 1]
  BY <1>1, TailIs
<1>3. PICK before, todo : before = (IF c.fn \in Writes THEN mem ELSE <<>>) /\ todo = Tail(calls)
  OBVIOUS
<1>4. /\ prog = <<>> /\ prog' = Program(c) /\ UNCHANGED <<hostVars, dma, flash>>
      /\ call' = [fn |-> c.fn, variant |-> c.variant, addr |-> c.addr, len |-> c.len,
                  code |-> "RUNNING", before |-> before]
      /\ \E t : app' = [app EXCEPT !.todo = todo, !.tests = t]
  BY <1>2, <1>3 DEF Start, Running
<1>5. PICK t : app' = [app EXCEPT !.todo = todo, !.tests = t]
  BY <1>4
<1>6. app' = [ready |-> app.ready, tests |-> t, todo |-> todo, crashes |-> app.crashes]
  BY <1>5 DEF AppTyped
<1>7. /\ app' = [ready |-> app'.ready, tests |-> app'.tests, todo |-> app'.todo, crashes |-> app'.crashes]
      /\ app'.ready = app.ready /\ app'.todo = todo
  BY <1>6
<1>8. /\ call' = [fn |-> call'.fn, variant |-> call'.variant, addr |-> call'.addr, len |-> call'.len,
                  code |-> call'.code, before |-> call'.before]
      /\ call'.fn = c.fn /\ call'.variant = c.variant /\ call'.len = c.len /\ call'.code = "RUNNING"
  BY <1>4
<1>9. AppTyped'
  <2>1. AppTyped' =
          /\ app' = [ready |-> app'.ready, tests |-> app'.tests, todo |-> app'.todo, crashes |-> app'.crashes]
          /\ call' = [fn |-> call'.fn, variant |-> call'.variant, addr |-> call'.addr, len |-> call'.len,
                      code |-> call'.code, before |-> call'.before]
          /\ IsSequence(app'.todo)
    BY DEF AppTyped, IsSequence
  <2> QED BY <1>2, <1>3, <1>7, <1>8, <2>1
<1>10. TodoKnown'
  <2>1. TodoKnown' = \A i \in 1..Len(app'.todo) : WellFormed(app'.todo[i])
    BY DEF TodoKnown, WellFormed, WholeRead, WholeWrite, UsesDma
  <2>2. \A i \in 1..Len(todo) : WellFormed(todo[i])
    <3> SUFFICES ASSUME NEW i \in 1..Len(todo) PROVE WellFormed(todo[i])
      OBVIOUS
    <3>1. i \in 1..Len(calls) - 1 /\ i + 1 \in 2..Len(calls)
      BY <1>1, <1>2, <1>3
    <3>2. todo[i] = calls[i + 1]
      BY <1>2, <1>3, <3>1
    <3> QED BY <1>1, <3>1, <3>2
  <2> QED BY <1>7, <2>1, <2>2
<1> QED BY <1>4, <1>7, <1>8, <1>9, <1>10

-----------------------------------------------------------------------------
(* What a call begins from.                                                *)

\* What is tracked may be forgotten when a call begins.
LEMMA StartTracks ==
    ASSUME HostKnown, NEW q, NEW st, Tracked(q, st), UNCHANGED <<hostVars, dma, flash>>, app'.ready => app.ready,
           q.out.t = 0, q.bus.op = "none",
           NEW x, x.out.t = 0, x.out.b \in Nat, x.out.b >= q.out.b, x.bus.op = "none", x.bus.K \subseteq q.bus.K,
           x.bus.tk => q.bus.tk, x.bus.ask = "none", x.bus.last => q.bus.last,
           x.in.e = q.in.e, x.in.wm = q.in.wm, x.in.have = q.in.have, x.dma = q.dma, x.rdy => q.rdy
    PROVE  HostKnown' /\ Tracked(x, st)'
<1>1. /\ cur' = cur /\ cmdq' = cmdq /\ tx' = tx /\ rx' = rx /\ flash' = flash /\ control' = control /\ dma' = dma
  BY DEF hostVars
<1>2. PICK n, s : n = Len(Pend) /\ s = st[n]
  OBVIOUS
<1>3. WordsAgree(q, s) => WordsAgree(x, s)
  <2>1. SUFFICES ASSUME WordsAgree(q, s) PROVE WordsAgree(x, s)
    OBVIOUS
  <2>2. /\ 0 = Len(tx) + Dtx - s.t /\ q.in.e = Len(rx) + s.r - Drx /\ q.out.b \in Nat /\ Len(tx) + Dtx <= q.out.b
    BY <2>1 DEF WordsAgree
  <2>3. Len(tx) \in Nat /\ Dtx \in Nat
    BY SequenceIs DEF HostKnown, HostTyped, Dtx
  <2>4. PICK m \in Nat : m = Len(tx) + Dtx
    BY <2>3
  <2>5. m <= x.out.b
    BY <2>2, <2>3, <2>4
  <2>6. Len(tx) + Dtx <= x.out.b
    BY <2>4, <2>5
  <2> QED BY <2>2, <2>6 DEF WordsAgree
<1>4. BusAgrees(q, s) => BusAgrees(x, s)
  BY DEF BusAgrees
<1>5. DmaAgrees(q) => DmaAgrees(x)
  BY DEF DmaAgrees
<1>6. InAgrees(q) => InAgrees(x)
  BY DEF InAgrees
<1>7. AnswerKnown(q, s) => AnswerKnown(x, s)
  <2>1. x.bus.ask # "RSR1" /\ x.bus.ask # "RSR2"
    OBVIOUS
  <2> QED BY <2>1, Zenon DEF AnswerKnown
<1> QED BY <1>1, <1>2, <1>3, <1>4, <1>5, <1>6, <1>7, TracksSame

\* What every rest has.
LEMMA AtRestHas ==
    ASSUME NEW q, AtRest(q)
    PROVE  /\ q.out.t = 0 /\ q.out.b \in Nat /\ q.out.b <= 2 /\ q.bus.op = "none" /\ q.bus.ask = "none" /\ q.rdy
           /\ q.in.e = 0 /\ q.in.wm = 0 /\ q.in.have = 0 /\ q.kind \in {"plain", "async", "off"}
           /\ q.kind # "async" => q.dma = "none" /\ q.out.b <= 1
           /\ q.kind # "off" => q.bus.K = Awake /\ q.bus.tk /\ q.bus.last
           /\ q.kind # "off" /\ q.dma # "rx" => q.dma = "none" /\ q.out.b = 0
           /\ q.dma \in {"none", "rx"}
<1>1. \A k : /\ Rest(k).kind = k /\ Rest(k).out.t = 0 /\ Rest(k).out.b = 0 /\ Rest(k).bus.op = "none"
             /\ Rest(k).bus.ask = "none" /\ Rest(k).rdy /\ Rest(k).in.e = 0 /\ Rest(k).in.wm = 0 /\ Rest(k).in.have = 0
             /\ Rest(k).dma = "none" /\ Rest(k).bus.K = Awake /\ Rest(k).bus.tk /\ Rest(k).bus.last
  BY DEF Rest, View, Bus, In, NoWords, Out
<1>2. \A b : /\ Reading(b).kind = "async" /\ Reading(b).out.t = 0 /\ Reading(b).out.b = b /\ Reading(b).bus.op = "none"
             /\ Reading(b).bus.ask = "none" /\ Reading(b).rdy /\ Reading(b).in.e = 0 /\ Reading(b).in.wm = 0
             /\ Reading(b).in.have = 0
             /\ Reading(b).dma = "rx" /\ Reading(b).bus.K = Awake /\ Reading(b).bus.tk /\ Reading(b).bus.last
  BY DEF Reading, View, Bus, In, NoWords, Out
<1>3. /\ Down.kind = "off" /\ Down.out.t = 0 /\ Down.out.b = 1 /\ Down.bus.op = "none"
      /\ Down.bus.ask = "none" /\ Down.rdy /\ Down.in.e = 0 /\ Down.in.wm = 0 /\ Down.in.have = 0 /\ Down.dma = "none"
  BY DEF Down, View, Bus, In, NoWords, Out
<1>4. /\ Cold.kind = "off" /\ Cold.out.t = 0 /\ Cold.out.b = 0 /\ Cold.bus.op = "none"
      /\ Cold.bus.ask = "none" /\ Cold.rdy /\ Cold.in.e = 0 /\ Cold.in.wm = 0 /\ Cold.in.have = 0 /\ Cold.dma = "none"
  BY DEF Cold, View, Bus, In, NoWords, Out
<1>5. q \in {Rest("plain"), Rest("async"), Reading(1), Reading(2), Down, Cold}
  BY DEF AtRest
<1>6. CASE q \in {Rest("plain"), Rest("async")}
  BY <1>1, <1>6
<1>7. CASE q \in {Reading(1), Reading(2)}
  BY <1>2, <1>7
<1>8. CASE q \in {Down, Cold}
  BY <1>3, <1>4, <1>8
<1> QED BY <1>5, <1>6, <1>7, <1>8

\* The view when the initialisation begins, field by field.
LEMMA WakingHas ==
    /\ Waking.kind = "init" /\ Waking.out.t = 0 /\ Waking.out.b = 1 /\ Waking.bus.op = "none" /\ Waking.bus.K = {}
    /\ ~Waking.bus.tk /\ Waking.bus.ask = "none" /\ ~Waking.bus.last
    /\ Waking.in.e = 0 /\ Waking.in.wm = 0 /\ Waking.in.have = 0 /\ Waking.dma = "none"
BY DEF Waking, View, Bus, In, NoWords, Out

\* The view at rest, field by field.
LEMMA RestHas ==
    ASSUME NEW k
    PROVE  /\ Rest(k).kind = k /\ Rest(k).out.t = 0 /\ Rest(k).out.b = 0 /\ Rest(k).bus.op = "none"
           /\ Rest(k).bus.K = Awake /\ Rest(k).bus.ask = "none"
           /\ Rest(k).in.e = 0 /\ Rest(k).in.wm = 0 /\ Rest(k).in.have = 0 /\ Rest(k).dma = "none"
BY DEF Rest, View, Bus, In, NoWords, Out

\* A call that ends with its return value.
LEMMA EndsInReturn ==
    ASSUME NEW s, IsSequence(s), NEW code
    PROVE  /\ s \o <<Return(code)>> # <<>>
           /\ (s \o <<Return(code)>>)[Len(s \o <<Return(code)>>)].do = "return"
<1>1. PICK r, t : r = Return(code) /\ t = s \o <<r>>
  OBVIOUS
<1>2. r.do = "return"
  BY <1>1 DEF Return
<1>3. IsSequence(<<r>>) /\ Len(<<r>>) = 1 /\ <<r>>[1] = r
  BY OneIs
<1>4. Len(s) \in Nat /\ Len(t) = Len(s) + 1 /\ \A i \in 1..Len(s) + 1 : t[i] = IF i <= Len(s) THEN s[i] ELSE <<r>>[i - Len(s)]
  BY <1>1, <1>3, SequenceIs
<1>5. t[Len(t)] = r
  <2>1. PICK i : i = Len(s) + 1
    OBVIOUS
  <2>2. i \in 1..Len(s) + 1 /\ ~(i <= Len(s)) /\ i - Len(s) = 1
    BY <1>4, <2>1
  <2> QED BY <1>3, <1>4, <2>1, <2>2
<1>6. t # <<>>
  BY <1>4, EmptyIs
<1> QED BY <1>1, <1>2, <1>5, <1>6

\* The calls that end in something else than the driver at rest return.
LEMMA ProgramEnds ==
    ASSUME NEW c, WellFormed(c), KindOf(c) \in {"async", "off"}
    PROVE  Program(c) # <<>> /\ Program(c)[Len(Program(c))].do = "return"
<1>1. CASE c.fn = "power_down"
  <2>1. Program(c) = w25q128jw_power_down \o <<Return("NONE")>>
    BY <1>1 DEF Program
  <2>2. IsSequence(w25q128jw_power_down)
    <3>1. 0 \in Nat /\ 0 < TxDepth /\ 1 = 0 + 1
      BY RoomIs
    <3>2. Leads(Free("off", 0, Awake, TRUE, "none", TRUE, In(0, 0, 0), "none"), w25q128jw_power_down,
                Free("off", 1, Awake \ {"up"}, TRUE, "none", FALSE, In(0, 0, 0), "none"))
      BY <3>1, LeadsPowerDown
    <3> QED BY <3>2 DEF Leads
  <2> QED BY <2>1, <2>2, EndsInReturn
<1>2. CASE c.fn # "power_down"
  <2>1. c.fn = "read" /\ c.variant \in AsyncWays
    BY <1>2 DEF KindOf, Async, AsyncWays
  <2>2. Program(c) = Read(c.variant, c.addr, "user", c.len) \o <<Return("OK")>>
    BY <2>1 DEF Program
  <2>3. c.len \in Nat /\ WholeRead(c.variant, c.len)
    BY <2>1 DEF WellFormed
  <2>4. IsSequence(Read(c.variant, c.addr, "user", c.len))
    <3>1. PICK r : Leads(Rest("async"), Read(c.variant, c.addr, "user", c.len), r)
      BY <2>1, <2>3, LeadsReadAsync
    <3> QED BY <3>1 DEF Leads
  <2> QED BY <2>2, <2>4, EndsInReturn
<1> QED BY <1>1, <1>2

\* The read that cannot take the length is refused first.
LEMMA AsyncRefused ==
    ASSUME NEW c, WellFormed(c), Async(c), c.len % 4 # 0
    PROVE  Program(c)[1] = Return("ERROR")
<1>1. c.fn = "read" /\ c.variant = "standard_dma_async"
  BY DEF Async, WellFormed, WholeRead, AsyncWays
<1>2. Read(c.variant, c.addr, "user", c.len) = <<Return("ERROR")>>
  BY <1>1 DEF Read
<1>3. Program(c) = Read(c.variant, c.addr, "user", c.len) \o <<Return("OK")>>
  BY <1>1 DEF Program
<1>4. PICK r, s : r = Return("ERROR") /\ s = Return("OK")
  OBVIOUS
<1>5. Program(c) = <<r>> \o <<s>>
  BY <1>2, <1>3, <1>4
<1>6. (<<r>> \o <<s>>)[1] = r
  OBVIOUS
<1> QED BY <1>4, <1>5, <1>6

-----------------------------------------------------------------------------
(* No command is lost.                                                     *)

\* The start of a call preserves the invariant.
LEMMA StartGoes ==
    ASSUME W25qInv, NEW calls \in NextCalls, Start(calls)
    PROVE  W25qInv'
<1>1. HostKnown /\ AppTyped /\ TodoKnown /\ ~flash.lost /\ Driven
  BY DEF W25qInv
<1>2. PICK q, st : CallAgrees(q) /\ Tracked(q, st) /\ Reaches(q)
  BY <1>1 DEF Driven
<1>3. PICK c : c = calls[1]
  OBVIOUS
<1>4. /\ prog = <<>> /\ prog' = Program(c) /\ UNCHANGED <<hostVars, dma, flash>>
      /\ AppTyped' /\ TodoKnown' /\ app'.ready = app.ready
      /\ call'.fn = c.fn /\ call'.variant = c.variant /\ call'.len = c.len /\ call'.code = "RUNNING"
  BY <1>1, <1>3, CallBegins
<1>5. AtRest(q)
  BY <1>2, <1>4, LeadsNowhere DEF Reaches
<1>6. /\ q.out.t = 0 /\ q.out.b \in Nat /\ q.out.b <= 2 /\ q.bus.op = "none" /\ q.bus.ask = "none" /\ q.rdy
      /\ q.in.e = 0 /\ q.in.wm = 0 /\ q.in.have = 0 /\ q.kind \in {"plain", "async", "off"}
      /\ q.kind # "async" => q.dma = "none" /\ q.out.b <= 1
      /\ q.kind # "off" => q.bus.K = Awake /\ q.bus.tk /\ q.bus.last
      /\ q.kind # "off" /\ q.dma # "rx" => q.dma = "none" /\ q.out.b = 0
      /\ q.dma \in {"none", "rx"}
  BY <1>5, AtRestHas
<1>7. /\ q.kind = "async" => app.ready /\ Async(call)
      /\ q.kind = "off" => ~app.ready
      /\ q.kind = "async" /\ q.dma = "rx" => call.code = "OK"
      /\ Async(call) /\ call.len % 4 # 0 => call.code # "OK"
  BY <1>2, <1>4 DEF CallAgrees
<1>8. SUFFICES \E x : /\ HostKnown' /\ Tracked(x, st)' /\ CallAgrees(x)'
                      /\ \E r : AtRest(r) /\ Leads(x, Program(c), r)
  <2>1. PICK x, r : /\ HostKnown' /\ Tracked(x, st)' /\ CallAgrees(x)'
                    /\ AtRest(r) /\ Leads(x, Program(c), r)
    BY <1>8
  <2>2. Reaches(x)'
    BY <1>4, <2>1 DEF Reaches
  <2>3. Driven'
    BY <2>1, <2>2 DEF Driven
  <2>4. ~flash'.lost
    BY <1>1, <1>4
  <2> QED BY <1>4, <2>1, <2>3, <2>4 DEF W25qInv
<1>9. Async(call)' <=> Async(c)
  BY <1>4 DEF Async
<1>10. CASE ~app.ready /\ c.fn = "init"
  <2>1. PICK x : x = Waking
    OBVIOUS
  <2>2. /\ x.kind = "init" /\ x.out.t = 0 /\ x.out.b = 1 /\ x.bus.op = "none" /\ x.bus.K = {}
        /\ ~x.bus.tk /\ x.bus.ask = "none" /\ ~x.bus.last
        /\ x.in.e = 0 /\ x.in.wm = 0 /\ x.in.have = 0 /\ x.dma = "none"
    BY <2>1, WakingHas
  <2>3. q.kind # "async"
    BY <1>7, <1>10
  <2>4. /\ x.out.b \in Nat /\ x.out.b >= q.out.b /\ x.bus.K \subseteq q.bus.K /\ x.dma = q.dma
    BY <1>6, <2>2, <2>3
  <2>5. HostKnown' /\ Tracked(x, st)'
    BY <1>1, <1>2, <1>4, <1>6, <2>2, <2>4, StartTracks
  <2>6. CallAgrees(x)'
    <3>1. ~Async(call)'
      BY <1>4, <1>10 DEF Async
    <3> QED BY <1>4, <1>10, <2>2, <3>1 DEF CallAgrees
  <2>7. AtRest(Rest("plain")) /\ Leads(x, Program(c), Rest("plain"))
    BY <1>10, <2>1, LeadsOthers, RestsAre
  <2> QED BY <2>5, <2>6, <2>7
<1>11. CASE app.ready /\ Async(call) /\ call.code = "OK" /\ c.fn = "wait" /\ c.len = call.len
  <2>1. PICK b, d : b = q.out.b /\ d = q.dma
    OBVIOUS
  <2>2. PICK x : x = Free("plain", b, Awake, TRUE, "none", TRUE, In(0, 0, 0), d)
    OBVIOUS
  <2>3. /\ x.kind = "plain" /\ x.out.t = 0 /\ x.out.b = b /\ x.bus.op = "none" /\ x.bus.K = Awake
        /\ x.bus.ask = "none" /\ x.in.e = 0 /\ x.in.wm = 0 /\ x.in.have = 0 /\ x.dma = d
    BY <2>2 DEF Free, View, Bus, In, NoWords, Out
  <2>4. q.kind # "off"
    BY <1>7, <1>11
  <2>5. /\ x.out.b \in Nat /\ x.out.b >= q.out.b /\ x.bus.K \subseteq q.bus.K /\ x.dma = q.dma
        /\ q.bus.tk /\ q.bus.last
    BY <1>6, <2>1, <2>3, <2>4
  <2>6. HostKnown' /\ Tracked(x, st)'
    BY <1>1, <1>2, <1>4, <1>6, <2>3, <2>5, StartTracks
  <2>7. CallAgrees(x)'
    <3>1. ~Async(call)'
      BY <1>4, <1>11 DEF Async
    <3> QED BY <1>4, <2>3, <3>1 DEF CallAgrees
  <2>8. c.len % 4 = 0
    BY <1>7, <1>11
  <2>9. AtRest(Rest("plain")) /\ Leads(x, Program(c), Rest("plain"))
    BY <1>11, <2>2, <2>8, LeadsOthers, RestsAre
  <2> QED BY <2>6, <2>7, <2>9
<1>12. CASE app.ready /\ ~(Async(call) /\ call.code = "OK") /\ WellFormed(c)
  <2>1. q.kind # "off" /\ q.dma # "rx"
    BY <1>6, <1>7, <1>12
  <2>2. PICK k, x : k = KindOf(c) /\ x = Rest(k)
    OBVIOUS
  <2>3. /\ x.kind = k /\ x.out.t = 0 /\ x.out.b = 0 /\ x.bus.op = "none"
        /\ x.bus.K = Awake /\ x.bus.ask = "none"
        /\ x.in.e = 0 /\ x.in.wm = 0 /\ x.in.have = 0 /\ x.dma = "none"
    BY <2>2, RestHas
  <2>4. /\ x.out.b \in Nat /\ x.out.b >= q.out.b /\ x.bus.K \subseteq q.bus.K /\ x.dma = q.dma
        /\ q.bus.tk /\ q.bus.last
    BY <1>6, <2>1, <2>3
  <2>5. HostKnown' /\ Tracked(x, st)'
    BY <1>1, <1>2, <1>4, <1>6, <2>3, <2>4, StartTracks
  <2>6. \E r : AtRest(r) /\ Leads(x, Program(c), r)
    BY <1>12, <2>2, LeadsProgram
  <2>7. CallAgrees(x)'
    <3>1. /\ k = "off" => c.fn = "power_down"
          /\ k = "async" => Async(c)
          /\ k # "init"
      BY <2>2 DEF KindOf
    <3>2. k \in {"async", "off"} => prog' # <<>> /\ prog'[Len(prog')].do = "return"
      BY <1>4, <1>12, <2>2, ProgramEnds
    <3>3. Async(c) /\ c.len % 4 # 0 => prog'[1] = Return("ERROR")
      BY <1>4, <1>12, AsyncRefused
    <3>4. CallAgrees(x)' =
            /\ x.kind = "init" => ~app'.ready /\ call'.fn = "init"
            /\ x.kind = "async" => app'.ready /\ Async(call)'
            /\ x.kind = "off" => IF prog' = <<>> THEN ~app'.ready ELSE call'.fn = "power_down"
            /\ prog' = <<>> /\ x.kind = "async" /\ x.dma = "rx" => call'.code = "OK"
            /\ prog' # <<>> /\ x.kind \in {"async", "off"} => prog'[Len(prog')].do = "return"
            /\ Async(call)' /\ call'.len % 4 # 0 =>
                  call'.code # "OK" /\ (prog' # <<>> => prog'[1] = Return("ERROR"))
      BY Zenon DEF CallAgrees, Return
    <3> QED BY <1>4, <1>9, <1>12, <2>3, <3>1, <3>2, <3>3, <3>4
  <2> QED BY <2>5, <2>6, <2>7
<1> QED BY <1>1, <1>3, <1>10, <1>11, <1>12, NextCallsAre

\* Nothing changes.
LEMMA NothingGoes ==
    ASSUME W25qInv, UNCHANGED vars
    PROVE  W25qInv'
<1>1. HostKnown /\ AppTyped /\ TodoKnown /\ ~flash.lost /\ Driven
  BY DEF W25qInv
<1>2. PICK q, st : CallAgrees(q) /\ Tracked(q, st) /\ Reaches(q)
  BY <1>1 DEF Driven
<1>3. UNCHANGED <<hostVars, dma, flash>> /\ prog' = prog /\ call' = call /\ app' = app
  BY DEF vars, w25qVars
<1>4. HostKnown' /\ Tracked(q, st)'
  BY <1>1, <1>2, <1>3, HostRests
<1>5. CallAgrees(q)' /\ Reaches(q)' /\ AppTyped' /\ TodoKnown'
  BY <1>1, <1>2, <1>3, CallKeeps
<1>6. Driven'
  BY <1>4, <1>5 DEF Driven
<1> QED BY <1>1, <1>3, <1>4, <1>5, <1>6 DEF W25qInv

\* Every step preserves the invariant.
LEMMA InvariantKept ==
    ASSUME W25qInv, [W25qNext]_vars
    PROVE  W25qInv'
<1>1. CASE \E calls \in NextCalls : Start(calls)
  BY <1>1, StartGoes
<1>2. CASE Driver
  BY <1>2, DriverGoes
<1>3. CASE ExchangeWord \/ EndSegment \/ DmaMove \/ FlashReady
  BY <1>3, HostSteps
<1>4. CASE Crash
  BY <1>4, CrashStep
<1>5. CASE UNCHANGED vars
  BY <1>5, NothingGoes
<1> QED BY <1>1, <1>2, <1>3, <1>4, <1>5 DEF W25qNext

\* No command is lost: a flash that the driver has initialised is never sent
\* a command it does not take, busy, powered down or without write enable as
\* it may be, for every sequence of well formed calls, every order of the
\* steps of the host, the DMA and the flash, and with resets of the
\* microcontroller in between (w25q.c; NoCommandLost).
THEOREM CommandSafety ==
    W25qSpec => []NoCommandLost
<1>1. W25qInit => W25qInv
  BY InitHolds
<1>2. W25qInv /\ [W25qNext]_vars => W25qInv'
  BY InvariantKept
<1>3. W25qInv => NoCommandLost
  BY DEF W25qInv, NoCommandLost
<1> QED BY <1>1, <1>2, <1>3, PTL DEF W25qSpec

-----------------------------------------------------------------------------
(* What a write may damage.                                                *)

\* A set of addresses is closed when it is a set of whole sectors; the region
\* of a call is the sectors its range touches.
Closed(R) ==
    /\ R \subseteq Nat
    /\ \A a \in R, b \in Nat : a \div FLASH_SECTOR_SIZE = b \div FLASH_SECTOR_SIZE => b \in R
Region(c) == {a \in Nat : \E b \in Span(c) : a \div FLASH_SECTOR_SIZE = b \div FLASH_SECTOR_SIZE}

\* A command changes the memory of R only: it erases no more than a sector,
\* and its address is in R.
Harmless(R, w) ==
    /\ w.op \notin {"BE32", "BE64", "CE"}
    /\ w.op \in {"PP", "PPQ", "SE"} => w.addr \in R

\* A step of the driver queues harmless commands only, now or when it is
\* unrolled.
Spares(R, s) ==
    /\ s.do = "word" => Harmless(R, s.word)
    /\ s.do \in {"pages", "sectors"} =>
          s.addr \in Nat /\ s.len \in Nat /\ \A a \in s.addr..s.addr + s.len - 1 : a \in R
    /\ s.do = "pages" => s.len > 0
    /\ s.do = "sectors" => s.variant \in ReadWays
    /\ s.do = "fill" => s.left \in Nat /\ s.to_read \in Nat /\ s.start \in Nat
SparesAll(R, steps) == IsSequence(steps) /\ \A i \in 1..Len(steps) : Spares(R, steps[i])

\* The range of a call is in its region, which is closed.
LEMMA RegionIs ==
    ASSUME NEW c, c.addr \in Nat, c.len \in Nat
    PROVE  Closed(Region(c)) /\ \A a \in c.addr..c.addr + c.len - 1 : a \in Region(c)
<1>1. Closed(Region(c))
  BY DEF Closed, Region
<1>2. \A a \in c.addr..c.addr + c.len - 1 : a \in Nat /\ a \in Span(c)
  BY DEF Span
<1> QED BY <1>1, <1>2 DEF Region

\* Programs one after the other.
LEMMA SparesJoin ==
    ASSUME NEW R, NEW s, NEW t, SparesAll(R, s), SparesAll(R, t)
    PROVE  SparesAll(R, s \o t)
<1>1. /\ IsSequence(s \o t) /\ Len(s) \in Nat /\ Len(t) \in Nat /\ Len(s \o t) = Len(s) + Len(t)
      /\ \A i \in 1..Len(s) + Len(t) : (s \o t)[i] = IF i <= Len(s) THEN s[i] ELSE t[i - Len(s)]
  BY SequenceIs DEF SparesAll
<1>2. ASSUME NEW i \in 1..Len(s \o t)
      PROVE  Spares(R, (s \o t)[i])
  <2>1. CASE i <= Len(s)
    <3>1. i \in 1..Len(s) /\ (s \o t)[i] = s[i]
      BY <1>1, <2>1
    <3> QED BY <3>1 DEF SparesAll
  <2>2. CASE ~(i <= Len(s))
    <3>1. i - Len(s) \in 1..Len(t) /\ (s \o t)[i] = t[i - Len(s)]
      BY <1>1, <2>2
    <3> QED BY <3>1 DEF SparesAll
  <2> QED BY <2>1, <2>2
<1> QED BY <1>1, <1>2 DEF SparesAll

\* A program of one step.
LEMMA SparesOne ==
    ASSUME NEW R, NEW s, Spares(R, s)
    PROVE  SparesAll(R, <<s>>)
<1>1. IsSequence(<<s>>) /\ Len(<<s>>) = 1 /\ <<s>>[1] = s
  BY OneIs
<1>2. \A i \in 1..1 : i = 1
  OBVIOUS
<1> QED BY <1>1, <1>2 DEF SparesAll

\* The empty program.
LEMMA SparesNone == \A R : SparesAll(R, <<>>)
BY EmptyIs DEF SparesAll

\* What is left after a step, and the step.
LEMMA SparesTail ==
    ASSUME NEW R, NEW s, SparesAll(R, s), s # <<>>
    PROVE  SparesAll(R, Tail(s)) /\ Spares(R, s[1])
<1>1. /\ IsSequence(Tail(s)) /\ Len(s) \in Nat /\ Len(s) >= 1 /\ Len(Tail(s)) = Len(s) - 1
      /\ \A i \in 1..Len(s) - 1 : Tail(s)[i] = s[i + 1]
  BY TailIs DEF SparesAll
<1>2. ASSUME NEW i \in 1..Len(Tail(s))
      PROVE  Spares(R, Tail(s)[i])
  <2>1. i + 1 \in 1..Len(s) /\ Tail(s)[i] = s[i + 1]
    BY <1>1
  <2> QED BY <2>1 DEF SparesAll
<1>3. 1 \in 1..Len(s)
  BY <1>1
<1> QED BY <1>1, <1>2, <1>3 DEF SparesAll

\* Steps that queue no opcode and unroll nothing.
Quiet(s) == s.do \notin {"word", "pages", "sectors", "fill"}

\* A quiet step damages nothing.
LEMMA QuietSpares ==
    ASSUME NEW R, NEW s, Quiet(s)
    PROVE  Spares(R, s) /\ SparesAll(R, <<s>>)
<1>1. Spares(R, s)
  BY DEF Quiet, Spares
<1> QED BY <1>1, SparesOne

\* A program given step by step.
LEMMA EachSpares ==
    ASSUME NEW R, NEW n \in Nat, NEW S, NEW f \in [1..n -> S], \A i \in 1..n : Spares(R, f[i])
    PROVE  SparesAll(R, f)
<1>1. IsSequence(f) /\ Len(f) = n
  BY FunctionIs
<1> QED BY <1>1 DEF SparesAll

\* The quiet steps of the driver.
LEMMA QuietAre ==
    /\ \A do : do \notin {"word", "pages", "sectors", "fill"} => Quiet(Step(do))
    /\ \A n : Quiet(Watermark(n))
    /\ \A code : Quiet(Return(code))
    /\ \A buf, at, n : Quiet(ReadWord(buf, at, n))
    /\ \A buf, len : Quiet(DmaRx(buf, len))
    /\ Quiet(DmaReady)
<1>1. \A do : Step(do).do = do
  BY DEF Step
<1>2. /\ \A n : Watermark(n).do = "watermark"
      /\ \A code : Return(code).do = "return"
      /\ \A buf, at, n : ReadWord(buf, at, n).do = "read"
      /\ \A buf, len : DmaRx(buf, len).do = "dma"
  BY DEF Watermark, Return, ReadWord, DmaRx
<1>3. DmaReady.do = "dma_is_ready"
  BY <1>1 DEF DmaReady
<1> QED BY <1>1, <1>2, <1>3 DEF Quiet

\* An opcode, with an address in R if the flash programs or erases there.
LEMMA WordSpares ==
    ASSUME NEW R, NEW op, NEW addr, op \notin {"BE32", "BE64", "CE"}, op \in {"PP", "PPQ", "SE"} => addr \in R
    PROVE  SparesAll(R, <<Word(Op(op, addr))>>)
<1>1. PICK w : w = Op(op, addr)
  OBVIOUS
<1>2. w.op = op /\ w.addr = addr
  BY <1>1 DEF Op
<1>3. Harmless(R, w)
  BY <1>2 DEF Harmless
<1>4. Word(w).do = "word" /\ Word(w).word = w
  BY DEF Word
<1>5. Spares(R, Word(w))
  BY <1>3, <1>4 DEF Spares
<1> QED BY <1>1, <1>5, SparesOne

\* A command to the host.
LEMMA CommandSpares ==
    ASSUME NEW R, NEW len, NEW csaat, NEW direction
    PROVE  SparesAll(R, Command(len, csaat, direction))
<1>1. PICK c : c = [do |-> "command", cmd |-> [len |-> len, csaat |-> csaat, direction |-> direction]]
  OBVIOUS
<1>2. c.do = "command"
  BY <1>1
<1>3. Command(len, csaat, direction) = <<c>> \o <<Step("ready")>>
  BY <1>1, TwoAre DEF Command
<1>4. SparesAll(R, <<c>>) /\ SparesAll(R, <<Step("ready")>>)
  BY <1>2, QuietSpares, QuietAre DEF Quiet
<1> QED BY <1>3, <1>4, SparesJoin

\* The status read, the wait for the flash and the write enable.
LEMMA WaitSpares ==
    ASSUME NEW R
    PROVE  SparesAll(R, Poll) /\ SparesAll(R, flash_wait) /\ SparesAll(R, flash_write_enable)
<1>1. \A len, csaat, direction : SparesAll(R, Command(len, csaat, direction))
  BY CommandSpares
<1>2. SparesAll(R, <<Word(Op("RSR1", 0))>>) /\ SparesAll(R, <<Word(Op("WE", 0))>>)
  BY WordSpares
<1>3. SparesAll(R, <<Step("rxwm"), Step("status")>>)
  <2>1. SparesAll(R, <<Step("rxwm")>>) /\ SparesAll(R, <<Step("status")>>)
    BY QuietSpares, QuietAre
  <2> QED BY <2>1, TwoAre, SparesJoin
<1>4. SparesAll(R, Poll)
  BY <1>1, <1>2, <1>3, SparesJoin DEF Poll
<1>5. SparesAll(R, <<Watermark(1)>>)
  BY QuietSpares, QuietAre
<1> QED BY <1>1, <1>2, <1>4, <1>5, SparesJoin DEF flash_wait, flash_write_enable

\* A word of the last bytes, or none.
LEMMA TailSpares ==
    ASSUME NEW R, NEW buf, NEW len
    PROVE  SparesAll(R, Tail4(buf, len))
<1>1. \A at, n : SparesAll(R, <<ReadWord(buf, at, n)>>)
  BY QuietSpares, QuietAre
<1> QED BY <1>1, SparesNone DEF Tail4

\* The commands of a read.
LEMMA TransferSpares ==
    ASSUME NEW R, NEW addr, NEW len
    PROVE  SparesAll(R, StandardRead(addr, len)) /\ SparesAll(R, QuadRead(addr, len))
<1>1. \A n, csaat, direction : SparesAll(R, Command(n, csaat, direction))
  BY CommandSpares
<1>2. SparesAll(R, <<Word(Op("RD", addr))>>) /\ SparesAll(R, <<Word(Op("RDQIO", 0))>>) /\ SparesAll(R, <<Word(Op("ADDR", addr))>>)
  BY WordSpares
<1>3. SparesAll(R, <<Word(Op("RD", addr)), Step("ready")>>)
  <2>1. SparesAll(R, <<Step("ready")>>)
    BY QuietSpares, QuietAre
  <2> QED BY <1>2, <2>1, TwoAre, SparesJoin
<1>4. SparesAll(R, StandardRead(addr, len))
  BY <1>1, <1>3, SparesJoin DEF StandardRead
<1>5. SparesAll(R, QuadRead(addr, len))
  BY <1>1, <1>2, SparesJoin DEF QuadRead
<1> QED BY <1>4, <1>5

\* The loop over the RX FIFO.
LEMMA FillSpares ==
    ASSUME NEW R, NEW buf, NEW left \in Nat, NEW to_read \in Nat, NEW start \in Nat
    PROVE  SparesAll(R, <<Fill(buf, left, to_read, start)>>)
<1>1. PICK f : f = Fill(buf, left, to_read, start)
  OBVIOUS
<1>2. f.do = "fill" /\ f.left = left /\ f.to_read = to_read /\ f.start = start
  BY <1>1 DEF Fill
<1>3. Spares(R, f)
  BY <1>2 DEF Spares
<1> QED BY <1>1, <1>3, SparesOne

\* Every way to read that a write may use.
LEMMA ReadSpares ==
    ASSUME NEW R, NEW variant \in ReadWays, NEW addr, NEW buf, NEW len \in Nat
    PROVE  SparesAll(R, Read(variant, addr, buf, len))
<1>1. SparesAll(R, <<Return("ERROR")>>) /\ SparesAll(R, <<DmaReady>>) /\ SparesAll(R, <<DmaRx(buf, len)>>)
  BY QuietSpares, QuietAre
<1>2. SparesAll(R, StandardRead(addr, len)) /\ SparesAll(R, QuadRead(addr, len)) /\ SparesAll(R, Tail4(buf, len))
  BY TransferSpares, TailSpares
<1>3. SparesAll(R, ReadFifo(buf, len))
  BY <1>2, FillSpares, SparesJoin DEF ReadFifo
<1>4. SparesAll(R, w25q128jw_read_standard(addr, buf, len)) /\ SparesAll(R, w25q128jw_read_quad(addr, buf, len))
  BY <1>2, <1>3, SparesJoin DEF w25q128jw_read_standard, w25q128jw_read_quad
<1>5. SparesAll(R, w25q128jw_read_standard_dma(addr, buf, len))
  BY <1>1, <1>2, SparesJoin DEF w25q128jw_read_standard_dma
<1>6. SparesAll(R, w25q128jw_read_quad_dma(addr, buf, len))
  <2>1. SparesAll(R, <<DmaRx(buf, len), DmaReady>>)
    BY <1>1, TwoAre, SparesJoin
  <2> QED BY <1>2, <2>1, SparesJoin DEF w25q128jw_read_quad_dma
<1>7. SparesAll(R, w25q128jw_read(addr, buf, len))
  BY <1>1, <1>4, <1>6, SparesJoin DEF w25q128jw_read
<1>8. SparesAll(R, ReadBy(variant, addr, buf, len))
  BY <1>4, <1>5, <1>6, <1>7 DEF ReadBy, ReadWays
<1> QED BY <1>1, <1>8 DEF Read

\* A round of the loop over the RX FIFO.
LEMMA FillRoundSpares ==
    ASSUME NEW R, NEW f, f.left \in Nat, f.to_read \in Nat, f.start \in Nat
    PROVE  SparesAll(R, FillRound(f))
<1>1. \A n : SparesAll(R, <<Watermark(n), Step("rxwm")>>)
  <2> TAKE n
  <2>1. SparesAll(R, <<Watermark(n)>>) /\ SparesAll(R, <<Step("rxwm")>>)
    BY QuietSpares, QuietAre
  <2> QED BY <2>1, TwoAre, SparesJoin
<1>2. ASSUME NEW to \in Nat
      PROVE  SparesAll(R, ReadWords(f.buf, f.start, to))
  <2>1. PICK c \in Nat : c = IF to > f.start THEN to - f.start ELSE 0
    OBVIOUS
  <2> DEFINE s == ReadWords(f.buf, f.start, to)
             S == {ReadWord(f.buf, 4 * (f.start + i - 1), 4) : i \in 1..c}
  <2>2. s = [i \in 1..c |-> ReadWord(f.buf, 4 * (f.start + i - 1), 4)]
    BY <2>1 DEF ReadWords
  <2>3. s \in [1..c -> S] /\ \A i \in 1..c : s[i] = ReadWord(f.buf, 4 * (f.start + i - 1), 4)
    BY <2>2
  <2> HIDE DEF s, S
  <2>4. \A i \in 1..c : Spares(R, s[i])
    BY <2>3, QuietAre, QuietSpares
  <2>5. SparesAll(R, s)
    BY <2>3, <2>4, EachSpares
  <2> QED BY <2>5 DEF s
<1>3. RxDepth \in Nat
  BY HostAssumption
<1>4. CASE f.left >= RxDepth
  <2>1. /\ f.left - RxDepth \in Nat /\ f.to_read + RxDepth \in Nat /\ f.start + RxDepth \div 4 \in Nat
        /\ (f.to_read + RxDepth) \div 4 \in Nat
    BY <1>3, <1>4
  <2>2. SparesAll(R, <<Fill(f.buf, f.left - RxDepth, f.to_read + RxDepth, f.start + RxDepth \div 4)>>)
    BY <2>1, FillSpares
  <2>3. SparesAll(R, ReadWords(f.buf, f.start, (f.to_read + RxDepth) \div 4))
    BY <1>2, <2>1
  <2> QED BY <1>1, <1>4, <2>2, <2>3, SparesJoin DEF FillRound
<1>5. CASE ~(f.left >= RxDepth)
  <2>1. (f.to_read + f.left) \div 4 \in Nat
    OBVIOUS
  <2>2. SparesAll(R, ReadWords(f.buf, f.start, (f.to_read + f.left) \div 4))
    BY <1>2, <2>1
  <2> QED BY <1>1, <1>5, <2>2, SparesJoin DEF FillRound
<1> QED BY <1>4, <1>5

-----------------------------------------------------------------------------
(* Pages and sectors.                                                      *)

\* The data of a page, from the processor or from the DMA.
LEMMA DataSpares ==
    ASSUME NEW R, NEW buf, NEW at, NEW len \in Nat
    PROVE  SparesAll(R, DataWords(buf, at, len)) /\ SparesAll(R, dma_send_toflash(buf, at, len))
<1>1. ASSUME NEW b, NEW n \in Nat
      PROVE  SparesAll(R, DataWords(buf, b, n))
  <2> DEFINE s == DataWords(buf, b, n)
             step(i) == [do |-> "data", buf |-> buf, at |-> b + 4 * (i - 1), n |-> Min({4, n - 4 * (i - 1)})]
             c == LenWords(n)
             S == {step(i) : i \in 1..c}
  <2>1. s = [i \in 1..c |-> step(i)]
    BY DEF DataWords
  <2>2. s \in [1..c -> S] /\ \A i \in 1..c : s[i] = step(i)
    BY <2>1
  <2>3. \A i \in 1..c : step(i).do = "data"
    OBVIOUS
  <2>4. c \in Nat
    BY DEF LenWords
  <2> HIDE DEF s, S, step, c
  <2>5. \A i \in 1..c : Spares(R, s[i])
    BY <2>2, <2>3, QuietSpares DEF Quiet
  <2>6. SparesAll(R, s)
    BY <2>2, <2>4, <2>5, EachSpares
  <2> QED BY <2>6 DEF s
<1>2. CASE len < 4
  BY <1>1, <1>2, SparesNone DEF dma_send_toflash
<1>3. CASE ~(len < 4)
  <2>1. PICK d : d = [do |-> "dma", dir |-> "tx", buf |-> buf, at |-> at, n |-> len \div 4]
    OBVIOUS
  <2>2. d.do = "dma"
    BY <2>1
  <2>3. SparesAll(R, <<d, DmaReady>>)
    <3>1. SparesAll(R, <<d>>) /\ SparesAll(R, <<DmaReady>>)
      BY <2>2, QuietSpares, QuietAre DEF Quiet
    <3> QED BY <3>1, TwoAre, SparesJoin
  <2>4. len % 4 \in Nat
    OBVIOUS
  <2>5. SparesAll(R, DataWords(buf, at + 4 * (len \div 4), len % 4))
    BY <1>1, <2>4
  <2>6. dma_send_toflash(buf, at, len) = <<d, DmaReady>> \o DataWords(buf, at + 4 * (len \div 4), len % 4)
    BY <1>3, <2>1 DEF dma_send_toflash
  <2> QED BY <1>1, <2>3, <2>5, <2>6, SparesJoin
<1> QED BY <1>2, <1>3

\* The write of a page at an address in R.
LEMMA PageSpares ==
    ASSUME NEW R, NEW variant, NEW addr \in R, NEW buf, NEW at, NEW len \in Nat
    PROVE  SparesAll(R, page_write(variant, addr, buf, at, len))
<1>1. \A n, csaat, direction : SparesAll(R, Command(n, csaat, direction))
  BY CommandSpares
<1>2. SparesAll(R, flash_wait) /\ SparesAll(R, flash_write_enable)
  BY WaitSpares
<1>3. PICK op, data : /\ op = (IF UsesQuad(variant) THEN "PPQ" ELSE "PP")
                      /\ data = (IF UsesDma(variant) THEN dma_send_toflash(buf, at, len) ELSE DataWords(buf, at, len))
  OBVIOUS
<1>4. SparesAll(R, <<Word(Op(op, addr))>>)
  <2>1. op \notin {"BE32", "BE64", "CE"}
    BY <1>3
  <2> QED BY <2>1, WordSpares
<1>5. SparesAll(R, data)
  BY <1>3, DataSpares
<1>6. page_write(variant, addr, buf, at, len) =
        flash_write_enable \o <<Word(Op(op, addr))>> \o Command(4, TRUE, "TX_ONLY") \o data
            \o Command(len, FALSE, "TX_ONLY") \o flash_wait
  BY <1>3, Zenon DEF page_write
<1>7. /\ SparesAll(R, flash_write_enable \o <<Word(Op(op, addr))>>)
      /\ SparesAll(R, flash_write_enable \o <<Word(Op(op, addr))>> \o Command(4, TRUE, "TX_ONLY"))
  BY <1>1, <1>2, <1>4, SparesJoin
<1> QED BY <1>1, <1>2, <1>5, <1>6, <1>7, SparesJoin

\* The range of the pages, or of the sectors, is in R.
Within(R, addr, len) == addr \in Nat /\ len \in Nat /\ \A a \in addr..addr + len - 1 : a \in R

\* A part of the range.
LEMMA WithinIs ==
    ASSUME NEW R, NEW addr, NEW len, Within(R, addr, len), NEW n \in Nat, n <= len
    PROVE  Within(R, addr + n, len - n) /\ Within(R, addr, n) /\ (len > 0 => addr \in R)
<1>1. addr \in Nat /\ len \in Nat /\ \A a \in addr..addr + len - 1 : a \in R
  BY DEF Within
<1>2. /\ addr + n \in Nat /\ len - n \in Nat
      /\ \A a \in addr + n..addr + n + (len - n) - 1 : a \in addr..addr + len - 1
      /\ \A a \in addr..addr + n - 1 : a \in addr..addr + len - 1
      /\ len > 0 => addr \in addr..addr + len - 1
  BY <1>1
<1> QED BY <1>1, <1>2 DEF Within

\* The loop over the pages.
LEMMA PagesSpares ==
    ASSUME NEW R, NEW variant, NEW addr, NEW buf, NEW at, NEW len, Within(R, addr, len), len > 0
    PROVE  SparesAll(R, <<Pages(variant, addr, buf, at, len)>>)
<1>1. PICK p : p = Pages(variant, addr, buf, at, len)
  OBVIOUS
<1>2. p.do = "pages" /\ p.addr = addr /\ p.len = len
  BY <1>1 DEF Pages
<1>3. Spares(R, p)
  BY <1>2 DEF Spares, Within
<1> QED BY <1>1, <1>3, SparesOne

\* A round of the loop over the pages.
LEMMA PagesRoundSpares ==
    ASSUME NEW R, NEW p, Within(R, p.addr, p.len), p.len > 0
    PROVE  SparesAll(R, PagesRound(p))
<1>1. p.addr \in Nat /\ p.len \in Nat /\ FLASH_PAGE_SIZE \in Nat /\ p.addr \in R
  BY SizesAssumption, WithinIs DEF Within
<1>2. CASE p.len > FLASH_PAGE_SIZE
  <2>1. Within(R, p.addr + FLASH_PAGE_SIZE, p.len - FLASH_PAGE_SIZE) /\ p.len - FLASH_PAGE_SIZE > 0
    BY <1>1, <1>2, WithinIs
  <2>2. SparesAll(R, <<Pages(p.variant, p.addr + FLASH_PAGE_SIZE, p.buf, p.at + FLASH_PAGE_SIZE, p.len - FLASH_PAGE_SIZE)>>)
    BY <2>1, PagesSpares
  <2>3. SparesAll(R, page_write(p.variant, p.addr, p.buf, p.at, FLASH_PAGE_SIZE))
    BY <1>1, PageSpares
  <2> QED BY <1>2, <2>2, <2>3, SparesJoin DEF PagesRound
<1>3. CASE ~(p.len > FLASH_PAGE_SIZE)
  BY <1>1, <1>3, PageSpares DEF PagesRound
<1> QED BY <1>2, <1>3

\* What is programmed on the way to the pages that are whole.
LEMMA WriteSpares ==
    ASSUME NEW R, NEW variant, NEW addr, NEW buf, NEW len, Within(R, addr, len)
    PROVE  SparesAll(R, Write(variant, addr, buf, len))
<1> DEFINE page == FLASH_PAGE_SIZE
           in_page == addr % page
           tmp_len == IF in_page = 0 THEN 0 ELSE Min({page - in_page, len})
           first == IF in_page # 0 THEN page_write(variant, addr, buf, 0, tmp_len) ELSE <<>>
           rest == IF len > tmp_len
                   THEN <<Pages(variant, addr + tmp_len, buf, tmp_len, len - tmp_len)>> ELSE <<>>
<1>1. CASE ~Sane(addr, len)
  <2>1. page_write_wrapper(variant, addr, buf, len) = <<Return("ERROR")>>
    BY <1>1 DEF page_write_wrapper
  <2>2. SparesAll(R, <<Return("ERROR")>>)
    BY QuietSpares, QuietAre
  <2> QED BY <1>1, <2>1, <2>2 DEF Write
<1>2. CASE Sane(addr, len)
  <2>1. /\ addr \in Nat /\ len \in Nat /\ len > 0 /\ page \in Nat \ {0} /\ addr \in R
    <3>1. addr \in Nat /\ len \in Nat /\ len > 0 /\ page \in Nat \ {0}
      BY <1>2, SizesAssumption DEF Sane, Within
    <3>2. 0 \in Nat /\ 0 <= len
      BY <3>1
    <3> QED BY <3>1, <3>2, WithinIs
  <2>2. page_write_wrapper(variant, addr, buf, len) = first \o rest
    BY <1>2 DEF page_write_wrapper
  <2>3. in_page \in 0..page - 1
    BY <2>1, Divided
  <2>4. tmp_len \in Nat /\ tmp_len <= len
    <3> HIDE DEF in_page, page
    <3>1. CASE in_page = 0
      BY <2>1, <3>1
    <3>2. CASE in_page # 0
      <4>1. page - in_page \in Nat /\ len \in Nat
        BY <2>1, <2>3
      <4>2. tmp_len = IF page - in_page <= len THEN page - in_page ELSE len
        BY <4>1, <3>2, MinOfTwo
      <4> QED BY <4>1, <4>2
    <3> QED BY <3>1, <3>2
  <2> HIDE DEF tmp_len, in_page, page
  <2>5. SparesAll(R, first)
    BY <2>1, <2>4, PageSpares, SparesNone
  <2>6. SparesAll(R, rest)
    <3>1. CASE len > tmp_len
      <4>1. Within(R, addr + tmp_len, len - tmp_len) /\ len - tmp_len > 0
        BY <2>1, <2>4, <3>1, WithinIs
      <4> QED BY <3>1, <4>1, PagesSpares
    <3>2. CASE ~(len > tmp_len)
      BY <3>2, SparesNone
    <3> QED BY <3>1, <3>2
  <2> HIDE DEF first, rest
  <2>7. SparesAll(R, page_write_wrapper(variant, addr, buf, len))
    BY <2>2, <2>5, <2>6, SparesJoin
  <2>8. SparesAll(R, <<DmaReady>>)
    BY QuietSpares, QuietAre
  <2> QED BY <2>7, <2>8, SparesJoin DEF Write
<1> QED BY <1>1, <1>2

\* An erase of one sector.
LEMMA SectorEraseSpares ==
    ASSUME NEW R, NEW addr \in R
    PROVE  SparesAll(R, w25q128jw_4k_erase(addr))
<1>1. SparesAll(R, flash_wait) /\ SparesAll(R, flash_write_enable) /\ SparesAll(R, Command(4, FALSE, "TX_ONLY"))
  BY WaitSpares, CommandSpares
<1>2. SparesAll(R, <<Word(Op("SE", addr)), Step("ready")>>)
  <2>1. SparesAll(R, <<Word(Op("SE", addr))>>)
    BY WordSpares
  <2>2. SparesAll(R, <<Step("ready")>>)
    BY QuietSpares, QuietAre
  <2> QED BY <2>1, <2>2, TwoAre, SparesJoin
<1>3. SparesAll(R, EraseCommand("SE", addr, 4))
  BY <1>1, <1>2, SparesJoin DEF EraseCommand
<1> QED BY <1>3, SparesNone DEF w25q128jw_4k_erase, IfInFlash

\* The quotient of a sum with a rest.
LEMMA QuotientIs ==
    ASSUME NEW p \in Nat \ {0}, NEW d \in Nat, NEW k \in 0..p - 1
    PROVE  p * d + k \in Nat /\ (p * d + k) \div p = d
<1> DEFINE a == p * d + k
           e == a \div p
           j == a % p
<1>1. p * d \in Nat /\ a \in Nat
  OBVIOUS
<1>2. a = p * e + j /\ j \in 0..p - 1 /\ e \in Nat
  BY <1>1, Divided
<1>3. a = p * d + k
  OBVIOUS
<1> HIDE DEF a, e, j
<1>4. ~(e < d)
  <2> SUFFICES ASSUME e < d PROVE FALSE
    OBVIOUS
  <2>1. PICK m \in Nat : d = e + 1 + m
    <3>1. d - e - 1 \in Nat /\ d = e + 1 + (d - e - 1)
      BY <1>2
    <3> QED BY <3>1
  <2>2. p * d = p * e + p + p * m /\ p * m \in Nat /\ p * e \in Nat
    BY <1>2, <2>1
  <2> QED BY <1>2, <1>3, <2>2
<1>5. ~(d < e)
  <2> SUFFICES ASSUME d < e PROVE FALSE
    OBVIOUS
  <2>1. PICK m \in Nat : e = d + 1 + m
    <3>1. e - d - 1 \in Nat /\ e = d + 1 + (e - d - 1)
      BY <1>2
    <3> QED BY <3>1
  <2>2. p * e = p * d + p + p * m /\ p * m \in Nat /\ p * d \in Nat
    BY <1>2, <2>1
  <2> QED BY <1>2, <1>3, <2>2
<1>6. e = d
  BY <1>2, <1>4, <1>5
<1> QED BY <1>1, <1>6 DEF a, e

\* The sector of an address.
LEMMA SectorIs ==
    ASSUME NEW R, Closed(R), NEW addr \in R
    PROVE  Within(R, AlignDown(addr, FLASH_SECTOR_SIZE), FLASH_SECTOR_SIZE)
<1> DEFINE S == FLASH_SECTOR_SIZE
           d == addr \div S
           r == addr % S
<1>1. S \in Nat \ {0} /\ addr \in Nat
  BY SizesAssumption DEF Closed
<1>2. d \in Nat /\ r \in 0..S - 1 /\ addr = S * d + r
  BY <1>1, Divided
<1>3. AlignDown(addr, S) = S * d
  <2>1. AlignDown(addr, S) = addr - r
    BY DEF AlignDown
  <2> HIDE DEF d, r, S
  <2>2. S * d \in Nat
    BY <1>1, <1>2
  <2> QED BY <1>1, <1>2, <2>1, <2>2
<1> HIDE DEF r
<1>4. ASSUME NEW a \in S * d..S * d + S - 1
      PROVE  a \in R
  <2> HIDE DEF d, S
  <2>1. PICK b \in Nat : b = S * d
    BY <1>1, <1>2
  <2>2. PICK k \in 0..S - 1 : a = S * d + k
    <3>1. a - b \in 0..S - 1 /\ a = b + (a - b)
      BY <1>1, <2>1
    <3> QED BY <2>1, <3>1
  <2>3. a \in Nat /\ a \div S = d
    BY <1>1, <1>2, <2>2, QuotientIs
  <2> QED BY <2>3 DEF Closed, d, S
<1>5. S * d \in Nat
  <2> HIDE DEF d, S
  <2> QED BY <1>1, <1>2
<1> HIDE DEF d
<1> QED BY <1>1, <1>3, <1>4, <1>5 DEF Within

\* The loop over the sectors.
LEMMA SectorsSpares ==
    ASSUME NEW R, NEW variant \in ReadWays, NEW addr, NEW at, NEW len, Within(R, addr, len)
    PROVE  SparesAll(R, <<Sectors(variant, addr, at, len)>>)
<1>1. PICK s : s = Sectors(variant, addr, at, len)
  OBVIOUS
<1>2. s.do = "sectors" /\ s.addr = addr /\ s.len = len /\ s.variant = variant
  BY <1>1 DEF Sectors
<1>3. Spares(R, s)
  BY <1>2 DEF Spares, Within
<1> QED BY <1>1, <1>3, SparesOne

\* A round of the loop over the sectors: the sector erased and written is one
\* that the range touches.
LEMMA SectorsRoundSpares ==
    ASSUME NEW R, Closed(R), NEW s, s.variant \in ReadWays, Within(R, s.addr, s.len)
    PROVE  SparesAll(R, SectorsRound(s))
<1> DEFINE sector_size == FLASH_SECTOR_SIZE
           start == AlignDown(s.addr, sector_size)
           write_length == Min({sector_size - (s.addr - start), s.len})
           copy == [do |-> "memcpy", to |-> s.addr - start, at |-> s.at, n |-> write_length]
           rest == Sectors(s.variant, s.addr + write_length, s.at + write_length, s.len - write_length)
<1>1. s.addr \in Nat /\ s.len \in Nat /\ sector_size \in Nat \ {0}
  BY SizesAssumption DEF Within
<1>2. CASE s.len = 0
  BY <1>2, SparesNone DEF SectorsRound
<1>3. CASE s.len # 0
  <2>1. s.addr \in R
    <3>1. 0 \in Nat /\ 0 <= s.len /\ s.len > 0
      BY <1>1, <1>3
    <3> QED BY <3>1, WithinIs
  <2>2. start \in Nat /\ s.addr - start \in 0..sector_size - 1
    BY <1>1, StartIs
  <2>3. Within(R, start, sector_size) /\ start \in R
    <3>1. Within(R, start, sector_size)
      BY <2>1, SectorIs
    <3> HIDE DEF start
    <3>2. 0 \in Nat /\ 0 <= sector_size /\ sector_size > 0
      BY <1>1
    <3> QED BY <3>1, <3>2, WithinIs
  <2>4. write_length \in Nat /\ write_length <= s.len
    <3> HIDE DEF start
    <3>1. PICK m \in Nat : m = sector_size - (s.addr - start)
      BY <1>1, <2>2
    <3>2. Min({m, s.len}) \in Nat /\ Min({m, s.len}) <= s.len
      BY <1>1, <3>1, MinOfTwo
    <3> QED BY <3>1, <3>2
  <2>5. SectorsRound(s) =
          Read(s.variant, start, "sector", sector_size) \o w25q128jw_4k_erase(start) \o <<copy>>
            \o Write(s.variant, start, "sector", sector_size) \o <<rest>>
    BY <1>3 DEF SectorsRound
  <2>6. copy.do = "memcpy"
    OBVIOUS
  <2>7. Within(R, s.addr + write_length, s.len - write_length)
    <3> HIDE DEF write_length
    <3> QED BY <2>4, WithinIs
  <2> HIDE DEF copy, write_length, start
  <2>8. SparesAll(R, Read(s.variant, start, "sector", sector_size))
    BY <1>1, ReadSpares
  <2>9. SparesAll(R, w25q128jw_4k_erase(start))
    BY <2>3, SectorEraseSpares
  <2>10. SparesAll(R, <<copy>>)
    BY <2>6, QuietSpares DEF Quiet
  <2>11. SparesAll(R, Write(s.variant, start, "sector", sector_size))
    BY <2>3, WriteSpares
  <2>12. SparesAll(R, <<rest>>)
    BY <2>7, SectorsSpares
  <2> HIDE DEF rest, sector_size
  <2>13. SparesAll(R, Read(s.variant, start, "sector", sector_size) \o w25q128jw_4k_erase(start))
    BY <2>8, <2>9, SparesJoin
  <2>14. SparesAll(R, Read(s.variant, start, "sector", sector_size) \o w25q128jw_4k_erase(start) \o <<copy>>)
    BY <2>10, <2>13, SparesJoin
  <2> QED BY <2>5, <2>11, <2>12, <2>14, SparesJoin
<1> QED BY <1>2, <1>3

\* A call that writes.
LEMMA ProgramSpares ==
    ASSUME NEW c, WellFormed(c), c.fn \in Writes
    PROVE  SparesAll(Region(c), Program(c))
<1> DEFINE R == Region(c)
<1>1. Within(R, c.addr, c.len)
  BY RegionIs DEF WellFormed, Within
<1>2. \A code : SparesAll(R, <<Return(code)>>)
  BY QuietSpares, QuietAre
<1> HIDE DEF R
<1>3. CASE c.fn = "write"
  <2>1. SparesAll(R, Write(c.variant, c.addr, "user", c.len))
    BY <1>1, WriteSpares
  <2>2. Program(c) = Write(c.variant, c.addr, "user", c.len) \o <<Return("OK")>>
    BY <1>3 DEF Program
  <2> QED BY <1>2, <2>1, <2>2, SparesJoin DEF R
<1>4. CASE c.fn = "erase_and_write"
  <2>1. c.variant \in ReadWays
    BY <1>4 DEF WellFormed
  <2>2. SparesAll(R, EraseAndWrite(c.variant, c.addr, c.len))
    <3>1. \A v \in ReadWays : SparesAll(R, <<Sectors(v, c.addr, 0, c.len)>>)
      BY <1>1, SectorsSpares
    <3>2. CASE c.variant = "standard"
      BY <3>1, <3>2 DEF EraseAndWrite, w25q128jw_erase_and_write_standard, ReadWays
    <3>3. CASE c.variant = "standard_dma"
      BY <3>1, <3>3 DEF EraseAndWrite, w25q128jw_erase_and_write_standard_dma, ReadWays
    <3>4. CASE c.variant = "quad"
      BY <3>1, <3>4 DEF EraseAndWrite, w25q128jw_erase_and_write_quad, ReadWays
    <3>5. CASE c.variant = "quad_dma"
      BY <3>1, <3>5 DEF EraseAndWrite, w25q128jw_erase_and_write_quad_dma, ReadWays
    <3>6. CASE c.variant = "auto"
      BY <1>2, <3>1, <3>6 DEF EraseAndWrite, erase_and_write, ReadWays
    <3> QED BY <2>1, <3>2, <3>3, <3>4, <3>5, <3>6 DEF ReadWays
  <2>3. Program(c) = EraseAndWrite(c.variant, c.addr, c.len) \o <<Return("OK")>>
    BY <1>4 DEF Program
  <2> QED BY <1>2, <2>2, <2>3, SparesJoin DEF R
<1> QED BY <1>3, <1>4 DEF Writes

-----------------------------------------------------------------------------
(* What the flash does to its memory.                                      *)

\* An address in the page of another is in its sector: a sector is a whole
\* number of pages.
LEMMA PageInSector ==
    ASSUME NEW addr \in Nat, NEW t \in 0..FLASH_PAGE_SIZE - 1, NEW a, a = AlignDown(addr, FLASH_PAGE_SIZE) + t
    PROVE  a \in Nat /\ a \div FLASH_SECTOR_SIZE = addr \div FLASH_SECTOR_SIZE
<1>1. PICK p, S : p = FLASH_PAGE_SIZE /\ S = FLASH_SECTOR_SIZE
  OBVIOUS
<1>2. p \in Nat \ {0} /\ S \in Nat \ {0} /\ S % p = 0
  BY <1>1, SizesAssumption, GeometryAssumption
<1>3. PICK m \in Nat : S = p * m
  <2>1. PICK n : n = S \div p
    OBVIOUS
  <2>2. S = p * n + (S % p) /\ n \in Nat
    BY <1>2, <2>1, Divided
  <2>3. p * n \in Nat
    BY <1>2, <2>2
  <2>4. S = p * n
    BY <1>2, <2>2, <2>3
  <2> QED BY <2>2, <2>4
<1>4. m \in Nat \ {0}
  BY <1>2, <1>3
<1>5. PICK d \in Nat, r \in 0..p - 1 : addr = p * d + r /\ AlignDown(addr, p) = addr - r
  <2>1. addr = p * (addr \div p) + (addr % p) /\ addr % p \in 0..p - 1 /\ addr \div p \in Nat
    BY <1>2, Divided
  <2> QED BY <2>1 DEF AlignDown
<1>6. PICK e \in Nat, g \in 0..m - 1 : d = m * e + g
  <2>1. d = m * (d \div m) + (d % m) /\ d % m \in 0..m - 1 /\ d \div m \in Nat
    BY <1>4, <1>5, Divided
  <2> QED BY <2>1
<1>7. PICK x \in Nat, y \in Nat : x = S * e /\ y = p * g /\ y <= S - p /\ p * d = x + y
  <2>1. p * d = p * (m * e) + p * g
    BY <1>2, <1>4, <1>6
  <2>2. p * (m * e) = S * e
    BY <1>2, <1>3, <1>4
  <2>3. S * e \in Nat /\ p * g \in Nat
    BY <1>2, <1>6
  <2>4. p * g <= S - p
    <3>1. PICK h \in Nat : m = g + 1 + h
      <4>1. m - g - 1 \in Nat /\ m = g + 1 + (m - g - 1)
        BY <1>4, <1>6
      <4> QED BY <4>1
    <3>2. S = p * g + p + p * h /\ p * h \in Nat
      BY <1>2, <1>3, <1>6, <3>1
    <3> QED BY <1>2, <2>3, <3>2
  <2> QED BY <2>1, <2>2, <2>3, <2>4
<1>8. y + t \in 0..S - 1 /\ y + r \in 0..S - 1
  BY <1>1, <1>2, <1>5, <1>7
<1>9. a = S * e + (y + t) /\ addr = S * e + (y + r)
  BY <1>1, <1>2, <1>5, <1>7
<1>10. a \in Nat /\ a \div S = e /\ addr \div S = e
  <2>1. PICK k \in 0..S - 1, l \in 0..S - 1 : k = y + t /\ l = y + r
    BY <1>8
  <2>2. a = S * e + k /\ addr = S * e + l
    BY <1>9, <2>1
  <2>3. S * e + k \in Nat /\ (S * e + k) \div S = e /\ (S * e + l) \div S = e
    BY <1>2, QuotientIs
  <2> QED BY <2>2, <2>3, Zenon
<1> QED BY <1>1, <1>10

\* The command under way changes the memory of R only.
LEMMA ExecuteSpares ==
    ASSUME NEW R, Closed(R), Execute,
           flash.sel # <<>> => /\ Harmless(R, flash.sel[1])
                               /\ flash.sel[1].op \in {"PP", "PPQ"} => IsSequence(flash.sel[1].bytes)
    PROVE  \A a \in Addresses : mem'[a] = mem[a] \/ a \in R
<1> DEFINE s == flash.sel[1]
<1>1. \/ mem' = mem
      \/ flash.sel # <<>> /\ s.op \in {"PP", "PPQ"} /\ mem' = ProgramPage(s)
      \/ flash.sel # <<>> /\ s.op \in {"SE", "BE32", "BE64", "CE"} /\ mem' = EraseBlock(s)
  BY DEF Execute
<1>2. CASE mem' = mem
  BY <1>2
<1>3. CASE flash.sel # <<>> /\ s.op \in {"PP", "PPQ"} /\ mem' = ProgramPage(s)
  <2>1. s.addr \in R /\ s.addr \in Nat /\ IsSequence(s.bytes)
    BY <1>3 DEF Harmless, Closed
  <2>2. DOMAIN s.bytes \subseteq Nat
    <3>1. PICK S : s.bytes \in Seq(S)
      BY <2>1 DEF IsSequence
    <3> QED BY <3>1, LenProperties
  <2> DEFINE page == AlignDown(s.addr, FLASH_PAGE_SIZE)
             target(i) == page + ((s.addr + i - 1) % FLASH_PAGE_SIZE)
  <2>3. ASSUME NEW i \in DOMAIN s.bytes
        PROVE  target(i) \in R
    <3>1. PICK t : t = (s.addr + i - 1) % FLASH_PAGE_SIZE
      OBVIOUS
    <3>2. t \in 0..FLASH_PAGE_SIZE - 1
      BY <2>1, <2>2, <3>1, SizesAssumption
    <3>3. target(i) \in Nat /\ target(i) \div FLASH_SECTOR_SIZE = s.addr \div FLASH_SECTOR_SIZE
      BY <2>1, <3>1, <3>2, PageInSector
    <3> HIDE DEF target
    <3> QED BY <2>1, <3>3 DEF Closed
  <2>4. ASSUME NEW a \in Addresses
        PROVE  mem'[a] = mem[a] \/ a \in R
    <3>1. CASE \E i \in DOMAIN s.bytes : target(i) = a
      BY <2>3, <3>1
    <3>2. CASE ~ \E i \in DOMAIN s.bytes : target(i) = a
      BY <1>3, <3>2 DEF ProgramPage
    <3> QED BY <3>1, <3>2
  <2> QED BY <2>4
<1>4. CASE flash.sel # <<>> /\ s.op \in {"SE", "BE32", "BE64", "CE"} /\ mem' = EraseBlock(s)
  <2>1. s.op = "SE" /\ s.addr \in R
    BY <1>4 DEF Harmless
  <2>2. EraseSize(s.op) = FLASH_SECTOR_SIZE
    BY <2>1 DEF EraseSize
  <2>3. \A a \in Addresses : a \in Nat
    BY DEF Addresses
  <2>4. ASSUME NEW a \in Addresses
        PROVE  mem'[a] = mem[a] \/ a \in R
    <3>1. mem'[a] = mem[a] \/ a \div FLASH_SECTOR_SIZE = s.addr \div FLASH_SECTOR_SIZE
      BY <1>4, <2>2 DEF EraseBlock
    <3> QED BY <2>1, <2>3, <3>1 DEF Closed
  <2> QED BY <2>4
<1> QED BY <1>1, <1>2, <1>3, <1>4

-----------------------------------------------------------------------------
(* The invariant of a write, and the steps beside it.                      *)

\* The command in the shift register is harmless, and its data, if it
\* programs a page, is a sequence.
SelHarmless(R) ==
    flash.sel # <<>> => /\ Harmless(R, flash.sel[1])
                        /\ flash.sel[1].op \in {"PP", "PPQ"} => IsSequence(flash.sel[1].bytes)

\* Nothing outside R has changed, and nothing that is under way or still to be
\* done will change it.
Limited(R, before) ==
    /\ \A a \in Addresses : mem[a] = before[a] \/ a \in R
    /\ SparesAll(R, prog)
    /\ \A i \in 1..Len(tx) : Harmless(R, tx[i])
    /\ SelHarmless(R)
Confined ==
    call.fn \in Writes => call.addr \in Nat /\ call.len \in Nat /\ Limited(Region(call), call.before)

\* A word goes to the flash.
LEMMA ExchangeSpares ==
    ASSUME HostKnown, ExchangeWord, NEW R, SelHarmless(R), \A i \in 1..Len(tx) : Harmless(R, tx[i])
    PROVE  SelHarmless(R)' /\ (\A i \in 1..Len(tx) : Harmless(R, tx[i]))'
<1> DEFINE sel == IF Sends(cur[1].cmd) THEN Shift(Head(tx))
                  ELSE IF flash.sel = <<>> THEN flash.sel
                  ELSE <<Clocked(flash.sel[1])>>
           s == flash.sel[1]
<1>1. flash'.sel = sel
  <2>1. flash' = [flash EXCEPT !.sel = sel]
    BY DEF ExchangeWord
  <2>2. flash = [sel |-> flash.sel, busy |-> flash.busy, wel |-> flash.wel, qe |-> flash.qe,
                armed |-> flash.armed, down |-> flash.down, lost |-> flash.lost]
    BY DEF HostKnown, FlashTyped
  <2> HIDE DEF sel
  <2>3. flash' = [sel |-> sel, busy |-> flash.busy, wel |-> flash.wel, qe |-> flash.qe,
                armed |-> flash.armed, down |-> flash.down, lost |-> flash.lost]
    BY <2>1, <2>2
  <2> QED BY <2>3
<1>2. flash.sel # <<>> => s = [op |-> s.op, addr |-> s.addr, bytes |-> s.bytes, sent |-> s.sent, taken |-> s.taken]
  BY DEF HostKnown, FlashTyped, IsRecordOfSel
<1>3. /\ Sends(cur[1].cmd) => tx # <<>> /\ tx' = Tail(tx)
      /\ ~Sends(cur[1].cmd) => tx' = tx
      /\ cur[1].left \in Nat /\ cur[1] = Pend[1] /\ 1 \in 1..Len(Pend)
  BY ExchangeIs
<1>4. ASSUME Sends(cur[1].cmd)
      PROVE  Head(tx) = tx[1] /\ Harmless(R, tx[1]) /\ (\A i \in 1..Len(tx) : Harmless(R, tx[i]))'
  <2>1. /\ IsSequence(tx) /\ Len(tx) \in Nat /\ Len(tx) >= 1 /\ Len(Tail(tx)) = Len(tx) - 1 /\ Head(tx) = tx[1]
        /\ \A i \in 1..Len(tx) - 1 : Tail(tx)[i] = tx[i + 1]
    BY <1>3, <1>4, TailIs DEF HostKnown, HostTyped
  <2>2. \A i \in 1..Len(tx) - 1 : i + 1 \in 1..Len(tx)
    BY <2>1
  <2>3. \A i \in 1..Len(tx') : Harmless(R, tx'[i])
    BY <1>3, <1>4, <2>1, <2>2
  <2>4. 1 \in 1..Len(tx)
    BY <2>1
  <2> QED BY <2>1, <2>3, <2>4 DEF Harmless
<1>5. ASSUME ~Sends(cur[1].cmd)
      PROVE  (\A i \in 1..Len(tx) : Harmless(R, tx[i]))'
  BY <1>3, <1>5 DEF Harmless
<1>6. ASSUME sel # <<>>
      PROVE  Harmless(R, sel[1]) /\ (sel[1].op \in {"PP", "PPQ"} => IsSequence(sel[1].bytes))
  <2>1. CASE ~Sends(cur[1].cmd)
    <3>1. flash.sel # <<>> /\ sel = <<Clocked(s)>>
      BY <1>6, <2>1
    <3>2. Clocked(s) = [op |-> s.op, addr |-> s.addr, bytes |-> s.bytes, sent |-> s.sent + BytesNow, taken |-> s.taken]
      BY <1>2, <3>1 DEF Clocked
    <3>3. Clocked(s).op = s.op /\ Clocked(s).addr = s.addr /\ Clocked(s).bytes = s.bytes
      BY <3>2
    <3>4. sel[1] = Clocked(s)
      BY <3>1
    <3> QED BY <3>1, <3>3, <3>4 DEF SelHarmless, Harmless
  <2>2. CASE Sends(cur[1].cmd) /\ flash.sel = <<>>
    <3>1. PICK w : w = tx[1]
      OBVIOUS
    <3>2. Head(tx) = w /\ Harmless(R, w)
      BY <1>4, <2>2, <3>1
    <3> DEFINE tk == Takes(w.op)
               u == [op |-> w.op, addr |-> w.addr, bytes |-> <<>>, sent |-> 0, taken |-> tk]
    <3>3. sel = <<u>>
      BY <2>2, <3>2 DEF Shift
    <3> HIDE DEF sel, tk
    <3>4. u.op = w.op /\ u.addr = w.addr /\ u.bytes = <<>>
      OBVIOUS
    <3>5. sel[1] = u
      BY <3>3
    <3> QED BY <3>2, <3>4, <3>5, EmptyIs DEF Harmless
  <2>3. CASE Sends(cur[1].cmd) /\ flash.sel # <<>>
    <3>1. PICK w, add : w = Head(tx) /\ add = SubSeq(w.bytes \o <<Garbage, Garbage, Garbage, Garbage>>, 1, BytesNow)
      OBVIOUS
    <3>2. IsSequence(add)
      <4>1. cur[1].cmd.len \in Nat /\ cur[1].left \in Nat
        BY <1>3 DEF HostKnown, Commands
      <4>2. WordsOf(cur[1].cmd) \in Nat
        BY <4>1 DEF WordsOf, LenWords
      <4>3. cur[1].cmd.len - 4 * (WordsOf(cur[1].cmd) - cur[1].left) \in Int
        BY <4>1, <4>2
      <4>4. PICK n \in Int : n = cur[1].cmd.len - 4 * (WordsOf(cur[1].cmd) - cur[1].left)
        BY <4>3
      <4>5. BytesNow = Min({4, n})
        BY <4>4 DEF BytesNow
      <4>6. BytesNow \in Int
        BY <4>5, MinOfTwo
      <4>7. PICK v, b : b = BytesNow /\ v = w.bytes \o <<Garbage, Garbage, Garbage, Garbage>> /\ b \in Int
        BY <4>6
      <4> DEFINE S == {v[i] : i \in 1..b}
      <4>8. \A i \in 1..b : v[i] \in S
        OBVIOUS
      <4> HIDE DEF S
      <4>a. 1 \in Int /\ b \in Int
        BY <4>7
      <4>9. SubSeq(v, 1, b) \in Seq(S)
        BY <4>8, <4>a, SubSeqProperties, Zenon
      <4> QED BY <3>1, <4>7, <4>9 DEF IsSequence
    <3>3. IsSequence(s.bytes) => IsSequence(s.bytes \o add)
      BY <3>2, SequenceIs
    <3> DEFINE u == IF s.op = "RDQIO" THEN [s EXCEPT !.addr = w.addr] ELSE [s EXCEPT !.bytes = s.bytes \o add]
    <3>4. sel = <<u>>
      BY <2>3, <3>1 DEF Shift
    <3>5. s = [op |-> s.op, addr |-> s.addr, bytes |-> s.bytes, sent |-> s.sent, taken |-> s.taken]
      BY <1>2, <2>3
    <3>6. u.op = s.op /\ (s.op # "RDQIO" => u.addr = s.addr /\ u.bytes = s.bytes \o add)
      <4> DEFINE more == s.bytes \o add
      <4> HIDE DEF s, sel, more
      <4>1. CASE s.op = "RDQIO"
        <5>1. u = [op |-> s.op, addr |-> w.addr, bytes |-> s.bytes, sent |-> s.sent, taken |-> s.taken]
          BY <3>5, <4>1 DEF more
        <5> HIDE DEF u
        <5> QED BY <4>1, <5>1
      <4>2. CASE s.op # "RDQIO"
        <5>1. u = [op |-> s.op, addr |-> s.addr, bytes |-> more, sent |-> s.sent, taken |-> s.taken]
          BY <3>5, <4>2 DEF more
        <5> HIDE DEF u
        <5>2. u.op = s.op /\ u.addr = s.addr /\ u.bytes = more
          BY <5>1
        <5> QED BY <5>2 DEF more
      <4> QED BY <4>1, <4>2
    <3> HIDE DEF u
    <3>7. sel[1] = u
      BY <3>4
    <3>8. Harmless(R, s) /\ (s.op \in {"PP", "PPQ"} => IsSequence(s.bytes))
      BY <2>3 DEF SelHarmless
    <3> QED BY <3>3, <3>6, <3>7, <3>8 DEF Harmless
  <2> QED BY <2>1, <2>2, <2>3
<1> HIDE DEF sel
<1>7. SelHarmless(R)' = (flash'.sel # <<>> => /\ Harmless(R, flash'.sel[1])
                                              /\ flash'.sel[1].op \in {"PP", "PPQ"} => IsSequence(flash'.sel[1].bytes))
  BY DEF SelHarmless, Harmless, IsSequence
<1> QED BY <1>1, <1>4, <1>5, <1>6, <1>7

\* What does not touch the flash leaves what is under way as it is.
LEMMA SelKeeps ==
    ASSUME NEW R, SelHarmless(R), flash'.sel = flash.sel \/ flash'.sel = <<>>
    PROVE  SelHarmless(R)'
<1>1. SelHarmless(R)' = (flash'.sel # <<>> => /\ Harmless(R, flash'.sel[1])
                                              /\ flash'.sel[1].op \in {"PP", "PPQ"} => IsSequence(flash'.sel[1].bytes))
  BY DEF SelHarmless, Harmless, IsSequence
<1> QED BY <1>1 DEF SelHarmless

\* One more word in the TX FIFO.
LEMMA QueueSpares ==
    ASSUME HostKnown, NEW R, \A i \in 1..Len(tx) : Harmless(R, tx[i]), NEW w, Harmless(R, w), tx' = Append(tx, w)
    PROVE  (\A i \in 1..Len(tx) : Harmless(R, tx[i]))'
<1>1. /\ Len(tx) \in Nat /\ Len(Append(tx, w)) = Len(tx) + 1
      /\ \A i \in 1..Len(tx) : Append(tx, w)[i] = tx[i]
      /\ Append(tx, w)[Len(tx) + 1] = w
  BY AppendIs DEF HostKnown, HostTyped
<1>2. \A i \in 1..Len(tx) + 1 : i \in 1..Len(tx) \/ i = Len(tx) + 1
  BY <1>1
<1>3. \A i \in 1..Len(tx') : Harmless(R, tx'[i])
  BY <1>1, <1>2
<1> QED BY <1>3 DEF Harmless

\* The invariant after a step, conjunct by conjunct.
LEMMA LimitedIs ==
    ASSUME NEW R, NEW before, Limited(R, before), \A a \in Addresses : mem'[a] = mem[a] \/ a \in R,
           SparesAll(R, prog'), (\A i \in 1..Len(tx) : Harmless(R, tx[i]))', SelHarmless(R)'
    PROVE  Limited(R, before)'
<1>1. SparesAll(R, prog)'
  BY DEF SparesAll, Spares, Harmless, IsSequence
<1>2. (\A a \in Addresses : mem[a] = before[a] \/ a \in R)'
  BY DEF Limited, Addresses, MAX_FLASH_ADDR
<1> QED BY <1>1, <1>2 DEF Limited

\* The host, the DMA and the flash.
LEMMA HostSpares ==
    ASSUME HostKnown, NEW R, Closed(R), NEW before, Limited(R, before),
           ExchangeWord \/ EndSegment \/ DmaMove \/ FlashReady
    PROVE  Limited(R, before)' /\ call' = call
<1>1. SparesAll(R, prog) /\ SelHarmless(R) /\ \A i \in 1..Len(tx) : Harmless(R, tx[i])
  BY DEF Limited
<1>2. tx' = tx => (\A i \in 1..Len(tx) : Harmless(R, tx[i]))'
  BY <1>1 DEF Harmless
<1>3. CASE ExchangeWord
  <2>1. prog' = prog /\ call' = call /\ mem' = mem
    BY <1>3, ExchangeIs
  <2>2. SelHarmless(R)' /\ (\A i \in 1..Len(tx) : Harmless(R, tx[i]))'
    BY <1>1, <1>3, ExchangeSpares
  <2> QED BY <1>1, <2>1, <2>2, LimitedIs
<1>4. CASE EndSegment
  <2>1. prog' = prog /\ call' = call /\ tx' = tx /\ (cur[1].cmd.csaat => flash' = flash) /\ (~cur[1].cmd.csaat => Execute)
    BY <1>4, EndIs
  <2>2. flash'.sel = flash.sel \/ flash'.sel = <<>>
    BY <2>1, ExecuteIs DEF HostKnown
  <2>3. \A a \in Addresses : mem'[a] = mem[a] \/ a \in R
    <3>1. CASE cur[1].cmd.csaat
      BY <1>4, <3>1 DEF EndSegment
    <3>2. CASE ~cur[1].cmd.csaat
      BY <1>1, <2>1, <3>2, ExecuteSpares DEF SelHarmless
    <3> QED BY <3>1, <3>2
  <2>4. SelHarmless(R)'
    BY <1>1, <2>2, SelKeeps
  <2> QED BY <1>1, <1>2, <2>1, <2>3, <2>4, LimitedIs
<1>5. CASE DmaMove
  <2>1. /\ prog' = prog /\ call' = call /\ flash' = flash /\ mem' = mem
        /\ tx' = tx \/ \E w : w.op = "DATA" /\ tx' = Append(tx, w)
    BY <1>5, DmaIs DEF DmaMove
  <2>2. SelHarmless(R)'
    BY <1>1, <2>1, SelKeeps
  <2>3. (\A i \in 1..Len(tx) : Harmless(R, tx[i]))'
    <3>1. CASE tx' = tx
      BY <1>2, <3>1
    <3>2. CASE \E w : w.op = "DATA" /\ tx' = Append(tx, w)
      <4>1. PICK w : w.op = "DATA" /\ tx' = Append(tx, w)
        BY <3>2
      <4>2. Harmless(R, w)
        BY <4>1 DEF Harmless
      <4> QED BY <1>1, <4>1, <4>2, QueueSpares
    <3> QED BY <2>1, <3>1, <3>2
  <2> QED BY <1>1, <2>1, <2>2, <2>3, LimitedIs
<1>6. CASE FlashReady
  <2>1. prog' = prog /\ call' = call /\ tx' = tx /\ flash'.sel = flash.sel /\ mem' = mem
    BY <1>6, ReadyIs DEF FlashReady
  <2>2. SelHarmless(R)'
    BY <1>1, <2>1, SelKeeps
  <2> QED BY <1>1, <1>2, <2>1, <2>2, LimitedIs
<1> QED BY <1>3, <1>4, <1>5, <1>6

-----------------------------------------------------------------------------
(* The steps of a write.                                                   *)

\* What a step of the driver does.
LEMMA DriverIs ==
    ASSUME Driver
    PROVE  /\ prog # <<>> /\ flash' = flash /\ mem' = mem
           /\ call' = call \/ \E code : call' = [call EXCEPT !.code = code]
           /\ \/ prog' \in {Tail(prog), Poll \o Tail(prog), <<>>}
              \/ prog[1].do = "fill" /\ prog' = FillRound(prog[1]) \o Tail(prog)
              \/ prog[1].do = "pages" /\ prog' = PagesRound(prog[1]) \o Tail(prog)
              \/ prog[1].do = "sectors" /\ prog' = SectorsRound(prog[1]) \o Tail(prog)
           /\ \/ tx' = tx
              \/ prog[1].do = "word" /\ tx' = Append(tx, prog[1].word)
              \/ \E w : w.op = "DATA" /\ tx' = Append(tx, w)
<1>1. CASE spi_write_word
  BY <1>1 DEF spi_write_word, At, Running, Continue, CallKept, WriteTxData
<1>2. CASE spi_set_command \/ spi_set_rx_watermark \/ Waited \/ dma_launch \/ memcpy
  BY <1>2 DEF spi_set_command, spi_set_rx_watermark, Waited, dma_launch, memcpy, At, Running, Continue, CallKept, hostVars
<1>3. CASE WriteData
  <2>1. PICK w : /\ w = [Op("DATA", 0) EXCEPT !.bytes = Fetch(prog[1].buf, prog[1].at, prog[1].n)]
                 /\ tx' = Append(tx, w)
    BY <1>3 DEF WriteData, WriteTxData
  <2>2. w.op = "DATA"
    <3>1. PICK b : b = Fetch(prog[1].buf, prog[1].at, prog[1].n)
      OBVIOUS
    <3>2. w = [op |-> "DATA", addr |-> 0, bytes |-> b]
      BY <2>1, <3>1 DEF Op
    <3> QED BY <3>2
  <2>3. prog # <<>> /\ flash' = flash /\ mem' = mem /\ call' = call /\ prog' = Tail(prog)
    BY <1>3 DEF WriteData, At, Running, Continue, CallKept
  <2> QED BY <2>1, <2>2, <2>3
<1>4. CASE spi_read_word
  BY <1>4 DEF spi_read_word, At, Running, Continue, CallKept
<1>5. CASE ReadStatus
  <2>1. /\ prog # <<>> /\ flash' = flash /\ mem' = mem /\ tx' = tx /\ prog' \in {Tail(prog), Poll \o Tail(prog)}
    BY <1>5 DEF ReadStatus, At, Running
  <2>2. call' = call \/ \E code : call' = [call EXCEPT !.code = code]
    <3>1. PICK b : b = (Head(rx)[1] % 2 = 1)
      OBVIOUS
    <3>2. PICK code : code = IF b THEN "OK" ELSE "ERROR"
      OBVIOUS
    <3>3. call' = IF prog[1].do = "qe" THEN [call EXCEPT !.code = code] ELSE call
      BY <1>5, <3>1, <3>2 DEF ReadStatus
    <3> QED BY <3>3
  <2> QED BY <2>1, <2>2
<1>6. CASE Unroll
  BY <1>6 DEF Unroll, At, Running, CallKept, hostVars
<1>7. CASE ReturnCode
  BY <1>7 DEF ReturnCode, At, Running, hostVars
<1> QED BY <1>1, <1>2, <1>3, <1>4, <1>5, <1>6, <1>7 DEF Driver

\* A step of the driver keeps the write within R.
LEMMA DriverSpares ==
    ASSUME HostKnown, NEW R, Closed(R), NEW before, Limited(R, before), Driver
    PROVE  Limited(R, before)'
<1>1. SparesAll(R, prog) /\ SelHarmless(R) /\ \A i \in 1..Len(tx) : Harmless(R, tx[i])
  BY DEF Limited
<1>2. /\ prog # <<>> /\ flash' = flash /\ mem' = mem
      /\ \/ prog' \in {Tail(prog), Poll \o Tail(prog), <<>>}
         \/ prog[1].do = "fill" /\ prog' = FillRound(prog[1]) \o Tail(prog)
         \/ prog[1].do = "pages" /\ prog' = PagesRound(prog[1]) \o Tail(prog)
         \/ prog[1].do = "sectors" /\ prog' = SectorsRound(prog[1]) \o Tail(prog)
      /\ \/ tx' = tx
         \/ prog[1].do = "word" /\ tx' = Append(tx, prog[1].word)
         \/ \E w : w.op = "DATA" /\ tx' = Append(tx, w)
  BY DriverIs
<1>3. SparesAll(R, Tail(prog)) /\ Spares(R, prog[1])
  BY <1>1, <1>2, SparesTail
<1>4. SparesAll(R, prog')
  <2>1. CASE prog' \in {Tail(prog), Poll \o Tail(prog), <<>>}
    BY <1>3, <2>1, WaitSpares, SparesJoin, SparesNone
  <2>2. CASE prog[1].do = "fill" /\ prog' = FillRound(prog[1]) \o Tail(prog)
    <3>1. SparesAll(R, FillRound(prog[1]))
      BY <1>3, <2>2, FillRoundSpares DEF Spares
    <3> QED BY <1>3, <2>2, <3>1, SparesJoin
  <2>3. CASE prog[1].do = "pages" /\ prog' = PagesRound(prog[1]) \o Tail(prog)
    <3>1. Within(R, prog[1].addr, prog[1].len) /\ prog[1].len > 0
      BY <1>3, <2>3 DEF Spares, Within
    <3>2. SparesAll(R, PagesRound(prog[1]))
      BY <3>1, PagesRoundSpares
    <3> QED BY <1>3, <2>3, <3>2, SparesJoin
  <2>4. CASE prog[1].do = "sectors" /\ prog' = SectorsRound(prog[1]) \o Tail(prog)
    <3>1. Within(R, prog[1].addr, prog[1].len) /\ prog[1].variant \in ReadWays
      BY <1>3, <2>4 DEF Spares, Within
    <3>2. SparesAll(R, SectorsRound(prog[1]))
      BY <3>1, SectorsRoundSpares
    <3> QED BY <1>3, <2>4, <3>2, SparesJoin
  <2> QED BY <1>2, <2>1, <2>2, <2>3, <2>4
<1>5. (\A i \in 1..Len(tx) : Harmless(R, tx[i]))'
  <2>1. CASE tx' = tx
    BY <1>1, <2>1 DEF Harmless
  <2>2. CASE prog[1].do = "word" /\ tx' = Append(tx, prog[1].word)
    <3>1. Harmless(R, prog[1].word)
      BY <1>3, <2>2 DEF Spares
    <3> QED BY <1>1, <2>2, <3>1, QueueSpares
  <2>3. CASE \E w : w.op = "DATA" /\ tx' = Append(tx, w)
    <3>1. PICK w : w.op = "DATA" /\ tx' = Append(tx, w)
      BY <2>3
    <3>2. Harmless(R, w)
      BY <3>1 DEF Harmless
    <3> QED BY <1>1, <3>1, <3>2, QueueSpares
  <2> QED BY <1>2, <2>1, <2>2, <2>3
<1>6. SelHarmless(R)'
  BY <1>1, <1>2, SelKeeps
<1> QED BY <1>2, <1>4, <1>5, <1>6, LimitedIs

\* A reset of the microcontroller: what waited is gone, and the flash does
\* what it had taken.
LEMMA CrashSpares ==
    ASSUME HostKnown, NEW R, Closed(R), NEW before, Limited(R, before), Crash
    PROVE  Limited(R, before)'
<1>1. SelHarmless(R) /\ Execute /\ prog' = <<>> /\ tx' = <<>>
  BY DEF Limited, Crash
<1>2. \A a \in Addresses : mem'[a] = mem[a] \/ a \in R
  BY <1>1, ExecuteSpares DEF SelHarmless
<1>3. flash'.sel = <<>>
  BY <1>1, ExecuteIs DEF HostKnown
<1>4. SelHarmless(R)'
  BY <1>1, <1>3, SelKeeps
<1>5. (\A i \in 1..Len(tx) : Harmless(R, tx[i]))'
  <2>1. \A i \in 1..Len(tx') : FALSE
    BY <1>1, EmptyIs
  <2> QED BY <2>1
<1> QED BY <1>1, <1>2, <1>4, <1>5, SparesNone, LimitedIs

\* When a call begins that does not follow a read under way, no word waits,
\* and the command in progress, if there is one, is a read.
LEMMA StartQuiet ==
    ASSUME W25qInv, app.ready, prog = <<>>, ~(Async(call) /\ call.code = "OK")
    PROVE  tx = <<>> /\ (flash.sel # <<>> => flash.sel[1].op \notin Mutating)
<1>1. HostKnown /\ Driven
  BY DEF W25qInv
<1>2. PICK q, st : CallAgrees(q) /\ Tracked(q, st) /\ Reaches(q)
  BY <1>1 DEF Driven
<1>3. AtRest(q)
  BY <1>2, LeadsNowhere DEF Reaches
<1>4. q.kind # "off" /\ q.dma # "rx"
  <2>1. q.kind \in {"plain", "async", "off"} /\ (q.kind # "async" => q.dma = "none")
    BY <1>3, AtRestHas
  <2>2. /\ q.kind = "async" => Async(call)
        /\ q.kind = "off" => ~app.ready
        /\ q.kind = "async" /\ q.dma = "rx" => call.code = "OK"
    BY <1>2 DEF CallAgrees
  <2> QED BY <2>1, <2>2
<1>5. /\ q.out.t = 0 /\ q.out.b = 0 /\ q.dma = "none" /\ q.in.e = 0
      /\ q.bus.op = "none" /\ q.bus.K = Awake /\ q.bus.last
  BY <1>3, <1>4, AtRestHas
<1>6. PICK n, s : n = Len(Pend) /\ s = st[n]
  OBVIOUS
<1>7. Chain(st) /\ Agrees(q, s)
  BY <1>2, <1>6 DEF Tracked
<1>8. Len(tx) \in Nat /\ Len(rx) \in Nat /\ dma.n \in Nat /\ n \in Nat /\ s.r \in Nat /\ s.t \in Nat
  <2>1. Len(tx) \in Nat /\ Len(rx) \in Nat /\ dma.n \in Nat
    BY <1>1, SequenceIs DEF HostKnown, HostTyped
  <2>2. n \in Nat /\ \A i \in 0..n : st[i].t \in Nat /\ st[i].r \in Nat
    BY <1>1, <1>6, <1>7, ChainIs
  <2>3. n \in 0..n
    BY <2>2
  <2> QED BY <1>6, <2>1, <2>2, <2>3
<1>9. Dtx \in Nat /\ Drx = 0
  <2>1. dma.n > 0 => dma.dir = "none"
    BY <1>5, <1>7 DEF Agrees, DmaAgrees
  <2> QED BY <1>8, <2>1 DEF Dtx, Drx
<1>10. Len(tx) = 0 /\ s.r = 0
  <2>1. Len(tx) + Dtx <= 0 /\ 0 = Len(rx) + s.r - Drx
    BY <1>5, <1>7 DEF Agrees, WordsAgree
  <2> QED BY <1>8, <1>9, <2>1
<1>11. tx = <<>>
  <2>1. IsSequence(tx)
    BY <1>1 DEF HostKnown, HostTyped
  <2> QED BY <1>10, <2>1, TailIs
<1>12. s.op = "none" /\ Awake \subseteq s.K /\ s.ask # "none"
  BY <1>5, <1>7 DEF Agrees, BusAgrees
<1>13. /\ n \in {0, 1}
       /\ n = 1 => /\ st[0].op = s.ask /\ Receives(Pend[1].cmd) /\ ~Sends(Pend[1].cmd)
                   /\ st[1] = Effect(Pend[1], st[0], tx[st[0].t + 1].op)
  BY <1>1, <1>6, <1>7, <1>10, <1>12, LastEmpty
<1>14. Fits(st[0])
  BY <1>7 DEF Chain
<1>15. st[0].op = (IF flash.sel = <<>> THEN "none" ELSE flash.sel[1].op)
  BY <1>14 DEF Fits
<1>16. CASE n = 0
  <2>1. flash.sel # <<>> => flash.sel[1].op # "none"
    BY <1>1 DEF HostKnown, FlashTyped
  <2>2. flash.sel = <<>>
    BY <1>6, <1>12, <1>15, <1>16, <2>1
  <2> QED BY <1>11, <2>2
<1>17. CASE n = 1
  <2>1. PICK p, c, o : p = st[0] /\ c = Pend[1] /\ o = tx[st[0].t + 1].op
    OBVIOUS
  <2>2. s = Effect(c, p, o) /\ ~Opens(c, p) /\ p.op = s.ask
    BY <1>6, <1>13, <1>17, <2>1 DEF Opens
  <2>3. s.op = (IF c.cmd.csaat THEN p.op ELSE "none") /\ s.K = (IF c.cmd.csaat THEN p.K ELSE Known(p.op, p.K, p.tk))
    BY <2>2 DEF Effect
  <2>4. "idle" \in Known(p.op, p.K, p.tk)
    BY <1>12, <2>2, <2>3 DEF Awake
  <2>5. p.op \notin Mutating
    BY <2>4 DEF Known, Ends, Gives, Mutating
  <2>6. flash.sel # <<>> => flash.sel[1].op = p.op
    BY <1>15, <2>1
  <2> QED BY <1>11, <2>5, <2>6
<1> QED BY <1>13, <1>16, <1>17

\* The call that begins.
LEMMA StartConfined ==
    ASSUME W25qInv, NEW calls \in NextCalls, Start(calls)
    PROVE  Confined'
<1>1. AppTyped /\ TodoKnown
  BY DEF W25qInv
<1>2. PICK c : c = calls[1]
  OBVIOUS
<1>3. /\ prog = <<>> /\ prog' = Program(c) /\ UNCHANGED <<hostVars, dma, flash>>
      /\ call'.fn = c.fn
  BY <1>1, <1>2, CallBegins
<1>4. CASE c.fn \notin Writes
  BY <1>3, <1>4 DEF Confined
<1>5. CASE c.fn \in Writes
  <2>1. app.ready /\ ~(Async(call) /\ call.code = "OK") /\ WellFormed(c)
    BY <1>1, <1>2, <1>5, NextCallsAre DEF Writes
  <2>2. tx = <<>> /\ (flash.sel # <<>> => flash.sel[1].op \notin Mutating)
    BY <1>3, <2>1, StartQuiet
  <2>3. call'.addr = c.addr /\ call'.len = c.len /\ call'.before = mem /\ mem' = mem
    <3>1. Head(calls) = c
      BY <1>1, <1>2, NextCallsAre, TailIs
    <3>2. call' = [fn |-> c.fn, variant |-> c.variant, addr |-> c.addr, len |-> c.len,
                   code |-> "RUNNING", before |-> mem] /\ mem' = mem
      BY <1>5, <3>1 DEF Start
    <3> QED BY <3>2
  <2>4. PICK R : R = Region(c)
    OBVIOUS
  <2>5. SparesAll(R, prog')
    BY <1>3, <1>5, <2>1, <2>4, ProgramSpares
  <2>6. tx' = <<>> /\ flash' = flash
    BY <1>3, <2>2 DEF hostVars
  <2>7. SelHarmless(R)'
    <3>1. SelHarmless(R)
      BY <2>2 DEF SelHarmless, Harmless, Mutating
    <3> QED BY <2>6, <3>1, SelKeeps
  <2>8. PICK before : before = mem
    OBVIOUS
  <2>9. Limited(R, before)'
    <3>1. (\A a \in Addresses : mem[a] = before[a] \/ a \in R)'
      BY <2>3, <2>8
    <3>2. SparesAll(R, prog)'
      BY <2>5 DEF SparesAll, Spares, Harmless, IsSequence
    <3>3. (\A i \in 1..Len(tx) : Harmless(R, tx[i]))'
      <4>1. \A i \in 1..Len(tx') : FALSE
        BY <2>6, EmptyIs
      <4> QED BY <4>1
    <3> QED BY <2>7, <3>1, <3>2, <3>3 DEF Limited
  <2>10. Region(call)' = R /\ call'.before = before /\ call'.addr \in Nat /\ call'.len \in Nat
    BY <2>1, <2>3, <2>4, <2>8 DEF Region, Span, WellFormed
  <2>11. Confined' = (call'.fn \in Writes => /\ call'.addr \in Nat /\ call'.len \in Nat
                                             /\ Limited(Region(call), call.before)')
    BY DEF Confined
  <2> QED BY <2>9, <2>10, <2>11
<1> QED BY <1>4, <1>5

\* The invariant holds as long as the call is the same.
LEMMA ConfinedKeeps ==
    ASSUME AppTyped, Confined, call' = call \/ \E code : call' = [call EXCEPT !.code = code],
           \A R, before : Closed(R) /\ Limited(R, before) => Limited(R, before)'
    PROVE  Confined'
<1>1. call'.fn = call.fn /\ call'.addr = call.addr /\ call'.len = call.len /\ call'.before = call.before
  <2>1. CASE call' = call
    BY <2>1
  <2>2. CASE \E code : call' = [call EXCEPT !.code = code]
    <3>1. PICK code : call' = [call EXCEPT !.code = code]
      BY <2>2
    <3>2. call' = [fn |-> call.fn, variant |-> call.variant, addr |-> call.addr, len |-> call.len,
                   code |-> code, before |-> call.before]
      BY <3>1 DEF AppTyped
    <3> QED BY <3>2
  <2> QED BY <2>1, <2>2
<1>2. CASE call.fn \notin Writes
  BY <1>1, <1>2 DEF Confined
<1>3. CASE call.fn \in Writes
  <2>1. PICK R, before : R = Region(call) /\ before = call.before
    OBVIOUS
  <2>2. call.addr \in Nat /\ call.len \in Nat /\ Limited(R, before)
    BY <1>3, <2>1 DEF Confined
  <2>3. Closed(R)
    BY <2>1, <2>2, RegionIs
  <2>4. Limited(R, before)'
    BY <2>2, <2>3
  <2>5. Region(call)' = R
    BY <1>1, <2>1 DEF Region, Span
  <2>6. Confined' = (call'.fn \in Writes => /\ call'.addr \in Nat /\ call'.len \in Nat
                                            /\ Limited(Region(call), call.before)')
    BY DEF Confined
  <2> QED BY <1>1, <2>1, <2>2, <2>4, <2>5, <2>6
<1> QED BY <1>2, <1>3

\* Every step keeps a write within the sectors of its range.
LEMMA ConfinedStep ==
    ASSUME W25qInv, Confined, [W25qNext]_vars
    PROVE  Confined'
<1>1. HostKnown /\ AppTyped
  BY DEF W25qInv
<1>2. CASE \E calls \in NextCalls : Start(calls)
  BY <1>2, StartConfined
<1>3. CASE Driver
  <2>1. call' = call \/ \E code : call' = [call EXCEPT !.code = code]
    BY <1>3, DriverIs
  <2>2. \A R, before : Closed(R) /\ Limited(R, before) => Limited(R, before)'
    BY <1>1, <1>3, DriverSpares
  <2> QED BY <1>1, <2>1, <2>2, ConfinedKeeps
<1>4. CASE ExchangeWord \/ EndSegment \/ DmaMove \/ FlashReady
  <2>1. call' = call
    BY <1>1, <1>4, ExchangeIs, EndIs, DmaIs, ReadyIs
  <2>2. \A R, before : Closed(R) /\ Limited(R, before) => Limited(R, before)'
    BY <1>1, <1>4, HostSpares
  <2> QED BY <1>1, <2>1, <2>2, ConfinedKeeps
<1>5. CASE Crash
  <2>1. \E code : call' = [call EXCEPT !.code = code]
    BY <1>5 DEF Crash
  <2>2. \A R, before : Closed(R) /\ Limited(R, before) => Limited(R, before)'
    BY <1>1, <1>5, CrashSpares
  <2> QED BY <1>1, <2>1, <2>2, ConfinedKeeps
<1>6. CASE UNCHANGED vars
  <2>1. call' = call /\ prog' = prog /\ mem' = mem /\ tx' = tx /\ flash' = flash
    BY <1>6 DEF vars, w25qVars, hostVars
  <2>2. ASSUME NEW R, NEW before, Closed(R), Limited(R, before)
        PROVE  Limited(R, before)'
    <3>1. SparesAll(R, prog) /\ SelHarmless(R) /\ \A i \in 1..Len(tx) : Harmless(R, tx[i])
      BY <2>2 DEF Limited
    <3>2. SelHarmless(R)' /\ (\A i \in 1..Len(tx) : Harmless(R, tx[i]))'
      BY <2>1, <3>1, SelKeeps DEF Harmless
    <3> QED BY <2>1, <2>2, <3>1, <3>2, LimitedIs
  <2> QED BY <1>1, <2>1, <2>2, ConfinedKeeps
<1> QED BY <1>2, <1>3, <1>4, <1>5, <1>6 DEF W25qNext

\* A write changes nothing outside the sectors its range touches, at no moment
\* of the write, and a reset of the microcontroller in the middle of it, with
\* commands still on their way to the flash, leaves it so (w25q.c;
\* CrashIsConfined).
THEOREM ConfinedSafety ==
    W25qSpec => []CrashIsConfined
<1> DEFINE Inv == W25qInv /\ Confined
<1>1. W25qInit => Inv
  <2>1. W25qInit => call.fn \notin Writes
    BY DEF W25qInit, Writes
  <2> QED BY <2>1, InitHolds DEF Confined
<1>2. Inv /\ [W25qNext]_vars => Inv'
  BY InvariantKept, ConfinedStep
<1>3. Inv => CrashIsConfined
  BY DEF Confined, Limited, Region, CrashIsConfined
<1> QED BY <1>1, <1>2, <1>3, PTL DEF W25qSpec
=============================================================================
