---------------------------- MODULE SpiSdk_proofs ----------------------------
(***************************************************************************)
(* What holds of the SPI SDK for every host, every set of devices and      *)
(* requests and every number of calls: the driver meets no error of the    *)
(* host, no device is clocked faster than it allows, and a transaction     *)
(* that is reported done has been exchanged.                               *)
(*                                                                         *)
(* The argument is about who may act, then about where everything is.  A   *)
(* peripheral that is not busy has an idle host; between the start of a    *)
(* launch and its first command no interrupt can come; and a busy          *)
(* peripheral has a command running or an interrupt on its way.  While it  *)
(* is busy, k segments have ended and j words of the next have gone: the   *)
(* commands after these are in the host, the words taken from the buffer   *)
(* and not yet sent are in one FIFO, those received and not yet read in    *)
(* the other, and the bus has seen what precedes.                          *)
(***************************************************************************)
EXTENDS SpiSdk, SequenceTheorems, FiniteSetTheorems, WellFoundedInduction, TLAPS

-----------------------------------------------------------------------------
(* What the theorems suppose.                                              *)

\* An event that is latched reaches the handler even when the handler disables
\* the interrupt after it: the fast controller keeps it, the PLIC does not.
LinesKept == Controller = "FIC"

\* No division by zero: every frequency the SDK accepts is positive, and so is
\* the one it then computes.
ClocksRun ==
    \A h \in DOMAIN Slaves : Slaves[h].freq >= SPI_MIN_FREQ =>
        Slaves[h].freq > 0 /\ spi_true_slave_freq(Slaves[h].freq) > 0

\* The divider of a frequency fits its 16 bits before it is rounded.
Fits(freq) == freq > 0 /\ (SysFreq \div freq - 2) \div 2 + 1 < DivModulus

\* That of every frequency the SDK accepts does, and that of the frequency it
\* then computes.
DividersFit ==
    \A h \in DOMAIN Slaves : Slaves[h].freq >= SPI_MIN_FREQ =>
        Fits(Slaves[h].freq) /\ Fits(spi_true_slave_freq(Slaves[h].freq))

\* Only CONFIGOPTS of the first chip select is written; the reset value of the
\* others divides by two.
SelectsFit ==
    \A h \in DOMAIN Slaves : Slaves[h].csid = 0 \/ SysFreq \div 2 <= Slaves[h].freq

-----------------------------------------------------------------------------
(* The invariant.                                                          *)

OutWords == {"out"} \X Nat \X Nat
Transactions == [spi : DOMAIN Slaves, blocking : BOOLEAN, segments : Seq(SegmentModes)]
Commands == [len : Nat, direction : Directions, csaat : BOOLEAN, csid : 0..1, clkdiv : Nat]

Launching == {"launch", "txn", "fill", "count", "events", "intr", "ready", "command"}
Resetting == {"rst_txn", "rst_sw", "rst_wm", "rst_state"}

HostTypes ==
    /\ cmdq \in Seq(Commands)
    /\ cur \in Seq([cmd : Commands, left : Nat]) /\ Len(cur) <= 1
    /\ tx \in Seq(OutWords)
    /\ control \in [txwm : Nat, rxwm : Nat]
    /\ event_enable \in BOOLEAN /\ intr_enable \in BOOLEAN
    /\ intr_state \in BOOLEAN /\ fic \in BOOLEAN

\* The frequency of a handle is one that spi_true_slave_freq has computed.
HandleFits(h) ==
    spi[h].init =>
        /\ Slaves[h].csid \in 0..1
        /\ \E g \in DOMAIN Slaves :
              /\ Slaves[g].freq >= SPI_MIN_FREQ /\ Slaves[g].freq <= Slaves[h].freq
              /\ spi[h].freq = spi_true_slave_freq(Slaves[g].freq)

SdkTypes ==
    /\ DOMAIN peri = {"state", "txn", "scnt", "txcnt", "rxcnt", "txwm", "rxwm", "buffer"}
    /\ peri.state \in PeriStates /\ peri.txn \in Transactions \cup {NoTxn}
    /\ peri.scnt \in Nat /\ peri.txcnt \in Nat /\ peri.rxcnt \in Nat
    /\ peri.txwm \in Nat /\ peri.rxwm \in Nat
    /\ device \in [csid : 0..1, clkdiv : [0..1 -> Nat]] /\ device.clkdiv[1] = 0
    /\ spi \in [DOMAIN Slaves -> [init : BOOLEAN, freq : Nat]]
    /\ \A h \in DOMAIN Slaves : HandleFits(h)
    /\ main \in [pc : {"app", "wait"} \cup Launching \cup Resetting,
                 ends : {"INIT", "TIMEOUT"}, command : Seq(Commands)]
    /\ isr \in [pc : {"none", "ack", "status", "ready", "txwm", "rxwm", "last"},
                events : SUBSET {"ready", "idle", "txwm", "rxwm"}]
    /\ DOMAIN app = {"calls", "resets", "code", "txn", "reports", "overrun"}
    /\ app.calls \in Nat /\ app.txn \in Transactions \cup {NoTxn}

\* No transaction, no command.
QuietWhenFree ==
    /\ cur = <<>> => cmdq = <<>>
    /\ ~Busy => cur = <<>> /\ peri.scnt = 0

\* A latched event is pending or about to be acknowledged.
EventsKept ==
    /\ event_enable => intr_enable \/ main.pc = "intr"
    /\ intr_state => fic \/ isr.pc = "ack"

\* The handler works on a busy peripheral, and on what it has read of the host.
HandlerInv ==
    /\ isr.pc \in {"ready", "txwm", "rxwm", "last"} => Busy
    /\ isr.pc = "ready" /\ "idle" \in isr.events => cur = <<>>
    /\ isr.pc = "last" => cur = <<>>

\* A launch finds the host idle and no event, and none comes before its command.
LaunchInv ==
    main.pc \in Launching =>
        /\ cur = <<>> /\ ~intr_state /\ ~fic /\ isr.pc = "none"
        /\ app.txn \in Transactions /\ app.txn.segments # <<>>
        /\ main.pc # "launch" => Busy
        /\ main.pc # "command" => peri.scnt = 0
        /\ main.pc \notin {"launch", "txn"} => peri.txn = app.txn
        /\ main.pc \in {"intr", "ready", "command"} => event_enable
        /\ main.pc \in {"ready", "command"} => intr_enable
        /\ main.pc = "command" => main.command # <<>>

\* A busy peripheral has a command running or an interrupt coming, and then the
\* handler meets an idle host.
BusyInv ==
    Busy /\ main.pc \notin Launching =>
        /\ isr.pc = "last" \/ (event_enable /\ intr_enable)
        /\ \/ cur # <<>> \/ fic
           \/ isr.pc \in {"ack", "status", "last"}
           \/ isr.pc = "ready" /\ {"ready", "idle"} \subseteq isr.events

ResetInv ==
    /\ main.pc \in Resetting \ {"rst_txn"} => peri.txn = NoTxn
    /\ main.pc \in {"rst_wm", "rst_state"} => cur = <<>>

\* The commands of a transaction are for its device, with the divider in force.
Divider == device.clkdiv[device.csid]

ClockInv ==
    /\ \A i \in DOMAIN cmdq : cmdq[i].clkdiv = Divider
    /\ main.pc = "command" => \A i \in DOMAIN main.command : main.command[i].clkdiv = Divider
    /\ cur # <<>> => cur[1].cmd.clkdiv = Divider
    /\ DividersFit /\ SelectsFit => (Busy \/ main.pc \in Launching =>
          SysFreq \div (2 * Divider + 2) <= Slaves[app.txn.spi].freq)

SdkInv ==
    /\ HostTypes /\ SdkTypes
    /\ NoHostErrors
    /\ QuietWhenFree /\ EventsKept /\ HandlerInv /\ LaunchInv /\ BusyInv /\ ResetInv
    /\ ClockInv

-----------------------------------------------------------------------------
(* Clock dividers.                                                         *)

LEMMA DivAtMost ==
    ASSUME NEW n \in Nat, NEW d \in Nat, NEW f \in Nat, d > 0, n < d * (f + 1)
    PROVE  n \div d <= f
<1> DEFINE q == n \div d
<1>1. q \in Nat /\ d * q <= n
  OBVIOUS
<1>2. CASE q > f
  <2>1. PICK k \in Nat : q = f + 1 + k
    BY <1>1, <1>2
  <2>2. d * q = d * (f + 1) + d * k /\ d * k \in Nat
    BY <2>1
  <2> QED BY <1>1, <2>2
<1> QED BY <1>1, <1>2

(* The quotient that spi_set_slave rounds up is just above its divisor.    *)
LEMMA DivAbove ==
    ASSUME NEW n \in Nat, NEW d \in Nat, d > 0
    PROVE  n \div d \in Nat /\ n < d * (n \div d + 1)
  OBVIOUS

(* ClkDiv(freq) gives a clock that is not faster than freq.                *)
LEMMA ClkDivWithin ==
    ASSUME NEW freq \in Nat, Fits(freq)
    PROVE  /\ ClkDiv(freq) \in Nat
           /\ SysFreq \div (2 * ClkDiv(freq) + 2) <= freq
<1> USE SdkAssumption
<1> DEFINE q == SysFreq \div freq
           d == (q - 2) \div 2
<1>1. q \in Nat /\ SysFreq < freq * (q + 1) /\ SysFreq \in Nat /\ DivModulus \in Nat
  BY DivAbove DEF Fits
<1>2. CASE freq >= SysFreq \div 2
  <2>1. ClkDiv(freq) = 0
    BY <1>2 DEF ClkDiv
  <2> QED BY <2>1, <1>2
<1>3. CASE freq < SysFreq \div 2
  <2>1. 2 * freq <= SysFreq /\ freq > 0
    BY <1>3, <1>1 DEF Fits
  <2>2. q >= 2
    <3>1. CASE q <= 1
      <4>1. freq * (q + 1) <= freq * 2
        BY <1>1, <3>1
      <4> QED BY <4>1, <1>1, <2>1
    <3> QED BY <3>1, <1>1
  <2>3. d \in Nat /\ d + 1 < DivModulus /\ q <= 2 * d + 3
    BY <2>2, <1>1 DEF Fits
  <2>4. d % DivModulus = d /\ (d + 1) % DivModulus = d + 1
    BY <2>3, <1>1
  <2>5. CASE SysFreq \div (2 * d + 2) > freq
    <3>1. ClkDiv(freq) = d + 1
      BY <1>3, <2>4, <2>5 DEF ClkDiv
    <3>2. freq * (q + 1) <= freq * (2 * d + 4)
      BY <1>1, <2>3
    <3>3. freq * (2 * d + 4) <= (2 * d + 4) * (freq + 1)
      <4>1. \A m \in Nat : freq * m <= m * (freq + 1)
        OBVIOUS
      <4> HIDE DEF d
      <4> QED BY <4>1, <2>3
    <3>4. SysFreq \div (2 * d + 4) <= freq
      BY <1>1, <2>3, <3>2, <3>3, DivAtMost
    <3>5. 2 * (d + 1) + 2 = 2 * d + 4
      BY <2>3
    <3> QED BY <2>3, <3>1, <3>4, <3>5
  <2>6. CASE ~(SysFreq \div (2 * d + 2) > freq)
    <3>1. ClkDiv(freq) = d
      BY <1>3, <2>4, <2>6 DEF ClkDiv
    <3>2. SysFreq \div (2 * d + 2) \in Nat
      BY <1>1, <2>3
    <3> QED BY <3>1, <3>2, <2>3, <2>6
  <2> QED BY <2>5, <2>6
<1>4. SysFreq \div 2 \in Nat
  BY <1>1
<1> QED BY <1>2, <1>3, <1>4

(* A divider is a number, whatever the frequency.                          *)
LEMMA ClkDivType ==
    ASSUME NEW freq \in Nat, freq > 0
    PROVE  ClkDiv(freq) \in Nat
<1> USE SdkAssumption
<1> DEFINE q == (SysFreq \div freq - 2) \div 2
<1>1. q \in Int /\ DivModulus \in Nat \ {0}
  <2>1. SysFreq \div freq \in Nat
    BY DivAbove
  <2> QED BY <2>1
<1> HIDE DEF q
<1>2. q % DivModulus \in Nat
  BY <1>1
<1> DEFINE d == q % DivModulus
<1> HIDE DEF d
<1>3. d \in Nat
  BY <1>2 DEF d
<1>4. (d + 1) % DivModulus \in Nat
  BY <1>1, <1>3
<1> QED BY <1>3, <1>4 DEF ClkDiv, d, q

(* The frequency that the SDK computes is a number.                        *)
LEMMA TrueFreqType ==
    ASSUME ClocksRun, NEW h \in DOMAIN Slaves, Slaves[h].freq >= SPI_MIN_FREQ
    PROVE  spi_true_slave_freq(Slaves[h].freq) \in Nat
<1> USE SdkAssumption
<1>1. Slaves[h].freq \in Nat /\ Slaves[h].freq > 0
  BY DEF SlaveConfigs, ClocksRun
<1>2. ClkDiv(Slaves[h].freq) \in Nat
  BY <1>1, ClkDivType
<1> QED BY <1>2 DEF spi_true_slave_freq

(* The clock of every handle that the SDK has initialised is one that its   *)
(* device allows.                                                          *)
LEMMA HandleWithin ==
    ASSUME DividersFit, NEW h \in DOMAIN Slaves, spi[h].init, HandleFits(h)
    PROVE  /\ ClkDiv(spi[h].freq) \in Nat
           /\ SysFreq \div (2 * ClkDiv(spi[h].freq) + 2) <= Slaves[h].freq
<1> USE SdkAssumption
<1>1. PICK g \in DOMAIN Slaves :
        /\ Slaves[g].freq >= SPI_MIN_FREQ /\ Slaves[g].freq <= Slaves[h].freq
        /\ spi[h].freq = spi_true_slave_freq(Slaves[g].freq)
  BY DEF HandleFits
<1> DEFINE f == Slaves[g].freq
           t == spi_true_slave_freq(f)
<1>2. f \in Nat /\ Slaves[h].freq \in Nat
  BY DEF SlaveConfigs
<1>3. Fits(f) /\ Fits(t)
  BY <1>1, <1>2 DEF DividersFit, SPI_MIN_FREQ
<1> HIDE DEF f
<1>4. ClkDiv(f) \in Nat /\ t <= f
  BY <1>2, <1>3, ClkDivWithin DEF spi_true_slave_freq
<1>5. t \in Nat
  BY <1>4 DEF spi_true_slave_freq
<1> HIDE DEF t
<1>6. ClkDiv(t) \in Nat /\ SysFreq \div (2 * ClkDiv(t) + 2) <= t
  BY <1>3, <1>5, ClkDivWithin
<1>7. SysFreq \div (2 * ClkDiv(t) + 2) \in Nat
  BY <1>6
<1>8. spi[h].freq = t /\ f <= Slaves[h].freq
  BY <1>1 DEF t, f
<1> QED BY <1>2, <1>4, <1>5, <1>6, <1>7, <1>8

-----------------------------------------------------------------------------
(* What an event does.                                                     *)

\* A status bit of the host rises in this step.
Rises ==
    \/ ~(Len(cmdq) < CmdDepth) /\ Len(cmdq') < CmdDepth
    \/ cur # <<>> /\ cur' = <<>>
    \/ ~(Len(tx) < control.txwm) /\ Len(tx') < control'.txwm
    \/ ~(Len(rx) >= control.rxwm) /\ Len(rx') >= control'.rxwm

LEMMA Latch ==
    ASSUME LinesKept, event_enable \in BOOLEAN, intr_enable \in BOOLEAN,
           intr_state \in BOOLEAN, fic \in BOOLEAN, intr_enable' \in BOOLEAN, NEW before \in BOOLEAN,
           LatchEvents(before), FicLatches(fic)
    PROVE  /\ intr_state' \in BOOLEAN /\ fic' \in BOOLEAN
           /\ before => intr_state'
           /\ intr_state' => before \/ (event_enable /\ Rises)
           /\ event_enable /\ cur # <<>> /\ cur' = <<>> => intr_state'
           /\ fic => fic'
           /\ intr_state' /\ intr_enable' => fic'
           /\ ~(intr_state' /\ intr_enable') => fic' = fic
<1>1. intr_state' = (before \/ (event_enable /\ \E f \in DOMAIN Status : ~Status[f] /\ Status'[f]))
  BY DEF LatchEvents
<1>2. fic' = (fic \/ (intr_state' /\ intr_enable'))
  BY DEF FicLatches, LinesKept, line
<1>3. (\E f \in DOMAIN Status : ~Status[f] /\ Status'[f]) => Rises
  BY DEF Status, Rises
<1>4. cur # <<>> /\ cur' = <<>> => \E f \in DOMAIN Status : ~Status[f] /\ Status'[f]
  BY DEF Status
<1> QED BY <1>1, <1>2, <1>3, <1>4

-----------------------------------------------------------------------------
(* The initial states.                                                     *)
LEMMA SdkInvInit == SdkInit => SdkInv
<1> SUFFICES ASSUME SdkInit PROVE SdkInv
  OBVIOUS
<1> USE SdkAssumption
<1>1. HostTypes
  <2>1. control \in [txwm : Nat, rxwm : Nat]
    BY DEF SdkInit
  <2>2. cmdq = <<>> /\ cur = <<>> /\ tx = <<>>
    BY DEF SdkInit, HostInit
  <2>3. event_enable \in BOOLEAN /\ intr_enable \in BOOLEAN /\ intr_state \in BOOLEAN /\ fic \in BOOLEAN
    BY DEF SdkInit, HostInit
  <2> QED BY <2>1, <2>2, <2>3 DEF HostTypes
<1>2. SdkTypes
  BY DEF SdkInit, HostInit, SdkTypes, PeriStates, Commands, HandleFits
<1>3. cur = <<>> /\ cmdq = <<>> /\ ~event_enable /\ ~intr_state /\ main.pc = "app"
      /\ isr.pc = "none" /\ ~Busy /\ peri.scnt = 0 /\ main.command = <<>>
      /\ error_status = {} /\ ~app.overrun
  BY DEF SdkInit, HostInit, Busy
<1> QED BY <1>1, <1>2, <1>3
        DEF SdkInv, NoHostErrors, QuietWhenFree, EventsKept, HandlerInv, LaunchInv, BusyInv,
            ResetInv, ClockInv, Launching, Resetting

-----------------------------------------------------------------------------
(* The application acts when no interrupt is due.                          *)

LEMMA AppTurn ==
    ASSUME SdkInv, isr.pc = "none", ~due
    PROVE  /\ ~fic /\ ~intr_state
           /\ Busy /\ main.pc \notin Launching => cur # <<>> /\ event_enable /\ intr_enable
           /\ ~Busy => cur = <<>> /\ cmdq = <<>> /\ peri.scnt = 0
  BY DEF SdkInv, due, line, EventsKept, BusyInv, QuietWhenFree

\* The handles and the watermarks.
Setup ==
    \/ \E h \in DOMAIN Slaves : spi_init(h) \/ spi_deinit(h) \/ spi_set_slave_freq(h)
    \/ SetWatermark

LEMMA SetupStep ==
    ASSUME LinesKept, ClocksRun, SdkInv, isr.pc = "none", ~due, Setup,
           LatchEvents(intr_state), FicLatches(fic)
    PROVE  SdkInv'
<1> USE SdkAssumption
<1>1. /\ UNCHANGED << device, main, app, cmdq, cur, tx, rx, error_status, intr_enable,
                      event_enable, isr, wire >>
      /\ main.pc = "app"
  BY DEF Setup, spi_init, spi_deinit, spi_set_slave_freq, SetWatermark, Initialised, HostKept,
         AppOnly
<1>2. /\ \/ peri' = peri
         \/ ~Busy /\ peri' = [peri EXCEPT !.state = "INIT"]
         \/ ~Busy /\ \E f \in {"txwm", "rxwm"}, wm \in Watermarks :
                        peri' = [peri EXCEPT ![f] = wm]
      /\ \/ control' = control
         \/ control' = [txwm |-> peri.txwm, rxwm |-> peri.rxwm]
         \/ \E f \in {"txwm", "rxwm"}, wm \in Watermarks : control' = [control EXCEPT ![f] = wm]
  BY DEF Setup, spi_init, spi_deinit, spi_set_slave_freq, SetWatermark, HostKept
<1>3. /\ Busy' = Busy /\ peri'.scnt = peri.scnt /\ peri'.txn = peri.txn
      /\ peri'.txcnt = peri.txcnt /\ peri'.rxcnt = peri.rxcnt
      /\ DOMAIN peri' = DOMAIN peri /\ peri'.state \in PeriStates
      /\ peri'.txwm \in Nat /\ peri'.rxwm \in Nat
      /\ control' \in [txwm : Nat, rxwm : Nat]
  <2>1. control' \in [txwm : Nat, rxwm : Nat]
    <3>1. peri.txwm \in Nat /\ peri.rxwm \in Nat /\ control \in [txwm : Nat, rxwm : Nat]
      BY DEF SdkInv, SdkTypes, HostTypes
    <3> QED BY <1>2, <3>1
  <2>2. CASE peri' = peri
    BY <2>1, <2>2 DEF SdkInv, SdkTypes, Busy
  <2>3. CASE ~Busy /\ peri' = [peri EXCEPT !.state = "INIT"]
    BY <2>1, <2>3 DEF SdkInv, SdkTypes, Busy, PeriStates
  <2>4. ASSUME ~Busy, NEW f \in {"txwm", "rxwm"}, NEW wm \in Watermarks,
               peri' = [peri EXCEPT ![f] = wm]
        PROVE  <1>3!:
    BY <2>1, <2>4 DEF SdkInv, SdkTypes, Busy
  <2> QED BY <1>2, <2>2, <2>3, <2>4
<1>4. /\ spi' \in [DOMAIN Slaves -> [init : BOOLEAN, freq : Nat]]
      /\ \A h \in DOMAIN Slaves : HandleFits(h)'
  <2> DEFINE Offered(h, n) ==
        \E g \in DOMAIN Slaves :
           /\ Slaves[g].freq >= SPI_MIN_FREQ /\ Slaves[g].freq <= Slaves[h].freq
           /\ n = spi_true_slave_freq(Slaves[g].freq)
  <2>2. ASSUME NEW h \in DOMAIN Slaves, spi_init(h)
        PROVE  \E n : /\ Slaves[h].csid \in 0..1 /\ Offered(h, n)
                      /\ spi' = [spi EXCEPT ![h] = [init |-> TRUE, freq |-> n]]
    <3> DEFINE n == spi_true_slave_freq(Slaves[h].freq)
    <3>1. /\ Slaves[h].csid \in 0..1 /\ Slaves[h].freq >= SPI_MIN_FREQ
          /\ spi' = [spi EXCEPT ![h] = [init |-> TRUE, freq |-> n]]
      BY <2>2 DEF spi_init, spi_validate_slave
    <3>2. Slaves[h].freq <= Slaves[h].freq
      BY DEF SlaveConfigs
    <3>3. Offered(h, n)
      BY <3>1, <3>2
    <3> HIDE DEF n, Offered
    <3> QED BY <3>1, <3>3
  <2>3. ASSUME NEW h \in DOMAIN Slaves, spi_set_slave_freq(h)
        PROVE  \E n : Offered(h, n) /\ spi[h].init /\ spi' = [spi EXCEPT ![h].freq = n]
    BY <2>3 DEF spi_set_slave_freq, spi_validate_slave, SlaveConfigs, Initialised
  <2>4. \A h \in DOMAIN Slaves : \A n : Offered(h, n) => n \in Nat
    BY TrueFreqType
  <2> DEFINE Handles(s) ==
        /\ s \in [DOMAIN Slaves -> [init : BOOLEAN, freq : Nat]]
        /\ \A h \in DOMAIN Slaves : s[h].init => Slaves[h].csid \in 0..1 /\ Offered(h, s[h].freq)
  <2>5. Handles(spi)
    BY DEF SdkInv, SdkTypes, HandleFits
  <2>6. SUFFICES Handles(spi')
    BY DEF HandleFits
  <2> HIDE DEF Offered
  <2>7. ASSUME NEW h \in DOMAIN Slaves, spi_init(h)
        PROVE  Handles(spi')
    <3>1. PICK n : /\ Slaves[h].csid \in 0..1 /\ Offered(h, n)
                   /\ spi' = [spi EXCEPT ![h] = [init |-> TRUE, freq |-> n]]
      BY <2>2, <2>7
    <3>2. n \in Nat
      BY <2>4, <3>1
    <3> QED BY <2>5, <3>1, <3>2
  <2>8. ASSUME NEW h \in DOMAIN Slaves, spi_set_slave_freq(h)
        PROVE  Handles(spi')
    <3>1. PICK n : Offered(h, n) /\ spi[h].init /\ spi' = [spi EXCEPT ![h].freq = n]
      BY <2>3, <2>8
    <3>2. n \in Nat
      BY <2>4, <3>1
    <3> QED BY <2>5, <3>1, <3>2
  <2>9. ASSUME NEW h \in DOMAIN Slaves, spi_deinit(h)
        PROVE  Handles(spi')
    BY <2>5, <2>9 DEF spi_deinit
  <2>10. CASE SetWatermark
    BY <2>5, <2>10 DEF SetWatermark, AppOnly
  <2> QED BY <2>7, <2>8, <2>9, <2>10 DEF Setup
<1>5. /\ intr_state' \in BOOLEAN /\ fic' \in BOOLEAN
      /\ intr_state' => event_enable
      /\ intr_state' => fic'
      /\ ~intr_state' => ~fic'
  <2>1. event_enable => intr_enable
    BY <1>1 DEF SdkInv, EventsKept
  <2> QED BY <1>1, <2>1, Latch, AppTurn DEF SdkInv, HostTypes
<1>6. HostTypes' /\ SdkTypes'
  <2>1. HostTypes'
    BY <1>1, <1>3, <1>5 DEF SdkInv, HostTypes
  <2>2. SdkTypes'
    BY <1>1, <1>3, <1>4 DEF SdkInv, SdkTypes
  <2> QED BY <2>1, <2>2
<1>7. NoHostErrors' /\ QuietWhenFree' /\ EventsKept' /\ HandlerInv'
  BY <1>1, <1>3, <1>5 DEF SdkInv, NoHostErrors, QuietWhenFree, EventsKept, HandlerInv
<1>8. LaunchInv' /\ BusyInv' /\ ResetInv' /\ ClockInv'
  BY <1>1, <1>3, <1>5, AppTurn
     DEF SdkInv, LaunchInv, BusyInv, ResetInv, ClockInv, Launching, Resetting, Divider
<1> QED BY <1>6, <1>7, <1>8 DEF SdkInv

(* What a call asks for is a transaction with a segment at least.          *)
LEMMA AskedType ==
    ASSUME NEW req \in Requests, Asked(req).code = "OK"
    PROVE  /\ Asked(req).txn \in Transactions /\ Asked(req).txn.spi = req.spi
           /\ Asked(req).txn.segments # <<>>
<1> USE SdkAssumption
<1>1. /\ req.fn \in Functions /\ req.spi \in DOMAIN Slaves
      /\ req.segments \in Seq(SegmentModes)
      /\ Len(req.segments) = 1 \/ req.fn \in {"spi_execute", "spi_execute_nb"}
  OBVIOUS
<1>2. ASSUME Len(req.segments) = 1 PROVE req.segments[1].len \in Nat
  <2>1. req.segments[1] \in SegmentModes
    BY <1>1, <1>2
  <2> QED BY <2>1 DEF SegmentModes
<1>3. ASSUME NEW direction \in Directions, NEW len \in Nat, NEW blocking \in BOOLEAN
      PROVE  LET txn == OneSegment(req.spi, direction, len, blocking).txn
             IN  txn \in Transactions /\ txn.spi = req.spi /\ txn.segments # <<>>
  <2> DEFINE seg == [direction |-> direction, len |-> len, speed |-> "STANDARD"]
  <2>1. seg \in SegmentModes
    BY DEF SegmentModes, Speeds
  <2> HIDE DEF seg
  <2>2. <<seg>> \in Seq(SegmentModes) /\ <<seg>> # <<>>
    BY <2>1
  <2>3. OneSegment(req.spi, direction, len, blocking).txn =
           [spi |-> req.spi, blocking |-> blocking, segments |-> <<seg>>]
    BY DEF OneSegment, seg
  <2> QED BY <1>1, <2>2, <2>3 DEF Transactions
<1>4. ASSUME NEW blocking \in BOOLEAN, Segments(req.spi, req.segments, blocking).code = "OK"
      PROVE  LET txn == Segments(req.spi, req.segments, blocking).txn
             IN  txn \in Transactions /\ txn.spi = req.spi /\ txn.segments # <<>>
  BY <1>1, <1>4 DEF Segments, spi_validate_segments, Transactions
<1>5. {"TX_ONLY", "RX_ONLY", "BIDIR"} \subseteq Directions
  BY DEF Directions
<1>6. CASE req.fn \in {"spi_execute", "spi_execute_nb"}
  <2>1. \E blocking \in BOOLEAN : Asked(req) = Segments(req.spi, req.segments, blocking)
    BY <1>6 DEF Asked, spi_execute, spi_execute_nb
  <2> QED BY <2>1, <1>4
<1>7. CASE req.fn \in Functions \ {"spi_execute", "spi_execute_nb"}
  <2>1. Len(req.segments) = 1
    BY <1>1, <1>7
  <2>2. \E direction \in Directions, blocking \in BOOLEAN :
           Asked(req) = OneSegment(req.spi, direction, req.segments[1].len, blocking)
    BY <1>5, <1>7
       DEF Asked, Functions, spi_transmit, spi_receive, spi_transceive, spi_transmit_nb,
           spi_receive_nb, spi_transceive_nb
  <2> QED BY <1>2, <1>3, <2>1, <2>2
<1> QED BY <1>1, <1>6, <1>7

(* The divider that a call puts in force.                                  *)
LEMMA SlaveIsSet ==
    ASSUME ClocksRun, SdkInv, NEW h \in DOMAIN Slaves, spi[h].init,
           device' = spi_set_slave(h)
    PROVE  /\ device' \in [csid : 0..1, clkdiv : [0..1 -> Nat]] /\ device'.clkdiv[1] = 0
           /\ DividersFit /\ SelectsFit => SysFreq \div (2 * Divider' + 2) <= Slaves[h].freq
<1> USE SdkAssumption
<1>1. /\ device.clkdiv \in [0..1 -> Nat] /\ device.clkdiv[1] = 0 /\ HandleFits(h)
  BY DEF SdkInv, SdkTypes
<1> DEFINE div == ClkDiv(spi[h].freq)
<1>2. /\ div \in Nat /\ Slaves[h].csid \in 0..1
      /\ DividersFit => SysFreq \div (2 * div + 2) <= Slaves[h].freq
  <2>1. spi[h].freq \in Nat /\ spi[h].freq > 0
    BY <1>1 DEF HandleFits, ClocksRun, SdkInv, SdkTypes
  <2> QED BY <1>1, <2>1, ClkDivType, HandleWithin DEF HandleFits
<1>3. /\ device'.csid = Slaves[h].csid
      /\ device'.clkdiv = IF Slaves[h].csid = 0 THEN [device.clkdiv EXCEPT ![0] = div]
                                                ELSE device.clkdiv
      /\ device' = [csid |-> device'.csid, clkdiv |-> device'.clkdiv]
  BY DEF spi_set_slave, spi_set_configopts
<1>4. Divider' = device'.clkdiv[device'.csid]
  BY DEF Divider
<1> HIDE DEF div
<1>5. CASE Slaves[h].csid = 0
  BY <1>1, <1>2, <1>3, <1>4, <1>5
<1>6. CASE Slaves[h].csid = 1
  <2>1. Divider' = 0 /\ (SelectsFit => SysFreq \div 2 <= Slaves[h].freq)
    BY <1>1, <1>3, <1>4, <1>6 DEF SelectsFit
  <2> QED BY <1>1, <1>3, <1>6, <2>1
<1> QED BY <1>2, <1>5, <1>6

LEMMA CallStep ==
    ASSUME LinesKept, ClocksRun, SdkInv, isr.pc = "none", ~due,
           NEW req \in Requests, Call(req), LatchEvents(intr_state), FicLatches(fic)
    PROVE  SdkInv'
<1> USE SdkAssumption
<1>1. /\ UNCHANGED << peri, cmdq, cur, tx, rx, error_status, intr_enable, control,
                      event_enable, isr, wire, spi >>
      /\ main.pc = "app" /\ req.spi \in DOMAIN Slaves
  BY DEF Call, HostKept, AppOnly
<1>2. ~intr_state' /\ ~fic' /\ intr_state' \in BOOLEAN /\ fic' \in BOOLEAN
  <2>1. ~Rises
    BY <1>1 DEF Rises
  <2> QED BY <1>1, <2>1, Latch, AppTurn DEF SdkInv, HostTypes
<1>3. HostTypes'
  BY <1>1, <1>2 DEF SdkInv, HostTypes
<1>4. CASE UNCHANGED << device, main >> /\ \E code : app' = [app EXCEPT !.code = code]
  <2>1. /\ DOMAIN app' = DOMAIN app /\ app'.txn = app.txn /\ app'.calls = app.calls
        /\ app'.overrun = app.overrun
    BY <1>4 DEF SdkInv, SdkTypes
  <2>2. SdkTypes'
    BY <1>1, <1>4, <2>1 DEF SdkInv, SdkTypes, HandleFits
  <2>3. NoHostErrors' /\ QuietWhenFree' /\ EventsKept' /\ HandlerInv'
    BY <1>1, <1>2, <1>4, <2>1 DEF SdkInv, NoHostErrors, QuietWhenFree, EventsKept, HandlerInv, Busy
  <2>4. LaunchInv' /\ BusyInv' /\ ResetInv' /\ ClockInv'
    BY <1>1, <1>2, <1>4, <2>1, AppTurn
       DEF SdkInv, LaunchInv, BusyInv, ResetInv, ClockInv, Launching, Resetting, Divider, Busy
  <2> QED BY <1>3, <2>2, <2>3, <2>4 DEF SdkInv
<1>5. CASE /\ spi[req.spi].init /\ ~Busy /\ device' = spi_set_slave(req.spi)
           /\ \/ UNCHANGED main /\ \E code : app' = [app EXCEPT !.code = code]
              \/ /\ Asked(req).code = "OK"
                 /\ app' = [app EXCEPT !.txn = Asked(req).txn, !.code = "OK",
                                       !.calls = @ + 1, !.reports = 0]
                 /\ Goto("launch")
  <2>1. /\ device' \in [csid : 0..1, clkdiv : [0..1 -> Nat]] /\ device'.clkdiv[1] = 0
        /\ DividersFit /\ SelectsFit => SysFreq \div (2 * Divider' + 2) <= Slaves[req.spi].freq
    BY <1>1, <1>5, SlaveIsSet
  <2>2. cur = <<>> /\ cmdq = <<>> /\ peri.scnt = 0
    BY <1>5, AppTurn
  <2>3. CASE UNCHANGED main /\ \E code : app' = [app EXCEPT !.code = code]
    <3>1. /\ DOMAIN app' = DOMAIN app /\ app'.txn = app.txn /\ app'.calls = app.calls
          /\ app'.overrun = app.overrun
      BY <2>3 DEF SdkInv, SdkTypes
    <3>2. SdkTypes'
      BY <1>1, <2>1, <2>3, <3>1 DEF SdkInv, SdkTypes, HandleFits
    <3>3. NoHostErrors' /\ QuietWhenFree' /\ EventsKept' /\ HandlerInv'
      BY <1>1, <1>2, <2>3, <3>1
         DEF SdkInv, NoHostErrors, QuietWhenFree, EventsKept, HandlerInv, Busy
    <3>4. LaunchInv' /\ BusyInv' /\ ResetInv' /\ ClockInv'
      BY <1>1, <1>2, <1>5, <2>2, <2>3, <3>1
         DEF SdkInv, LaunchInv, BusyInv, ResetInv, ClockInv, Launching, Resetting, Busy
    <3> QED BY <1>3, <3>2, <3>3, <3>4 DEF SdkInv
  <2>4. CASE /\ Asked(req).code = "OK"
             /\ app' = [app EXCEPT !.txn = Asked(req).txn, !.code = "OK",
                                   !.calls = @ + 1, !.reports = 0]
             /\ Goto("launch")
    <3> DEFINE txn == Asked(req).txn
    <3>1. txn \in Transactions /\ txn.spi = req.spi /\ txn.segments # <<>>
      BY <2>4, AskedType
    <3>2. app' = [app EXCEPT !.txn = txn, !.code = "OK", !.calls = @ + 1, !.reports = 0]
      BY <2>4
    <3> HIDE DEF txn
    <3>3. /\ DOMAIN app' = DOMAIN app /\ app'.txn = txn /\ app'.calls = app.calls + 1
          /\ app'.overrun = app.overrun
      BY <3>2 DEF SdkInv, SdkTypes
    <3>4. main' = [main EXCEPT !.pc = "launch"] /\ main'.pc = "launch"
      BY <2>4 DEF Goto, SdkInv, SdkTypes
    <3>5. SdkTypes'
      <4>1. main' \in [pc : {"app", "wait"} \cup Launching \cup Resetting,
                       ends : {"INIT", "TIMEOUT"}, command : Seq(Commands)]
        BY <3>4 DEF SdkInv, SdkTypes, Launching
      <4>2. \A h \in DOMAIN Slaves : HandleFits(h)'
        BY <1>1 DEF SdkInv, SdkTypes, HandleFits
      <4> QED BY <1>1, <2>1, <3>1, <3>3, <4>1, <4>2 DEF SdkInv, SdkTypes
    <3>6. NoHostErrors' /\ QuietWhenFree' /\ EventsKept' /\ HandlerInv'
      BY <1>1, <1>2, <3>3, <3>4
         DEF SdkInv, NoHostErrors, QuietWhenFree, EventsKept, HandlerInv, Busy
    <3>7. LaunchInv' /\ BusyInv' /\ ResetInv' /\ ClockInv'
      BY <1>1, <1>2, <1>5, <2>1, <2>2, <3>1, <3>3, <3>4
         DEF SdkInv, LaunchInv, BusyInv, ResetInv, ClockInv, Launching, Resetting, Busy
    <3> QED BY <1>3, <3>5, <3>6, <3>7 DEF SdkInv
  <2> QED BY <1>5, <2>3, <2>4
<1>6. \A code \in spi_prepare_transfer(req.spi) : code = "OK" => spi[req.spi].init /\ ~Busy
  BY DEF spi_prepare_transfer
<1> QED BY <1>4, <1>5, <1>6 DEF Call

-----------------------------------------------------------------------------
(* The steps of spi_launch up to its command: the host is idle, and no     *)
(* event can come.                                                         *)

LaunchStep ==
    \/ LaunchState \/ LaunchTxn \/ LaunchFill \/ LaunchCount \/ LaunchEvents
    \/ LaunchInterrupt \/ LaunchSegment

(* A word written can only lower the TX watermark, so nothing rises.       *)
LEMMA LaunchKeeps ==
    ASSUME LinesKept, SdkInv, main.pc \in Launching, LaunchStep,
           LatchEvents(intr_state), FicLatches(fic)
    PROVE  /\ UNCHANGED << cmdq, cur, rx, control, device, spi, isr, error_status >>
           /\ cur = <<>> /\ cmdq = <<>> /\ isr.pc = "none"
           /\ HostTypes' /\ ~intr_state' /\ ~fic'
<1> USE SdkAssumption, HostAssumption
<1>1. /\ UNCHANGED << cmdq, cur, rx, control, device, spi, isr >>
      /\ \/ UNCHANGED << tx, error_status >>
         \/ main.pc = "fill" /\ FillsTx /\ WriteTxData(TxWord(app.calls, peri.txcnt + 1))
      /\ event_enable' \in {event_enable, TRUE} /\ intr_enable' \in {intr_enable, TRUE}
  BY DEF LaunchStep, LaunchState, LaunchTxn, LaunchFill, LaunchCount, LaunchEvents,
         LaunchInterrupt, LaunchSegment, HostKept, AppOnly
<1>2. cur = <<>> /\ cmdq = <<>> /\ isr.pc = "none" /\ ~intr_state /\ ~fic
  BY DEF SdkInv, LaunchInv, QuietWhenFree
<1>3. /\ tx' \in Seq(OutWords) /\ error_status' = error_status
      /\ Len(tx) < control.txwm \/ ~(Len(tx') < control.txwm)
  <2>1. tx \in Seq(OutWords) /\ control.txwm \in Nat
    BY DEF SdkInv, HostTypes
  <2>2. CASE main.pc = "fill" /\ FillsTx /\ WriteTxData(TxWord(app.calls, peri.txcnt + 1))
    <3> DEFINE w == TxWord(app.calls, peri.txcnt + 1)
    <3>1. w \in OutWords
      BY DEF SdkInv, SdkTypes, TxWord, OutWords
    <3>2. tx' = Append(tx, w) /\ error_status' = error_status
      BY <2>2 DEF FillsTx, spi_get_tx_queue_depth, WriteTxData
    <3> HIDE DEF w
    <3> QED BY <2>1, <3>1, <3>2
  <2> QED BY <1>1, <2>1, <2>2
<1>4. ~Rises
  BY <1>1, <1>2, <1>3 DEF Rises
<1>5. /\ event_enable' \in BOOLEAN /\ intr_enable' \in BOOLEAN
      /\ intr_state' \in BOOLEAN /\ fic' \in BOOLEAN /\ ~intr_state' /\ ~fic'
  BY <1>1, <1>2, <1>4, Latch DEF SdkInv, HostTypes
<1>6. HostTypes'
  BY <1>1, <1>3, <1>5 DEF SdkInv, HostTypes
<1> QED BY <1>1, <1>2, <1>3, <1>5, <1>6

(* The command of a segment carries the divider in force.                  *)
LEMMA NextCommandType ==
    ASSUME SdkInv, peri.txn \in Transactions, peri.scnt < seglen(peri.txn)
    PROVE  /\ NextCommand \in Seq(Commands) /\ Len(NextCommand) = 1
           /\ NextCommand # <<>>
           /\ \A i \in DOMAIN NextCommand : NextCommand[i].clkdiv = Divider
<1> DEFINE seg == peri.txn.segments[peri.scnt + 1]
           last == peri.scnt + 1 = seglen(peri.txn)
           cmd == Command(seg, last)
<1>1. seg \in SegmentModes
  BY DEF seglen, Transactions, SdkInv, SdkTypes
<1>2. device \in [csid : 0..1, clkdiv : [0..1 -> Nat]]
  BY DEF SdkInv, SdkTypes
<1>3. NextCommand = <<cmd>>
  BY DEF NextCommand
<1>4. last \in BOOLEAN
  OBVIOUS
<1> HIDE DEF seg, last
<1>5. cmd \in Commands /\ cmd.clkdiv = Divider
  BY <1>1, <1>2, <1>4 DEF Command, Commands, SegmentModes, Divider
<1> HIDE DEF cmd
<1> QED BY <1>3, <1>5

(* A step of the program counter.                                          *)
LEMMA MainMoves ==
    ASSUME SdkTypes, UNCHANGED << device, spi, isr, peri, app >>,
           NEW pc \in Launching, main' = [main EXCEPT !.pc = pc]
    PROVE  SdkTypes' /\ main'.pc = pc
<1>1. /\ main'.pc = pc
      /\ main' \in [pc : {"app", "wait"} \cup Launching \cup Resetting,
                    ends : {"INIT", "TIMEOUT"}, command : Seq(Commands)]
  BY DEF SdkTypes
<1> QED BY <1>1 DEF SdkTypes, HandleFits

LEMMA LaunchStepKeeps ==
    ASSUME LinesKept, SdkInv, LaunchStep, LatchEvents(intr_state), FicLatches(fic)
    PROVE  SdkInv'
<1> USE SdkAssumption, HostAssumption
<1>1. main.pc \in Launching
  BY DEF LaunchStep, LaunchState, LaunchTxn, LaunchFill, LaunchCount, LaunchEvents,
         LaunchInterrupt, LaunchSegment, Launching
<1>2. /\ UNCHANGED << cmdq, cur, rx, control, device, spi, isr, error_status >>
      /\ cur = <<>> /\ cmdq = <<>> /\ isr.pc = "none"
      /\ HostTypes' /\ ~intr_state' /\ ~fic'
  BY <1>1, LaunchKeeps
<1>3. /\ app.txn \in Transactions /\ app.txn.segments # <<>>
      /\ main.pc # "launch" => Busy
      /\ main.pc # "command" => peri.scnt = 0
      /\ main.pc \notin {"launch", "txn"} => peri.txn = app.txn
      /\ main.pc \in {"intr", "ready", "command"} => event_enable
      /\ main.pc \in {"ready", "command"} => intr_enable
      /\ DividersFit /\ SelectsFit => SysFreq \div (2 * Divider + 2) <= Slaves[app.txn.spi].freq
      /\ event_enable => intr_enable \/ main.pc = "intr"
  BY <1>1 DEF SdkInv, LaunchInv, ClockInv, EventsKept
<1>4. SdkTypes
  BY DEF SdkInv
\* What a step must show of the rest.
<1>5. SUFFICES /\ SdkTypes' /\ NoHostErrors' /\ app'.txn = app.txn /\ Busy'
               /\ main'.pc \in Launching \ {"launch"}
               /\ main'.pc # "command" => peri'.scnt = 0
               /\ main'.pc # "txn" => peri'.txn = app.txn
               /\ event_enable' => intr_enable' \/ main'.pc = "intr"
               /\ main'.pc \in {"intr", "ready", "command"} => event_enable'
               /\ main'.pc \in {"ready", "command"} => intr_enable'
               /\ main'.pc = "command" =>
                     /\ main'.command # <<>>
                     /\ \A i \in DOMAIN main'.command : main'.command[i].clkdiv = Divider
  <2>1. Divider' = Divider
    BY <1>2 DEF Divider
  <2>2. QuietWhenFree' /\ EventsKept' /\ HandlerInv' /\ BusyInv' /\ ResetInv'
    BY <1>2, <1>5 DEF QuietWhenFree, EventsKept, HandlerInv, BusyInv, ResetInv, Launching,
       Resetting
  <2>3. LaunchInv'
    BY <1>2, <1>3, <1>5 DEF LaunchInv
  <2>4. ClockInv'
    BY <1>2, <1>3, <1>5, <2>1 DEF ClockInv
  <2> QED BY <1>2, <1>5, <2>2, <2>3, <2>4 DEF SdkInv
<1>6. CASE LaunchState
  <2>1. /\ main.pc = "launch" /\ main' = [main EXCEPT !.pc = "txn"]
        /\ peri' = [peri EXCEPT !.state = "BUSY", !.buffer = <<>>]
        /\ UNCHANGED << app, event_enable, intr_enable >>
    BY <1>6 DEF LaunchState, Goto, HostKept
  <2>2. SdkTypes' /\ Busy' /\ main'.pc = "txn" /\ peri'.scnt = peri.scnt
    <3>1. /\ DOMAIN peri' = DOMAIN peri /\ peri'.state = "BUSY"
          /\ peri'.txn = peri.txn /\ peri'.scnt = peri.scnt
          /\ peri'.txcnt = peri.txcnt /\ peri'.rxcnt = peri.rxcnt
          /\ peri'.txwm = peri.txwm /\ peri'.rxwm = peri.rxwm
      BY <1>4, <2>1 DEF SdkTypes
    <3>2. /\ main'.pc = "txn"
          /\ main' \in [pc : {"app", "wait"} \cup Launching \cup Resetting,
                       ends : {"INIT", "TIMEOUT"}, command : Seq(Commands)]
      BY <1>4, <2>1 DEF SdkTypes, Launching
    <3>3. UNCHANGED app
      BY <2>1
    <3>4. SdkTypes'
      BY <1>2, <1>4, <3>1, <3>2, <3>3 DEF SdkTypes, HandleFits, PeriStates
    <3> QED BY <3>1, <3>2, <3>4 DEF Busy
  <2> QED BY <1>2, <1>3, <2>1, <2>2 DEF SdkInv, NoHostErrors, Launching
<1>7. CASE LaunchTxn
  <2>1. /\ main.pc = "txn" /\ main' = [main EXCEPT !.pc = "fill"]
        /\ peri' = [peri EXCEPT !.txn = app.txn]
        /\ UNCHANGED << app, event_enable, intr_enable >>
    BY <1>7 DEF LaunchTxn, Goto, HostKept, AppOnly
  <2>2. /\ SdkTypes' /\ main'.pc = "fill"
        /\ peri'.scnt = peri.scnt /\ peri'.txn = app.txn /\ peri'.state = peri.state
    <3>1. /\ DOMAIN peri' = DOMAIN peri /\ peri'.state = peri.state
          /\ peri'.txn = app.txn /\ peri'.scnt = peri.scnt
          /\ peri'.txcnt = peri.txcnt /\ peri'.rxcnt = peri.rxcnt
          /\ peri'.txwm = peri.txwm /\ peri'.rxwm = peri.rxwm
      BY <1>4, <2>1 DEF SdkTypes
    <3>2. /\ main'.pc = "fill"
          /\ main' \in [pc : {"app", "wait"} \cup Launching \cup Resetting,
                       ends : {"INIT", "TIMEOUT"}, command : Seq(Commands)]
      BY <1>4, <2>1 DEF SdkTypes, Launching
    <3>3. UNCHANGED app
      BY <2>1
    <3>4. SdkTypes'
      BY <1>2, <1>3, <1>4, <3>1, <3>2, <3>3 DEF SdkTypes, HandleFits
    <3> QED BY <3>1, <3>2, <3>4
  <2> QED BY <1>2, <1>3, <2>1, <2>2 DEF SdkInv, NoHostErrors, Launching, Busy
<1>8. CASE LaunchFill
  <2>1. /\ main.pc = "fill" /\ \E pc \in {"count", "events"} : main' = [main EXCEPT !.pc = pc]
        /\ UNCHANGED << peri, app, event_enable, intr_enable >>
    BY <1>8 DEF LaunchFill, Goto, AppOnly
  <2>2. SdkTypes' /\ main'.pc \in {"count", "events"}
    <3>1. PICK pc \in {"count", "events"} : main' = [main EXCEPT !.pc = pc]
      BY <2>1
    <3>2. pc \in Launching
      BY DEF Launching
    <3> QED BY <1>2, <1>4, <2>1, <3>1, <3>2, MainMoves
  <2> QED BY <1>2, <1>3, <2>1, <2>2 DEF SdkInv, NoHostErrors, Launching, Busy
<1>9. CASE LaunchCount
  <2>1. /\ main.pc = "count" /\ main' = [main EXCEPT !.pc = "fill"]
        /\ peri' = [peri EXCEPT !.txcnt = @ + 1]
        /\ UNCHANGED << app, event_enable, intr_enable >>
    BY <1>9 DEF LaunchCount, Goto, HostKept, AppOnly
  <2>2. /\ SdkTypes' /\ main'.pc = "fill"
        /\ peri'.scnt = peri.scnt /\ peri'.txn = peri.txn /\ peri'.state = peri.state
    <3>1. /\ DOMAIN peri' = DOMAIN peri /\ peri'.txcnt = peri.txcnt + 1
          /\ peri'.state = peri.state /\ peri'.txn = peri.txn /\ peri'.scnt = peri.scnt
          /\ peri'.rxcnt = peri.rxcnt /\ peri'.txwm = peri.txwm /\ peri'.rxwm = peri.rxwm
      BY <1>4, <2>1 DEF SdkTypes
    <3>2. /\ main'.pc = "fill"
          /\ main' \in [pc : {"app", "wait"} \cup Launching \cup Resetting,
                       ends : {"INIT", "TIMEOUT"}, command : Seq(Commands)]
      BY <1>4, <2>1 DEF SdkTypes, Launching
    <3>3. peri.txcnt + 1 \in Nat
      BY <1>4 DEF SdkTypes
    <3> QED BY <1>2, <1>4, <2>1, <3>1, <3>2, <3>3 DEF SdkTypes, HandleFits
  <2> QED BY <1>2, <1>3, <2>1, <2>2 DEF SdkInv, NoHostErrors, Launching, Busy
<1>10. CASE LaunchEvents
  <2>1. /\ main.pc = "events" /\ main' = [main EXCEPT !.pc = "intr"] /\ event_enable'
        /\ UNCHANGED << peri, app >>
    BY <1>10 DEF LaunchEvents, Goto
  <2>2. SdkTypes' /\ main'.pc = "intr"
    <3>1. "intr" \in Launching
      BY DEF Launching
    <3> QED BY <1>2, <1>4, <2>1, <3>1, MainMoves
  <2> QED BY <1>2, <1>3, <2>1, <2>2 DEF SdkInv, NoHostErrors, Launching, Busy
<1>11. CASE LaunchInterrupt
  <2>1. /\ main.pc = "intr" /\ main' = [main EXCEPT !.pc = "ready"] /\ intr_enable'
        /\ UNCHANGED << peri, app, event_enable >>
    BY <1>11 DEF LaunchInterrupt, Goto, AppOnly
  <2>2. SdkTypes' /\ main'.pc = "ready"
    <3>1. "ready" \in Launching
      BY DEF Launching
    <3> QED BY <1>2, <1>4, <2>1, <3>1, MainMoves
  <2> QED BY <1>2, <1>3, <2>1, <2>2 DEF SdkInv, NoHostErrors, Launching, Busy
<1>12. CASE LaunchSegment
  <2>1. /\ main.pc = "ready" /\ main' = [main EXCEPT !.pc = "command", !.command = NextCommand]
        /\ app' = [app EXCEPT !.overrun = @ \/ NextCommand = <<>>]
        /\ peri' = [peri EXCEPT !.scnt = @ + 1]
        /\ UNCHANGED << event_enable, intr_enable >>
    BY <1>12 DEF LaunchSegment, HostKept, AppOnly
  <2>2. peri.txn \in Transactions /\ peri.scnt = 0 /\ peri.scnt < seglen(peri.txn)
    BY <1>3, <2>1 DEF seglen, Transactions
  <2>3. /\ NextCommand \in Seq(Commands) /\ NextCommand # <<>>
        /\ \A i \in DOMAIN NextCommand : NextCommand[i].clkdiv = Divider
    BY <2>2, NextCommandType
  <2> DEFINE next == NextCommand
  <2>4. /\ main' = [main EXCEPT !.pc = "command", !.command = next]
        /\ app' = [app EXCEPT !.overrun = @ \/ next = <<>>]
    BY <2>1
  <2>5. next \in Seq(Commands) /\ next # <<>> /\ \A i \in DOMAIN next : next[i].clkdiv = Divider
    BY <2>3
  <2> HIDE DEF next
  <2>6. /\ SdkTypes' /\ main'.pc = "command" /\ main'.command = next
        /\ peri'.txn = peri.txn /\ peri'.state = peri.state /\ app'.txn = app.txn
    <3>1. /\ DOMAIN peri' = DOMAIN peri /\ peri'.scnt = peri.scnt + 1
          /\ \A f \in DOMAIN peri \ {"scnt"} : peri'[f] = peri[f]
      BY <1>4, <2>1 DEF SdkTypes
    <3>2. /\ main'.pc = "command" /\ main'.command = next
          /\ main' \in [pc : {"app", "wait"} \cup Launching \cup Resetting,
                       ends : {"INIT", "TIMEOUT"}, command : Seq(Commands)]
      BY <1>4, <2>4, <2>5 DEF SdkTypes, Launching
    <3>3. DOMAIN app' = DOMAIN app /\ app'.txn = app.txn /\ app'.calls = app.calls
      BY <1>4, <2>4 DEF SdkTypes
    <3> QED BY <1>2, <1>4, <3>1, <3>2, <3>3 DEF SdkTypes, HandleFits
  <2>7. ~app'.overrun
    BY <1>4, <2>4, <2>5 DEF SdkTypes, SdkInv, NoHostErrors
  <2> QED BY <1>2, <1>3, <2>1, <2>5, <2>6, <2>7 DEF SdkInv, NoHostErrors, Launching, Busy
<1> QED BY <1>6, <1>7, <1>8, <1>9, <1>10, <1>11, <1>12 DEF LaunchStep

-----------------------------------------------------------------------------
(* A command written to a host that takes it.                              *)

LEMMA WriteCommandKeeps ==
    ASSUME SdkInv, NEW cmd \in Commands, cmd.clkdiv = Divider, Status.ready, WriteCommand(cmd)
    PROVE  /\ cmdq' \in Seq(Commands) /\ cur' \in Seq([cmd : Commands, left : Nat])
           /\ Len(cur') = 1 /\ cur' # <<>> /\ error_status' = error_status
           /\ \A i \in DOMAIN cmdq' : cmdq'[i].clkdiv = Divider
           /\ cur'[1].cmd.clkdiv = Divider
           /\ cur = <<>> => cmdq' = cmdq
           /\ Len(cmdq') >= Len(cmdq)
<1>1. /\ cmdq \in Seq(Commands) /\ cur \in Seq([cmd : Commands, left : Nat]) /\ Len(cur) <= 1
      /\ \A i \in DOMAIN cmdq : cmdq[i].clkdiv = Divider
      /\ cur # <<>> => cur[1].cmd.clkdiv = Divider
  BY DEF SdkInv, HostTypes, ClockInv
<1>2. CASE cur = <<>>
  <2>1. cur' = <<Begin(cmd)>> /\ UNCHANGED << cmdq, error_status >>
    BY <1>2 DEF WriteCommand, Status
  <2>2. Begin(cmd) \in [cmd : Commands, left : Nat] /\ Begin(cmd).cmd = cmd
    BY DEF Begin, WordsOf, LenWords, Commands
  <2> DEFINE b == Begin(cmd)
  <2>3. cur' = <<b>> /\ b \in [cmd : Commands, left : Nat] /\ b.cmd = cmd
    BY <2>1, <2>2
  <2> HIDE DEF b
  <2> QED BY <1>1, <2>1, <2>3
<1>3. CASE cur # <<>>
  <2>1. cmdq' = Append(cmdq, cmd) /\ UNCHANGED << cur, error_status >>
    BY <1>3 DEF WriteCommand, Status
  <2>2. Len(cur) = 1
    <3> DEFINE S == [cmd : Commands, left : Nat]
    <3>1. cur \in Seq(S) /\ Len(cur) <= 1
      BY <1>1
    <3> HIDE DEF S
    <3>2. \A seq \in Seq(S) : seq # <<>> => Len(seq) \in Nat \ {0}
      BY EmptySeq
    <3>3. Len(cur) \in Nat \ {0}
      BY <1>3, <3>1, <3>2
    <3>4. \A n \in Nat \ {0} : n <= 1 => n = 1
      OBVIOUS
    <3> QED BY <3>1, <3>3, <3>4
  <2> QED BY <1>1, <1>3, <2>1, <2>2
<1> QED BY <1>2, <1>3

LEMMA CommandStep ==
    ASSUME LinesKept, SdkInv, LaunchCommand, LatchEvents(intr_state), FicLatches(fic)
    PROVE  SdkInv'
<1> USE SdkAssumption, HostAssumption
<1>1. /\ main.pc = "command" /\ spi_set_command(main.command)
      /\ \E pc \in {"wait", "app"} : main' = [main EXCEPT !.pc = pc, !.command = <<>>]
      /\ UNCHANGED << peri, device, app, tx, intr_enable, control, rx, event_enable, isr, wire, spi >>
  BY DEF LaunchCommand, AppOnly
<1>2. /\ cur = <<>> /\ cmdq = <<>> /\ ~intr_state /\ ~fic /\ isr.pc = "none" /\ Busy
      /\ event_enable /\ intr_enable /\ main.command # <<>>
  BY <1>1 DEF SdkInv, LaunchInv, Launching, QuietWhenFree
<1> DEFINE cmd == main.command[1]
<1>3. cmd \in Commands /\ cmd.clkdiv = Divider
  <2>1. main.command \in Seq(Commands)
    BY DEF SdkInv, SdkTypes
  <2> QED BY <1>1, <1>2, <2>1 DEF SdkInv, ClockInv
<1>4. Status.ready /\ WriteCommand(cmd)
  <2>1. Len(cmdq) < CmdDepth
    BY <1>2
  <2>2. Status.ready
    BY <2>1 DEF Status
  <2> QED BY <1>1, <1>2, <2>2 DEF spi_set_command
<1> HIDE DEF cmd
<1>5. /\ cmdq' = <<>> /\ cur' \in Seq([cmd : Commands, left : Nat])
      /\ Len(cur') = 1 /\ cur' # <<>> /\ error_status' = error_status
      /\ cur'[1].cmd.clkdiv = Divider
  BY <1>2, <1>3, <1>4, WriteCommandKeeps
<1>6. /\ intr_state' \in BOOLEAN /\ fic' \in BOOLEAN /\ ~intr_state' /\ ~fic'
  <2>1. ~Rises
    BY <1>1, <1>2, <1>5 DEF Rises
  <2> QED BY <1>1, <1>2, <2>1, Latch DEF SdkInv, HostTypes
<1>7. HostTypes'
  BY <1>1, <1>2, <1>5, <1>6 DEF SdkInv, HostTypes
<1>8. SdkTypes' /\ main'.pc \in {"app", "wait"}
  <2>1. /\ main'.pc \in {"app", "wait"}
        /\ main' \in [pc : {"app", "wait"} \cup Launching \cup Resetting,
                       ends : {"INIT", "TIMEOUT"}, command : Seq(Commands)]
    <3>1. PICK pc \in {"wait", "app"} : main' = [main EXCEPT !.pc = pc, !.command = <<>>]
      BY <1>1
    <3>2. <<>> \in Seq(Commands)
      OBVIOUS
    <3> QED BY <3>1, <3>2 DEF SdkInv, SdkTypes
  <2> QED BY <1>1, <2>1 DEF SdkInv, SdkTypes, HandleFits
<1>9. NoHostErrors' /\ QuietWhenFree' /\ EventsKept' /\ HandlerInv' /\ LaunchInv' /\ BusyInv'
      /\ ResetInv'
  BY <1>1, <1>2, <1>5, <1>6, <1>8
     DEF SdkInv, NoHostErrors, QuietWhenFree, EventsKept, HandlerInv, LaunchInv, BusyInv, ResetInv,
         Launching, Resetting, Busy
<1>10. ClockInv'
  BY <1>1, <1>2, <1>5, <1>8 DEF SdkInv, ClockInv, Launching, Divider, Busy
<1> QED BY <1>7, <1>8, <1>9, <1>10 DEF SdkInv

-----------------------------------------------------------------------------
(* The end of a wait, and the steps of spi_reset_peri.                     *)

ResetStep ==
    WaitOver \/ ResetStart \/ ResetTxn \/ ResetHost \/ ResetWatermarks \/ ResetState

LEMMA ResetStepKeeps ==
    ASSUME LinesKept, SdkInv, isr.pc = "none", ~due, ResetStep,
           LatchEvents(intr_state), FicLatches(fic)
    PROVE  SdkInv'
<1> USE SdkAssumption, HostAssumption
<1>1. /\ main.pc \in {"app", "wait"} \cup Resetting
      /\ UNCHANGED << device, error_status, intr_enable, event_enable, isr, spi >>
  BY DEF ResetStep, WaitOver, ResetStart, ResetTxn, ResetHost, ResetWatermarks, ResetState,
         HostKept, AppOnly, Resetting
<1>2. /\ ~fic /\ ~intr_state
      /\ Busy => cur # <<>> /\ event_enable /\ intr_enable
      /\ ~Busy => cur = <<>> /\ cmdq = <<>> /\ peri.scnt = 0
      /\ main.pc \notin Launching
  BY <1>1, AppTurn DEF Launching, Resetting
<1>3. /\ intr_state' \in BOOLEAN /\ fic' \in BOOLEAN
      /\ intr_state' => fic'
      /\ Busy /\ cur' = <<>> => fic'
  <2>1. event_enable => intr_enable
    BY <1>1 DEF SdkInv, EventsKept, Resetting
  <2> QED BY <1>1, <1>2, <2>1, Latch DEF SdkInv, HostTypes
<1>4. HostTypes /\ SdkTypes
  BY DEF SdkInv
\* What a step must show of the rest.
<1>5. SUFFICES /\ \/ UNCHANGED << cmdq, cur, tx >>
                  \/ cmdq' = <<>> /\ cur' = <<>> /\ tx' = <<>>
               /\ control' \in [txwm : Nat, rxwm : Nat]
               /\ SdkTypes' /\ app'.overrun = app.overrun /\ app'.txn = app.txn
               /\ main'.pc \in {"app"} \cup Resetting
               /\ Busy' <=> Busy
               /\ ~Busy => peri'.scnt = 0
               /\ main'.pc \in Resetting \ {"rst_txn"} => peri'.txn = NoTxn
               /\ main'.pc \in {"rst_wm", "rst_state"} => cur' = <<>>
  <2>1. Divider' = Divider
    BY <1>1 DEF Divider
  <2>2. HostTypes'
    <3>1. CASE UNCHANGED << cmdq, cur, tx >>
      BY <1>1, <1>3, <1>4, <1>5, <3>1 DEF HostTypes
    <3>2. CASE cmdq' = <<>> /\ cur' = <<>> /\ tx' = <<>>
      BY <1>1, <1>3, <1>4, <1>5, <3>2 DEF HostTypes
    <3> QED BY <1>5, <3>1, <3>2
  <2>3. NoHostErrors' /\ QuietWhenFree' /\ EventsKept' /\ HandlerInv' /\ LaunchInv' /\ BusyInv'
        /\ ResetInv'
    BY <1>1, <1>2, <1>3, <1>5
       DEF SdkInv, NoHostErrors, QuietWhenFree, EventsKept, HandlerInv, LaunchInv, BusyInv,
           ResetInv, Launching, Resetting, Busy
  <2>4. ClockInv'
    BY <1>1, <1>5, <2>1 DEF SdkInv, ClockInv, Launching, Resetting
  <2> QED BY <1>5, <2>2, <2>3, <2>4 DEF SdkInv
<1>6. CASE WaitOver
  <2>1. /\ main' = [main EXCEPT !.pc = "app"]
        /\ UNCHANGED << peri, app, cmdq, cur, tx, control >>
    BY <1>6 DEF WaitOver, Goto, HostKept
  <2>2. SdkTypes' /\ main'.pc = "app"
    BY <1>1, <1>4, <2>1 DEF SdkTypes, HandleFits
  <2> QED BY <1>2, <1>4, <2>1, <2>2 DEF Busy, Resetting, HostTypes
<1>7. CASE ResetStart
  <2>1. /\ \E ends \in {"INIT", "TIMEOUT"} : main' = [main EXCEPT !.pc = "rst_txn", !.ends = ends]
        /\ peri' = ResetCounters(peri) /\ app' = [app EXCEPT !.resets = @ + 1]
        /\ UNCHANGED << cmdq, cur, tx, control >>
    BY <1>7 DEF ResetStart, HostKept
  <2>2. /\ DOMAIN peri' = DOMAIN peri
        /\ peri'.scnt = 0 /\ peri'.txcnt = 0 /\ peri'.rxcnt = 0
        /\ peri'.state = peri.state /\ peri'.txn = peri.txn
        /\ peri'.txwm = peri.txwm /\ peri'.rxwm = peri.rxwm
    BY <1>4, <2>1 DEF SdkTypes, ResetCounters
  <2>3. /\ main'.pc = "rst_txn"
        /\ main' \in [pc : {"app", "wait"} \cup Launching \cup Resetting,
                       ends : {"INIT", "TIMEOUT"}, command : Seq(Commands)]
    BY <1>4, <2>1 DEF SdkTypes, Resetting
  <2>4. /\ DOMAIN app' = DOMAIN app /\ app'.txn = app.txn /\ app'.calls = app.calls
        /\ app'.overrun = app.overrun
    BY <1>4, <2>1 DEF SdkTypes
  <2>5. SdkTypes'
    BY <1>1, <1>4, <2>2, <2>3, <2>4 DEF SdkTypes, HandleFits
  <2> QED BY <1>4, <2>1, <2>2, <2>3, <2>4, <2>5 DEF Busy, Resetting, HostTypes
<1>8. CASE ResetTxn
  <2>1. /\ main' = [main EXCEPT !.pc = "rst_sw"] /\ peri' = [peri EXCEPT !.txn = NoTxn]
        /\ UNCHANGED << app, cmdq, cur, tx, control >>
    BY <1>8 DEF ResetTxn, Goto, HostKept
  <2>2. SdkTypes' /\ main'.pc = "rst_sw" /\ peri'.txn = NoTxn /\ peri'.scnt = peri.scnt
        /\ peri'.state = peri.state
    BY <1>1, <1>4, <2>1 DEF SdkTypes, HandleFits, Resetting
  <2> QED BY <1>2, <1>4, <2>1, <2>2 DEF Busy, Resetting, HostTypes
<1>9. CASE ResetHost
  <2>1. /\ main.pc = "rst_sw" /\ main' = [main EXCEPT !.pc = "rst_wm"]
        /\ cmdq' = <<>> /\ cur' = <<>> /\ tx' = <<>>
        /\ UNCHANGED << peri, app, control >>
    BY <1>9 DEF ResetHost, Goto, SoftwareReset
  <2>2. SdkTypes' /\ main'.pc = "rst_wm"
    BY <1>1, <1>4, <2>1 DEF SdkTypes, HandleFits, Resetting
  <2> QED BY <1>2, <1>4, <2>1, <2>2 DEF Busy, Resetting, HostTypes, SdkInv, ResetInv
<1>10. CASE ResetWatermarks
  <2>1. /\ main.pc = "rst_wm" /\ main' = [main EXCEPT !.pc = "rst_state"]
        /\ control' = [txwm |-> peri.txwm, rxwm |-> peri.rxwm]
        /\ UNCHANGED << peri, app, cmdq, cur, tx >>
    BY <1>10 DEF ResetWatermarks, Goto
  <2>2. SdkTypes' /\ main'.pc = "rst_state"
    BY <1>1, <1>4, <2>1 DEF SdkTypes, HandleFits, Resetting
  <2>3. control' \in [txwm : Nat, rxwm : Nat]
    BY <1>4, <2>1 DEF SdkTypes
  <2> QED BY <1>2, <2>1, <2>2, <2>3 DEF Busy, Resetting, SdkInv, ResetInv
<1>11. CASE ResetState
  <2>1. /\ main.pc = "rst_state" /\ main' = [main EXCEPT !.pc = "app"]
        /\ peri' = [peri EXCEPT !.state = main.ends]
        /\ UNCHANGED << app, cmdq, cur, tx, control >>
    BY <1>11 DEF ResetState, Goto, HostKept
  \* The host is idle, so the handler has ended the transaction by now.
  <2>2. ~Busy
    BY <1>2, <2>1 DEF SdkInv, ResetInv, Resetting
  <2>3. /\ SdkTypes' /\ main'.pc = "app" /\ peri'.scnt = peri.scnt /\ ~Busy'
    BY <1>1, <1>4, <2>1 DEF SdkTypes, HandleFits, PeriStates, Busy
  <2> QED BY <1>2, <1>4, <2>1, <2>2, <2>3 DEF Resetting, HostTypes
<1> QED BY <1>6, <1>7, <1>8, <1>9, <1>10, <1>11 DEF ResetStep

-----------------------------------------------------------------------------
(* The handler.                                                            *)

LEMMA TakeInterruptStep ==
    ASSUME LinesKept, SdkInv, TakeInterrupt
    PROVE  SdkInv'
<1>1. /\ UNCHANGED << hostVars, peri, device, spi, main, app, wire >>
      /\ isr.pc = "none" /\ due /\ isr' = [isr EXCEPT !.pc = "ack"]
  BY DEF TakeInterrupt, IsrGoto
<1>2. main.pc \notin Launching
  BY <1>1 DEF due, line, SdkInv, LaunchInv
<1>3. fic' \in BOOLEAN
  BY DEF TakeInterrupt, FicLatches
<1>4. isr'.pc = "ack" /\ SdkTypes'
  BY <1>1 DEF SdkInv, SdkTypes, HandleFits
<1>5. HostTypes' /\ ClockInv'
  BY <1>1, <1>3 DEF hostVars, SdkInv, HostTypes, ClockInv, Divider, Busy
<1>6. NoHostErrors' /\ QuietWhenFree' /\ EventsKept' /\ HandlerInv' /\ LaunchInv' /\ BusyInv'
      /\ ResetInv'
  BY <1>1, <1>2, <1>4
     DEF hostVars, SdkInv, NoHostErrors, QuietWhenFree, EventsKept, HandlerInv, LaunchInv,
         BusyInv, ResetInv, Busy
<1> QED BY <1>4, <1>5, <1>6 DEF SdkInv

LEMMA AcknowledgeStep ==
    ASSUME LinesKept, SdkInv, Acknowledge
    PROVE  SdkInv'
<1>1. /\ UNCHANGED << cmdq, cur, tx, rx, error_status, event_enable, intr_enable, peri, app >>
      /\ UNCHANGED << device, spi, main, control, wire >>
      /\ isr.pc = "ack" /\ isr' = [isr EXCEPT !.pc = "status"]
      /\ LatchEvents(FALSE) /\ FicLatches(fic)
  BY DEF Acknowledge, IsrOnly, IsrGoto
<1>2. main.pc \notin Launching
  BY <1>1 DEF SdkInv, LaunchInv
<1>3. intr_state' \in BOOLEAN /\ fic' \in BOOLEAN /\ ~intr_state' /\ (fic => fic')
  <2>1. ~Rises
    BY <1>1 DEF Rises
  <2> QED BY <1>1, <2>1, Latch DEF SdkInv, HostTypes
<1>4. isr'.pc = "status" /\ SdkTypes'
  BY <1>1 DEF SdkInv, SdkTypes, HandleFits
<1>5. HostTypes' /\ ClockInv'
  BY <1>1, <1>3 DEF SdkInv, HostTypes, ClockInv, Divider, Busy
<1>6. NoHostErrors' /\ QuietWhenFree' /\ EventsKept' /\ HandlerInv' /\ LaunchInv' /\ BusyInv'
      /\ ResetInv'
  BY <1>1, <1>2, <1>3, <1>4
     DEF SdkInv, NoHostErrors, QuietWhenFree, EventsKept, HandlerInv, LaunchInv,
         BusyInv, ResetInv, Busy
<1> QED BY <1>4, <1>5, <1>6 DEF SdkInv

(* Of the peripheral the loops of the handler change a counter.            *)
LEMMA CountsKept ==
    ASSUME SdkTypes, UNCHANGED << device, spi, main, app >>,
           DOMAIN peri' = DOMAIN peri, peri'.rxcnt \in Nat, peri'.txcnt \in Nat,
           peri'.state = peri.state, peri'.txn = peri.txn, peri'.scnt = peri.scnt,
           peri'.txwm = peri.txwm, peri'.rxwm = peri.rxwm,
           isr' \in [pc : {"none", "ack", "status", "ready", "txwm", "rxwm", "last"},
                     events : SUBSET {"ready", "idle", "txwm", "rxwm"}]
    PROVE  SdkTypes'
  BY DEF SdkTypes, HandleFits

(* A word is read only from a FIFO that has one.                           *)
LEMMA ReadWord ==
    ASSUME SdkTypes, EmptiesRx, spi_read_word
    PROVE  /\ error_status' = error_status
           /\ DOMAIN peri' = DOMAIN peri /\ peri'.rxcnt \in Nat /\ peri'.txcnt \in Nat
           /\ peri'.state = peri.state /\ peri'.txn = peri.txn /\ peri'.scnt = peri.scnt
           /\ peri'.txwm = peri.txwm /\ peri'.rxwm = peri.rxwm
<1>1. error_status' = error_status
  BY DEF EmptiesRx, spi_get_rx_queue_depth, spi_read_word, ReadRxData
<1> DEFINE b == Append(peri.buffer, Head(rx))
<1>2. peri' = [peri EXCEPT !.rxcnt = @ + 1, !.buffer = b]
  BY DEF spi_read_word
<1> HIDE DEF b
<1> QED BY <1>1, <1>2 DEF SdkTypes

LEMMA HandlerKeeps ==
    ASSUME LinesKept, SdkInv, Handler, LatchEvents(intr_state), FicLatches(fic)
    PROVE  SdkInv'
<1> USE SdkAssumption, HostAssumption
<1>1. /\ UNCHANGED << device, spi, main, control, wire >>
      /\ isr.pc \in {"status", "ready", "txwm", "rxwm", "last"}
  BY DEF Handler, spi_get_events, HandleReady, HandleIdle, HandleOther, HandleTxwm, HandleRxwm,
         HandleLast, IsrOnly
<1>2. /\ main.pc \notin Launching
      /\ event_enable => intr_enable
      /\ intr_state => fic
      /\ isr.pc # "status" => Busy
      /\ peri.scnt \in Nat
      /\ HostTypes /\ SdkTypes
  BY <1>1 DEF SdkInv, LaunchInv, EventsKept, HandlerInv, SdkTypes, Launching
<1>3. ASSUME intr_enable' \in BOOLEAN, intr_enable' = intr_enable \/ ~Rises
      PROVE  /\ intr_state' \in BOOLEAN /\ fic' \in BOOLEAN
             /\ fic => fic'
             /\ intr_state' => fic'
  BY <1>2, <1>3, Latch DEF HostTypes
\* The steps that write no command and leave the interrupt enabled.
<1>4. ASSUME UNCHANGED << cmdq, cur, event_enable, intr_enable, error_status >>,
             tx' \in Seq(OutWords), SdkTypes',
             peri'.state = peri.state, peri'.txn = peri.txn, peri'.scnt = peri.scnt,
             app'.txn = app.txn, app'.overrun = app.overrun,
             HandlerInv',
             Busy => /\ isr'.pc = "last" \/ (event_enable /\ intr_enable)
                     /\ \/ cur # <<>> \/ fic
                        \/ isr'.pc \in {"ack", "status", "last"}
                        \/ isr'.pc = "ready" /\ {"ready", "idle"} \subseteq isr'.events
      PROVE  SdkInv'
  <2>1. /\ intr_state' \in BOOLEAN /\ fic' \in BOOLEAN
        /\ fic => fic'
        /\ intr_state' => fic'
    BY <1>2, <1>3, <1>4 DEF HostTypes
  <2>2. HostTypes'
    BY <1>1, <1>2, <1>4, <2>1 DEF HostTypes
  <2>3. Divider' = Divider
    BY <1>1 DEF Divider
  <2>4. ClockInv'
    BY <1>1, <1>4, <2>3 DEF SdkInv, ClockInv, Busy
  <2>5. NoHostErrors' /\ QuietWhenFree' /\ EventsKept' /\ LaunchInv' /\ BusyInv' /\ ResetInv'
    BY <1>1, <1>2, <1>4, <2>1
       DEF SdkInv, NoHostErrors, QuietWhenFree, EventsKept, LaunchInv, BusyInv, ResetInv, Busy
  <2> QED BY <1>4, <2>2, <2>4, <2>5 DEF SdkInv
<1>5. CASE spi_get_events
  <2>1. /\ isr.pc = "status"
        /\ isr' = [pc |-> spi_intr_handler_event, events |-> {f \in DOMAIN Status : Status[f]}]
        /\ UNCHANGED << cmdq, cur, tx, error_status, event_enable, intr_enable, peri, app >>
    BY <1>5 DEF spi_get_events
  <2>2. /\ isr'.pc \in {"ready", "none"} /\ (isr'.pc = "ready" <=> Busy)
        /\ isr'.events \subseteq {"ready", "idle", "txwm", "rxwm"}
        /\ "idle" \in isr'.events <=> cur = <<>>
        /\ cur = <<>> => "ready" \in isr'.events
    <3>1. cur = <<>> => Len(cmdq) < CmdDepth
      BY DEF SdkInv, QuietWhenFree
    <3> QED BY <2>1, <3>1 DEF Status, spi_intr_handler_event
  <2>3. SdkTypes'
    BY <1>1, <1>2, <2>1, <2>2 DEF SdkTypes, HandleFits
  <2>4. HandlerInv'
    BY <2>1, <2>2 DEF HandlerInv, Busy
  <2> QED BY <1>2, <1>4, <2>1, <2>2, <2>3, <2>4 DEF HostTypes, SdkInv, BusyInv
<1>6. CASE HandleReady
  <2>1. /\ isr.pc = "ready" /\ "ready" \in isr.events /\ HasSegments
        /\ spi_set_command(NextCommand)
        /\ peri' = [peri EXCEPT !.scnt = @ + 1]
        /\ isr' = [isr EXCEPT !.pc = "txwm"]
        /\ UNCHANGED << tx, rx, event_enable, intr_enable, app >>
    BY <1>6 DEF HandleReady, IsrGoto
  <2>2. Busy /\ event_enable /\ intr_enable
    BY <1>2, <2>1 DEF SdkInv, BusyInv
  <2>3. peri.txn \in Transactions /\ peri.scnt < seglen(peri.txn)
    BY <1>2, <2>1 DEF HasSegments, SdkTypes, seglen, NoTxn
  <2>4. /\ NextCommand \in Seq(Commands) /\ NextCommand # <<>> /\ Len(NextCommand) = 1
        /\ \A i \in DOMAIN NextCommand : NextCommand[i].clkdiv = Divider
    BY <2>3, NextCommandType
  <2> DEFINE cmd == NextCommand[1]
  <2>5. cmd \in Commands /\ cmd.clkdiv = Divider
    BY <2>4
  <2>6. \/ Status.ready /\ WriteCommand(cmd)
        \/ ~Status.ready /\ UNCHANGED << cmdq, cur, error_status >>
    BY <2>1, <2>4 DEF spi_set_command
  <2> HIDE DEF cmd
  <2>7. cur = <<>> => Status.ready
    <3>1. cur = <<>> => Len(cmdq) < CmdDepth
      BY DEF SdkInv, QuietWhenFree
    <3> QED BY <3>1 DEF Status
  <2>8. /\ cmdq' \in Seq(Commands) /\ cur' \in Seq([cmd : Commands, left : Nat]) /\ Len(cur') <= 1
        /\ cur' # <<>> /\ error_status' = error_status
        /\ \A i \in DOMAIN cmdq' : cmdq'[i].clkdiv = Divider
        /\ cur'[1].cmd.clkdiv = Divider
    <3>1. CASE Status.ready /\ WriteCommand(cmd)
      <4>1. /\ cmdq' \in Seq(Commands) /\ cur' \in Seq([cmd : Commands, left : Nat])
            /\ Len(cur') = 1 /\ cur' # <<>> /\ error_status' = error_status
            /\ \A i \in DOMAIN cmdq' : cmdq'[i].clkdiv = Divider
            /\ cur'[1].cmd.clkdiv = Divider
        BY <2>5, <3>1, WriteCommandKeeps
      <4>2. \A n : n = 1 => n <= 1
        OBVIOUS
      <4> QED BY <4>1, <4>2
    <3>2. CASE ~Status.ready /\ UNCHANGED << cmdq, cur, error_status >>
      BY <1>2, <2>7, <3>2 DEF HostTypes, SdkInv, ClockInv
    <3> QED BY <2>6, <3>1, <3>2
  <2>9. /\ intr_state' \in BOOLEAN /\ fic' \in BOOLEAN
        /\ intr_state' => fic'
    BY <1>2, <1>3, <2>1 DEF HostTypes
  <2>10. HostTypes'
    BY <1>1, <1>2, <2>1, <2>8, <2>9 DEF HostTypes
  <2>11. /\ SdkTypes' /\ isr'.pc = "txwm"
         /\ peri'.state = peri.state /\ peri'.txn = peri.txn /\ peri'.scnt = peri.scnt + 1
    <3>1. /\ DOMAIN peri' = DOMAIN peri /\ peri'.scnt = peri.scnt + 1
          /\ peri'.rxcnt = peri.rxcnt /\ peri'.txcnt = peri.txcnt
          /\ peri'.state = peri.state /\ peri'.txn = peri.txn
          /\ peri'.txwm = peri.txwm /\ peri'.rxwm = peri.rxwm
      BY <1>2, <2>1 DEF SdkTypes
    <3>2. /\ isr'.pc = "txwm"
          /\ isr' \in [pc : {"none", "ack", "status", "ready", "txwm", "rxwm", "last"},
                       events : SUBSET {"ready", "idle", "txwm", "rxwm"}]
      BY <1>2, <2>1 DEF SdkTypes
    <3>3. UNCHANGED app /\ peri'.scnt \in Nat
      BY <1>2, <2>1, <3>1
    <3>4. SdkTypes'
      BY <1>1, <1>2, <3>1, <3>2, <3>3 DEF SdkTypes, HandleFits
    <3> QED BY <3>1, <3>2, <3>4
  \* After the transaction is taken away a reset finds no segment to issue.
  <2>12. main.pc \notin Resetting \ {"rst_txn"}
    BY <2>3 DEF SdkInv, ResetInv, seglen, NoTxn, SdkTypes
  <2>13. Divider' = Divider
    BY <1>1 DEF Divider
  <2>14. NoHostErrors' /\ QuietWhenFree' /\ EventsKept' /\ HandlerInv' /\ LaunchInv' /\ BusyInv'
         /\ ResetInv'
    BY <1>1, <1>2, <2>1, <2>2, <2>8, <2>9, <2>11, <2>12
       DEF SdkInv, NoHostErrors, QuietWhenFree, EventsKept, HandlerInv, LaunchInv, BusyInv,
           ResetInv, Busy, Resetting
  <2>15. ClockInv'
    BY <1>1, <2>1, <2>2, <2>8, <2>13, <1>2 DEF SdkInv, ClockInv
  <2> QED BY <2>10, <2>11, <2>14, <2>15 DEF SdkInv
<1>7. CASE HandleIdle
  <2>1. /\ isr.pc = "ready" /\ {"ready", "idle"} \subseteq isr.events
        /\ ~event_enable' /\ ~intr_enable' /\ event_enable' \in BOOLEAN /\ intr_enable' \in BOOLEAN
        /\ isr' = [isr EXCEPT !.pc = "last"]
        /\ UNCHANGED << cmdq, cur, tx, rx, error_status, peri, app >>
    BY <1>7 DEF HandleIdle, Ends, IsrGoto
  <2>2. cur = <<>>
    BY <2>1 DEF SdkInv, HandlerInv
  <2>3. ~Rises
    BY <1>1, <2>1 DEF Rises
  <2>4. /\ intr_state' \in BOOLEAN /\ fic' \in BOOLEAN
        /\ intr_state' => fic'
    BY <1>2, <1>3, <2>1, <2>3 DEF HostTypes
  <2>5. HostTypes'
    BY <1>1, <1>2, <2>1, <2>4 DEF HostTypes
  <2>6. SdkTypes' /\ isr'.pc = "last"
    BY <1>1, <1>2, <2>1 DEF SdkTypes, HandleFits
  <2>7. NoHostErrors' /\ QuietWhenFree' /\ EventsKept' /\ HandlerInv' /\ LaunchInv' /\ BusyInv'
        /\ ResetInv'
    BY <1>1, <1>2, <2>1, <2>2, <2>4, <2>6
       DEF SdkInv, NoHostErrors, QuietWhenFree, EventsKept, HandlerInv, LaunchInv, BusyInv,
           ResetInv, Busy
  <2>8. ClockInv'
    BY <1>1, <2>1 DEF SdkInv, ClockInv, Divider, Busy
  <2> QED BY <2>5, <2>6, <2>7, <2>8 DEF SdkInv
<1>8. CASE HandleOther
  <2>1. /\ isr.pc = "ready" /\ ~Ends /\ ~("ready" \in isr.events /\ HasSegments)
        /\ isr' = [isr EXCEPT !.pc = "txwm"]
        /\ UNCHANGED << cmdq, cur, tx, error_status, event_enable, intr_enable, peri, app >>
    BY <1>8 DEF HandleOther, IsrGoto
  <2>2. isr'.pc = "txwm" /\ SdkTypes'
    BY <1>1, <1>2, <2>1 DEF SdkTypes, HandleFits
  <2>3. HandlerInv'
    BY <1>2, <2>1, <2>2 DEF HandlerInv, Busy
  <2>4. ~({"ready", "idle"} \subseteq isr.events)
    BY <2>1 DEF Ends
  <2> QED BY <1>2, <1>4, <2>1, <2>2, <2>3, <2>4 DEF HostTypes, SdkInv, BusyInv
<1>9. CASE HandleTxwm
  <2>1. /\ isr.pc = "txwm"
        /\ UNCHANGED << cmdq, cur, rx, event_enable, intr_enable, app >>
        /\ \/ /\ FillsTx /\ WriteTxData(TxWord(app.calls, peri.txcnt + 1))
              /\ peri' = [peri EXCEPT !.txcnt = @ + 1]
              /\ UNCHANGED isr
           \/ UNCHANGED << tx, error_status, peri >> /\ isr' = [isr EXCEPT !.pc = "rxwm"]
    BY <1>9 DEF HandleTxwm, IsrGoto
  <2>2. /\ isr'.pc \in {"txwm", "rxwm"}
        /\ isr' \in [pc : {"none", "ack", "status", "ready", "txwm", "rxwm", "last"},
                     events : SUBSET {"ready", "idle", "txwm", "rxwm"}]
    BY <1>2, <2>1 DEF SdkTypes
  <2>3. tx' \in Seq(OutWords) /\ error_status' = error_status
    <3>1. CASE FillsTx /\ WriteTxData(TxWord(app.calls, peri.txcnt + 1))
      <4> DEFINE w == TxWord(app.calls, peri.txcnt + 1)
      <4>1. w \in OutWords
        BY <1>2 DEF SdkTypes, TxWord, OutWords
      <4>2. tx' = Append(tx, w) /\ error_status' = error_status
        BY <3>1 DEF FillsTx, spi_get_tx_queue_depth, WriteTxData
      <4> HIDE DEF w
      <4> QED BY <1>2, <4>1, <4>2 DEF HostTypes
    <3> QED BY <1>2, <2>1, <3>1 DEF HostTypes
  <2>4. /\ DOMAIN peri' = DOMAIN peri /\ peri'.rxcnt \in Nat /\ peri'.txcnt \in Nat
        /\ peri'.state = peri.state /\ peri'.txn = peri.txn /\ peri'.scnt = peri.scnt
        /\ peri'.txwm = peri.txwm /\ peri'.rxwm = peri.rxwm
    <3>1. CASE peri' = [peri EXCEPT !.txcnt = @ + 1]
      BY <1>2, <3>1 DEF SdkTypes
    <3>2. CASE peri' = peri
      BY <1>2, <3>2 DEF SdkTypes
    <3> QED BY <2>1, <3>1, <3>2
  <2>5. SdkTypes'
    BY <1>1, <1>2, <2>1, <2>2, <2>4, CountsKept
  <2>6. peri'.state = peri.state /\ peri'.txn = peri.txn /\ peri'.scnt = peri.scnt
    BY <2>4
  <2>7. HandlerInv'
    BY <1>2, <2>1, <2>2, <2>6 DEF HandlerInv, Busy
  <2> QED BY <1>2, <1>4, <2>1, <2>2, <2>3, <2>5, <2>6, <2>7 DEF SdkInv, BusyInv
<1>10. CASE HandleRxwm
  <2>1. /\ isr.pc = "rxwm"
        /\ UNCHANGED << cmdq, cur, tx, event_enable, intr_enable, app >>
        /\ \/ EmptiesRx /\ spi_read_word /\ UNCHANGED isr
           \/ UNCHANGED << rx, error_status, peri >> /\ isr' = [isr EXCEPT !.pc = "none"]
    BY <1>10 DEF HandleRxwm, IsrGoto
  <2>2. /\ isr'.pc \in {"none", "rxwm"}
        /\ isr' \in [pc : {"none", "ack", "status", "ready", "txwm", "rxwm", "last"},
                     events : SUBSET {"ready", "idle", "txwm", "rxwm"}]
    BY <1>2, <2>1 DEF SdkTypes
  <2>3. /\ error_status' = error_status
        /\ DOMAIN peri' = DOMAIN peri /\ peri'.rxcnt \in Nat /\ peri'.txcnt \in Nat
        /\ peri'.state = peri.state /\ peri'.txn = peri.txn /\ peri'.scnt = peri.scnt
        /\ peri'.txwm = peri.txwm /\ peri'.rxwm = peri.rxwm
    <3>1. CASE EmptiesRx /\ spi_read_word
      BY <1>2, <3>1, ReadWord
    <3>2. CASE UNCHANGED << rx, error_status, peri >>
      BY <1>2, <3>2 DEF SdkTypes
    <3> QED BY <2>1, <3>1, <3>2
  <2>4. SdkTypes'
    BY <1>1, <1>2, <2>1, <2>2, <2>3, CountsKept
  <2>5. peri'.state = peri.state /\ peri'.txn = peri.txn /\ peri'.scnt = peri.scnt
    BY <2>3
  <2>6. HandlerInv'
    BY <1>2, <2>1, <2>2, <2>5 DEF HandlerInv, Busy
  <2> QED BY <1>2, <1>4, <2>1, <2>2, <2>3, <2>4, <2>5, <2>6 DEF HostTypes, SdkInv, BusyInv
<1>11. CASE HandleLast
  <2>1. /\ isr.pc = "last"
        /\ UNCHANGED << cmdq, cur, tx, event_enable, intr_enable >>
        /\ \/ EmptiesRx /\ spi_read_word /\ UNCHANGED << isr, app >>
           \/ /\ peri' = [spi_reset_transaction(peri) EXCEPT !.state = "DONE"]
              /\ \E n \in {0, 1} : app' = [app EXCEPT !.reports = @ + n]
              /\ isr' = [isr EXCEPT !.pc = "none"]
              /\ UNCHANGED << rx, error_status >>
    BY <1>11 DEF HandleLast, IsrGoto
  <2>2. cur = <<>>
    BY <2>1 DEF SdkInv, HandlerInv
  <2>3. CASE EmptiesRx /\ spi_read_word /\ UNCHANGED << isr, app >>
    <3>1. /\ error_status' = error_status
          /\ DOMAIN peri' = DOMAIN peri /\ peri'.rxcnt \in Nat /\ peri'.txcnt \in Nat
          /\ peri'.state = peri.state /\ peri'.txn = peri.txn /\ peri'.scnt = peri.scnt
          /\ peri'.txwm = peri.txwm /\ peri'.rxwm = peri.rxwm
      BY <1>2, <2>3, ReadWord
    <3>2. SdkTypes'
      <4>1. isr' \in [pc : {"none", "ack", "status", "ready", "txwm", "rxwm", "last"},
                      events : SUBSET {"ready", "idle", "txwm", "rxwm"}]
        BY <1>2, <2>3 DEF SdkTypes
      <4> QED BY <1>1, <1>2, <2>3, <3>1, <4>1, CountsKept
    <3>3. HandlerInv'
      BY <1>2, <2>1, <2>3, <3>1 DEF SdkInv, HandlerInv, Busy
    <3> QED BY <1>2, <1>4, <2>1, <2>3, <3>1, <3>2, <3>3 DEF HostTypes, SdkInv, BusyInv
  <2>4. CASE /\ peri' = [spi_reset_transaction(peri) EXCEPT !.state = "DONE"]
             /\ \E n \in {0, 1} : app' = [app EXCEPT !.reports = @ + n]
             /\ isr' = [isr EXCEPT !.pc = "none"]
             /\ UNCHANGED << rx, error_status >>
    <3>1. /\ DOMAIN peri' = DOMAIN peri /\ peri'.rxcnt = 0 /\ peri'.txcnt = 0
          /\ peri'.state = "DONE" /\ peri'.txn = NoTxn /\ peri'.scnt = 0
          /\ peri'.txwm = peri.txwm /\ peri'.rxwm = peri.rxwm
      BY <1>2, <2>4 DEF SdkTypes, spi_reset_transaction, ResetCounters
    <3>2. /\ DOMAIN app' = DOMAIN app /\ app'.txn = app.txn /\ app'.calls = app.calls
          /\ app'.overrun = app.overrun
      BY <1>2, <2>4 DEF SdkTypes
    <3>3. /\ isr'.pc = "none"
          /\ isr' \in [pc : {"none", "ack", "status", "ready", "txwm", "rxwm", "last"},
                       events : SUBSET {"ready", "idle", "txwm", "rxwm"}]
      BY <1>2, <2>4 DEF SdkTypes
    <3>4. SdkTypes'
      BY <1>1, <1>2, <3>1, <3>2, <3>3 DEF SdkTypes, HandleFits, PeriStates
    <3>5. /\ intr_state' \in BOOLEAN /\ fic' \in BOOLEAN
          /\ intr_state' => fic'
      BY <1>2, <1>3, <2>1 DEF HostTypes
    <3>6. HostTypes'
      BY <1>1, <1>2, <2>1, <3>5 DEF HostTypes
    <3>7. Busy /\ ~Busy'
      BY <1>2, <2>1, <3>1 DEF Busy
    <3>8. NoHostErrors' /\ QuietWhenFree' /\ EventsKept' /\ HandlerInv' /\ LaunchInv' /\ BusyInv'
          /\ ResetInv'
      BY <1>1, <1>2, <2>1, <2>2, <2>4, <3>1, <3>2, <3>3, <3>5, <3>7
         DEF SdkInv, NoHostErrors, QuietWhenFree, EventsKept, HandlerInv, LaunchInv, BusyInv,
             ResetInv
    <3>9. ClockInv'
      BY <1>1, <1>2, <2>1, <3>2, <3>7 DEF SdkInv, ClockInv, Divider
    <3> QED BY <3>4, <3>6, <3>8, <3>9 DEF SdkInv
  <2> QED BY <2>1, <2>3, <2>4
<1> QED BY <1>5, <1>6, <1>7, <1>8, <1>9, <1>10, <1>11 DEF Handler

-----------------------------------------------------------------------------
(* The host.                                                               *)

LEMMA HostKeeps ==
    ASSUME LinesKept, SdkInv, Host, LatchEvents(intr_state), FicLatches(fic)
    PROVE  SdkInv'
<1> DEFINE S == [cmd : Commands, left : Nat]
<1>1. /\ UNCHANGED << control, event_enable, intr_enable, error_status, peri, device, spi, main,
                      isr, app >>
      /\ cur # <<>>
  BY DEF Host, Exchange, CanExchange, EndCommand
<1>2. /\ Busy /\ main.pc \notin Launching
      /\ event_enable /\ intr_enable
      /\ isr.pc # "last" /\ ~(isr.pc = "ready" /\ "idle" \in isr.events)
      /\ main.pc \notin {"rst_wm", "rst_state"}
      /\ HostTypes /\ SdkTypes
  BY <1>1 DEF SdkInv, QuietWhenFree, LaunchInv, BusyInv, HandlerInv, ResetInv
<1>3. /\ cur \in Seq(S) /\ Len(cur) <= 1 /\ cmdq \in Seq(Commands) /\ tx \in Seq(OutWords)
      /\ \A i \in DOMAIN cmdq : cmdq[i].clkdiv = Divider
      /\ cur[1].cmd.clkdiv = Divider
  BY <1>1, <1>2 DEF HostTypes, SdkInv, ClockInv
<1>4. /\ cmdq' \in Seq(Commands) /\ tx' \in Seq(OutWords)
      /\ cur' = <<>> \/ \E c \in S : cur' = <<c>> /\ c.cmd.clkdiv = Divider
      /\ \A i \in DOMAIN cmdq' : cmdq'[i].clkdiv = Divider
      /\ cur' = <<>> => cmdq' = <<>>
  <2>1. cur[1] \in S
    <3> HIDE DEF S
    <3> QED BY <1>1, <1>3
  <2>2. CASE \E word : Exchange(word)
    <3> DEFINE c == [cur[1] EXCEPT !.left = @ - 1]
    <3>1. /\ cur' = <<c>> /\ cmdq' = cmdq /\ cur[1].left > 0
          /\ tx' = tx \/ (tx # <<>> /\ tx' = Tail(tx))
      BY <2>2 DEF Exchange, CanExchange
    <3>2. c \in S /\ c.cmd.clkdiv = Divider
      <4>1. \A r \in S : r.left > 0 => /\ [r EXCEPT !.left = @ - 1] \in S
                                       /\ [r EXCEPT !.left = @ - 1].cmd = r.cmd
        <5> HIDE DEF Commands
        <5> QED OBVIOUS
      <4> QED BY <1>3, <2>1, <3>1, <4>1
    <3>3. tx' \in Seq(OutWords)
      <4>1. \A q \in Seq(OutWords) : q # <<>> => Tail(q) \in Seq(OutWords)
        BY HeadTailProperties
      <4> QED BY <1>3, <3>1, <4>1
    <3> HIDE DEF c, S
    <3>4. cur' # <<>>
      BY <3>1
    <3> QED BY <1>3, <3>1, <3>2, <3>3, <3>4
  <2>3. CASE EndCommand /\ cmdq = <<>>
    BY <1>3, <2>3 DEF EndCommand
  <2>4. CASE EndCommand /\ cmdq # <<>>
    <3> DEFINE c == Begin(Head(cmdq))
    <3>1. /\ cur' = <<c>> /\ cmdq' = Tail(cmdq) /\ tx' = tx
      BY <2>4 DEF EndCommand
    <3>2. Head(cmdq) \in Commands /\ Head(cmdq) = cmdq[1] /\ 1 \in DOMAIN cmdq
      BY <1>3, <2>4
    <3>3. c \in S /\ c.cmd.clkdiv = Divider
      BY <1>3, <3>2 DEF Begin, WordsOf, LenWords, Commands
    <3>4. /\ Tail(cmdq) \in Seq(Commands)
          /\ \A i \in DOMAIN Tail(cmdq) : i + 1 \in DOMAIN cmdq /\ Tail(cmdq)[i] = cmdq[i + 1]
      BY <1>3, <2>4
    <3> HIDE DEF c, S
    <3>5. cur' # <<>>
      BY <3>1
    <3> QED BY <1>3, <3>1, <3>3, <3>4, <3>5
  <2> QED BY <2>2, <2>3, <2>4 DEF Host
<1>5. /\ intr_state' \in BOOLEAN /\ fic' \in BOOLEAN
      /\ intr_state' => fic'
      /\ fic => fic'
      /\ cur' = <<>> => fic'
  BY <1>1, <1>2, Latch DEF HostTypes
<1>6. cur' \in Seq(S) /\ Len(cur') <= 1 /\ (cur' # <<>> => cur'[1].cmd.clkdiv = Divider)
  <2>1. CASE cur' = <<>>
    BY <2>1
  <2>2. CASE \E c \in S : cur' = <<c>> /\ c.cmd.clkdiv = Divider
    <3>1. PICK c \in S : cur' = <<c>> /\ c.cmd.clkdiv = Divider
      BY <2>2
    <3> HIDE DEF S
    <3> QED BY <3>1
  <2> QED BY <1>4, <2>1, <2>2
<1>7. SdkTypes'
  BY <1>1, <1>2 DEF SdkTypes, HandleFits
<1>8. NoHostErrors' /\ QuietWhenFree' /\ EventsKept' /\ HandlerInv' /\ LaunchInv' /\ BusyInv'
      /\ ResetInv'
  BY <1>1, <1>2, <1>4, <1>5
     DEF SdkInv, NoHostErrors, QuietWhenFree, EventsKept, HandlerInv, LaunchInv, BusyInv,
         ResetInv, Busy
<1>9. HostTypes'
  BY <1>1, <1>2, <1>4, <1>5, <1>6 DEF HostTypes
<1>10. ClockInv'
  <2>1. Divider' = Divider
    BY <1>1 DEF Divider
  <2> QED BY <1>1, <1>2, <1>4, <1>6, <2>1 DEF SdkInv, ClockInv, Busy
<1> QED BY <1>7, <1>8, <1>9, <1>10 DEF SdkInv

-----------------------------------------------------------------------------
(* Together.                                                               *)

(* Every step of the system keeps the invariant.                           *)
LEMMA SdkInvNext ==
    ASSUME LinesKept, ClocksRun, SdkInv, [Next]_vars
    PROVE  SdkInv'
<1>1. CASE AppStep
  <2>1. isr.pc = "none" /\ ~due /\ Application /\ LatchEvents(intr_state) /\ FicLatches(fic)
    BY <1>1 DEF AppStep, Latched
  <2>2. \/ Setup \/ (\E req \in Requests : Call(req))
        \/ LaunchStep \/ LaunchCommand \/ ResetStep
    BY <2>1 DEF Application, Setup, LaunchStep, ResetStep
  <2> QED BY <2>1, <2>2, SetupStep, CallStep, LaunchStepKeeps, CommandStep, ResetStepKeeps
<1>2. CASE HandlerStep
  <2>1. Latched(Handler) => Handler /\ LatchEvents(intr_state) /\ FicLatches(fic)
    BY DEF Latched
  <2> QED BY <1>2, <2>1, HandlerKeeps, TakeInterruptStep, AcknowledgeStep DEF HandlerStep
<1>3. CASE HostStep
  BY <1>3, HostKeeps DEF HostStep, Latched
<1>4. CASE UNCHANGED vars
  BY <1>4 DEF vars, hostVars, sdkVars, SdkInv, HostTypes, SdkTypes, HandleFits, NoHostErrors,
              QuietWhenFree, EventsKept, HandlerInv, LaunchInv, BusyInv, ResetInv, ClockInv,
              Divider, Busy
<1> QED BY <1>1, <1>2, <1>3, <1>4 DEF Next

(* The invariant holds of every run.                                       *)
LEMMA SdkInvariant ==
    LinesKept /\ ClocksRun => (Spec => []SdkInv)
<1> SUFFICES ASSUME LinesKept, ClocksRun PROVE Spec => []SdkInv
  OBVIOUS
<1>1. SdkInv /\ [Next]_vars => SdkInv'
  BY SdkInvNext
<1> QED BY <1>1, SdkInvInit, PTL DEF Spec

(* The driver meets no error of the host: it never writes a full FIFO or a *)
(* full queue of commands, never reads an empty FIFO, and never issues a   *)
(* segment past the last one, wherever its steps fall between those of the *)
(* host and of the interrupt handler.                                      *)
THEOREM ErrorSafety ==
    LinesKept /\ ClocksRun => (Spec => []NoHostErrors)
<1>1. SdkInv => NoHostErrors
  BY DEF SdkInv
<1> QED BY <1>1, SdkInvariant, PTL

(* No device is clocked faster than it allows: the divider of the command  *)
(* that runs is the one computed for the device of the transaction.        *)
THEOREM ClockSafety ==
    LinesKept /\ DividersFit /\ SelectsFit => (Spec => []ClockWithinDevice)
<1> SUFFICES ASSUME LinesKept, DividersFit, SelectsFit PROVE Spec => []ClockWithinDevice
  OBVIOUS
<1>1. SdkInv => ClockWithinDevice
  BY DEF SdkInv, QuietWhenFree, ClockInv, ClockWithinDevice
<1>2. ClocksRun
  BY DEF ClocksRun, DividersFit, Fits
<1> QED BY <1>1, <1>2, SdkInvariant, PTL

-----------------------------------------------------------------------------
(* The exchange of a transaction.                                          *)

InWords == {"in"} \X Nat \X Nat
BusWords == [csid : 0..3, out : {<<>>} \cup OutWords, in : {<<>>} \cup InWords, cs : {"low", "high"}]

\* A word of segment k on the bus, and the end of the segment.
BusWord(n, txn, k, i) ==
    LET seg == txn.segments[k]
    IN Seen([csid |-> Slaves[txn.spi].csid],
            IF Sends(seg) THEN TxWord(n, Moved(Sending, txn.segments, k - 1) + i) ELSE <<>>,
            IF Receives(seg) THEN RxWord(n, Moved(Receiving, txn.segments, k - 1) + i) ELSE <<>>,
            "low")
BusEnd(txn, k) ==
    Seen([csid |-> Slaves[txn.spi].csid], <<>>, <<>>, IF k = seglen(txn) THEN "high" ELSE "low")

\* The bus when k segments have ended and j words of the next one have gone.
Part(n, txn, k, j) == [i \in 1..j |-> BusWord(n, txn, k, i)]
At(n, txn, k, j) == Bus(n, txn, k) \o Part(n, txn, k + 1, j)

\* The words that have gone by then in one of the directions.
Gone(directions, txn, k, j) ==
    Moved(directions, txn.segments, k)
    + IF j > 0 /\ txn.segments[k + 1].direction \in directions THEN j ELSE 0

\* The segments whose command the host has been given.
Issued == IF main.pc = "command" THEN 0 ELSE peri.scnt

Carries(txn, cmd, k) ==
    LET seg == txn.segments[k]
    IN /\ cmd.len = seg.len /\ cmd.direction = seg.direction
       /\ cmd.csid = Slaves[txn.spi].csid
       /\ cmd.csaat = (k # seglen(txn))

\* The commands in the host are those after the k segments that have ended; of
\* the first, j words have gone.
CommandsAt(k, j) ==
    /\ k + Len(cur) + Len(cmdq) = Issued /\ Issued <= seglen(app.txn)
    /\ cur = <<>> => j = 0
    /\ cur # <<>> => /\ Carries(app.txn, cur[1].cmd, k + 1)
                     /\ cur[1].left + j = WordsOf(app.txn.segments[k + 1])
    /\ \A i \in 1..Len(cmdq) : Carries(app.txn, cmdq[i], k + Len(cur) + i)

\* The words taken from the buffer of the application.
Written == peri.txcnt + IF main.pc = "count" THEN 1 ELSE 0

\* They are on the bus or in the FIFO.
TxAt(sent) ==
    /\ sent + Len(tx) = Written /\ Written <= txlen(app.txn)
    /\ \A i \in 1..Len(tx) : tx[i] = TxWord(app.calls, sent + i)

\* The words received are in the FIFO or in the buffer.
RxAt(got) ==
    /\ rx \in Seq(InWords) /\ peri.buffer \in Seq(InWords)
    /\ got = peri.rxcnt + Len(rx)
    /\ Len(peri.buffer) = peri.rxcnt
    /\ \A i \in 1..Len(rx) : rx[i] = RxWord(app.calls, peri.rxcnt + i)
    /\ \A i \in 1..peri.rxcnt : peri.buffer[i] = RxWord(app.calls, i)

\* Those the device has sent.
Inputs(seq) == {i \in DOMAIN seq : seq[i].in # <<>>}
WireAt(got) == IsFiniteSet(Inputs(wire)) /\ Cardinality(Inputs(wire)) = got

ExchangeAt(k, j) ==
    /\ CommandsAt(k, j)
    /\ TxAt(Gone(Sending, app.txn, k, j)) /\ RxAt(Gone(Receiving, app.txn, k, j))
    /\ WireAt(Gone(Receiving, app.txn, k, j))
    /\ wire = At(app.calls, app.txn, k, j)

Working == Busy /\ main.pc \notin Resetting

ExchangeInv ==
    Working =>
        /\ app.txn \in Transactions /\ app.txn.segments # <<>> /\ app.reports = 0
        /\ main.pc # "txn" => peri.txn = app.txn
        /\ \E k \in Nat, j \in Nat : ExchangeAt(k, j)

\* The device of the transaction is selected.
ChipInv ==
    Busy \/ main.pc \in Launching => device.csid = Slaves[app.txn.spi].csid

\* What a launch finds, and the command it writes.
CleanInv ==
    /\ ~Busy => peri.txcnt = 0 /\ peri.rxcnt = 0
    /\ ~Busy /\ main.pc \notin {"rst_txn", "rst_sw"} => tx = <<>> /\ rx = <<>>
    /\ main.pc \in {"rst_wm", "rst_state"} => tx = <<>> /\ rx = <<>> /\ cmdq = <<>>
    /\ main.pc = "launch" => ~Busy /\ app.reports = 0
    /\ main.pc = "command" =>
          peri.scnt = 1 /\ \E c \in Commands : main.command = <<c>> /\ Carries(app.txn, c, 1)

\* What the handler has read still holds.
HandledInv ==
    /\ isr.pc = "ready" /\ "ready" \in isr.events => Len(cmdq) < CmdDepth
    /\ isr.pc = "last" /\ main.pc \notin Resetting => peri.scnt >= seglen(peri.txn)

SpiInv == SdkInv /\ ExchangeInv /\ ChipInv /\ CleanInv /\ HandledInv /\ DoneMeansExchanged

-----------------------------------------------------------------------------
(* Recursive functions.                                                    *)

(* A non-empty set of numbers has a least one.                             *)
LEMMA LeastNumber ==
    ASSUME NEW T \in SUBSET Nat, T # {}
    PROVE  \E n \in T : \A m \in T : n <= m
<1> DEFINE R == OpToRel(<, Nat)
<1>1. IsWellFoundedOn(R, Nat)
  BY NatLessThanWellFounded
<1>2. \A m, n \in Nat : <<m, n>> \in R <=> m < n
  BY DEF OpToRel
<1> HIDE DEF R
<1>3. \E n \in T : \A m \in T : ~(<<m, n>> \in R)
  BY <1>1, WFMin
<1>4. PICK n \in T : \A m \in T : ~(<<m, n>> \in R)
  BY <1>3
<1>5. \A m \in T : ~(m < n) /\ m \in Nat /\ n \in Nat
  BY <1>2, <1>4
<1>6. \A m \in T : n <= m
  BY <1>5
<1> QED BY <1>6

\* f starts with b and goes on by G, up to n.
Follows(f, b, G, n) == f[0] = b /\ \A i \in 1..n : f[i] = G[i][f[i - 1]]

(* A function that follows G exists: the one for the least number without  *)
(* would extend that for the number before it.                             *)
LEMMA Recurrence ==
    ASSUME NEW V, NEW b \in V, NEW n \in Nat, NEW G \in [1..n -> [V -> V]]
    PROVE  \E f \in [0..n -> V] : Follows(f, b, G, n)
<1> DEFINE Exists(m) == \E f \in [0..m -> V] : Follows(f, b, G, m)
           Bad == {m \in 0..n : ~Exists(m)}
<1>1. Exists(0)
  <2>1. [i \in 0..0 |-> b] \in [0..0 -> V] /\ Follows([i \in 0..0 |-> b], b, G, 0)
    BY DEF Follows
  <2> QED BY <2>1
<1>2. ASSUME NEW m \in 1..n, Exists(m - 1) PROVE Exists(m)
  <2>1. PICK f \in [0..m - 1 -> V] : Follows(f, b, G, m - 1)
    BY <1>2
  <2> DEFINE v == G[m][f[m - 1]]
             g == [i \in 0..m |-> IF i = m THEN v ELSE f[i]]
  <2>2. v \in V
    OBVIOUS
  <2> HIDE DEF v
  <2>3. g \in [0..m -> V] /\ g[m] = v /\ \A i \in 0..m - 1 : g[i] = f[i]
    BY <2>2
  <2> HIDE DEF g
  <2>4. ASSUME NEW i \in 1..m PROVE g[i] = G[i][g[i - 1]]
    <3>1. i - 1 \in 0..m - 1 /\ (i = m \/ i \in 1..m - 1)
      OBVIOUS
    <3> QED BY <2>1, <2>3, <3>1 DEF Follows, v
  <2>5. g[0] = b
    BY <2>1, <2>3 DEF Follows
  <2> QED BY <2>3, <2>4, <2>5 DEF Follows
<1> HIDE DEF Exists
<1>3. Bad = {}
  <2>1. SUFFICES ASSUME Bad # {} PROVE FALSE
    OBVIOUS
  <2>2. Bad \in SUBSET Nat
    OBVIOUS
  <2>3. PICK m \in Bad : \A i \in Bad : m <= i
    BY <2>1, <2>2, LeastNumber
  <2>4. m \in 1..n /\ m - 1 \in 0..n /\ ~(m <= m - 1) /\ ~Exists(m)
    BY <1>1, <2>3
  <2>5. Exists(m - 1)
    BY <2>3, <2>4
  <2> QED BY <1>2, <2>4, <2>5
<1>4. Exists(n)
  BY <1>3
<1> QED BY <1>4 DEF Exists

-----------------------------------------------------------------------------
(* The words of a transaction.                                             *)

LEMMA LenWordsType == \A len \in Nat : LenWords(len) \in Nat
  BY DEF LenWords

\* What segment seg adds to the count.
Adds(directions, seg) == IF seg.direction \in directions THEN LenWords(seg.len) ELSE 0

(* The count goes up segment by segment.                                   *)
LEMMA MovedSteps ==
    ASSUME NEW directions, NEW segs \in Seq(SegmentModes)
    PROVE  /\ Moved(directions, segs, 0) = 0
           /\ \A k \in 1..Len(segs) :
                 /\ Moved(directions, segs, k) = Moved(directions, segs, k - 1) + Adds(directions, segs[k])
                 /\ Adds(directions, segs[k]) \in Nat
           /\ \A k \in 0..Len(segs) : Moved(directions, segs, k) \in Nat
<1> DEFINE n == Len(segs)
           step(i, c) == c + Adds(directions, segs[i])
           G == [i \in 1..n |-> [c \in Nat |-> step(i, c)]]
           Is(f) == f = [i \in 0..n |-> IF i = 0 THEN 0 ELSE f[i - 1] + Adds(directions, segs[i])]
           words == CHOOSE f : Is(f)
<1>1. \A i \in 1..n : Adds(directions, segs[i]) \in Nat
  <2>1. \A i \in 1..n : segs[i] \in SegmentModes
    OBVIOUS
  <2>2. \A seg \in SegmentModes : seg.len \in Nat
    BY DEF SegmentModes
  <2> QED BY <2>1, <2>2, LenWordsType DEF Adds
<1>2. n \in Nat /\ G \in [1..n -> [Nat -> Nat]]
  BY <1>1
<1>3. PICK f \in [0..n -> Nat] : Follows(f, 0, G, n)
  BY <1>2, Recurrence
<1>4. Is(f)
  <2>1. ASSUME NEW i \in 1..n
        PROVE  i - 1 \in 0..n /\ f[i] = f[i - 1] + Adds(directions, segs[i])
    <3>1. i - 1 \in 0..n /\ f[i - 1] \in Nat
      <4> HIDE DEF n
      <4> QED BY <1>2, <1>3
    <3>2. f[i] = G[i][f[i - 1]]
      BY <1>3 DEF Follows
    <3> QED BY <3>1, <3>2
  <2>2. f[0] = 0 /\ \A i \in 0..n : i = 0 \/ i \in 1..n
    BY <1>2, <1>3 DEF Follows
  <2> HIDE DEF n
  <2> QED BY <1>3, <2>1, <2>2
<1>5. Is(words)
  BY <1>4
<1>6. \A k : Moved(directions, segs, k) = words[k]
  BY DEF Moved, Adds
<1> HIDE DEF words
<1>7. words[0] = 0 /\ \A k \in 1..n : words[k] = words[k - 1] + Adds(directions, segs[k])
  BY <1>2, <1>5
<1>8. \A k \in 0..n : words[k] \in Nat
  <2> DEFINE Bad == {k \in 0..n : words[k] \notin Nat}
  <2>1. SUFFICES ASSUME Bad # {} PROVE FALSE
    OBVIOUS
  <2>2. PICK k \in Bad : \A i \in Bad : k <= i
    <3>1. Bad \in SUBSET Nat
      BY <1>2
    <3> QED BY <2>1, <3>1, LeastNumber
  <2>3. k \in 1..n /\ k - 1 \in 0..n /\ ~(k <= k - 1)
    BY <1>2, <1>7, <2>2
  <2>4. words[k - 1] \in Nat
    BY <2>2, <2>3
  <2>5. words[k] \in Nat
    BY <1>1, <1>7, <2>3, <2>4
  <2> QED BY <2>2, <2>5
<1> QED BY <1>1, <1>6, <1>7, <1>8

-----------------------------------------------------------------------------
(* The bus of a transaction.                                               *)

(* What segment k puts on the bus.                                         *)
LEMMA WordTypes ==
    ASSUME NEW n \in Nat, NEW txn \in Transactions, NEW k \in 1..seglen(txn)
    PROVE  /\ \A i \in Nat : BusWord(n, txn, k, i) \in BusWords
           /\ BusEnd(txn, k) \in BusWords
           /\ WordsOf(txn.segments[k]) \in Nat
           /\ Words(n, txn, k) = Append(Part(n, txn, k, WordsOf(txn.segments[k])), BusEnd(txn, k))
<1> USE SdkAssumption
<1> DEFINE seg == txn.segments[k]
           s == Moved(Sending, txn.segments, k - 1)
           r == Moved(Receiving, txn.segments, k - 1)
           c == Slaves[txn.spi].csid
<1>1. txn.segments \in Seq(SegmentModes) /\ txn.spi \in DOMAIN Slaves
  BY DEF Transactions
<1>2. k \in 1..Len(txn.segments) /\ k - 1 \in 0..Len(txn.segments)
  BY <1>1 DEF seglen
<1>3. s \in Nat /\ r \in Nat /\ c \in 0..3
  BY <1>1, <1>2, MovedSteps DEF SlaveConfigs
<1>4. seg \in SegmentModes
  BY <1>1, <1>2
<1>5. WordsOf(seg) \in Nat
  <2> HIDE DEF seg
  <2>1. seg.len \in Nat
    BY <1>4 DEF SegmentModes
  <2> QED BY <2>1, LenWordsType DEF WordsOf
<1>6. ASSUME NEW i \in Nat PROVE BusWord(n, txn, k, i) \in BusWords
  <2> DEFINE out == IF Sends(seg) THEN TxWord(n, s + i) ELSE <<>>
             in == IF Receives(seg) THEN RxWord(n, r + i) ELSE <<>>
  <2>1. out \in {<<>>} \cup OutWords
    <3> HIDE DEF s, seg
    <3>1. s + i \in Nat
      BY <1>3
    <3> QED BY <3>1 DEF TxWord, OutWords
  <2>2. in \in {<<>>} \cup InWords
    <3> HIDE DEF r, seg
    <3>1. r + i \in Nat
      BY <1>3
    <3> QED BY <3>1 DEF RxWord, InWords
  <2>3. BusWord(n, txn, k, i) = [csid |-> c, out |-> out, in |-> in, cs |-> "low"]
    BY DEF BusWord, Seen
  <2> HIDE DEF out, in, c
  <2> QED BY <1>3, <2>1, <2>2, <2>3 DEF BusWords
<1>7. BusEnd(txn, k) \in BusWords
  <2> DEFINE cs == IF k = seglen(txn) THEN "high" ELSE "low"
  <2>1. BusEnd(txn, k) = [csid |-> c, out |-> <<>>, in |-> <<>>, cs |-> cs]
    BY DEF BusEnd, Seen
  <2>2. cs \in {"low", "high"}
    OBVIOUS
  <2> HIDE DEF cs, c
  <2> QED BY <1>3, <2>1, <2>2 DEF BusWords
<1>8. Words(n, txn, k) = Append(Part(n, txn, k, WordsOf(seg)), BusEnd(txn, k))
  BY DEF Words, Part, BusWord, BusEnd
<1> QED BY <1>5, <1>6, <1>7, <1>8

(* A part of a segment grows by a word.                                    *)
LEMMA PartSteps ==
    ASSUME NEW n \in Nat, NEW txn \in Transactions, NEW k \in 1..seglen(txn)
    PROVE  /\ Part(n, txn, k, 0) = <<>>
           /\ \A j \in Nat : /\ Part(n, txn, k, j) \in Seq(BusWords)
                             /\ Part(n, txn, k, j + 1) = Append(Part(n, txn, k, j), BusWord(n, txn, k, j + 1))
<1> DEFINE w(i) == BusWord(n, txn, k, i)
<1>1. \A i \in Nat : w(i) \in BusWords
  BY WordTypes
<1>2. \A j : Part(n, txn, k, j) = [i \in 1..j |-> w(i)]
  BY DEF Part
<1> HIDE DEF w
<1>3. [i \in 1..0 |-> w(i)] = <<>>
  OBVIOUS
<1>4. ASSUME NEW j \in Nat
      PROVE  /\ [i \in 1..j |-> w(i)] \in Seq(BusWords)
             /\ [i \in 1..j + 1 |-> w(i)] = Append([i \in 1..j |-> w(i)], w(j + 1))
  <2> DEFINE f == [i \in 1..j |-> w(i)]
             g == [i \in 1..j + 1 |-> w(i)]
  <2>1. f \in [1..j -> BusWords] /\ g \in [1..j + 1 -> BusWords]
    BY <1>1
  <2>2. f \in Seq(BusWords) /\ g \in Seq(BusWords) /\ Len(f) = j /\ Len(g) = j + 1
    <3> HIDE DEF f, g
    <3> QED BY <2>1
  <2>3. w(j + 1) \in BusWords
    BY <1>1
  <2>4. \A i \in 1..j : g[i] = f[i]
    OBVIOUS
  <2>5. g[j + 1] = w(j + 1)
    OBVIOUS
  <2> HIDE DEF f, g
  <2>6. Append(f, w(j + 1)) \in Seq(BusWords) /\ Len(Append(f, w(j + 1))) = j + 1
    BY <2>2, <2>3
  <2>7. \A i \in 1..j + 1 : g[i] = Append(f, w(j + 1))[i]
    BY <2>2, <2>3, <2>4, <2>5
  <2>8. g = Append(f, w(j + 1))
    BY <2>2, <2>6, <2>7, SeqEqual
  <2> QED BY <2>2, <2>8 DEF f, g
<1> QED BY <1>2, <1>3, <1>4 DEF w

(* The bus grows segment by segment.                                       *)
LEMMA BusSteps ==
    ASSUME NEW n \in Nat, NEW txn \in Transactions
    PROVE  /\ Bus(n, txn, 0) = <<>>
           /\ \A k \in 0..seglen(txn) : Bus(n, txn, k) \in Seq(BusWords)
           /\ \A k \in 1..seglen(txn) : Bus(n, txn, k) = Bus(n, txn, k - 1) \o Words(n, txn, k)
<1> DEFINE m == seglen(txn)
           V == Seq(BusWords)
           w(i) == Words(n, txn, i)
           G == [i \in 1..m |-> [seq \in V |-> seq \o w(i)]]
           Is(f) == f = [i \in 0..m |-> IF i = 0 THEN <<>> ELSE f[i - 1] \o w(i)]
           bus == CHOOSE f : Is(f)
<1>1. \A i \in 1..m : w(i) \in V
  <2> SUFFICES ASSUME NEW i \in 1..m PROVE w(i) \in V
    OBVIOUS
  <2> DEFINE p == Part(n, txn, i, WordsOf(txn.segments[i]))
  <2>1. BusEnd(txn, i) \in BusWords /\ w(i) = Append(p, BusEnd(txn, i)) /\ p \in V
    BY WordTypes, PartSteps
  <2> HIDE DEF p, w
  <2> QED BY <2>1
<1>2. m \in Nat /\ <<>> \in V
  BY DEF seglen, Transactions
<1> HIDE DEF w
<1>3. G \in [1..m -> [V -> V]]
  <2>1. \A i \in 1..m : \A seq \in V : seq \o w(i) \in V
    BY <1>1
  <2> HIDE DEF V, m
  <2> QED BY <2>1
<1> HIDE DEF m
<1>4. PICK f \in [0..m -> V] : Follows(f, <<>>, G, m)
  <2> HIDE DEF V, G
  <2> QED BY <1>2, <1>3, Recurrence
<1>5. Is(f)
  <2>1. ASSUME NEW i \in 1..m
        PROVE  i - 1 \in 0..m /\ f[i] = f[i - 1] \o w(i)
    <3>1. i - 1 \in 0..m /\ f[i - 1] \in V
      <4> HIDE DEF V
      <4> QED BY <1>2, <1>4
    <3>2. f[i] = G[i][f[i - 1]]
      BY <1>4 DEF Follows
    <3> HIDE DEF V
    <3> QED BY <3>1, <3>2
  <2>2. f[0] = <<>> /\ \A i \in 0..m : i = 0 \/ i \in 1..m
    BY <1>2, <1>4 DEF Follows
  <2> QED BY <1>4, <2>1, <2>2
<1>6. Is(bus)
  BY <1>5
<1>7. \A k : Bus(n, txn, k) = bus[k]
  BY DEF Bus, m, w
<1> HIDE DEF bus
<1>8. bus[0] = <<>> /\ \A k \in 1..m : bus[k] = bus[k - 1] \o w(k)
  <2>1. 0 \in 0..m /\ \A k \in 1..m : k \in 0..m /\ k # 0
    BY <1>2
  <2>2. \A k \in 0..m : bus[k] = IF k = 0 THEN <<>> ELSE bus[k - 1] \o w(k)
    BY <1>6
  <2>3. bus[0] = <<>>
    BY <2>1, <2>2
  <2>4. ASSUME NEW k \in 1..m PROVE bus[k] = bus[k - 1] \o w(k)
    <3>1. k \in 0..m /\ k # 0
      BY <2>1
    <3>2. bus[k] = IF k = 0 THEN <<>> ELSE bus[k - 1] \o w(k)
      BY <2>2, <3>1
    <3> QED BY <3>1, <3>2
  <2> QED BY <2>3, <2>4
<1>9. \A k \in 0..m : bus[k] \in V
  <2> HIDE DEF V
  <2> DEFINE Bad == {k \in 0..m : bus[k] \notin V}
  <2>1. SUFFICES ASSUME Bad # {} PROVE FALSE
    OBVIOUS
  <2>2. PICK k \in Bad : \A i \in Bad : k <= i
    <3>1. Bad \in SUBSET Nat
      BY <1>2
    <3> QED BY <2>1, <3>1, LeastNumber
  <2>3. k \in 1..m /\ k - 1 \in 0..m /\ ~(k <= k - 1)
    BY <1>2, <1>8, <2>2
  <2>4. bus[k - 1] \in V
    BY <2>2, <2>3
  <2>5. bus[k] \in V
    <3>1. \A s, t \in V : s \o t \in V
      BY DEF V
    <3>2. bus[k] = bus[k - 1] \o w(k) /\ w(k) \in V
      BY <1>1, <1>8, <2>3
    <3> QED BY <2>4, <3>1, <3>2
  <2> QED BY <2>2, <2>5
<1> QED BY <1>7, <1>8, <1>9 DEF w, m

(* Append goes through a concatenation.                                    *)
LEMMA AppendToConcat ==
    \A s, t \in Seq(BusWords) : \A e \in BusWords :
        s \o t \in Seq(BusWords) /\ Append(s \o t, e) = s \o Append(t, e)
<1> SUFFICES ASSUME NEW s \in Seq(BusWords), NEW t \in Seq(BusWords), NEW e \in BusWords
             PROVE  s \o t \in Seq(BusWords) /\ Append(s \o t, e) = s \o Append(t, e)
  OBVIOUS
<1>1. /\ s \o t \in Seq(BusWords) /\ <<e>> \in Seq(BusWords)
      /\ Append(s \o t, e) = (s \o t) \o <<e>> /\ Append(t, e) = t \o <<e>>
  BY ConcatProperties, AppendIsConcat
<1> QED BY <1>1, ConcatAssociative

(* The bus grows by a word, and by the end of a segment.                   *)
LEMMA AtSteps ==
    ASSUME NEW n \in Nat, NEW txn \in Transactions
    PROVE  /\ \A k \in 0..seglen(txn) : At(n, txn, k, 0) = Bus(n, txn, k)
           /\ \A k \in 0..seglen(txn) - 1 : \A j \in Nat :
                 /\ At(n, txn, k, j) \in Seq(BusWords)
                 /\ BusWord(n, txn, k + 1, j + 1) \in BusWords
                 /\ At(n, txn, k, j + 1) = Append(At(n, txn, k, j), BusWord(n, txn, k + 1, j + 1))
           /\ \A k \in 0..seglen(txn) - 1 :
                 Bus(n, txn, k + 1) = Append(At(n, txn, k, WordsOf(txn.segments[k + 1])), BusEnd(txn, k + 1))
<1>1. seglen(txn) \in Nat
  BY DEF seglen, Transactions
<1>2. ASSUME NEW k \in 0..seglen(txn) PROVE At(n, txn, k, 0) = Bus(n, txn, k)
  <2> DEFINE b == Bus(n, txn, k)
  <2>1. b \in Seq(BusWords)
    BY BusSteps
  <2>2. Part(n, txn, k + 1, 0) = <<>>
    <3>1. \A w : [i \in 1..0 |-> BusWord(n, txn, w, i)] = <<>>
      OBVIOUS
    <3> QED BY <3>1 DEF Part
  <2> HIDE DEF b
  <2>3. b \o <<>> = b
    BY <2>1, ConcatEmptySeq
  <2> QED BY <2>2, <2>3 DEF At, b
<1>3. ASSUME NEW k \in 0..seglen(txn) - 1
      PROVE  /\ \A j \in Nat :
                   /\ At(n, txn, k, j) \in Seq(BusWords)
                   /\ BusWord(n, txn, k + 1, j + 1) \in BusWords
                   /\ At(n, txn, k, j + 1) = Append(At(n, txn, k, j), BusWord(n, txn, k + 1, j + 1))
             /\ Bus(n, txn, k + 1) = Append(At(n, txn, k, WordsOf(txn.segments[k + 1])), BusEnd(txn, k + 1))
  <2>1. PICK h \in 1..seglen(txn) : h = k + 1 /\ h - 1 = k /\ k \in 0..seglen(txn)
    BY <1>1
  <2>2. Bus(n, txn, k) \in Seq(BusWords)
    BY <2>1, BusSteps
  <2>3. ASSUME NEW j \in Nat
        PROVE  /\ Part(n, txn, h, j) \in Seq(BusWords)
               /\ Part(n, txn, h, j + 1) = Append(Part(n, txn, h, j), BusWord(n, txn, h, j + 1))
               /\ BusWord(n, txn, h, j + 1) \in BusWords
    <3>1. j + 1 \in Nat
      OBVIOUS
    <3> QED BY <3>1, PartSteps, WordTypes
  <2>4. ASSUME NEW j \in Nat
        PROVE  /\ At(n, txn, k, j) \in Seq(BusWords)
               /\ BusWord(n, txn, k + 1, j + 1) \in BusWords
               /\ At(n, txn, k, j + 1) = Append(At(n, txn, k, j), BusWord(n, txn, k + 1, j + 1))
    <3> DEFINE b == Bus(n, txn, k)
               p == Part(n, txn, h, j)
               w == BusWord(n, txn, h, j + 1)
    <3>1. /\ At(n, txn, k, j) = b \o p
          /\ At(n, txn, k, j + 1) = b \o Part(n, txn, h, j + 1)
      BY <2>1 DEF At
    <3>2. b \in Seq(BusWords) /\ p \in Seq(BusWords) /\ w \in BusWords
      BY <2>2, <2>3
    <3>3. Part(n, txn, h, j + 1) = Append(p, w)
      BY <2>3
    <3>4. BusWord(n, txn, k + 1, j + 1) = w
      BY <2>1
    <3> HIDE DEF b, p, w
    <3>5. b \o p \in Seq(BusWords) /\ Append(b \o p, w) = b \o Append(p, w)
      BY <3>2, AppendToConcat
    <3> QED BY <3>1, <3>2, <3>3, <3>4, <3>5
  <2>5. Bus(n, txn, k + 1) = Append(At(n, txn, k, WordsOf(txn.segments[k + 1])), BusEnd(txn, k + 1))
    <3> DEFINE words == WordsOf(txn.segments[h])
    <3>1. /\ words \in Nat /\ BusEnd(txn, h) \in BusWords
          /\ Words(n, txn, h) = Append(Part(n, txn, h, words), BusEnd(txn, h))
      BY WordTypes
    <3>2. Bus(n, txn, h) = Bus(n, txn, k) \o Words(n, txn, h)
      BY <2>1, BusSteps
    <3> HIDE DEF words
    <3>3. Part(n, txn, h, words) \in Seq(BusWords)
      BY <2>3, <3>1
    <3>4. Bus(n, txn, h) = Append(Bus(n, txn, k) \o Part(n, txn, h, words), BusEnd(txn, h))
      BY <2>2, <3>1, <3>2, <3>3, AppendToConcat
    <3> QED BY <2>1, <3>4 DEF At, words
  <2> QED BY <2>4, <2>5
<1> QED BY <1>2, <1>3

(* The words gone grow by one with each of their direction.                *)
LEMMA GoneSteps ==
    ASSUME NEW directions \in {Sending, Receiving}, NEW txn \in Transactions
    PROVE  /\ \A k \in 0..seglen(txn) :
                 /\ Gone(directions, txn, k, 0) = Moved(directions, txn.segments, k)
                 /\ Gone(directions, txn, k, 0) \in Nat
           /\ \A k \in 0..seglen(txn) - 1 :
                 /\ \A j \in Nat :
                      Gone(directions, txn, k, j + 1) = Gone(directions, txn, k, j)
                          + IF txn.segments[k + 1].direction \in directions THEN 1 ELSE 0
                 /\ Gone(directions, txn, k, WordsOf(txn.segments[k + 1])) = Gone(directions, txn, k + 1, 0)
                 /\ \A j \in Nat : Gone(directions, txn, k, j) \in Nat
<1> DEFINE m(k) == Moved(directions, txn.segments, k)
           n == seglen(txn)
<1>1. n = Len(txn.segments) /\ txn.segments \in Seq(SegmentModes) /\ n \in Nat
  BY DEF seglen, Transactions
<1>2. /\ \A k \in 0..n : m(k) \in Nat
      /\ \A k \in 1..n : m(k) = m(k - 1) + Adds(directions, txn.segments[k])
  BY <1>1, MovedSteps
<1>3. \A k : Gone(directions, txn, k, 0) = m(k) + 0
  BY DEF Gone
<1> HIDE DEF m, n
<1>4. \A k \in 0..n : Gone(directions, txn, k, 0) = m(k) /\ Gone(directions, txn, k, 0) \in Nat
  BY <1>2, <1>3
<1>5. ASSUME NEW k \in 0..n - 1
      PROVE  /\ \A j \in Nat :
                  Gone(directions, txn, k, j + 1) = Gone(directions, txn, k, j)
                      + IF txn.segments[k + 1].direction \in directions THEN 1 ELSE 0
             /\ Gone(directions, txn, k, WordsOf(txn.segments[k + 1])) = Gone(directions, txn, k + 1, 0)
             /\ \A j \in Nat : Gone(directions, txn, k, j) \in Nat
  <2> DEFINE seg == txn.segments[k + 1]
             b == seg.direction \in directions
  <2>1. k \in 0..n /\ k + 1 \in 1..n /\ k + 1 \in 0..n /\ (k + 1) - 1 = k
    BY <1>1
  <2>2. m(k) \in Nat /\ m(k + 1) = m(k) + Adds(directions, seg)
    <3>1. m(k + 1) = m((k + 1) - 1) + Adds(directions, seg)
      BY <1>2, <2>1
    <3> QED BY <1>2, <2>1, <3>1
  <2>3. \A j : Gone(directions, txn, k, j) = m(k) + IF j > 0 /\ b THEN j ELSE 0
    BY DEF Gone, m
  <2>4. seg \in SegmentModes
    BY <1>1, <2>1
  <2>5. b => WordsOf(seg) = LenWords(seg.len) /\ LenWords(seg.len) \in Nat
    <3>1. b => seg.direction # "DUMMY"
      BY DEF Sending, Receiving
    <3>2. seg.len \in Nat
      <4> HIDE DEF seg
      <4> QED BY <2>4 DEF SegmentModes
    <3> QED BY <3>1, <3>2, LenWordsType DEF WordsOf
  <2>6. Adds(directions, seg) = IF b THEN LenWords(seg.len) ELSE 0
    BY DEF Adds
  <2> DEFINE a == LenWords(seg.len)
             words == WordsOf(seg)
             mk == m(k)
  <2>7. Gone(directions, txn, k, words) = Gone(directions, txn, k + 1, 0)
    <3>1. Gone(directions, txn, k + 1, 0) = m(k + 1)
      BY <1>4, <2>1
    <3>2. Gone(directions, txn, k, words) = mk + IF words > 0 /\ b THEN words ELSE 0
      BY <2>3
    <3>3. m(k + 1) = mk + IF b THEN a ELSE 0
      BY <2>2, <2>6
    <3>4. mk \in Nat /\ (b => words = a /\ a \in Nat)
      BY <2>2, <2>5
    <3> HIDE DEF words, a, mk, b
    <3>5. CASE b
      <4>1. words > 0 \/ words = 0
        BY <3>4, <3>5
      <4> QED BY <3>1, <3>2, <3>3, <3>4, <3>5, <4>1
    <3> QED BY <3>1, <3>2, <3>3, <3>5
  <2>8. ASSUME NEW j \in Nat
        PROVE  /\ Gone(directions, txn, k, j) \in Nat
               /\ Gone(directions, txn, k, j + 1) = Gone(directions, txn, k, j) + IF b THEN 1 ELSE 0
    <3>1. Gone(directions, txn, k, j) = mk + IF j > 0 /\ b THEN j ELSE 0
      BY <2>3
    <3>2. Gone(directions, txn, k, j + 1) = mk + IF j + 1 > 0 /\ b THEN j + 1 ELSE 0
      BY <2>3
    <3>3. mk \in Nat
      BY <2>2
    <3> HIDE DEF mk, b
    <3> QED BY <3>1, <3>2, <3>3
  <2> QED BY <2>7, <2>8
<1> QED BY <1>4, <1>5 DEF m, n

-----------------------------------------------------------------------------
(* Where the commands and the words are.                                   *)

(* A word at the end of the bus adds its input to those of the device.     *)
LEMMA InputsGrow ==
    ASSUME NEW seq \in Seq(BusWords), NEW w \in BusWords, IsFiniteSet(Inputs(seq))
    PROVE  /\ IsFiniteSet(Inputs(Append(seq, w)))
           /\ Cardinality(Inputs(Append(seq, w))) = Cardinality(Inputs(seq)) + IF w.in = <<>> THEN 0 ELSE 1
           /\ Cardinality(Inputs(seq)) \in Nat
<1> DEFINE n == Len(seq) + 1
           A == Inputs(seq)
           new == Append(seq, w)
<1>1. /\ Len(seq) \in Nat /\ DOMAIN seq = 1..Len(seq) /\ DOMAIN new = 1..n
      /\ new[n] = w /\ \A i \in 1..Len(seq) : new[i] = seq[i]
  OBVIOUS
<1>2. n \notin DOMAIN seq /\ DOMAIN new = DOMAIN seq \cup {n}
  BY <1>1
<1>3. n \notin A
  BY <1>2 DEF Inputs
<1>4. Cardinality(A) \in Nat
  BY FS_CardinalityType
<1> HIDE DEF n, new
<1>5. CASE w.in = <<>>
  <2>1. Inputs(new) = A
    BY <1>1, <1>2, <1>5 DEF Inputs
  <2> QED BY <1>4, <1>5, <2>1 DEF new
<1>6. CASE w.in # <<>>
  <2>1. Inputs(new) = A \cup {n}
    BY <1>1, <1>2, <1>6 DEF Inputs
  <2>2. IsFiniteSet(A \cup {n}) /\ Cardinality(A \cup {n}) = Cardinality(A) + 1
    <3> HIDE DEF A
    <3> QED BY <1>3, FS_AddElement DEF A
  <2> QED BY <1>4, <1>6, <2>1, <2>2 DEF new
<1> QED BY <1>5, <1>6

(* What a step leaves alone stays where it is.                             *)
LEMMA CommandsKept ==
    ASSUME NEW k, NEW j, CommandsAt(k, j), UNCHANGED << cmdq, cur >>,
           Issued' = Issued, app'.txn = app.txn
    PROVE  CommandsAt(k, j)'
  BY DEF CommandsAt, Carries, seglen

LEMMA TxKept ==
    ASSUME NEW sent, TxAt(sent), UNCHANGED tx,
           Written' = Written, app'.txn = app.txn, app'.calls = app.calls
    PROVE  TxAt(sent)'
  BY DEF TxAt, TxWord, txlen, seglen, Moved

LEMMA RxKept ==
    ASSUME NEW got, RxAt(got), UNCHANGED rx,
           peri'.rxcnt = peri.rxcnt, peri'.buffer = peri.buffer, app'.calls = app.calls
    PROVE  RxAt(got)'
  BY DEF RxAt, RxWord

(* The next command is written behind those in the host.                   *)
LEMMA CommandIssued ==
    ASSUME HostTypes, app.txn \in Transactions, NEW k \in Nat, NEW j \in Nat, CommandsAt(k, j),
           cur = <<>> => cmdq = <<>>, Issued \in Nat, Issued < seglen(app.txn),
           NEW cmd \in Commands, Carries(app.txn, cmd, Issued + 1), Status.ready, WriteCommand(cmd),
           Issued' = Issued + 1, app'.txn = app.txn
    PROVE  CommandsAt(k, j)'
<1> DEFINE m == seglen(app.txn)
<1>1. m \in Nat /\ m' = m
  BY DEF seglen, Transactions
<1>2. ASSUME NEW c, NEW i PROVE Carries(app.txn, c, i)' <=> Carries(app.txn, c, i)
  BY DEF seglen, Carries
<1>3. cmdq \in Seq(Commands) /\ Len(cmdq) \in Nat
  BY DEF HostTypes
<1>4. k + Len(cur) + Len(cmdq) = Issued /\ Issued' <= m
  BY <1>1 DEF CommandsAt
<1>5. CASE cur = <<>>
  <2> DEFINE seg == app.txn.segments[k + 1]
  <2>1. cur' = <<Begin(cmd)>> /\ cmdq' = cmdq /\ cmdq = <<>>
    BY <1>5 DEF WriteCommand, Status
  <2>2. Len(cur) = 0 /\ Len(cmdq) = 0 /\ k = Issued /\ j = 0
    <3>1. Len(cur) = 0 /\ Len(cmdq) = 0 /\ j = 0
      BY <1>5, <2>1 DEF CommandsAt
    <3> QED BY <1>4, <3>1
  <2>3. Len(cur') = 1 /\ Len(cmdq') = 0 /\ cur' # <<>> /\ cur'[1].cmd = cmd /\ cur'[1].left = WordsOf(cmd)
    BY <2>1, <2>2 DEF Begin
  <2>4. Carries(app.txn, cmd, k + 1)
    BY <2>2
  <2>5. WordsOf(cmd) = WordsOf(seg)
    BY <2>4 DEF Carries, WordsOf
  <2>6. cur'[1].left + j = WordsOf(seg)
    <3>1. cmd.len \in Nat
      BY DEF Commands
    <3>2. WordsOf(cmd) \in Nat
      BY <3>1, LenWordsType DEF WordsOf
    <3> QED BY <2>2, <2>3, <2>5, <3>2
  <2>7. k + Len(cur') + Len(cmdq') = Issued'
    BY <2>2, <2>3
  <2>8. Carries(app.txn, cur[1].cmd, k + 1)'
    BY <1>2, <2>3, <2>4 DEF Carries, seglen
  <2>9. (app.txn.segments[k + 1])' = seg
    OBVIOUS
  <2>10. \A i \in 1..Len(cmdq') : FALSE
    BY <2>3
  <2> HIDE DEF seg, m
  <2> QED BY <1>1, <1>4, <2>3, <2>6, <2>7, <2>8, <2>9, <2>10 DEF CommandsAt, m, seg
<1>6. CASE cur # <<>>
  <2>1. cmdq' = Append(cmdq, cmd) /\ cur' = cur
    BY <1>6 DEF WriteCommand, Status
  <2>2. Len(cur) = 1
    <3> DEFINE S == [cmd : Commands, left : Nat]
    <3>1. cur \in Seq(S) /\ Len(cur) <= 1
      BY DEF HostTypes
    <3> HIDE DEF S
    <3>2. Len(cur) \in Nat /\ Len(cur) # 0
      BY <1>6, <3>1, EmptySeq, LenProperties
    <3>3. \A n \in Nat : n # 0 /\ n <= 1 => n = 1
      OBVIOUS
    <3> QED BY <3>1, <3>2, <3>3, Zenon
  <2>3. /\ Len(cmdq') = Len(cmdq) + 1 /\ cmdq'[Len(cmdq) + 1] = cmd
        /\ \A i \in 1..Len(cmdq) : cmdq'[i] = cmdq[i]
    BY <1>3, <2>1
  <2>4. k + Len(cur') + Len(cmdq') = Issued'
    BY <1>3, <1>4, <2>1, <2>2, <2>3
  <2>5. ASSUME NEW i \in 1..Len(cmdq') PROVE Carries(app.txn, cmdq[i], k + Len(cur) + i)'
    <3>1. CASE i = Len(cmdq) + 1
      <4>1. \A n \in Nat : \A c : k + 1 + n = c => k + 1 + (n + 1) = c + 1
        OBVIOUS
      <4>2. k + 1 + Len(cmdq) = Issued /\ Len(cur') = 1
        BY <1>4, <2>1, <2>2
      <4>3. k + 1 + i = Issued + 1
        BY <1>3, <3>1, <4>1, <4>2
      <4>4. cmdq'[i] = cmd
        BY <2>3, <3>1
      <4> QED BY <4>2, <4>3, <4>4 DEF Carries, seglen
    <3>2. CASE i # Len(cmdq) + 1
      <4>1. i \in 1..Len(cmdq)
        BY <1>3, <2>3, <3>2
      <4>2. cmdq'[i] = cmdq[i] /\ Carries(app.txn, cmdq[i], k + Len(cur) + i)
        BY <2>3, <4>1 DEF CommandsAt
      <4> QED BY <2>1, <4>2 DEF Carries, seglen
    <3> QED BY <3>1, <3>2
  <2>6. /\ Carries(app.txn, cur[1].cmd, k + 1)'
        /\ (cur[1].left + j = WordsOf(app.txn.segments[k + 1]))'
    BY <1>6, <2>1 DEF CommandsAt, Carries, seglen
  <2> HIDE DEF m
  <2> QED BY <1>1, <1>4, <1>6, <2>1, <2>4, <2>5, <2>6 DEF CommandsAt, m
<1> QED BY <1>5, <1>6

(* The next word is written behind those in the FIFO.                      *)
LEMMA WordWritten ==
    ASSUME tx \in Seq(OutWords), NEW sent \in Nat, TxAt(sent), app.calls \in Nat,
           Written \in Nat, txlen(app.txn) \in Nat, Written < txlen(app.txn),
           tx' = Append(tx, TxWord(app.calls, Written + 1)),
           Written' = Written + 1, app'.txn = app.txn, app'.calls = app.calls
    PROVE  TxAt(sent)'
<1> DEFINE w == TxWord(app.calls, Written + 1)
           n == Len(tx)
<1>1. n \in Nat /\ sent + n = Written
  BY DEF TxAt
<1>2. w \in OutWords
  BY DEF TxWord, OutWords
<1>3. Len(tx') = n + 1 /\ tx'[n + 1] = w /\ \A i \in 1..n : tx'[i] = tx[i]
  BY <1>2
<1>4. txlen(app.txn)' = txlen(app.txn)
  BY DEF txlen, seglen, Moved
<1>5. ASSUME NEW i \in 1..Len(tx') PROVE tx'[i] = TxWord(app'.calls, sent + i)
  <2>1. i = n + 1 \/ i \in 1..n
    BY <1>1, <1>3
  <2>2. CASE i = n + 1
    <3>1. \A c : sent + n = c => sent + (n + 1) = c + 1
      BY <1>1
    <3>2. sent + i = Written + 1
      BY <1>1, <2>2, <3>1
    <3> QED BY <1>3, <2>2, <3>2
  <2>3. CASE i \in 1..n
    BY <1>3, <2>3 DEF TxAt
  <2> QED BY <2>1, <2>2, <2>3
<1>6. sent + Len(tx') = Written' /\ Written' <= txlen(app.txn)
  <2> HIDE DEF n
  <2> QED BY <1>1, <1>3
<1> QED BY <1>4, <1>5, <1>6 DEF TxAt

(* The first word of the FIFO is read into the buffer.                     *)
LEMMA WordRead ==
    ASSUME NEW got \in Nat, RxAt(got), rx # <<>>, peri.rxcnt \in Nat,
           rx' = Tail(rx), peri'.rxcnt = peri.rxcnt + 1,
           peri'.buffer = Append(peri.buffer, Head(rx)), app'.calls = app.calls
    PROVE  RxAt(got)'
<1> DEFINE n == Len(rx)
           c == peri.rxcnt
           b == peri.buffer
           w == Head(rx)
<1>1. /\ rx \in Seq(InWords) /\ b \in Seq(InWords) /\ Len(b) = c /\ got = c + n
      /\ \A i \in 1..n : rx[i] = RxWord(app.calls, c + i)
      /\ \A i \in 1..c : b[i] = RxWord(app.calls, i)
  BY DEF RxAt
<1>2. n \in Nat \ {0} /\ w = rx[1] /\ w \in InWords
  BY <1>1
<1>3. rx' \in Seq(InWords) /\ Len(rx') = n - 1 /\ \A i \in 1..n - 1 : rx'[i] = rx[i + 1]
  BY <1>1
<1>4. /\ peri'.buffer \in Seq(InWords) /\ Len(peri'.buffer) = c + 1
      /\ peri'.buffer[c + 1] = w /\ \A i \in 1..c : peri'.buffer[i] = b[i]
  <2>1. peri'.buffer = Append(b, w)
    OBVIOUS
  <2>2. peri'.buffer = Append(b, w) /\ b \in Seq(InWords) /\ w \in InWords /\ Len(b) = c
    BY <1>1, <1>2, <2>1
  <2>3. \A q \in Seq(InWords), e \in InWords :
           /\ Append(q, e) \in Seq(InWords) /\ Len(Append(q, e)) = Len(q) + 1
           /\ Append(q, e)[Len(q) + 1] = e /\ \A i \in 1..Len(q) : Append(q, e)[i] = q[i]
    BY AppendProperties
  <2> HIDE DEF b, w, c
  <2>4. /\ Append(b, w) \in Seq(InWords) /\ Len(Append(b, w)) = Len(b) + 1
        /\ Append(b, w)[Len(b) + 1] = w /\ \A i \in 1..Len(b) : Append(b, w)[i] = b[i]
    BY <2>2, <2>3, Zenon
  <2>5. Append(b, w) = peri'.buffer /\ Len(b) = c
    BY <2>2, Zenon
  <2> QED BY ONLY <2>4, <2>5
<1>5. ASSUME NEW i \in 1..Len(rx') PROVE rx'[i] = RxWord(app'.calls, peri'.rxcnt + i)
  <2>1. i \in 1..n - 1 /\ i + 1 \in 1..n /\ c + (i + 1) = (c + 1) + i
    <3>1. i \in 1..n - 1 /\ c \in Nat
      BY <1>3
    <3> HIDE DEF n, c
    <3> QED BY <1>2, <3>1
  <2>2. rx'[i] = rx[i + 1] /\ rx[i + 1] = RxWord(app.calls, c + (i + 1))
    BY <1>1, <1>3, <2>1
  <2> QED BY <2>1, <2>2
<1>6. ASSUME NEW i \in 1..peri'.rxcnt PROVE peri'.buffer[i] = RxWord(app'.calls, i)
  <2>1. i = c + 1 \/ i \in 1..c
    OBVIOUS
  <2>2. CASE i = c + 1
    <3>1. 1 \in 1..n
      BY <1>2
    <3>2. w = RxWord(app.calls, c + 1)
      BY <1>1, <1>2, <3>1
    <3> QED BY <1>4, <2>2, <3>2
  <2>3. CASE i \in 1..c
    BY <1>1, <1>4, <2>3
  <2> QED BY <2>1, <2>2, <2>3
<1>7. got = peri'.rxcnt + Len(rx')
  <2>1. peri'.rxcnt = c + 1 /\ c \in Nat /\ got = c + n /\ n \in Nat \ {0} /\ Len(rx') = n - 1
    BY <1>1, <1>2, <1>3
  <2>2. \A a, d \in Nat : a + d = (a + 1) + (d - 1)
    OBVIOUS
  <2> HIDE DEF n, c
  <2> QED BY <2>1, <2>2
<1> QED BY <1>3, <1>4, <1>5, <1>6, <1>7 DEF RxAt

(* The segment the host works on.                                          *)
LEMMA Current ==
    ASSUME HostTypes, app.txn \in Transactions, NEW k \in Nat, NEW j \in Nat, CommandsAt(k, j),
           cur # <<>>, Issued \in Nat
    PROVE  /\ Len(cur) = 1 /\ k \in 0..seglen(app.txn) - 1 /\ k + 1 \in 1..seglen(app.txn)
           /\ k \in 0..seglen(app.txn) /\ k + 1 \in 0..seglen(app.txn)
           /\ cur[1] \in [cmd : Commands, left : Nat]
           /\ Carries(app.txn, cur[1].cmd, k + 1)
           /\ cur[1].left + j = WordsOf(app.txn.segments[k + 1])
           /\ Sends(cur[1].cmd) = Sends(app.txn.segments[k + 1])
           /\ Receives(cur[1].cmd) = Receives(app.txn.segments[k + 1])
<1>1. Len(cur) = 1 /\ cur[1] \in [cmd : Commands, left : Nat] /\ Len(cmdq) \in Nat
  <2> DEFINE S == [cmd : Commands, left : Nat]
  <2>1. cur \in Seq(S) /\ Len(cur) <= 1 /\ cmdq \in Seq(Commands)
    BY DEF HostTypes
  <2> HIDE DEF S
  <2>2. Len(cur) \in Nat /\ Len(cur) # 0 /\ Len(cmdq) \in Nat
    BY <2>1, EmptySeq, LenProperties
  <2>3. Len(cur) = 1
    <3>1. \A n \in Nat : n # 0 /\ n <= 1 => n = 1
      OBVIOUS
    <3> QED BY <2>1, <2>2, <3>1, Zenon
  <2>4. cur[1] \in S
    BY <2>1, <2>3
  <2> QED BY <2>2, <2>3, <2>4 DEF S
<1>2. seglen(app.txn) \in Nat
  BY DEF seglen, Transactions
<1>3. k + 1 <= seglen(app.txn)
  <2>1. k + Len(cur) + Len(cmdq) = Issued /\ Issued <= seglen(app.txn)
    BY DEF CommandsAt
  <2> QED BY <1>1, <1>2, <2>1
<1>4. Carries(app.txn, cur[1].cmd, k + 1) /\ cur[1].left + j = WordsOf(app.txn.segments[k + 1])
  BY DEF CommandsAt
<1>5. /\ Sends(cur[1].cmd) = Sends(app.txn.segments[k + 1])
      /\ Receives(cur[1].cmd) = Receives(app.txn.segments[k + 1])
  BY <1>4 DEF Carries, Sends, Receives
<1>6. /\ k \in 0..seglen(app.txn) - 1 /\ k + 1 \in 1..seglen(app.txn)
      /\ k \in 0..seglen(app.txn) /\ k + 1 \in 0..seglen(app.txn)
  BY <1>2, <1>3
<1> QED BY <1>1, <1>4, <1>5, <1>6

(* The bus takes the first word of the FIFO.                               *)
LEMMA TxExchanged ==
    ASSUME tx \in Seq(OutWords), NEW sent \in Nat, TxAt(sent), tx # <<>>, tx' = Tail(tx),
           Written' = Written, app'.txn = app.txn, app'.calls = app.calls
    PROVE  TxAt(sent + 1)' /\ Head(tx) = TxWord(app.calls, sent + 1)
<1> DEFINE n == Len(tx)
<1>1. n \in Nat \ {0} /\ Head(tx) = tx[1] /\ 1 \in 1..n
  OBVIOUS
<1>2. Len(tx') = n - 1 /\ \A i \in 1..n - 1 : tx'[i] = tx[i + 1]
  OBVIOUS
<1>3. sent + n = Written /\ Written <= txlen(app.txn) /\ \A i \in 1..n : tx[i] = TxWord(app.calls, sent + i)
  BY DEF TxAt
<1>4. txlen(app.txn)' = txlen(app.txn)
  BY DEF txlen, seglen, Moved
<1>5. ASSUME NEW i \in 1..Len(tx') PROVE tx'[i] = TxWord(app'.calls, (sent + 1) + i)
  <2>1. i \in 1..n - 1 /\ i + 1 \in 1..n /\ sent + (i + 1) = (sent + 1) + i
    BY <1>1, <1>2
  <2>2. tx'[i] = tx[i + 1] /\ tx[i + 1] = TxWord(app.calls, sent + (i + 1))
    BY <1>2, <1>3, <2>1
  <2> QED BY <2>1, <2>2
<1>6. (sent + 1) + Len(tx') = Written' /\ Written' <= txlen(app.txn)
  <2>1. Written' = Written
    OBVIOUS
  <2> HIDE DEF n
  <2> QED BY <1>1, <1>2, <1>3, <2>1
<1>7. Head(tx) = TxWord(app.calls, sent + 1)
  BY <1>1, <1>3
<1> QED BY <1>4, <1>5, <1>6, <1>7 DEF TxAt

(* The word of the device goes behind those in the FIFO.                   *)
LEMMA RxExchanged ==
    ASSUME NEW got \in Nat, RxAt(got), app.calls \in Nat, peri.rxcnt \in Nat,
           rx' = Append(rx, RxWord(app.calls, got + 1)),
           peri'.rxcnt = peri.rxcnt, peri'.buffer = peri.buffer, app'.calls = app.calls
    PROVE  RxAt(got + 1)'
<1> DEFINE n == Len(rx)
           w == RxWord(app.calls, got + 1)
<1>1. rx \in Seq(InWords) /\ n \in Nat /\ got = peri.rxcnt + n /\ w \in InWords
  BY DEF RxAt, RxWord, InWords
<1>2. /\ rx' \in Seq(InWords) /\ Len(rx') = n + 1 /\ rx'[n + 1] = w
      /\ \A i \in 1..n : rx'[i] = rx[i]
  <2>1. rx' = Append(rx, w)
    OBVIOUS
  <2> HIDE DEF w
  <2> QED BY <1>1, <2>1
<1>3. ASSUME NEW i \in 1..Len(rx') PROVE rx'[i] = RxWord(app.calls, peri.rxcnt + i)
  <2>1. i = n + 1 \/ i \in 1..n
    BY <1>1, <1>2
  <2>2. CASE i = n + 1
    <3>1. \A c \in Nat : got = c + n => c + (n + 1) = got + 1
      BY <1>1
    <3>2. peri.rxcnt + i = got + 1
      BY <1>1, <2>2, <3>1
    <3> QED BY <1>2, <2>2, <3>2
  <2>3. CASE i \in 1..n
    BY <1>2, <2>3 DEF RxAt
  <2> QED BY <2>1, <2>2, <2>3
<1>4. got + 1 = peri.rxcnt + Len(rx')
  <2> HIDE DEF n
  <2> QED BY <1>1, <1>2
<1> QED BY <1>2, <1>3, <1>4 DEF RxAt, RxWord

-----------------------------------------------------------------------------
(* The host moves a word.                                                  *)

\* A segment of one of the directions adds a word for each that it moves.
One(directions, seg) == IF seg.direction \in directions THEN 1 ELSE 0

(* The words gone before, of a segment that has the direction.             *)
LEMMA GoneHere ==
    ASSUME NEW directions, NEW txn, NEW k \in Nat, NEW j \in Nat,
           txn.segments[k + 1].direction \in directions,
           Moved(directions, txn.segments, k) \in Nat
    PROVE  Gone(directions, txn, k, j) = Moved(directions, txn.segments, k) + j
<1> DEFINE m == Moved(directions, txn.segments, k)
<1>1. Gone(directions, txn, k, j) = m + IF j > 0 THEN j ELSE 0
  BY DEF Gone
<1>2. m \in Nat
  OBVIOUS
<1> HIDE DEF m
<1> QED BY <1>1, <1>2 DEF m

LEMMA NextGone ==
    ASSUME NEW directions \in {Sending, Receiving}, NEW txn \in Transactions,
           NEW k \in 0..seglen(txn) - 1, NEW j \in Nat
    PROVE  /\ Gone(directions, txn, k, j) \in Nat
           /\ Gone(directions, txn, k, j + 1)
                  = Gone(directions, txn, k, j) + One(directions, txn.segments[k + 1])
  BY GoneSteps DEF One

(* The next word on the bus.                                               *)
LEMMA NextWord ==
    ASSUME NEW n \in Nat, NEW txn \in Transactions, NEW k \in 0..seglen(txn) - 1, NEW j \in Nat
    PROVE  LET seg == txn.segments[k + 1]
               s == Gone(Sending, txn, k, j)
               r == Gone(Receiving, txn, k, j)
               w == BusWord(n, txn, k + 1, j + 1)
           IN /\ s \in Nat /\ r \in Nat
              /\ Gone(Sending, txn, k, j + 1) = s + One(Sending, seg)
              /\ Gone(Receiving, txn, k, j + 1) = r + One(Receiving, seg)
              /\ w \in BusWords
              /\ w = Seen([csid |-> Slaves[txn.spi].csid],
                          IF Sends(seg) THEN TxWord(n, s + 1) ELSE <<>>,
                          IF Receives(seg) THEN RxWord(n, r + 1) ELSE <<>>, "low")
              /\ At(n, txn, k, j) \in Seq(BusWords)
              /\ At(n, txn, k, j + 1) = Append(At(n, txn, k, j), w)
<1> DEFINE seg == txn.segments[k + 1]
           s == Gone(Sending, txn, k, j)
           r == Gone(Receiving, txn, k, j)
           w == BusWord(n, txn, k + 1, j + 1)
           ms == Moved(Sending, txn.segments, k)
           mr == Moved(Receiving, txn.segments, k)
<1>1. /\ s \in Nat /\ Gone(Sending, txn, k, j + 1) = s + One(Sending, seg)
      /\ r \in Nat /\ Gone(Receiving, txn, k, j + 1) = r + One(Receiving, seg)
  BY NextGone
<1>2. /\ w \in BusWords /\ At(n, txn, k, j) \in Seq(BusWords)
      /\ At(n, txn, k, j + 1) = Append(At(n, txn, k, j), w)
  BY AtSteps
<1>3. k \in 0..seglen(txn) /\ k \in Nat /\ (k + 1) - 1 = k
  BY DEF seglen, Transactions
<1>4. ms \in Nat /\ mr \in Nat
  <2>1. Sending \in {Sending, Receiving} /\ Receiving \in {Sending, Receiving}
    OBVIOUS
  <2> QED BY <1>3, <2>1, GoneSteps
<1>5. Sends(seg) => s = ms + j
  BY <1>3, <1>4, GoneHere DEF Sends
<1>6. Receives(seg) => r = mr + j
  BY <1>3, <1>4, GoneHere DEF Receives
<1>7. w = Seen([csid |-> Slaves[txn.spi].csid],
               IF Sends(seg) THEN TxWord(n, ms + (j + 1)) ELSE <<>>,
               IF Receives(seg) THEN RxWord(n, mr + (j + 1)) ELSE <<>>, "low")
  BY <1>3 DEF BusWord
<1>8. \A a, b \in Nat : b = a + j => a + (j + 1) = b + 1
  OBVIOUS
<1> HIDE DEF seg, s, r, w, ms, mr
<1>9. w = Seen([csid |-> Slaves[txn.spi].csid],
               IF Sends(seg) THEN TxWord(n, s + 1) ELSE <<>>,
               IF Receives(seg) THEN RxWord(n, r + 1) ELSE <<>>, "low")
  <2>1. Sends(seg) => ms + (j + 1) = s + 1
    BY <1>1, <1>4, <1>5, <1>8
  <2>2. Receives(seg) => mr + (j + 1) = r + 1
    BY <1>1, <1>4, <1>6, <1>8
  <2> DEFINE c == [csid |-> Slaves[txn.spi].csid]
             out(i) == IF Sends(seg) THEN TxWord(n, i) ELSE <<>>
             in(i) == IF Receives(seg) THEN RxWord(n, i) ELSE <<>>
  <2>3. out(ms + (j + 1)) = out(s + 1) /\ in(mr + (j + 1)) = in(r + 1)
    BY <2>1, <2>2
  <2>4. w = Seen(c, out(ms + (j + 1)), in(mr + (j + 1)), "low")
    BY <1>7
  <2>5. w = Seen(c, out(s + 1), in(r + 1), "low")
    <3> HIDE DEF out, in, c
    <3> QED BY <2>3, <2>4
  <2> QED BY <2>5
<1> QED BY <1>1, <1>2, <1>9 DEF seg, s, r, w

\* The two steps of Host.
Shifts ==
    /\ Exchange(DeviceWord)
    /\ LET cmd == cur[1].cmd IN
       wire' = Append(wire, Seen(cmd, IF Sends(cmd) THEN Head(tx) ELSE <<>>,
                                 IF Receives(cmd) THEN DeviceWord ELSE <<>>, "low"))

LEMMA ExchangeStep ==
    ASSUME SdkInv, app.txn \in Transactions, NEW k \in Nat, NEW j \in Nat, ExchangeAt(k, j),
           Shifts, UNCHANGED << peri, main, app >>
    PROVE  ExchangeAt(k, j + 1)'
<1> DEFINE cmd == cur[1].cmd
<1>1. /\ HostTypes /\ SdkTypes /\ app.calls \in Nat /\ peri.rxcnt \in Nat /\ peri.scnt \in Nat
      /\ tx \in Seq(OutWords) /\ Issued \in Nat
  BY DEF SdkInv, SdkTypes, HostTypes, Issued
<1>2. PICK txn \in Transactions : txn = app.txn
  OBVIOUS
<1>3. PICK n \in Nat : n = app.calls
  BY <1>1
<1>4. /\ cur # <<>> /\ cur[1].left > 0
      /\ cur' = <<[cur[1] EXCEPT !.left = @ - 1]>> /\ cmdq' = cmdq
      /\ tx' = (IF Sends(cmd) THEN Tail(tx) ELSE tx)
      /\ rx' = (IF Receives(cmd) THEN Append(rx, DeviceWord) ELSE rx)
      /\ (Sends(cmd) => tx # <<>>)
      /\ wire' = Append(wire, Seen(cmd, IF Sends(cmd) THEN Head(tx) ELSE <<>>,
                                   IF Receives(cmd) THEN DeviceWord ELSE <<>>, "low"))
  BY DEF Shifts, Exchange, CanExchange
<1>5. /\ Len(cur) = 1 /\ k \in 0..seglen(txn) - 1
      /\ cur[1] \in [cmd : Commands, left : Nat]
      /\ Carries(txn, cmd, k + 1)
      /\ cur[1].left + j = WordsOf(txn.segments[k + 1])
      /\ Sends(cmd) = Sends(txn.segments[k + 1])
      /\ Receives(cmd) = Receives(txn.segments[k + 1])
  BY <1>1, <1>2, <1>4, Current DEF ExchangeAt
<1>6. CommandsAt(k, j + 1)'
  <2>1. Len(cur') = 1 /\ cur' # <<>> /\ cur'[1].cmd = cmd /\ cur'[1].left = cur[1].left - 1
    BY <1>4, <1>5
  <2>2. cur'[1].left + (j + 1) = cur[1].left + j
    <3>1. \A a, b \in Nat : (a - 1) + (b + 1) = a + b
      OBVIOUS
    <3> QED BY <1>5, <2>1, <3>1
  <2>3. Issued' = Issued /\ app'.txn = app.txn
    BY DEF Issued
  <2>4. CommandsAt(k, j)
    BY DEF ExchangeAt
  <2> HIDE DEF cmd
  <2>5. /\ k + Len(cur') + Len(cmdq') = Issued' /\ Issued' <= seglen(app'.txn)
        /\ cur'[1].left + (j + 1) = WordsOf(app'.txn.segments[k + 1])
        /\ \A i \in 1..Len(cmdq') : Carries(app'.txn, cmdq'[i], k + Len(cur') + i)
    BY <1>2, <1>4, <1>5, <2>1, <2>2, <2>3, <2>4 DEF CommandsAt
  <2>6. Carries(app'.txn, cur'[1].cmd, k + 1)
    BY <1>2, <1>5, <2>1, <2>3
  <2> QED BY <2>1, <2>5, <2>6 DEF CommandsAt, Carries, seglen
<1> DEFINE seg == txn.segments[k + 1]
           s == Gone(Sending, txn, k, j)
           r == Gone(Receiving, txn, k, j)
           w == BusWord(n, txn, k + 1, j + 1)
           at == At(n, txn, k, j)
<1>7. /\ s \in Nat /\ r \in Nat
      /\ Gone(Sending, txn, k, j + 1) = s + One(Sending, seg)
      /\ Gone(Receiving, txn, k, j + 1) = r + One(Receiving, seg)
      /\ w \in BusWords
      /\ w = Seen([csid |-> Slaves[txn.spi].csid],
                  IF Sends(seg) THEN TxWord(n, s + 1) ELSE <<>>,
                  IF Receives(seg) THEN RxWord(n, r + 1) ELSE <<>>, "low")
      /\ at \in Seq(BusWords)
      /\ At(n, txn, k, j + 1) = Append(at, w)
  BY <1>5, NextWord
<1>8. TxAt(s) /\ RxAt(r) /\ WireAt(r) /\ wire = at
  BY <1>2, <1>3 DEF ExchangeAt
<1>9. Written' = Written /\ app' = app /\ peri' = peri
  BY DEF Written
<1>10. DeviceWord = RxWord(n, r + 1)
  <2>1. DeviceWord = RxWord(app.calls, 1 + Cardinality(Inputs(wire)))
    BY DEF DeviceWord, Inputs
  <2>2. Cardinality(Inputs(wire)) = r /\ 1 + r = r + 1
    BY <1>7, <1>8 DEF WireAt
  <2> HIDE DEF r
  <2> QED BY <1>3, <2>1, <2>2
<1> HIDE DEF cmd, seg, s, r, w, at
<1>11. TxAt(s + One(Sending, seg))' /\ (Sends(seg) => Head(tx) = TxWord(n, s + 1))
  <2>1. CASE Sends(seg)
    <3>1. TxAt(s + 1)' /\ Head(tx) = TxWord(app.calls, s + 1)
      BY <1>1, <1>4, <1>5, <1>7, <1>8, <1>9, <2>1, TxExchanged DEF seg
    <3>2. One(Sending, seg) = 1
      BY <2>1 DEF One, Sends
    <3> QED BY <1>3, <3>1, <3>2
  <2>2. CASE ~Sends(seg)
    <3>1. TxAt(s)'
      BY <1>4, <1>5, <1>8, <1>9, <2>2, TxKept DEF seg
    <3>2. One(Sending, seg) = 0 /\ s + 0 = s
      BY <1>7, <2>2 DEF One, Sends
    <3> QED BY <2>2, <3>1, <3>2
  <2> QED BY <2>1, <2>2
<1>12. RxAt(r + One(Receiving, seg))'
  <2>1. CASE Receives(seg)
    <3>1. rx' = Append(rx, RxWord(app.calls, r + 1))
      BY <1>3, <1>4, <1>5, <1>10, <2>1 DEF seg
    <3>2. RxAt(r + 1)'
      BY <1>1, <1>7, <1>8, <1>9, <3>1, RxExchanged
    <3>3. One(Receiving, seg) = 1
      BY <2>1 DEF One, Receives
    <3> QED BY <3>2, <3>3
  <2>2. CASE ~Receives(seg)
    <3>1. RxAt(r)'
      BY <1>4, <1>5, <1>8, <1>9, <2>2, RxKept DEF seg
    <3>2. One(Receiving, seg) = 0 /\ r + 0 = r
      BY <1>7, <2>2 DEF One, Receives
    <3> QED BY <3>1, <3>2
  <2> QED BY <2>1, <2>2
<1>13. wire' = Append(at, w)
  <2> DEFINE c == [csid |-> Slaves[txn.spi].csid]
             out == IF Sends(seg) THEN TxWord(n, s + 1) ELSE <<>>
             in == IF Receives(seg) THEN RxWord(n, r + 1) ELSE <<>>
  <2>1. Seen(cmd, out, in, "low") = Seen(c, out, in, "low")
    <3>1. cmd.csid = c.csid
      BY <1>5 DEF Carries, cmd
    <3> HIDE DEF out, in, c
    <3> QED BY <3>1 DEF Seen
  <2>2. (IF Sends(cmd) THEN Head(tx) ELSE <<>>) = out
    BY <1>5, <1>11 DEF cmd, seg
  <2>3. (IF Receives(cmd) THEN DeviceWord ELSE <<>>) = in
    BY <1>5, <1>10 DEF cmd, seg
  <2>4. wire' = Append(wire, Seen(cmd, out, in, "low"))
    <3> HIDE DEF out, in
    <3> QED BY <1>4, <2>2, <2>3 DEF cmd
  <2>5. w = Seen(c, out, in, "low")
    BY <1>7
  <2> HIDE DEF out, in, c
  <2> QED BY <1>8, <2>1, <2>4, <2>5
<1>14. WireAt(r + One(Receiving, seg))'
  <2>1. /\ IsFiniteSet(Inputs(at)) /\ Cardinality(Inputs(at)) = r
    BY <1>8 DEF WireAt
  <2>2. /\ IsFiniteSet(Inputs(Append(at, w)))
        /\ Cardinality(Inputs(Append(at, w))) = r + IF w.in = <<>> THEN 0 ELSE 1
    BY <1>7, <2>1, InputsGrow
  <2>3. w.in = IF Receives(seg) THEN RxWord(n, r + 1) ELSE <<>>
    BY <1>7 DEF Seen
  <2>4. RxWord(n, r + 1) # <<>>
    BY DEF RxWord
  <2>5. (IF w.in = <<>> THEN 0 ELSE 1) = One(Receiving, seg)
    BY <2>3, <2>4 DEF One, Receives
  <2>6. Cardinality(Inputs(Append(at, w))) = r + One(Receiving, seg)
    BY <2>2, <2>5
  <2> QED BY <1>13, <2>2, <2>6 DEF WireAt
<1> QED BY <1>2, <1>3, <1>6, <1>7, <1>9, <1>11, <1>12, <1>13, <1>14
        DEF ExchangeAt, s, r, at, seg

-----------------------------------------------------------------------------
(* The host ends a segment.                                                *)

(* The next segment begins where this one ends.                            *)
LEMMA NextSegment ==
    ASSUME NEW n \in Nat, NEW txn \in Transactions, NEW k \in 0..seglen(txn) - 1
    PROVE  LET words == WordsOf(txn.segments[k + 1])
               at == At(n, txn, k, words)
           IN /\ words \in Nat
              /\ \A directions \in {Sending, Receiving} :
                    /\ Gone(directions, txn, k, words) = Gone(directions, txn, k + 1, 0)
                    /\ Gone(directions, txn, k + 1, 0) \in Nat
              /\ BusEnd(txn, k + 1) \in BusWords /\ BusEnd(txn, k + 1).in = <<>>
              /\ at \in Seq(BusWords)
              /\ At(n, txn, k + 1, 0) = Append(at, BusEnd(txn, k + 1))
<1> DEFINE words == WordsOf(txn.segments[k + 1])
<1>1. PICK h \in 1..seglen(txn) : h = k + 1 /\ h \in 0..seglen(txn)
  BY DEF seglen, Transactions
<1>2. WordsOf(txn.segments[h]) \in Nat /\ BusEnd(txn, h) \in BusWords
  <2>1. 0 \in Nat
    OBVIOUS
  <2> QED BY <2>1, WordTypes
<1>3. BusEnd(txn, h).in = <<>>
  BY DEF BusEnd, Seen
<1>4. ASSUME NEW directions \in {Sending, Receiving}
      PROVE  /\ Gone(directions, txn, k, words) = Gone(directions, txn, k + 1, 0)
             /\ Gone(directions, txn, h, 0) \in Nat
  BY <1>1, GoneSteps
<1>5. /\ At(n, txn, h, 0) = Bus(n, txn, h)
      /\ Bus(n, txn, k + 1) = Append(At(n, txn, k, words), BusEnd(txn, k + 1))
  BY <1>1, AtSteps
<1>6. At(n, txn, k, words) \in Seq(BusWords)
  <2>1. words \in Nat
    BY <1>1, <1>2
  <2> HIDE DEF words
  <2> QED BY <2>1, AtSteps
<1> QED BY <1>1, <1>2, <1>3, <1>4, <1>5, <1>6

Closes ==
    /\ EndCommand
    /\ wire' = Append(wire, Seen(cur[1].cmd, <<>>, <<>>, IF cur[1].cmd.csaat THEN "low" ELSE "high"))

LEMMA CloseStep ==
    ASSUME SdkInv, app.txn \in Transactions, NEW k \in Nat, NEW j \in Nat, ExchangeAt(k, j),
           Closes, UNCHANGED << peri, main, app >>
    PROVE  ExchangeAt(k + 1, 0)'
<1> DEFINE cmd == cur[1].cmd
<1>1. /\ HostTypes /\ app.calls \in Nat /\ peri.scnt \in Nat /\ Issued \in Nat
      /\ cmdq \in Seq(Commands)
  BY DEF SdkInv, SdkTypes, HostTypes, Issued
<1>2. PICK txn \in Transactions : txn = app.txn
  OBVIOUS
<1>3. PICK n \in Nat : n = app.calls
  BY <1>1
<1>4. /\ cur # <<>> /\ cur[1].left = 0
      /\ cur' = (IF cmdq = <<>> THEN <<>> ELSE <<Begin(Head(cmdq))>>)
      /\ cmdq' = (IF cmdq = <<>> THEN <<>> ELSE Tail(cmdq))
      /\ UNCHANGED << tx, rx >>
      /\ wire' = Append(wire, Seen(cmd, <<>>, <<>>, IF cmd.csaat THEN "low" ELSE "high"))
  BY DEF Closes, EndCommand
<1>5. /\ Len(cur) = 1 /\ k \in 0..seglen(txn) - 1
      /\ Carries(txn, cmd, k + 1)
      /\ cur[1].left + j = WordsOf(txn.segments[k + 1])
  BY <1>1, <1>2, <1>4, Current DEF ExchangeAt
<1> DEFINE words == WordsOf(txn.segments[k + 1])
           s == Gone(Sending, txn, k, j)
           r == Gone(Receiving, txn, k, j)
           s2 == Gone(Sending, txn, k + 1, 0)
           r2 == Gone(Receiving, txn, k + 1, 0)
           at == At(n, txn, k, j)
           end == BusEnd(txn, k + 1)
<1>6. j = words
  BY <1>4, <1>5
<1>7. /\ s = s2 /\ r = r2 /\ r \in Nat
      /\ end \in BusWords /\ end.in = <<>> /\ at \in Seq(BusWords)
      /\ At(n, txn, k + 1, 0) = Append(at, end)
  <2>1. Sending \in {Sending, Receiving} /\ Receiving \in {Sending, Receiving}
    OBVIOUS
  <2>2. /\ \A directions \in {Sending, Receiving} :
              /\ Gone(directions, txn, k, words) = Gone(directions, txn, k + 1, 0)
              /\ Gone(directions, txn, k + 1, 0) \in Nat
        /\ end \in BusWords /\ end.in = <<>>
        /\ At(n, txn, k, words) \in Seq(BusWords)
        /\ At(n, txn, k + 1, 0) = Append(At(n, txn, k, words), end)
    BY <1>5, NextSegment
  <2>3. r = r2 /\ s = s2 /\ r2 \in Nat
    BY <1>6, <2>1, <2>2
  <2>4. at = At(n, txn, k, words)
    BY <1>6
  <2> HIDE DEF words, at, end
  <2> QED BY <2>2, <2>3, <2>4
<1>8. TxAt(s) /\ RxAt(r) /\ WireAt(r) /\ wire = at /\ CommandsAt(k, j)
  BY <1>2, <1>3 DEF ExchangeAt
<1>9. Written' = Written /\ Issued' = Issued /\ app' = app /\ peri' = peri
  BY DEF Written, Issued
<1> HIDE DEF words, s, r, s2, r2, at, end
<1>10. TxAt(s)' /\ RxAt(r)'
  BY <1>4, <1>8, <1>9, TxKept, RxKept
<1>11. wire' = Append(at, end)
  <2> DEFINE c == [csid |-> Slaves[txn.spi].csid]
             cs == IF k + 1 = seglen(txn) THEN "high" ELSE "low"
  <2>1. cmd.csid = c.csid /\ (IF cmd.csaat THEN "low" ELSE "high") = cs
    BY <1>5 DEF Carries
  <2>2. wire' = Append(wire, Seen(cmd, <<>>, <<>>, cs))
    <3> HIDE DEF cs
    <3> QED BY <1>4, <2>1
  <2>3. Seen(cmd, <<>>, <<>>, cs) = Seen(c, <<>>, <<>>, cs)
    <3> HIDE DEF cs, c
    <3> QED BY <2>1 DEF Seen
  <2>4. end = Seen(c, <<>>, <<>>, cs)
    BY DEF end, BusEnd
  <2> QED BY <1>8, <2>2, <2>3, <2>4
<1>12. WireAt(r)'
  <2>1. IsFiniteSet(Inputs(at)) /\ Cardinality(Inputs(at)) = r
    BY <1>8 DEF WireAt
  <2>2. /\ IsFiniteSet(Inputs(Append(at, end)))
        /\ Cardinality(Inputs(Append(at, end))) = r + IF end.in = <<>> THEN 0 ELSE 1
    BY <1>7, <2>1, InputsGrow
  <2>3. Cardinality(Inputs(Append(at, end))) = r
    BY <1>7, <2>2
  <2> QED BY <1>11, <2>2, <2>3 DEF WireAt
<1>13. CommandsAt(k + 1, 0)'
  <2>1. k + 1 + Len(cmdq) = Issued /\ Issued <= seglen(txn)
    BY <1>2, <1>5, <1>8 DEF CommandsAt
  <2>2. \A i \in 1..Len(cmdq) : Carries(txn, cmdq[i], k + 1 + i)
    BY <1>2, <1>5, <1>8 DEF CommandsAt
  <2>3. CASE cmdq = <<>>
    <3>1. Len(cmdq) = 0 /\ Len(cur') = 0 /\ Len(cmdq') = 0 /\ cur' = <<>>
      BY <1>4, <2>3
    <3>2. (k + 1) + Len(cur') + Len(cmdq') = Issued' /\ \A i \in 1..Len(cmdq') : FALSE
      BY <1>9, <2>1, <3>1
    <3> QED BY <1>2, <1>9, <2>1, <3>1, <3>2 DEF CommandsAt, seglen
  <2>4. CASE cmdq # <<>>
    <3>1. /\ Len(cmdq) \in Nat \ {0} /\ Head(cmdq) = cmdq[1] /\ cmdq[1] \in Commands
          /\ Len(cmdq') = Len(cmdq) - 1 /\ \A i \in 1..Len(cmdq) - 1 : cmdq'[i] = cmdq[i + 1]
      BY <1>1, <1>4, <2>4
    <3>2. /\ Len(cur') = 1 /\ cur' # <<>> /\ cur'[1].cmd = cmdq[1]
          /\ cur'[1].left = WordsOf(cmdq[1])
      BY <1>4, <2>4, <3>1 DEF Begin
    <3>3. Carries(txn, cmdq[1], (k + 1) + 1)
      BY <2>2, <3>1
    <3>4. cur'[1].left + 0 = WordsOf(txn.segments[(k + 1) + 1])
      <4>1. cmdq[1].len \in Nat
        BY <3>1 DEF Commands
      <4>2. WordsOf(cmdq[1]) \in Nat
        BY <4>1, LenWordsType DEF WordsOf
      <4>3. WordsOf(cmdq[1]) = WordsOf(txn.segments[(k + 1) + 1])
        BY <3>3 DEF Carries, WordsOf
      <4>4. \A x \in Nat : x + 0 = x
        OBVIOUS
      <4> QED BY <3>2, <4>2, <4>3, <4>4, Zenon
    <3>5. (k + 1) + Len(cur') + Len(cmdq') = Issued'
      <4>1. \A a \in Nat : \A b : b = a - 1 => (k + 1) + 1 + b = k + 1 + a
        OBVIOUS
      <4> QED BY <1>9, <2>1, <3>1, <3>2, <4>1
    <3>6. ASSUME NEW i \in 1..Len(cmdq') PROVE Carries(txn, cmdq'[i], (k + 1) + Len(cur') + i)
      <4>1. i \in 1..Len(cmdq) - 1 /\ i + 1 \in 1..Len(cmdq)
        BY <3>1
      <4>2. cmdq'[i] = cmdq[i + 1] /\ Carries(txn, cmdq[i + 1], k + 1 + (i + 1))
        BY <2>2, <3>1, <4>1
      <4>3. k + 1 + (i + 1) = (k + 1) + 1 + i
        OBVIOUS
      <4> QED BY <3>2, <4>2, <4>3
    <3>7. txn = app'.txn
      BY <1>2, <1>9
    <3> QED BY <1>9, <2>1, <3>2, <3>3, <3>4, <3>5, <3>6, <3>7 DEF CommandsAt, Carries, seglen
  <2> QED BY <2>3, <2>4
<1> QED BY <1>2, <1>3, <1>7, <1>9, <1>10, <1>11, <1>12, <1>13
        DEF ExchangeAt, s2, r2

-----------------------------------------------------------------------------
(* The steps of the host and of the handler.                               *)

(* The exchange does not change when no word and no command moves.         *)
LEMMA ExchangeKept ==
    ASSUME ExchangeInv, UNCHANGED << cmdq, cur, tx, rx, wire >>,
           app'.txn = app.txn, app'.calls = app.calls, app'.reports = app.reports,
           peri'.rxcnt = peri.rxcnt, peri'.buffer = peri.buffer,
           Working' => /\ Working /\ Issued' = Issued /\ Written' = Written
                       /\ main'.pc # "txn" => peri'.txn = app.txn
    PROVE  ExchangeInv'
<1> SUFFICES ASSUME Working'
             PROVE  ExchangeInv'
  BY DEF ExchangeInv
<1>1. /\ Working /\ app.txn \in Transactions /\ app.txn.segments # <<>> /\ app.reports = 0
      /\ \E k \in Nat, j \in Nat : ExchangeAt(k, j)
  BY DEF ExchangeInv
<1>2. PICK k \in Nat, j \in Nat : ExchangeAt(k, j)
  BY <1>1
<1>3. PICK txn : txn = app.txn
  OBVIOUS
<1>4. ExchangeAt(k, j)'
  <2>1. CommandsAt(k, j)'
    BY <1>1, <1>2, CommandsKept DEF ExchangeAt
  <2>2. TxAt(Gone(Sending, txn, k, j))'
    BY <1>1, <1>2, <1>3, TxKept DEF ExchangeAt
  <2>3. RxAt(Gone(Receiving, txn, k, j))'
    BY <1>2, <1>3, RxKept DEF ExchangeAt
  <2>4. WireAt(Gone(Receiving, txn, k, j))' /\ wire' = At(app'.calls, txn, k, j)
    BY <1>2, <1>3 DEF ExchangeAt, WireAt
  <2> QED BY <1>3, <2>1, <2>2, <2>3, <2>4 DEF ExchangeAt
<1> QED BY <1>1, <1>4 DEF ExchangeInv

(* Nothing is done that was not.                                           *)
LEMMA DoneKept ==
    ASSUME DoneMeansExchanged, UNCHANGED wire,
           app'.txn = app.txn, app'.calls = app.calls, app'.reports = app.reports,
           peri'.state = "DONE" /\ main'.pc \in {"app", "wait"} =>
              peri.state = "DONE" /\ main.pc \in {"app", "wait"} /\ peri'.buffer = peri.buffer
    PROVE  DoneMeansExchanged'
  BY DEF DoneMeansExchanged, spi_get_state

\* What is left of the invariant when nothing that it speaks of changes.
LEMMA NothingMoves ==
    ASSUME SpiInv, UNCHANGED << cmdq, cur, tx, rx, wire, device, main, app, peri >>
    PROVE  ExchangeInv' /\ ChipInv' /\ CleanInv' /\ DoneMeansExchanged'
<1>1. ExchangeInv'
  BY ExchangeKept DEF SpiInv, Working, Busy, Issued, Written, ExchangeInv
<1>2. ChipInv' /\ CleanInv'
  BY DEF SpiInv, ChipInv, CleanInv, Busy
<1>3. DoneMeansExchanged'
  BY DoneKept DEF SpiInv
<1> QED BY <1>1, <1>2, <1>3

(* The host exchanges a word or ends a command.                            *)
LEMMA HostSteps ==
    ASSUME SpiInv, Host
    PROVE  ExchangeInv' /\ ChipInv' /\ CleanInv' /\ HandledInv' /\ DoneMeansExchanged'
<1>1. /\ UNCHANGED << peri, device, spi, main, isr, app >>
      /\ cur # <<>> /\ (Shifts \/ Closes)
  BY DEF Host, Shifts, Closes, Exchange, CanExchange, EndCommand
<1>2. /\ SdkInv /\ Busy /\ main.pc \notin Launching /\ isr.pc # "last"
      /\ main.pc \notin {"rst_wm", "rst_state"}
  BY <1>1 DEF SpiInv, SdkInv, QuietWhenFree, LaunchInv, HandlerInv, ResetInv
<1>3. ExchangeInv'
  <2> SUFFICES ASSUME Working PROVE ExchangeInv'
    BY <1>1 DEF ExchangeInv, Working, Busy
  <2>1. /\ app.txn \in Transactions /\ app.txn.segments # <<>> /\ app.reports = 0
        /\ main.pc # "txn" => peri.txn = app.txn
        /\ \E k \in Nat, j \in Nat : ExchangeAt(k, j)
    BY DEF SpiInv, ExchangeInv
  <2>2. PICK k \in Nat, j \in Nat : ExchangeAt(k, j)
    BY <2>1
  <2>3. CASE Shifts
    <3>1. ExchangeAt(k, j + 1)'
      BY <1>1, <1>2, <2>1, <2>2, <2>3, ExchangeStep
    <3>2. j + 1 \in Nat
      OBVIOUS
    <3> QED BY <1>1, <2>1, <3>1, <3>2 DEF ExchangeInv
  <2>4. CASE Closes
    <3>1. ExchangeAt(k + 1, 0)'
      BY <1>1, <1>2, <2>1, <2>2, <2>4, CloseStep
    <3>2. k + 1 \in Nat /\ 0 \in Nat
      OBVIOUS
    <3> QED BY <1>1, <2>1, <3>1, <3>2 DEF ExchangeInv
  <2> QED BY <1>1, <2>3, <2>4
<1>4. ChipInv' /\ CleanInv' /\ DoneMeansExchanged'
  <2>1. Busy' /\ peri'.state # "DONE"
    BY <1>1, <1>2 DEF Busy
  <2>2. ChipInv'
    BY <1>1, <1>2 DEF SpiInv, ChipInv
  <2>3. CleanInv'
    BY <1>1, <1>2, <2>1 DEF CleanInv, Launching
  <2> QED BY <2>1, <2>2, <2>3 DEF DoneMeansExchanged, spi_get_state
<1>5. HandledInv'
  <2>1. Len(cmdq) < CmdDepth => Len(cmdq') < CmdDepth
    <3>1. cmdq \in Seq(Commands) /\ CmdDepth \in Nat
      BY <1>2, HostAssumption DEF SdkInv, HostTypes
    <3>2. cmdq' = cmdq \/ (cmdq # <<>> /\ cmdq' = Tail(cmdq))
      BY <1>1 DEF Shifts, Closes, Exchange, EndCommand
    <3> QED BY <3>1, <3>2
  <2> QED BY <1>1, <1>2, <2>1 DEF SpiInv, HandledInv
<1> QED BY <1>3, <1>4, <1>5

(* The handler takes the interrupt and reads the events.                   *)
LEMMA QuietHandling ==
    ASSUME SpiInv, TakeInterrupt \/ Acknowledge \/ spi_get_events \/ HandleIdle \/ HandleOther
    PROVE  ExchangeInv' /\ ChipInv' /\ CleanInv' /\ HandledInv' /\ DoneMeansExchanged'
<1>1. UNCHANGED << cmdq, cur, tx, rx, wire, device, main, app, peri >>
  BY DEF TakeInterrupt, Acknowledge, spi_get_events, HandleIdle, HandleOther, hostVars, IsrOnly
<1>2. isr' = [isr EXCEPT !.pc = "ack"] \/ isr' = [isr EXCEPT !.pc = "status"]
      \/ isr' = [isr EXCEPT !.pc = "txwm"] \/ (isr' = [isr EXCEPT !.pc = "last"] /\ ~HasSegments)
      \/ isr' = [pc |-> spi_intr_handler_event, events |-> {f \in DOMAIN Status : Status[f]}]
  BY DEF TakeInterrupt, Acknowledge, spi_get_events, HandleIdle, HandleOther, IsrGoto, Ends
<1>3. /\ isr \in [pc : {"none", "ack", "status", "ready", "txwm", "rxwm", "last"},
                  events : SUBSET {"ready", "idle", "txwm", "rxwm"}]
      /\ peri.scnt \in Nat /\ (peri.txn \in Transactions \/ peri.txn = NoTxn)
  BY DEF SpiInv, SdkInv, SdkTypes
<1>4. seglen(peri.txn) \in Nat
  BY <1>3 DEF seglen, Transactions, NoTxn
<1>5. HandledInv'
  <2>1. isr'.pc = "ready" /\ "ready" \in isr'.events => Len(cmdq) < CmdDepth
    <3> SUFFICES ASSUME isr'.pc = "ready", "ready" \in isr'.events PROVE Len(cmdq) < CmdDepth
      OBVIOUS
    <3>1. isr' = [pc |-> spi_intr_handler_event, events |-> {f \in DOMAIN Status : Status[f]}]
      BY <1>2, <1>3
    <3>2. Status["ready"]
      BY <3>1
    <3> QED BY <3>2 DEF Status
  <2>2. isr'.pc = "last" => peri.scnt >= seglen(peri.txn)
    BY <1>2, <1>3, <1>4 DEF HasSegments, spi_intr_handler_event
  <2> QED BY <1>1, <2>1, <2>2 DEF HandledInv
<1> QED BY <1>1, <1>5, NothingMoves

-----------------------------------------------------------------------------
(* The work of the handler.                                                *)

(* Another segment is a command that carries it.                           *)
LEMMA NextCarries ==
    ASSUME SdkInv, peri.txn \in Transactions, peri.scnt < seglen(peri.txn),
           device.csid = Slaves[peri.txn.spi].csid
    PROVE  \E cmd \in Commands : NextCommand = <<cmd>> /\ Carries(peri.txn, cmd, peri.scnt + 1)
<1> DEFINE seg == peri.txn.segments[peri.scnt + 1]
           last == peri.scnt + 1 = seglen(peri.txn)
           cmd == Command(seg, last)
<1>1. seg \in SegmentModes
  BY DEF seglen, Transactions, SdkInv, SdkTypes
<1>2. device \in [csid : 0..1, clkdiv : [0..1 -> Nat]]
  BY DEF SdkInv, SdkTypes
<1>3. NextCommand = <<cmd>>
  BY DEF NextCommand
<1>4. last \in BOOLEAN
  OBVIOUS
<1>5. cmd \in Commands
  <2> HIDE DEF seg, last
  <2>1. cmd = [len |-> seg.len, direction |-> seg.direction, csaat |-> ~last,
               csid |-> device.csid, clkdiv |-> device.clkdiv[device.csid]]
    BY DEF Command
  <2>2. device.csid \in 0..1 /\ device.clkdiv[device.csid] \in Nat
    BY <1>2
  <2> QED BY <1>1, <1>4, <2>1, <2>2 DEF Commands, SegmentModes
<1>6. Carries(peri.txn, cmd, peri.scnt + 1)
  BY DEF Carries, Command
<1> QED BY <1>3, <1>5, <1>6

(* What has gone is a number.                                              *)
LEMMA GoneType ==
    ASSUME HostTypes, app.txn \in Transactions, NEW k \in Nat, NEW j \in Nat, CommandsAt(k, j),
           Issued \in Nat, NEW directions \in {Sending, Receiving}
    PROVE  Gone(directions, app.txn, k, j) \in Nat
<1>1. CASE cur # <<>>
  <2>1. k \in 0..seglen(app.txn) - 1
    BY <1>1, Current
  <2> QED BY <2>1, GoneSteps
<1>2. CASE cur = <<>>
  <2>1. seglen(app.txn) \in Nat /\ cmdq \in Seq(Commands) /\ Len(cur) = 0
    BY <1>2 DEF seglen, Transactions, HostTypes
  <2>2. j = 0 /\ k \in 0..seglen(app.txn)
    BY <1>2, <2>1 DEF CommandsAt
  <2> QED BY <2>2, GoneSteps
<1> QED BY <1>1, <1>2

(* The handler issues the next segment.                                    *)
LEMMA ReadyHandling ==
    ASSUME SpiInv, HandleReady
    PROVE  ExchangeInv' /\ ChipInv' /\ CleanInv' /\ HandledInv' /\ DoneMeansExchanged'
<1>1. /\ UNCHANGED << tx, rx, wire, device, main, app >>
      /\ isr.pc = "ready" /\ "ready" \in isr.events /\ HasSegments
      /\ isr' = [isr EXCEPT !.pc = "txwm"] /\ peri' = [peri EXCEPT !.scnt = @ + 1]
      /\ spi_set_command(NextCommand)
  BY DEF HandleReady, IsrGoto, IsrOnly
<1>2. SdkInv /\ Busy /\ main.pc \notin Launching /\ Status.ready /\ (cur = <<>> => cmdq = <<>>)
  BY <1>1 DEF SpiInv, SdkInv, HandlerInv, LaunchInv, HandledInv, Status, QuietWhenFree
<1>3. /\ peri'.state = peri.state /\ peri'.txn = peri.txn /\ peri'.scnt = peri.scnt + 1
      /\ peri'.txcnt = peri.txcnt /\ peri'.rxcnt = peri.rxcnt /\ peri'.buffer = peri.buffer
      /\ isr'.pc = "txwm" /\ peri.scnt \in Nat /\ HostTypes
  BY <1>1, <1>2 DEF SdkInv, SdkTypes
<1>4. ExchangeInv'
  <2> SUFFICES ASSUME Working PROVE ExchangeInv'
    BY <1>1, <1>3 DEF ExchangeInv, Working, Busy
  <2>1. /\ app.txn \in Transactions /\ app.txn.segments # <<>> /\ app.reports = 0
        /\ peri.txn = app.txn
        /\ \E k \in Nat, j \in Nat : ExchangeAt(k, j)
    BY <1>2 DEF SpiInv, ExchangeInv, Launching
  <2>2. PICK k \in Nat, j \in Nat : ExchangeAt(k, j)
    BY <2>1
  <2>3. device.csid = Slaves[app.txn.spi].csid
    BY <1>2 DEF SpiInv, ChipInv
  <2>4. PICK cmd \in Commands : NextCommand = <<cmd>> /\ Carries(app.txn, cmd, peri.scnt + 1)
    BY <1>1, <1>2, <2>1, <2>3, NextCarries DEF HasSegments
  <2>5. WriteCommand(cmd)
    BY <1>1, <1>2, <2>4 DEF spi_set_command
  <2>6. Issued = peri.scnt /\ Issued' = Issued + 1 /\ Written' = Written
    BY <1>1, <1>2, <1>3 DEF Issued, Written, Launching
  <2>7. CommandsAt(k, j)'
    BY <1>1, <1>2, <1>3, <2>1, <2>2, <2>4, <2>5, <2>6, CommandIssued DEF ExchangeAt, HasSegments
  <2>8. PICK txn : txn = app.txn
    OBVIOUS
  <2>9. TxAt(Gone(Sending, txn, k, j))' /\ RxAt(Gone(Receiving, txn, k, j))'
    BY <1>1, <1>3, <2>2, <2>6, <2>8, TxKept, RxKept DEF ExchangeAt
  <2>10. ExchangeAt(k, j)'
    BY <1>1, <2>2, <2>7, <2>8, <2>9 DEF ExchangeAt, WireAt
  <2> QED BY <1>1, <1>3, <2>1, <2>10 DEF ExchangeInv
<1>5. ChipInv' /\ CleanInv' /\ HandledInv' /\ DoneMeansExchanged'
  <2>1. Busy' /\ peri'.state # "DONE"
    BY <1>2, <1>3 DEF Busy
  <2>2. ChipInv'
    BY <1>1, <1>2 DEF SpiInv, ChipInv
  <2>3. main.pc \notin {"rst_wm", "rst_state"}
    <3>1. ASSUME peri.txn = NoTxn PROVE FALSE
      BY <1>1, <1>3, <3>1 DEF HasSegments, seglen, NoTxn
    <3> QED BY <1>2, <3>1 DEF SdkInv, ResetInv, Resetting
  <2>4. CleanInv'
    BY <1>1, <1>2, <2>1, <2>3 DEF CleanInv, Launching
  <2>5. HandledInv'
    BY <1>3 DEF HandledInv
  <2> QED BY <2>1, <2>2, <2>4, <2>5 DEF DoneMeansExchanged, spi_get_state
<1> QED BY <1>4, <1>5

(* Without a transaction there is nothing to move.                         *)
LEMMA NothingToMove == txlen(NoTxn) = 0 /\ rxlen(NoTxn) = 0
<1>1. <<>> \in Seq(SegmentModes) /\ NoTxn.segments = <<>> /\ Len(<<>>) = 0
  BY DEF NoTxn
<1> QED BY <1>1, MovedSteps DEF txlen, rxlen, seglen

(* The words of a transaction can be counted.                              *)
LEMMA WordsType ==
    ASSUME NEW txn \in Transactions
    PROVE  txlen(txn) \in Nat /\ rxlen(txn) \in Nat
<1>1. txn.segments \in Seq(SegmentModes) /\ seglen(txn) \in Nat /\ seglen(txn) = Len(txn.segments)
  BY DEF Transactions, seglen
<1>2. seglen(txn) \in 0..Len(txn.segments)
  BY <1>1
<1> QED BY <1>1, <1>2, MovedSteps DEF txlen, rxlen

(* A word goes to the FIFO; the launch and the handler do so.              *)
LEMMA FillKeeps ==
    ASSUME SdkInv, ExchangeInv, FillsTx, main.pc \notin {"txn", "count"},
           WriteTxData(TxWord(app.calls, peri.txcnt + 1)), UNCHANGED << cmdq, cur, rx, wire, app >>,
           Written' = Written + 1, Issued' = Issued, Working' => Working,
           peri'.txn = peri.txn, peri'.rxcnt = peri.rxcnt, peri'.buffer = peri.buffer
    PROVE  ExchangeInv'
<1> SUFFICES ASSUME Working, Working' PROVE ExchangeInv'
  BY DEF ExchangeInv
<1>1. /\ app.txn \in Transactions /\ app.txn.segments # <<>> /\ app.reports = 0
      /\ peri.txn = app.txn
      /\ \E k \in Nat, j \in Nat : ExchangeAt(k, j)
  BY DEF ExchangeInv
<1>2. PICK k \in Nat, j \in Nat : ExchangeAt(k, j)
  BY <1>1
<1>3. /\ HostTypes /\ tx \in Seq(OutWords) /\ app.calls \in Nat
      /\ peri.scnt \in Nat /\ peri.txcnt \in Nat
  BY DEF SdkInv, SdkTypes, HostTypes
<1>4. Issued \in Nat /\ Written = peri.txcnt /\ Written \in Nat
  BY <1>3 DEF Issued, Written
<1>5. PICK txn \in Transactions : txn = app.txn
  BY <1>1
<1>6. PICK sent \in Nat : sent = Gone(Sending, txn, k, j)
  BY <1>1, <1>2, <1>3, <1>4, <1>5, GoneType DEF ExchangeAt
<1>7. txlen(app.txn) \in Nat /\ Written < txlen(app.txn)
  BY <1>1, <1>4, WordsType DEF FillsTx
<1>8. tx' = Append(tx, TxWord(app.calls, Written + 1))
  BY <1>4 DEF FillsTx, WriteTxData, spi_get_tx_queue_depth
<1>9. TxAt(sent)'
  BY <1>2, <1>3, <1>4, <1>5, <1>6, <1>7, <1>8, WordWritten DEF ExchangeAt
<1>10. CommandsAt(k, j)' /\ RxAt(Gone(Receiving, txn, k, j))'
  BY <1>2, <1>5, CommandsKept, RxKept DEF ExchangeAt
<1>11. ExchangeAt(k, j)'
  BY <1>2, <1>5, <1>6, <1>9, <1>10 DEF ExchangeAt, WireAt
<1> QED BY <1>1, <1>11 DEF ExchangeInv

(* A word is read to the buffer.                                           *)
LEMMA ReadKeeps ==
    ASSUME SdkInv, ExchangeInv, EmptiesRx, main.pc \notin Launching, spi_read_word,
           UNCHANGED << cmdq, cur, tx, wire, app, main >>
    PROVE  ExchangeInv'
<1>1. /\ HostTypes /\ peri.scnt \in Nat /\ peri.rxcnt \in Nat
      /\ peri'.state = peri.state /\ peri'.txn = peri.txn /\ peri'.scnt = peri.scnt
      /\ peri'.txcnt = peri.txcnt /\ peri'.rxcnt = peri.rxcnt + 1
      /\ peri'.buffer = Append(peri.buffer, Head(rx))
  BY DEF SdkInv, SdkTypes, spi_read_word
<1> SUFFICES ASSUME Working PROVE ExchangeInv'
  BY <1>1 DEF ExchangeInv, Working, Busy
<1>2. /\ app.txn \in Transactions /\ app.txn.segments # <<>> /\ app.reports = 0
      /\ peri.txn = app.txn
      /\ \E k \in Nat, j \in Nat : ExchangeAt(k, j)
  BY DEF ExchangeInv, Launching
<1>3. PICK k \in Nat, j \in Nat : ExchangeAt(k, j)
  BY <1>2
<1>4. Issued' = Issued /\ Issued \in Nat /\ Written' = Written
  BY <1>1 DEF Issued, Written, Launching
<1>5. PICK txn \in Transactions : txn = app.txn
  BY <1>2
<1>6. PICK got \in Nat : got = Gone(Receiving, txn, k, j)
  BY <1>1, <1>2, <1>3, <1>4, <1>5, GoneType DEF ExchangeAt
<1>7. rx # <<>> /\ rx' = Tail(rx)
  <2>1. rx # <<>>
    BY DEF EmptiesRx, spi_get_rx_queue_depth
  <2> QED BY <2>1 DEF spi_read_word, ReadRxData
<1>8. RxAt(got)'
  BY <1>1, <1>3, <1>5, <1>6, <1>7, WordRead DEF ExchangeAt
<1>9. CommandsAt(k, j)' /\ TxAt(Gone(Sending, txn, k, j))'
  BY <1>3, <1>4, <1>5, CommandsKept, TxKept DEF ExchangeAt
<1>10. ExchangeAt(k, j)'
  BY <1>3, <1>5, <1>6, <1>8, <1>9 DEF ExchangeAt, WireAt
<1> QED BY <1>1, <1>2, <1>10 DEF ExchangeInv

-----------------------------------------------------------------------------
(* Words, and the end.                                                     *)

(* What the handler leaves alone.                                          *)
LEMMA BusyKeeps ==
    ASSUME SpiInv, UNCHANGED << main, device, app, cmdq >>, Busy, main.pc \notin Launching,
           peri'.state = peri.state,
           main.pc \in {"rst_wm", "rst_state"} => UNCHANGED << tx, rx >>
    PROVE  ChipInv' /\ CleanInv' /\ DoneMeansExchanged'
<1>1. Busy' /\ peri'.state # "DONE"
  BY DEF Busy
<1>2. ChipInv'
  BY DEF SpiInv, ChipInv
<1>3. CleanInv'
  BY <1>1 DEF SpiInv, CleanInv, Launching
<1> QED BY <1>1, <1>2, <1>3 DEF DoneMeansExchanged, spi_get_state

(* The handler fills the TX FIFO.                                          *)
LEMMA TxwmHandling ==
    ASSUME SpiInv, HandleTxwm
    PROVE  ExchangeInv' /\ ChipInv' /\ CleanInv' /\ HandledInv' /\ DoneMeansExchanged'
<1>1. /\ UNCHANGED << cmdq, cur, rx, wire, device, main, app >> /\ isr.pc = "txwm"
      /\ SdkInv /\ Busy /\ main.pc \notin Launching
  BY DEF HandleTxwm, IsrOnly, SpiInv, SdkInv, HandlerInv, LaunchInv
<1>2. /\ peri.scnt \in Nat /\ peri.txcnt \in Nat
      /\ DOMAIN peri = {"state", "txn", "scnt", "txcnt", "rxcnt", "txwm", "rxwm", "buffer"}
      /\ isr \in [pc : {"none", "ack", "status", "ready", "txwm", "rxwm", "last"},
                  events : SUBSET {"ready", "idle", "txwm", "rxwm"}]
  BY <1>1 DEF SdkInv, SdkTypes
<1>3. CASE "txwm" \in isr.events /\ FillsTx
  <2>1. /\ WriteTxData(TxWord(app.calls, peri.txcnt + 1)) /\ UNCHANGED isr
        /\ peri' = [peri EXCEPT !.txcnt = @ + 1]
    BY <1>3 DEF HandleTxwm
  <2>2. /\ peri'.state = peri.state /\ peri'.txn = peri.txn /\ peri'.scnt = peri.scnt
        /\ peri'.txcnt = peri.txcnt + 1 /\ peri'.rxcnt = peri.rxcnt /\ peri'.buffer = peri.buffer
    BY <1>2, <2>1
  <2>3. Written' = Written + 1 /\ Issued' = Issued /\ (Working' => Working)
    BY <1>1, <1>2, <2>2 DEF Written, Issued, Working, Busy, Launching
  <2>4. ExchangeInv'
    BY <1>1, <1>3, <2>1, <2>2, <2>3, FillKeeps DEF SpiInv, Launching
  <2>5. main.pc \notin {"rst_wm", "rst_state"}
    <3>1. ASSUME peri.txn = NoTxn PROVE FALSE
      BY <1>2, <1>3, <3>1, NothingToMove DEF FillsTx
    <3> QED BY <1>1, <3>1 DEF SdkInv, ResetInv, Resetting
  <2>6. HandledInv'
    BY <1>1, <2>1 DEF HandledInv
  <2> QED BY <1>1, <2>2, <2>4, <2>5, <2>6, BusyKeeps
<1>4. CASE ~("txwm" \in isr.events /\ FillsTx)
  <2>1. UNCHANGED << tx, peri >> /\ isr' = [isr EXCEPT !.pc = "rxwm"]
    BY <1>4 DEF HandleTxwm, IsrGoto
  <2>2. HandledInv'
    BY <1>2, <2>1 DEF HandledInv
  <2> QED BY <1>1, <2>1, <2>2, NothingMoves
<1> QED BY <1>3, <1>4

(* What a read of a word does, whoever asks for it.                        *)
LEMMA ReadHandling ==
    ASSUME SpiInv, EmptiesRx, isr.pc \in {"rxwm", "last"}, spi_read_word, UNCHANGED isr,
           UNCHANGED << cmdq, cur, tx, wire, device, main, app >>
    PROVE  ExchangeInv' /\ ChipInv' /\ CleanInv' /\ HandledInv' /\ DoneMeansExchanged'
<1>1. SdkInv /\ Busy /\ main.pc \notin Launching
  BY DEF SpiInv, SdkInv, HandlerInv, LaunchInv
<1>2. /\ peri.rxcnt \in Nat /\ peri'.state = peri.state /\ peri'.txn = peri.txn
      /\ peri'.scnt = peri.scnt
  BY <1>1 DEF SdkInv, SdkTypes, spi_read_word
<1>3. ExchangeInv'
  BY <1>1, ReadKeeps DEF SpiInv
<1>4. main.pc \notin {"rst_wm", "rst_state"}
  <2>1. ASSUME peri.txn = NoTxn PROVE FALSE
    BY <1>2, <2>1, NothingToMove DEF EmptiesRx
  <2> QED BY <1>1, <2>1 DEF SdkInv, ResetInv, Resetting
<1>5. HandledInv'
  <2>1. seglen(peri'.txn) = seglen(peri.txn)
    BY <1>2
  <2> QED BY <1>2, <2>1 DEF SpiInv, HandledInv
<1> QED BY <1>1, <1>2, <1>3, <1>4, <1>5, BusyKeeps

(* The handler empties the RX FIFO.                                        *)
LEMMA RxwmHandling ==
    ASSUME SpiInv, HandleRxwm
    PROVE  ExchangeInv' /\ ChipInv' /\ CleanInv' /\ HandledInv' /\ DoneMeansExchanged'
<1>1. UNCHANGED << cmdq, cur, tx, wire, device, main, app >> /\ isr.pc = "rxwm"
  BY DEF HandleRxwm, IsrOnly
<1>2. CASE "rxwm" \in isr.events /\ EmptiesRx
  BY <1>1, <1>2, ReadHandling DEF HandleRxwm
<1>3. CASE ~("rxwm" \in isr.events /\ EmptiesRx)
  <2>1. UNCHANGED << rx, peri >> /\ isr' = [isr EXCEPT !.pc = "none"]
    BY <1>3 DEF HandleRxwm, IsrGoto
  <2>2. isr'.pc = "none"
    BY <2>1 DEF SpiInv, SdkInv, SdkTypes
  <2>3. HandledInv'
    BY <2>2 DEF HandledInv
  <2> QED BY <1>1, <2>1, <2>3, NothingMoves
<1> QED BY <1>2, <1>3

(* With the last segment done and no word left to read, the bus has seen   *)
(* the transaction and the buffer holds its words.                         *)
LEMMA AllExchanged ==
    ASSUME SpiInv, isr.pc = "last", Working, ~EmptiesRx
    PROVE  /\ wire = Expected(app.calls, app.txn)
           /\ peri.buffer = [i \in 1..rxlen(app.txn) |-> RxWord(app.calls, i)]
           /\ tx = <<>> /\ rx = <<>>
           /\ peri.txn = app.txn /\ app.txn \in Transactions /\ app.txn.segments # <<>>
           /\ app.reports = 0
<1>1. /\ SdkInv /\ cur = <<>> /\ cmdq = <<>> /\ main.pc \notin Launching /\ peri.scnt \in Nat
      /\ peri.rxcnt \in Nat /\ app.calls \in Nat /\ tx \in Seq(OutWords)
  BY DEF SpiInv, SdkInv, HandlerInv, LaunchInv, QuietWhenFree, SdkTypes, HostTypes
<1>2. /\ app.txn \in Transactions /\ app.txn.segments # <<>> /\ app.reports = 0
      /\ peri.txn = app.txn
      /\ \E k \in Nat, j \in Nat : ExchangeAt(k, j)
  BY <1>1 DEF SpiInv, ExchangeInv, Launching
<1>3. PICK k \in Nat, j \in Nat : ExchangeAt(k, j)
  BY <1>2
<1>4. PICK txn \in Transactions : txn = app.txn
  BY <1>2
<1>5. PICK n \in Nat : n = app.calls
  BY <1>1
<1>6. peri.scnt >= seglen(txn) /\ Issued = peri.scnt /\ seglen(txn) \in Nat
  <2>1. seglen(txn) \in Nat
    BY DEF seglen, Transactions
  <2> QED BY <1>1, <1>2, <1>4, <2>1 DEF SpiInv, HandledInv, Working, Issued, Launching
<1>7. j = 0 /\ k = seglen(txn) /\ k \in 0..seglen(txn)
  <2>1. Len(cur) = 0 /\ Len(cmdq) = 0
    BY <1>1
  <2>2. j = 0 /\ k + Len(cur) + Len(cmdq) = Issued /\ Issued <= seglen(txn)
    BY <1>1, <1>3, <1>4 DEF ExchangeAt, CommandsAt
  <2> QED BY <1>1, <1>6, <2>1, <2>2
<1>8. /\ Gone(Sending, txn, k, j) = txlen(txn) /\ Gone(Receiving, txn, k, j) = rxlen(txn)
      /\ txlen(txn) \in Nat /\ rxlen(txn) \in Nat
  BY <1>7, GoneSteps, WordsType DEF txlen, rxlen
<1>9. wire = Expected(n, txn)
  BY <1>3, <1>4, <1>5, <1>7, AtSteps DEF ExchangeAt, Expected
<1>10. tx = <<>>
  <2>1. txlen(txn) + Len(tx) = Written /\ Written <= txlen(txn)
    BY <1>3, <1>4, <1>8 DEF ExchangeAt, TxAt
  <2>2. Len(tx) \in Nat
    BY <1>1
  <2>3. Len(tx) = 0
    BY <1>8, <2>1, <2>2
  <2> QED BY <1>1, <2>3
<1>11. RxAt(rxlen(txn))
  BY <1>3, <1>4, <1>8 DEF ExchangeAt
<1>12. rx = <<>> /\ peri.rxcnt = rxlen(txn)
  <2>1. rx \in Seq(InWords) /\ rxlen(txn) = peri.rxcnt + Len(rx)
    BY <1>11 DEF RxAt
  <2>2. Len(rx) \in Nat
    BY <2>1
  <2>3. ~(peri.rxcnt < rxlen(txn) /\ Len(rx) > 0)
    BY <1>2, <1>4 DEF EmptiesRx, spi_get_rx_queue_depth
  <2>4. Len(rx) = 0 /\ peri.rxcnt = rxlen(txn)
    BY <1>1, <1>8, <2>1, <2>2, <2>3
  <2> QED BY <2>1, <2>4
<1>13. peri.buffer = [i \in 1..rxlen(txn) |-> RxWord(n, i)]
  <2>1. /\ peri.buffer \in Seq(InWords) /\ Len(peri.buffer) = rxlen(txn)
        /\ \A i \in 1..rxlen(txn) : peri.buffer[i] = RxWord(n, i)
    BY <1>5, <1>11, <1>12 DEF RxAt
  <2>2. DOMAIN peri.buffer = 1..rxlen(txn) /\ peri.buffer = [i \in DOMAIN peri.buffer |-> peri.buffer[i]]
    BY <2>1
  <2> QED BY <2>1, <2>2
<1> QED BY <1>2, <1>4, <1>5, <1>9, <1>10, <1>12, <1>13

(* The handler reports the end.                                            *)
LEMMA LastHandling ==
    ASSUME SpiInv, HandleLast
    PROVE  ExchangeInv' /\ ChipInv' /\ CleanInv' /\ HandledInv' /\ DoneMeansExchanged'
<1>1. UNCHANGED << cmdq, cur, tx, wire, device, main >> /\ isr.pc = "last"
  BY DEF HandleLast, IsrOnly
<1>2. CASE EmptiesRx
  BY <1>1, <1>2, ReadHandling DEF HandleLast
<1>3. CASE ~EmptiesRx
  <2>1. /\ peri' = [spi_reset_transaction(peri) EXCEPT !.state = "DONE"] /\ UNCHANGED rx
        /\ app' = [app EXCEPT !.reports = @ + IF peri.txn # NoTxn /\ ~peri.txn.blocking THEN 1 ELSE 0]
        /\ isr' = [isr EXCEPT !.pc = "none"]
    BY <1>3 DEF HandleLast, IsrGoto
  <2>2. SdkInv /\ Busy /\ main.pc \notin Launching
    BY <1>1 DEF SpiInv, SdkInv, HandlerInv, LaunchInv
  <2>3. /\ peri'.state = "DONE" /\ peri'.scnt = 0 /\ peri'.txcnt = 0 /\ peri'.rxcnt = 0
        /\ peri'.buffer = peri.buffer /\ isr'.pc = "none" /\ ~Busy' /\ ~Working'
        /\ app'.txn = app.txn /\ app'.calls = app.calls
    BY <2>1, <2>2 DEF SdkInv, SdkTypes, spi_reset_transaction, ResetCounters, Busy, Working
  <2>4. ExchangeInv' /\ ChipInv' /\ HandledInv'
    BY <1>1, <2>2, <2>3 DEF ExchangeInv, ChipInv, HandledInv
  <2>5. main.pc \in {"app", "wait"} => Working
    BY <2>2 DEF Working, Resetting
  <2>6. CleanInv'
    <3>1. main.pc \notin {"rst_txn", "rst_sw"} => tx = <<>> /\ rx = <<>>
      <4>1. main.pc \in {"app", "wait"} => tx = <<>> /\ rx = <<>>
        BY <1>1, <1>3, <2>5, AllExchanged
      <4>2. main.pc \in {"app", "wait"} \cup Launching \cup Resetting
        BY <2>2 DEF SdkInv, SdkTypes
      <4> QED BY <2>2, <4>1, <4>2 DEF SpiInv, CleanInv, Resetting
    <3>2. main.pc \in {"rst_wm", "rst_state"} => tx = <<>> /\ rx = <<>> /\ cmdq = <<>>
      BY DEF SpiInv, CleanInv
    <3> QED BY <1>1, <2>1, <2>2, <2>3, <3>1, <3>2 DEF CleanInv, Launching
  <2>7. DoneMeansExchanged'
    <3> SUFFICES ASSUME main.pc \in {"app", "wait"} PROVE DoneMeansExchanged'
      BY <1>1 DEF DoneMeansExchanged
    <3>1. /\ wire = Expected(app.calls, app.txn)
          /\ peri.buffer = [i \in 1..rxlen(app.txn) |-> RxWord(app.calls, i)]
          /\ peri.txn = app.txn /\ app.txn \in Transactions /\ app.txn.segments # <<>>
          /\ app.reports = 0
      BY <1>1, <1>3, <2>5, AllExchanged
    <3>2. app.txn # NoTxn /\ app.txn.blocking \in BOOLEAN
      BY <3>1 DEF NoTxn, Transactions
    <3>3. app'.reports = IF app.txn.blocking THEN 0 ELSE 1
      BY <2>1, <2>2, <3>1, <3>2 DEF SdkInv, SdkTypes
    <3> QED BY <1>1, <2>3, <3>1, <3>3 DEF DoneMeansExchanged
  <2> QED BY <2>4, <2>6, <2>7
<1> QED BY <1>2, <1>3

-----------------------------------------------------------------------------
(* The calls and the launch.                                               *)

(* The handles and the watermarks are not those of the exchange.           *)
LEMMA SetupKeeps ==
    ASSUME SpiInv, Setup
    PROVE  ExchangeInv' /\ ChipInv' /\ CleanInv' /\ DoneMeansExchanged'
<1>1. UNCHANGED << device, main, app, cmdq, cur, tx, rx, wire >> /\ main.pc = "app"
  BY DEF Setup, spi_init, spi_deinit, spi_set_slave_freq, SetWatermark, Initialised, HostKept,
         AppOnly
<1>2. \/ peri' = peri
      \/ ~Busy /\ peri' = [peri EXCEPT !.state = "INIT"]
      \/ ~Busy /\ \E f \in {"txwm", "rxwm"}, wm \in Watermarks : peri' = [peri EXCEPT ![f] = wm]
  BY DEF Setup, spi_init, spi_deinit, spi_set_slave_freq, SetWatermark
<1>3. /\ peri'.txn = peri.txn /\ peri'.scnt = peri.scnt /\ peri'.txcnt = peri.txcnt
      /\ peri'.rxcnt = peri.rxcnt /\ peri'.buffer = peri.buffer
      /\ Busy' <=> Busy
      /\ peri'.state = "DONE" => peri.state = "DONE"
  <2>1. DOMAIN peri = {"state", "txn", "scnt", "txcnt", "rxcnt", "txwm", "rxwm", "buffer"}
    BY DEF SpiInv, SdkInv, SdkTypes
  <2>2. CASE peri' = peri
    BY <2>2 DEF Busy
  <2>3. CASE ~Busy /\ peri' = [peri EXCEPT !.state = "INIT"]
    BY <2>1, <2>3 DEF Busy
  <2>4. CASE ~Busy /\ \E f \in {"txwm", "rxwm"}, wm \in Watermarks : peri' = [peri EXCEPT ![f] = wm]
    BY <2>1, <2>4 DEF Busy
  <2> QED BY <1>2, <2>2, <2>3, <2>4
<1>4. ExchangeInv'
  BY <1>1, <1>3, ExchangeKept DEF SpiInv, Working, Issued, Written, ExchangeInv
<1>5. ChipInv' /\ CleanInv'
  BY <1>1, <1>3 DEF SpiInv, ChipInv, CleanInv
<1>6. DoneMeansExchanged'
  BY <1>1, <1>3, DoneKept DEF SpiInv
<1> QED BY <1>4, <1>5, <1>6

(* A call is refused, or is the transaction that the next launch starts.   *)
LEMMA CallKeeps ==
    ASSUME SpiInv, NEW req \in Requests, Call(req)
    PROVE  ExchangeInv' /\ ChipInv' /\ CleanInv' /\ DoneMeansExchanged'
<1>1. /\ UNCHANGED << peri, cmdq, cur, tx, rx, wire >> /\ main.pc = "app" /\ SdkTypes
      /\ Busy' = Busy
  BY DEF Call, HostKept, AppOnly, SpiInv, SdkInv, Busy
<1>2. CASE UNCHANGED << device, main >> /\ \E code : app' = [app EXCEPT !.code = code]
  <2>1. /\ app'.txn = app.txn /\ app'.calls = app.calls /\ app'.reports = app.reports
    BY <1>1, <1>2 DEF SdkTypes
  <2>2. ExchangeInv'
    BY <1>1, <1>2, <2>1, ExchangeKept DEF SpiInv, Working, Busy, Issued, Written, ExchangeInv
  <2>3. ChipInv' /\ CleanInv'
    BY <1>1, <1>2, <2>1 DEF SpiInv, ChipInv, CleanInv
  <2> QED BY <1>1, <1>2, <2>1, <2>2, <2>3, DoneKept DEF SpiInv
<1>3. CASE ~Busy /\ UNCHANGED main /\ \E code : app' = [app EXCEPT !.code = code]
  <2>1. /\ app'.txn = app.txn /\ app'.calls = app.calls /\ app'.reports = app.reports
    BY <1>1, <1>3 DEF SdkTypes
  <2>2. ExchangeInv' /\ ChipInv'
    BY <1>1, <1>3 DEF ExchangeInv, ChipInv, Working, Launching
  <2>3. CleanInv'
    BY <1>1, <1>3, <2>1 DEF SpiInv, CleanInv
  <2> QED BY <1>1, <1>3, <2>1, <2>2, <2>3, DoneKept DEF SpiInv
<1>4. CASE /\ ~Busy /\ Asked(req).code = "OK" /\ device' = spi_set_slave(req.spi) /\ Goto("launch")
           /\ app' = [app EXCEPT !.txn = Asked(req).txn, !.code = "OK", !.calls = @ + 1,
                                 !.reports = 0]
  <2>1. app'.txn.spi = req.spi /\ app'.reports = 0
    <3>1. app'.txn = Asked(req).txn /\ app'.reports = 0
      BY <1>1, <1>4 DEF SdkTypes
    <3> QED BY <1>4, <3>1, AskedType
  <2>2. main'.pc = "launch"
    BY <1>1, <1>4 DEF Goto, SdkTypes
  <2>3. device'.csid = Slaves[app'.txn.spi].csid
    BY <1>4, <2>1 DEF spi_set_slave
  <2>4. ExchangeInv' /\ ChipInv'
    BY <1>1, <1>4, <2>3 DEF ExchangeInv, ChipInv, Working
  <2>5. CleanInv'
    BY <1>1, <1>4, <2>1, <2>2 DEF SpiInv, CleanInv
  <2> QED BY <2>2, <2>4, <2>5 DEF DoneMeansExchanged
<1>5. \A code \in spi_prepare_transfer(req.spi) : code = "OK" => ~Busy
  BY DEF spi_prepare_transfer
<1> QED BY <1>2, <1>3, <1>4, <1>5 DEF Call

\* Every step of a launch but the first finds a busy peripheral and an idle host.
LEMMA AtLaunch ==
    ASSUME SpiInv, main.pc \in Launching
    PROVE  /\ cur = <<>> /\ cmdq = <<>> /\ isr.pc = "none"
           /\ app.txn \in Transactions /\ app.txn.segments # <<>>
           /\ main.pc # "launch" => Busy /\ Working
           /\ main.pc # "command" => peri.scnt = 0
           /\ main.pc \notin {"launch", "txn"} => peri.txn = app.txn
           /\ main.pc = "command" => peri.scnt = 1
           /\ SdkInv /\ SdkTypes /\ HostTypes
           /\ device.csid = Slaves[app.txn.spi].csid
  BY DEF SpiInv, SdkInv, LaunchInv, QuietWhenFree, ChipInv, CleanInv, Working, Launching, Resetting

\* What a step of a launch must show.
LEMMA StillLaunching ==
    ASSUME SpiInv, main.pc \in Launching, UNCHANGED device, app'.txn = app.txn,
           Busy', main'.pc \in (Launching \ {"launch", "command"}) \cup {"app", "wait"}
    PROVE  ChipInv' /\ CleanInv' /\ DoneMeansExchanged'
<1>1. ChipInv'
  BY DEF SpiInv, ChipInv
<1>2. CleanInv'
  BY DEF CleanInv, Launching
<1>3. peri'.state # "DONE"
  BY DEF Busy
<1> QED BY <1>1, <1>2, <1>3 DEF DoneMeansExchanged, spi_get_state

(* A launch starts with nothing gone.                                      *)
LEMMA LaunchStateKeeps ==
    ASSUME SpiInv, LaunchState
    PROVE  ExchangeInv' /\ ChipInv' /\ CleanInv' /\ DoneMeansExchanged'
<1>1. /\ main.pc = "launch" /\ main' = [main EXCEPT !.pc = "txn"]
      /\ peri' = [peri EXCEPT !.state = "BUSY", !.buffer = <<>>]
      /\ wire' = <<>> /\ UNCHANGED << device, app, rx, tx, cur, cmdq >>
  BY DEF LaunchState, HostKept, Goto
<1>2. /\ cur = <<>> /\ cmdq = <<>> /\ app.txn \in Transactions /\ app.txn.segments # <<>>
      /\ SdkTypes /\ main.pc \in Launching /\ peri.scnt = 0
  BY <1>1, AtLaunch DEF Launching
<1>3. ~Busy /\ peri.txcnt = 0 /\ peri.rxcnt = 0 /\ tx = <<>> /\ rx = <<>> /\ app.reports = 0
  BY <1>1 DEF SpiInv, CleanInv
<1>4. /\ peri'.state = "BUSY" /\ peri'.scnt = 0 /\ peri'.txcnt = 0 /\ peri'.rxcnt = 0
      /\ peri'.buffer = <<>> /\ main'.pc = "txn" /\ Busy'
  BY <1>1, <1>2, <1>3 DEF SdkTypes, Busy
<1>5. PICK txn \in Transactions : txn = app.txn
  BY <1>2
<1>6. PICK n \in Nat : n = app.calls
  BY <1>2 DEF SdkTypes
<1>7. seglen(txn) \in Nat /\ 0 \in 0..seglen(txn) /\ 0 \in 0..Len(txn.segments)
      /\ txn.segments \in Seq(SegmentModes)
  BY DEF seglen, Transactions
<1>8. Gone(Sending, txn, 0, 0) = 0 /\ Gone(Receiving, txn, 0, 0) = 0
  BY <1>7, GoneSteps, MovedSteps
<1>9. Issued' = 0 /\ Written' = 0
  BY <1>4 DEF Issued, Written
<1>10. CommandsAt(0, 0)'
  <2>1. Len(<<>>) = 0
    OBVIOUS
  <2> QED BY <1>1, <1>2, <1>5, <1>7, <1>9, <2>1 DEF CommandsAt
<1>11. TxAt(0)'
  <2>1. txlen(txn) \in Nat /\ Len(<<>>) = 0
    BY WordsType
  <2> QED BY <1>1, <1>3, <1>5, <1>9, <2>1 DEF TxAt
<1>12. RxAt(0)'
  <2>1. Len(<<>>) = 0 /\ <<>> \in Seq(InWords)
    OBVIOUS
  <2> QED BY <1>1, <1>3, <1>4, <2>1 DEF RxAt
<1>13. WireAt(0)'
  <2>1. Inputs(<<>>) = {}
    BY DEF Inputs
  <2> QED BY <1>1, <2>1, FS_EmptySet DEF WireAt
<1>14. wire' = At(n, txn, 0, 0)
  BY <1>1, <1>7, AtSteps, BusSteps
<1>15. ExchangeAt(0, 0)'
  BY <1>1, <1>5, <1>6, <1>8, <1>10, <1>11, <1>12, <1>13, <1>14 DEF ExchangeAt
<1>16. ExchangeInv'
  <2>1. \E k \in Nat, j \in Nat : ExchangeAt(k, j)'
    BY <1>15
  <2> QED BY <1>1, <1>2, <1>3, <1>4, <2>1 DEF ExchangeInv
<1> QED BY <1>1, <1>2, <1>4, <1>16, StillLaunching DEF Launching

-----------------------------------------------------------------------------
(* The rest of the launch, the waits and the resets.                       *)

(* It takes the transaction, and words for the TX FIFO.                    *)
LEMMA LaunchRestKeeps ==
    ASSUME SpiInv, LaunchTxn \/ LaunchFill \/ LaunchCount \/ LaunchEvents \/ LaunchInterrupt
    PROVE  ExchangeInv' /\ ChipInv' /\ CleanInv' /\ DoneMeansExchanged'
<1>1. /\ main.pc \in {"txn", "fill", "count", "events", "intr"} /\ main.pc \in Launching
      /\ UNCHANGED << device, app, cmdq, cur, rx, wire >>
  BY DEF LaunchTxn, LaunchFill, LaunchCount, LaunchEvents, LaunchInterrupt, HostKept, AppOnly,
         Launching
<1>2. /\ SdkInv /\ SdkTypes /\ Busy /\ Working /\ ExchangeInv /\ peri.txcnt \in Nat
      /\ main.pc # "txn" => peri.txn = app.txn
  BY <1>1, AtLaunch DEF SpiInv, SdkTypes
<1>3. SUFFICES /\ main'.pc \in {"fill", "count", "events", "intr", "ready"}
               /\ peri'.state = peri.state /\ peri'.txn = app.txn
               /\ peri'.scnt = peri.scnt /\ peri'.rxcnt = peri.rxcnt /\ peri'.buffer = peri.buffer
               /\ \/ UNCHANGED tx /\ Written' = Written
                  \/ /\ main.pc = "fill" /\ FillsTx /\ Written' = Written + 1
                     /\ WriteTxData(TxWord(app.calls, peri.txcnt + 1))
  <2>1. /\ Working' /\ Busy' /\ Issued' = Issued
        /\ main'.pc \in (Launching \ {"launch", "command"}) \cup {"app", "wait"}
    BY <1>1, <1>2, <1>3 DEF Working, Busy, Issued, Launching, Resetting
  <2>2. CASE UNCHANGED tx /\ Written' = Written
    BY <1>1, <1>2, <1>3, <2>1, <2>2, ExchangeKept, StillLaunching
  <2>3. CASE /\ main.pc = "fill" /\ FillsTx /\ Written' = Written + 1
             /\ WriteTxData(TxWord(app.calls, peri.txcnt + 1))
    BY <1>1, <1>2, <1>3, <2>1, <2>3, FillKeeps, StillLaunching
  <2> QED BY <1>3, <2>2, <2>3
<1>4. CASE LaunchTxn
  <2>1. /\ main.pc = "txn" /\ main' = [main EXCEPT !.pc = "fill"] /\ UNCHANGED tx
        /\ peri' = [peri EXCEPT !.txn = app.txn]
    BY <1>4 DEF LaunchTxn, HostKept, Goto
  <2>2. main'.pc = "fill" /\ peri'.txn = app.txn /\ peri'.txcnt = peri.txcnt
    BY <1>2, <2>1 DEF SdkTypes
  <2> QED BY <1>2, <2>1, <2>2 DEF Written
<1>5. CASE LaunchFill /\ FillsTx
  <2>1. /\ main.pc = "fill" /\ main' = [main EXCEPT !.pc = "count"] /\ UNCHANGED peri
        /\ WriteTxData(TxWord(app.calls, peri.txcnt + 1))
    BY <1>5 DEF LaunchFill, Goto
  <2>2. main'.pc = "count"
    BY <1>2, <2>1 DEF SdkTypes
  <2>3. Written' = Written + 1
    BY <1>2, <2>1, <2>2 DEF Written
  <2> QED BY <1>2, <1>5, <2>1, <2>2, <2>3
<1>6. CASE LaunchFill /\ ~FillsTx
  <2>1. main.pc = "fill" /\ main' = [main EXCEPT !.pc = "events"] /\ UNCHANGED << peri, tx >>
    BY <1>6 DEF LaunchFill, Goto
  <2>2. main'.pc = "events"
    BY <1>2, <2>1 DEF SdkTypes
  <2> QED BY <1>2, <2>1, <2>2 DEF Written
<1>7. CASE LaunchCount
  <2>1. /\ main.pc = "count" /\ main' = [main EXCEPT !.pc = "fill"] /\ UNCHANGED tx
        /\ peri' = [peri EXCEPT !.txcnt = @ + 1]
    BY <1>7 DEF LaunchCount, HostKept, Goto
  <2>2. main'.pc = "fill" /\ peri'.txcnt = peri.txcnt + 1
    BY <1>2, <2>1 DEF SdkTypes
  <2> QED BY <1>2, <2>1, <2>2 DEF Written
<1>8. CASE LaunchEvents
  <2>1. main.pc = "events" /\ main' = [main EXCEPT !.pc = "intr"] /\ UNCHANGED << peri, tx >>
    BY <1>8 DEF LaunchEvents, HostKept, Goto
  <2>2. main'.pc = "intr"
    BY <1>2, <2>1 DEF SdkTypes
  <2> QED BY <1>2, <2>1, <2>2 DEF Written
<1>9. CASE LaunchInterrupt
  <2>1. main.pc = "intr" /\ main' = [main EXCEPT !.pc = "ready"] /\ UNCHANGED << peri, tx >>
    BY <1>9 DEF LaunchInterrupt, Goto
  <2>2. main'.pc = "ready"
    BY <1>2, <2>1 DEF SdkTypes
  <2> QED BY <1>2, <2>1, <2>2 DEF Written
<1> QED BY <1>4, <1>5, <1>6, <1>7, <1>8, <1>9

(* It prepares the command of the first segment,                           *)
LEMMA LaunchSegmentKeeps ==
    ASSUME SpiInv, LaunchSegment
    PROVE  ExchangeInv' /\ ChipInv' /\ CleanInv' /\ DoneMeansExchanged'
<1>1. /\ main.pc = "ready" /\ main.pc \in Launching
      /\ main' = [main EXCEPT !.pc = "command", !.command = NextCommand]
      /\ peri' = [peri EXCEPT !.scnt = @ + 1]
      /\ \E b : app' = [app EXCEPT !.overrun = b]
      /\ UNCHANGED << device, cmdq, cur, tx, rx, wire >>
  BY DEF LaunchSegment, HostKept, AppOnly, Launching
<1>2. /\ SdkInv /\ SdkTypes /\ Busy /\ Working /\ peri.txn = app.txn /\ peri.scnt = 0
      /\ app.txn \in Transactions /\ app.txn.segments # <<>>
      /\ device.csid = Slaves[app.txn.spi].csid
  BY <1>1, AtLaunch
<1>3. /\ main'.pc = "command" /\ main'.command = NextCommand
      /\ peri'.state = peri.state /\ peri'.txn = peri.txn /\ peri'.scnt = 1
      /\ peri'.txcnt = peri.txcnt /\ peri'.rxcnt = peri.rxcnt /\ peri'.buffer = peri.buffer
      /\ app'.txn = app.txn /\ app'.calls = app.calls /\ app'.reports = app.reports
  BY <1>1, <1>2 DEF SdkTypes
<1>4. Busy' /\ Working' /\ Issued' = Issued /\ Written' = Written
  BY <1>1, <1>2, <1>3 DEF Busy, Working, Issued, Written, Resetting
<1>5. ExchangeInv'
  BY <1>1, <1>2, <1>3, <1>4, ExchangeKept DEF SpiInv
<1>6. seglen(app.txn) \in Nat /\ 0 < seglen(app.txn)
  BY <1>2 DEF seglen, Transactions
<1>7. \E cmd \in Commands : NextCommand = <<cmd>> /\ Carries(app.txn, cmd, 1)
  BY <1>2, <1>6, NextCarries
<1>8. ChipInv' /\ CleanInv'
  <2>1. ChipInv'
    BY <1>1, <1>2, <1>3 DEF ChipInv
  <2>2. \E c \in Commands : main'.command = <<c>> /\ Carries(app'.txn, c, 1)
    BY <1>3, <1>7
  <2> QED BY <1>3, <1>4, <2>1, <2>2 DEF CleanInv
<1> QED BY <1>3, <1>5, <1>8 DEF DoneMeansExchanged

(* and writes it.                                                          *)
LEMMA LaunchCommandKeeps ==
    ASSUME SpiInv, LaunchCommand
    PROVE  ExchangeInv' /\ ChipInv' /\ CleanInv' /\ DoneMeansExchanged'
<1>1. /\ main.pc = "command" /\ main.pc \in Launching /\ spi_set_command(main.command)
      /\ \E pc \in {"app", "wait"} : main' = [main EXCEPT !.pc = pc, !.command = <<>>]
      /\ UNCHANGED << peri, device, app, tx, rx, wire >>
  BY DEF LaunchCommand, AppOnly, Launching
<1>2. /\ cur = <<>> /\ cmdq = <<>> /\ SdkTypes /\ HostTypes /\ Busy /\ Working /\ peri.scnt = 1
      /\ peri.txn = app.txn /\ app.txn \in Transactions /\ app.txn.segments # <<>>
  BY <1>1, AtLaunch
<1>3. main'.pc \in {"app", "wait"}
  BY <1>1, <1>2 DEF SdkTypes
<1>4. Working' /\ Busy' /\ Issued = 0 /\ Issued' = 1 /\ Written' = Written
  BY <1>1, <1>2, <1>3 DEF Working, Busy, Issued, Written, Resetting
<1>5. PICK cmd \in Commands : main.command = <<cmd>> /\ Carries(app.txn, cmd, 1)
  BY <1>1 DEF SpiInv, CleanInv
<1>6. Status.ready
  <2>1. Len(cmdq) < CmdDepth
    <3>1. Len(cmdq) = 0
      BY <1>2
    <3>2. CmdDepth \in Nat \ {0}
      BY HostAssumption
    <3> QED BY <3>1, <3>2
  <2> QED BY <2>1 DEF Status
<1>7. WriteCommand(cmd)
  BY <1>1, <1>5, <1>6 DEF spi_set_command
<1>8. seglen(app.txn) \in Nat /\ 0 < seglen(app.txn)
  BY <1>2 DEF seglen, Transactions
<1>9. ExchangeInv'
  <2>1. app.reports = 0 /\ \E k \in Nat, j \in Nat : ExchangeAt(k, j)
    BY <1>2 DEF SpiInv, ExchangeInv
  <2>2. PICK k \in Nat, j \in Nat : ExchangeAt(k, j)
    BY <2>1
  <2>3. CommandsAt(k, j)'
    <3>1. Issued \in Nat /\ Issued < seglen(app.txn) /\ Issued' = Issued + 1
          /\ Carries(app.txn, cmd, Issued + 1)
      BY <1>4, <1>5, <1>8
    <3> QED BY <1>1, <1>2, <1>6, <1>7, <2>2, <3>1, CommandIssued DEF ExchangeAt
  <2>4. PICK txn : txn = app.txn
    OBVIOUS
  <2>5. TxAt(Gone(Sending, txn, k, j))' /\ RxAt(Gone(Receiving, txn, k, j))'
    BY <1>1, <1>4, <2>2, <2>4, TxKept, RxKept DEF ExchangeAt
  <2>6. ExchangeAt(k, j)'
    BY <1>1, <2>2, <2>3, <2>4, <2>5 DEF ExchangeAt, WireAt
  <2> QED BY <1>1, <1>2, <2>1, <2>6 DEF ExchangeInv
<1> QED BY <1>1, <1>3, <1>4, <1>9, StillLaunching

(* The time-out, spi_reset, and the end of the wait.                       *)
LEMMA ResetKeepsSpi ==
    ASSUME SpiInv, isr.pc = "none", ~due, ResetStep
    PROVE  ExchangeInv' /\ ChipInv' /\ CleanInv' /\ DoneMeansExchanged'
<1>1. UNCHANGED << device, wire >> /\ main.pc \in {"app", "wait"} \cup Resetting
  BY DEF ResetStep, WaitOver, ResetStart, ResetTxn, ResetHost, ResetWatermarks, ResetState,
         HostKept, AppOnly, Resetting
<1>2. /\ SdkInv /\ SdkTypes /\ CleanInv
      /\ main.pc \notin Launching
      /\ Busy => cur # <<>>
      /\ ~Busy => cmdq = <<>>
  BY <1>1, AppTurn DEF SpiInv, SdkInv, Launching, Resetting
<1>3. CASE WaitOver
  <2>1. /\ main.pc = "wait" /\ ~Busy /\ main' = [main EXCEPT !.pc = "app"]
        /\ UNCHANGED << peri, app, cmdq, cur, tx, rx >>
    BY <1>3 DEF WaitOver, Goto, HostKept, AppOnly
  <2>2. main'.pc = "app"
    BY <1>2, <2>1 DEF SdkTypes
  <2>3. ExchangeInv' /\ ChipInv'
    BY <2>1, <2>2 DEF ExchangeInv, ChipInv, Working, Busy, Launching
  <2>4. CleanInv'
    BY <1>2, <2>1, <2>2 DEF CleanInv, Busy
  <2> QED BY <1>1, <2>1, <2>2, <2>3, <2>4, DoneKept DEF SpiInv
\* All the others leave a reset under way, or the state it ends with.
<1>4. SUFFICES ASSUME ~WaitOver
               PROVE  /\ main'.pc \in Resetting \/ (main'.pc = "app" /\ ~Busy' /\ peri'.state # "DONE")
                      /\ Busy' => Busy
                      /\ app'.txn = app.txn
                      /\ CleanInv'
  <2>1. CASE ~WaitOver
    <3>1. ExchangeInv'
      BY <1>4, <2>1 DEF ExchangeInv, Working
    <3>2. ChipInv'
      BY <1>1, <1>4, <2>1 DEF SpiInv, ChipInv, Launching, Resetting
    <3>3. DoneMeansExchanged'
      BY <1>4, <2>1 DEF DoneMeansExchanged, spi_get_state, Resetting
    <3> QED BY <1>4, <2>1, <3>1, <3>2, <3>3
  <2> QED BY <1>3, <2>1
<1>5. CASE ResetStart
  <2>1. /\ \E ends \in {"INIT", "TIMEOUT"} : main' = [main EXCEPT !.pc = "rst_txn", !.ends = ends]
        /\ peri' = ResetCounters(peri) /\ app' = [app EXCEPT !.resets = @ + 1]
    BY <1>5 DEF ResetStart
  <2>2. /\ main'.pc = "rst_txn" /\ peri'.state = peri.state /\ peri'.txcnt = 0 /\ peri'.rxcnt = 0
        /\ app'.txn = app.txn
    BY <1>2, <2>1 DEF SdkTypes, ResetCounters
  <2> QED BY <2>2 DEF CleanInv, Busy, Resetting
<1>6. CASE ResetTxn
  <2>1. /\ main' = [main EXCEPT !.pc = "rst_sw"] /\ peri' = [peri EXCEPT !.txn = NoTxn]
        /\ UNCHANGED app
    BY <1>6 DEF ResetTxn, Goto
  <2>2. /\ main'.pc = "rst_sw" /\ peri'.state = peri.state /\ peri'.txcnt = peri.txcnt
        /\ peri'.rxcnt = peri.rxcnt
    BY <1>2, <2>1 DEF SdkTypes
  <2> QED BY <1>2, <2>1, <2>2 DEF CleanInv, Busy, Resetting
<1>7. CASE ResetHost
  <2>1. /\ main' = [main EXCEPT !.pc = "rst_wm"] /\ UNCHANGED << peri, app >>
        /\ cmdq' = <<>> /\ tx' = <<>> /\ rx' = <<>>
    BY <1>7 DEF ResetHost, Goto, SoftwareReset
  <2>2. main'.pc = "rst_wm"
    BY <1>2, <2>1 DEF SdkTypes
  <2> QED BY <1>2, <2>1, <2>2 DEF CleanInv, Busy, Resetting
<1>8. CASE ResetWatermarks
  <2>1. /\ main.pc = "rst_wm" /\ main' = [main EXCEPT !.pc = "rst_state"]
        /\ UNCHANGED << peri, app, cmdq, tx, rx >>
    BY <1>8 DEF ResetWatermarks, Goto, AppOnly
  <2>2. main'.pc = "rst_state"
    BY <1>2, <2>1 DEF SdkTypes
  <2> QED BY <1>2, <2>1, <2>2 DEF CleanInv, Busy, Resetting
<1>9. CASE ResetState
  <2>1. /\ main.pc = "rst_state" /\ main' = [main EXCEPT !.pc = "app"]
        /\ peri' = [peri EXCEPT !.state = main.ends] /\ UNCHANGED << app, tx, rx >>
    BY <1>9 DEF ResetState, Goto, HostKept, AppOnly
  <2>2. ~Busy
    BY <1>2, <2>1 DEF SdkInv, ResetInv
  <2>3. /\ main'.pc = "app" /\ peri'.state \in {"INIT", "TIMEOUT"} /\ peri'.txcnt = peri.txcnt
        /\ peri'.rxcnt = peri.rxcnt
    BY <1>2, <2>1 DEF SdkTypes
  <2>4. peri'.txcnt = 0 /\ peri'.rxcnt = 0 /\ tx' = <<>> /\ rx' = <<>>
    BY <1>2, <2>1, <2>2, <2>3 DEF CleanInv
  <2> QED BY <2>1, <2>3, <2>4 DEF CleanInv, Busy
<1> QED BY <1>4, <1>5, <1>6, <1>7, <1>8, <1>9 DEF ResetStep

-----------------------------------------------------------------------------
(* The transactions.                                                       *)

LEMMA SpiInvInit == SdkInit => SpiInv
<1> SUFFICES ASSUME SdkInit PROVE SpiInv
  OBVIOUS
<1>1. SdkInv
  BY SdkInvInit
<1>2. /\ ~Busy /\ main.pc = "app" /\ isr.pc = "none" /\ peri.state = "NONE"
      /\ peri.txcnt = 0 /\ peri.rxcnt = 0 /\ tx = <<>> /\ rx = <<>>
  BY DEF SdkInit, HostInit, Busy
<1> QED BY <1>1, <1>2
        DEF SpiInv, ExchangeInv, ChipInv, CleanInv, HandledInv, DoneMeansExchanged, Working,
            Launching, spi_get_state

(* Every step of the system keeps it.                                      *)
LEMMA SpiInvNext ==
    ASSUME LinesKept, ClocksRun, SpiInv, [Next]_vars
    PROVE  SpiInv'
<1>1. SdkInv'
  BY SdkInvNext DEF SpiInv
<1>2. SUFFICES ExchangeInv' /\ ChipInv' /\ CleanInv' /\ HandledInv' /\ DoneMeansExchanged'
  BY <1>1, <1>2 DEF SpiInv
<1>3. CASE AppStep
  <2>1. isr.pc = "none" /\ ~due /\ Application
    BY <1>3 DEF AppStep, Latched
  <2>2. \/ Setup \/ (\E req \in Requests : Call(req))
        \/ LaunchState \/ LaunchTxn \/ LaunchFill \/ LaunchCount \/ LaunchEvents \/ LaunchInterrupt
        \/ LaunchSegment \/ LaunchCommand \/ ResetStep
    BY <2>1 DEF Application, Setup, ResetStep
  <2>3. UNCHANGED isr
    BY <2>1 DEF Application, spi_init, spi_deinit, spi_set_slave_freq, SetWatermark, Call,
                LaunchState, LaunchTxn, LaunchFill, LaunchCount, LaunchEvents, LaunchInterrupt,
                LaunchSegment, LaunchCommand, WaitOver, ResetStart, ResetTxn, ResetHost,
                ResetWatermarks, ResetState, AppOnly
  <2>4. HandledInv'
    BY <2>1, <2>3 DEF HandledInv
  <2> QED BY <2>1, <2>2, <2>4, SetupKeeps, CallKeeps, LaunchStateKeeps, LaunchRestKeeps,
             LaunchSegmentKeeps, LaunchCommandKeeps, ResetKeepsSpi
<1>4. CASE HandlerStep
  <2>1. Handler \/ TakeInterrupt \/ Acknowledge
    BY <1>4 DEF HandlerStep, Latched
  <2> QED BY <2>1, QuietHandling, ReadyHandling, TxwmHandling, RxwmHandling, LastHandling
          DEF Handler
<1>5. CASE HostStep
  BY <1>5, HostSteps DEF HostStep, Latched
<1>6. CASE UNCHANGED vars
  <2>1. UNCHANGED << cmdq, cur, tx, rx, wire, device, main, app, peri, isr >>
    BY <1>6 DEF vars, hostVars, sdkVars
  <2>2. HandledInv'
    BY <2>1 DEF SpiInv, HandledInv
  <2> QED BY <2>1, <2>2, NothingMoves
<1> QED BY <1>3, <1>4, <1>5, <1>6 DEF Next

(* A transaction that is reported done, by the state or by the callback,   *)
(* has put each of its segments on the bus once and in order, with the     *)
(* words of its buffer and to its own device, and every word received is   *)
(* in the buffer: for any FIFO depths, watermarks and segments, and with   *)
(* transactions timed out and reset before it.                             *)
THEOREM ExchangeSafety ==
    LinesKept /\ ClocksRun => (Spec => []DoneMeansExchanged)
<1> SUFFICES ASSUME LinesKept, ClocksRun PROVE Spec => []DoneMeansExchanged
  OBVIOUS
<1>1. SpiInv /\ [Next]_vars => SpiInv'
  BY SpiInvNext
<1>2. SpiInv => DoneMeansExchanged
  BY DEF SpiInv
<1> QED BY <1>1, <1>2, SpiInvInit, PTL DEF Spec
=============================================================================
