------------------------------- MODULE SpiSdk --------------------------------
(***************************************************************************)
(* The SPI software development kit on one SPI host: an application that   *)
(* transmits, receives and executes transactions, blocking or not, changes *)
(* the watermarks, initialises and resets the peripheral; the interrupt    *)
(* handler that feeds the FIFOs, issues the segments one by one and        *)
(* reports the end; the host and a device that answers.  The interrupt     *)
(* reaches the core through the fast interrupt controller (SPI host, SPI   *)
(* flash) or the PLIC (SPI host 2).                                        *)
(***************************************************************************)
EXTENDS SpiHost, FiniteSets

CONSTANTS
    Slaves,       \* function from handles (spi_t) to the slaves they are for: [csid, freq]
    Requests,     \* [fn, spi, segments : sequences of [len, direction, speed]]
    SysFreq,      \* frequency of the system clock
    DivModulus,   \* clock dividers are below it (2^16 in the host)
    MaxLen,       \* the longest segment in bytes
    Watermarks,   \* values given to spi_set_txwm and spi_set_rxwm
    Controller,   \* "FIC" or "PLIC"
    ActiveReads,  \* values spi_get_active may return for an idle host
    MaxCalls,     \* bound on the transactions launched
    MaxResets     \* bound on the timeouts and the calls of spi_reset

\* spi_slave_t and spi_segment_t; what the data mode and the times of the chip select do on
\* the wires is left out.
SlaveConfigs == [csid : 0..3, freq : Nat]
SegmentModes == [direction : Directions, speed : Speeds, len : Nat]

Functions == {"spi_transmit", "spi_receive", "spi_transceive", "spi_execute",
              "spi_transmit_nb", "spi_receive_nb", "spi_transceive_nb", "spi_execute_nb"}

ASSUME SdkAssumption ==
    /\ Controller \in {"FIC", "PLIC"} /\ ActiveReads \subseteq BOOLEAN
    /\ {SysFreq, MaxLen, MaxCalls, MaxResets} \subseteq Nat /\ DivModulus \in Nat \ {0}
    /\ Watermarks \subseteq Nat
    /\ \A h \in DOMAIN Slaves : Slaves[h] \in SlaveConfigs
    /\ \A req \in Requests :
          /\ req.fn \in Functions /\ req.spi \in DOMAIN Slaves
          /\ req.segments \in Seq(SegmentModes)
          /\ Len(req.segments) = 1 \/ req.fn \in {"spi_execute", "spi_execute_nb"}

VARIABLES
    peri,    \* spi_peripheral_t
    device,  \* the CSID register and the clock divider of each CONFIGOPTS
    spi,     \* spi_t of each handle: initialised, and the frequency of its slave
    main,    \* the program counter of the application and what it works on
    isr,     \* the program counter of the interrupt handler and its events
    fic,     \* pending bit of the fast interrupt controller
    app,     \* the application's record of its calls
    wire     \* what the bus has seen since the last launch

sdkVars == <<peri, device, spi, main, isr, fic, app, wire>>
vars == <<hostVars, sdkVars>>

NoTxn == [spi |-> "none", blocking |-> FALSE, segments |-> <<>>]

\* Word i of the buffer given to call n; the device answers with words of its own.
TxWord(n, i) == <<"out", n, i>>
RxWord(n, i) == <<"in", n, i>>

\* The words of those of the first k segments that go one of these ways.
Moved(directions, segs, k) ==
    LET words[i \in 0..Len(segs)] ==
            IF i = 0 THEN 0
            ELSE words[i - 1] + IF segs[i].direction \in directions THEN LenWords(segs[i].len) ELSE 0
    IN words[k]

\* The words of all segments that send, and of all that receive.
seglen(txn) == Len(txn.segments)
txlen(txn) == Moved(Sending, txn.segments, seglen(txn))
rxlen(txn) == Moved(Receiving, txn.segments, seglen(txn))

Busy == peri.state = "BUSY"
SdkInit ==
    /\ HostInit
    /\ \E wm \in Watermarks : control = [txwm |-> wm, rxwm |-> wm]
    /\ peri = [state |-> "NONE", txn |-> NoTxn, scnt |-> 0, txcnt |-> 0, rxcnt |-> 0,
               txwm |-> control.txwm, rxwm |-> control.rxwm, buffer |-> <<>>]
    /\ device = [csid |-> 0, clkdiv |-> [c \in 0..1 |-> 0]]
    /\ spi = [h \in DOMAIN Slaves |-> [init |-> FALSE, freq |-> 0]]
    /\ main = [pc |-> "app", ends |-> "INIT", command |-> <<>>]
    /\ isr = [pc |-> "none", events |-> {}]
    /\ fic = FALSE
    /\ app = [calls |-> 0, resets |-> 0, code |-> "OK", txn |-> NoTxn, reports |-> 0, overrun |-> FALSE]
    /\ wire = <<>>

Goto(pc) == main' = [main EXCEPT !.pc = pc]
IsrGoto(pc) == isr' = [isr EXCEPT !.pc = pc]

-----------------------------------------------------------------------------
(* What both the application and the handler do. *)

\* A command as the host takes it: spi_command_t, with the device selected and
\* the spi_configopts_t in force for it.
Command(seg, last) ==
    [len |-> seg.len, direction |-> seg.direction, csaat |-> ~last,
     csid |-> device.csid, clkdiv |-> device.clkdiv[device.csid]]

\* spi_issue_next_seg up to the write of the command; csaat is dropped for the
\* last segment.  Past the last one it reads beyond the array of segments.
NextCommand ==
    IF peri.scnt < seglen(peri.txn)
    THEN <<Command(peri.txn.segments[peri.scnt + 1], peri.scnt + 1 = seglen(peri.txn))>>
    ELSE <<>>

spi_set_command(commands) ==
    IF commands # <<>> /\ Status.ready
    THEN WriteCommand(commands[1]) ELSE UNCHANGED <<cmdq, cur, error_status>>

\* The loops of spi_fill_tx and spi_empty_rx go on while there is a word to
\* move and the queue depth allows it.
FillsTxBlind == peri.txcnt < txlen(peri.txn)
FillsTx == peri.txcnt < txlen(peri.txn) /\ spi_get_tx_queue_depth < TxDepth
EmptiesRx == peri.rxcnt < rxlen(peri.txn) /\ spi_get_rx_queue_depth > 0

spi_read_word ==
    /\ peri' = [peri EXCEPT !.rxcnt = @ + 1, !.buffer = Append(@, Head(rx))]
    /\ ReadRxData

ResetCounters(p) == [p EXCEPT !.scnt = 0, !.txcnt = 0, !.rxcnt = 0]
spi_reset_transaction(p) == [ResetCounters(p) EXCEPT !.txn = NoTxn]

-----------------------------------------------------------------------------
(* The application.  Every step may be followed by an interrupt. *)

AppOnly == UNCHANGED <<rx, event_enable, isr, wire, spi>>
HostKept == UNCHANGED <<cmdq, cur, tx, error_status, intr_enable, control>>

ClkDivRoundedDown(freq) ==
    IF freq >= SysFreq \div 2 THEN 0 ELSE ((SysFreq \div freq - 2) \div 2) % DivModulus

\* The divider that spi_set_slave and spi_true_slave_freq compute.
ClkDiv(freq) ==
    LET div == ((SysFreq \div freq - 2) \div 2) % DivModulus
    IN IF freq >= SysFreq \div 2 THEN 0
       ELSE IF SysFreq \div (2 * div + 2) > freq THEN (div + 1) % DivModulus ELSE div

SPI_MIN_FREQ == SysFreq \div (2 * (DivModulus - 1) + 2)
spi_true_slave_freq(freq) == SysFreq \div (2 * ClkDiv(freq) + 2)
spi_validate_slave(slave) == slave.csid \in 0..1 /\ slave.freq >= SPI_MIN_FREQ

Initialised(h) == main.pc = "app" /\ spi[h].init

\* spi_init refuses a busy peripheral and an invalid slave: the handle it
\* returns is then not initialised, like the one spi_deinit leaves.
spi_init(h) ==
    /\ main.pc = "app" /\ ~spi[h].init
    /\ ~Busy /\ spi_validate_slave(Slaves[h])
    /\ peri' = [peri EXCEPT !.state = "INIT"]
    /\ control' = [txwm |-> peri.txwm, rxwm |-> peri.rxwm]
    /\ spi' = [spi EXCEPT ![h] = [init |-> TRUE, freq |-> spi_true_slave_freq(Slaves[h].freq)]]
    /\ UNCHANGED <<device, main, app, cmdq, cur, tx, rx, error_status, intr_enable,
                   event_enable, isr, wire>>

spi_deinit(h) ==
    /\ Initialised(h) /\ app.calls > 0
    /\ spi' = [spi EXCEPT ![h] = [init |-> FALSE, freq |-> 0]]
    /\ UNCHANGED <<peri, device, main, app, rx, event_enable, isr, wire>> /\ HostKept

\* spi_set_slave_freq, with a frequency the slave allows.
spi_set_slave_freq(h) ==
    /\ Initialised(h)
    /\ \E freq \in {Slaves[g].freq : g \in DOMAIN Slaves} :
          /\ freq <= Slaves[h].freq /\ spi_validate_slave([Slaves[h] EXCEPT !.freq = freq])
          /\ spi' = [spi EXCEPT ![h].freq = spi_true_slave_freq(freq)]
    /\ UNCHANGED <<peri, device, main, app, rx, event_enable, isr, wire>> /\ HostKept

\* spi_set_txwm and spi_set_rxwm refuse a busy peripheral.
SetWatermark ==
    /\ main.pc = "app" /\ ~Busy /\ app.calls < MaxCalls
    /\ \E f \in {"txwm", "rxwm"}, wm \in Watermarks :
          /\ control' = [control EXCEPT ![f] = wm]
          /\ peri' = [peri EXCEPT ![f] = wm]
    /\ UNCHANGED <<device, main, app, cmdq, cur, tx, error_status, intr_enable>> /\ AppOnly

-----------------------------------------------------------------------------
(* The transfers: what is checked, and the transaction that is launched. *)

\* The address of CONFIGOPTS is offset by four words for each chip select: it
\* is right for the first one only, for the second RXDATA is written.
spi_set_configopts(csid, clkdiv) ==
    IF csid = 0 THEN [device.clkdiv EXCEPT ![0] = clkdiv] ELSE device.clkdiv

spi_set_slave(h) ==
    [csid |-> Slaves[h].csid, clkdiv |-> spi_set_configopts(Slaves[h].csid, ClkDiv(spi[h].freq))]

\* It has no return statement: for an idle host any value in ActiveReads, and
\* an active one may look idle as well.
spi_get_active == ActiveReads

spi_prepare_transfer(h) ==
    IF ~spi[h].init THEN {"NOT_INIT"}
    ELSE IF Busy THEN {"IS_BUSY"}
    ELSE {IF active THEN "NOT_IDLE" ELSE "OK" : active \in spi_get_active}

SPI_INVALID_LEN(len) == len = 0 \/ len > MaxLen

\* A segment that goes both ways has a single data line in each.
spi_validate_cmd(seg) == seg.direction = "BIDIR" => seg.speed = "STANDARD"
spi_validate_segments(segs) == segs # <<>> /\ \A i \in DOMAIN segs : spi_validate_cmd(segs[i])

\* One segment over a single line.
OneSegment(h, direction, len, blocking) ==
    [code |-> IF SPI_INVALID_LEN(len) THEN "TXN_LEN_INVAL" ELSE "OK",
     txn |-> [spi |-> h, blocking |-> blocking,
              segments |-> <<[direction |-> direction, len |-> len, speed |-> "STANDARD"]>>]]

Segments(h, segs, blocking) ==
    [code |-> IF spi_validate_segments(segs) THEN "OK" ELSE "SEGMENT_INVAL",
     txn |-> [spi |-> h, blocking |-> blocking, segments |-> segs]]

spi_transmit(h, len)      == OneSegment(h, "TX_ONLY", len, TRUE)
spi_receive(h, len)       == OneSegment(h, "RX_ONLY", len, TRUE)
spi_transceive(h, len)    == OneSegment(h, "BIDIR", len, TRUE)
spi_execute(h, segs)      == Segments(h, segs, TRUE)
spi_transmit_nb(h, len)   == OneSegment(h, "TX_ONLY", len, FALSE)
spi_receive_nb(h, len)    == OneSegment(h, "RX_ONLY", len, FALSE)
spi_transceive_nb(h, len) == OneSegment(h, "BIDIR", len, FALSE)
spi_execute_nb(h, segs)   == Segments(h, segs, FALSE)

Asked(req) ==
    LET len == req.segments[1].len IN
    CASE req.fn = "spi_transmit"      -> spi_transmit(req.spi, len)
      [] req.fn = "spi_receive"       -> spi_receive(req.spi, len)
      [] req.fn = "spi_transceive"    -> spi_transceive(req.spi, len)
      [] req.fn = "spi_execute"       -> spi_execute(req.spi, req.segments)
      [] req.fn = "spi_transmit_nb"   -> spi_transmit_nb(req.spi, len)
      [] req.fn = "spi_receive_nb"    -> spi_receive_nb(req.spi, len)
      [] req.fn = "spi_transceive_nb" -> spi_transceive_nb(req.spi, len)
      [] req.fn = "spi_execute_nb"    -> spi_execute_nb(req.spi, req.segments)

\* A call that spi_prepare_transfer refuses changes nothing; one refused for
\* its length or its segments has already set the slave.
Call(req) ==
    /\ main.pc = "app" /\ app.calls < MaxCalls
    /\ \E code \in spi_prepare_transfer(req.spi) :
          \/ /\ code # "OK"
             /\ app' = [app EXCEPT !.code = code]
             /\ UNCHANGED <<device, main>>
          \/ /\ code = "OK" /\ Asked(req).code # "OK"
             /\ app' = [app EXCEPT !.code = Asked(req).code]
             /\ device' = spi_set_slave(req.spi)
             /\ UNCHANGED main
          \/ /\ code = "OK" /\ Asked(req).code = "OK"
             /\ app' = [app EXCEPT !.txn = Asked(req).txn, !.code = "OK",
                                   !.calls = @ + 1, !.reports = 0]
             /\ device' = spi_set_slave(req.spi)
             /\ Goto("launch")
    /\ UNCHANGED peri /\ HostKept /\ AppOnly

-----------------------------------------------------------------------------
(* spi_launch, spi_wait_transaction_done and spi_reset_peri *)

LaunchState ==
    /\ main.pc = "launch"
    /\ peri' = [peri EXCEPT !.state = "BUSY", !.buffer = <<>>]
    /\ wire' = <<>>
    /\ Goto("txn")
    /\ UNCHANGED <<device, app, rx, event_enable, isr, spi>> /\ HostKept

LaunchTxn ==
    /\ main.pc = "txn"
    /\ peri' = [peri EXCEPT !.txn = app.txn]
    /\ Goto("fill")
    /\ UNCHANGED <<device, app>> /\ HostKept /\ AppOnly

LaunchFill ==
    /\ main.pc = "fill"
    /\ IF FillsTx
       THEN WriteTxData(TxWord(app.calls, peri.txcnt + 1)) /\ Goto("count")
       ELSE UNCHANGED <<tx, error_status>> /\ Goto("events")
    /\ UNCHANGED <<peri, device, app, cmdq, cur, intr_enable, control>> /\ AppOnly

LaunchCount ==
    /\ main.pc = "count"
    /\ peri' = [peri EXCEPT !.txcnt = @ + 1]
    /\ Goto("fill")
    /\ UNCHANGED <<device, app>> /\ HostKept /\ AppOnly

LaunchEvents ==
    /\ main.pc = "events"
    /\ event_enable' = TRUE
    /\ Goto("intr")
    /\ UNCHANGED <<peri, device, app, rx, isr, wire, spi>> /\ HostKept

LaunchInterrupt ==
    /\ main.pc = "intr"
    /\ intr_enable' = TRUE
    /\ Goto("ready")
    /\ UNCHANGED <<peri, device, app, cmdq, cur, tx, error_status, control>> /\ AppOnly

\* spi_wait_for_ready, then the first half of spi_issue_next_seg.
LaunchSegment ==
    /\ main.pc = "ready" /\ Status.ready
    /\ main' = [main EXCEPT !.pc = "command", !.command = NextCommand]
    /\ app' = [app EXCEPT !.overrun = @ \/ NextCommand = <<>>]
    /\ peri' = [peri EXCEPT !.scnt = @ + 1]
    /\ UNCHANGED device /\ HostKept /\ AppOnly

LaunchCommand ==
    /\ main.pc = "command"
    /\ spi_set_command(main.command)
    /\ main' = [main EXCEPT !.pc = IF app.txn.blocking THEN "wait" ELSE "app", !.command = <<>>]
    /\ UNCHANGED <<peri, device, app, tx, intr_enable, control>> /\ AppOnly

\* spi_wait_transaction_done.
WaitOver ==
    /\ main.pc = "wait" /\ ~Busy
    /\ Goto("app")
    /\ UNCHANGED <<peri, device, app>> /\ HostKept /\ AppOnly

\* The time is checked before the state, so a transaction that has just ended
\* may still time out; spi_reset does the same work for a transaction of any state.
ResetStart ==
    /\ main.pc \in {"wait", "app"} /\ app.resets < MaxResets
    /\ peri' = ResetCounters(peri)
    /\ main' = [main EXCEPT !.pc = "rst_txn", !.ends = IF main.pc = "wait" THEN "TIMEOUT" ELSE "INIT"]
    /\ app' = [app EXCEPT !.resets = @ + 1]
    /\ UNCHANGED device /\ HostKept /\ AppOnly

ResetTxn ==
    /\ main.pc = "rst_txn"
    /\ peri' = [peri EXCEPT !.txn = NoTxn]
    /\ Goto("rst_sw")
    /\ UNCHANGED <<device, app>> /\ HostKept /\ AppOnly

\* The reset bit is held until the host is idle and empty, which takes a cycle.
ResetHost ==
    /\ main.pc = "rst_sw"
    /\ SoftwareReset
    /\ Goto("rst_wm")
    /\ UNCHANGED <<peri, device, app, error_status, intr_enable, control, event_enable, isr, wire, spi>>

ResetWatermarks ==
    /\ main.pc = "rst_wm"
    /\ control' = [txwm |-> peri.txwm, rxwm |-> peri.rxwm]
    /\ Goto("rst_state")
    /\ UNCHANGED <<peri, device, app, cmdq, cur, tx, error_status, intr_enable>> /\ AppOnly

ResetState ==
    /\ main.pc = "rst_state"
    /\ peri' = [peri EXCEPT !.state = main.ends]
    /\ Goto("app")
    /\ UNCHANGED <<device, app>> /\ HostKept /\ AppOnly

Application ==
    \/ \E h \in DOMAIN Slaves : spi_init(h) \/ spi_deinit(h) \/ spi_set_slave_freq(h)
    \/ SetWatermark
    \/ \E req \in Requests : Call(req)
    \/ LaunchState \/ LaunchTxn \/ LaunchFill \/ LaunchCount \/ LaunchEvents
    \/ LaunchInterrupt \/ LaunchSegment \/ LaunchCommand \/ WaitOver
    \/ ResetStart \/ ResetTxn \/ ResetHost \/ ResetWatermarks \/ ResetState

-----------------------------------------------------------------------------
(* The interrupt handler: handler_irq_spi, fic_irq_spi or fic_irq_spi_flash,  *)
(* which the application cannot overtake and the host can.                    *)

IsrOnly == UNCHANGED <<device, spi, main, control, wire>>

due == fic \/ line

\* The fast interrupt controller keeps a pulse of the line; its pending bit is
\* cleared on entry, while the line is still up.
FicLatches(before) == fic' = (Controller = "FIC" /\ (before \/ line'))

TakeInterrupt ==
    /\ isr.pc = "none" /\ due
    /\ IsrGoto("ack")
    /\ UNCHANGED <<hostVars, peri, device, spi, main, app, wire>>
    /\ FicLatches(FALSE)

\* The acknowledge comes first: an edge between it and the read of the status
\* raises the interrupt again.
Acknowledge ==
    /\ isr.pc = "ack"
    /\ IsrGoto("status")
    /\ UNCHANGED <<cmdq, cur, tx, rx, error_status, event_enable, intr_enable, peri, app>> /\ IsrOnly
    /\ LatchEvents(FALSE) /\ FicLatches(fic)

\* The events of a peripheral that is not busy are dropped.
spi_intr_handler_event == IF Busy THEN "ready" ELSE "none"

spi_get_events ==
    /\ isr.pc = "status"
    /\ isr' = [pc |-> spi_intr_handler_event, events |-> {f \in DOMAIN Status : Status[f]}]
    /\ UNCHANGED <<cmdq, cur, tx, rx, error_status, event_enable, intr_enable, peri, app>> /\ IsrOnly

HasSegments == peri.scnt < seglen(peri.txn)

HandleReady ==
    /\ isr.pc = "ready" /\ "ready" \in isr.events /\ HasSegments
    /\ spi_set_command(NextCommand)
    /\ peri' = [peri EXCEPT !.scnt = @ + 1]
    /\ IsrGoto("txwm")
    /\ UNCHANGED <<tx, rx, event_enable, intr_enable, app>> /\ IsrOnly

EndsWithSegmentsLeft == {"ready", "idle"} \subseteq isr.events
Ends == {"ready", "idle"} \subseteq isr.events /\ ~HasSegments

HandleIdle ==
    /\ isr.pc = "ready" /\ Ends
    /\ event_enable' = FALSE /\ intr_enable' = FALSE
    /\ IsrGoto("last")
    /\ UNCHANGED <<cmdq, cur, tx, rx, error_status, peri, app>> /\ IsrOnly

HandleOther ==
    /\ isr.pc = "ready" /\ ~Ends /\ ~("ready" \in isr.events /\ HasSegments)
    /\ IsrGoto("txwm")
    /\ UNCHANGED <<cmdq, cur, tx, rx, error_status, event_enable, intr_enable, peri, app>> /\ IsrOnly

HandleTxwm ==
    /\ isr.pc = "txwm"
    /\ IF "txwm" \in isr.events /\ FillsTx
       THEN /\ WriteTxData(TxWord(app.calls, peri.txcnt + 1))
            /\ peri' = [peri EXCEPT !.txcnt = @ + 1]
            /\ UNCHANGED isr
       ELSE UNCHANGED <<tx, error_status, peri>> /\ IsrGoto("rxwm")
    /\ UNCHANGED <<cmdq, cur, rx, event_enable, intr_enable, app>> /\ IsrOnly

HandleRxwmUnlessTxwm ==
    /\ isr.pc = "rxwm"
    /\ IF "rxwm" \in isr.events /\ "txwm" \notin isr.events /\ EmptiesRx
       THEN spi_read_word /\ UNCHANGED isr
       ELSE UNCHANGED <<rx, error_status, peri>> /\ IsrGoto("none")
    /\ UNCHANGED <<cmdq, cur, tx, event_enable, intr_enable, app>> /\ IsrOnly

HandleRxwm ==
    /\ isr.pc = "rxwm"
    /\ IF "rxwm" \in isr.events /\ EmptiesRx
       THEN spi_read_word /\ UNCHANGED isr
       ELSE UNCHANGED <<rx, error_status, peri>> /\ IsrGoto("none")
    /\ UNCHANGED <<cmdq, cur, tx, event_enable, intr_enable, app>> /\ IsrOnly

\* The end of a transaction: the last words, the state, the callback.
HandleLast ==
    /\ isr.pc = "last"
    /\ IF EmptiesRx
       THEN spi_read_word /\ UNCHANGED <<isr, app>>
       ELSE /\ peri' = [spi_reset_transaction(peri) EXCEPT !.state = "DONE"]
            /\ app' = [app EXCEPT !.reports = @ + IF peri.txn # NoTxn /\ ~peri.txn.blocking THEN 1 ELSE 0]
            /\ IsrGoto("none")
            /\ UNCHANGED <<rx, error_status>>
    /\ UNCHANGED <<cmdq, cur, tx, event_enable, intr_enable>> /\ IsrOnly

Handler ==
    \/ spi_get_events \/ HandleReady \/ HandleIdle \/ HandleOther
    \/ HandleTxwm \/ HandleRxwm \/ HandleLast

-----------------------------------------------------------------------------
(* The host and the device. *)

Seen(cmd, out, in, cs) == [csid |-> cmd.csid, out |-> out, in |-> in, cs |-> cs]

DeviceWord == RxWord(app.calls, 1 + Cardinality({i \in DOMAIN wire : wire[i].in # <<>>}))

Host ==
    /\ \/ /\ Exchange(DeviceWord)
          /\ LET cmd == cur[1].cmd IN
             wire' = Append(wire, Seen(cmd, IF Sends(cmd) THEN Head(tx) ELSE <<>>,
                                       IF Receives(cmd) THEN DeviceWord ELSE <<>>, "low"))
       \/ /\ EndCommand
          /\ wire' = Append(wire, Seen(cur[1].cmd, <<>>, <<>>, IF cur[1].cmd.csaat THEN "low" ELSE "high"))
    /\ UNCHANGED <<control, event_enable, intr_enable, error_status, peri, device, spi, main, isr, app>>

\* After a step the host latches the edges of its status, the controller the line.
Latched(Step) == Step /\ LatchEvents(intr_state) /\ FicLatches(fic)

AppStep == Latched(isr.pc = "none" /\ ~due /\ Application)
HandlerStep == Latched(Handler) \/ TakeInterrupt \/ Acknowledge
HostStep == Latched(Host)

Next == AppStep \/ HandlerStep \/ HostStep

\* The core and the host go on; the application need not make another call.
Fairness == WF_vars(HandlerStep) /\ WF_vars(HostStep) /\ WF_vars(main.pc # "app" /\ AppStep)

Spec == SdkInit /\ [][Next]_vars /\ Fairness

-----------------------------------------------------------------------------
(* Properties. *)

Words(n, txn, k) ==
    LET seg == txn.segments[k]
        sent == Moved(Sending, txn.segments, k - 1)
        received == Moved(Receiving, txn.segments, k - 1)
        cmd == [csid |-> Slaves[txn.spi].csid]
    IN Append([i \in 1..WordsOf(seg) |->
                  Seen(cmd, IF Sends(seg) THEN TxWord(n, sent + i) ELSE <<>>,
                       IF Receives(seg) THEN RxWord(n, received + i) ELSE <<>>, "low")],
              Seen(cmd, <<>>, <<>>, IF k = seglen(txn) THEN "high" ELSE "low"))

\* What the first k segments put on the bus: each in order, the chip select held
\* between them and released after the last of the transaction.
Bus(n, txn, k) ==
    LET bus[i \in 0..seglen(txn)] == IF i = 0 THEN <<>> ELSE bus[i - 1] \o Words(n, txn, i)
    IN bus[k]

Expected(n, txn) == Bus(n, txn, seglen(txn))

spi_get_state == peri.state

PeriStates == {"NONE", "INIT", "BUSY", "DONE", "TIMEOUT"}

\* Counters and FIFOs stay within their limits and the state is one of those
\* spi_get_state can report.
SdkTypeOK ==
    /\ spi_get_state \in PeriStates
    /\ peri.scnt <= seglen(app.txn) /\ peri.txcnt <= txlen(app.txn) /\ peri.rxcnt <= rxlen(app.txn)
    /\ Len(cmdq) <= CmdDepth /\ Len(tx) <= TxDepth /\ Len(rx) <= RxDepth
    /\ isr.events \subseteq DOMAIN Status

\* A transaction that is reported done, by the state or by the callback, has
\* put each of its segments on the bus once, in order, with the words of its
\* buffer, to its own device, and every word received is in the buffer.
DoneMeansExchanged ==
    spi_get_state = "DONE" /\ main.pc \in {"app", "wait"} =>
        /\ wire = Expected(app.calls, app.txn)
        /\ peri.buffer = [i \in 1..rxlen(app.txn) |-> RxWord(app.calls, i)]
        /\ app.reports = IF app.txn.blocking THEN 0 ELSE 1

\* The driver never overflows or underflows a FIFO, writes a command to a full
\* queue, nor reads past the segments of the transaction, however its steps
\* fall between those of the host: the error interrupt is never raised.
NoHostErrors == error_status = {} /\ ~app.overrun

\* No device is clocked faster than it allows: the divider that is in force
\* when a command runs is the one computed for the device the command selects.
ClockWithinDevice ==
    cur # <<>> => SysFreq \div (2 * cur[1].cmd.clkdiv + 2) <= Slaves[app.txn.spi].freq

\* Every transaction ends.
TransactionEnds == Busy ~> ~Busy

=============================================================================
