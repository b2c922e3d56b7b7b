------------------------------- MODULE SpiHost -------------------------------
(***************************************************************************)
(* The SPI host peripheral as its drivers see it: a queue of commands, the *)
(* two data FIFOs with their watermarks, the state machine that executes   *)
(* one command after the other, and the event interrupt.  A command moves  *)
(* words: `len' bytes take LenWords(len) words of a FIFO, since both       *)
(* packers are flushed at the end of a command.  What goes over the wires  *)
(* is given by the module that attaches a device.                          *)
(***************************************************************************)
EXTENDS Naturals, Sequences

CONSTANTS CmdDepth, TxDepth, RxDepth

ASSUME HostAssumption == {CmdDepth, TxDepth, RxDepth} \subseteq Nat \ {0}

VARIABLES
    cmdq,         \* commands written and not started
    cur,          \* <<>> or <<the command in execution, with its words left>>
    tx, rx,       \* the data FIFOs
    control,      \* the watermarks of the CONTROL register
    event_enable, \* the four events the drivers use are enabled together
    intr_enable, intr_state, \* the spi_event bits of INTR_ENABLE and INTR_STATE
    error_status  \* the errors recorded since the last acknowledge

hostVars == <<cmdq, cur, tx, rx, control, event_enable, intr_enable, intr_state, error_status>>

Directions == {"DUMMY", "RX_ONLY", "TX_ONLY", "BIDIR"}
Speeds == {"STANDARD", "DUAL", "QUAD"}
Sending == {"TX_ONLY", "BIDIR"}
Receiving == {"RX_ONLY", "BIDIR"}
Sends(cmd) == cmd.direction \in Sending
Receives(cmd) == cmd.direction \in Receiving

LenWords(len) == (len + 3) \div 4

\* A dummy command takes clock cycles and no word.
WordsOf(cmd) == IF cmd.direction = "DUMMY" THEN 0 ELSE LenWords(cmd.len)

HostInit ==
    /\ cmdq = <<>> /\ cur = <<>> /\ tx = <<>> /\ rx = <<>>
    /\ event_enable = FALSE /\ intr_enable = FALSE /\ intr_state = FALSE
    /\ error_status = {}

Status == [ready |-> Len(cmdq) < CmdDepth, idle |-> cur = <<>>,
           txwm |-> Len(tx) < control.txwm, rxwm |-> Len(rx) >= control.rxwm]

\* An event is the rising edge of a status bit; it is lost when not enabled.
LatchEvents(before) ==
    intr_state' = (before \/ (event_enable /\ \E f \in DOMAIN Status : ~Status[f] /\ Status'[f]))

line == intr_state /\ intr_enable

-----------------------------------------------------------------------------
(* Register accesses. *)

spi_get_tx_queue_depth == Len(tx)
spi_get_rx_queue_depth == Len(rx)

Begin(cmd) == [cmd |-> cmd, left |-> WordsOf(cmd)]

\* An idle host leaves its idle state in the cycle after the write, before the
\* next access.
WriteCommand(cmd) ==
    \/ /\ Status.ready /\ Status.idle
       /\ cur' = <<Begin(cmd)>> /\ UNCHANGED <<cmdq, error_status>>
    \/ /\ Status.ready /\ ~Status.idle
       /\ cmdq' = Append(cmdq, cmd) /\ UNCHANGED <<cur, error_status>>
    \/ /\ ~Status.ready
       /\ error_status' = error_status \cup {"CMDBUSY"} /\ UNCHANGED <<cmdq, cur>>

WriteTxData(word) ==
    IF Len(tx) < TxDepth
    THEN tx' = Append(tx, word) /\ UNCHANGED error_status
    ELSE error_status' = error_status \cup {"OVERFLOW"} /\ UNCHANGED tx

\* The value read is Head(rx).
ReadRxData ==
    IF rx # <<>>
    THEN rx' = Tail(rx) /\ UNCHANGED error_status
    ELSE error_status' = error_status \cup {"UNDERFLOW"} /\ UNCHANGED rx

\* SW_RST empties the queues and stops the state machine, it clears neither
\* the error status nor the interrupts.
SoftwareReset == cmdq' = <<>> /\ cur' = <<>> /\ tx' = <<>> /\ rx' = <<>>

-----------------------------------------------------------------------------
(* The state machine.  Any error recorded stops it. *)

Enabled == error_status = {}

\* It stalls on an empty TX or a full RX FIFO.
CanExchange ==
    /\ Enabled /\ cur # <<>> /\ cur[1].left > 0
    /\ Sends(cur[1].cmd) => tx # <<>>
    /\ Receives(cur[1].cmd) => Len(rx) < RxDepth

Exchange(word) ==
    /\ CanExchange
    /\ cur' = <<[cur[1] EXCEPT !.left = @ - 1]>>
    /\ tx' = IF Sends(cur[1].cmd) THEN Tail(tx) ELSE tx
    /\ rx' = IF Receives(cur[1].cmd) THEN Append(rx, word) ELSE rx
    /\ UNCHANGED cmdq

\* A queued command follows at once, without an idle state in between.
EndCommand ==
    /\ Enabled /\ cur # <<>> /\ cur[1].left = 0
    /\ cur' = IF cmdq = <<>> THEN <<>> ELSE <<Begin(Head(cmdq))>>
    /\ cmdq' = IF cmdq = <<>> THEN <<>> ELSE Tail(cmdq)
    /\ UNCHANGED <<tx, rx>>

=============================================================================
