----------------------------- MODULE DmaChannel -----------------------------
(***************************************************************************)
(* One channel of the DMA (hw/ip/dma/rtl/dma.sv): the main state machine,  *)
(* the interrupt flags and the window counters, wired to the two read      *)
(* masters, the padding FSM and the write master.                          *)
(*                                                                         *)
(* The channel is synchronous: one step is one clock cycle, in which every *)
(* clocked block moves, for one choice of the inputs (grants and answers   *)
(* of the bus, triggers, the external stop, one access of software).       *)
(***************************************************************************)
EXTENDS DmaReadFsm, DmaPaddingFsm, DmaWriteFsm

CONSTANT
    Stoppable   \* the settings under which something drives ext_dma_stop_i

WindowCountMax == 255      \* WINDOW_COUNT has 8 bits

ASSUME StoppableAssumption == Stoppable \subseteq Configs

VARIABLES
    dma_state,          \* dma_state_q
    start_pending,      \* dma_start_pending: SIZE_D1 was written
    transaction_ifr, done_intr,     \* the flag, and its delayed output
    window_ifr, window_intr,
    window_counter,     \* writes in the current window
    window_count,       \* register WINDOW_COUNT, 8 bits
    window_done,        \* window_done_q, bit of STATUS
    out                 \* history: the writes since the channel started

mainVars == << dma_state, start_pending, transaction_ifr, done_intr,
               window_ifr, window_intr, window_counter, window_count,
               window_done, out >>
vars == << regs, readVars, addrVars, padVars, writeVars, mainVars >>

Init ==
    /\ regs = ResetRegs
    /\ ReadInit /\ PadInit /\ WriteInit
    /\ dma_state = "READY" /\ start_pending = FALSE
    /\ transaction_ifr = FALSE /\ done_intr = FALSE
    /\ window_ifr = FALSE /\ window_intr = FALSE
    /\ window_counter = 0 /\ window_count = 0 /\ window_done = FALSE
    /\ out = <<>>

-----------------------------------------------------------------------------
(* What software does in a cycle.  A launch is a setting of the registers  *)
(* with SIZE_D1 written last; the driver launches a channel only when      *)
(* STATUS says that it is ready.                                           *)

NoAccess == [ op |-> "none" ]
LaunchOps == { [ op |-> "launch", cfg |-> c ] : c \in Configs }
OtherOps == { [ op |-> o ] : o \in {"read_ifr", "read_window_ifr",
                                    "read_status", "mode_linear"} }
Accesses == {NoAccess} \cup LaunchOps \cup OtherOps

ReadyForLaunch == dma_state = "READY" /\ ~start_pending

AccessAllowed(sw) ==
    /\ sw.op = "launch" => ReadyForLaunch
    /\ sw.op = "read_ifr" => transaction_ifr
    /\ sw.op = "read_window_ifr" => window_ifr
    /\ sw.op = "read_status" => window_done
    /\ sw.op = "mode_linear" => circular_mode

RegsNext(sw) ==
    regs' = IF sw.op = "launch" THEN sw.cfg
            ELSE IF sw.op = "mode_linear" THEN [ regs EXCEPT !.mode = "LINEAR" ]
            ELSE regs

-----------------------------------------------------------------------------
(* The signals that connect the blocks.                                    *)

dma_start == dma_state = "STARTING"
pad_push == write_fifo_push(read_fifo, write_fifo)
dma_done == dma_done_o(padding_fsm_done, pad_push)

window_event(gnt) ==
    /\ regs.window_size # 0
    /\ gnt
    /\ window_counter + 1 >= regs.window_size

-----------------------------------------------------------------------------
(* The clocked blocks of dma.sv.                                           *)

MainFsm ==
    dma_state' =
      CASE dma_state = "READY" -> IF start_pending THEN "STARTING" ELSE "READY"
        [] dma_state = "STARTING" -> "RUNNING"
        [] dma_state = "RUNNING" ->
             IF ~dma_done THEN "RUNNING"
             ELSE IF circular_mode THEN "STARTING" ELSE "READY"

StartPending(sw) ==
    start_pending' = IF dma_start THEN FALSE
                     ELSE start_pending \/ sw.op = "launch"

(* Mutant: the read that clears the flag wins over the end of a transfer.  *)
TransactionIfrReadWins(sw) ==
    /\ transaction_ifr' = IF ~regs.transaction_en THEN transaction_ifr
                          ELSE IF sw.op = "read_ifr" THEN FALSE
                          ELSE transaction_ifr \/ dma_done
    /\ done_intr' = transaction_ifr

(* Set and cleared by a read only while the interrupt is enabled.          *)
TransactionIfr(sw) ==
    /\ transaction_ifr' = IF ~regs.transaction_en THEN transaction_ifr
                          ELSE IF dma_done THEN TRUE
                          ELSE IF sw.op = "read_ifr" THEN FALSE
                          ELSE transaction_ifr
    /\ done_intr' = transaction_ifr

WindowIfr(sw, gnt) ==
    /\ window_ifr' = IF ~regs.window_en THEN window_ifr
                     ELSE IF window_event(gnt) THEN TRUE
                     ELSE IF sw.op = "read_window_ifr" THEN FALSE
                     ELSE window_ifr
    /\ window_intr' = window_ifr

(* Mutant: the counter is compared before it is incremented.               *)
WindowCountersLate(sw, gnt) ==
    /\ window_counter' =
         IF regs.window_size = 0 THEN window_counter
         ELSE IF dma_start \/ dma_done THEN 0
         ELSE IF ~gnt THEN window_counter
         ELSE IF window_counter >= regs.window_size THEN 0
         ELSE window_counter + 1
    /\ window_count' = IF dma_start THEN 0
                       ELSE IF window_event(gnt) THEN (window_count + 1) % (WindowCountMax + 1)
                       ELSE window_count
    /\ window_done' = (window_event(gnt) \/ (window_done /\ sw.op # "read_status"))

WindowCounters(sw, gnt) ==
    /\ window_counter' =
         IF regs.window_size = 0 THEN window_counter
         ELSE IF dma_start \/ dma_done THEN 0
         ELSE IF ~gnt THEN window_counter
         ELSE IF window_counter + 1 >= regs.window_size THEN 0
         ELSE window_counter + 1
    /\ window_count' = IF dma_start THEN 0
                       ELSE IF window_event(gnt) THEN (window_count + 1) % (WindowCountMax + 1)
                       ELSE window_count
    /\ window_done' = IF window_event(gnt) THEN TRUE
                      ELSE IF sw.op = "read_status" THEN FALSE
                      ELSE window_done

(* What reaches the destination.                                           *)
Written(gnt) ==
    out' = IF dma_start THEN <<>>
           ELSE IF gnt
           THEN Append(out, << write_address(addr_fifo),
                               write_fifo_output(write_fifo_input(read_fifo)) >>)
           ELSE out

-----------------------------------------------------------------------------
(* One clock cycle.  A grant answers a request; a master gets it only when *)
(* it has no read in flight, or in the cycle its read is answered.         *)

Choices(possible) == IF possible THEN BOOLEAN ELSE {FALSE}

(* What the inputs can be in this cycle; a trigger that is not selected    *)
(* has no effect and is left high.                                         *)
BusInputs ==
    [ rgnt : Choices(read_fsm = "ON"), rvalid : Choices(read_pending # <<>>),
      agnt : Choices(addr_fsm = "ON"), avalid : Choices(addr_pending # <<>>),
      wgnt : Choices(write_fsm = "ON"),
      rx : {TRUE, ~regs.rx_trigger}, tx : {TRUE, ~regs.tx_trigger},
      stop : Choices(regs \in Stoppable) ]

BusAllowed(in) ==
    /\ in.rgnt => /\ data_in_req(in.rx, in.stop)
                  /\ read_pending = <<>> \/ in.rvalid
    /\ in.agnt => /\ data_addr_in_req(in.stop)
                  /\ addr_pending = <<>> \/ in.avalid
    /\ in.wgnt => data_out_req(pad_push, in.tx, addr_fifo)

Cycle(in, sw) ==
    LET pop == dma_state = "RUNNING" /\ in.wgnt
    IN  /\ BusAllowed(in)
        /\ AccessAllowed(sw)
        /\ RegsNext(sw)
        /\ ReadTick(dma_start, dma_done, in.rgnt, in.rvalid,
                    read_fifo_pop(read_fifo, write_fifo), in.stop)
        /\ AddrTick(dma_start, in.agnt, in.avalid, pop, in.stop)
        /\ PadTick(dma_start, dma_done, pad_push, write_fifo)
        /\ WriteTick(dma_start, dma_done, pad_push,
                     write_fifo_input(read_fifo), in.wgnt, pop)
        /\ MainFsm
        /\ StartPending(sw)
        /\ TransactionIfr(sw)
        /\ WindowIfr(sw, in.wgnt)
        /\ WindowCounters(sw, in.wgnt)
        /\ Written(in.wgnt)

Next == \E in \in BusInputs, sw \in Accesses : Cycle(in, sw)

Spec == Init /\ [][Next]_vars
-----------------------------------------------------------------------------
(***************************************************************************)
(* Fairness: the bus grants a request that keeps coming back and answers   *)
(* what it granted (round-robin arbitration), the triggers of the slots    *)
(* come, and the clock runs.  Software owes nothing.                       *)
(***************************************************************************)
CycleWith(P(_)) ==
    \E in \in BusInputs : P(in) /\ Cycle(in, NoAccess)

Fairness ==
    /\ WF_vars(CycleWith(LAMBDA in : ~in.stop))
    /\ SF_vars(CycleWith(LAMBDA in : in.rgnt))
    /\ SF_vars(CycleWith(LAMBDA in : in.rvalid))
    /\ SF_vars(CycleWith(LAMBDA in : in.agnt))
    /\ SF_vars(CycleWith(LAMBDA in : in.avalid))
    /\ SF_vars(CycleWith(LAMBDA in : in.wgnt))

FairSpec == Spec /\ Fairness

-----------------------------------------------------------------------------
(* Properties.                                                             *)

Elements == Int \X Int

(* The registers of every block keep their type, and each read master has  *)
(* at most one read in flight.                                             *)
TypeOK ==
    /\ regs \in RegFile
    /\ read_fsm \in {"IDLE", "ON"} /\ addr_fsm \in {"IDLE", "ON"}
    /\ write_fsm \in {"IDLE", "ON"}
    /\ src_cnt_d1 \in 0 .. CntMax /\ src_cnt_d2 \in 0 .. CntMax
    /\ addr_cnt \in 0 .. SizeMax
    /\ read_ptr \in Int /\ trsp_ptr \in Int /\ read_ptr_valid \in Int
    /\ addr_ptr_reg \in Int /\ write_ptr \in Int
    /\ read_fifo \in Seq(Elements) /\ write_fifo \in Seq(Elements)
    /\ addr_fifo \in Seq(Int)
    /\ read_pending \in Seq(Int) /\ Len(read_pending) <= 1
    /\ addr_pending \in Seq(Int) /\ Len(addr_pending) <= 1
    /\ pad_fsm_on \in BOOLEAN /\ pad_state \in PadStates
    /\ pad_cnt_d1 \in 0 .. CntMax /\ pad_cnt_d2 \in 0 .. CntMax
    /\ dst_cnt_d1 \in 0 .. CntMax
    /\ dma_state \in {"READY", "STARTING", "RUNNING"}
    /\ start_pending \in BOOLEAN
    /\ transaction_ifr \in BOOLEAN /\ done_intr \in BOOLEAN
    /\ window_ifr \in BOOLEAN /\ window_intr \in BOOLEAN
    /\ window_counter \in 0 .. WindowMax /\ window_count \in 0 .. WindowCountMax
    /\ window_done \in BOOLEAN
    /\ out \in Seq(Int \X Elements)

(* The assertions of fifo_v3 ("Trying to push new data although the FIFO   *)
(* is full"): the read that is in flight always finds room, whenever its   *)
(* answer comes, although the request looks at the fill level only.        *)
FifosHaveRoom ==
    /\ Len(read_fifo) + Len(read_pending) <= Depth
    /\ Len(addr_fifo) + Len(addr_pending) <= Depth
    /\ Len(write_fifo) < Depth

(* A channel that reports ready has written exactly what its registers     *)
(* asked for: the source words and the padding zeros, in order.            *)
ReadyMeansDelivered == ReadyForLaunch => out = Expected(regs)

(* Nothing of a transfer is left in the pipeline for the next one: no word *)
(* in a FIFO, no read in flight, every FSM back in its idle state.         *)
ReadyMeansDrained ==
    ReadyForLaunch =>
        /\ read_fifo = <<>> /\ read_pending = <<>> /\ read_fsm = "IDLE"
        /\ addr_fifo = <<>> /\ addr_pending = <<>> /\ addr_fsm = "IDLE"
        /\ write_fifo = <<>> /\ write_fsm = "IDLE"
        /\ pad_state = "IDLE" /\ ~pad_fsm_on

(* While a transfer runs, WINDOW_COUNT is the number of full windows among *)
(* the writes made so far and the counter is what the last one misses: no  *)
(* window is announced early, twice or not at all.                         *)
WindowsExact ==
    dma_state = "RUNNING" /\ regs.window_size # 0 =>
        /\ window_count = (Len(out) \div regs.window_size) % (WindowCountMax + 1)
        /\ window_counter = Len(out) % regs.window_size

(* The channel implements the transfer it promises.                        *)
Transfer ==
    INSTANCE DmaTransfer WITH
        phase <- CASE dma_state = "RUNNING" -> "busy"
                   [] ReadyForLaunch -> "idle"
                   [] OTHER -> "armed",
        written <- out
ImplementsTransfer == Transfer!Spec

(* With a bus that serves its masters every launched transfer ends: the    *)
(* three FIFOs and the four FSMs never wait for each other in a ring.      *)
(* A circular one ends when software has made its mode linear.             *)
TransferEnds == dma_state = "RUNNING" /\ ~circular_mode ~> dma_state = "READY"

(* No completion is lost: a transfer with its interrupt enabled becomes    *)
(* ready with the flag up, even when software reads, and so clears, the    *)
(* flag of an earlier transfer in the very cycle in which this one ends.   *)
CompletionRaisesInterrupt ==
    dma_state = "RUNNING" /\ regs.transaction_en /\ ~circular_mode
        ~> dma_state = "READY" /\ transaction_ifr
=============================================================================
