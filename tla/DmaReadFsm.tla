----------------------------- MODULE DmaReadFsm -----------------------------
(***************************************************************************)
(* dma_obiread_fsm and dma_obiread_addr_fsm: the two read masters of a     *)
(* channel, one for the data, one for the list of destination addresses    *)
(* (address mode), each in front of its FIFO.                              *)
(*                                                                         *)
(* Inputs of a block (start, done, grants, ...) are parameters; the        *)
(* clocked blocks (always_ff) give the next value of the registers.        *)
(*                                                                         *)
(* The bus is external: X-HEEP's crossbar keeps one transaction of a       *)
(* master in flight (read_pending, addr_pending), answers it in any later  *)
(* cycle, and can grant the next one in the cycle of the answer.           *)
(***************************************************************************)
EXTENDS DmaRegs

VARIABLES
    read_fsm,           \* dma_read_fsm_state
    src_cnt_d1, src_cnt_d2,
    read_ptr,           \* read_ptr_reg: the next address to request
    trsp_ptr,           \* trsp_src_ptr_reg: start of the next column
    read_ptr_valid,     \* read_ptr_valid_reg: lane of the word that returns
    read_fifo,
    read_pending,       \* address of the granted read, not answered yet
    addr_fsm,           \* dma_read_addr_fsm_state
    addr_cnt,           \* dma_addr_cnt
    addr_ptr_reg,
    addr_fifo,
    addr_pending

readVars == << read_fsm, src_cnt_d1, src_cnt_d2, read_ptr, trsp_ptr,
               read_ptr_valid, read_fifo, read_pending >>
addrVars == << addr_fsm, addr_cnt, addr_ptr_reg, addr_fifo, addr_pending >>

ReadInit ==
    /\ read_fsm = "IDLE"
    /\ src_cnt_d1 = 0 /\ src_cnt_d2 = 0
    /\ read_ptr = 0 /\ trsp_ptr = 0 /\ read_ptr_valid = 0
    /\ read_fifo = <<>> /\ read_pending = <<>>
    /\ addr_fsm = "IDLE" /\ addr_cnt = 0 /\ addr_ptr_reg = 0
    /\ addr_fifo = <<>> /\ addr_pending = <<>>

(* The reads in flight after a cycle: an answer takes the oldest, a grant  *)
(* adds the address that was requested.                                    *)
InFlight(q, gnt, addr, rvalid) ==
    LET rest == IF rvalid THEN Tail(q) ELSE q
    IN  IF gnt THEN Append(rest, addr) ELSE rest

-----------------------------------------------------------------------------
(* Data read master.                                                       *)

(* All input data has been requested.                                      *)
ReadAll ==
    \/ conf_1d /\ src_cnt_d1 = 0
    \/ conf_2d /\ src_cnt_d1 = regs.size_d1 /\ src_cnt_d2 = 0

(* Mutant: the almost-full flag is not looked at.                          *)
data_in_req_blind(rx, stop) ==
    /\ read_fsm = "ON" /\ ~stop /\ ~ReadAll
    /\ ~full(read_fifo)
    /\ regs.rx_trigger => rx

(* rx: the trigger of the source slot; a source without one never waits.   *)
data_in_req(rx, stop) ==
    /\ read_fsm = "ON" /\ ~stop /\ ~ReadAll
    /\ ~full(read_fifo) /\ ~alm_full(read_fifo)
    /\ regs.rx_trigger => rx

(* The last element of a row (of a column, when transposing).              *)
LastOfRow == src_cnt_d1 = 1 /\ src_cnt_d2 # 0

SrcCounters(start, done, gnt) ==
    IF start
    THEN /\ src_cnt_d1' = regs.size_d1
         /\ src_cnt_d2' = regs.size_d2
    ELSE IF done
    THEN src_cnt_d1' = 0 /\ src_cnt_d2' = 0
    ELSE IF gnt /\ conf_2d /\ src_cnt_d1 = 1
    THEN /\ src_cnt_d1' = regs.size_d1
         /\ src_cnt_d2' = Dec(src_cnt_d2)
    ELSE /\ src_cnt_d1' = IF gnt THEN Dec(src_cnt_d1) ELSE src_cnt_d1
         /\ UNCHANGED src_cnt_d2

(* Mutant: the column pointer of a transposition is not advanced.          *)
ReadPointersNoColumn(start, gnt) ==
    /\ trsp_ptr' = IF start THEN regs.src_ptr + regs.src_ptr_inc_d1 ELSE trsp_ptr
    /\ read_ptr' =
         IF start THEN regs.src_ptr
         ELSE IF ~gnt THEN read_ptr
         ELSE IF conf_1d THEN read_ptr + regs.src_ptr_inc_d1
         ELSE IF LastOfRow THEN trsp_ptr ELSE read_ptr + regs.src_ptr_inc_d2

ReadPointers(start, gnt) ==
    /\ trsp_ptr' =
         IF start THEN regs.src_ptr + regs.src_ptr_inc_d1
         ELSE IF gnt /\ conf_2d /\ regs.dim_inv /\ LastOfRow
         THEN trsp_ptr + regs.src_ptr_inc_d1
         ELSE trsp_ptr
    /\ read_ptr' =
         IF start THEN regs.src_ptr
         ELSE IF ~gnt THEN read_ptr
         ELSE IF conf_1d THEN read_ptr + regs.src_ptr_inc_d1
         ELSE IF ~regs.dim_inv
         THEN read_ptr + (IF LastOfRow THEN regs.src_ptr_inc_d2
                                       ELSE regs.src_ptr_inc_d1)
         ELSE IF LastOfRow THEN trsp_ptr
                           ELSE read_ptr + regs.src_ptr_inc_d2

(* Sampled with the answer: "a mere sample of the read_ptr_reg".           *)
LanePointer(start, rvalid) ==
    read_ptr_valid' = IF start THEN regs.src_ptr
                      ELSE IF rvalid THEN read_ptr ELSE read_ptr_valid

ReadState(start, stop) ==
    read_fsm' = IF read_fsm = "IDLE"
                THEN IF start THEN "ON" ELSE "IDLE"
                ELSE IF stop \/ ReadAll THEN "IDLE" ELSE "ON"

(* The word that returns is shifted to the lane of read_ptr_valid.         *)
ReadFifo(rvalid, pop) ==
    read_fifo' = FifoNext(read_fifo, rvalid,
                          << Head(read_pending), read_ptr_valid >>, pop)

ReadBus(gnt, rvalid) ==
    read_pending' = InFlight(read_pending, gnt, read_ptr, rvalid)

ReadTick(start, done, gnt, rvalid, pop, stop) ==
    /\ SrcCounters(start, done, gnt)
    /\ ReadPointers(start, gnt)
    /\ LanePointer(start, rvalid)
    /\ ReadState(start, stop)
    /\ ReadFifo(rvalid, pop)
    /\ ReadBus(gnt, rvalid)

-----------------------------------------------------------------------------
(* Address read master: runs in address mode only.                         *)

(* Mutant: requests one address too many.                                  *)
data_addr_in_req_past_end(stop) ==
    /\ addr_fsm = "ON" /\ ~stop
    /\ ~full(addr_fifo) /\ ~alm_full(addr_fifo)

data_addr_in_req(stop) ==
    /\ addr_fsm = "ON" /\ ~stop /\ addr_cnt # 0
    /\ ~full(addr_fifo) /\ ~alm_full(addr_fifo)

AddrTick(start, gnt, rvalid, pop, stop) ==
    /\ addr_ptr_reg' = IF start /\ address_mode THEN regs.addr_ptr
                       ELSE IF gnt /\ address_mode THEN addr_ptr_reg + 4
                       ELSE addr_ptr_reg
    /\ addr_cnt' = IF start /\ address_mode THEN regs.size_d1
                   ELSE IF gnt /\ address_mode THEN addr_cnt - 1
                   ELSE addr_cnt
    /\ addr_fsm' = IF addr_fsm = "IDLE"
                   THEN IF start /\ address_mode THEN "ON" ELSE "IDLE"
                   ELSE IF stop \/ addr_cnt = 0 THEN "IDLE" ELSE "ON"
    /\ addr_fifo' = FifoNext(addr_fifo, rvalid, Head(addr_pending),
                             pop /\ address_mode)
    /\ addr_pending' = InFlight(addr_pending, gnt, addr_ptr_reg, rvalid)
=============================================================================
