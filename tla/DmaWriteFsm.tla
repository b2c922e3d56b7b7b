---------------------------- MODULE DmaWriteFsm -----------------------------
(***************************************************************************)
(* dma_obiwrite_fsm: the write master of a channel, behind the             *)
(* fall-through write FIFO.  It also decides that the transaction is done. *)
(***************************************************************************)
EXTENDS DmaRegs

VARIABLES
    write_fsm,          \* dma_write_fsm_state
    dst_cnt_d1,         \* dma_dst_cnt_d1
    write_ptr,          \* write_ptr_reg
    write_fifo

writeVars == << write_fsm, dst_cnt_d1, write_ptr, write_fifo >>

WriteInit ==
    /\ write_fsm = "IDLE"
    /\ dst_cnt_d1 = 0
    /\ write_ptr = 0
    /\ write_fifo = <<>>

(* The empty flag of the fall-through FIFO sees the push of this cycle.    *)
write_fifo_empty(push) == write_fifo = <<>> /\ ~push

write_fifo_output(data) == IF write_fifo = <<>> THEN data ELSE Head(write_fifo)

dma_done_o(padDone, push) ==
    write_fsm = "ON" /\ padDone /\ write_fifo_empty(push)

(* tx: the trigger of the destination slot; afifo: the address FIFO.       *)
data_out_req(push, tx, afifo) ==
    /\ write_fsm = "ON"
    /\ ~write_fifo_empty(push)
    /\ regs.tx_trigger => tx
    /\ ~(address_mode /\ afifo = <<>>)

write_address(afifo) == IF address_mode THEN Head(afifo) ELSE write_ptr

(* Mutant: the end of a row is noticed one word late.                      *)
WritePointersLate(start, done, gnt) ==
    /\ dst_cnt_d1' = IF start THEN RowLen(regs)
                     ELSE IF done THEN 0
                     ELSE IF ~gnt THEN dst_cnt_d1
                     ELSE IF conf_2d /\ dst_cnt_d1 = 0 THEN RowLen(regs)
                     ELSE Dec(dst_cnt_d1)
    /\ write_ptr' = IF start THEN regs.dst_ptr
                    ELSE IF ~gnt THEN write_ptr
                    ELSE IF conf_2d /\ dst_cnt_d1 = 0
                    THEN write_ptr + regs.dst_ptr_inc_d2
                    ELSE write_ptr + regs.dst_ptr_inc_d1

WritePointers(start, done, gnt) ==
    /\ dst_cnt_d1' = IF start THEN RowLen(regs)
                     ELSE IF done THEN 0
                     ELSE IF ~gnt THEN dst_cnt_d1
                     ELSE IF conf_2d /\ dst_cnt_d1 = 1 THEN RowLen(regs)
                     ELSE Dec(dst_cnt_d1)
    /\ write_ptr' = IF start THEN regs.dst_ptr
                    ELSE IF ~gnt THEN write_ptr
                    ELSE IF conf_2d /\ dst_cnt_d1 = 1
                    THEN write_ptr + regs.dst_ptr_inc_d2
                    ELSE write_ptr + regs.dst_ptr_inc_d1

WriteTick(start, done, push, data, gnt, pop) ==
    /\ WritePointers(start, done, gnt)
    /\ write_fsm' = IF write_fsm = "IDLE"
                    THEN IF start THEN "ON" ELSE "IDLE"
                    ELSE IF done THEN "IDLE" ELSE "ON"
    /\ write_fifo' = FallThroughNext(write_fifo, push, data, pop)
=============================================================================
