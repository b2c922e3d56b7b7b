--------------------------- MODULE DmaPaddingFsm ----------------------------
(***************************************************************************)
(* dma_padding_fsm: moves words from the read FIFO to the write FIFO and   *)
(* inserts the padding zeros.  The FSM counts, in pad_cnt_d1 and           *)
(* pad_cnt_d2 (dma_cnt_d1, dma_cnt_d2), the words still to be pushed in    *)
(* the row and the rows still to be pushed.                                *)
(***************************************************************************)
EXTENDS DmaRegs

VARIABLES
    pad_fsm_on,         \* dma_padding_fsm_on, a register of dma.sv
    pad_state,          \* pad_state_q
    pad_cnt_d1, pad_cnt_d2

padVars == << pad_fsm_on, pad_state, pad_cnt_d1, pad_cnt_d2 >>

PadStates == { "IDLE", "TOP_EXEC", "TOP_DONE", "LEFT_EXEC", "LEFT_DONE",
               "RIGHT_EXEC", "RIGHT_DONE", "BOTTOM_EXEC" }

PadInit ==
    /\ pad_fsm_on = FALSE
    /\ pad_state = "IDLE"
    /\ pad_cnt_d1 = 0 /\ pad_cnt_d2 = 0

(* Mutant: only the row counter is looked at, as in a 2D transfer.         *)
padding_fsm_done_2d_only == pad_fsm_on /\ conf_2d /\ pad_cnt_d2 = 0

padding_fsm_done ==
    /\ pad_fsm_on
    /\ \/ conf_2d /\ pad_cnt_d2 = 0
       \/ conf_1d /\ pad_cnt_d1 = 0

pad_on == pad_state \in {"TOP_EXEC", "LEFT_EXEC", "RIGHT_EXEC", "BOTTOM_EXEC"}

write_fifo_en(wfifo) == ~full(wfifo) /\ ~alm_full(wfifo)

(* A padding zero needs room only, a word of the source must have arrived. *)
write_fifo_push(rfifo, wfifo) ==
    /\ pad_fsm_on /\ ~padding_fsm_done
    /\ write_fifo_en(wfifo)
    /\ pad_on \/ rfifo # <<>>

read_fifo_pop(rfifo, wfifo) == write_fifo_push(rfifo, wfifo) /\ ~pad_on

write_fifo_input(rfifo) == IF pad_on THEN Zero ELSE Head(rfifo)

-----------------------------------------------------------------------------
(* The transitions of the FSM, in the priority order of the source.        *)

NextRowEnds == pad_cnt_d1 = 1
RightStarts == regs.pad_right # 0 /\ pad_cnt_d1 = regs.pad_right + 1
LastDataRow == pad_cnt_d2 = regs.pad_bottom + 1
LastWord    == pad_cnt_d2 = 1 /\ pad_cnt_d1 = 1

pad_state_d(push) ==
    LET top    == regs.pad_top # 0
        bottom == regs.pad_bottom # 0
        left   == regs.pad_left # 0
        right  == regs.pad_right # 0
        toBottom == push /\ bottom /\ LastDataRow /\ NextRowEnds
    IN CASE pad_state = "IDLE" ->
              IF top /\ pad_fsm_on THEN "TOP_EXEC"
              ELSE IF ~top /\ left /\ pad_fsm_on THEN "LEFT_EXEC"
              ELSE IF push /\ ~top /\ ~left /\ RightStarts THEN "RIGHT_EXEC"
              ELSE IF ~top /\ ~left /\ ~right /\ toBottom THEN "BOTTOM_EXEC"
              ELSE "IDLE"
         [] pad_state = "TOP_EXEC" ->
              IF /\ push /\ NextRowEnds
                 /\ pad_cnt_d2 = regs.size_d2 + regs.pad_bottom + 1
              THEN IF left THEN "LEFT_EXEC" ELSE "TOP_DONE"
              ELSE "TOP_EXEC"
         [] pad_state = "TOP_DONE" ->
              IF push /\ ~left /\ RightStarts THEN "RIGHT_EXEC"
              ELSE IF ~left /\ ~right /\ toBottom THEN "BOTTOM_EXEC"
              ELSE IF ~left /\ ~right /\ ~bottom /\ LastWord THEN "IDLE"
              ELSE "TOP_DONE"
         [] pad_state = "LEFT_EXEC" ->
              IF push /\ pad_cnt_d1 = regs.size_d1 + regs.pad_right + 1
              THEN "LEFT_DONE" ELSE "LEFT_EXEC"
         [] pad_state = "LEFT_DONE" ->
              IF push /\ RightStarts THEN "RIGHT_EXEC"
              ELSE IF ~right /\ toBottom THEN "BOTTOM_EXEC"
              ELSE IF push /\ NextRowEnds /\ ~LastDataRow /\ ~right
              THEN "LEFT_EXEC"
              ELSE IF ~right /\ ~bottom /\ LastWord THEN "IDLE"
              ELSE "LEFT_DONE"
         [] pad_state = "RIGHT_EXEC" ->
              IF push /\ NextRowEnds /\ ~LastDataRow
              THEN IF left THEN "LEFT_EXEC" ELSE "RIGHT_DONE"
              ELSE IF toBottom THEN "BOTTOM_EXEC"
              ELSE IF ~bottom /\ LastWord THEN "IDLE"
              ELSE "RIGHT_EXEC"
         [] pad_state = "RIGHT_DONE" ->
              IF ~bottom /\ LastWord THEN "IDLE"
              ELSE IF push /\ ~left /\ pad_cnt_d1 = regs.pad_right + 1
              THEN "RIGHT_EXEC"
              ELSE "RIGHT_DONE"
         [] pad_state = "BOTTOM_EXEC" ->
              IF LastWord THEN "IDLE" ELSE "BOTTOM_EXEC"

(* The FSM advances whenever the write FIFO has room, pushing or not.      *)
PadState(push, wfifo) ==
    pad_state' = IF write_fifo_en(wfifo) /\ pad_fsm_on /\ ~padding_fsm_done
                 THEN pad_state_d(push) ELSE pad_state

PadCounters(start, push) ==
    IF start
    THEN /\ pad_cnt_d1' = RowLen(regs)
         /\ pad_cnt_d2' = regs.pad_top + regs.size_d2 + regs.pad_bottom
    ELSE IF padding_fsm_done
    THEN pad_cnt_d1' = 0 /\ pad_cnt_d2' = 0
    ELSE IF push /\ conf_2d /\ pad_cnt_d1 = 1
    THEN /\ pad_cnt_d1' = RowLen(regs)
         /\ pad_cnt_d2' = Dec(pad_cnt_d2)
    ELSE /\ pad_cnt_d1' = IF push THEN Dec(pad_cnt_d1) ELSE pad_cnt_d1
         /\ UNCHANGED pad_cnt_d2

(* Mutant: the FSM is not switched off at the end.                         *)
PadTickStaysOn(start, done, push, wfifo) ==
    /\ PadState(push, wfifo)
    /\ PadCounters(start, push)
    /\ pad_fsm_on' = (start \/ pad_fsm_on)

PadTick(start, done, push, wfifo) ==
    /\ PadState(push, wfifo)
    /\ PadCounters(start, push)
    /\ pad_fsm_on' = IF start THEN TRUE ELSE IF done THEN FALSE ELSE pad_fsm_on
=============================================================================
