------------------------------- MODULE DmaHal -------------------------------
(***************************************************************************)
(* The DMA driver (sw/device/lib/drivers/dma/dma.c) at work: one processor *)
(* that runs the application and, between any two accesses of it, the      *)
(* interrupt handlers; the channels, seen from the driver; the line of the *)
(* fast interrupt controller that they share.                              *)
(*                                                                         *)
(* A step of software is one access to a register that something else      *)
(* reads or writes; accesses to registers that only matter once the        *)
(* channel is started are one step (LoadRegisters).                        *)
(***************************************************************************)
EXTENDS DmaValidate

CONSTANTS
    App,                \* what the application wrote into each object
    DMA_CH_NUM,
    DMA_HP_INTR_INDEX,  \* the last channel with priority
    DMA_NUM_HP_INTR     \* interrupts that may cut the handler short in a row

Undefined == -1         \* a macro that is not defined
NULL == "NULL"

ASSUME HalAssumption ==
    /\ NULL \notin Trans
    /\ App \in [ Trans -> UserFields ]
    /\ DMA_CH_NUM \in Nat \ {0}
    /\ \A x \in Trans : App[x].channel < DMA_CH_NUM
    /\ DMA_HP_INTR_INDEX \in Nat \cup {Undefined}
    /\ DMA_NUM_HP_INTR \in Nat \cup {Undefined}

Channels == 0 .. DMA_CH_NUM - 1

(* The two interrupts of a channel: the end of a transaction goes through  *)
(* the fast interrupt controller, the end of a window through the PLIC.    *)
Kinds == {"transaction", "window"}

VARIABLES
    cb,             \* dma_subsys_per: trans and intrFlag of each channel
    hp_counter,     \* dma_hp_tr_intr_counter, dma_hp_win_intr_counter
    regs,           \* the registers of each channel that load and launch write
    interrupt_en,   \* INTERRUPT_EN, one bit for each kind
    ifr,            \* TRANSACTION_IFR and WINDOW_IFR
    hw,             \* each channel is "READY" or "RUNNING"
    start_pending,  \* SIZE_D1 was written and the channel has not started
    fic,            \* the DMA bit of FAST_INTR_PENDING
    mie,            \* the bits of mie in DMA_CSR_REG_MIE_MASK
    mstatus,        \* mstatus.MIE, interrupts are on
    main,           \* where the application is, and the object of its call
    isr,            \* where the interrupt handler is
    slack,          \* an interrupt came too late for the current access
    job,            \* history: the object each busy channel works for
    owed            \* history: ends that no handler has reported yet

swVars == << cb, hp_counter, main, isr >>
regVars == << regs, interrupt_en >>
hwVars == << hw, start_pending >>
cpuVars == << mie, mstatus, slack >>
halVars == << trans, checked, swVars, regVars, ifr, hwVars, fic, cpuVars, job, owed >>

ClearedRegs ==
    [ mode |-> "SINGLE", dim |-> Dim1D, size_d1 |-> 0, size_d2 |-> 0,
      src_ptr |-> 0, dst_ptr |-> 0, addr_ptr |-> 0,
      src_inc_d1 |-> 0, src_inc_d2 |-> 0, dst_inc_d1 |-> 0, dst_inc_d2 |-> 0,
      pad_top |-> 0, pad_bottom |-> 0, pad_left |-> 0, pad_right |-> 0,
      window_size |-> 0, src_type |-> WORD, dst_type |-> WORD,
      rx_trigger |-> "MEMORY", tx_trigger |-> "MEMORY" ]

AtRest == [ pc |-> "app", x |-> NULL ]
NoIsr == [ kind |-> "none", i |-> 0 ]
AllOff == [ k \in Kinds |-> [ c \in Channels |-> FALSE ] ]

(* The state that dma_init leaves at boot.                                 *)
HalInit ==
    /\ trans = [ x \in Trans |-> Struct(App[x], DriverFields) ]
    /\ checked = [ x \in Trans |-> NotChecked ]
    /\ cb = [ c \in Channels |-> [ trans |-> NULL, intrFlag |-> FALSE ] ]
    /\ hp_counter = [ k \in Kinds |-> 0 ]
    /\ regs = [ c \in Channels |-> ClearedRegs ]
    /\ interrupt_en = AllOff /\ ifr = AllOff /\ owed = AllOff
    /\ hw = [ c \in Channels |-> "READY" ]
    /\ start_pending = [ c \in Channels |-> FALSE ]
    /\ fic = FALSE /\ mie = FALSE /\ mstatus = FALSE /\ slack = FALSE
    /\ main = AtRest /\ isr = NoIsr
    /\ job = [ c \in Channels |-> NULL ]

-----------------------------------------------------------------------------
(* The processor.  A handler runs with interrupts off.  An enabled         *)
(* interrupt waits for at most one more access of the application: the     *)
(* controller needs less time than two of them.                            *)

line(k) == \E c \in Channels : ifr[k][c]

Pending == fic \/ line("transaction") \/ line("window")

InterruptDue == mstatus /\ mie /\ Pending

AppRuns ==
    /\ isr = NoIsr
    /\ ~InterruptDue \/ slack
    /\ slack' = FALSE

(* STATUS.READY.  The few cycles a start takes are over before software    *)
(* gets back to reading STATUS.                                            *)
dma_is_ready(c) == hw[c] = "READY" /\ ~start_pending[c]

Goto(pc) == main' = [ main EXCEPT !.pc = pc ]

Call(pc, x) == main' = [ pc |-> pc, x |-> x ]

x0 == main.x                \* the object of the current call
c0 == trans[x0].channel

-----------------------------------------------------------------------------
(* dma_load_transaction.                                                   *)

(* Mutant: a running channel is loaded as well.                            *)
LoadCheckNoReady(x) ==
    /\ main = AtRest /\ AppRuns
    /\ Call("load_claim", x)
    /\ UNCHANGED << trans, checked, cb, hp_counter, isr, regVars, ifr, hwVars, fic,
                    mie, mstatus, job, owed >>

LoadCheck(x) ==
    /\ main = AtRest /\ AppRuns
    /\ \/ /\ Critical(trans[x])
          /\ cb' = [ cb EXCEPT ![trans[x].channel].trans = NULL ]
          /\ UNCHANGED main
       \/ /\ ~Critical(trans[x]) /\ ~dma_is_ready(trans[x].channel)
          /\ UNCHANGED << cb, main >>
       \/ /\ ~Critical(trans[x]) /\ dma_is_ready(trans[x].channel)
          /\ Call("load_claim", x)
          /\ UNCHANGED cb
    /\ UNCHANGED << trans, checked, hp_counter, isr, regVars, ifr, hwVars, fic,
                    mie, mstatus, job, owed >>

LoadClaim ==
    /\ main.pc = "load_claim" /\ AppRuns
    /\ cb' = [ cb EXCEPT ![c0].trans = x0 ]
    /\ Goto("load_disable")
    /\ UNCHANGED << trans, checked, hp_counter, isr, regVars, ifr, hwVars, fic,
                    mie, mstatus, job, owed >>

LoadDisable ==
    /\ main.pc = "load_disable" /\ AppRuns
    /\ interrupt_en' = [ k \in Kinds |-> [ interrupt_en[k] EXCEPT ![c0] = FALSE ] ]
    /\ Goto("load_mask")
    /\ UNCHANGED << trans, checked, cb, hp_counter, isr, regs, ifr, hwVars, fic,
                    mie, mstatus, job, owed >>

LoadMask ==
    /\ main.pc = "load_mask" /\ AppRuns
    /\ mie' = FALSE
    /\ Goto(IF trans[x0].end = "POLLING" THEN "load_registers" ELSE "load_unmask")
    /\ UNCHANGED << trans, checked, cb, hp_counter, isr, regVars, ifr, hwVars, fic,
                    mstatus, job, owed >>

LoadUnmask ==
    /\ main.pc = "load_unmask" /\ AppRuns
    /\ mstatus' = TRUE /\ mie' = TRUE
    /\ Goto("load_enable")
    /\ UNCHANGED << trans, checked, cb, hp_counter, isr, regVars, ifr, hwVars, fic,
                    job, owed >>

LoadEnable ==
    /\ main.pc = "load_enable" /\ AppRuns
    /\ interrupt_en' = [ interrupt_en EXCEPT !["transaction"][c0] = TRUE,
                                             !["window"][c0] = trans[x0].win_du > 0 ]
    /\ Goto("load_registers")
    /\ UNCHANGED << trans, checked, cb, hp_counter, isr, regs, ifr, hwVars, fic,
                    mie, mstatus, job, owed >>

(* A padded row is turned, in the object, into a matrix of one row.        *)
PadsRow(t) == t.dim = Dim1D /\ (t.pad_left_du # 0 \/ t.pad_right_du # 0)

AsMatrix(t) ==
    IF PadsRow(t)
    THEN [ t EXCEPT !.dim = Dim2D, !.size_d2_du = 1,
                    !.src.inc_d2_du = DataTypeSize(t.dst_type) ]
    ELSE t

(* The fields of the registers, as masks of write_register and, for        *)
(* WINDOW_SIZE, as the width of the register.  What does not fit is cut    *)
(* off without a word.                                                     *)
PAD_MASK == 63
INC_D1_MASK == 63
INC_D2_MASK == 8388607
WINDOW_SIZE_MASK == 8191

Masked(v, mask) == v % (mask + 1)

Inc1D(g, t) == Masked(get_increment_b_1D(g, t), INC_D1_MASK)
Inc2D(g, t) == Masked(get_increment_b_2D(g, t), INC_D2_MASK)

(* The registers after a load of t over r.  The paddings are written only  *)
(* as far as the source writes them, the second increments only for a      *)
(* matrix, one of the two destination pointers.                            *)
LoadedRegs(r, t) ==
    LET m == AsMatrix(t)
        matrix == m.dim = Dim2D
        address == m.mode = "ADDRESS"
        window == IF m.win_du # 0 THEN m.win_du ELSE m.size_d1_du
    IN  [ r EXCEPT
            !.pad_left = IF matrix THEN Masked(m.pad_left_du, PAD_MASK) ELSE @,
            !.pad_right = IF matrix THEN Masked(m.pad_right_du, PAD_MASK) ELSE @,
            !.pad_top = IF t.dim = Dim2D THEN Masked(m.pad_top_du, PAD_MASK) ELSE @,
            !.pad_bottom = IF t.dim = Dim2D THEN Masked(m.pad_bottom_du, PAD_MASK) ELSE @,
            !.src_ptr = m.src.ptr,
            !.dst_ptr = IF address THEN @ ELSE m.dst.ptr,
            !.addr_ptr = IF address THEN m.src_addr ELSE @,
            !.src_inc_d1 = Inc1D(m.src, m),
            !.src_inc_d2 = IF matrix THEN Inc2D(m.src, m) ELSE @,
            !.dst_inc_d1 = IF address THEN @ ELSE Inc1D(m.dst, m),
            !.dst_inc_d2 = IF matrix /\ ~address THEN Inc2D(m.dst, m) ELSE @,
            !.mode = m.mode,
            !.window_size = Masked(window, WINDOW_SIZE_MASK),
            !.dim = m.dim,
            !.rx_trigger = m.src.trig, !.tx_trigger = m.dst.trig,
            !.src_type = m.src_type, !.dst_type = m.dst_type % 4 ]

LoadRegisters ==
    /\ main.pc = "load_registers" /\ AppRuns
    /\ trans' = [ trans EXCEPT ![x0] = AsMatrix(@) ]
    /\ regs' = [ regs EXCEPT ![c0] = LoadedRegs(@, trans[x0]) ]
    /\ main' = AtRest
    /\ UNCHANGED << checked, cb, hp_counter, isr, interrupt_en, ifr, hwVars, fic,
                    mie, mstatus, job, owed >>

-----------------------------------------------------------------------------
(* dma_launch.                                                             *)

(* Mutant: the loaded transaction is launched, whichever it is.            *)
LaunchCheckAny(x) ==
    /\ main = AtRest /\ AppRuns
    /\ cb[trans[x].channel].trans # NULL
    /\ IF dma_is_ready(trans[x].channel) THEN Call("launch_flag", x) ELSE UNCHANGED main
    /\ UNCHANGED << trans, checked, cb, hp_counter, isr, regVars, ifr, hwVars, fic,
                    mie, mstatus, job, owed >>

LaunchCheck(x) ==
    /\ main = AtRest /\ AppRuns
    /\ IF cb[trans[x].channel].trans = x /\ dma_is_ready(trans[x].channel)
       THEN Call("launch_flag", x) ELSE UNCHANGED main
    /\ UNCHANGED << trans, checked, cb, hp_counter, isr, regVars, ifr, hwVars, fic,
                    mie, mstatus, job, owed >>

LaunchFlag ==
    /\ main.pc = "launch_flag" /\ AppRuns
    /\ cb' = [ cb EXCEPT ![c0].intrFlag = FALSE ]
    /\ Goto("launch_size")
    /\ UNCHANGED << trans, checked, hp_counter, isr, regVars, ifr, hwVars, fic,
                    mie, mstatus, job, owed >>

(* The sizes go into registers of 16 bits; SIZE_D1 is last and starts the  *)
(* channel unless it is zero.  Both callers of dma_launch end here.        *)
WriteSizes(c, x) ==
    LET t == trans[x]
        d1 == t.size_d1_du % 65536
    IN  /\ regs' = [ regs EXCEPT ![c].size_d1 = d1,
                                 ![c].size_d2 = IF t.dim = Dim2D THEN t.size_d2_du % 65536
                                                                 ELSE @ ]
        /\ start_pending' = [ start_pending EXCEPT ![c] = @ \/ d1 # 0 ]
        /\ job' = IF d1 # 0 THEN [ job EXCEPT ![c] = x ] ELSE job

LaunchSize ==
    /\ main.pc = "launch_size" /\ AppRuns
    /\ WriteSizes(c0, x0)
    /\ Goto("launch_wait")
    /\ UNCHANGED << trans, checked, cb, hp_counter, isr, interrupt_en, ifr, hw, fic,
                    mie, mstatus, owed >>

(* The condition of the loop around wait_for_interrupt.                    *)
KeepsWaiting == trans[x0].end = "INTR_WAIT" /\ cb[c0].intrFlag

Wfi ==
    /\ main.pc = "launch_wait" /\ isr = NoIsr /\ KeepsWaiting
    /\ UNCHANGED halVars

LaunchReturn ==
    /\ main.pc = "launch_wait" /\ AppRuns
    /\ ~KeepsWaiting
    /\ main' = AtRest
    /\ UNCHANGED << trans, checked, cb, hp_counter, isr, regVars, ifr, hwVars, fic,
                    mie, mstatus, job, owed >>

-----------------------------------------------------------------------------
(* The other calls of the application.  dma_init is called at boot.        *)

dma_stop_circular(c) ==
    /\ main = AtRest /\ AppRuns
    /\ regs' = [ regs EXCEPT ![c].mode = "SINGLE" ]
    /\ UNCHANGED << trans, checked, swVars, interrupt_en, ifr, hwVars, fic,
                    mie, mstatus, job, owed >>

ValidateCall(x, realign, check) ==
    /\ main = AtRest /\ AppRuns
    /\ Validate(x, realign, check)
    /\ UNCHANGED << swVars, regVars, ifr, hwVars, fic, mie, mstatus, job, owed >>

-----------------------------------------------------------------------------
(* The interrupt handlers.  handler_irq_fast_dma clears the bit of the     *)
(* controller and calls fic_irq_dma; the PLIC's handler calls              *)
(* handler_irq_dma.  Both look at every channel in turn.                   *)

TakeInterrupt(k) ==
    /\ isr = NoIsr /\ mstatus /\ mie
    /\ IF k = "transaction" THEN fic /\ fic' = FALSE ELSE line(k) /\ UNCHANGED fic
    /\ mstatus' = FALSE
    /\ isr' = [ kind |-> k, i |-> 0 ]
    /\ UNCHANGED << trans, checked, cb, hp_counter, main, regVars, ifr, hwVars,
                    mie, slack, job, owed >>

Priority == DMA_HP_INTR_INDEX # Undefined
Limited == Priority /\ DMA_NUM_HP_INTR # Undefined

CutsShort(k, c) ==
    /\ Priority /\ c <= DMA_HP_INTR_INDEX
    /\ Limited => hp_counter[k] < DMA_NUM_HP_INTR

HpCounter(k, c) ==
    hp_counter' = [ hp_counter EXCEPT ![k] =
        IF ~Limited THEN @
        ELSE IF CutsShort(k, c) THEN @ + 1
        ELSE IF c > DMA_HP_INTR_INDEX THEN 0 ELSE @ ]

(* Mutant: the read clears the flags of all channels.                      *)
ReadIfrClearsAll(k, c) == ifr' = [ ifr EXCEPT ![k] = AllOff[k] ]

(* The read clears the flag, but only while its interrupt is enabled.      *)
ReadIfr(k, c) ==
    ifr' = [ ifr EXCEPT ![k][c] = @ /\ ~interrupt_en[k][c] ]

(* The driver notes the end of a transaction and calls the application's   *)
(* callback, dma_intr_handler_trans_done or dma_intr_handler_window_done,  *)
(* which does not call the driver here.                                    *)
Callback(k, c) == cb' = [ cb EXCEPT ![c].intrFlag = @ \/ k = "transaction" ]

Visit(k, c) ==
    /\ isr = [ kind |-> k, i |-> c ]
    /\ IF ifr[k][c]
       THEN /\ ReadIfr(k, c)
            /\ owed' = [ owed EXCEPT ![k][c] = FALSE ]
            /\ Callback(k, c)
            /\ HpCounter(k, c)
            /\ isr' = [ isr EXCEPT !.i = IF CutsShort(k, c) THEN DMA_CH_NUM ELSE c + 1 ]
       ELSE /\ isr' = [ isr EXCEPT !.i = c + 1 ]
            /\ UNCHANGED << ifr, owed, cb, hp_counter >>
    /\ UNCHANGED << trans, checked, main, regVars, hwVars, fic, cpuVars, job >>

IsrReturn ==
    /\ isr # NoIsr /\ isr.i = DMA_CH_NUM
    /\ isr' = NoIsr
    /\ mstatus' = TRUE
    /\ UNCHANGED << trans, checked, cb, hp_counter, main, regVars, ifr, hwVars, fic,
                    mie, slack, job, owed >>

-----------------------------------------------------------------------------
(* The channels and the controller.                                        *)

ChannelStarts(c) ==
    /\ hw[c] = "READY" /\ start_pending[c]
    /\ hw' = [ hw EXCEPT ![c] = "RUNNING" ]
    /\ start_pending' = [ start_pending EXCEPT ![c] = FALSE ]
    /\ UNCHANGED << trans, checked, swVars, regVars, ifr, fic, cpuVars, job, owed >>

Raise(k, c) ==
    /\ ifr' = [ ifr EXCEPT ![k][c] = @ \/ interrupt_en[k][c] ]
    /\ owed' = [ owed EXCEPT ![k][c] = @ \/ interrupt_en[k][c] ]
    /\ slack' = (slack \/ ~Pending)

WindowEnds(c) ==
    /\ hw[c] = "RUNNING"
    /\ Raise("window", c)
    /\ UNCHANGED << trans, checked, swVars, regVars, hwVars, fic, mie, mstatus, job >>

(* A circular channel starts over by itself.                               *)
ChannelEnds(c) ==
    /\ hw[c] = "RUNNING"
    /\ Raise("transaction", c)
    /\ IF regs[c].mode = "CIRCULAR"
       THEN /\ start_pending' = [ start_pending EXCEPT ![c] = FALSE ]
            /\ UNCHANGED << hw, job >>
       ELSE /\ hw' = [ hw EXCEPT ![c] = "READY" ]
            /\ job' = IF start_pending[c] THEN job ELSE [ job EXCEPT ![c] = NULL ]
            /\ UNCHANGED start_pending
    /\ UNCHANGED << trans, checked, swVars, regVars, fic, mie, mstatus >>

(* The controller latches the line of the DMA, which stays up as long as   *)
(* one channel has its flag up.                                            *)
FicLatches ==
    /\ ~fic /\ line("transaction")
    /\ fic' = TRUE
    /\ UNCHANGED << trans, checked, swVars, regVars, ifr, hwVars, cpuVars, job, owed >>

-----------------------------------------------------------------------------
Begins ==
    \/ \E x \in Trans : LoadCheck(x) \/ LaunchCheck(x)
    \/ \E x \in Trans, check \in BOOLEAN : ValidateCall(x, FALSE, check)
    \/ \E c \in Channels : dma_stop_circular(c)

Proceeds ==
    \/ LoadClaim \/ LoadDisable \/ LoadMask \/ LoadUnmask \/ LoadEnable
    \/ LoadRegisters
    \/ LaunchFlag \/ LaunchSize \/ LaunchReturn

Handles ==
    \/ \E k \in Kinds : TakeInterrupt(k) \/ \E c \in Channels : Visit(k, c)
    \/ IsrReturn

HalNext ==
    \/ Begins \/ Proceeds \/ Wfi \/ Handles \/ FicLatches
    \/ \E c \in Channels : ChannelStarts(c) \/ WindowEnds(c) \/ ChannelEnds(c)

(* A call that was begun goes on, interrupts are taken and handled, and a  *)
(* channel that was started ends (the property TransferEnds of             *)
(* DmaChannel).  Nothing makes the application begin another call.         *)
HalSpec ==
    /\ HalInit /\ [][HalNext]_halVars
    /\ WF_halVars(Proceeds)
    /\ WF_halVars(Handles) /\ WF_halVars(FicLatches)
    /\ \A c \in Channels : WF_halVars(ChannelStarts(c)) /\ WF_halVars(ChannelEnds(c))

-----------------------------------------------------------------------------
(* Properties.                                                             *)

(* Types, and the limit on the interrupts that cut the handler short.      *)
HalTypeOK ==
    /\ cb \in [ Channels -> [ trans : Trans \cup {NULL}, intrFlag : BOOLEAN ] ]
    /\ hp_counter \in [ Kinds -> Nat ]
    /\ \A k \in Kinds : Limited => hp_counter[k] <= DMA_NUM_HP_INTR
    /\ \A c \in Channels : DOMAIN regs[c] = DOMAIN ClearedRegs
    /\ interrupt_en \in [ Kinds -> [ Channels -> BOOLEAN ] ]
    /\ ifr \in [ Kinds -> [ Channels -> BOOLEAN ] ]
    /\ owed \in [ Kinds -> [ Channels -> BOOLEAN ] ]
    /\ hw \in [ Channels -> {"READY", "RUNNING"} ]
    /\ start_pending \in [ Channels -> BOOLEAN ]
    /\ {fic, mie, mstatus, slack} \subseteq BOOLEAN
    /\ main.x \in Trans \cup {NULL} /\ isr.i \in 0 .. DMA_CH_NUM
    /\ job \in [ Channels -> Trans \cup {NULL} ]

Busy(c) == ~dma_is_ready(c)

(* What a channel does with its registers, and what the application asked  *)
(* for in an object (without a realignment).  A single row takes no stride *)
(* from one row to the next.                                               *)
Performed(r) ==
    [ from |-> r.src_ptr,
      to |-> IF r.mode = "ADDRESS" THEN r.addr_ptr ELSE r.dst_ptr,
      steps |-> << r.src_inc_d1, IF r.mode = "ADDRESS" THEN 0 ELSE r.dst_inc_d1 >>,
      columns |-> r.size_d1, rows |-> IF r.dim = Dim2D THEN r.size_d2 ELSE 1,
      strides |-> IF r.dim = Dim2D /\ r.size_d2 # 1
                  THEN << r.src_inc_d2, IF r.mode = "ADDRESS" THEN 0 ELSE r.dst_inc_d2 >>
                  ELSE << 0, 0 >>,
      frame |-> << r.pad_top, r.pad_left, r.pad_right, r.pad_bottom >>,
      slots |-> << r.rx_trigger, r.tx_trigger >> ]

Asked(u) ==
    [ from |-> u.src.ptr,
      to |-> IF u.mode = "ADDRESS" THEN u.src_addr ELSE u.dst.ptr,
      steps |-> << get_increment_b_1D(u.src, DriverFields),
                   IF u.mode = "ADDRESS" THEN 0
                                         ELSE get_increment_b_1D(u.dst, DriverFields) >>,
      columns |-> u.size_d1_du, rows |-> IF u.dim = Dim2D THEN u.size_d2_du ELSE 1,
      strides |-> IF u.dim = Dim2D /\ u.size_d2_du # 1
                  THEN << get_increment_b_2D(u.src, DriverFields),
                          IF u.mode = "ADDRESS" THEN 0
                                                ELSE get_increment_b_2D(u.dst, DriverFields) >>
                  ELSE << 0, 0 >>,
      frame |-> << u.pad_top_du, u.pad_left_du, u.pad_right_du, u.pad_bottom_du >>,
      slots |-> << u.src.trig, u.dst.trig >> ]

(* A busy channel performs the transaction it was launched for, as the     *)
(* application described it, whatever was loaded, refused or validated     *)
(* before and since.                                                       *)
RunsAsAsked ==
    \A c \in Channels : Busy(c) => Performed(regs[c]) = Asked(App[job[c]])

(* "Modifying the DMA registers during the execution of a transaction can  *)
(* be dangerous.  This is prevented [...]": only dma_stop_circular, which  *)
(* writes MODE, touches the registers of a busy channel.                   *)
FrozenWhileBusy ==
    [][\A c \in Channels :
          Busy(c) => regs'[c] \in { regs[c], [ regs[c] EXCEPT !.mode = "SINGLE" ] }]_halVars

(* Every end of a transaction or of a window whose interrupt the driver    *)
(* enabled is reported to the application, also when a channel with        *)
(* priority ends again and again.                                          *)
EndsReported ==
    \A k \in Kinds, c \in Channels : owed[k][c] ~> ~owed[k][c]

(* "If the end event is set to wait for an interrupt, the function will    *)
(* block until the interrupt is received": a call returns, and the one of  *)
(* an object that waits does not return before its interrupt.              *)
CallsReturn == main.pc # "app" ~> main.pc = "app"

ReturnsAfterEnd ==
    [][main.pc = "launch_wait" /\ trans[x0].end = "INTR_WAIT" /\ main'.pc = "app"
          => cb[c0].intrFlag]_halVars

=============================================================================
