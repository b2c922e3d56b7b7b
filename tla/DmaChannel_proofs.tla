------------------------- MODULE DmaChannel_proofs --------------------------
(***************************************************************************)
(* Proofs about DmaChannel, for every FIFO depth of at least two, every    *)
(* set of register settings and every behaviour of the bus: the types, the *)
(* room in the FIFOs, the windows, that a channel that reports ready has   *)
(* nothing left in its pipeline, and that it has written what its          *)
(* registers ask for, in order, and so implements DmaTransfer.             *)
(***************************************************************************)
EXTENDS DmaChannel, SequenceTheorems, TLAPS

-----------------------------------------------------------------------------
(* fifo_v3: the content keeps its type.                                    *)
LEMMA FifoType ==
    ASSUME NEW S, NEW q \in Seq(S), NEW push \in BOOLEAN, NEW pop \in BOOLEAN,
           NEW d, push => d \in S
    PROVE  FifoNext(q, push, d, pop) \in Seq(S)
<1>1. CASE pop /\ q # <<>>
  <2>1. Tail(q) \in Seq(S)
    BY <1>1
  <2> QED BY <1>1, <2>1 DEF FifoNext
<1>2. CASE ~(pop /\ q # <<>>)
  BY <1>2 DEF FifoNext
<1> QED BY <1>1, <1>2

(* fifo_v3: a cycle adds one word at most, and none without a push.        *)
LEMMA FifoLen ==
    ASSUME NEW S, NEW q \in Seq(S), NEW push \in BOOLEAN, NEW pop \in BOOLEAN,
           NEW d, push => d \in S
    PROVE  /\ Len(FifoNext(q, push, d, pop)) \in Nat
           /\ Len(FifoNext(q, push, d, pop)) <= Len(q) + 1
           /\ ~push => Len(FifoNext(q, push, d, pop)) <= Len(q)
<1> DEFINE rest == IF pop /\ q # <<>> THEN Tail(q) ELSE q
<1>1. rest \in Seq(S) /\ Len(rest) <= Len(q) /\ Len(rest) \in Nat
  OBVIOUS
<1>2. CASE push /\ ~full(q)
  <2>1. FifoNext(q, push, d, pop) = Append(rest, d)
    BY <1>2 DEF FifoNext
  <2>2. Len(Append(rest, d)) = Len(rest) + 1
    BY <1>1, <1>2, AppendProperties
  <2>3. /\ Len(FifoNext(q, push, d, pop)) \in Nat
        /\ Len(FifoNext(q, push, d, pop)) <= Len(q) + 1
    <3> HIDE DEF rest
    <3> QED BY <1>1, <2>1, <2>2
  <2> QED BY <1>2, <2>3
<1>3. CASE ~(push /\ ~full(q))
  <2>1. FifoNext(q, push, d, pop) = rest
    BY <1>3 DEF FifoNext
  <2> HIDE DEF rest
  <2> QED BY <1>1, <2>1
<1> QED BY <1>2, <1>3

(* The fall-through FIFO differs only when a word passes straight through. *)
LEMMA FallThroughType ==
    ASSUME NEW S, NEW q \in Seq(S), NEW push \in BOOLEAN, NEW pop \in BOOLEAN,
           NEW d, push => d \in S
    PROVE  FallThroughNext(q, push, d, pop) \in Seq(S)
BY FifoType DEF FallThroughNext

(* A master that is granted a read only when none is in flight, or when    *)
(* the one in flight is answered, never has two.                           *)
LEMMA InFlightLen ==
    ASSUME NEW q \in Seq(Int), Len(q) <= 1, NEW gnt \in BOOLEAN,
           NEW rvalid \in BOOLEAN, NEW a \in Int,
           rvalid => q # <<>>, gnt => q = <<>> \/ rvalid
    PROVE  /\ InFlight(q, gnt, a, rvalid) \in Seq(Int)
           /\ Len(InFlight(q, gnt, a, rvalid)) <= 1
           /\ ~gnt /\ rvalid => Len(InFlight(q, gnt, a, rvalid)) = Len(q) - 1
           /\ ~gnt /\ ~rvalid => Len(InFlight(q, gnt, a, rvalid)) = Len(q)
<1>1. gnt \/ rvalid => (IF rvalid THEN Tail(q) ELSE q) = <<>>
  OBVIOUS
<1>2. /\ << >> \in Seq(Int) /\ Len(<< >>) = 0
      /\ Append(<< >>, a) \in Seq(Int) /\ Len(Append(<< >>, a)) = 1
  BY EmptySeq, AppendProperties
<1>3. CASE gnt
  <2>1. InFlight(q, gnt, a, rvalid) = Append(<< >>, a)
    BY <1>1, <1>3 DEF InFlight
  <2>2. /\ InFlight(q, gnt, a, rvalid) \in Seq(Int)
        /\ Len(InFlight(q, gnt, a, rvalid)) <= 1
    BY <1>2, <2>1
  <2> QED BY <1>3, <2>2
<1>4. CASE ~gnt /\ rvalid
  <2>1. InFlight(q, gnt, a, rvalid) = << >>
    BY <1>1, <1>4 DEF InFlight
  <2>2. Len(q) = 1
    <3>1. q # << >>
      BY <1>4
    <3>2. Len(q) \in Nat \ {0}
      BY <3>1, EmptySeq
    <3> QED BY <3>2
  <2>3. /\ InFlight(q, gnt, a, rvalid) \in Seq(Int)
        /\ Len(InFlight(q, gnt, a, rvalid)) = Len(q) - 1
        /\ Len(InFlight(q, gnt, a, rvalid)) <= 1
    BY <1>2, <2>1, <2>2
  <2> QED BY <1>4, <2>3
<1>5. CASE ~gnt /\ ~rvalid
  BY <1>5 DEF InFlight
<1> QED BY <1>3, <1>4, <1>5

(* The widths of the registers and of the counters, for the provers.       *)
LEMMA Widths ==
    /\ CntMax \in Nat /\ SizeMax \in Nat /\ PadMax \in Nat /\ WindowMax \in Nat
    /\ SizeMax + PadMax + PadMax < CntMax
    /\ WindowCountMax \in Nat
BY DEF CntMax, SizeMax, PadMax, WindowMax, WindowCountMax

(* The 17-bit counters stay in their range.                                *)
LEMMA DecRange == \A n \in 0 .. CntMax : Dec(n) \in 0 .. CntMax
BY Widths DEF Dec

LEMMA RegRanges ==
    ASSUME NEW c \in RegFile
    PROVE  /\ c.size_d1 \in 0 .. CntMax /\ c.size_d2 \in 0 .. CntMax
           /\ RowLen(c) \in 0 .. CntMax
           /\ c.pad_top + c.size_d2 + c.pad_bottom \in 0 .. CntMax
<1>1. /\ c.size_d1 \in 0 .. SizeMax /\ c.size_d2 \in 0 .. SizeMax
      /\ c.pad_left \in 0 .. PadMax /\ c.pad_right \in 0 .. PadMax
      /\ c.pad_top \in 0 .. PadMax /\ c.pad_bottom \in 0 .. PadMax
  BY DEF RegFile
<1> QED BY <1>1, Widths DEF RowLen

-----------------------------------------------------------------------------
(* Type correctness, block by block.                                       *)

(* The signals that the blocks exchange are Booleans.                      *)
LEMMA SignalTypes ==
    ASSUME TypeOK, NEW in \in BusInputs
    PROVE  /\ in.rgnt \in BOOLEAN /\ in.rvalid \in BOOLEAN
           /\ in.agnt \in BOOLEAN /\ in.avalid \in BOOLEAN
           /\ in.wgnt \in BOOLEAN /\ in.stop \in BOOLEAN
           /\ in.rvalid => read_pending # <<>>
           /\ in.avalid => addr_pending # <<>>
           /\ in.wgnt => write_fsm = "ON"
BY DEF BusInputs, Choices, TypeOK, RegFile

LEMMA RegsType ==
    ASSUME TypeOK, NEW sw \in Accesses, RegsNext(sw)
    PROVE  regs' \in RegFile
<1>1. CASE sw.op = "launch"
  <2>1. sw.cfg \in Configs
    BY <1>1 DEF Accesses, NoAccess, LaunchOps, OtherOps
  <2> QED BY <1>1, <2>1, ConfigsAssumption DEF RegsNext
<1>2. CASE sw.op = "mode_linear"
  BY <1>2 DEF RegsNext, TypeOK, RegFile, Modes
<1>3. CASE sw.op \notin {"launch", "mode_linear"}
  BY <1>3 DEF RegsNext, TypeOK
<1> QED BY <1>1, <1>2, <1>3

LEMMA ReadType ==
    ASSUME TypeOK, NEW in \in BusInputs, NEW sw \in Accesses, Cycle(in, sw)
    PROVE  /\ read_fsm' \in {"IDLE", "ON"}
           /\ src_cnt_d1' \in 0 .. CntMax /\ src_cnt_d2' \in 0 .. CntMax
           /\ read_ptr' \in Int /\ trsp_ptr' \in Int /\ read_ptr_valid' \in Int
           /\ read_pending' \in Seq(Int) /\ Len(read_pending') <= 1
           /\ read_fifo' \in Seq(Elements)
<1> DEFINE pop == read_fifo_pop(read_fifo, write_fifo)
<1>1. ReadTick(dma_start, dma_done, in.rgnt, in.rvalid, pop, in.stop)
  BY DEF Cycle
<1>2. regs \in RegFile
  BY DEF TypeOK
<1>3. src_cnt_d1' \in 0 .. CntMax /\ src_cnt_d2' \in 0 .. CntMax
  <2>1. /\ src_cnt_d1 \in 0 .. CntMax /\ src_cnt_d2 \in 0 .. CntMax
        /\ Dec(src_cnt_d1) \in 0 .. CntMax /\ Dec(src_cnt_d2) \in 0 .. CntMax
    BY DecRange DEF TypeOK
  <2>2. /\ regs.size_d1 \in 0 .. CntMax /\ regs.size_d2 \in 0 .. CntMax
        /\ 0 \in 0 .. CntMax
    BY <1>2, RegRanges, Widths
  <2> HIDE DEF CntMax, Dec
  <2> QED BY <1>1, <2>1, <2>2 DEF ReadTick, SrcCounters
<1>4. read_fsm' \in {"IDLE", "ON"}
  BY <1>1 DEF ReadTick, ReadState
<1>5. read_ptr' \in Int /\ trsp_ptr' \in Int /\ read_ptr_valid' \in Int
  <2>1. /\ regs.src_ptr \in Int /\ regs.src_ptr_inc_d1 \in Int
        /\ regs.src_ptr_inc_d2 \in Int
    BY <1>2 DEF RegFile
  <2>2. read_ptr \in Int /\ trsp_ptr \in Int /\ read_ptr_valid \in Int
    BY DEF TypeOK
  <2>3. trsp_ptr' \in Int /\ read_ptr_valid' \in Int
    BY <1>1, <2>1, <2>2 DEF ReadTick, ReadPointers, LanePointer
  <2>4. read_ptr' \in Int
    BY <1>1, <2>1, <2>2 DEF ReadTick, ReadPointers
  <2> QED BY <2>3, <2>4
<1>6. read_pending' \in Seq(Int) /\ Len(read_pending') <= 1
  <2>1. /\ read_pending \in Seq(Int) /\ Len(read_pending) <= 1
        /\ read_ptr \in Int
    BY DEF TypeOK
  <2>2. in.rgnt => read_pending = <<>> \/ in.rvalid
    BY DEF Cycle, BusAllowed
  <2>3. read_pending' = InFlight(read_pending, in.rgnt, read_ptr, in.rvalid)
    BY <1>1 DEF ReadTick, ReadBus
  <2> QED BY <2>1, <2>2, <2>3, SignalTypes, InFlightLen
<1>7. read_fifo' \in Seq(Elements)
  <2>1. read_fifo' = FifoNext(read_fifo, in.rvalid,
                              << Head(read_pending), read_ptr_valid >>, pop)
    BY <1>1 DEF ReadTick, ReadFifo
  <2>2. in.rvalid => << Head(read_pending), read_ptr_valid >> \in Elements
    <3>1. in.rvalid => Head(read_pending) \in Int
      BY SignalTypes DEF TypeOK
    <3> QED BY <3>1 DEF TypeOK, Elements
  <2>3. pop \in BOOLEAN
    BY DEF read_fifo_pop, write_fifo_push
  <2>4. read_fifo \in Seq(Elements)
    BY DEF TypeOK
  <2> QED BY <2>1, <2>2, <2>3, <2>4, SignalTypes, FifoType
<1> QED BY <1>3, <1>4, <1>5, <1>6, <1>7

LEMMA AddrType ==
    ASSUME TypeOK, NEW in \in BusInputs, NEW sw \in Accesses, Cycle(in, sw)
    PROVE  /\ addr_fsm' \in {"IDLE", "ON"}
           /\ addr_cnt' \in 0 .. SizeMax
           /\ addr_ptr_reg' \in Int
           /\ addr_pending' \in Seq(Int) /\ Len(addr_pending') <= 1
           /\ addr_fifo' \in Seq(Int)
<1> DEFINE pop == dma_state = "RUNNING" /\ in.wgnt
<1>1. AddrTick(dma_start, in.agnt, in.avalid, pop, in.stop)
  BY DEF Cycle
<1>2. regs.size_d1 \in 0 .. SizeMax /\ regs.addr_ptr \in Int
  BY DEF TypeOK, RegFile
<1>3. addr_fsm' \in {"IDLE", "ON"}
  BY <1>1 DEF AddrTick
<1>4. addr_cnt' \in 0 .. SizeMax
  <2>1. in.agnt => addr_cnt # 0
    BY DEF Cycle, BusAllowed, data_addr_in_req
  <2>2. addr_cnt \in 0 .. SizeMax
    BY DEF TypeOK
  <2>3. addr_cnt # 0 => addr_cnt - 1 \in 0 .. SizeMax
    BY <2>2, Widths
  <2> QED BY <1>1, <1>2, <2>1, <2>2, <2>3 DEF AddrTick
<1>5. addr_ptr_reg' \in Int
  BY <1>1, <1>2 DEF AddrTick, TypeOK
<1>6. addr_pending' \in Seq(Int) /\ Len(addr_pending') <= 1
  <2>1. /\ addr_pending \in Seq(Int) /\ Len(addr_pending) <= 1
        /\ addr_ptr_reg \in Int
    BY DEF TypeOK
  <2>2. in.agnt => addr_pending = <<>> \/ in.avalid
    BY DEF Cycle, BusAllowed
  <2>3. addr_pending' = InFlight(addr_pending, in.agnt, addr_ptr_reg, in.avalid)
    BY <1>1 DEF AddrTick
  <2> QED BY <2>1, <2>2, <2>3, SignalTypes, InFlightLen
<1>7. addr_fifo' \in Seq(Int)
  <2>1. addr_fifo' = FifoNext(addr_fifo, in.avalid, Head(addr_pending),
                              pop /\ address_mode)
    BY <1>1 DEF AddrTick
  <2>2. in.avalid => Head(addr_pending) \in Int
    BY SignalTypes DEF TypeOK
  <2>3. (pop /\ address_mode) \in BOOLEAN
    OBVIOUS
  <2>4. addr_fifo \in Seq(Int)
    BY DEF TypeOK
  <2> QED BY <2>1, <2>2, <2>3, <2>4, SignalTypes, FifoType
<1> QED BY <1>3, <1>4, <1>5, <1>6, <1>7

(* The word that the padding FSM pushes is a source word or the zero.      *)
LEMMA PushedType ==
    ASSUME TypeOK
    PROVE  /\ pad_push \in BOOLEAN
           /\ pad_push => write_fifo_input(read_fifo) \in Elements
<1>1. pad_push \in BOOLEAN
  BY DEF pad_push, write_fifo_push
<1>2. ASSUME pad_push
      PROVE  write_fifo_input(read_fifo) \in Elements
  <2>1. CASE pad_on
    BY <2>1 DEF write_fifo_input, Zero, Elements
  <2>2. CASE ~pad_on
    <3>1. read_fifo # << >> /\ read_fifo \in Seq(Elements)
      BY <1>2, <2>2 DEF pad_push, write_fifo_push, TypeOK
    <3>2. Head(read_fifo) \in Elements
      BY <3>1
    <3> QED BY <2>2, <3>2 DEF write_fifo_input
  <2> QED BY <2>1, <2>2
<1> QED BY <1>1, <1>2

LEMMA PadType ==
    ASSUME TypeOK, NEW in \in BusInputs, NEW sw \in Accesses, Cycle(in, sw)
    PROVE  /\ pad_fsm_on' \in BOOLEAN /\ pad_state' \in PadStates
           /\ pad_cnt_d1' \in 0 .. CntMax /\ pad_cnt_d2' \in 0 .. CntMax
<1>1. PadTick(dma_start, dma_done, pad_push, write_fifo)
  BY DEF Cycle
<1>2. regs \in RegFile
  BY DEF TypeOK
<1>3. pad_fsm_on' \in BOOLEAN
  BY <1>1 DEF PadTick, TypeOK
<1>4. pad_state' \in PadStates
  <2>1. pad_state \in PadStates
    BY DEF TypeOK
  <2>2. pad_state_d(pad_push) \in PadStates
    BY <2>1 DEF pad_state_d, PadStates
  <2> QED BY <1>1, <2>1, <2>2 DEF PadTick, PadState
<1>5. pad_cnt_d1' \in 0 .. CntMax /\ pad_cnt_d2' \in 0 .. CntMax
  <2>1. /\ pad_cnt_d1 \in 0 .. CntMax /\ pad_cnt_d2 \in 0 .. CntMax
        /\ Dec(pad_cnt_d1) \in 0 .. CntMax /\ Dec(pad_cnt_d2) \in 0 .. CntMax
    BY DecRange DEF TypeOK
  <2>2. /\ RowLen(regs) \in 0 .. CntMax /\ 0 \in 0 .. CntMax
        /\ regs.pad_top + regs.size_d2 + regs.pad_bottom \in 0 .. CntMax
    BY <1>2, RegRanges, Widths
  <2> QED BY <1>1, <2>1, <2>2 DEF PadTick, PadCounters
<1> QED BY <1>3, <1>4, <1>5

LEMMA WriteType ==
    ASSUME TypeOK, NEW in \in BusInputs, NEW sw \in Accesses, Cycle(in, sw)
    PROVE  /\ write_fsm' \in {"IDLE", "ON"}
           /\ dst_cnt_d1' \in 0 .. CntMax
           /\ write_ptr' \in Int
           /\ write_fifo' \in Seq(Elements)
<1> DEFINE pop == dma_state = "RUNNING" /\ in.wgnt
<1>1. WriteTick(dma_start, dma_done, pad_push, write_fifo_input(read_fifo),
                in.wgnt, pop)
  BY DEF Cycle
<1>2. regs \in RegFile
  BY DEF TypeOK
<1>3. write_fsm' \in {"IDLE", "ON"}
  BY <1>1 DEF WriteTick
<1>4. dst_cnt_d1' \in 0 .. CntMax
  <2>1. dst_cnt_d1 \in 0 .. CntMax /\ Dec(dst_cnt_d1) \in 0 .. CntMax
    BY DecRange DEF TypeOK
  <2>2. RowLen(regs) \in 0 .. CntMax /\ 0 \in 0 .. CntMax
    BY <1>2, RegRanges, Widths
  <2> QED BY <1>1, <2>1, <2>2 DEF WriteTick, WritePointers
<1>5. write_ptr' \in Int
  <2>1. /\ regs.dst_ptr \in Int /\ regs.dst_ptr_inc_d1 \in Int
        /\ regs.dst_ptr_inc_d2 \in Int /\ write_ptr \in Int
    BY <1>2 DEF RegFile, TypeOK
  <2> QED BY <1>1, <2>1 DEF WriteTick, WritePointers
<1>6. write_fifo' \in Seq(Elements)
  <2>1. write_fifo' = FallThroughNext(write_fifo, pad_push,
                                      write_fifo_input(read_fifo), pop)
    BY <1>1 DEF WriteTick
  <2>2. pop \in BOOLEAN
    OBVIOUS
  <2>3. write_fifo \in Seq(Elements)
    BY DEF TypeOK
  <2> QED BY <2>1, <2>2, <2>3, PushedType, FallThroughType
<1> QED BY <1>3, <1>4, <1>5, <1>6

LEMMA MainType ==
    ASSUME TypeOK, NEW in \in BusInputs, NEW sw \in Accesses, Cycle(in, sw)
    PROVE  /\ dma_state' \in {"READY", "STARTING", "RUNNING"}
           /\ start_pending' \in BOOLEAN
           /\ transaction_ifr' \in BOOLEAN /\ done_intr' \in BOOLEAN
           /\ window_ifr' \in BOOLEAN /\ window_intr' \in BOOLEAN
           /\ window_counter' \in 0 .. WindowMax
           /\ window_count' \in 0 .. WindowCountMax
           /\ window_done' \in BOOLEAN
           /\ out' \in Seq(Int \X Elements)
<1>1. dma_state' \in {"READY", "STARTING", "RUNNING"}
  BY DEF Cycle, MainFsm, TypeOK
<1>2. start_pending' \in BOOLEAN
  BY DEF Cycle, StartPending, TypeOK
<1>3. /\ transaction_ifr' \in BOOLEAN /\ done_intr' \in BOOLEAN
      /\ window_ifr' \in BOOLEAN /\ window_intr' \in BOOLEAN
  BY DEF Cycle, TransactionIfr, WindowIfr, TypeOK
<1>4. window_done' \in BOOLEAN
  BY DEF Cycle, WindowCounters, TypeOK
<1>5. window_counter' \in 0 .. WindowMax
  <2>1. /\ window_counter \in 0 .. WindowMax
        /\ regs.window_size \in 0 .. WindowMax /\ 0 \in 0 .. WindowMax
    BY Widths DEF TypeOK, RegFile
  <2>2. ~(window_counter + 1 >= regs.window_size)
          => window_counter + 1 \in 0 .. WindowMax
    BY <2>1, Widths
  <2> QED BY <2>1, <2>2 DEF Cycle, WindowCounters
<1>6. window_count' \in 0 .. WindowCountMax
  <2>1. window_count \in 0 .. WindowCountMax /\ 0 \in 0 .. WindowCountMax
    BY Widths DEF TypeOK
  <2>2. (window_count + 1) % (WindowCountMax + 1) \in 0 .. WindowCountMax
    BY <2>1 DEF WindowCountMax
  <2> QED BY <2>1, <2>2 DEF Cycle, WindowCounters
<1>7. out' \in Seq(Int \X Elements)
  <2>1. out \in Seq(Int \X Elements)
    BY DEF TypeOK
  <2>2. ASSUME in.wgnt
        PROVE  << write_address(addr_fifo),
                  write_fifo_output(write_fifo_input(read_fifo)) >>
                 \in Int \X Elements
    <3>1. data_out_req(pad_push, in.tx, addr_fifo)
      BY <2>2 DEF Cycle, BusAllowed
    <3>2. write_address(addr_fifo) \in Int
      <4>1. CASE address_mode
        <5>1. addr_fifo # << >> /\ addr_fifo \in Seq(Int)
          BY <3>1, <4>1 DEF data_out_req, TypeOK
        <5>2. Head(addr_fifo) \in Int
          BY <5>1
        <5> QED BY <4>1, <5>2 DEF write_address
      <4>2. CASE ~address_mode
        BY <4>2 DEF write_address, TypeOK
      <4> QED BY <4>1, <4>2
    <3>3. write_fifo_output(write_fifo_input(read_fifo)) \in Elements
      <4>1. CASE write_fifo = << >>
        BY <3>1, <4>1, PushedType
           DEF data_out_req, write_fifo_empty, write_fifo_output
      <4>2. CASE write_fifo # << >>
        <5>1. Head(write_fifo) \in Elements
          BY <4>2 DEF TypeOK
        <5> QED BY <4>2, <5>1 DEF write_fifo_output
      <4> QED BY <4>1, <4>2
    <3> QED BY <3>2, <3>3
  <2>3. CASE dma_start
    BY <2>3, EmptySeq DEF Cycle, Written
  <2>4. CASE ~dma_start /\ in.wgnt
    <3>1. out' = Append(out, << write_address(addr_fifo),
                     write_fifo_output(write_fifo_input(read_fifo)) >>)
      BY <2>4 DEF Cycle, Written
    <3> QED BY <2>1, <2>2, <2>4, <3>1, AppendProperties
  <2>5. CASE ~dma_start /\ ~in.wgnt
    BY <2>1, <2>5 DEF Cycle, Written
  <2> QED BY <2>3, <2>4, <2>5
<1> QED BY <1>1, <1>2, <1>3, <1>4, <1>5, <1>6, <1>7

(* Every register of the channel keeps its type in every reachable state,  *)
(* and neither read master ever has two reads in flight.                   *)
THEOREM TypeCorrect == Spec => []TypeOK
<1>1. Init => TypeOK
  <2> SUFFICES ASSUME Init PROVE TypeOK
    OBVIOUS
  <2>1. ResetRegs \in RegFile
    BY Widths DEF ResetRegs, RegFile, Modes
  <2>2. /\ 0 \in 0 .. CntMax /\ 0 \in 0 .. SizeMax
        /\ 0 \in 0 .. WindowMax /\ 0 \in 0 .. WindowCountMax
    BY Widths
  <2>3. /\ << >> \in Seq(Int) /\ << >> \in Seq(Elements)
        /\ << >> \in Seq(Int \X Elements) /\ Len(<< >>) <= 1
    BY EmptySeq
  <2>4. /\ read_fsm \in {"IDLE", "ON"} /\ addr_fsm \in {"IDLE", "ON"}
        /\ write_fsm \in {"IDLE", "ON"} /\ pad_state \in PadStates
        /\ dma_state \in {"READY", "STARTING", "RUNNING"}
    BY DEF Init, ReadInit, PadInit, WriteInit, PadStates
  <2>5. /\ read_fifo = << >> /\ write_fifo = << >> /\ addr_fifo = << >>
        /\ read_pending = << >> /\ addr_pending = << >> /\ out = << >>
        /\ regs = ResetRegs
    BY DEF Init, ReadInit, WriteInit
  <2>6. /\ src_cnt_d1 = 0 /\ src_cnt_d2 = 0 /\ addr_cnt = 0
        /\ read_ptr = 0 /\ trsp_ptr = 0 /\ read_ptr_valid = 0
        /\ addr_ptr_reg = 0 /\ write_ptr = 0 /\ dst_cnt_d1 = 0
        /\ pad_cnt_d1 = 0 /\ pad_cnt_d2 = 0
        /\ window_counter = 0 /\ window_count = 0
    BY DEF Init, ReadInit, PadInit, WriteInit
  <2>7. /\ pad_fsm_on \in BOOLEAN /\ start_pending \in BOOLEAN
        /\ transaction_ifr \in BOOLEAN /\ done_intr \in BOOLEAN
        /\ window_ifr \in BOOLEAN /\ window_intr \in BOOLEAN
        /\ window_done \in BOOLEAN
    BY DEF Init, PadInit
  <2> QED BY <2>1, <2>2, <2>3, <2>4, <2>5, <2>6, <2>7 DEF TypeOK
<1>2. TypeOK /\ [Next]_vars => TypeOK'
  <2>1. CASE UNCHANGED vars
    BY <2>1 DEF TypeOK, vars, readVars, addrVars, padVars, writeVars, mainVars
  <2>2. ASSUME TypeOK, NEW in \in BusInputs, NEW sw \in Accesses, Cycle(in, sw)
        PROVE  TypeOK'
    <3>1. regs' \in RegFile
      BY <2>2, RegsType DEF Cycle
    <3> QED BY <2>2, <3>1, ReadType, AddrType, PadType, WriteType, MainType
            DEF TypeOK
  <2> QED BY <2>1, <2>2 DEF Next
<1> QED BY <1>1, <1>2, PTL DEF Spec

-----------------------------------------------------------------------------
(* No word is lost at a full FIFO.  TypeOK /\ FifosHaveRoom is inductive:  *)
(* a request is made only below Depth - 1 words, and the one read that can *)
(* be in flight is counted with the words that have arrived.               *)

(* A read master with its FIFO: q the FIFO, f the reads in flight.         *)
LEMMA RoomStep ==
    ASSUME NEW S, NEW q \in Seq(S), NEW f \in Seq(Int),
           Len(f) <= 1, Len(q) + Len(f) <= Depth,
           NEW gnt \in BOOLEAN, NEW rvalid \in BOOLEAN, NEW pop \in BOOLEAN,
           NEW d, rvalid => d \in S, NEW a \in Int,
           rvalid => f # <<>>, gnt => f = <<>> \/ rvalid,
           gnt => ~full(q) /\ ~alm_full(q)
    PROVE  Len(FifoNext(q, rvalid, d, pop)) + Len(InFlight(f, gnt, a, rvalid))
             <= Depth
<1> DEFINE q1 == FifoNext(q, rvalid, d, pop)
           f1 == InFlight(f, gnt, a, rvalid)
<1>1. Len(q) \in Nat /\ Len(f) \in Nat /\ Depth \in Nat
  BY DepthAssumption
<1>2. /\ Len(f1) <= 1 /\ f1 \in Seq(Int)
      /\ ~gnt /\ rvalid => Len(f1) = Len(f) - 1
      /\ ~gnt /\ ~rvalid => Len(f1) = Len(f)
  BY InFlightLen
<1>3. Len(f1) \in Nat
  BY <1>2
<1>4. /\ Len(q1) \in Nat /\ Len(q1) <= Len(q) + 1
      /\ ~rvalid => Len(q1) <= Len(q)
  BY FifoLen
<1> HIDE DEF q1, f1
<1>5. CASE gnt
  <2>1. Len(q) # Depth /\ Len(q) # Depth - 1
    BY <1>5 DEF full, alm_full
  <2>2. Len(q) + 2 <= Depth
    BY <1>1, <2>1
  <2> QED BY <1>1, <1>2, <1>3, <1>4, <2>2 DEF q1, f1
<1>6. CASE ~gnt /\ rvalid
  <2>1. Len(f1) = Len(f) - 1
    BY <1>2, <1>6
  <2> QED BY <1>1, <1>3, <1>4, <2>1 DEF q1, f1
<1>7. CASE ~gnt /\ ~rvalid
  <2>1. Len(f1) = Len(f) /\ Len(q1) <= Len(q)
    BY <1>2, <1>4, <1>7
  <2> QED BY <1>1, <1>3, <1>4, <2>1 DEF q1, f1
<1> QED BY <1>5, <1>6, <1>7

(* The write FIFO: pushed only below Depth - 1 words.                      *)
LEMMA WriteRoomStep ==
    ASSUME NEW S, NEW q \in Seq(S), Len(q) < Depth,
           NEW push \in BOOLEAN, NEW pop \in BOOLEAN, NEW d, push => d \in S,
           push => write_fifo_en(q)
    PROVE  Len(FallThroughNext(q, push, d, pop)) < Depth
<1>1. Len(q) \in Nat /\ Depth \in Nat /\ Depth >= 2
  BY DepthAssumption
<1>2. Len(<< >>) < Depth
  BY <1>1, EmptySeq
<1>3. /\ Len(FifoNext(q, push, d, pop)) \in Nat
      /\ Len(FifoNext(q, push, d, pop)) <= Len(q) + 1
      /\ ~push => Len(FifoNext(q, push, d, pop)) <= Len(q)
  BY FifoLen
<1>4. CASE push
  <2>1. Len(q) # Depth /\ Len(q) # Depth - 1
    BY <1>4 DEF write_fifo_en, full, alm_full
  <2>2. Len(FifoNext(q, push, d, pop)) < Depth
    BY <1>1, <1>3, <2>1
  <2> QED BY <1>2, <2>2 DEF FallThroughNext
<1>5. CASE ~push
  <2>1. Len(FifoNext(q, push, d, pop)) <= Len(q)
    BY <1>3, <1>5
  <2>2. Len(FifoNext(q, push, d, pop)) < Depth
    BY <1>1, <1>3, <2>1
  <2> QED BY <1>5, <2>2 DEF FallThroughNext
<1> QED BY <1>4, <1>5

(* The assertions of fifo_v3 hold for every depth of at least two: the     *)
(* read that is in flight always finds room in its FIFO, and the padding   *)
(* FSM never pushes into a full write FIFO.                                *)
THEOREM FifoSafety == Spec => []FifosHaveRoom
<1>1. Init => FifosHaveRoom
  <2>1. Len(<< >>) = 0
    BY EmptySeq
  <2> QED BY <2>1, DepthAssumption DEF Init, ReadInit, WriteInit, FifosHaveRoom
<1>2. TypeOK /\ FifosHaveRoom /\ [Next]_vars => FifosHaveRoom'
  <2>1. CASE UNCHANGED vars
    BY <2>1 DEF FifosHaveRoom, vars, readVars, addrVars, writeVars
  <2>2. ASSUME TypeOK, FifosHaveRoom,
               NEW in \in BusInputs, NEW sw \in Accesses, Cycle(in, sw)
        PROVE  FifosHaveRoom'
    <3> DEFINE rpop == read_fifo_pop(read_fifo, write_fifo)
               wpop == dma_state = "RUNNING" /\ in.wgnt
    <3>1. Len(read_fifo') + Len(read_pending') <= Depth
      <4>1. /\ read_fifo' = FifoNext(read_fifo, in.rvalid,
                              << Head(read_pending), read_ptr_valid >>, rpop)
            /\ read_pending' = InFlight(read_pending, in.rgnt, read_ptr, in.rvalid)
        BY <2>2 DEF Cycle, ReadTick, ReadFifo, ReadBus
      <4>2. in.rvalid => << Head(read_pending), read_ptr_valid >> \in Elements
        <5>1. in.rvalid => Head(read_pending) \in Int
          BY <2>2, SignalTypes DEF TypeOK
        <5> QED BY <2>2, <5>1 DEF TypeOK, Elements
      <4>3. /\ in.rgnt => read_pending = <<>> \/ in.rvalid
            /\ in.rgnt => ~full(read_fifo) /\ ~alm_full(read_fifo)
        BY <2>2 DEF Cycle, BusAllowed, data_in_req
      <4>4. rpop \in BOOLEAN
        BY DEF read_fifo_pop, write_fifo_push
      <4>5. /\ read_fifo \in Seq(Elements) /\ read_pending \in Seq(Int)
            /\ Len(read_pending) <= 1 /\ read_ptr \in Int
            /\ Len(read_fifo) + Len(read_pending) <= Depth
        BY <2>2 DEF TypeOK, FifosHaveRoom
      <4>6. /\ in.rgnt \in BOOLEAN /\ in.rvalid \in BOOLEAN
            /\ in.rvalid => read_pending # <<>>
        BY <2>2, SignalTypes
      <4> HIDE DEF rpop
      <4> QED BY <4>1, <4>2, <4>3, <4>4, <4>5, <4>6, RoomStep
    <3>2. Len(addr_fifo') + Len(addr_pending') <= Depth
      <4>1. /\ addr_fifo' = FifoNext(addr_fifo, in.avalid, Head(addr_pending),
                                     wpop /\ address_mode)
            /\ addr_pending' = InFlight(addr_pending, in.agnt, addr_ptr_reg,
                                        in.avalid)
        BY <2>2 DEF Cycle, AddrTick
      <4>2. in.avalid => Head(addr_pending) \in Int
        BY <2>2, SignalTypes DEF TypeOK
      <4>3. /\ in.agnt => addr_pending = <<>> \/ in.avalid
            /\ in.agnt => ~full(addr_fifo) /\ ~alm_full(addr_fifo)
        BY <2>2 DEF Cycle, BusAllowed, data_addr_in_req
      <4>4. (wpop /\ address_mode) \in BOOLEAN
        OBVIOUS
      <4>5. /\ addr_fifo \in Seq(Int) /\ addr_pending \in Seq(Int)
            /\ Len(addr_pending) <= 1 /\ addr_ptr_reg \in Int
            /\ Len(addr_fifo) + Len(addr_pending) <= Depth
        BY <2>2 DEF TypeOK, FifosHaveRoom
      <4>6. /\ in.agnt \in BOOLEAN /\ in.avalid \in BOOLEAN
            /\ in.avalid => addr_pending # <<>>
        BY <2>2, SignalTypes
      <4> HIDE DEF wpop
      <4> QED BY <4>1, <4>2, <4>3, <4>4, <4>5, <4>6, RoomStep
    <3>3. Len(write_fifo') < Depth
      <4>1. write_fifo' = FallThroughNext(write_fifo, pad_push,
                                          write_fifo_input(read_fifo), wpop)
        BY <2>2 DEF Cycle, WriteTick
      <4>2. pad_push => write_fifo_en(write_fifo)
        BY DEF pad_push, write_fifo_push
      <4>3. write_fifo \in Seq(Elements) /\ Len(write_fifo) < Depth
        BY <2>2 DEF TypeOK, FifosHaveRoom
      <4>4. wpop \in BOOLEAN
        OBVIOUS
      <4> HIDE DEF wpop
      <4> QED BY <2>2, <4>1, <4>2, <4>3, <4>4, PushedType, WriteRoomStep
    <3> QED BY <3>1, <3>2, <3>3 DEF FifosHaveRoom
  <2> QED BY <2>1, <2>2 DEF Next
<1> QED BY <1>1, <1>2, TypeCorrect, PTL DEF Spec

-----------------------------------------------------------------------------
(* The window counters follow the number of writes.                        *)

(* One more write: the quotient and the rest by the window size.           *)
LEMMA DivStep ==
    ASSUME NEW n \in Nat, NEW w \in Nat \ {0}
    PROVE  /\ (n % w) + 1 >= w => (n + 1) % w = 0 /\ (n + 1) \div w = (n \div w) + 1
           /\ (n % w) + 1 < w => (n + 1) % w = (n % w) + 1 /\ (n + 1) \div w = n \div w
           /\ n \div w \in Nat /\ (n % w) \in Nat
OBVIOUS

(* A counter of eight bits that wraps.                                     *)
LEMMA CountStep ==
    ASSUME NEW k \in Nat
    PROVE  ((k % (WindowCountMax + 1)) + 1) % (WindowCountMax + 1)
             = (k + 1) % (WindowCountMax + 1)
BY DEF WindowCountMax

(* The registers that say what a window is do not change while a transfer  *)
(* runs: only a launch writes them, and a launch needs a ready channel.    *)
LEMMA WindowSizeKept ==
    ASSUME TypeOK, NEW sw \in Accesses, AccessAllowed(sw), RegsNext(sw),
           dma_state # "READY"
    PROVE  regs'.window_size = regs.window_size
<1>1. sw.op # "launch"
  BY DEF AccessAllowed, ReadyForLaunch
<1>2. DOMAIN regs = DOMAIN [ regs EXCEPT !.mode = "LINEAR" ]
  OBVIOUS
<1> QED BY <1>1 DEF RegsNext, TypeOK, RegFile

(* No window is announced early, twice or not at all, for every window     *)
(* size, every length of a transfer and every order of grants.  The        *)
(* invariant is inductive with TypeOK: the step that starts a transfer     *)
(* resets the history and both counters, and a write moves all three.      *)
THEOREM WindowSafety == Spec => []WindowsExact
<1>1. Init => WindowsExact
  BY DEF Init, WindowsExact
<1>2. TypeOK /\ WindowsExact /\ [Next]_vars => WindowsExact'
  <2>1. CASE UNCHANGED vars
    BY <2>1 DEF WindowsExact, vars, mainVars
  <2>2. ASSUME TypeOK, WindowsExact,
               NEW in \in BusInputs, NEW sw \in Accesses, Cycle(in, sw)
        PROVE  WindowsExact'
    <3> DEFINE n == Len(out)
               w == regs.window_size
    <3>0. /\ n \in Nat /\ w \in Nat
          /\ dma_state \in {"READY", "STARTING", "RUNNING"}
      BY <2>2, Widths DEF TypeOK, RegFile
    <3> SUFFICES ASSUME dma_state' = "RUNNING", regs'.window_size # 0
                 PROVE  /\ window_count' = (Len(out') \div regs'.window_size)
                                               % (WindowCountMax + 1)
                        /\ window_counter' = Len(out') % regs'.window_size
      BY DEF WindowsExact
    <3>1. dma_state # "READY" /\ (dma_state = "RUNNING" => ~dma_done)
      BY <2>2 DEF Cycle, MainFsm
    <3>2. regs'.window_size = w /\ w # 0
      BY <2>2, <3>1, WindowSizeKept DEF Cycle
    <3>3. WindowCounters(sw, in.wgnt) /\ Written(in.wgnt)
      BY <2>2 DEF Cycle
    <3>4. CASE dma_start
      <4>1. out' = << >> /\ window_counter' = 0 /\ window_count' = 0
        BY <3>2, <3>3, <3>4 DEF WindowCounters, Written
      <4>2. Len(out') = 0
        BY <4>1
      <4>3. 0 \div w = 0 /\ 0 % w = 0 /\ 0 % (WindowCountMax + 1) = 0
        BY <3>0, <3>2 DEF WindowCountMax
      <4> QED BY <3>2, <4>1, <4>2, <4>3
    <3>5. CASE ~dma_start
      <4>1. dma_state = "RUNNING" /\ ~dma_done
        BY <3>0, <3>1, <3>5 DEF dma_start
      <4>2. window_count = (n \div w) % (WindowCountMax + 1) /\ window_counter = n % w
        BY <2>2, <3>2, <4>1 DEF WindowsExact
      <4>3. CASE ~in.wgnt
        <5>1. /\ out' = out /\ window_counter' = window_counter
              /\ window_count' = window_count
          BY <3>2, <3>3, <3>5, <4>1, <4>3
             DEF WindowCounters, Written, window_event
        <5> QED BY <3>2, <4>2, <5>1
      <4>4. CASE in.wgnt
        <5>1. Len(out') = n + 1
          <6>1. out' = Append(out, << write_address(addr_fifo),
                                write_fifo_output(write_fifo_input(read_fifo)) >>)
            BY <3>3, <3>5, <4>4 DEF Written
          <6>2. out \in Seq(Int \X Elements)
            BY <2>2 DEF TypeOK
          <6> QED BY <6>1, <6>2, AppendProperties
        <5>2. CASE window_counter + 1 >= w
          <6>1. window_counter' = 0
                /\ window_count' = (window_count + 1) % (WindowCountMax + 1)
            BY <3>2, <3>3, <3>5, <4>1, <4>4, <5>2 DEF WindowCounters, window_event
          <6>2. /\ (n + 1) % w = 0 /\ (n + 1) \div w = (n \div w) + 1
                /\ n \div w \in Nat
            BY <3>0, <3>2, <4>2, <5>2, DivStep
          <6>3. window_count' = ((n + 1) \div w) % (WindowCountMax + 1)
            BY <4>2, <6>1, <6>2, CountStep
          <6> QED BY <3>2, <5>1, <6>1, <6>2, <6>3
        <5>3. CASE ~(window_counter + 1 >= w)
          <6>1. window_counter' = window_counter + 1 /\ window_count' = window_count
            BY <3>2, <3>3, <3>5, <4>1, <4>4, <5>3 DEF WindowCounters, window_event
          <6>2. (n % w) + 1 < w
            BY <3>0, <3>2, <4>2, <5>3, DivStep
          <6>3. (n + 1) % w = (n % w) + 1 /\ (n + 1) \div w = n \div w
            BY <3>0, <3>2, <6>2, DivStep
          <6> QED BY <3>2, <4>2, <5>1, <6>1, <6>3
        <5> QED BY <5>2, <5>3
      <4> QED BY <4>3, <4>4
    <3> QED BY <3>4, <3>5
  <2> QED BY <2>1, <2>2 DEF Next
<1> QED BY <1>1, <1>2, TypeCorrect, PTL DEF Spec

-----------------------------------------------------------------------------
(* A ready channel is drained: for every stop, and every set of register   *)
(* settings that end with the last word of the source or with padding.     *)
(*                                                                         *)
(* The argument counts: the source words that the padding FSM has still to *)
(* push are those not requested, in flight or in the read FIFO.  For that  *)
(* the FSM must insert its zeros exactly where the frame has them, so the  *)
(* invariant places each of its states in the frame.                       *)

(* The settings of the theorem.  A single row has no padding and a matrix  *)
(* has rows; addresses are read for single rows.  Padding above or to the  *)
(* left comes with padding below or to the right: without it the FSM       *)
(* leaves for its idle state before the last word has arrived.             *)
Suitable(c) ==
    /\ c.size_d1 > 0
    /\ c.dim_config = Dim1 =>
         c.pad_top = 0 /\ c.pad_bottom = 0 /\ c.pad_left = 0 /\ c.pad_right = 0
    /\ c.dim_config = Dim2 =>
         /\ c.size_d2 > 0 /\ c.mode # "ADDRESS"
         /\ c.pad_top # 0 \/ c.pad_left # 0 => c.pad_bottom # 0 \/ c.pad_right # 0

SettingsSuit == \A c \in Configs : Suitable(c)

-----------------------------------------------------------------------------
(* Where the padding FSM is in the frame of setting c: d1 words to come in *)
(* the row, d2 rows to come with the current one.                          *)

InTop(c, d2)    == d2 > c.size_d2 + c.pad_bottom
InBottom(c, d2) == d2 <= c.pad_bottom
InRows(c, d2)   == ~InTop(c, d2) /\ ~InBottom(c, d2)
InLeft(c, d1)   == d1 > c.size_d1 + c.pad_right
InRight(c, d1)  == d1 <= c.pad_right

AtData(c, d1, d2) == InRows(c, d2) /\ ~InLeft(c, d1) /\ ~InRight(c, d1)

FramesBefore(c) == c.pad_top # 0 \/ c.pad_left # 0

Placed(c, state, d1, d2, fresh) ==
    \/ state = "IDLE" /\ ~FramesBefore(c) /\ AtData(c, d1, d2)
    \/ state = "IDLE" /\ FramesBefore(c) /\ fresh
    \/ state = "TOP_EXEC" /\ c.pad_top # 0 /\ InTop(c, d2)
    \/ state = "TOP_DONE" /\ c.pad_top # 0 /\ c.pad_left = 0 /\ AtData(c, d1, d2)
    \/ state = "LEFT_EXEC" /\ c.pad_left # 0 /\ InRows(c, d2) /\ InLeft(c, d1)
    \/ state = "LEFT_DONE" /\ c.pad_left # 0 /\ AtData(c, d1, d2)
    \/ state = "RIGHT_EXEC" /\ c.pad_right # 0 /\ InRows(c, d2) /\ InRight(c, d1)
    \/ state = "RIGHT_DONE" /\ c.pad_right # 0 /\ c.pad_left = 0 /\ AtData(c, d1, d2)
    \/ state = "BOTTOM_EXEC" /\ c.pad_bottom # 0 /\ InBottom(c, d2)

(* The first cycle of a transfer.                                          *)
Fresh ==
    /\ pad_cnt_d1 = RowLen(regs) /\ pad_cnt_d2 = Rows(regs)
    /\ read_fifo = << >> /\ write_fifo = << >>

PadsInPlace ==
    IF conf_1d \/ pad_cnt_d2 = 0
    THEN pad_state = "IDLE"
    ELSE /\ pad_cnt_d1 \in 1 .. RowLen(regs) /\ pad_cnt_d2 \in 1 .. Rows(regs)
         /\ Placed(regs, pad_state, pad_cnt_d1, pad_cnt_d2, Fresh)

-----------------------------------------------------------------------------
(* Source words.                                                           *)

(* Still to request: d1 in the row, n in each of the d2 - 1 rows after it. *)
Rest(d1, d2, n) == IF d2 = 0 THEN 0 ELSE (d2 - 1) * n + d1

ToRequest ==
    IF conf_1d THEN src_cnt_d1 ELSE Rest(src_cnt_d1, src_cnt_d2, regs.size_d1)

(* Still to push: rows of the source among the d2 last of the frame, words *)
(* of the source among the d1 last of a row.                               *)
SourceRows(c, d2) ==
    IF InBottom(c, d2) THEN 0 ELSE IF InTop(c, d2) THEN c.size_d2 ELSE d2 - c.pad_bottom
SourceWords(c, d1) ==
    IF InRight(c, d1) THEN 0 ELSE IF InLeft(c, d1) THEN c.size_d1 ELSE d1 - c.pad_right

SourceRest(c, d1, d2) ==
    IF d2 = 0 THEN 0
    ELSE SourceRows(c, d2 - 1) * c.size_d1
           + (IF InRows(c, d2) THEN SourceWords(c, d1) ELSE 0)

ToPush == IF conf_1d THEN pad_cnt_d1 ELSE SourceRest(regs, pad_cnt_d1, pad_cnt_d2)

(* The data master stops when it has requested everything; its last read   *)
(* is in flight for a cycle at least.                                      *)
SourceCounted ==
    /\ conf_2d => /\ src_cnt_d1 \in 1 .. regs.size_d1
                  /\ src_cnt_d2 = 0 => src_cnt_d1 = regs.size_d1
    /\ ToPush = ToRequest + Len(read_pending) + Len(read_fifo)
    /\ read_fsm = "ON" /\ ToRequest = 0 => read_pending # << >>

(* In address mode every word to write has its address to come; otherwise  *)
(* the address master rests.                                               *)
AddressesRest == addr_fsm = "IDLE" /\ addr_fifo = << >> /\ addr_pending = << >>

AddressesCounted ==
    IF address_mode
    THEN /\ addr_cnt + Len(addr_pending) + Len(addr_fifo) = pad_cnt_d1 + Len(write_fifo)
         /\ addr_fsm = "ON" /\ addr_cnt = 0 => addr_pending # << >>
    ELSE AddressesRest

-----------------------------------------------------------------------------
Drained ==
    /\ read_fifo = << >> /\ read_pending = << >> /\ read_fsm = "IDLE"
    /\ AddressesRest
    /\ write_fifo = << >> /\ write_fsm = "IDLE"
    /\ pad_state = "IDLE" /\ ~pad_fsm_on

Settings == dma_state # "READY" \/ start_pending => Suitable(regs)

DrainInv ==
    /\ Settings
    /\ dma_state # "RUNNING" => Drained
    /\ dma_state = "RUNNING" =>
         /\ write_fsm = "ON" /\ pad_fsm_on
         /\ PadsInPlace /\ SourceCounted /\ AddressesCounted

-----------------------------------------------------------------------------
(* Lengths of the FIFOs.                                                   *)

One(b) == IF b THEN 1 ELSE 0

LEMMA EmptyLen ==
    ASSUME NEW S, NEW q \in Seq(S)
    PROVE  Len(q) \in Nat /\ (Len(q) = 0 <=> q = << >>)
BY EmptySeq

LEMMA RestLen ==
    ASSUME NEW S, NEW q \in Seq(S), NEW pop \in BOOLEAN, pop => q # << >>
    PROVE  LET rest == IF pop THEN Tail(q) ELSE q
           IN  rest \in Seq(S) /\ Len(rest) = Len(q) - One(pop)
<1>1. CASE pop
  <2>1. Tail(q) \in Seq(S) /\ Len(Tail(q)) = Len(q) - 1
    BY <1>1
  <2> QED BY <1>1, <2>1 DEF One
<1>2. CASE ~pop
  BY <1>2 DEF One
<1> QED BY <1>1, <1>2

LEMMA FifoExact ==
    ASSUME NEW S, NEW q \in Seq(S), NEW push \in BOOLEAN, NEW pop \in BOOLEAN,
           NEW d, push => d \in S, push => Len(q) # Depth, pop => q # << >>
    PROVE  Len(FifoNext(q, push, d, pop)) = Len(q) + One(push) - One(pop)
<1> DEFINE rest == IF pop THEN Tail(q) ELSE q
<1>1. rest \in Seq(S) /\ Len(rest) = Len(q) - One(pop)
  BY RestLen
<1>2. FifoNext(q, push, d, pop) = IF push THEN Append(rest, d) ELSE rest
  BY DEF FifoNext, full
<1> HIDE DEF rest
<1>3. push => Len(Append(rest, d)) = Len(rest) + 1
  BY <1>1, AppendProperties
<1>4. Len(q) \in Nat /\ Len(rest) \in Nat
  BY <1>1
<1>5. CASE push
  BY <1>1, <1>2, <1>3, <1>4, <1>5 DEF One
<1>6. CASE ~push
  BY <1>1, <1>2, <1>4, <1>6 DEF One
<1> QED BY <1>5, <1>6

LEMMA FallThroughExact ==
    ASSUME NEW S, NEW q \in Seq(S), NEW push \in BOOLEAN, NEW pop \in BOOLEAN,
           NEW d, push => d \in S, push => Len(q) # Depth, pop => q # << >> \/ push
    PROVE  Len(FallThroughNext(q, push, d, pop)) = Len(q) + One(push) - One(pop)
<1>1. CASE q = << >> /\ push /\ pop
  BY <1>1 DEF FallThroughNext, One
<1>2. CASE ~(q = << >> /\ push /\ pop)
  <2>1. pop => q # << >>
    BY <1>2
  <2>2. FallThroughNext(q, push, d, pop) = FifoNext(q, push, d, pop)
    BY <1>2 DEF FallThroughNext
  <2> QED BY <2>1, <2>2, FifoExact
<1> QED BY <1>1, <1>2

LEMMA InFlightExact ==
    ASSUME NEW q \in Seq(Int), Len(q) <= 1, NEW gnt \in BOOLEAN,
           NEW rvalid \in BOOLEAN, NEW a \in Int,
           rvalid => q # << >>, gnt => q = << >> \/ rvalid
    PROVE  Len(InFlight(q, gnt, a, rvalid)) = Len(q) + One(gnt) - One(rvalid)
<1> DEFINE rest == IF rvalid THEN Tail(q) ELSE q
<1>1. rest \in Seq(Int) /\ Len(rest) = Len(q) - One(rvalid)
  BY RestLen
<1>2. InFlight(q, gnt, a, rvalid) = IF gnt THEN Append(rest, a) ELSE rest
  BY DEF InFlight
<1> HIDE DEF rest
<1>3. gnt => Len(Append(rest, a)) = Len(rest) + 1
  BY <1>1, AppendProperties
<1>4. Len(q) \in Nat /\ Len(rest) \in Nat
  BY <1>1
<1>5. CASE gnt
  BY <1>1, <1>2, <1>3, <1>4, <1>5 DEF One
<1>6. CASE ~gnt
  BY <1>1, <1>2, <1>4, <1>6 DEF One
<1> QED BY <1>5, <1>6

-----------------------------------------------------------------------------
(* Counting words.                                                         *)

(* A row less is n words less.                                             *)
LEMMA RowLess ==
    ASSUME NEW k \in Nat, NEW n \in Nat
    PROVE  k * n \in Nat /\ (k + 1) * n = k * n + n
OBVIOUS

(* A word requested is one less to request.                                *)
LEMMA RestStep ==
    ASSUME NEW n \in Nat \ {0}, NEW d1 \in 1 .. n, NEW d2 \in Nat
    PROVE  /\ Rest(d1, d2, n) \in Nat
           /\ Rest(d1, d2, n) = 0 <=> d2 = 0
           /\ d2 # 0 /\ d1 = 1 => Rest(n, d2 - 1, n) = Rest(d1, d2, n) - 1
           /\ d2 # 0 /\ d1 # 1 => Rest(d1 - 1, d2, n) = Rest(d1, d2, n) - 1
<1>1. CASE d2 = 0
  BY <1>1 DEF Rest
<1>2. CASE d2 = 1
  BY <1>2 DEF Rest
<1>3. CASE d2 >= 2
  <2> DEFINE p == (d2 - 2) * n
  <2>1. p \in Nat /\ (d2 - 1) * n = p + n
    <3>1. d2 - 2 \in Nat /\ (d2 - 2) + 1 = d2 - 1
      BY <1>3
    <3> QED BY <3>1, RowLess
  <2>2. Rest(d1, d2, n) = p + n + d1
    BY <1>3, <2>1 DEF Rest
  <2>3. Rest(n, d2 - 1, n) = p + n
    BY <1>3 DEF Rest
  <2>4. Rest(d1 - 1, d2, n) = p + n + (d1 - 1)
    BY <1>3, <2>1 DEF Rest
  <2> HIDE DEF p
  <2> QED BY <1>3, <2>1, <2>2, <2>3, <2>4
<1> QED BY <1>1, <1>2, <1>3

(* The range of the fields that make the frame.                            *)
LEMMA FrameRange ==
    ASSUME NEW c \in RegFile
    PROVE  /\ c.size_d1 \in Nat /\ c.size_d2 \in Nat
           /\ c.pad_top \in Nat /\ c.pad_bottom \in Nat
           /\ c.pad_left \in Nat /\ c.pad_right \in Nat
           /\ c.dim_config = Dim1 \/ c.dim_config = Dim2
           /\ RowLen(c) = c.pad_left + c.size_d1 + c.pad_right
           /\ c.dim_config = Dim2 => Rows(c) = c.pad_top + c.size_d2 + c.pad_bottom
           /\ RowLen(c) <= CntMax
           /\ c.pad_top + c.size_d2 + c.pad_bottom <= CntMax
<1>1. /\ c.size_d1 \in 0 .. SizeMax /\ c.size_d2 \in 0 .. SizeMax
      /\ c.pad_top \in 0 .. PadMax /\ c.pad_bottom \in 0 .. PadMax
      /\ c.pad_left \in 0 .. PadMax /\ c.pad_right \in 0 .. PadMax
      /\ c.dim_config \in {Dim1, Dim2}
  BY DEF RegFile
<1>2. Dim1 # Dim2
  BY DEF Dim1, Dim2
<1> QED BY <1>1, <1>2, Widths DEF RowLen, Rows

(* Within a row, a word of the source less exactly at a word of the source.*)
LEMMA WordsStep ==
    ASSUME NEW c \in RegFile, NEW d1 \in 1 .. RowLen(c)
    PROVE  /\ SourceWords(c, d1) \in 0 .. c.size_d1
           /\ SourceWords(c, RowLen(c)) = c.size_d1
           /\ d1 # 1 => SourceWords(c, d1 - 1)
                         = SourceWords(c, d1) - One(~InLeft(c, d1) /\ ~InRight(c, d1))
           /\ d1 = 1 => SourceWords(c, d1) = One(~InLeft(c, d1) /\ ~InRight(c, d1))
<1> DEFINE l == c.pad_left  n == c.size_d1  r == c.pad_right
<1>1. l \in Nat /\ n \in Nat /\ r \in Nat /\ RowLen(c) = l + n + r
  BY FrameRange
<1>2. d1 \in Nat /\ 1 <= d1 /\ d1 <= l + n + r
  BY <1>1
<1>3. \A d \in Int :
        SourceWords(c, d) = IF d <= r THEN 0 ELSE IF d > n + r THEN n ELSE d - r
  BY DEF SourceWords, InLeft, InRight
<1>4. One(~InLeft(c, d1) /\ ~InRight(c, d1)) = IF d1 > n + r \/ d1 <= r THEN 0 ELSE 1
  BY DEF InLeft, InRight, One
<1> HIDE DEF l, n, r
<1>5. SourceWords(c, d1) \in 0 .. n
  BY <1>1, <1>2, <1>3
<1>6. SourceWords(c, RowLen(c)) = n
  BY <1>1, <1>2, <1>3
<1>7. d1 # 1 => SourceWords(c, d1 - 1)
                  = SourceWords(c, d1) - One(~InLeft(c, d1) /\ ~InRight(c, d1))
  <2> SUFFICES ASSUME d1 # 1
               PROVE  SourceWords(c, d1 - 1)
                        = SourceWords(c, d1) - One(~InLeft(c, d1) /\ ~InRight(c, d1))
    OBVIOUS
  <2>1. SourceWords(c, d1 - 1) = IF d1 - 1 <= r THEN 0
                                 ELSE IF d1 - 1 > n + r THEN n ELSE (d1 - 1) - r
    BY <1>2, <1>3
  <2>2. SourceWords(c, d1) = IF d1 <= r THEN 0 ELSE IF d1 > n + r THEN n ELSE d1 - r
    BY <1>2, <1>3
  <2> QED BY <1>1, <1>2, <1>4, <2>1, <2>2
<1>8. d1 = 1 => SourceWords(c, d1) = One(~InLeft(c, d1) /\ ~InRight(c, d1))
  BY <1>1, <1>2, <1>3, <1>4
<1> QED BY <1>5, <1>6, <1>7, <1>8 DEF n

(* Rows of the source, and a row less.                                     *)
LEMMA RowsStep ==
    ASSUME NEW c \in RegFile, NEW d2 \in Nat
    PROVE  /\ SourceRows(c, d2) \in Nat
           /\ InRows(c, d2) /\ d2 # 0 =>
                SourceRows(c, d2) = SourceRows(c, d2 - 1) + 1
           /\ ~InRows(c, d2) /\ d2 # 0 => SourceRows(c, d2) = SourceRows(c, d2 - 1)
           /\ d2 = 0 => SourceRows(c, d2) = 0
<1> DEFINE n == c.size_d2  b == c.pad_bottom
<1>1. n \in Nat /\ b \in Nat
  BY FrameRange
<1>2. \A d \in Int :
        SourceRows(c, d) = IF d <= b THEN 0 ELSE IF d > n + b THEN n ELSE d - b
  BY DEF SourceRows, InTop, InBottom
<1>3. InRows(c, d2) <=> ~(d2 > n + b) /\ ~(d2 <= b)
  BY DEF InRows, InTop, InBottom
<1> HIDE DEF n, b
<1>4. SourceRows(c, d2) = IF d2 <= b THEN 0 ELSE IF d2 > n + b THEN n ELSE d2 - b
  BY <1>2
<1>5. SourceRows(c, d2 - 1) = IF d2 - 1 <= b THEN 0
                              ELSE IF d2 - 1 > n + b THEN n ELSE (d2 - 1) - b
  BY <1>2
<1>6. SourceRows(c, d2) \in Nat
  BY <1>1, <1>4
<1>7. InRows(c, d2) /\ d2 # 0 => SourceRows(c, d2) = SourceRows(c, d2 - 1) + 1
  BY <1>1, <1>3, <1>4, <1>5
<1>8. ~InRows(c, d2) /\ d2 # 0 => SourceRows(c, d2) = SourceRows(c, d2 - 1)
  BY <1>1, <1>3, <1>4, <1>5
<1>9. d2 = 0 => SourceRows(c, d2) = 0
  BY <1>1, <1>4
<1> QED BY <1>6, <1>7, <1>8, <1>9

LEMMA SourceStep ==
    ASSUME NEW c \in RegFile, NEW d1 \in 1 .. RowLen(c), NEW d2 \in Nat, d2 # 0
    PROVE  /\ SourceRest(c, d1, d2) \in Nat
           /\ d1 # 1 => SourceRest(c, d1 - 1, d2)
                         = SourceRest(c, d1, d2) - One(AtData(c, d1, d2))
           /\ d1 = 1 => SourceRest(c, RowLen(c), d2 - 1)
                         = SourceRest(c, d1, d2) - One(AtData(c, d1, d2))
<1> DEFINE n == c.size_d1
           w == SourceWords(c, d1)
           p == SourceRows(c, d2 - 1) * n
           in == InRows(c, d2)
           at == ~InLeft(c, d1) /\ ~InRight(c, d1)
<1>1. n \in Nat /\ w \in Nat /\ d2 - 1 \in Nat
  BY FrameRange, WordsStep
<1>2. SourceRows(c, d2 - 1) \in Nat /\ p \in Nat
  BY <1>1, RowsStep
<1>3. SourceRest(c, d1, d2) = p + (IF in THEN w ELSE 0)
  BY DEF SourceRest
<1>4. One(AtData(c, d1, d2)) = IF in THEN One(at) ELSE 0
  BY DEF AtData, InRows, One
<1>5. SourceRest(c, d1, d2) \in Nat
  BY <1>1, <1>2, <1>3
<1>6. ASSUME d1 # 1
      PROVE  SourceRest(c, d1 - 1, d2) = SourceRest(c, d1, d2) - One(AtData(c, d1, d2))
  <2>1. SourceRest(c, d1 - 1, d2) = p + (IF in THEN SourceWords(c, d1 - 1) ELSE 0)
    BY DEF SourceRest
  <2>2. SourceWords(c, d1 - 1) = w - One(at)
    BY <1>6, WordsStep
  <2>3. One(at) \in Nat
    BY DEF One
  <2> HIDE DEF p, w, in, at
  <2> QED BY <1>1, <1>2, <1>3, <1>4, <2>1, <2>2, <2>3
<1>7. ASSUME d1 = 1
      PROVE  SourceRest(c, RowLen(c), d2 - 1)
                = SourceRest(c, d1, d2) - One(AtData(c, d1, d2))
  <2>1. w = One(at)
    BY <1>7, WordsStep
  <2>2. SourceRest(c, d1, d2) - One(AtData(c, d1, d2)) = p
    <3> HIDE DEF p, w, in, at
    <3> QED BY <1>1, <1>2, <1>3, <1>4, <2>1
  <2>3. CASE d2 = 1
    <3>1. SourceRows(c, d2 - 1) = 0
      BY <2>3, RowsStep
    <3>2. p = 0
      BY <1>1, <3>1
    <3> QED BY <2>2, <2>3, <3>2 DEF SourceRest
  <2>4. CASE d2 # 1
    <3>1. d2 - 1 # 0 /\ d2 - 2 \in Nat /\ (d2 - 1) - 1 = d2 - 2
      BY <2>4
    <3>2. SourceWords(c, RowLen(c)) = n
      BY WordsStep
    <3>3. SourceRest(c, RowLen(c), d2 - 1)
            = SourceRows(c, d2 - 2) * n + (IF InRows(c, d2 - 1) THEN n ELSE 0)
      BY <3>1, <3>2 DEF SourceRest
    <3>4. /\ SourceRows(c, d2 - 2) \in Nat
          /\ SourceRows(c, d2 - 1) = IF InRows(c, d2 - 1)
                                     THEN SourceRows(c, d2 - 2) + 1
                                     ELSE SourceRows(c, d2 - 2)
      BY <1>1, <3>1, RowsStep
    <3>5. /\ SourceRows(c, d2 - 2) * n \in Nat
          /\ (SourceRows(c, d2 - 2) + 1) * n = SourceRows(c, d2 - 2) * n + n
      BY <1>1, <3>4, RowLess
    <3>6. p = SourceRows(c, d2 - 2) * n + (IF InRows(c, d2 - 1) THEN n ELSE 0)
      BY <3>4, <3>5
    <3> QED BY <2>2, <3>3, <3>6
  <2> QED BY <2>3, <2>4
<1> QED BY <1>5, <1>6, <1>7

(* A whole transfer: the frame has as many words of the source as it asks  *)
(* for.                                                                    *)
LEMMA SourceWhole ==
    ASSUME NEW c \in RegFile, Suitable(c), c.dim_config = Dim2
    PROVE  /\ RowLen(c) \in 1 .. CntMax /\ Rows(c) \in 1 .. CntMax
           /\ SourceRest(c, RowLen(c), Rows(c)) = Rest(c.size_d1, c.size_d2, c.size_d1)
<1>1. c.size_d1 > 0 /\ c.size_d2 > 0
  BY DEF Suitable
<1>2. RowLen(c) \in 1 .. CntMax /\ Rows(c) \in 1 .. CntMax
  BY <1>1, FrameRange, Widths
<1> DEFINE n == c.size_d1
<1>3. SourceWords(c, RowLen(c)) = n
  BY <1>2, WordsStep
<1>4. SourceRest(c, RowLen(c), Rows(c))
        = SourceRows(c, Rows(c) - 1) * n + (IF InRows(c, Rows(c)) THEN n ELSE 0)
  BY <1>2, <1>3 DEF SourceRest
<1>5. Rest(n, c.size_d2, n) = (c.size_d2 - 1) * n + n
  BY <1>1 DEF Rest
<1>6. CASE c.pad_top = 0
  <2>1. InRows(c, Rows(c)) /\ SourceRows(c, Rows(c) - 1) = c.size_d2 - 1
    BY <1>1, <1>6, FrameRange DEF InRows, InTop, InBottom, SourceRows
  <2> QED BY <1>2, <1>4, <1>5, <2>1
<1>7. CASE c.pad_top # 0
  <2>1. ~InRows(c, Rows(c)) /\ SourceRows(c, Rows(c) - 1) = c.size_d2
    BY <1>1, <1>7, FrameRange DEF InRows, InTop, InBottom, SourceRows
  <2>2. c.size_d2 - 1 \in Nat /\ n \in Nat /\ (c.size_d2 - 1) + 1 = c.size_d2
    BY <1>1, FrameRange
  <2>3. c.size_d2 * n = (c.size_d2 - 1) * n + n /\ c.size_d2 * n \in Nat
    BY <2>2, RowLess
  <2>4. SourceRest(c, RowLen(c), Rows(c)) = c.size_d2 * n + 0
    BY <1>4, <2>1
  <2>5. SourceRest(c, RowLen(c), Rows(c)) = Rest(n, c.size_d2, n)
    <3> HIDE DEF n
    <3> QED BY <1>5, <2>3, <2>4
  <2> QED BY <1>2, <2>5
<1> QED BY <1>6, <1>7

-----------------------------------------------------------------------------
(* The padding FSM.                                                        *)

(* A counter of the frame steps down with a push.                          *)
LEMMA PadCountersStep ==
    ASSUME TypeOK, conf_2d, pad_fsm_on, pad_cnt_d2 # 0,
           NEW push \in BOOLEAN, PadCounters(FALSE, push),
           pad_cnt_d1 \in 1 .. RowLen(regs)
    PROVE  /\ push /\ pad_cnt_d1 = 1 => /\ pad_cnt_d1' = RowLen(regs)
                                        /\ pad_cnt_d2' = pad_cnt_d2 - 1
           /\ push /\ pad_cnt_d1 # 1 => /\ pad_cnt_d1' = pad_cnt_d1 - 1
                                        /\ pad_cnt_d2' = pad_cnt_d2
           /\ ~push => pad_cnt_d1' = pad_cnt_d1 /\ pad_cnt_d2' = pad_cnt_d2
<1>1. ~padding_fsm_done
  <2>1. ~conf_1d
    BY DEF conf_1d, conf_2d, Dim1, Dim2
  <2> QED BY <2>1 DEF padding_fsm_done
<1>2. pad_cnt_d1 # 0 /\ pad_cnt_d2 # 0
  BY RegRanges DEF TypeOK
<1>3. Dec(pad_cnt_d1) = pad_cnt_d1 - 1 /\ Dec(pad_cnt_d2) = pad_cnt_d2 - 1
  BY <1>2 DEF Dec
<1> QED BY <1>1, <1>3 DEF PadCounters

(* The FSM pushes a zero exactly where the frame has one.                  *)
LEMMA ZerosInPlace ==
    ASSUME TypeOK, Suitable(regs), conf_2d, PadsInPlace, pad_cnt_d2 # 0, pad_push
    PROVE  pad_on <=> ~AtData(regs, pad_cnt_d1, pad_cnt_d2)
<1>1. /\ pad_cnt_d1 \in 1 .. RowLen(regs) /\ pad_cnt_d2 \in 1 .. Rows(regs)
      /\ Placed(regs, pad_state, pad_cnt_d1, pad_cnt_d2, Fresh)
  BY DEF PadsInPlace, conf_1d, conf_2d, Dim1, Dim2
<1>2. /\ regs.pad_left \in Nat /\ regs.pad_right \in Nat /\ regs.size_d1 \in Nat
      /\ regs.pad_top \in Nat /\ regs.pad_bottom \in Nat /\ regs.size_d2 \in Nat
      /\ RowLen(regs) = regs.pad_left + regs.size_d1 + regs.pad_right
  BY FrameRange DEF TypeOK
<1>3. regs.size_d1 > 0 /\ regs.size_d2 > 0
  BY DEF Suitable, conf_2d
<1>4. pad_cnt_d1 \in Int /\ pad_cnt_d2 \in Int
  BY DEF TypeOK
<1>5. ~(pad_state = "IDLE" /\ Fresh)
  BY DEF pad_push, write_fifo_push, pad_on, Fresh
<1> QED BY <1>1, <1>2, <1>3, <1>4, <1>5
        DEF Placed, AtData, InRows, InTop, InBottom, InLeft, InRight, pad_on

(* Every transition of the FSM keeps it in its place.                      *)
LEMMA PadStep ==
    ASSUME TypeOK, Suitable(regs), conf_2d, pad_fsm_on, PadsInPlace, pad_cnt_d2 # 0,
           PadState(pad_push, write_fifo), PadCounters(FALSE, pad_push)
    PROVE  IF pad_cnt_d2' = 0
           THEN pad_state' = "IDLE"
           ELSE /\ pad_cnt_d1' \in 1 .. RowLen(regs) /\ pad_cnt_d2' \in 1 .. Rows(regs)
                /\ Placed(regs, pad_state', pad_cnt_d1', pad_cnt_d2', FALSE)
<1> DEFINE l == regs.pad_left  r == regs.pad_right  n == regs.size_d1
           t == regs.pad_top  b == regs.pad_bottom  m == regs.size_d2
           d1 == pad_cnt_d1  d2 == pad_cnt_d2
           Goal == IF pad_cnt_d2' = 0
                   THEN pad_state' = "IDLE"
                   ELSE /\ pad_cnt_d1' \in 1 .. RowLen(regs)
                        /\ pad_cnt_d2' \in 1 .. Rows(regs)
                        /\ Placed(regs, pad_state', pad_cnt_d1', pad_cnt_d2', FALSE)
<1>1. /\ d1 \in 1 .. RowLen(regs) /\ d2 \in 1 .. Rows(regs)
      /\ Placed(regs, pad_state, d1, d2, Fresh)
  BY DEF PadsInPlace, conf_1d, conf_2d, Dim1, Dim2
<1>2. /\ l \in Nat /\ r \in Nat /\ n \in Nat /\ t \in Nat /\ b \in Nat /\ m \in Nat
      /\ RowLen(regs) = l + n + r /\ Rows(regs) = t + m + b
  BY FrameRange DEF TypeOK, conf_2d
<1>3. n > 0 /\ m > 0 /\ (t # 0 \/ l # 0 => b # 0 \/ r # 0)
  BY DEF Suitable, conf_2d
<1>4. d1 \in Int /\ d2 \in Int /\ pad_push \in BOOLEAN
  BY PushedType DEF TypeOK
<1>5. /\ pad_push /\ d1 = 1 => pad_cnt_d1' = RowLen(regs) /\ pad_cnt_d2' = d2 - 1
      /\ pad_push /\ d1 # 1 => pad_cnt_d1' = d1 - 1 /\ pad_cnt_d2' = d2
      /\ ~pad_push => pad_cnt_d1' = d1 /\ pad_cnt_d2' = d2
  BY <1>1, <1>4, PadCountersStep
<1>6. ~padding_fsm_done
  BY DEF padding_fsm_done, conf_1d, conf_2d, Dim1, Dim2
<1>7. pad_cnt_d1' \in 1 .. RowLen(regs) /\ pad_cnt_d2' \in 0 .. Rows(regs)
  <2> HIDE DEF l, n, r, t, m, b, d1, d2
  <2> QED BY <1>1, <1>2, <1>3, <1>4, <1>5
<1>8. CASE ~write_fifo_en(write_fifo)
  <2>1. ~pad_push /\ pad_state' = pad_state
    BY <1>8 DEF pad_push, write_fifo_push, PadState
  <2>2. ~Fresh
    <3>1. Len(<< >>) = 0
      BY EmptySeq
    <3> QED BY <1>8, <3>1, DepthAssumption DEF write_fifo_en, full, alm_full, Fresh
  <2>3. Placed(regs, pad_state', pad_cnt_d1', pad_cnt_d2', FALSE)
    BY <1>1, <1>5, <2>1, <2>2 DEF Placed
  <2> QED BY <1>1, <1>5, <1>7, <2>1, <2>3
<1>9. CASE write_fifo_en(write_fifo)
  <2>1. pad_state' = pad_state_d(pad_push)
    BY <1>6, <1>9 DEF PadState
  <2>2. pad_on => pad_push
    BY <1>6, <1>9 DEF pad_push, write_fifo_push
  <2>3. CASE pad_state = "IDLE" /\ ~FramesBefore(regs)
    <3>1. t = 0 /\ l = 0
      BY <2>3 DEF FramesBefore
    <3>2. d2 > b /\ d2 <= m + b /\ d1 > r /\ d1 <= n + r
      BY <1>1, <1>2, <1>4, <2>3
         DEF Placed, AtData, InRows, InTop, InBottom, InLeft, InRight
    <3>3. pad_state' = IF pad_push /\ r # 0 /\ d1 = r + 1 THEN "RIGHT_EXEC"
                       ELSE IF r = 0 /\ pad_push /\ b # 0 /\ d2 = b + 1 /\ d1 = 1
                       THEN "BOTTOM_EXEC" ELSE "IDLE"
      BY <2>1, <2>3, <3>1 DEF pad_state_d, RightStarts, LastDataRow, NextRowEnds
    <3> QED BY <1>2, <1>3, <1>4, <1>5, <1>7, <2>3, <3>1, <3>2, <3>3
            DEF Placed, AtData, InRows, InTop, InBottom, InLeft, InRight
  <2>4. CASE pad_state = "IDLE" /\ FramesBefore(regs)
    <3>1. Fresh /\ d1 = RowLen(regs) /\ d2 = Rows(regs)
      BY <1>1, <2>4 DEF Placed, Fresh
    <3>2. ~pad_push
      BY <2>4, <3>1 DEF pad_push, write_fifo_push, pad_on, Fresh
    <3>3. pad_state' = IF t # 0 THEN "TOP_EXEC" ELSE "LEFT_EXEC"
      BY <2>1, <2>4, <3>2 DEF pad_state_d, FramesBefore
    <3> QED BY <1>2, <1>3, <1>4, <1>5, <1>7, <2>4, <3>1, <3>2, <3>3
            DEF Placed, InRows, InTop, InBottom, InLeft, FramesBefore
  <2>5. CASE pad_state = "TOP_EXEC"
    <3>1. t # 0 /\ d2 > m + b
      BY <1>1, <1>2, <1>4, <2>5
         DEF Placed, AtData, InRows, InTop, InBottom, InLeft, InRight
    <3>2. pad_push
      BY <2>2, <2>5 DEF pad_on
    <3>3. pad_state' = IF d1 = 1 /\ d2 = m + b + 1
                       THEN IF l # 0 THEN "LEFT_EXEC" ELSE "TOP_DONE"
                       ELSE "TOP_EXEC"
      BY <2>1, <2>5, <3>1, <3>2
         DEF pad_state_d, RightStarts, LastDataRow, LastWord, NextRowEnds
    <3> QED BY <1>2, <1>3, <1>4, <1>5, <1>7, <2>5, <3>1, <3>2, <3>3
            DEF Placed, AtData, InRows, InTop, InBottom, InLeft, InRight
  <2>6. CASE pad_state = "TOP_DONE"
    <3>1. t # 0 /\ l = 0 /\ d2 > b /\ d2 <= m + b /\ d1 > r /\ d1 <= n + r
      BY <1>1, <1>2, <1>4, <2>6
         DEF Placed, AtData, InRows, InTop, InBottom, InLeft, InRight
    <3>2. pad_state' = IF pad_push /\ r # 0 /\ d1 = r + 1 THEN "RIGHT_EXEC"
                       ELSE IF r = 0 /\ pad_push /\ b # 0 /\ d2 = b + 1 /\ d1 = 1
                       THEN "BOTTOM_EXEC"
                       ELSE IF r = 0 /\ b = 0 /\ d2 = 1 /\ d1 = 1
                       THEN "IDLE" ELSE "TOP_DONE"
      BY <2>1, <2>2, <2>6, <3>1
         DEF pad_state_d, RightStarts, LastDataRow, LastWord, NextRowEnds
    <3> QED BY <1>2, <1>3, <1>4, <1>5, <1>7, <2>2, <2>6, <3>1, <3>2
            DEF Placed, AtData, InRows, InTop, InBottom, InLeft, InRight
  <2>7. CASE pad_state = "LEFT_EXEC"
    <3>1. l # 0 /\ d2 > b /\ d2 <= m + b /\ d1 > n + r
      BY <1>1, <1>2, <1>4, <2>7
         DEF Placed, AtData, InRows, InTop, InBottom, InLeft, InRight
    <3>2. pad_push
      BY <2>2, <2>7 DEF pad_on
    <3>3. pad_state' = IF d1 = n + r + 1 THEN "LEFT_DONE" ELSE "LEFT_EXEC"
      BY <2>1, <2>7, <3>1, <3>2
         DEF pad_state_d, RightStarts, LastDataRow, LastWord, NextRowEnds
    <3> QED BY <1>2, <1>3, <1>4, <1>5, <1>7, <2>7, <3>1, <3>2, <3>3
            DEF Placed, AtData, InRows, InTop, InBottom, InLeft, InRight
  <2>8. CASE pad_state = "LEFT_DONE"
    <3>1. l # 0 /\ d2 > b /\ d2 <= m + b /\ d1 > r /\ d1 <= n + r
      BY <1>1, <1>2, <1>4, <2>8
         DEF Placed, AtData, InRows, InTop, InBottom, InLeft, InRight
    <3>2. pad_state' = IF pad_push /\ r # 0 /\ d1 = r + 1 THEN "RIGHT_EXEC"
                       ELSE IF r = 0 /\ pad_push /\ b # 0 /\ d2 = b + 1 /\ d1 = 1
                       THEN "BOTTOM_EXEC"
                       ELSE IF pad_push /\ d1 = 1 /\ d2 # b + 1 /\ r = 0
                       THEN "LEFT_EXEC"
                       ELSE IF r = 0 /\ b = 0 /\ d2 = 1 /\ d1 = 1
                       THEN "IDLE" ELSE "LEFT_DONE"
      BY <2>1, <2>2, <2>8, <3>1
         DEF pad_state_d, RightStarts, LastDataRow, LastWord, NextRowEnds
    <3> QED BY <1>2, <1>3, <1>4, <1>5, <1>7, <2>2, <2>8, <3>1, <3>2
            DEF Placed, AtData, InRows, InTop, InBottom, InLeft, InRight
  <2>9. CASE pad_state = "RIGHT_EXEC"
    <3>1. r # 0 /\ d2 > b /\ d2 <= m + b /\ d1 <= r
      BY <1>1, <1>2, <1>4, <2>9
         DEF Placed, AtData, InRows, InTop, InBottom, InLeft, InRight
    <3>2. pad_push
      BY <2>2, <2>9 DEF pad_on
    <3>3. pad_state' = IF d1 = 1 /\ d2 # b + 1
                       THEN IF l # 0 THEN "LEFT_EXEC" ELSE "RIGHT_DONE"
                       ELSE IF b # 0 /\ d2 = b + 1 /\ d1 = 1 THEN "BOTTOM_EXEC"
                       ELSE IF b = 0 /\ d2 = 1 /\ d1 = 1
                       THEN "IDLE" ELSE "RIGHT_EXEC"
      BY <2>1, <2>9, <3>1, <3>2
         DEF pad_state_d, RightStarts, LastDataRow, LastWord, NextRowEnds
    <3> QED BY <1>2, <1>3, <1>4, <1>5, <1>7, <2>9, <3>1, <3>2, <3>3
            DEF Placed, AtData, InRows, InTop, InBottom, InLeft, InRight
  <2>10. CASE pad_state = "RIGHT_DONE"
    <3>1. r # 0 /\ l = 0 /\ d2 > b /\ d2 <= m + b /\ d1 > r /\ d1 <= n + r
      BY <1>1, <1>2, <1>4, <2>10
         DEF Placed, AtData, InRows, InTop, InBottom, InLeft, InRight
    <3>2. pad_state' = IF b = 0 /\ d2 = 1 /\ d1 = 1 THEN "IDLE"
                       ELSE IF pad_push /\ d1 = r + 1 THEN "RIGHT_EXEC"
                       ELSE "RIGHT_DONE"
      BY <2>1, <2>2, <2>10, <3>1
         DEF pad_state_d, RightStarts, LastDataRow, LastWord, NextRowEnds
    <3> QED BY <1>2, <1>3, <1>4, <1>5, <1>7, <2>2, <2>10, <3>1, <3>2
            DEF Placed, AtData, InRows, InTop, InBottom, InLeft, InRight
  <2>11. CASE pad_state = "BOTTOM_EXEC"
    <3>1. b # 0 /\ d2 <= b
      BY <1>1, <1>2, <1>4, <2>11
         DEF Placed, AtData, InRows, InTop, InBottom, InLeft, InRight
    <3>2. pad_push
      BY <2>2, <2>11 DEF pad_on
    <3>3. pad_state' = IF d2 = 1 /\ d1 = 1 THEN "IDLE" ELSE "BOTTOM_EXEC"
      BY <2>1, <2>11, <3>1, <3>2
         DEF pad_state_d, RightStarts, LastDataRow, LastWord, NextRowEnds
    <3> QED BY <1>2, <1>3, <1>4, <1>5, <1>7, <2>11, <3>1, <3>2, <3>3
            DEF Placed, AtData, InRows, InTop, InBottom, InLeft, InRight
  <2> QED BY <1>1, <2>3, <2>4, <2>5, <2>6, <2>7, <2>8, <2>9, <2>10, <2>11 DEF Placed
<1> QED BY <1>8, <1>9

-----------------------------------------------------------------------------
(* The registers.                                                          *)

(* What the blocks read of the setting stays while a transfer is pending   *)
(* or runs: software may only make a circular mode linear.                 *)
LEMMA RegsKept ==
    ASSUME TypeOK, NEW sw \in Accesses, AccessAllowed(sw), RegsNext(sw),
           ~ReadyForLaunch
    PROVE  /\ regs' \in RegFile
           /\ conf_1d' = conf_1d /\ conf_2d' = conf_2d
           /\ address_mode' <=> address_mode
           /\ regs'.size_d1 = regs.size_d1 /\ regs'.size_d2 = regs.size_d2
           /\ regs'.pad_top = regs.pad_top /\ regs'.pad_bottom = regs.pad_bottom
           /\ regs'.pad_left = regs.pad_left /\ regs'.pad_right = regs.pad_right
           /\ RowLen(regs') = RowLen(regs) /\ Rows(regs') = Rows(regs)
           /\ Suitable(regs) => Suitable(regs')
<1>1. regs' \in RegFile
  BY RegsType
<1>2. sw.op # "launch"
  BY DEF AccessAllowed
<1>3. regs' = regs \/ (circular_mode /\ regs' = [ regs EXCEPT !.mode = "LINEAR" ])
  BY <1>2 DEF RegsNext, AccessAllowed
<1>4. CASE regs' = regs
  BY <1>1, <1>4 DEF conf_1d, conf_2d, address_mode
<1>5. CASE circular_mode /\ regs' = [ regs EXCEPT !.mode = "LINEAR" ]
  <2>1. /\ regs'.dim_config = regs.dim_config /\ regs'.mode = "LINEAR"
        /\ regs'.size_d1 = regs.size_d1 /\ regs'.size_d2 = regs.size_d2
        /\ regs'.pad_top = regs.pad_top /\ regs'.pad_bottom = regs.pad_bottom
        /\ regs'.pad_left = regs.pad_left /\ regs'.pad_right = regs.pad_right
    BY <1>5 DEF TypeOK, RegFile
  <2>2. address_mode' <=> address_mode
    BY <1>5, <2>1 DEF address_mode, circular_mode
  <2>3. RowLen(regs') = RowLen(regs) /\ Rows(regs') = Rows(regs)
    BY <2>1 DEF RowLen, Rows
  <2>4. Suitable(regs) => Suitable(regs')
    BY <2>1 DEF Suitable
  <2>5. conf_1d' = conf_1d /\ conf_2d' = conf_2d
    BY <2>1 DEF conf_1d, conf_2d
  <2> QED BY <1>1, <2>1, <2>2, <2>3, <2>4, <2>5
<1> QED BY <1>3, <1>4, <1>5

LEMMA FramesKept ==
    ASSUME regs'.size_d1 = regs.size_d1, regs'.size_d2 = regs.size_d2,
           regs'.pad_top = regs.pad_top, regs'.pad_bottom = regs.pad_bottom,
           regs'.pad_left = regs.pad_left, regs'.pad_right = regs.pad_right,
           NEW d1, NEW d2, NEW state
    PROVE  /\ SourceRest(regs', d1, d2) = SourceRest(regs, d1, d2)
           /\ Rest(d1, d2, regs'.size_d1) = Rest(d1, d2, regs.size_d1)
           /\ Placed(regs, state, d1, d2, FALSE) => Placed(regs', state, d1, d2, Fresh')
<1>1. SourceRest(regs', d1, d2) = SourceRest(regs, d1, d2)
  BY DEF SourceRest, SourceRows, SourceWords, InRows, InTop, InBottom, InLeft, InRight
<1>2. /\ AtData(regs, d1, d2) <=> AtData(regs', d1, d2)
      /\ InTop(regs, d2) <=> InTop(regs', d2)
      /\ InBottom(regs, d2) <=> InBottom(regs', d2)
      /\ InRows(regs, d2) <=> InRows(regs', d2)
      /\ InLeft(regs, d1) <=> InLeft(regs', d1)
      /\ InRight(regs, d1) <=> InRight(regs', d1)
      /\ FramesBefore(regs) <=> FramesBefore(regs')
  BY DEF AtData, InRows, InTop, InBottom, InLeft, InRight, FramesBefore
<1>3. Placed(regs, state, d1, d2, FALSE) => Placed(regs', state, d1, d2, Fresh')
  BY <1>2 DEF Placed
<1> QED BY <1>1, <1>3

(* The setting is suitable from the launch to the end of the transfer.     *)
LEMMA SettingsStep ==
    ASSUME SettingsSuit, TypeOK, Settings,
           NEW in \in BusInputs, NEW sw \in Accesses, Cycle(in, sw)
    PROVE  Settings'
<1>1. AccessAllowed(sw) /\ RegsNext(sw) /\ StartPending(sw) /\ MainFsm
  BY DEF Cycle
<1>2. CASE ~ReadyForLaunch
  <2>1. Suitable(regs)
    BY <1>2 DEF Settings, ReadyForLaunch
  <2> QED BY <1>1, <1>2, <2>1, RegsKept DEF Settings
<1>3. CASE ReadyForLaunch /\ sw.op = "launch"
  <2>1. sw.cfg \in Configs /\ regs' = sw.cfg
    BY <1>1, <1>3 DEF Accesses, NoAccess, LaunchOps, OtherOps, RegsNext
  <2> QED BY <2>1 DEF SettingsSuit, Settings
<1>4. CASE ReadyForLaunch /\ sw.op # "launch"
  <2>1. dma_state' = "READY" /\ ~start_pending'
    BY <1>1, <1>4 DEF ReadyForLaunch, MainFsm, StartPending, dma_start
  <2> QED BY <2>1 DEF Settings
<1> QED BY <1>2, <1>3, <1>4

-----------------------------------------------------------------------------
(* The steps of a transfer.                                                *)

(* A FIFO and a bus at rest stay at rest.                                  *)
LEMMA RestStays ==
    ASSUME NEW d, NEW a
    PROVE  /\ FifoNext(<< >>, FALSE, d, FALSE) = << >>
           /\ FallThroughNext(<< >>, FALSE, d, FALSE) = << >>
           /\ InFlight(<< >>, FALSE, a, FALSE) = << >>
BY DEF FifoNext, FallThroughNext, InFlight

(* Nothing moves in a drained pipeline until a transfer starts.            *)
LEMMA QuietStep ==
    ASSUME TypeOK, Drained, dma_state # "RUNNING",
           NEW in \in BusInputs, NEW sw \in Accesses, Cycle(in, sw)
    PROVE  /\ ~dma_done /\ ~pad_push /\ ~read_fifo_pop(read_fifo, write_fifo)
           /\ read_fifo' = << >> /\ read_pending' = << >>
           /\ addr_fifo' = << >> /\ addr_pending' = << >>
           /\ write_fifo' = << >> /\ pad_state' = "IDLE"
<1>1. ~dma_done /\ ~pad_push /\ ~read_fifo_pop(read_fifo, write_fifo)
  BY DEF Drained, dma_done, dma_done_o, pad_push, write_fifo_push, read_fifo_pop
<1>2. ~in.rgnt /\ ~in.rvalid /\ ~in.agnt /\ ~in.avalid /\ ~in.wgnt
  BY DEF Drained, AddressesRest, BusInputs, Choices
<1>3. /\ in.rgnt \in BOOLEAN /\ in.rvalid \in BOOLEAN
      /\ in.agnt \in BOOLEAN /\ in.avalid \in BOOLEAN /\ in.wgnt \in BOOLEAN
  BY SignalTypes
<1>4. in.rgnt = FALSE /\ in.rvalid = FALSE /\ in.agnt = FALSE
      /\ in.avalid = FALSE /\ in.wgnt = FALSE
  BY <1>2, <1>3
<1>5. read_fifo' = << >> /\ read_pending' = << >>
  BY <1>1, <1>4, RestStays
     DEF Cycle, ReadTick, ReadFifo, ReadBus, Drained, FifoNext, InFlight
<1>6. addr_fifo' = << >> /\ addr_pending' = << >>
  BY <1>4, RestStays DEF Cycle, AddrTick, Drained, AddressesRest, FifoNext, InFlight
<1>7. write_fifo' = << >>
  BY <1>1, <1>4, RestStays DEF Cycle, WriteTick, Drained, FifoNext, FallThroughNext
<1>8. pad_state' = "IDLE"
  BY DEF Cycle, PadTick, PadState, Drained
<1> QED BY <1>1, <1>5, <1>6, <1>7, <1>8

LEMMA ReadyStep ==
    ASSUME TypeOK, DrainInv, dma_state = "READY", Settings',
           NEW in \in BusInputs, NEW sw \in Accesses, Cycle(in, sw)
    PROVE  DrainInv'
<1>1. Drained
  BY DEF DrainInv
<1>2. ~dma_done
  BY <1>1, QuietStep
<1>3. read_fsm' = "IDLE" /\ addr_fsm' = "IDLE" /\ write_fsm' = "IDLE" /\ ~pad_fsm_on'
  BY <1>1 DEF Drained, AddressesRest, Cycle, ReadTick, ReadState, AddrTick, WriteTick,
              PadTick, dma_start
<1>4. dma_state' # "RUNNING"
  BY DEF Cycle, MainFsm
<1>5. Drained'
  BY <1>1, <1>3, QuietStep DEF Drained, AddressesRest
<1> QED BY <1>4, <1>5 DEF DrainInv

LEMMA StartStep ==
    ASSUME TypeOK, DrainInv, dma_state = "STARTING", Settings',
           NEW in \in BusInputs, NEW sw \in Accesses, Cycle(in, sw)
    PROVE  DrainInv'
<1>1. Drained /\ Suitable(regs) /\ regs \in RegFile
  BY DEF DrainInv, Settings, TypeOK
<1>2. dma_start /\ dma_state' = "RUNNING"
  BY DEF dma_start, Cycle, MainFsm
<1>3. /\ regs' \in RegFile /\ conf_1d' = conf_1d /\ conf_2d' = conf_2d
      /\ address_mode' <=> address_mode
      /\ regs'.size_d1 = regs.size_d1 /\ regs'.size_d2 = regs.size_d2
      /\ regs'.pad_top = regs.pad_top /\ regs'.pad_bottom = regs.pad_bottom
      /\ regs'.pad_left = regs.pad_left /\ regs'.pad_right = regs.pad_right
      /\ RowLen(regs') = RowLen(regs) /\ Rows(regs') = Rows(regs)
      /\ Suitable(regs')
  BY <1>1, RegsKept DEF Cycle, ReadyForLaunch
<1>4. /\ read_fifo' = << >> /\ read_pending' = << >>
      /\ addr_fifo' = << >> /\ addr_pending' = << >>
      /\ write_fifo' = << >> /\ pad_state' = "IDLE"
  BY <1>1, QuietStep
<1>5. /\ src_cnt_d1' = regs.size_d1 /\ src_cnt_d2' = regs.size_d2
      /\ pad_cnt_d1' = RowLen(regs)
      /\ pad_cnt_d2' = regs.pad_top + regs.size_d2 + regs.pad_bottom
      /\ write_fsm' = "ON" /\ pad_fsm_on'
  BY <1>1, <1>2
     DEF Cycle, ReadTick, SrcCounters, PadTick, PadCounters, WriteTick, Drained
<1>6. conf_1d \/ conf_2d
  BY <1>1, FrameRange DEF conf_1d, conf_2d
<1>7. /\ regs.size_d1 \in Nat /\ regs.size_d2 \in Nat /\ regs.size_d1 > 0
      /\ RowLen(regs) = regs.pad_left + regs.size_d1 + regs.pad_right
  BY <1>1, FrameRange DEF Suitable
<1>8. ASSUME conf_1d
      PROVE  /\ RowLen(regs) = regs.size_d1 /\ ~conf_2d
  BY <1>1, <1>7, <1>8 DEF Suitable, conf_1d, conf_2d, Dim1, Dim2
<1>9. ASSUME conf_2d
      PROVE  /\ RowLen(regs) \in 1 .. CntMax /\ Rows(regs) \in 1 .. CntMax
             /\ SourceRest(regs, RowLen(regs), Rows(regs))
                  = Rest(regs.size_d1, regs.size_d2, regs.size_d1)
             /\ pad_cnt_d2' = Rows(regs) /\ regs.size_d2 > 0
             /\ ~address_mode /\ ~conf_1d
  <2>1. pad_cnt_d2' = Rows(regs) /\ regs.size_d2 > 0 /\ ~address_mode /\ ~conf_1d
    BY <1>1, <1>5, <1>9, FrameRange
       DEF conf_1d, conf_2d, Dim1, Dim2, Suitable, address_mode
  <2> QED BY <1>1, <1>9, <2>1, SourceWhole DEF conf_2d
<1>10. PadsInPlace'
  <2>1. CASE conf_1d
    BY <1>3, <1>4, <2>1 DEF PadsInPlace
  <2>2. CASE conf_2d
    <3>1. pad_cnt_d1' \in 1 .. RowLen(regs') /\ pad_cnt_d2' \in 1 .. Rows(regs')
      BY <1>3, <1>5, <1>9, <2>2
    <3>2. Fresh'
      BY <1>3, <1>4, <1>5, <1>9, <2>2 DEF Fresh
    <3>3. ASSUME ~FramesBefore(regs')
          PROVE  AtData(regs', pad_cnt_d1', pad_cnt_d2')
      <4>1. regs.pad_top = 0 /\ regs.pad_left = 0
        BY <1>3, <3>3 DEF FramesBefore
      <4> QED BY <1>1, <1>3, <1>5, <1>7, <1>9, <2>2, <4>1, FrameRange
              DEF AtData, InRows, InTop, InBottom, InLeft, InRight
    <3>4. Placed(regs', pad_state', pad_cnt_d1', pad_cnt_d2', Fresh')
      BY <1>4, <3>2, <3>3 DEF Placed
    <3> QED BY <1>4, <3>1, <3>4 DEF PadsInPlace
  <2> QED BY <1>6, <2>1, <2>2
<1>11. Len(<< >>) = 0
  BY EmptySeq
<1>12. SourceCounted'
  <2>1. ToPush' = ToRequest' /\ ToRequest' \in Nat /\ ToRequest' # 0
    <3>1. CASE conf_1d
      BY <1>3, <1>5, <1>7, <1>8, <3>1 DEF ToPush, ToRequest
    <3>2. CASE conf_2d
      <4>1. /\ Rest(regs.size_d1, regs.size_d2, regs.size_d1) \in Nat
            /\ Rest(regs.size_d1, regs.size_d2, regs.size_d1) # 0
        <5>1. /\ regs.size_d1 \in Nat \ {0} /\ regs.size_d1 \in 1 .. regs.size_d1
              /\ regs.size_d2 # 0
          BY <1>7, <1>9, <3>2
        <5> QED BY <1>7, <5>1, RestStep
      <4>2. /\ SourceRest(regs', pad_cnt_d1', pad_cnt_d2')
                 = SourceRest(regs, pad_cnt_d1', pad_cnt_d2')
            /\ ~conf_1d'
        BY <1>3, <1>9, <3>2, FramesKept
      <4> QED BY <1>3, <1>5, <1>9, <3>2, <4>1, <4>2 DEF ToPush, ToRequest
    <3> QED BY <1>6, <3>1, <3>2
  <2>2. conf_2d' => /\ src_cnt_d1' \in 1 .. regs'.size_d1
                    /\ src_cnt_d2' = 0 => src_cnt_d1' = regs'.size_d1
    BY <1>3, <1>5, <1>7
  <2>3. ToPush' = ToRequest' + Len(read_pending') + Len(read_fifo')
    <3> DEFINE push == ToPush'             request == ToRequest'
               flight == Len(read_pending')  fifo == Len(read_fifo')
    <3>1. push = request /\ request \in Nat /\ flight = 0 /\ fifo = 0
      BY <1>4, <1>11, <2>1
    <3> HIDE DEF push, request, flight, fifo
    <3>2. push = request + flight + fifo
      BY <3>1
    <3> QED BY <3>2 DEF push, request, flight, fifo
  <2> QED BY <2>1, <2>2, <2>3 DEF SourceCounted
<1>13. AddressesCounted'
  <2>1. CASE address_mode
    <3>1. conf_1d
      BY <1>6, <1>9, <2>1
    <3>2. addr_cnt' = regs.size_d1
      BY <1>2, <2>1 DEF Cycle, AddrTick
    <3> QED BY <1>3, <1>4, <1>5, <1>7, <1>8, <1>11, <2>1, <3>1, <3>2
       DEF AddressesCounted
  <2>2. CASE ~address_mode
    <3>1. addr_fsm' = "IDLE"
      BY <1>1, <2>2 DEF Cycle, AddrTick, Drained, AddressesRest
    <3> QED BY <1>3, <1>4, <2>2, <3>1 DEF AddressesCounted, AddressesRest
  <2> QED BY <2>1, <2>2
<1> QED BY <1>2, <1>5, <1>10, <1>12, <1>13 DEF DrainInv

(* A transfer ends with nothing left to push, hence with nothing left of   *)
(* the source anywhere.                                                    *)
LEMMA DoneStep ==
    ASSUME TypeOK, DrainInv, dma_state = "RUNNING", dma_done, Settings',
           NEW in \in BusInputs, NEW sw \in Accesses, Cycle(in, sw)
    PROVE  DrainInv'
<1>1. /\ PadsInPlace /\ SourceCounted /\ AddressesCounted
      /\ Suitable(regs) /\ regs \in RegFile
  BY DEF DrainInv, Settings, TypeOK
<1>2. padding_fsm_done /\ write_fifo = << >> /\ ~pad_push
  BY DEF dma_done, dma_done_o, write_fifo_empty
<1>3. ~dma_start /\ dma_state' # "RUNNING"
  BY DEF dma_start, Cycle, MainFsm
<1>4. /\ src_cnt_d1 \in Nat /\ src_cnt_d2 \in Nat /\ pad_cnt_d1 \in Nat
      /\ addr_cnt \in Nat /\ regs.size_d1 \in Nat
  BY <1>1, Widths, FrameRange DEF TypeOK
<1>5. /\ Len(read_pending) \in Nat /\ (Len(read_pending) = 0 <=> read_pending = << >>)
      /\ Len(read_fifo) \in Nat /\ (Len(read_fifo) = 0 <=> read_fifo = << >>)
      /\ Len(addr_pending) \in Nat /\ (Len(addr_pending) = 0 <=> addr_pending = << >>)
      /\ Len(addr_fifo) \in Nat /\ (Len(addr_fifo) = 0 <=> addr_fifo = << >>)
      /\ Len(write_fifo) = 0
  BY <1>2, EmptyLen, EmptySeq DEF TypeOK
<1>6. ToPush = 0
  BY <1>2 DEF ToPush, padding_fsm_done, SourceRest, conf_1d, conf_2d, Dim1, Dim2
<1>7. ToRequest \in Nat
  <2>1. CASE conf_1d
    BY <1>4, <2>1 DEF ToRequest
  <2>2. CASE ~conf_1d
    <3>1. conf_2d
      BY <1>1, <2>2, FrameRange DEF conf_1d, conf_2d
    <3>2. regs.size_d1 \in Nat \ {0} /\ src_cnt_d1 \in 1 .. regs.size_d1
      BY <1>1, <1>4, <3>1 DEF SourceCounted, Suitable
    <3> QED BY <1>4, <2>2, <3>2, RestStep DEF ToRequest
  <2> QED BY <2>1, <2>2
<1>8. ToRequest = 0 /\ read_pending = << >> /\ read_fifo = << >>
  <2>1. ToPush = ToRequest + Len(read_pending) + Len(read_fifo)
    BY <1>1 DEF SourceCounted
  <2> QED BY <1>5, <1>6, <1>7, <2>1
<1>9. read_fsm = "IDLE"
  BY <1>1, <1>8 DEF SourceCounted, TypeOK
<1>10. AddressesRest
  <2>1. CASE address_mode
    <3>1. conf_1d
      BY <1>1, <2>1, FrameRange DEF Suitable, address_mode, conf_1d
    <3>2. pad_cnt_d1 = 0
      BY <1>2, <3>1 DEF padding_fsm_done, conf_1d, conf_2d, Dim1, Dim2
    <3>3. addr_cnt + Len(addr_pending) + Len(addr_fifo) = 0
      BY <1>1, <1>5, <2>1, <3>2 DEF AddressesCounted
    <3>4. addr_cnt = 0 /\ addr_pending = << >> /\ addr_fifo = << >>
      BY <1>4, <1>5, <3>3
    <3> QED BY <1>1, <2>1, <3>4 DEF AddressesCounted, AddressesRest, TypeOK
  <2>2. CASE ~address_mode
    BY <1>1, <2>2 DEF AddressesCounted
  <2> QED BY <2>1, <2>2
<1>11. /\ in.rgnt = FALSE /\ in.rvalid = FALSE /\ in.agnt = FALSE
       /\ in.avalid = FALSE /\ in.wgnt = FALSE
  <2>1. ~in.rgnt /\ ~in.rvalid /\ ~in.agnt /\ ~in.avalid
    BY <1>8, <1>9, <1>10 DEF AddressesRest, BusInputs, Choices
  <2>2. ~in.wgnt
    BY <1>2 DEF Cycle, BusAllowed, data_out_req, write_fifo_empty
  <2> QED BY <2>1, <2>2, SignalTypes
<1>12. /\ read_fsm' = "IDLE" /\ addr_fsm' = "IDLE" /\ write_fsm' = "IDLE"
       /\ ~pad_fsm_on'
  BY <1>3, <1>9, <1>10
     DEF AddressesRest, Cycle, ReadTick, ReadState, AddrTick, WriteTick,
                           PadTick, dma_start
<1>13. read_fifo' = << >> /\ read_pending' = << >>
  <2>1. read_fifo_pop(read_fifo, write_fifo) = FALSE
    BY <1>2 DEF read_fifo_pop, pad_push
  <2> QED BY <1>8, <1>11, <2>1
     DEF Cycle, ReadTick, ReadFifo, ReadBus, FifoNext, InFlight
<1>14. addr_fifo' = << >> /\ addr_pending' = << >>
  BY <1>10, <1>11 DEF Cycle, AddrTick, AddressesRest, FifoNext, InFlight
<1>15. write_fifo' = << >>
  BY <1>2, <1>11 DEF Cycle, WriteTick, FifoNext, FallThroughNext
<1>16. pad_state' = "IDLE"
  <2>1. pad_state = "IDLE"
    BY <1>1, <1>2 DEF PadsInPlace, padding_fsm_done, conf_1d, conf_2d
  <2> QED BY <1>2, <2>1 DEF Cycle, PadTick, PadState
<1>17. Drained'
  BY <1>12, <1>13, <1>14, <1>15, <1>16 DEF Drained, AddressesRest
<1> QED BY <1>3, <1>17 DEF DrainInv

(* A cycle of a running transfer: each word that leaves a place arrives in *)
(* the next one.                                                           *)

LEMMA PadsRun ==
    ASSUME TypeOK, DrainInv, dma_state = "RUNNING", ~dma_done,
           NEW in \in BusInputs, NEW sw \in Accesses, Cycle(in, sw)
    PROVE  /\ PadsInPlace'
           /\ ToPush \in Nat
           /\ ToPush' = ToPush - One(read_fifo_pop(read_fifo, write_fifo))
<1>1. /\ PadsInPlace /\ pad_fsm_on /\ Suitable(regs) /\ regs \in RegFile
  BY DEF DrainInv, Settings, TypeOK
<1>2. /\ regs' \in RegFile /\ conf_1d' = conf_1d /\ conf_2d' = conf_2d
      /\ regs'.size_d1 = regs.size_d1 /\ regs'.size_d2 = regs.size_d2
      /\ regs'.pad_top = regs.pad_top /\ regs'.pad_bottom = regs.pad_bottom
      /\ regs'.pad_left = regs.pad_left /\ regs'.pad_right = regs.pad_right
      /\ RowLen(regs') = RowLen(regs) /\ Rows(regs') = Rows(regs)
  BY <1>1, RegsKept DEF Cycle, ReadyForLaunch
<1>3. PadState(pad_push, write_fifo) /\ PadCounters(FALSE, pad_push)
  BY DEF Cycle, PadTick, PadCounters, dma_start
<1>4. pad_cnt_d1 \in Nat /\ pad_cnt_d2 \in Nat /\ pad_push \in BOOLEAN
  BY Widths, PushedType DEF TypeOK
<1>5. padding_fsm_done => ~pad_push
  BY DEF pad_push, write_fifo_push
<1>6. CASE conf_1d
  <2>1. pad_state = "IDLE" /\ ~conf_2d
    BY <1>1, <1>6 DEF PadsInPlace, conf_1d, conf_2d, Dim1, Dim2
  <2>2. read_fifo_pop(read_fifo, write_fifo) = pad_push
    BY <1>4, <2>1 DEF read_fifo_pop, pad_push, pad_on
  <2>3. pad_state_d(pad_push) = "IDLE"
    <3>1. /\ regs.pad_top = 0 /\ regs.pad_bottom = 0
          /\ regs.pad_left = 0 /\ regs.pad_right = 0
      BY <1>1, <1>6 DEF Suitable, conf_1d
    <3> QED BY <2>1, <3>1 DEF pad_state_d, RightStarts
  <2>4. PadsInPlace'
    BY <1>2, <1>3, <1>6, <2>1, <2>3 DEF PadState, PadsInPlace
  <2>5. pad_cnt_d1' = pad_cnt_d1 - One(pad_push)
    <3>1. CASE padding_fsm_done
      BY <1>1, <1>3, <1>4, <1>5, <1>6, <2>1, <3>1 DEF PadCounters, padding_fsm_done, One
    <3>2. CASE ~padding_fsm_done
      <4>1. pad_cnt_d1 # 0
        BY <1>1, <1>6, <3>2 DEF padding_fsm_done
      <4>2. pad_cnt_d1' = IF pad_push THEN pad_cnt_d1 - 1 ELSE pad_cnt_d1
        BY <1>3, <2>1, <3>2, <4>1 DEF PadCounters, Dec
      <4> QED BY <1>4, <4>2 DEF One
    <3> QED BY <3>1, <3>2
  <2> QED BY <1>2, <1>4, <1>6, <2>2, <2>4, <2>5 DEF ToPush
<1>7. CASE ~conf_1d
  <2>1. conf_2d
    BY <1>1, <1>7, FrameRange DEF conf_1d, conf_2d
  <2>2. /\ \A d1, d2 : SourceRest(regs', d1, d2) = SourceRest(regs, d1, d2)
        /\ \A state, d1, d2 : Placed(regs, state, d1, d2, FALSE)
                               => Placed(regs', state, d1, d2, Fresh')
    BY <1>2, FramesKept
  <2>3. CASE pad_cnt_d2 = 0
    <3>1. padding_fsm_done /\ ~pad_push /\ pad_state = "IDLE"
      BY <1>1, <1>5, <2>1, <2>3 DEF padding_fsm_done, PadsInPlace
    <3>2. pad_state' = "IDLE" /\ pad_cnt_d2' = 0
      BY <1>3, <3>1 DEF PadState, PadCounters
    <3>3. ~read_fifo_pop(read_fifo, write_fifo)
      BY <3>1 DEF read_fifo_pop, pad_push
    <3>4. ToPush = 0 /\ ToPush' = 0
      BY <1>2, <1>7, <2>3, <3>2 DEF ToPush, SourceRest
    <3>5. PadsInPlace'
      BY <3>2 DEF PadsInPlace
    <3>6. One(read_fifo_pop(read_fifo, write_fifo)) = 0
      BY <3>3 DEF One
    <3> QED BY <3>4, <3>5, <3>6
  <2>4. CASE pad_cnt_d2 # 0
    <3>1. PadsInPlace'
      <4>1. CASE pad_cnt_d2' = 0
        BY <1>1, <1>3, <2>1, <2>4, <4>1, PadStep DEF PadsInPlace
      <4>2. CASE pad_cnt_d2' # 0
        <5>1. /\ pad_cnt_d1' \in 1 .. RowLen(regs) /\ pad_cnt_d2' \in 1 .. Rows(regs)
              /\ Placed(regs, pad_state', pad_cnt_d1', pad_cnt_d2', FALSE)
          BY <1>1, <1>3, <2>1, <2>4, <4>2, PadStep
        <5> QED BY <1>2, <1>7, <2>2, <4>2, <5>1 DEF PadsInPlace
      <4> QED BY <4>1, <4>2
    <3>2. pad_cnt_d1 \in 1 .. RowLen(regs)
      BY <1>1, <1>7, <2>4 DEF PadsInPlace
    <3>3. One(read_fifo_pop(read_fifo, write_fifo))
            = IF pad_push THEN One(AtData(regs, pad_cnt_d1, pad_cnt_d2)) ELSE 0
      BY <1>1, <1>4, <2>1, <2>4, ZerosInPlace DEF read_fifo_pop, pad_push, One
    <3>4. /\ pad_push /\ pad_cnt_d1 = 1 => /\ pad_cnt_d1' = RowLen(regs)
                                           /\ pad_cnt_d2' = pad_cnt_d2 - 1
          /\ pad_push /\ pad_cnt_d1 # 1 => /\ pad_cnt_d1' = pad_cnt_d1 - 1
                                           /\ pad_cnt_d2' = pad_cnt_d2
          /\ ~pad_push => pad_cnt_d1' = pad_cnt_d1 /\ pad_cnt_d2' = pad_cnt_d2
      BY <1>1, <1>3, <1>4, <2>1, <2>4, <3>2, PadCountersStep
    <3>5. /\ ToPush = SourceRest(regs, pad_cnt_d1, pad_cnt_d2)
          /\ ToPush' = SourceRest(regs, pad_cnt_d1', pad_cnt_d2')
      BY <1>2, <1>7, <2>2 DEF ToPush
    <3>6. /\ SourceRest(regs, pad_cnt_d1, pad_cnt_d2) \in Nat
          /\ pad_cnt_d1 # 1 => SourceRest(regs, pad_cnt_d1 - 1, pad_cnt_d2)
                = SourceRest(regs, pad_cnt_d1, pad_cnt_d2)
                    - One(AtData(regs, pad_cnt_d1, pad_cnt_d2))
          /\ pad_cnt_d1 = 1 => SourceRest(regs, RowLen(regs), pad_cnt_d2 - 1)
                = SourceRest(regs, pad_cnt_d1, pad_cnt_d2)
                    - One(AtData(regs, pad_cnt_d1, pad_cnt_d2))
      BY <1>1, <1>4, <2>4, <3>2, SourceStep
    <3>7. ToPush' = ToPush - One(read_fifo_pop(read_fifo, write_fifo))
      <4>1. CASE pad_push
        BY <3>3, <3>4, <3>5, <3>6, <4>1
      <4>2. CASE ~pad_push
        BY <3>3, <3>4, <3>5, <3>6, <4>2
      <4> QED BY <4>1, <4>2
    <3> QED BY <3>1, <3>5, <3>6, <3>7
  <2> QED BY <2>3, <2>4
<1> QED BY <1>6, <1>7

LEMMA RequestsRun ==
    ASSUME TypeOK, DrainInv, dma_state = "RUNNING", ~dma_done,
           NEW in \in BusInputs, NEW sw \in Accesses, Cycle(in, sw)
    PROVE  /\ ToRequest \in Nat
           /\ ToRequest' = ToRequest - One(in.rgnt)
           /\ in.rgnt => ToRequest # 0
           /\ read_fsm' = "ON" => ToRequest # 0
           /\ conf_2d' => /\ src_cnt_d1' \in 1 .. regs'.size_d1
                          /\ src_cnt_d2' = 0 => src_cnt_d1' = regs'.size_d1
<1> DEFINE n == regs.size_d1
<1>1. /\ SourceCounted /\ Suitable(regs) /\ regs \in RegFile
  BY DEF DrainInv, Settings, TypeOK
<1>2. conf_1d' = conf_1d /\ conf_2d' = conf_2d /\ regs'.size_d1 = n
  BY <1>1, RegsKept DEF Cycle, ReadyForLaunch
<1>3. SrcCounters(FALSE, FALSE, in.rgnt) /\ ReadState(FALSE, in.stop)
  BY DEF Cycle, ReadTick, SrcCounters, ReadState, dma_start
<1>4. /\ src_cnt_d1 \in Nat /\ src_cnt_d2 \in Nat /\ n \in Nat \ {0}
      /\ in.rgnt \in BOOLEAN
  BY <1>1, Widths, FrameRange, SignalTypes DEF TypeOK, Suitable
<1>5. in.rgnt => ~ReadAll
  BY DEF Cycle, BusAllowed, data_in_req
<1>6. read_fsm' = "ON" => ~ReadAll
  BY <1>3 DEF ReadState, TypeOK
<1>7. CASE conf_1d
  <2>1. ~conf_2d /\ ~conf_2d'
    BY <1>2, <1>7 DEF conf_1d, conf_2d, Dim1, Dim2
  <2>2. ToRequest = src_cnt_d1 /\ ToRequest' = src_cnt_d1'
    BY <1>2, <1>7 DEF ToRequest
  <2>3. ~ReadAll => src_cnt_d1 # 0
    BY <1>7 DEF ReadAll
  <2>4. src_cnt_d1' = src_cnt_d1 - One(in.rgnt)
    <3>1. in.rgnt => src_cnt_d1' = src_cnt_d1 - 1
      BY <1>3, <1>5, <2>1, <2>3 DEF SrcCounters, Dec
    <3>2. ~in.rgnt => src_cnt_d1' = src_cnt_d1
      BY <1>3, <2>1 DEF SrcCounters
    <3>3. CASE in.rgnt
      BY <1>4, <3>1, <3>3 DEF One
    <3>4. CASE ~in.rgnt
      BY <1>4, <3>2, <3>4 DEF One
    <3> QED BY <3>3, <3>4
  <2> QED BY <1>4, <1>5, <1>6, <2>1, <2>2, <2>3, <2>4
<1>8. CASE ~conf_1d
  <2>1. conf_2d
    BY <1>1, <1>8, FrameRange DEF conf_1d, conf_2d
  <2>2. src_cnt_d1 \in 1 .. n /\ (src_cnt_d2 = 0 => src_cnt_d1 = n)
    BY <1>1, <2>1 DEF SourceCounted
  <2>3. /\ ToRequest = Rest(src_cnt_d1, src_cnt_d2, n)
        /\ ToRequest' = Rest(src_cnt_d1', src_cnt_d2', n)
    BY <1>2, <1>8 DEF ToRequest
  <2>4. ~ReadAll => src_cnt_d2 # 0
    BY <2>1, <2>2 DEF ReadAll
  <2>5. /\ Rest(src_cnt_d1, src_cnt_d2, n) \in Nat
        /\ Rest(src_cnt_d1, src_cnt_d2, n) = 0 <=> src_cnt_d2 = 0
        /\ src_cnt_d2 # 0 /\ src_cnt_d1 = 1 =>
             Rest(n, src_cnt_d2 - 1, n) = Rest(src_cnt_d1, src_cnt_d2, n) - 1
        /\ src_cnt_d2 # 0 /\ src_cnt_d1 # 1 =>
             Rest(src_cnt_d1 - 1, src_cnt_d2, n) = Rest(src_cnt_d1, src_cnt_d2, n) - 1
    BY <1>4, <2>2, RestStep
  <2>6. CASE ~in.rgnt
    <3>1. src_cnt_d1' = src_cnt_d1 /\ src_cnt_d2' = src_cnt_d2
      BY <1>3, <2>6 DEF SrcCounters
    <3>2. ToRequest' = ToRequest - One(in.rgnt)
      BY <2>3, <2>5, <2>6, <3>1 DEF One
    <3> QED BY <1>2, <1>6, <2>2, <2>3, <2>4, <2>5, <2>6, <3>1, <3>2
  <2>7. CASE in.rgnt /\ src_cnt_d1 = 1
    <3>1. src_cnt_d2 # 0
      BY <1>5, <2>4, <2>7
    <3>2. src_cnt_d1' = n /\ src_cnt_d2' = src_cnt_d2 - 1
      BY <1>3, <2>1, <2>7, <3>1 DEF SrcCounters, Dec
    <3>3. ToRequest' = ToRequest - One(in.rgnt)
      BY <2>3, <2>5, <2>7, <3>1, <3>2 DEF One
    <3>4. n \in 1 .. n
      BY <1>4
    <3> QED BY <1>2, <2>3, <2>5, <3>1, <3>2, <3>3, <3>4
  <2>8. CASE in.rgnt /\ src_cnt_d1 # 1
    <3>1. src_cnt_d2 # 0 /\ src_cnt_d1 # 0
      BY <1>5, <2>2, <2>4, <2>8
    <3>2. src_cnt_d1' = src_cnt_d1 - 1 /\ src_cnt_d2' = src_cnt_d2
      BY <1>3, <2>1, <2>8, <3>1 DEF SrcCounters, Dec
    <3>3. ToRequest' = ToRequest - One(in.rgnt)
      BY <2>3, <2>5, <2>8, <3>1, <3>2 DEF One
    <3>4. src_cnt_d1 - 1 \in 1 .. n
      BY <1>4, <2>2, <2>8
    <3> QED BY <1>2, <2>3, <2>5, <3>1, <3>2, <3>3, <3>4
  <2> QED BY <2>6, <2>7, <2>8
<1> QED BY <1>7, <1>8

LEMMA SourceRun ==
    ASSUME TypeOK, FifosHaveRoom, DrainInv, dma_state = "RUNNING", ~dma_done,
           NEW in \in BusInputs, NEW sw \in Accesses, Cycle(in, sw)
    PROVE  SourceCounted'
<1> DEFINE pop == read_fifo_pop(read_fifo, write_fifo)
           d == << Head(read_pending), read_ptr_valid >>
<1>1. /\ ToPush = ToRequest + Len(read_pending) + Len(read_fifo)
      /\ ToPush \in Nat /\ ToPush' = ToPush - One(pop)
      /\ ToRequest \in Nat /\ ToRequest' = ToRequest - One(in.rgnt)
  BY PadsRun, RequestsRun DEF DrainInv, SourceCounted
<1>2. /\ in.rgnt \in BOOLEAN /\ in.rvalid \in BOOLEAN /\ pop \in BOOLEAN
      /\ in.rvalid => read_pending # << >>
      /\ in.rgnt => read_pending = << >> \/ in.rvalid
      /\ pop => read_fifo # << >>
  BY SignalTypes DEF Cycle, BusAllowed, read_fifo_pop, write_fifo_push
<1>3. /\ read_fifo \in Seq(Elements) /\ read_pending \in Seq(Int)
      /\ Len(read_pending) <= 1 /\ read_ptr \in Int
      /\ Len(read_fifo) \in Nat /\ Len(read_pending) \in Nat
      /\ read_pending # << >> => Len(read_pending) # 0
      /\ Len(read_fifo) + Len(read_pending) <= Depth /\ Depth \in Nat
  BY EmptyLen, DepthAssumption DEF TypeOK, FifosHaveRoom
<1>4. in.rvalid => d \in Elements
  <2>1. in.rvalid => Head(read_pending) \in Int
    BY <1>2, <1>3
  <2> QED BY <2>1 DEF TypeOK, Elements
<1>5. in.rvalid => Len(read_fifo) # Depth
  BY <1>2, <1>3
<1>6. Len(read_fifo') = Len(read_fifo) + One(in.rvalid) - One(pop)
  <2>1. read_fifo' = FifoNext(read_fifo, in.rvalid, d, pop)
    BY DEF Cycle, ReadTick, ReadFifo
  <2> HIDE DEF pop, d
  <2>2. Len(FifoNext(read_fifo, in.rvalid, d, pop))
          = Len(read_fifo) + One(in.rvalid) - One(pop)
    <3>1. /\ in.rvalid \in BOOLEAN /\ pop \in BOOLEAN /\ read_fifo \in Seq(Elements)
          /\ pop => read_fifo # << >>
      BY <1>2, <1>3
    <3> QED BY <1>4, <1>5, <3>1, FifoExact
  <2> QED BY <2>1, <2>2
<1>7. read_pending' = InFlight(read_pending, in.rgnt, read_ptr, in.rvalid)
  BY DEF Cycle, ReadTick, ReadBus
<1>8. Len(read_pending') = Len(read_pending) + One(in.rgnt) - One(in.rvalid)
  BY <1>2, <1>3, <1>7, InFlightExact
<1>9. ToPush' = ToRequest' + Len(read_pending') + Len(read_fifo')
  <2> DEFINE push == ToPush'  request == ToRequest'
             flight == Len(read_pending')  fifo == Len(read_fifo')
             gnt == One(in.rgnt)  rvalid == One(in.rvalid)  taken == One(pop)
  <2>1. /\ gnt \in Nat /\ rvalid \in Nat /\ taken \in Nat
        /\ push = ToPush - taken /\ request = ToRequest - gnt
        /\ flight = Len(read_pending) + gnt - rvalid
        /\ fifo = Len(read_fifo) + rvalid - taken
    BY <1>1, <1>6, <1>8 DEF One
  <2> HIDE DEF push, request, flight, fifo, gnt, rvalid, taken
  <2>2. push = request + flight + fifo
    BY <1>1, <1>3, <2>1
  <2> QED BY <2>2 DEF push, request, flight, fifo
<1>10. read_fsm' = "ON" /\ ToRequest' = 0 => read_pending' # << >>
  <2> SUFFICES ASSUME read_fsm' = "ON", ToRequest' = 0
               PROVE  read_pending' # << >>
    OBVIOUS
  <2>1. ToRequest # 0
    BY RequestsRun
  <2>2. in.rgnt
    BY <1>1, <1>2, <2>1 DEF One
  <2>3. (IF in.rvalid THEN Tail(read_pending) ELSE read_pending) \in Seq(Int)
    BY <1>2, <1>3
  <2>4. Len(read_pending') # 0
    BY <1>3, <1>7, <2>2, <2>3, AppendProperties DEF InFlight
  <2> QED BY <2>4, EmptySeq
<1>11. conf_2d' => /\ src_cnt_d1' \in 1 .. regs'.size_d1
                   /\ src_cnt_d2' = 0 => src_cnt_d1' = regs'.size_d1
  BY RequestsRun
<1> QED BY <1>9, <1>10, <1>11 DEF SourceCounted

LEMMA AddressesRun ==
    ASSUME TypeOK, FifosHaveRoom, DrainInv, dma_state = "RUNNING", ~dma_done,
           NEW in \in BusInputs, NEW sw \in Accesses, Cycle(in, sw)
    PROVE  AddressesCounted'
<1>1. /\ AddressesCounted /\ PadsInPlace /\ pad_fsm_on /\ Suitable(regs)
      /\ regs \in RegFile
  BY DEF DrainInv, Settings, TypeOK
<1>2. conf_1d' = conf_1d /\ (address_mode' <=> address_mode)
  BY <1>1, RegsKept DEF Cycle, ReadyForLaunch
<1>3. AddrTick(FALSE, in.agnt, in.avalid, in.wgnt, in.stop)
  BY DEF Cycle, AddrTick, dma_start
<1>4. CASE ~address_mode
  <2>1. AddressesRest
    BY <1>1, <1>4 DEF AddressesCounted
  <2>2. in.agnt = FALSE /\ in.avalid = FALSE
    BY <2>1, SignalTypes DEF AddressesRest, BusInputs, Choices
  <2>3. addr_fsm' = "IDLE" /\ addr_fifo' = << >> /\ addr_pending' = << >>
    BY <1>3, <1>4, <2>1, <2>2 DEF AddrTick, AddressesRest, FifoNext, InFlight
  <2> QED BY <1>2, <1>4, <2>3 DEF AddressesCounted, AddressesRest
<1>5. CASE address_mode
  <2>1. conf_1d /\ ~conf_2d
    BY <1>1, <1>5, FrameRange DEF Suitable, address_mode, conf_1d, conf_2d, Dim1, Dim2
  <2>2. /\ in.agnt \in BOOLEAN /\ in.avalid \in BOOLEAN /\ in.wgnt \in BOOLEAN
        /\ pad_push \in BOOLEAN
        /\ in.avalid => addr_pending # << >>
        /\ in.agnt => addr_pending = << >> \/ in.avalid
        /\ in.agnt => addr_cnt # 0
        /\ in.wgnt => addr_fifo # << >>
        /\ in.wgnt => write_fifo # << >> \/ pad_push
    BY <1>5, SignalTypes, PushedType
       DEF Cycle, BusAllowed, data_addr_in_req, data_out_req, write_fifo_empty
  <2>3. /\ addr_fifo \in Seq(Int) /\ addr_pending \in Seq(Int)
        /\ Len(addr_pending) <= 1 /\ addr_ptr_reg \in Int /\ addr_cnt \in Nat
        /\ write_fifo \in Seq(Elements) /\ pad_cnt_d1 \in Nat
        /\ Len(addr_fifo) \in Nat /\ Len(addr_pending) \in Nat /\ Len(write_fifo) \in Nat
        /\ addr_pending # << >> => Len(addr_pending) # 0
        /\ Len(addr_fifo) + Len(addr_pending) <= Depth /\ Depth \in Nat
        /\ Len(write_fifo) < Depth
    BY EmptyLen, DepthAssumption, Widths DEF TypeOK, FifosHaveRoom
  <2>4. /\ addr_cnt + Len(addr_pending) + Len(addr_fifo) = pad_cnt_d1 + Len(write_fifo)
        /\ addr_fsm = "ON" /\ addr_cnt = 0 => addr_pending # << >>
    BY <1>1, <1>5 DEF AddressesCounted
  <2>5. addr_cnt' = addr_cnt - One(in.agnt)
    BY <1>3, <1>5, <2>2, <2>3 DEF AddrTick, One
  <2>6. Len(addr_fifo') = Len(addr_fifo) + One(in.avalid) - One(in.wgnt)
    <3>1. addr_fifo' = FifoNext(addr_fifo, in.avalid, Head(addr_pending), in.wgnt)
      BY <1>3, <1>5, <2>2 DEF AddrTick
    <3>2. in.avalid => Head(addr_pending) \in Int
      BY <2>2, <2>3
    <3>3. in.avalid => Len(addr_fifo) # Depth
      BY <2>2, <2>3
    <3>4. Len(FifoNext(addr_fifo, in.avalid, Head(addr_pending), in.wgnt))
            = Len(addr_fifo) + One(in.avalid) - One(in.wgnt)
      <4>1. /\ in.avalid \in BOOLEAN /\ in.wgnt \in BOOLEAN /\ addr_fifo \in Seq(Int)
            /\ in.wgnt => addr_fifo # << >>
        BY <2>2, <2>3
      <4> QED BY <3>2, <3>3, <4>1, FifoExact
    <3> QED BY <3>1, <3>4
  <2>7. addr_pending' = InFlight(addr_pending, in.agnt, addr_ptr_reg, in.avalid)
    BY <1>3 DEF AddrTick
  <2>8. Len(addr_pending') = Len(addr_pending) + One(in.agnt) - One(in.avalid)
    BY <2>2, <2>3, <2>7, InFlightExact
  <2>9. Len(write_fifo') = Len(write_fifo) + One(pad_push) - One(in.wgnt)
    <3> DEFINE d == write_fifo_input(read_fifo)
    <3>1. write_fifo' = FallThroughNext(write_fifo, pad_push, d, in.wgnt)
      BY <2>2 DEF Cycle, WriteTick
    <3>2. pad_push => d \in Elements
      BY PushedType
    <3>3. pad_push => Len(write_fifo) # Depth
      BY DEF pad_push, write_fifo_push, write_fifo_en, full
    <3> HIDE DEF d
    <3>4. Len(FallThroughNext(write_fifo, pad_push, d, in.wgnt))
            = Len(write_fifo) + One(pad_push) - One(in.wgnt)
      BY <2>2, <2>3, <3>2, <3>3, FallThroughExact
    <3> QED BY <3>1, <3>4
  <2>10. pad_cnt_d1' = pad_cnt_d1 - One(pad_push)
    <3>1. PadCounters(FALSE, pad_push)
      BY DEF Cycle, PadTick, PadCounters, dma_start
    <3>2. CASE padding_fsm_done
      <4>1. ~pad_push /\ pad_cnt_d1 = 0
        BY <2>1, <3>2 DEF pad_push, write_fifo_push, padding_fsm_done
      <4>2. pad_cnt_d1' = 0 /\ One(pad_push) = 0
        BY <3>1, <3>2, <4>1 DEF PadCounters, One
      <4> QED BY <4>1, <4>2
    <3>3. CASE ~padding_fsm_done
      <4>1. pad_cnt_d1 # 0
        BY <1>1, <2>1, <3>3 DEF padding_fsm_done
      <4>2. pad_cnt_d1' = IF pad_push THEN pad_cnt_d1 - 1 ELSE pad_cnt_d1
        BY <2>1, <3>1, <3>3, <4>1 DEF PadCounters, Dec
      <4> QED BY <2>3, <4>2 DEF One
    <3> QED BY <3>2, <3>3
  <2>11. addr_cnt' + Len(addr_pending') + Len(addr_fifo') = pad_cnt_d1' + Len(write_fifo')
    <3> DEFINE ask == addr_cnt'  flight == Len(addr_pending')  fifo == Len(addr_fifo')
               push == pad_cnt_d1'  words == Len(write_fifo')
               gnt == One(in.agnt)  avalid == One(in.avalid)
               pushed == One(pad_push)  taken == One(in.wgnt)
    <3>1. /\ gnt \in Nat /\ avalid \in Nat /\ pushed \in Nat /\ taken \in Nat
          /\ ask = addr_cnt - gnt /\ push = pad_cnt_d1 - pushed
          /\ flight = Len(addr_pending) + gnt - avalid
          /\ fifo = Len(addr_fifo) + avalid - taken
          /\ words = Len(write_fifo) + pushed - taken
      BY <2>5, <2>6, <2>8, <2>9, <2>10 DEF One
    <3> DEFINE f == Len(addr_pending)  q == Len(addr_fifo)  w == Len(write_fifo)
    <3>2. /\ addr_cnt \in Nat /\ pad_cnt_d1 \in Nat /\ f \in Nat /\ q \in Nat /\ w \in Nat
          /\ addr_cnt + f + q = pad_cnt_d1 + w
      BY <2>3, <2>4
    <3> HIDE DEF ask, flight, fifo, push, words, gnt, avalid, pushed, taken, f, q, w
    <3>3. ask + flight + fifo = push + words
      BY <3>1, <3>2 DEF f, q, w
    <3> QED BY <3>3 DEF ask, flight, fifo, push, words
  <2>12. addr_fsm' = "ON" /\ addr_cnt' = 0 => addr_pending' # << >>
    <3> SUFFICES ASSUME addr_fsm' = "ON", addr_cnt' = 0
                 PROVE  addr_pending' # << >>
      OBVIOUS
    <3>1. addr_cnt # 0
      BY <1>3 DEF AddrTick, TypeOK
    <3>2. in.agnt
      BY <2>2, <2>3, <2>5, <3>1 DEF One
    <3>3. (IF in.avalid THEN Tail(addr_pending) ELSE addr_pending) \in Seq(Int)
      BY <2>2, <2>3
    <3>4. Len(addr_pending') # 0
      BY <2>3, <2>7, <3>2, <3>3, AppendProperties DEF InFlight
    <3> QED BY <3>4, EmptySeq
  <2> QED BY <1>2, <1>5, <2>11, <2>12 DEF AddressesCounted
<1> QED BY <1>4, <1>5

LEMMA RunStep ==
    ASSUME TypeOK, FifosHaveRoom, DrainInv, dma_state = "RUNNING", ~dma_done, Settings',
           NEW in \in BusInputs, NEW sw \in Accesses, Cycle(in, sw)
    PROVE  DrainInv'
<1>1. dma_state' = "RUNNING"
  BY DEF Cycle, MainFsm
<1>2. write_fsm' = "ON" /\ pad_fsm_on'
  BY DEF DrainInv, Cycle, WriteTick, PadTick, dma_start
<1> QED BY <1>1, <1>2, PadsRun, SourceRun, AddressesRun DEF DrainInv

-----------------------------------------------------------------------------
(* DrainInv is inductive with the types and the room in the FIFOs.         *)
LEMMA DrainInvariant == SettingsSuit => (Spec => []DrainInv)
<1> SUFFICES ASSUME SettingsSuit
             PROVE  Spec => []DrainInv
  OBVIOUS
<1>1. Init => DrainInv
  BY DEF Init, ReadInit, PadInit, WriteInit, DrainInv, Settings, Drained, AddressesRest
<1>2. TypeOK /\ FifosHaveRoom /\ DrainInv /\ [Next]_vars => DrainInv'
  <2>1. CASE UNCHANGED vars
    BY <2>1
       DEF vars, readVars, addrVars, padVars, writeVars, mainVars, DrainInv, Settings,
           Drained, AddressesRest, PadsInPlace, Fresh, SourceCounted, ToPush, ToRequest,
           AddressesCounted, conf_1d, conf_2d, address_mode
  <2>2. ASSUME TypeOK, FifosHaveRoom, DrainInv,
               NEW in \in BusInputs, NEW sw \in Accesses, Cycle(in, sw)
        PROVE  DrainInv'
    <3>1. Settings'
      BY <2>2, SettingsStep DEF DrainInv
    <3>2. CASE dma_state = "READY"
      BY <2>2, <3>1, <3>2, ReadyStep
    <3>3. CASE dma_state = "STARTING"
      BY <2>2, <3>1, <3>3, StartStep
    <3>4. CASE dma_state = "RUNNING" /\ dma_done
      BY <2>2, <3>1, <3>4, DoneStep
    <3>5. CASE dma_state = "RUNNING" /\ ~dma_done
      BY <2>2, <3>1, <3>5, RunStep
    <3> QED BY <2>2, <3>2, <3>3, <3>4, <3>5 DEF TypeOK
  <2> QED BY <2>1, <2>2 DEF Next
<1> QED BY <1>1, <1>2, TypeCorrect, FifoSafety, PTL DEF Spec

(* Nothing of a transfer is left for the next one: a channel that reports  *)
(* ready has empty FIFOs, no read in flight and every FSM in its idle      *)
(* state.  The strengthening counts the words of the source along the      *)
(* pipeline and places the padding FSM in the frame, so that the end the   *)
(* channel sees, nothing left to push and an empty write FIFO, is the end  *)
(* of both read masters too.                                               *)
THEOREM DrainSafety == SettingsSuit => (Spec => []ReadyMeansDrained)
<1> SUFFICES ASSUME SettingsSuit
             PROVE  Spec => []ReadyMeansDrained
  OBVIOUS
<1>1. Spec => []DrainInv
  BY DrainInvariant
<1>2. DrainInv => ReadyMeansDrained
  BY DEF DrainInv, Drained, AddressesRest, ReadyMeansDrained, ReadyForLaunch
<1> QED BY <1>1, <1>2, PTL

-----------------------------------------------------------------------------
(* What a channel delivers.  DrainInv counts the words at each place of    *)
(* the pipeline.  Counted from the end of the transfer, that gives each    *)
(* word its number in the source and in the frame, and so the word it has  *)
(* to be.                                                                  *)

(* The words of the source, numbered from zero.                            *)
SourceLen(c) == IF c.dim_config = Dim1 THEN c.size_d1 ELSE c.size_d2 * c.size_d1
SourceAt(c, j) == SrcAddr(c, j \div c.size_d1, j % c.size_d1)

Requested == SourceLen(regs) - ToRequest
Answered  == Requested - Len(read_pending)
Taken     == SourceLen(regs) - ToPush

(* The words of the frame still to push; the words of the frame.           *)
ToFrame == IF conf_1d THEN pad_cnt_d1 ELSE Rest(pad_cnt_d1, pad_cnt_d2, RowLen(regs))
Framed  == TotalLen(regs) - ToFrame

Word(c, n) == ExpectedWrite(c, n)[2]
Target(c, n) == ExpectedWrite(c, n)[1]

(* The data read master.                                                   *)
SourceRead ==
    /\ src_cnt_d1 <= regs.size_d1
    /\ conf_2d => src_cnt_d2 <= regs.size_d2
    /\ ToRequest # 0 => read_ptr = SourceAt(regs, Requested)
    /\ ToRequest # 0 /\ conf_2d /\ regs.dim_inv =>
         trsp_ptr = regs.src_ptr
                      + (regs.size_d2 - src_cnt_d2 + 1) * regs.src_ptr_inc_d1
    /\ read_pending # << >> => Head(read_pending) = SourceAt(regs, Requested - 1)
    /\ Answered < SourceLen(regs) => read_ptr_valid = SourceAt(regs, Answered)
    /\ \A i \in 1 .. Len(read_fifo) :
         read_fifo[i] = << SourceAt(regs, Taken + i - 1), SourceAt(regs, Taken + i - 1) >>

(* The frame, on its way to the destination.                               *)
FrameWritten ==
    /\ Len(out) + Len(write_fifo) = Framed
    /\ \A i \in 1 .. Len(write_fifo) : write_fifo[i] = Word(regs, Len(out) + i)
    /\ \A i \in 1 .. Len(out) : out[i] = ExpectedWrite(regs, i)

(* The two sources of a write address.                                     *)
Pointed ==
    ~address_mode /\ Len(out) < TotalLen(regs) =>
        /\ write_ptr = Target(regs, Len(out) + 1)
        /\ conf_2d => dst_cnt_d1 = RowLen(regs) - (Len(out) % RowLen(regs))

Listed(k) == regs.addr_ptr + 4 * k

Addressed ==
    address_mode =>
        /\ addr_ptr_reg = Listed(regs.size_d1 - addr_cnt)
        /\ addr_pending # << >> => Head(addr_pending) = Listed(regs.size_d1 - addr_cnt - 1)
        /\ \A i \in 1 .. Len(addr_fifo) : addr_fifo[i] = Listed(Len(out) + i - 1)

DeliveryInv ==
    /\ dma_state = "RUNNING" =>
         ~start_pending /\ SourceRead /\ FrameWritten /\ Pointed /\ Addressed
    /\ ReadyMeansDelivered

-----------------------------------------------------------------------------
(* Numbers in a grid.                                                      *)

LEMMA RowsApart ==
    ASSUME NEW a \in Nat, NEW b \in Nat, NEW n \in Nat, a < b
    PROVE  a * n \in Nat /\ b * n \in Nat /\ a * n + n <= b * n
<1> DEFINE d == b - a - 1
<1>1. d \in Nat /\ b = a + 1 + d
  OBVIOUS
<1>2. d * n \in Nat /\ a * n \in Nat /\ b * n \in Nat
  BY <1>1
<1>3. (a + 1 + d) * n = a * n + n + d * n
  BY <1>1
<1> HIDE DEF d
<1> QED BY <1>1, <1>2, <1>3

(* The n-th row starts at q * n.                                           *)
LEMMA DivMod ==
    ASSUME NEW q \in Nat, NEW n \in Nat \ {0}, NEW e \in 0 .. n - 1
    PROVE  /\ q * n + e \in Nat
           /\ (q * n + e) \div n = q /\ (q * n + e) % n = e
<1> DEFINE j == q * n + e
           d == j \div n
           m == j % n
<1>1. q * n \in Nat /\ j \in Nat
  OBVIOUS
<1>2. d \in Nat /\ m \in 0 .. n - 1 /\ j = d * n + m
  <2> HIDE DEF j
  <2> QED BY <1>1 DEF j
<1>3. ~(d < q)
  <2> SUFFICES ASSUME d < q PROVE FALSE
    OBVIOUS
  <2>1. d * n \in Nat /\ d * n + n <= q * n
    BY <1>2, RowsApart
  <2> HIDE DEF d, m
  <2> QED BY <1>1, <1>2, <2>1 DEF j
<1>4. ~(q < d)
  <2> SUFFICES ASSUME q < d PROVE FALSE
    OBVIOUS
  <2>1. d * n \in Nat /\ q * n + n <= d * n
    BY <1>2, RowsApart
  <2> HIDE DEF d, m
  <2> QED BY <1>1, <1>2, <2>1 DEF j
<1>5. d = q
  <2> HIDE DEF d
  <2> QED BY <1>2, <1>3, <1>4
<1>6. m = e
  <2>1. j = q * n + m
    BY <1>2, <1>5
  <2> HIDE DEF d, m
  <2> QED BY <1>1, <1>2, <2>1 DEF j
<1> QED BY <1>1, <1>5, <1>6

(* A word with d1 words left in its row and d2 rows left with its own.     *)
LEMMA GridIndex ==
    ASSUME NEW n \in Nat \ {0}, NEW m \in Nat, NEW d1 \in 1 .. n, NEW d2 \in 1 .. m
    PROVE  LET j == m * n - Rest(d1, d2, n)
           IN  /\ j \in Nat /\ j < m * n
               /\ j = (m - d2) * n + (n - d1)
               /\ j \div n = m - d2 /\ j % n = n - d1
<1> DEFINE q == m - d2
           p == d2 - 1
<1>1. q \in Nat /\ p \in Nat /\ m = q + p + 1 /\ d2 # 0
  OBVIOUS
<1>2. q * n \in Nat /\ p * n \in Nat /\ m * n = q * n + p * n + n
  <2>1. (q + p + 1) * n = q * n + p * n + n
    BY <1>1
  <2> QED BY <1>1, <2>1
<1>3. Rest(d1, d2, n) = p * n + d1
  BY <1>1 DEF Rest
<1>4. n - d1 \in 0 .. n - 1
  OBVIOUS
<1>5. (q * n + (n - d1)) \div n = q /\ (q * n + (n - d1)) % n = n - d1
  BY <1>1, <1>4, DivMod
<1> HIDE DEF q, p
<1>6. /\ m * n - Rest(d1, d2, n) = q * n + (n - d1)
      /\ q * n + (n - d1) \in Nat /\ q * n + (n - d1) < m * n
  BY <1>2, <1>3, <1>4
<1> QED BY <1>5, <1>6 DEF q

-----------------------------------------------------------------------------
(* Source addresses.                                                       *)

LEMMA SourceRange ==
    ASSUME NEW c \in RegFile
    PROVE  /\ c.src_ptr \in Int /\ c.src_ptr_inc_d1 \in Int /\ c.src_ptr_inc_d2 \in Int
           /\ c.dst_ptr \in Int /\ c.dst_ptr_inc_d1 \in Int /\ c.dst_ptr_inc_d2 \in Int
           /\ c.addr_ptr \in Int /\ c.dim_inv \in BOOLEAN
BY DEF RegFile

(* The word of a single row, and of a matrix.                              *)
LEMMA SourceAtRow ==
    ASSUME NEW c \in RegFile, Suitable(c), c.dim_config = Dim1, NEW j \in Nat,
           j < c.size_d1
    PROVE  SourceAt(c, j) = c.src_ptr + j * c.src_ptr_inc_d1
<1> DEFINE n == c.size_d1
           z == (n - 1) * c.src_ptr_inc_d1 + c.src_ptr_inc_d2
<1>1. n \in Nat \ {0} /\ j \in 0 .. n - 1
  BY FrameRange
<1>2. (0 * n + j) \div n = 0 /\ (0 * n + j) % n = j
  BY <1>1, DivMod
<1>3. 0 * n + j = j
  BY <1>1
<1>4. SourceAt(c, j) = SrcAddr(c, 0, j)
  BY <1>2, <1>3 DEF SourceAt
<1>5. SrcAddr(c, 0, j) = c.src_ptr + 0 * z + j * c.src_ptr_inc_d1
  BY DEF SrcAddr, Dim1, Dim2
<1>6. z \in Int
  BY <1>1, SourceRange
<1>7. 0 * z = 0 /\ j * c.src_ptr_inc_d1 \in Int
  <2> HIDE DEF z
  <2> QED BY <1>6, SourceRange
<1> HIDE DEF z
<1> QED BY <1>4, <1>5, <1>7, SourceRange

LEMMA SourceAtGrid ==
    ASSUME NEW c \in RegFile, Suitable(c), c.dim_config = Dim2,
           NEW d1 \in 1 .. c.size_d1, NEW d2 \in 1 .. c.size_d2
    PROVE  SourceAt(c, SourceLen(c) - Rest(d1, d2, c.size_d1))
             = SrcAddr(c, c.size_d2 - d2, c.size_d1 - d1)
<1>1. c.size_d1 \in Nat \ {0} /\ c.size_d2 \in Nat
  BY FrameRange
<1>2. SourceLen(c) = c.size_d2 * c.size_d1
  BY DEF SourceLen, Dim1, Dim2
<1> QED BY <1>1, <1>2, GridIndex DEF SourceAt

(* The next word of a row, and the first of the next row.                  *)
LEMMA SrcAddrStep ==
    ASSUME NEW c \in RegFile, c.dim_config = Dim2, NEW r \in Nat, NEW k \in Nat
    PROVE  /\ SrcAddr(c, r, k) \in Int
           /\ ~c.dim_inv => SrcAddr(c, r, k + 1) = SrcAddr(c, r, k) + c.src_ptr_inc_d1
           /\ c.dim_inv => SrcAddr(c, r, k + 1) = SrcAddr(c, r, k) + c.src_ptr_inc_d2
           /\ ~c.dim_inv /\ k = c.size_d1 - 1 =>
                SrcAddr(c, r + 1, 0) = SrcAddr(c, r, k) + c.src_ptr_inc_d2
           /\ c.dim_inv => SrcAddr(c, r, 0) = c.src_ptr + r * c.src_ptr_inc_d1
<1> DEFINE n == c.size_d1  p == c.src_ptr  i1 == c.src_ptr_inc_d1  i2 == c.src_ptr_inc_d2
           z == (n - 1) * i1 + i2
<1>1. n \in Nat /\ p \in Int /\ i1 \in Int /\ i2 \in Int
  BY FrameRange, SourceRange
<1>2. CASE c.dim_inv
  <2>1. \A x, y : SrcAddr(c, x, y) = p + x * i1 + y * i2
    BY <1>2 DEF SrcAddr
  <2> HIDE DEF n, p, i1, i2
  <2>2. /\ r * i1 \in Int /\ k * i2 \in Int /\ (k + 1) * i2 = k * i2 + i2 /\ 0 * i2 = 0
    BY <1>1
  <2>3. /\ SrcAddr(c, r, k) \in Int
        /\ SrcAddr(c, r, k + 1) = SrcAddr(c, r, k) + i2
        /\ SrcAddr(c, r, 0) = p + r * i1
    BY <1>1, <2>1, <2>2
  <2> QED BY <1>2, <2>3 DEF p, i1, i2
<1>3. CASE ~c.dim_inv
  <2>1. \A x, y : SrcAddr(c, x, y) = p + x * z + y * i1
    BY <1>3 DEF SrcAddr
  <2>2. z \in Int /\ z = (n - 1) * i1 + i2 /\ (n - 1) * i1 \in Int
    BY <1>1
  <2> HIDE DEF n, p, i1, i2, z
  <2>3. /\ r * z \in Int /\ k * i1 \in Int /\ (k + 1) * i1 = k * i1 + i1 /\ 0 * i1 = 0
        /\ (r + 1) * z = r * z + z
    BY <1>1, <2>2
  <2>4. /\ SrcAddr(c, r, k) \in Int
        /\ SrcAddr(c, r, k + 1) = SrcAddr(c, r, k) + i1
        /\ k = n - 1 => SrcAddr(c, r + 1, 0) = SrcAddr(c, r, k) + i2
    <3> DEFINE u == r * z  v == k * i1
    <3>1. /\ SrcAddr(c, r, k) = p + u + v /\ SrcAddr(c, r, k + 1) = p + u + (v + i1)
          /\ SrcAddr(c, r + 1, 0) = p + (u + z) + 0
          /\ u \in Int /\ v \in Int
      BY <2>1, <2>3
    <3>2. k = n - 1 => z = v + i2
      BY <2>2
    <3> HIDE DEF u, v
    <3> QED BY <1>1, <2>2, <3>1, <3>2
  <2> QED BY <1>3, <2>4 DEF n, i1, i2
<1> QED BY <1>2, <1>3

-----------------------------------------------------------------------------
(* FIFOs that hold consecutive words: f[t + 1] is the first one of q.      *)
Numbered(q, f, t) == \A i \in 1 .. Len(q) : q[i] = f[t + i]

LEMMA RestItems ==
    ASSUME NEW S, NEW q \in Seq(S), NEW pop \in BOOLEAN, pop => q # << >>,
           NEW f, NEW t \in Int, Numbered(q, f, t)
    PROVE  Numbered(IF pop THEN Tail(q) ELSE q, f, t + One(pop))
<1>1. CASE pop
  <2>1. /\ Len(q) \in Nat /\ Len(Tail(q)) = Len(q) - 1
        /\ \A i \in 1 .. Len(Tail(q)) : Tail(q)[i] = q[i + 1]
    BY <1>1
  <2> SUFFICES ASSUME NEW i \in 1 .. Len(Tail(q))
               PROVE  Tail(q)[i] = f[t + One(pop) + i]
    BY <1>1 DEF Numbered
  <2>2. i + 1 \in 1 .. Len(q) /\ t + (i + 1) = t + 1 + i
    BY <2>1
  <2>3. One(pop) = 1
    BY <1>1 DEF One
  <2> QED BY <2>1, <2>2, <2>3 DEF Numbered
<1>2. CASE ~pop
  <2>1. One(pop) = 0
    BY <1>2 DEF One
  <2>2. t + One(pop) = t
    BY <2>1
  <2> QED BY <1>2, <2>2
<1> QED BY <1>1, <1>2

LEMMA AppendItems ==
    ASSUME NEW S, NEW q \in Seq(S), NEW d \in S, NEW f, NEW t \in Int,
           Numbered(q, f, t), d = f[t + Len(q) + 1]
    PROVE  Numbered(Append(q, d), f, t)
<1>1. /\ Len(q) \in Nat /\ Len(Append(q, d)) = Len(q) + 1
      /\ \A i \in 1 .. Len(q) : Append(q, d)[i] = q[i]
      /\ Append(q, d)[Len(q) + 1] = d
  BY AppendProperties
<1> SUFFICES ASSUME NEW i \in 1 .. Len(q) + 1
             PROVE  Append(q, d)[i] = f[t + i]
  BY <1>1 DEF Numbered
<1>2. CASE i = Len(q) + 1
  <2>1. t + i = t + Len(q) + 1
    BY <1>1, <1>2
  <2> QED BY <1>1, <1>2, <2>1
<1>3. CASE i \in 1 .. Len(q)
  BY <1>1, <1>3 DEF Numbered
<1> QED BY <1>1, <1>2, <1>3

(* Word i of a FIFO that has given t words is f[t + i].                    *)
LEMMA FifoItems ==
    ASSUME NEW S, NEW q \in Seq(S), NEW push \in BOOLEAN, NEW pop \in BOOLEAN,
           NEW d, push => d \in S, push => Len(q) # Depth, pop => q # << >>,
           NEW f, NEW t \in Int, Numbered(q, f, t),
           push => d = f[t + Len(q) + 1]
    PROVE  Numbered(FifoNext(q, push, d, pop), f, t + One(pop))
<1> DEFINE rest == IF pop THEN Tail(q) ELSE q
           u == t + One(pop)
<1>1. rest \in Seq(S) /\ Len(rest) = Len(q) - One(pop)
  BY RestLen
<1>2. FifoNext(q, push, d, pop) = IF push THEN Append(rest, d) ELSE rest
  BY DEF FifoNext, full
<1>3. Numbered(rest, f, u)
  BY RestItems
<1>4. One(pop) \in Int /\ Len(q) \in Int
  BY DEF One
<1>5. u \in Int /\ u + Len(rest) + 1 = t + Len(q) + 1
  <2> HIDE DEF rest
  <2> QED BY <1>1, <1>4
<1> HIDE DEF rest, u
<1>6. CASE push
  <2>1. d \in S /\ d = f[u + Len(rest) + 1]
    BY <1>5, <1>6
  <2>2. Numbered(Append(rest, d), f, u)
    BY <1>1, <1>3, <1>5, <2>1, AppendItems
  <2> QED BY <1>2, <1>6, <2>2 DEF u
<1>7. CASE ~push
  BY <1>2, <1>3, <1>7 DEF u
<1> QED BY <1>6, <1>7

LEMMA FallThroughItems ==
    ASSUME NEW S, NEW q \in Seq(S), NEW push \in BOOLEAN, NEW pop \in BOOLEAN,
           NEW d, push => d \in S, push => Len(q) # Depth, pop => q # << >> \/ push,
           NEW f, NEW t \in Int, Numbered(q, f, t),
           push => d = f[t + Len(q) + 1]
    PROVE  Numbered(FallThroughNext(q, push, d, pop), f, t + One(pop))
<1>1. CASE q = << >> /\ push /\ pop
  <2>1. FallThroughNext(q, push, d, pop) = << >>
    BY <1>1 DEF FallThroughNext
  <2>2. 1 .. Len(<< >>) = {}
    BY EmptySeq
  <2> QED BY <2>1, <2>2 DEF Numbered
<1>2. CASE ~(q = << >> /\ push /\ pop)
  <2>1. pop => q # << >>
    BY <1>2
  <2>2. FallThroughNext(q, push, d, pop) = FifoNext(q, push, d, pop)
    BY <1>2 DEF FallThroughNext
  <2>3. Numbered(FifoNext(q, push, d, pop), f, t + One(pop))
    BY <2>1, FifoItems
  <2> QED BY <2>2, <2>3
<1> QED BY <1>1, <1>2

-----------------------------------------------------------------------------
(* What a transfer writes does not change once it has been launched.       *)
LEMMA JobKept ==
    ASSUME TypeOK, NEW sw \in Accesses, AccessAllowed(sw), RegsNext(sw),
           sw.op # "launch"
    PROVE  /\ regs'.src_ptr = regs.src_ptr /\ regs'.dim_inv = regs.dim_inv
           /\ regs'.src_ptr_inc_d1 = regs.src_ptr_inc_d1
           /\ regs'.src_ptr_inc_d2 = regs.src_ptr_inc_d2
           /\ regs'.addr_ptr = regs.addr_ptr
           /\ SourceLen(regs') = SourceLen(regs) /\ TotalLen(regs') = TotalLen(regs)
           /\ \A j : SourceAt(regs', j) = SourceAt(regs, j)
           /\ \A n : ExpectedWrite(regs', n) = ExpectedWrite(regs, n)
<1>1. regs' = regs \/ (circular_mode /\ regs' = [ regs EXCEPT !.mode = "LINEAR" ])
  BY DEF RegsNext, AccessAllowed
<1>2. CASE regs' = regs
  BY <1>2
<1>3. CASE circular_mode /\ regs' = [ regs EXCEPT !.mode = "LINEAR" ]
  <2>1. /\ regs'.dim_config = regs.dim_config /\ regs'.dim_inv = regs.dim_inv
        /\ regs'.size_d1 = regs.size_d1 /\ regs'.size_d2 = regs.size_d2
        /\ regs'.pad_top = regs.pad_top /\ regs'.pad_bottom = regs.pad_bottom
        /\ regs'.pad_left = regs.pad_left /\ regs'.pad_right = regs.pad_right
        /\ regs'.src_ptr = regs.src_ptr /\ regs'.dst_ptr = regs.dst_ptr
        /\ regs'.src_ptr_inc_d1 = regs.src_ptr_inc_d1
        /\ regs'.src_ptr_inc_d2 = regs.src_ptr_inc_d2
        /\ regs'.dst_ptr_inc_d1 = regs.dst_ptr_inc_d1
        /\ regs'.dst_ptr_inc_d2 = regs.dst_ptr_inc_d2
        /\ regs'.addr_ptr = regs.addr_ptr
        /\ regs'.mode # "ADDRESS" /\ regs.mode # "ADDRESS"
    BY <1>3 DEF TypeOK, RegFile, circular_mode
  <2>2. RowLen(regs') = RowLen(regs) /\ Rows(regs') = Rows(regs)
    BY <2>1 DEF RowLen, Rows
  <2>3. SourceLen(regs') = SourceLen(regs) /\ TotalLen(regs') = TotalLen(regs)
    BY <2>1, <2>2 DEF SourceLen, TotalLen
  <2>4. \A r, k : SrcAddr(regs', r, k) = SrcAddr(regs, r, k)
    BY <2>1 DEF SrcAddr
  <2>5. \A r, k : DstAddr(regs', r, k) = DstAddr(regs, r, k)
    BY <2>1, <2>2 DEF DstAddr
  <2>6. \A j : SourceAt(regs', j) = SourceAt(regs, j)
    BY <2>1, <2>4 DEF SourceAt
  <2>7. \A n : ExpectedWrite(regs', n) = ExpectedWrite(regs, n)
    <3> TAKE n
    <3> QED BY <2>1, <2>2, <2>4, <2>5 DEF ExpectedWrite
  <2> QED BY <2>1, <2>3, <2>6, <2>7
<1> QED BY <1>1, <1>2, <1>3

-----------------------------------------------------------------------------
(* The source, in a cycle of a running transfer.                           *)

(* The counts of SourceCounted, and where they are in the source.          *)
LEMMA SourceCounts ==
    ASSUME TypeOK, DrainInv, dma_state = "RUNNING", ~dma_done,
           NEW in \in BusInputs, NEW sw \in Accesses, Cycle(in, sw)
    PROVE  /\ SourceLen(regs) \in Int /\ ToRequest \in Nat /\ ToPush \in Nat
           /\ Len(read_pending) \in 0 .. 1 /\ Len(read_fifo) \in Nat
           /\ read_pending # << >> => Len(read_pending) = 1
           /\ ToPush = ToRequest + Len(read_pending) + Len(read_fifo)
           /\ in.rgnt \in BOOLEAN /\ in.rvalid \in BOOLEAN
           /\ in.rgnt => ToRequest # 0
           /\ in.rvalid => read_pending # << >>
           /\ in.rgnt => read_pending = << >> \/ in.rvalid
           /\ ToRequest' = ToRequest - One(in.rgnt)
           /\ Len(read_pending') = Len(read_pending) + One(in.rgnt) - One(in.rvalid)
           /\ ToPush' = ToPush - One(read_fifo_pop(read_fifo, write_fifo))
<1>1. regs \in RegFile /\ SourceCounted
  BY DEF TypeOK, DrainInv
<1>2. SourceLen(regs) \in Int
  BY <1>1, FrameRange DEF SourceLen
<1>3. /\ read_pending \in Seq(Int) /\ Len(read_pending) <= 1 /\ read_ptr \in Int
      /\ read_fifo \in Seq(Elements)
  BY DEF TypeOK
<1>4. /\ Len(read_pending) \in 0 .. 1 /\ Len(read_fifo) \in Nat
      /\ read_pending # << >> => Len(read_pending) = 1
  <2>1. Len(read_pending) \in Nat /\ (Len(read_pending) = 0 <=> read_pending = << >>)
    BY <1>3, EmptyLen
  <2>2. Len(read_fifo) \in Nat
    BY <1>3, EmptyLen
  <2> DEFINE k == Len(read_pending)
  <2>3. k <= 1
    BY <1>3
  <2> HIDE DEF k
  <2>4. k \in 0 .. 1 /\ (read_pending # << >> => k = 1)
    BY <2>1, <2>3 DEF k
  <2> QED BY <2>2, <2>4 DEF k
<1>5. /\ in.rgnt \in BOOLEAN /\ in.rvalid \in BOOLEAN
      /\ in.rvalid => read_pending # << >>
      /\ in.rgnt => read_pending = << >> \/ in.rvalid
  BY SignalTypes DEF Cycle, BusAllowed
<1>6. read_pending' = InFlight(read_pending, in.rgnt, read_ptr, in.rvalid)
  BY DEF Cycle, ReadTick, ReadBus
<1>7. Len(read_pending') = Len(read_pending) + One(in.rgnt) - One(in.rvalid)
  BY <1>3, <1>5, <1>6, InFlightExact
<1> QED BY <1>1, <1>2, <1>4, <1>5, <1>7, PadsRun, RequestsRun DEF SourceCounted

LEMMA PointerRun ==
    ASSUME TypeOK, DrainInv, SourceRead, dma_state = "RUNNING", ~dma_done,
           NEW in \in BusInputs, NEW sw \in Accesses, Cycle(in, sw)
    PROVE  /\ src_cnt_d1' <= regs'.size_d1
           /\ conf_2d' => src_cnt_d2' <= regs'.size_d2
           /\ ToRequest' # 0 => read_ptr' = SourceAt(regs, SourceLen(regs) - ToRequest')
           /\ ToRequest' # 0 /\ conf_2d /\ regs.dim_inv =>
                trsp_ptr' = regs.src_ptr
                             + (regs.size_d2 - src_cnt_d2' + 1) * regs.src_ptr_inc_d1
<1> DEFINE n == regs.size_d1  m == regs.size_d2  d1 == src_cnt_d1  d2 == src_cnt_d2
           i1 == regs.src_ptr_inc_d1  i2 == regs.src_ptr_inc_d2  p == regs.src_ptr
           S == SourceLen(regs)
<1>1. /\ SourceCounted /\ Suitable(regs) /\ regs \in RegFile
  BY DEF DrainInv, Settings, TypeOK
<1>2. conf_1d' = conf_1d /\ conf_2d' = conf_2d /\ regs'.size_d1 = n /\ regs'.size_d2 = m
  BY <1>1, RegsKept DEF Cycle, ReadyForLaunch
<1>3. /\ SrcCounters(FALSE, FALSE, in.rgnt) /\ ReadPointers(FALSE, in.rgnt)
  BY DEF Cycle, ReadTick, SrcCounters, ReadPointers, dma_start
<1>4. /\ n \in Nat \ {0} /\ m \in Nat /\ d1 \in Nat /\ d2 \in Nat
      /\ i1 \in Int /\ i2 \in Int /\ p \in Int /\ regs.dim_inv \in BOOLEAN
      /\ in.rgnt \in BOOLEAN /\ read_ptr \in Int /\ trsp_ptr \in Int
  <2>1. n \in Nat \ {0} /\ m \in Nat
    BY <1>1, FrameRange DEF Suitable
  <2>2. i1 \in Int /\ i2 \in Int /\ p \in Int /\ regs.dim_inv \in BOOLEAN
    BY <1>1, SourceRange
  <2>3. /\ d1 \in Nat /\ d2 \in Nat /\ in.rgnt \in BOOLEAN
        /\ read_ptr \in Int /\ trsp_ptr \in Int
    BY Widths, SignalTypes DEF TypeOK
  <2> QED BY <2>1, <2>2, <2>3
<1>5. /\ ToRequest \in Nat
      /\ in.rgnt => ToRequest # 0
      /\ ToRequest' = ToRequest - One(in.rgnt)
  BY RequestsRun
<1>6. ToRequest # 0 => read_ptr = SourceAt(regs, S - ToRequest)
  BY DEF SourceRead, Requested
<1>7. CASE ~in.rgnt
  <2>1. ToRequest' = ToRequest
    <3> DEFINE next == ToRequest'  g == One(in.rgnt)
    <3>1. g = 0 /\ next = ToRequest - g
      BY <1>5, <1>7 DEF One
    <3> HIDE DEF next, g
    <3>2. next = ToRequest
      BY <1>5, <3>1
    <3> QED BY <3>2 DEF next
  <2>2. d1' = d1 /\ d2' = d2 /\ read_ptr' = read_ptr /\ trsp_ptr' = trsp_ptr
    BY <1>3, <1>7 DEF SrcCounters, ReadPointers
  <2> QED BY <1>2, <1>6, <2>1, <2>2 DEF SourceRead
<1>8. CASE in.rgnt /\ conf_1d
  <2>1. ~conf_2d /\ regs.dim_config = Dim1
    BY <1>8 DEF conf_1d, conf_2d, Dim1, Dim2
  <2>2. S = n /\ ToRequest = d1 /\ ToRequest' = d1'
    BY <1>2, <1>8 DEF SourceLen, ToRequest, conf_1d
  <2>3. ToRequest # 0 /\ ToRequest' = d1 - 1 /\ read_ptr' = read_ptr + i1
    BY <1>3, <1>5, <1>8, <2>2 DEF ReadPointers, One
  <2>4. d1 \in 1 .. n /\ d1' <= n
    <3>1. d1 # 0 /\ d1 <= n /\ d1' = d1 - 1
      BY <2>2, <2>3 DEF SourceRead
    <3> QED BY <1>4, <3>1
  <2> DEFINE j == n - d1
  <2>5. j \in Nat /\ j < n /\ read_ptr = p + j * i1
    <3>1. j \in Nat /\ j < n
      BY <1>4, <2>4
    <3> QED BY <1>1, <1>6, <2>1, <2>2, <2>3, <3>1, SourceAtRow
  <2>6. ASSUME ToRequest' # 0
        PROVE  read_ptr' = SourceAt(regs, S - ToRequest')
    <3>1. j + 1 \in Nat /\ j + 1 < n /\ S - ToRequest' = j + 1
      BY <1>4, <2>2, <2>3, <2>4, <2>6
    <3>2. SourceAt(regs, j + 1) = p + (j + 1) * i1
      BY <1>1, <2>1, <3>1, SourceAtRow
    <3>3. (j + 1) * i1 = j * i1 + i1 /\ j * i1 \in Int
      BY <1>4, <2>5
    <3> HIDE DEF j
    <3> QED BY <1>4, <2>3, <2>5, <3>1, <3>2, <3>3
  <2> QED BY <1>2, <2>1, <2>4, <2>6
<1>9. CASE in.rgnt /\ ~conf_1d
  <2>1. conf_2d /\ regs.dim_config = Dim2
    BY <1>1, <1>9, FrameRange DEF conf_1d, conf_2d
  <2>2. d1 \in 1 .. n /\ (d2 = 0 => d1 = n) /\ d2 <= m
    BY <1>1, <2>1 DEF SourceCounted, SourceRead
  <2>3. ToRequest = Rest(d1, d2, n) /\ ToRequest' = Rest(d1', d2', n)
    BY <1>2, <1>9 DEF ToRequest
  <2>4. ToRequest # 0 /\ d2 # 0
    BY <1>4, <1>5, <1>9, <2>2, <2>3, RestStep
  <2>5. d2 \in 1 .. m
    BY <1>4, <2>2, <2>4
  <2> DEFINE r == m - d2  k == n - d1
  <2>6. r \in Nat /\ k \in Nat /\ read_ptr = SrcAddr(regs, r, k)
    BY <1>1, <1>4, <1>6, <2>1, <2>2, <2>3, <2>4, <2>5, SourceAtGrid
  <2>7. /\ SrcAddr(regs, r, k) \in Int
        /\ ~regs.dim_inv => SrcAddr(regs, r, k + 1) = SrcAddr(regs, r, k) + i1
        /\ regs.dim_inv => SrcAddr(regs, r, k + 1) = SrcAddr(regs, r, k) + i2
        /\ ~regs.dim_inv /\ k = n - 1 => SrcAddr(regs, r + 1, 0) = SrcAddr(regs, r, k) + i2
    BY <1>1, <2>1, <2>6, SrcAddrStep
  <2>8. regs.dim_inv => trsp_ptr = p + (r + 1) * i1
    BY <2>1, <2>4 DEF SourceRead
  <2>9. CASE d1 # 1
    <3>1. d1' = d1 - 1 /\ d2' = d2
      <4>1. d1 # 0
        BY <1>4, <2>2
      <4>2. d1' = Dec(d1) /\ d2' = d2
        BY <1>3, <1>9, <2>9 DEF SrcCounters
      <4> QED BY <4>1, <4>2 DEF Dec
    <3>2. d1 - 1 \in 1 .. n /\ n - (d1 - 1) = k + 1
      BY <1>4, <2>2, <2>9
    <3>3. SourceAt(regs, S - ToRequest') = SrcAddr(regs, r, k + 1)
      BY <1>1, <2>1, <2>3, <2>5, <3>1, <3>2, SourceAtGrid
    <3>4. ~LastOfRow
      BY <2>9 DEF LastOfRow
    <3>5. /\ read_ptr' = read_ptr + (IF regs.dim_inv THEN i2 ELSE i1)
          /\ trsp_ptr' = trsp_ptr
      BY <1>3, <1>9, <3>4 DEF ReadPointers
    <3>6. read_ptr' = SrcAddr(regs, r, k + 1)
      BY <1>4, <2>6, <2>7, <3>5
    <3> QED BY <1>2, <1>4, <2>2, <2>8, <3>1, <3>2, <3>3, <3>5, <3>6
  <2>10. CASE d1 = 1
    <3>1. d1' = n /\ d2' = d2 - 1
      BY <1>3, <1>9, <2>1, <2>4, <2>10 DEF SrcCounters, Dec
    <3>2. LastOfRow /\ k = n - 1
      BY <2>4, <2>10 DEF LastOfRow
    <3>3. /\ read_ptr' = IF regs.dim_inv THEN trsp_ptr ELSE read_ptr + i2
          /\ regs.dim_inv => trsp_ptr' = trsp_ptr + i1
      BY <1>3, <1>9, <2>1, <3>2 DEF ReadPointers
    <3>4. ASSUME ToRequest' # 0
          PROVE  read_ptr' = SourceAt(regs, S - ToRequest')
      <4>1. d2 - 1 # 0
        BY <2>3, <3>1, <3>4 DEF Rest
      <4>2. d2 - 1 \in 1 .. m /\ m - (d2 - 1) = r + 1 /\ n \in 1 .. n /\ n - n = 0
        BY <1>4, <2>5, <4>1
      <4>3. SourceAt(regs, S - ToRequest') = SrcAddr(regs, r + 1, 0)
        BY <1>1, <2>1, <2>3, <3>1, <4>2, SourceAtGrid
      <4>4. regs.dim_inv => SrcAddr(regs, r + 1, 0) = p + (r + 1) * i1
        <5>1. r + 1 \in Nat /\ 0 \in Nat
          BY <2>6
        <5> QED BY <1>1, <2>1, <5>1, SrcAddrStep
      <4> QED BY <1>4, <2>6, <2>7, <2>8, <3>2, <3>3, <4>3, <4>4
    <3>5. regs.dim_inv => trsp_ptr' = p + (m - d2' + 1) * i1
      <4>1. (r + 1 + 1) * i1 = (r + 1) * i1 + i1 /\ (r + 1) * i1 \in Int
        BY <1>4, <2>6
      <4>2. m - d2' + 1 = r + 1 + 1
        BY <1>4, <2>5, <3>1
      <4> HIDE DEF r
      <4> QED BY <1>4, <2>8, <3>3, <4>1, <4>2
    <3>6. d2 - 1 <= m
      BY <1>4, <2>5
    <3> QED BY <1>2, <1>4, <3>1, <3>4, <3>5, <3>6
  <2> QED BY <2>9, <2>10
<1> QED BY <1>4, <1>7, <1>8, <1>9

LEMMA SourceReadRun ==
    ASSUME TypeOK, FifosHaveRoom, DrainInv, SourceRead, dma_state = "RUNNING", ~dma_done,
           NEW in \in BusInputs, NEW sw \in Accesses, Cycle(in, sw)
    PROVE  /\ SourceRead'
           /\ Taken' = Taken + One(read_fifo_pop(read_fifo, write_fifo))
<1> DEFINE S == SourceLen(regs)
           pop == read_fifo_pop(read_fifo, write_fifo)
           d == << Head(read_pending), read_ptr_valid >>
           f == [ j \in Int |-> << SourceAt(regs, j), SourceAt(regs, j) >> ]
           p == Len(read_pending)  q == Len(read_fifo)
           r0 == ToRequest  u0 == ToPush
           r1 == ToRequest'  u1 == ToPush'  p1 == Len(read_pending')
           g == One(in.rgnt)  v == One(in.rvalid)  o == One(pop)
<1>1. /\ sw.op # "launch" /\ AccessAllowed(sw) /\ RegsNext(sw)
  BY DEF Cycle, AccessAllowed, ReadyForLaunch
<1>2. /\ SourceLen(regs') = S
      /\ \A j : SourceAt(regs', j) = SourceAt(regs, j)
      /\ regs'.src_ptr = regs.src_ptr /\ regs'.src_ptr_inc_d1 = regs.src_ptr_inc_d1
      /\ regs'.dim_inv = regs.dim_inv
  BY <1>1, JobKept
<1>3. /\ conf_2d' = conf_2d /\ regs'.size_d1 = regs.size_d1 /\ regs'.size_d2 = regs.size_d2
  BY <1>1, RegsKept DEF ReadyForLaunch
<1>4. /\ S \in Int /\ r0 \in Nat /\ u0 \in Nat /\ p \in 0 .. 1 /\ q \in Nat
      /\ read_pending # << >> => p = 1
      /\ u0 = r0 + p + q
      /\ in.rgnt \in BOOLEAN /\ in.rvalid \in BOOLEAN
      /\ in.rgnt => r0 # 0
      /\ in.rvalid => read_pending # << >>
      /\ in.rgnt => read_pending = << >> \/ in.rvalid
      /\ r1 = r0 - g /\ p1 = p + g - v /\ u1 = u0 - o
  BY SourceCounts
<1>5. /\ g \in 0 .. 1 /\ v \in 0 .. 1 /\ o \in 0 .. 1
      /\ in.rgnt => g = 1
      /\ ~in.rgnt => g = 0
      /\ in.rvalid => v = 1
      /\ ~in.rvalid => v = 0
  BY DEF One
<1>6. /\ Requested = S - r0 /\ Answered = S - r0 - p /\ Taken = S - u0
      /\ Requested' = S - r1 /\ Answered' = S - r1 - p1 /\ Taken' = S - u1
  BY <1>2 DEF Requested, Answered, Taken
<1>7. /\ r0 # 0 => read_ptr = SourceAt(regs, S - r0)
      /\ read_pending # << >> => Head(read_pending) = SourceAt(regs, S - r0 - 1)
      /\ S - r0 - p < S => read_ptr_valid = SourceAt(regs, S - r0 - p)
      /\ \A i \in 1 .. q : read_fifo[i] = << SourceAt(regs, S - u0 + i - 1),
                                            SourceAt(regs, S - u0 + i - 1) >>
  BY <1>6 DEF SourceRead
<1>8. /\ read_fifo \in Seq(Elements) /\ read_pending \in Seq(Int) /\ read_ptr_valid \in Int
      /\ p <= 1 /\ q + p <= Depth /\ Depth \in Nat
  BY DepthAssumption DEF TypeOK, FifosHaveRoom
<1>9. /\ read_fifo' = FifoNext(read_fifo, in.rvalid, d, pop)
      /\ read_pending' = InFlight(read_pending, in.rgnt, read_ptr, in.rvalid)
      /\ read_ptr_valid' = IF in.rvalid THEN read_ptr ELSE read_ptr_valid
  BY DEF Cycle, ReadTick, ReadFifo, ReadBus, LanePointer, dma_start
<1>10. pop \in BOOLEAN /\ (pop => read_fifo # << >>)
  BY DEF read_fifo_pop, write_fifo_push
<1>11. in.rvalid => (p = 1 /\ d \in Elements /\ q # Depth)
  <2>1. in.rvalid => p = 1
    BY <1>4
  <2>2. in.rvalid => Head(read_pending) \in Int
    BY <1>4, <1>8
  <2>3. in.rvalid => d \in Elements
    BY <1>8, <2>2 DEF Elements
  <2> HIDE DEF p, q, d
  <2> QED BY <1>4, <1>8, <2>1, <2>3
<1>12. read_pending' # << >> => Head(read_pending') = SourceAt(regs, S - r1 - 1)
  <2>1. CASE in.rgnt
    <3>1. (IF in.rvalid THEN Tail(read_pending) ELSE read_pending) = << >>
      <4>1. CASE in.rvalid
        <5>1. Len(read_pending) = 1
          BY <1>4, <4>1
        <5>2. Tail(read_pending) \in Seq(Int) /\ Len(Tail(read_pending)) = 0
          BY <1>4, <1>8, <4>1, <5>1
        <5> QED BY <4>1, <5>2, EmptyLen
      <4>2. CASE ~in.rvalid
        BY <1>4, <2>1, <4>2
      <4> QED BY <4>1, <4>2
    <3>2. read_pending' = Append(<< >>, read_ptr)
      BY <1>9, <2>1, <3>1 DEF InFlight
    <3>3. Head(Append(<< >>, read_ptr)) = read_ptr
      BY DEF TypeOK
    <3> HIDE DEF S, r0, r1, g
    <3>4. S - r1 - 1 = S - r0
      BY <1>4, <1>5, <2>1
    <3> QED BY <1>4, <1>7, <2>1, <3>2, <3>3, <3>4
  <2>2. CASE ~in.rgnt /\ in.rvalid
    <3>1. Len(read_pending) = 1 /\ read_pending' = Tail(read_pending)
      BY <1>4, <1>9, <2>2 DEF InFlight
    <3>2. Tail(read_pending) \in Seq(Int) /\ Len(Tail(read_pending)) = 0
      BY <1>4, <1>8, <2>2, <3>1
    <3> QED BY <3>1, <3>2, EmptyLen
  <2>3. CASE ~in.rgnt /\ ~in.rvalid
    <3>1. read_pending' = read_pending
      BY <1>9, <2>3 DEF InFlight
    <3> HIDE DEF S, r0, r1, g
    <3>2. S - r1 - 1 = S - r0 - 1
      BY <1>4, <1>5, <2>3
    <3> QED BY <1>7, <3>1, <3>2
  <2> QED BY <1>4, <2>1, <2>2, <2>3
<1>13. S - r1 - p1 < S => read_ptr_valid' = SourceAt(regs, S - r1 - p1)
  <2> SUFFICES ASSUME S - r1 - p1 < S
               PROVE  read_ptr_valid' = SourceAt(regs, S - r1 - p1)
    OBVIOUS
  <2> HIDE DEF S, r0, r1, g, v, p, p1
  <2>1. S - r1 - p1 = S - r0 - p + v
    BY <1>4, <1>5
  <2>2. CASE in.rvalid
    <3>1. S - r1 - p1 = S - r0 /\ r0 # 0
      BY <1>4, <1>5, <1>11, <2>1, <2>2
    <3> QED BY <1>7, <1>9, <2>2, <3>1
  <2>3. CASE ~in.rvalid
    <3>1. S - r1 - p1 = S - r0 - p
      BY <1>4, <1>5, <2>1, <2>3
    <3> QED BY <1>7, <1>9, <2>3, <3>1
  <2> QED BY <1>4, <2>2, <2>3
<1>14. \A i \in 1 .. Len(read_fifo') :
         read_fifo'[i] = << SourceAt(regs, S - u1 + i - 1), SourceAt(regs, S - u1 + i - 1) >>
  <2> DEFINE t == S - u0 - 1
  <2>1. t \in Int
    BY <1>4
  <2>2. Numbered(read_fifo, f, t)
    <3> SUFFICES ASSUME NEW i \in 1 .. q
                 PROVE  read_fifo[i] = f[t + i]
      BY DEF Numbered
    <3>1. t + i \in Int /\ t + i = S - u0 + i - 1
      BY <1>4
    <3> QED BY <1>7, <3>1
  <2>3. in.rvalid => d = f[t + q + 1]
    <3> SUFFICES ASSUME in.rvalid PROVE d = f[t + q + 1]
      OBVIOUS
    <3>1. /\ t + q + 1 = S - r0 - 1 /\ t + q + 1 \in Int
          /\ S - r0 - p = S - r0 - 1 /\ S - r0 - p < S
      <4> HIDE DEF S, u0, r0, p, q
      <4> QED BY <1>4, <1>11
    <3>2. Head(read_pending) = SourceAt(regs, S - r0 - 1)
      BY <1>4, <1>7
    <3>3. read_ptr_valid = SourceAt(regs, S - r0 - 1)
      BY <1>7, <3>1
    <3> QED BY <3>1, <3>2, <3>3
  <2> HIDE DEF f, d, pop, t
  <2>4. Numbered(read_fifo', f, t + One(pop))
    <3>1. /\ in.rvalid \in BOOLEAN /\ pop \in BOOLEAN /\ read_fifo \in Seq(Elements)
          /\ pop => read_fifo # << >>
          /\ in.rvalid => d \in Elements
          /\ in.rvalid => Len(read_fifo) # Depth
          /\ t \in Int
      BY <1>4, <1>8, <1>10, <1>11, <2>1
    <3>2. in.rvalid => d = f[t + Len(read_fifo) + 1]
      BY <2>3
    <3> QED BY <1>9, <2>2, <3>1, <3>2, FifoItems
  <2>5. Len(read_fifo') \in Nat
    BY <1>8, <1>9, <1>10, <1>4, <1>11, FifoType, EmptyLen
  <2> SUFFICES ASSUME NEW i \in 1 .. Len(read_fifo')
               PROVE  read_fifo'[i] = << SourceAt(regs, S - u1 + i - 1),
                                         SourceAt(regs, S - u1 + i - 1) >>
    OBVIOUS
  <2>6. read_fifo'[i] = f[t + One(pop) + i]
    BY <2>4 DEF Numbered
  <2>7. t + One(pop) + i = S - u1 + i - 1 /\ t + One(pop) + i \in Int
    <3>1. i \in Int
      BY <2>5
    <3> HIDE DEF S, u0, u1, o
    <3>2. t + o + i = S - u1 + i - 1 /\ t + o + i \in Int
      BY <1>4, <1>5, <3>1 DEF t
    <3> QED BY <3>2 DEF o
  <2> QED BY <2>6, <2>7 DEF f
<1>15. /\ src_cnt_d1' <= regs'.size_d1
       /\ conf_2d' => src_cnt_d2' <= regs'.size_d2
       /\ r1 # 0 => read_ptr' = SourceAt(regs, S - r1)
       /\ r1 # 0 /\ conf_2d /\ regs.dim_inv =>
            trsp_ptr' = regs.src_ptr
                         + (regs.size_d2 - src_cnt_d2' + 1) * regs.src_ptr_inc_d1
  BY PointerRun
<1>16. SourceRead'
  BY <1>2, <1>3, <1>6, <1>12, <1>13, <1>14, <1>15 DEF SourceRead
<1>17. S - u1 = (S - u0) + o
  <2> HIDE DEF S, u0, u1, o
  <2> QED BY <1>4, <1>5
<1> QED BY <1>6, <1>16, <1>17

-----------------------------------------------------------------------------
(* The frame.                                                              *)

(* What a word of the frame carries, and where it goes.                    *)
LEMMA WordOfRow ==
    ASSUME NEW c \in RegFile, Suitable(c), c.dim_config = Dim1,
           NEW j \in Nat, j < c.size_d1
    PROVE  /\ TotalLen(c) = c.size_d1
           /\ Word(c, j + 1) = << SourceAt(c, j), SourceAt(c, j) >>
           /\ Target(c, j + 1) = DstAddr(c, 0, j)
<1> DEFINE n == c.size_d1
<1>1. /\ n \in Nat \ {0} /\ j \in 0 .. n - 1 /\ c.pad_left = 0 /\ c.pad_right = 0
      /\ c.pad_top = 0
  BY FrameRange DEF Suitable
<1>2. RowLen(c) = n /\ Rows(c) = 1 /\ TotalLen(c) = n
  <2>1. RowLen(c) = n /\ Rows(c) = 1
    BY <1>1 DEF RowLen, Rows
  <2>2. n * 1 = n
    BY <1>1
  <2> QED BY <2>1, <2>2 DEF TotalLen
<1>3. j \div n = 0 /\ j % n = j /\ (j + 1) - 1 = j
  <2>1. (0 * n + j) \div n = 0 /\ (0 * n + j) % n = j
    BY <1>1, DivMod
  <2>2. 0 * n + j = j
    BY <1>1
  <2> QED BY <1>1, <2>1, <2>2
<1>4. SourceAt(c, j) = SrcAddr(c, 0, j)
  BY <1>3 DEF SourceAt
<1>5. 0 - 0 = 0 /\ j - c.pad_left = j /\ 0 >= 0 /\ 0 < 0 + 1
      /\ j >= c.pad_left /\ j < c.pad_left + c.size_d1
  BY <1>1
<1>6. ExpectedWrite(c, j + 1)
        = << DstAddr(c, 0, j), << SrcAddr(c, 0, j), SrcAddr(c, 0, j) >> >>
  BY <1>2, <1>3, <1>5 DEF ExpectedWrite
<1> QED BY <1>2, <1>4, <1>6 DEF Word, Target

LEMMA WordOfFrame ==
    ASSUME NEW c \in RegFile, Suitable(c), c.dim_config = Dim2,
           NEW d1 \in 1 .. RowLen(c), NEW d2 \in 1 .. Rows(c)
    PROVE  LET j == TotalLen(c) - Rest(d1, d2, RowLen(c))
               k == SourceLen(c) - SourceRest(c, d1, d2)
           IN  /\ j \in Nat /\ j < TotalLen(c)
               /\ Word(c, j + 1) = IF AtData(c, d1, d2)
                                   THEN << SourceAt(c, k), SourceAt(c, k) >>
                                   ELSE Zero
<1> DEFINE n == c.size_d1  m == c.size_d2  l == c.pad_left  r == c.pad_right
           t == c.pad_top  b == c.pad_bottom  W == RowLen(c)  H == Rows(c)
           j == TotalLen(c) - Rest(d1, d2, W)
           k == SourceLen(c) - SourceRest(c, d1, d2)
<1>1. /\ n \in Nat \ {0} /\ m \in Nat \ {0} /\ l \in Nat /\ r \in Nat /\ t \in Nat /\ b \in Nat
      /\ W = l + n + r /\ H = t + m + b /\ d1 \in Int /\ d2 \in Int
  BY FrameRange, SourceWhole DEF Suitable
<1>2. TotalLen(c) = H * W
  <2>1. W \in Nat /\ H \in Nat
    BY <1>1
  <2> HIDE DEF W, H
  <2>2. W * H = H * W
    BY <2>1
  <2> QED BY <2>2 DEF TotalLen, W, H
<1>3. /\ j \in Nat /\ j < TotalLen(c) /\ j \div W = H - d2 /\ j % W = W - d1
      /\ (j + 1) - 1 = j
  <2>1. W \in Nat \ {0} /\ H \in Nat
    BY <1>1
  <2>2. LET i == H * W - Rest(d1, d2, W)
        IN  /\ i \in Nat /\ i < H * W
            /\ i \div W = H - d2 /\ i % W = W - d1
    BY <2>1, GridIndex
  <2> QED BY <1>2, <2>2
<1> DEFINE row == H - d2  col == W - d1
<1>4. AtData(c, d1, d2) <=> row >= t /\ row < t + m /\ col >= l /\ col < l + n
  <2>1. AtData(c, d1, d2) <=> ~(d2 > m + b) /\ ~(d2 <= b) /\ ~(d1 > n + r) /\ ~(d1 <= r)
    BY DEF AtData, InRows, InTop, InBottom, InLeft, InRight
  <2> HIDE DEF n, m, l, r, t, b, W, H
  <2> QED BY <1>1, <2>1
<1>5. Word(c, j + 1) = IF AtData(c, d1, d2)
                       THEN << SrcAddr(c, row - t, col - l), SrcAddr(c, row - t, col - l) >>
                       ELSE Zero
  <2>1. c.dim_config # Dim1
    BY DEF Dim1, Dim2
  <2> HIDE DEF j, row, col
  <2>2. ExpectedWrite(c, j + 1)[2]
           = IF row >= t /\ row < t + m /\ col >= l /\ col < l + n
             THEN << SrcAddr(c, row - t, col - l), SrcAddr(c, row - t, col - l) >>
             ELSE Zero
    BY <1>3, <2>1 DEF ExpectedWrite, row, col
  <2> QED BY <1>4, <2>2 DEF Word
<1>6. AtData(c, d1, d2) => SourceAt(c, k) = SrcAddr(c, row - t, col - l)
  <2> SUFFICES ASSUME AtData(c, d1, d2)
               PROVE  SourceAt(c, k) = SrcAddr(c, row - t, col - l)
    OBVIOUS
  <2>1. d2 <= m + b /\ d2 > b /\ d1 <= n + r /\ d1 > r
    BY <1>1 DEF AtData, InRows, InTop, InBottom, InLeft, InRight
  <2> DEFINE e1 == d1 - r  e2 == d2 - b
  <2>2. /\ e1 \in 1 .. n /\ e2 \in 1 .. m /\ m - e2 = row - t /\ n - e1 = col - l
        /\ d2 - 1 - b = e2 - 1
    <3> HIDE DEF n, m, l, r, t, b, W, H
    <3> QED BY <1>1, <2>1
  <2>3. SourceRest(c, d1, d2) = Rest(e1, e2, n)
    <3>1. InRows(c, d2) /\ SourceWords(c, d1) = e1
      BY <1>1, <2>1 DEF InRows, InTop, InBottom, SourceWords, InLeft, InRight
    <3>2. SourceRows(c, d2 - 1) = e2 - 1
      BY <1>1, <2>1 DEF SourceRows, InTop, InBottom
    <3>3. d2 # 0 /\ e2 # 0
      BY <1>1, <2>1
    <3> QED BY <3>1, <3>2, <3>3 DEF SourceRest, Rest
  <2>4. SourceAt(c, SourceLen(c) - Rest(e1, e2, n)) = SrcAddr(c, m - e2, n - e1)
    BY <2>2, SourceAtGrid
  <2> QED BY <2>2, <2>3, <2>4
<1> QED BY <1>3, <1>5, <1>6

(* Where the padding FSM is in the frame.                                  *)
LEMMA FrameCounts ==
    ASSUME TypeOK, DrainInv, FrameWritten, dma_state = "RUNNING"
    PROVE  /\ ToFrame \in Nat /\ TotalLen(regs) \in Nat /\ Framed \in Nat
           /\ Len(out) \in Nat /\ Len(write_fifo) \in Nat
           /\ padding_fsm_done <=> ToFrame = 0
           /\ Framed <= TotalLen(regs)
           /\ pad_push => Framed < TotalLen(regs)
           /\ conf_1d => /\ TotalLen(regs) = regs.size_d1 /\ Framed = regs.size_d1 - pad_cnt_d1
                         /\ ToPush = pad_cnt_d1 /\ SourceLen(regs) = regs.size_d1
<1> DEFINE c == regs  n == regs.size_d1  W == RowLen(regs)  H == Rows(regs)
           a == Len(out)  b == Len(write_fifo)
<1>1. /\ PadsInPlace /\ pad_fsm_on /\ Suitable(c) /\ c \in RegFile
  BY DEF DrainInv, Settings, TypeOK
<1>2. a \in Nat /\ b \in Nat /\ a + b = Framed
  <2>1. a \in Nat
    BY EmptyLen DEF TypeOK
  <2>2. b \in Nat
    BY EmptyLen DEF TypeOK
  <2> QED BY <2>1, <2>2 DEF FrameWritten
<1>3. pad_cnt_d1 \in Nat /\ pad_cnt_d2 \in Nat
  BY Widths DEF TypeOK
<1>4. pad_push => ~padding_fsm_done
  BY DEF pad_push, write_fifo_push
<1>5. CASE conf_1d
  <2>1. c.dim_config = Dim1 /\ ~conf_2d /\ n \in Nat \ {0}
    BY <1>1, <1>5, FrameRange DEF conf_1d, conf_2d, Dim1, Dim2, Suitable
  <2>2. 0 \in Nat /\ 0 < n
    BY <2>1
  <2>3. TotalLen(c) = n
    BY <1>1, <2>1, <2>2, WordOfRow
  <2>4. ToFrame = pad_cnt_d1 /\ ToPush = pad_cnt_d1 /\ SourceLen(c) = n
    BY <1>5, <2>1 DEF ToFrame, ToPush, SourceLen
  <2>5. padding_fsm_done <=> pad_cnt_d1 = 0
    BY <1>1, <1>5, <2>1 DEF padding_fsm_done
  <2>6. Framed = n - pad_cnt_d1
    BY <2>3, <2>4 DEF Framed
  <2> HIDE DEF a, b
  <2> QED BY <1>2, <1>3, <1>4, <2>1, <2>3, <2>4, <2>5, <2>6 DEF a, b
<1>6. CASE ~conf_1d
  <2>1. c.dim_config = Dim2 /\ conf_2d
    BY <1>1, <1>6, FrameRange DEF conf_1d, conf_2d
  <2>2. W \in Nat \ {0} /\ H \in Nat \ {0}
    BY <1>1, <2>1, SourceWhole
  <2>3. TotalLen(c) \in Nat
    <3> HIDE DEF W, H
    <3>1. W * H \in Nat
      BY <2>2
    <3> QED BY <3>1 DEF TotalLen, W, H
  <2>4. ToFrame = Rest(pad_cnt_d1, pad_cnt_d2, W)
    BY <1>6 DEF ToFrame
  <2>5. padding_fsm_done <=> pad_cnt_d2 = 0
    BY <1>1, <1>6, <2>1 DEF padding_fsm_done
  <2>6. CASE pad_cnt_d2 = 0
    <3>1. ToFrame = 0
      BY <2>4, <2>6 DEF Rest
    <3>2. Framed = TotalLen(c) - ToFrame
      BY DEF Framed
    <3>3. Framed = TotalLen(c)
      BY <2>3, <3>1, <3>2
    <3> QED BY <1>2, <1>4, <1>6, <2>3, <2>5, <2>6, <3>1, <3>3
  <2>7. CASE pad_cnt_d2 # 0
    <3>1. pad_cnt_d1 \in 1 .. W /\ pad_cnt_d2 \in 1 .. H
      BY <1>1, <1>6, <2>7 DEF PadsInPlace
    <3>2. ToFrame \in Nat /\ ToFrame # 0
      BY <1>3, <2>2, <2>4, <2>7, <3>1, RestStep
    <3>3. Framed \in Nat /\ Framed < TotalLen(c)
      BY <1>1, <2>1, <2>4, <3>1, WordOfFrame DEF Framed
    <3> QED BY <1>2, <1>6, <2>3, <2>5, <2>7, <3>2, <3>3
  <2> QED BY <2>6, <2>7
<1> QED BY <1>5, <1>6

(* A word pushed is the next of the frame.                                 *)
LEMMA PushedWord ==
    ASSUME TypeOK, DrainInv, SourceRead, FrameWritten, dma_state = "RUNNING", pad_push
    PROVE  write_fifo_input(read_fifo) = Word(regs, Framed + 1)
<1> DEFINE c == regs  n == regs.size_d1
<1>1. /\ PadsInPlace /\ pad_fsm_on /\ Suitable(c) /\ c \in RegFile
  BY DEF DrainInv, Settings, TypeOK
<1>2. ~padding_fsm_done /\ ToFrame # 0 /\ Framed \in Nat /\ Framed < TotalLen(c)
  BY FrameCounts DEF pad_push, write_fifo_push
<1>3. ~pad_on => write_fifo_input(read_fifo) = << SourceAt(c, Taken), SourceAt(c, Taken) >>
  <2> SUFFICES ASSUME ~pad_on
               PROVE  read_fifo[1] = << SourceAt(c, Taken), SourceAt(c, Taken) >>
    BY DEF write_fifo_input
  <2>1. read_fifo # << >>
    BY DEF pad_push, write_fifo_push
  <2>2. 1 \in 1 .. Len(read_fifo)
    <3>1. Len(read_fifo) \in Nat /\ Len(read_fifo) # 0
      BY <2>1, EmptyLen DEF TypeOK
    <3> QED BY <3>1
  <2>3. Taken + 1 - 1 = Taken
    <3>1. ToPush \in Int
      <4>1. CASE conf_1d
        BY <4>1, Widths DEF ToPush, TypeOK
      <4>2. CASE ~conf_1d
        <5>1. c.dim_config = Dim2 /\ pad_cnt_d2 # 0
          BY <1>1, <1>2, <4>2, FrameRange DEF conf_1d, conf_2d, padding_fsm_done
        <5>2. pad_cnt_d1 \in 1 .. RowLen(c) /\ pad_cnt_d2 \in Nat
          BY <1>1, <4>2, <5>1, Widths DEF PadsInPlace, TypeOK
        <5> QED BY <1>1, <4>2, <5>1, <5>2, SourceStep DEF ToPush
      <4> QED BY <4>1, <4>2
    <3>2. SourceLen(c) \in Int
      BY <1>1, FrameRange DEF SourceLen
    <3> QED BY <3>1, <3>2 DEF Taken
  <2> QED BY <2>2, <2>3 DEF SourceRead
<1>4. pad_on => write_fifo_input(read_fifo) = Zero
  BY DEF write_fifo_input
<1>5. CASE conf_1d
  <2>1. c.dim_config = Dim1 /\ ~pad_on
    BY <1>1, <1>5 DEF conf_1d, PadsInPlace, pad_on
  <2>2. /\ TotalLen(c) = n /\ Framed = n - pad_cnt_d1
        /\ ToPush = pad_cnt_d1 /\ SourceLen(c) = n
    BY <1>5, FrameCounts
  <2>3. Taken = Framed
    BY <2>2 DEF Taken
  <2>4. Word(c, Framed + 1) = << SourceAt(c, Framed), SourceAt(c, Framed) >>
    BY <1>1, <1>2, <2>1, <2>2, WordOfRow
  <2> QED BY <1>3, <2>1, <2>3, <2>4
<1>6. CASE ~conf_1d
  <2>1. c.dim_config = Dim2 /\ conf_2d /\ pad_cnt_d2 # 0
    BY <1>1, <1>2, <1>6, FrameRange DEF conf_1d, conf_2d, padding_fsm_done
  <2>2. pad_cnt_d1 \in 1 .. RowLen(c) /\ pad_cnt_d2 \in 1 .. Rows(c)
    BY <1>1, <1>6, <2>1 DEF PadsInPlace
  <2>3. /\ ToFrame = Rest(pad_cnt_d1, pad_cnt_d2, RowLen(c))
        /\ ToPush = SourceRest(c, pad_cnt_d1, pad_cnt_d2)
    BY <1>6 DEF ToFrame, ToPush
  <2>4. Word(c, Framed + 1) = IF AtData(c, pad_cnt_d1, pad_cnt_d2)
                              THEN << SourceAt(c, Taken), SourceAt(c, Taken) >>
                              ELSE Zero
    BY <1>1, <2>1, <2>2, <2>3, WordOfFrame DEF Framed, Taken
  <2>5. pad_on <=> ~AtData(c, pad_cnt_d1, pad_cnt_d2)
    BY <1>1, <2>1, ZerosInPlace
  <2> QED BY <1>3, <1>4, <2>4, <2>5
<1> QED BY <1>5, <1>6

LEMMA FramedRun ==
    ASSUME TypeOK, DrainInv, FrameWritten, dma_state = "RUNNING", ~dma_done,
           NEW in \in BusInputs, NEW sw \in Accesses, Cycle(in, sw)
    PROVE  Framed' = Framed + One(pad_push)
<1> DEFINE W == RowLen(regs)  T == TotalLen(regs)
           f0 == ToFrame  f1 == ToFrame'  o == One(pad_push)
<1>1. /\ PadsInPlace /\ pad_fsm_on /\ Suitable(regs) /\ regs \in RegFile
  BY DEF DrainInv, Settings, TypeOK
<1>2. /\ conf_1d' = conf_1d /\ conf_2d' = conf_2d /\ RowLen(regs') = W
      /\ TotalLen(regs') = T
  <2>1. /\ AccessAllowed(sw) /\ RegsNext(sw) /\ sw.op # "launch" /\ ~ReadyForLaunch
    BY DEF Cycle, AccessAllowed, ReadyForLaunch
  <2> QED BY <2>1, RegsKept, JobKept
<1>3. PadCounters(FALSE, pad_push)
  BY DEF Cycle, PadTick, PadCounters, dma_start
<1>4. pad_cnt_d1 \in Nat /\ pad_cnt_d2 \in Nat /\ pad_push \in BOOLEAN
  BY Widths, PushedType DEF TypeOK
<1>5. o \in 0 .. 1 /\ (pad_push => o = 1) /\ (~pad_push => o = 0)
  BY DEF One
<1>6. /\ f0 \in Nat /\ T \in Nat
      /\ padding_fsm_done <=> f0 = 0
      /\ padding_fsm_done => ~pad_push
  BY FrameCounts DEF pad_push, write_fifo_push
<1>7. f1 = f0 - o
  <2>1. CASE padding_fsm_done
    <3>1. pad_cnt_d1' = 0 /\ pad_cnt_d2' = 0
      BY <1>3, <2>1 DEF PadCounters
    <3>2. f1 = 0
      BY <1>2, <3>1 DEF ToFrame, Rest
    <3> HIDE DEF f0, f1, o
    <3> QED BY <1>5, <1>6, <2>1, <3>2
  <2>2. CASE ~padding_fsm_done /\ conf_1d
    <3>1. f0 = pad_cnt_d1 /\ f1 = pad_cnt_d1' /\ ~conf_2d
      BY <1>2, <2>2 DEF ToFrame, conf_1d, conf_2d, Dim1, Dim2
    <3>2. pad_cnt_d1 # 0
      BY <1>6, <2>2, <3>1
    <3>3. pad_cnt_d1' = IF pad_push THEN pad_cnt_d1 - 1 ELSE pad_cnt_d1
      BY <1>3, <2>2, <3>1, <3>2 DEF PadCounters, Dec
    <3> HIDE DEF o
    <3> QED BY <1>4, <1>5, <3>1, <3>3
  <2>3. CASE ~padding_fsm_done /\ ~conf_1d
    <3>1. conf_2d /\ regs.dim_config = Dim2 /\ pad_cnt_d2 # 0
      BY <1>1, <2>3, FrameRange DEF conf_1d, conf_2d, padding_fsm_done
    <3>2. pad_cnt_d1 \in 1 .. W /\ W \in Nat \ {0}
      BY <1>1, <2>3, <3>1, SourceWhole DEF PadsInPlace
    <3>3. /\ pad_push /\ pad_cnt_d1 = 1 => pad_cnt_d1' = W /\ pad_cnt_d2' = pad_cnt_d2 - 1
          /\ pad_push /\ pad_cnt_d1 # 1 =>
               pad_cnt_d1' = pad_cnt_d1 - 1 /\ pad_cnt_d2' = pad_cnt_d2
          /\ ~pad_push => pad_cnt_d1' = pad_cnt_d1 /\ pad_cnt_d2' = pad_cnt_d2
      BY <1>1, <1>3, <1>4, <3>1, <3>2, PadCountersStep
    <3>4. f0 = Rest(pad_cnt_d1, pad_cnt_d2, W) /\ f1 = Rest(pad_cnt_d1', pad_cnt_d2', W)
      BY <1>2, <2>3 DEF ToFrame
    <3>5. /\ pad_cnt_d1 = 1 => Rest(W, pad_cnt_d2 - 1, W) = f0 - 1
          /\ pad_cnt_d1 # 1 => Rest(pad_cnt_d1 - 1, pad_cnt_d2, W) = f0 - 1
      BY <1>4, <3>1, <3>2, <3>4, RestStep
    <3>6. pad_push => f1 = f0 - 1
      BY <3>3, <3>4, <3>5
    <3>7. ~pad_push => f1 = f0
      BY <3>3, <3>4
    <3> HIDE DEF f0, f1, o
    <3> QED BY <1>4, <1>5, <1>6, <3>6, <3>7
  <2> QED BY <2>1, <2>2, <2>3
<1>8. Framed = T - f0 /\ Framed' = T - f1
  BY <1>2 DEF Framed
<1>9. T - f1 = (T - f0) + o
  <2> HIDE DEF T, f0, f1, o
  <2> QED BY <1>5, <1>6, <1>7
<1> QED BY <1>8, <1>9

(* The word at the output of the write FIFO is the next to be written.     *)
LEMMA OutputWord ==
    ASSUME TypeOK, DrainInv, SourceRead, FrameWritten, dma_state = "RUNNING",
           write_fifo # << >> \/ pad_push
    PROVE  /\ Len(out) < TotalLen(regs)
           /\ write_fifo_output(write_fifo_input(read_fifo)) = Word(regs, Len(out) + 1)
<1> DEFINE a == Len(out)  b == Len(write_fifo)  T == TotalLen(regs)
<1>1. /\ a \in Nat /\ b \in Nat /\ T \in Nat /\ Framed <= T /\ a + b = Framed
      /\ pad_push => Framed < T
  BY FrameCounts DEF FrameWritten
<1>2. CASE write_fifo = << >>
  <2>1. b = 0 /\ pad_push
    BY <1>2, EmptySeq
  <2>2. a + 1 = Framed + 1 /\ a < T
    <3> HIDE DEF a, b, T
    <3> QED BY <1>1, <2>1
  <2> QED BY <1>2, <2>1, <2>2, PushedWord DEF write_fifo_output
<1>3. CASE write_fifo # << >>
  <2>1. b # 0
    BY <1>3, EmptyLen DEF TypeOK
  <2>2. 1 \in 1 .. b /\ a < T
    <3> HIDE DEF a, b, T
    <3> QED BY <1>1, <2>1
  <2>3. write_fifo[1] = Word(regs, a + 1)
    BY <2>2 DEF FrameWritten
  <2> QED BY <1>3, <2>2, <2>3 DEF write_fifo_output
<1> QED BY <1>2, <1>3

LEMMA OutputAddress ==
    ASSUME TypeOK, DrainInv, SourceRead, FrameWritten, Pointed, Addressed,
           dma_state = "RUNNING",
           NEW in \in BusInputs, NEW sw \in Accesses, Cycle(in, sw), in.wgnt
    PROVE  write_address(addr_fifo) = Target(regs, Len(out) + 1)
<1> DEFINE c == regs  j == Len(out)
<1>1. /\ Suitable(c) /\ c \in RegFile /\ j \in Nat
  BY FrameCounts DEF DrainInv, Settings, TypeOK
<1>2. j < TotalLen(c)
  BY OutputWord DEF Cycle, BusAllowed, data_out_req, write_fifo_empty
<1>3. CASE ~address_mode
  BY <1>2, <1>3 DEF Pointed, write_address
<1>4. CASE address_mode
  <2>1. conf_1d /\ c.dim_config = Dim1
    BY <1>1, <1>4, FrameRange DEF Suitable, address_mode, conf_1d
  <2>2. Target(c, j + 1) = DstAddr(c, 0, j)
    <3>1. j < c.size_d1
      BY <1>2, <2>1, FrameCounts
    <3> QED BY <1>1, <2>1, <3>1, WordOfRow
  <2>3. DstAddr(c, 0, j) = Listed(j)
    BY <1>4 DEF DstAddr, Listed, address_mode
  <2>4. addr_fifo # << >>
    BY <1>4 DEF Cycle, BusAllowed, data_out_req
  <2>5. 1 \in 1 .. Len(addr_fifo)
    <3>1. Len(addr_fifo) \in Nat /\ Len(addr_fifo) # 0
      BY <2>4, EmptyLen DEF TypeOK
    <3> QED BY <3>1
  <2>6. j + 1 - 1 = j
    BY <1>1
  <2>7. addr_fifo[1] = Listed(j)
    BY <1>4, <2>5, <2>6 DEF Addressed
  <2> QED BY <1>4, <2>2, <2>3, <2>7 DEF write_address
<1> QED BY <1>3, <1>4

LEMMA WrittenRun ==
    ASSUME TypeOK, FifosHaveRoom, DrainInv, SourceRead, FrameWritten, Pointed, Addressed,
           dma_state = "RUNNING", ~dma_done,
           NEW in \in BusInputs, NEW sw \in Accesses, Cycle(in, sw)
    PROVE  /\ FrameWritten'
           /\ Len(out') = Len(out) + One(in.wgnt)
           /\ out' = IF in.wgnt THEN Append(out, ExpectedWrite(regs, Len(out) + 1)) ELSE out
<1> DEFINE a == Len(out)  b == Len(write_fifo)  d == write_fifo_input(read_fifo)
           f == [ n \in Int |-> Word(regs, n) ]
           e == << write_address(addr_fifo), write_fifo_output(d) >>
           a1 == Len(out')  b1 == Len(write_fifo')  g == One(in.wgnt)  o == One(pad_push)
<1>1. /\ sw.op # "launch" /\ AccessAllowed(sw) /\ RegsNext(sw)
  BY DEF Cycle, AccessAllowed, ReadyForLaunch
<1>2. \A n : ExpectedWrite(regs', n) = ExpectedWrite(regs, n)
  BY <1>1, JobKept
<1>3. \A n : Word(regs', n) = Word(regs, n)
  BY <1>2 DEF Word
<1>4. /\ a \in Nat /\ b \in Nat /\ Framed \in Nat /\ a + b = Framed
      /\ out \in Seq(Int \X Elements) /\ write_fifo \in Seq(Elements)
  BY FrameCounts DEF FrameWritten, TypeOK
<1>5. /\ in.wgnt \in BOOLEAN /\ pad_push \in BOOLEAN
      /\ in.wgnt => write_fifo # << >> \/ pad_push
      /\ pad_push => d \in Elements
      /\ pad_push => Len(write_fifo) # Depth
  BY SignalTypes, PushedType
     DEF Cycle, BusAllowed, data_out_req, write_fifo_empty, pad_push, write_fifo_push,
         write_fifo_en, full
<1>6. g \in 0 .. 1 /\ o \in 0 .. 1 /\ (in.wgnt => g = 1) /\ (~in.wgnt => g = 0)
  BY DEF One
<1>7. write_fifo' = FallThroughNext(write_fifo, pad_push, d, in.wgnt)
  BY <1>5 DEF Cycle, WriteTick
<1>8. b1 = b + o - g
  <2> HIDE DEF d
  <2> QED BY <1>4, <1>5, <1>7, FallThroughExact
<1>9. Numbered(write_fifo', f, a + g)
  <2>1. Numbered(write_fifo, f, a)
    <3> SUFFICES ASSUME NEW i \in 1 .. b
                 PROVE  write_fifo[i] = f[a + i]
      BY DEF Numbered
    <3>1. a + i \in Int
      BY <1>4
    <3> QED BY <3>1 DEF FrameWritten
  <2>2. pad_push => d = f[a + b + 1]
    <3> SUFFICES ASSUME pad_push PROVE d = f[a + b + 1]
      OBVIOUS
    <3>1. a + b + 1 \in Int /\ a + b + 1 = Framed + 1
      BY <1>4
    <3> QED BY <3>1, PushedWord
  <2> DEFINE t == Len(out)  pop == in.wgnt  push == pad_push
  <2> HIDE DEF f, d
  <2>3. /\ pop \in BOOLEAN /\ push \in BOOLEAN /\ write_fifo \in Seq(Elements)
        /\ pop => write_fifo # << >> \/ push
        /\ push => d \in Elements
        /\ push => Len(write_fifo) # Depth
        /\ t \in Int
    BY <1>4, <1>5
  <2>4. /\ Numbered(write_fifo, f, t)
        /\ push => d = f[t + Len(write_fifo) + 1]
    BY <2>1, <2>2
  <2> HIDE DEF t, pop, push
  <2>5. Numbered(FallThroughNext(write_fifo, push, d, pop), f, t + One(pop))
    BY <2>3, <2>4, FallThroughItems
  <2> QED BY <1>7, <2>5 DEF t, pop, push
<1>10. out' = IF in.wgnt THEN Append(out, e) ELSE out
  BY DEF Cycle, Written, dma_start
<1>11. in.wgnt => e \in Int \X Elements /\ e = ExpectedWrite(regs, a + 1)
  <2> SUFFICES ASSUME in.wgnt
               PROVE  e \in Int \X Elements /\ e = ExpectedWrite(regs, a + 1)
    OBVIOUS
  <2>1. /\ write_address(addr_fifo) = Target(regs, a + 1)
        /\ write_fifo_output(d) = Word(regs, a + 1)
    BY <1>5, OutputAddress, OutputWord
  <2>2. ExpectedWrite(regs, a + 1) = << Target(regs, a + 1), Word(regs, a + 1) >>
    BY DEF ExpectedWrite, Target, Word
  <2>3. write_address(addr_fifo) \in Int
    <3>1. address_mode => addr_fifo # << >> /\ addr_fifo \in Seq(Int)
      BY DEF Cycle, BusAllowed, data_out_req, TypeOK
    <3>2. address_mode => Head(addr_fifo) \in Int
      BY <3>1
    <3> QED BY <3>2 DEF write_address, TypeOK
  <2>4. write_fifo_output(d) \in Elements
    <3>1. write_fifo # << >> => Head(write_fifo) \in Elements
      BY <1>4
    <3> HIDE DEF d
    <3> QED BY <1>5, <3>1 DEF write_fifo_output
  <2> QED BY <2>1, <2>2, <2>3, <2>4
<1>12. a1 = a + g
  <2> HIDE DEF e
  <2>1. CASE in.wgnt
    <3>1. Len(Append(out, e)) = a + 1
      BY <1>4, <1>11, <2>1, AppendProperties
    <3> QED BY <1>6, <1>10, <2>1, <3>1
  <2>2. CASE ~in.wgnt
    BY <1>4, <1>6, <1>10, <2>2
  <2> QED BY <1>5, <2>1, <2>2
<1>13. \A i \in 1 .. a1 : out'[i] = ExpectedWrite(regs, i)
  <2>0. \A i \in 1 .. a : out[i] = ExpectedWrite(regs, i)
    BY DEF FrameWritten
  <2> HIDE DEF e
  <2>1. CASE in.wgnt
    <3>1. /\ \A i \in 1 .. a : Append(out, e)[i] = out[i]
          /\ Append(out, e)[a + 1] = e
      BY <1>4, <1>11, <2>1, AppendProperties
    <3>2. a1 = a + 1
      BY <1>6, <1>12, <2>1
    <3> HIDE DEF a, a1
    <3>3. ASSUME NEW i \in 1 .. a1
          PROVE  i \in 1 .. a \/ i = a + 1
      BY <1>4, <3>2
    <3> QED BY <1>10, <1>11, <2>0, <2>1, <3>1, <3>3 DEF a1
  <2>2. CASE ~in.wgnt
    BY <1>10, <2>0, <2>2
  <2> QED BY <1>5, <2>1, <2>2
<1>14. a1 + b1 = Framed'
  <2>1. Framed' = Framed + o
    BY FramedRun
  <2> DEFINE w1 == Framed'
  <2>2. w1 = Framed + o
    BY <2>1
  <2> HIDE DEF a, b, a1, b1, g, o, w1
  <2>3. a1 + b1 = w1
    BY <1>4, <1>6, <1>8, <1>12, <2>2
  <2> QED BY <2>3 DEF w1
<1>15. \A i \in 1 .. b1 : write_fifo'[i] = Word(regs, a1 + i)
  <2> SUFFICES ASSUME NEW i \in 1 .. b1
               PROVE  write_fifo'[i] = Word(regs, a1 + i)
    OBVIOUS
  <2>1. a + g + i \in Int /\ a + g + i = a1 + i
    BY <1>4, <1>6, <1>12
  <2>2. write_fifo'[i] = f[a + g + i]
    BY <1>9 DEF Numbered
  <2> HIDE DEF a, g, a1, b1
  <2> QED BY <2>1, <2>2
<1>16. FrameWritten'
  BY <1>2, <1>3, <1>13, <1>14, <1>15 DEF FrameWritten
<1> QED BY <1>10, <1>11, <1>12, <1>16

(* The next word of a row of the destination, and the first of the next.   *)
LEMMA DstAddrStep ==
    ASSUME NEW c \in RegFile, c.mode # "ADDRESS", NEW r \in Nat, NEW k \in Nat
    PROVE  /\ DstAddr(c, r, k) \in Int
           /\ DstAddr(c, r, k + 1) = DstAddr(c, r, k) + c.dst_ptr_inc_d1
           /\ k = RowLen(c) - 1 =>
                DstAddr(c, r + 1, 0) = DstAddr(c, r, k) + c.dst_ptr_inc_d2
<1> DEFINE n == RowLen(c)  p == c.dst_ptr  i1 == c.dst_ptr_inc_d1  i2 == c.dst_ptr_inc_d2
           z == (n - 1) * i1 + i2
<1>1. n \in Nat /\ p \in Int /\ i1 \in Int /\ i2 \in Int
  BY FrameRange, SourceRange
<1>2. \A x, y : DstAddr(c, x, y) = p + x * z + y * i1
  BY DEF DstAddr
<1>3. z \in Int /\ z = (n - 1) * i1 + i2 /\ (n - 1) * i1 \in Int
  <2> HIDE DEF n, i1, i2
  <2> QED BY <1>1
<1> HIDE DEF n, p, i1, i2, z
<1>4. /\ r * z \in Int /\ k * i1 \in Int /\ (k + 1) * i1 = k * i1 + i1 /\ 0 * i1 = 0
      /\ (r + 1) * z = r * z + z
  BY <1>1, <1>3
<1>5. /\ DstAddr(c, r, k) \in Int
      /\ DstAddr(c, r, k + 1) = DstAddr(c, r, k) + i1
      /\ k = n - 1 => DstAddr(c, r + 1, 0) = DstAddr(c, r, k) + i2
  <2> DEFINE u == r * z  v == k * i1
  <2>1. /\ DstAddr(c, r, k) = p + u + v /\ DstAddr(c, r, k + 1) = p + u + (v + i1)
        /\ DstAddr(c, r + 1, 0) = p + (u + z) + 0
        /\ u \in Int /\ v \in Int
    BY <1>2, <1>4
  <2>2. k = n - 1 => z = v + i2
    BY <1>3
  <2> HIDE DEF u, v
  <2> QED BY <1>1, <1>3, <2>1, <2>2
<1> QED BY <1>5 DEF n, i1, i2

LEMMA PointedRun ==
    ASSUME TypeOK, FifosHaveRoom, DrainInv, SourceRead, FrameWritten, Pointed, Addressed,
           dma_state = "RUNNING", ~dma_done,
           NEW in \in BusInputs, NEW sw \in Accesses, Cycle(in, sw)
    PROVE  Pointed'
<1> DEFINE c == regs  k == Len(out)  W == RowLen(c)  T == TotalLen(c)
           row == k \div W  col == k % W
           i1 == c.dst_ptr_inc_d1  i2 == c.dst_ptr_inc_d2
<1>1. /\ sw.op # "launch" /\ AccessAllowed(sw) /\ RegsNext(sw) /\ ~ReadyForLaunch
  BY DEF Cycle, AccessAllowed, ReadyForLaunch
<1>2. /\ \A n : ExpectedWrite(regs', n) = ExpectedWrite(c, n)
      /\ TotalLen(regs') = T
  BY <1>1, JobKept
<1>3. \A n : Target(regs', n) = Target(c, n)
  BY <1>2 DEF Target
<1>4. (address_mode' <=> address_mode) /\ conf_2d' = conf_2d /\ RowLen(regs') = W
  BY <1>1, RegsKept
<1>5. /\ k \in Nat /\ T \in Nat /\ Suitable(c) /\ c \in RegFile
      /\ write_ptr \in Int /\ dst_cnt_d1 \in Nat
      /\ conf_1d => T = c.size_d1
  BY FrameCounts, Widths DEF DrainInv, Settings, TypeOK
<1>6. Len(out') = k + One(in.wgnt)
  BY WrittenRun
<1>7. WritePointers(FALSE, FALSE, in.wgnt)
  BY DEF Cycle, WriteTick, WritePointers, dma_start
<1>8. in.wgnt \in BOOLEAN
  BY SignalTypes
<1>9. SUFFICES ASSUME ~address_mode, Len(out') < T
               PROVE  /\ write_ptr' = Target(c, Len(out') + 1)
                      /\ conf_2d => dst_cnt_d1' = W - (Len(out') % W)
  BY <1>2, <1>3, <1>4 DEF Pointed
<1>10. CASE ~in.wgnt
  <2>1. Len(out') = k
    <3>1. One(in.wgnt) = 0
      BY <1>10 DEF One
    <3> QED BY <1>5, <1>6, <3>1
  <2>2. write_ptr' = write_ptr /\ dst_cnt_d1' = dst_cnt_d1
    BY <1>7, <1>10 DEF WritePointers
  <2> QED BY <1>9, <2>1, <2>2 DEF Pointed
<1>11. CASE in.wgnt
  <2>1. Len(out') = k + 1
    <3>1. One(in.wgnt) = 1
      BY <1>11 DEF One
    <3> QED BY <1>6, <3>1
  <2>2. k + 1 < T /\ k < T
    BY <1>5, <1>9, <2>1
  <2>3. write_ptr = Target(c, k + 1) /\ (conf_2d => dst_cnt_d1 = W - col)
    BY <1>9, <2>2 DEF Pointed
  <2>4. c.mode # "ADDRESS"
    BY <1>9 DEF address_mode
  <2>5. W \in Nat \ {0} /\ (conf_1d => W = c.size_d1)
    <3>1. c.size_d1 \in Nat \ {0} /\ c.pad_left \in Nat /\ c.pad_right \in Nat
          /\ W = c.pad_left + c.size_d1 + c.pad_right
      BY <1>5, FrameRange DEF Suitable
    <3>2. conf_1d => c.pad_left = 0 /\ c.pad_right = 0
      BY <1>5 DEF Suitable, conf_1d
    <3> HIDE DEF W
    <3> QED BY <3>1, <3>2
  <2>6. /\ col + 1 >= W => (k + 1) % W = 0 /\ (k + 1) \div W = row + 1
        /\ col + 1 < W => (k + 1) % W = col + 1 /\ (k + 1) \div W = row
        /\ row \in Nat /\ col \in Nat /\ col < W
    <3>1. col < W
      BY <1>5, <2>5
    <3> QED BY <1>5, <2>5, <3>1, DivStep
  <2>7. /\ Target(c, k + 1) = DstAddr(c, row, col)
        /\ Target(c, k + 1 + 1) = DstAddr(c, (k + 1) \div W, (k + 1) % W)
    <3>1. (k + 1) - 1 = k /\ (k + 1 + 1) - 1 = k + 1
      BY <1>5
    <3> QED BY <3>1 DEF Target, ExpectedWrite
  <2>8. /\ DstAddr(c, row, col + 1) = DstAddr(c, row, col) + i1
        /\ col = W - 1 => DstAddr(c, row + 1, 0) = DstAddr(c, row, col) + i2
    BY <1>5, <2>4, <2>6, DstAddrStep
  <2> HIDE DEF row, col
  <2>9. CASE col + 1 >= W
    <3>1. col = W - 1
      BY <2>5, <2>6, <2>9
    <3>2. conf_2d
      <4>1. CASE conf_1d
        <5>1. k + 1 < W
          BY <1>5, <2>2, <2>5, <4>1
        <5>2. (k + 1) % W = k + 1
          BY <1>5, <2>5, <5>1
        <5> QED BY <1>5, <2>6, <2>9, <5>2
      <4> QED BY <1>5, <4>1, FrameRange DEF conf_1d, conf_2d
    <3>3. dst_cnt_d1 = 1
      BY <2>3, <2>5, <3>1, <3>2
    <3>4. dst_cnt_d1' = W /\ write_ptr' = write_ptr + i2
      BY <1>7, <1>11, <3>2, <3>3 DEF WritePointers
    <3>5. W - 0 = W
      BY <2>5
    <3> QED BY <2>1, <2>3, <2>6, <2>7, <2>8, <2>9, <3>1, <3>4, <3>5
  <2>10. CASE ~(col + 1 >= W)
    <3>1. col + 1 < W
      BY <2>5, <2>6, <2>10
    <3>2. conf_2d => dst_cnt_d1 # 1 /\ dst_cnt_d1 # 0 /\ dst_cnt_d1 - 1 = W - (col + 1)
      BY <2>3, <2>5, <2>6, <3>1
    <3>3. write_ptr' = write_ptr + i1
      BY <1>7, <1>11, <3>2 DEF WritePointers
    <3>4. conf_2d => dst_cnt_d1' = dst_cnt_d1 - 1
      BY <1>7, <1>11, <3>2 DEF WritePointers, Dec
    <3> QED BY <2>1, <2>3, <2>6, <2>7, <2>8, <3>1, <3>2, <3>3, <3>4
  <2> QED BY <2>9, <2>10
<1> QED BY <1>8, <1>10, <1>11

LEMMA AddressedRun ==
    ASSUME TypeOK, FifosHaveRoom, DrainInv, SourceRead, FrameWritten, Pointed, Addressed,
           dma_state = "RUNNING", ~dma_done,
           NEW in \in BusInputs, NEW sw \in Accesses, Cycle(in, sw)
    PROVE  Addressed'
<1> DEFINE n == regs.size_d1  k == Len(out)  p == Len(addr_pending)  q == Len(addr_fifo)
           w == Len(write_fifo)
           c0 == addr_cnt  c1 == addr_cnt'  k1 == Len(out')
           g == One(in.agnt)  v == One(in.avalid)  o == One(in.wgnt)
           f == [ j \in Int |-> Listed(j) ]
           d == Head(addr_pending)
<1>1. /\ sw.op # "launch" /\ AccessAllowed(sw) /\ RegsNext(sw) /\ ~ReadyForLaunch
  BY DEF Cycle, AccessAllowed, ReadyForLaunch
<1>2. /\ regs'.addr_ptr = regs.addr_ptr /\ regs'.size_d1 = n
      /\ address_mode' <=> address_mode
  BY <1>1, JobKept, RegsKept
<1>3. \A j : regs'.addr_ptr + 4 * j = Listed(j)
  BY <1>2 DEF Listed
<1>4. SUFFICES ASSUME address_mode
               PROVE  /\ addr_ptr_reg' = Listed(n - c1)
                      /\ addr_pending' # << >> => Head(addr_pending') = Listed(n - c1 - 1)
                      /\ \A i \in 1 .. Len(addr_fifo') : addr_fifo'[i] = Listed(k1 + i - 1)
  BY <1>2, <1>3 DEF Addressed, Listed
<1>5. /\ Suitable(regs) /\ regs \in RegFile /\ conf_1d /\ n \in Nat /\ regs.addr_ptr \in Int
  BY <1>4, FrameRange, SourceRange
     DEF DrainInv, Settings, TypeOK, Suitable, address_mode, conf_1d
<1>6. AddrTick(FALSE, in.agnt, in.avalid, in.wgnt, in.stop)
  BY DEF Cycle, AddrTick, dma_start
<1>7. /\ in.agnt \in BOOLEAN /\ in.avalid \in BOOLEAN /\ in.wgnt \in BOOLEAN
      /\ in.avalid => addr_pending # << >>
      /\ in.agnt => addr_pending = << >> \/ in.avalid
      /\ in.agnt => addr_cnt # 0
      /\ in.wgnt => addr_fifo # << >>
  BY <1>4, SignalTypes DEF Cycle, BusAllowed, data_addr_in_req, data_out_req
<1>8. /\ addr_fifo \in Seq(Int) /\ addr_pending \in Seq(Int) /\ Len(addr_pending) <= 1
      /\ addr_ptr_reg \in Int /\ addr_cnt \in Nat
      /\ Len(addr_fifo) + Len(addr_pending) <= Depth /\ Depth \in Nat
  BY DepthAssumption, Widths DEF TypeOK, FifosHaveRoom
<1>9. /\ p \in 0 .. 1 /\ q \in Nat
      /\ addr_pending # << >> => p = 1
  <2>1. Len(addr_pending) \in Nat /\ (Len(addr_pending) = 0 <=> addr_pending = << >>)
    BY <1>8, EmptyLen
  <2>2. q \in Nat
    BY <1>8, EmptyLen
  <2>3. p \in Nat /\ p <= 1 /\ (addr_pending # << >> => p # 0)
    BY <1>8, <2>1
  <2> HIDE DEF p
  <2> QED BY <2>2, <2>3
<1>10. c0 + p + q = n - k /\ k \in Nat
  <2>1. c0 + p + q = pad_cnt_d1 + w
    BY <1>4 DEF DrainInv, AddressesCounted
  <2>2. k + w = n - pad_cnt_d1 /\ k \in Nat /\ w \in Nat /\ pad_cnt_d1 \in Nat
    BY <1>5, FrameCounts, Widths DEF FrameWritten, TypeOK
  <2> HIDE DEF k, w, n, p, q, c0
  <2>3. c0 \in Nat
    BY <1>8 DEF c0
  <2>4. n \in Nat
    BY <1>5
  <2> QED BY <1>9, <2>1, <2>2, <2>3, <2>4
<1>11. /\ g \in 0 .. 1 /\ v \in 0 .. 1 /\ o \in 0 .. 1
       /\ in.agnt => g = 1
       /\ ~in.agnt => g = 0
  BY DEF One
<1>12. c1 = c0 - g
  BY <1>4, <1>6, <1>7, <1>8 DEF AddrTick, One
<1>13. k1 = k + o
  BY WrittenRun
<1>14. /\ addr_ptr_reg = Listed(n - c0)
       /\ addr_pending # << >> => Head(addr_pending) = Listed(n - c0 - 1)
       /\ \A i \in 1 .. q : addr_fifo[i] = Listed(k + i - 1)
  BY <1>4 DEF Addressed
<1>15. addr_ptr_reg' = Listed(n - c1)
  <2>1. CASE in.agnt
    <3>1. addr_ptr_reg' = addr_ptr_reg + 4
      BY <1>4, <1>6, <2>1 DEF AddrTick
    <3>2. n - c1 = (n - c0) + 1 /\ n - c0 \in Int
      <4>1. n \in Nat /\ c0 \in Nat /\ c1 = c0 - g /\ g = 1
        BY <1>5, <1>8, <1>11, <1>12, <2>1
      <4> HIDE DEF n, c0, c1, g
      <4> QED BY <4>1
    <3>3. Listed((n - c0) + 1) = Listed(n - c0) + 4
      <4> DEFINE j == n - c0
      <4>1. j \in Int
        BY <3>2
      <4> HIDE DEF j
      <4>2. Listed(j + 1) = Listed(j) + 4
        BY <1>5, <4>1 DEF Listed
      <4> QED BY <4>2 DEF j
    <3> QED BY <1>14, <3>1, <3>2, <3>3
  <2>2. CASE ~in.agnt
    <3>1. addr_ptr_reg' = addr_ptr_reg /\ c1 = c0
      BY <1>6, <2>2 DEF AddrTick
    <3> QED BY <1>14, <3>1
  <2> QED BY <1>7, <2>1, <2>2
<1>16. addr_pending' = InFlight(addr_pending, in.agnt, addr_ptr_reg, in.avalid)
  BY <1>6 DEF AddrTick
<1>17. addr_pending' # << >> => Head(addr_pending') = Listed(n - c1 - 1)
  <2>1. CASE in.agnt
    <3>1. (IF in.avalid THEN Tail(addr_pending) ELSE addr_pending) = << >>
      <4>1. CASE in.avalid
        <5>1. Len(addr_pending) = 1
          BY <1>7, <1>9, <4>1
        <5>2. Tail(addr_pending) \in Seq(Int) /\ Len(Tail(addr_pending)) = 0
          BY <1>7, <1>8, <4>1, <5>1
        <5> QED BY <4>1, <5>2, EmptyLen
      <4>2. CASE ~in.avalid
        BY <1>7, <2>1, <4>2
      <4> QED BY <4>1, <4>2
    <3>2. addr_pending' = Append(<< >>, addr_ptr_reg)
      BY <1>16, <2>1, <3>1 DEF InFlight
    <3>3. Head(Append(<< >>, addr_ptr_reg)) = addr_ptr_reg
      BY <1>8
    <3>4. n - c1 - 1 = n - c0
      <4>1. n \in Nat /\ c0 \in Nat /\ c1 = c0 - g /\ g = 1
        BY <1>5, <1>8, <1>11, <1>12, <2>1
      <4> HIDE DEF n, c0, c1, g
      <4> QED BY <4>1
    <3> QED BY <1>14, <3>2, <3>3, <3>4
  <2>2. CASE ~in.agnt /\ in.avalid
    <3>1. Len(addr_pending) = 1 /\ addr_pending' = Tail(addr_pending)
      BY <1>7, <1>9, <1>16, <2>2 DEF InFlight
    <3>2. Tail(addr_pending) \in Seq(Int) /\ Len(Tail(addr_pending)) = 0
      BY <1>7, <1>8, <2>2, <3>1
    <3> QED BY <3>1, <3>2, EmptyLen
  <2>3. CASE ~in.agnt /\ ~in.avalid
    <3>1. addr_pending' = addr_pending /\ c1 = c0
      BY <1>6, <1>16, <2>3 DEF InFlight, AddrTick
    <3> QED BY <1>14, <3>1
  <2> QED BY <1>7, <2>1, <2>2, <2>3
<1>18. \A i \in 1 .. Len(addr_fifo') : addr_fifo'[i] = Listed(k1 + i - 1)
  <2> DEFINE t == k - 1  pop == in.wgnt  push == in.avalid  S == Int
  <2>1. Numbered(addr_fifo, f, t)
    <3> SUFFICES ASSUME NEW i \in 1 .. q
                 PROVE  addr_fifo[i] = f[t + i]
      BY DEF Numbered
    <3>1. t + i \in Int /\ t + i = k + i - 1
      BY <1>10
    <3> QED BY <1>14, <3>1
  <2>2. push => d = f[t + q + 1]
    <3> SUFFICES ASSUME push PROVE d = f[t + q + 1]
      OBVIOUS
    <3>1. p = 1
      BY <1>7, <1>9
    <3>2. t + q + 1 \in Int /\ t + q + 1 = n - c0 - 1
      <4> HIDE DEF n, p, q, k
      <4> QED BY <1>5, <1>8, <1>9, <1>10, <3>1
    <3> QED BY <1>7, <1>14, <3>2
  <2>3. /\ push \in BOOLEAN /\ pop \in BOOLEAN /\ addr_fifo \in Seq(S)
        /\ pop => addr_fifo # << >>
        /\ push => d \in S
        /\ push => Len(addr_fifo) # Depth
        /\ t \in Int
    <3>1. push => p = 1
      BY <1>7, <1>9
    <3>2. push => Len(addr_fifo) # Depth
      <4>1. q + p <= Depth
        BY <1>8
      <4> HIDE DEF p, q
      <4>2. push => q # Depth
        BY <1>8, <1>9, <3>1, <4>1
      <4> QED BY <4>2 DEF q
    <3>3. push => d \in Int
      BY <1>7, <1>8
    <3> QED BY <1>7, <1>8, <1>10, <3>2, <3>3
  <2>4. addr_fifo' = FifoNext(addr_fifo, push, d, pop)
    <3>1. (pop /\ address_mode) = pop
      BY <1>4, <1>7
    <3> QED BY <1>6, <3>1 DEF AddrTick
  <2>5. /\ Numbered(addr_fifo, f, t)
        /\ push => d = f[t + Len(addr_fifo) + 1]
    BY <2>1, <2>2
  <2> HIDE DEF f, d, t, pop, push, S
  <2>6. Numbered(FifoNext(addr_fifo, push, d, pop), f, t + One(pop))
    BY <2>3, <2>5, FifoItems
  <2>7. Len(addr_fifo') \in Nat
    <3>1. FifoNext(addr_fifo, push, d, pop) \in Seq(S)
      BY <2>3, FifoType
    <3> QED BY <2>4, <3>1, EmptyLen
  <2> SUFFICES ASSUME NEW i \in 1 .. Len(addr_fifo')
               PROVE  addr_fifo'[i] = Listed(k1 + i - 1)
    OBVIOUS
  <2>8. addr_fifo'[i] = f[t + One(pop) + i]
    BY <2>4, <2>6 DEF Numbered
  <2>9. t + One(pop) + i = k1 + i - 1 /\ t + One(pop) + i \in Int
    <3>1. i \in Int
      BY <2>7
    <3>2. One(pop) = o
      BY DEF pop
    <3> HIDE DEF k, k1, o
    <3>3. t + o + i = k1 + i - 1 /\ t + o + i \in Int
      BY <1>10, <1>11, <1>13, <3>1 DEF t
    <3> QED BY <3>2, <3>3
  <2> QED BY <2>8, <2>9 DEF f
<1> QED BY <1>15, <1>17, <1>18

-----------------------------------------------------------------------------
(* The steps of a transfer.                                                *)

LEMMA RunDelivers ==
    ASSUME TypeOK, FifosHaveRoom, DrainInv, DeliveryInv, dma_state = "RUNNING", ~dma_done,
           NEW in \in BusInputs, NEW sw \in Accesses, Cycle(in, sw)
    PROVE  DeliveryInv'
<1>1. ~start_pending /\ SourceRead /\ FrameWritten /\ Pointed /\ Addressed
  BY DEF DeliveryInv
<1>2. dma_state' = "RUNNING" /\ ~start_pending'
  BY <1>1 DEF Cycle, MainFsm, StartPending, AccessAllowed, ReadyForLaunch
<1>3. SourceRead' /\ FrameWritten' /\ Pointed' /\ Addressed'
  BY <1>1, SourceReadRun, WrittenRun, PointedRun, AddressedRun
<1>4. ReadyMeansDelivered'
  BY <1>2 DEF ReadyMeansDelivered, ReadyForLaunch
<1> QED BY <1>1, <1>2, <1>3, <1>4 DEF DeliveryInv

(* Everything requested has been written when a transfer is done.          *)
LEMMA DoneDelivers ==
    ASSUME TypeOK, DrainInv, DeliveryInv, dma_state = "RUNNING", dma_done,
           NEW in \in BusInputs, NEW sw \in Accesses, Cycle(in, sw)
    PROVE  /\ DeliveryInv'
           /\ Len(out) = TotalLen(regs) /\ out' = out
<1>1. ~start_pending /\ FrameWritten
  BY DEF DeliveryInv
<1>2. padding_fsm_done /\ write_fifo = << >> /\ ~pad_push
  BY DEF dma_done, dma_done_o, write_fifo_empty
<1>3. out' = out
  <2>1. ~in.wgnt
    BY <1>2 DEF Cycle, BusAllowed, data_out_req, write_fifo_empty
  <2> QED BY <2>1 DEF Cycle, Written, dma_start
<1>4. Len(out) = TotalLen(regs)
  <2>1. /\ ToFrame = 0 /\ TotalLen(regs) \in Nat /\ Len(out) \in Nat
        /\ Len(out) + Len(write_fifo) = Framed
    BY <1>1, <1>2, FrameCounts DEF FrameWritten
  <2>2. Len(write_fifo) = 0
    BY <1>2, EmptySeq
  <2>3. Framed = TotalLen(regs)
    BY <2>1 DEF Framed
  <2> QED BY <2>1, <2>2, <2>3
<1>5. out = Expected(regs)
  <2>1. out = [ i \in 1 .. Len(out) |-> out[i] ]
    BY DEF TypeOK
  <2> QED BY <1>1, <1>4, <2>1 DEF Expected, FrameWritten
<1>6. dma_state' # "RUNNING"
  BY DEF Cycle, MainFsm
<1>7. Expected(regs') = Expected(regs)
  <2>1. /\ sw.op # "launch" /\ AccessAllowed(sw) /\ RegsNext(sw)
    BY DEF Cycle, AccessAllowed, ReadyForLaunch
  <2> QED BY <2>1, JobKept DEF Expected
<1> QED BY <1>3, <1>4, <1>5, <1>6, <1>7 DEF DeliveryInv, ReadyMeansDelivered

(* A channel that is ready keeps what it has written.                      *)
LEMMA ReadyDelivers ==
    ASSUME TypeOK, DrainInv, DeliveryInv, dma_state = "READY",
           NEW in \in BusInputs, NEW sw \in Accesses, Cycle(in, sw)
    PROVE  DeliveryInv' /\ out' = out
<1>1. out' = out
  <2>1. ~in.wgnt
    BY DEF DrainInv, Drained, BusInputs, Choices
  <2> QED BY <2>1 DEF Cycle, Written, dma_start
<1>2. dma_state' # "RUNNING"
  BY DEF Cycle, MainFsm
<1>3. ASSUME ReadyForLaunch'
      PROVE  out' = Expected(regs')
  <2>1. ReadyForLaunch /\ sw.op # "launch"
    BY <1>3 DEF Cycle, ReadyForLaunch, MainFsm, StartPending, dma_start
  <2>2. AccessAllowed(sw) /\ RegsNext(sw)
    BY DEF Cycle
  <2>3. Expected(regs') = Expected(regs)
    BY <2>1, <2>2, JobKept DEF Expected
  <2>4. out = Expected(regs)
    BY <2>1 DEF DeliveryInv, ReadyMeansDelivered
  <2> QED BY <1>1, <2>3, <2>4
<1>4. ReadyMeansDelivered'
  BY <1>3 DEF ReadyMeansDelivered
<1> QED BY <1>1, <1>2, <1>4 DEF DeliveryInv

LEMMA StartDelivers ==
    ASSUME TypeOK, DrainInv, dma_state = "STARTING",
           NEW in \in BusInputs, NEW sw \in Accesses, Cycle(in, sw)
    PROVE  DeliveryInv' /\ out' = << >>
<1> DEFINE c == regs  n == regs.size_d1  m == regs.size_d2  W == RowLen(regs)
           S == SourceLen(regs)  T == TotalLen(regs)
<1>1. Drained /\ Suitable(c) /\ c \in RegFile
  BY DEF DrainInv, Settings, TypeOK
<1>2. dma_start /\ dma_state' = "RUNNING" /\ ~start_pending'
  BY DEF dma_start, Cycle, MainFsm, StartPending
<1>3. /\ sw.op # "launch" /\ AccessAllowed(sw) /\ RegsNext(sw) /\ ~ReadyForLaunch
  BY DEF Cycle, AccessAllowed, ReadyForLaunch
<1>4. /\ conf_1d' = conf_1d /\ conf_2d' = conf_2d /\ (address_mode' <=> address_mode)
      /\ regs'.size_d1 = n /\ regs'.size_d2 = m /\ RowLen(regs') = W
  BY <1>3, RegsKept
<1>5. /\ regs'.src_ptr = c.src_ptr /\ regs'.src_ptr_inc_d1 = c.src_ptr_inc_d1
      /\ regs'.addr_ptr = c.addr_ptr
      /\ SourceLen(regs') = S /\ TotalLen(regs') = T
      /\ \A j : SourceAt(regs', j) = SourceAt(c, j)
      /\ \A i : ExpectedWrite(regs', i) = ExpectedWrite(c, i)
  BY <1>3, JobKept
<1>6. /\ read_fifo' = << >> /\ read_pending' = << >>
      /\ addr_fifo' = << >> /\ addr_pending' = << >>
      /\ write_fifo' = << >>
  BY <1>1, <1>2, QuietStep
<1>7. out' = << >>
  BY <1>2 DEF Cycle, Written
<1>8. /\ src_cnt_d1' = n /\ src_cnt_d2' = m
      /\ read_ptr' = c.src_ptr /\ trsp_ptr' = c.src_ptr + c.src_ptr_inc_d1
      /\ read_ptr_valid' = c.src_ptr
      /\ pad_cnt_d1' = W /\ pad_cnt_d2' = c.pad_top + m + c.pad_bottom
      /\ dst_cnt_d1' = W /\ write_ptr' = c.dst_ptr
      /\ address_mode => addr_ptr_reg' = c.addr_ptr /\ addr_cnt' = n
  BY <1>2 DEF Cycle, ReadTick, SrcCounters, ReadPointers, LanePointer, PadTick, PadCounters,
              WriteTick, WritePointers, AddrTick
<1>9. /\ n \in Nat \ {0} /\ m \in Nat /\ W \in Nat \ {0}
      /\ c.src_ptr \in Int /\ c.src_ptr_inc_d1 \in Int /\ c.dst_ptr \in Int
      /\ c.src_ptr_inc_d2 \in Int /\ c.dst_ptr_inc_d1 \in Int /\ c.dst_ptr_inc_d2 \in Int
      /\ c.addr_ptr \in Int
  <2>1. n \in Nat \ {0} /\ c.pad_left \in Nat /\ c.pad_right \in Nat
        /\ W = c.pad_left + n + c.pad_right /\ m \in Nat
    BY <1>1, FrameRange DEF Suitable
  <2>2. W \in Nat \ {0}
    <3> HIDE DEF n, W
    <3> QED BY <2>1
  <2> QED BY <1>1, <2>1, <2>2, SourceRange
<1>10. Len(<< >>) = 0
  BY EmptySeq
<1>11. /\ S \in Int /\ T \in Int /\ S - ToRequest' = 0 /\ Framed' = 0
  <2>1. CASE conf_1d
    <3>1. c.dim_config = Dim1 /\ 0 < n /\ 0 \in Nat
      BY <1>9, <2>1 DEF conf_1d
    <3>2. S = n /\ T = n
      BY <1>1, <3>1, WordOfRow DEF SourceLen
    <3>3. W = n
      BY <1>1, <1>9, <3>1, FrameRange DEF Suitable
    <3>4. ToRequest' = n /\ ToFrame' = n
      BY <1>4, <1>8, <2>1, <3>3 DEF ToRequest, ToFrame
    <3> QED BY <1>5, <1>9, <3>2, <3>4 DEF Framed
  <2>2. CASE ~conf_1d
    <3>1. c.dim_config = Dim2
      BY <1>1, <2>2, FrameRange DEF conf_1d
    <3>2. Rows(c) = c.pad_top + m + c.pad_bottom /\ Rows(c) \in Nat \ {0} /\ m # 0
      BY <1>1, <3>1, FrameRange, SourceWhole DEF Suitable
    <3> DEFINE H == Rows(c)
    <3>3. S = m * n /\ T = W * H
      BY <3>1 DEF SourceLen, TotalLen, Dim1, Dim2
    <3>4. ToRequest' = (m - 1) * n + n /\ ToFrame' = (H - 1) * W + W
      BY <1>4, <1>8, <2>2, <3>2 DEF ToRequest, ToFrame, Rest
    <3>5. (m - 1) * n + n = m * n /\ m * n \in Int
      <4>1. m - 1 \in Nat /\ (m - 1) + 1 = m
        BY <1>9, <3>2
      <4>2. (m - 1 + 1) * n = (m - 1) * n + n
        BY <1>9, <4>1, RowLess
      <4> QED BY <1>9, <4>1, <4>2
    <3>6. (H - 1) * W + W = W * H /\ W * H \in Int
      <4>1. H - 1 \in Nat /\ (H - 1) + 1 = H
        BY <3>2
      <4>2. (H - 1 + 1) * W = (H - 1) * W + W
        BY <1>9, <4>1, RowLess
      <4> HIDE DEF W, H
      <4>3. H * W = W * H /\ W * H \in Int
        BY <1>9, <3>2 DEF H
      <4> QED BY <4>1, <4>2, <4>3
    <3>7. Framed' = T - ToFrame'
      BY <1>5 DEF Framed
    <3> HIDE DEF S, T
    <3> QED BY <3>3, <3>4, <3>5, <3>6, <3>7
  <2> QED BY <2>1, <2>2
<1>12. SourceAt(c, 0) = c.src_ptr
  <2>1. 0 \div n = 0 /\ 0 % n = 0
    BY <1>9
  <2> DEFINE z == (n - 1) * c.src_ptr_inc_d1 + c.src_ptr_inc_d2
  <2>2. z \in Int
    BY <1>9
  <2>3. 0 * z = 0 /\ 0 * c.src_ptr_inc_d1 = 0 /\ 0 * c.src_ptr_inc_d2 = 0
    <3> HIDE DEF z
    <3> QED BY <1>9, <2>2
  <2>4. SrcAddr(c, 0, 0) = c.src_ptr + 0 + 0
    BY <2>3 DEF SrcAddr
  <2> QED BY <1>9, <2>1, <2>4 DEF SourceAt
<1>13. SourceRead'
  <2>1. Requested' = 0 /\ Answered' = 0
    <3>1. Requested' = 0
      BY <1>5, <1>11 DEF Requested
    <3>2. Answered' = Requested' - Len(read_pending')
      BY DEF Answered
    <3>3. Answered' = 0 - 0
      BY <1>6, <1>10, <3>1, <3>2
    <3> QED BY <3>1, <3>3
  <2>2. c.src_ptr + (m - m + 1) * c.src_ptr_inc_d1 = c.src_ptr + c.src_ptr_inc_d1
    BY <1>9
  <2>3. \A i : i \notin 1 .. Len(read_fifo')
    BY <1>6, <1>10
  <2>4. n <= n /\ m <= m
    BY <1>9
  <2> QED BY <1>4, <1>5, <1>6, <1>8, <1>12, <2>1, <2>2, <2>3, <2>4 DEF SourceRead
<1>14. FrameWritten'
  <2>1. Len(out') = 0 /\ Len(write_fifo') = 0
    BY <1>6, <1>7, <1>10
  <2> QED BY <1>11, <2>1 DEF FrameWritten
<1>15. Pointed'
  <2>1. Len(out') = 0
    BY <1>7, <1>10
  <2>2. (0 + 1) - 1 = 0 /\ 0 \div W = 0 /\ 0 % W = 0 /\ W - 0 = W
    BY <1>9
  <2>3. ~address_mode => Target(c, 0 + 1) = c.dst_ptr
    <3> DEFINE z == (W - 1) * c.dst_ptr_inc_d1 + c.dst_ptr_inc_d2
    <3>1. z \in Int
      BY <1>9
    <3>2. 0 * z = 0 /\ 0 * c.dst_ptr_inc_d1 = 0
      <4> HIDE DEF z
      <4> QED BY <1>9, <3>1
    <3>3. ~address_mode => DstAddr(c, 0, 0) = c.dst_ptr + 0 + 0
      BY <3>2 DEF DstAddr, address_mode
    <3>4. Target(c, 0 + 1) = DstAddr(c, 0, 0)
      BY <2>2 DEF Target, ExpectedWrite
    <3> QED BY <1>9, <3>3, <3>4
  <2>4. \A i : Target(regs', i) = Target(c, i)
    BY <1>5 DEF Target
  <2> QED BY <1>4, <1>8, <2>1, <2>2, <2>3, <2>4 DEF Pointed
<1>16. Addressed'
  <2>1. c.addr_ptr + 4 * (n - n) = c.addr_ptr
    BY <1>9
  <2>2. \A i : i \notin 1 .. Len(addr_fifo')
    BY <1>6, <1>10
  <2> QED BY <1>4, <1>5, <1>6, <1>8, <2>1, <2>2 DEF Addressed, Listed
<1>17. ReadyMeansDelivered'
  BY <1>2 DEF ReadyMeansDelivered, ReadyForLaunch
<1> QED BY <1>2, <1>7, <1>13, <1>14, <1>15, <1>16, <1>17 DEF DeliveryInv

LEMMA DeliveryStep ==
    ASSUME SettingsSuit, TypeOK, FifosHaveRoom, DrainInv, DeliveryInv,
           NEW in \in BusInputs, NEW sw \in Accesses, Cycle(in, sw)
    PROVE  DeliveryInv'
<1>1. CASE dma_state = "READY"
  BY <1>1, ReadyDelivers
<1>2. CASE dma_state = "STARTING"
  BY <1>2, StartDelivers
<1>3. CASE dma_state = "RUNNING" /\ dma_done
  BY <1>3, DoneDelivers
<1>4. CASE dma_state = "RUNNING" /\ ~dma_done
  BY <1>4, RunDelivers
<1> QED BY <1>1, <1>2, <1>3, <1>4 DEF TypeOK

LEMMA DeliveryInvariant == SettingsSuit => (Spec => []DeliveryInv)
<1> SUFFICES ASSUME SettingsSuit
             PROVE  Spec => []DeliveryInv
  OBVIOUS
<1>1. Init => DeliveryInv
  <2> SUFFICES ASSUME Init PROVE out = Expected(regs) /\ dma_state # "RUNNING"
    BY DEF DeliveryInv, ReadyMeansDelivered
  <2>1. TotalLen(regs) = 0
    BY DEF Init, ResetRegs, TotalLen, RowLen, Rows
  <2>2. Expected(regs) = << >>
    BY <2>1, EmptySeq DEF Expected
  <2> QED BY <2>2 DEF Init
<1>2. TypeOK /\ FifosHaveRoom /\ DrainInv /\ DeliveryInv /\ [Next]_vars => DeliveryInv'
  <2>1. CASE UNCHANGED vars
    BY <2>1
       DEF vars, readVars, addrVars, padVars, writeVars, mainVars, DeliveryInv,
           SourceRead, FrameWritten, Pointed, Addressed, ReadyMeansDelivered,
           ReadyForLaunch, Requested, Answered, Taken, ToRequest, ToPush, ToFrame, Framed,
           conf_1d, conf_2d, address_mode, Listed
  <2> QED BY <2>1, DeliveryStep DEF Next
<1> QED BY <1>1, <1>2, TypeCorrect, FifoSafety, DrainInvariant, PTL DEF Spec

-----------------------------------------------------------------------------
(* A channel that reports ready has written exactly the words its          *)
(* registers asked for, each to its address, in order: for every size,     *)
(* increment, padding, FIFO depth, and every order of grants, answers,     *)
(* triggers and stops.                                                     *)
THEOREM DeliverySafety == SettingsSuit => (Spec => []ReadyMeansDelivered)
<1> SUFFICES ASSUME SettingsSuit
             PROVE  Spec => []ReadyMeansDelivered
  OBVIOUS
<1>1. Spec => []DeliveryInv
  BY DeliveryInvariant
<1>2. DeliveryInv => ReadyMeansDelivered
  BY DEF DeliveryInv
<1> QED BY <1>1, <1>2, PTL

(* The abstract transfer, instantiated, speaks of the same registers and    *)
(* of the same words as the channel.                                       *)
LEMMA SameTransfer ==
    /\ Transfer!ResetRegs = ResetRegs
    /\ Transfer!circular_mode <=> circular_mode
    /\ Transfer!TotalLen(regs) = TotalLen(regs)
    /\ \A n : Transfer!ExpectedWrite(regs, n) = ExpectedWrite(regs, n)
<1>1. Transfer!ResetRegs = ResetRegs
  BY DEF ResetRegs, Transfer!ResetRegs, Dim1, Transfer!Dim1
<1>2. Transfer!circular_mode <=> circular_mode
  BY DEF circular_mode, Transfer!circular_mode
<1>3. Transfer!RowLen(regs) = RowLen(regs) /\ Transfer!Rows(regs) = Rows(regs)
  BY DEF RowLen, Transfer!RowLen, Rows, Transfer!Rows, Dim1, Transfer!Dim1
<1>4. Transfer!TotalLen(regs) = TotalLen(regs)
  BY <1>3 DEF TotalLen, Transfer!TotalLen
<1>5. \A r, k : Transfer!SrcAddr(regs, r, k) = SrcAddr(regs, r, k)
  BY Zenon DEF SrcAddr, Transfer!SrcAddr, Dim2, Transfer!Dim2
<1>6. \A r, k : Transfer!DstAddr(regs, r, k) = DstAddr(regs, r, k)
  BY Zenon, <1>3 DEF DstAddr, Transfer!DstAddr
<1>7. \A n : Transfer!ExpectedWrite(regs, n) = ExpectedWrite(regs, n)
  BY Zenon, <1>3, <1>5, <1>6 DEF ExpectedWrite, Transfer!ExpectedWrite,
                                 Dim1, Transfer!Dim1, Zero, Transfer!Zero
<1> QED BY <1>1, <1>2, <1>4, <1>7

(* The pipeline is invisible from outside: every cycle of a channel is one *)
(* step of the transfer it promises, or none.                              *)
THEOREM Refinement == SettingsSuit => (Spec => ImplementsTransfer)
<1> SUFFICES ASSUME SettingsSuit
             PROVE  Spec => Transfer!Spec
  BY DEF ImplementsTransfer
<1>1. Init => Transfer!Init
  BY SameTransfer DEF Init, Transfer!Init, ReadyForLaunch
<1>2. ASSUME TypeOK, FifosHaveRoom, DrainInv, DeliveryInv,
             NEW in \in BusInputs, NEW sw \in Accesses, Cycle(in, sw)
      PROVE  Transfer!Next
  <2>1. AccessAllowed(sw) /\ RegsNext(sw) /\ MainFsm /\ StartPending(sw)
    BY <1>2 DEF Cycle
  <2>2. sw.op # "launch" => Transfer!ModeStep
    BY <2>1 DEF RegsNext, Transfer!ModeStep
  <2>3. dma_state \in {"READY", "STARTING", "RUNNING"} /\ start_pending \in BOOLEAN
    BY <1>2 DEF TypeOK
  <2>4. CASE ReadyForLaunch /\ sw.op = "launch"
    <3>1. regs' \in Configs
      BY <2>1, <2>4 DEF RegsNext, Accesses, NoAccess, LaunchOps, OtherOps
    <3>2. dma_state' = "READY" /\ start_pending'
      BY <2>1, <2>4 DEF MainFsm, StartPending, ReadyForLaunch, dma_start
    <3>3. out' = out
      BY <1>2, <2>4, ReadyDelivers DEF ReadyForLaunch
    <3>4. Transfer!Launch
      BY <2>4, <3>1, <3>2, <3>3 DEF Transfer!Launch, ReadyForLaunch
    <3> QED BY <3>4 DEF Transfer!Next
  <2>5. CASE ReadyForLaunch /\ sw.op # "launch"
    <3>1. dma_state' = "READY" /\ ~start_pending'
      BY <2>1, <2>5 DEF MainFsm, StartPending, ReadyForLaunch, dma_start
    <3>2. out' = out
      BY <1>2, <2>5, ReadyDelivers DEF ReadyForLaunch
    <3>3. Transfer!Idle
      BY <2>5, <3>1, <3>2 DEF Transfer!Idle, ReadyForLaunch
    <3> QED BY <2>2, <2>5, <3>3 DEF Transfer!Next
  <2>6. CASE dma_state = "READY" /\ start_pending
    <3>1. sw.op # "launch" /\ dma_state' = "STARTING"
      BY <2>1, <2>6 DEF AccessAllowed, ReadyForLaunch, MainFsm
    <3>2. out' = out
      BY <1>2, <2>6, ReadyDelivers
    <3>3. Transfer!Idle
      BY <2>6, <3>1, <3>2 DEF Transfer!Idle, ReadyForLaunch
    <3> QED BY <2>2, <3>1, <3>3 DEF Transfer!Next
  <2>7. CASE dma_state = "STARTING"
    <3>1. sw.op # "launch" /\ dma_state' = "RUNNING"
      BY <2>1, <2>7 DEF AccessAllowed, ReadyForLaunch, MainFsm
    <3>2. out' = << >>
      BY <1>2, <2>7, StartDelivers
    <3>3. Transfer!Start
      BY <2>7, <3>1, <3>2 DEF Transfer!Start, ReadyForLaunch
    <3> QED BY <2>2, <3>1, <3>3 DEF Transfer!Next
  <2>8. CASE dma_state = "RUNNING" /\ ~dma_done
    <3>1. sw.op # "launch" /\ dma_state' = "RUNNING"
      BY <2>1, <2>8 DEF AccessAllowed, ReadyForLaunch, MainFsm
    <3>2. out' = IF in.wgnt THEN Append(out, ExpectedWrite(regs, Len(out) + 1)) ELSE out
      BY <1>2, <2>8, WrittenRun DEF DeliveryInv
    <3>3. CASE in.wgnt
      <4>1. Len(out) < TotalLen(regs)
        <5>1. write_fifo # << >> \/ pad_push
          BY <1>2, <3>3 DEF Cycle, BusAllowed, data_out_req, write_fifo_empty
        <5> QED BY <1>2, <2>8, <5>1, OutputWord DEF DeliveryInv
      <4>2. Transfer!Write
        <5>1. Len(out) < Transfer!TotalLen(regs)
          BY <4>1, SameTransfer
        <5>2. out' = Append(out, Transfer!ExpectedWrite(regs, Len(out) + 1))
          BY Zenon, <3>2, <3>3, SameTransfer
        <5>3. (CASE dma_state = "RUNNING" -> "busy"
                 [] ReadyForLaunch -> "idle"
                 [] OTHER -> "armed") = "busy"
          BY <2>8 DEF ReadyForLaunch
        <5>4. UNCHANGED CASE dma_state = "RUNNING" -> "busy"
                          [] ReadyForLaunch -> "idle"
                          [] OTHER -> "armed"
          BY <2>8, <3>1 DEF ReadyForLaunch
        <5> QED BY Zenon, <5>1, <5>2, <5>3, <5>4 DEF Transfer!Write
      <4> QED BY <2>2, <3>1, <4>2 DEF Transfer!Next
    <3>4. CASE ~in.wgnt
      <4>1. Transfer!Idle
        BY <2>8, <3>1, <3>2, <3>4 DEF Transfer!Idle
      <4> QED BY <2>2, <3>1, <4>1 DEF Transfer!Next
    <3> QED BY <3>3, <3>4
  <2>9. CASE dma_state = "RUNNING" /\ dma_done
    <3>1. sw.op # "launch" /\ ~start_pending
      BY <1>2, <2>1, <2>9 DEF AccessAllowed, ReadyForLaunch, DeliveryInv
    <3>2. Len(out) = TotalLen(regs) /\ out' = out
      BY <1>2, <2>9, DoneDelivers
    <3>3. /\ dma_state' = IF circular_mode THEN "STARTING" ELSE "READY"
          /\ ~start_pending'
      BY <2>1, <2>9, <3>1 DEF MainFsm, StartPending, dma_start
    <3>4. Transfer!Finish
      BY <2>9, <3>2, <3>3, SameTransfer DEF Transfer!Finish, ReadyForLaunch
    <3> QED BY <2>2, <3>1, <3>4 DEF Transfer!Next
  <2> QED BY <2>3, <2>4, <2>5, <2>6, <2>7, <2>8, <2>9 DEF ReadyForLaunch
<1>3. TypeOK /\ FifosHaveRoom /\ DrainInv /\ DeliveryInv /\ Next => Transfer!Next
  BY <1>2 DEF Next
<1>4. UNCHANGED vars =>
        UNCHANGED << regs, CASE dma_state = "RUNNING" -> "busy"
                             [] ReadyForLaunch -> "idle"
                             [] OTHER -> "armed", out >>
  BY DEF vars, mainVars, ReadyForLaunch
<1> QED
  BY <1>1, <1>3, <1>4, TypeCorrect, FifoSafety, DrainInvariant, DeliveryInvariant, PTL
     DEF Spec, Transfer!Spec
=============================================================================
