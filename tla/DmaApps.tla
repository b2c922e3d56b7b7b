------------------------------ MODULE DmaApps -------------------------------
(***************************************************************************)
(* The programs that ship with the DMA: the matrix examples                *)
(* (example_dma_2d, example_dma_multichannel), the modes of example_dma,   *)
(* the DMA SDK, and im2col done by the DMA and by its smart peripheral     *)
(* controller.  A program computes pointers, increments and paddings,      *)
(* hands them to channels, waits, and compares what it finds in memory     *)
(* with a loop on the processor.                                           *)
(*                                                                         *)
(* The channels perform what DmaRegs says of a register setting (DmaChannel*)
(* is shown to), one write per round each: they share a bus that arbitrates*)
(* round robin.  A setting with zeros above or to the left only, which     *)
(* DmaChannel is not shown to perform, may lose its last word.  An address *)
(* is in bytes, memory is in words; a word of the input holds its own      *)
(* number, a zero is 0.                                                    *)
(***************************************************************************)
EXTENDS Integers, Sequences, FiniteSets, TLC

CONSTANTS
    Programs,       \* the names of the programs to run
    Matrices,       \* the macros of the matrix examples
    Convolutions,   \* the macros of im2col_input.h
    Lengths,        \* TEST_DATA_SIZE and the sizes of the SDK's callers
    TEST_DATA_FLASH_SIZE,
    SpiPeriod,      \* writes of another channel for each word from the SPI
    DMA_CH_NUM

ASSUME AppsAssumption ==
    /\ DMA_CH_NUM \in Nat \ {0}
    /\ Lengths \subseteq Nat \ {0}
    /\ TEST_DATA_FLASH_SIZE \in Nat \ {0} /\ SpiPeriod \in Nat \ {0}
    /\ \A s \in Matrices :
         /\ s.SIZE_EXTR_D1 > 0 /\ s.SIZE_EXTR_D2 > 0
         /\ s.STRIDE_IN_D1 * (s.SIZE_EXTR_D1 - 1) < s.SIZE_IN_D1
         /\ s.STRIDE_IN_D2 * (s.SIZE_EXTR_D2 - 1) < s.SIZE_IN_D2
    /\ \A s \in Convolutions : s.FW <= s.IW /\ s.FH <= s.IH

Channels == 0 .. DMA_CH_NUM - 1

VARIABLES
    app,        \* the program that runs and its macros
    pc,         \* "run", the steps of a wait ("clear", "test", "wfi",
                \* "asleep", "set"), "cpu", "verify", "passed", "failed"
    step,       \* the next command of the program
    rejected,   \* DMA_CONFIG_CRITICAL_ERROR in the object of the program
    regs,       \* the registers of each channel
    left,       \* writes that each channel has still to do
    mem,        \* memory, in words
    lost,       \* words of memory that should have got a word and got a zero
    irq,        \* interrupts that are up, <<channel, "transaction" | "window">>
    flags,      \* accepted launches, ends reported, transaction_flag and
                \* window_flag per channel, rounds since a word from the SPI
    loop,       \* the counters of the loop on the processor
    cpu         \* copied_data_2D_CPU, one buffer per channel

vars == << app, pc, step, rejected, regs, left, mem, lost, irq, flags, loop, cpu >>

(* Nothing here depends on the depth of the FIFOs.                         *)
Dma(c) == INSTANCE DmaRegs WITH Depth <- 4, Configs <- {}, regs <- regs[c]

WORD == 4       \* DMA_DATA_TYPE_2_SIZE(DMA_DATA_TYPE_WORD)

-----------------------------------------------------------------------------
(* The macros of the matrix examples.                                      *)

OUT_D1_PAD(s) == s.SIZE_EXTR_D1 + s.LEFT_PAD + s.RIGHT_PAD
OUT_D2_PAD(s) == s.SIZE_EXTR_D2 + s.TOP_PAD + s.BOTTOM_PAD
OUT_D1_PAD_STRIDE(s) == OUT_D1_PAD(s) * s.STRIDE_OUT_D1 - (s.STRIDE_OUT_D1 - 1)
OUT_D2_PAD_STRIDE(s) == OUT_D2_PAD(s) * s.STRIDE_OUT_D2 - (s.STRIDE_OUT_D2 - 1)
OUT_DIM_2D(s) == OUT_D1_PAD_STRIDE(s) * OUT_D2_PAD_STRIDE(s)

SRC_INC_D2(s) ==
    s.STRIDE_IN_D2 * s.SIZE_IN_D1
      - (s.SIZE_EXTR_D1 - 1 + (s.STRIDE_IN_D1 - 1) * (s.SIZE_EXTR_D1 - 1))


(* Mutant: the increment is taken from the first element of a row.         *)
DST_INC_D2_whole_row(s) == s.STRIDE_OUT_D2 * OUT_D1_PAD_STRIDE(s)

DST_INC_D2(s) == (s.STRIDE_OUT_D2 - 1) * OUT_D1_PAD_STRIDE(s) + 1
SRC_INC_TRSP_D2(s) == s.STRIDE_IN_D2 * s.SIZE_IN_D1

(* The macros of im2col_lib.h.                                             *)
N_PATCHES_H(s) == (s.IH + s.TOP_PAD + s.BOTTOM_PAD - s.FH) \div s.STRIDE_D2 + 1
N_PATCHES_W(s) == (s.IW + s.RIGHT_PAD + s.LEFT_PAD - s.FW) \div s.STRIDE_D1 + 1
ADPT_PAD_BOTTOM(s) == s.STRIDE_D2 * (N_PATCHES_H(s) - 1) + s.FH - (s.TOP_PAD + s.IH)
ADPT_PAD_RIGHT(s) == s.STRIDE_D1 * (N_PATCHES_W(s) - 1) + s.FW - (s.LEFT_PAD + s.IW)
CH_COL(s) == s.CH * s.FH * s.FW
OW_NCHW(s) == N_PATCHES_H(s) * N_PATCHES_W(s)
OH_NCHW(s) == CH_COL(s) * s.BATCH

-----------------------------------------------------------------------------
(* Where a program keeps its data: the input, then one output per channel. *)

(* After those of example_dma_2d, one that copies a matrix with the driver *)
(* and then a row with the SDK, on the same channel.                       *)
Matrix2d == {"copy2d", "transpose2d", "row1d", "regs2d", "mixed"}
Multichannel == {"mc_regs", "mc_hal", "mc_alternate"} \cup
                    (IF DMA_CH_NUM > 1 THEN {"mc_spi"} ELSE {})
Im2col == {"im2col_dma", "im2col_spc"}
Modes == {"address", "address_external", "pending", "window"}
SdkCalls == {"copy", "fill", "to_addr"}

(* A transfer whose rows are all padding has no elements: the driver       *)
(* rejects it, the controller would wait for its end for ever.             *)
NoEmptyTransfer(s) ==
    /\ s.IW + s.RIGHT_PAD - s.FW >= 0 /\ s.STRIDE_D1 * (N_PATCHES_W(s) - 1) >= s.LEFT_PAD
    /\ s.IH + s.BOTTOM_PAD - s.FH >= 0 /\ s.STRIDE_D2 * (N_PATCHES_H(s) - 1) >= s.TOP_PAD

Apps == { a \in [ name : Matrix2d \cup Multichannel, s : Matrices ]
                   \cup [ name : {"im2col_dma"}, s : Convolutions ]
                   \cup [ name : {"im2col_spc"},
                          s : { s \in Convolutions : NoEmptyTransfer(s) } ]
                   \cup [ name : Modes \cup {"sdk_example"}, s : Lengths ]
                   \cup [ name : {"sdk"}, s : Lengths, calls : SdkCalls \X SdkCalls ] :
            a.name \in Programs }

InSize ==
    CASE app.name \in Matrix2d \cup Multichannel -> app.s.SIZE_IN_D1 * app.s.SIZE_IN_D2
      [] app.name \in Im2col -> app.s.BATCH * app.s.CH * app.s.IH * app.s.IW
      [] OTHER -> app.s

OutSize == CASE app.name = "row1d" -> OUT_D1_PAD_STRIDE(app.s)
             [] app.name = "mixed" -> OUT_DIM_2D(app.s) + app.s.SIZE_IN_D1
             [] app.name = "sdk" -> 4 * app.s
             [] app.name \in Multichannel \cup Matrix2d -> OUT_DIM_2D(app.s)
             [] app.name \in Im2col -> OH_NCHW(app.s) * OW_NCHW(app.s)
             [] OTHER -> 2 * app.s

Input == 0 .. InSize - 1
OutBase(c) == InSize + c * OutSize
Output(c) == OutBase(c) .. OutBase(c) + OutSize - 1
Out(c) == OutBase(c) * WORD     \* as an address

-----------------------------------------------------------------------------
(* What the programs write into the registers of a channel.                *)

Cleared ==      \* dma_init
    [ mode |-> "LINEAR", dim_config |-> 1, dim_inv |-> FALSE,
      size_d1 |-> 0, size_d2 |-> 0, src_ptr |-> 0, dst_ptr |-> 0, addr_ptr |-> 0,
      src_ptr_inc_d1 |-> 0, src_ptr_inc_d2 |-> 0,
      dst_ptr_inc_d1 |-> 0, dst_ptr_inc_d2 |-> 0,
      pad_top |-> 0, pad_bottom |-> 0, pad_left |-> 0, pad_right |-> 0,
      window_size |-> 0 ]

(* dma_load_transaction and dma_launch of a matrix of words: increments    *)
(* are given in data units and written in bytes, a window of 0 is the size.*)
(* Everything here fits its field (DmaHal has the masks).                  *)
Programmed(src, inc1, inc2, dst, out1, out2, d1, d2, pads, inv) ==
    [ mode |-> "LINEAR", dim_config |-> 2, dim_inv |-> inv,
      size_d1 |-> d1, size_d2 |-> d2, src_ptr |-> src, dst_ptr |-> dst,
      src_ptr_inc_d1 |-> inc1 * WORD, src_ptr_inc_d2 |-> inc2 * WORD,
      dst_ptr_inc_d1 |-> out1 * WORD, dst_ptr_inc_d2 |-> out2 * WORD,
      pad_top |-> pads.top, pad_bottom |-> pads.bottom,
      pad_left |-> pads.left, pad_right |-> pads.right, window_size |-> d1 ]

PadsOf(s) == [ top |-> s.TOP_PAD, bottom |-> s.BOTTOM_PAD,
               left |-> s.LEFT_PAD, right |-> s.RIGHT_PAD ]

(* Copy and frame a matrix, through the driver.                            *)
test_copy(s, c) ==
    Programmed(0, s.STRIDE_IN_D1, SRC_INC_D2(s), Out(c), s.STRIDE_OUT_D1, DST_INC_D2(s),
               s.SIZE_EXTR_D1, s.SIZE_EXTR_D2, PadsOf(s), FALSE)

(* The transposed matrix.  Its second increment is a whole row.            *)
test_transpose(s, c) ==
    Programmed(0, s.STRIDE_IN_D1, SRC_INC_TRSP_D2(s), Out(c), s.STRIDE_OUT_D1, DST_INC_D2(s),
               s.SIZE_EXTR_D1, s.SIZE_EXTR_D2, PadsOf(s), TRUE)

(* One row.  The driver makes a padded row a matrix of one row, and leaves *)
(* the second increment of the destination, which is not used, at 0.       *)
test_row(s, c) ==
    IF s.LEFT_PAD # 0 \/ s.RIGHT_PAD # 0
    THEN Programmed(0, s.STRIDE_IN_D1, WORD, Out(c), s.STRIDE_OUT_D1, 0, s.SIZE_EXTR_D1, 1,
                    [ PadsOf(s) EXCEPT !.top = 0, !.bottom = 0 ], FALSE)
    ELSE [ src_ptr |-> 0, dst_ptr |-> Out(c), dim_config |-> 1, size_d1 |-> s.SIZE_EXTR_D1,
           src_ptr_inc_d1 |-> s.STRIDE_IN_D1 * WORD,
           dst_ptr_inc_d1 |-> s.STRIDE_OUT_D1 * WORD, window_size |-> s.SIZE_EXTR_D1 ]

(* The same matrix with the registers written one by one, which leaves the *)
(* window at 0.                                                            *)
test_registers(s, c) == [ test_copy(s, c) EXCEPT !.window_size = 0 ]

(* The examples with several channels: each copies the matrix to a buffer  *)
(* of its own.  The first writes the registers itself, with a window; the  *)
(* others use the driver, the last with every other channel transposing.   *)
(* The window is at most the number of writes; the check of the source     *)
(* (OUT_DIM_2D) also counts the words that an output stride skips.         *)
DMA_WINDOW_SIZE(s) == OUT_D1_PAD(s) * OUT_D2_PAD(s)

channels_registers(s, c) == [ test_copy(s, c) EXCEPT !.window_size = DMA_WINDOW_SIZE(s) ]

channels_copy(s, c) == test_copy(s, c)

channels_alternate(s, c) == IF c % 2 = 0 THEN test_copy(s, c) ELSE test_transpose(s, c)

(* The last reads the flash with channel 0, each word when the SPI has it, *)
(* and copies the matrix with channel 1 meanwhile.  The flash must have    *)
(* more to give than the matrix takes (the source: "since the SPI will be  *)
(* slower than the DMA").                                                  *)
RXDATA == -WORD

spi_read(c) ==
    [ mode |-> "LINEAR", dim_config |-> 1, size_d1 |-> TEST_DATA_FLASH_SIZE,
      src_ptr |-> RXDATA, dst_ptr |-> Out(c), src_ptr_inc_d1 |-> 0, dst_ptr_inc_d1 |-> WORD,
      window_size |-> TEST_DATA_FLASH_SIZE ]

FlashWord(i) == 100 + i

(* example_dma: n words to every other word of the destination, whose      *)
(* addresses are in a table; n words in a row.                             *)
AddressMode(n, c) ==
    [ mode |-> "ADDRESS", dim_config |-> 1, size_d1 |-> n, src_ptr |-> 0,
      addr_ptr |-> Out(c), src_ptr_inc_d1 |-> WORD, window_size |-> n ]

SingleMode(n, c, w) ==
    [ mode |-> "LINEAR", dim_config |-> 1, size_d1 |-> n, src_ptr |-> 0, dst_ptr |-> Out(c),
      src_ptr_inc_d1 |-> WORD, dst_ptr_inc_d1 |-> WORD, window_size |-> w ]

(* The macros of the SDK, each with the size that starts the channel.      *)
DMA_COPY(dst, src, n) ==
    [ src_ptr |-> src, dst_ptr |-> dst, src_ptr_inc_d1 |-> WORD, dst_ptr_inc_d1 |-> WORD,
      mode |-> "LINEAR", size_d1 |-> n ]

DMA_FILL(dst, value, n) ==
    [ src_ptr |-> value, dst_ptr |-> dst, src_ptr_inc_d1 |-> 0, dst_ptr_inc_d1 |-> WORD,
      mode |-> "LINEAR", size_d1 |-> n ]

DMA_COPY_ADDR(addr, src, n) ==
    [ src_ptr |-> src, src_ptr_inc_d1 |-> WORD, addr_ptr |-> addr, mode |-> "ADDRESS",
      size_d1 |-> n ]

-----------------------------------------------------------------------------
(* im2col.  Row c of the output, for image b, is one transfer: the pixels  *)
(* that the filter's pixel c meets at every patch, with zeros around.      *)

get_index(dim1, dim2, dim3, i0, i1, i2, i3) == ((i0 * dim1 + i1) * dim2 + i2) * dim3 + i3

(* C divides towards zero.                                                 *)
Quotient(a, b) == IF a >= 0 THEN a \div b ELSE -((-a) \div b)
Rounded(a, b) == IF a % b = 0 THEN Quotient(a, b) ELSE Quotient(a, b) + 1

(* Zeros before the image, for an offset in the filter.                    *)
ZerosBefore(offset, pad, stride) ==
    IF offset >= pad THEN 0 ELSE Rounded(pad - offset, stride)

(* Zeros after it: adpt is the part of the padding that the filter reaches.*)
ZerosAfter(remaining, pad, adpt, stride) ==
    IF remaining >= pad \/ adpt = 0 THEN 0 ELSE Rounded(adpt - remaining, stride)

ConvPads(s, w_offset, h_offset) ==
    [ left |-> ZerosBefore(w_offset, s.LEFT_PAD, s.STRIDE_D1),
      top |-> ZerosBefore(h_offset, s.TOP_PAD, s.STRIDE_D2),
      right |-> ZerosAfter(s.FW - 1 - w_offset, s.RIGHT_PAD, ADPT_PAD_RIGHT(s), s.STRIDE_D1),
      bottom |-> ZerosAfter(s.FH - 1 - h_offset, s.BOTTOM_PAD, ADPT_PAD_BOTTOM(s), s.STRIDE_D2) ]

(* The counters w_offset, h_offset and im_c step through these values.     *)
im2col_transfer(s, c, b) ==
    LET w_offset == c % s.FW
        h_offset == (c \div s.FW) % s.FH
        im_c == c \div (s.FH * s.FW)
        pads == ConvPads(s, w_offset, h_offset)
        d1 == N_PATCHES_W(s) - pads.left - pads.right
        d2 == N_PATCHES_H(s) - pads.top - pads.bottom
        index == get_index(s.CH, s.IH, s.IW, b, im_c,
                           h_offset - s.TOP_PAD + pads.top * s.STRIDE_D2,
                           w_offset - s.LEFT_PAD + pads.left * s.STRIDE_D1)
    IN  Programmed(index * WORD, s.STRIDE_D1,
                   s.STRIDE_D2 * s.IW - (d1 - 1 + (s.STRIDE_D1 - 1) * (d1 - 1)),
                   Out(0) + (c * s.BATCH + b) * OW_NCHW(s) * WORD, 1, 1, d1, d2, pads, FALSE)

(* The controller does the same with shifts and in 8 bits; the driver gives*)
(* it the strides as logarithms, rounded down.                             *)
Log2(n) == CHOOSE k \in 0 .. n : 2^k <= n /\ n < 2^(k + 1)

SpcRounded(a, shift) == ((a % 256) \div 2^shift) + (IF a % (2^shift) # 0 THEN 1 ELSE 0)

spc_zeros_before(offset, pad, shift) ==
    IF offset >= pad THEN 0 ELSE SpcRounded(pad - offset, shift)

spc_zeros_after(remaining, pad, adpt, shift) ==
    IF remaining >= pad \/ adpt = 0 THEN 0 ELSE SpcRounded(adpt - remaining, shift)

spc_transfer(s, c, b) ==
    LET s1 == Log2(s.STRIDE_D1)
        s2 == Log2(s.STRIDE_D2)
        w_offset == c % s.FW
        h_offset == (c \div s.FW) % s.FH
        im_c == c \div (s.FH * s.FW)
        pads == [ left |-> spc_zeros_before(w_offset, s.LEFT_PAD, s1),
                  top |-> spc_zeros_before(h_offset, s.TOP_PAD, s2),
                  right |-> spc_zeros_after(s.FW - 1 - w_offset, s.RIGHT_PAD,
                                            ADPT_PAD_RIGHT(s), s1),
                  bottom |-> spc_zeros_after(s.FH - 1 - h_offset, s.BOTTOM_PAD,
                                             ADPT_PAD_BOTTOM(s), s2) ]
        d1 == N_PATCHES_W(s) - pads.left - pads.right
        d2 == N_PATCHES_H(s) - pads.top - pads.bottom
        row == (b * s.CH + im_c) * s.IH + h_offset - s.TOP_PAD + pads.top * 2^s2
        index == row * s.IW + w_offset - s.LEFT_PAD + pads.left * 2^s1
    IN  Programmed(index * WORD, 2^s1, s.IW * 2^s2 - (d1 - 1) * 2^s1,
                   Out(0) + (c * s.BATCH + b) * OW_NCHW(s) * WORD, 1, 1, d1, d2, pads, FALSE)

(* im2col on the processor: the pixel of the output at i.                  *)
im2col_cpu(s, i) ==
    LET w == i % N_PATCHES_W(s)
        h == (i \div N_PATCHES_W(s)) % N_PATCHES_H(s)
        cb == i \div OW_NCHW(s)
        c == cb \div s.BATCH
        im_row == ((c \div s.FW) % s.FH) + h * s.STRIDE_D2 - s.TOP_PAD
        im_col == (c % s.FW) + w * s.STRIDE_D1 - s.LEFT_PAD
    IN  IF im_row < 0 \/ im_col < 0 \/ im_row >= s.IH \/ im_col >= s.IW
        THEN 0
        ELSE 1 + get_index(s.CH, s.IH, s.IW, cb % s.BATCH, c \div (s.FH * s.FW), im_row, im_col)

-----------------------------------------------------------------------------
(* A program is a sequence of commands: write registers of a channel, start*)
(* it, wait until it is ready.                                             *)

Load(c, w) == [ op |-> "load", c |-> c, write |-> w ]
Launch(c) == [ op |-> "launch", c |-> c ]
Wait(c) == [ op |-> "wait", c |-> c ]          \* interrupts off around wfi
WaitOpen(c) == [ op |-> "wait_open", c |-> c ]  \* interrupts on
WaitEnds == [ op |-> "wait_ends" ]
Poll(c) == [ op |-> "poll", c |-> c ]           \* no wfi

run_dma(c, w) == << Load(c, w), Launch(c), Wait(c) >>

EachChannel(F(_)) == [ i \in 1 .. DMA_CH_NUM |-> F(i - 1) ]

Transfers(s, T(_, _, _), WaitFor(_)) ==
    LET n == OH_NCHW(s)
        job(i) == T(s, (i - 1) \div (3 * s.BATCH), ((i - 1) \div 3) % s.BATCH)
    IN  [ i \in 1 .. 3 * n |->
            << Load(0, job(i)), Launch(0), WaitFor(0) >>[1 + ((i - 1) % 3)] ]

(* example_dma_2d: one transfer each.                                      *)
RunCopy(s) == run_dma(0, test_copy(s, 0))
RunTranspose(s) == run_dma(0, test_transpose(s, 0))
RunRow(s) == run_dma(0, test_row(s, 0))
RunRegisters(s) == run_dma(0, test_registers(s, 0))

(* example_dma_multichannel: loads all channels, launches them, and polls  *)
(* the last (as it measures time, EN_PERF, it has no wfi); the second test *)
(* also launches each one as it is loaded.                                 *)
AllThenLast(Job(_)) ==
    EachChannel(LAMBDA c : Load(c, Job(c))) \o EachChannel(Launch) \o << Poll(DMA_CH_NUM - 1) >>

RunChannelsRegisters(s) == AllThenLast(LAMBDA c : channels_registers(s, c))

RunTwoLaunches(s) ==
    [ i \in 1 .. 2 * DMA_CH_NUM |->
        LET c == (i - 1) \div 2
        IN  IF (i % 2) = 1 THEN Load(c, channels_copy(s, c)) ELSE Launch(c) ]
    \o EachChannel(Launch) \o << Poll(DMA_CH_NUM - 1) >>

RunChannelsAlternate(s) == AllThenLast(LAMBDA c : channels_alternate(s, c))

RunSpiAndCopy(s) ==
    << Load(0, spi_read(0)), Launch(0), Load(1, channels_copy(s, 1)), Launch(1), Poll(0) >>

(* im2col_nchw_int32, with the driver and with the controller, which does  *)
(* all transfers while the program waits for its one interrupt.            *)
RunIm2col(s) == Transfers(s, im2col_transfer, Wait)
im2col_spc_run(s) == Transfers(s, spc_transfer, Poll)
RunSpc(s) == [ im2col_spc_run(s) EXCEPT ![3 * OH_NCHW(s)] = WaitOpen(0) ]

(* example_dma.  The launches of a busy channel are refused.               *)
RunAddress(n) == run_dma(0, AddressMode(n, 0))
RunPending(n) ==
    LET again == << Load(0, SingleMode(n, 0, n)), Launch(0) >>
    IN  again \o again \o again \o << WaitEnds >>
RunWindow(n) == << Load(0, SingleMode(n, 0, n)), Launch(0), WaitOpen(0) >>

(* The functions of the SDK; example_dma_sdk fills a buffer and copies it. *)
dma_copy(dst, src, n) == run_dma(0, DMA_COPY(dst, src, n))
dma_fill(dst, value, n) == run_dma(0, DMA_FILL(dst, value, n))
dma_copy_to_addr(addr, src, n) == run_dma(0, DMA_COPY_ADDR(addr, src, n))
RunSdkExample(n) == dma_fill(Out(0), 0, n) \o dma_copy(Out(0) + n * WORD, Out(0), n)

(* Any two of them on one channel: the second finds the registers that the *)
(* first has left.                                                         *)
RunCall(call, dst, n) == CASE call = "copy" -> dma_copy(dst, 0, n)
                           [] call = "fill" -> dma_fill(dst, 0, n)
                           [] call = "to_addr" -> dma_copy_to_addr(dst, 0, n)
RunSdk(n, calls) == RunCall(calls[1], Out(0), n) \o RunCall(calls[2], Out(0) + 2 * n * WORD, n)

RunMixed(s) ==
    RunCopy(s) \o dma_copy(Out(0) + OUT_DIM_2D(s) * WORD, 0, s.SIZE_IN_D1)

Script ==
    LET s == app.s
    IN  CASE app.name = "copy2d" -> RunCopy(s)
          [] app.name = "transpose2d" -> RunTranspose(s)
          [] app.name = "row1d" -> RunRow(s)
          [] app.name = "regs2d" -> RunRegisters(s)
          [] app.name = "mc_regs" -> RunChannelsRegisters(s)
          [] app.name = "mc_hal" -> RunTwoLaunches(s)
          [] app.name = "mc_alternate" -> RunChannelsAlternate(s)
          [] app.name = "mc_spi" -> RunSpiAndCopy(s)
          [] app.name = "im2col_dma" -> RunIm2col(s)
          [] app.name = "im2col_spc" -> RunSpc(s)
          [] app.name \in {"address", "address_external"} -> RunAddress(s)
          [] app.name = "pending" -> RunPending(s)
          [] app.name = "window" -> RunWindow(s)
          [] app.name = "sdk_example" -> RunSdkExample(s)
          [] app.name = "sdk" -> RunSdk(s, app.calls)
          [] app.name = "mixed" -> RunMixed(s)

-----------------------------------------------------------------------------
InUse == IF app.name = "mc_spi" THEN {0, 1}
         ELSE IF app.name \in Multichannel THEN Channels ELSE {0}

(* The first channel whose output the loop on the processor computes.      *)
FirstComputed == IF app.name = "mc_spi" THEN 1 ELSE 0

LoopStart(c) ==
    [ c |-> c, i |-> 0, j |-> 0, i_in |-> 0, j_in |-> 0,
      left_pad_cnt |-> 0, top_pad_cnt |-> 0, stride_1d_cnt |-> 0, stride_2d_cnt |-> 0 ]

AppsInit ==
    /\ app \in Apps
    /\ pc = "run" /\ step = 1 /\ rejected = FALSE
    /\ regs = [ c \in Channels |-> Cleared ]
    /\ left = [ c \in Channels |-> 0 ]
    /\ mem = [ i \in 0 .. OutBase(Cardinality(InUse)) - 1 |-> IF i \in Input THEN i + 1 ELSE 0 ]
    /\ lost = {} /\ irq = {}
    /\ flags = [ accepted |-> 0, ends |-> 0, transaction |-> [ c \in Channels |-> FALSE ],
                 window |-> [ c \in Channels |-> FALSE ], spi |-> 1 ]
    /\ loop = LoopStart(FirstComputed)
    /\ cpu = [ c \in InUse |-> [ i \in 0 .. OutSize - 1 |-> 0 ] ]

dma_is_ready(c) == left[c] = 0

Command == Script[step]

(* On to the next command; after the last, to the loop on the processor.   *)
Advance ==
    /\ step' = step + 1
    /\ pc' = IF step < Len(Script) THEN "run"
             ELSE IF app.name \in Matrix2d \cup Multichannel THEN "cpu" ELSE "verify"

(* dma_validate_transaction and dma_load_transaction.  The object of im2col*)
(* is one for all its transfers: once one was rejected, every later one is *)
(* (the flag is looked at before it is cleared).  A busy channel is not    *)
(* loaded.                                                                 *)
Empty(r) == r.size_d1 = 0 \/ (r.dim_config = 2 /\ r.size_d2 = 0)

LoadStep ==
    /\ pc = "run" /\ Command.op = "load"
    /\ LET loaded == Command.write @@ regs[Command.c] IN
         /\ rejected' = (rejected \/ Empty(loaded))
         /\ regs' = IF ~rejected' /\ dma_is_ready(Command.c)
                    THEN [ regs EXCEPT ![Command.c] = loaded ] ELSE regs
    /\ Advance
    /\ UNCHANGED << app, left, mem, lost, irq, flags, loop, cpu >>

(* A busy channel is not launched, nor is an object that was not loaded.   *)
LaunchStep ==
    /\ pc = "run" /\ Command.op = "launch"
    /\ LET c == Command.c IN
         IF dma_is_ready(c) /\ ~rejected
         THEN /\ left' = [ left EXCEPT ![c] = Dma(c)!TotalLen(regs[c]) ]
              /\ flags' = [ flags EXCEPT !.accepted = @ + 1 ]
         ELSE UNCHANGED << left, flags >>
    /\ Advance
    /\ UNCHANGED << app, rejected, regs, mem, lost, irq, loop, cpu >>

Quiet == UNCHANGED << app, rejected, regs, left, mem, lost, flags, loop, cpu >>

(* What a wait asks for before it sleeps.                                  *)
Awaited == IF Command.op = "wait_ends" THEN flags.ends >= flags.accepted
                                       ELSE dma_is_ready(Command.c)

(* The loop of a wait: test, and unless it holds, with interrupts off, test*)
(* again and sleep.  Two programs, and the one that waits for the          *)
(* controller, sleep at once; some poll.                                   *)
WaitStep ==
    /\ pc = "run" /\ Command.op \in {"wait", "wait_open", "wait_ends", "poll"}
    /\ \/ Awaited /\ Advance
       \/ /\ ~Awaited /\ Command.op # "poll"
          /\ pc' = IF Command.op = "wait" THEN "clear" ELSE "wfi"
          /\ UNCHANGED step
    /\ UNCHANGED irq /\ Quiet

ClearMie == pc = "clear" /\ pc' = "test" /\ UNCHANGED << step, irq >> /\ Quiet
TestAgain ==
    /\ pc = "test" /\ pc' = (IF Awaited THEN "set" ELSE "wfi")
    /\ UNCHANGED << step, irq >> /\ Quiet
SetMie == pc = "set" /\ pc' = "run" /\ UNCHANGED << step, irq >> /\ Quiet

(* wfi sleeps until an interrupt is up, whether it can be taken or not.    *)
Wfi == pc = "wfi" /\ pc' = "asleep" /\ UNCHANGED << step, irq >> /\ Quiet
Wake ==
    /\ pc = "asleep" /\ irq # {}
    /\ pc' = IF Command.op = "wait" THEN "set" ELSE "run"
    /\ UNCHANGED << step, irq >> /\ Quiet


(* mstatus.MIE is clear from ClearMie to SetMie.                           *)
Masked == pc \in {"test", "wfi", "asleep", "set"} /\ Command.op = "wait"

(* An interrupt that can be taken is taken before the next command.        *)
Interrupted == irq # {} /\ ~Masked /\ pc # "asleep"

(* The handlers of the programs, called by those of the driver.            *)
Handler ==
    LET ended == { c \in Channels : << c, "transaction" >> \in irq }
        passed == { c \in Channels : << c, "window" >> \in irq }
    IN  /\ Interrupted
        /\ irq' = {}
        /\ flags' = [ flags EXCEPT !.ends = @ + Cardinality(ended),
                         !.transaction = [ c \in Channels |-> @[c] \/ c \in ended ],
                         !.window = [ c \in Channels |-> @[c] \/ c \in passed ] ]
        /\ UNCHANGED << app, pc, step, rejected, regs, left, mem, lost, loop, cpu >>

-----------------------------------------------------------------------------
(* The channels.                                                           *)

Busy == { c \in InUse : left[c] > 0 }

Position(c) == Dma(c)!TotalLen(regs[c]) - left[c] + 1
Write(c) == Dma(c)!ExpectedWrite(regs[c], Position(c))

(* In address mode the word goes where the table points, to every other    *)
(* word here.                                                              *)
Landing(c) == IF regs[c].mode = "ADDRESS"
              THEN regs[c].addr_ptr \div WORD + 2 * (Position(c) - 1)
              ELSE Write(c)[1] \div WORD
IsZero(c) == Write(c)[2] = Dma(c)!Zero
Source(c) == Write(c)[2][1] \div WORD

(* A channel triggered by the SPI waits for its word.  The program has     *)
(* done its launches before the last word is on its way: setting up a      *)
(* channel takes less time than the flash.                                 *)
FromSpi(c) == regs[c].src_ptr = RXDATA
Moving == { c \in Busy : FromSpi(c) => flags.spi = SpiPeriod }
SpiCounts == \E c \in Busy : FromSpi(c) /\ (left[c] = 1 => Command.op = "poll")

(* With zeros above or to the left only, the padding unit goes back to its *)
(* first state before the last word, and if this comes late, pads again    *)
(* (left_dn_to_idle, top_dn_to_idle).                                      *)
MayLose(c) ==
    /\ left[c] = 1 /\ regs[c].dim_config = 2
    /\ regs[c].pad_top # 0 \/ regs[c].pad_left # 0
    /\ regs[c].pad_right = 0 /\ regs[c].pad_bottom = 0

(* The interrupts of a round.  The flash is read by polling, the transfers *)
(* of the controller end in one interrupt, windows are enabled in two      *)
(* tests.                                                                  *)
Ending == { c \in Moving : left[c] = 1 }
Raises(c) == ~FromSpi(c) /\ (app.name = "im2col_spc" => Command.op = "wait_open")
WindowEnds ==
    { c \in Moving : app.name \in {"mc_regs", "window"} /\ Position(c) = regs[c].window_size }

DmaRound ==
    /\ Busy # {}
    /\ \E late \in SUBSET { c \in Moving : MayLose(c) } :
         LET to == [ c \in Moving |-> Landing(c) ]
             what == [ c \in Moving |-> IF IsZero(c) \/ c \in late THEN 0
                                        ELSE IF FromSpi(c) THEN FlashWord(Position(c))
                                        ELSE mem[Source(c)] ]
         IN  /\ mem' = [ i \in { to[c] : c \in Moving } |->
                           what[CHOOSE c \in Moving : to[c] = i] ] @@ mem
             /\ lost' = lost \cup { to[c] : c \in late }
    /\ left' = [ c \in Channels |-> IF c \in Moving THEN left[c] - 1 ELSE left[c] ]
    /\ irq' = irq \cup { << c, "transaction" >> : c \in { d \in Ending : Raises(d) } }
                  \cup { << c, "window" >> : c \in WindowEnds }
    /\ flags' = [ flags EXCEPT !.spi = IF SpiCounts THEN (@ % SpiPeriod) + 1 ELSE @ ]
    /\ UNCHANGED << app, pc, step, rejected, regs, loop, cpu >>

-----------------------------------------------------------------------------
(* The loop on the processor, one element at a time.                       *)

Transposes(c) == app.name = "transpose2d" \/ (app.name = "mc_alternate" /\ c % 2 = 1)
OneRow == app.name = "row1d"
TopPad == IF OneRow THEN 0 ELSE app.s.TOP_PAD
Height == IF OneRow THEN 1 ELSE app.s.SIZE_EXTR_D2
RowsOut == IF OneRow THEN 1 ELSE OUT_D2_PAD_STRIDE(app.s)

Framed ==
    \/ loop.i_in < TopPad \/ loop.i_in >= Height + TopPad
    \/ loop.j_in < app.s.LEFT_PAD \/ loop.j_in >= app.s.SIZE_EXTR_D1 + app.s.LEFT_PAD
    \/ loop.stride_1d_cnt # 0 \/ loop.stride_2d_cnt # 0

(* src_ptr of the copying tests and of the transposing ones.               *)
src_ptr_copy(row, column) ==
    row * app.s.STRIDE_IN_D2 * app.s.SIZE_IN_D1 + column * app.s.STRIDE_IN_D1
src_ptr_transpose(row, column) ==
    column * app.s.STRIDE_IN_D2 * app.s.SIZE_IN_D1 + row * app.s.STRIDE_IN_D1

src_ptr ==
    LET row == loop.i_in - loop.top_pad_cnt
        column == loop.j_in - loop.left_pad_cnt
    IN  IF Transposes(loop.c) THEN src_ptr_transpose(row, column) ELSE src_ptr_copy(row, column)

NextColumn ==
    LET wraps == loop.stride_1d_cnt = app.s.STRIDE_OUT_D1 - 1
        skips == /\ loop.j_in < app.s.LEFT_PAD /\ loop.i_in >= TopPad
                 /\ loop.stride_1d_cnt = 0 /\ loop.stride_2d_cnt = 0
    IN  [ loop EXCEPT !.j = @ + 1,
                      !.left_pad_cnt = IF skips THEN @ + 1 ELSE @,
                      !.stride_1d_cnt = IF wraps THEN 0 ELSE @ + 1,
                      !.j_in = IF wraps THEN @ + 1 ELSE @ ]

NextRow ==
    LET wraps == loop.stride_2d_cnt = app.s.STRIDE_OUT_D2 - 1
        skips == loop.i_in < TopPad /\ loop.stride_2d_cnt = 0
    IN  [ loop EXCEPT !.i = @ + 1, !.j = 0, !.j_in = 0, !.stride_1d_cnt = 0,
                      !.left_pad_cnt = 0,
                      !.top_pad_cnt = IF skips THEN @ + 1 ELSE @,
                      !.stride_2d_cnt = IF wraps THEN 0 ELSE @ + 1,
                      !.i_in = IF wraps THEN @ + 1 ELSE @ ]

NextChannel == LoopStart(loop.c + 1)

CpuElement ==
    /\ pc = "cpu"
    /\ LET row == OUT_D1_PAD_STRIDE(app.s)
           last_column == loop.j = row - 1
           last_row == loop.i = RowsOut - 1
           last_channel == loop.c + 1 \notin InUse
       IN  /\ cpu' = [ cpu EXCEPT ![loop.c][loop.i * row + loop.j] =
                         IF Framed THEN 0 ELSE mem[src_ptr] ]
           /\ loop' = IF ~last_column THEN NextColumn
                      ELSE IF ~last_row THEN NextRow ELSE NextChannel
           /\ pc' = IF last_column /\ last_row /\ last_channel THEN "verify" ELSE pc
    /\ UNCHANGED << app, step, rejected, regs, left, mem, lost, irq, flags >>

(* What each program expects at word i of an output.                       *)
ExpectedByAddress(i) == IF i % 2 = 0 THEN (i \div 2) + 1 ELSE 0
ExpectedInRow(i) == IF i < app.s THEN i + 1 ELSE 0
ExpectedByCall(call, i) ==
    CASE call = "copy" -> ExpectedInRow(i)
      [] call = "fill" -> IF i < app.s THEN 1 ELSE 0
      [] call = "to_addr" -> ExpectedByAddress(i)
ExpectedFromFlash(i) == IF i < TEST_DATA_FLASH_SIZE THEN FlashWord(i + 1) ELSE 0

Golden(c, i) ==
    CASE app.name = "mc_spi" /\ c = 0 -> ExpectedFromFlash(i)
      [] app.name = "mixed" /\ i >= OUT_DIM_2D(app.s) -> i - OUT_DIM_2D(app.s) + 1
      [] app.name \in Matrix2d \cup Multichannel -> cpu[c][i]
      [] app.name \in Im2col -> im2col_cpu(app.s, i)
      [] app.name \in {"address", "address_external"} -> ExpectedByAddress(i)
      [] app.name \in {"pending", "window"} -> ExpectedInRow(i)
      [] app.name = "sdk_example" -> 1
      [] app.name = "sdk" -> ExpectedByCall(app.calls[1 + i \div (2 * app.s)], i % (2 * app.s))

Wrong == { i \in UNION { Output(c) : c \in InUse } :
             LET c == (i - InSize) \div OutSize IN mem[i] # Golden(c, i - OutBase(c)) }
AllWindows == \A c \in InUse : flags.window[c]
AllEnds == \A c \in InUse : flags.transaction[c]

(* The fourth test of example_dma_2d compares nothing; of those with       *)
(* several channels the first also wants a window interrupt from each      *)
(* channel, the second the end of a transaction.                           *)
Verify ==
    /\ pc = "verify"
    /\ pc' = IF \/ app.name = "regs2d"
                \/ /\ Wrong = {}
                   /\ app.name = "mc_regs" => AllWindows
                   /\ app.name = "mc_hal" => AllEnds
             THEN "passed" ELSE "failed"
    /\ UNCHANGED << step, irq >> /\ Quiet

CpuStep ==
    \/ Handler
    \/ /\ ~Interrupted
       /\ \/ LoadStep \/ LaunchStep
          \/ WaitStep \/ ClearMie \/ TestAgain \/ SetMie \/ Wfi \/ Wake
          \/ CpuElement \/ Verify

Finished ==
    /\ pc \in {"passed", "failed", "asleep"} /\ Busy = {} /\ irq = {}
    /\ UNCHANGED vars

AppsNext == CpuStep \/ DmaRound \/ Finished

(* The processor and the bus do not stop.                                  *)
AppsSpec == AppsInit /\ [][AppsNext]_vars /\ WF_vars(CpuStep) /\ WF_vars(DmaRound)

-----------------------------------------------------------------------------

(* No transfer of theirs reads outside the input or writes outside the     *)
(* output of its channel: the increments that the macros compute are never *)
(* too long, whatever the strides and paddings.                            *)
WithinBuffers ==
    \A c \in Busy : /\ Landing(c) \in Output(c)
                    /\ IsZero(c) \/ FromSpi(c) \/ Source(c) \in Input \cup Output(c)

(* A program that tests its channel with interrupts off before wfi always  *)
(* comes to its end, whenever the interrupt rises between the steps of the *)
(* wait (DMA_WAIT of dma_sdk.h, WAIT_DMA of example_dma, dma_run).         *)
OpenWait == {"pending", "window", "im2col_spc"}

(* waiting_for_spc_irq is "Used to wait for the SPC interrupt handler to   *)
(* end" (im2col_lib.c:43): the program goes on after the interrupt.        *)
(* Refuted: it may come between the test and wfi.                          *)
SpcIsAwaited == app.name = "im2col_spc" ~> pc \in {"passed", "failed"}

(* dma_copy "Copies data from source to destination using DMA"             *)
(* (dma_sdk.h:82), whatever the channel was used for before.  Refuted: it  *)
(* leaves the dimensions and the paddings of a matrix where they are.      *)
SdkCopies ==
    app.name = "mixed" /\ pc = "verify" =>
        \A i \in 0 .. app.s.SIZE_IN_D1 - 1 : mem[OutBase(0) + OUT_DIM_2D(app.s) + i] = i + 1
=============================================================================
