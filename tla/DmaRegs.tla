------------------------------ MODULE DmaRegs ------------------------------
(***************************************************************************)
(* What the blocks of one DMA channel (hw/ip/dma/rtl) share: the software  *)
(* visible registers, the FIFO of the vendored common cells (fifo_v3), the *)
(* 17-bit counters, and the transfer that a register setting asks for.     *)
(*                                                                         *)
(* Data is abstracted to its origin: a memory word is identified with the  *)
(* address it is read from, and an element in a FIFO is a pair <<address   *)
(* read, pointer that selects its byte lane>>.  A padding zero is Zero.    *)
(***************************************************************************)
EXTENDS Integers, Sequences

CONSTANTS
    Depth,      \* FIFO_DEPTH, the depth of the three FIFOs of the channel
    Configs     \* the register settings software programs

ASSUME DepthAssumption == Depth \in Nat /\ Depth >= 2

VARIABLE regs   \* reg2hw: the register file as the blocks see it

Dim1 == 1
Dim2 == 2
Modes == {"LINEAR", "CIRCULAR", "ADDRESS"}

(* Largest values of a 16-bit size, a 6-bit padding, a 13-bit window.      *)
SizeMax == 65535
PadMax == 63
WindowMax == 8191

(* The fields that the blocks read, with the names and widths of           *)
(* dma.hjson; pointers and increments are unbounded here.                  *)
RegFile ==
    [ mode : Modes, dim_config : {Dim1, Dim2}, dim_inv : BOOLEAN,
      size_d1 : 0 .. SizeMax, size_d2 : 0 .. SizeMax,
      src_ptr : Int, dst_ptr : Int, addr_ptr : Int,
      src_ptr_inc_d1 : Int, src_ptr_inc_d2 : Int,
      dst_ptr_inc_d1 : Int, dst_ptr_inc_d2 : Int,
      pad_top : 0 .. PadMax, pad_bottom : 0 .. PadMax,
      pad_left : 0 .. PadMax, pad_right : 0 .. PadMax,
      rx_trigger : BOOLEAN, tx_trigger : BOOLEAN,
      window_size : 0 .. WindowMax, transaction_en : BOOLEAN, window_en : BOOLEAN ]

(* A launch writes SIZE_D1 last, and a zero there starts nothing.          *)
ASSUME ConfigsAssumption ==
    /\ Configs \subseteq RegFile
    /\ \A c \in Configs : c.size_d1 > 0

(* The reset values of dma.hjson.                                          *)
ResetRegs ==
    [ mode |-> "LINEAR", dim_config |-> Dim1, dim_inv |-> FALSE,
      size_d1 |-> 0, size_d2 |-> 0,
      src_ptr |-> 0, dst_ptr |-> 0, addr_ptr |-> 0,
      src_ptr_inc_d1 |-> 4, src_ptr_inc_d2 |-> 4,
      dst_ptr_inc_d1 |-> 4, dst_ptr_inc_d2 |-> 4,
      pad_top |-> 0, pad_bottom |-> 0, pad_left |-> 0, pad_right |-> 0,
      rx_trigger |-> FALSE, tx_trigger |-> FALSE,
      window_size |-> 0, transaction_en |-> FALSE, window_en |-> FALSE ]

conf_1d == regs.dim_config = Dim1
conf_2d == regs.dim_config = Dim2
address_mode == regs.mode = "ADDRESS"
circular_mode == regs.mode = "CIRCULAR"

-----------------------------------------------------------------------------
(* fifo_v3: a push is ignored when the FIFO is full, a pop when it is      *)
(* empty.  alm_full is computed by dma.sv from the fill level.             *)

full(q) == Len(q) = Depth
alm_full(q) == Len(q) = Depth - 1

FifoNext(q, push, data, pop) ==
    LET rest == IF pop /\ q # <<>> THEN Tail(q) ELSE q
    IN  IF push /\ ~full(q) THEN Append(rest, data) ELSE rest

(* FALL_THROUGH: a word pushed into the empty FIFO can leave it in the     *)
(* same cycle.                                                             *)
FallThroughNext(q, push, data, pop) ==
    IF q = <<>> /\ push /\ pop THEN <<>> ELSE FifoNext(q, push, data, pop)

(* The counters of the three FSMs are 17 bits wide and wrap below zero.    *)
CntMax == 131071
Dec(n) == IF n = 0 THEN CntMax ELSE n - 1

-----------------------------------------------------------------------------
(* The transfer a register setting asks for, as the documentation          *)
(* describes it: the extracted matrix (or row), framed by zeros.           *)

Zero == << -1, -1 >>

RowLen(c) == c.pad_left + c.size_d1 + c.pad_right

Rows(c) == IF c.dim_config = Dim1 THEN 1
                                  ELSE c.pad_top + c.size_d2 + c.pad_bottom

TotalLen(c) == RowLen(c) * Rows(c)

(* Source address of the element in row r, column k of the extracted       *)
(* matrix.  The second increment is taken from the last element of a row.  *)
SrcAddr(c, r, k) ==
    IF c.dim_inv /\ c.dim_config = Dim2
    THEN c.src_ptr + r * c.src_ptr_inc_d1 + k * c.src_ptr_inc_d2
    ELSE c.src_ptr + r * ((c.size_d1 - 1) * c.src_ptr_inc_d1 + c.src_ptr_inc_d2)
                   + k * c.src_ptr_inc_d1

DstAddr(c, r, k) ==
    IF c.mode = "ADDRESS"
    THEN c.addr_ptr + 4 * k
    ELSE c.dst_ptr + r * ((RowLen(c) - 1) * c.dst_ptr_inc_d1 + c.dst_ptr_inc_d2)
                   + k * c.dst_ptr_inc_d1

(* The n-th write of the transfer: where it goes and what it carries.      *)
ExpectedWrite(c, n) ==
    LET r == (n - 1) \div RowLen(c)
        k == (n - 1) % RowLen(c)
        top == IF c.dim_config = Dim1 THEN 0 ELSE c.pad_top
        height == IF c.dim_config = Dim1 THEN 1 ELSE c.size_d2
        inside == /\ r >= top /\ r < top + height
                  /\ k >= c.pad_left /\ k < c.pad_left + c.size_d1
        a == SrcAddr(c, r - top, k - c.pad_left)
    IN  << DstAddr(c, r, k), IF inside THEN << a, a >> ELSE Zero >>

Expected(c) == [ n \in 1 .. TotalLen(c) |-> ExpectedWrite(c, n) ]
=============================================================================
