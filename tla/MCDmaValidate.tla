--------------------------- MODULE MCDmaValidate ----------------------------
(***************************************************************************)
(* Instances of DmaValidate: the fields an application fills in, around a  *)
(* copy from address 0 to address 16 of an address space of 256 bytes.     *)
(***************************************************************************)
EXTENDS DmaValidate

Target(ptr, type, inc) ==
    [ env |-> NoEnv, ptr |-> ptr, inc_d1_du |-> inc, inc_d2_du |-> 0,
      type |-> type, trig |-> "MEMORY" ]

Copy(src, dst, size) ==
    [ src |-> src, dst |-> dst, src_addr |-> 0, size_d1_du |-> size, 
      size_d2_du |-> 0, dim |-> Dim1D, pad_top_du |-> 0, pad_bottom_du |-> 0,
      pad_left_du |-> 0, pad_right_du |-> 0, mode |-> "SINGLE",
      win_du |-> 0, end |-> "POLLING", channel |-> 0 ]

Within(g, first, last) == [ g EXCEPT !.env = [ start |-> first, end |-> last ] ]
Peripheral(g) == [ g EXCEPT !.trig = "SLOT", !.inc_d1_du = 0 ]

(* One data type on both sides; every alignment, and a destination whose   *)
(* environment ends within, at or after the last byte.                     *)
OneType ==
    { Copy(Target(s, ty, 1), Within(Target(16 + d, ty, inc), 16, last), size) :
        s \in {0, 1, 2}, d \in {0, 1, 2}, ty \in {WORD, HALF_WORD, BYTE},
        inc \in {1, 2}, last \in {19, 24}, size \in {1, 2} }

(* Windows, peripherals, modes, zero sizes and matrices.                   *)
Others ==
    LET s == Target(0, WORD, 1)
        d == Target(16, WORD, 1)
    IN  { [ Copy(s, d, n) EXCEPT !.win_du = w ] : n \in {0, 5}, w \in {0, 1, 6} }
        \cup { [ Copy(s, Peripheral(d), 2) EXCEPT !.mode = m ] : m \in TransModes }
        \cup { [ Copy(s, d, 2) EXCEPT !.mode = m ] : m \in TransModes }
        \cup { Copy(Peripheral(s), Peripheral(d), 2) }
        \cup { [ Copy([ s EXCEPT !.inc_d2_du = i ], [ d EXCEPT !.inc_d2_du = 1 ], 2)
                   EXCEPT !.dim = Dim2D, !.size_d2_du = n ] : i \in {0, 1}, n \in {0, 2} }

MCFields == OneType \cup Others

(* The fields meet the hypotheses of the theorems.                         *)
ASSUME MCHypotheses == WordsNotToBytes /\ OneRowEnvironments

=============================================================================
