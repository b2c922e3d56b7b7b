---------------------------- MODULE MCDmaChannel ----------------------------
(***************************************************************************)
(* Register settings for the runs of DmaChannel.                           *)
(***************************************************************************)
EXTENDS DmaChannel_proofs

(* The fields that a run does not vary.                                    *)
Base == [ ResetRegs EXCEPT !.src_ptr = 16, !.dst_ptr = 64, !.addr_ptr = 128,
                           !.size_d2 = 1, !.transaction_en = TRUE ]

(* One dimension: sizes around the FIFO depth and beyond what the pipeline *)
(* can hold, so that it fills up, the three modes, a byte                  *)
(* stride that moves through the lanes, triggers, windows that divide the  *)
(* size, that do not, and that are longer than the transfer.               *)
Linear1D == { [ Base EXCEPT !.size_d1 = n, !.window_size = w,
                            !.window_en = TRUE ] :
                n \in {1, 4, 9}, w \in {0, 2, 7} }
Circular1D == { [ Base EXCEPT !.size_d1 = 3, !.mode = "CIRCULAR",
                              !.src_ptr_inc_d1 = 1, !.window_size = 2 ] }
Address1D == { [ Base EXCEPT !.size_d1 = n, !.mode = "ADDRESS" ] : n \in {2, 9} }
Trigger1D == { [ Base EXCEPT !.size_d1 = 2, !.rx_trigger = r,
                             !.tx_trigger = ~r ] : r \in BOOLEAN }

(* Two dimensions, with gaps between the rows, transposed or not.          *)
Plain2D == { [ Base EXCEPT !.dim_config = Dim2, !.dim_inv = t,
                           !.size_d1 = n, !.size_d2 = m,
                           !.src_ptr_inc_d1 = 1, !.src_ptr_inc_d2 = 5,
                           !.dst_ptr_inc_d1 = 2, !.dst_ptr_inc_d2 = 7 ] :
               t \in BOOLEAN, n \in 1 .. 3, m \in 1 .. 2 }

(* Padded settings.  PadLast has those with padding after the last word of *)
(* the source; with padding above and to the left only, a last word that   *)
(* comes late is replaced by a zero.                                       *)
Padded(n, m, t, b, l, r) ==
    [ Base EXCEPT !.dim_config = Dim2, !.size_d1 = n, !.size_d2 = m,
                  !.pad_top = t, !.pad_bottom = b,
                  !.pad_left = l, !.pad_right = r ]
PadLast == { Padded(n, 2, p[1], p[2], p[3], p[4]) :
               n \in 1 .. 2,
               p \in { q \in (0 .. 1) \X (0 .. 1) \X (0 .. 1) \X {0, 2} :
                         q[2] + q[4] > 0 } }

(* The example of DMA.md: two by two words, one zero above and to the left.*)
Corner == Padded(2, 2, 1, 0, 1, 0)
CornerConfigs == { Corner }

(* The hypothesis of DrainSafety, DeliverySafety and Refinement, for the   *)
(* passing runs.                                                           *)
ASSUME MCHypotheses == Configs = CornerConfigs \/ SettingsSuit

AllConfigs == Linear1D \cup Circular1D \cup Address1D \cup Trigger1D
                \cup Plain2D \cup PadLast

(* A stop may come in a transfer of address mode, where it reaches both    *)
(* read masters.                                                           *)
SomeStop == { [ Base EXCEPT !.size_d1 = 2, !.mode = "ADDRESS" ] }

(* The liveness run: one transfer that fills the FIFOs, the triggers, the  *)
(* other modes, every shape of PadLast with rows of one word.              *)
ConfigsLive ==
    { [ Base EXCEPT !.size_d1 = 9 ],
      [ Base EXCEPT !.size_d1 = 2, !.window_size = 1, !.window_en = TRUE ],
      [ Base EXCEPT !.size_d1 = 2, !.mode = "CIRCULAR" ],
      [ Base EXCEPT !.size_d1 = 2, !.mode = "ADDRESS" ] }
    \cup Trigger1D
    \cup { c \in PadLast : c.size_d1 = 1 }
=============================================================================
