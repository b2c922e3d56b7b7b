----------------------------- MODULE MCDmaApps ------------------------------
(***************************************************************************)
(* Shapes for the programs of DmaApps: inputs of four by four words, every *)
(* padding, strides up to two, sizes that differ in the two dimensions.    *)
(***************************************************************************)
EXTENDS DmaApps

(* All programs but the one that is not of the repository.                 *)
MCPrograms ==
    (Matrix2d \ {"mixed"}) \cup Multichannel \cup Im2col \cup Modes \cup {"sdk", "sdk_example"}

Shape(d1, d2, si, so, p) ==
    [ SIZE_IN_D1 |-> 4, SIZE_IN_D2 |-> 4, SIZE_EXTR_D1 |-> d1, SIZE_EXTR_D2 |-> d2,
      STRIDE_IN_D1 |-> si[1], STRIDE_IN_D2 |-> si[2],
      STRIDE_OUT_D1 |-> so[1], STRIDE_OUT_D2 |-> so[2],
      TOP_PAD |-> p[1], BOTTOM_PAD |-> p[2], LEFT_PAD |-> p[3], RIGHT_PAD |-> p[4] ]

MCMatrices ==
    { Shape(d[1], d[2], si, so, p) :
        d \in { <<1, 2>>, <<2, 1>>, <<2, 2>> },
        si \in { <<1, 1>>, <<2, 1>>, <<1, 2>> }, so \in { <<1, 1>>, <<2, 1>>, <<1, 2>> },
        p \in { <<0, 0, 0, 0>>, <<1, 0, 2, 0>>, <<0, 1, 0, 1>>, <<1, 1, 1, 1>> } }

(* One matrix, with a zero on each side.                                    *)
MCFramed == { Shape(2, 2, <<1, 1>>, <<1, 1>>, <<1, 1, 1, 1>>) }

Conv(i, f, st, p, ch, b) ==
    [ IW |-> i[1], IH |-> i[2], FW |-> f[1], FH |-> f[2], STRIDE_D1 |-> st[1], STRIDE_D2 |-> st[2],
      TOP_PAD |-> p[1], BOTTOM_PAD |-> p[2], LEFT_PAD |-> p[3], RIGHT_PAD |-> p[4],
      CH |-> ch, BATCH |-> b ]

MCConvolutions ==
    { Conv(n[1], f, st, p, n[2], n[3]) :
        n \in { << <<3, 2>>, 2, 1 >>, << <<3, 2>>, 1, 2 >>, << <<2, 3>>, 1, 1 >> },
        f \in { <<1, 2>>, <<2, 1>>, <<2, 2>> }, st \in { <<1, 1>>, <<2, 1>>, <<1, 2>> },
        p \in { <<0, 0, 0, 0>>, <<1, 0, 1, 0>>, <<0, 1, 0, 2>>, <<1, 1, 2, 1>> } }
=============================================================================
