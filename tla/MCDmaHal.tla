------------------------------ MODULE MCDmaHal ------------------------------
(***************************************************************************)
(* Instances of DmaHal: two channels and the objects of an application.    *)
(***************************************************************************)
EXTENDS DmaHal_proofs, TLC

Memory(ptr, inc2) ==
    [ env |-> NoEnv, ptr |-> ptr, inc_d1_du |-> 1, inc_d2_du |-> inc2,
      type |-> WORD, trig |-> "MEMORY" ]

(* Copies n words to address to.                                           *)
Row(channel, to, n, end) ==
    [ src |-> Memory(0, 0), dst |-> Memory(to, 0), src_addr |-> 0,
      size_d1_du |-> n, size_d2_du |-> 0, dim |-> Dim1D,
      pad_top_du |-> 0, pad_bottom_du |-> 0, pad_left_du |-> 0, pad_right_du |-> 0,
      mode |-> "SINGLE", win_du |-> 0, end |-> end, channel |-> channel ]

Matrix(channel, to, n, end) ==
    [ Row(channel, to, n, end) EXCEPT !.src.inc_d2_du = 1, !.dst.inc_d2_du = 1,
                                      !.dim = Dim2D, !.size_d2_du = 2 ]

(* From memory to a peripheral, for ever.                                  *)
Stream(channel, end) ==
    [ Row(channel, 32, 2, end) EXCEPT !.mode = "CIRCULAR", !.dst.trig = "SLOT",
                                      !.dst.inc_d1_du = 0 ]

PaddedRow(channel, end) == [ Row(channel, 16, 2, end) EXCEPT !.pad_right_du = 1 ]

(* On one channel: a framed matrix with windows that is written with the   *)
(* longest step and stride the registers hold, a padded row, a stream, and *)
(* an object that does not pass validation.  All of them are matrices to   *)
(* the channel, none has padding above or below (see the README).          *)
MixedApp == "frame" :> [ Matrix(0, 16, 2, "INTR") EXCEPT
                             !.pad_left_du = 1, !.win_du = 1,
                             !.dst.inc_d1_du = INC_D1_MASK \div 4,
                             !.dst.inc_d2_du = INC_D2_MASK \div 4 ]
         @@ "padded" :> PaddedRow(0, "INTR_WAIT")
         @@ "stream" :> [ Stream(0, "INTR") EXCEPT !.dim = Dim2D, !.size_d2_du = 2,
                                                   !.src.inc_d2_du = 1 ]
         @@ "bad" :> [ Matrix(0, 16, 2, "INTR") EXCEPT !.mode = "CIRCULAR" ]

(* One row per channel, both with interrupts, one with windows.            *)
RowsApp == "row0" :> [ Row(0, 16, 2, "INTR") EXCEPT !.win_du = 1 ]
        @@ "row1" :> Row(1, 24, 2, "INTR")

(* A row whose launch waits for its interrupt.                             *)
WaitApp == "wait" :> Row(0, 16, 2, "INTR_WAIT")

(* A row with padding and one without, on the same channel.                *)
LeftoverApp == "padded" :> PaddedRow(0, "INTR") @@ "plain" :> Row(0, 16, 2, "INTR")

(* A row that is written with one word in sixteen.                         *)
StepApp == "step" :> [ Row(0, 16, 2, "INTR") EXCEPT !.dst.inc_d1_du = 16 ]

(* A row of one word more than SIZE_D1 can count.                          *)
LongApp == "long" :> Row(0, 16, 65537, "INTR")

FieldsOf(app) == { app[x] : x \in DOMAIN app }
MixedFields == FieldsOf(MixedApp)
RowsFields == FieldsOf(RowsApp)
WaitFields == FieldsOf(WaitApp)
LeftoverFields == FieldsOf(LeftoverApp)
StepFields == FieldsOf(StepApp)
LongFields == FieldsOf(LongApp)

(* The objects of the runs that pass meet the hypotheses of the theorems.  *)
ASSUME MCHypotheses ==
    App \in {MixedApp, RowsApp} => SizesFit /\ FieldsFit /\ NoAddressMode /\ FramesAgree

=============================================================================
