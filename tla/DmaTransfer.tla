---------------------------- MODULE DmaTransfer -----------------------------
(***************************************************************************)
(* What a DMA channel promises to software, without its pipeline: a        *)
(* launched job performs exactly the writes that the registers ask for, in *)
(* order, each once; the channel is free again only after the last one; a  *)
(* circular job starts over until software makes its mode linear.          *)
(***************************************************************************)
EXTENDS DmaRegs

VARIABLES
    phase,      \* "idle", "armed" (launched, nothing written yet), "busy"
    written     \* the writes of the job so far

Init ==
    /\ regs = ResetRegs
    /\ phase = "idle"
    /\ written = <<>>

Launch ==
    /\ phase = "idle"
    /\ phase' = "armed"
    /\ regs' \in Configs
    /\ UNCHANGED written

(* Software may take a job out of circular mode at any time.               *)
ModeStep == regs' \in { regs, [ regs EXCEPT !.mode = "LINEAR" ] }

Start ==
    /\ phase = "armed"
    /\ phase' = "busy"
    /\ written' = <<>>

Write ==
    /\ phase = "busy"
    /\ Len(written) < TotalLen(regs)
    /\ written' = Append(written, ExpectedWrite(regs, Len(written) + 1))
    /\ UNCHANGED phase

Finish ==
    /\ phase = "busy"
    /\ Len(written) = TotalLen(regs)
    /\ phase' = IF circular_mode THEN "armed" ELSE "idle"
    /\ UNCHANGED written

Idle == UNCHANGED << phase, written >>

Next == Launch \/ (ModeStep /\ (Start \/ Write \/ Finish \/ Idle))

Spec == Init /\ [][Next]_<< regs, phase, written >>
=============================================================================
