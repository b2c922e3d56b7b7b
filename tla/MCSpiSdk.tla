------------------------------ MODULE MCSpiSdk ------------------------------
\* FIFOs of two words; what the flash application asks, with pages longer than a
\* FIFO; a transfer both ways to a second device; a call with a length of 0
\* and one with a segment no host can execute.
EXTENDS SpiSdk_proofs, SdkFlash

MCSlaves == [slow |-> [csid |-> 0, freq |-> 11], fast |-> [csid |-> 1, freq |-> 30]]

Segment(direction, len) == [direction |-> direction, len |-> len, speed |-> "STANDARD"]

MCRequests ==
    ToSet(flash_main("slow")) \cup
    {[fn |-> "spi_transmit_nb", spi |-> "slow", segments |-> <<Segment("TX_ONLY", 0)>>],
     [fn |-> "spi_receive", spi |-> "slow", segments |-> <<Segment("RX_ONLY", 9)>>],
     [fn |-> "spi_transceive_nb", spi |-> "fast", segments |-> <<Segment("BIDIR", 12)>>],
     [fn |-> "spi_execute", spi |-> "slow",
      segments |-> <<[direction |-> "BIDIR", len |-> 4, speed |-> "QUAD"]>>]}

\* The hypotheses of the theorems hold of this instance.
ASSUME MCHypotheses == LinesKept /\ ClocksRun /\ DividersFit /\ SelectsFit

=============================================================================
