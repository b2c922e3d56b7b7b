------------------------------- MODULE MCW25q --------------------------------
(* A flash of three sectors of two pages of two words; the bytes of the second *)
(* sector are erased at first.                                                 *)
EXTENDS W25q_proofs

\* Lengths below, at and above a word, the chunk of the RX loop and the
\* threshold; regions within a page, across pages, across sectors and into the
\* last sector.  DMA moves whole words.
MCTests ==
    {TestRead("standard", 5, 7), TestRead("standard", 0, 8), TestRead("quad", 30, 9),
     TestRead("standard_dma", 12, 8), TestRead("quad_dma", 3, 12), TestRead("auto", 1, 6),
     TestRead("auto", 16, 12), TestRead("quad_dma_async", 8, 8),
     TestRead("standard_dma_async", 9, 4), TestRead("standard_dma_async", 9, 5),
     TestRead("auto", 47, 1),
     <<Call("write", "standard", 21, 9)>>, <<Call("write", "quad", 22, 2)>>,
     <<Call("write", "standard_dma", 20, 8)>>, <<Call("write", "auto", 16, 12)>>,
     TestWrite("standard", 14, 5), TestWrite("quad", 2, 3),
     TestWrite("standard_dma", 12, 8), TestWrite("quad_dma", 30, 4),
     TestWrite("auto", 17, 6),
     <<Call("erase", "SE", 17, 0)>>, <<Call("erase", "BE32", 33, 0)>>,
     <<Call("erase", "BE64", 1, 0)>>, <<Call("erase", "CE", 0, 0)>>,
     <<Call("reset", "auto", 0, 0)>>, <<Call("reset_force", "auto", 0, 0)>>,
     <<Call("power_down", "auto", 0, 0)>>}

MCErased == 16..31
=============================================================================
