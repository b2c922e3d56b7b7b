------------------------------ MODULE SdkFlash ------------------------------
(***************************************************************************)
(* What the flash application of the SPI SDK asks of it: each function is  *)
(* the sequence of calls it makes, main the calls of the whole program.    *)
(* The commands and addresses sent are words like any others.              *)
(***************************************************************************)
EXTENDS Naturals, SequencesExt

CONSTANTS
    SECT_LEN,        \* bytes of a sector
    PAGE_LEN,        \* bytes of a page
    READ_WRITE_LEN   \* words read back

ASSUME FlashAssumption ==
    /\ {SECT_LEN, PAGE_LEN, READ_WRITE_LEN} \subseteq Nat \ {0}
    /\ SECT_LEN % PAGE_LEN = 0

\* SPI_SEG_TX and SPI_SEG_RX: one data line.
SPI_SEG_TX(len) == [direction |-> "TX_ONLY", len |-> len, speed |-> "STANDARD"]
SPI_SEG_RX(len) == [direction |-> "RX_ONLY", len |-> len, speed |-> "STANDARD"]

Ask(fn, spi, segments) == <<[fn |-> fn, spi |-> spi, segments |-> segments]>>

flash_read(spi, len) == Ask("spi_execute", spi, <<SPI_SEG_TX(4), SPI_SEG_RX(len)>>)

\* It polls the state and moves the watermark of the receiver around the call.
flash_read_non_blocking(spi, len) ==
    Ask("spi_execute_nb", spi, <<SPI_SEG_TX(4), SPI_SEG_RX(len)>>)

flash_write_enable(spi) == Ask("spi_transmit", spi, <<SPI_SEG_TX(1)>>)

\* One round of the loop on the busy bit.
flash_wait(spi) == Ask("spi_execute", spi, <<SPI_SEG_TX(1), SPI_SEG_RX(2)>>)

flash_erase_sector(spi) ==
    flash_write_enable(spi) \o Ask("spi_transmit", spi, <<SPI_SEG_TX(4)>>) \o flash_wait(spi)

flash_write_page(spi) ==
    flash_write_enable(spi)
    \o Ask("spi_execute", spi, <<SPI_SEG_TX(4), SPI_SEG_TX(PAGE_LEN)>>)
    \o flash_wait(spi)

flash_write_sector(spi) ==
    FlattenSeq([i \in 1..(SECT_LEN \div PAGE_LEN) |-> flash_write_page(spi)])

flash_main(spi) ==
    flash_read_non_blocking(spi, SECT_LEN) \o flash_erase_sector(spi)
    \o flash_write_sector(spi) \o flash_read(spi, 4 * READ_WRITE_LEN)

=============================================================================
