-------------------------------- MODULE W25q ---------------------------------
(***************************************************************************)
(* The board support package of the W25Q128JW flash, for the build that    *)
(* polls the flash (not TARGET_SIM), on the SPI host of SpiHost and DMA    *)
(* channel 0.  A function of the driver is the sequence of the accesses it *)
(* makes; `prog' holds the accesses the running call has still to make and *)
(* the loops it has still to unroll.  The host, the DMA and the flash run  *)
(* beside it.  The flash chip is external and modelled from the commands   *)
(* the driver sends; it takes a command when chip select is released.      *)
(***************************************************************************)
EXTENDS SpiHost, FiniteSets, SequencesExt

CONSTANTS
    FLASH_PAGE_SIZE, FLASH_SECTOR_SIZE, Block32, Block64, FlashSize, \* in bytes
    RX_DMA_THRESHOLD,
    Tests,        \* the sequences of calls the application makes
    Erased,       \* the addresses erased at first
    MaxTests, MaxCrashes

\* The sizes of a flash, in bytes; a page and a sector are whole words.
ASSUME SizesAssumption ==
    /\ {FLASH_PAGE_SIZE, FLASH_SECTOR_SIZE, Block32, Block64, FlashSize} \subseteq Nat \ {0}
    /\ FLASH_PAGE_SIZE % 4 = 0 /\ FLASH_SECTOR_SIZE % 4 = 0 /\ RX_DMA_THRESHOLD \in Nat

ASSUME GeometryAssumption ==
    /\ FLASH_SECTOR_SIZE % FLASH_PAGE_SIZE = 0 /\ FlashSize % FLASH_SECTOR_SIZE = 0
    /\ TxDepth >= FLASH_PAGE_SIZE \div 4 + 3 \* a page between the words of WE, PP and RSR1
    /\ RxDepth % 4 = 0

VARIABLES
    prog,    \* what the running call has still to do
    call,    \* the running or the last call, what it returned, the memory before it
    user, sector, \* the caller's buffer and sector_data
    dma,     \* what DMA channel 0 has still to move
    flash,   \* the registers of the flash and the command in its shift register
    mem,     \* the flash array
    app      \* what the application knows: whether spi is set, the tests begun
             \* and the calls to come

w25qVars == <<prog, call, user, sector, dma, flash, mem, app>>
vars == <<hostVars, w25qVars>>

MAX_FLASH_ADDR == FlashSize - 1
Addresses == 0..MAX_FLASH_ADDR
AlignDown(addr, size) == addr - (addr % size)
Blank == 255
Garbage == 254

-----------------------------------------------------------------------------
(* The accesses.  A TX word is an opcode with an address, an address or data. *)

Op(op, addr) == [op |-> op, addr |-> addr, bytes |-> <<>>]

Step(do) == [do |-> do]
Word(w) == [do |-> "word", word |-> w]
Watermark(n) == [do |-> "watermark", n |-> n]
Return(code) == [do |-> "return", code |-> code]

\* spi_set_command and the spi_wait_for_ready after it.
Command(len, csaat, direction) ==
    << [do |-> "command", cmd |-> [len |-> len, csaat |-> csaat, direction |-> direction]],
       Step("ready") >>

flash_write_enable == <<Word(Op("WE", 0))>> \o Command(1, FALSE, "TX_ONLY")

\* One round of flash_wait; the step "status" starts another while it is busy.
Poll ==
    <<Word(Op("RSR1", 0))>> \o Command(1, TRUE, "TX_ONLY") \o Command(1, FALSE, "RX_ONLY")
        \o <<Step("rxwm"), Step("status")>>

flash_wait == <<Watermark(1)>> \o Poll

flash_reset ==
    <<Word(Op("ERESET", 0)), Word(Op("RESET", 0)), Step("ready")>>
        \o Command(1, FALSE, "TX_ONLY") \o Command(1, FALSE, "TX_ONLY")

flash_power_up == <<Word(Op("RPD", 0)), Step("ready")>> \o Command(1, FALSE, "TX_ONLY")

ReadStatus2(then) ==
    <<Word(Op("RSR2", 0))>> \o Command(1, TRUE, "TX_ONLY") \o Command(1, FALSE, "RX_ONLY")
        \o <<Step("rxwm"), Step(then)>>

\* The step "status2" keeps the register for the write, with bit QE set; the
\* step "qe" checks the bit.
set_QE_bit ==
    <<Watermark(1)>> \o ReadStatus2("status2") \o flash_write_enable
        \o <<Word(Op("WSR2", 0))>> \o Command(1, TRUE, "TX_ONLY")
        \o <<Word([Op("DATA", 0) EXCEPT !.bytes = <<1>>])>> \o Command(1, FALSE, "TX_ONLY")
        \o flash_wait \o ReadStatus2("qe")

-----------------------------------------------------------------------------
(* Reading. *)

Sane(addr, len) == addr <= MAX_FLASH_ADDR /\ len > 0 /\ addr + len <= MAX_FLASH_ADDR

\* The word of the RX FIFO to `buf', from byte `at' on.
ReadWord(buf, at, n) == [do |-> "read", buf |-> buf, at |-> at, n |-> n]

Tail4Unscaled(buf, len) ==
    IF len % 4 # 0 THEN <<ReadWord(buf, len \div 4, len % 4)>> ELSE <<>>

\* The last word, of which len % 4 bytes are copied.
Tail4(buf, len) ==
    IF len % 4 # 0 THEN <<ReadWord(buf, 4 * (len \div 4), len % 4)>> ELSE <<>>

\* A round of the loop that empties the RX FIFO: `left' bytes to come, the
\* words from `start' on to read.
Fill(buf, left, to_read, start) ==
    [do |-> "fill", buf |-> buf, left |-> left, to_read |-> to_read, start |-> start]

ReadWords(buf, from, to) ==
    [i \in 1..(IF to > from THEN to - from ELSE 0) |-> ReadWord(buf, 4 * (from + i - 1), 4)]

FillRoundStuck(f) ==
    IF f.left >= RxDepth
    THEN <<Watermark(RxDepth \div 4), Step("rxwm")>>
            \o ReadWords(f.buf, f.start, (f.to_read + RxDepth) \div 4)
            \o <<Fill(f.buf, f.left - RxDepth, f.to_read + RxDepth, f.start + RxDepth \div 4)>>
    ELSE <<Watermark(RxDepth \div 4), Step("rxwm")>>
            \o ReadWords(f.buf, f.start, (f.to_read + f.left) \div 4)

FillRound(f) ==
    IF f.left >= RxDepth
    THEN <<Watermark(RxDepth \div 4), Step("rxwm")>>
            \o ReadWords(f.buf, f.start, (f.to_read + RxDepth) \div 4)
            \o <<Fill(f.buf, f.left - RxDepth, f.to_read + RxDepth, f.start + RxDepth \div 4)>>
    ELSE <<Watermark(LenWords(f.left)), Step("rxwm")>>
            \o ReadWords(f.buf, f.start, (f.to_read + f.left) \div 4)

ReadFifo(buf, len) == <<Fill(buf, len, 0, 0)>> \o Tail4(buf, len)

\* The DMA takes len >> 2 words; validation refuses none and nothing runs.
DmaRx(buf, len) == [do |-> "dma", dir |-> "rx", buf |-> buf, at |-> 0, n |-> len \div 4]
DmaReady == Step("dma_is_ready")

StandardRead(addr, len) ==
    <<Word(Op("RD", addr)), Step("ready")>>
        \o Command(4, TRUE, "TX_ONLY") \o Command(len, FALSE, "RX_ONLY")

\* Opcode at standard speed, address at quad speed, dummy clocks.
QuadRead(addr, len) ==
    <<Word(Op("RDQIO", 0))>> \o Command(1, TRUE, "TX_ONLY")
        \o <<Word(Op("ADDR", addr))>> \o Command(4, TRUE, "TX_ONLY")
        \o Command(4, TRUE, "DUMMY") \o Command(len, FALSE, "RX_ONLY")

w25q128jw_read_standard(addr, buf, len) == StandardRead(addr, len) \o ReadFifo(buf, len)
w25q128jw_read_quad(addr, buf, len) == QuadRead(addr, len) \o ReadFifo(buf, len)

\* The DMA is started before the command at standard speed, after it at quad speed.
w25q128jw_read_standard_dma_async(addr, buf, len) == <<DmaRx(buf, len)>> \o StandardRead(addr, len)
w25q128jw_read_quad_dma_async(addr, buf, len) == QuadRead(addr, len) \o <<DmaRx(buf, len)>>
w25q128jw_wait_quad_dma_async(buf, len) == <<DmaReady>> \o Tail4(buf, len)

w25q128jw_read_standard_dma(addr, buf, len) ==
    <<DmaRx(buf, len)>> \o StandardRead(addr, len) \o <<DmaReady>> \o Tail4(buf, len)
w25q128jw_read_quad_dma(addr, buf, len) ==
    QuadRead(addr, len) \o <<DmaRx(buf, len), DmaReady>> \o Tail4(buf, len)

\* Short reads take the FIFO, long ones wait for the DMA and take it.
w25q128jw_read(addr, buf, len) ==
    IF len < RX_DMA_THRESHOLD THEN w25q128jw_read_quad(addr, buf, len)
    ELSE <<DmaReady>> \o w25q128jw_read_quad_dma(addr, buf, len)

ReadBy(variant, addr, buf, len) ==
    CASE variant = "standard"           -> w25q128jw_read_standard(addr, buf, len)
      [] variant = "quad"               -> w25q128jw_read_quad(addr, buf, len)
      [] variant = "standard_dma"       -> w25q128jw_read_standard_dma(addr, buf, len)
      [] variant = "quad_dma"           -> w25q128jw_read_quad_dma(addr, buf, len)
      [] variant = "auto"               -> w25q128jw_read(addr, buf, len)
      [] variant = "standard_dma_async" -> w25q128jw_read_standard_dma_async(addr, buf, len)
      [] variant = "quad_dma_async"     -> w25q128jw_read_quad_dma_async(addr, buf, len)

\* The asynchronous read at standard speed takes whole words only.
Read(variant, addr, buf, len) ==
    IF Sane(addr, len) /\ (variant = "standard_dma_async" => len % 4 = 0)
    THEN ReadBy(variant, addr, buf, len) ELSE <<Return("ERROR")>>

-----------------------------------------------------------------------------
(* Programming and erasing. *)

\* spi_wait_for_tx_not_full and the write of a word, or of the len % 4 bytes at
\* the end.
DataWords(buf, at, len) ==
    [i \in 1..LenWords(len) |->
        [do |-> "data", buf |-> buf, at |-> at + 4 * (i - 1), n |-> Min({4, len - 4 * (i - 1)})]]

\* A chunk of less than a word is refused by the validation, and the function
\* returns before it writes the bytes at the end.
dma_send_toflash(buf, at, len) ==
    IF len < 4 THEN <<>>
    ELSE <<[do |-> "dma", dir |-> "tx", buf |-> buf, at |-> at, n |-> len \div 4], DmaReady>>
            \o DataWords(buf, at + 4 * (len \div 4), len % 4)

UsesDma(variant) == variant \in {"standard_dma", "quad_dma", "auto"}
UsesQuad(variant) == variant \in {"quad", "quad_dma", "auto"}

page_write_not_enabled(variant, addr, buf, at, len) ==
    <<Word(Op(IF UsesQuad(variant) THEN "PPQ" ELSE "PP", addr))>> \o Command(4, TRUE, "TX_ONLY")
        \o (IF UsesDma(variant) THEN dma_send_toflash(buf, at, len) ELSE DataWords(buf, at, len))
        \o Command(len, FALSE, "TX_ONLY") \o flash_wait

page_write(variant, addr, buf, at, len) ==
    flash_write_enable
        \o <<Word(Op(IF UsesQuad(variant) THEN "PPQ" ELSE "PP", addr))>> \o Command(4, TRUE, "TX_ONLY")
        \o (IF UsesDma(variant) THEN dma_send_toflash(buf, at, len) ELSE DataWords(buf, at, len))
        \o Command(len, FALSE, "TX_ONLY") \o flash_wait

Pages(variant, addr, buf, at, len) ==
    [do |-> "pages", variant |-> variant, addr |-> addr, buf |-> buf, at |-> at, len |-> len]

\* A round of the loop over the pages.
PagesRound(p) ==
    IF p.len > FLASH_PAGE_SIZE
    THEN page_write(p.variant, p.addr, p.buf, p.at, FLASH_PAGE_SIZE)
            \o <<Pages(p.variant, p.addr + FLASH_PAGE_SIZE, p.buf, p.at + FLASH_PAGE_SIZE,
                       p.len - FLASH_PAGE_SIZE)>>
    ELSE page_write(p.variant, p.addr, p.buf, p.at, p.len)

\* The first page takes what is left of it, when the address is not at its start.
page_write_wrapper_unaligned(variant, addr, buf, len) ==
    IF ~Sane(addr, len) THEN <<Return("ERROR")>> ELSE <<Pages(variant, addr, buf, 0, len)>>

page_write_wrapper(variant, addr, buf, len) ==
    LET in_page == addr % FLASH_PAGE_SIZE
        tmp_len == IF in_page = 0 THEN 0 ELSE Min({FLASH_PAGE_SIZE - in_page, len})
    IN IF ~Sane(addr, len) THEN <<Return("ERROR")>>
       ELSE (IF in_page # 0 THEN page_write(variant, addr, buf, 0, tmp_len) ELSE <<>>)
            \o (IF len > tmp_len
                THEN <<Pages(variant, addr + tmp_len, buf, tmp_len, len - tmp_len)>> ELSE <<>>)

\* w25q128jw_write waits for the DMA first when it does not erase.
Write(variant, addr, buf, len) ==
    IF variant = "auto" /\ Sane(addr, len)
    THEN <<DmaReady>> \o page_write_wrapper(variant, addr, buf, len)
    ELSE page_write_wrapper(variant, addr, buf, len)

EraseCommand(op, addr, len) ==
    flash_wait \o flash_write_enable
        \o <<Word(Op(op, addr)), Step("ready")>> \o Command(len, FALSE, "TX_ONLY") \o flash_wait

IfInFlash(addr, steps) == IF addr > MAX_FLASH_ADDR THEN <<>> ELSE steps
w25q128jw_4k_erase(addr) == IfInFlash(addr, EraseCommand("SE", addr, 4))
w25q128jw_32k_erase(addr) == IfInFlash(addr, EraseCommand("BE32", addr, 4))
w25q128jw_64k_erase(addr) == IfInFlash(addr, EraseCommand("BE64", addr, 4))
w25q128jw_chip_erase == EraseCommand("CE", 0, 1)

\* The sectors still to be erased and written.
Sectors(variant, addr, at, len) ==
    [do |-> "sectors", variant |-> variant, addr |-> addr, at |-> at, len |-> len]

SectorsRound32k(s) ==
    LET start == AlignDown(s.addr, FLASH_SECTOR_SIZE)
        write_length == Min({FLASH_SECTOR_SIZE - (s.addr - start), s.len})
    IN IF s.len = 0 THEN <<>>
       ELSE Read(s.variant, start, "sector", FLASH_SECTOR_SIZE) \o w25q128jw_32k_erase(start)
            \o <<[do |-> "memcpy", to |-> s.addr - start, at |-> s.at, n |-> write_length]>>
            \o Write(s.variant, start, "sector", FLASH_SECTOR_SIZE)
            \o <<Sectors(s.variant, s.addr + write_length, s.at + write_length, s.len - write_length)>>

\* A round of erase_and_write: the sector is read, erased, changed in the
\* buffer and written.
SectorsRound(s) ==
    LET start == AlignDown(s.addr, FLASH_SECTOR_SIZE)
        write_length == Min({FLASH_SECTOR_SIZE - (s.addr - start), s.len})
    IN IF s.len = 0 THEN <<>>
       ELSE Read(s.variant, start, "sector", FLASH_SECTOR_SIZE) \o w25q128jw_4k_erase(start)
            \o <<[do |-> "memcpy", to |-> s.addr - start, at |-> s.at, n |-> write_length]>>
            \o Write(s.variant, start, "sector", FLASH_SECTOR_SIZE)
            \o <<Sectors(s.variant, s.addr + write_length, s.at + write_length, s.len - write_length)>>

\* The functions that erase and write differ in the read and the write they use;
\* only w25q128jw_write checks the whole range before it starts.
w25q128jw_erase_and_write_standard(addr, len) == <<Sectors("standard", addr, 0, len)>>
w25q128jw_erase_and_write_standard_dma(addr, len) == <<Sectors("standard_dma", addr, 0, len)>>
w25q128jw_erase_and_write_quad(addr, len) == <<Sectors("quad", addr, 0, len)>>
w25q128jw_erase_and_write_quad_dma(addr, len) == <<Sectors("quad_dma", addr, 0, len)>>
erase_and_write(addr, len) == <<Sectors("auto", addr, 0, len)>>

EraseAndWrite(variant, addr, len) ==
    CASE variant = "standard"     -> w25q128jw_erase_and_write_standard(addr, len)
      [] variant = "standard_dma" -> w25q128jw_erase_and_write_standard_dma(addr, len)
      [] variant = "quad"         -> w25q128jw_erase_and_write_quad(addr, len)
      [] variant = "quad_dma"     -> w25q128jw_erase_and_write_quad_dma(addr, len)
      [] variant = "auto" -> IF Sane(addr, len) THEN erase_and_write(addr, len) ELSE <<Return("ERROR")>>

Erase(op, addr) ==
    CASE op = "SE"   -> w25q128jw_4k_erase(addr)  [] op = "BE32" -> w25q128jw_32k_erase(addr)
      [] op = "BE64" -> w25q128jw_64k_erase(addr) [] op = "CE"   -> w25q128jw_chip_erase

w25q128jw_reset == flash_wait \o flash_reset \o flash_wait
w25q128jw_reset_force == flash_reset \o flash_wait
w25q128jw_power_down == <<Word(Op("PD", 0))>> \o Command(1, FALSE, "TX_ONLY")

\* The erase functions return no value when they succeed.
Program(c) ==
    CASE c.fn = "init" -> flash_power_up \o set_QE_bit
      [] c.fn = "read" -> Read(c.variant, c.addr, "user", c.len) \o <<Return("OK")>>
      [] c.fn = "wait" -> w25q128jw_wait_quad_dma_async("user", c.len) \o <<Return("OK")>>
      [] c.fn = "write" -> Write(c.variant, c.addr, "user", c.len) \o <<Return("OK")>>
      [] c.fn = "erase_and_write" -> EraseAndWrite(c.variant, c.addr, c.len) \o <<Return("OK")>>
      [] c.fn = "erase" -> Erase(c.variant, c.addr) \o <<Return("NONE")>>
      [] c.fn = "reset" -> w25q128jw_reset \o <<Return("NONE")>>
      [] c.fn = "reset_force" -> w25q128jw_reset_force \o <<Return("NONE")>>
      [] c.fn = "power_down" -> w25q128jw_power_down \o <<Return("NONE")>>

-----------------------------------------------------------------------------
(* The flash. *)

\* A busy flash takes only the status and the reset commands, one that is
\* powered down only the command that wakes it; the quad commands need QE.
Takes(op) ==
    IF flash.down THEN op = "RPD"
    ELSE /\ ~flash.busy \/ op \in {"RSR1", "RSR2", "ERESET", "RESET", "RPD"}
         /\ op \in {"RDQIO", "PPQ"} => flash.qe
         /\ op \in {"PP", "PPQ", "SE", "BE32", "BE64", "CE", "WSR2"} => flash.wel

Program1(old, new) == IF old = Blank \/ old = new THEN new ELSE Garbage

\* Data past the end of the page wraps to its start.
ProgramPage(s) ==
    LET page == AlignDown(s.addr, FLASH_PAGE_SIZE)
        target(i) == page + ((s.addr + i - 1) % FLASH_PAGE_SIZE)
    IN [a \in Addresses |->
          IF \E i \in DOMAIN s.bytes : target(i) = a
          THEN Program1(mem[a], s.bytes[Max({i \in DOMAIN s.bytes : target(i) = a})])
          ELSE mem[a]]

EraseSize(op) ==
    CASE op = "SE" -> FLASH_SECTOR_SIZE [] op = "BE32" -> Block32
      [] op = "BE64" -> Block64 [] op = "CE" -> FlashSize

EraseBlock(s) ==
    [a \in Addresses |->
        IF a \div EraseSize(s.op) = s.addr \div EraseSize(s.op) THEN Blank ELSE mem[a]]

\* The release of chip select.
Execute ==
    LET s == flash.sel[1]
        f == [flash EXCEPT !.sel = <<>>]
    IN \/ /\ flash.sel # <<>> /\ ~s.taken
          /\ flash' = [f EXCEPT !.lost = @ \/ app.ready] /\ UNCHANGED mem
       \/ /\ flash.sel # <<>> /\ s.taken /\ s.op \in {"PP", "PPQ"}
          /\ mem' = ProgramPage(s) /\ flash' = [f EXCEPT !.busy = TRUE, !.wel = FALSE]
       \/ /\ flash.sel # <<>> /\ s.taken /\ s.op \in {"SE", "BE32", "BE64", "CE"}
          /\ mem' = EraseBlock(s) /\ flash' = [f EXCEPT !.busy = TRUE, !.wel = FALSE]
       \/ /\ flash.sel # <<>> /\ s.taken /\ s.op = "WSR2"
          /\ flash' = [f EXCEPT !.busy = TRUE, !.wel = FALSE, !.qe = (s.bytes = <<1>>)]
          /\ UNCHANGED mem
       \/ /\ flash.sel # <<>> /\ s.taken
          /\ s.op \in {"WE", "RD", "RDQIO", "RSR1", "RSR2", "ERESET", "RESET", "PD", "RPD"}
          /\ flash' = [f EXCEPT !.wel = (@ \/ s.op = "WE") /\ ~(s.op = "RESET" /\ flash.armed),
                                !.busy = @ \/ (s.op = "RESET" /\ flash.armed),
                                !.armed = (s.op = "ERESET"),
                                !.down = (@ \/ s.op = "PD") /\ s.op # "RPD"]
          /\ UNCHANGED mem
       \/ /\ flash.sel = <<>> /\ UNCHANGED <<flash, mem>>

\* The bytes of the word on the wires: the last one of a command may be short.
BytesNow == Min({4, cur[1].cmd.len - 4 * (WordsOf(cur[1].cmd) - cur[1].left)})

Pad(bytes) == [i \in 1..4 |-> IF i <= Len(bytes) THEN bytes[i] ELSE 0]
Bit(b) == IF b THEN 1 ELSE 0

\* What the flash answers: a status register, memory, or an idle bus.
Answer ==
    LET s == flash.sel[1]
    IN IF flash.sel = <<>> \/ ~s.taken THEN Pad([i \in 1..BytesNow |-> Blank])
       ELSE CASE s.op = "RSR1" -> Pad(<<Bit(flash.busy)>>)
              [] s.op = "RSR2" -> Pad(<<Bit(flash.qe)>>)
              [] OTHER -> Pad([i \in 1..BytesNow |-> mem[(s.addr + s.sent + i - 1) % FlashSize]])

\* The word taken from the TX FIFO as the flash reads it: an opcode when it
\* comes first, data (of any word) later.
Shift(w) ==
    IF flash.sel = <<>>
    THEN <<[op |-> w.op, addr |-> w.addr, bytes |-> <<>>, sent |-> 0, taken |-> Takes(w.op)]>>
    ELSE LET s == flash.sel[1]
         IN IF s.op = "RDQIO" THEN <<[s EXCEPT !.addr = w.addr]>>
            ELSE <<[s EXCEPT !.bytes = @ \o SubSeq(w.bytes \o <<Garbage, Garbage, Garbage, Garbage>>,
                                                   1, BytesNow)]>>

\* A word without data for the flash.
Clocked(s) == [s EXCEPT !.sent = @ + BytesNow]

-----------------------------------------------------------------------------
(* The host with the flash attached, and the DMA. *)

HostKept == UNCHANGED <<event_enable, intr_enable, intr_state, error_status>>
DriverKept == UNCHANGED <<prog, call, user, sector, app>>

ExchangeWord ==
    /\ Exchange(Answer)
    /\ flash' = [flash EXCEPT !.sel =
                    IF Sends(cur[1].cmd) THEN Shift(Head(tx))
                    ELSE IF @ = <<>> THEN @ ELSE <<Clocked(@[1])>>]
    /\ UNCHANGED <<control, dma, mem>> /\ HostKept /\ DriverKept

EndSegment ==
    /\ EndCommand
    /\ IF cur[1].cmd.csaat THEN UNCHANGED <<flash, mem>> ELSE Execute
    /\ UNCHANGED <<control, dma>> /\ HostKept /\ DriverKept

\* A program, an erase, a write of the status register or a reset is over.
FlashReady ==
    /\ flash.busy /\ flash' = [flash EXCEPT !.busy = FALSE]
    /\ UNCHANGED <<hostVars, dma, mem>> /\ DriverKept

Put(buffer, at, bytes) ==
    [i \in DOMAIN buffer |-> IF i - at \in 0..Len(bytes) - 1 THEN bytes[i - at + 1] ELSE buffer[i]]
Store(buf, at, bytes) ==
    IF buf = "user" THEN user' = Put(user, at, bytes) /\ UNCHANGED sector
                    ELSE sector' = Put(sector, at, bytes) /\ UNCHANGED user
Fetch(buf, at, n) ==
    [i \in 1..n |-> IF buf = "user" THEN user[at + i - 1] ELSE sector[at + i - 1]]

DmaIdle == [dir |-> "none", buf |-> "user", at |-> 0, n |-> 0]
Advance == [dma EXCEPT !.at = @ + 4, !.n = @ - 1]

\* A word whenever the FIFO can give or take one.
DmaMove ==
    /\ dma.n > 0
    /\ dma' = IF dma.n = 1 THEN DmaIdle ELSE Advance
    /\ \/ /\ dma.dir = "rx" /\ rx # <<>>
          /\ Store(dma.buf, dma.at, Head(rx)) /\ rx' = Tail(rx) /\ UNCHANGED tx
       \/ /\ dma.dir = "tx" /\ Len(tx) < TxDepth
          /\ tx' = Append(tx, [Op("DATA", 0) EXCEPT !.bytes = Fetch(dma.buf, dma.at, 4)])
          /\ UNCHANGED <<rx, user, sector>>
    /\ UNCHANGED <<cmdq, cur, control, prog, call, app, flash, mem>> /\ HostKept

-----------------------------------------------------------------------------
(* The application and the steps of the driver. *)

Writes == {"write", "erase_and_write"}
Span(c) == c.addr..c.addr + c.len - 1
Async(c) == c.fn = "read" /\ c.variant \in {"standard_dma_async", "quad_dma_async"}
Running == prog # <<>>

Call(fn, variant, addr, len) == [fn |-> fn, variant |-> variant, addr |-> addr, len |-> len]

\* The tests of example_spi_read and example_spi_write: each way to read, and
\* each way to write, read back and cleaned up.
TestRead(variant, addr, len) == <<Call("read", variant, addr, len)>>
TestWrite(variant, addr, len) ==
    <<Call("erase_and_write", variant, addr, len), Call("read", "auto", addr, len),
      Call("erase", "SE", addr, 0)>>

\* The calls a test may make.  The DMA moves whole words, so a read or a write
\* by DMA is of whole words: for a rest it would touch the FIFO without a wait
\* (w25q.c:527, :940, :1066).  The asynchronous standard read refuses others
\* itself (w25q.c:549).
ReadWays == {"standard", "quad", "standard_dma", "quad_dma", "auto"}
AsyncWays == {"standard_dma_async", "quad_dma_async"}
EraseWays == {"SE", "BE32", "BE64", "CE"}
WholeRead(variant, len) ==
    \/ variant \in {"standard_dma", "quad_dma", "quad_dma_async"}
    \/ variant = "auto" /\ len >= RX_DMA_THRESHOLD
    => len % 4 = 0
WholeWrite(variant, addr, len) == UsesDma(variant) => addr % 4 = 0 /\ len % 4 = 0
WellFormed(c) ==
    /\ c.addr \in Nat /\ c.len \in Nat
    /\ \/ c.fn = "read" /\ c.variant \in ReadWays \cup AsyncWays /\ WholeRead(c.variant, c.len)
       \/ c.fn = "write" /\ c.variant \in ReadWays /\ WholeWrite(c.variant, c.addr, c.len)
       \/ c.fn = "erase_and_write" /\ c.variant \in ReadWays
       \/ c.fn = "erase" /\ c.variant \in EraseWays
       \/ c.fn \in {"reset", "reset_force", "power_down"}

ASSUME TestsAssumption ==
    /\ Tests \subseteq Seq([fn : STRING, variant : STRING, addr : Nat, len : Nat])
    /\ \A test \in Tests : test # <<>> /\ \A i \in 1..Len(test) : WellFormed(test[i])

\* The functions that do not erase are for memory that is erased.
Suitable(c) == c.fn = "write" => \A a \in Span(c) \cap Addresses : mem[a] = Blank

\* The driver is initialised first, and again after a power-down or a reset; an
\* asynchronous read is followed by the wait for it, a call of a test by the
\* next one, and a call that fails ends the application's test.
NextCalls ==
    IF ~app.ready THEN {<<Call("init", "auto", 0, 0)>>}
    ELSE IF Async(call) /\ call.code = "OK"
    THEN {<<Call("wait", call.variant, call.addr, call.len)>> \o app.todo}
    ELSE IF app.todo # <<>> /\ call.code = "OK" THEN {app.todo}
    ELSE {test \in Tests : app.tests < MaxTests /\ Suitable(test[1])}

Start(calls) ==
    LET c == Head(calls)
    IN /\ ~Running
       /\ prog' = Program(c)
       /\ call' = [fn |-> c.fn, variant |-> c.variant, addr |-> c.addr, len |-> c.len,
                   code |-> "RUNNING", before |-> IF c.fn \in Writes THEN mem ELSE <<>>]
       /\ user' = IF c.fn = "wait" THEN user
                  ELSE [i \in DOMAIN user |-> IF c.fn \in Writes THEN 100 + i ELSE 0]
       /\ app' = [app EXCEPT !.todo = Tail(calls),
                             !.tests = IF c.fn \in {"init", "wait"} \/ calls = app.todo
                                       THEN @ ELSE @ + 1]
       /\ UNCHANGED <<hostVars, sector, dma, flash, mem>>

\* The next access of the running call is of the given kind.
At(do) == Running /\ prog[1].do = do
Continue == prog' = Tail(prog)
CallKept == UNCHANGED <<call, app, flash, mem>>
BuffersKept == UNCHANGED <<user, sector>>

\* spi_write_word drops the word when the FIFO is full, spi_set_command the
\* command when the host is not ready.
spi_write_word ==
    /\ At("word") /\ Continue
    /\ IF Len(tx) < TxDepth THEN WriteTxData(prog[1].word) ELSE UNCHANGED <<tx, error_status>>
    /\ UNCHANGED <<cmdq, cur, rx, control, event_enable, intr_enable, intr_state, dma>>
    /\ CallKept /\ BuffersKept

spi_set_command ==
    /\ At("command") /\ Continue
    /\ IF Status.ready THEN WriteCommand(prog[1].cmd) ELSE UNCHANGED <<cmdq, cur, error_status>>
    /\ UNCHANGED <<tx, rx, control, event_enable, intr_enable, intr_state, dma>>
    /\ CallKept /\ BuffersKept

spi_set_rx_watermark ==
    /\ At("watermark") /\ Continue
    /\ control' = [control EXCEPT !.rxwm = prog[1].n]
    /\ UNCHANGED <<cmdq, cur, tx, rx, dma>> /\ HostKept /\ CallKept /\ BuffersKept

\* spi_wait_for_ready, spi_wait_for_rx_watermark and the loops on dma_is_ready.
Waited ==
    /\ \/ At("ready") /\ Status.ready
       \/ At("rxwm") /\ Status.rxwm
       \/ At("dma_is_ready") /\ dma.n = 0
    /\ Continue
    /\ UNCHANGED <<hostVars, dma>> /\ CallKept /\ BuffersKept

\* Each word of data waits for room.
WriteData ==
    /\ At("data") /\ Len(tx) < TxDepth /\ Continue
    /\ WriteTxData([Op("DATA", 0) EXCEPT !.bytes = Fetch(prog[1].buf, prog[1].at, prog[1].n)])
    /\ UNCHANGED <<cmdq, cur, rx, control, event_enable, intr_enable, intr_state, dma>>
    /\ CallKept /\ BuffersKept

\* spi_read_word gives nothing when the FIFO is empty: a whole word of the
\* buffer stays as it was, the copy of the last bytes takes zeros.
spi_read_word ==
    /\ At("read") /\ Continue
    /\ LET h == prog[1]
       IN \/ /\ rx # <<>> /\ ReadRxData /\ Store(h.buf, h.at, SubSeq(Head(rx), 1, h.n))
          \/ /\ rx = <<>> /\ h.n = 4 /\ UNCHANGED <<rx, error_status>> /\ BuffersKept
          \/ /\ rx = <<>> /\ h.n < 4 /\ UNCHANGED <<rx, error_status>>
             /\ Store(h.buf, h.at, [i \in 1..h.n |-> 0])
    /\ UNCHANGED <<cmdq, cur, tx, control, event_enable, intr_enable, intr_state, dma>> /\ CallKept

\* The status register read by flash_wait, and the two reads of set_QE_bit.
ReadStatus ==
    /\ At("status") \/ At("status2") \/ At("qe")
    /\ ReadRxData
    /\ LET bit == Head(rx)[1] % 2
       IN /\ prog' = IF prog[1].do = "status" /\ bit = 1 THEN Poll \o Tail(prog) ELSE Tail(prog)
          /\ call' = IF prog[1].do = "qe"
                     THEN [call EXCEPT !.code = IF bit = 1 THEN "OK" ELSE "ERROR"] ELSE call
          /\ app' = IF prog[1].do = "qe" THEN [app EXCEPT !.ready = (bit = 1)] ELSE app
    /\ UNCHANGED <<cmdq, cur, tx, control, event_enable, intr_enable, intr_state, dma, flash, mem>>
    /\ BuffersKept

\* Validation, load and launch.
dma_launch ==
    /\ At("dma") /\ Continue
    /\ dma' = IF prog[1].n = 0 THEN dma
              ELSE [dir |-> prog[1].dir, buf |-> prog[1].buf, at |-> prog[1].at, n |-> prog[1].n]
    /\ UNCHANGED hostVars /\ CallKept /\ BuffersKept

memcpy ==
    /\ At("memcpy") /\ Continue
    /\ sector' = Put(sector, prog[1].to, Fetch("user", prog[1].at, prog[1].n))
    /\ UNCHANGED <<hostVars, dma, user>> /\ CallKept

Unroll ==
    /\ \/ At("fill") /\ prog' = FillRound(prog[1]) \o Tail(prog)
       \/ At("pages") /\ prog' = PagesRound(prog[1]) \o Tail(prog)
       \/ At("sectors") /\ prog' = SectorsRound(prog[1]) \o Tail(prog)
    /\ UNCHANGED <<hostVars, dma>> /\ CallKept /\ BuffersKept

ReturnCode ==
    /\ At("return") /\ prog' = <<>>
    /\ call' = [call EXCEPT !.code = prog[1].code]
    /\ app' = IF call.fn = "power_down" THEN [app EXCEPT !.ready = FALSE] ELSE app
    /\ UNCHANGED <<hostVars, dma, flash, mem>> /\ BuffersKept

\* A reset of the microcontroller: its chip select goes up, the flash goes on.
Crash ==
    /\ app.crashes < MaxCrashes /\ app.ready
    /\ cmdq' = <<>> /\ cur' = <<>> /\ tx' = <<>> /\ rx' = <<>>
    /\ control' = [txwm |-> 0, rxwm |-> 127] /\ UNCHANGED <<event_enable, intr_enable, intr_state>>
    /\ error_status' = {}
    /\ prog' = <<>> /\ dma' = DmaIdle
    /\ call' = [call EXCEPT !.code = "CRASHED"]
    /\ app' = [app EXCEPT !.ready = FALSE, !.todo = <<>>, !.crashes = @ + 1]
    /\ Execute
    /\ UNCHANGED <<user, sector>>

FlashMemory == [a \in Addresses |-> IF a \in Erased THEN Blank ELSE a]

W25qInit ==
    /\ HostInit /\ control = [txwm |-> 0, rxwm |-> 127]
    /\ prog = <<>>
    /\ call = [fn |-> "none", variant |-> "auto", addr |-> 0, len |-> 0, code |-> "NONE", before |-> <<>>]
    /\ user = [i \in Addresses |-> 0] /\ sector = [i \in 0..FLASH_SECTOR_SIZE - 1 |-> 0]
    /\ dma = DmaIdle
    /\ \E qe, down \in BOOLEAN :
          flash = [sel |-> <<>>, busy |-> FALSE, wel |-> FALSE, qe |-> qe, armed |-> FALSE,
                   down |-> down, lost |-> FALSE]
    /\ mem = FlashMemory
    /\ app = [ready |-> FALSE, tests |-> 0, todo |-> <<>>, crashes |-> 0]

Driver ==
    \/ spi_write_word \/ spi_set_command \/ spi_set_rx_watermark \/ Waited \/ WriteData
    \/ spi_read_word \/ ReadStatus \/ dma_launch \/ memcpy \/ Unroll \/ ReturnCode

W25qNext ==
    \/ \E calls \in NextCalls : Start(calls)
    \/ Driver \/ ExchangeWord \/ EndSegment \/ DmaMove \/ FlashReady \/ Crash

\* The core and the peripherals are clocked and the flash ends what it does;
\* nothing makes the application call or the microcontroller be reset.
W25qSpec ==
    /\ W25qInit /\ [][W25qNext]_vars
    /\ WF_vars(Driver) /\ WF_vars(ExchangeWord) /\ WF_vars(EndSegment)
    /\ WF_vars(DmaMove) /\ WF_vars(FlashReady)

-----------------------------------------------------------------------------
(* Properties. *)

\* The values the driver works on stay what the code declares: steps of a
\* call, buffers of bytes, a channel with words left, FIFOs within their
\* depths, and the host never records an error.
W25qTypeOK ==
    /\ \A i \in DOMAIN prog : prog[i].do \in
          {"word", "command", "ready", "watermark", "rxwm", "status", "status2", "qe", "data",
           "read", "dma", "dma_is_ready", "memcpy", "fill", "pages", "sectors", "return"}
    /\ call.code \in {"RUNNING", "OK", "ERROR", "NONE", "CRASHED"}
    /\ user \in [Addresses -> 0..255] /\ sector \in [0..FLASH_SECTOR_SIZE - 1 -> 0..255]
    /\ mem \in [Addresses -> 0..255]
    /\ dma.n \in 0..FlashSize /\ dma.dir \in {"none", "rx", "tx"}
    /\ Len(tx) <= TxDepth /\ Len(rx) <= RxDepth /\ Len(cmdq) <= CmdDepth
    /\ error_status = {}

\* A read that returns FLASH_OK has filled the buffer with the bytes of the
\* flash, whichever way they came and however the words were cut; a read
\* with DMA that does not wait, when the wait returns.
ReadReturnsFlash ==
    call.code = "OK" /\ call.fn \in {"read", "wait"} /\ ~Async(call) =>
        \A i \in 0..call.len - 1 : user[i] = mem[call.addr + i]

\* A write that returns FLASH_OK has put the caller's bytes at their address,
\* and no write, failed or not, changes any other byte of the flash.
WriteReachesFlash ==
    call.fn \in Writes /\ call.code \in {"OK", "ERROR"} =>
        /\ \A a \in Addresses \ Span(call) : mem[a] = call.before[a]
        /\ call.code = "OK" => \A a \in Span(call) : mem[a] = 100 + (a - call.addr)
        /\ \A a \in Span(call) \cap Addresses : mem[a] \in {call.before[a], 100 + (a - call.addr)}

\* A reset in the middle of a write leaves every sector alone that the write
\* does not touch: the damage is confined to the sectors of its range.
CrashIsConfined ==
    call.fn \in Writes /\ call.code \in {"RUNNING", "CRASHED"} =>
        \A a \in Addresses :
            \/ mem[a] = call.before[a]
            \/ \E b \in Span(call) : a \div FLASH_SECTOR_SIZE = b \div FLASH_SECTOR_SIZE

\* The flash takes every command of an initialised driver: none comes while
\* it is busy or powered down, without write enable, or a quad command before
\* QE is set.
NoCommandLost == ~flash.lost

\* Every call returns, or the microcontroller is reset.
CallsReturn == Running ~> ~Running

=============================================================================
