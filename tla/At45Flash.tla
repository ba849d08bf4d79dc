------------------------------ MODULE At45Flash ------------------------------
(***************************************************************************)
(* The serial flash of the board: the DataFlash driver of the first boot   *)
(* loader (at45.cpp, dataflash.cpp) together with the AT45DB041 it drives. *)
(*                                                                         *)
(* The chip takes one command at a time.  A command that moves a whole     *)
(* page keeps it busy, and what is sent to it meanwhile is ignored.  The   *)
(* driver polls the status register between commands.  The power may fail  *)
(* or the processor be reset at any point; the first also ends what the    *)
(* chip is doing, wherever it is.                                          *)
(***************************************************************************)
EXTENDS Integers, Sequences

CONSTANTS
  PageSize,    \* bytes in a page (264)
  Pages,       \* pages of the device (2048)
  Byte,        \* the values a byte takes
  ERASED,      \* the byte of an erased cell (0xFF)
  JUNK,        \* a cell or a byte of memory whose value is not known
  Word,        \* 2^32: the range of an address
  MaxChunk,    \* bytes one continuous read asks for (0x8000)
  Images,      \* the images write_dataflash is called with
  Dests,       \* the addresses write_dataflash and read_dataflash are called with
  Sizes,       \* the sizes read_dataflash is called with
  MaxWrites,   \* bound: calls of write_dataflash
  MaxFails     \* bound: power failures and resets

ASSUME SizeAssumption == PageSize \in Nat \ {0} /\ Pages \in Nat \ {0}
ASSUME ByteAssumption == ERASED \in Byte /\ JUNK \notin Byte
ASSUME WordAssumption == Word \in Nat /\ Word > 4 * PageSize * Pages
ASSUME CallAssumption == /\ Images \subseteq Seq(Byte)
                         /\ \A im \in Images : Len(im) < Word - 2 * PageSize * Pages
                         /\ Dests \subseteq 0 .. Word - 1
                         /\ Sizes \subseteq 0 .. Word - 1
                         /\ MaxChunk \in Nat \ {0}
                         /\ MaxWrites \in Nat /\ MaxFails \in Nat

VARIABLES
  mem,     \* the main memory of the chip: page, byte in page
  buf1,    \* its RAM buffer 1
  job,     \* the page command the chip is busy with
  pc,      \* where the driver is
  ram,     \* the caller's buffer
  src,     \* bytes of the buffer the driver is past
  dest,    \* the flash address it has reached
  size,    \* the bytes it still has to move
  status,  \* what the last call returned
  call,    \* history: which function that was
  target,  \* history: what the last write, finished, leaves in the memory
  writes,  \* history: calls of write_dataflash
  fails    \* history: power failures and resets

chipvars == <<mem, buf1, job>>
drvvars  == <<pc, ram, src, dest, size, status, call>>
vars     == <<chipvars, drvvars, target, writes, fails>>

PageNo   == 0 .. Pages - 1
Offset   == 0 .. PageSize - 1
Cell     == Byte \cup {JUNK}
Capacity == PageSize * Pages
NoJob    == [op |-> "none", page |-> 0]
Blank(v) == [o \in Offset |-> v]

\* The address of a byte of a page.
Linear(p, o) == p * PageSize + o

Init ==
  /\ mem = [p \in PageNo |-> Blank(ERASED)] /\ buf1 = Blank(JUNK) /\ job = NoJob
  /\ pc = "idle" /\ ram = <<>> /\ src = 0 /\ dest = 0 /\ size = 0 /\ status = "none"
  /\ call = "none" /\ target = mem /\ writes = 0 /\ fails = 0

-----------------------------------------------------------------------------
(* The chip.                                                               *)

Ready == job = NoJob

\* A page command: taken when the chip is ready, ignored when it is busy.
\* The device decodes only as many address bits as it has pages.
SendCommand(op, address) ==
  job' = IF Ready THEN [op |-> op, page |-> (address \div PageSize) % Pages] ELSE job

\* Programming only clears bits: on a byte that was not erased it mixes.
Programmed(old, new) ==
  IF old = ERASED THEN new ELSE IF new = ERASED \/ new = old THEN old ELSE JUNK

\* The chip ends what it does and is ready again.
JobDone ==
  /\ ~Ready
  /\ job' = NoJob
  /\ buf1' = IF job.op = "transfer" THEN mem[job.page] ELSE buf1
  /\ mem' = CASE job.op = "transfer" -> mem
              [] job.op = "erase"    -> [mem EXCEPT ![job.page] = Blank(ERASED)]
              [] job.op = "erasepgm" -> [mem EXCEPT ![job.page] = buf1]
              [] job.op = "pgm"      -> [mem EXCEPT ![job.page] =
                                           [o \in Offset |-> Programmed(@[o], buf1[o])]]
  /\ UNCHANGED <<drvvars, target, writes, fails>>

\* The program is lost; what the call had done stays done.
Restart ==
  /\ fails < MaxFails /\ fails' = fails + 1
  /\ pc' = "idle" /\ ram' = <<>> /\ src' = 0 /\ dest' = 0 /\ size' = 0 /\ status' = "none"
  /\ call' = "none"
  /\ UNCHANGED <<target, writes>>

\* The power fails: a page being erased or programmed is left in any state.
PowerFail ==
  /\ Restart
  /\ job' = NoJob /\ buf1' = Blank(JUNK)
  /\ mem' = IF job.op \in {"erase", "erasepgm", "pgm"}
            THEN [mem EXCEPT ![job.page] = Blank(JUNK)] ELSE mem

\* The processor is reset: the chip goes on with what it does.
Reset == Restart /\ UNCHANGED chipvars

-----------------------------------------------------------------------------
(* Calls.  Both functions compare signed integers of Word values; a reset  *)
(* program takes longer to ask for a write than the chip for a page, while *)
(* a read is made at once.                                                 *)

\* The status register, whose bit 7 is polled until it is set.
WaitReady == Ready

Signed(n) == IF n % Word < Word \div 2 THEN n % Word ELSE (n % Word) - Word

TooLarge(address, n) == Signed(address + n) > Capacity

InRange(first, n, a) == first <= a /\ a < first + n

\* AT91F_DataFlashWrite, to the end of its test of the address.
WriteCall ==
  /\ pc = "idle" /\ Ready /\ writes < MaxWrites
  /\ \E image \in Images, d \in Dests :
       /\ writes' = writes + 1 /\ call' = "write"
       /\ IF TooLarge(d, Len(image))
          THEN /\ status' = "OVERFLOW"
               /\ UNCHANGED <<pc, ram, src, dest, size, target>>
          ELSE /\ pc' = IF d % PageSize # 0 THEN "head" ELSE "loop"
               /\ ram' = image /\ src' = 0 /\ dest' = d /\ size' = Len(image)
               /\ status' = "none"
               /\ target' = [p \in PageNo |-> [o \in Offset |->
                               IF InRange(d, Len(image), Linear(p, o))
                               THEN image[Linear(p, o) - d + 1] ELSE mem[p][o]]]
  /\ UNCHANGED <<chipvars, fails>>

\* What the driver does between two calls of the chip.
Goto(from, to) ==
  /\ pc = from /\ pc' = to
  /\ UNCHANGED <<status, call, target, writes, fails>>

AdrInPage == dest % PageSize

\* The bytes from dest to the end of its page, or to the end of the image.
Length == IF size < PageSize - AdrInPage THEN size ELSE PageSize - AdrInPage

\* The transfer is full duplex and receives where it sends from: what the chip
\* drives meanwhile is stored over the bytes that were sent.
SpiWrite(n) == ram' = [i \in DOMAIN ram |-> IF InRange(src + 1, n, i) THEN JUNK ELSE ram[i]]

\* The image goes to buffer 1 from "at" on.
WriteBuffer(at, n) ==
  /\ buf1' = IF Ready THEN [o \in Offset |-> IF InRange(at, n, o) THEN ram[src + o - at + 1]
                                                                   ELSE buf1[o]]
                      ELSE buf1
  /\ SpiWrite(n)

\* src, dest and size move on.
\* Mutant: always by a page in the size.
AdvancePage(n) == src' = src + n /\ dest' = (dest + n) % Word /\ size' = size - PageSize

Advance(n) == src' = src + n /\ dest' = (dest + n) % Word /\ size' = size - n
-----------------------------------------------------------------------------
(* AT91F_PartialPageWrite, for the part before the first page border and    *)
(* for the part after the last: the page is read into buffer 1, patched    *)
(* there, and programmed with a built-in erase.                            *)

PartTransfer ==
  /\ \/ Goto("head", "patch")
     \/ Goto("loop", "patch") /\ 0 < size /\ size < PageSize
  /\ SendCommand("transfer", dest)
  /\ UNCHANGED <<mem, buf1, ram, src, dest, size>>

\* Mutant: no wait for the transfer.
PartPatchEarly ==
  /\ Goto("patch", "partpgm")
  /\ WriteBuffer(AdrInPage, Length)
  /\ UNCHANGED <<mem, job, src, dest, size>>

PartPatch ==
  /\ WaitReady
  /\ Goto("patch", "partpgm")
  /\ WriteBuffer(AdrInPage, Length)
  /\ UNCHANGED <<mem, job, src, dest, size>>

PartProgram ==
  /\ WaitReady
  /\ Goto("partpgm", "partend")
  /\ SendCommand("erasepgm", dest)
  /\ UNCHANGED <<mem, buf1, ram, src, dest, size>>

PartEnd ==
  /\ WaitReady
  /\ Goto("partend", "loop")
  /\ Advance(Length)
  /\ UNCHANGED <<chipvars, ram>>

(* The loop over whole pages: buffer 1 is filled, the page erased and      *)
(* programmed without erase.                                               *)

PageFill ==
  /\ Goto("loop", "erase") /\ size >= PageSize
  /\ WriteBuffer(0, PageSize)
  /\ UNCHANGED <<mem, job, src, dest, size>>

PageErase ==
  /\ WaitReady
  /\ Goto("erase", "pgm")
  /\ SendCommand("erase", dest)
  /\ UNCHANGED <<mem, buf1, ram, src, dest, size>>

PageProgram ==
  /\ WaitReady
  /\ Goto("pgm", "pageend")
  /\ SendCommand("pgm", dest)
  /\ UNCHANGED <<mem, buf1, ram, src, dest, size>>

\* Mutant: the source does not move on.
PageEndSame ==
  /\ WaitReady
  /\ Goto("pageend", "loop")
  /\ dest' = (dest + PageSize) % Word /\ size' = size - PageSize
  /\ UNCHANGED <<chipvars, ram, src>>

PageEnd ==
  /\ WaitReady
  /\ Goto("pageend", "loop")
  /\ Advance(PageSize)
  /\ UNCHANGED <<chipvars, ram>>

WriteReturn ==
  /\ pc = "loop" /\ size = 0
  /\ pc' = "idle" /\ status' = "OK"
  /\ UNCHANGED <<chipvars, ram, src, dest, size, call, target, writes, fails>>

-----------------------------------------------------------------------------
(* AT91F_DataFlashRead: chunks of at most MaxChunk bytes, each with a test  *)
(* of its own.                                                             *)

ReadCall ==
  /\ pc = "idle" /\ pc' = "read"
  /\ \E d \in Dests, n \in Sizes :
       /\ ram' = [i \in 1 .. n |-> JUNK] /\ src' = 0 /\ dest' = d /\ size' = n
  /\ status' = "none" /\ call' = "read"
  /\ UNCHANGED <<chipvars, target, writes, fails>>

SizeToRead == IF size < MaxChunk THEN size ELSE MaxChunk

\* A continuous read, which goes on from the last byte of the device to the
\* first; a busy chip drives nothing.
Shown(a) == IF Ready THEN mem[(a \div PageSize) % Pages][a % PageSize] ELSE JUNK

\* Mutant: no wait for the chip.
ReadChunkEarly ==
  /\ Goto("read", "read") /\ size > 0
  /\ ~TooLarge(dest, SizeToRead)
  /\ ram' = [i \in DOMAIN ram |->
               IF InRange(src + 1, SizeToRead, i) THEN Shown(dest + i - src - 1) ELSE ram[i]]
  /\ Advance(SizeToRead)
  /\ UNCHANGED chipvars

ReadChunk ==
  /\ WaitReady
  /\ Goto("read", "read") /\ size > 0
  /\ ~TooLarge(dest, SizeToRead)
  /\ ram' = [i \in DOMAIN ram |->
               IF InRange(src + 1, SizeToRead, i) THEN Shown(dest + i - src - 1) ELSE ram[i]]
  /\ Advance(SizeToRead)
  /\ UNCHANGED chipvars

ReadReturn ==
  /\ WaitReady /\ pc = "read"
  /\ \/ size = 0 /\ status' = "OK"
     \/ size > 0 /\ TooLarge(dest, SizeToRead) /\ status' = "ERROR"
  /\ pc' = "idle"
  /\ UNCHANGED <<chipvars, ram, src, dest, size, call, target, writes, fails>>

-----------------------------------------------------------------------------
Write   == \/ PartTransfer \/ PartPatch \/ PartProgram \/ PartEnd
           \/ PageFill \/ PageErase \/ PageProgram \/ PageEnd \/ WriteReturn
Read    == ReadChunk \/ ReadReturn
Failure == PowerFail \/ Reset

Next == WriteCall \/ ReadCall \/ Write \/ Read \/ JobDone \/ Failure

Spec == Init /\ [][Next]_vars

-----------------------------------------------------------------------------
(* Types and safety.                                                       *)

WritePlaces == {"head", "loop", "patch", "partpgm", "partend", "erase", "pgm", "pageend"}
Rewriting   == {"erase", "erasepgm", "pgm"}

\* Every variable has its type.
TypeOK ==
  /\ mem \in [PageNo -> [Offset -> Cell]] /\ target \in [PageNo -> [Offset -> Cell]]
  /\ buf1 \in [Offset -> Cell]
  /\ job \in [op : Rewriting \cup {"transfer"}, page : PageNo] \cup {NoJob}
  /\ pc \in WritePlaces \cup {"idle", "read"}
  /\ ram \in Seq(Cell) /\ src \in Nat /\ dest \in 0 .. Word - 1 /\ size \in Nat
  /\ status \in {"none", "OK", "OVERFLOW", "ERROR"} /\ call \in {"none", "write", "read"}
  /\ writes \in Nat /\ fails \in Nat

\* When write_dataflash returns AT91C_DATAFLASH_OK the device holds the image
\* where it was asked for and all else as it was, whatever calls failed before.
WriteOK == pc = "idle" /\ call = "write" /\ status = "OK" => mem = target

\* When read_dataflash returns OK the buffer holds what the device holds from
\* the address on.
ReadOK ==
  pc = "idle" /\ call = "read" /\ status = "OK" =>
    \A i \in DOMAIN ram : \E p \in PageNo, o \in Offset :
      Linear(p, o) = dest - src + i - 1 /\ ram[i] = mem[p][o]

\* The page the chip or the driver is rewriting, as a set.
OpenPage ==
  IF job.op \in Rewriting THEN {job.page}
  ELSE IF pc = "pgm" THEN {dest \div PageSize} ELSE {}

-----------------------------------------------------------------------------
(* The driver and the chip implement FlashStore: a page is open from the   *)
(* moment the chip begins to erase it until it has programmed it.          *)

CONSTANT UNKNOWN   \* the content of an open page

\* The pages the rest of the write rewrites; an empty image still rewrites the
\* page of an address that is not its first.
Touched == {p \in PageNo : \/ \E o \in Offset : InRange(dest, size, Linear(p, o))
                           \/ pc # "loop" /\ p = dest \div PageSize}

Finished == IF pc \in {"partend", "pageend"} /\ Ready THEN {dest \div PageSize} ELSE {}

Store == INSTANCE FlashStore WITH
           Page <- PageNo, Content <- [Offset -> Cell],
           cell <- [p \in PageNo |-> IF p \in OpenPage THEN UNKNOWN ELSE mem[p]],
           open <- OpenPage, goal <- target,
           todo <- IF pc \in WritePlaces THEN Touched \ Finished ELSE {},
           active <- pc \in WritePlaces

\* Writes, power failures and resets together show what FlashStore shows: a
\* failure damages at most the page that was being rewritten.
StoreSpec == Store!SSpec
=============================================================================
