# Verification of the armboard software

`armboard` is a single-board computer around the AT91RM9200 (ARM920T): its
circuit board (`eagle/`), the thesis that describes it (`text/`), and its
software from reset to Linux (`software/`): the LAB boot loader in a serial
DataFlash, a memory test, a port of U-Boot 1.3.3, and the files of Linux
2.6.27.8 that were written or changed for the board.

This directory holds TLA+ models of the parts of that software whose
correctness depends on order, on interrupts, on hardware that goes on by itself
or on a power failure; the TLC configurations that check them on small
instances; and theorems about them, for every value of the constants, checked
by TLAPS. `PROJECT.json` lists components, runs, findings, hazards, theorems
and, under "map", the source lines every definition stands for.

## 1. Inventory

How the parts follow one another: the ROM copies the first 16 KB of the
DataFlash to SRAM and starts the **LAB boot loader**. It sets the SDRAM up,
waits a second for a key, and either copies **U-Boot** from the DataFlash to
SDRAM and jumps to it, or offers a menu, from which images are downloaded by
XMODEM and written to the DataFlash. U-Boot reads its environment from the
DataFlash, and loads **Linux** from the DataFlash, an SD card or the network.
The same DataFlash holds, one after the other, boot loader (0x0-0x3FFF), U-Boot
environment (0x4000-0x7FFF) and U-Boot (0x8000-), on pages of 264 bytes whose
bounds are not those of the areas.

Paths are below `software/`; K is `kernel/linux-2.6.27.8/`, L is
`bootloader/lab_bootloader/`, U is `bootloader/u-boot-1.3.3/`.

| component | state it keeps | operations | with whom it interacts, what is hard | what makes it correct | module |
|---|---|---|---|---|---|
| EMAC driver, data (`K drivers/net/arm/at91_ether.c`) | ring of receive descriptors, `rxBuffIndex`, the packet under way `lp->skb`, stopped queue, registers CTL, ISR, IMR | open, close, tx, rx, interrupt handler | three agents: process context, handler, and an EMAC that fills descriptors and latches bits between any two register accesses; errata 11 stops the receiver when the ring is full | frames passed up once, in order, none stranded; the stopped receiver restarted; the sent packet held until sent; the queue woken; a closed interface silent | `At91Ether`, `FrameQueue` |
| EMAC driver, link (same file) | CFG, CTL.MPE, PHY registers, carrier | update_linkspeed, PHY interrupt, open, close, ioctl, set_rx_mode | handler and process context share MPE and CFG; the PHY changes between any two reads; edges on a level line | the MAC has the mode of the link once all is quiet; the management port is on in every access | `At91EtherLink` |
| LAB DataFlash driver (`L at45.cpp`, `dataflash.cpp`) | the descriptor, the caller's buffer; in the chip main memory, RAM buffer, page command under way | write_dataflash, read_dataflash and all they call | a busy chip ignores commands and outlives a processor reset; the SPI transfer receives over what it sends; power may fail in a page | what is written is there and nothing else is changed; a failure costs one page at most | `At45Flash`, `FlashStore` |
| LAB main (`L main.cpp`) | menu state, start timer, download area | start of U-Boot, key, download, questions, write, verify, erase | timer interrupt against key; results ignored; power failure | the report on a verification is true; the boot loader is not overwritten unasked; a board left alone boots | `LabMain` |
| U-Boot flash areas and environment (`U drivers/mtd/dataflash.c`, `at45.c`, `common/env_dataflash.c`, `env_common.c`, board `partition.c`) | protection of the areas, environment in memory and in flash, `gd->env_valid` | env_init, env_relocate, setenv, saveenv, cp, protect | areas share pages; one copy of the environment; power failure inside a save | a torn environment is refused, a saved one found; protected areas kept | `UbootFlash` |
| U-Boot network boot (`U net/tftp.c`, `net/net.c`) | TFTP state, block numbers, wrap offset, timer, pending ARP packet, the bytes loaded | tftp, OACK, DATA, ERROR, time-out, start again, ctrl-c | a server with a session per request, over a network that loses, repeats, delays and reorders; two timers of the same length | what is reported received is the file; nothing is acknowledged before it is stored; the command ends | `Tftp` |
| U-Boot MMC/SD (`U cpu/arm920t/at91rm9200/atmel_mci.c`) | card kind and address, `mmc_blkdev` | mmc_init with three identifications, mmc_bread, every command they send | a card that is a state machine of its own, is exchanged, and answers, is silent or damaged at any command | a card is used only as what it was identified as; what is read is what was asked for; a failed call does not spoil the next | `MmcCard` |
| U-Boot FAT reader (`U fs/fat/fat.c`) | cached part of the FAT, run of clusters, bytes still to load | get_contents, get_fatent, get_cluster, disk_read | reads the blocks of `MmcCard`, which may fall short; a FAT may hold anything | the file is loaded in the order of its chain, nothing past what was asked for, and the number reported is true | `FatLoad` |
| Memory test (`memory_test/main.cpp`) | the memory | march, galloping-pattern and address test, clearing | which faults a sequence of writes and reads can see | the faults a test is for are reported, a good memory passes | `MemoryTest` |
| LAB console (`L com.cpp`, `stdio.cpp`) | line being edited | ReadLine, printf, scanf | sequential | the line typed is the line returned | - |
| U-Boot Ethernet, STE100P (`U .../ether.c`, `ste100p.c`) | ring, PHY | eth_init, eth_send, eth_rx, PHY functions | polled | frames in order; link awaited | - |
| Linux STE100P phylib driver (`K drivers/net/phy/ste100p.c`) | PHY registers | config_init, config_aneg, interrupts, suspend, resume | not used by the EMAC driver | registers as before the suspend | - |
| Linux frame buffer (`K drivers/video/ssd1906fb.c`) | fb_info, mapped regions, registers | probe, remove, blank, set_par | error paths of probe | everything acquired is released once | - |
| Start-up code, board files, LEDs, SPI, serial; openocd, buildroot, kernel configurations; PCB, thesis | registers | straight-line set-up | - | - | - |
| Stock U-Boot and Linux around them | - | - | used, not part of this repository's own work | - | - |

Section 7 says why the last rows have no module.

The hazards of this code, each at its line with the properties that would catch
it, are in `PROJECT.json`. Those without a property carry the reason.

## 2. Plan

In this order, most important first, each with its proofs: what runs for as long
as the board does (1, 2), what a failure of can leave a board that does not boot
(3-5), and what brings an image into memory (6-9).

1. `At91Ether` (+ `FrameQueue`, `At91Ether_proofs`): ring, transmit slot, handler.
2. `At91EtherLink` (+ `At91EtherLink_proofs`): link and shared registers.
3. `At45Flash` (+ `FlashStore`, `At45FlashMC`, `At45Flash_proofs`): driver
   against chip, power, reset.
4. `LabMain` (+ `LabMainMC`, `Lab_proofs`): what is done with 3.
5. `UbootFlash` (+ `UbootFlashMC`, `UbootFlash_proofs`): areas, environment.
6. `Tftp` (+ `TftpMC`, `Tftp_proofs`): loading from the network.
7. `MmcCard` (+ `MmcCard_proofs`): identification and reading of cards.
8. `FatLoad` (+ `FatLoad_proofs`): files on what 7 reads.
9. `MemoryTest` (its theorems are in `Lab_proofs` too): the tests against the
   faults each is for.

All of this is done. What could come next: a model of ether.c under `Tftp`.

Abstract specifications: `FrameQueue`, implemented by `At91Ether` (the queue is
read off the ring), and `FlashStore`, implemented by `At45Flash` (a page is
open while the chip rewrites it). `LabMain` and `UbootFlash` stand on what
`At45Flash` shows of a write: it goes from page to page upwards, and a failure
costs the page under way only. They therefore do not repeat commands and
buffers; `LabMain` writes cell by cell with an unknown cell after a failure.
`FatLoad` in the same way stands on `ReadRight` of `MmcCard`: block_read returns
how many blocks it has read, and those are the ones asked for.

## 3. Modules and code

**`At91Ether`**. One action per register access or critical step of the code;
`pc` is where the process context is, `irq` where the handler is. `OpenClock ..
OpenQueue` are at91ether_open with at91ether_start, `CloseCtl .. CloseQueue`
at91ether_close, `TxStop`, `TxStore`, `TxStart` at91ether_tx, `IrqEnter ..
IrqRbnaOn` at91ether_interrupt with at91ether_rx. `RxFrame`, `RxNoBuffer` and
`TxComplete` are the EMAC. The kernel is a uniprocessor one (`SMP` is not set),
so a handler runs to its end before the process context goes on; an asserted
interrupt is taken before `MaxLatency` more process steps are done. Frames and
packets are numbers in their order. Statistics, addresses and DMA mapping are
left out.

**`At91EtherLink`**. update_linkspeed is a machine of its own (`upd`), run for
open or for the PHY interrupt; `Pin` is the port pin that latches both edges of
the PHY's level. `lp->lock` is the set of places where the handler does not
start. `bmcr` is whether the PHY negotiates or is forced to a mode, as
set_settings can have it; update_linkspeed takes the mode from BMCR then. A PHY
reports in XCSIIS that a link is lost or a negotiation is over; whether it reports
a change of a forced mode depends on the PHY, so both happen, and `silent` keeps
that a change went by without a bit of XCSIIS, or that an ioctl has read the bit
away. request_irq may fail, and open goes on without an interrupt
(`installed`). Not modelled: other PHY types, the polling timer of boards without
a PHY interrupt (this board has one), and the raw writes of an ioctl to other
registers than BMCR, with which anybody allowed to may reset the PHY, power it
down or mask its interrupt.

**`At45Flash`**. The chip is main memory, RAM buffer 1 and the page command it
is busy with; a command sent to a busy chip is lost, which the actions of the
driver respect only because of their waits. Actions follow
AT91F_DataFlashWrite: head of an unaligned page (transfer, patch, program),
whole pages (erase, program), and AT91F_DataFlashRead chunk by chunk. `Signed`
gives the 32-bit comparison of the size test. There is a device: what the driver
does without one is in `LabMain`. `PowerFail` leaves the page under
way unknown, `Reset` leaves the chip running.

**`LabMain`**. `pc` is where main is. `TempoFires` is AT91F_ST_Handler and may
come between the key and the stop of the timer. `Refused` is what the driver
refuses, which main ignores; as in the code the sum of address and size is
compared as a signed number (`Signed`), so that an address from 2^31 (`Half`) on
passes and the device takes it modulo its capacity (`At`), and without a device
the capacity is 0, so that nothing to be written at address 0 passes too and the
driver divides by a page size of 0 (`Hang`: __div0 never returns). A read is
made in chunks of which one may be refused after others were made (`Readable`).
A CRC is the data it was made from. Items of the menu that only print are left
out; the memory tests are commented out in it.

**`UbootFlash`**. Areas have the board's order; `ProtectedAt` and `SizeFits` are
the tests of prot_dataflash and size_dataflash as they are written. A write is
a sequence `left` that `WritePage` shortens by what lies in the page of `dest`.
`PowerFail` makes the page under way unknown. An environment is a CRC cell and
its data; a setenv that finds no room leaves the CRC of what was there before
(`stale`), and saveenv saves that. A device may hold anything at first (`Contents`).

**`Tftp`**. The client is NetLoop with TftpHandler, TftpTimeout, the ARP wait
and startAgainHandler; the server (external) opens a session per request, sends
a block, repeats it after its time-out and gives up. The network is the set of
packets under way: an action takes one out or leaves it there to come again. A
DATA packet carries the number of its block in the file, of which the client
sees the low bits (`Wire`). The content of a unit of memory is its number in the
file. Both sides wait 5 s (the request says "timeout 5"), so that with nothing
under way the timers run out in turn; any other order counts as a fault. The
port of a new attempt is one that nothing under way has: the code takes 1024 +
(time mod 3072), and if chance gave it an old one again (1 in 3072) the client
could mix the blocks of two sessions. The name of the file has no host in front:
TftpStart cuts BootFile off at a ':' (tftp.c:477-486), so that a new attempt for
`host:file` asks for a file with the name of the host. Under TFTP the ARP retry
limit is never reached, because the TFTP timer sets NetArpWaitTry back.

**`MmcCard`**. The card (external) is a state machine that answers commands; a
command or its answer may be lost or damaged (`RCRCE`, which mmc_cmd computes
and does not test, atmel_mci.c:144), a block may not come. `phase` is which of
the three identifications mmc_init is in, `caller` whether mmc_bread is called
by mmc_init for block 0 or by a file system. A card may not choose the address 1
that the driver gives MMC cards. Damage to a block's data (DCRCE, not tested
at line 223 either), and to the OCR, which is asked for many times, is left out.

**`FatLoad`**. `Search` is the loop that lengthens a run of clusters, `GetRun`,
`NextRun`, `GetRest`, `GetLast` read it. `Short` counts the reads that fell short
and whether that went unnoticed. The FAT is any function, cycles and dangling
ends included, and with it what lies on the card behind it: a number beyond the
volume but below the end marks (`Number`) passes CHECK_CLUST and is looked up and
read like a cluster. A byte of the buffer is the number of the cluster and the
position it came from. The first cluster is one of those numbers, or 0 of an empty
file; that of a damaged directory entry, which nobody tests, is left out.

**`MemoryTest`**. One fault at most: a stuck bit, an address that selects
another cell, or a rising bit that inverts a bit of another cell; above its end
the memory is there again. What a unit holds is the set of its bits that are one,
so that `~val` is a set difference; `Number` is `val` of the address test cut to
the access size. `stage` is where the program is. `Complement`, `Scan`, `Restore`
are GALPAT, which takes any address: of one off a word `skew` is the rest, which a
store ignores and by which a load turns the word (`Turned`, ARM920T), while the
comparison that recognises the test cell compares whole addresses; `Write`,
`Read` are the march test; `WriteAddr`, `ReadAddr` the address test.

## 4. Runs

| run | states | what it asks |
|---|---|---|
| `ether` | 80 000 | with interrupts taken at once: `RingInv`, `NoStrandedFrame`, `InOrder`; the queue is woken (`TxAwake`); it implements `FrameQueue` with its liveness (`QueueSpec`) |
| `ether_late` | 267 000 | with interrupts up to seven steps late, as late as the theorems allow: `SkbPinned`, `QueueNotLost`, `NotWedged` |
| `ether_close_race` | | *finding*: one step late, `ReceiverOff` fails |
| `link` | 576 000 | `MpeOn`, `LinkKnownOrLost`, `RxKept`, and `LinkFollows` in the end |
| `flash` | 186 000 | `WriteOK`, `ReadOK`; it implements `FlashStore` (`StoreSpec`), so that nothing outside a write is touched and a failure costs one page |
| `lab` | 38 000 | `VerifiedIsThere`, `BootloaderAsked`, `BootsOrAsks`, `VerifiesInTheEnd` |
| `uboot` | 1 416 000 | `EnvWhole`, `BootsSaved`, `ProtectedButEdges` |
| `tftp` | 346 000 | `Received`, `AckedIsStored`, and `Ends` in the end |
| `tftp_wrap` | | *finding*: with a file of more blocks than block numbers `SameBlockIgnored` fails |
| `mmc` | 568 000 | `Identified`, `ReadRight`, `Recovers` |
| `memtest` | 180 000 | `NoFalseAlarm`, `Finds` |
| `fat` | 1 463 000 | `LoadedOrHidden`; that a run never exceeds what is still to be loaded is part of `TypeOK` |

Every passing run but `memtest` also checks the `TypeOK` of its module; the types
of `MemoryTest` are lemmas of `Lab_proofs` (`InitTypes`, `NextTypes`).

Bounds, and why they are enough. *Ring*: three descriptors is the least in which
first, middle and last differ; six frames fill it twice, so that it wraps and
runs full; two opens show what one leaves to the next; two packets make the
second meet the slot of the first. *Link*: three changes let a link fail,
negotiate and come up (also differently) within one handler; two opens, two
set_rx_mode and an ioctl, which may force a mode, let each meet the handler.
*Flash*: three pages of three bytes give writes inside a page, over one bound,
over two, and past the end; addresses 0-2, 4, 8, 9 are the first, inner, last
byte of pages, the last byte of the device and the first behind it; a second
write meets what a failed first one left. *Loader*: images shorter than, as long
as and ending at the device; addresses of the boot loader, of U-Boot, of an
image that does not fit, of one that reaches 2^31 and of one beyond it that
comes round to the boot loader; reads in one chunk and in two; one failure
anywhere. *U-Boot*: area bounds inside pages as on the board; two writes and two
failures, so that a failure can hit the repair of a failure. *TFTP*: a file of
three units is three full blocks and an empty one without the option, a full
block and a half one with it; one retry before a restart, so that two faults
bring a new attempt while packets of the first are about and the third meets
both; two ports and two sessions for the two attempts; all four combinations of
server and netretry, with and without options. *Card*: four kinds of cards, two
polls (the least in which a card may be late and still in time), three blocks,
four calls with two exchanges between them and three faults, so that a fault in
each identification still leaves a read to fail. *FAT*: all FATs of three
clusters and the one number beyond them, next to the end marks: a chain may be
one run, two, three, broken, cyclic, or leave the volume and come back; three
clusters do not fit the cached part together; files that are empty, end inside the
first or the third cluster of their chain, or at the end of the second. *Memory*: five words of two bytes of two
bits, the area of the galloping pattern at the start, in the middle and at the
end, from the first and the second byte of a word; every single fault; two
tests, so that the second finds what the first leaves. Nothing is cut by
constraints: the bounds are guards of the actions named for them. The violation
of a *finding* is found in a smaller space of the same module.

Fairness. `ether`, `link`: an asserted interrupt is taken, a handler and a call
once begun go on, a transmission that was started ends; nobody has to open,
close or send. `lab`: the timer ticks, and main goes on where it does not wait
for a person. `tftp`: what is under way without a fault arrives and the timers
run (`Work`), the client starts again after its 10 s, a session whose client is
gone gives up; `Ends` is asked of a server that is there or of a client that
does not retry for ever. Each is weak fairness of code that runs by itself.
Failures are bounded, so "in the end" means after the last one.

## 5. Findings

- at91_ether.c:964: the work-around of errata 11 sets RE again after
  at91ether_close has cleared it (`ether_close_race`).
- tftp.c:323: the wrap of block numbers is counted before a repeated packet is
  recognised, so a second block 0 moves all later blocks by 65536 blocks, and
  tftp reports success (`tftp_wrap`). With 512-byte blocks this needs a file of
  32 MB, which fits the 48 MB of SDRAM behind 0x21000000. `Received` therefore
  speaks of files shorter than the block numbers.

What passing runs had to make room for, or the modelling showed; no run of its own:

- at91_ether.c:620: set_rx_mode writes CFG back as it was at line 600 and undoes
  speed and duplex of a PHY interrupt since. `LinkKnownOrLost` shows that with
  the PHY interrupt to be had and every change reported this is the only way to a
  wrong mode.
- at91_ether.c:667: nobody calls update_linkspeed after a mode was forced with
  ethtool or after an ioctl has read XCSIIS, which clears it: unless the PHY
  interrupts, the MAC keeps the speed it had (`silent`).
- at91_ether.c:274: when the PHY interrupt cannot be requested open succeeds, and
  close frees the interrupt all the same.
- at91_ether.c:807, 835: a packet under way at close stays in `lp->skb` and is
  overwritten after the next open, never freed (at91_ether.h:110: "holds skb until
  xmit interrupt completes", and close has disabled that interrupt).
- at45.cpp:286: the size test compares signed numbers, so an address from
  0x80000000 on passes it, goes round to the first pages, and can so reach the boot
  loader unasked; without a device it passes an image of size 0 at address 0 too
  and then divides by 0. `BootloaderAsked` and `VerifiesInTheEnd` except these
  (`InReach`), run `lab` does them. A read that is refused after its first chunk
  leaves zeroes in the buffer, which compare as equal to zeroes of the image
  (`VerifiedIsThere` excepts them).
- main.cpp:514: the second question is asked for address 0 only, yet an address
  inside the boot loader overwrites it too (`BootloaderAsked` excepts those).
  main.cpp:358-361: the start timer may fire after the key and before it is
  stopped, so that U-Boot starts although a key was pressed (`BootsOrAsks`
  allows it).
- dataflash.c:316, 420: the last byte of each area is in none, and -1 counts as
  "not protected". `ProtectedButEdges` lists the ways round the protection: that
  one, a write that begins outside the area and runs into it, and a power failure
  in a page that two areas share (the environment begins inside a page of the
  boot loader).
- cmd_nvedit.c:305: a setenv that finds no room has already deleted the old value
  and returns without computing the CRC. Until the next setenv that is carried out
  the environment does not fit its CRC (`EnvWhole` excepts that, `stale`), and one
  saved like that is refused at the next start (`BootsSaved` says so).
- cmd_nvedit.c:551: saveenv reports failure always, because success is 1.
- fat.c:232, 305, 312: disk_read returns the number of blocks and the callers
  look for a negative one (the comment of get_cluster says "Return 0 on success,
  -1 otherwise"): a load with an unread block is reported as whole. In the model
  that is the exception `hidden`; without such a read `LoadedOrHidden` says that
  the clusters loaded are those of the chain.
- fat.h:114: CHECK_CLUST lets every number below the end marks through, also one
  beyond the volume: get_contents then loads blocks of no file, follows what lies
  behind the FAT, and reports the whole. On FAT12 the end mark 0xfff is such a
  number (0xfff0 is the first that counts). `LoadedOrHidden` claims that the file is
  whole only for a chain that stays in the volume.
- atmel_mci.c:452: an answer to SEND_IF_COND with another voltage makes
  sdhc_init_card return success with the `mmc_rca` that was there before;
  `Identified` holds all the same, since the CSD must then be answered under
  that address. atmel_mci.c:630: a refused card keeps its block_read with a
  block length of 0. c_size_mult is printed without having been set for CSD
  structure 2.
- memory_test/main.cpp:250: the loop condition is a comma expression, so GALPAT
  runs past the end of its area; on an area at the end of the memory it compares
  the mirrored start and reports an error of a good memory. It also does for a
  start that is not the address of a word (lines 243-249 and 518-521 accept
  any), because it never recognises the cell it has inverted as its own (line
  262). `NoFalseAlarm` excepts both. The comment on the march test (lines
  321-328) describes the reads and writes of each cell in turn, the code writes
  the whole memory and then reads it, and so misses addresses that select
  another cell; the address test in bytes misses those a multiple of 256 apart.
  `Finds` asks of each test what it does find.
- A duplicate OACK sends the client back to the first block (tftp.c:280), and
  TftpTimeoutCount is reset by TftpStart only (line 525), so that the time-outs of
  one transfer add up; the file arrives all the same.

## 6. Proofs

| module | theorem | argument |
|---|---|---|
| `At91Ether_proofs` | `TypeCorrect` | inductive as it stands |
| | `RingCorrect` (`RingInv`), `NoFrameStranded`, `DeliveryInOrder` | for interrupts taken at once, or an interface opened only once however late they are (`OnceOrPrompt`). "Frames come in order" is not inductive: one must know that the filled descriptors are a run going round from `rxBuffIndex` to `rbqp` (`RingShape`), rising along it (`RingOrder`), newer than what was passed up (`RingNew`), that an interface that is not yet started is empty and mute (`Quiet`), and how far a start has come (`Starting`). Lemmas give the arithmetic of the ring without division |
| | `ImplementsQueue` (`QueueSafe`) | the safety part of the refinement, under the same condition. A frame that is stored grows the sequence read out of the ring at its end (`RingGrows`, `RingOne`), one that is taken shrinks it at its head (`RingShrinks`), giving the descriptor back changes nothing of it (`RxReleaseQueue`), and the process context touches the ring only before the first frame is there (`ProcQueue`) |
| | `SkbStaysPinned` (`SkbPinned`), `QueueKept` (`QueueNotLost`) | for interrupts at most `MAX_RX_DESCR + 4` process steps late, which is before a start of the interface is over and a packet is sent (`InTime`). The bound is sharp: one step more, and a TCOM left from before the close frees the first packet of the new session, as TLC shows. `TxInv`: one packet at most is under way, it is that of lp->skb behind a stopped queue, its TCOM is neither latched nor read before it is sent, the work-around for errata 11 finds the transmitter enabled, so that it does not empty it, and a TCOM that was left grows old with every step of the start (`Stale`, `Begun`) |
| | `NeverWedged` (`NotWedged`) | however late. `WedgeInv`: a receiver that is locked up has its RBNA latched or in the hands of the handler, and it cannot lock up between the two writes of the work-around |
| `At91EtherLink_proofs` | `TypeCorrect`, `ManagementPortOn`, `ReceiveModeKept`, `LinkKnown` (`LinkKnownOrLost`) | `KInv`: handler and process never own the PHY together (`Exclusive`), the port is on where it is used (`PortOn`), an unread bit has its edge latched (`Latched`), and with no bit since and nothing silent, what update_linkspeed has read is still so (`ReadYet`) and what it has written is the link, negotiated or forced (`Followed`) |
| `At45Flash_proofs` | `TypeCorrect` | needs how long the buffer is at each place (`Counted`) |
| | `WritesRight` (`WriteOK`), `ReadsRight` (`ReadOK`) | for images and reads that end below the middle of the address space (`InReach`; at45.cpp:286 takes a larger address for a negative one). The invariant follows a write from place to place: what the buffer still holds of the image (`Left`), that all outside of what is still to come is as it will be (`Outside`), which command the chip may be busy with and what the page at hand and buffer 1 hold before and after it (`Stage`). Lemmas give what is needed of division: a byte lies in one page (`PageByte`, `Apart`, `Border`) |
| | `ImplementsStore` (`StoreSpec`) | the refinement: each step of driver and chip maps to a step of `FlashStore` or to none; `TouchedMoves` says that a finished page leaves the pages to do |
| `Lab_proofs`, boot loader | `TypeCorrect`, `VerificationTrue` (`VerifiedIsThere`) | `LInv` follows a download: the CRC is of the patched image (`CrcShape`, `Vector`), the cells below `done` hold it (`Written`), the buffer is zero when it is read back (`Cleared`), and the patched vector tells that zero from every image - without that conjunct a refused read would compare as equal; the first chunk holds the vector, so it was read. For any address: the claims about a refused write are made below 2^31 (`InReach`) |
| | `BootloaderKept` (`BootloaderAsked`) | `Agreed`: only the two questions lead to a write to address 0, and consent lasts until the next menu item; an image that ends below 2^31 is not taken modulo the capacity |
| `Lab_proofs`, memory test | `NeverFalseAlarm` (`NoFalseAlarm`), `NoneMissed` (`Finds`) | nothing in `Finds` speaks of the memory, so `MInv` says what the cells that matter hold at each point of a test, and which of the comparisons already made must have differed. Galloping pattern: while no error is found every cell but the test cell is zero, or holds the one bit that the test cell inverted (`Pattern`, from `ZeroSoFar`); a test cell with a stuck bit has been read with that bit, so its complement never comes back (`SeenOpposite`); and a comparison of a pair of cells that betrays the fault has been seen (`Found`) - at the end all pairs of the area have been compared. March: one of its two rounds has the value a stuck bit has not (`MarchStuck`), and in one the later cell of a coupling rises after the earlier one was written (`MarchCoupled`). Address: the shared cell holds the number of the later address (`AddressShared`). Without a fault memory and expectation agree everywhere (`Filled`). A galpat off a word reports an error in any memory (`Skewed`), so `Finds` has nothing to ask of it |
| `UbootFlash_proofs` | `TypeCorrect`, `EnvironmentWhole`, `BootsWhatWasSaved`, `ProtectionHoles` | `UInv`: the environment in memory fits its CRC unless it is stale, and every CRC in the flash or still to be written was stored (`CrcsStored`); what counts as last is there (`LastThere`); how far a save has come, cell by cell (`Saving`); `env_valid` agrees with the flash between the two looks of a start (`ValidFits`); where the write under way was let through (`Allowed`) |
| `Tftp_proofs` | `TypeCorrect` | needs which server the client talks to in which state (`Talks`): acknowledgements go to sessions only |
| | `FileReceived` (`Received`), `NothingSkipped` (`AckedIsStored`) | for files whose block numbers do not wrap (`ShortFile`; the finding is what happens otherwise). `TInv` goes round the circle of a block: an acknowledgement under way or waiting for an address is of a block the client has (`Had`, `Acked`), so a session is at the block after it, and so is a DATA packet (`Ahead`), so the block is stored at or before the end of what is there (lemma `Stored`). Packets of earlier attempts have another port; a session without options is the only one that begins with block 1 (`Options`, `Talking`) |
| `MmcCard_proofs` | `TypeCorrect`, `CardIdentified` (`Identified`), `ReadsRight` (`ReadRight`) | `MInv` follows what the driver knows of the card: nothing while it searches (`Searching`), the kind of a card that has answered (`Answered`), its address unit once it can be selected (`Selected`), the blocks read so far (`Gathered`); `CardOK` is what holds of a card whatever it is sent |
| | `DriverRecovers` (`Recovers`) | `CalmInv` follows a call in which nothing is lost: a card that answers is ready within the polls (`Prompt`), the identifications that failed were not for this card (`RightPhase`), it has counted down as often as it was polled (`PoweringUp`), it is there under its address (`Addressed`), and a read of blocks that exist comes to its end (`Undisturbed`) |
| `FatLoad_proofs` | `LoadInBounds` (`TypeOK`) | what is loaded and what is left make up what was asked for, and a run exceeds the rest by less than a cluster (`Progress`); what is looked up is a number below the end marks (`Known`) |
| | `LoadsTheFile` (`LoadedOrHidden`) | `Followed`: as long as no failed read went unnoticed, what is loaded is the chain so far, the run being measured continues it, and the cached block is one of the FAT. That `Chain` is the function its definition says is proved from prefixes of it, each a function on 0 .. n, whose existence and uniqueness follow from the well-foundedness of the numbers (`PrefixExists`, `PrefixUnique`, `ChainOfIs`) |

The constants are any that the named assumptions admit: a ring of at least one
descriptor; any device, areas in order, an environment of at least three cells
inside its area; in `LabMain` an image that is empty or reaches its vector, a
vector in the first chunk, a device of less than 2^30 bytes, and any address,
also one that counts as negative; any file, block size and number of retries;
any memory, word width and area of the galloping pattern test, also one that
goes round the memory more than once; any card addresses but 0 and 1; any pages,
images and addresses of the serial flash; any clusters and blocks. The bounds
may be any naturals, so the theorems hold for runs of any length. That the
receiver of a closed interface is off (`ReceiverOff`) is no theorem: with any
delay of an interrupt it is false (the finding), and without one there is
nothing to show. With late interrupts and over a second open so are
`NoStrandedFrame`, `InOrder` and `QueueSafe`: a handler that works round errata
11 after the close, or on an interrupt left over from before the open, enables
the receiver, and frames are stored while the ring is set up. Hence the
conditions of these theorems. Before the proofs each invariant was checked by
TLC on the instance of the passing run, those of the EMAC driver also at the
ends of their conditions.

The SMT translation of tlapm 1.4.5 states for *every* function that its domain
is 1..Len, which contradicts a function with another domain. The steps of the
proofs that speak of `Len` are therefore kept apart from facts about such
functions where that was possible, and all obligations were also discharged
with that axiom weakened to sequences.

Model-checked only: liveness (`TxAwake`, `LinkFollows`, `BootsOrAsks`,
`VerifiesInTheEnd`, `Ends`, and of `QueueSpec` that no frame waits for ever), which
is out of the prover's reach. Every safety property that a passing run checks is
the subject of a theorem. Induction over data is out of reach where a theorem
would have to be instantiated with an operator; the one recursive function a
theorem speaks of, `Chain` of `FatLoad`, is unfolded by the well-foundedness of
the numbers instead.

## 7. Not modelled

- *U-Boot Ethernet and PHY* (`ether.c`, `ste100p.c`): polled code of one process
  without interrupts or restart; `Tftp` takes a frame it drops for a lost packet.
  Read, not modelled: eth_halt is empty, so the receiver stays on and the next
  eth_init sets the ring up under it; the work-around of errata 11 is missing.
- *Linux STE100P phylib driver*: straight-line register accesses which the EMAC
  driver does not use. Its resume masks a value it never read, and
  `~MII_STE100P_XCR_ISOLATE` is `(~1) << 10`, which clears ten lower bits too,
  RSTRT_AN among them.
- *Frame buffer*: sequential set-up. The error paths of probe call remove, which
  releases both regions whether probe got them or not; remove does not
  unregister the frame buffer.
- *Consoles*: sequential line editing and formatting.
- *Start-up code, board files, SPI, serial, LEDs*: register writes in a fixed order.
- *In modelled components*: PHY types other than the fitted one and the link
  timer of boards without a PHY interrupt; suspend and resume, addresses,
  statistics and ethtool output of the EMAC driver; transmissions the EMAC never
  completes (the driver has no tx_timeout, at91_ether.c:848), and at91_phy_wait,
  which counts jiffies with interrupts off (line 104); the time-outs of SPI and
  XMODEM loops (the models let the hardware answer; main waits for ever for a
  sender that gives up, main.cpp:507); that the boot loader jumps to U-Boot
  although the read was refused (main.cpp:297), which `LabMain` shows as a start
  like any other; DHCP, ping and multicast in NetLoop; the search of
  directories, long names, boot sectors and FAT12 entries across two bytes in
  fat.c; ROM services.
- A write is assumed not to begin while the chip is still busy from before a
  processor reset (a restart takes longer than a page operation); the driver does
  not wait there.
- The rest of the tree is stock U-Boot 1.3.3 and files of Linux with small
  changes for the board: not the work of this repository.
