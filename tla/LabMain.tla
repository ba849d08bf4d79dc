------------------------------- MODULE LabMain -------------------------------
(***************************************************************************)
(* The main program of the first boot loader (lab_bootloader/main.cpp):    *)
(* the start of U-Boot by a timer unless a key is pressed, the menu, and   *)
(* the download of an image into the serial flash with its verification.   *)
(*                                                                         *)
(* Two contexts: main, and the system timer interrupt, in which the call   *)
(* of AT91F_StartUboot is made.  The serial flash is taken as what         *)
(* At45Flash shows it to be: a write is carried out cell after cell or     *)
(* refused as a whole, a read is made in chunks of which each is made or   *)
(* refused.  A cell stands for a page, so that a power failure leaves one  *)
(* cell unknown.                                                           *)
(*                                                                         *)
(* Sizes are tested as signed numbers: an address from 2^31 on passes, and *)
(* the device takes it modulo its capacity.  Without a device the capacity *)
(* is 0, and what passes then divides by a page size of 0, which never     *)
(* returns (div0.c).  A device that is not there is taken to show ones, so *)
(* that it reads as ready.  No image goes past the last address.           *)
(***************************************************************************)
EXTENDS Integers, Sequences

CONSTANTS
  Capacity,     \* addresses of the serial flash
  Half,         \* 2^31, from where on an address counts as negative
  Chunk,        \* what one continuous read asks for (0x8000)
  BootSize,     \* the first addresses, which hold this boot loader (0x4000)
  UbootAddr,    \* AT91C_UBOOT_DATAFLASH_ADDR
  UbootSize,    \* AT91C_UBOOT_SIZE
  MaxSize,      \* AT91C_DOWNLOAD_MAX_SIZE
  Vect6,        \* AT91C_OFFSET_VECT6, the word of the image that is patched
  Byte,         \* the values of a cell, with 0 among them
  VECTOR,       \* the word written there
  JUNK,         \* a value that is not known
  Contents,     \* what the device holds when the program is first started
  Images,       \* the images sent by xmodem
  Addresses,    \* the addresses typed with menu item 1
  MaxDownloads, \* bound: downloads and erasures
  MaxFails      \* bound: power failures

ASSUME LayoutAssumption == /\ Capacity \in Nat /\ BootSize \in 1 .. Capacity
                           /\ UbootAddr \in BootSize .. Capacity
                           /\ UbootAddr + UbootSize <= Capacity
                           /\ MaxSize \in BootSize .. Capacity
                           /\ UbootSize \in 0 .. MaxSize
                           /\ Chunk \in Nat /\ Vect6 \in 0 .. Chunk - 1 /\ Vect6 < MaxSize
ASSUME WordAssumption == Half \in Nat /\ 2 * Capacity < Half
ASSUME ByteAssumption == 0 \in Byte /\ VECTOR \in Byte \ {0} /\ JUNK \notin Byte
                         /\ Contents \subseteq [0 .. Capacity - 1 -> Byte]
ASSUME ImageAssumption == /\ \A im \in Images : /\ Len(im) <= MaxSize /\ im \in Seq(Byte)
                                               /\ (im = <<>> \/ Vect6 < Len(im))
                          /\ Addresses \subseteq Nat
                          /\ \A a \in Addresses, im \in Images : a + Len(im) <= 2 * Half
                          /\ MaxDownloads \in Nat /\ MaxFails \in Nat

VARIABLES
  flash,      \* the serial flash
  device,     \* it was recognised by AT91F_DataflashInit
  sdram,      \* the download area at AT91C_DOWNLOAD_BASE_ADDRESS
  uboot,      \* what is at AT91C_UBOOT_ADDR
  pc,         \* where main is; "uboot" when U-Boot has been started, "hang"
              \* when a division by zero never returns
  tempo,      \* svcUbootTempo is armed
  arg,        \* the address typed
  length,     \* download_size
  crc1,       \* the CRC of the image, taken as the image itself
  done,       \* cells written so far
  shown,      \* what was last printed of the verification
  consent,    \* history: the overwriting of the boot loader was agreed to
  downloads, fails  \* history: what is bounded

cvars == <<consent, downloads, fails>>
vars  == <<flash, device, sdram, uboot, pc, tempo, arg, length, crc1, done, shown, cvars>>

Cell    == Byte \cup {JUNK}
Area    == 0 .. MaxSize - 1
Unknown == [i \in Area |-> JUNK]

Init ==
  /\ flash \in Contents
  /\ device \in BOOLEAN /\ sdram = Unknown /\ uboot = Unknown
  /\ pc = "key" /\ tempo = TRUE /\ arg = 0 /\ length = 0 /\ crc1 = <<>> /\ done = 0
  /\ shown = "none" /\ consent = FALSE /\ downloads = 0 /\ fails = 0

\* What a step of main leaves alone, but for what is named.
Goto(from, to) == pc = from /\ pc' = to /\ UNCHANGED <<device, uboot, fails>>

-----------------------------------------------------------------------------
(* The serial flash.                                                       *)

Signed(n) == IF n < Half THEN n ELSE n - 2 * Half

TooLarge(address, n) == Signed(address + n) > IF device THEN Capacity ELSE 0

\* The device decodes only as many address bits as it has pages.
At(a) == a % Capacity

\* A read ends with the first chunk that is refused.
Readable(first, n, i) ==
  \A c \in 1 .. (i \div Chunk) + 1 : ~TooLarge(first, IF c * Chunk < n THEN c * Chunk ELSE n)

\* read_dataflash leaves alone what it did not read.  Without a device it reads
\* nothing: what gets this far has an address or a size that is not 0.
Loaded(buffer, first, n) ==
  [i \in Area |-> IF i < n /\ Readable(first, n, i) THEN flash[At(first + i)] ELSE buffer[i]]

-----------------------------------------------------------------------------
(* The start.                                                              *)

\* AT91F_StartUboot does not look at what read_dataflash returns.
\* Mutant: it waits for the device.
StartUbootWaits ==
  /\ device /\ pc' = "uboot" /\ uboot' = Loaded(uboot, UbootAddr, UbootSize)
  /\ UNCHANGED <<flash, device, sdram, arg, length, crc1, done, shown, cvars>>

StartUboot ==
  /\ pc' = "uboot" /\ uboot' = Loaded(uboot, UbootAddr, UbootSize)
  /\ UNCHANGED <<flash, device, sdram, arg, length, crc1, done, shown, cvars>>

\* The timer interrupt, a second after the start.
TempoFires == tempo /\ pc \in {"key", "stop"} /\ tempo' = FALSE /\ StartUboot

GetKey ==
  /\ Goto("key", "stop")
  /\ UNCHANGED <<flash, sdram, tempo, arg, length, crc1, done, shown, consent, downloads>>

StopTempo ==
  /\ Goto("stop", "menu") /\ tempo' = FALSE
  /\ UNCHANGED <<flash, sdram, arg, length, crc1, done, shown, consent, downloads>>

-----------------------------------------------------------------------------
(* The menu.  Items 2, 3, 6 and 7 only show something.                     *)

\* 1: an image is sent by xmodem to the download area.
Download ==
  /\ Goto("menu", "confirm") /\ downloads < MaxDownloads /\ downloads' = downloads + 1
  /\ \E a \in Addresses, image \in Images :
       /\ arg' = a /\ length' = Len(image)
       /\ sdram' = [i \in Area |-> IF i < Len(image) THEN image[i + 1] ELSE sdram[i]]
  /\ shown' = "none" /\ consent' = FALSE
  /\ UNCHANGED <<flash, tempo, crc1, done>>

\* "Are you sure", and once more for address 0.
\* Mutant: no second question.
ConfirmOnce ==
  /\ pc = "confirm" /\ pc' \in {"menu", "patch"}
  /\ UNCHANGED <<flash, device, sdram, uboot, tempo, arg, length, crc1, done, shown, cvars>>

Confirm ==
  /\ pc = "confirm" /\ pc' \in {"menu", IF arg = 0 THEN "danger" ELSE "patch"}
  /\ UNCHANGED <<flash, device, sdram, uboot, tempo, arg, length, crc1, done, shown, cvars>>

ConfirmDanger ==
  /\ \/ Goto("danger", "menu") /\ UNCHANGED consent
     \/ Goto("danger", "patch") /\ consent' = TRUE
  /\ UNCHANGED <<flash, sdram, tempo, arg, length, crc1, done, shown, downloads>>

\* The size of the image for the ROM loader, then the CRC.
Patch ==
  /\ Goto("patch", "write")
  /\ sdram' = [sdram EXCEPT ![Vect6] = VECTOR]
  /\ crc1' = [i \in 0 .. length - 1 |-> sdram'[i]]
  /\ UNCHANGED <<flash, tempo, arg, length, done, shown, consent, downloads>>

\* write_dataflash refuses what does not fit.
Refused == TooLarge(arg, length)

Refuse ==
  /\ Refused /\ Goto("write", "clear")
  /\ UNCHANGED <<flash, sdram, tempo, arg, length, crc1, done, shown, consent, downloads>>

\* Nothing to be written at 0, or an address past the middle, and no device.
Hang ==
  /\ ~Refused /\ ~device /\ Goto("write", "hang")
  /\ UNCHANGED <<flash, sdram, tempo, arg, length, crc1, done, shown, consent, downloads>>

\* The driver sends the buffer and receives over it.
WriteBegin ==
  /\ ~Refused /\ device /\ Goto("write", "writing")
  /\ done' = 0 /\ sdram' = [i \in Area |-> IF i < length THEN JUNK ELSE sdram[i]]
  /\ UNCHANGED <<flash, tempo, arg, length, crc1, shown, consent, downloads>>

WriteCell ==
  /\ pc \in {"writing", "erasing"} /\ done < length
  /\ flash' = [flash EXCEPT ![At(arg + done)] = crc1[done]] /\ done' = done + 1
  /\ UNCHANGED <<device, sdram, uboot, pc, tempo, arg, length, crc1, shown, cvars>>

\* Mutant: a loop that does not end for an empty image.
WriteEndSome ==
  /\ done = length /\ length > 0 /\ Goto("writing", "clear")
  /\ UNCHANGED <<flash, sdram, tempo, arg, length, crc1, done, shown, consent, downloads>>

WriteEnd ==
  /\ done = length /\ Goto("writing", "clear")
  /\ UNCHANGED <<flash, sdram, tempo, arg, length, crc1, done, shown, consent, downloads>>

\* The buffer is cleared before what was written is read back.
\* Mutant: it is not.
ClearNone ==
  /\ Goto("clear", "verify")
  /\ UNCHANGED <<flash, sdram, tempo, arg, length, crc1, done, shown, consent, downloads>>

Clear ==
  /\ Goto("clear", "verify")
  /\ sdram' = [i \in Area |-> IF i < length THEN 0 ELSE sdram[i]]
  /\ UNCHANGED <<flash, tempo, arg, length, crc1, done, shown, consent, downloads>>

Verify ==
  /\ Goto("verify", "menu")
  /\ sdram' = Loaded(sdram, arg, length)
  /\ shown' = IF crc1 = [i \in 0 .. length - 1 |-> sdram'[i]] THEN "OK" ELSE "Failed"
  /\ UNCHANGED <<flash, tempo, arg, length, crc1, done, consent, downloads>>

\* 4: U-Boot is started.
MenuUboot == pc = "menu" /\ StartUboot /\ UNCHANGED tempo

\* 5: once agreed to, zeroes are written over the boot loader.
\* Mutant: the size in bytes counts words.
ClearBootsectorWords ==
  /\ pc = "menu" /\ downloads < MaxDownloads /\ downloads' = downloads + 1
  /\ sdram' = [i \in Area |-> IF i < 4 * BootSize THEN 0 ELSE sdram[i]]
  /\ arg' = 0 /\ length' = 4 * BootSize /\ crc1' = [i \in 0 .. length' - 1 |-> 0] /\ done' = 0
  /\ consent' = TRUE /\ shown' = "none" /\ pc' = IF device THEN "erasing" ELSE "cleared"
  /\ UNCHANGED <<flash, device, uboot, tempo, fails>>

ClearBootsector ==
  /\ pc = "menu" /\ downloads < MaxDownloads /\ downloads' = downloads + 1
  /\ sdram' = [i \in Area |-> IF i < BootSize THEN 0 ELSE sdram[i]]
  /\ arg' = 0 /\ length' = BootSize /\ crc1' = [i \in 0 .. BootSize - 1 |-> 0] /\ done' = 0
  /\ consent' = TRUE /\ shown' = "none"
  /\ pc' = IF device THEN "erasing" ELSE "cleared"
  /\ UNCHANGED <<flash, device, uboot, tempo, fails>>

ClearedBootsector ==
  /\ \/ Goto("erasing", "cleared") /\ done = length
     \/ Goto("cleared", "menu")
  /\ UNCHANGED <<flash, sdram, tempo, arg, length, crc1, done, shown, consent, downloads>>

\* The supply fails: of a write under way the next cells are unknown.  The ROM
\* starts the boot loader again.
PowerFail ==
  /\ fails < MaxFails /\ fails' = fails + 1
  /\ flash' \in (IF pc \in {"writing", "erasing"} /\ done < length
                 THEN {flash, [flash EXCEPT ![At(arg + done)] = JUNK]} ELSE {flash})
  /\ pc' = "key" /\ tempo' = TRUE /\ sdram' = Unknown /\ uboot' = Unknown /\ shown' = "none"
  /\ arg' = 0 /\ length' = 0 /\ crc1' = <<>> /\ done' = 0 /\ consent' = FALSE
  /\ UNCHANGED <<device, downloads>>

-----------------------------------------------------------------------------
WriteSteps == Refuse \/ Hang \/ WriteBegin \/ WriteCell \/ WriteEnd \/ Clear \/ Verify

Next == TempoFires \/ GetKey \/ StopTempo \/ Download \/ Confirm \/ ConfirmDanger \/ Patch
          \/ WriteSteps \/ MenuUboot \/ ClearBootsector \/ ClearedBootsector \/ PowerFail

Spec == Init /\ [][Next]_vars

(* The timer ticks and main goes on; nobody has to press a key.            *)
FairSpec == Spec /\ WF_vars(TempoFires) /\ WF_vars(StopTempo) /\ WF_vars(Patch \/ WriteSteps)

-----------------------------------------------------------------------------
Pcs == {"key", "stop", "menu", "confirm", "danger", "patch", "write", "writing", "clear",
        "verify", "erasing", "cleared", "uboot", "hang"}

\* Every variable has its type.
TypeOK ==
  /\ flash \in [0 .. Capacity - 1 -> Cell] /\ device \in BOOLEAN /\ sdram \in [Area -> Cell]
  /\ uboot \in [Area -> Cell]
  /\ pc \in Pcs /\ tempo \in BOOLEAN /\ arg \in Nat /\ length \in 0 .. MaxSize
  /\ DOMAIN crc1 \subseteq Area /\ done \in 0 .. MaxSize /\ shown \in {"none", "OK", "Failed"}
  /\ consent \in BOOLEAN /\ downloads \in Nat /\ fails \in Nat

\* The image ends before an address counts as negative (at45.cpp:507).
InReach == arg + length < Half

Stored(i) == device /\ flash[At(arg + i)] = crc1[i]

\* "Verify Dataflash: OK" is only printed when the device holds the patched image,
\* also when there is no device or the image does not fit; of one that does not
\* fit, zeroes after the first chunk may be missing.  "Failed" is only printed
\* when the write was refused.
VerifiedIsThere ==
  /\ shown = "OK" => \A i \in 0 .. length - 1 :
                       Stored(i) \/ (Refused /\ i >= Chunk /\ crc1[i] = 0)
  /\ shown = "Failed" /\ InReach => Refused

\* The first boot loader is only overwritten when that was agreed to, or by an
\* image for an address inside it, about which the second question is not asked,
\* or for one so high that it is taken for a negative one.
BootloaderAsked ==
  [][\A a \in 0 .. BootSize - 1 :
       flash'[a] # flash[a] => consent \/ arg \in 1 .. BootSize - 1 \/ ~InReach]_vars

\* A board nobody touches starts U-Boot; a key leads to the menu.
BootsOrAsks == pc = "key" ~> pc \in {"uboot", "menu"}

\* A download that was agreed to is verified, unless the power fails: always with
\* a device, without one if there is anything to be refused.
VerifiesInTheEnd ==
  pc = "patch" /\ (device \/ (InReach /\ arg + length > 0)) ~> (shown # "none" \/ pc = "key")
=============================================================================
