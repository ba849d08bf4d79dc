----------------------------- MODULE Lab_proofs -----------------------------
(***************************************************************************)
(* The two programs of the board that run without an operating system: the *)
(* boot loader (LabMain) and the memory test (MemoryTest).  Nothing of one *)
(* is used for the other.                                                  *)
(*                                                                         *)
(* The boot loader, for a serial flash, images and addresses of any size:  *)
(* what is printed of the verification is true, and the boot loader is not *)
(* overwritten unasked.  The inductive invariant follows a download: the   *)
(* CRC is of the patched image, the cells below done hold it, the buffer   *)
(* is zero when it is read back, and the patched vector tells that zero    *)
(* from any image.                                                         *)
(*                                                                         *)
(* The memory test, for a memory of any size: a test finds no error where  *)
(* there is none, and none that says OK has missed a fault it is for.  The *)
(* inductive invariant says for every fault what the cells that matter     *)
(* hold at each point of a test, and which comparisons that have been made *)
(* already must have differed.                                             *)
(***************************************************************************)
EXTENDS LabMain, MemoryTest, TLAPS

(***************************************************************************)
(* The boot loader                                                         *)
(***************************************************************************)
Asked   == {"confirm", "danger", "patch"}
Writing == {"write", "writing", "clear", "verify"}

ThereUpTo(n) == \A i \in 0 .. n - 1 : flash[At(arg + i)] = crc1[i]

CrcShape == pc \in Writing \cup {"erasing"} => crc1 \in [0 .. length - 1 -> Cell]
Inside   == pc \in Asked \cup Writing \cup {"erasing"} => arg + length <= 2 * Half
Accepted == /\ pc = "writing" => ~Refused /\ device /\ done <= length
            /\ pc \in {"clear", "verify"} => Refused \/ device
            /\ pc = "erasing" => arg + length <= Capacity
Written  == InReach => /\ pc = "writing" => ThereUpTo(done)
                       /\ pc \in {"clear", "verify"} /\ ~Refused => ThereUpTo(length)
Vector   == /\ pc \in Asked => length = 0 \/ Vect6 < length
            /\ pc \in Writing => length = 0 \/ (Vect6 < length /\ crc1[Vect6] = VECTOR)
Cleared  == pc = "verify" => \A i \in 0 .. length - 1 : sdram[i] = 0
Quiet    == shown # "none" => pc \in {"menu", "uboot"}

LInv == TypeOK /\ CrcShape /\ Inside /\ Accepted /\ Written /\ Vector /\ Cleared /\ Quiet
          /\ VerifiedIsThere

-----------------------------------------------------------------------------
\* A number modulo a size, and divided by it.
LEMMA Modulo ==
  ASSUME NEW m \in Nat \ {0}, NEW n \in Nat
  PROVE  n % m \in 0 .. m - 1 /\ (n < m => n % m = n)
  OBVIOUS

LEMMA Quotient ==
  ASSUME NEW m \in Nat \ {0}, NEW n \in Nat
  PROVE  n \div m \in Nat /\ (n < m => n \div m = 0)
  OBVIOUS

\* The serial flash takes any address, one inside it as it is.
LEMMA AtFacts ==
  ASSUME NEW a \in Nat
  PROVE  At(a) \in 0 .. Capacity - 1 /\ (a < Capacity => At(a) = a)
  BY Modulo, LayoutAssumption DEF At

\* What is refused for its size.
LEMMA SizeFacts ==
  ASSUME NEW a \in Nat, NEW n \in Nat, device \in BOOLEAN, a + n <= 2 * Half
  PROVE  TooLarge(a, n) <=> a + n < Half /\ a + n > IF device THEN Capacity ELSE 0
  BY LayoutAssumption, WordAssumption DEF TooLarge, Signed

\* What a continuous read of n asks for at the end of its chunk c.
EndOf(c, n) == IF c * Chunk < n THEN c * Chunk ELSE n

LEMMA EndFacts ==
  ASSUME NEW c \in Nat \ {0}, NEW n \in Nat
  PROVE  EndOf(c, n) \in 0 .. n /\ EndOf(1, n) <= EndOf(c, n) /\ (n > 0 => EndOf(1, n) > 0)
  <1>1. Chunk \in Nat \ {0}
    BY LayoutAssumption
  <1>2. c * Chunk \in Nat /\ Chunk <= c * Chunk
    <2> DEFINE d == c - 1
    <2>1. d \in Nat /\ c = d + 1
      OBVIOUS
    <2>2. d * Chunk \in Nat /\ c * Chunk = d * Chunk + Chunk
      BY <1>1, <2>1
    <2> QED
      BY <1>1, <2>2
  <1>3. 1 * Chunk = Chunk
    BY <1>1
  <1> QED
    BY <1>1, <1>2, <1>3 DEF EndOf

\* Whatever is read, the first chunk has been read.
LEMMA ReadFacts ==
  ASSUME NEW a \in Nat, NEW n \in Nat, NEW i \in Nat
  PROVE  /\ Readable(a, n, i) <=> \A c \in 1 .. (i \div Chunk) + 1 : ~TooLarge(a, EndOf(c, n))
         /\ i \div Chunk \in Nat
         /\ i < Chunk => (Readable(a, n, i) <=> ~TooLarge(a, EndOf(1, n)))
         /\ Readable(a, n, i) => ~TooLarge(a, EndOf(1, n))
  <1>1. Readable(a, n, i) <=> \A c \in 1 .. (i \div Chunk) + 1 : ~TooLarge(a, EndOf(c, n))
    BY DEF Readable, EndOf
  <1>2. i \div Chunk \in Nat /\ (i < Chunk => i \div Chunk = 0)
    BY Quotient, LayoutAssumption
  <1>3. 1 \in 1 .. (i \div Chunk) + 1 /\ (i < Chunk => 1 .. (i \div Chunk) + 1 = {1})
    BY <1>2
  <1> QED
    BY <1>1, <1>2, <1>3

\* What the verification says depends on nothing else.
LEMMA VerifiedFrame ==
  ASSUME VerifiedIsThere, UNCHANGED <<flash, device, arg, length, crc1, shown>>
  PROVE  VerifiedIsThere'
  BY DEF VerifiedIsThere, Stored, Refused, TooLarge, Signed, At, InReach

\* The program starts in the invariant.
LEMMA InitInv == Init => LInv
  <1> SUFFICES ASSUME Init PROVE LInv
    OBVIOUS
  <1>1. DOMAIN crc1 = {}
    BY DEF Init
  <1>2. flash \in [0 .. Capacity - 1 -> Cell] /\ sdram \in [Area -> Cell] /\ uboot \in [Area -> Cell]
    BY ByteAssumption DEF Init, Cell, Unknown
  <1>3. device \in BOOLEAN /\ tempo \in BOOLEAN /\ consent \in BOOLEAN
    BY DEF Init
  <1>4. DOMAIN crc1 \subseteq Area /\ length \in 0 .. MaxSize /\ done \in 0 .. MaxSize /\ arg \in Nat
    BY LayoutAssumption, <1>1 DEF Init
  <1>5. pc \in Pcs /\ shown \in {"none", "OK", "Failed"} /\ downloads \in Nat /\ fails \in Nat
    BY DEF Init, Pcs
  <1>6. TypeOK
    BY <1>2, <1>3, <1>4, <1>5 DEF TypeOK
  <1> QED
    BY <1>6 DEF Init, LInv, CrcShape, Inside, Accepted, Written, Vector, Cleared, Quiet,
                  VerifiedIsThere, Asked, Writing

\* Reading the device leaves a whole buffer.
LEMMA LoadedType ==
  ASSUME TypeOK, NEW buffer \in [Area -> Cell], NEW first \in Nat, NEW n
  PROVE  Loaded(buffer, first, n) \in [Area -> Cell]
  <1>1. \A i \in Area : At(first + i) \in 0 .. Capacity - 1
    BY LayoutAssumption, AtFacts DEF Area
  <1>2. \A i \in Area : (IF i < n /\ Readable(first, n, i)
                           THEN flash[At(first + i)] ELSE buffer[i]) \in Cell
    BY <1>1 DEF TypeOK
  <1> QED
    BY <1>2 DEF Loaded

\* Every step keeps the types.
LEMMA NextType == LInv /\ [Next]_vars => TypeOK'
  <1> SUFFICES ASSUME LInv, [Next]_vars PROVE TypeOK'
    OBVIOUS
  <1> USE LayoutAssumption, ByteAssumption DEF LInv, TypeOK, Cell
  <1>1. CASE TempoFires
    <2>1. uboot' \in [Area -> Cell]
      BY <1>1, LoadedType DEF TempoFires, StartUboot
    <2>2. tempo' \in BOOLEAN
      BY <1>1 DEF TempoFires
    <2>3. pc' \in Pcs
      BY <1>1 DEF TempoFires, StartUboot, Pcs
    <2> QED
      BY <1>1, <2>1, <2>2, <2>3 DEF TempoFires, StartUboot, cvars
  <1>2. CASE GetKey
    BY <1>2 DEF GetKey, Goto, Pcs
  <1>3. CASE StopTempo
    BY <1>3 DEF StopTempo, Goto, Pcs
  <1>4. CASE Download
    <2>1. PICK address \in Addresses, image \in Images :
            /\ arg' = address /\ length' = Len(image)
            /\ sdram' = [i \in Area |-> IF i < Len(image) THEN image[i + 1] ELSE sdram[i]]
      BY <1>4 DEF Download
    <2>2. image \in Seq(Byte) /\ Len(image) \in 0 .. MaxSize /\ arg' \in Nat
      BY <2>1, ImageAssumption
    <2>3. \A i \in Area : i < Len(image) => image[i + 1] \in Byte
      BY <2>2 DEF Area
    <2>4. sdram' \in [Area -> Cell]
      BY <2>1, <2>3
    <2> QED
      <3>1. UNCHANGED <<flash, uboot, device, tempo, crc1, done, fails>> /\ consent' = FALSE
        BY <1>4 DEF Download, Goto
      <3>2. pc' = "confirm" /\ shown' = "none" /\ downloads' = downloads + 1
        BY <1>4 DEF Download, Goto
      <3>3. length' \in 0 .. MaxSize
        BY <2>1, <2>2
      <3>4. pc' \in Pcs /\ shown' \in {"none", "OK", "Failed"} /\ downloads' \in Nat
        BY <3>2 DEF Pcs
      <3>5. consent' \in BOOLEAN /\ device' \in BOOLEAN /\ tempo' \in BOOLEAN
        BY <3>1
      <3> QED
        BY <2>2, <2>4, <3>1, <3>3, <3>4, <3>5
  <1>5. CASE Confirm
    BY <1>5 DEF Confirm, cvars, Pcs
  <1>6. CASE ConfirmDanger
    BY <1>6 DEF ConfirmDanger, Goto, Pcs
  <1>7. CASE Patch
    BY <1>7 DEF Patch, Goto, Area, Pcs
  <1>8. CASE Refuse
    BY <1>8 DEF Refuse, Goto, Pcs
  <1>9. CASE WriteBegin
    BY <1>9 DEF WriteBegin, Goto, Pcs
  <1>10. CASE WriteCell
    <2>1. pc \in {"writing", "erasing"} /\ done \in 0 .. length - 1 /\ crc1[done] \in Cell
      BY <1>10 DEF WriteCell, CrcShape, Writing
    <2>2. flash' = [flash EXCEPT ![At(arg + done)] = crc1[done]] /\ done' = done + 1
      BY <1>10 DEF WriteCell
    <2>3. flash' \in [0 .. Capacity - 1 -> Cell]
      BY <2>1, <2>2
    <2> QED
      BY <1>10, <2>1, <2>2, <2>3 DEF WriteCell, cvars
  <1>11. CASE WriteEnd
    BY <1>11 DEF WriteEnd, Goto, Pcs
  <1>12. CASE Clear
    BY <1>12 DEF Clear, Goto, Pcs
  <1>13. CASE Verify
    <2>1. sdram' \in [Area -> Cell]
      BY <1>13, LoadedType DEF Verify
    <2> QED
      BY <1>13, <2>1 DEF Verify, Goto, Pcs
  <1>14. CASE MenuUboot
    <2>1. uboot' \in [Area -> Cell] /\ pc' \in Pcs
      BY <1>14, LoadedType DEF MenuUboot, StartUboot, Pcs
    <2> QED
      BY <1>14, <2>1 DEF MenuUboot, StartUboot, cvars
  <1>15. CASE ClearBootsector
    BY <1>15 DEF ClearBootsector, Area, Pcs
  <1>16. CASE ClearedBootsector
    BY <1>16 DEF ClearedBootsector, Goto, Pcs
  <1>17. CASE PowerFail
    <2>1. flash' \in [0 .. Capacity - 1 -> Cell]
      BY <1>17 DEF PowerFail
    <2>2. sdram' \in [Area -> Cell] /\ uboot' \in [Area -> Cell]
      BY <1>17 DEF PowerFail, Unknown
    <2>3. DOMAIN crc1' \subseteq Area
      <3>1. DOMAIN crc1' = {}
        BY <1>17 DEF PowerFail
      <3> QED
        BY <3>1
    <2>4. device' \in BOOLEAN /\ tempo' \in BOOLEAN /\ consent' \in BOOLEAN
      BY <1>17 DEF PowerFail
    <2>5. arg' \in Nat /\ length' \in 0 .. MaxSize /\ done' \in 0 .. MaxSize
      BY <1>17 DEF PowerFail
    <2>6. pc' \in Pcs /\ shown' \in {"none", "OK", "Failed"} /\ downloads' \in Nat /\ fails' \in Nat
      BY <1>17 DEF PowerFail, Pcs
    <2> QED
      BY <2>1, <2>2, <2>3, <2>4, <2>5, <2>6
  <1>18. CASE UNCHANGED vars
    BY <1>18 DEF vars, cvars
  <1>19. CASE Hang
    BY <1>19 DEF Hang, Goto, Pcs
  <1> QED
    BY <1>1, <1>2, <1>3, <1>4, <1>5, <1>6, <1>7, <1>8, <1>9, <1>10, <1>11, <1>12, <1>13, <1>14,
       <1>15, <1>16, <1>17, <1>18, <1>19
    DEF Next, WriteSteps

\* What a step does that leaves a download, its result and the device alone.
Still == UNCHANGED <<flash, device, arg, length, crc1, shown>>

\* The verification reads what is there, or stops at a chunk that is refused.
LEMMA VerifyTrue == LInv /\ Verify => VerifiedIsThere'
  <1> SUFFICES ASSUME LInv, Verify PROVE VerifiedIsThere'
    OBVIOUS
  <1> DEFINE crc2 == [i \in 0 .. length - 1 |-> sdram'[i]]
  <1>1. pc = "verify" /\ UNCHANGED <<flash, device, arg, length, crc1>>
    BY DEF Verify, Goto
  <1>2. shown' = IF crc1 = crc2 THEN "OK" ELSE "Failed"
    BY DEF Verify
  <1>3. arg \in Nat /\ length \in Nat /\ device \in BOOLEAN /\ arg + length <= 2 * Half
        /\ MaxSize \in Nat /\ length <= MaxSize /\ 2 * Capacity < Half /\ MaxSize <= Capacity
        /\ Capacity \in Nat /\ Half \in Nat /\ Chunk \in Nat \ {0}
    BY <1>1, LayoutAssumption, WordAssumption DEF LInv, TypeOK, Inside, Writing
  <1>4. crc1 \in [0 .. length - 1 -> Cell]
    BY <1>1 DEF LInv, CrcShape, Writing
  <1>5. \A i \in 0 .. length - 1 :
          crc2[i] = IF Readable(arg, length, i) THEN flash[At(arg + i)] ELSE 0
    <2>1. \A i \in 0 .. length - 1 : i \in Area /\ sdram[i] = 0 /\ i < length
      BY <1>1, <1>3 DEF LInv, Cleared, Area
    <2>2. sdram' = [i \in Area |-> IF i < length /\ Readable(arg, length, i)
                                     THEN flash[At(arg + i)] ELSE sdram[i]]
      BY DEF Verify, Loaded
    <2> QED
      BY <2>1, <2>2
  <1>6. Refused <=> arg + length < Half /\ arg + length > IF device THEN Capacity ELSE 0
    BY <1>3, SizeFacts DEF Refused
  <1>7. \A c \in Nat \ {0} :
          /\ EndOf(c, length) \in 0 .. length /\ EndOf(1, length) <= EndOf(c, length)
          /\ length > 0 => EndOf(1, length) > 0
          /\ TooLarge(arg, EndOf(c, length))
               <=> /\ arg + EndOf(c, length) < Half
                   /\ arg + EndOf(c, length) > IF device THEN Capacity ELSE 0
    <2> SUFFICES ASSUME NEW c \in Nat \ {0}
                 PROVE  /\ EndOf(c, length) \in 0 .. length /\ EndOf(1, length) <= EndOf(c, length)
                        /\ length > 0 => EndOf(1, length) > 0
                        /\ TooLarge(arg, EndOf(c, length))
                             <=> /\ arg + EndOf(c, length) < Half
                                 /\ arg + EndOf(c, length) > IF device THEN Capacity ELSE 0
      OBVIOUS
    <2>1. /\ EndOf(c, length) \in 0 .. length /\ EndOf(1, length) <= EndOf(c, length)
          /\ length > 0 => EndOf(1, length) > 0
      BY <1>3, EndFacts
    <2>2. EndOf(c, length) \in Nat /\ arg + EndOf(c, length) <= 2 * Half
      BY <1>3, <2>1
    <2> QED
      BY <1>3, <2>1, <2>2, SizeFacts
  <1>71. PICK first \in 0 .. length :
        /\ first = EndOf(1, length) /\ (length > 0 => first > 0)
        /\ TooLarge(arg, EndOf(1, length))
             <=> /\ arg + first < Half
                 /\ arg + first > IF device THEN Capacity ELSE 0
    <2>1. 1 \in Nat \ {0}
      OBVIOUS
    <2> QED
      BY <1>7, <2>1
  <1>8. ASSUME shown' = "OK", NEW i \in 0 .. length - 1
        PROVE  Stored(i) \/ (Refused /\ i >= Chunk /\ crc1[i] = 0)
    <2>1. crc1 = crc2 /\ i \in Nat /\ length > 0
      BY <1>2, <1>3, <1>8
    <2>2. ~TooLarge(arg, EndOf(1, length))
      <3>1. Vect6 \in 0 .. length - 1 /\ crc1[Vect6] = VECTOR /\ Vect6 < Chunk /\ Vect6 \in Nat
        BY <1>1, <1>3, <2>1, LayoutAssumption DEF LInv, Vector, Writing
      <3>2. Readable(arg, length, Vect6)
        BY <1>5, <2>1, <3>1, ByteAssumption
      <3> QED
        BY <1>3, <3>1, <3>2, ReadFacts
    <2>3. arg + first >= Half \/ (device /\ arg + first <= Capacity)
      BY <1>3, <1>71, <2>1, <2>2
    <2>4. device
      <3>1. CASE arg + first >= Half
        <4>1. arg + length >= Half
          BY <1>3, <1>71, <3>1
        <4> QED
          BY <1>1, <1>3, <1>6, <4>1 DEF LInv, Accepted
      <3> QED
        BY <2>3, <3>1
    <2>5. CASE Readable(arg, length, i)
      BY <1>5, <1>8, <2>1, <2>4, <2>5 DEF Stored
    <2>6. CASE ~Readable(arg, length, i)
      <3>1. PICK c \in 1 .. (i \div Chunk) + 1 : TooLarge(arg, EndOf(c, length))
        BY <1>3, <2>1, <2>6, ReadFacts
      <3>2. i >= Chunk
        BY <1>3, <2>1, <2>2, <2>6, ReadFacts
      <3>3. c \in Nat \ {0}
        BY <1>3, <2>1, ReadFacts
      <3>4. arg + EndOf(c, length) < Half /\ arg + EndOf(c, length) > Capacity
        BY <1>7, <2>4, <3>1, <3>3
      <3>5. arg + first < Half /\ arg + first <= Capacity
        BY <1>3, <1>7, <1>71, <2>3, <3>3, <3>4
      <3>6. arg + length < Half
        BY <1>3, <1>71, <3>5
      <3>7. Refused
        BY <1>3, <1>6, <1>7, <2>4, <3>3, <3>4, <3>6
      <3> QED
        BY <1>5, <1>8, <2>1, <2>6, <3>2, <3>7
    <2> QED
      BY <2>5, <2>6
  <1>9. ASSUME InReach, ~Refused PROVE shown' = "OK"
    <2>1. device /\ ThereUpTo(length)
      BY <1>1, <1>9 DEF LInv, Accepted, Written
    <2>2. arg + length <= Capacity
      BY <1>3, <1>6, <1>9, <2>1 DEF InReach
    <2>3. \A i \in 0 .. length - 1 : Readable(arg, length, i)
      <3> SUFFICES ASSUME NEW i \in 0 .. length - 1, NEW c \in 1 .. (i \div Chunk) + 1
                   PROVE  ~TooLarge(arg, EndOf(c, length))
        BY <1>3, ReadFacts
      <3>1. c \in Nat \ {0}
        BY <1>3, ReadFacts
      <3> QED
        BY <1>3, <1>7, <2>1, <2>2, <3>1
    <2>4. crc1 = crc2
      BY <1>4, <1>5, <2>1, <2>3 DEF ThereUpTo
    <2> QED
      BY <1>2, <2>4
  <1>10. /\ \A i \in Nat : Stored(i)' <=> Stored(i)
         /\ Refused' <=> Refused
         /\ InReach' <=> InReach
    BY <1>1 DEF Stored, Refused, TooLarge, Signed, At, InReach
  <1>11. shown' = "OK" => \A i \in 0 .. length' - 1 :
                            Stored(i)' \/ (Refused' /\ i >= Chunk /\ crc1'[i] = 0)
    BY <1>1, <1>3, <1>8, <1>10
  <1>12. shown' = "Failed" /\ InReach' => Refused'
    BY <1>9, <1>10
  <1> QED
    BY <1>11, <1>12 DEF VerifiedIsThere

\* Every step keeps the rest of the invariant.
LEMMA NextInv == LInv /\ [Next]_vars => LInv'
  <1> SUFFICES ASSUME LInv, [Next]_vars PROVE LInv'
    OBVIOUS
  <1>0. TypeOK'
    BY NextType
  <1> USE DEF Asked, Writing
  <1> DEFINE Rest == CrcShape /\ Inside /\ Accepted /\ Written /\ Vector /\ Cleared /\ Quiet
  <1>01. Rest
    BY DEF LInv
  <1>02. Still => (Refused' <=> Refused) /\ (InReach' <=> InReach) /\ VerifiedIsThere'
    BY VerifiedFrame DEF Still, LInv, Refused, TooLarge, Signed, InReach
  <1>03. Still => \A n : ThereUpTo(n) => ThereUpTo(n)'
    BY DEF Still, ThereUpTo, At
  \* A step that ends where nothing is known, and leaves what was shown.
  <1>04. Still /\ pc' \in Pcs \ (Asked \cup Writing \cup {"erasing"})
          /\ (shown # "none" => pc' \in {"menu", "uboot"}) => LInv'
    BY <1>0, <1>01, <1>02 DEF LInv, Still, CrcShape, Inside, Accepted, Written, Vector, Cleared, Quiet
  <1>1. CASE TempoFires
    BY <1>1, <1>04 DEF TempoFires, StartUboot, Still, Pcs
  <1>2. CASE GetKey
    BY <1>2, <1>01, <1>04 DEF GetKey, Goto, Still, Pcs, Quiet
  <1>3. CASE StopTempo
    BY <1>3, <1>01, <1>04 DEF StopTempo, Goto, Still, Pcs
  <1>4. CASE Download
    <2>1. PICK a \in Addresses, image \in Images : arg' = a /\ length' = Len(image)
      BY <1>4 DEF Download
    <2>2. pc' = "confirm" /\ shown' = "none"
      BY <1>4 DEF Download, Goto
    <2>3. length' = 0 \/ Vect6 < length'
      BY <2>1, ImageAssumption
    <2>4. arg' + length' <= 2 * Half
      BY <2>1, ImageAssumption
    <2> QED
      BY <1>0, <2>2, <2>3, <2>4
      DEF LInv, CrcShape, Inside, Accepted, Written, Vector, Cleared, Quiet, VerifiedIsThere
  <1>5. CASE Confirm
    <2>1. pc = "confirm" /\ pc' \in {"menu", "danger", "patch"} /\ Still
      BY <1>5 DEF Confirm, Still
    <2> QED
      BY <1>0, <1>01, <1>02, <2>1
      DEF Still, LInv, CrcShape, Inside, Accepted, Written, Vector, Cleared, Quiet
  <1>6. CASE ConfirmDanger
    <2>1. pc = "danger" /\ pc' \in {"menu", "patch"} /\ Still
      BY <1>6 DEF ConfirmDanger, Goto, Still
    <2> QED
      BY <1>0, <1>01, <1>02, <2>1
      DEF Still, LInv, CrcShape, Inside, Accepted, Written, Vector, Cleared, Quiet
  <1>7. CASE Patch
    <2>1. pc = "patch" /\ pc' = "write" /\ length' = length /\ arg' = arg /\ shown' = shown
      BY <1>7 DEF Patch, Goto
    <2>2. \A i \in 0 .. length - 1 : i \in Area
      BY LayoutAssumption DEF LInv, TypeOK, Area
    <2>3. crc1' = [i \in 0 .. length - 1 |-> sdram'[i]]
      BY <1>7 DEF Patch
    <2>4. CrcShape'
      BY <1>0, <2>1, <2>2, <2>3 DEF CrcShape, TypeOK
    <2>5. sdram'[Vect6] = VECTOR
      BY <1>7, LayoutAssumption DEF Patch, LInv, TypeOK, Area
    <2>6. Vector'
      BY <2>1, <2>3, <2>5, LayoutAssumption DEF LInv, TypeOK, Vector
    <2>7. shown' = "none"
      BY <1>01, <2>1 DEF Quiet
    <2> QED
      BY <1>0, <1>01, <2>1, <2>4, <2>6, <2>7
      DEF LInv, Inside, Accepted, Written, Cleared, Quiet, VerifiedIsThere
  <1>8. CASE Refuse
    <2>1. pc = "write" /\ pc' = "clear" /\ Refused /\ Still
      BY <1>8 DEF Refuse, Goto, Still
    <2> QED
      BY <1>0, <1>01, <1>02, <2>1
      DEF Still, LInv, CrcShape, Inside, Accepted, Written, Vector, Cleared, Quiet
  <1>9. CASE WriteBegin
    <2>1. pc = "write" /\ pc' = "writing" /\ ~Refused /\ device /\ Still /\ done' = 0
      BY <1>9 DEF WriteBegin, Goto, Still
    <2>2. ThereUpTo(0)'
      BY DEF ThereUpTo
    <2>3. Written'
      BY <2>1, <2>2 DEF Written
    <2>4. Accepted'
      BY <1>02, <2>1, LayoutAssumption DEF Accepted, Still, LInv, TypeOK
    <2> QED
      BY <1>0, <1>01, <1>02, <2>1, <2>3, <2>4
      DEF Still, LInv, CrcShape, Inside, Vector, Cleared, Quiet
  <1>10. CASE WriteCell
    <2>1. /\ pc \in {"writing", "erasing"} /\ pc' = pc /\ done \in Nat /\ done < length
          /\ done' = done + 1 /\ UNCHANGED <<device, arg, length, crc1, shown>>
          /\ flash' = [flash EXCEPT ![At(arg + done)] = crc1[done]]
      BY <1>10, LayoutAssumption DEF WriteCell, LInv, TypeOK
    <2>2. (Refused' <=> Refused) /\ (InReach' <=> InReach)
      BY <2>1 DEF Refused, TooLarge, Signed, InReach
    <2>3. arg \in Nat /\ length \in Nat /\ device \in BOOLEAN /\ Capacity \in Nat
      BY LayoutAssumption DEF LInv, TypeOK
    <2>4. Written'
      <3> SUFFICES ASSUME InReach, pc = "writing" PROVE \A i \in 0 .. done : (flash[At(arg + i)] = crc1[i])'
        BY <2>1, <2>2 DEF Written, ThereUpTo
      <3>1. ~Refused /\ device /\ ThereUpTo(done) /\ arg + length <= 2 * Half
        BY <1>01 DEF Accepted, Written, Inside
      <3>2. arg + length <= Capacity
        BY <2>3, <3>1, SizeFacts DEF Refused, InReach
      <3>3. \A i \in 0 .. done : arg + i \in Nat /\ At(arg + i) = arg + i /\ arg + i \in 0 .. Capacity - 1
        BY <2>1, <2>3, <3>2, AtFacts
      <3>4. flash \in [0 .. Capacity - 1 -> Cell]
        BY DEF LInv, TypeOK
      <3>5. \A i \in 0 .. done - 1 : flash[arg + i] = crc1[i]
        BY <2>1, <3>1, <3>3 DEF ThereUpTo
      <3>6. flash' = [flash EXCEPT ![arg + done] = crc1[done]]
        <4>1. done \in 0 .. done
          BY <2>1
        <4>2. At(arg + done) = arg + done
          BY <3>3, <4>1
        <4> QED
          BY <2>1, <4>2
      <3>7. \A i \in 0 .. done : flash'[arg + i] = crc1[i]
        BY <2>1, <2>3, <3>3, <3>4, <3>5, <3>6
      <3>8. \A i \in 0 .. done : At(arg + i)' = arg + i
        BY <2>1, <3>3 DEF At
      <3> QED
        BY <2>1, <3>7, <3>8
    <2>5. Accepted'
      BY <1>01, <2>1, <2>2, <2>3 DEF Accepted
    <2>6. shown' = "none"
      BY <1>01, <2>1 DEF Quiet
    <2> QED
      BY <1>0, <1>01, <2>1, <2>4, <2>5, <2>6
      DEF LInv, CrcShape, Inside, Vector, Cleared, Quiet, VerifiedIsThere
  <1>11. CASE WriteEnd
    <2>1. pc = "writing" /\ pc' = "clear" /\ done = length /\ Still
      BY <1>11 DEF WriteEnd, Goto, Still
    <2>2. Written'
      BY <1>01, <1>02, <1>03, <2>1 DEF Written, Still
    <2>3. Accepted'
      BY <1>01, <1>02, <2>1 DEF Accepted, Still
    <2> QED
      BY <1>0, <1>01, <1>02, <2>1, <2>2, <2>3
      DEF Still, LInv, CrcShape, Inside, Vector, Cleared, Quiet
  <1>12. CASE Clear
    <2>1. pc = "clear" /\ pc' = "verify" /\ Still
      BY <1>12 DEF Clear, Goto, Still
    <2>2. \A i \in 0 .. length - 1 : i \in Area /\ sdram'[i] = 0
      BY <1>12, LayoutAssumption DEF Clear, LInv, TypeOK, Area
    <2>3. Cleared'
      BY <2>1, <2>2 DEF Cleared, Still
    <2>4. Written'
      BY <1>01, <1>02, <1>03, <2>1 DEF Written, Still
    <2>5. Accepted'
      BY <1>01, <1>02, <2>1 DEF Accepted, Still
    <2> QED
      BY <1>0, <1>01, <1>02, <2>1, <2>3, <2>4, <2>5
      DEF Still, LInv, CrcShape, Inside, Vector, Quiet
  <1>13. CASE Verify
    <2>1. pc' = "menu"
      BY <1>13 DEF Verify, Goto
    <2> QED
      BY <1>0, <1>13, <2>1, VerifyTrue
      DEF LInv, CrcShape, Inside, Accepted, Written, Vector, Cleared, Quiet
  <1>14. CASE MenuUboot
    BY <1>14, <1>04 DEF MenuUboot, StartUboot, Still, Pcs
  <1>15. CASE ClearBootsector
    <2>1. arg' = 0 /\ length' = BootSize /\ shown' = "none" /\ pc' \in {"erasing", "cleared"}
      BY <1>15 DEF ClearBootsector
    <2>2. crc1' = [i \in 0 .. BootSize - 1 |-> 0]
      BY <1>15 DEF ClearBootsector
    <2>3. CrcShape'
      BY <2>1, <2>2, ByteAssumption DEF CrcShape, Cell
    <2>4. Accepted' /\ Inside'
      BY <2>1, LayoutAssumption, WordAssumption DEF Accepted, Inside
    <2> QED
      BY <1>0, <2>1, <2>3, <2>4 DEF LInv, Written, Vector, Cleared, Quiet, VerifiedIsThere
  <1>16. CASE ClearedBootsector
    <2>1. pc' \in {"cleared", "menu"} /\ pc \in {"erasing", "cleared"} /\ Still
      BY <1>16 DEF ClearedBootsector, Goto, Still
    <2> QED
      BY <1>01, <1>04, <2>1 DEF Pcs, Quiet
  <1>17. CASE PowerFail
    BY <1>0, <1>17
    DEF PowerFail, LInv, CrcShape, Inside, Accepted, Written, Vector, Cleared, Quiet, VerifiedIsThere
  <1>18. CASE UNCHANGED vars
    <2>1. Still /\ UNCHANGED <<pc, done, sdram>>
      BY <1>18 DEF vars, Still
    <2> QED
      BY <1>0, <1>01, <1>02, <1>03, <2>1
      DEF Still, LInv, CrcShape, Inside, Accepted, Written, Vector, Cleared, Quiet
  <1>19. CASE Hang
    <2>1. pc = "write" /\ pc' = "hang" /\ Still
      BY <1>19 DEF Hang, Goto, Still
    <2> QED
      BY <1>01, <1>04, <2>1 DEF Pcs, Quiet
  <1> QED
    BY <1>1, <1>2, <1>3, <1>4, <1>5, <1>6, <1>7, <1>8, <1>9, <1>10, <1>11, <1>12, <1>13, <1>14,
       <1>15, <1>16, <1>17, <1>18, <1>19
    DEF Next, WriteSteps

-----------------------------------------------------------------------------
\* Every variable keeps its type.
THEOREM TypeCorrect == Spec => []TypeOK
  <1>1. LInv => TypeOK
    BY DEF LInv
  <1> QED
    BY InitInv, NextInv, <1>1, PTL DEF Spec

\* What is printed of the verification (main.cpp, after the write) is true.
THEOREM VerificationTrue == Spec => []VerifiedIsThere
  <1>1. LInv => VerifiedIsThere
    BY DEF LInv
  <1> QED
    BY InitInv, NextInv, <1>1, PTL DEF Spec

-----------------------------------------------------------------------------
\* What is written to address 0 was agreed to.
Agreed == pc \in Writing \cup {"patch", "erasing"} => consent \/ arg # 0

\* Only the two questions lead to a write, and consent lasts until the next menu item.
LEMMA AgreedStep == TypeOK /\ Agreed /\ [Next]_vars => Agreed'
  <1> SUFFICES ASSUME TypeOK, Agreed, [Next]_vars PROVE Agreed'
    OBVIOUS
  <1> USE DEF Agreed, Writing
  <1>1. CASE TempoFires \/ GetKey \/ StopTempo \/ Download \/ MenuUboot \/ PowerFail
    BY <1>1 DEF TempoFires, StartUboot, GetKey, StopTempo, Download, MenuUboot, PowerFail, Goto
  <1>2. CASE Confirm
    BY <1>2 DEF Confirm, cvars
  <1>3. CASE ConfirmDanger
    BY <1>3 DEF ConfirmDanger, Goto
  <1>4. CASE Patch
    BY <1>4 DEF Patch, Goto
  <1>5. CASE WriteSteps
    BY <1>5 DEF WriteSteps, Refuse, Hang, WriteBegin, WriteCell, WriteEnd, Clear, Verify, Goto, cvars
  <1>6. CASE ClearBootsector
    BY <1>6 DEF ClearBootsector
  <1>7. CASE ClearedBootsector
    BY <1>7 DEF ClearedBootsector, Goto
  <1>8. CASE UNCHANGED vars
    BY <1>8 DEF vars, cvars
  <1> QED
    BY <1>1, <1>2, <1>3, <1>4, <1>5, <1>6, <1>7, <1>8 DEF Next

\* The boot loader in the flash (main.cpp, menu items 1 and 5) is not overwritten
\* unasked, but for an image whose address lies inside it or counts as negative.
THEOREM BootloaderKept == Spec => BootloaderAsked
  <1>1. LInv /\ Agreed /\ [Next]_vars =>
          [\A a \in 0 .. BootSize - 1 :
             flash'[a] # flash[a] => consent \/ arg \in 1 .. BootSize - 1 \/ ~InReach]_vars
    <2> SUFFICES ASSUME LInv, Agreed, Next, NEW a \in 0 .. BootSize - 1, flash'[a] # flash[a], InReach
                 PROVE  consent \/ arg \in 1 .. BootSize - 1
      OBVIOUS
    <2>1. pc \in {"writing", "erasing"} /\ At(arg + done) = a /\ done < length
      <3>1. WriteCell \/ PowerFail
        BY DEF Next, WriteSteps, TempoFires, StartUboot, GetKey, StopTempo, Download, MenuUboot,
           Confirm, ConfirmDanger, Patch, Refuse, Hang, WriteBegin, WriteEnd, Clear, Verify, Goto,
           ClearBootsector, ClearedBootsector
      <3>2. a \in 0 .. Capacity - 1 /\ flash \in [0 .. Capacity - 1 -> Cell]
        BY LayoutAssumption DEF LInv, TypeOK
      <3>3. CASE WriteCell
        <4>1. pc \in {"writing", "erasing"} /\ done < length
              /\ flash' = [flash EXCEPT ![At(arg + done)] = crc1[done]]
          BY <3>3 DEF WriteCell
        <4> QED
          BY <3>2, <4>1
      <3>4. CASE PowerFail
        <4>1. pc \in {"writing", "erasing"} /\ done < length
              /\ flash' = [flash EXCEPT ![At(arg + done)] = JUNK]
          BY <3>4 DEF PowerFail
        <4> QED
          BY <3>2, <4>1
      <3> QED
        BY <3>1, <3>3, <3>4
    <2>2. arg \in Nat /\ done \in Nat /\ length \in Nat /\ device \in BOOLEAN /\ Capacity \in Nat
      BY LayoutAssumption DEF LInv, TypeOK
    <2>3. consent \/ arg # 0
      BY <2>1 DEF Agreed, Writing
    <2>4. arg + length <= Capacity
      <3>1. CASE pc = "writing"
        <4>1. ~Refused /\ device /\ arg + length <= 2 * Half
          BY <3>1 DEF LInv, Accepted, Inside, Writing
        <4> QED
          BY <2>2, <4>1, SizeFacts DEF Refused, InReach
      <3>2. CASE pc = "erasing"
        BY <3>2 DEF LInv, Accepted
      <3> QED
        BY <2>1, <3>1, <3>2
    <2>5. arg + done = a
      BY <2>1, <2>2, <2>4, AtFacts
    <2> QED
      BY <2>2, <2>3, <2>5, LayoutAssumption
  <1>2. Init => Agreed
    BY DEF Init, Agreed, Writing
  <1>3. LInv => TypeOK
    BY DEF LInv
  <1> QED
    BY <1>1, <1>2, <1>3, InitInv, NextInv, AgreedStep, PTL DEF Spec, BootloaderAsked

-----------------------------------------------------------------------------
(***************************************************************************)
(* The memory test                                                         *)
(***************************************************************************)

Cells == 0 .. N - 1

MTypeOK ==
  /\ access_size \in {1, 4} /\ fault \in Faults(access_size)
  /\ mem \in [Cells -> SUBSET Bits]
  /\ start_addr \in Cells /\ skew \in Nat /\ test_addr \in Nat /\ addr \in Cells
  /\ val \in SUBSET Bits /\ number \in Nat /\ round \in Nat /\ test_result \in BOOLEAN

GalpatStages == {"complement", "scan", "restore"}

\* Where each test can be, and what its loop variables are there
Place ==
  \/ test = "none" /\ stage = "menu" /\ ~test_result
  \/ /\ test = "galpat" /\ stage \in {"clear", "menu"} \cup GalpatStages
     /\ test_addr - start_addr \in 0 .. GalpatWords
     /\ stage \in GalpatStages => InArea(test_addr)
     /\ stage = "clear" => test_addr = start_addr
     /\ stage = "menu" => ~InArea(test_addr)
  \/ /\ test = "march" /\ stage \in {"clear", "write", "read", "menu"}
     /\ stage = "clear" => round = 0
     /\ stage # "menu" => round \in {0, 1} /\ val = (IF round = 0 THEN {0} ELSE Not({0}))
  \/ /\ test = "address" /\ stage \in {"write_addr", "read_addr", "menu"}
     /\ stage # "menu" => number = addr

MTypes == MTypeOK /\ Place

\* All cells but one whose address selects another
Reached(c) == ~(fault.kind = "alias" /\ c = fault.a)

Zero(c)   == Reached(c) => mem[c] = {}
ZeroSoFar == stage = "clear" => \A c \in 0 .. addr - 1 : Zero(c)

\* Of a galloping pattern test that misses the words, the first test cell is clear
\* but for a stuck bit, and comes up as another cell: either that bit or what was
\* written into it tells of an error, whatever the memory is like.
Skewed ==
  test = "galpat" /\ skew # 0 =>
    /\ stage = "complement" /\ test_addr = start_addr => \A c \in Cells : Zero(c)
    /\ stage = "scan" /\ test_addr = start_addr =>
         val = {} \/ (fault.kind = "stuck" /\ start_addr = fault.a /\ fault.b = 1)
    /\ test_addr # start_addr \/ stage = "restore" \/ (stage = "scan" /\ start_addr < addr) =>
         test_result

\* What a cell holds while another one is the test cell, and none has told of
\* an error: nothing, or the bit that the test cell inverted
Disturbed(c) == fault.kind = "coupling" /\ CellOf(test_addr) = fault.a /\ c = fault.b
Expected(c)  == IF c = CellOf(test_addr) THEN Bits ELSE IF Disturbed(c) THEN {fault.bit} ELSE {}

Pattern ==
  test = "galpat" /\ skew = 0 /\ fault.kind # "stuck" /\ ~test_result =>
    /\ stage = "complement" => \A c \in Cells : Zero(c)
    /\ stage \in {"scan", "restore"} =>
         val = {} /\ \A c \in Cells : Reached(c) => mem[c] = Expected(c)

\* The comparisons of the galloping pattern test which have been made, of cell
\* c while t was the test address, and those which tell of the fault
Scanned(t, c) ==
  \/ t \in start_addr .. test_addr - 1
  \/ t = test_addr /\ (stage = "restore" \/ (stage = "scan" /\ c < addr))
Betrays(t, c) ==
  \/ fault.kind = "stuck" /\ (t % N = fault.a \/ (fault.b = 1 /\ c = fault.a))
  \/ fault.kind = "alias" /\ {t % N, c} = {fault.a, fault.b}
  \/ fault.kind = "coupling" /\ t % N = fault.a /\ c = fault.b
Found ==
  test = "galpat" /\ skew = 0 =>
    \A t \in 0 .. test_addr, c \in Cells : Scanned(t, c) /\ Betrays(t, c) => test_result

\* What has been read of a test cell with a stuck bit has that bit, so what the
\* test expects of it, the complement, has not
SeenOpposite ==
  stage = "scan" /\ skew = 0 /\ fault.kind = "stuck" /\ test_addr % N = fault.a =>
    (fault.bit \in val <=> fault.b = 1)

\* What the other two tests have written, in a memory without a fault
What(c) == IF test = "march" THEN val ELSE Number(c)
Filled ==
  fault.kind = "none" =>
    /\ stage \in {"write", "write_addr"} => \A c \in 0 .. addr - 1 : mem[c] = What(c)
    /\ stage \in {"read", "read_addr"} => \A c \in Cells : mem[c] = What(c)

\* The value of this round is not what the stuck bit is
Odd == (fault.bit \in val) # (fault.b = 1)
MarchStuck ==
  test = "march" /\ fault.kind = "stuck" =>
    /\ stage = "read" /\ Odd /\ N - 1 - addr < fault.a => test_result
    /\ stage \in {"write", "read"} /\ round = 1 /\ ~Odd => test_result
    /\ stage = "menu" => test_result

\* The value of this round has the bit whose rise is seen in the other cell: it
\* rises when that one, with the lower address, has been written already
Hot == fault.bit \in val
MarchCoupled ==
  test = "march" /\ fault.kind = "coupling" /\ fault.b < fault.a =>
    /\ stage = "write" /\ addr <= fault.a /\ (Hot \/ round = 0) => fault.bit \notin mem[fault.a]
    /\ stage = "write" /\ fault.b < addr /\ addr <= fault.a /\ Hot => fault.bit \in mem[fault.b]
    /\ stage = "read" \/ (stage = "write" /\ fault.a < addr) =>
         /\ ~Hot /\ round = 0 => fault.bit \notin mem[fault.a]
         /\ Hot => fault.bit \notin mem[fault.b]
    /\ stage = "read" /\ Hot /\ N - 1 - addr < fault.b => test_result
    /\ stage \in {"write", "read"} /\ round = 1 /\ ~Hot => test_result
    /\ stage = "menu" => test_result

\* The shared cell holds the number of the later of its two addresses
AddressShared ==
  test = "address" /\ Address =>
    LET last  == IF fault.a < fault.b THEN fault.b ELSE fault.a
        first == IF fault.a < fault.b THEN fault.a ELSE fault.b
    IN  /\ stage = "read_addr" \/ (stage = "write_addr" /\ last < addr) => mem[fault.b] = Number(last)
        /\ stage = "menu" \/ (stage = "read_addr" /\ first < addr) => test_result

MInv == MTypes /\ ZeroSoFar /\ Skewed /\ Pattern /\ SeenOpposite /\ Found /\ Filled
          /\ MarchStuck /\ MarchCoupled /\ AddressShared /\ NoFalseAlarm

-----------------------------------------------------------------------------
\* The memory has a unit, and a unit has a bit.
LEMMA Geometry ==
  ASSUME access_size \in {1, 4}
  PROVE  N \in Nat \ {0} /\ Cells = 0 .. N - 1 /\ 0 \in Cells /\ 0 \in Bits
  <1>1. \A m, n \in Nat \ {0} : m * n \in Nat \ {0}
    OBVIOUS
  <1>2. Units(access_size) \in Nat \ {0} /\ Width(access_size) \in Nat \ {0}
    BY <1>1, MemoryAssumption DEF Units, Width
  <1> QED
    BY <1>2 DEF N, Cells, Bits

\* What a fault is made of.
LEMMA FaultShape ==
  ASSUME MTypeOK
  PROVE  /\ fault.kind \in {"none", "stuck", "alias", "coupling"}
         /\ fault.a \in Cells /\ fault.bit \in Bits
         /\ fault.kind = "stuck" => fault.b \in {0, 1}
         /\ fault.kind \in {"alias", "coupling"} => fault.b \in Cells /\ fault.a # fault.b
  <1>1. 0 .. Units(access_size) - 1 = Cells /\ 0 .. Width(access_size) - 1 = Bits
    BY DEF Cells, N, Bits
  <1>2. 0 \in Cells /\ 0 \in Bits
    BY Geometry DEF MTypeOK
  <1>3. fault \in Faults(access_size)
    BY DEF MTypeOK
  <1> QED
    BY <1>1, <1>2, <1>3 DEF Faults

\* The cell of an address is one that can be reached, its own if that can.
LEMMA CellFacts ==
  ASSUME MTypeOK, NEW a \in Nat
  PROVE  /\ CellOf(a) \in Cells /\ Reached(CellOf(a))
         /\ a % N \in Cells /\ (a \in Cells => a % N = a)
         /\ Reached(a % N) => CellOf(a) = a % N
         /\ ~Reached(a % N) => CellOf(a) = fault.b
  <1>1. N \in Nat \ {0} /\ Cells = 0 .. N - 1
    BY Geometry DEF MTypeOK
  <1>2. a % N \in 0 .. N - 1 /\ (a < N => a % N = a)
    BY <1>1, Modulo
  <1> QED
    BY <1>1, <1>2, FaultShape DEF CellOf, Reached

\* What an address holds is what its cell does, unless a bit of it is stuck.
LEMMA LoadFacts ==
  ASSUME MTypeOK, NEW a \in Nat
  PROVE  /\ Load(a) \in SUBSET Bits
         /\ fault.kind # "stuck" => Load(a) = mem[CellOf(a)]
         /\ fault.kind = "stuck" /\ a % N = fault.a => (fault.bit \in Load(a) <=> fault.b = 1)
  <1>1. mem[CellOf(a)] \in SUBSET Bits
    BY CellFacts DEF MTypeOK
  <1>2. fault.kind = "stuck" => CellOf(a) = a % N
    BY DEF CellOf
  <1> QED
    BY <1>1, <1>2, FaultShape DEF Load

\* A load from the address of a word does not turn it.
LEMMA TurnFacts ==
  ASSUME MTypeOK, NEW v \in SUBSET Bits
  PROVE  /\ Turned(v) \in SUBSET Bits /\ Turned({}) = {}
         /\ skew = 0 => Turned(v) = v
  <1>1. Turned(v) \in SUBSET Bits /\ Turned({}) = {}
    BY DEF Turned
  <1>2. Width(access_size) \in Nat \ {0}
    <2>1. \A m, n \in Nat \ {0} : m * n \in Nat \ {0}
      OBVIOUS
    <2> QED
      BY <2>1, MemoryAssumption DEF MTypeOK, Width
  <1>3. ASSUME skew = 0, NEW k \in Bits PROVE (k + skew * ByteBits) % Width(access_size) = k
    <2>1. k \in 0 .. Width(access_size) - 1 /\ k \in Nat
      BY DEF Bits
    <2>2. skew * ByteBits = 0
      BY <1>3, MemoryAssumption
    <2>3. k + skew * ByteBits = k
      BY <2>1, <2>2
    <2>4. PICK w \in Nat \ {0} : w = Width(access_size)
      BY <1>2
    <2>5. k % w = k
      BY <2>1, <2>4, Modulo
    <2> QED
      BY <2>3, <2>4, <2>5, Zenon
  <1>4. skew = 0 => Turned(v) = v
    BY <1>3 DEF Turned
  <1> QED
    BY <1>1, <1>4

\* A store changes its cell, and one that the cell is coupled to.
LEMMA StoreFacts ==
  ASSUME MTypeOK, NEW a \in Nat, NEW v \in SUBSET Bits, Store(a, v)
  PROVE  /\ mem' \in [Cells -> SUBSET Bits]
         /\ mem'[CellOf(a)] = v
         /\ \A c \in Cells : c # CellOf(a) => 
              mem'[c] = IF Rises(a, v) /\ c = fault.b THEN Flip(mem[c], fault.bit) ELSE mem[c]
  <1>1. DOMAIN mem = Cells /\ CellOf(a) \in Cells
    BY CellFacts DEF MTypeOK
  <1>2. mem' = [c \in Cells |-> IF c = CellOf(a) THEN v
                                ELSE IF Rises(a, v) /\ c = fault.b THEN Flip(mem[c], fault.bit)
                                ELSE mem[c]]
    BY <1>1 DEF Store
  <1>3. \A c \in Cells : Flip(mem[c], fault.bit) \in SUBSET Bits /\ mem[c] \in SUBSET Bits
    BY FaultShape DEF MTypeOK, Flip
  <1>4. mem' \in [Cells -> SUBSET Bits]
    BY <1>2, <1>3
  <1> QED
    BY <1>1, <1>2, <1>4

\* The geometry and the fault do not change.
LEMMA Frame ==
  ASSUME [MNext]_mvars
  PROVE  /\ UNCHANGED <<access_size, fault, N, Bits, Cells>>
         /\ stage # "menu" => UNCHANGED <<test, start_addr, skew>>
  <1>1. UNCHANGED <<access_size, fault>> /\ (stage # "menu" => UNCHANGED <<test, start_addr, skew>>)
    BY DEF MNext, mvars, args, GallopingPatternTest, MarchTest, AddressTest, Command, ClearSDRAM,
           Complement, Scan, Restore, Write, Read, WriteAddr, ReadAddr
  <1> QED
    BY <1>1 DEF N, Bits, Cells

\* The next value of a loop variable.
LEMMA CountFacts ==
  ASSUME MTypeOK, NEW loop, NEW next, Count(addr, loop, next)
  PROVE  /\ addr' \in Cells
         /\ \/ addr + 1 < N /\ addr' = addr + 1 /\ stage' = loop
            \/ addr + 1 = N /\ addr' = 0 /\ stage' = next
  BY Geometry DEF Count, MTypeOK

-----------------------------------------------------------------------------
(* Types, and where each test can be                                       *)

\* The program starts in the types.
LEMMA InitTypes == MInit => MTypes
  <1> SUFFICES ASSUME MInit PROVE MTypes
    OBVIOUS
  <1>1. 0 \in Cells /\ Cells = 0 .. N - 1
    BY Geometry DEF MInit
  <1> QED
    BY <1>1 DEF MInit, MTypes, MTypeOK, Place

\* Every step keeps them.
LEMMA NextTypes == MTypes /\ [MNext]_mvars => MTypes'
  <1> SUFFICES ASSUME MTypes, [MNext]_mvars PROVE MTypes'
    OBVIOUS
  <1> USE DEF MTypes
  <1>1. UNCHANGED <<access_size, fault, N, Bits, Cells>> /\ access_size \in {1, 4}
    BY Frame DEF MTypeOK
  <1>2. N \in Nat \ {0} /\ Cells = 0 .. N - 1 /\ 0 \in Cells /\ 0 \in Bits /\ addr \in Nat
    BY Geometry DEF MTypeOK
  <1>3. GalpatWords \in Nat \ {0}
    BY MemoryAssumption
  <1>4. fault' \in Faults(access_size')
    BY <1>1 DEF MTypeOK
  <1>5. CASE \E s \in 0 .. N, k \in 0 .. BytesPerWord - 1 : GallopingPatternTest(s, k)
    <2>1. PICK s \in 0 .. N, k \in 0 .. BytesPerWord - 1 : GallopingPatternTest(s, k)
      BY <1>5
    <2>2. /\ start_addr' \in Cells /\ test_addr' = start_addr' /\ stage' = "clear" /\ test' = "galpat"
          /\ addr' = 0 /\ number' = 0 /\ round' = 0 /\ test_result' = FALSE /\ val' = {} /\ mem' = mem
      BY <2>1, <1>2 DEF GallopingPatternTest, Command
    <2>3. PICK first \in Cells : start_addr' = first /\ test_addr' = first
      BY <2>2
    <2>4. first \in Nat /\ test_addr' - start_addr' = 0
      BY <2>3, <1>2
    <2>7. skew' \in Nat
      BY <2>1, MemoryAssumption DEF GallopingPatternTest
    <2>5. MTypeOK'
      BY <2>2, <2>3, <2>4, <2>7, <1>1, <1>2, <1>4 DEF MTypeOK
    <2>6. Place'
      BY <2>2, <2>3, <2>4, <1>3 DEF Place, InArea, GalpatStages
    <2> QED
      BY <2>5, <2>6
  <1>6. CASE MarchTest
    BY <1>6, <1>1, <1>2, <1>4 DEF MarchTest, Command, MTypeOK, Place
  <1>7. CASE AddressTest
    BY <1>7, <1>1, <1>2, <1>4 DEF AddressTest, Command, MTypeOK, Place
  <1>8. CASE ClearSDRAM
    <2>1. mem' \in [Cells -> SUBSET Bits]
      BY <1>8, <1>2, StoreFacts DEF ClearSDRAM
    <2>2. addr' \in Cells /\ stage' \in {"clear", IF test = "galpat" THEN "complement" ELSE "write"}
      BY <1>8, CountFacts DEF ClearSDRAM
    <2>3. UNCHANGED <<start_addr, skew, test, test_addr, val, number, round, test_result>> /\ stage = "clear"
      BY <1>8 DEF ClearSDRAM, args
    <2> QED
      BY <2>1, <2>2, <2>3, <1>1, <1>2, <1>3, <1>4 DEF MTypeOK, Place, InArea, GalpatStages, Not
  <1>9. CASE Complement
    <2>1. val' \in SUBSET Bits /\ mem' \in [Cells -> SUBSET Bits]
      BY <1>9, LoadFacts, TurnFacts, StoreFacts DEF Complement, MTypeOK, Not
    <2> QED
      BY <2>1, <1>9, <1>1, <1>2, <1>4 DEF Complement, args, MTypeOK, Place, InArea, GalpatStages
  <1>10. CASE Scan
    <2>1. addr' \in Cells /\ stage' \in {"scan", "restore"}
      BY <1>10, CountFacts DEF Scan
    <2>2. test_result' \in BOOLEAN
      BY <1>10 DEF Scan, Check, MTypeOK
    <2> QED
      BY <2>1, <2>2, <1>10, <1>1, <1>2, <1>4 DEF Scan, args, MTypeOK, Place, InArea, GalpatStages
  <1>11. CASE Restore
    <2>1. val' \in SUBSET Bits /\ mem' \in [Cells -> SUBSET Bits]
      BY <1>11, LoadFacts, TurnFacts, StoreFacts DEF Restore, MTypeOK, Not
    <2>2. /\ test = "galpat" /\ test' = "galpat" /\ test_addr' = test_addr + 1
          /\ stage' = IF InArea(test_addr') THEN "complement" ELSE "menu"
          /\ UNCHANGED <<start_addr, skew, addr, number, round, test_result>>
          /\ InArea(test_addr) /\ test_addr - start_addr \in 0 .. GalpatWords
      BY <1>11 DEF Restore, args, Place, GalpatStages
    <2>3. start_addr \in Nat /\ test_addr \in Nat
      BY <1>2 DEF MTypeOK
    <2>4. MTypeOK'
      BY <2>1, <2>2, <2>3, <1>1, <1>4 DEF MTypeOK
    <2>5. Place'
      BY <2>2, <2>3, <1>3 DEF Place, InArea, GalpatStages
    <2> QED
      BY <2>4, <2>5
  <1>12. CASE Write
    <2>1. mem' \in [Cells -> SUBSET Bits]
      BY <1>12, <1>2, StoreFacts DEF Write, MTypeOK
    <2>2. addr' \in Cells /\ stage' \in {"write", "read"}
      BY <1>12, CountFacts DEF Write
    <2>3. UNCHANGED <<start_addr, skew, test, test_addr, val, number, round, test_result>> /\ stage = "write"
      BY <1>12 DEF Write, args
    <2> QED
      BY <2>1, <2>2, <2>3, <1>1, <1>2, <1>4 DEF MTypeOK, Place, GalpatStages, Not
  <1>13. CASE Read
    <2>1. test_result' \in BOOLEAN
      BY <1>13 DEF Read, Check, MTypeOK
    <2>2. /\ addr' \in Cells
          /\ \/ stage' = "read"
             \/ stage' = IF round = 0 THEN "write" ELSE "menu"
      BY <1>13, CountFacts DEF Read
    <2>3. UNCHANGED <<mem, start_addr, skew, test, test_addr, number>> /\ stage = "read"
      BY <1>13 DEF Read, args
    <2>4. IF stage' = "read" THEN UNCHANGED <<val, round>> ELSE val' = Not(val) /\ round' = round + 1
      BY <1>13 DEF Read, NextVal
    <2>5. Not({0})' = Not({0}) /\ Not(val) \in SUBSET Bits
      BY <1>1 DEF Not
    <2>6. test = "march" /\ round \in {0, 1} /\ val = IF round = 0 THEN {0} ELSE Not({0})
      BY <2>3 DEF Place, GalpatStages
    <2>7. MTypeOK'
      BY <2>1, <2>2, <2>3, <2>4, <2>5, <1>1, <1>4 DEF MTypeOK
    <2>8. Place'
      BY <2>2, <2>3, <2>4, <2>5, <2>6 DEF Place
    <2> QED
      BY <2>7, <2>8
  <1>14. CASE WriteAddr
    <2>1. mem' \in [Cells -> SUBSET Bits]
      BY <1>14, <1>2, StoreFacts DEF WriteAddr, Number
    <2>2. addr' \in Cells /\ stage' \in {"write_addr", "read_addr"} /\ number' = addr'
      BY <1>14, CountFacts DEF WriteAddr, Place, GalpatStages
    <2>3. UNCHANGED <<start_addr, skew, test, test_addr, val, round, test_result>> /\ stage = "write_addr"
      BY <1>14 DEF WriteAddr, args
    <2> QED
      BY <2>1, <2>2, <2>3, <1>1, <1>2, <1>4 DEF MTypeOK, Place, GalpatStages
  <1>15. CASE ReadAddr
    <2>1. addr' \in Cells /\ stage' \in {"read_addr", "menu"} /\ (stage' # "menu" => number' = addr')
      BY <1>15, CountFacts DEF ReadAddr, Place, GalpatStages
    <2>2. test_result' \in BOOLEAN /\ number' \in Nat
      BY <1>15 DEF ReadAddr, Check, MTypeOK
    <2> QED
      BY <2>1, <2>2, <1>15, <1>1, <1>4 DEF ReadAddr, args, MTypeOK, Place, GalpatStages
  <1>16. CASE UNCHANGED mvars
    BY <1>16, <1>1 DEF mvars, args, MTypeOK, Place, InArea, Not
  <1> QED
    BY <1>5, <1>6, <1>7, <1>8, <1>9, <1>10, <1>11, <1>12, <1>13, <1>14, <1>15, <1>16 DEF MNext

-----------------------------------------------------------------------------
(* Steps                                                                   *)

\* One of the three commands
ACommand == \/ \E s \in 0 .. N, k \in 0 .. BytesPerWord - 1 : GallopingPatternTest(s, k)
            \/ MarchTest \/ AddressTest

\* A command begins a test.
LEMMA Commands ==
  ASSUME ACommand
  PROVE  /\ stage = "menu" /\ mem' = mem /\ addr' = 0 /\ test_result' = FALSE /\ round' = 0
         /\ test_addr' = start_addr'
         /\ \/ test' = "galpat" /\ stage' = "clear"
            \/ test' = "march" /\ stage' = "clear" /\ val' = {0}
            \/ test' = "address" /\ stage' = "write_addr"
  <1>1. CASE \E s \in 0 .. N, k \in 0 .. BytesPerWord - 1 : GallopingPatternTest(s, k)
    BY <1>1 DEF GallopingPatternTest, Command
  <1>2. CASE MarchTest
    BY <1>2 DEF MarchTest, Command
  <1>3. CASE AddressTest
    BY <1>3 DEF AddressTest, Command
  <1> QED
    BY <1>1, <1>2, <1>3 DEF ACommand

\* What is not the memory's content, nor the test's, does not change.
LEMMA FrameOps ==
  ASSUME [MNext]_mvars
  PROVE  /\ \A a : CellOf(a)' = CellOf(a) /\ Reached(a)' = Reached(a)
         /\ \A n : Number(n)' = Number(n)
         /\ \A v : Not(v)' = Not(v)
  BY Frame DEF CellOf, Reached, Number, Not

\* Clearing a cell leaves those before it clear.
LEMMA ClearStep ==
  ASSUME MTypes, ZeroSoFar, ClearSDRAM
  PROVE  \A c \in 0 .. addr : Reached(c) => mem'[c] = {}
  <1>1. Store(addr, {}) /\ stage = "clear" /\ addr \in Cells /\ MTypeOK
    BY DEF ClearSDRAM, MTypes, MTypeOK
  <1>2. addr \in Nat /\ Cells = 0 .. N - 1 /\ N \in Nat
    BY <1>1, Geometry DEF MTypeOK
  <1>3. mem'[CellOf(addr)] = {} /\ \A c \in Cells : c # CellOf(addr) => mem'[c] = mem[c]
    BY <1>1, <1>2, StoreFacts DEF Rises
  <1>4. ASSUME NEW c \in 0 .. addr, Reached(c) PROVE mem'[c] = {}
    <2>1. CASE c = addr
      BY <2>1, <1>1, <1>2, <1>3, <1>4, CellFacts
    <2>2. CASE c < addr
      BY <2>2, <1>1, <1>2, <1>3, <1>4 DEF ZeroSoFar, Zero
    <2> QED
      BY <2>1, <2>2, <1>2
  <1> QED
    BY <1>4

\* Clearing leaves what has been cleared clear.
LEMMA NextZeroSoFar == MInv /\ [MNext]_mvars => ZeroSoFar'
  <1> SUFFICES ASSUME MInv, [MNext]_mvars, stage' = "clear", NEW c \in 0 .. addr' - 1, Reached(c)
               PROVE  mem'[c] = {}
    BY FrameOps DEF ZeroSoFar, Zero
  <1> USE DEF MInv
  <1>1. CASE ACommand
    BY <1>1, Commands
  <1>2. CASE ClearSDRAM
    <2>1. addr' = addr + 1 /\ addr \in Nat
      <3>1. stage' # (IF test = "galpat" THEN "complement" ELSE "write")
        OBVIOUS
      <3> QED
        BY <3>1, <1>2, CountFacts, Geometry DEF ClearSDRAM, MTypes, MTypeOK
    <2> QED
      BY <2>1, <1>2, ClearStep
  <1>3. CASE UNCHANGED mvars
    BY <1>3 DEF mvars, args, ZeroSoFar, Zero
  <1>4. stage' # "clear" \/ ACommand \/ ClearSDRAM \/ UNCHANGED mvars
    BY DEF MNext, ACommand, Complement, Scan, Restore, Write, Read, WriteAddr, ReadAddr, Count
  <1> QED
    BY <1>1, <1>2, <1>3, <1>4

-----------------------------------------------------------------------------
(* The galloping pattern test                                              *)

\* When a test cell has been compared with all the others and none of them
\* told of an error, the cell was not one that disturbs another.
LEMMA RestoreQuiet ==
  ASSUME MInv, stage = "restore", skew = 0, ~test_result
  PROVE  \A c \in Cells : ~Disturbed(c)
  <1> SUFFICES ASSUME NEW c \in Cells, Disturbed(c) PROVE FALSE
    OBVIOUS
  <1>1. MTypeOK /\ test = "galpat" /\ test_addr \in Nat /\ Found
    BY DEF MInv, MTypes, Place, MTypeOK
  <1>2. fault.kind = "coupling" /\ test_addr % N = fault.a /\ c = fault.b
    BY <1>1, CellFacts DEF Disturbed, Reached
  <1>3. Scanned(test_addr, c) /\ Betrays(test_addr, c)
    BY <1>2 DEF Scanned, Betrays
  <1> QED
    BY <1>1, <1>3 DEF Found

\* Until an error is found, every cell holds what the galloping pattern test
\* expects, but for what the test cell disturbs.
LEMMA NextPattern == MInv /\ [MNext]_mvars => Pattern'
  <1> SUFFICES ASSUME MInv, [MNext]_mvars, test' = "galpat", skew' = 0, fault.kind # "stuck",
                      ~test_result'
               PROVE  /\ stage' = "complement" => \A c \in Cells : Reached(c) => mem'[c] = {}
                      /\ stage' \in {"scan", "restore"} =>
                           val' = {} /\ \A c \in Cells : Reached(c) => mem'[c] = Expected(c)'
    BY Frame, FrameOps DEF Pattern, Zero
  <1>1. MTypeOK /\ Place /\ N \in Nat \ {0} /\ Cells = 0 .. N - 1 /\ test_addr \in Nat /\ addr \in Nat
    BY Geometry DEF MInv, MTypes, MTypeOK
  <1>2. UNCHANGED <<access_size, fault, N, Bits, Cells>>
    BY Frame
  <1> DEFINE T == CellOf(test_addr)
  <1>3. T \in Cells /\ Reached(T) /\ Load(test_addr) = mem[T]
    BY <1>1, CellFacts, LoadFacts
  <1>31. stage # "menu" => skew = 0 /\ Turned(Load(test_addr)) = mem[T]
    <2>1. Load(test_addr) \in SUBSET Bits
      BY <1>1, LoadFacts
    <2> QED
      BY <1>1, <1>3, <2>1, Frame, TurnFacts
  <1>4. CASE ACommand
    BY <1>4, Commands
  <1>5. CASE ClearSDRAM
    <2>1. stage' = "complement" => addr = N - 1
      BY <1>5, <1>1, CountFacts DEF ClearSDRAM
    <2>2. stage' \notin {"scan", "restore"}
      BY <1>5, <1>1, CountFacts DEF ClearSDRAM
    <2>3. MTypes /\ ZeroSoFar
      BY DEF MInv
    <2> QED
      BY <2>1, <2>2, <2>3, <1>1, <1>5, ClearStep
  <1>6. CASE Complement
    <2>1. \A c \in Cells : Zero(c)
      BY <1>6, <1>31 DEF Complement, MInv, Pattern
    <2>2. mem[T] = {} /\ val' = {} /\ Not(val') = Bits /\ stage' = "scan" /\ test_addr' = test_addr
      BY <2>1, <1>3, <1>31, <1>6 DEF Complement, Zero, Not
    <2>3. Store(test_addr, Bits)
      BY <2>2, <1>6 DEF Complement
    <2>4. /\ mem'[T] = Bits
          /\ \A c \in Cells : c # T =>
               mem'[c] = IF Rises(test_addr, Bits) /\ c = fault.b THEN Flip(mem[c], fault.bit) ELSE mem[c]
      BY <2>3, <1>1, StoreFacts
    <2>5. Rises(test_addr, Bits) <=> fault.kind = "coupling" /\ T = fault.a
      BY <2>2, <1>1, FaultShape DEF Rises
    <2>6. \A c \in Cells : Reached(c) /\ c # T => mem[c] = {} /\ Flip(mem[c], fault.bit) = {fault.bit}
      BY <2>1 DEF Zero, Flip
    <2>7. ASSUME NEW c \in Cells, Reached(c) PROVE mem'[c] = Expected(c)
      BY <2>4, <2>5, <2>6, <2>7 DEF Expected, Disturbed
    <2>8. \A c : Expected(c)' = Expected(c)
      BY <1>2, <2>2, FrameOps DEF Expected, Disturbed
    <2> QED
      BY <2>2, <2>7, <2>8
  <1>7. CASE Scan
    <2>1. UNCHANGED <<mem, val, test_addr, test>> /\ stage = "scan" /\ ~test_result
      BY <1>7 DEF Scan, Check, args
    <2>2. stage' # "complement"
      BY <1>7 DEF Scan, Count
    <2>3. \A c : Expected(c)' = Expected(c)
      BY <1>2, <2>1, FrameOps DEF Expected, Disturbed
    <2> QED
      BY <1>31, <2>1, <2>2, <2>3 DEF MInv, Pattern
  <1>8. CASE Restore
    <2>1. stage = "restore" /\ ~test_result /\ test = "galpat" /\ stage' \in {"complement", "menu"}
      BY <1>8 DEF Restore
    <2>2. val = {} /\ \A c \in Cells : Reached(c) => mem[c] = Expected(c)
      BY <1>31, <2>1 DEF MInv, Pattern
    <2>3. mem[T] = Bits /\ \A c \in Cells : c # T /\ Reached(c) => mem[c] = {}
      BY <2>1, <2>2, <1>3, <1>31, RestoreQuiet DEF Expected
    <2>4. Store(test_addr, {})
      BY <2>1, <2>3, <1>3, <1>31, <1>8 DEF Restore, Not
    <2>5. mem'[T] = {} /\ \A c \in Cells : c # T => mem'[c] = mem[c]
      BY <2>4, <1>1, StoreFacts DEF Rises
    <2> QED
      BY <2>1, <2>3, <2>5
  <1>9. CASE UNCHANGED mvars
    <2>1. UNCHANGED <<mem, val, test_addr, test, skew, stage, test_result>>
      BY <1>9 DEF mvars, args
    <2>2. \A c : Expected(c)' = Expected(c)
      BY <1>2, <2>1, FrameOps DEF Expected, Disturbed
    <2> QED
      BY <2>1, <2>2 DEF MInv, Pattern, Zero
  <1>10. stage' \notin {"complement", "scan", "restore"} \/ ACommand \/ ClearSDRAM \/ Complement \/ Scan
           \/ Restore \/ UNCHANGED mvars
    BY DEF MNext, ACommand, Write, Read, WriteAddr, ReadAddr, Count
  <1> QED
    BY <1>4, <1>5, <1>6, <1>7, <1>8, <1>9, <1>10

\* In the test of a cell with a stuck bit, what has been read of it has that.
LEMMA NextSeenOpposite == MInv /\ [MNext]_mvars => SeenOpposite'
  <1> SUFFICES ASSUME MInv, [MNext]_mvars, stage' = "scan", skew' = 0,
                      fault.kind = "stuck", test_addr' % N = fault.a
               PROVE  fault.bit \in val' <=> fault.b = 1
    BY Frame DEF SeenOpposite
  <1>1. MTypeOK /\ test_addr \in Nat
    BY DEF MInv, MTypes, MTypeOK
  <1>2. CASE Complement
    <2>1. val' = Turned(Load(test_addr)) /\ test_addr' = test_addr /\ skew = 0
      BY <1>2 DEF Complement, args
    <2>2. val' = Load(test_addr)
      BY <1>1, <2>1, LoadFacts, TurnFacts
    <2> QED
      BY <1>1, <2>1, <2>2, LoadFacts
  <1>3. CASE Scan \/ UNCHANGED mvars
    <2>1. UNCHANGED <<val, test_addr, skew>> /\ stage = "scan"
      BY <1>3 DEF Scan, mvars, args
    <2> QED
      BY <2>1 DEF MInv, SeenOpposite
  <1>4. Complement \/ Scan \/ UNCHANGED mvars
    BY Commands DEF MNext, ACommand, ClearSDRAM, Restore, Write, Read, WriteAddr, ReadAddr, Count
  <1> QED
    BY <1>2, <1>3, <1>4

\* A comparison that would tell of the fault does.
LEMMA ScanDetects ==
  ASSUME MInv, Scan, skew = 0, Betrays(test_addr, addr)
  PROVE  test_result'
  <1>0. MTypeOK /\ Load(test_addr) \in SUBSET Bits
    BY LoadFacts DEF MInv, MTypes, MTypeOK
  <1> SUFFICES ASSUME ~test_result
               PROVE  \/ Load(addr) # (IF addr = test_addr THEN Not(val) ELSE {})
                      \/ Load(test_addr) # Not(val)
    BY <1>0, TurnFacts DEF Scan, Check
  <1>1. /\ MTypeOK /\ test = "galpat" /\ stage = "scan"
        /\ addr \in Cells /\ addr \in Nat /\ test_addr \in Nat
    BY Geometry DEF MInv, MTypes, Place, MTypeOK, Scan
  <1>2. fault.bit \in Bits /\ addr % N = addr
    BY <1>1, FaultShape, CellFacts
  <1>3. CASE fault.kind = "stuck"
    <2>1. CASE test_addr % N = fault.a
      BY <2>1, <1>1, <1>2, <1>3, LoadFacts DEF MInv, SeenOpposite, Not
    <2>2. CASE test_addr % N # fault.a
      <3>1. fault.b = 1 /\ addr = fault.a /\ addr # test_addr
        BY <2>2, <1>2, <1>3 DEF Betrays
      <3> QED
        BY <3>1, <1>1, <1>2, <1>3, LoadFacts
    <2> QED
      BY <2>1, <2>2
  <1>4. CASE fault.kind = "alias"
    <2>1. fault.a # fault.b /\ {test_addr % N, addr} = {fault.a, fault.b} /\ fault.b \in Cells
      BY <1>1, <1>4, FaultShape DEF Betrays
    <2>2. CellOf(test_addr) = fault.b /\ CellOf(addr) = fault.b /\ addr # test_addr
      BY <2>1, <1>1, <1>2, <1>4 DEF CellOf
    <2>3. mem[fault.b] = Expected(fault.b)
      BY <2>1, <1>1, <1>4 DEF MInv, Pattern, Reached
    <2>4. Load(addr) = Bits
      BY <2>2, <2>3, <1>1, <1>4, LoadFacts DEF Expected
    <2> QED
      BY <2>2, <2>4, <1>2
  <1>5. CASE fault.kind = "coupling"
    <2>1. fault.a # fault.b /\ test_addr % N = fault.a /\ addr = fault.b
      BY <1>1, <1>5, FaultShape DEF Betrays
    <2>2. CellOf(test_addr) = fault.a /\ CellOf(addr) = fault.b /\ addr # test_addr
      BY <2>1, <1>2, <1>5 DEF CellOf
    <2>3. mem[fault.b] = Expected(fault.b)
      BY <2>1, <1>1, <1>5 DEF MInv, Pattern, Reached
    <2>4. Load(addr) = {fault.bit}
      BY <2>1, <2>2, <2>3, <1>1, <1>5, LoadFacts DEF Expected, Disturbed
    <2> QED
      BY <2>2, <2>4
  <1> QED
    BY <1>3, <1>4, <1>5 DEF Betrays

\* Every comparison that tells of the fault has been found by test_result.
LEMMA NextFound == MInv /\ [MNext]_mvars => Found'
  <1> SUFFICES ASSUME MInv, [MNext]_mvars PROVE Found'
    OBVIOUS
  <1>0. \A t, c : Betrays(t, c)' = Betrays(t, c)
    BY Frame DEF Betrays
  <1> SUFFICES ASSUME test' = "galpat", skew' = 0, NEW t \in 0 .. test_addr', NEW c \in Cells,
                      Scanned(t, c)', Betrays(t, c)
               PROVE  test_result'
    BY <1>0, Frame DEF Found
  <1>1. MTypeOK /\ Place /\ N \in Nat \ {0} /\ Cells = 0 .. N - 1 /\ test_addr \in Nat /\ start_addr \in Nat
    BY Geometry DEF MInv, MTypes, MTypeOK
  <1>2. MTypeOK'
    BY NextTypes DEF MInv, MTypes
  <1>3. test_addr' \in Nat /\ start_addr' \in Nat /\ t \in Nat
    BY <1>2, <1>1, Frame DEF MTypeOK
  <1>4. test = "galpat" /\ skew = 0 /\ t \in 0 .. test_addr /\ Scanned(t, c) => test_result
    BY DEF MInv, Found
  <1>5. CASE ACommand
    <2>1. test_addr' = start_addr' /\ stage' = "clear"
      BY <1>5, Commands
    <2>2. PICK first \in Nat : test_addr' = first /\ start_addr' = first
      BY <2>1, <1>3
    <2> QED
      BY <2>1, <2>2, <1>3 DEF Scanned
  <1>6. CASE ClearSDRAM
    <2>1. test_addr' = start_addr' /\ stage' \in {"clear", "complement", "write"}
      BY <1>6, <1>1 DEF ClearSDRAM, Count, args, Place, GalpatStages
    <2>2. PICK first \in Nat : test_addr' = first /\ start_addr' = first
      BY <2>1, <1>3
    <2> QED
      BY <2>1, <2>2, <1>3 DEF Scanned
  <1>7. CASE Complement
    <2>1. UNCHANGED <<test, test_addr, start_addr, skew, test_result>> /\ addr' = 0 /\ stage' = "scan"
      BY <1>7 DEF Complement, args
    <2>2. t \in start_addr .. test_addr - 1
      BY <2>1, <1>1 DEF Scanned
    <2> QED
      BY <2>1, <2>2, <1>1, <1>3, <1>4 DEF Scanned
  <1>8. CASE Scan
    <2>1. UNCHANGED <<test, test_addr, start_addr, skew>> /\ stage = "scan" /\ (test_result => test_result')
      BY <1>8 DEF Scan, Check, args
    <2>2. addr \in Nat /\ (stage' = "restore" => addr = N - 1) /\ (stage' = "scan" => addr' = addr + 1)
           /\ stage' \in {"scan", "restore"}
      BY <1>1, <1>8, CountFacts DEF Scan, MTypeOK
    <2>3. CASE t = test_addr /\ c = addr
      BY <2>1, <2>3, <1>8, ScanDetects
    <2>4. CASE ~(t = test_addr /\ c = addr)
      <3>1. t \in start_addr .. test_addr - 1 \/ (t = test_addr /\ c < addr)
        BY <2>1, <2>2, <2>4, <1>1 DEF Scanned
      <3> QED
        BY <3>1, <2>1, <1>3, <1>4 DEF Scanned
    <2> QED
      BY <2>3, <2>4
  <1>9. CASE Restore
    <2>1. /\ UNCHANGED <<test, start_addr, skew, test_result>> /\ stage = "restore" /\ test_addr' = test_addr + 1
          /\ stage' \in {"complement", "menu"}
      BY <1>9 DEF Restore, args
    <2>2. t \in start_addr .. test_addr
      BY <2>1, <1>1 DEF Scanned
    <2> QED
      BY <2>1, <2>2, <1>1, <1>3, <1>4 DEF Scanned
  <1>10. CASE UNCHANGED mvars
    BY <1>10, <1>4 DEF mvars, args, Scanned
  <1>11. CASE Write \/ Read \/ WriteAddr \/ ReadAddr
    BY <1>11, <1>1 DEF Write, Read, WriteAddr, ReadAddr, Place, GalpatStages
  <1> QED
    BY <1>5, <1>6, <1>7, <1>8, <1>9, <1>10, <1>11 DEF MNext, ACommand

\* A galloping pattern test that misses the words finds an error in any memory.
LEMMA NextSkewed == MInv /\ [MNext]_mvars => Skewed'
  <1> SUFFICES ASSUME MInv, [MNext]_mvars, test' = "galpat", skew' # 0
               PROVE  /\ stage' = "complement" /\ test_addr' = start_addr' =>
                           \A c \in Cells : Reached(c) => mem'[c] = {}
                      /\ stage' = "scan" /\ test_addr' = start_addr' =>
                           val' = {} \/ (fault.kind = "stuck" /\ start_addr' = fault.a /\ fault.b = 1)
                      /\ \/ test_addr' # start_addr' \/ stage' = "restore"
                         \/ stage' = "scan" /\ start_addr' < addr'
                         => test_result'
    BY Frame, FrameOps DEF Skewed, Zero
  <1>1. /\ MTypeOK /\ Place /\ N \in Nat \ {0} /\ Cells = 0 .. N - 1 /\ test_addr \in Nat
        /\ addr \in Nat /\ addr \in Cells /\ start_addr \in Nat /\ start_addr \in Cells
    BY Geometry DEF MInv, MTypes, MTypeOK
  <1>2. test = "galpat" /\ skew # 0 => 
          /\ stage = "complement" /\ test_addr = start_addr => \A c \in Cells : Zero(c)
          /\ stage = "scan" /\ test_addr = start_addr =>
               val = {} \/ (fault.kind = "stuck" /\ start_addr = fault.a /\ fault.b = 1)
          /\ test_addr # start_addr \/ stage = "restore" \/ (stage = "scan" /\ start_addr < addr) =>
               test_result
    BY DEF MInv, Skewed
  <1>3. CASE ACommand
    BY <1>3, Commands
  <1>4. CASE ClearSDRAM
    <2>1. test_addr' = start_addr' /\ stage' \in {"clear", "complement", "write"}
      BY <1>4, <1>1 DEF ClearSDRAM, Count, args, Place, GalpatStages
    <2>2. stage' = "complement" => addr = N - 1
      BY <1>4, <1>1, CountFacts DEF ClearSDRAM
    <2>3. MTypes /\ ZeroSoFar
      BY DEF MInv
    <2> QED
      BY <2>1, <2>2, <2>3, <1>1, <1>4, ClearStep
  <1>5. CASE Complement
    <2>1. /\ UNCHANGED <<test, skew, test_addr, start_addr, test_result>> /\ stage = "complement"
          /\ addr' = 0 /\ stage' = "scan" /\ val' = Turned(Load(test_addr))
      BY <1>5 DEF Complement, args
    <2>2. ASSUME test_addr = start_addr
          PROVE  val' = {} \/ (fault.kind = "stuck" /\ start_addr = fault.a /\ fault.b = 1)
      <3>1. CellOf(start_addr) \in Cells /\ Reached(CellOf(start_addr))
        BY <1>1, CellFacts
      <3>2. mem[CellOf(start_addr)] = {}
        BY <1>2, <2>1, <2>2, <3>1 DEF Zero
      <3>3. Load(start_addr) = {} \/ (fault.kind = "stuck" /\ CellOf(start_addr) = fault.a /\ fault.b = 1)
        BY <3>2 DEF Load
      <3>4. fault.kind = "stuck" => CellOf(start_addr) = start_addr
        <4>1. start_addr % N = start_addr
          BY <1>1, CellFacts
        <4> QED
          BY <4>1 DEF CellOf
      <3>5. Turned({}) = {}
        BY DEF Turned
      <3> QED
        BY <2>1, <2>2, <3>3, <3>4, <3>5
    <2> QED
      BY <1>1, <1>2, <2>1, <2>2
  <1>6. CASE Scan
    <2>1. /\ UNCHANGED <<test, skew, val, test_addr, start_addr>> /\ stage = "scan"
          /\ (test_result => test_result')
      BY <1>6 DEF Scan, Check, args
    <2>2. (stage' = "restore" /\ addr = N - 1) \/ (stage' = "scan" /\ addr' = addr + 1)
      BY <1>1, <1>6, CountFacts DEF Scan
    <2>3. ASSUME test_addr = start_addr, addr = start_addr, ~test_result PROVE test_result'
      <3> SUFFICES ASSUME Load(start_addr) = {}, Turned(Load(start_addr)) = Not(val) PROVE FALSE
        BY <1>6, <2>1, <2>3 DEF Scan, Check
      <3>1. Not(val) = {}
        BY DEF Turned
      <3>2. 0 \in Bits
        BY <1>1, Geometry DEF MTypeOK
      <3>3. val # {}
        BY <3>1, <3>2 DEF Not
      <3>4. fault.kind = "stuck" /\ start_addr = fault.a /\ fault.b = 1
        BY <1>2, <2>1, <2>3, <3>3
      <3>5. start_addr % N = fault.a
        BY <1>1, <3>4, CellFacts
      <3> QED
        BY <1>1, <3>4, <3>5, LoadFacts
    <2> QED
      BY <1>1, <1>2, <2>1, <2>2, <2>3
  <1>7. CASE Restore
    <2>1. UNCHANGED <<test, skew, start_addr, test_result>> /\ stage = "restore"
          /\ test_addr' = test_addr + 1 /\ stage' \in {"complement", "menu"}
      BY <1>7 DEF Restore, args
    <2>2. test_result'
      BY <1>2, <2>1
    <2>3. test_addr' # start_addr'
      BY <1>1, <1>7, <2>1 DEF Place, GalpatStages
    <2> QED
      BY <2>1, <2>2, <2>3
  <1>8. CASE UNCHANGED mvars
    BY <1>2, <1>8 DEF mvars, args, Zero
  <1>9. CASE Write \/ Read \/ WriteAddr \/ ReadAddr
    BY <1>9, <1>1 DEF Write, Read, WriteAddr, ReadAddr, Place, GalpatStages
  <1> QED
    BY <1>3, <1>4, <1>5, <1>6, <1>7, <1>8, <1>9 DEF MNext, ACommand

-----------------------------------------------------------------------------
(* A memory without a fault                                                *)

\* In a memory without a fault a store changes its own cell and no other.
LEMMA GoodStore ==
  ASSUME MTypeOK, fault.kind = "none", NEW a \in Cells, NEW v \in SUBSET Bits, Store(a, v)
  PROVE  mem'[a] = v /\ \A c \in Cells : c # a => mem'[c] = mem[c]
  <1>1. a \in Nat
    BY Geometry DEF MTypeOK
  <1>2. CellOf(a) = a
    BY <1>1, CellFacts DEF CellOf
  <1> QED
    BY <1>1, <1>2, StoreFacts DEF Rises

\* Without a fault an address holds what has been stored there.
LEMMA GoodLoad ==
  ASSUME MTypeOK, fault.kind = "none", NEW a \in Cells
  PROVE  Load(a) = mem[a]
  <1>1. a \in Nat
    BY Geometry DEF MTypeOK
  <1>2. CellOf(a) = a
    BY <1>1, CellFacts DEF CellOf
  <1> QED
    BY <1>1, <1>2, LoadFacts

\* Without a fault every cell holds what a test has written.
LEMMA NextFilled == MInv /\ [MNext]_mvars => Filled'
  <1> SUFFICES ASSUME MInv, [MNext]_mvars, fault.kind = "none"
               PROVE  /\ stage' \in {"write", "write_addr"} => \A c \in 0 .. addr' - 1 : mem'[c] = What(c)'
                      /\ stage' \in {"read", "read_addr"} => \A c \in Cells : mem'[c] = What(c)'
    BY Frame DEF Filled
  <1>1. MTypeOK /\ Place /\ N \in Nat \ {0} /\ Cells = 0 .. N - 1 /\ addr \in Nat /\ addr \in Cells
    BY Geometry DEF MInv, MTypes, MTypeOK
  <1>2. CASE ACommand
    BY <1>2, Commands
  <1>3. CASE ClearSDRAM
    BY <1>3, <1>1, CountFacts DEF ClearSDRAM
  <1>4. CASE Write
    <2>1. Store(addr, val) /\ stage = "write" /\ UNCHANGED <<test, val>> /\ val \in SUBSET Bits
      BY <1>4, <1>1 DEF Write, MTypeOK
    <2>2. test = "march"
      BY <2>1, <1>1 DEF Place, GalpatStages
    <2>3. \A c \in 0 .. addr : mem'[c] = val
      BY <2>1, <2>2, <1>1, GoodStore DEF MInv, Filled, What
    <2>4. (stage' = "write" /\ addr' = addr + 1) \/ (stage' = "read" /\ addr = N - 1)
      BY <1>1, <1>4, CountFacts DEF Write
    <2> QED
      BY <2>1, <2>2, <2>3, <2>4, <1>1 DEF What
  <1>5. CASE WriteAddr
    <2>1. Store(addr, Number(addr)) /\ stage = "write_addr" /\ UNCHANGED test
      BY <1>5, <1>1 DEF WriteAddr, Place, GalpatStages
    <2>2. test = "address" /\ Number(addr) \in SUBSET Bits
      BY <2>1, <1>1 DEF Place, GalpatStages, Number
    <2>3. \A c \in 0 .. addr : mem'[c] = Number(c)
      BY <2>1, <2>2, <1>1, GoodStore DEF MInv, Filled, What
    <2>4. (stage' = "write_addr" /\ addr' = addr + 1) \/ (stage' = "read_addr" /\ addr = N - 1)
      BY <1>1, <1>5, CountFacts DEF WriteAddr
    <2> QED
      BY <2>1, <2>2, <2>3, <2>4, <1>1, FrameOps DEF What
  <1>6. CASE Read
    <2>1. stage = "read" /\ UNCHANGED <<test, mem>> /\ (stage' = "read" => val' = val)
           /\ (stage' = "read" \/ addr' = 0)
      BY <1>6 DEF Read, Count
    <2>2. stage' \in {"read", "write", "menu"}
      BY <1>6 DEF Read, Count
    <2>3. test = "march"
      BY <2>1, <1>1 DEF Place, GalpatStages
    <2> QED
      BY <2>1, <2>2, <2>3 DEF MInv, Filled, What
  <1>7. CASE ReadAddr
    <2>1. stage = "read_addr" /\ UNCHANGED <<test, mem>> /\ stage' \in {"read_addr", "menu"}
      BY <1>7 DEF ReadAddr, Count
    <2>2. test = "address"
      BY <2>1, <1>1 DEF Place, GalpatStages
    <2> QED
      BY <2>1, <2>2, FrameOps DEF MInv, Filled, What
  <1>8. CASE UNCHANGED mvars
    <2>1. UNCHANGED <<test, mem, val, stage, addr>>
      BY <1>8 DEF mvars
    <2> QED
      BY <2>1, FrameOps DEF MInv, Filled, What
  <1>9. CASE Complement \/ Scan \/ Restore
    BY <1>9 DEF Complement, Scan, Restore, Count
  <1> QED
    BY <1>2, <1>3, <1>4, <1>5, <1>6, <1>7, <1>8, <1>9 DEF MNext, ACommand

\* Without a fault every comparison is right.
LEMMA NextNoFalseAlarm == MInv /\ [MNext]_mvars => NoFalseAlarm'
  <1> SUFFICES ASSUME MInv, [MNext]_mvars, fault.kind = "none", test_result',
                      ~(test' = "galpat" /\ (start_addr' + GalpatWords > N \/ skew' # 0))
               PROVE  FALSE
    BY Frame DEF NoFalseAlarm
  <1>1. MTypeOK /\ Place /\ N \in Nat \ {0} /\ Cells = 0 .. N - 1 /\ addr \in Nat /\ addr \in Cells
    BY Geometry DEF MInv, MTypes, MTypeOK
  <1>2. CASE ACommand
    BY <1>2, Commands
  <1>3. stage = "menu" \/ UNCHANGED <<test, start_addr, skew>>
    BY Frame
  <1>4. CASE test_result
    <2>1. UNCHANGED <<test, start_addr, skew>> \/ ACommand
      BY <1>3 DEF MNext, ACommand, mvars, args, ClearSDRAM, Complement, Scan, Restore, Write, Read, WriteAddr, ReadAddr
    <2> QED
      BY <2>1, <1>2, <1>4 DEF MInv, NoFalseAlarm
  <1>5. CASE ~test_result /\ Scan
    <2>1. stage = "scan" /\ UNCHANGED <<test, start_addr, skew>> /\ test = "galpat"
      BY <1>1, <1>5 DEF Scan, args, Place, GalpatStages
    <2>2. start_addr + GalpatWords <= N /\ skew = 0 /\ InArea(test_addr) /\ start_addr \in Nat /\ test_addr \in Nat
           /\ GalpatWords \in Nat
      BY <2>1, <1>1, MemoryAssumption DEF Place, GalpatStages, MTypeOK
    <2>3. test_addr \in Cells
      BY <2>2, <1>1 DEF InArea
    <2>4. CellOf(test_addr) = test_addr
      BY <2>2, <2>3, <1>1, CellFacts DEF CellOf
    <2>5. val = {} /\ \A c \in Cells : mem[c] = IF c = test_addr THEN Bits ELSE {}
      BY <2>1, <2>2, <2>4, <1>5 DEF MInv, Pattern, Reached, Expected, Disturbed
    <2>6. /\ Load(addr) = (IF addr = test_addr THEN Not(val) ELSE {})
          /\ Load(test_addr) = Not(val)
      BY <2>3, <2>5, <1>1, GoodLoad DEF Not
    <2>7. Turned(Load(test_addr)) = Load(test_addr)
      BY <2>2, <1>1, LoadFacts, TurnFacts
    <2> QED
      BY <2>2, <2>6, <2>7, <1>5 DEF Scan, Check
  <1>6. CASE ~test_result /\ Read
    <2>1. stage = "read" /\ N - 1 - addr \in Cells
      BY <1>1, <1>6 DEF Read
    <2>2. mem[N - 1 - addr] = val
      BY <2>1, <1>1 DEF MInv, Filled, What, Place, GalpatStages
    <2> QED
      BY <2>1, <2>2, <1>1, <1>6, GoodLoad DEF Read, Check
  <1>7. CASE ~test_result /\ ReadAddr
    <2>1. stage = "read_addr" /\ test = "address" /\ number = addr
      BY <1>1, <1>7 DEF ReadAddr, Place, GalpatStages
    <2>2. mem[addr] = Number(addr)
      BY <2>1, <1>1 DEF MInv, Filled, What
    <2> QED
      BY <2>1, <2>2, <1>1, <1>7, GoodLoad DEF ReadAddr, Check
  <1>8. ACommand \/ UNCHANGED test_result \/ Scan \/ Read \/ ReadAddr
    BY DEF MNext, ACommand, mvars, ClearSDRAM, Complement, Restore, Write, WriteAddr
  <1> QED
    BY <1>2, <1>4, <1>5, <1>6, <1>7, <1>8

-----------------------------------------------------------------------------
(* The march test                                                          *)

\* The bit of a fault is in one of a value and its complement.
LEMMA NotBit ==
  ASSUME MTypeOK
  PROVE  fault.bit \in Not(val) <=> fault.bit \notin val
  BY FaultShape DEF Not

\* A comparison of the march test, and what follows the last one.
LEMMA ReadStep ==
  ASSUME MTypes, Read
  PROVE  /\ stage = "read" /\ test = "march" /\ round \in {0, 1}
         /\ UNCHANGED <<mem, test>> /\ (test_result => test_result')
         /\ N - 1 - addr \in Cells
         /\ Load(N - 1 - addr) # val => test_result'
         /\ \/ stage' = "read" /\ addr' = addr + 1 /\ UNCHANGED <<val, round>>
            \/ /\ addr = N - 1 /\ addr' = 0 /\ val' = Not(val)
               /\ stage' = IF round = 0 THEN "write" ELSE "menu"
               /\ round' = round + 1
  <1>1. MTypeOK /\ N \in Nat \ {0} /\ Cells = 0 .. N - 1 /\ addr \in Cells
    BY Geometry DEF MTypes, MTypeOK
  <1>2. stage = "read" /\ test = "march" /\ round \in {0, 1} /\ N - 1 - addr \in Cells
    BY <1>1 DEF Read, MTypes, Place, GalpatStages
  <1>3. /\ UNCHANGED <<mem, test>>
        /\ test_result' = (test_result \/ ~(Load(N - 1 - addr) = val))
        /\ IF stage' = "read" THEN UNCHANGED <<val, round>> ELSE val' = Not(val) /\ round' = round + 1
        /\ Count(addr, "read", IF round = 0 THEN "write" ELSE "menu")
    BY DEF Read, Check, NextVal
  <1>4. \/ stage' = "read" /\ addr' = addr + 1
        \/ /\ addr = N - 1 /\ addr' = 0
           /\ stage' = IF round = 0 THEN "write" ELSE "menu"
    BY <1>1, <1>3, CountFacts
  <1> QED
    BY <1>2, <1>3, <1>4

\* The round whose value the stuck bit does not have finds it.
LEMMA NextMarchStuck == MInv /\ [MNext]_mvars => MarchStuck'
  <1> SUFFICES ASSUME MInv, [MNext]_mvars, test' = "march", fault.kind = "stuck"
               PROVE  /\ stage' = "read" /\ Odd' /\ N - 1 - addr' < fault.a => test_result'
                      /\ stage' \in {"write", "read"} /\ round' = 1 /\ ~Odd' => test_result'
                      /\ stage' = "menu" => test_result'
    BY Frame DEF MarchStuck
  <1>1. MTypeOK /\ Place /\ N \in Nat \ {0} /\ Cells = 0 .. N - 1 /\ addr \in Nat /\ fault.a \in 0 .. N - 1
    BY Geometry, FaultShape DEF MInv, MTypes, MTypeOK
  <1>2. fault' = fault
    BY Frame
  <1>3. CASE ACommand
    BY <1>3, Commands
  <1>4. CASE ClearSDRAM
    <2>1. stage' \in {"clear", "write", "complement"} /\ round' = 0
      BY <1>1, <1>4, CountFacts DEF ClearSDRAM, Place, GalpatStages
    <2> QED
      BY <2>1
  <1>5. CASE Write
    <2>1. UNCHANGED <<test, val, round, test_result>> /\ stage = "write"
      BY <1>5 DEF Write
    <2>2. stage' = "write" \/ (stage' = "read" /\ addr' = 0)
      BY <1>1, <1>5, CountFacts DEF Write
    <2>3. round = 1 /\ ~Odd => test_result
      BY <2>1 DEF MInv, MarchStuck
    <2> QED
      BY <2>1, <2>2, <2>3, <1>1, <1>2 DEF Odd
  <1>6. CASE Read
    <2>1. MTypes /\ MarchStuck
      BY DEF MInv
    <2>2. Odd /\ N - 1 - addr = fault.a => test_result'
      <3>1. fault.a \in Nat /\ fault.a % N = fault.a
        <4>1. fault.a \in Nat /\ fault.a \in Cells
          BY <1>1
        <4> QED
          BY <4>1, <1>1, CellFacts
      <3>2. fault.bit \in Load(fault.a) <=> fault.b = 1
        BY <3>1, <1>1, LoadFacts
      <3> QED
        BY <3>2, <2>1, <1>6, ReadStep DEF Odd
    <2>3. Odd /\ N - 1 - addr <= fault.a => test_result'
      BY <2>1, <2>2, <1>1, <1>6, ReadStep DEF MarchStuck
    <2>4. round = 1 /\ ~Odd => test_result'
      BY <2>1, <1>6, ReadStep DEF MarchStuck
    <2>5. CASE stage' = "read" /\ addr' = addr + 1 /\ UNCHANGED <<val, round>>
      BY <2>3, <2>4, <2>5, <1>1, <1>2 DEF Odd
    <2>6. CASE /\ addr = N - 1 /\ addr' = 0 /\ val' = Not(val)
               /\ stage' = IF round = 0 THEN "write" ELSE "menu"
               /\ round' = round + 1
      <3>1. Odd => test_result'
        BY <2>3, <2>6, <1>1
      <3>2. Odd' <=> ~Odd
        BY <2>6, <1>1, <1>2, NotBit DEF Odd
      <3>3. round \in {0, 1}
        BY <2>1, <1>6, ReadStep
      <3> QED
        BY <3>1, <3>2, <3>3, <2>4, <2>6
    <2> QED
      BY <2>1, <2>5, <2>6, <1>6, ReadStep
  <1>7. CASE UNCHANGED mvars
    BY <1>1, <1>2, <1>7, Frame DEF mvars, args, Odd, MInv, MarchStuck
  <1>8. CASE Complement \/ Scan \/ Restore \/ WriteAddr \/ ReadAddr
    BY <1>1, <1>8 DEF Complement, Scan, Restore, WriteAddr, ReadAddr, Place, GalpatStages
  <1> QED
    BY <1>3, <1>4, <1>5, <1>6, <1>7, <1>8 DEF MNext, ACommand

\* The round in which the bit of the later cell rises finds it in the other.
LEMMA NextMarchCoupled == MInv /\ [MNext]_mvars => MarchCoupled'
  <1> DEFINE a == fault.a
             b == fault.b
             k == fault.bit
  <1> SUFFICES ASSUME MInv, [MNext]_mvars, test' = "march", fault.kind = "coupling", b < a
               PROVE  /\ stage' = "write" /\ addr' <= a /\ (Hot' \/ round' = 0) => k \notin mem'[a]
                      /\ stage' = "write" /\ b < addr' /\ addr' <= a /\ Hot' => k \in mem'[b]
                      /\ stage' = "read" \/ (stage' = "write" /\ a < addr') =>
                           /\ ~Hot' /\ round' = 0 => k \notin mem'[a]
                           /\ Hot' => k \notin mem'[b]
                      /\ stage' = "read" /\ Hot' /\ N - 1 - addr' < b => test_result'
                      /\ stage' \in {"write", "read"} /\ round' = 1 /\ ~Hot' => test_result'
                      /\ stage' = "menu" => test_result'
    BY Frame DEF MarchCoupled
  <1>1. /\ MTypeOK /\ Place /\ N \in Nat \ {0} /\ Cells = 0 .. N - 1 /\ addr \in Nat /\ addr \in Cells
        /\ a \in 0 .. N - 1 /\ b \in 0 .. N - 1
    BY Geometry, FaultShape DEF MInv, MTypes, MTypeOK
  <1>2. fault' = fault /\ Hot' = (k \in val')
    BY Frame DEF Hot
  <1>3. CASE ACommand
    BY <1>3, Commands
  <1>4. CASE ClearSDRAM
    <2>1. /\ round' = 0
          /\ \/ stage' \in {"clear", "complement"}
             \/ stage' = "write" /\ addr' = 0 /\ addr = N - 1
      BY <1>1, <1>4, CountFacts DEF ClearSDRAM, Place, GalpatStages
    <2>2. Reached(a) /\ MTypes /\ ZeroSoFar
      BY DEF Reached, MInv
    <2>3. stage' = "write" => mem'[a] = {}
      BY <2>1, <2>2, <1>1, <1>4, ClearStep
    <2> QED
      BY <2>1, <2>3, <1>1
  <1>5. CASE Write
    <2>1. /\ UNCHANGED <<test, val, round, test_result>> /\ stage = "write" /\ Store(addr, val)
          /\ val \in SUBSET Bits /\ test = "march"
      BY <1>1, <1>5 DEF Write, MTypeOK
    <2>2. (stage' = "write" /\ addr' = addr + 1) \/ (stage' = "read" /\ addr' = 0 /\ addr = N - 1)
      BY <1>1, <1>5, CountFacts DEF Write
    <2>3. CellOf(addr) = addr
      BY <1>1, CellFacts DEF CellOf
    <2>4. /\ mem'[addr] = val
          /\ \A c \in Cells : c # addr =>
               mem'[c] = IF Rises(addr, val) /\ c = b THEN Flip(mem[c], k) ELSE mem[c]
      BY <2>1, <2>3, <1>1, StoreFacts
    <2>5. Rises(addr, val) <=> addr = a /\ Hot /\ k \notin mem[a]
      BY <2>3 DEF Rises, Hot
    <2>6. (round = 1 /\ ~Hot => test_result) /\ Hot' = Hot
      BY <2>1, <1>2 DEF MInv, MarchCoupled, Hot
    <2>7. /\ addr <= a /\ (Hot \/ round = 0) => k \notin mem[a]
          /\ b < addr /\ addr <= a /\ Hot => k \in mem[b]
          /\ a < addr => /\ ~Hot /\ round = 0 => k \notin mem[a]
                         /\ Hot => k \notin mem[b]
      BY <2>1 DEF MInv, MarchCoupled
    <2>8. CASE addr < a
      <3>1. mem'[a] = mem[a] /\ mem'[b] = (IF addr = b THEN val ELSE mem[b])
        BY <2>4, <2>5, <2>8, <1>1
      <3>2. stage' = "write" /\ addr' = addr + 1
        BY <2>2, <2>8, <1>1
      <3> QED
        BY <3>1, <3>2, <2>1, <2>6, <2>7, <2>8, <1>1 DEF Hot
    <2>9. CASE addr = a
      <3>1. mem'[a] = val
        BY <2>4, <2>9
      <3>2. Hot => k \notin mem'[b]
        <4>1. ASSUME Hot PROVE mem'[b] = Flip(mem[b], k) /\ k \in mem[b]
          BY <4>1, <2>4, <2>5, <2>7, <2>9, <1>1
        <4> QED
          BY <4>1 DEF Flip
      <3> QED
        BY <3>1, <3>2, <2>1, <2>2, <2>6, <2>9, <1>1 DEF Hot
    <2>10. CASE addr > a
      <3>1. mem'[a] = mem[a] /\ mem'[b] = mem[b]
        BY <2>4, <2>5, <2>10, <1>1
      <3> QED
        BY <3>1, <2>1, <2>2, <2>6, <2>7, <2>10, <1>1
    <2> QED
      BY <2>8, <2>9, <2>10, <1>1
  <1>6. CASE Read
    <2>1. MTypes /\ MarchCoupled
      BY DEF MInv
    <2>2. stage = "read" /\ test = "march" /\ round \in {0, 1} /\ mem' = mem /\ (test_result => test_result')
      BY <2>1, <1>6, ReadStep
    <2>3. /\ ~Hot /\ round = 0 => k \notin mem[a]
          /\ Hot => k \notin mem[b]
          /\ round = 1 /\ ~Hot => test_result'
      BY <2>1, <2>2 DEF MarchCoupled
    <2>4. Hot /\ N - 1 - addr = b => test_result'
      <3>1. Load(b) = mem[b]
        <4>1. b \in Nat /\ b \in Cells
          BY <1>1
        <4>2. CellOf(b) = b
          BY <4>1, <1>1, CellFacts DEF CellOf
        <4> QED
          BY <4>1, <4>2, <1>1, LoadFacts
      <3> QED
        BY <3>1, <2>1, <2>3, <1>6, ReadStep DEF Hot
    <2>5. Hot /\ N - 1 - addr <= b => test_result'
      BY <2>1, <2>2, <2>4, <1>1 DEF MarchCoupled
    <2>6. CASE stage' = "read" /\ addr' = addr + 1 /\ UNCHANGED <<val, round>>
      BY <2>2, <2>3, <2>5, <2>6, <1>1, <1>2 DEF Hot
    <2>7. CASE /\ addr = N - 1 /\ addr' = 0 /\ val' = Not(val)
               /\ stage' = IF round = 0 THEN "write" ELSE "menu"
               /\ round' = round + 1
      <3>1. Hot => test_result'
        BY <2>5, <2>7, <1>1
      <3>2. Hot' <=> ~Hot
        BY <2>7, <1>1, <1>2, NotBit DEF Hot
      <3> QED
        BY <3>1, <3>2, <2>2, <2>3, <2>7, <1>1
    <2> QED
      BY <2>1, <2>6, <2>7, <1>6, ReadStep
  <1>7. CASE UNCHANGED mvars
    BY <1>1, <1>2, <1>7, Frame DEF mvars, args, Hot, MInv, MarchCoupled
  <1>8. CASE Complement \/ Scan \/ Restore \/ WriteAddr \/ ReadAddr
    BY <1>1, <1>8 DEF Complement, Scan, Restore, WriteAddr, ReadAddr, Place, GalpatStages
  <1> QED
    BY <1>3, <1>4, <1>5, <1>6, <1>7, <1>8 DEF MNext, ACommand

-----------------------------------------------------------------------------
(* The address test                                                        *)

\* Reading the first address of a shared cell finds the number of the last.
LEMMA NextAddressShared == MInv /\ [MNext]_mvars => AddressShared'
  <1> DEFINE last  == IF fault.a < fault.b THEN fault.b ELSE fault.a
             first == IF fault.a < fault.b THEN fault.a ELSE fault.b
  <1> SUFFICES ASSUME MInv, [MNext]_mvars PROVE AddressShared'
    OBVIOUS
  <1>2. Address' = Address /\ fault' = fault
    BY Frame, FrameOps DEF Address
  <1> SUFFICES ASSUME test' = "address", Address
               PROVE  /\ stage' = "read_addr" \/ (stage' = "write_addr" /\ last < addr') =>
                           mem'[fault.b] = Number(last)
                      /\ stage' = "menu" \/ (stage' = "read_addr" /\ first < addr') => test_result'
    BY <1>2, FrameOps DEF AddressShared
  <1>1. /\ MTypeOK /\ Place /\ N \in Nat \ {0} /\ Cells = 0 .. N - 1 /\ addr \in Nat /\ addr \in Cells
        /\ fault.a \in 0 .. N - 1 /\ fault.b \in 0 .. N - 1 /\ fault.a # fault.b
    BY Geometry, FaultShape DEF MInv, MTypes, MTypeOK, Address
  <1>3. /\ last \in Cells /\ first \in Cells /\ last \in Nat /\ first \in Nat /\ first < last
        /\ Number(first) # Number(last)
    BY <1>1 DEF Address
  <1>4. CellOf(last) = fault.b /\ CellOf(first) = fault.b
    BY <1>1, <1>3, CellFacts DEF CellOf, Address
  <1>5. test = "address" => /\ stage = "read_addr" \/ (stage = "write_addr" /\ last < addr) =>
                                 mem[fault.b] = Number(last)
                            /\ stage = "menu" \/ (stage = "read_addr" /\ first < addr) => test_result
    BY DEF MInv, AddressShared
  <1>6. CASE ACommand
    BY <1>3, <1>6, Commands
  <1>7. CASE WriteAddr
    <2>1. /\ Store(addr, Number(addr)) /\ stage = "write_addr" /\ UNCHANGED <<test, test_result>>
          /\ Number(addr) \in SUBSET Bits
      BY <1>1, <1>7 DEF WriteAddr, Place, GalpatStages, Number
    <2>2. (stage' = "write_addr" /\ addr' = addr + 1) \/ (stage' = "read_addr" /\ addr' = 0 /\ addr = N - 1)
      BY <1>1, <1>7, CountFacts DEF WriteAddr
    <2>3. mem'[CellOf(addr)] = Number(addr) /\ \A c \in Cells : c # CellOf(addr) => mem'[c] = mem[c]
      BY <2>1, <1>1, StoreFacts DEF Rises, Address
    <2>4. CASE addr = last
      BY <2>2, <2>3, <2>4, <1>1, <1>3, <1>4
    <2>5. CASE addr < last
      BY <2>2, <2>5, <1>1, <1>3
    <2>6. CASE addr > last
      <3>1. CellOf(addr) = addr /\ addr # fault.b
        <4>1. addr % N = addr
          BY <1>1, CellFacts
        <4>2. addr # fault.a /\ addr # fault.b
          BY <2>6, <1>1
        <4> QED
          BY <4>1, <4>2 DEF CellOf
      <3> QED
        BY <3>1, <2>1, <2>2, <2>3, <2>6, <1>1, <1>3, <1>5
    <2> QED
      BY <2>4, <2>5, <2>6, <1>1, <1>3
  <1>8. CASE ReadAddr
    <2>1. /\ stage = "read_addr" /\ UNCHANGED <<test, mem>> /\ (test_result => test_result')
          /\ number = addr /\ (Load(addr) # Number(number) => test_result')
      BY <1>1, <1>8 DEF ReadAddr, Check, Place, GalpatStages
    <2>2. (stage' = "read_addr" /\ addr' = addr + 1) \/ (stage' = "menu" /\ addr = N - 1)
      BY <1>1, <1>8, CountFacts DEF ReadAddr
    <2>3. addr = first => test_result'
      <3>1. addr = first => Load(addr) = mem[fault.b]
        BY <1>1, <1>4, LoadFacts DEF Address
      <3> QED
        BY <3>1, <2>1, <1>3, <1>5
    <2> QED
      BY <2>1, <2>2, <2>3, <1>1, <1>3, <1>5
  <1>9. CASE UNCHANGED mvars
    BY <1>5, <1>9 DEF mvars
  <1>10. CASE ClearSDRAM \/ Complement \/ Scan \/ Restore \/ Write \/ Read
    BY <1>1, <1>10 DEF ClearSDRAM, Complement, Scan, Restore, Write, Read, Place, GalpatStages
  <1> QED
    BY <1>6, <1>7, <1>8, <1>9, <1>10 DEF MNext, ACommand

-----------------------------------------------------------------------------
(* The theorems                                                            *)

\* The program starts in the invariant.
LEMMA MInitInv == MInit => MInv
  <1> SUFFICES ASSUME MInit PROVE MInv
    OBVIOUS
  <1>1. MTypes
    BY InitTypes
  <1>2. ZeroSoFar /\ Skewed /\ Pattern /\ SeenOpposite /\ Found /\ Filled /\ NoFalseAlarm
    BY DEF MInit, ZeroSoFar, Skewed, Pattern, SeenOpposite, Found, Filled, NoFalseAlarm
  <1>3. MarchStuck /\ MarchCoupled /\ AddressShared
    BY DEF MInit, MarchStuck, MarchCoupled, AddressShared
  <1> QED
    BY <1>1, <1>2, <1>3 DEF MInv

\* Every step keeps the invariant.
LEMMA MInvariant == MSpec => []MInv
  <1>1. MInv /\ [MNext]_mvars => MInv'
    BY NextTypes, NextZeroSoFar, NextSkewed, NextPattern, NextSeenOpposite, NextFound, NextFilled,
       NextMarchStuck, NextMarchCoupled, NextAddressShared, NextNoFalseAlarm DEF MInv
  <1> QED
    BY MInitInv, <1>1, PTL DEF MSpec

\* In a memory of any size a test finds no error where there is none, with the
\* exceptions of an area that goes past the end (main.cpp:250) and of one that does
\* not begin at a word (main.cpp:262).
THEOREM NeverFalseAlarm == MSpec => []NoFalseAlarm
  <1>1. MInv => NoFalseAlarm
    BY DEF MInv
  <1> QED
    BY <1>1, MInvariant, PTL

\* In a memory of any size, for any width of its words and any area of the
\* galloping pattern test, a test that says OK has none of the faults it is for.
THEOREM NoneMissed == MSpec => []Finds
  <1>1. ASSUME MInv, stage = "menu", ~test_result
        PROVE  /\ test = "galpat"  => ~Galpat
               /\ test = "march"   => ~March
               /\ test = "address" => ~Address
    <2>1. MTypeOK /\ Place /\ N \in Nat \ {0} /\ Cells = 0 .. N - 1 /\ start_addr \in Nat /\ test_addr \in Nat
      BY <1>1, Geometry DEF MInv, MTypes, MTypeOK
    <2>2. ASSUME test = "galpat", Galpat PROVE FALSE
      <3>0. skew = 0
        <4>1. test_addr # start_addr
          BY <2>1, <2>2, <1>1, MemoryAssumption DEF Place, GalpatStages, InArea
        <4> QED
          BY <4>1, <2>2, <1>1 DEF MInv, Skewed
      <3>1. GalpatWords \in Nat \ {0} /\ test_addr = start_addr + GalpatWords
        BY <2>1, <2>2, <1>1, MemoryAssumption DEF Place, GalpatStages, InArea
      <3>2. \A t \in start_addr .. test_addr - 1, c \in Cells : ~Betrays(t, c)
        BY <2>1, <2>2, <3>0, <1>1 DEF MInv, Found, Scanned
      <3>3. \A c : Tested(c) => \E t \in start_addr .. test_addr - 1 : t % N = c
        <4>1. ASSUME NEW k \in 0 .. GalpatWords - 1
              PROVE  start_addr + k \in start_addr .. test_addr - 1
          BY <3>1, <2>1
        <4> QED
          BY <4>1 DEF Tested
      <3>4. start_addr \in start_addr .. test_addr - 1
        BY <3>1, <2>1
      <3>5. fault.a \in Cells /\ (fault.kind \in {"alias", "coupling"} => fault.b \in Cells)
        BY <2>1, FaultShape
      <3>6. CASE fault.kind = "stuck" /\ fault.b = 1
        BY <3>2, <3>4, <3>5, <3>6 DEF Betrays
      <3>7. CASE fault.kind = "stuck" /\ Tested(fault.a)
        BY <3>2, <3>3, <3>5, <3>7 DEF Betrays
      <3>8. CASE fault.kind = "alias" /\ Tested(fault.a)
        <4>1. PICK t \in start_addr .. test_addr - 1 : t % N = fault.a
          BY <3>3, <3>8
        <4>2. Betrays(t, fault.b)
          BY <4>1, <3>8 DEF Betrays
        <4> QED
          BY <4>2, <3>2, <3>5, <3>8
      <3>9. CASE fault.kind = "alias" /\ Tested(fault.b)
        <4>1. PICK t \in start_addr .. test_addr - 1 : t % N = fault.b
          BY <3>3, <3>9
        <4>2. Betrays(t, fault.a)
          BY <4>1, <3>9 DEF Betrays
        <4> QED
          BY <4>2, <3>2, <3>5, <3>9
      <3>10. CASE fault.kind = "coupling" /\ Tested(fault.a)
        BY <3>2, <3>3, <3>5, <3>10 DEF Betrays
      <3> QED
        BY <3>6, <3>7, <3>8, <3>9, <3>10, <2>2 DEF Galpat
    <2>3. ASSUME test = "march", March PROVE FALSE
      BY <2>3, <1>1 DEF MInv, March, MarchStuck, MarchCoupled
    <2>4. ASSUME test = "address", Address PROVE FALSE
      BY <2>4, <1>1 DEF MInv, AddressShared
    <2> QED
      BY <2>2, <2>3, <2>4
  <1>2. MInv => Finds
    BY <1>1 DEF Finds
  <1> QED
    BY <1>2, MInvariant, PTL
=============================================================================
