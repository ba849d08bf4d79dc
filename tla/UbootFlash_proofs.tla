-------------------------- MODULE UbootFlash_proofs --------------------------
(***************************************************************************)
(* For a device, areas and an environment of any size: what saveenv was    *)
(* given is what the next start finds, or the CRC refuses it, wherever the *)
(* power fails, and the protection of the areas has only the known holes.  *)
(*                                                                         *)
(* The inductive invariant says of every CRC in the flash, and of every    *)
(* one still to be written, that it was stored; how far a saveenv has      *)
(* come; and where the write under way was allowed to begin.               *)
(***************************************************************************)
EXTENDS UbootFlash, SequenceTheorems, TLAPS

CapacityNat == Capacity \in Nat

ValidFits == pc = "relocate" => (valid <=> CrcFits(InFlash))

CrcsStored ==
  /\ \A a \in 0 .. Capacity - 1 : flash[a] \in Data => flash[a] \in stored
  /\ \A i \in 1 .. Len(left) : left[i] \in Data => left[i] \in stored

LastThere == last # <<>> => InFlash = last

\* At the prompt the data in memory have some CRC, theirs unless they are stale.
EnvShape ==
  pc \in {"prompt", "save", "cp"} =>
    \E c, d \in Data : env = With(c, d) /\ (stale <=> c # d)

Saving ==
  pc = "save" =>
    /\ last = <<>> /\ dest + Len(left) = BootEnd + EnvSize
    /\ BootEnd <= dest
    /\ \A i \in 1 .. Len(left) : left[i] = env[dest - BootEnd + i]
    /\ \A a \in BootEnd .. dest - 1 : flash[a] = env[a - BootEnd + 1]

Allowed ==
  Busy => ~protected[AreaOf(from)] \/ from = Final[AreaOf(from)]

UInv == TypeOK /\ EnvShape /\ ValidFits /\ CrcsStored /\ LastThere /\ Saving /\ Allowed

-----------------------------------------------------------------------------
(* The constants, cells and environments.                                  *)

LEMMA CapacityType == CapacityNat
  <1>1. \A m, n \in Nat : m * n \in Nat
    OBVIOUS
  <1> QED
    BY <1>1, LayoutAssumption DEF CapacityNat, Capacity

LEMMA CellKinds == \A d \in Data : d \notin Plain /\ d # JUNK /\ d # <<>>
  <1> SUFFICES ASSUME NEW d \in Data PROVE d \notin Plain /\ d # JUNK /\ d # <<>>
    OBVIOUS
  <1>1. 2 \in DOMAIN d
    BY LayoutAssumption DEF Data
  <1>2. DOMAIN <<>> = {}
    OBVIOUS
  <1>3. \A v \in Value : 2 \notin DOMAIN <<v>>
    OBVIOUS
  <1> QED
    BY <1>1, <1>2, <1>3 DEF Plain, JUNK

LEMMA WithType ==
  ASSUME NEW c \in Data, NEW d \in Data
  PROVE  /\ With(c, d) \in [1 .. EnvSize -> Cell] /\ With(c, d)[1] = c
         /\ \A i \in 2 .. EnvSize : With(c, d)[i] \in Plain
  <1>1. 1 \in 1 .. EnvSize
    BY LayoutAssumption
  <1>2. \A i \in 1 .. EnvSize : i # 1 => i - 1 \in 1 .. EnvSize - 1
    BY LayoutAssumption
  <1>3. \A i \in 1 .. EnvSize : i # 1 => <<d[i - 1]>> \in Plain
    BY <1>2 DEF Data, Plain
  <1>4. c \in Cell /\ Plain \subseteq Cell
    BY DEF Cell
  <1>5. \A i \in 2 .. EnvSize : i \in 1 .. EnvSize /\ i # 1
    BY LayoutAssumption
  <1> QED
    BY <1>1, <1>3, <1>4, <1>5 DEF With

LEMMA ImageType ==
  ASSUME NEW d \in Data
  PROVE  /\ Image(d) \in [1 .. EnvSize -> Cell] /\ Image(d)[1] = d
         /\ \A i \in 2 .. EnvSize : Image(d)[i] \in Plain
  BY WithType DEF Image

\* A CRC fits the data it was computed from and no others.
LEMMA WithFits ==
  ASSUME NEW c \in Data, NEW d \in Data
  PROVE  CrcFits(With(c, d)) <=> c = d
  <1>1. c = d => CrcFits(With(c, d))
    BY DEF CrcFits, Image
  <1>2. ASSUME CrcFits(With(c, d)) PROVE c = d
    <2>1. PICK x \in Data : With(c, d) = With(x, x)
      BY <1>2 DEF CrcFits, Image
    <2>2. x = c
      BY <2>1, WithType
    <2>3. \A i \in 1 .. EnvSize - 1 : x[i] = d[i]
      <3> SUFFICES ASSUME NEW i \in 1 .. EnvSize - 1 PROVE x[i] = d[i]
        OBVIOUS
      <3>1. i + 1 \in 1 .. EnvSize /\ i + 1 # 1 /\ (i + 1) - 1 = i
        BY LayoutAssumption
      <3>2. With(c, d)[i + 1] = <<d[i]>> /\ With(x, x)[i + 1] = <<x[i]>>
        BY <3>1 DEF With
      <3>3. <<d[i]>> = <<x[i]>>
        BY <2>1, <3>2
      <3>4. <<d[i]>>[1] = d[i] /\ <<x[i]>>[1] = x[i]
        OBVIOUS
      <3> QED
        BY <3>3, <3>4
    <2>4. x = d
      <3>1. x = [i \in 1 .. EnvSize - 1 |-> x[i]] /\ d = [i \in 1 .. EnvSize - 1 |-> d[i]]
        BY Zenon DEF Data
      <3> QED
        BY <2>3, <3>1, Zenon
    <2> QED
      BY <2>2, <2>4
  <1> QED
    BY <1>1, <1>2

LEMMA DefaultType == Default \in Data
  BY InputAssumption DEF Default, Data

LEMMA GarbageType == Garbage \in [1 .. EnvSize -> Cell]
  BY DEF Garbage, Cell, JUNK

LEMMA EnvIsSeq ==
  ASSUME NEW e \in [1 .. EnvSize -> Cell]
  PROVE  e \in Seq(Cell) /\ Len(e) = EnvSize
  <1>1. EnvSize \in Nat
    BY LayoutAssumption
  <1>2. e \in Seq(Cell)
    BY <1>1, SeqDef
  <1> QED
    BY <1>1, <1>2, LenProperties

\* The part of a write that lies in one page is not empty.
LEMMA CountType ==
  ASSUME TypeOK, left # <<>>
  PROVE  Count \in 1 .. Len(left)
  <1>1. Len(left) \in Nat \ {0}
    BY EmptySeq DEF TypeOK
  <1>2. dest \in Nat
    BY CapacityType DEF TypeOK, CapacityNat
  <1>3. dest % PageSize \in 0 .. PageSize - 1
    BY <1>2, LayoutAssumption
  <1>4. PageSize - (dest % PageSize) \in Nat \ {0}
    BY <1>3, LayoutAssumption
  <1> QED
    BY <1>1, <1>4 DEF Count

\* The cells of the environment are cells of the device.
LEMMA EnvCellsThere == EnvCells \subseteq 0 .. Capacity - 1
  BY LayoutAssumption, CapacityType DEF EnvCells, CapacityNat

\* The whole of the environment in the flash follows the cells.
LEMMA InFlashSame ==
  ASSUME \A a \in EnvCells : flash'[a] = flash[a]
  PROVE  InFlash' = InFlash
  <1>1. \A i \in 1 .. EnvSize : BootEnd + i - 1 \in EnvCells
    BY LayoutAssumption DEF EnvCells
  <1> QED
    BY <1>1 DEF InFlash

-----------------------------------------------------------------------------
(* The areas.                                                              *)

LEMMA AreasCover ==
  ASSUME NEW a \in 0 .. Capacity - 1
  PROVE  AreaOf(a) \in Area /\ First[AreaOf(a)] <= a /\ a <= Final[AreaOf(a)]
  <1>1. \E k \in Area : a \in First[k] .. Final[k]
    <2>1. CASE a < BootEnd
      BY <2>1, CapacityType, LayoutAssumption DEF Area, First, Final, Boot, CapacityNat
    <2>2. CASE BootEnd <= a /\ a < EnvEnd
      BY <2>2, CapacityType, LayoutAssumption DEF Area, First, Final, Env, CapacityNat
    <2>3. CASE EnvEnd <= a
      BY <2>3, CapacityType, LayoutAssumption DEF Area, First, Final, Uboot, CapacityNat
    <2> QED
      BY <2>1, <2>2, <2>3, CapacityType, LayoutAssumption DEF CapacityNat
  <1>2. AreaOf(a) \in Area /\ a \in First[AreaOf(a)] .. Final[AreaOf(a)]
    BY <1>1 DEF AreaOf
  <1>3. \A k \in Area : First[k] \in Int /\ Final[k] \in Int
    BY CapacityType, LayoutAssumption DEF Area, First, Final, Boot, Env, Uboot, CapacityNat
  <1> QED
    BY <1>2, <1>3, CapacityType DEF CapacityNat

\* What write_dataflash lets through begins in an area that is open or on the
\* last address of its area.
LEMMA WriteAllowed ==
  ASSUME TypeOK, NEW a \in Nat, NEW n \in Nat \ {0}, MayWrite(a, n)
  PROVE  /\ a \in 0 .. Capacity - 1 /\ a + n <= Capacity
         /\ ~protected[AreaOf(a)] \/ a = Final[AreaOf(a)]
  <1>1. a \in 0 .. Capacity - 1 /\ a + n <= Capacity
    BY CapacityType DEF MayWrite, SizeFits, CapacityNat
  <1>2. AreaOf(a) \in Area /\ First[AreaOf(a)] <= a /\ a <= Final[AreaOf(a)]
    BY <1>1, AreasCover
  <1>3. ~(protected[AreaOf(a)] /\ First[AreaOf(a)] <= a /\ a < Final[AreaOf(a)])
    BY <1>2 DEF MayWrite, ProtectedAt
  <1>4. \A k \in Area : Final[k] \in Int
    BY CapacityType, LayoutAssumption DEF Area, Final, Boot, Env, Uboot, CapacityNat
  <1>5. a < Final[AreaOf(a)] \/ a = Final[AreaOf(a)]
    BY <1>2, <1>4
  <1> QED
    BY <1>1, <1>2, <1>3, <1>5

-----------------------------------------------------------------------------
(* The start of the specification and its steps, one lemma for each kind.  *)

\* A device starts in the invariant, whatever it holds.
LEMMA InitInv == Init => UInv
  <1> SUFFICES ASSUME Init PROVE UInv
    OBVIOUS
  <1>1. TypeOK
    <2>1. flash \in [0 .. Capacity - 1 -> Cell] /\ protected \in [Area -> BOOLEAN]
      BY InputAssumption DEF Init, Locked
    <2>2. env \in [1 .. EnvSize -> Cell] /\ valid \in BOOLEAN /\ stale \in BOOLEAN
      BY GarbageType DEF Init
    <2>3. from \in 0 .. Capacity /\ dest \in 0 .. Capacity
      BY CapacityType DEF Init, CapacityNat
    <2>4. left \in Seq(Cell) /\ dest + Len(left) <= Capacity
      BY CapacityType, EmptySeq DEF Init, CapacityNat
    <2> QED
      BY <2>1, <2>2, <2>3, <2>4 DEF Init, TypeOK
  <1>2. CrcsStored
    <2>1. \A a \in 0 .. Capacity - 1 : flash[a] \in Data => flash[a] \in stored
      BY InputAssumption DEF Init
    <2>2. Len(left) = 0
      BY EmptySeq DEF Init
    <2> QED
      BY <2>1, <2>2 DEF CrcsStored
  <1> QED
    BY <1>1, <1>2 DEF Init, UInv, EnvShape, ValidFits, LastThere, Saving, Allowed, Busy

\* The first look at the environment, in the flash.
LEMMA EnvInitKeeps == UInv /\ EnvInit => UInv'
  <1> SUFFICES ASSUME UInv, EnvInit PROVE UInv'
    OBVIOUS
  <1> USE DEF UInv
  <1>1. UNCHANGED <<flash, env, stale, from, dest, left, stored, last, writes, fails>>
    BY DEF EnvInit, hvars
  <1>2. protected' = Locked /\ pc' = "relocate" /\ (valid' = CrcFits(InFlash)) /\ InFlash' = InFlash
    BY <1>1 DEF EnvInit, InFlash
  <1>3. protected' \in [Area -> BOOLEAN]
    BY <1>2 DEF Locked
  <1>4. valid' \in BOOLEAN
    BY <1>2 DEF CrcFits
  <1>5. TypeOK'
    BY <1>1, <1>2, <1>3, <1>4 DEF TypeOK
  <1>6. ValidFits'
    BY <1>2, <1>4 DEF ValidFits, CrcFits
  <1> QED
    BY <1>1, <1>2, <1>5, <1>6 DEF EnvShape, CrcsStored, LastThere, Saving, Allowed, Busy

\* The second look, into memory.
LEMMA EnvRelocateKeeps == UInv /\ EnvRelocate => UInv'
  <1> SUFFICES ASSUME UInv, EnvRelocate PROVE UInv'
    OBVIOUS
  <1> USE DEF UInv
  <1>1. UNCHANGED <<flash, from, dest, left, stored, last, writes, fails>>
    BY DEF EnvRelocate, hvars
  <1>2. pc = "relocate" /\ protected' = Locked /\ pc' = "prompt" /\ valid' = TRUE /\ stale' = FALSE
    BY DEF EnvRelocate
  <1>3. protected' \in [Area -> BOOLEAN]
    BY <1>2 DEF Locked
  <1>4. PICK d \in Data : env' = Image(d)
    BY <1>2, DefaultType DEF EnvRelocate, ValidFits, CrcFits
  <1>5. env' \in [1 .. EnvSize -> Cell]
    BY <1>4, ImageType
  <1>6. TypeOK'
    BY <1>1, <1>2, <1>3, <1>5 DEF TypeOK
  <1>7. EnvShape'
    BY <1>2, <1>4 DEF EnvShape, Image
  <1>8. LastThere'
    BY <1>1 DEF LastThere, InFlash
  <1> QED
    BY <1>1, <1>2, <1>6, <1>7, <1>8 DEF ValidFits, CrcsStored, Saving, Allowed, Busy

\* What is typed at the prompt and writes nothing.
LEMMA PromptKeeps == UInv /\ (SetEnv \/ Protect) => UInv'
  <1> SUFFICES ASSUME UInv, SetEnv \/ Protect PROVE UInv'
    OBVIOUS
  <1> USE DEF UInv
  <1>1. UNCHANGED <<flash, valid, pc, from, dest, left, stored, last, writes, fails>> /\ pc = "prompt"
    BY DEF SetEnv, Protect, hvars
  <1>2. protected' \in [Area -> BOOLEAN]
    BY DEF SetEnv, Protect, TypeOK
  <1>3. \E c, d \in Data : env' = With(c, d) /\ (stale' <=> c # d)
    <2>1. PICK c \in Data, d \in Data : env = With(c, d) /\ (stale <=> c # d)
      BY <1>1 DEF EnvShape
    <2>2. env[1] = c
      BY <2>1, WithType
    <2>3. CASE SetEnv
      <3>1. PICK e \in Data : \E crc \in {e, env[1]} : env' = With(crc, e) /\ stale' = (crc # e)
        BY <2>3 DEF SetEnv
      <3>2. PICK crc \in {e, c} : env' = With(crc, e) /\ stale' = (crc # e)
        BY <2>2, <3>1
      <3>3. crc \in Data
        OBVIOUS
      <3> QED
        BY <3>2, <3>3
    <2>4. CASE Protect
      BY <2>1, <2>4 DEF Protect
    <2> QED
      BY <2>3, <2>4
  <1>4. env' \in [1 .. EnvSize -> Cell]
    BY <1>3, WithType
  <1>41. stale' \in BOOLEAN
    BY DEF SetEnv, Protect, TypeOK
  <1>5. TypeOK'
    BY <1>1, <1>2, <1>4, <1>41 DEF TypeOK
  <1>6. EnvShape'
    BY <1>3 DEF EnvShape
  <1>7. LastThere'
    BY <1>1 DEF LastThere, InFlash
  <1> QED
    BY <1>1, <1>5, <1>6, <1>7 DEF ValidFits, CrcsStored, Saving, Allowed, Busy

\* What both commands that write share.
LEMMA WriteBegins ==
  ASSUME UInv, NEW a \in Nat, NEW cells \in Seq(Cell), cells # <<>>, Write(a, cells),
         pc' \in {"save", "cp"}
  PROVE  /\ dest' \in 0 .. Capacity /\ from' \in 0 .. Capacity
         /\ dest' + Len(left') <= Capacity /\ left' \in Seq(Cell) /\ writes' \in Nat
         /\ Allowed'
  <1>1. from' = a /\ dest' = a /\ left' = cells /\ writes' = writes + 1 /\ protected' = protected
    BY DEF Write
  <1>2. Len(cells) \in Nat \ {0}
    BY EmptySeq
  <1>3. /\ a \in 0 .. Capacity - 1 /\ a + Len(cells) <= Capacity
        /\ ~protected[AreaOf(a)] \/ a = Final[AreaOf(a)]
    BY <1>2, WriteAllowed DEF Write, UInv
  <1>4. Allowed'
    BY <1>1, <1>3 DEF Allowed, AreaOf
  <1> QED
    BY <1>1, <1>3, <1>4, CapacityType DEF UInv, TypeOK, CapacityNat

\* saveenv: the environment in memory is stored from here on.
LEMMA SaveEnvKeeps == UInv /\ SaveEnv => UInv'
  <1> SUFFICES ASSUME UInv, SaveEnv PROVE UInv'
    OBVIOUS
  <1> USE DEF UInv
  <1>1. /\ UNCHANGED <<flash, protected, valid, env, stale, fails>> /\ pc = "prompt" /\ pc' = "save"
        /\ last' = <<>> /\ stored' = stored \cup {env[1]} /\ dest' = BootEnd /\ left' = env
    BY DEF SaveEnv, Write
  <1>2. PICK c \in Data, d \in Data : env = With(c, d) /\ (stale <=> c # d)
    BY <1>1 DEF EnvShape
  <1>3. env[1] = c /\ \A i \in 2 .. EnvSize : env[i] \in Plain
    BY <1>2, WithType
  <1>4. env \in Seq(Cell) /\ Len(env) = EnvSize
    BY EnvIsSeq DEF TypeOK
  <1>5. env # <<>>
    BY <1>4, EmptySeq, LayoutAssumption
  <1>6. /\ dest' \in 0 .. Capacity /\ from' \in 0 .. Capacity
        /\ dest' + Len(left') <= Capacity /\ left' \in Seq(Cell) /\ writes' \in Nat
        /\ Allowed'
    BY <1>1, <1>4, <1>5, WriteBegins, LayoutAssumption DEF SaveEnv
  <1>7. TypeOK'
    BY <1>1, <1>3, <1>6 DEF TypeOK
  <1>8. EnvShape'
    BY <1>1 DEF EnvShape
  <1>9. CrcsStored'
    <2>1. \A i \in 1 .. EnvSize : env[i] \in Data => env[i] = env[1]
      <3> SUFFICES ASSUME NEW i \in 1 .. EnvSize, env[i] \in Data PROVE env[i] = env[1]
        OBVIOUS
      <3>1. i = 1 \/ i \in 2 .. EnvSize
        BY LayoutAssumption
      <3> QED
        BY <1>3, <3>1, CellKinds
    <2> QED
      BY <1>1, <1>4, <2>1 DEF CrcsStored
  <1>10. Saving'
    <2>1. \A i \in 1 .. EnvSize : left'[i] = env'[dest' - BootEnd + i]
      BY <1>1, LayoutAssumption
    <2>2. \A a \in BootEnd .. dest' - 1 : FALSE
      BY <1>1, LayoutAssumption
    <2> QED
      BY <1>1, <1>4, <2>1, <2>2, LayoutAssumption DEF Saving
  <1> QED
    BY <1>1, <1>6, <1>7, <1>8, <1>9, <1>10 DEF ValidFits, LastThere

\* cp writes data, never a CRC.
LEMMA CpKeeps == UInv /\ Cp => UInv'
  <1> SUFFICES ASSUME UInv, Cp PROVE UInv'
    OBVIOUS
  <1> USE DEF UInv
  <1>1. PICK a \in Dests, n \in Sizes, v \in Value :
          Write(a, [i \in 1 .. n |-> <<v>>]) /\ pc' = "cp" /\ UNCHANGED <<env, stored, last>>
    BY DEF Cp
  <1> DEFINE cells == [i \in 1 .. n |-> <<v>>]
  <1>2. a \in Nat /\ n \in Nat \ {0} /\ <<v>> \in Plain /\ Plain \subseteq Cell
    BY InputAssumption DEF Plain, Cell
  <1>3. cells \in Seq(Cell) /\ Len(cells) = n
    <2>1. cells \in [1 .. n -> Cell]
      BY <1>2
    <2>2. cells \in Seq(Cell)
      BY <1>2, <2>1, SeqDef
    <2> HIDE DEF cells
    <2> QED
      BY <1>2, <2>1, <2>2, LenProperties
  <1>4. \A i \in 1 .. n : cells[i] \in Plain
    BY <1>2
  <1>5. Write(a, cells)
    BY <1>1
  <1> HIDE DEF cells
  <1>6. cells # <<>>
    BY <1>2, <1>3, EmptySeq
  <1>7. /\ dest' \in 0 .. Capacity /\ from' \in 0 .. Capacity
        /\ dest' + Len(left') <= Capacity /\ left' \in Seq(Cell) /\ writes' \in Nat
        /\ Allowed'
    BY <1>1, <1>2, <1>3, <1>5, <1>6, WriteBegins
  <1>8. UNCHANGED <<flash, protected, valid, stale, fails, env, stored, last>> /\ left' = cells /\ pc = "prompt" /\ pc' = "cp"
    BY <1>1, <1>5 DEF Write
  <1>9. TypeOK'
    BY <1>7, <1>8 DEF TypeOK
  <1>10. EnvShape'
    BY <1>8 DEF EnvShape
  <1>11. CrcsStored'
    BY <1>3, <1>4, <1>8, CellKinds DEF CrcsStored
  <1>12. LastThere'
    BY <1>8 DEF LastThere, InFlash
  <1> QED
    BY <1>7, <1>8, <1>9, <1>10, <1>11, <1>12 DEF ValidFits, Saving

\* A page of the write under way.
LEMMA WritePageKeeps == UInv /\ WritePage => UInv'
  <1> SUFFICES ASSUME UInv, WritePage PROVE UInv'
    OBVIOUS
  <1> USE DEF UInv
  <1>1. /\ UNCHANGED <<protected, env, stale, valid, pc, from, stored, writes, fails>> /\ Busy /\ left # <<>>
        /\ flash' = [a \in DOMAIN flash |-> IF a \in Part THEN left[a - dest + 1] ELSE flash[a]]
        /\ dest' = dest + Count /\ left' = SubSeq(left, Count + 1, Len(left))
        /\ last' = IF EnvHurt(Part) THEN <<>> ELSE last
    BY DEF WritePage
  <1>2. Count \in 1 .. Len(left) /\ Len(left) \in Nat /\ dest \in Nat
    BY <1>1, CountType, CapacityType DEF TypeOK, CapacityNat
  <1>3. /\ left' \in Seq(Cell) /\ Len(left') = Len(left) - Count
        /\ \A i \in 1 .. Len(left') : left'[i] = left[Count + i]
    <2>1. left \in Seq(Cell) /\ Count + 1 \in 1 .. Len(left) + 1
      BY <1>2 DEF TypeOK
    <2>2. /\ SubSeq(left, Count + 1, Len(left)) \in Seq(Cell)
          /\ Len(SubSeq(left, Count + 1, Len(left))) = Len(left) - Count
          /\ \A i \in 1 .. Len(left) - Count :
               SubSeq(left, Count + 1, Len(left))[i] = left[Count + i]
      BY <1>2, <2>1, SubSeqProperties
    <2> QED
      BY <1>1, <2>2
  <1>14. dest' = dest + Count /\ Len(left') = Len(left) - Count
    BY <1>1, <1>3
  <1>4. \A a \in Part : a - dest + 1 \in 1 .. Len(left)
    BY <1>2 DEF Part
  <1>5. \A i \in 1 .. Len(left) : left[i] \in Cell
    BY DEF TypeOK
  <1>6. flash' \in [0 .. Capacity - 1 -> Cell]
    BY <1>1, <1>4, <1>5 DEF TypeOK
  <1>7. last' \in [1 .. EnvSize -> Cell] \cup {<<>>}
    BY <1>1 DEF TypeOK
  <1>8. TypeOK'
    <2>1. Capacity \in Nat /\ dest + Len(left) <= Capacity
      BY CapacityType DEF TypeOK, CapacityNat
    <2> DEFINE cap == Capacity
    <2> HIDE DEF cap, UInv
    <2>2. cap \in Nat /\ dest + Len(left) <= cap
      BY <2>1 DEF cap
    <2>3. dest' \in 0 .. cap /\ dest' + Len(left') <= cap
      BY <1>14, <1>2, <2>2
    <2>4. dest' \in 0 .. Capacity /\ dest' + Len(left') <= Capacity
      BY <2>3 DEF cap
    <2> QED
      BY <1>1, <1>3, <1>6, <1>7, <2>4 DEF UInv, TypeOK
  <1>9. EnvShape'
    BY <1>1 DEF EnvShape
  <1>10. ValidFits' /\ Allowed'
    BY <1>1 DEF Busy, ValidFits, Allowed, AreaOf
  <1>11. CrcsStored'
    <2>1. \A i \in 1 .. Len(left') : Count + i \in 1 .. Len(left)
      BY <1>2, <1>3
    <2>2. \A i \in 1 .. Len(left') : left'[i] \in Data => left'[i] \in stored
      BY <1>3, <2>1 DEF CrcsStored
    <2>3. \A a \in 0 .. Capacity - 1 : flash'[a] \in Data => flash'[a] \in stored
      BY <1>1, <1>4 DEF CrcsStored, TypeOK
    <2> QED
      BY <1>1, <2>2, <2>3 DEF CrcsStored
  <1>12. LastThere'
    <2> SUFFICES ASSUME last' # <<>> PROVE InFlash' = last'
      BY DEF LastThere
    <2>1. last' = last /\ Part \cap EnvCells = {}
      BY <1>1 DEF EnvHurt
    <2>2. \A a \in EnvCells : flash'[a] = flash[a]
      BY <1>1, <2>1, EnvCellsThere DEF TypeOK
    <2>3. InFlash' = InFlash
      BY <2>2, InFlashSame
    <2> QED
      BY <2>1, <2>3 DEF LastThere
  <1>13. Saving'
    <2> SUFFICES ASSUME pc' = "save" PROVE Saving'
      BY DEF Saving
    <2>1. /\ last' = <<>> /\ dest + Len(left) = BootEnd + EnvSize /\ BootEnd <= dest
          /\ \A i \in 1 .. Len(left) : left[i] = env[dest - BootEnd + i]
          /\ \A a \in BootEnd .. dest - 1 : flash[a] = env[a - BootEnd + 1]
      BY <1>1 DEF Saving
    <2>2. dest' + Len(left') = BootEnd + EnvSize /\ BootEnd <= dest'
      <3>1. dest + Len(left) = BootEnd + EnvSize /\ BootEnd <= dest
        BY <2>1
      <3>2. BootEnd \in Nat /\ EnvSize \in Nat
        BY LayoutAssumption
      <3> HIDE DEF UInv
      <3> QED
        BY <1>2, <1>14, <3>1, <3>2
    <2>3. \A i \in 1 .. Len(left') : left'[i] = env[dest' - BootEnd + i]
      <3> SUFFICES ASSUME NEW i \in 1 .. Len(left') PROVE left'[i] = env[dest' - BootEnd + i]
        OBVIOUS
      <3>1. Count + i \in 1 .. Len(left) /\ dest - BootEnd + (Count + i) = dest' - BootEnd + i
        BY <1>1, <1>2, <1>3, LayoutAssumption
      <3>2. left[Count + i] = env[dest - BootEnd + (Count + i)]
        BY <2>1, <3>1
      <3> QED
        BY <1>3, <3>1, <3>2
    <2>4. \A a \in BootEnd .. dest' - 1 : flash'[a] = env[a - BootEnd + 1]
      <3> SUFFICES ASSUME NEW a \in BootEnd .. dest' - 1 PROVE flash'[a] = env[a - BootEnd + 1]
        OBVIOUS
      <3>1. a \in DOMAIN flash
        BY <1>1, <1>2, CapacityType, LayoutAssumption DEF TypeOK, CapacityNat
      <3>2. CASE a \in Part
        <4>1. a - dest + 1 \in 1 .. Len(left) /\ dest - BootEnd + (a - dest + 1) = a - BootEnd + 1
          BY <1>2, <1>4, <3>2, LayoutAssumption
        <4>2. left[a - dest + 1] = env[dest - BootEnd + (a - dest + 1)]
          BY <2>1, <4>1
        <4> QED
          BY <1>1, <3>1, <3>2, <4>1, <4>2
      <3>3. CASE a \notin Part
        <4>1. a \in BootEnd .. dest - 1
          BY <1>1, <1>2, <3>3, LayoutAssumption DEF Part
        <4> QED
          BY <1>1, <2>1, <3>1, <3>3, <4>1
      <3> QED
        BY <3>2, <3>3
    <2> QED
      BY <1>1, <2>1, <2>2, <2>3, <2>4 DEF Saving
  <1> QED
    BY <1>8, <1>9, <1>10, <1>11, <1>12, <1>13

\* The end of a write: after saveenv the whole environment is in the flash.
LEMMA WriteEndKeeps == UInv /\ WriteEnd => UInv'
  <1> SUFFICES ASSUME UInv, WriteEnd PROVE UInv'
    OBVIOUS
  <1> USE DEF UInv
  <1>1. /\ UNCHANGED <<flash, protected, env, stale, valid, from, dest, left, stored, writes, fails>>
        /\ Busy /\ left = <<>> /\ pc' = "prompt"
        /\ last' = IF pc = "save" THEN env ELSE last
    BY DEF WriteEnd
  <1>3. TypeOK'
    BY <1>1 DEF TypeOK
  <1>4. InFlash' = InFlash
    BY <1>1 DEF InFlash
  <1>5. LastThere'
    <2>1. CASE pc = "save"
      <3>1. Len(left) = 0 /\ dest \in Nat
        BY <1>1, EmptySeq, CapacityType DEF TypeOK, CapacityNat
      <3>2. dest = BootEnd + EnvSize
        BY <2>1, <3>1, LayoutAssumption DEF Saving
      <3>3. \A i \in 1 .. EnvSize : /\ BootEnd + i - 1 \in BootEnd .. dest - 1
                                    /\ (BootEnd + i - 1) - BootEnd + 1 = i
        BY <3>2, LayoutAssumption
      <3>4. \A i \in 1 .. EnvSize : flash[BootEnd + i - 1] = env[i]
        BY <2>1, <3>3 DEF Saving
      <3>5. InFlash = env
        BY <3>4 DEF InFlash, TypeOK
      <3> QED
        BY <1>1, <1>4, <2>1, <3>5 DEF LastThere
    <2>2. CASE pc # "save"
      BY <1>1, <1>4, <2>2 DEF LastThere
    <2> QED
      BY <2>1, <2>2
  <1>6. EnvShape'
    BY <1>1 DEF EnvShape, Busy
  <1> QED
    BY <1>1, <1>3, <1>5, <1>6 DEF ValidFits, CrcsStored, Saving, Allowed, Busy

\* The power fails: of the cells of a page under way nothing is claimed.
LEMMA PowerFailKeeps == UInv /\ PowerFail => UInv'
  <1> SUFFICES ASSUME UInv, PowerFail PROVE UInv'
    OBVIOUS
  <1> USE DEF UInv
  <1> DEFINE hurt == IF Busy /\ left # <<>> THEN {a \in DOMAIN flash : Page(a) = Page(dest)} ELSE {}
  <1>1. /\ flash' = [a \in DOMAIN flash |-> IF a \in hurt THEN JUNK ELSE flash[a]]
        /\ last' = IF EnvHurt(hurt) THEN <<>> ELSE last
        /\ pc' = "init" /\ env' = Garbage /\ valid' = FALSE /\ left' = <<>> /\ fails' = fails + 1
        /\ UNCHANGED <<protected, stale, from, dest, stored, writes>>
    BY DEF PowerFail
  <1> HIDE DEF hurt
  <1>2. JUNK \in Cell
    BY DEF Cell
  <1>3. flash' \in [0 .. Capacity - 1 -> Cell]
    BY <1>1, <1>2 DEF TypeOK
  <1>4. left' \in Seq(Cell) /\ Len(left') = 0
    BY <1>1, EmptySeq
  <1>5. dest' + Len(left') <= Capacity
    BY <1>1, <1>4, CapacityType DEF TypeOK, CapacityNat
  <1>6. TypeOK'
    <2>1. env' \in [1 .. EnvSize -> Cell] /\ valid' \in BOOLEAN
      BY <1>1, GarbageType
    <2>2. last' \in [1 .. EnvSize -> Cell] \cup {<<>>} /\ fails' \in Nat
      BY <1>1 DEF TypeOK
    <2> QED
      BY <1>1, <1>3, <1>4, <1>5, <2>1, <2>2 DEF TypeOK
  <1>7. CrcsStored'
    <2>1. \A a \in 0 .. Capacity - 1 : flash'[a] \in Data => flash'[a] \in stored
      BY <1>1, CellKinds DEF CrcsStored, TypeOK
    <2>2. 1 .. Len(left') = {} /\ stored' = stored
      BY <1>1, <1>4
    <2> QED
      BY <2>1, <2>2 DEF CrcsStored
  <1>8. LastThere'
    <2> SUFFICES ASSUME last' # <<>> PROVE InFlash' = last'
      BY DEF LastThere
    <2>1. last' = last /\ hurt \cap EnvCells = {}
      BY <1>1 DEF EnvHurt
    <2>2. \A a \in EnvCells : flash'[a] = flash[a]
      BY <1>1, <2>1, EnvCellsThere DEF TypeOK
    <2>3. InFlash' = InFlash
      BY <2>2, InFlashSame
    <2> QED
      BY <2>1, <2>3 DEF LastThere
  <1> QED
    BY <1>1, <1>6, <1>7, <1>8 DEF EnvShape, ValidFits, Saving, Allowed, Busy

-----------------------------------------------------------------------------
\* Every step keeps the invariant.
LEMMA NextInv == UInv /\ [Next]_vars => UInv'
  <1> SUFFICES ASSUME UInv, [Next]_vars PROVE UInv'
    OBVIOUS
  <1>1. CASE EnvInit
    BY <1>1, EnvInitKeeps
  <1>2. CASE EnvRelocate
    BY <1>2, EnvRelocateKeeps
  <1>3. CASE SetEnv \/ Protect
    BY <1>3, PromptKeeps
  <1>4. CASE SaveEnv
    BY <1>4, SaveEnvKeeps
  <1>5. CASE Cp
    BY <1>5, CpKeeps
  <1>6. CASE WritePage
    BY <1>6, WritePageKeeps
  <1>7. CASE WriteEnd
    BY <1>7, WriteEndKeeps
  <1>8. CASE PowerFail
    BY <1>8, PowerFailKeeps
  <1>9. CASE UNCHANGED vars
    <2>1. UNCHANGED <<flash, protected, env, stale, valid, pc, from, dest, left, stored, last, writes, fails>>
      BY <1>9 DEF vars, hvars
    <2>2. TypeOK'
      BY <2>1 DEF UInv, TypeOK
    <2>3. InFlash' = InFlash
      BY <2>1 DEF InFlash
    <2>4. ValidFits' /\ LastThere'
      BY <2>1, <2>3 DEF UInv, ValidFits, LastThere, CrcFits
    <2> QED
      BY <2>1, <2>2, <2>4 DEF UInv, EnvShape, CrcsStored, Saving, Allowed, Busy, AreaOf
  <1> QED
    BY <1>1, <1>2, <1>3, <1>4, <1>5, <1>6, <1>7, <1>8, <1>9 DEF Next

LEMMA AlwaysInv == Spec => []UInv
  BY InitInv, NextInv, PTL DEF Spec

\* The variables keep their types: no write leaves the device.
THEOREM TypeCorrect == Spec => []TypeOK
  <1>1. UInv => TypeOK
    BY DEF UInv
  <1> QED
    BY <1>1, AlwaysInv, PTL

\* From the prompt on the environment in memory fits its CRC (saveenv in
\* common/env_dataflash.c and env_relocate in common/env_common.c), but after a
\* setenv that found no room (common/cmd_nvedit.c), which leaves the old CRC.
THEOREM EnvironmentWhole == Spec => []EnvWhole
  <1>1. UInv => EnvWhole
    <2> SUFFICES ASSUME UInv, pc \in {"prompt", "save", "cp"} PROVE CrcFits(env) <=> ~stale
      BY DEF EnvWhole
    <2>1. PICK c \in Data, d \in Data : env = With(c, d) /\ (stale <=> c # d)
      BY DEF UInv, EnvShape
    <2> QED
      BY <2>1, WithFits
  <1> QED
    BY <1>1, AlwaysInv, PTL

\* Power failures and writes over it notwithstanding, the environment that is
\* taken from the flash is one whose CRC was saved; what was saved and not hurt
\* since is taken if its CRC fits and refused if not.
THEOREM BootsWhatWasSaved == Spec => BootsSaved
  <1>1. UInv /\ [Next]_vars =>
          [EnvRelocate =>
             /\ env' \in {Image(d) : d \in stored \cup {Default}}
             /\ last # <<>> => env' = IF CrcFits(last) THEN last ELSE Image(Default)]_vars
    <2> SUFFICES ASSUME UInv, EnvRelocate
                 PROVE  /\ env' \in {Image(d) : d \in stored \cup {Default}}
                        /\ last # <<>> => env' = IF CrcFits(last) THEN last ELSE Image(Default)
      OBVIOUS
    <2> USE DEF UInv
    <2>1. (valid <=> CrcFits(InFlash)) /\ env' = IF valid THEN InFlash ELSE Image(Default)
      BY DEF EnvRelocate, ValidFits
    <2>2. last # <<>> => InFlash = last
      BY DEF LastThere
    <2>3. last # <<>> => env' = IF CrcFits(last) THEN last ELSE Image(Default)
      BY <2>1, <2>2
    <2>4. CASE CrcFits(InFlash)
      <3>1. PICK d \in Data : InFlash = Image(d)
        BY <2>4 DEF CrcFits
      <3>2. InFlash[1] = d
        BY <3>1, ImageType
      <3>3. InFlash[1] = flash[BootEnd] /\ BootEnd \in 0 .. Capacity - 1
        BY LayoutAssumption, CapacityType DEF InFlash, CapacityNat
      <3>4. d \in stored
        BY <3>2, <3>3 DEF CrcsStored
      <3> QED
        BY <2>1, <2>3, <2>4, <3>1, <3>4
    <2>5. CASE ~CrcFits(InFlash)
      BY <2>1, <2>3, <2>5
    <2> QED
      BY <2>4, <2>5
  <1> QED
    BY <1>1, AlwaysInv, PTL DEF Spec, BootsSaved

\* The holes of the protection (prot_dataflash and write_dataflash in
\* drivers/mtd/dataflash.c) are the ones stated and no others.
THEOREM ProtectionHoles == Spec => ProtectedButEdges
  <1>1. UInv /\ [Next]_vars =>
          [\A a \in DOMAIN flash :
             flash'[a] # flash[a] /\ protected[AreaOf(a)] =>
               \/ pc' = "init" /\ Page(a) = Page(dest)
               \/ ~protected[AreaOf(from)] \/ from = Final[AreaOf(from)]]_vars
    <2> SUFFICES ASSUME UInv, [Next]_vars, NEW a \in DOMAIN flash, flash'[a] # flash[a]
                 PROVE  \/ pc' = "init" /\ Page(a) = Page(dest)
                        \/ ~protected[AreaOf(from)] \/ from = Final[AreaOf(from)]
      OBVIOUS
    <2>1. CASE WritePage
      BY <2>1 DEF WritePage, UInv, Allowed
    <2>2. CASE PowerFail
      BY <2>2 DEF PowerFail
    <2>3. CASE flash' = flash
      BY <2>3
    <2>4. \/ WritePage \/ PowerFail \/ flash' = flash
      BY DEF Next, vars, EnvInit, EnvRelocate, SetEnv, Protect, SaveEnv, Cp, Write, WriteEnd
    <2> QED
      BY <2>1, <2>2, <2>3, <2>4
  <1> QED
    BY <1>1, AlwaysInv, PTL DEF Spec, ProtectedButEdges

=============================================================================
