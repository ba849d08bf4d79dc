-------------------------- MODULE At45Flash_proofs --------------------------
(***************************************************************************)
(* What is proved of At45Flash, for every size of a page and of the        *)
(* device, every image, address and size.                                  *)
(*                                                                         *)
(* The invariant follows a write from place to place: how much of the      *)
(* image is still to come, that every byte outside of what is still to be  *)
(* written is already as it will be, and what buffer 1 and the page at     *)
(* hand hold in between.                                                   *)
(***************************************************************************)
EXTENDS At45Flash, TLAPS

-----------------------------------------------------------------------------
(* Pages and bytes.                                                        *)

LEMMA PageByte ==
  \A a \in Nat : /\ a \div PageSize \in Nat /\ a % PageSize \in Offset
                 /\ a = Linear(a \div PageSize, a % PageSize)
<1>1. \A P \in Nat \ {0}, a \in Nat : a \div P \in Nat /\ a % P \in 0 .. P - 1
  OBVIOUS
<1>2. \A P \in Nat \ {0}, a \in Nat : a = P * (a \div P) + (a % P)
  OBVIOUS
<1>3. \A P \in Nat \ {0}, n \in Nat : P * n = n * P
  OBVIOUS
<1>. QED  BY <1>1, <1>2, <1>3, SizeAssumption DEF Offset, Linear

LEMMA LinearNat == \A p \in Nat, o \in Offset : Linear(p, o) \in Nat /\ Linear(p, 0) \in Nat
<1>1. \A P \in Nat \ {0}, p \in Nat : p * P \in Nat
  OBVIOUS
<1>. QED  BY <1>1, SizeAssumption DEF Offset, Linear

LEMMA PageLinear ==
  \A p \in PageNo, o \in Offset :
    p \in Nat /\ o \in Nat /\ Linear(p, o) \in Nat /\ Linear(p, 0) \in Nat
<1>1. \A p \in PageNo : p \in Nat
  BY SizeAssumption DEF PageNo
<1>2. \A o \in Offset : o \in Nat
  BY SizeAssumption DEF Offset
<1>. QED  BY <1>1, <1>2, LinearNat

\* Two pages have no byte in common.
LEMMA Apart ==
  \A p, q \in Nat, o \in Offset :
    p # q => Linear(p, o) < Linear(q, 0) \/ Linear(p, o) >= Linear(q, 0) + PageSize
<1>1. \A P \in Nat \ {0}, p, q \in Nat : p < q => p * P + P <= q * P
  <2>. SUFFICES ASSUME NEW P \in Nat \ {0}, NEW p \in Nat, NEW q \in Nat, p < q
                PROVE  p * P + P <= q * P
    OBVIOUS
  <2>1. PICK d \in Nat : q = p + 1 + d
    <3>1. q - p - 1 \in Nat /\ q = p + 1 + (q - p - 1)
      OBVIOUS
    <3>. QED  BY <3>1
  <2>2. d * P \in Nat /\ p * P \in Nat
    OBVIOUS
  <2>3. (p + 1 + d) * P = p * P + P + d * P
    OBVIOUS
  <2>. QED  BY <2>1, <2>2, <2>3
<1>2. \A P \in Nat \ {0}, p \in Nat : p * P \in Nat
  OBVIOUS
<1>. SUFFICES ASSUME NEW p \in Nat, NEW q \in Nat, NEW o \in Offset, p # q
              PROVE  Linear(p, o) < Linear(q, 0) \/ Linear(p, o) >= Linear(q, 0) + PageSize
  OBVIOUS
<1>3. p * PageSize \in Nat /\ q * PageSize \in Nat /\ o \in 0 .. PageSize - 1
  BY <1>2, SizeAssumption DEF Offset
<1>4. CASE p < q
  <2>1. p * PageSize + PageSize <= q * PageSize
    BY <1>1, <1>4, SizeAssumption
  <2>. QED  BY <2>1, <1>3, SizeAssumption DEF Linear
<1>5. CASE q < p
  <2>1. q * PageSize + PageSize <= p * PageSize
    BY <1>1, <1>5, SizeAssumption
  <2>. QED  BY <2>1, <1>3, SizeAssumption DEF Linear
<1>. QED  BY <1>4, <1>5

LEMMA LinearPlus == \A p \in Nat, o \in Offset : Linear(p, o) = Linear(p, 0) + o
<1>1. \A P \in Nat \ {0}, p \in Nat : p * P \in Nat
  OBVIOUS
<1>. QED  BY <1>1, SizeAssumption DEF Offset, Linear

\* The bytes below the capacity are those of the pages there are.
LEMMA OnDevice ==
  /\ Capacity \in Nat
  /\ \A a \in Nat : a < Capacity => a \div PageSize \in PageNo /\ a \div PageSize < Pages
  /\ Capacity % PageSize = 0
<1>1. Capacity \in Nat /\ Capacity = Linear(Pages, 0)
  <2>1. \A P \in Nat \ {0}, n \in Nat : P * n \in Nat /\ P * n = n * P + 0
    OBVIOUS
  <2>. QED  BY <2>1, SizeAssumption DEF Capacity, Linear
<1>2. ASSUME NEW a \in Nat, a < Capacity
      PROVE  a \div PageSize \in PageNo /\ a \div PageSize < Pages
  <2>1. a \div PageSize \in Nat /\ a % PageSize \in Offset
        /\ a = Linear(a \div PageSize, a % PageSize)
    BY PageByte
  <2>. DEFINE q == a \div PageSize
  <2>2. ASSUME q > Pages PROVE FALSE
    <3>1. Linear(Pages, 0) < Linear(q, 0) \/ Linear(Pages, 0) >= Linear(q, 0) + PageSize
      BY Apart, <2>1, <2>2, SizeAssumption DEF Offset
    <3>2. Linear(q, 0) < Linear(Pages, 0) \/ Linear(q, 0) >= Linear(Pages, 0) + PageSize
      BY Apart, <2>1, <2>2, SizeAssumption DEF Offset
    <3>3. Linear(q, a % PageSize) < Linear(Pages, 0)
          \/ Linear(q, a % PageSize) >= Linear(Pages, 0) + PageSize
      BY Apart, <2>1, <2>2, SizeAssumption
    <3>4. Linear(q, a % PageSize) < Linear(Pages, 0)
      BY <1>1, <1>2, <2>1
    <3>5. Linear(Pages, 0) <= Linear(q, 0)
      <4>1. \A P \in Nat \ {0}, m, n \in Nat : m < n => m * P <= n * P
        <5>1. ASSUME NEW P \in Nat \ {0}, NEW m \in Nat, NEW n \in Nat, m < n
              PROVE  m * P <= n * P
          <6>1. PICK d \in Nat : n = m + d
            <7>1. n - m \in Nat /\ n = m + (n - m)
              BY <5>1
            <7>. QED  BY <7>1
          <6>2. d * P \in Nat /\ m * P \in Nat /\ (m + d) * P = m * P + d * P
            OBVIOUS
          <6>. QED  BY <6>1, <6>2
        <5>. QED  BY <5>1
      <4>2. Pages * PageSize <= q * PageSize
        BY <4>1, <2>1, <2>2, SizeAssumption
      <4>3. Pages * PageSize \in Nat /\ q * PageSize \in Nat
        <5>1. \A P \in Nat \ {0}, n \in Nat : n * P \in Nat
          OBVIOUS
        <5>. QED  BY <5>1, <2>1, SizeAssumption
      <4>. QED  BY <4>2, <4>3 DEF Linear
    <3>6. Linear(q, a % PageSize) = Linear(q, 0) + (a % PageSize)
      BY LinearPlus, <2>1
    <3>. HIDE DEF q
    <3>7. Linear(q, 0) \in Nat /\ Linear(Pages, 0) \in Nat /\ a % PageSize \in Nat
      <4>1. 0 \in Offset
        BY SizeAssumption DEF Offset
      <4>. QED  BY <4>1, LinearNat, <2>1, SizeAssumption DEF q, Offset
    <3>. QED  BY <3>4, <3>5, <3>6, <3>7
  <2>3. ASSUME q = Pages PROVE FALSE
    <3>1. Linear(q, a % PageSize) = Linear(Pages, 0) + (a % PageSize)
      BY LinearPlus, <2>1, <2>3, SizeAssumption
    <3>2. Linear(Pages, 0) \in Nat /\ a % PageSize \in Nat
      <4>1. 0 \in Offset
        BY SizeAssumption DEF Offset
      <4>. QED  BY <4>1, LinearNat, <2>1, SizeAssumption DEF Offset
    <3>. QED  BY <3>1, <3>2, <1>1, <1>2, <2>1
  <2>. QED  BY <2>1, <2>2, <2>3, SizeAssumption DEF PageNo
<1>3. Capacity % PageSize = 0
  <2>1. \A P \in Nat \ {0}, n \in Nat : (P * n) % P = 0
    OBVIOUS
  <2>. QED  BY <2>1, SizeAssumption DEF Capacity
<1>. QED  BY <1>1, <1>2, <1>3

\* The byte of a page is on the device.
LEMMA BelowCapacity == \A p \in PageNo, o \in Offset : Linear(p, o) < Capacity
<1>. SUFFICES ASSUME NEW p \in PageNo, NEW o \in Offset PROVE Linear(p, o) < Capacity
  OBVIOUS
<1>1. \A P \in Nat \ {0}, n, q \in Nat :
        q < n => q * P + P <= P * n /\ q * P \in Nat /\ P * n \in Nat
  <2>. SUFFICES ASSUME NEW P \in Nat \ {0}, NEW n \in Nat, NEW q \in Nat, q < n
                PROVE  q * P + P <= P * n /\ q * P \in Nat /\ P * n \in Nat
    OBVIOUS
  <2>1. PICK d \in Nat : n = q + 1 + d
    <3>1. n - q - 1 \in Nat /\ n = q + 1 + (n - q - 1)
      OBVIOUS
    <3>. QED  BY <3>1
  <2>2. d * P \in Nat /\ q * P \in Nat /\ P * (q + 1 + d) = q * P + P + d * P
    OBVIOUS
  <2>. QED  BY <2>1, <2>2
<1>2. /\ p * PageSize + PageSize <= PageSize * Pages /\ p * PageSize \in Nat
      /\ PageSize * Pages \in Nat
  BY <1>1, SizeAssumption DEF PageNo
<1>. QED  BY <1>2, SizeAssumption DEF Linear, Offset, Capacity

\* From one page border to the next.
LEMMA Border ==
  \A a \in Nat, n \in Nat : (a % PageSize) + n = PageSize => (a + n) % PageSize = 0
<1>1. \A P \in Nat \ {0}, a, n \in Nat : (a % P) + n = P => (a + n) % P = 0
  <2>. SUFFICES ASSUME NEW P \in Nat \ {0}, NEW a \in Nat, NEW n \in Nat, (a % P) + n = P
                PROVE  (a + n) % P = 0
    OBVIOUS
  <2>1. a \div P \in Nat /\ a = P * (a \div P) + (a % P) /\ a % P \in Nat
    OBVIOUS
  <2>2. PICK q \in Nat : a = P * q + (a % P)
    BY <2>1
  <2>3. P * (q + 1) = P * q + P /\ P * q \in Nat
    OBVIOUS
  <2>4. a + n = P * (q + 1)
    BY <2>1, <2>2, <2>3
  <2>5. (P * (q + 1)) % P = 0
    OBVIOUS
  <2>. QED  BY <2>4, <2>5
<1>. QED  BY <1>1, SizeAssumption
-----------------------------------------------------------------------------
(* The invariant.                                                          *)

\* What src and size say of the buffer, and where whole pages are written.
Counted ==
  /\ pc \in WritePlaces \cup {"read"} => ram \in [1 .. src + size -> Cell]
  /\ pc \in {"erase", "pgm", "pageend"} => size >= PageSize

\* Images, addresses and sizes for which the test of the size, made in signed
\* numbers, is true to them.
InReach ==
  /\ \A image \in Images, d \in Dests : d + Len(image) < Word \div 2
  /\ \A n \in Sizes, d \in Dests : d + n < Word \div 2

Here == dest \div PageSize

\* From n bytes on, what the buffer still holds of the image is what is to be.
Left(n) == \A p \in PageNo, o \in Offset :
             InRange(dest + n, size - n, Linear(p, o)) =>
               target[p][o] = ram[src + Linear(p, o) - dest + 1]

\* What is not still to be written is as it will be.
Outside == \A p \in PageNo, o \in Offset :
             ~InRange(dest, size, Linear(p, o)) => mem[p][o] = target[p][o]

\* Where a write is on the device.
Bounds ==
  pc \in WritePlaces =>
    /\ dest + size <= Capacity /\ Outside
    /\ pc # "loop" => dest < Capacity
    /\ pc \in {"erase", "pgm", "pageend"} => AdrInPage = 0
    /\ pc = "loop" => AdrInPage = 0 \/ size = 0

\* The command the chip may be busy with is the one the driver waits for.
Doing(op) == Ready \/ job = [op |-> op, page |-> Here]

\* How far the page at hand has come.
Stage ==
  /\ pc \in {"head", "loop", "partpgm", "erase"} => Ready
  /\ pc \in {"head", "loop", "patch"} => Left(0)
  /\ pc \in {"partpgm", "partend"} => Left(Length)
  /\ pc \in {"erase", "pgm", "pageend"} => Left(PageSize)
  /\ pc = "patch" => Doing("transfer") /\ (Ready => buf1 = mem[Here])
  /\ pc \in {"partpgm", "partend", "erase", "pgm", "pageend"} => buf1 = target[Here]
  /\ pc = "partend" => Doing("erasepgm") /\ (Ready => mem[Here] = target[Here])
  /\ pc = "pgm" => Doing("erase") /\ (Ready => mem[Here] = Blank(ERASED))
  /\ pc = "pageend" => /\ Doing("pgm")
                       /\ IF Ready THEN mem[Here] = target[Here] ELSE mem[Here] = Blank(ERASED)

\* The bytes of a read so far.
Shows ==
  pc = "read" \/ (pc = "idle" /\ call = "read" /\ status = "OK") =>
    /\ src > 0 => Ready
    /\ src <= dest
    /\ \A i \in 1 .. src : \E p \in PageNo, o \in Offset :
         Linear(p, o) = dest - src + i - 1 /\ ram[i] = mem[p][o]
Reads ==
  /\ pc = "read" => dest + size < Word \div 2
  /\ pc = "idle" /\ call = "read" /\ status = "OK" => ram \in [1 .. src -> Cell]

\* Which call the driver is in.
Calls == (pc \in WritePlaces => call = "write") /\ (pc = "read" => call = "read")

TInv == TypeOK /\ Counted
\* A finished write has left the chip ready.
Quiet == pc = "idle" /\ call = "write" /\ status = "OK" => Ready

Results == WriteOK /\ Quiet /\ Shows /\ Reads
FInv    == TInv /\ Calls /\ Bounds /\ Stage /\ Results
-----------------------------------------------------------------------------
(* Types.                                                                  *)

LEMMA Buffers == \A n \in Nat : \A f \in [1 .. n -> Cell] : f \in Seq(Cell)
OBVIOUS

LEMMA Empty == <<>> \in Seq(Cell)
OBVIOUS

\* A call of write_dataflash with an image of n bytes.
Called(n, image, d) ==
  /\ n \in Nat /\ image \in [1 .. n -> Byte] /\ d \in Dests
  /\ \/ TooLarge(d, n) /\ status' = "OVERFLOW" /\ UNCHANGED <<pc, ram, src, dest, size, target>>
     \/ /\ ~TooLarge(d, n) /\ status' = "none"
        /\ pc' = IF d % PageSize # 0 THEN "head" ELSE "loop"
        /\ ram' = image /\ src' = 0 /\ dest' = d /\ size' = n
        /\ target' = [p \in PageNo |-> [o \in Offset |->
                        IF InRange(d, n, Linear(p, o)) THEN image[Linear(p, o) - d + 1]
                                                       ELSE mem[p][o]]]

LEMMA ImageType == \A image \in Images : Len(image) \in Nat /\ image \in [1 .. Len(image) -> Byte]
BY CallAssumption

LEMMA WriteCallCases ==
  ASSUME WriteCall
  PROVE  /\ pc = "idle" /\ Ready /\ call' = "write" /\ writes' = writes + 1
         /\ UNCHANGED <<chipvars, fails>>
         /\ \E n \in Nat, d \in Dests : \E image \in [1 .. n -> Byte] :
              Called(n, image, d) /\ (InReach => d + n < Word \div 2)
<1>1. /\ pc = "idle" /\ Ready /\ call' = "write" /\ writes' = writes + 1
      /\ UNCHANGED <<chipvars, fails>>
  BY DEF WriteCall
<1>2. PICK image \in Images, d \in Dests :
        IF TooLarge(d, Len(image))
        THEN status' = "OVERFLOW" /\ UNCHANGED <<pc, ram, src, dest, size, target>>
        ELSE /\ pc' = IF d % PageSize # 0 THEN "head" ELSE "loop"
             /\ ram' = image /\ src' = 0 /\ dest' = d /\ size' = Len(image)
             /\ status' = "none"
             /\ target' = [p \in PageNo |-> [o \in Offset |->
                             IF InRange(d, Len(image), Linear(p, o))
                             THEN image[Linear(p, o) - d + 1] ELSE mem[p][o]]]
  BY Zenon DEF WriteCall
<1>3. Len(image) \in Nat /\ image \in [1 .. Len(image) -> Byte]
  BY ImageType
<1>4. InReach => d + Len(image) < Word \div 2
  BY Zenon DEF InReach
<1>5. Called(Len(image), image, d)
  BY <1>2, <1>3, Zenon DEF Called
<1>. QED  BY <1>1, <1>3, <1>4, <1>5, Zenon

LEMMA Constants ==
  /\ PageSize \in Nat \ {0} /\ Pages \in Nat \ {0} /\ MaxChunk \in Nat \ {0}
  /\ Word \in Nat \ {0} /\ \A n \in Int : n % Word \in 0 .. Word - 1
  /\ Dests \subseteq 0 .. Word - 1 /\ Sizes \subseteq Nat
  /\ ERASED \in Cell /\ JUNK \in Cell /\ Byte \subseteq Cell
<1>1. Word \in Nat \ {0}
  <2>1. 4 * PageSize * Pages \in Nat
    <3>1. \A m, n \in Nat : 4 * m * n \in Nat
      OBVIOUS
    <3>. QED  BY <3>1, SizeAssumption
  <2>. QED  BY <2>1, WordAssumption
<1>2. \A w \in Nat \ {0}, n \in Int : n % w \in 0 .. w - 1
  OBVIOUS
<1>3. Dests \subseteq 0 .. Word - 1 /\ Sizes \subseteq Nat /\ MaxChunk \in Nat \ {0}
  BY CallAssumption, <1>1
<1>. QED  BY <1>1, <1>2, <1>3, SizeAssumption, ByteAssumption DEF Cell

LEMMA InitTyped == Init => TInv
<1>. SUFFICES ASSUME Init PROVE TInv
  OBVIOUS
<1>1. ram \in Seq(Cell)
  BY Empty DEF Init
<1>2. 0 \in PageNo
  BY SizeAssumption DEF PageNo
<1>3. mem \in [PageNo -> [Offset -> Cell]] /\ buf1 \in [Offset -> Cell]
  BY Constants DEF Init, Blank
<1>4. target \in [PageNo -> [Offset -> Cell]]
  BY <1>3 DEF Init
<1>5. /\ job = NoJob /\ pc = "idle" /\ src = 0 /\ dest = 0 /\ size = 0 /\ status = "none"
      /\ call = "none" /\ writes = 0 /\ fails = 0
  BY DEF Init
<1>6. 0 \in 0 .. Word - 1
  BY Constants
<1>7. TypeOK
  BY <1>1, <1>2, <1>3, <1>4, <1>5, <1>6 DEF TypeOK
<1>. QED  BY <1>5, <1>7 DEF TInv, Counted, WritePlaces

\* Where dest is.
LEMMA DestPage ==
  TypeOK => /\ dest \in Nat /\ Here \in Nat /\ AdrInPage \in Offset /\ AdrInPage \in Nat
            /\ dest = Linear(Here, AdrInPage) /\ dest = Linear(Here, 0) + AdrInPage
            /\ Linear(Here, 0) \in Nat
<1>. SUFFICES ASSUME TypeOK
              PROVE  /\ dest \in Nat /\ Here \in Nat /\ AdrInPage \in Offset /\ AdrInPage \in Nat
                     /\ dest = Linear(Here, AdrInPage) /\ dest = Linear(Here, 0) + AdrInPage
                     /\ Linear(Here, 0) \in Nat
  OBVIOUS
<1>1. dest \in Nat
  BY Constants DEF TypeOK
<1>2. /\ Here \in Nat /\ AdrInPage \in Offset /\ dest = Linear(Here, AdrInPage)
  BY <1>1, PageByte, Zenon DEF Here, AdrInPage
<1>3. AdrInPage \in Nat /\ 0 \in Offset
  BY <1>2, Constants DEF Offset
<1>4. Linear(Here, AdrInPage) = Linear(Here, 0) + AdrInPage
  BY <1>2, LinearPlus, Zenon
<1>5. Linear(Here, 0) \in Nat
  BY <1>2, <1>3, LinearNat, Zenon
<1>. QED  BY <1>1, <1>2, <1>3, <1>4, <1>5, Zenon

\* The command that is sent, or the one under way.
LEMMA CommandTyped ==
  ASSUME TypeOK, NEW op \in Rewriting \cup {"transfer"}, SendCommand(op, dest)
  PROVE  /\ job' \in [op : Rewriting \cup {"transfer"}, page : PageNo] \cup {NoJob}
         /\ ~Ready => job' = job
         /\ Ready => job' = [op |-> op, page |-> Here % Pages]
<1>1. Here % Pages \in PageNo
  <2>1. \A n \in Nat \ {0}, a \in Nat : a % n \in 0 .. n - 1
    OBVIOUS
  <2>. QED  BY <2>1, DestPage, Constants DEF PageNo
<1>. QED  BY <1>1 DEF SendCommand, TypeOK, Here

LEMMA LengthType ==
  ASSUME TypeOK
  PROVE  /\ AdrInPage \in Offset /\ Length \in Nat /\ Length <= size
         /\ AdrInPage + Length <= PageSize
         /\ Length = size \/ AdrInPage + Length = PageSize
         /\ Length > 0 \/ size = 0
<1>1. AdrInPage \in Offset
  BY DestPage
<1>2. size \in Nat
  BY DEF TypeOK
<1>. QED  BY <1>1, <1>2, Constants DEF Length, Offset

\* Buffer 1 takes part of the image, which is lost where it was sent from.
LEMMA FillTyped ==
  ASSUME TInv, pc \in WritePlaces, NEW at \in Offset, NEW n \in Nat,
         n <= size, at + n <= PageSize, WriteBuffer(at, n)
  PROVE  buf1' \in [Offset -> Cell] /\ ram' \in [1 .. src + size -> Cell]
<1>1. ram \in [1 .. src + size -> Cell]
  BY DEF TInv, Counted
<1>2. src \in Nat /\ size \in Nat /\ buf1 \in [Offset -> Cell]
  BY DEF TInv, TypeOK
<1>3. ram' \in [1 .. src + size -> Cell]
  BY <1>1, Constants DEF WriteBuffer, SpiWrite
<1>4. \A o \in Offset : InRange(at, n, o) => src + o - at + 1 \in 1 .. src + size
  BY <1>2 DEF InRange, Offset
<1>5. buf1' \in [Offset -> Cell]
  BY <1>1, <1>2, <1>4 DEF WriteBuffer
<1>. QED  BY <1>3, <1>5
LEMMA ChunkType ==
  ASSUME size \in Nat
  PROVE  SizeToRead \in Nat /\ SizeToRead <= size /\ (size > 0 => SizeToRead > 0)
BY Constants DEF SizeToRead

LEMMA AdvanceTyped ==
  ASSUME TInv, NEW n \in Nat, n <= size, Advance(n)
  PROVE  /\ src' \in Nat /\ size' \in Nat /\ dest' \in 0 .. Word - 1
         /\ src' + size' = src + size
<1>1. src \in Nat /\ size \in Nat /\ dest + n \in Int
  BY DestPage DEF TInv, TypeOK
<1>. QED  BY <1>1, Constants DEF Advance

LEMMA StartTyped == TInv /\ (PartTransfer \/ PartPatch) => TInv'
<1>1. ASSUME TInv, PartTransfer PROVE TInv'
  <2>1. job' \in [op : Rewriting \cup {"transfer"}, page : PageNo] \cup {NoJob}
    BY <1>1, CommandTyped DEF PartTransfer, TInv
  <2>2. pc \in WritePlaces /\ pc' = "patch"
    BY <1>1 DEF PartTransfer, Goto, WritePlaces
  <2>3. UNCHANGED <<mem, buf1, ram, src, dest, size, status, call, target, writes, fails>>
    BY <1>1 DEF PartTransfer, Goto
  <2>4. TypeOK'
    BY <1>1, <2>1, <2>2, <2>3 DEF TInv, TypeOK, WritePlaces
  <2>. QED  BY <1>1, <2>2, <2>3, <2>4 DEF TInv, Counted
<1>2. ASSUME TInv, PartPatch PROVE TInv'
  <2>1. pc = "patch" /\ pc' = "partpgm"
    BY <1>2 DEF PartPatch, Goto
  <2>2. UNCHANGED <<mem, job, src, dest, size, status, call, target, writes, fails>>
    BY <1>2 DEF PartPatch, Goto
  <2>3. buf1' \in [Offset -> Cell] /\ ram' \in [1 .. src + size -> Cell]
    <3>1. /\ AdrInPage \in Offset /\ Length \in Nat /\ Length <= size
          /\ AdrInPage + Length <= PageSize
      BY <1>2, LengthType DEF TInv
    <3>. QED  BY <1>2, <2>1, <3>1, FillTyped DEF PartPatch, WritePlaces
  <2>4. ram' \in Seq(Cell)
    <3>1. src + size \in Nat
      BY <1>2 DEF TInv, TypeOK
    <3>. QED  BY <2>3, <3>1, Buffers
  <2>5. TypeOK'
    BY <1>2, <2>1, <2>2, <2>3, <2>4 DEF TInv, TypeOK, WritePlaces
  <2>. QED  BY <2>1, <2>2, <2>3, <2>5 DEF TInv, Counted
<1>. QED  BY <1>1, <1>2

LEMMA CommandsTyped == TInv /\ (PartProgram \/ PageErase \/ PageProgram) => TInv'
<1>. SUFFICES ASSUME TInv, PartProgram \/ PageErase \/ PageProgram PROVE TInv'
  OBVIOUS
<1>1. job' \in [op : Rewriting \cup {"transfer"}, page : PageNo] \cup {NoJob}
  <2>1. PICK op \in Rewriting : SendCommand(op, dest)
    BY DEF PartProgram, PageErase, PageProgram, Rewriting
  <2>. QED  BY <2>1, CommandTyped DEF TInv
<1>2. /\ \/ pc = "partpgm" /\ pc' = "partend"
         \/ pc = "erase" /\ pc' = "pgm"
         \/ pc = "pgm" /\ pc' = "pageend"
      /\ UNCHANGED <<mem, buf1, ram, src, dest, size, status, call, target, writes, fails>>
  BY DEF PartProgram, PageErase, PageProgram, Goto
<1>3. TypeOK'
  BY <1>1, <1>2 DEF TInv, TypeOK, WritePlaces
<1>. QED  BY <1>2, <1>3 DEF TInv, Counted, WritePlaces

LEMMA PageFillTyped == TInv /\ PageFill => TInv'
<1>. SUFFICES ASSUME TInv, PageFill PROVE TInv'
  OBVIOUS
<1>1. pc = "loop" /\ pc' = "erase" /\ size >= PageSize
  BY DEF PageFill, Goto
<1>2. UNCHANGED <<mem, job, src, dest, size, status, call, target, writes, fails>>
  BY DEF PageFill, Goto
<1>3. buf1' \in [Offset -> Cell] /\ ram' \in [1 .. src + size -> Cell]
  <2>1. 0 \in Offset /\ PageSize \in Nat /\ 0 + PageSize <= PageSize
    BY Constants DEF Offset
  <2>. QED  BY <1>1, <2>1, FillTyped DEF PageFill, WritePlaces
<1>4. ram' \in Seq(Cell)
  <2>1. src + size \in Nat
    BY DEF TInv, TypeOK
  <2>. QED  BY <1>3, <2>1, Buffers
<1>5. TypeOK'
  BY <1>1, <1>2, <1>3, <1>4 DEF TInv, TypeOK, WritePlaces
<1>. QED  BY <1>1, <1>2, <1>3, <1>5 DEF TInv, Counted

LEMMA EndsTyped == TInv /\ (PartEnd \/ PageEnd \/ WriteReturn) => TInv'
<1>1. ASSUME TInv, NEW n \in Nat, n <= size, Advance(n), pc \in {"partend", "pageend"}, pc' = "loop",
             UNCHANGED <<chipvars, ram, status, call, target, writes, fails>>
      PROVE  TInv'
  <2>1. src' \in Nat /\ size' \in Nat /\ dest' \in 0 .. Word - 1 /\ src' + size' = src + size
    BY <1>1, AdvanceTyped
  <2>2. TypeOK'
    BY <1>1, <2>1 DEF TInv, TypeOK, WritePlaces, chipvars
  <2>. QED  BY <1>1, <2>1, <2>2 DEF TInv, Counted, WritePlaces
<1>2. ASSUME TInv, PartEnd PROVE TInv'
  <2>1. Length \in Nat /\ Length <= size
    BY <1>2, LengthType DEF TInv
  <2>. QED  BY <1>2, <1>1, <2>1 DEF PartEnd, Goto
<1>3. ASSUME TInv, PageEnd PROVE TInv'
  <2>1. PageSize \in Nat /\ PageSize <= size
    BY <1>3, Constants DEF TInv, TypeOK, Counted, PageEnd, Goto
  <2>. QED  BY <1>3, <1>1, <2>1 DEF PageEnd, Goto
<1>4. ASSUME TInv, WriteReturn PROVE TInv'
  BY <1>4 DEF WriteReturn, TInv, TypeOK, Counted, WritePlaces, chipvars
<1>. QED  BY <1>2, <1>3, <1>4
LEMMA WriteCallTyped == TInv /\ WriteCall => TInv'
<1>. SUFFICES ASSUME TInv, WriteCall PROVE TInv'
  OBVIOUS
<1>1. /\ pc = "idle" /\ call' = "write" /\ writes' = writes + 1 /\ UNCHANGED <<chipvars, fails>>
  BY WriteCallCases
<1>2. PICK n \in Nat, d \in Dests : \E image \in [1 .. n -> Byte] : Called(n, image, d)
  BY WriteCallCases
<1>3. PICK image \in [1 .. n -> Byte] : Called(n, image, d)
  BY <1>2
<1>4. CASE status' = "OVERFLOW" /\ UNCHANGED <<pc, ram, src, dest, size, target>>
  BY <1>1, <1>4 DEF TInv, TypeOK, Counted, WritePlaces, chipvars
<1>5. CASE /\ pc' = IF d % PageSize # 0 THEN "head" ELSE "loop"
           /\ ram' = image /\ src' = 0 /\ dest' = d /\ size' = n /\ status' = "none"
           /\ target' = [p \in PageNo |-> [o \in Offset |->
                           IF InRange(d, n, Linear(p, o)) THEN image[Linear(p, o) - d + 1]
                                                          ELSE mem[p][o]]]
  <2>1. ram' \in [1 .. n -> Cell]
    BY <1>5, Constants
  <2>2. ram' \in Seq(Cell)
    BY <2>1, Buffers
  <2>3. target' \in [PageNo -> [Offset -> Cell]]
    <3>1. ASSUME NEW p \in PageNo, NEW o \in Offset, InRange(d, n, Linear(p, o))
          PROVE  image[Linear(p, o) - d + 1] \in Cell
      <4>1. Linear(p, o) \in Nat /\ d \in Nat
        BY PageLinear, Constants
      <4>2. Linear(p, o) - d + 1 \in 1 .. n
        BY <4>1, <3>1 DEF InRange
      <4>. QED  BY <4>2, Constants
    <3>2. \A p \in PageNo, o \in Offset : mem[p][o] \in Cell
      BY DEF TInv, TypeOK
    <3>. QED  BY <1>5, <3>1, <3>2
  <2>4. pc' \in {"head", "loop"} /\ src' \in Nat /\ size' \in Nat /\ src' + size' = n
    BY <1>5
  <2>5. dest' \in 0 .. Word - 1
    BY <1>5, Constants
  <2>6. TypeOK'
    BY <1>1, <1>5, <2>2, <2>3, <2>4, <2>5 DEF TInv, TypeOK, WritePlaces, chipvars
  <2>. QED  BY <2>1, <2>4, <2>6 DEF TInv, Counted
<1>. QED  BY <1>3, <1>4, <1>5, Zenon DEF Called

LEMMA ReadTyped == TInv /\ (ReadCall \/ ReadChunk \/ ReadReturn) => TInv'
<1>1. ASSUME TInv, ReadCall PROVE TInv'
  <2>1. PICK d \in Dests, n \in Sizes :
          ram' = [i \in 1 .. n |-> JUNK] /\ src' = 0 /\ dest' = d /\ size' = n
    BY <1>1, Zenon DEF ReadCall
  <2>2. /\ pc' = "read" /\ status' = "none" /\ call' = "read"
        /\ UNCHANGED <<chipvars, target, writes, fails>>
    BY <1>1 DEF ReadCall
  <2>3. n \in Nat /\ d \in 0 .. Word - 1
    BY Constants
  <2>4. ram' \in [1 .. n -> Cell]
    BY <2>1, Constants
  <2>5. ram' \in Seq(Cell)
    BY <2>3, <2>4, Buffers
  <2>6. TypeOK'
    BY <1>1, <2>1, <2>2, <2>3, <2>5 DEF TInv, TypeOK, chipvars
  <2>. QED  BY <2>1, <2>2, <2>3, <2>4, <2>6 DEF TInv, Counted, WritePlaces
<1>2. ASSUME TInv, ReadChunk PROVE TInv'
  <2>1. pc = "read" /\ pc' = "read" /\ UNCHANGED <<chipvars, status, call, target, writes, fails>>
    BY <1>2 DEF ReadChunk, Goto
  <2>2. SizeToRead \in Nat /\ SizeToRead <= size
    BY <1>2, ChunkType DEF TInv, TypeOK
  <2>3. src' \in Nat /\ size' \in Nat /\ dest' \in 0 .. Word - 1 /\ src' + size' = src + size
    BY <1>2, <2>2, AdvanceTyped DEF ReadChunk
  <2>4. ram \in [1 .. src + size -> Cell]
    BY <1>2, <2>1 DEF TInv, Counted
  <2>5. ram' \in [1 .. src + size -> Cell]
    <3>1. ASSUME NEW i \in 1 .. src + size, InRange(src + 1, SizeToRead, i)
          PROVE  Shown(dest + i - src - 1) \in Cell
      <4>1. dest + i - src - 1 \in Nat
        BY <1>2, <3>1, <2>2, DestPage DEF InRange, TInv, TypeOK
      <4>. DEFINE a == dest + i - src - 1
      <4>2. a % PageSize \in Offset /\ a \div PageSize \in Nat
        BY <4>1, PageByte
      <4>3. (a \div PageSize) % Pages \in PageNo
        <5>1. \A m \in Nat \ {0}, b \in Nat : b % m \in 0 .. m - 1
          OBVIOUS
        <5>. QED  BY <5>1, <4>2, SizeAssumption DEF PageNo
      <4>4. Ready => Shown(a) = mem[(a \div PageSize) % Pages][a % PageSize]
        BY DEF Shown
      <4>5. Ready
        BY <1>2 DEF ReadChunk, WaitReady
      <4>6. mem \in [PageNo -> [Offset -> Cell]]
        BY <1>2 DEF TInv, TypeOK
      <4>. HIDE DEF a
      <4>7. Shown(a) \in Cell
        BY <4>2, <4>3, <4>4, <4>5, <4>6
      <4>. QED  BY <4>7 DEF a
    <3>2. ram' = [i \in DOMAIN ram |->
                    IF InRange(src + 1, SizeToRead, i) THEN Shown(dest + i - src - 1) ELSE ram[i]]
      BY <1>2 DEF ReadChunk
    <3>. QED  BY <2>4, <3>1, <3>2
  <2>6. ram' \in Seq(Cell)
    <3>1. src + size \in Nat
      BY <1>2 DEF TInv, TypeOK
    <3>. QED  BY <2>5, <3>1, Buffers
  <2>7. TypeOK'
    BY <1>2, <2>1, <2>3, <2>6 DEF TInv, TypeOK, chipvars
  <2>. QED  BY <2>1, <2>3, <2>5, <2>7 DEF TInv, Counted
<1>3. ASSUME TInv, ReadReturn PROVE TInv'
  BY <1>3 DEF ReadReturn, TInv, TypeOK, Counted, WritePlaces, chipvars
<1>. QED  BY <1>1, <1>2, <1>3

\* What the end of a command makes of the page.
LEMMA JobCases ==
  ASSUME TypeOK, JobDone
  PROVE  /\ job # NoJob /\ job' = NoJob /\ job.page \in PageNo
         /\ job.op \in Rewriting \cup {"transfer"}
         /\ buf1' = IF job.op = "transfer" THEN mem[job.page] ELSE buf1
         /\ job.op = "transfer" => mem' = mem
         /\ job.op = "erase" => mem' = [mem EXCEPT ![job.page] = Blank(ERASED)]
         /\ job.op = "erasepgm" => mem' = [mem EXCEPT ![job.page] = buf1]
         /\ job.op = "pgm" => mem' = [mem EXCEPT ![job.page] =
                                        [o \in Offset |-> Programmed(mem[job.page][o], buf1[o])]]
         /\ UNCHANGED <<drvvars, target, writes, fails>>
<1>1. job # NoJob /\ job' = NoJob /\ UNCHANGED <<drvvars, target, writes, fails>>
      /\ buf1' = IF job.op = "transfer" THEN mem[job.page] ELSE buf1
  BY DEF JobDone, Ready
<1>2. job.page \in PageNo /\ job.op \in Rewriting \cup {"transfer"}
  BY <1>1 DEF TypeOK
<1>. QED  BY <1>1, <1>2 DEF JobDone, Rewriting

LEMMA JobTyped ==
  ASSUME TypeOK, JobDone
  PROVE  mem' \in [PageNo -> [Offset -> Cell]] /\ buf1' \in [Offset -> Cell]
<1>. DEFINE q == job.page
            Mixed == [o \in Offset |-> Programmed(mem[q][o], buf1[o])]
<1>1. q \in PageNo
  BY JobCases
<1>2. mem \in [PageNo -> [Offset -> Cell]] /\ buf1 \in [Offset -> Cell]
  BY DEF TypeOK
<1>3. Mixed \in [Offset -> Cell]
  BY <1>1, <1>2, Constants DEF Programmed
<1>4. Blank(ERASED) \in [Offset -> Cell]
  BY Constants DEF Blank
<1>5. \A c \in [Offset -> Cell] : [mem EXCEPT ![q] = c] \in [PageNo -> [Offset -> Cell]]
  BY <1>1, <1>2
<1>6. \/ mem' = mem \/ \E c \in [Offset -> Cell] : mem' = [mem EXCEPT ![q] = c]
  BY <1>2, <1>3, <1>4, JobCases DEF Rewriting
<1>7. buf1' \in [Offset -> Cell]
  BY <1>1, <1>2, JobCases
<1>. QED  BY <1>2, <1>5, <1>6, <1>7

LEMMA JobDoneTyped == TInv /\ JobDone => TInv'
<1>. SUFFICES ASSUME TInv, JobDone PROVE TInv'
  OBVIOUS
<1>1. mem' \in [PageNo -> [Offset -> Cell]] /\ buf1' \in [Offset -> Cell]
  BY JobTyped DEF TInv
<1>2. job' = NoJob /\ UNCHANGED <<pc, ram, src, dest, size, status, call, target, writes, fails>>
  BY DEF JobDone, drvvars
<1>3. TypeOK'
  BY <1>1, <1>2 DEF TInv, TypeOK
<1>. QED  BY <1>2, <1>3 DEF TInv, Counted

LEMMA FailureTyped == TInv /\ Failure => TInv'
<1>. SUFFICES ASSUME TInv, Failure PROVE TInv'
  OBVIOUS
<1>1. /\ pc' = "idle" /\ ram' = <<>> /\ src' = 0 /\ dest' = 0 /\ size' = 0 /\ status' = "none"
      /\ call' = "none" /\ fails' = fails + 1 /\ UNCHANGED <<target, writes>>
  BY DEF Failure, PowerFail, Reset, Restart
<1>2. /\ mem' \in [PageNo -> [Offset -> Cell]] /\ buf1' \in [Offset -> Cell]
      /\ job' \in [op : Rewriting \cup {"transfer"}, page : PageNo] \cup {NoJob}
  <2>1. CASE Reset
    BY <2>1 DEF Reset, chipvars, TInv, TypeOK
  <2>2. CASE PowerFail
    <3>1. \A c \in Cell : Blank(c) \in [Offset -> Cell]
      BY DEF Blank
    <3>2. job.op \in {"erase", "erasepgm", "pgm"} => job.page \in PageNo
      BY DEF TInv, TypeOK, NoJob
    <3>3. mem' \in [PageNo -> [Offset -> Cell]]
      <4>1. mem \in [PageNo -> [Offset -> Cell]] /\ Blank(JUNK) \in [Offset -> Cell]
        BY <3>1, Constants DEF TInv, TypeOK
      <4>2. mem' = mem \/ (job.page \in PageNo /\ mem' = [mem EXCEPT ![job.page] = Blank(JUNK)])
        BY <2>2, <3>2 DEF PowerFail
      <4>. QED  BY <4>1, <4>2
    <3>. QED  BY <2>2, <3>1, <3>3, Constants DEF PowerFail
  <2>. QED  BY <2>1, <2>2 DEF Failure
<1>3. ram' \in Seq(Cell)
  BY <1>1, Empty
<1>4. TypeOK'
  <2>1. dest' \in 0 .. Word - 1 /\ src' \in Nat /\ size' \in Nat
    BY <1>1, Constants
  <2>2. target' \in [PageNo -> [Offset -> Cell]] /\ writes' \in Nat /\ fails' \in Nat
    BY <1>1 DEF TInv, TypeOK
  <2>. QED  BY <1>1, <1>2, <1>3, <2>1, <2>2 DEF TypeOK
<1>. QED  BY <1>1, <1>4 DEF TInv, Counted, WritePlaces

LEMMA NextTyped == TInv /\ [Next]_vars => TInv'
<1>1. ASSUME TInv, UNCHANGED vars PROVE TInv'
  BY <1>1 DEF vars, chipvars, drvvars, TInv, TypeOK, Counted
<1>2. TInv /\ Write => TInv'
  BY StartTyped, CommandsTyped, PageFillTyped, EndsTyped DEF Write
<1>3. TInv /\ (ReadCall \/ Read) => TInv'
  BY ReadTyped DEF Read
<1>. QED  BY <1>1, <1>2, <1>3, WriteCallTyped, JobDoneTyped, FailureTyped DEF Next

LEMMA Typed == Spec => []TInv
BY InitTyped, NextTyped, PTL DEF Spec

\* Every variable of the driver and the chip keeps its type, whatever is
\* written and read and whenever the power fails.
THEOREM TypeCorrect == Spec => []TypeOK
<1>1. TInv => TypeOK
  BY DEF TInv
<1>. QED  BY <1>1, Typed, PTL
-----------------------------------------------------------------------------
(* Writes.                                                                 *)

\* The page at hand among the others.
LEMMA PageAtHand ==
  ASSUME TypeOK, NEW p \in PageNo, NEW o \in Offset
  PROVE  /\ o \in Nat /\ o < PageSize /\ Linear(p, o) \in Nat
         /\ p = Here => Linear(p, o) = dest + o - AdrInPage
         /\ p # Here => \/ Linear(p, o) < dest - AdrInPage
                        \/ Linear(p, o) >= dest - AdrInPage + PageSize
<1>1. /\ Here \in Nat /\ AdrInPage \in Nat /\ dest = Linear(Here, 0) + AdrInPage
      /\ Linear(Here, 0) \in Nat /\ dest \in Nat
  BY DestPage
<1>2. p \in Nat /\ o \in Nat /\ Linear(p, o) \in Nat /\ Linear(p, o) = Linear(p, 0) + o
  BY PageLinear, LinearPlus
<1>3. o < PageSize
  BY SizeAssumption DEF Offset
<1>4. p # Here => Linear(p, o) < Linear(Here, 0) \/ Linear(p, o) >= Linear(Here, 0) + PageSize
  BY <1>1, <1>2, Apart
<1>5. p = Here => Linear(p, o) = Linear(Here, 0) + o
  BY <1>2
<1>. QED  BY <1>1, <1>2, <1>3, <1>4, <1>5, SizeAssumption

LEMMA HereIs == ASSUME TypeOK, dest < Capacity PROVE Here \in PageNo /\ Here % Pages = Here
<1>1. Here \in PageNo /\ Here < Pages /\ Here \in Nat
  BY DestPage, OnDevice DEF Here
<1>2. \A m \in Nat, n \in Nat \ {0} : m < n => m % n = m
  OBVIOUS
<1>. QED  BY <1>1, <1>2, SizeAssumption

\* What has gone to buffer 1 is of no more use in the caller's buffer.
LEMMA LeftFilled ==
  ASSUME TInv, pc \in WritePlaces, Left(0), NEW at, NEW n \in Nat, n <= size, WriteBuffer(at, n),
         UNCHANGED <<src, dest, size, target>>
  PROVE  \A p \in PageNo, o \in Offset :
           InRange(dest + n, size - n, Linear(p, o)) =>
             target'[p][o] = ram'[src + Linear(p, o) - dest + 1]
<1>. SUFFICES ASSUME NEW p \in PageNo, NEW o \in Offset, InRange(dest + n, size - n, Linear(p, o))
              PROVE  target'[p][o] = ram'[src + Linear(p, o) - dest + 1]
  OBVIOUS
<1>1. /\ src \in Nat /\ dest \in Nat /\ size \in Nat /\ Linear(p, o) \in Nat
      /\ ram \in [1 .. src + size -> Cell]
  BY DestPage, PageLinear DEF TInv, TypeOK, Counted
<1>2. InRange(dest + 0, size - 0, Linear(p, o))
  BY <1>1 DEF InRange
<1>3. target[p][o] = ram[src + Linear(p, o) - dest + 1]
  BY <1>2 DEF Left
<1>4. /\ src + Linear(p, o) - dest + 1 \in 1 .. src + size
      /\ ~InRange(src + 1, n, src + Linear(p, o) - dest + 1)
  BY <1>1 DEF InRange
<1>5. ram' = [i \in DOMAIN ram |-> IF InRange(src + 1, n, i) THEN JUNK ELSE ram[i]]
  BY DEF WriteBuffer, SpiWrite
<1>. QED  BY <1>1, <1>3, <1>4, <1>5

\* Part of a page, patched.
LEMMA PatchFills ==
  ASSUME TInv, pc \in WritePlaces, Left(0), Outside, dest < Capacity, Ready, buf1 = mem[Here],
         WriteBuffer(AdrInPage, Length)
  PROVE  buf1' = target[Here]
<1>1. Here \in PageNo
  BY HereIs DEF TInv
<1>2. /\ mem \in [PageNo -> [Offset -> Cell]] /\ target \in [PageNo -> [Offset -> Cell]]
      /\ src \in Nat /\ dest \in Nat /\ size \in Nat /\ AdrInPage \in Nat
  BY DestPage DEF TInv, TypeOK
<1>3. /\ Length \in Nat /\ Length <= size /\ AdrInPage + Length <= PageSize
      /\ Length = size \/ AdrInPage + Length = PageSize
  BY LengthType DEF TInv
<1>4. ASSUME NEW o \in Offset
      PROVE  target[Here][o] = IF InRange(AdrInPage, Length, o) THEN ram[src + o - AdrInPage + 1]
                                                                ELSE mem[Here][o]
  <2>1. o \in Nat /\ o < PageSize /\ Linear(Here, o) = dest + o - AdrInPage
    BY <1>1, PageAtHand DEF TInv
  <2>2. CASE InRange(AdrInPage, Length, o)
    <3>1. InRange(dest + 0, size - 0, Linear(Here, o))
      BY <1>2, <1>3, <2>1, <2>2 DEF InRange
    <3>2. target[Here][o] = ram[src + Linear(Here, o) - dest + 1]
      BY <1>1, <3>1 DEF Left
    <3>3. src + Linear(Here, o) - dest + 1 = src + o - AdrInPage + 1
      BY <1>2, <2>1
    <3>. QED  BY <2>2, <3>2, <3>3
  <2>3. CASE ~InRange(AdrInPage, Length, o)
    <3>1. ~InRange(dest, size, Linear(Here, o))
      BY <1>2, <1>3, <2>1, <2>3, SizeAssumption DEF InRange
    <3>. QED  BY <1>1, <2>3, <3>1 DEF Outside
  <2>. QED  BY <2>2, <2>3
<1>5. buf1' = [o \in Offset |-> IF InRange(AdrInPage, Length, o)
                                THEN ram[src + o - AdrInPage + 1] ELSE mem[Here][o]]
  BY DEF WriteBuffer
<1>6. target[Here] \in [Offset -> Cell]
  BY <1>1, <1>2
<1>. QED  BY <1>4, <1>5, <1>6

\* A whole page of the image.
LEMMA PageFills ==
  ASSUME TInv, pc \in WritePlaces, Left(0), dest < Capacity, Ready, AdrInPage = 0,
         size >= PageSize, WriteBuffer(0, PageSize)
  PROVE  buf1' = target[Here]
<1>1. Here \in PageNo
  BY HereIs DEF TInv
<1>2. /\ target \in [PageNo -> [Offset -> Cell]]
      /\ src \in Nat /\ dest \in Nat /\ size \in Nat
  BY DestPage DEF TInv, TypeOK
<1>3. ASSUME NEW o \in Offset
      PROVE  InRange(0, PageSize, o) /\ target[Here][o] = ram[src + o - 0 + 1]
  <2>1. o \in Nat /\ o < PageSize /\ Linear(Here, o) = dest + o
    BY <1>1, <1>2, PageAtHand DEF TInv
  <2>2. InRange(dest + 0, size - 0, Linear(Here, o)) /\ InRange(0, PageSize, o)
    BY <1>2, <2>1, SizeAssumption DEF InRange
  <2>3. target[Here][o] = ram[src + Linear(Here, o) - dest + 1]
    BY <1>1, <2>2 DEF Left
  <2>4. src + Linear(Here, o) - dest + 1 = src + o - 0 + 1
    BY <1>2, <2>1
  <2>. QED  BY <2>2, <2>3, <2>4
<1>4. buf1' = [o \in Offset |-> IF InRange(0, PageSize, o) THEN ram[src + o - 0 + 1] ELSE buf1[o]]
  BY DEF WriteBuffer
<1>5. target[Here] \in [Offset -> Cell]
  BY <1>1, <1>2
<1>. QED  BY <1>3, <1>4, <1>5

\* No address wraps in a write.
LEMMA Advances ==
  ASSUME TInv, Bounds, pc \in WritePlaces, NEW n \in Nat, n <= size, Advance(n)
  PROVE  dest' = dest + n /\ src' = src + n /\ size' = size - n
<1>1. src \in Nat /\ dest \in Nat /\ size \in Nat /\ dest + size <= Capacity
  BY DestPage DEF TInv, TypeOK, Bounds
<1>2. Capacity < Word /\ Capacity \in Nat /\ Word \in Nat
  <2>1. 4 * PageSize * Pages = 4 * Capacity /\ Capacity \in Nat
    <3>1. \A k, m \in Nat : 4 * k * m = 4 * (k * m) /\ k * m \in Nat
      OBVIOUS
    <3>. QED  BY <3>1, SizeAssumption DEF Capacity
  <2>. QED  BY <2>1, WordAssumption
<1>3. dest + n \in Nat /\ dest + n < Word
  BY <1>1, <1>2
<1>4. \A w \in Nat \ {0}, m \in Nat : m < w => m % w = m
  OBVIOUS
<1>. QED  BY <1>2, <1>3, <1>4, Constants DEF Advance

\* When the page at hand is as it will be, dest moves past its part of the image.
LEMMA AdvanceOK ==
  ASSUME TInv, Bounds, Ready, pc \in WritePlaces, mem[Here] = target[Here],
         NEW n \in Nat, Left(n), n <= size, AdrInPage + n <= PageSize,
         n = size \/ AdrInPage + n = PageSize, Advance(n), pc' = "loop",
         UNCHANGED <<mem, job, ram, target>>
  PROVE  Bounds' /\ Stage'
<1>1. /\ src \in Nat /\ dest \in Nat /\ size \in Nat /\ AdrInPage \in Nat
      /\ dest + size <= Capacity /\ Outside
  BY DestPage DEF TInv, TypeOK, Bounds
<1>2. dest' = dest + n /\ src' = src + n /\ size' = size - n
  BY Advances
<1>3. Outside'
  <2>1. ASSUME NEW p \in PageNo, NEW o \in Offset, ~InRange(dest + n, size - n, Linear(p, o))
        PROVE  mem[p][o] = target[p][o]
    <3>1. /\ o \in Nat /\ o < PageSize /\ Linear(p, o) \in Nat
          /\ p # Here => \/ Linear(p, o) < dest - AdrInPage
                         \/ Linear(p, o) >= dest - AdrInPage + PageSize
      BY PageAtHand DEF TInv
    <3>2. CASE p = Here
      BY <3>2
    <3>3. CASE p # Here
      <4>1. ~InRange(dest, size, Linear(p, o))
        BY <1>1, <2>1, <3>1, <3>3, SizeAssumption DEF InRange
      <4>. QED  BY <1>1, <4>1 DEF Outside
    <3>. QED  BY <3>2, <3>3
  <2>. QED  BY <1>2, <2>1 DEF Outside
<1>4. Left(0)'
  <2>1. ASSUME NEW p \in PageNo, NEW o \in Offset, InRange(dest + n + 0, size - n - 0, Linear(p, o))
        PROVE  target[p][o] = ram[src + n + Linear(p, o) - (dest + n) + 1]
    <3>1. Linear(p, o) \in Nat
      BY PageLinear
    <3>2. InRange(dest + n, size - n, Linear(p, o))
      BY <1>1, <2>1, <3>1 DEF InRange
    <3>3. target[p][o] = ram[src + Linear(p, o) - dest + 1]
      BY <3>2 DEF Left
    <3>4. src + Linear(p, o) - dest + 1 = src + n + Linear(p, o) - (dest + n) + 1
      BY <1>1, <3>1
    <3>. QED  BY <3>3, <3>4
  <2>. QED  BY <1>2, <2>1 DEF Left
<1>5. AdrInPage' = 0 \/ size' = 0
  <2>1. CASE n = size
    BY <1>1, <1>2, <2>1
  <2>2. CASE AdrInPage + n = PageSize
    BY <1>1, <1>2, <2>2, Border DEF AdrInPage
  <2>. QED  BY <2>1, <2>2
<1>6. dest' + size' <= Capacity
  BY <1>1, <1>2, OnDevice
<1>7. Bounds'
  BY <1>3, <1>5, <1>6 DEF Bounds
<1>8. Stage'
  BY <1>4 DEF Stage, Ready
<1>. QED  BY <1>7, <1>8
\* What the steps from place to place leave alone.
LEMMA SamePlace ==
  ASSUME Bounds, pc \in WritePlaces, UNCHANGED <<mem, src, dest, size, target>>
  PROVE  Outside' /\ Here' = Here /\ Length' = Length /\ AdrInPage' = AdrInPage
BY DEF Bounds, Outside, Here, Length, AdrInPage

LEMMA PartTransferOK == FInv /\ PartTransfer => Bounds' /\ Stage'
<1>. SUFFICES ASSUME FInv, PartTransfer PROVE Bounds' /\ Stage'
  OBVIOUS
<1>1. /\ (pc = "head" \/ (pc = "loop" /\ 0 < size)) /\ pc' = "patch"
      /\ SendCommand("transfer", dest)
      /\ UNCHANGED <<mem, buf1, ram, src, dest, size, target>>
  BY DEF PartTransfer, Goto
<1>2. pc' = "patch" /\ pc \in WritePlaces
  BY <1>1 DEF PartTransfer, Goto, WritePlaces
<1>3. TypeOK /\ Bounds /\ Ready /\ Left(0) /\ dest + size <= Capacity
  BY <1>1, <1>2 DEF FInv, TInv, Stage, Bounds
<1>4. dest < Capacity
  <2>1. dest \in Nat /\ size \in Nat /\ Capacity \in Nat
    BY <1>3, DestPage, OnDevice DEF TypeOK
  <2>. QED  BY <1>1, <1>3, <2>1 DEF Bounds, WritePlaces
<1>5. Outside' /\ Here' = Here
  BY <1>1, <1>2, <1>3, SamePlace
<1>6. job' = [op |-> "transfer", page |-> Here]
  BY <1>1, <1>3, <1>4, CommandTyped, HereIs
<1>7. Left(0)'
  BY <1>1, <1>3 DEF Left
<1>8. ~Ready'
  BY <1>6 DEF Ready, NoJob
<1>9. Bounds'
  BY <1>1, <1>2, <1>3, <1>4, <1>5 DEF Bounds
<1>. QED  BY <1>2, <1>5, <1>6, <1>7, <1>8, <1>9 DEF Stage, Doing

LEMMA PartPatchOK == FInv /\ PartPatch => Bounds' /\ Stage'
<1>. SUFFICES ASSUME FInv, PartPatch PROVE Bounds' /\ Stage'
  OBVIOUS
<1>1. /\ pc = "patch" /\ pc' = "partpgm" /\ Ready /\ WriteBuffer(AdrInPage, Length)
      /\ UNCHANGED <<mem, job, src, dest, size, target>>
  BY DEF PartPatch, Goto, WaitReady
<1>2. /\ TInv /\ Bounds /\ pc \in WritePlaces /\ Left(0) /\ buf1 = mem[Here] /\ Outside
      /\ dest + size <= Capacity /\ dest < Capacity
  BY <1>1 DEF FInv, Stage, Bounds, WritePlaces
<1>3. Outside' /\ Here' = Here /\ Length' = Length
  BY <1>1, <1>2, SamePlace
<1>4. Length \in Nat /\ Length <= size
  BY <1>2, LengthType DEF TInv
<1>5. buf1' = target[Here]
  BY <1>1, <1>2, PatchFills
<1>6. \A p \in PageNo, o \in Offset :
        InRange(dest + Length, size - Length, Linear(p, o)) =>
          target'[p][o] = ram'[src + Linear(p, o) - dest + 1]
  BY <1>1, <1>2, <1>4, LeftFilled
<1>7. Left(Length)'
  BY <1>1, <1>3, <1>6 DEF Left
<1>8. Bounds'
  BY <1>1, <1>2, <1>3 DEF Bounds
<1>. QED  BY <1>1, <1>3, <1>5, <1>7, <1>8 DEF Stage, Ready

LEMMA PageFillOK == FInv /\ PageFill => Bounds' /\ Stage'
<1>. SUFFICES ASSUME FInv, PageFill PROVE Bounds' /\ Stage'
  OBVIOUS
<1>1. /\ pc = "loop" /\ pc' = "erase" /\ size >= PageSize /\ WriteBuffer(0, PageSize)
      /\ UNCHANGED <<mem, job, src, dest, size, target>>
  BY DEF PageFill, Goto
<1>2. /\ TInv /\ Bounds /\ pc \in WritePlaces /\ Left(0) /\ Ready
      /\ dest + size <= Capacity /\ (AdrInPage = 0 \/ size = 0)
  BY <1>1 DEF FInv, Stage, Bounds, WritePlaces
<1>3. dest < Capacity /\ AdrInPage = 0 /\ size \in Nat /\ PageSize \in Nat
  <2>1. dest \in Nat /\ size \in Nat /\ Capacity \in Nat
    BY <1>2, DestPage, OnDevice DEF TInv, TypeOK
  <2>. QED  BY <1>1, <1>2, <2>1, Constants
<1>4. Outside' /\ Here' = Here /\ AdrInPage' = AdrInPage
  BY <1>1, <1>2, SamePlace
<1>5. buf1' = target[Here]
  BY <1>1, <1>2, <1>3, PageFills
<1>6. \A p \in PageNo, o \in Offset :
        InRange(dest + PageSize, size - PageSize, Linear(p, o)) =>
          target'[p][o] = ram'[src + Linear(p, o) - dest + 1]
  BY <1>1, <1>2, <1>3, LeftFilled
<1>7. Left(PageSize)'
  BY <1>1, <1>6 DEF Left
<1>8. Bounds'
  BY <1>1, <1>2, <1>3, <1>4 DEF Bounds
<1>. QED  BY <1>1, <1>2, <1>4, <1>5, <1>7, <1>8 DEF Stage, Ready

LEMMA CommandsOK == FInv /\ (PartProgram \/ PageErase \/ PageProgram) => Bounds' /\ Stage'
<1>. SUFFICES ASSUME FInv, PartProgram \/ PageErase \/ PageProgram PROVE Bounds' /\ Stage'
  OBVIOUS
<1>1. /\ \/ pc = "partpgm" /\ pc' = "partend" /\ SendCommand("erasepgm", dest)
         \/ pc = "erase" /\ pc' = "pgm" /\ SendCommand("erase", dest)
         \/ pc = "pgm" /\ pc' = "pageend" /\ SendCommand("pgm", dest)
      /\ Ready /\ UNCHANGED <<mem, buf1, ram, src, dest, size, target>>
  BY DEF PartProgram, PageErase, PageProgram, Goto, WaitReady
<1>2. /\ TypeOK /\ Bounds /\ pc \in WritePlaces /\ dest < Capacity /\ dest + size <= Capacity
      /\ buf1 = target[Here] /\ (pc = "pgm" => mem[Here] = Blank(ERASED))
      /\ pc \in {"erase", "pgm"} => AdrInPage = 0
  BY <1>1 DEF FInv, TInv, Stage, Bounds, WritePlaces
<1>3. Outside' /\ Here' = Here /\ Length' = Length /\ AdrInPage' = AdrInPage
  BY <1>1, <1>2, SamePlace
<1>4. \A op \in Rewriting \cup {"transfer"} :
        SendCommand(op, dest) => job' = [op |-> op, page |-> Here]
  BY <1>1, <1>2, CommandTyped, HereIs
<1>5. \A op \in Rewriting \cup {"transfer"} : job' = [op |-> op, page |-> Here] => ~Ready'
  BY DEF Rewriting, Ready, NoJob
<1>6. /\ pc = "partpgm" => Left(Length)'
      /\ pc \in {"erase", "pgm"} => Left(PageSize)'
  <2>1. /\ pc = "partpgm" => Left(Length)
        /\ pc \in {"erase", "pgm"} => Left(PageSize)
    BY DEF FInv, Stage
  <2>2. \A n : Left(n) => \A p \in PageNo, o \in Offset :
                            InRange(dest' + n, size' - n, Linear(p, o)) =>
                              target'[p][o] = ram'[src' + Linear(p, o) - dest' + 1]
    BY <1>1 DEF Left
  <2>. QED  BY <1>3, <2>1, <2>2 DEF Left
<1>7. Bounds'
  BY <1>1, <1>2, <1>3 DEF Bounds
<1>8. CASE pc = "partpgm"
  <2>1. pc' = "partend" /\ job' = [op |-> "erasepgm", page |-> Here] /\ ~Ready'
    BY <1>1, <1>4, <1>5, <1>8 DEF Rewriting
  <2>. QED  BY <1>1, <1>2, <1>3, <1>6, <1>7, <1>8, <2>1 DEF Stage, Doing
<1>9. CASE pc = "erase"
  <2>1. pc' = "pgm" /\ job' = [op |-> "erase", page |-> Here] /\ ~Ready'
    BY <1>1, <1>4, <1>5, <1>9 DEF Rewriting
  <2>. QED  BY <1>1, <1>2, <1>3, <1>6, <1>7, <1>9, <2>1 DEF Stage, Doing
<1>10. CASE pc = "pgm"
  <2>1. pc' = "pageend" /\ job' = [op |-> "pgm", page |-> Here] /\ ~Ready'
    BY <1>1, <1>4, <1>5, <1>10 DEF Rewriting
  <2>. QED  BY <1>1, <1>2, <1>3, <1>6, <1>7, <1>10, <2>1 DEF Stage, Doing
<1>. QED  BY <1>1, <1>8, <1>9, <1>10

LEMMA EndsOK == FInv /\ (PartEnd \/ PageEnd) => Bounds' /\ Stage'
<1>1. ASSUME FInv, PartEnd PROVE Bounds' /\ Stage'
  <2>1. /\ pc = "partend" /\ pc' = "loop" /\ Ready /\ Advance(Length)
        /\ UNCHANGED <<mem, job, ram, target>>
    BY <1>1 DEF PartEnd, Goto, WaitReady, chipvars
  <2>2. TInv /\ Bounds /\ Left(Length) /\ mem[Here] = target[Here] /\ pc \in WritePlaces
    BY <1>1, <2>1 DEF FInv, Stage, WritePlaces
  <2>3. /\ Length \in Nat /\ Length <= size /\ AdrInPage + Length <= PageSize
        /\ Length = size \/ AdrInPage + Length = PageSize
    BY <2>2, LengthType DEF TInv
  <2>. QED  BY <2>1, <2>2, <2>3, AdvanceOK
<1>2. ASSUME FInv, PageEnd PROVE Bounds' /\ Stage'
  <2>1. /\ pc = "pageend" /\ pc' = "loop" /\ Ready /\ Advance(PageSize)
        /\ UNCHANGED <<mem, job, ram, target>>
    BY <1>2 DEF PageEnd, Goto, WaitReady, chipvars
  <2>2. TInv /\ Bounds /\ Left(PageSize) /\ mem[Here] = target[Here] /\ pc \in WritePlaces
    BY <1>2, <2>1 DEF FInv, Stage, WritePlaces
  <2>3. /\ PageSize \in Nat /\ PageSize <= size /\ AdrInPage = 0
    BY <2>1, <2>2, Constants DEF TInv, TypeOK, Counted, Bounds, WritePlaces
  <2>. QED  BY <2>1, <2>2, <2>3, AdvanceOK
<1>. QED  BY <1>1, <1>2

\* The chip ends what the driver waits for.
LEMMA JobDoneOK == FInv /\ JobDone /\ pc \in WritePlaces => Bounds' /\ Stage'
<1>. SUFFICES ASSUME FInv, JobDone, pc \in WritePlaces PROVE Bounds' /\ Stage'
  OBVIOUS
<1>1. /\ TInv /\ TypeOK /\ Bounds /\ Stage /\ Outside
  BY DEF FInv, TInv, Bounds
<1>2. /\ ~Ready /\ Ready' /\ UNCHANGED <<pc, ram, src, dest, size, target>>
  BY DEF JobDone, drvvars, Ready
<1>3. pc \in {"patch", "partend", "pgm", "pageend"} /\ dest < Capacity
  BY <1>1, <1>2 DEF Stage, Bounds, WritePlaces
<1>4. /\ Here \in PageNo /\ mem \in [PageNo -> [Offset -> Cell]] /\ buf1 \in [Offset -> Cell]
      /\ target \in [PageNo -> [Offset -> Cell]]
  BY <1>1, <1>3, HereIs DEF TypeOK
<1>5. Here' = Here /\ Length' = Length /\ AdrInPage' = AdrInPage
  BY <1>2 DEF Here, Length, AdrInPage
<1>6. \A n : Left(n) => \A p \in PageNo, o \in Offset :
                          InRange(dest' + n, size' - n, Linear(p, o)) =>
                            target'[p][o] = ram'[src' + Linear(p, o) - dest' + 1]
  BY <1>2 DEF Left
<1>7. ASSUME NEW c \in [Offset -> Cell], mem' = [mem EXCEPT ![Here] = c],
             \A o \in Offset : ~InRange(dest, size, Linear(Here, o)) => c[o] = target[Here][o]
      PROVE  Bounds' /\ mem'[Here] = c
  <2>1. mem'[Here] = c /\ \A p \in PageNo : p # Here => mem'[p] = mem[p]
    BY <1>4, <1>7
  <2>2. \A p \in PageNo, o \in Offset :
          ~InRange(dest, size, Linear(p, o)) => mem'[p][o] = target[p][o]
    BY <1>1, <1>4, <1>7, <2>1 DEF Outside
  <2>3. Outside'
    BY <1>2, <2>2 DEF Outside
  <2>. QED  BY <1>1, <1>2, <1>5, <2>1, <2>3 DEF Bounds
<1>8. CASE pc = "patch"
  <2>1. job = [op |-> "transfer", page |-> Here]
    BY <1>1, <1>2, <1>8 DEF Stage, Doing
  <2>2. mem' = mem /\ buf1' = mem[Here]
    BY <1>1, <2>1, JobCases
  <2>3. Outside'
    BY <1>1, <1>2, <2>2 DEF Outside
  <2>4. Left(0)'
    BY <1>1, <1>6, <1>8 DEF Stage, Left
  <2>5. Bounds'
    BY <1>1, <1>2, <1>5, <2>3 DEF Bounds
  <2>. QED  BY <1>2, <1>5, <1>8, <2>2, <2>4, <2>5 DEF Stage, Doing
<1>9. CASE pc = "partend"
  <2>1. job = [op |-> "erasepgm", page |-> Here] /\ buf1 = target[Here]
    BY <1>1, <1>2, <1>9 DEF Stage, Doing
  <2>2. mem' = [mem EXCEPT ![Here] = buf1] /\ buf1' = buf1
    BY <1>1, <2>1, JobCases
  <2>3. Bounds' /\ mem'[Here] = target[Here]
    BY <1>4, <1>7, <2>1, <2>2
  <2>4. Left(Length)'
    BY <1>1, <1>5, <1>6, <1>9 DEF Stage, Left
  <2>. QED  BY <1>2, <1>5, <1>9, <2>1, <2>2, <2>3, <2>4 DEF Stage, Doing
<1>10. CASE pc = "pgm"
  <2>1. job = [op |-> "erase", page |-> Here] /\ buf1 = target[Here]
    BY <1>1, <1>2, <1>10 DEF Stage, Doing
  <2>2. mem' = [mem EXCEPT ![Here] = Blank(ERASED)] /\ buf1' = buf1
    BY <1>1, <2>1, JobCases DEF Rewriting
  <2>3. Blank(ERASED) \in [Offset -> Cell]
    BY Constants DEF Blank
  <2>4. \A o \in Offset : InRange(dest, size, Linear(Here, o))
    <3>1. AdrInPage = 0 /\ size >= PageSize /\ size \in Nat /\ dest \in Nat
      BY <1>1, <1>10, DestPage DEF Bounds, TInv, Counted, TypeOK
    <3>2. \A o \in Offset : o \in Nat /\ o < PageSize /\ Linear(Here, o) = dest + o
      BY <1>1, <1>4, <3>1, PageAtHand
    <3>. QED  BY <3>1, <3>2, SizeAssumption DEF InRange
  <2>5. Bounds' /\ mem'[Here] = Blank(ERASED)
    BY <1>7, <2>2, <2>3, <2>4
  <2>6. Left(PageSize)'
    BY <1>1, <1>5, <1>6, <1>10 DEF Stage, Left
  <2>. QED  BY <1>2, <1>5, <1>10, <2>1, <2>2, <2>5, <2>6 DEF Stage, Doing
<1>11. CASE pc = "pageend"
  <2>1. job = [op |-> "pgm", page |-> Here] /\ buf1 = target[Here] /\ mem[Here] = Blank(ERASED)
    BY <1>1, <1>2, <1>11 DEF Stage, Doing
  <2>2. [o \in Offset |-> Programmed(mem[Here][o], buf1[o])] = buf1
    BY <1>4, <2>1 DEF Blank, Programmed
  <2>3. mem' = [mem EXCEPT ![Here] = buf1] /\ buf1' = buf1
    BY <1>1, <2>1, <2>2, JobCases DEF Rewriting
  <2>4. Bounds' /\ mem'[Here] = target[Here]
    BY <1>4, <1>7, <2>1, <2>3
  <2>5. Left(PageSize)'
    BY <1>1, <1>5, <1>6, <1>11 DEF Stage, Left
  <2>. QED  BY <1>2, <1>5, <1>11, <2>1, <2>3, <2>4, <2>5 DEF Stage, Doing
<1>. QED  BY <1>3, <1>8, <1>9, <1>10, <1>11
\* Without wrapping, the test of the size is true.
LEMMA FitsInSign == \A n \in Nat : n < Word \div 2 => Signed(n) = n /\ n < Word /\ n % Word = n
<1>1. \A w \in Nat \ {0}, n \in Nat : n < w \div 2 => n < w /\ n % w = n
  <2>. SUFFICES ASSUME NEW w \in Nat \ {0}, NEW n \in Nat, n < w \div 2 PROVE n < w /\ n % w = n
    OBVIOUS
  <2>1. w \div 2 <= w
    OBVIOUS
  <2>2. n < w
    BY <2>1
  <2>3. n % w = n
    BY <2>2
  <2>. QED  BY <2>2, <2>3
<1>. QED  BY <1>1, Constants DEF Signed

LEMMA WriteCallOK ==
  ASSUME FInv, InReach, WriteCall
  PROVE  Bounds' /\ Stage' /\ Results'
<1>1. pc = "idle" /\ Ready /\ call' = "write" /\ UNCHANGED <<mem, buf1, job>>
  BY WriteCallCases DEF chipvars
<1>2. PICK n \in Nat, d \in Dests : \E image \in [1 .. n -> Byte] :
        Called(n, image, d) /\ (InReach => d + n < Word \div 2)
  BY WriteCallCases
<1>3. PICK image \in [1 .. n -> Byte] : Called(n, image, d) /\ d + n < Word \div 2
  BY <1>2
<1>4. CASE status' = "OVERFLOW" /\ UNCHANGED <<pc, ram, src, dest, size, target>>
  BY <1>1, <1>4 DEF Bounds, Stage, Results, WriteOK, Quiet, Shows, Reads, WritePlaces
<1>5. CASE /\ ~TooLarge(d, n)
           /\ pc' = IF d % PageSize # 0 THEN "head" ELSE "loop"
           /\ ram' = image /\ src' = 0 /\ dest' = d /\ size' = n /\ status' = "none"
           /\ target' = [p \in PageNo |-> [o \in Offset |->
                           IF InRange(d, n, Linear(p, o)) THEN image[Linear(p, o) - d + 1]
                                                          ELSE mem[p][o]]]
  <2>1. d \in Nat /\ d + n \in Nat
    BY Constants
  <2>2. d + n <= Capacity /\ Capacity \in Nat
    <3>1. Signed(d + n) = d + n
      BY <1>3, <2>1, FitsInSign
    <3>. QED  BY <1>5, <2>1, <3>1, OnDevice DEF TooLarge
  <2>3. Outside'
    BY <1>1, <1>5 DEF Outside
  <2>4. Left(0)'
    <3>1. ASSUME NEW p \in PageNo, NEW o \in Offset, InRange(d + 0, n - 0, Linear(p, o))
          PROVE  target'[p][o] = image[0 + Linear(p, o) - d + 1]
      <4>1. Linear(p, o) \in Nat
        BY PageLinear
      <4>2. InRange(d, n, Linear(p, o))
        BY <2>1, <3>1, <4>1 DEF InRange
      <4>3. 0 + Linear(p, o) - d + 1 = Linear(p, o) - d + 1
        BY <2>1, <4>1
      <4>. QED  BY <1>5, <4>2, <4>3
    <3>. QED  BY <1>5, <3>1 DEF Left
  <2>5. AdrInPage' = d % PageSize
    BY <1>5 DEF AdrInPage
  <2>6. d % PageSize # 0 => d < Capacity
    <3>1. d = Capacity => d % PageSize = 0
      BY OnDevice
    <3>. QED  BY <2>1, <2>2, <3>1
  <2>7. pc' \in {"head", "loop"} /\ (pc' = "head" => d % PageSize # 0)
        /\ (pc' = "loop" => d % PageSize = 0)
    BY <1>5
  <2>8. Bounds'
    BY <1>5, <2>2, <2>3, <2>5, <2>6, <2>7 DEF Bounds
  <2>9. Stage'
    BY <1>1, <2>4, <2>7 DEF Stage, Ready
  <2>. QED  BY <2>7, <2>8, <2>9 DEF Results, WriteOK, Quiet, Shows, Reads
<1>. QED  BY <1>3, <1>4, <1>5, Zenon DEF Called

LEMMA WriteReturnOK ==
  ASSUME FInv, WriteReturn
  PROVE  Bounds' /\ Stage' /\ Results' /\ mem = target
<1>1. pc = "loop" /\ size = 0 /\ pc' = "idle" /\ UNCHANGED <<mem, target, call>>
  BY DEF WriteReturn, chipvars
<1>2. Outside
  BY <1>1 DEF FInv, Bounds, WritePlaces
<1>3. mem \in [PageNo -> [Offset -> Cell]] /\ target \in [PageNo -> [Offset -> Cell]] /\ dest \in Nat
  BY DestPage DEF FInv, TInv, TypeOK
<1>4. \A p \in PageNo, o \in Offset : mem[p][o] = target[p][o]
  <2>1. \A a \in Nat : ~InRange(dest, size, a)
    BY <1>1, <1>3 DEF InRange
  <2>. QED  BY <1>2, <2>1, PageLinear DEF Outside
<1>5. \A p \in PageNo : mem[p] = target[p]
  <2>1. \A p \in PageNo : mem[p] \in [Offset -> Cell] /\ target[p] \in [Offset -> Cell]
    BY <1>3
  <2>. QED  BY <1>4, <2>1
<1>6. mem = target
  BY <1>3, <1>5
<1>7. call # "read"
  BY <1>1 DEF FInv, Calls, WritePlaces
<1>8. Ready'
  BY <1>1 DEF FInv, Stage, Ready, WriteReturn, chipvars
<1>. QED  BY <1>1, <1>6, <1>7, <1>8 DEF Bounds, Stage, Results, WriteOK, Quiet, Shows, Reads, WritePlaces
LEMMA CallsKept == Calls /\ [Next]_vars => Calls'
<1>. SUFFICES ASSUME Calls, [Next]_vars PROVE Calls'
  OBVIOUS
<1>1. CASE Write
  BY <1>1 DEF Calls, WritePlaces, Write, Goto, PartTransfer, PartPatch, PartProgram, PartEnd,
              PageFill, PageErase, PageProgram, PageEnd, WriteReturn
<1>2. CASE ReadCall \/ Read
  BY <1>2 DEF Calls, WritePlaces, Read, Goto, ReadCall, ReadChunk, ReadReturn
<1>3. CASE WriteCall
  <2>1. pc' \in {"idle", "head", "loop"} /\ call' = "write"
    BY <1>3, WriteCallCases, Zenon DEF Called
  <2>. QED  BY <2>1 DEF Calls, WritePlaces
<1>4. CASE JobDone \/ UNCHANGED vars
  BY <1>4 DEF Calls, JobDone, vars, drvvars
<1>5. CASE Failure
  BY <1>5 DEF Calls, WritePlaces, Failure, PowerFail, Reset, Restart
<1>. QED  BY <1>1, <1>2, <1>3, <1>4, <1>5 DEF Next

-----------------------------------------------------------------------------
(* Reads.                                                                  *)

\* Outside of a write nothing is said of its progress.
LEMMA NoWrite == pc \notin WritePlaces => Bounds /\ Stage
BY DEF Bounds, Stage, WritePlaces

LEMMA ReadCallOK ==
  ASSUME FInv, InReach, ReadCall
  PROVE  Bounds' /\ Stage' /\ Results'
<1>1. PICK d \in Dests, n \in Sizes : src' = 0 /\ dest' = d /\ size' = n
  BY Zenon DEF ReadCall
<1>2. pc' = "read" /\ status' = "none"
  BY DEF ReadCall
<1>3. d \in Nat
  BY Constants
<1>4. d + n < Word \div 2
  BY Zenon DEF InReach
<1>5. Shows'
  BY <1>1, <1>3 DEF Shows
<1>. QED  BY <1>1, <1>2, <1>4, <1>5 DEF Bounds, Stage, Results, WriteOK, Quiet, Reads, WritePlaces

\* Every byte of a chunk is one of the device.
LEMMA ChunkShows ==
  ASSUME TInv, Ready, dest + SizeToRead <= Capacity, SizeToRead \in Nat,
         NEW i \in Nat, InRange(src + 1, SizeToRead, i)
  PROVE  \E p \in PageNo, o \in Offset :
           Linear(p, o) = dest - src + i - 1 /\ Shown(dest + i - src - 1) = mem[p][o]
<1>. DEFINE a == dest + i - src - 1
<1>1. a \in Nat /\ a < Capacity /\ a = dest - src + i - 1
  BY DestPage, OnDevice DEF TInv, TypeOK, InRange
<1>2. /\ a % PageSize \in Offset /\ a \div PageSize \in PageNo /\ a \div PageSize \in Nat
      /\ a = Linear(a \div PageSize, a % PageSize) /\ a \div PageSize < Pages
  BY <1>1, PageByte, OnDevice
<1>3. (a \div PageSize) % Pages = a \div PageSize
  <2>1. \A m \in Nat, n \in Nat \ {0} : m < n => m % n = m
    OBVIOUS
  <2>. QED  BY <1>2, <2>1, SizeAssumption
<1>4. Shown(a) = mem[a \div PageSize][a % PageSize]
  BY <1>3 DEF Shown
<1>. HIDE DEF a
<1>5. \E p \in PageNo, o \in Offset : Linear(p, o) = a /\ Shown(a) = mem[p][o]
  BY <1>2, <1>4
<1>. QED  BY <1>1, <1>5 DEF a

LEMMA ReadChunkOK ==
  ASSUME FInv, ReadChunk
  PROVE  Bounds' /\ Stage' /\ Results'
<1>1. /\ pc = "read" /\ pc' = "read" /\ Ready /\ size > 0 /\ ~TooLarge(dest, SizeToRead)
      /\ ram' = [i \in DOMAIN ram |->
                   IF InRange(src + 1, SizeToRead, i) THEN Shown(dest + i - src - 1) ELSE ram[i]]
      /\ Advance(SizeToRead) /\ UNCHANGED <<mem, job>>
  BY DEF ReadChunk, Goto, WaitReady, chipvars
<1>2. /\ TInv /\ ram \in [1 .. src + size -> Cell] /\ src \in Nat /\ size \in Nat /\ dest \in Nat
      /\ Shows /\ src <= dest /\ dest + size < Word \div 2
  BY <1>1, DestPage DEF FInv, TInv, TypeOK, Counted, Results, Reads, Shows
<1>3. SizeToRead \in Nat /\ SizeToRead <= size
  BY <1>2, ChunkType
<1>4. /\ dest + SizeToRead \in Nat /\ dest + SizeToRead <= Capacity
      /\ (dest + SizeToRead) % Word = dest + SizeToRead
  <2>1. Word \div 2 \in Nat
    BY Constants
  <2>2. dest + SizeToRead \in Nat /\ dest + SizeToRead < Word \div 2
    BY <1>2, <1>3, <2>1
  <2>3. Signed(dest + SizeToRead) = dest + SizeToRead /\ (dest + SizeToRead) % Word = dest + SizeToRead
    BY <2>2, FitsInSign
  <2>. QED  BY <1>1, <2>2, <2>3, OnDevice DEF TooLarge
<1>5. src' = src + SizeToRead /\ dest' = dest + SizeToRead /\ size' = size - SizeToRead
  BY <1>1, <1>4 DEF Advance
<1>6. ASSUME NEW i \in 1 .. src + SizeToRead
      PROVE  \E p \in PageNo, o \in Offset :
               Linear(p, o) = dest - src + i - 1 /\ ram'[i] = mem[p][o]
  <2>1. i \in Nat /\ i \in 1 .. src + size
    BY <1>2, <1>3
  <2>2. CASE i \in 1 .. src
    <3>1. ~InRange(src + 1, SizeToRead, i)
      BY <1>2, <2>1, <2>2 DEF InRange
    <3>2. ram'[i] = ram[i]
      BY <1>1, <1>2, <2>1, <3>1
    <3>. QED  BY <1>1, <1>2, <2>2, <3>2 DEF Shows
  <2>3. CASE i \notin 1 .. src
    <3>1. InRange(src + 1, SizeToRead, i)
      BY <1>2, <1>3, <2>1, <2>3 DEF InRange
    <3>2. ram'[i] = Shown(dest + i - src - 1)
      BY <1>1, <1>2, <2>1, <3>1
    <3>. QED  BY <1>1, <1>2, <1>3, <1>4, <2>1, <3>1, <3>2, ChunkShows
  <2>. QED  BY <2>2, <2>3
<1>7. ASSUME NEW i \in 1 .. src + SizeToRead
      PROVE  \E p \in PageNo, o \in Offset :
               Linear(p, o) = dest' - src' + i - 1 /\ ram'[i] = mem'[p][o]
  <2>1. dest' - src' = dest - src
    BY <1>2, <1>3, <1>5
  <2>. QED  BY <1>1, <1>6, <2>1
<1>8. Shows'
  BY <1>1, <1>2, <1>3, <1>5, <1>7 DEF Shows, Ready
<1>9. dest' + size' < Word \div 2
  BY <1>2, <1>3, <1>5
<1>. QED  BY <1>1, <1>8, <1>9 DEF Bounds, Stage, Results, WriteOK, Quiet, Reads, WritePlaces

LEMMA ReadReturnOK ==
  ASSUME FInv, ReadReturn
  PROVE  Bounds' /\ Stage' /\ Results'
<1>1. /\ pc = "read" /\ pc' = "idle" /\ UNCHANGED <<mem, job, ram, src, dest, size, call>>
      /\ size = 0 \/ status' = "ERROR"
  BY DEF ReadReturn, chipvars
<1>2. /\ ram \in [1 .. src + size -> Cell] /\ src \in Nat /\ Shows /\ call = "read"
  BY <1>1 DEF FInv, TInv, TypeOK, Counted, Calls, Results
<1>3. size = 0 => ram \in [1 .. src -> Cell]
  BY <1>2
<1>4. Shows'
  BY <1>1, <1>2 DEF Shows, Ready
<1>. QED  BY <1>1, <1>2, <1>3, <1>4 DEF Bounds, Stage, Results, WriteOK, Quiet, Reads, WritePlaces

\* Outside of a write the end of a command disturbs no result.
LEMMA JobElsewhere ==
  ASSUME FInv, JobDone, pc \notin WritePlaces
  PROVE  Bounds' /\ Stage' /\ Results'
<1>1. ~Ready /\ Ready' /\ UNCHANGED <<pc, ram, src, dest, size, status, call, target>>
  BY DEF JobDone, drvvars, Ready
<1>2. ~(pc = "idle" /\ call = "write" /\ status = "OK")
  BY <1>1 DEF FInv, Results, Quiet
<1>3. Shows'
  <2>1. pc = "read" \/ (pc = "idle" /\ call = "read" /\ status = "OK") =>
          src = 0 /\ src <= dest
    BY <1>1 DEF FInv, TInv, TypeOK, Results, Shows
  <2>. QED  BY <1>1, <2>1 DEF Shows
<1>. QED  BY <1>1, <1>2, <1>3 DEF FInv, Bounds, Stage, Results, WriteOK, Quiet, Reads, WritePlaces

LEMMA FailureOK ==
  ASSUME Failure
  PROVE  Bounds' /\ Stage' /\ Results'
BY DEF Failure, PowerFail, Reset, Restart, Bounds, Stage, Results, WriteOK, Quiet, Shows, Reads, WritePlaces

-----------------------------------------------------------------------------
LEMMA InitOK == Init => FInv
<1>. SUFFICES ASSUME Init PROVE FInv
  OBVIOUS
<1>1. TInv
  BY InitTyped
<1>2. pc = "idle" /\ call = "none"
  BY DEF Init
<1>. QED  BY <1>1, <1>2 DEF FInv, Calls, Bounds, Stage, Results, WriteOK, Quiet, Shows, Reads, WritePlaces

LEMMA NextOK == ASSUME InReach PROVE FInv /\ [Next]_vars => FInv'
<1>. SUFFICES ASSUME FInv, [Next]_vars PROVE FInv'
  OBVIOUS
<1>1. TInv' /\ Calls'
  BY NextTyped, CallsKept DEF FInv
<1>2. ASSUME UNCHANGED vars PROVE FInv'
  <2>1. UNCHANGED <<mem, buf1, job, pc, ram, src, dest, size, status, call, target>>
    BY <1>2 DEF vars, chipvars, drvvars
  <2>2. Bounds' /\ Results'
    BY <2>1 DEF FInv, Bounds, Results, WriteOK, Quiet, Shows, Reads, Outside, AdrInPage, Ready
  <2>3. Stage'
    BY <2>1 DEF FInv, Stage, Doing, Left, Ready, Here, Length, AdrInPage
  <2>. QED  BY <1>1, <2>2, <2>3 DEF FInv
<1>3. CASE Write /\ ~WriteReturn
  <2>1. Bounds' /\ Stage'
    BY <1>3, PartTransferOK, PartPatchOK, PageFillOK, CommandsOK, EndsOK DEF Write
  <2>2. pc' \in WritePlaces
    BY <1>3 DEF Write, WritePlaces, Goto, PartTransfer, PartPatch, PartProgram, PartEnd,
                PageFill, PageErase, PageProgram, PageEnd
  <2>3. Results'
    BY <2>2 DEF WritePlaces, Results, WriteOK, Quiet, Shows, Reads
  <2>. QED  BY <1>1, <2>1, <2>3 DEF FInv
<1>4. CASE WriteCall \/ WriteReturn \/ ReadCall \/ Read
  <2>1. Bounds' /\ Stage' /\ Results'
    BY <1>4, WriteCallOK, WriteReturnOK, ReadCallOK, ReadChunkOK, ReadReturnOK DEF Read
  <2>. QED  BY <1>1, <2>1 DEF FInv
<1>5. CASE JobDone
  <2>1. CASE pc \in WritePlaces
    <3>1. Bounds' /\ Stage'
      BY <1>5, <2>1, JobDoneOK
    <3>2. pc' \in WritePlaces
      BY <1>5, <2>1 DEF JobDone, drvvars
    <3>3. Results'
      BY <3>2 DEF WritePlaces, Results, WriteOK, Quiet, Shows, Reads
    <3>. QED  BY <1>1, <3>1, <3>3 DEF FInv
  <2>2. CASE pc \notin WritePlaces
    BY <1>1, <1>5, <2>2, JobElsewhere DEF FInv
  <2>. QED  BY <2>1, <2>2
<1>6. CASE Failure
  BY <1>1, <1>6, FailureOK DEF FInv
<1>7. Write => (Write /\ ~WriteReturn) \/ WriteReturn
  OBVIOUS
<1>. QED  BY <1>2, <1>3, <1>4, <1>5, <1>6, <1>7 DEF Next

LEMMA Invariant == ASSUME InReach PROVE Spec => []FInv
BY InitOK, NextOK, PTL DEF Spec

\* For images that end below the middle of the address space (a larger address
\* passes the test of at45.cpp:286 as a negative number): when write_dataflash
\* returns OK the device holds the image where it was asked for and all else as
\* it was, for every size of the pages and the device, and whenever calls before
\* were cut short.
THEOREM WritesRight == ASSUME InReach PROVE Spec => []WriteOK
<1>1. FInv => WriteOK
  BY DEF FInv, Results
<1>. QED  BY <1>1, Invariant, PTL

\* Under the same condition: when read_dataflash returns OK the buffer holds the
\* content of the device.
THEOREM ReadsRight == ASSUME InReach PROVE Spec => []ReadOK
<1>1. FInv => ReadOK
  <2>. SUFFICES ASSUME FInv, pc = "idle" /\ call = "read" /\ status = "OK" PROVE
                \A i \in DOMAIN ram : \E p \in PageNo, o \in Offset :
                  Linear(p, o) = dest - src + i - 1 /\ ram[i] = mem[p][o]
    BY DEF ReadOK
  <2>1. ram \in [1 .. src -> Cell] /\ Shows
    BY DEF FInv, Results, Reads
  <2>. QED  BY <2>1 DEF Shows
<1>. QED  BY <1>1, Invariant, PTL
-----------------------------------------------------------------------------
(* The driver and the chip implement FlashStore.                           *)

\* What the variables of FlashStore stand for.
StoreCell == [p \in PageNo |-> IF p \in OpenPage THEN UNKNOWN ELSE mem[p]]
StoreTodo == IF pc \in WritePlaces THEN Touched \ Finished ELSE {}
StoreBusy == pc \in WritePlaces

LEMMA StoreStutters ==
  ASSUME UNCHANGED <<StoreCell, OpenPage, target, StoreTodo, StoreBusy>>
  PROVE  [Store!SNext]_(Store!svars)
BY DEF Store!svars, StoreCell, StoreTodo, StoreBusy

LEMMA StoreBegins ==
  ASSUME ~StoreBusy, StoreBusy', OpenPage = {}, StoreTodo' \in SUBSET PageNo,
         target' \in [PageNo -> [Offset -> Cell]],
         \A p \in PageNo \ StoreTodo' : target'[p] = StoreCell[p],
         UNCHANGED <<StoreCell, OpenPage>>
  PROVE  [Store!SNext]_(Store!svars)
<1>1. Store!Begin
  BY DEF Store!Begin, StoreCell, StoreTodo, StoreBusy
<1>. QED  BY <1>1 DEF Store!SNext

LEMMA StoreOpens ==
  ASSUME StoreBusy, StoreBusy', OpenPage = {}, NEW p \in PageNo, p \in StoreTodo, OpenPage' = {p},
         StoreCell' = [StoreCell EXCEPT ![p] = UNKNOWN], UNCHANGED <<target, StoreTodo>>
  PROVE  [Store!SNext]_(Store!svars)
<1>1. Store!OpenUp(p)
  BY DEF Store!OpenUp, StoreCell, StoreTodo, StoreBusy
<1>. QED  BY <1>1 DEF Store!SNext

LEMMA StoreCloses ==
  ASSUME StoreBusy, StoreBusy', NEW p \in PageNo, OpenPage = {p}, p \in StoreTodo, OpenPage' = {},
         StoreCell' = [StoreCell EXCEPT ![p] = target[p]], StoreTodo' = StoreTodo \ {p},
         UNCHANGED target
  PROVE  [Store!SNext]_(Store!svars)
<1>1. Store!Close(p)
  BY DEF Store!Close, StoreCell, StoreTodo, StoreBusy
<1>. QED  BY <1>1 DEF Store!SNext

LEMMA StoreEnds ==
  ASSUME StoreBusy, ~StoreBusy', StoreTodo = {}, OpenPage = {},
         UNCHANGED <<StoreCell, OpenPage, target, StoreTodo>>
  PROVE  [Store!SNext]_(Store!svars)
<1>1. Store!End
  BY DEF Store!End, StoreCell, StoreTodo, StoreBusy
<1>. QED  BY <1>1 DEF Store!SNext

LEMMA StoreSettles ==
  ASSUME ~StoreBusy', StoreTodo' = {}, OpenPage' = {}, UNCHANGED target,
         ~StoreBusy => StoreTodo = {},
         \A p \in PageNo : IF p \in OpenPage THEN StoreCell'[p] \in [Offset -> Cell]
                                             ELSE StoreCell'[p] = StoreCell[p]
  PROVE  [Store!SNext]_(Store!svars)
<1>1. DOMAIN StoreCell' = PageNo
  BY DEF StoreCell
<1>2. Store!Settled
  BY <1>1 DEF Store!Settled, StoreCell
<1>3. CASE StoreBusy
  <2>1. Store!Fail
    BY <1>2, <1>3 DEF Store!Fail, StoreCell, StoreTodo, StoreBusy
  <2>. QED  BY <2>1 DEF Store!SNext
<1>4. CASE ~StoreBusy
  <2>1. Store!Settle
    BY <1>2, <1>4 DEF Store!Settle, StoreCell, StoreTodo, StoreBusy
  <2>. QED  BY <2>1 DEF Store!SNext
<1>. QED  BY <1>3, <1>4

\* A write is given up while the chip goes on.
LEMMA StoreFails ==
  ASSUME StoreBusy, ~StoreBusy', StoreTodo' = {}, UNCHANGED <<StoreCell, OpenPage, target>>
  PROVE  [Store!SNext]_(Store!svars)
<1>1. Store!Fail
  BY DEF Store!Fail, StoreCell, StoreTodo, StoreBusy
<1>. QED  BY <1>1 DEF Store!SNext

\* The page at hand is one of those still to be written.
LEMMA HereTouched ==
  ASSUME TInv, dest < Capacity, pc # "loop" \/ size > 0
  PROVE  Here \in PageNo /\ Here \in Touched
<1>1. Here \in PageNo
  BY HereIs DEF TInv
<1>2. CASE pc # "loop"
  BY <1>1, <1>2 DEF Touched, Here
<1>3. CASE size > 0
  <2>1. AdrInPage \in Offset /\ dest = Linear(Here, AdrInPage) /\ dest \in Nat /\ size \in Nat
    BY DestPage DEF TInv, TypeOK
  <2>2. InRange(dest, size, Linear(Here, AdrInPage))
    BY <1>3, <2>1 DEF InRange
  <2>. QED  BY <1>1, <2>1, <2>2 DEF Touched
<1>. QED  BY <1>1, <1>2, <1>3

\* While dest and size stay, so do the pages.
LEMMA TouchedStays ==
  ASSUME TInv, pc \in WritePlaces, pc' \in WritePlaces, pc' # "loop", dest < Capacity,
         pc # "loop" \/ size > 0, UNCHANGED <<dest, size>>
  PROVE  Touched' = Touched
<1>1. Here \in Touched
  BY HereTouched
<1>2. Touched' = {p \in PageNo : (\E o \in Offset : InRange(dest, size, Linear(p, o))) \/ p = Here}
  BY DEF Touched, Here
<1>3. \A p \in PageNo : p = Here => p \in Touched
  BY <1>1
<1>. QED  BY <1>2, <1>3 DEF Touched, Here

\* With what is done, dest leaves the page at hand.
LEMMA TouchedMoves ==
  ASSUME TInv, Bounds, pc \in {"partend", "pageend"}, pc' = "loop", dest < Capacity,
         NEW n \in Nat, n <= size, AdrInPage + n <= PageSize, n = size \/ AdrInPage + n = PageSize,
         Advance(n)
  PROVE  Touched' = Touched \ {Here}
<1>1. /\ dest' = dest + n /\ size' = size - n /\ dest \in Nat /\ size \in Nat /\ AdrInPage \in Nat
  BY Advances, DestPage DEF TInv, TypeOK, WritePlaces
<1>2. ASSUME NEW p \in PageNo, NEW o \in Offset
      PROVE  InRange(dest + n, size - n, Linear(p, o)) <=> InRange(dest, size, Linear(p, o)) /\ p # Here
  <2>1. /\ o \in Nat /\ o < PageSize /\ Linear(p, o) \in Nat
        /\ p = Here => Linear(p, o) = dest + o - AdrInPage
        /\ p # Here => \/ Linear(p, o) < dest - AdrInPage
                       \/ Linear(p, o) >= dest - AdrInPage + PageSize
    BY PageAtHand DEF TInv
  <2>2. CASE p = Here
    BY <1>1, <2>1, <2>2, SizeAssumption DEF InRange
  <2>3. CASE p # Here
    BY <1>1, <2>1, <2>3, SizeAssumption DEF InRange
  <2>. QED  BY <2>2, <2>3
<1>3. Touched' = {p \in PageNo : \E o \in Offset : InRange(dest + n, size - n, Linear(p, o))}
  BY <1>1 DEF Touched
<1>4. Touched = {p \in PageNo : (\E o \in Offset : InRange(dest, size, Linear(p, o))) \/ p = Here}
  BY DEF Touched, Here
<1>. QED  BY <1>2, <1>3, <1>4
\* Where no page is being rewritten, the store is the memory.
LEMMA NoneOpen ==
  ASSUME TypeOK, job.op \notin Rewriting, pc # "pgm"
  PROVE  OpenPage = {} /\ StoreCell = mem
<1>1. OpenPage = {}
  BY DEF OpenPage
<1>. QED  BY <1>1 DEF StoreCell, TypeOK

LEMMA ReadyNone == Ready => job.op \notin Rewriting
BY DEF Ready, NoJob, Rewriting

\* Steps of a write that open and close no page.
LEMMA WorkStutters ==
  ASSUME FInv, FInv', PartTransfer \/ PartPatch \/ PageFill
  PROVE  [Store!SNext]_(Store!svars)
<1>1. /\ pc \in {"head", "loop", "patch"} /\ pc' \in {"patch", "partpgm", "erase"} /\ Ready
      /\ pc = "loop" => size > 0
      /\ UNCHANGED <<mem, dest, size, target>>
      /\ job' = job \/ SendCommand("transfer", dest)
  <2>1. pc \in {"head", "loop"} => Ready
    BY DEF FInv, Stage
  <2>2. size >= PageSize => size > 0
    BY Constants DEF FInv, TInv, TypeOK
  <2>3. CASE PartTransfer
    BY <2>1, <2>3 DEF PartTransfer, Goto
  <2>4. CASE PartPatch
    BY <2>4 DEF PartPatch, Goto, WaitReady
  <2>5. CASE PageFill
    BY <2>1, <2>2, <2>5 DEF PageFill, Goto
  <2>. QED  BY <2>3, <2>4, <2>5
<1>2. TInv /\ TypeOK /\ TypeOK' /\ Bounds'
  BY DEF FInv, TInv
<1>3. dest < Capacity
  BY <1>1, <1>2 DEF Bounds, WritePlaces
<1>4. job'.op \notin Rewriting
  <2>1. job' = job \/ job' = [op |-> "transfer", page |-> Here % Pages]
    BY <1>1, <1>2, CommandTyped
  <2>. QED  BY <1>1, <2>1, ReadyNone DEF Rewriting
<1>5. OpenPage = {} /\ StoreCell = mem
  BY <1>1, <1>2, NoneOpen, ReadyNone
<1>6. OpenPage' = {} /\ StoreCell' = mem'
  <2>1. OpenPage' = {}
    BY <1>1, <1>4 DEF OpenPage
  <2>. QED  BY <1>2, <2>1 DEF StoreCell, TypeOK
<1>7. Touched' = Touched
  BY <1>1, <1>2, <1>3, TouchedStays DEF WritePlaces
<1>8. StoreBusy /\ StoreBusy' /\ StoreTodo' = StoreTodo
  BY <1>1, <1>7 DEF StoreBusy, StoreTodo, Finished, WritePlaces
<1>. QED  BY <1>1, <1>5, <1>6, <1>8, StoreStutters

\* The chip begins to rewrite the page at hand.
LEMMA RewriteOpens ==
  ASSUME FInv, FInv', PartProgram \/ PageErase
  PROVE  [Store!SNext]_(Store!svars)
<1>1. /\ pc \in {"partpgm", "erase"} /\ pc' \in {"partend", "pgm"} /\ Ready
      /\ UNCHANGED <<mem, dest, size, target>>
      /\ \E op \in Rewriting : SendCommand(op, dest)
  BY DEF PartProgram, PageErase, Goto, WaitReady, Rewriting
<1>2. TInv /\ TypeOK /\ TypeOK' /\ dest < Capacity
  BY <1>1 DEF FInv, TInv, Bounds, WritePlaces
<1>3. Here \in PageNo /\ Here \in Touched
  BY <1>1, <1>2, HereTouched
<1>4. job'.op \in Rewriting /\ job'.page = Here /\ ~Ready'
  <2>1. PICK op \in Rewriting : SendCommand(op, dest)
    BY <1>1
  <2>2. job' = [op |-> op, page |-> Here % Pages]
    <3>1. op \in Rewriting \cup {"transfer"}
      OBVIOUS
    <3>. QED  BY <1>1, <1>2, <2>1, <3>1, CommandTyped
  <2>3. Here % Pages = Here
    BY <1>2, HereIs
  <2>. QED  BY <2>2, <2>3 DEF Ready, NoJob, Rewriting
<1>5. OpenPage = {} /\ StoreCell = mem
  BY <1>1, <1>2, NoneOpen, ReadyNone
<1>6. OpenPage' = {Here}
  BY <1>4 DEF OpenPage
<1>7. StoreCell' = [StoreCell EXCEPT ![Here] = UNKNOWN]
  BY <1>1, <1>2, <1>3, <1>5, <1>6 DEF StoreCell, TypeOK
<1>8. Touched' = Touched
  BY <1>1, <1>2, TouchedStays DEF WritePlaces
<1>9. StoreBusy /\ StoreBusy' /\ StoreTodo' = StoreTodo /\ Here \in StoreTodo
  BY <1>1, <1>3, <1>4, <1>8 DEF StoreBusy, StoreTodo, Finished, WritePlaces
<1>. QED  BY <1>1, <1>3, <1>5, <1>6, <1>7, <1>9, StoreOpens

\* An erased page is programmed next, and stays open.
LEMMA ProgramStutters ==
  ASSUME FInv, FInv', PageProgram
  PROVE  [Store!SNext]_(Store!svars)
<1>1. /\ pc = "pgm" /\ pc' = "pageend" /\ Ready /\ SendCommand("pgm", dest)
      /\ UNCHANGED <<mem, dest, size, target>>
  BY DEF PageProgram, Goto, WaitReady
<1>2. TInv /\ TypeOK /\ dest < Capacity
  BY <1>1 DEF FInv, TInv, Bounds, WritePlaces
<1>3. job' = [op |-> "pgm", page |-> Here]
  <2>1. job' = [op |-> "pgm", page |-> Here % Pages]
    <3>1. "pgm" \in Rewriting \cup {"transfer"}
      BY DEF Rewriting
    <3>. QED  BY <1>1, <1>2, <3>1, CommandTyped
  <2>2. Here % Pages = Here
    BY <1>2, HereIs
  <2>. QED  BY <2>1, <2>2
<1>4. OpenPage = {Here} /\ OpenPage' = {Here}
  BY <1>1, <1>3, ReadyNone DEF OpenPage, Here, Rewriting
<1>5. Touched' = Touched /\ ~Ready'
  BY <1>1, <1>2, <1>3, TouchedStays DEF WritePlaces, Ready, NoJob
<1>6. StoreBusy /\ StoreBusy' /\ StoreTodo' = StoreTodo
  BY <1>1, <1>5 DEF StoreBusy, StoreTodo, Finished, WritePlaces
<1>7. StoreCell' = StoreCell
  BY <1>1, <1>4 DEF StoreCell
<1>. QED  BY <1>1, <1>4, <1>6, <1>7, StoreStutters

\* The driver goes on to the next page, or ends.
LEMMA EndStutters ==
  ASSUME FInv, FInv', PartEnd \/ PageEnd
  PROVE  [Store!SNext]_(Store!svars)
<1>1. /\ pc \in {"partend", "pageend"} /\ pc' = "loop" /\ Ready
      /\ UNCHANGED <<mem, job, target>>
  BY DEF PartEnd, PageEnd, Goto, WaitReady, chipvars
<1>2. TInv /\ Bounds /\ TypeOK /\ TypeOK' /\ dest < Capacity
  BY <1>1 DEF FInv, TInv, Bounds, WritePlaces
<1>3. \E n \in Nat : /\ n <= size /\ AdrInPage + n <= PageSize /\ Advance(n)
                     /\ n = size \/ AdrInPage + n = PageSize
  <2>1. CASE PartEnd
    <3>1. Advance(Length)
      BY <2>1 DEF PartEnd
    <3>. QED  BY <1>2, <3>1, LengthType
  <2>2. CASE PageEnd
    <3>1. Advance(PageSize) /\ pc = "pageend"
      BY <2>2 DEF PageEnd, Goto
    <3>2. PageSize \in Nat /\ PageSize <= size /\ AdrInPage = 0
      BY <1>2, <3>1, Constants DEF TInv, TypeOK, Counted, Bounds, WritePlaces
    <3>. QED  BY <3>1, <3>2
  <2>. QED  BY <2>1, <2>2
<1>4. Touched' = Touched \ {Here}
  BY <1>1, <1>2, <1>3, TouchedMoves
<1>5. StoreBusy /\ StoreBusy' /\ StoreTodo' = StoreTodo
  BY <1>1, <1>4 DEF StoreBusy, StoreTodo, Finished, Here, WritePlaces
<1>6. OpenPage = {} /\ OpenPage' = {}
  BY <1>1, ReadyNone DEF OpenPage
<1>7. StoreCell' = StoreCell
  BY <1>1, <1>6 DEF StoreCell
<1>. QED  BY <1>1, <1>5, <1>6, <1>7, StoreStutters

LEMMA ReturnEnds ==
  ASSUME FInv, FInv', WriteReturn
  PROVE  [Store!SNext]_(Store!svars)
<1>1. pc = "loop" /\ size = 0 /\ pc' = "idle" /\ Ready /\ UNCHANGED <<mem, job, target>>
  BY DEF WriteReturn, FInv, Stage, chipvars
<1>2. OpenPage = {} /\ OpenPage' = {}
  BY <1>1, ReadyNone DEF OpenPage
<1>3. Touched = {}
  <2>1. dest \in Nat
    BY DestPage DEF FInv, TInv
  <2>2. \A a \in Nat : ~InRange(dest, size, a)
    BY <1>1, <2>1 DEF InRange
  <2>. QED  BY <1>1, <2>2, PageLinear DEF Touched
<1>4. StoreBusy /\ ~StoreBusy' /\ StoreTodo = {} /\ StoreTodo' = {} /\ StoreCell' = StoreCell
  BY <1>1, <1>2, <1>3 DEF StoreBusy, StoreTodo, StoreCell, WritePlaces
<1>. QED  BY <1>1, <1>2, <1>4, StoreEnds

LEMMA CallBegins ==
  ASSUME FInv, FInv', WriteCall
  PROVE  [Store!SNext]_(Store!svars)
<1>1. pc = "idle" /\ Ready /\ UNCHANGED <<mem, job>>
  BY WriteCallCases DEF chipvars
<1>2. TypeOK /\ TypeOK' /\ Bounds'
  BY DEF FInv, TInv
<1>3. OpenPage = {} /\ StoreCell = mem
  BY <1>1, <1>2, NoneOpen, ReadyNone
<1>4. CASE UNCHANGED <<pc, dest, size, target>>
  <2>1. OpenPage' = {} /\ StoreCell' = StoreCell
    BY <1>1, <1>3, <1>4, ReadyNone DEF OpenPage, StoreCell
  <2>2. StoreBusy' = StoreBusy /\ StoreTodo' = StoreTodo
    BY <1>1, <1>4 DEF StoreBusy, StoreTodo, WritePlaces
  <2>. QED  BY <1>3, <1>4, <2>1, <2>2, StoreStutters
<1>5. CASE pc' \in {"head", "loop"}
  <2>1. OpenPage' = {} /\ StoreCell' = StoreCell
    BY <1>1, <1>3, <1>5, ReadyNone DEF OpenPage, StoreCell
  <2>2. ~StoreBusy /\ StoreBusy' /\ StoreTodo' = Touched'
    BY <1>1, <1>5 DEF StoreBusy, StoreTodo, Finished, WritePlaces
  <2>3. Touched' \subseteq PageNo
    BY DEF Touched
  <2>4. ASSUME NEW p \in PageNo \ Touched' PROVE target'[p] = mem[p]
    <3>1. \A o \in Offset : ~InRange(dest, size, Linear(p, o))'
      BY <2>4 DEF Touched
    <3>2. \A o \in Offset : mem'[p][o] = target'[p][o]
      BY <1>2, <1>5, <2>4, <3>1 DEF Bounds, Outside, WritePlaces
    <3>3. mem[p] \in [Offset -> Cell] /\ target'[p] \in [Offset -> Cell]
      BY <1>2, <2>4 DEF TypeOK
    <3>. QED  BY <1>1, <3>2, <3>3
  <2>5. target' \in [PageNo -> [Offset -> Cell]]
    BY <1>2 DEF TypeOK
  <2>. QED  BY <1>3, <2>1, <2>2, <2>3, <2>4, <2>5, StoreBegins
<1>6. UNCHANGED <<pc, dest, size, target>> \/ pc' \in {"head", "loop"}
  BY WriteCallCases, Zenon DEF Called
<1>. QED  BY <1>4, <1>5, <1>6
\* What the end of a command opens or closes.
LEMMA JobStore ==
  ASSUME FInv, FInv', JobDone
  PROVE  [Store!SNext]_(Store!svars)
<1>1. /\ ~Ready /\ Ready' /\ UNCHANGED <<pc, dest, size, target>>
  BY DEF JobDone, drvvars, Ready
<1>2. /\ TInv /\ TypeOK /\ TypeOK' /\ job.page \in PageNo /\ job.op \in Rewriting \cup {"transfer"}
      /\ mem \in [PageNo -> [Offset -> Cell]] /\ mem' \in [PageNo -> [Offset -> Cell]]
  BY JobCases DEF FInv, TInv, TypeOK
<1>3. /\ \A p \in PageNo : p # job.page => mem'[p] = mem[p]
      /\ job.op = "transfer" => mem' = mem
  <2>1. \/ mem' = mem
        \/ job.op # "transfer" /\ \E c : mem' = [mem EXCEPT ![job.page] = c]
    BY <1>2, JobCases DEF Rewriting
  <2>. QED  BY <1>2, <2>1
<1>4. job'.op \notin Rewriting
  BY <1>1 DEF Ready, NoJob, Rewriting
<1>5. Touched' = Touched
  BY <1>1 DEF Touched
<1>6. CASE pc \in {"partend", "pageend"}
  <2>1. dest < Capacity /\ job.op \in Rewriting /\ job.page = Here /\ mem'[Here] = target[Here]
    BY <1>1, <1>6 DEF FInv, Bounds, Stage, Doing, Here, WritePlaces, Rewriting
  <2>2. Here \in PageNo /\ Here \in Touched
    BY <1>2, <1>6, <2>1, HereTouched
  <2>3. OpenPage = {Here} /\ OpenPage' = {}
    BY <1>1, <1>4, <1>6, <2>1 DEF OpenPage
  <2>4. StoreCell' = [StoreCell EXCEPT ![Here] = target[Here]]
    BY <1>2, <1>3, <2>1, <2>2, <2>3 DEF StoreCell
  <2>5. StoreTodo' = StoreTodo \ {Here} /\ Here \in StoreTodo /\ StoreBusy /\ StoreBusy'
    BY <1>1, <1>5, <1>6, <2>2 DEF StoreTodo, StoreBusy, Finished, Here, WritePlaces
  <2>. QED  BY <1>1, <2>2, <2>3, <2>4, <2>5, StoreCloses
<1>7. CASE pc \in {"pgm", "patch"}
  <2>1. job.page = Here /\ (IF pc = "pgm" THEN job.op = "erase" ELSE job.op = "transfer")
    BY <1>1, <1>7 DEF FInv, Stage, Doing
  <2>2. OpenPage' = OpenPage /\ (pc = "pgm" => OpenPage = {job.page})
    BY <1>1, <1>4, <1>7, <2>1 DEF OpenPage, Here, Rewriting
  <2>3. StoreCell' = StoreCell
    BY <1>3, <1>7, <2>1, <2>2 DEF StoreCell
  <2>4. StoreTodo' = StoreTodo /\ StoreBusy' = StoreBusy
    BY <1>1, <1>5, <1>7 DEF StoreTodo, StoreBusy, Finished, WritePlaces
  <2>. QED  BY <1>1, <2>2, <2>3, <2>4, StoreStutters
<1>8. CASE pc \notin WritePlaces
  <2>1. OpenPage' = {} /\ (job.op \in Rewriting => OpenPage = {job.page})
        /\ (job.op \notin Rewriting => OpenPage = {})
    BY <1>1, <1>4, <1>8 DEF OpenPage, WritePlaces
  <2>2. ~StoreBusy /\ ~StoreBusy' /\ StoreTodo = {} /\ StoreTodo' = {}
    BY <1>1, <1>8 DEF StoreTodo, StoreBusy
  <2>3. ASSUME NEW p \in PageNo
        PROVE  IF p \in OpenPage THEN StoreCell'[p] \in [Offset -> Cell]
                                 ELSE StoreCell'[p] = StoreCell[p]
    <3>1. StoreCell'[p] = mem'[p]
      BY <2>1, <2>3 DEF StoreCell
    <3>2. p \notin OpenPage => StoreCell[p] = mem[p]
      BY <2>3 DEF StoreCell
    <3>3. p \notin OpenPage => mem'[p] = mem[p]
      BY <1>2, <1>3, <2>1, <2>3
    <3>. QED  BY <1>2, <2>3, <3>1, <3>2, <3>3
  <2>. QED  BY <1>1, <2>1, <2>2, <2>3, StoreSettles
<1>9. pc \in WritePlaces => pc \in {"partend", "pageend", "pgm", "patch"}
  BY <1>1 DEF FInv, Stage, WritePlaces
<1>. QED  BY <1>6, <1>7, <1>8, <1>9

LEMMA ReadStutters ==
  ASSUME ReadCall \/ Read
  PROVE  [Store!SNext]_(Store!svars)
<1>1. pc \in {"idle", "read"} /\ pc' \in {"idle", "read"} /\ UNCHANGED <<mem, job, target>>
  BY DEF ReadCall, Read, ReadChunk, ReadReturn, Goto, chipvars
<1>2. OpenPage' = OpenPage
  BY <1>1 DEF OpenPage
<1>3. StoreCell' = StoreCell
  BY <1>1, <1>2 DEF StoreCell
<1>4. StoreTodo' = StoreTodo /\ StoreBusy' = StoreBusy
  BY <1>1 DEF StoreTodo, StoreBusy, WritePlaces
<1>. QED  BY <1>1, <1>2, <1>3, <1>4, StoreStutters

\* A failure leaves at most the open page in a state of its own.
LEMMA FailureSettles ==
  ASSUME FInv, FInv', Failure
  PROVE  [Store!SNext]_(Store!svars)
<1>1. pc' = "idle" /\ UNCHANGED target
  BY DEF Failure, PowerFail, Reset, Restart
<1>2. ~StoreBusy' /\ StoreTodo' = {} /\ (~StoreBusy => StoreTodo = {})
  BY <1>1 DEF StoreBusy, StoreTodo, WritePlaces
<1>3. TypeOK /\ TypeOK'
  BY DEF FInv, TInv
<1>4. ASSUME OpenPage' = {}, \A p \in PageNo : p \notin OpenPage => mem'[p] = mem[p]
      PROVE  [Store!SNext]_(Store!svars)
  <2>1. ASSUME NEW p \in PageNo
        PROVE  IF p \in OpenPage THEN StoreCell'[p] \in [Offset -> Cell]
                                 ELSE StoreCell'[p] = StoreCell[p]
    <3>1. StoreCell'[p] = mem'[p] /\ mem'[p] \in [Offset -> Cell]
      BY <1>3, <1>4, <2>1 DEF StoreCell, TypeOK
    <3>2. p \notin OpenPage => StoreCell[p] = mem[p]
      BY <2>1 DEF StoreCell
    <3>. QED  BY <1>4, <2>1, <3>1, <3>2
  <2>. QED  BY <1>1, <1>2, <1>4, <2>1, StoreSettles
<1>5. CASE PowerFail
  <2>1. OpenPage' = {}
    BY <1>1, <1>5 DEF PowerFail, OpenPage, NoJob, Rewriting
  <2>2. \A p \in PageNo : p \notin OpenPage => mem'[p] = mem[p]
    <3>1. \/ mem' = mem
          \/ job.op \in Rewriting /\ mem' = [mem EXCEPT ![job.page] = Blank(JUNK)]
      BY <1>5 DEF PowerFail, Rewriting
    <3>2. job.op \in Rewriting => OpenPage = {job.page}
      BY DEF OpenPage
    <3>. QED  BY <1>3, <3>1, <3>2 DEF TypeOK
  <2>. QED  BY <1>4, <2>1, <2>2
<1>6. CASE Reset
  <2>1. UNCHANGED <<mem, job>>
    BY <1>6 DEF Reset, chipvars
  <2>2. CASE job.op \in Rewriting
    <3>1. OpenPage' = OpenPage /\ StoreCell' = StoreCell
      BY <2>1, <2>2 DEF OpenPage, StoreCell
    <3>2. CASE StoreBusy
      BY <1>1, <1>2, <3>1, <3>2, StoreFails
    <3>3. CASE ~StoreBusy
      <4>1. StoreBusy' = StoreBusy /\ StoreTodo' = StoreTodo
        BY <1>2, <3>3 DEF StoreBusy
      <4>. QED  BY <1>1, <3>1, <4>1, StoreStutters
    <3>. QED  BY <3>2, <3>3
  <2>3. CASE job.op \notin Rewriting
    <3>1. OpenPage' = {}
      BY <1>1, <2>1, <2>3 DEF OpenPage
    <3>. QED  BY <1>4, <2>1, <3>1
  <2>. QED  BY <2>2, <2>3
<1>. QED  BY <1>5, <1>6 DEF Failure

LEMMA StoreInit == Init => Store!SInit
<1>. SUFFICES ASSUME Init PROVE Store!SInit
  OBVIOUS
<1>1. TypeOK /\ pc = "idle" /\ Ready /\ target = mem
  BY InitTyped DEF Init, TInv, Ready
<1>2. OpenPage = {} /\ StoreCell = mem
  BY <1>1, NoneOpen, ReadyNone
<1>3. ~StoreBusy /\ StoreTodo = {}
  BY <1>1 DEF StoreBusy, StoreTodo, WritePlaces
<1>4. mem \in [PageNo -> [Offset -> Cell]]
  BY <1>1 DEF TypeOK
<1>. QED  BY <1>1, <1>2, <1>3, <1>4 DEF Store!SInit, StoreCell, StoreTodo, StoreBusy

LEMMA StoreStep == FInv /\ FInv' /\ [Next]_vars => [Store!SNext]_(Store!svars)
<1>. SUFFICES ASSUME FInv, FInv', [Next]_vars PROVE [Store!SNext]_(Store!svars)
  OBVIOUS
<1>1. CASE Write
  BY <1>1, WorkStutters, RewriteOpens, ProgramStutters, EndStutters, ReturnEnds DEF Write
<1>2. CASE WriteCall \/ JobDone \/ Failure \/ ReadCall \/ Read
  BY <1>2, CallBegins, JobStore, FailureSettles, ReadStutters
<1>3. CASE UNCHANGED vars
  <2>1. UNCHANGED <<mem, job, pc, dest, size, target>>
    BY <1>3 DEF vars, chipvars, drvvars
  <2>2. OpenPage' = OpenPage /\ Touched' = Touched /\ Finished' = Finished
    BY <2>1 DEF OpenPage, Touched, Finished, Ready
  <2>3. StoreCell' = StoreCell /\ StoreTodo' = StoreTodo /\ StoreBusy' = StoreBusy
    BY <2>1, <2>2 DEF StoreCell, StoreTodo, StoreBusy
  <2>. QED  BY <2>1, <2>2, <2>3, StoreStutters
<1>. QED  BY <1>1, <1>2, <1>3 DEF Next

\* Under the same condition the driver and the chip together are the store that
\* LabMain relies on: calls, power failures and resets show what FlashStore shows,
\* and damage at most the one page that is being rewritten.
THEOREM ImplementsStore == ASSUME InReach PROVE Spec => StoreSpec
<1>1. Spec => []FInv
  BY Invariant
<1>. QED  BY <1>1, StoreInit, StoreStep, PTL DEF Spec, StoreSpec, Store!SSpec
=============================================================================
