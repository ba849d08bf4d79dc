----------------------------- MODULE UbootFlash -----------------------------
(***************************************************************************)
(* The serial flash as U-Boot uses it: the protected areas of              *)
(* drivers/mtd/dataflash.c, the commands cp and protect, and the           *)
(* environment kept in it by common/env_dataflash.c.                       *)
(*                                                                         *)
(* A write goes from page to page as in drivers/mtd/at45.c; of the page    *)
(* under way when the power fails nothing is known.  The bounds of the     *)
(* areas need not be bounds of pages, and on this board they are not.      *)
(* A CRC is taken as the data it was computed from: only equal data have   *)
(* equal CRCs, and what cp writes is no CRC of an environment.             *)
(***************************************************************************)
EXTENDS Integers, Sequences

CONSTANTS
  PageSize, Pages,  \* the device
  BootEnd,   \* "LAB bootloader" ends here and "Environment" begins (CFG_ENV_ADDR)
  EnvEnd,    \* "Environment" ends and "U-Boot" begins, which ends with the device
  EnvSize,   \* CFG_ENV_SIZE, in cells; the first one is the CRC
  Value,     \* the values of a cell of data
  Contents,  \* what the device holds when it is first started
  Dests,     \* the destinations of cp
  Sizes,     \* its sizes
  MaxWrites, \* bound: writes begun
  MaxFails   \* bound: power failures

Capacity == PageSize * Pages

ASSUME LayoutAssumption ==
  /\ PageSize \in Nat \ {0} /\ Pages \in Nat
  /\ BootEnd \in Nat \ {0} /\ EnvSize \in Nat \ {0, 1, 2} /\ BootEnd + EnvSize <= EnvEnd
  /\ EnvEnd \in Nat /\ EnvEnd < Capacity

VARIABLES
  flash,     \* the cells of the device
  protected, \* which areas are protected
  env,       \* the environment in memory, with its CRC
  stale,     \* history: it was changed after its CRC was computed
  valid,     \* gd->env_valid
  pc,        \* what is executed
  from,      \* where the last write began
  dest,      \* where it has come
  left,      \* what it has still to write
  stored,    \* history: the environments whose CRC was given to saveenv
  last,      \* history: what saveenv left in the flash, as long as it is whole, or <<>>
  writes, fails  \* history: what is bounded

hvars == <<stored, last, writes, fails>>
vars  == <<flash, protected, env, stale, valid, pc, from, dest, left, hvars>>

-----------------------------------------------------------------------------
(* Cells and environments.  A cell is a sequence: <<v>> is data, a longer  *)
(* one the CRC of those data, <<>> what nobody knows.                      *)

JUNK     == <<>>
Data     == [1 .. EnvSize - 1 -> Value]
Plain    == {<<v>> : v \in Value}
Cell     == {JUNK} \cup Plain \cup Data
With(c, d) == [i \in 1 .. EnvSize |-> IF i = 1 THEN c ELSE <<d[i - 1]>>]
Image(d) == With(d, d)
Garbage  == [i \in 1 .. EnvSize |-> JUNK]
Default  == [i \in 1 .. EnvSize - 1 |-> CHOOSE v \in Value : TRUE]
InFlash  == [i \in 1 .. EnvSize |-> flash[BootEnd + i - 1]]
CrcFits(e) == \E d \in Data : e = Image(d)

ASSUME InputAssumption ==
  /\ Value # {} /\ Contents \subseteq [0 .. Capacity - 1 -> Cell]
  /\ Dests \subseteq Nat /\ Sizes \subseteq Nat \ {0} /\ MaxWrites \in Nat /\ MaxFails \in Nat

-----------------------------------------------------------------------------
(* The areas.                                                              *)

Boot      == 1
Env       == 2
Uboot     == 3
Area      == {Boot, Env, Uboot}
First     == <<0, BootEnd, EnvEnd>>
Final     == <<BootEnd - 1, EnvEnd - 1, Capacity - 1>>
AreaOf(a) == CHOOSE k \in Area : a \in First[k] .. Final[k]

\* prot_dataflash: the end of an area is not counted to it, and what is in no
\* area is not protected.  Mutant: only the first area is looked at.
ProtectedAtFirst(a) == protected[Boot] /\ First[Boot] <= a /\ a < Final[Boot]
ProtectedAt(a) == \E k \in Area : protected[k] /\ First[k] <= a /\ a < Final[k]

\* size_dataflash.  Mutant: only the address is looked at.
SizeFitsAddr(a, n) == a <= Capacity
SizeFits(a, n) == a <= Capacity /\ n <= Capacity - a

\* write_dataflash
MayWrite(a, n) == SizeFits(a, n) /\ ~ProtectedAt(a)

-----------------------------------------------------------------------------
(* The start.                                                              *)

Locked == [k \in Area |-> k # Env]

Init == /\ flash \in Contents
        /\ protected = Locked /\ env = Garbage /\ stale = FALSE /\ valid = FALSE /\ pc = "init"
        /\ from = 0 /\ dest = 0 /\ left = <<>> /\ last = <<>> /\ writes = 0 /\ fails = 0
        /\ stored = {d \in Data : \E a \in DOMAIN flash : flash[a] = d}

\* AT91F_DataflashInit, then the CRC is checked in the flash.
EnvInit ==
  /\ pc = "init" /\ pc' = "relocate"
  /\ protected' = Locked /\ valid' = CrcFits(InFlash)
  /\ UNCHANGED <<flash, env, stale, from, dest, left, hvars>>

\* AT91F_DataflashInit once more, then the environment goes to memory.
EnvRelocate ==
  /\ pc = "relocate" /\ pc' = "prompt" /\ protected' = Locked
  /\ env' = IF valid THEN InFlash ELSE Image(Default)
  /\ valid' = TRUE /\ stale' = FALSE
  /\ UNCHANGED <<flash, from, dest, left, hvars>>

-----------------------------------------------------------------------------
(* The commands.                                                           *)

\* Also to delete.  When there is no room for the new value the old one is gone
\* already, and the CRC is not computed anew.
SetEnv ==
  /\ pc = "prompt"
  /\ \E d \in Data : \E crc \in {d, env[1]} : env' = With(crc, d) /\ stale' = (crc # d)
  /\ UNCHANGED <<flash, protected, valid, pc, from, dest, left, hvars>>

\* From the start of one area to the end of another.
Protect ==
  /\ pc = "prompt"
  /\ \E on \in BOOLEAN, k1, k2 \in Area :
       protected' = [k \in Area |-> IF k \in k1 .. k2 THEN on ELSE protected[k]]
  /\ UNCHANGED <<flash, env, stale, valid, pc, from, dest, left, hvars>>

\* What write_dataflash refuses changes nothing.
Write(a, cells) ==
  /\ pc = "prompt" /\ MayWrite(a, Len(cells)) /\ writes < MaxWrites /\ writes' = writes + 1
  /\ from' = a /\ dest' = a /\ left' = cells
  /\ UNCHANGED <<flash, protected, stale, valid, fails>>

\* A copy is written: the driver receives over the buffer it sends.
\* Mutant: the environment itself is given to it.
SaveEnvDirect ==
  /\ Write(BootEnd, env) /\ pc' = "save" /\ env' = Garbage
  /\ stored' = stored \cup {env[1]} /\ last' = <<>>

SaveEnv ==
  /\ Write(BootEnd, env) /\ pc' = "save"
  /\ stored' = stored \cup {env[1]} /\ last' = <<>>
  /\ UNCHANGED env

Cp == \E a \in Dests, n \in Sizes, v \in Value :
        /\ Write(a, [i \in 1 .. n |-> <<v>>]) /\ pc' = "cp"
        /\ UNCHANGED <<env, stored, last>>

-----------------------------------------------------------------------------
(* A write.                                                                *)

Busy    == pc \in {"save", "cp"}
Page(a) == a \div PageSize

\* As much of the write as lies in the page of dest.
Count ==
  LET room == PageSize - (dest % PageSize) IN IF Len(left) < room THEN Len(left) ELSE room

Part     == dest .. dest + Count - 1
EnvCells == BootEnd .. BootEnd + EnvSize - 1

EnvHurt(cells) == cells \cap EnvCells # {}

\* A page is read, changed and written back, or erased and written as a whole.
\* Mutant: the first page is taken for a whole one.
WritePageWhole ==
  /\ Busy /\ left # <<>>
  /\ flash' = [a \in DOMAIN flash |-> IF a \in Part THEN left[a - dest + 1]
                ELSE IF Page(a) = Page(dest) THEN JUNK ELSE flash[a]]
  /\ dest' = dest + Count /\ left' = SubSeq(left, Count + 1, Len(left))
  /\ last' = IF EnvHurt(Part) THEN <<>> ELSE last
  /\ UNCHANGED <<protected, env, stale, valid, pc, from, stored, writes, fails>>

WritePage ==
  /\ Busy /\ left # <<>>
  /\ flash' = [a \in DOMAIN flash |-> IF a \in Part THEN left[a - dest + 1] ELSE flash[a]]
  /\ dest' = dest + Count
  /\ left' = SubSeq(left, Count + 1, Len(left))
  /\ last' = IF EnvHurt(Part) THEN <<>> ELSE last
  /\ UNCHANGED <<protected, env, stale, valid, pc, from, stored, writes, fails>>

WriteEnd ==
  /\ Busy /\ left = <<>> /\ pc' = "prompt"
  /\ last' = IF pc = "save" THEN env ELSE last
  /\ UNCHANGED <<flash, protected, env, stale, valid, from, dest, left, stored, writes, fails>>

\* The power fails, in the middle of a page when a write is under way.
PowerFail ==
  /\ fails < MaxFails /\ fails' = fails + 1
  /\ LET hurt == IF Busy /\ left # <<>> THEN {a \in DOMAIN flash : Page(a) = Page(dest)} ELSE {}
     IN  /\ flash' = [a \in DOMAIN flash |-> IF a \in hurt THEN JUNK ELSE flash[a]]
         /\ last' = IF EnvHurt(hurt) THEN <<>> ELSE last
  /\ pc' = "init" /\ env' = Garbage /\ valid' = FALSE /\ left' = <<>>
  /\ UNCHANGED <<protected, stale, from, dest, stored, writes>>

-----------------------------------------------------------------------------
Next == EnvInit \/ EnvRelocate \/ SetEnv \/ Protect \/ SaveEnv \/ Cp
          \/ WritePage \/ WriteEnd \/ PowerFail

Spec == Init /\ [][Next]_vars

-----------------------------------------------------------------------------
\* Every variable has its type.
TypeOK ==
  /\ flash \in [0 .. Capacity - 1 -> Cell] /\ protected \in [Area -> BOOLEAN]
  /\ env \in [1 .. EnvSize -> Cell] /\ stale \in BOOLEAN /\ valid \in BOOLEAN
  /\ pc \in {"init", "relocate", "prompt", "save", "cp"}
  /\ from \in 0 .. Capacity /\ dest \in 0 .. Capacity /\ left \in Seq(Cell) /\ dest + Len(left) <= Capacity
  /\ stored \subseteq Data /\ last \in [1 .. EnvSize -> Cell] \cup {<<>>}
  /\ writes \in Nat /\ fails \in Nat

\* From the prompt on the environment in memory agrees with its CRC, but after a
\* setenv for which there was no room, until the next that is carried out: saveenv
\* does not alter it and nothing torn is taken from the flash.
EnvWhole == pc \in {"prompt", "save", "cp"} => (CrcFits(env) <=> ~stale)

\* What is taken from the flash at the start is an environment whose CRC was once
\* given to saveenv.  It is the last one saved, unless that one was overwritten or
\* hurt, or saved with a CRC that does not fit: such a one is always refused.
BootsSaved ==
  [][EnvRelocate =>
       /\ env' \in {Image(d) : d \in stored \cup {Default}}
       /\ last # <<>> => env' = IF CrcFits(last) THEN last ELSE Image(Default)]_vars

\* The only ways around the protection are a power failure in a page that two
\* areas share, and a write that begins in an area that is not protected or on
\* the last address of its area.
ProtectedButEdges ==
  [][\A a \in DOMAIN flash :
       flash'[a] # flash[a] /\ protected[AreaOf(a)] =>
         \/ pc' = "init" /\ Page(a) = Page(dest)
         \/ ~protected[AreaOf(from)] \/ from = Final[AreaOf(from)]]_vars

=============================================================================
