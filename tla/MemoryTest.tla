---------------------------- MODULE MemoryTest ----------------------------
(***************************************************************************)
(* The three tests of the memory test program, memory_test/main.cpp, run   *)
(* on a memory with at most one fault.                                     *)
(*                                                                         *)
(* The memory is an array of units of the access size, words or bytes.  A  *)
(* fault is a bit that is stuck, an address that selects the cell of       *)
(* another one, or a cell whose rising bit inverts that bit of another     *)
(* cell.  Above its end the memory is there again: the address bits above  *)
(* it are not decoded.  What a unit holds is the set of its bits that are  *)
(* one, so 0 is {} and 1 is {0}.                                           *)
(*                                                                         *)
(* The galloping pattern test takes any address.  Of one that is not a     *)
(* multiple of the word, skew is the rest: a store ignores it, and a load  *)
(* turns the word by as many bytes (ARM920T).                              *)
(***************************************************************************)
EXTENDS Integers

CONSTANTS
  Words, BytesPerWord, ByteBits,  \* the geometry of the memory: 16 M, 4, 8
  GalpatWords,  \* the area which the galloping pattern test covers: 256
  MaxTests      \* bound: tests run one after the other

Width(size) == IF size = 1 THEN ByteBits ELSE ByteBits * BytesPerWord
Units(size) == IF size = 1 THEN Words * BytesPerWord ELSE Words

ASSUME MemoryAssumption ==
  {Words, BytesPerWord, ByteBits, GalpatWords} \subseteq Nat \ {0}

VARIABLES
  fault,       \* what is wrong with the memory
  access_size, \* 1 or 4
  mem,         \* the cells
  test, stage, \* the test of the last command, and where it is
  start_addr, test_addr, addr, val,
  skew,        \* bytes by which start_addr and test_addr miss the word
  number,      \* val of the address test, which counts
  round,       \* of the march test
  test_result, \* an error has been found
  tests

args  == <<fault, access_size, start_addr, skew, tests>>
mvars == <<args, mem, test, stage, test_addr, addr, val, number, round, test_result>>

N      == Units(access_size)
Bits   == 0 .. Width(access_size) - 1
Not(v) == Bits \ v

\* A number as far as it fits into a unit
Number(n) == {k \in Bits : (n \div 2 ^ k) % 2 = 1}

-----------------------------------------------------------------------------
(* The memory                                                              *)

Faults(size) ==
  LET cells == 0 .. Units(size) - 1
      bits  == 0 .. Width(size) - 1
  IN  [kind : {"none"}, a : {0}, b : {0}, bit : {0}]
        \cup [kind : {"stuck"}, a : cells, b : {0, 1}, bit : bits]
        \cup {f \in [kind : {"alias"}, a : cells, b : cells, bit : {0}]
                \cup [kind : {"coupling"}, a : cells, b : cells, bit : bits] : f.a # f.b}

Flip(v, k) == IF k \in v THEN v \ {k} ELSE v \cup {k}

CellOf(a) == IF fault.kind = "alias" /\ a % N = fault.a THEN fault.b ELSE a % N

Load(a) ==
  LET v == mem[CellOf(a)]
  IN  IF fault.kind # "stuck" \/ CellOf(a) # fault.a THEN v
      ELSE IF fault.b = 1 THEN v \cup {fault.bit} ELSE v \ {fault.bit}

Turned(v) == {k \in Bits : (k + skew * ByteBits) % Width(access_size) \in v}

Rises(a, v) == /\ fault.kind = "coupling" /\ CellOf(a) = fault.a
               /\ fault.bit \in v \ mem[CellOf(a)]

Store(a, v) ==
  mem' = [c \in DOMAIN mem |-> IF c = CellOf(a) THEN v
                               ELSE IF Rises(a, v) /\ c = fault.b THEN Flip(mem[c], fault.bit)
                               ELSE mem[c]]

\* check_memory_value, or one of the comparisons of the galloping pattern test
Check(right) == test_result' = (test_result \/ ~right)

-----------------------------------------------------------------------------
MInit ==
  /\ access_size \in {1, 4}
  /\ fault \in Faults(access_size)
  /\ \E v \in {{}, Bits} : mem = [c \in 0 .. N - 1 |-> v]
  /\ test = "none" /\ stage = "menu" /\ tests = 0
  /\ start_addr = 0 /\ skew = 0 /\ test_addr = 0 /\ addr = 0 /\ val = {} /\ number = 0 /\ round = 0
  /\ test_result = FALSE

Command(name, s, first) ==
  /\ stage = "menu" /\ tests < MaxTests /\ tests' = tests + 1
  /\ test' = name /\ start_addr' = s /\ test_addr' = s /\ stage' = first
  /\ addr' = 0 /\ number' = 0 /\ round' = 0 /\ test_result' = FALSE
  /\ UNCHANGED <<fault, access_size, mem>>

\* An address outside of the memory stands for its beginning
GallopingPatternTest(s, k) ==
  /\ access_size = 4 /\ skew' = IF s < N THEN k ELSE 0
  /\ Command("galpat", IF s < N THEN s ELSE 0, "clear") /\ val' = {}
MarchTest   == Command("march", 0, "clear") /\ val' = {0} /\ skew' = 0
AddressTest == Command("address", 0, "write_addr") /\ val' = {} /\ skew' = 0

\* The next value of a loop variable that counts up to the end of the memory,
\* and where the program goes on
Count(v, loop, next) == /\ addr' = IF v + 1 < N THEN v + 1 ELSE 0
                        /\ stage' = IF v + 1 < N THEN loop ELSE next

ClearSDRAM ==
  /\ stage = "clear"
  /\ Store(addr, {})
  /\ Count(addr, "clear", IF test = "galpat" THEN "complement" ELSE "write")
  /\ UNCHANGED <<args, test, test_addr, val, number, round, test_result>>

-----------------------------------------------------------------------------
(* AT91F_GallopingPatternTest                                              *)

Complement ==
  /\ stage = "complement"
  /\ val' = Turned(Load(test_addr)) /\ Store(test_addr, Not(val'))
  /\ addr' = 0 /\ stage' = "scan"
  /\ UNCHANGED <<args, test, test_addr, number, round, test_result>>

Scan ==
  /\ stage = "scan"
  /\ Check(/\ Load(addr) = (IF addr = test_addr /\ skew = 0 THEN Not(val) ELSE {})
           /\ Turned(Load(test_addr)) = Not(val))
  /\ Count(addr, "scan", "restore")
  /\ UNCHANGED <<args, mem, test, test_addr, val, number, round>>

\* The condition of the loop is (test_addr < end_addr, test_addr - start_addr <
\* 0x400), of which only the second part counts
InArea(a) == a - start_addr < GalpatWords

\* mutant: the cell is not complemented again
RestoreNothing ==
  /\ stage = "restore"
  /\ val' = Turned(Load(test_addr)) /\ Store(test_addr, val')
  /\ test_addr' = test_addr + 1
  /\ stage' = IF InArea(test_addr') THEN "complement" ELSE "menu"
  /\ UNCHANGED <<args, test, addr, number, round, test_result>>
Restore ==
  /\ stage = "restore"
  /\ val' = Turned(Load(test_addr)) /\ Store(test_addr, Not(val'))
  /\ test_addr' = test_addr + 1
  /\ stage' = IF InArea(test_addr') THEN "complement" ELSE "menu"
  /\ UNCHANGED <<args, test, addr, number, round, test_result>>

-----------------------------------------------------------------------------
(* AT91F_MarchTest                                                         *)

Write ==
  /\ stage = "write"
  /\ Store(addr, val)
  /\ Count(addr, "write", "read")
  /\ UNCHANGED <<args, test, test_addr, val, number, round, test_result>>

\* mutant: the second round has the value of the first one
NextValSame == val
NextVal     == Not(val)

\* The cells from the last to the first
Read ==
  /\ stage = "read"
  /\ Check(Load(N - 1 - addr) = val)
  /\ Count(addr, "read", IF round = 0 THEN "write" ELSE "menu")
  /\ IF stage' = "read" THEN UNCHANGED <<val, round>> ELSE val' = NextVal /\ round' = round + 1
  /\ UNCHANGED <<args, mem, test, test_addr, number>>

-----------------------------------------------------------------------------
(* AT91F_AddressTest: the value is the number of the unit                  *)

WriteAddr ==
  /\ stage = "write_addr"
  /\ Store(addr, Number(number))
  /\ Count(addr, "write_addr", "read_addr")
  /\ number' = IF stage' = "write_addr" THEN number + 1 ELSE 0
  /\ UNCHANGED <<args, test, test_addr, val, round, test_result>>

ReadAddr ==
  /\ stage = "read_addr"
  /\ Check(Load(addr) = Number(number))
  /\ Count(addr, "read_addr", "menu")
  /\ number' = number + 1
  /\ UNCHANGED <<args, mem, test, test_addr, val, round>>

MNext ==
  \/ \E s \in 0 .. N, k \in 0 .. BytesPerWord - 1 : GallopingPatternTest(s, k)
  \/ MarchTest \/ AddressTest \/ ClearSDRAM
  \/ Complement \/ Scan \/ Restore \/ Write \/ Read \/ WriteAddr \/ ReadAddr

MSpec == MInit /\ [][MNext]_mvars

-----------------------------------------------------------------------------
(* Properties.                                                             *)

\* A test never finds an error in a memory without one, whatever the tests before
\* left in it: with the exception of a galloping pattern test whose area goes
\* past the end of the memory, where it tests cells which it does not expect to
\* have changed (main.cpp:250), or whose address is not that of a word, so that it
\* does not know the test cell again when it comes to it (main.cpp:262)
NoFalseAlarm ==
  test_result /\ fault.kind = "none" =>
    test = "galpat" /\ (start_addr + GalpatWords > N \/ skew # 0)

\* A fault which a test that says OK cannot have missed
Tested(c) == \E k \in 0 .. GalpatWords - 1 : c = (start_addr + k) % N

Galpat ==
  \/ fault.kind = "stuck" /\ (fault.b = 1 \/ Tested(fault.a))
  \/ fault.kind = "alias" /\ (Tested(fault.a) \/ Tested(fault.b))
  \/ fault.kind = "coupling" /\ Tested(fault.a)
March ==
  \/ fault.kind = "stuck"
  \/ fault.kind = "coupling" /\ fault.b < fault.a
Address ==
  fault.kind = "alias" /\ Number(fault.a) # Number(fault.b)

\* What a test calls OK has none of the faults it is there for: the galloping
\* pattern test finds stuck bits, shared cells and disturbed neighbours of its
\* area, the march test stuck bits and cells disturbed by a later one (but no
\* shared cells, though its comment at main.cpp:326 says so), the address test
\* addresses that share a cell, as far as the numbers of the units differ
Finds ==
  stage = "menu" /\ ~test_result =>
    /\ test = "galpat"  => ~Galpat
    /\ test = "march"   => ~March
    /\ test = "address" => ~Address
=============================================================================
