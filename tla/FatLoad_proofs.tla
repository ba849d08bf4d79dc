--------------------------- MODULE FatLoad_proofs ---------------------------
(***************************************************************************)
(* What is proved of FatLoad: whatever the FAT holds, cycles, broken       *)
(* chains and numbers beyond the volume included, and whatever reads fail, *)
(* get_contents writes no more than it was asked for; and what it has      *)
(* loaded are the clusters of the chain, the file if the chain stays in    *)
(* the volume, as long as no read that failed went unnoticed.  The second  *)
(* needs that Chain, a recursive function, is what its definition says:    *)
(* that is proved from the well-foundedness of the numbers.                *)
(***************************************************************************)
EXTENDS FatLoad, WellFoundedInduction, TLAPS

\* What is loaded and what is still to be loaded make up what was asked for, and
\* a run is longer than the rest by less than a cluster.
Progress ==
  /\ pc \in {"search", "getit", "next", "last"} => gotsize + filesize = Wanted
  /\ pc \in {"search", "next"} => actsize >= bytesperclust
  /\ pc = "search" => actsize - bytesperclust <= filesize
  /\ pc = "next" => actsize = bytesperclust
  /\ pc = "load" => gotsize = 0

\* The cluster that is looked up is one that has an entry.
Known ==
  /\ pc \in {"getit", "next"} => endclust \in Number
  /\ pc = "search" => endclust \in Number \/ filesize = 0
  /\ pc = "load" => start \in Number \/ size = 0

PInv == TypeOK /\ Progress /\ Known

LEMMA Constants ==
  /\ Clusters \in Nat \ {0} /\ Numbers \in Nat \ {0} /\ Clusters <= Numbers
  /\ FS_BLOCK_SIZE \in Nat \ {0} /\ FATBUFBLOCKS \in Nat \ {0}
  /\ PerBlock \in Nat \ {0} /\ bytesperclust \in Nat \ {0} /\ FATBUFSIZE \in Nat \ {0}
  /\ MaxFaults \in Nat /\ Filesizes \subseteq Nat /\ Maxsizes \subseteq Nat
<1>1. \A m, n \in Nat \ {0} : m * n \in Nat \ {0}
  OBVIOUS
<1>. QED  BY <1>1, FatAssumption DEF bytesperclust, FATBUFSIZE

LEMMA Entries ==
  /\ Entry \subseteq Nat /\ FREE \in Entry /\ Number \subseteq Entry /\ Data \subseteq Number
  /\ \A x \in Entry : ~CHECK_CLUST(x) => x \in Number
BY Constants DEF Entry, Number, Data, FREE, EOC, CHECK_CLUST

LEMMA Ended == ASSUME NEW x \in Entry, CHECK_CLUST(x) PROVE x \notin Data
BY Constants DEF Entry, Number, Data, EOC, CHECK_CLUST

LEMMA WantedType == ASSUME size \in Filesizes, maxsize \in Maxsizes PROVE Wanted \in Nat
BY Constants DEF Wanted, Least

LEMMA Divided ==
  ASSUME NEW x \in Number
  PROVE  /\ x \div FATBUFSIZE \in -1 .. (Numbers + 1) \div FATBUFSIZE
         /\ x % FATBUFSIZE \in 0 .. FATBUFSIZE - 1
<1>1. \A b \in Nat \ {0}, m \in Nat : m % b \in 0 .. b - 1 /\ m \div b \in Nat /\ m = b * (m \div b) + (m % b)
  OBVIOUS
<1>2. \A b \in Nat \ {0}, m, n \in Nat : m <= n => m \div b <= n \div b
  <2>. SUFFICES ASSUME NEW b \in Nat \ {0}, NEW m \in Nat, NEW n \in Nat, m <= n,
                       m \div b > n \div b
                PROVE  FALSE
    <3>1. \A c \in Nat \ {0}, k \in Nat : k \div c \in Int
      OBVIOUS
    <3>. QED  BY <3>1
  <2>1. PICK d \in Nat : m \div b = (n \div b) + 1 + d
    <3>1. m \div b - (n \div b) - 1 \in Nat
      BY <1>1
    <3>2. m \div b = (n \div b) + 1 + (m \div b - (n \div b) - 1)
      BY <1>1
    <3>. QED  BY <3>1, <3>2
  <2>2. \A q, e \in Nat : b * (q + 1 + e) = b * q + b + b * e /\ b * e \in Nat /\ b * q \in Nat
    OBVIOUS
  <2>3. b * (m \div b) = b * (n \div b) + b + b * d /\ b * d \in Nat /\ b * (n \div b) \in Nat
    BY <1>1, <2>1, <2>2
  <2>4. /\ m = b * (m \div b) + (m % b) /\ n = b * (n \div b) + (n % b)
        /\ m % b \in Nat /\ n % b \in 0 .. b - 1
    BY <1>1
  <2>. QED  BY <2>3, <2>4
<1>3. x \in Nat /\ x <= Numbers + 1
  BY Constants DEF Number
<1>4. /\ x \div FATBUFSIZE \in Nat /\ x % FATBUFSIZE \in 0 .. FATBUFSIZE - 1
      /\ (Numbers + 1) \div FATBUFSIZE \in Nat
  <2>1. FATBUFSIZE \in Nat \ {0} /\ Numbers + 1 \in Nat /\ x \in Nat
    BY <1>3, Constants
  <2>2. \A b \in Nat \ {0}, m \in Nat : m % b \in 0 .. b - 1 /\ m \div b \in Nat
    BY <1>1
  <2>. QED  BY <2>1, <2>2
<1>5. x \div FATBUFSIZE <= (Numbers + 1) \div FATBUFSIZE
  BY <1>2, <1>3, Constants
<1>. QED  BY <1>4, <1>5

LEMMA ShortType ==
  ASSUME TypeOK, NEW k \in Nat, Short(k)
  PROVE  faults' \in 0 .. MaxFaults /\ hidden' \in BOOLEAN
<1>1. faults' \in 0 .. MaxFaults
  BY Constants DEF Short, TypeOK
<1>2. hidden' \in BOOLEAN
  BY DEF Short, TypeOK
<1>. QED  BY <1>1, <1>2

\* The cache after a look-up.
LEMMA LookUp ==
  ASSUME TypeOK, NEW entry \in Number, NEW value \in Entry, FatEntry(entry, value)
  PROVE  /\ fatbufnum' \in -1 .. (Numbers + 1) \div FATBUFSIZE
         /\ fatbuf' \in [0 .. FATBUFSIZE - 1 -> Entry]
         /\ faults' \in 0 .. MaxFaults /\ hidden' \in BOOLEAN
<1>. DEFINE bufnum == entry \div FATBUFSIZE
            OnDisk(e) == IF e \in Number THEN fat[e] ELSE FREE
<1>1. CASE UNCHANGED <<fatbufnum, fatbuf, faults, hidden>>
  BY <1>1 DEF TypeOK
<1>2. CASE \E n \in 0 .. FATBUFBLOCKS, junk \in Entry :
             /\ Short(Less(n, FATBUFBLOCKS)) /\ (n = FATBUFBLOCKS => junk = FREE)
             /\ fatbuf' = [o \in 0 .. FATBUFSIZE - 1 |->
                             IF o < n * PerBlock THEN OnDisk(bufnum * FATBUFSIZE + o) ELSE junk]
             /\ fatbufnum' = bufnum
  <2>1. PICK n \in 0 .. FATBUFBLOCKS, junk \in Entry :
          /\ Short(Less(n, FATBUFBLOCKS))
          /\ fatbuf' = [o \in 0 .. FATBUFSIZE - 1 |->
                          IF o < n * PerBlock THEN OnDisk(bufnum * FATBUFSIZE + o) ELSE junk]
          /\ fatbufnum' = bufnum
    BY <1>2
  <2>2. Less(n, FATBUFBLOCKS) \in Nat
    BY DEF Less
  <2>3. \A e : OnDisk(e) \in Entry
    BY Entries DEF TypeOK
  <2>4. fatbuf' \in [0 .. FATBUFSIZE - 1 -> Entry]
    BY <2>1, <2>3
  <2>5. fatbufnum' \in -1 .. (Numbers + 1) \div FATBUFSIZE
    BY <2>1, Divided
  <2>. QED  BY <2>1, <2>2, <2>4, <2>5, ShortType
<1>. QED  BY <1>1, <1>2, Zenon DEF FatEntry

LEMMA Append2 ==
  \A s \in Seq(Byte \cup {GARBAGE}), n \in Nat :
    \A f \in [1 .. n -> Byte \cup {GARBAGE}] :
      s \o f \in Seq(Byte \cup {GARBAGE}) /\ Len(s \o f) = Len(s) + n
OBVIOUS

\* A read makes the buffer longer by as much as was asked for.
LEMMA Loaded ==
  ASSUME TypeOK, NEW clustnum \in Nat, NEW nbytes \in Nat, Cluster(clustnum, nbytes)
  PROVE  /\ buffer' \in Seq(Byte \cup {GARBAGE}) /\ Len(buffer') = gotsize + nbytes
         /\ faults' \in 0 .. MaxFaults /\ hidden' \in BOOLEAN
<1>. DEFINE whole == nbytes \div FS_BLOCK_SIZE
            part  == Less(0, nbytes % FS_BLOCK_SIZE)
<1>1. PICK n \in 0 .. whole, rest \in 0 .. part :
        /\ Short(Less(n, whole) + Less(rest, part))
        /\ buffer' = buffer \o
             [k \in 1 .. nbytes |->
                IF k <= n * FS_BLOCK_SIZE \/ (k > whole * FS_BLOCK_SIZE /\ rest = 1)
                THEN ByteAt(clustnum, k - 1) ELSE GARBAGE]
  BY DEF Cluster
<1>2. \A m, c : Less(m, c) \in Nat
  BY DEF Less
<1>3. faults' \in 0 .. MaxFaults /\ hidden' \in BOOLEAN
  BY <1>1, <1>2, ShortType
<1>4. \A k \in 1 .. nbytes : ByteAt(clustnum, k - 1) \in Byte
  <2>1. \A b \in Nat \ {0}, m \in Nat : m \div b \in Nat /\ m % b \in 0 .. b - 1
    OBVIOUS
  <2>2. \A k \in 1 .. nbytes : k - 1 \in Nat
    OBVIOUS
  <2>3. \A m \in Nat : m \div bytesperclust \in Nat /\ m % bytesperclust \in 0 .. bytesperclust - 1
    BY <2>1, Constants
  <2>4. \A m \in Nat : ByteAt(clustnum, m) \in Byte
    BY <2>3 DEF ByteAt, Byte
  <2>. QED  BY <2>2, <2>4
<1>. DEFINE f == [k \in 1 .. nbytes |->
                    IF k <= n * FS_BLOCK_SIZE \/ (k > whole * FS_BLOCK_SIZE /\ rest = 1)
                    THEN ByteAt(clustnum, k - 1) ELSE GARBAGE]
<1>5. f \in [1 .. nbytes -> Byte \cup {GARBAGE}]
  BY <1>4
<1>6. buffer' = buffer \o f
  BY <1>1
<1>. HIDE DEF f
<1>7. buffer \in Seq(Byte \cup {GARBAGE}) /\ Len(buffer) = gotsize
  BY DEF TypeOK
<1>8. buffer' \in Seq(Byte \cup {GARBAGE}) /\ Len(buffer') = gotsize + nbytes
  BY <1>5, <1>6, <1>7, Append2
<1>. QED  BY <1>3, <1>8
-----------------------------------------------------------------------------
LEMMA InitOK == Init => PInv
<1>. SUFFICES ASSUME Init PROVE PInv
  OBVIOUS
<1>1. buffer \in Seq(Byte \cup {GARBAGE}) /\ Len(buffer) = 0
  BY DEF Init
<1>2. /\ fat \in [Number -> Entry] /\ start \in Entry /\ (start \in Number \/ size = 0)
      /\ size \in Filesizes /\ maxsize \in Maxsizes
      /\ pc = "load" /\ filesize = 0 /\ curclust = 0 /\ endclust = 0 /\ actsize = 0 /\ gotsize = 0
      /\ fatbufnum = -1 /\ fatbuf = [o \in 0 .. FATBUFSIZE - 1 |-> FREE]
      /\ result = -1 /\ faults = 0 /\ hidden = FALSE
  BY Entries DEF Init
<1>3. Wanted \in Nat /\ 0 \in Entry
  BY <1>2, WantedType, Entries DEF FREE
<1>4. fatbuf \in [0 .. FATBUFSIZE - 1 -> Entry]
  BY <1>2, Entries
<1>5. -1 \in -1 .. (Numbers + 1) \div FATBUFSIZE
  <2>1. \A b \in Nat \ {0}, m \in Nat : m \div b \in Nat
    OBVIOUS
  <2>2. (Numbers + 1) \div FATBUFSIZE \in Nat
    BY <2>1, Constants
  <2>. QED  BY <2>2
<1>6. TypeOK
  <2>1. result \in -1 .. Wanted /\ faults \in 0 .. MaxFaults /\ gotsize <= Wanted
    BY <1>2, <1>3, Constants
  <2>2. {curclust, endclust} \subseteq Entry /\ {filesize, actsize, gotsize} \subseteq Nat
    BY <1>2, <1>3
  <2>. QED  BY <1>1, <1>2, <1>4, <1>5, <2>1, <2>2 DEF TypeOK
<1>. QED  BY <1>2, <1>6 DEF PInv, Progress, Known

\* What get_contents is told does not change.
LEMMA DiskKept ==
  ASSUME TypeOK, UNCHANGED disk
  PROVE  /\ fat' \in [Number -> Entry] /\ start' \in Entry /\ size' \in Filesizes
         /\ maxsize' \in Maxsizes /\ Wanted' = Wanted /\ Wanted \in Nat
BY WantedType DEF TypeOK, disk, Wanted

LEMMA LoadOK == PInv /\ Load => PInv'
<1>. SUFFICES ASSUME PInv, Load PROVE PInv'
  OBVIOUS
<1>1. /\ pc = "load" /\ pc' = "search" /\ filesize' = Wanted /\ actsize' = bytesperclust
      /\ curclust' = start /\ endclust' = start
      /\ UNCHANGED <<disk, gotsize, buffer, fatbufnum, fatbuf, result, faults, hidden>>
  BY DEF Load
<1>2. TypeOK /\ gotsize = 0
  BY <1>1 DEF PInv, Progress
<1>3. /\ fat' \in [Number -> Entry] /\ start' \in Entry /\ size' \in Filesizes
      /\ maxsize' \in Maxsizes /\ Wanted' = Wanted /\ Wanted \in Nat
  BY <1>1, <1>2, DiskKept
<1>4. start \in Entry /\ (start \in Number \/ Wanted = 0)
  <2>1. size = 0 => Wanted = 0
    BY <1>2, Constants DEF TypeOK, Wanted, Least
  <2>. QED  BY <1>1, <1>2, <2>1 DEF PInv, Known, TypeOK
<1>5. TypeOK'
  BY <1>1, <1>2, <1>3, <1>4, Constants DEF TypeOK
<1>6. bytesperclust \in Nat
  BY Constants
<1>. QED  BY <1>1, <1>2, <1>3, <1>4, <1>5, <1>6 DEF PInv, Progress, Known

LEMMA SearchOK == PInv /\ Search => PInv'
<1>. SUFFICES ASSUME PInv, Search PROVE PInv'
  OBVIOUS
<1>1. /\ pc = "search" /\ actsize < filesize
      /\ UNCHANGED <<disk, filesize, curclust, gotsize, buffer>>
  BY DEF Search
<1>2. PICK newclust \in Entry :
        /\ FatEntry(endclust, newclust)
        /\ \/ pc' = "getit" /\ UNCHANGED <<endclust, actsize, result>>
           \/ pc' = "done" /\ result' = gotsize /\ UNCHANGED <<endclust, actsize>>
           \/ /\ ~CHECK_CLUST(newclust) /\ endclust' = newclust
              /\ actsize' = actsize + bytesperclust /\ UNCHANGED <<pc, result>>
  BY DEF Search, Return
<1>3. TypeOK /\ Progress /\ endclust \in Number
  BY <1>1 DEF PInv, Known, TypeOK
<1>4. /\ fat' \in [Number -> Entry] /\ start' \in Entry /\ size' \in Filesizes
      /\ maxsize' \in Maxsizes /\ Wanted' = Wanted /\ Wanted \in Nat
  BY <1>1, <1>3, DiskKept
<1>5. /\ fatbufnum' \in -1 .. (Numbers + 1) \div FATBUFSIZE
      /\ fatbuf' \in [0 .. FATBUFSIZE - 1 -> Entry]
      /\ faults' \in 0 .. MaxFaults /\ hidden' \in BOOLEAN
  BY <1>2, <1>3, LookUp
<1>6. /\ filesize \in Nat /\ actsize \in Nat /\ gotsize \in Nat /\ gotsize <= Wanted
      /\ result \in -1 .. Wanted /\ curclust \in Entry /\ endclust \in Entry
      /\ gotsize + filesize = Wanted /\ actsize >= bytesperclust
      /\ buffer \in Seq(Byte \cup {GARBAGE}) /\ Len(buffer) = gotsize
  BY <1>1, <1>3 DEF TypeOK, Progress
<1>7. CASE pc' = "getit" /\ UNCHANGED <<endclust, actsize, result>>
  <2>1. TypeOK'
    BY <1>1, <1>4, <1>5, <1>6, <1>7 DEF TypeOK
  <2>. QED  BY <1>1, <1>3, <1>4, <1>6, <1>7, <2>1 DEF PInv, Progress, Known
<1>8. CASE pc' = "done" /\ result' = gotsize /\ UNCHANGED <<endclust, actsize>>
  <2>1. TypeOK'
    BY <1>1, <1>4, <1>5, <1>6, <1>8 DEF TypeOK
  <2>. QED  BY <1>8, <2>1 DEF PInv, Progress, Known
<1>9. CASE /\ ~CHECK_CLUST(newclust) /\ endclust' = newclust
           /\ actsize' = actsize + bytesperclust /\ UNCHANGED <<pc, result>>
  <2>1. newclust \in Number /\ actsize' \in Nat
    BY <1>6, <1>9, Entries, Constants
  <2>2. TypeOK'
    BY <1>1, <1>4, <1>5, <1>6, <1>9, <2>1 DEF TypeOK
  <2>3. actsize' >= bytesperclust /\ actsize' - bytesperclust <= filesize
    BY <1>1, <1>6, <1>9, Constants
  <2>. QED  BY <1>1, <1>4, <1>6, <1>9, <2>1, <2>2, <2>3 DEF PInv, Progress, Known
<1>. QED  BY <1>2, <1>7, <1>8, <1>9

LEMMA GetRunOK == PInv /\ GetRun => PInv'
<1>. SUFFICES ASSUME PInv, GetRun PROVE PInv'
  OBVIOUS
<1>1. /\ pc = "getit" /\ pc' = "next" /\ Cluster(curclust, actsize) /\ actsize' = bytesperclust
      /\ gotsize' = gotsize + actsize /\ filesize' = filesize - actsize
      /\ UNCHANGED <<disk, curclust, endclust, fatbufnum, fatbuf, result>>
  BY DEF GetRun, Got
<1>2. /\ TypeOK /\ endclust \in Number /\ gotsize + filesize = Wanted /\ actsize <= filesize
      /\ filesize \in Nat /\ actsize \in Nat /\ gotsize \in Nat /\ curclust \in Entry
  BY <1>1 DEF PInv, TypeOK, Progress, Known
<1>3. /\ fat' \in [Number -> Entry] /\ start' \in Entry /\ size' \in Filesizes
      /\ maxsize' \in Maxsizes /\ Wanted' = Wanted /\ Wanted \in Nat
  BY <1>1, <1>2, DiskKept
<1>4. curclust \in Nat
  BY <1>2, Entries
<1>5. /\ buffer' \in Seq(Byte \cup {GARBAGE}) /\ Len(buffer') = gotsize'
      /\ faults' \in 0 .. MaxFaults /\ hidden' \in BOOLEAN
  BY <1>1, <1>2, <1>4, Loaded
<1>6. gotsize' \in Nat /\ filesize' \in Nat /\ gotsize' + filesize' = Wanted /\ gotsize' <= Wanted
  BY <1>1, <1>2, <1>3
<1>7. TypeOK'
  BY <1>1, <1>2, <1>3, <1>5, <1>6, Constants DEF TypeOK
<1>8. bytesperclust \in Nat
  BY Constants
<1>. QED  BY <1>1, <1>2, <1>3, <1>6, <1>7, <1>8 DEF PInv, Progress, Known

LEMMA NextRunOK == PInv /\ NextRun => PInv'
<1>. SUFFICES ASSUME PInv, NextRun PROVE PInv'
  OBVIOUS
<1>1. pc = "next" /\ UNCHANGED <<disk, filesize, actsize, gotsize, buffer>>
  BY DEF NextRun
<1>2. PICK newclust \in Entry :
        /\ FatEntry(endclust, newclust) /\ curclust' = newclust
        /\ \/ pc' = "done" /\ result' = gotsize /\ UNCHANGED endclust
           \/ ~CHECK_CLUST(newclust) /\ endclust' = newclust /\ pc' = "search" /\ UNCHANGED result
  BY DEF NextRun, Return
<1>3. TypeOK /\ Progress /\ endclust \in Number
  BY <1>1 DEF PInv, Known
<1>4. /\ fat' \in [Number -> Entry] /\ start' \in Entry /\ size' \in Filesizes
      /\ maxsize' \in Maxsizes /\ Wanted' = Wanted /\ Wanted \in Nat
  BY <1>1, <1>3, DiskKept
<1>5. /\ fatbufnum' \in -1 .. (Numbers + 1) \div FATBUFSIZE
      /\ fatbuf' \in [0 .. FATBUFSIZE - 1 -> Entry]
      /\ faults' \in 0 .. MaxFaults /\ hidden' \in BOOLEAN
  BY <1>2, <1>3, LookUp
<1>6. /\ filesize \in Nat /\ actsize \in Nat /\ gotsize \in Nat /\ gotsize <= Wanted
      /\ result \in -1 .. Wanted /\ endclust \in Entry
      /\ gotsize + filesize = Wanted /\ actsize = bytesperclust
      /\ buffer \in Seq(Byte \cup {GARBAGE}) /\ Len(buffer) = gotsize
  BY <1>1, <1>3 DEF TypeOK, Progress
<1>7. CASE pc' = "done" /\ result' = gotsize /\ UNCHANGED endclust
  <2>1. TypeOK'
    BY <1>1, <1>2, <1>4, <1>5, <1>6, <1>7 DEF TypeOK
  <2>. QED  BY <1>7, <2>1 DEF PInv, Progress, Known
<1>8. CASE ~CHECK_CLUST(newclust) /\ endclust' = newclust /\ pc' = "search" /\ UNCHANGED result
  <2>1. newclust \in Number
    BY <1>8, Entries
  <2>2. TypeOK'
    BY <1>1, <1>2, <1>4, <1>5, <1>6, <1>8 DEF TypeOK
  <2>. QED  BY <1>1, <1>4, <1>6, <1>8, <2>1, <2>2, Constants DEF PInv, Progress, Known
<1>. QED  BY <1>2, <1>7, <1>8

LEMMA GetRestOK == PInv /\ GetRest => PInv'
<1>. SUFFICES ASSUME PInv, GetRest PROVE PInv'
  OBVIOUS
<1>. DEFINE rest == actsize - bytesperclust
<1>1. /\ pc = "search" /\ pc' = "last" /\ Cluster(curclust, rest)
      /\ gotsize' = gotsize + rest /\ filesize' = filesize - rest /\ actsize' = filesize'
      /\ UNCHANGED <<disk, curclust, endclust, fatbufnum, fatbuf, result>>
  BY DEF GetRest
<1>2. /\ TypeOK /\ gotsize + filesize = Wanted
      /\ filesize \in Nat /\ actsize \in Nat /\ gotsize \in Nat /\ curclust \in Entry
      /\ rest \in Nat /\ rest <= filesize
  BY <1>1, Constants DEF PInv, TypeOK, Progress
<1>. HIDE DEF rest
<1>3. /\ fat' \in [Number -> Entry] /\ start' \in Entry /\ size' \in Filesizes
      /\ maxsize' \in Maxsizes /\ Wanted' = Wanted /\ Wanted \in Nat
  BY <1>1, <1>2, DiskKept
<1>4. curclust \in Nat
  BY <1>2, Entries
<1>5. /\ buffer' \in Seq(Byte \cup {GARBAGE}) /\ Len(buffer') = gotsize'
      /\ faults' \in 0 .. MaxFaults /\ hidden' \in BOOLEAN
  BY <1>1, <1>2, <1>4, Loaded
<1>6. gotsize' \in Nat /\ filesize' \in Nat /\ gotsize' + filesize' = Wanted /\ gotsize' <= Wanted
  BY <1>1, <1>2, <1>3
<1>7. TypeOK'
  BY <1>1, <1>2, <1>3, <1>5, <1>6 DEF TypeOK
<1>. QED  BY <1>1, <1>3, <1>6, <1>7 DEF PInv, Progress, Known

LEMMA GetLastOK == PInv /\ GetLast => PInv'
<1>. SUFFICES ASSUME PInv, GetLast PROVE PInv'
  OBVIOUS
<1>1. /\ pc = "last" /\ pc' = "done" /\ Cluster(endclust, actsize)
      /\ gotsize' = gotsize + actsize /\ result' = gotsize'
      /\ UNCHANGED <<disk, filesize, curclust, endclust, actsize, fatbufnum, fatbuf>>
  BY DEF GetLast, Return
<1>2. /\ TypeOK /\ gotsize + filesize = Wanted /\ actsize <= filesize
      /\ filesize \in Nat /\ actsize \in Nat /\ gotsize \in Nat /\ endclust \in Entry
  BY <1>1 DEF PInv, TypeOK, Progress
<1>3. /\ fat' \in [Number -> Entry] /\ start' \in Entry /\ size' \in Filesizes
      /\ maxsize' \in Maxsizes /\ Wanted' = Wanted /\ Wanted \in Nat
  BY <1>1, <1>2, DiskKept
<1>4. endclust \in Nat
  BY <1>2, Entries
<1>5. /\ buffer' \in Seq(Byte \cup {GARBAGE}) /\ Len(buffer') = gotsize'
      /\ faults' \in 0 .. MaxFaults /\ hidden' \in BOOLEAN
  BY <1>1, <1>2, <1>4, Loaded
<1>6. gotsize' \in Nat /\ gotsize' <= Wanted /\ result' \in -1 .. Wanted
  BY <1>1, <1>2, <1>3
<1>7. TypeOK'
  BY <1>1, <1>2, <1>3, <1>5, <1>6 DEF TypeOK
<1>. QED  BY <1>1, <1>7 DEF PInv, Progress, Known

LEMMA NextOK == PInv /\ [Next]_vars => PInv'
<1>1. ASSUME PInv, UNCHANGED vars PROVE PInv'
  BY <1>1 DEF vars, disk, PInv, TypeOK, Progress, Known, Wanted
<1>. QED  BY <1>1, LoadOK, SearchOK, GetRunOK, NextRunOK, GetRestOK, GetLastOK DEF Next

\* Whatever the FAT holds and whatever reads fail, what get_contents writes stays
\* within what fatload was asked for, and it looks up no cluster outside of the
\* FAT, for clusters, blocks and caches of any size.
THEOREM LoadInBounds == Spec => []TypeOK
<1>1. PInv => TypeOK
  BY DEF PInv
<1>. QED  BY <1>1, InitOK, NextOK, PTL DEF Spec
-----------------------------------------------------------------------------
(* The chain.  The library's induction theorems have an operator for a     *)
(* parameter, the one about well-founded relations has not: a set of       *)
(* numbers that has 0 and, with a number, the next one, has them all.      *)

LEMMA LeastNat ==
  ASSUME NEW T, T \subseteq Nat, T # {}
  PROVE  \E x \in T : \A y \in T : x <= y
<1>. DEFINE R == OpToRel(<, Nat)
<1>1. IsWellFoundedOn(R, Nat)
  BY NatLessThanWellFounded
<1>2. \A y, x \in Nat : y < x => <<y, x>> \in R
  BY DEF OpToRel
<1>. HIDE DEF R
<1>3. PICK x \in T : \A y \in T : ~ (<<y, x>> \in R)
  BY <1>1, WFMin
<1>4. ASSUME NEW y \in T PROVE x <= y
  <2>1. ~ (y < x)
    BY <1>2, <1>3
  <2>. QED  BY <2>1
<1>. QED  BY <1>4

LEMMA Induction ==
  ASSUME NEW T, 0 \in T, \A n \in Nat : n \in T => n + 1 \in T
  PROVE  Nat \subseteq T
<1>. DEFINE U == Nat \ T
<1>. SUFFICES ASSUME U # {} PROVE FALSE
  OBVIOUS
<1>1. PICK x \in U : \A y \in U : x <= y
  BY LeastNat
<1>2. x \in Nat /\ x # 0
  OBVIOUS
<1>3. x - 1 \in Nat /\ x - 1 \in T
  BY <1>1, <1>2
<1>4. (x - 1) + 1 \in T
  BY <1>3
<1>. QED  BY <1>2, <1>4

\* The cluster after x, in the FAT f
After(f, x) == IF x \in Number THEN f[x] ELSE FREE

\* The first n + 1 clusters of the chain from s on
Prefix(f, s, n) ==
  {g \in [0 .. n -> Entry] : g[0] = s /\ \A k \in 0 .. n - 1 : g[k + 1] = After(f, g[k])}

LEMMA AfterType == \A f \in [Number -> Entry] : \A x : After(f, x) \in Entry
BY Entries DEF After

\* There are such clusters for every n,
LEMMA PrefixExists ==
  ASSUME NEW f \in [Number -> Entry], NEW s \in Entry
  PROVE  \A n \in Nat : Prefix(f, s, n) # {}
<1>. DEFINE T == {n \in Nat : Prefix(f, s, n) # {}}
<1>1. 0 \in T
  <2>1. [k \in 0 .. 0 |-> s] \in Prefix(f, s, 0)
    BY DEF Prefix
  <2>. QED  BY <2>1
<1>2. ASSUME NEW n \in Nat, n \in T PROVE n + 1 \in T
  <2>1. PICK g : g \in Prefix(f, s, n)
    BY <1>2
  <2>2. g \in [0 .. n -> Entry] /\ g[0] = s /\ \A k \in 0 .. n - 1 : g[k + 1] = After(f, g[k])
    BY <2>1 DEF Prefix
  <2>. DEFINE h == [k \in 0 .. n + 1 |-> IF k <= n THEN g[k] ELSE After(f, g[n])]
  <2>3. h \in [0 .. n + 1 -> Entry]
    BY <2>2, AfterType
  <2>4. (\A k \in 0 .. n : h[k] = g[k]) /\ h[n + 1] = After(f, g[n])
    OBVIOUS
  <2>. HIDE DEF h
  <2>5. ASSUME NEW k \in 0 .. n PROVE h[k + 1] = After(f, h[k])
    <3>1. CASE k = n
      BY <2>4, <3>1
    <3>2. CASE k # n
      <4>1. k \in 0 .. n - 1 /\ k + 1 \in 0 .. n
        BY <3>2
      <4>. QED  BY <2>2, <2>4, <4>1
    <3>. QED  BY <3>1, <3>2
  <2>6. h[0] = s
    BY <2>2, <2>4
  <2>7. h \in Prefix(f, s, n + 1)
    BY <2>3, <2>5, <2>6 DEF Prefix
  <2>. QED  BY <2>7
<1>. HIDE DEF T
<1>3. Nat \subseteq T
  BY <1>1, <1>2, Induction
<1>. QED  BY <1>3 DEF T

\* and they are the same in any two such prefixes.
LEMMA PrefixUnique ==
  ASSUME NEW f, NEW s
  PROVE  \A n, m, o \in Nat : \A g \in Prefix(f, s, m), h \in Prefix(f, s, o) :
           n <= m /\ n <= o => g[n] = h[n]
<1>. DEFINE Agree(n) == \A m, o \in Nat : \A g \in Prefix(f, s, m), h \in Prefix(f, s, o) :
                          n <= m /\ n <= o => g[n] = h[n]
            T == {n \in Nat : Agree(n)}
<1>1. 0 \in T
  <2>1. Agree(0)
    BY DEF Prefix
  <2>. QED  BY <2>1
<1>2. ASSUME NEW n \in Nat, n \in T PROVE n + 1 \in T
  <2>1. ASSUME NEW m \in Nat, NEW o \in Nat, NEW g \in Prefix(f, s, m), NEW h \in Prefix(f, s, o),
               n + 1 <= m, n + 1 <= o
        PROVE  g[n + 1] = h[n + 1]
    <3>1. n \in 0 .. m - 1 /\ n \in 0 .. o - 1 /\ n <= m /\ n <= o
      BY <2>1
    <3>2. g[n] = h[n]
      BY <1>2, <3>1
    <3>3. g[n + 1] = After(f, g[n]) /\ h[n + 1] = After(f, h[n])
      BY <3>1 DEF Prefix
    <3>. QED  BY <3>2, <3>3
  <2>2. Agree(n + 1)
    BY <2>1
  <2>. QED  BY <2>2
<1>. HIDE DEF T
<1>3. Nat \subseteq T
  BY <1>1, <1>2, Induction
<1>4. ASSUME NEW n \in Nat PROVE Agree(n)
  BY <1>3 DEF T
<1>. QED  BY <1>4

\* What Chain is of a FAT f and a first cluster s
ChainOf(f, s) ==
  CHOOSE c : c = [k \in Nat |->
    IF k = 0 THEN s ELSE IF c[k - 1] \in Number THEN f[c[k - 1]] ELSE FREE]

LEMMA ChainIs == Chain = ChainOf(fat, start)
BY DEF Chain, ChainOf

\* The chain has the first cluster, and after each cluster the one the FAT tells.
LEMMA ChainOfIs ==
  ASSUME NEW f \in [Number -> Entry], NEW s \in Entry
  PROVE  /\ ChainOf(f, s)[0] = s
         /\ \A k \in Nat : ChainOf(f, s)[k + 1] = After(f, ChainOf(f, s)[k])
<1>. DEFINE G(n) == CHOOSE g : g \in Prefix(f, s, n)
            w == [k \in Nat |-> G(k)[k]]
            v == [k \in Nat |-> IF k = 0 THEN s ELSE IF w[k - 1] \in Number THEN f[w[k - 1]] ELSE FREE]
<1>1. \A n \in Nat : G(n) \in Prefix(f, s, n)
  BY PrefixExists
<1>2. \A k \in Nat : w[k] = G(k)[k]
  OBVIOUS
<1>. HIDE DEF G
<1>3. w[0] = s
  BY <1>1, <1>2 DEF Prefix
<1>4. ASSUME NEW k \in Nat PROVE w[k + 1] = After(f, w[k])
  <2>1. G(k + 1) \in Prefix(f, s, k + 1) /\ G(k) \in Prefix(f, s, k)
    BY <1>1
  <2>2. G(k + 1)[k + 1] = After(f, G(k + 1)[k])
    <3>1. k \in 0 .. (k + 1) - 1
      OBVIOUS
    <3>. QED  BY <2>1, <3>1 DEF Prefix
  <2>3. G(k + 1)[k] = G(k)[k]
    BY <2>1, PrefixUnique
  <2>. QED  BY <1>2, <2>2, <2>3
<1>5. w = v
  <2>1. ASSUME NEW k \in Nat PROVE w[k] = v[k]
    <3>1. CASE k = 0
      BY <1>3, <3>1
    <3>2. CASE k # 0
      <4>1. k - 1 \in Nat /\ (k - 1) + 1 = k
        BY <3>2
      <4>2. w[k] = After(f, w[k - 1])
        BY <1>4, <4>1
      <4>. QED  BY <3>2, <4>2 DEF After
    <3>. QED  BY <3>1, <3>2
  <2>. QED  BY <2>1
<1>. HIDE DEF w
<1>6. \E c : c = [k \in Nat |->
        IF k = 0 THEN s ELSE IF c[k - 1] \in Number THEN f[c[k - 1]] ELSE FREE]
  BY <1>5
<1>. DEFINE c == ChainOf(f, s)
<1>7. c = [k \in Nat |-> IF k = 0 THEN s ELSE IF c[k - 1] \in Number THEN f[c[k - 1]] ELSE FREE]
  BY <1>6 DEF ChainOf
<1>. HIDE DEF c
<1>8. c[0] = s
  BY <1>7
<1>9. ASSUME NEW k \in Nat PROVE c[k + 1] = After(f, c[k])
  <2>1. k + 1 \in Nat /\ k + 1 # 0 /\ (k + 1) - 1 = k
    OBVIOUS
  <2>. QED  BY <1>7, <2>1 DEF After
<1>. QED  BY <1>8, <1>9 DEF c

\* The chain of the FAT that is loaded from
Ch == ChainOf(fat, start)

LEMMA ChainSteps ==
  ASSUME TypeOK
  PROVE  Ch[0] = start /\ \A k \in Nat : Ch[k + 1] = After(fat, Ch[k])
<1>1. fat \in [Number -> Entry] /\ start \in Entry
  BY Entries DEF TypeOK
<1>. QED  BY <1>1, ChainOfIs DEF Ch

-----------------------------------------------------------------------------
(* What is loaded.  Until a read that failed has gone unnoticed, what is   *)
(* cached is what the FAT holds, what is in the buffer are whole clusters  *)
(* of the chain, and the run that is being gathered continues it.          *)

\* The first n bytes of buf are those of the chain c
IsFile(buf, n, c) ==
  \A p \in 1 .. n : buf[p] = <<c[(p - 1) \div bytesperclust], (p - 1) % bytesperclust>>

\* The run has the m + 1 clusters from number q of the chain on
InRun(q, m) ==
  /\ gotsize = bytesperclust * q /\ actsize = bytesperclust * (m + 1)
  /\ endclust = curclust + m /\ \A j \in 0 .. m : Ch[q + j] = curclust + j

\* cluster number q of the chain is the last, and is all that is to be loaded yet
AtLast(q) == gotsize = bytesperclust * q /\ endclust = Ch[q]

Cached == fatbufnum # -1 =>
            \A o \in 0 .. FATBUFSIZE - 1 : fatbuf[o] = After(fat, fatbufnum * FATBUFSIZE + o)

Followed ==
  ~hidden =>
    /\ Cached /\ IsFile(buffer, gotsize, Ch)
    /\ pc \in {"search", "getit"} => \E q, m \in Nat : InRun(q, m)
    /\ pc = "getit" => actsize < filesize
    /\ pc = "next" => /\ filesize > 0
                      /\ \E q \in Nat : gotsize = bytesperclust * (q + 1) /\ endclust = Ch[q]
    /\ pc = "last" => /\ actsize = filesize /\ actsize <= bytesperclust
                      /\ \E q \in Nat : AtLast(q)
    /\ pc = "done" => /\ result = gotsize
                      /\ Whole => result = Wanted

LEMMA Quotient ==
  \A b \in Nat \ {0}, q, j \in Nat : /\ (b * q + j) \div b = q + j \div b
                                     /\ (b * q + j) % b = j % b
<1>. SUFFICES ASSUME NEW b \in Nat \ {0}, NEW q \in Nat, NEW j \in Nat
              PROVE  (b * q + j) \div b = q + j \div b /\ (b * q + j) % b = j % b
  OBVIOUS
<1>1. \A m \in Nat : m % b \in 0 .. b - 1 /\ m \div b \in Nat /\ m = b * (m \div b) + (m % b)
  OBVIOUS
<1>2. ASSUME NEW d \in Nat, NEW e \in Nat, NEW r \in 0 .. b - 1, NEW t \in 0 .. b - 1,
             b * d + r = b * e + t
      PROVE  d = e /\ r = t
  <2>1. ASSUME NEW x \in Nat, NEW y \in Nat, NEW u \in 0 .. b - 1, NEW v \in 0 .. b - 1,
               b * x + u = b * y + v, x < y
        PROVE  FALSE
    <3>1. PICK z \in Nat : y = x + 1 + z
      <4>1. y - x - 1 \in Nat /\ y = x + 1 + (y - x - 1)
        BY <2>1
      <4>. QED  BY <4>1
    <3>2. b * y = b * x + b + b * z /\ b * z \in Nat /\ b * x \in Nat
      BY <3>1
    <3>. QED  BY <2>1, <3>2
  <2>2. ~(d < e) /\ ~(e < d)
    BY <1>2, <2>1
  <2>3. d = e
    BY <2>2
  <2>. QED  BY <1>2, <2>3
<1>3. b * q \in Nat /\ b * q + j \in Nat
  OBVIOUS
<1>4. b * (q + j \div b) = b * q + b * (j \div b)
  BY <1>1
<1>. DEFINE d == (b * q + j) \div b
            e == q + j \div b
            r == (b * q + j) % b
            t == j % b
<1>5. d \in Nat /\ e \in Nat /\ r \in 0 .. b - 1 /\ t \in 0 .. b - 1
  BY <1>1, <1>3
<1>6. b * d + r = b * e + t
  <2>1. b * d + r = b * q + j
    BY <1>1, <1>3
  <2>2. b * e + t = b * q + (b * (j \div b) + t)
    <3>1. b * (j \div b) \in Nat /\ t \in Nat
      BY <1>1
    <3>. QED  BY <1>3, <1>4, <3>1
  <2>3. b * (j \div b) + t = j
    BY <1>1
  <2>. QED  BY <2>1, <2>2, <2>3
<1>. HIDE DEF d, e, r, t
<1>7. d = e /\ r = t
  BY <1>2, <1>5, <1>6
<1>. QED  BY <1>7 DEF d, e, r, t

LEMMA QuotientLess ==
  \A b \in Nat \ {0}, m, j \in Nat : j < b * m => j \div b \in 0 .. m - 1
<1>. SUFFICES ASSUME NEW b \in Nat \ {0}, NEW m \in Nat, NEW j \in Nat, j < b * m, j \div b >= m
              PROVE  FALSE
  OBVIOUS
<1>1. j % b \in 0 .. b - 1 /\ j \div b \in Nat /\ j = b * (j \div b) + (j % b)
  OBVIOUS
<1>2. PICK z \in Nat : j \div b = m + z
  <2>1. (j \div b) - m \in Nat /\ j \div b = m + ((j \div b) - m)
    BY <1>1
  <2>. QED  BY <2>1
<1>3. b * (j \div b) = b * m + b * z /\ b * z \in Nat /\ b * m \in Nat
  BY <1>2
<1>. QED  BY <1>1, <1>3

\* Nothing that is counted as a fault has happened.
LEMMA NoShort ==
  ASSUME NEW k \in Nat, Short(k), hidden \in BOOLEAN, ~hidden'
  PROVE  k = 0 /\ ~hidden
<1>1. hidden' = (hidden \/ k > 0)
  BY DEF Short
<1>2. ~hidden /\ ~(k > 0)
  BY <1>1, Zenon
<1>. QED  BY <1>2

\* A look-up that no failed read has disturbed gives what the FAT holds.
LEMMA LookUpTrue ==
  ASSUME TypeOK, NEW entry \in Number, NEW value \in Entry, FatEntry(entry, value),
         ~hidden', ~hidden => Cached, UNCHANGED disk
  PROVE  ~hidden /\ Cached' /\ value = After(fat, entry)
<1>. DEFINE bufnum == entry \div FATBUFSIZE
            OnDisk(e) == IF e \in Number THEN fat[e] ELSE FREE
<1>1. fat' = fat /\ hidden \in BOOLEAN /\ \A e : OnDisk(e) = After(fat, e)
  BY DEF TypeOK, disk, After
<1>2. value = fatbuf'[entry % FATBUFSIZE]
  BY DEF FatEntry
<1>3. /\ fatbufnum' = bufnum /\ ~hidden
      /\ \A o \in 0 .. FATBUFSIZE - 1 : fatbuf'[o] = After(fat, bufnum * FATBUFSIZE + o)
  <2>1. CASE bufnum = fatbufnum /\ UNCHANGED <<fatbufnum, fatbuf, faults, hidden>>
    <3>1. bufnum # -1
      <4>1. \A b \in Nat \ {0}, m \in Nat : m \div b \in Nat
        OBVIOUS
      <4>2. entry \in Nat /\ FATBUFSIZE \in Nat \ {0}
        BY Constants, Entries
      <4>3. bufnum \in Nat
        BY <4>1, <4>2
      <4>. QED  BY <4>3
    <3>. QED  BY <1>1, <2>1, <3>1 DEF Cached
  <2>2. CASE \E n \in 0 .. FATBUFBLOCKS, junk \in Entry :
               /\ Short(Less(n, FATBUFBLOCKS)) /\ (n = FATBUFBLOCKS => junk = FREE)
               /\ fatbuf' = [o \in 0 .. FATBUFSIZE - 1 |->
                               IF o < n * PerBlock THEN OnDisk(bufnum * FATBUFSIZE + o) ELSE junk]
               /\ fatbufnum' = bufnum
    <3>1. PICK n \in 0 .. FATBUFBLOCKS, junk \in Entry :
            /\ Short(Less(n, FATBUFBLOCKS))
            /\ fatbuf' = [o \in 0 .. FATBUFSIZE - 1 |->
                            IF o < n * PerBlock THEN OnDisk(bufnum * FATBUFSIZE + o) ELSE junk]
            /\ fatbufnum' = bufnum
      BY <2>2
    <3>2. Less(n, FATBUFBLOCKS) \in Nat
      BY DEF Less
    <3>3. Less(n, FATBUFBLOCKS) = 0 /\ ~hidden
      BY <1>1, <3>1, <3>2, NoShort
    <3>4. n = FATBUFBLOCKS
      BY <3>3, Constants DEF Less
    <3>5. n * PerBlock = FATBUFSIZE
      BY <3>4 DEF FATBUFSIZE
    <3>6. \A o \in 0 .. FATBUFSIZE - 1 : o < n * PerBlock
      BY <3>5, Constants
    <3>7. \A o \in 0 .. FATBUFSIZE - 1 : fatbuf'[o] = OnDisk(bufnum * FATBUFSIZE + o)
      BY <3>1, <3>6
    <3>. QED  BY <1>1, <3>1, <3>3, <3>7
  <2>. QED  BY <2>1, <2>2, Zenon DEF FatEntry
<1>4. Cached'
  BY <1>1, <1>3 DEF Cached
<1>5. /\ entry % FATBUFSIZE \in 0 .. FATBUFSIZE - 1
      /\ bufnum * FATBUFSIZE + (entry % FATBUFSIZE) = entry
  <2>1. \A b \in Nat \ {0}, m \in Nat : /\ m % b \in 0 .. b - 1 /\ m \div b \in Nat
                                       /\ m = b * (m \div b) + (m % b)
    OBVIOUS
  <2>2. entry \in Nat /\ FATBUFSIZE \in Nat \ {0}
    BY Constants, Entries
  <2>3. FATBUFSIZE * bufnum = bufnum * FATBUFSIZE
    BY <2>1, <2>2
  <2>. QED  BY <2>1, <2>2, <2>3
<1>6. fatbuf'[entry % FATBUFSIZE] = After(fat, bufnum * FATBUFSIZE + (entry % FATBUFSIZE))
  BY <1>3, <1>5
<1>. QED  BY <1>2, <1>3, <1>4, <1>5, <1>6

LEMMA Append3 ==
  \A s \in Seq(Byte \cup {GARBAGE}), n \in Nat : \A f \in [1 .. n -> Byte \cup {GARBAGE}] :
    /\ \A p \in 1 .. Len(s) : (s \o f)[p] = s[p]
    /\ \A p \in Len(s) + 1 .. Len(s) + n : (s \o f)[p] = f[p - Len(s)]
OBVIOUS

\* A read that has not failed brings the bytes from cluster clustnum on.
LEMMA ReadTrue ==
  ASSUME TypeOK, NEW clustnum \in Nat, NEW nbytes \in Nat, Cluster(clustnum, nbytes), ~hidden'
  PROVE  /\ ~hidden
         /\ \A p \in 1 .. gotsize : buffer'[p] = buffer[p]
         /\ \A p \in gotsize + 1 .. gotsize + nbytes :
              buffer'[p] = ByteAt(clustnum, p - gotsize - 1)
<1>. DEFINE whole == nbytes \div FS_BLOCK_SIZE
            part  == Less(0, nbytes % FS_BLOCK_SIZE)
<1>1. PICK n \in 0 .. whole, rest \in 0 .. part :
        /\ Short(Less(n, whole) + Less(rest, part))
        /\ buffer' = buffer \o
             [k \in 1 .. nbytes |->
                IF k <= n * FS_BLOCK_SIZE \/ (k > whole * FS_BLOCK_SIZE /\ rest = 1)
                THEN ByteAt(clustnum, k - 1) ELSE GARBAGE]
  BY DEF Cluster
<1>2. \A m, c : Less(m, c) \in {0, 1}
  BY DEF Less
<1>3. Less(n, whole) + Less(rest, part) = 0 /\ ~hidden
  <2>1. Less(n, whole) + Less(rest, part) \in Nat
    BY <1>2
  <2>2. hidden \in BOOLEAN
    BY DEF TypeOK
  <2>. QED  BY <1>1, <2>1, <2>2, NoShort
<1>4. Less(n, whole) = 0 /\ Less(rest, part) = 0
  BY <1>2, <1>3
<1>5. /\ whole \in Nat /\ nbytes % FS_BLOCK_SIZE \in Nat
      /\ nbytes = whole * FS_BLOCK_SIZE + (nbytes % FS_BLOCK_SIZE)
  <2>1. \A b \in Nat \ {0}, m \in Nat : m % b \in Nat /\ m \div b \in Nat /\ m = b * (m \div b) + (m % b)
    OBVIOUS
  <2>2. \A b \in Nat \ {0}, d \in Nat : b * d = d * b
    OBVIOUS
  <2>. QED  BY <2>1, <2>2, Constants
<1>6. n = whole
  <2>. HIDE DEF whole
  <2>. QED  BY <1>4, <1>5 DEF Less
<1>7. ASSUME NEW k \in 1 .. nbytes PROVE k <= n * FS_BLOCK_SIZE \/ (k > whole * FS_BLOCK_SIZE /\ rest = 1)
  <2>. DEFINE w == whole * FS_BLOCK_SIZE
              r == nbytes % FS_BLOCK_SIZE
  <2>1. w \in Nat /\ r \in Nat /\ nbytes = w + r
    BY <1>5, Constants
  <2>2. part = (IF 0 < r THEN 1 ELSE 0)
    BY DEF Less
  <2>3. ~(rest < part)
    BY <1>4 DEF Less
  <2>4. n * FS_BLOCK_SIZE = w
    BY <1>6
  <2>. HIDE DEF w, r, whole, part
  <2>5. k <= w \/ (k > w /\ r > 0)
    BY <2>1
  <2>6. r > 0 => rest = 1
    BY <2>2, <2>3
  <2>. QED  BY <2>4, <2>5, <2>6 DEF w
<1>. DEFINE f == [k \in 1 .. nbytes |->
                    IF k <= n * FS_BLOCK_SIZE \/ (k > whole * FS_BLOCK_SIZE /\ rest = 1)
                    THEN ByteAt(clustnum, k - 1) ELSE GARBAGE]
<1>8. \A k \in 1 .. nbytes : f[k] = ByteAt(clustnum, k - 1)
  BY <1>7
<1>9. \A k \in 1 .. nbytes : ByteAt(clustnum, k - 1) \in Byte
  <2>1. \A b \in Nat \ {0}, m \in Nat : m \div b \in Nat /\ m % b \in 0 .. b - 1
    OBVIOUS
  <2>2. \A m \in Nat : m \div bytesperclust \in Nat /\ m % bytesperclust \in 0 .. bytesperclust - 1
    BY <2>1, Constants
  <2>3. \A m \in Nat : ByteAt(clustnum, m) \in Byte
    BY <2>2 DEF ByteAt, Byte
  <2>. QED  BY <2>3
<1>10. f \in [1 .. nbytes -> Byte \cup {GARBAGE}]
  BY <1>9
<1>11. buffer' = buffer \o f
  BY <1>1
<1>. HIDE DEF f
<1>12. buffer \in Seq(Byte \cup {GARBAGE}) /\ Len(buffer) = gotsize /\ gotsize \in Nat
  BY DEF TypeOK
<1>13. /\ \A p \in 1 .. gotsize : (buffer \o f)[p] = buffer[p]
       /\ \A p \in gotsize + 1 .. gotsize + nbytes : (buffer \o f)[p] = f[p - gotsize]
  BY <1>10, <1>12, Append3
<1>14. \A p \in gotsize + 1 .. gotsize + nbytes : p - gotsize \in 1 .. nbytes
  BY <1>12
<1>. QED  BY <1>3, <1>8, <1>11, <1>13, <1>14

\* So the file goes on, if the clusters read are the next ones of the chain.
LEMMA FileGoesOn ==
  ASSUME TypeOK, NEW clustnum \in Nat, NEW nbytes \in Nat, Cluster(clustnum, nbytes), ~hidden',
         IsFile(buffer, gotsize, Ch), UNCHANGED disk,
         NEW q \in Nat, gotsize = bytesperclust * q, NEW m \in Nat, nbytes <= bytesperclust * m,
         \A j \in 0 .. m - 1 : Ch[q + j] = clustnum + j
  PROVE  IsFile(buffer', gotsize + nbytes, Ch')
<1>1. Ch' = Ch
  BY DEF Ch, disk
<1>2. /\ \A p \in 1 .. gotsize : buffer'[p] = buffer[p]
      /\ \A p \in gotsize + 1 .. gotsize + nbytes :
           buffer'[p] = ByteAt(clustnum, p - gotsize - 1)
  BY ReadTrue
<1>3. bytesperclust \in Nat \ {0} /\ gotsize \in Nat
  BY Constants DEF TypeOK
<1>4. ASSUME NEW p \in 1 .. gotsize + nbytes
      PROVE  buffer'[p] = <<Ch[(p - 1) \div bytesperclust], (p - 1) % bytesperclust>>
  <2>1. CASE p \in 1 .. gotsize
    BY <1>2, <2>1 DEF IsFile
  <2>2. CASE p \notin 1 .. gotsize
    <3>. DEFINE j == p - gotsize - 1
    <3>1. p \in gotsize + 1 .. gotsize + nbytes /\ j \in Nat /\ j < nbytes /\ p - 1 = gotsize + j
      BY <1>3, <2>2
    <3>2. bytesperclust * m \in Nat
      BY <1>3
    <3>3. j < bytesperclust * m
      BY <3>1, <3>2
    <3>4. p - 1 = bytesperclust * q + j
      BY <3>1
    <3>5. buffer'[p] = ByteAt(clustnum, j)
      BY <1>2, <3>1
    <3>. HIDE DEF j
    <3>6. j \div bytesperclust \in 0 .. m - 1
      BY <1>3, <3>1, <3>3, QuotientLess
    <3>7. /\ (p - 1) \div bytesperclust = q + j \div bytesperclust
          /\ (p - 1) % bytesperclust = j % bytesperclust
      <4>1. \A b \in Nat \ {0} : /\ (b * q + j) \div b = q + j \div b
                                 /\ (b * q + j) % b = j % b
        BY <3>1, Quotient
      <4>. QED  BY <1>3, <3>4, <4>1
    <3>8. Ch[q + j \div bytesperclust] = clustnum + j \div bytesperclust
      BY <3>6
    <3>. QED  BY <3>5, <3>7, <3>8 DEF ByteAt
  <2>. QED  BY <2>1, <2>2
<1>. QED  BY <1>1, <1>4 DEF IsFile

-----------------------------------------------------------------------------
\* What is told of the chain does not change with the run.
LEMMA ChainIsCh == Chain = Ch
BY ChainIs DEF Ch

LEMMA ChKept == ASSUME UNCHANGED disk PROVE Ch' = Ch /\ Whole' = Whole
<1>1. Ch' = Ch
  BY DEF Ch, disk
<1>2. Chain = Ch
  BY ChainIsCh
<1>3. (Chain = Ch)'
  BY ChainIsCh, PTL
<1>4. Wanted' = Wanted
  BY DEF Wanted, disk
<1>. QED  BY <1>1, <1>2, <1>3, <1>4 DEF Whole

\* A file whose chain ends or leaves the volume too early is not whole.
LEMMA NotWhole ==
  ASSUME TypeOK, NEW q \in Nat, bytesperclust * q < Wanted, Ch[q] \notin Data
  PROVE  ~Whole
<1>1. Chain = Ch
  BY ChainIsCh
<1>2. q \in 0 .. (Wanted - 1) \div bytesperclust
  <2>1. Wanted \in Nat /\ bytesperclust \in Nat \ {0}
    BY WantedType, Constants DEF TypeOK
  <2>2. bytesperclust * q \in Nat
    BY <2>1
  <2>3. PICK j \in Nat : Wanted - 1 = bytesperclust * q + j
    <3>1. (Wanted - 1) - bytesperclust * q \in Nat
      BY <2>1, <2>2
    <3>2. Wanted - 1 = bytesperclust * q + ((Wanted - 1) - bytesperclust * q)
      BY <2>1, <2>2
    <3>. QED  BY <3>1, <3>2
  <2>4. (Wanted - 1) \div bytesperclust = q + j \div bytesperclust
    <3>1. \A b \in Nat \ {0} : (b * q + j) \div b = q + j \div b
      BY Quotient
    <3>. QED  BY <2>1, <2>3, <3>1
  <2>5. j \div bytesperclust \in Nat
    <3>1. \A b \in Nat \ {0} : j \div b \in Nat
      OBVIOUS
    <3>. QED  BY <2>1, <3>1
  <2>. QED  BY <2>4, <2>5
<1>. QED  BY <1>1, <1>2 DEF Whole

FInv == PInv /\ Followed

LEMMA InitFollows == Init => Followed
BY DEF Init, Followed, Cached, IsFile

LEMMA LoadFollows == FInv /\ Load => Followed'
<1>. SUFFICES ASSUME FInv, Load, ~hidden' PROVE Followed'
  BY DEF Followed
<1>1. /\ pc = "load" /\ pc' = "search" /\ actsize' = bytesperclust /\ curclust' = start /\ endclust' = start
      /\ UNCHANGED <<disk, gotsize, buffer, fatbufnum, fatbuf, hidden>>
  BY DEF Load
<1>2. TypeOK /\ gotsize = 0 /\ Cached /\ start \in Nat
  BY <1>1, Entries DEF FInv, PInv, Progress, Followed, TypeOK
<1>3. Ch' = Ch /\ Ch[0] = start
  BY <1>1, <1>2, ChKept, ChainSteps
<1>4. Cached'
  BY <1>1, <1>2 DEF Cached, disk, After
<1>5. InRun(0, 0)'
  <2>1. \A j \in 0 .. 0 : Ch[0 + j] = start + j
    BY <1>2, <1>3
  <2>. QED  BY <1>1, <1>2, <1>3, <2>1, Constants DEF InRun
<1>6. \E q, m \in Nat : InRun(q, m)'
  BY <1>5
<1>7. IsFile(buffer, gotsize, Ch)'
  BY <1>1, <1>2 DEF IsFile
<1>. QED  BY <1>1, <1>4, <1>6, <1>7 DEF Followed

\* A cluster that the chain has next and that lies next to the last joins the run.
LEMMA SearchFollows == FInv /\ Search => Followed'
<1>. SUFFICES ASSUME FInv, Search, ~hidden' PROVE Followed'
  BY DEF Followed
<1>1. /\ pc = "search" /\ actsize < filesize
      /\ UNCHANGED <<disk, filesize, curclust, gotsize, buffer>>
  BY DEF Search
<1>2. PICK newclust \in Entry :
        /\ FatEntry(endclust, newclust)
        /\ \/ pc' = "getit" /\ UNCHANGED <<endclust, actsize, result>>
           \/ CHECK_CLUST(newclust) /\ pc' = "done" /\ result' = gotsize
           \/ /\ newclust - 1 = endclust /\ endclust' = newclust
              /\ actsize' = actsize + bytesperclust /\ pc' = pc
  BY DEF Search, Return
<1>3. TypeOK /\ endclust \in Number /\ (~hidden => Cached)
  BY <1>1 DEF FInv, PInv, Known, Followed, TypeOK
<1>4. ~hidden /\ Cached' /\ newclust = After(fat, endclust)
  BY <1>1, <1>2, <1>3, LookUpTrue
<1>5. Ch' = Ch /\ \A k \in Nat : Ch[k + 1] = After(fat, Ch[k])
  BY <1>1, <1>3, ChKept, ChainSteps
<1>6. IsFile(buffer, gotsize, Ch)'
  BY <1>1, <1>4, <1>5 DEF FInv, Followed, IsFile
<1>7. PICK q \in Nat, m \in Nat : InRun(q, m)
  BY <1>1, <1>4 DEF FInv, Followed
<1>8. /\ endclust \in Nat /\ curclust \in Nat /\ newclust \in Nat /\ bytesperclust \in Nat /\ actsize \in Nat
  <2>1. endclust \in Nat /\ curclust \in Nat /\ newclust \in Nat /\ actsize \in Nat
    BY <1>3, Entries DEF TypeOK
  <2>. QED  BY <2>1, Constants
<1>9. CASE pc' = "getit" /\ UNCHANGED <<endclust, actsize, result>>
  <2>1. InRun(q, m)'
    BY <1>1, <1>5, <1>7, <1>9 DEF InRun
  <2>2. \E x, y \in Nat : InRun(x, y)'
    BY <2>1
  <2>. QED  BY <1>1, <1>4, <1>6, <1>9, <2>2 DEF Followed
<1>10. CASE CHECK_CLUST(newclust) /\ pc' = "done" /\ result' = gotsize
  <2>1. newclust \notin Data
    BY <1>10, Ended
  <2>2. gotsize = bytesperclust * q /\ actsize = bytesperclust * (m + 1) /\ Ch[q + m] = endclust
    BY <1>7, <1>8 DEF InRun
  <2>3. bytesperclust * q + bytesperclust * (m + 1) = bytesperclust * ((q + m) + 1)
    BY <1>8
  <2>4. gotsize + filesize = Wanted /\ gotsize \in Nat /\ filesize \in Nat
    BY <1>1 DEF FInv, PInv, Progress, TypeOK
  <2>5. bytesperclust * ((q + m) + 1) < Wanted
    BY <1>1, <1>8, <2>2, <2>3, <2>4
  <2>6. Ch[(q + m) + 1] = newclust /\ (q + m) + 1 \in Nat
    BY <1>4, <1>5, <2>2
  <2>7. ~Whole /\ Whole' = Whole
    BY <1>1, <1>3, <2>1, <2>5, <2>6, NotWhole, ChKept
  <2>. QED  BY <1>1, <1>4, <1>6, <1>10, <2>7 DEF Followed
<1>11. CASE /\ newclust - 1 = endclust /\ endclust' = newclust
            /\ actsize' = actsize + bytesperclust /\ pc' = pc
  <2>1. actsize' = bytesperclust * ((m + 1) + 1)
    BY <1>7, <1>8, <1>11 DEF InRun
  <2>2. Ch[q + m] = endclust
    BY <1>7, <1>8 DEF InRun
  <2>3. Ch[q + (m + 1)] = newclust
    <3>1. Ch[(q + m) + 1] = After(fat, Ch[q + m])
      BY <1>5
    <3>2. (q + m) + 1 = q + (m + 1)
      OBVIOUS
    <3>. QED  BY <1>4, <2>2, <3>1, <3>2
  <2>4. endclust' = curclust' + (m + 1) /\ newclust = curclust + (m + 1)
    BY <1>1, <1>7, <1>8, <1>11 DEF InRun
  <2>5. \A j \in 0 .. m + 1 : Ch[q + j] = curclust + j
    <3>1. ASSUME NEW j \in 0 .. m + 1 PROVE Ch[q + j] = curclust + j
      <4>1. CASE j \in 0 .. m
        BY <1>7, <4>1 DEF InRun
      <4>2. CASE j = m + 1
        BY <2>3, <2>4, <4>2
      <4>. QED  BY <4>1, <4>2
    <3>. QED  BY <3>1
  <2>6. InRun(q, m + 1)'
    <3>1. gotsize = bytesperclust * q
      BY <1>7 DEF InRun
    <3>. QED  BY <1>1, <1>5, <2>1, <2>4, <2>5, <3>1 DEF InRun
  <2>7. m + 1 \in Nat
    OBVIOUS
  <2>8. \E x, y \in Nat : InRun(x, y)'
    BY <2>6, <2>7
  <2>. QED  BY <1>1, <1>4, <1>6, <1>11, <2>8 DEF Followed
<1>. QED  BY <1>2, <1>9, <1>10, <1>11

\* A run that is not the last is read as a whole.
LEMMA GetRunFollows == FInv /\ GetRun => Followed'
<1>. SUFFICES ASSUME FInv, GetRun, ~hidden' PROVE Followed'
  BY DEF Followed
<1>1. /\ pc = "getit" /\ pc' = "next" /\ Cluster(curclust, actsize)
      /\ gotsize' = gotsize + actsize /\ filesize' = filesize - actsize
      /\ UNCHANGED <<disk, curclust, endclust, fatbufnum, fatbuf, result>>
  BY DEF GetRun, Got
<1>2. /\ TypeOK /\ filesize \in Nat /\ actsize \in Nat /\ gotsize \in Nat /\ curclust \in Nat
      /\ bytesperclust \in Nat
  BY <1>1, Entries, Constants DEF FInv, PInv, TypeOK
<1>3. ~hidden
  BY <1>1, <1>2, ReadTrue
<1>4. IsFile(buffer, gotsize, Ch) /\ Cached /\ actsize < filesize
  BY <1>1, <1>3 DEF FInv, Followed
<1>5. PICK q \in Nat, m \in Nat : InRun(q, m)
  BY <1>1, <1>3 DEF FInv, Followed
<1>6. Ch' = Ch
  BY <1>1, ChKept
<1>7. IsFile(buffer', gotsize + actsize, Ch')
  <2>1. m + 1 \in Nat /\ (m + 1) - 1 = m
    OBVIOUS
  <2>2. actsize <= bytesperclust * (m + 1) /\ gotsize = bytesperclust * q
    BY <1>2, <1>5 DEF InRun
  <2>3. \A j \in 0 .. (m + 1) - 1 : Ch[q + j] = curclust + j
    BY <1>5, <2>1 DEF InRun
  <2>. QED  BY <1>1, <1>2, <1>4, <2>1, <2>2, <2>3, FileGoesOn
<1>8. Cached'
  BY <1>1, <1>4 DEF Cached, disk, After
<1>9. gotsize' = bytesperclust * ((q + m) + 1) /\ endclust' = Ch'[q + m] /\ q + m \in Nat
  <2>1. bytesperclust * q + bytesperclust * (m + 1) = bytesperclust * ((q + m) + 1)
    BY <1>2
  <2>2. Ch[q + m] = endclust
    BY <1>5 DEF InRun
  <2>. QED  BY <1>1, <1>5, <1>6, <2>1, <2>2 DEF InRun
<1>10. filesize' > 0
  BY <1>1, <1>2, <1>4
<1>. QED  BY <1>1, <1>7, <1>8, <1>9, <1>10 DEF Followed

\* The next run begins with the cluster after the last one read, or the chain has ended.
LEMMA NextRunFollows == FInv /\ NextRun => Followed'
<1>. SUFFICES ASSUME FInv, NextRun, ~hidden' PROVE Followed'
  BY DEF Followed
<1>1. pc = "next" /\ UNCHANGED <<disk, filesize, actsize, gotsize, buffer>>
  BY DEF NextRun
<1>2. PICK newclust \in Entry :
        /\ FatEntry(endclust, newclust) /\ curclust' = newclust
        /\ \/ CHECK_CLUST(newclust) /\ pc' = "done" /\ result' = gotsize
           \/ endclust' = newclust /\ pc' = "search"
  BY DEF NextRun, Return
<1>3. /\ TypeOK /\ endclust \in Number /\ (~hidden => Cached) /\ actsize = bytesperclust
      /\ gotsize + filesize = Wanted /\ gotsize \in Nat /\ filesize \in Nat /\ bytesperclust \in Nat
  BY <1>1, Constants DEF FInv, PInv, Known, Progress, Followed, TypeOK
<1>4. ~hidden /\ Cached' /\ newclust = After(fat, endclust)
  BY <1>1, <1>2, <1>3, LookUpTrue
<1>5. Ch' = Ch /\ Whole' = Whole /\ Wanted' = Wanted /\ \A k \in Nat : Ch[k + 1] = After(fat, Ch[k])
  BY <1>1, <1>3, ChKept, ChainSteps, DiskKept
<1>6. IsFile(buffer, gotsize, Ch)'
  BY <1>1, <1>4, <1>5 DEF FInv, Followed, IsFile
<1>7. PICK q \in Nat : gotsize = bytesperclust * (q + 1) /\ endclust = Ch[q] /\ filesize > 0
  BY <1>1, <1>4 DEF FInv, Followed
<1>8. Ch[q + 1] = newclust /\ q + 1 \in Nat
  BY <1>4, <1>5, <1>7
<1>9. CASE CHECK_CLUST(newclust) /\ pc' = "done" /\ result' = gotsize
  <2>1. newclust \notin Data
    BY <1>9, Ended
  <2>2. bytesperclust * (q + 1) < Wanted
    BY <1>3, <1>7
  <2>3. ~Whole
    BY <1>3, <1>8, <2>1, <2>2, NotWhole
  <2>. QED  BY <1>1, <1>4, <1>5, <1>6, <1>9, <2>3 DEF Followed
<1>10. CASE endclust' = newclust /\ pc' = "search"
  <2>1. newclust \in Nat
    BY Entries
  <2>2. \A j \in 0 .. 0 : Ch[(q + 1) + j] = newclust + j
    BY <1>8, <2>1
  <2>3. actsize = bytesperclust * (0 + 1) /\ newclust = newclust + 0
    BY <1>3, <2>1
  <2>4. InRun(q + 1, 0)'
    BY <1>1, <1>2, <1>5, <1>7, <1>10, <2>2, <2>3 DEF InRun
  <2>5. \E x, y \in Nat : InRun(x, y)'
    BY <1>8, <2>4
  <2>. QED  BY <1>4, <1>6, <1>10, <2>5 DEF Followed
<1>. QED  BY <1>2, <1>9, <1>10

\* The last run, but for its last cluster.
LEMMA GetRestFollows == FInv /\ GetRest => Followed'
<1>. SUFFICES ASSUME FInv, GetRest, ~hidden' PROVE Followed'
  BY DEF Followed
<1>. DEFINE rest == actsize - bytesperclust
<1>1. /\ pc = "search" /\ pc' = "last" /\ actsize >= filesize /\ Cluster(curclust, rest)
      /\ gotsize' = gotsize + rest /\ filesize' = filesize - rest /\ actsize' = filesize'
      /\ UNCHANGED <<disk, curclust, endclust, fatbufnum, fatbuf, result>>
  BY DEF GetRest
<1>2. /\ TypeOK /\ filesize \in Nat /\ actsize \in Nat /\ gotsize \in Nat /\ curclust \in Nat
      /\ bytesperclust \in Nat /\ rest \in Nat
  <2>1. TypeOK /\ actsize >= bytesperclust
    BY <1>1 DEF FInv, PInv, Progress
  <2>2. filesize \in Nat /\ actsize \in Nat /\ gotsize \in Nat /\ curclust \in Nat
    BY <2>1, Entries DEF TypeOK
  <2>. QED  BY <2>1, <2>2, Constants
<1>3. ~hidden
  BY <1>1, <1>2, ReadTrue
<1>4. IsFile(buffer, gotsize, Ch) /\ Cached
  BY <1>1, <1>3 DEF FInv, Followed
<1>5. PICK q \in Nat, m \in Nat : InRun(q, m)
  BY <1>1, <1>3 DEF FInv, Followed
<1>6. Ch' = Ch
  BY <1>1, ChKept
<1>7. rest = bytesperclust * m /\ gotsize = bytesperclust * q
  <2>1. bytesperclust * (m + 1) = bytesperclust * m + bytesperclust /\ bytesperclust * m \in Nat
    BY <1>2
  <2>. QED  BY <1>2, <1>5, <2>1 DEF InRun
<1>8. IsFile(buffer', gotsize + rest, Ch')
  <2>1. \A j \in 0 .. m - 1 : Ch[q + j] = curclust + j
    BY <1>5 DEF InRun
  <2>2. rest <= bytesperclust * m
    BY <1>2, <1>7
  <2>. HIDE DEF rest
  <2>. QED  BY <1>1, <1>2, <1>4, <1>7, <2>1, <2>2, FileGoesOn
<1>9. Cached'
  BY <1>1, <1>4 DEF Cached, disk, After
<1>10. AtLast(q + m)' /\ q + m \in Nat
  <2>1. gotsize' = bytesperclust * (q + m)
    BY <1>1, <1>2, <1>7
  <2>2. endclust = Ch[q + m]
    BY <1>5 DEF InRun
  <2>. QED  BY <1>1, <1>6, <2>1, <2>2 DEF AtLast
<1>11. actsize' = filesize' /\ actsize' <= bytesperclust
  BY <1>1, <1>2
<1>12. \E x \in Nat : AtLast(x)'
  BY <1>10
<1>. QED  BY <1>1, <1>8, <1>9, <1>11, <1>12 DEF Followed

\* The last cluster, or the part of it that is asked for.
LEMMA GetLastFollows == FInv /\ GetLast => Followed'
<1>. SUFFICES ASSUME FInv, GetLast, ~hidden' PROVE Followed'
  BY DEF Followed
<1>1. /\ pc = "last" /\ pc' = "done" /\ Cluster(endclust, actsize)
      /\ gotsize' = gotsize + actsize /\ result' = gotsize'
      /\ UNCHANGED <<disk, filesize, curclust, endclust, actsize, fatbufnum, fatbuf>>
  BY DEF GetLast, Return
<1>2. /\ TypeOK /\ gotsize + filesize = Wanted /\ endclust \in Nat /\ actsize \in Nat /\ gotsize \in Nat
      /\ bytesperclust \in Nat
  <2>1. TypeOK /\ Progress /\ gotsize + filesize = Wanted
    BY <1>1 DEF FInv, PInv, Progress
  <2>2. endclust \in Nat /\ actsize \in Nat /\ gotsize \in Nat
    BY <2>1, Entries DEF TypeOK
  <2>. QED  BY <2>1, <2>2, Constants
<1>3. ~hidden
  BY <1>1, <1>2, ReadTrue
<1>4. IsFile(buffer, gotsize, Ch) /\ Cached /\ actsize = filesize /\ actsize <= bytesperclust
  BY <1>1, <1>3 DEF FInv, Followed
<1>5. PICK q \in Nat : AtLast(q)
  BY <1>1, <1>3 DEF FInv, Followed
<1>6. Ch' = Ch /\ Wanted' = Wanted
  BY <1>1, <1>2, ChKept, DiskKept
<1>7. IsFile(buffer', gotsize + actsize, Ch')
  <2>1. 1 \in Nat /\ 1 - 1 = 0 /\ actsize <= bytesperclust * 1 /\ gotsize = bytesperclust * q
    BY <1>2, <1>4, <1>5 DEF AtLast
  <2>2. \A j \in 0 .. 1 - 1 : Ch[q + j] = endclust + j
    BY <1>2, <1>5 DEF AtLast
  <2>. QED  BY <1>1, <1>2, <1>4, <2>1, <2>2, FileGoesOn
<1>8. Cached'
  BY <1>1, <1>4 DEF Cached, disk, After
<1>9. result' = gotsize' /\ result' = Wanted'
  BY <1>1, <1>2, <1>4, <1>6
<1>. QED  BY <1>1, <1>7, <1>8, <1>9 DEF Followed

LEMMA NextFollows == FInv /\ [Next]_vars => FInv'
<1>1. ASSUME FInv, UNCHANGED vars PROVE Followed'
  <2>1. Ch' = Ch /\ Whole' = Whole /\ Wanted' = Wanted
    BY <1>1, ChKept DEF vars, disk, Wanted
  <2>. QED  BY <1>1, <2>1 DEF vars, disk, FInv, Followed, Cached, After, IsFile, InRun, AtLast
<1>. QED  BY <1>1, NextOK, LoadFollows, SearchFollows, GetRunFollows, NextRunFollows,
             GetRestFollows, GetLastFollows DEF Next, FInv

\* For clusters, blocks and caches of any size and any FAT: what fatload says it has
\* loaded are the clusters of the chain in their order, those beyond the volume
\* too, and all that was asked for if the chain has a cluster of the volume for
\* all of it, if no read that failed went unnoticed
\* (get_contents, fat.c:332-398).
THEOREM LoadsTheFile == Spec => []LoadedOrHidden
<1>1. Init => FInv
  BY InitOK, InitFollows DEF FInv
<1>2. Chain = Ch
  BY ChainIsCh
<1>3. FInv => LoadedOrHidden
  <2>. SUFFICES ASSUME FInv, pc = "done", ~hidden
                PROVE  /\ result = Len(buffer)
                       /\ \A p \in 1 .. result :
                            buffer[p] = <<Chain[(p - 1) \div bytesperclust], (p - 1) % bytesperclust>>
                       /\ Whole => result = Wanted
    BY DEF LoadedOrHidden
  <2>1. Len(buffer) = gotsize
    BY DEF FInv, PInv, TypeOK
  <2>2. result = gotsize /\ (Whole => result = Wanted) /\ IsFile(buffer, gotsize, Ch)
    BY DEF FInv, Followed
  <2>. QED  BY <1>2, <2>1, <2>2 DEF IsFile
<1>. QED  BY <1>1, <1>3, NextFollows, PTL DEF Spec
=============================================================================
