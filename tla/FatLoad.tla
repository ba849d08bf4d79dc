------------------------------ MODULE FatLoad ------------------------------
(***************************************************************************)
(* How U-Boot's fatload gets the contents of a file, fs/fat/fat.c:         *)
(* get_contents gathers runs of consecutive clusters, get_fatent looks the *)
(* chain up in a FAT of which a few blocks are cached, get_cluster reads   *)
(* the blocks of a run.  The FAT may hold anything, numbers of clusters    *)
(* beyond the volume included: they are followed like any other, in what   *)
(* lies on the card behind the FAT.                                        *)
(*                                                                         *)
(* block_read returns how many blocks it has read, as mmc_bread does       *)
(* (module MmcCard); what it did not read keeps whatever was there.        *)
(* disk_read passes that number on, and its callers take only a negative   *)
(* one for an error.                                                       *)
(***************************************************************************)
EXTENDS Integers, Sequences

CONSTANTS
  Clusters,      \* number of data clusters, which are numbered from 2 on
  Numbers,       \* how many numbers there are below the end marks, 0xfff0 - 2
  clust_size,    \* blocks of a cluster
  FS_BLOCK_SIZE, \* bytes of a block: 512
  FATBUFBLOCKS,  \* blocks of the FAT that are cached together: 6
  PerBlock,      \* entries in a block of the FAT: 256 or 128
  Filesizes, Maxsizes,  \* sizes of files, and the limits given to fatload
  MaxFaults      \* bound: blocks that cannot be read

ASSUME FatAssumption ==
  /\ {Clusters, Numbers, clust_size, FS_BLOCK_SIZE, FATBUFBLOCKS, PerBlock} \subseteq Nat \ {0}
  /\ Clusters <= Numbers /\ Filesizes \subseteq Nat /\ Maxsizes \subseteq Nat /\ MaxFaults \in Nat

Data          == 2 .. Clusters + 1
Number        == 2 .. Numbers + 1  \* what passes for a cluster, of the volume or not
FREE          == 0
EOC           == Numbers + 2       \* the first end mark
Entry         == Number \cup {FREE, EOC}
FATBUFSIZE    == FATBUFBLOCKS * PerBlock  \* in entries
bytesperclust == clust_size * FS_BLOCK_SIZE
GARBAGE       == <<0, 0>>       \* what is in memory where nothing was read
Byte          == Nat \X (0 .. bytesperclust - 1)  \* number of the cluster, and position

VARIABLES
  fat, start, size, maxsize, \* the FAT, and what fatload is told
  pc, filesize, curclust, endclust, actsize, gotsize, \* of get_contents
  buffer,          \* where the file goes, whose next byte is number gotsize
  fatbufnum, fatbuf,  \* the cached part of the FAT
  result,          \* what get_contents returns
  faults, hidden   \* history: reads that failed, and that this was not noticed

disk == <<fat, start, size, maxsize>>
vars == <<disk, pc, filesize, curclust, endclust, actsize, gotsize, buffer, fatbufnum, fatbuf,
          result, faults, hidden>>

Least(a, b) == IF a < b THEN a ELSE b
\* Asked for: the file or as much of it as fatload is to load
Wanted == IF maxsize > 0 THEN Least(size, maxsize) ELSE size

-----------------------------------------------------------------------------
(* disk_read                                                               *)

\* k reads have fallen short
Short(k) == /\ faults + k <= MaxFaults /\ faults' = faults + k
            /\ hidden' = (hidden \/ k > 0)

Less(n, count) == IF n < count THEN 1 ELSE 0

CHECK_CLUST(x) == x <= 1 \/ x >= EOC

\* get_fatent(entry) = value: the cached part of the FAT is exchanged when the
\* entry is not in it; mutant: only the first part is ever read
FatEntryFirst(entry, value) ==
  LET bufnum == entry \div FATBUFSIZE
      OnDisk(e) == IF e \in Number THEN fat[e] ELSE FREE
  IN  /\ IF fatbufnum # -1
         THEN UNCHANGED <<fatbufnum, fatbuf, faults, hidden>>
         ELSE \E n \in 0 .. FATBUFBLOCKS, junk \in Entry :
                /\ Short(Less(n, FATBUFBLOCKS)) /\ (n = FATBUFBLOCKS => junk = FREE)
                /\ fatbuf' = [o \in 0 .. FATBUFSIZE - 1 |->
                                IF o < n * PerBlock THEN OnDisk(bufnum * FATBUFSIZE + o) ELSE junk]
                /\ fatbufnum' = bufnum
      /\ value = fatbuf'[entry % FATBUFSIZE]
FatEntry(entry, value) ==
  LET bufnum == entry \div FATBUFSIZE
      OnDisk(e) == IF e \in Number THEN fat[e] ELSE FREE
  IN  /\ IF bufnum = fatbufnum
         THEN UNCHANGED <<fatbufnum, fatbuf, faults, hidden>>
         ELSE \E n \in 0 .. FATBUFBLOCKS, junk \in Entry :
                /\ Short(Less(n, FATBUFBLOCKS)) /\ (n = FATBUFBLOCKS => junk = FREE)
                /\ fatbuf' = [o \in 0 .. FATBUFSIZE - 1 |->
                                IF o < n * PerBlock THEN OnDisk(bufnum * FATBUFSIZE + o) ELSE junk]
                /\ fatbufnum' = bufnum
      /\ value = fatbuf'[entry % FATBUFSIZE]

\* get_cluster: nbytes from cluster clustnum on go to the buffer at gotsize, whole
\* blocks directly and the rest of the last one by way of another buffer
ByteAt(clustnum, k) ==
  <<clustnum + k \div bytesperclust, k % bytesperclust>>
Cluster(clustnum, nbytes) ==
  LET whole == nbytes \div FS_BLOCK_SIZE
      part  == Less(0, nbytes % FS_BLOCK_SIZE)
  IN  \E n \in 0 .. whole, rest \in 0 .. part :
        /\ Short(Less(n, whole) + Less(rest, part))
        /\ buffer' = buffer \o
             [k \in 1 .. nbytes |->
                IF k <= n * FS_BLOCK_SIZE \/ (k > whole * FS_BLOCK_SIZE /\ rest = 1)
                THEN ByteAt(clustnum, k - 1) ELSE GARBAGE]

-----------------------------------------------------------------------------
(* get_contents                                                            *)

Init ==
  /\ fat \in [Number -> Entry] /\ start \in Number \cup {FREE}
  /\ size \in Filesizes /\ maxsize \in Maxsizes
  /\ start = FREE => size = 0  \* an empty file has no cluster
  /\ pc = "load" /\ filesize = 0 /\ curclust = 0 /\ endclust = 0 /\ actsize = 0 /\ gotsize = 0
  /\ buffer = <<>> /\ fatbufnum = -1 /\ fatbuf = [o \in 0 .. FATBUFSIZE - 1 |-> FREE]
  /\ result = -1 /\ faults = 0 /\ hidden = FALSE

Load ==
  /\ pc = "load" /\ pc' = "search"
  /\ filesize' = Wanted /\ actsize' = bytesperclust
  /\ curclust' = start /\ endclust' = start
  /\ UNCHANGED <<disk, gotsize, buffer, fatbufnum, fatbuf, result, faults, hidden>>

Return(n) == pc' = "done" /\ result' = n

\* One more cluster for the run, or the end of the run or of the chain
Search ==
  /\ pc = "search" /\ actsize < filesize
  /\ \E newclust \in Entry :
       /\ FatEntry(endclust, newclust)
       /\ \/ /\ newclust - 1 # endclust
             /\ pc' = "getit" /\ UNCHANGED <<endclust, actsize, result>>
          \/ /\ newclust - 1 = endclust /\ CHECK_CLUST(newclust)
             /\ Return(gotsize) /\ UNCHANGED <<endclust, actsize>>
          \/ /\ newclust - 1 = endclust /\ ~CHECK_CLUST(newclust)
             /\ endclust' = newclust /\ actsize' = actsize + bytesperclust
             /\ UNCHANGED <<pc, result>>
  /\ UNCHANGED <<disk, filesize, curclust, gotsize, buffer>>

Got == /\ gotsize' = gotsize + actsize /\ filesize' = filesize - actsize

\* A run that ends before the file: its clusters, and the first one of the next;
\* mutant: the next run is not begun with one cluster
GetRunKeepsSize ==
  /\ pc = "getit"
  /\ Cluster(curclust, actsize) /\ Got
  /\ pc' = "next" /\ UNCHANGED <<disk, curclust, endclust, actsize, fatbufnum, fatbuf, result>>
GetRun ==
  /\ pc = "getit"
  /\ Cluster(curclust, actsize) /\ Got
  /\ actsize' = bytesperclust
  /\ pc' = "next" /\ UNCHANGED <<disk, curclust, endclust, fatbufnum, fatbuf, result>>

NextRun ==
  /\ pc = "next"
  /\ \E newclust \in Entry :
       /\ FatEntry(endclust, newclust)
       /\ curclust' = newclust
       /\ IF CHECK_CLUST(newclust) THEN Return(gotsize) /\ UNCHANGED endclust
          ELSE endclust' = newclust /\ pc' = "search" /\ UNCHANGED result
  /\ UNCHANGED <<disk, filesize, actsize, gotsize, buffer>>

\* The last run but for its last cluster
GetRest ==
  /\ pc = "search" /\ actsize >= filesize
  /\ LET rest == actsize - bytesperclust
     IN  /\ Cluster(curclust, rest)
         /\ gotsize' = gotsize + rest /\ filesize' = filesize - rest
         /\ actsize' = filesize'
  /\ pc' = "last" /\ UNCHANGED <<disk, curclust, endclust, fatbufnum, fatbuf, result>>

GetLast ==
  /\ pc = "last"
  /\ Cluster(endclust, actsize)
  /\ gotsize' = gotsize + actsize /\ Return(gotsize')
  /\ UNCHANGED <<disk, filesize, curclust, endclust, actsize, fatbufnum, fatbuf>>

Next == Load \/ Search \/ GetRun \/ NextRun \/ GetRest \/ GetLast

Spec == Init /\ [][Next]_vars

-----------------------------------------------------------------------------
(* Properties.                                                             *)

\* Every variable has a value of its kind; and whatever the FAT holds, a run never
\* has more than is still to be loaded, so that nothing is written beyond the end
\* of what was asked for
TypeOK ==
  /\ fat \in [Number -> Entry] /\ start \in Entry /\ size \in Filesizes /\ maxsize \in Maxsizes
  /\ pc \in {"load", "search", "getit", "next", "last", "done"}
  /\ {curclust, endclust} \subseteq Entry
  /\ {filesize, actsize, gotsize} \subseteq Nat
  /\ buffer \in Seq(Byte \cup {GARBAGE}) /\ Len(buffer) = gotsize /\ gotsize <= Wanted
  /\ pc \in {"getit", "last"} => actsize <= filesize
  /\ fatbufnum \in -1 .. (Numbers + 1) \div FATBUFSIZE
  /\ fatbuf \in [0 .. FATBUFSIZE - 1 -> Entry]
  /\ result \in -1 .. Wanted /\ faults \in 0 .. MaxFaults /\ hidden \in BOOLEAN

\* The chain: its cluster number k, FREE after its end.  Whole: it has a cluster of
\* the volume for all that is asked for
Chain[k \in Nat] ==
  IF k = 0 THEN start
  ELSE IF Chain[k - 1] \in Number THEN fat[Chain[k - 1]] ELSE FREE
Whole == \A k \in 0 .. (Wanted - 1) \div bytesperclust : Chain[k] \in Data

\* What fatload says it has loaded are the clusters of the chain in their order: the
\* file, as far as its chain stays in the volume, and all of it if the chain does
\* not end or leave the volume before the file ends.  Two things excuse a load that
\* is not the file, and nothing in the code reports them: a number beyond the
\* volume, which CHECK_CLUST lets through (fat.h:114), so that the bytes there are
\* of no file; and a read that failed, which goes unnoticed (fat.c:232, 305, 312:
\* the number of blocks is compared with 0)
LoadedOrHidden ==
  pc = "done" /\ ~hidden =>
    /\ result = Len(buffer)
    /\ \A p \in 1 .. result :
         buffer[p] = <<Chain[(p - 1) \div bytesperclust], (p - 1) % bytesperclust>>
    /\ Whole => result = Wanted
=============================================================================
