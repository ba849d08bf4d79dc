------------------------------ MODULE LabMainMC ------------------------------
(* LabMain with three images: nothing, as long as the boot loader, longer.  *)
EXTENDS LabMain

\* A fresh device and one filled with each other value.
MCContents == {[a \in 0 .. Capacity - 1 |-> b] : b \in Byte}
MCImages == {<<>>, <<1, 1>>, <<2, 1, 0>>}
=============================================================================
