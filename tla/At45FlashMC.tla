----------------------------- MODULE At45FlashMC -----------------------------
(* At45Flash on three pages of three bytes.                                *)
EXTENDS At45Flash

\* One image of each of these lengths, all bytes different: within a page, up
\* to its end, over a border, whole pages, and pages with a head and a tail.
MCImages == {[i \in 1 .. n |-> i] : n \in {0, 1, 2, 4, 7}}
=============================================================================
