---------------------------- MODULE UbootFlashMC ----------------------------
(* UbootFlash on a fresh device and on one with an environment.            *)
EXTENDS UbootFlash

MCFresh    == [a \in 0 .. Capacity - 1 |-> <<1>>]
MCSaved    == Image([i \in 1 .. EnvSize - 1 |-> 2])
MCContents == {MCFresh, [a \in DOMAIN MCFresh |->
                 IF a \in EnvCells THEN MCSaved[a - BootEnd + 1] ELSE <<1>>]}
=============================================================================
