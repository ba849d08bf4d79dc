------------------------------- MODULE TftpMC -------------------------------
(* Tftp with a server that knows options, one that does not, and none.     *)
EXTENDS Tftp

MCSetup(a, o, r) == [alive |-> a, options |-> o, netretry |-> r]
MCSetups == {MCSetup(TRUE, TRUE, TRUE), MCSetup(TRUE, FALSE, FALSE), MCSetup(FALSE, FALSE, FALSE),
             MCSetup(FALSE, FALSE, TRUE)}
=============================================================================
