----------------------------- MODULE FrameQueue -----------------------------
(***************************************************************************)
(* What the receive side of an Ethernet driver promises the network layer: *)
(* a bounded queue.  A frame on the wire is missed, or it enters the queue *)
(* once; frames leave the queue in the order they entered it, each either  *)
(* passed up or dropped for want of memory, and none stays for ever.       *)
(***************************************************************************)
EXTENDS Integers, Sequences

CONSTANT Capacity

VARIABLES
  queue,   \* the frames that wait, oldest first
  seen,    \* number of the last frame on the wire
  passed   \* number of the last frame passed up (0: none yet)

qvars == <<queue, seen, passed>>

QInit == queue = <<>> /\ seen = 0 /\ passed = 0

Accept == /\ Len(queue) < Capacity
          /\ seen' = seen + 1
          /\ queue' = Append(queue, seen')
          /\ UNCHANGED passed

Miss == seen' = seen + 1 /\ UNCHANGED <<queue, passed>>

PassUp == /\ queue # <<>>
          /\ passed' = Head(queue)
          /\ queue' = Tail(queue)
          /\ UNCHANGED seen

Drop == /\ queue # <<>>
        /\ queue' = Tail(queue)
        /\ UNCHANGED <<seen, passed>>

QNext == Accept \/ Miss \/ PassUp \/ Drop

\* What never happens to a frame, and with QSpec what happens to it in the end
QSafe == QInit /\ [][QNext]_qvars
QSpec == QSafe /\ WF_qvars(PassUp \/ Drop)
=============================================================================
