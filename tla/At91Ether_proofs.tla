-------------------------- MODULE At91Ether_proofs --------------------------
(***************************************************************************)
(* Proofs about At91Ether, for a ring of any size.  When interrupts are    *)
(* taken at once, or the interface is opened only once: the shape of the   *)
(* receive ring, from which the order of delivery and the absence of       *)
(* stranded frames follow, and that the receive side implements FrameQueue *)
(* (the silence of the closed receiver needs interrupts taken at once).    *)
(* When they are taken before a start of the interface is over: the        *)
(* transmit slot.  However late they are taken: errata 11 is undone.       *)
(***************************************************************************)
EXTENDS At91Ether, TLAPS

USE DEF Descr, Irqs, Places, IrqPlaces

\* NextDescr stays in the ring.
LEMMA NextDescrType == ASSUME NEW i \in Descr PROVE NextDescr(i) \in Descr
BY DescrAssumption DEF NextDescr

\* Every variable keeps its type (at91_private, the descriptor list and the
\* registers the driver touches).
THEOREM TypeCorrect == Spec => []TypeOK
<1>1. Init => TypeOK
  <2> SUFFICES ASSUME Init PROVE TypeOK
    OBVIOUS
  <2>1. 0 \in Descr
    BY DescrAssumption
  <2>2. txq \in Seq(Nat)
    BY DEF Init
  <2>3. done \in [Descr -> BOOLEAN] /\ buf \in [Descr -> Nat]
    BY DEF Init
  <2>4. ctl \in SUBSET {"RE", "TE"} /\ isr \in SUBSET Irqs /\ imr \in SUBSET Irqs /\ intstatus \in SUBSET Irqs
    BY DEF Init
  <2>5. k \in 0 .. MAX_RX_DESCR
    BY DescrAssumption DEF Init
  <2>6. QED
    BY <2>1, <2>2, <2>3, <2>4, <2>5 DEF Init, TypeOK
<1>2. TypeOK /\ [Next]_vars => TypeOK'
  <2> SUFFICES ASSUME TypeOK, [Next]_vars PROVE TypeOK'
    OBVIOUS
  <2> USE DescrAssumption DEF TypeOK, hwvars, drvvars
  <2>1. CASE RxFrame
    <3>1. /\ isr' \in SUBSET Irqs
          /\ arrived' \in Nat
          /\ rbqp' \in Descr
      BY <2>1, NextDescrType DEF RxFrame, Receiving
    <3>2. buf' \in [Descr -> Nat] /\ done' \in [Descr -> BOOLEAN]
      BY <2>1 DEF RxFrame, Receiving
    <3>3. QED
      BY <2>1, <3>1, <3>2 DEF RxFrame
  <2>2. CASE RxNoBuffer
    BY <2>2 DEF RxNoBuffer, Receiving
  <2>3. CASE TxComplete
    BY <2>3 DEF TxComplete
  <2>4. CASE OpenClock
    BY <2>4 DEF OpenClock, ProcStep
  <2>5. CASE OpenIer
    BY <2>5 DEF OpenIer, ProcStep
  <2>6. CASE StartDescr
    BY <2>6 DEF StartDescr, ProcStep
  <2>7. CASE StartIndex
    BY <2>7 DEF StartIndex, ProcStep
  <2>8. CASE StartRbqp
    BY <2>8 DEF StartRbqp, ProcStep
  <2>9. CASE StartCtl
    BY <2>9 DEF StartCtl, ProcStep, WriteCtl
  <2>10. CASE OpenQueue
    <3>1. xoff' \in BOOLEAN
      BY <2>10 DEF OpenQueue
    <3>2. pc' \in Places
      BY <2>10 DEF OpenQueue, ProcStep
    <3>3. late' \in Nat
      BY <2>10 DEF OpenQueue, ProcStep
    <3>4. QED
      BY <2>10, <3>1, <3>2, <3>3 DEF OpenQueue, ProcStep
  <2>11. CASE CloseCtl
    BY <2>11 DEF CloseCtl, ProcStep, WriteCtl
  <2>12. CASE CloseIdr
    BY <2>12 DEF CloseIdr, ProcStep
  <2>13. CASE CloseQueue
    BY <2>13 DEF CloseQueue, ProcStep
  <2>14. CASE TxStop
    BY <2>14 DEF TxStop, ProcStep
  <2>15. CASE TxStore
    BY <2>15 DEF TxStore, ProcStep
  <2>16. CASE TxStart
    BY <2>16 DEF TxStart, ProcStep
  <2>17. CASE IrqEnter
    BY <2>17 DEF IrqEnter, IrqStep, AfterIsr, AfterRx, AfterTx
  <2>18. CASE RxDeliver
    BY <2>18 DEF RxDeliver, IrqStep
  <2>19. CASE RxSqueeze
    BY <2>19 DEF RxSqueeze, IrqStep
  <2>20. CASE RxRelease
    BY <2>20, NextDescrType DEF RxRelease, IrqStep
  <2>21. CASE RxEnd
    BY <2>21 DEF RxEnd, IrqStep, AfterRx, AfterTx
  <2>22. CASE IrqTcom
    BY <2>22 DEF IrqTcom, IrqStep, AfterTx
  <2>23. CASE IrqRbnaOff
    BY <2>23 DEF IrqRbnaOff, IrqStep, WriteCtl
  <2>24. CASE IrqRbnaOn
    BY <2>24 DEF IrqRbnaOn, IrqStep, WriteCtl
  <2>25. CASE UNCHANGED vars
    BY <2>25 DEF vars
  <2>26. QED
    BY <2>1, <2>2, <2>3, <2>4, <2>5, <2>6, <2>7, <2>8, <2>9, <2>10, <2>11, <2>12, <2>13,
       <2>14, <2>15, <2>16, <2>17, <2>18, <2>19, <2>20, <2>21, <2>22, <2>23, <2>24, <2>25
    DEF Next, Emac, Open, Close, Tx, Handler
<1>3. QED
  BY <1>1, <1>2, PTL DEF Spec

-----------------------------------------------------------------------------
(* The receive ring, for interrupts taken at once or one open.             *)

\* What the process context sees when it steps: no handler, and without latency
\* nothing latched, so that a running receiver has an empty ring.
LEMMA ProcStepPrompt ==
  ASSUME TypeOK, RingInv, NEW from, NEW to, ProcStep(from, to)
  PROVE  /\ irq = "none" /\ irq' = "none" /\ pc = from /\ pc' = to
         /\ isr' = isr /\ buf' = buf /\ out' = out /\ arrived' = arrived
         /\ MaxLatency = 0 /\ Running => isr = {} /\ \A i \in Descr : ~done[i]
<1>1. /\ irq = "none" /\ irq' = "none" /\ pc = from /\ pc' = to
      /\ isr' = isr /\ buf' = buf /\ out' = out /\ arrived' = arrived
  BY DEF ProcStep
<1> SUFFICES ASSUME MaxLatency = 0, Running PROVE isr = {} /\ \A i \in Descr : ~done[i]
  BY <1>1
<1>2. isr = {}
  BY DEF ProcStep, Pending, RingInv, Starting, TypeOK
<1>3. ~done[rxBuffIndex]
  BY <1>1, <1>2 DEF RingInv, NoStrandedFrame
<1>4. \A i \in Descr : ~done[i]
  BY <1>3 DEF RingInv, RingShape, InWindow, TypeOK
<1>5. QED
  BY <1>2, <1>4

\* A ring with no frame satisfies its shape, order and age conditions.
LEMMA EmptyRing ==
  ASSUME TypeOK, \A i \in Descr : ~done[i], Off \/ rxBuffIndex = rbqp, out <= arrived
  PROVE  RingShape /\ RingOrder /\ RingNew /\ NoStrandedFrame
BY DEF RingShape, RingOrder, RingNew, NoStrandedFrame, TypeOK

\* The EMAC stores a frame behind those already in the ring.
LEMMA RxFrameRing ==
  ASSUME TypeOK, RingInv, RxFrame PROVE RingInv'
<1> USE DescrAssumption
<1>1. ~Off /\ isr' = isr \cup {"RCOM"} /\ rbqp \in Descr /\ ~done[rbqp]
  BY DEF RxFrame, Receiving, RingInv, Quiet, TypeOK
<1>2. /\ UNCHANGED <<ctl, pc, opens, imr, irq, out, rxBuffIndex>>
      /\ rbqp' = NextDescr(rbqp) /\ rbqp' \in Descr
      /\ done' = [done EXCEPT ![rbqp] = TRUE]
      /\ buf' = [buf EXCEPT ![rbqp] = arrived + 1]
      /\ arrived' = arrived + 1
  BY NextDescrType, <1>1 DEF RxFrame, drvvars
<1>3. \A i \in Descr : done'[i] <=> (done[i] \/ i = rbqp)
  BY <1>1, <1>2 DEF TypeOK
<1>4. \A i \in Descr : done'[i] <=> InWindow(i)'
  BY <1>1, <1>2, <1>3 DEF RingInv, RingShape, InWindow, NextDescr, TypeOK
<1>5. \A i \in Descr : done[i] => Rank(i) < Rank(rbqp)
  BY <1>1 DEF RingInv, RingShape, InWindow, Rank, TypeOK
<1>6. RingOrder'
  <2> SUFFICES ASSUME NEW i \in Descr, NEW j \in Descr,
                      done'[i], done'[j], Rank(i)' < Rank(j)'
               PROVE  buf'[i] < buf'[j]
    BY DEF RingOrder
  <2>1. Rank(i) < Rank(j) /\ Rank(i) \in Int /\ Rank(j) \in Int /\ Rank(rbqp) \in Int
    BY <1>1, <1>2 DEF Rank, TypeOK
  <2>2. i # rbqp /\ done[i]
    BY <2>1, <1>3, <1>5
  <2>3. CASE j = rbqp
    BY <2>2, <2>3, <1>1, <1>2 DEF RingInv, RingNew, TypeOK
  <2>4. CASE j # rbqp
    BY <2>1, <2>2, <2>4, <1>1, <1>2, <1>3 DEF RingInv, RingOrder, TypeOK
  <2>5. QED
    BY <2>3, <2>4
<1>7. RingNew'
  BY <1>1, <1>2, <1>3 DEF RingInv, RingNew, TypeOK
<1>8. QED
  BY <1>1, <1>2, <1>3, <1>4, <1>6, <1>7
  DEF RingInv, RingShape, Quiet, Starting, NoStrandedFrame, Off, Running, TypeOK

\* The handler gives back the oldest descriptor of the ring.
LEMMA RxReleaseRing ==
  ASSUME TypeOK, RingInv, RxRelease PROVE RingInv'
<1> USE DescrAssumption
<1>1. /\ irq = "release" /\ irq' = "rx" /\ done[rxBuffIndex] /\ ~Off
  BY DEF RxRelease, IrqStep, RingInv, Quiet, TypeOK
<1>2. /\ UNCHANGED <<ctl, isr, imr, rbqp, buf, pc, opens, arrived, out>>
      /\ rxBuffIndex' = NextDescr(rxBuffIndex) /\ rxBuffIndex' \in Descr
      /\ done' = [done EXCEPT ![rxBuffIndex] = FALSE]
  BY NextDescrType DEF RxRelease, IrqStep, TypeOK
<1>3. \A i \in Descr : done'[i] <=> (done[i] /\ i # rxBuffIndex)
  BY <1>2 DEF TypeOK
<1>4. \A i \in Descr : done[i] <=> InWindow(i)
  BY <1>1 DEF RingInv, RingShape, TypeOK
<1>5. RingShape'
  <2>1. CASE rxBuffIndex' = rbqp
    BY <2>1, <1>2, <1>3, <1>4 DEF RingShape, InWindow, NextDescr, TypeOK
  <2>2. CASE rxBuffIndex' # rbqp
    BY <2>2, <1>2, <1>3, <1>4 DEF RingShape, InWindow, NextDescr, TypeOK
  <2>3. QED
    BY <2>1, <2>2
<1>6. \A i \in Descr : i # rxBuffIndex => Rank(i)' = Rank(i) - 1
  BY <1>2 DEF Rank, NextDescr, TypeOK
<1>7. RingOrder'
  <2> SUFFICES ASSUME NEW i \in Descr, NEW j \in Descr,
                      done'[i], done'[j], Rank(i)' < Rank(j)'
               PROVE  buf'[i] < buf'[j]
    BY DEF RingOrder
  <2>1. Rank(i) < Rank(j)
    BY <1>3, <1>6 DEF Rank, TypeOK
  <2>2. QED
    BY <2>1, <1>2, <1>3 DEF RingInv, RingOrder
<1>8. RingNew'
  BY <1>1, <1>2, <1>3 DEF RingInv, RingNew, TypeOK
<1>9. QED
  BY <1>1, <1>2, <1>5, <1>7, <1>8 DEF RingInv, Quiet, Starting, NoStrandedFrame, Off, Running

\* The handler copies the oldest frame: it is newer than what was passed up
\* before and older than the rest of the ring.
LEMMA RxDeliverRing ==
  ASSUME TypeOK, RingInv, RxDeliver PROVE RingInv' /\ out' > out
<1> USE DescrAssumption
<1>1. /\ irq = "rx" /\ irq' = "release" /\ done[rxBuffIndex] /\ ~Off
      /\ rxBuffIndex \in Descr
  BY DEF RxDeliver, IrqStep, RingInv, Quiet, TypeOK
<1>2. /\ UNCHANGED <<ctl, isr, imr, rbqp, rxBuffIndex, done, buf, pc, opens, arrived>>
      /\ out' = buf[rxBuffIndex]
  BY DEF RxDeliver, IrqStep, drvvars
<1>3. out' > out /\ out' <= arrived
  BY <1>1, <1>2 DEF RingInv, RingNew, TypeOK
<1>4. \A i \in Descr : i # rxBuffIndex => Rank(rxBuffIndex) < Rank(i)
  BY <1>1 DEF Rank, TypeOK
<1>5. RingNew'
  BY <1>1, <1>2, <1>3, <1>4 DEF RingInv, RingNew, RingOrder, TypeOK
<1>6. RingShape' /\ RingOrder'
  BY <1>2 DEF RingInv, RingShape, RingOrder, InWindow, Rank, Off, Running
<1>7. QED
  BY <1>1, <1>2, <1>3, <1>5, <1>6 DEF RingInv, Quiet, Starting, NoStrandedFrame, Off, Running

\* The ring invariant is inductive: it survives every step of the EMAC, of the
\* process context and of the handler.
LEMMA RingInvStep ==
  ASSUME OnceOrPrompt, TypeOK, RingInv, [Next]_vars PROVE RingInv'
<1> USE DescrAssumption
<1>1. CASE RxFrame
  BY <1>1, RxFrameRing
<1>2. CASE RxNoBuffer
  BY <1>2 DEF RxNoBuffer, Receiving, drvvars, RingInv, RingShape, RingOrder, RingNew, Quiet,
     Starting, NoStrandedFrame, InWindow, Rank, Off, Running, TypeOK
<1>3. CASE TxComplete
  BY <1>3 DEF TxComplete, drvvars, RingInv, RingShape, RingOrder, RingNew, Quiet,
     Starting, NoStrandedFrame, InWindow, Rank, Off, Running, TypeOK
<1>4. ASSUME OpenClock \/ OpenIer \/ StartRbqp PROVE RingInv'
  <2>1. Off
    BY <1>4, BoundAssumption DEF OpenClock, OpenIer, StartRbqp, ProcStep, OnceOrPrompt, Off, Running, TypeOK
  <2>2. /\ ctl = {} /\ isr = {} /\ irq = "none"
        /\ \A i \in Descr : ~done[i]
    BY <2>1 DEF RingInv, Quiet
  <2>3. pc' \in {"ier", "descr", "ctl"} /\ opens' > 0
    BY <1>4 DEF OpenClock, OpenIer, StartRbqp, ProcStep, RingInv, Starting, TypeOK
  <2>4. QED
    BY <1>4, <2>2, <2>3 DEF OpenClock, OpenIer, StartRbqp, ProcStep, drvvars, RingInv, RingShape,
       RingOrder, RingNew, Quiet, Starting, NoStrandedFrame, Off, Running, TypeOK
<1>5. ASSUME StartDescr \/ StartIndex PROVE RingInv'
  BY <1>5 DEF StartDescr, StartIndex, ProcStep, drvvars, RingInv, RingShape, RingOrder,
     RingNew, Quiet, Starting, NoStrandedFrame, Off, Running, TypeOK
<1>6. CASE StartCtl
  BY <1>6 DEF StartCtl, ProcStep, drvvars, RingInv, RingShape, RingOrder,
     RingNew, Quiet, Starting, NoStrandedFrame, Off, Running, TypeOK
<1>7. ASSUME OpenQueue \/ TxStop \/ TxStore \/ TxStart PROVE RingInv'
  <2>1. /\ Running /\ Running' /\ irq = "none" /\ irq' = "none"
        /\ UNCHANGED <<ctl, isr, imr, rbqp, rxBuffIndex, done, buf, out, arrived, opens>>
    BY <1>7 DEF OpenQueue, TxStop, TxStore, TxStart, ProcStep, drvvars, Running
  <2>2. QED
    BY <2>1 DEF RingInv, RingShape, RingOrder, RingNew, Quiet, Starting, NoStrandedFrame,
       InWindow, Rank, Off, Running
<1>8. CASE Close
  <2>1. /\ irq = "none" /\ irq' = "none" /\ opens' = opens
        /\ pc \in {"up", "idr", "stopq"} /\ pc' \in {"idr", "stopq", "down"}
        /\ UNCHANGED <<isr, rbqp, rxBuffIndex, done, buf, out, arrived>>
        /\ ctl' = {} \/ (pc # "up" /\ ctl' = ctl)
    BY <1>8 DEF Close, CloseCtl, CloseIdr, CloseQueue, ProcStep, WriteCtl, drvvars, TypeOK
  <2>2. CASE MaxLatency = 0
    <3>1. isr = {} /\ \A i \in Descr : ~done[i]
      <4>1. CASE CloseCtl
        BY <2>2, <4>1, ProcStepPrompt DEF CloseCtl, Running
      <4>2. CASE CloseIdr \/ CloseQueue
        BY <2>2, <4>2 DEF CloseIdr, CloseQueue, ProcStep, RingInv, Quiet, Off, Running
      <4>3. QED
        BY <1>8, <4>1, <4>2 DEF Close
    <3>2. pc # "up" => ctl = {}
      BY <2>1, <2>2 DEF RingInv, Quiet, Off, Running
    <3>3. QED
      BY <2>1, <2>2, <3>1, <3>2
      DEF RingInv, RingShape, RingOrder, RingNew, Quiet, Starting, NoStrandedFrame, Off, Running
  <2>3. CASE MaxLatency # 0
    <3>1. ~Off /\ ~Off' /\ opens > 0
      BY <2>1, <2>3 DEF Off, RingInv, Starting, TypeOK
    <3>2. QED
      BY <2>1, <3>1 DEF RingInv, RingShape, RingOrder, RingNew, Quiet, Starting, NoStrandedFrame,
         InWindow, Rank, Running
  <2>4. QED
    BY <2>2, <2>3
<1>9. CASE IrqEnter
  <2>1. ~Off /\ UNCHANGED <<ctl, imr, rbqp, rxBuffIndex, done, buf, out, arrived, pc, opens>>
    BY <1>9 DEF IrqEnter, IrqStep, Pending, drvvars, RingInv, Quiet
  <2>2. /\ irq = "none" /\ isr' = {} /\ irq' # "release"
        /\ "RCOM" \in isr => irq' = "rx"
    BY <1>9 DEF IrqEnter, IrqStep, AfterIsr, AfterRx, AfterTx
  <2>3. QED
    BY <2>1, <2>2 DEF RingInv, RingShape, RingOrder, RingNew, Quiet, Starting, NoStrandedFrame,
       InWindow, Rank, Off, Running
<1>10. CASE RxDeliver
  BY <1>10, RxDeliverRing
<1>11. CASE RxSqueeze
  BY <1>11 DEF RxSqueeze, IrqStep, drvvars, RingInv, RingShape, RingOrder, RingNew, Quiet,
     Starting, NoStrandedFrame, InWindow, Rank, Off, Running
<1>12. CASE RxRelease
  BY <1>12, RxReleaseRing
<1>13. CASE RxEnd
  BY <1>13 DEF RxEnd, IrqStep, AfterRx, AfterTx, drvvars, RingInv, RingShape, RingOrder,
     RingNew, Quiet, Starting, NoStrandedFrame, InWindow, Rank, Off, Running
<1>14. ASSUME IrqTcom \/ IrqRbnaOff \/ IrqRbnaOn PROVE RingInv'
  <2>1. /\ ~Off /\ irq \notin {"none", "rx", "release"} /\ irq' \notin {"rx", "release"}
        /\ UNCHANGED <<isr, imr, rbqp, rxBuffIndex, done, buf, out, arrived, pc, opens>>
    BY <1>14 DEF IrqTcom, IrqRbnaOff, IrqRbnaOn, IrqStep, AfterTx, drvvars, RingInv, Quiet
  <2>2. QED
    BY <2>1 DEF RingInv, RingShape, RingOrder, RingNew, Quiet, Starting, NoStrandedFrame,
       InWindow, Rank, Off, Running
<1>15. CASE UNCHANGED vars
  BY <1>15 DEF vars, hwvars, drvvars, RingInv, RingShape, RingOrder, RingNew, Quiet, Starting,
     NoStrandedFrame, InWindow, Rank, Off, Running
<1>16. QED
  BY <1>1, <1>2, <1>3, <1>4, <1>5, <1>6, <1>7, <1>8, <1>9, <1>10, <1>11, <1>12, <1>13,
     <1>14, <1>15
  DEF Next, Emac, Open, Tx, Handler

LEMMA RingInvInit == Init => RingInv
BY DescrAssumption DEF Init, RingInv, RingShape, RingOrder, RingNew, Quiet, Starting,
   NoStrandedFrame, Off, Running

\* The ring invariant always holds, for a ring of any size, if interrupts are
\* taken at once or at91ether_open is called only once.
THEOREM RingCorrect == OnceOrPrompt => (Spec => []RingInv)
<1> SUFFICES ASSUME OnceOrPrompt PROVE Spec => []RingInv
  OBVIOUS
<1>1. TypeOK /\ RingInv /\ [Next]_vars => RingInv'
  BY RingInvStep
<1>2. QED
  BY <1>1, RingInvInit, TypeCorrect, PTL DEF Spec

\* No received frame is ever stranded in the ring (the loop of at91ether_rx).
THEOREM NoFrameStranded == OnceOrPrompt => (Spec => []NoStrandedFrame)
<1> SUFFICES ASSUME OnceOrPrompt PROVE Spec => []NoStrandedFrame
  OBVIOUS
<1>1. RingInv => NoStrandedFrame
  BY DEF RingInv
<1>2. Spec => []RingInv
  BY RingCorrect
<1>3. QED
  BY <1>1, <1>2, PTL

\* Frames are passed up in the order they arrived, none twice (at91ether_rx).
THEOREM DeliveryInOrder == OnceOrPrompt => (Spec => InOrder)
<1> SUFFICES ASSUME OnceOrPrompt PROVE Spec => InOrder
  OBVIOUS
<1>1. TypeOK /\ RingInv /\ [Next]_vars => [out' # out => out' > out]_vars
  <2> SUFFICES ASSUME TypeOK, RingInv, Next, out' # out PROVE out' > out
    BY DEF vars
  <2>1. RxDeliver
    BY DEF Next, Emac, Open, Close, Tx, Handler, RxFrame, RxNoBuffer, TxComplete,
       OpenClock, OpenIer, StartDescr, StartIndex, StartRbqp, StartCtl, OpenQueue, CloseCtl,
       CloseIdr, CloseQueue, TxStop, TxStore, TxStart, ProcStep, IrqEnter, RxSqueeze,
       RxRelease, RxEnd, IrqTcom, IrqRbnaOff, IrqRbnaOn
  <2>2. QED
    BY <2>1, RxDeliverRing
<1>2. Spec => []RingInv
  BY RingCorrect
<1>3. QED
  BY <1>1, <1>2, TypeCorrect, PTL DEF Spec, InOrder

-----------------------------------------------------------------------------
(* The transmit slot, for interrupts taken before a start is over.         *)

\* A TCOM that was left grows old with every step of the process context.
LEMMA StaleAges ==
  ASSUME TypeOK, TxInv, NEW from, NEW to, ProcStep(from, to), from \in DOMAIN Begun,
         "TCOM" \in isr, ~(pc = "up" /\ xoff)
  PROVE  late >= Begun[from] /\ late < MaxLatency /\ late' = late + 1
<1>1. pc = from /\ (Pending => late < MaxLatency /\ late' = late + 1)
  BY DEF ProcStep
<1>2. imr = Irqs
  BY <1>1 DEF TxInv, Begun, Running
<1>3. Pending
  BY <1>2 DEF Pending
<1>4. QED
  BY <1>1, <1>3 DEF TxInv, Stale

\* The process context steps between two handlers, which leaves the events alone.
LEMMA ProcStepTcom ==
  ASSUME NEW from, NEW to, ProcStep(from, to)
  PROVE  /\ pc = from /\ pc' = to /\ irq = "none" /\ irq' = "none" /\ isr' = isr
         /\ ~TcomRead /\ ~TcomRead' /\ (TcomDue <=> "TCOM" \in isr) /\ (TcomDue' <=> "TCOM" \in isr)
BY DEF ProcStep, TcomRead, TcomDue

\* Opening: nothing is sent, and a TCOM that was left is followed through the start.
LEMMA TxInvOpen ==
  ASSUME TypeOK, TypeOK', TxInv, Open PROVE TxInv'
<1> USE DescrAssumption
<1>1. CASE OpenClock \/ OpenIer
  <2>1. \/ ProcStep("down", "ier")
        \/ ProcStep("ier", "descr") /\ imr' = Irqs /\ k' = 0
    BY <1>1 DEF OpenClock, OpenIer
  <2>2. txq' = txq
    BY <1>1 DEF OpenClock, OpenIer
  <2>3. late' \in Nat
    BY DEF TypeOK
  <2>4. QED
    BY <2>1, <2>2, <2>3, ProcStepTcom DEF TxInv, Stale, Begun, Running
<1>2. CASE StartDescr
  <2>1. ProcStep("descr", "descr") /\ k' = k + 1 /\ UNCHANGED <<imr, txq>>
    BY <1>2 DEF StartDescr
  <2>2. "TCOM" \in isr => late >= k /\ late' = late + 1
    BY <2>1, StaleAges, ProcStepTcom DEF Begun
  <2>3. "TCOM" \in isr => late' >= Begun'["descr"]
    BY <2>1, <2>2 DEF Begun, TypeOK
  <2>4. pc' = "descr" /\ irq' = "none" /\ isr' = isr
    BY <2>1, ProcStepTcom
  <2>5. Stale'
    BY <2>3, <2>4 DEF Stale
  <2>6. QED
    BY <2>1, <2>5, ProcStepTcom DEF TxInv, Running
<1>3. CASE StartIndex
  <2>1. ProcStep("descr", "rbqp") /\ k = MAX_RX_DESCR /\ UNCHANGED <<imr, txq>>
    BY <1>3 DEF StartIndex
  <2>2. "TCOM" \in isr => late >= k /\ late' = late + 1
    BY <2>1, StaleAges, ProcStepTcom DEF Begun
  <2>3. "TCOM" \in isr => late' >= Begun'["rbqp"]
    BY <2>1, <2>2 DEF Begun, TypeOK
  <2>4. pc' = "rbqp" /\ irq' = "none" /\ isr' = isr
    BY <2>1, ProcStepTcom
  <2>5. Stale'
    BY <2>3, <2>4 DEF Stale
  <2>6. QED
    BY <2>1, <2>5, ProcStepTcom DEF TxInv, Running
<1>4. CASE StartRbqp
  <2>1. ProcStep("rbqp", "ctl") /\ UNCHANGED <<imr, txq>>
    BY <1>4 DEF StartRbqp
  <2>2. "TCOM" \in isr => late >= MAX_RX_DESCR + 1 /\ late' = late + 1
    BY <2>1, StaleAges, ProcStepTcom DEF Begun
  <2>3. "TCOM" \in isr => late' >= Begun'["ctl"]
    BY <2>1, <2>2 DEF Begun, TypeOK
  <2>4. pc' = "ctl" /\ irq' = "none" /\ isr' = isr
    BY <2>1, ProcStepTcom
  <2>5. Stale'
    BY <2>3, <2>4 DEF Stale
  <2>6. QED
    BY <2>1, <2>5, ProcStepTcom DEF TxInv, Running
<1>5. CASE StartCtl
  <2>1. ProcStep("ctl", "startq") /\ imr' = imr /\ ctl' = ctl \cup {"RE", "TE"} /\ txq' = txq
    BY <1>5 DEF StartCtl, WriteCtl
  <2>2. "TCOM" \in isr => late >= MAX_RX_DESCR + 2 /\ late' = late + 1
    BY <2>1, StaleAges, ProcStepTcom DEF Begun
  <2>3. "TCOM" \in isr => late' >= Begun'["startq"]
    BY <2>1, <2>2 DEF Begun, TypeOK
  <2>4. pc' = "startq" /\ irq' = "none" /\ isr' = isr
    BY <2>1, ProcStepTcom
  <2>5. Stale'
    BY <2>3, <2>4 DEF Stale
  <2>6. QED
    BY <2>1, <2>5, ProcStepTcom DEF TxInv, Running
<1>6. CASE OpenQueue
  <2>1. ProcStep("startq", "up") /\ xoff' = FALSE /\ UNCHANGED <<ctl, imr, txq>>
    BY <1>6 DEF OpenQueue
  <2>2. "TCOM" \in isr => late >= MAX_RX_DESCR + 3 /\ late' = late + 1
    BY <2>1, StaleAges, ProcStepTcom DEF Begun
  <2>3. "TCOM" \in isr => late' >= Begun'["up"]
    BY <2>1, <2>2 DEF Begun, TypeOK
  <2>4. pc' = "up" /\ irq' = "none" /\ isr' = isr
    BY <2>1, ProcStepTcom
  <2>5. Stale'
    BY <2>3, <2>4 DEF Stale
  <2>6. QED
    BY <2>1, <2>5, ProcStepTcom DEF TxInv, Running
<1>7. QED
  BY <1>1, <1>2, <1>3, <1>4, <1>5, <1>6 DEF Open

\* Closing: a TCOM may be left.
LEMMA TxInvClose ==
  ASSUME TxInv, Close PROVE TxInv'
<1>1. CASE CloseCtl
  <2>1. ProcStep("up", "idr") /\ txq' = <<>>
    BY <1>1 DEF CloseCtl, WriteCtl
  <2>2. QED
    BY <2>1, ProcStepTcom DEF TxInv, Stale, Begun, Running
<1>2. CASE CloseIdr \/ CloseQueue
  <2>1. (ProcStep("idr", "stopq") \/ ProcStep("stopq", "down")) /\ txq' = txq
    BY <1>2 DEF CloseIdr, CloseQueue
  <2>2. QED
    BY <2>1, ProcStepTcom DEF TxInv, Stale, Begun, Running
<1>3. QED
  BY <1>1, <1>2 DEF Close

\* Sending: a packet is handed over only when the slot is empty and no TCOM due.
LEMMA TxInvTx ==
  ASSUME InTime, TypeOK, TxInv, Tx PROVE TxInv'
<1>1. CASE TxStop
  <2>1. ProcStep("up", "store") /\ ~xoff /\ xoff' = TRUE /\ UNCHANGED <<ctl, imr, txq>>
    BY <1>1 DEF TxStop
  <2>2. "TCOM" \notin isr
    <3> SUFFICES ASSUME "TCOM" \in isr PROVE FALSE
      OBVIOUS
    <3>1. late >= Begun["up"] /\ late < MaxLatency /\ Begun["up"] = MAX_RX_DESCR + 4
      BY <2>1, StaleAges DEF Begun
    <3>2. QED
      BY <3>1, DescrAssumption, BoundAssumption DEF InTime, TypeOK
  <2>3. QED
    BY <2>1, <2>2, ProcStepTcom DEF TxInv, Stale, Running
<1>2. CASE TxStore
  <2>1. ProcStep("store", "tcr") /\ skb' = nskb /\ UNCHANGED <<nskb, xoff, txq, ctl, imr>>
    BY <1>2 DEF TxStore
  <2>2. QED
    BY <2>1, ProcStepTcom DEF TxInv, Stale, Running
<1>3. CASE TxStart
  <2>1. /\ ProcStep("tcr", "up") /\ txq' = Append(txq, nskb)
        /\ UNCHANGED <<skb, xoff, nskb, ctl, imr>>
    BY <1>3 DEF TxStart, drvvars
  <2>2. txq = <<>> /\ skb = nskb /\ xoff /\ "TCOM" \notin isr
    BY <2>1, ProcStepTcom DEF TxInv
  <2>3. Append(<<>>, nskb) = <<nskb>> /\ <<nskb>> # <<>>
    OBVIOUS
  <2>4. QED
    BY <2>1, <2>2, <2>3, ProcStepTcom DEF TxInv, Stale, Running
<1>4. QED
  BY <1>1, <1>2, <1>3 DEF Tx

\* A step of the EMAC or of the handler preserves it: TCOM empties the slot,
\* and the handler frees and wakes only once TCOM was read.
LEMMA TxInvIrq ==
  ASSUME TypeOK, TxInv, Emac \/ Handler PROVE TxInv'
<1>1. CASE RxFrame \/ RxNoBuffer
  <2>1. /\ UNCHANGED <<ctl, imr, txq, skb, xoff, pc, k, nskb, irq, intstatus, late>>
        /\ "TCOM" \in isr' <=> "TCOM" \in isr
    BY <1>1 DEF RxFrame, RxNoBuffer, drvvars
  <2>2. QED
    BY <2>1 DEF TxInv, Stale, Begun, TcomDue, TcomRead, Running
<1>2. CASE TxComplete
  <2>1. /\ UNCHANGED <<ctl, imr, skb, xoff, pc, k, nskb, irq, intstatus, late>>
        /\ txq # <<>> /\ txq' = Tail(txq) /\ "TCOM" \in isr'
    BY <1>2 DEF TxComplete, drvvars
  <2>2. txq = <<skb>> /\ pc = "up" /\ xoff /\ ~TcomRead
    BY <2>1 DEF TxInv, TcomDue
  <2>3. Tail(<<skb>>) = <<>>
    OBVIOUS
  <2>4. QED
    BY <2>1, <2>2, <2>3 DEF TxInv, Stale, TcomDue, TcomRead, Running
<1>3. CASE IrqEnter
  <2>1. /\ UNCHANGED <<ctl, imr, txq, skb, xoff, pc, k, nskb>>
        /\ irq = "none" /\ isr' = {} /\ intstatus' = isr /\ irq' = AfterIsr(isr)
    BY <1>3 DEF IrqEnter, IrqStep, drvvars
  <2>2. TcomDue <=> TcomDue'
    BY <2>1 DEF TcomDue, TcomRead, AfterIsr, AfterRx, AfterTx
  <2>3. irq' = "tcom" => "TCOM" \in intstatus'
    BY <2>1 DEF AfterIsr, AfterRx, AfterTx
  <2>4. QED
    BY <2>1, <2>2, <2>3 DEF TxInv, Stale, Running
<1>4. CASE RxDeliver \/ RxSqueeze \/ RxRelease \/ RxEnd
  <2>1. /\ UNCHANGED <<ctl, imr, txq, skb, xoff, pc, k, nskb, isr, intstatus, late>>
        /\ irq \in {"rx", "release"}
        /\ irq' \in {"rx", "release"} \/ irq' = AfterRx(intstatus)
    BY <1>4 DEF RxDeliver, RxSqueeze, RxRelease, RxEnd, IrqStep, drvvars
  <2>2. TcomRead <=> TcomRead'
    BY <2>1 DEF TcomRead, AfterRx, AfterTx
  <2>3. TcomDue <=> TcomDue'
    BY <2>1, <2>2 DEF TcomDue
  <2>4. irq' = "tcom" => "TCOM" \in intstatus'
    BY <2>1 DEF AfterRx, AfterTx
  <2>5. Stale'
    BY <2>1 DEF TxInv, Stale
  <2>6. QED
    BY <2>1, <2>2, <2>3, <2>4, <2>5 DEF TxInv, Running
<1>5. CASE IrqTcom
  <2>1. /\ UNCHANGED <<ctl, imr, txq, pc, k, nskb, isr, intstatus, late>>
        /\ irq = "tcom" /\ irq' \in {"rbna", "none"} /\ skb' = 0 /\ xoff' = FALSE
    BY <1>5 DEF IrqTcom, IrqStep, AfterTx
  <2>2. TcomRead /\ ~TcomRead'
    BY <2>1 DEF TxInv, TcomRead
  <2>3. "TCOM" \notin isr /\ txq = <<>> /\ pc \notin {"store", "tcr"}
    BY <2>2 DEF TxInv, TcomDue
  <2>4. QED
    BY <2>1, <2>2, <2>3 DEF TxInv, Stale, TcomDue, Running
<1>6. CASE IrqRbnaOff \/ IrqRbnaOn
  <2>1. /\ UNCHANGED <<imr, skb, xoff, pc, k, nskb, isr, intstatus, late>>
        /\ irq \in {"rbna", "rbna2"} /\ irq' \in {"rbna2", "none"}
    BY <1>6 DEF IrqRbnaOff, IrqRbnaOn, IrqStep, drvvars
  <2>2. /\ "TE" \in ctl => txq' = txq /\ "TE" \in ctl'
        /\ txq' \in {txq, <<>>}
    BY <1>6 DEF IrqRbnaOff, IrqRbnaOn, WriteCtl
  <2>3. ~Running => txq = <<>>
    BY DEF TxInv, Running
  <2>4. txq' = txq /\ (Running => "TE" \in ctl')
    BY <2>2, <2>3 DEF TxInv
  <2>5. ~TcomRead /\ ~TcomRead'
    BY <2>1 DEF TcomRead
  <2>6. Stale'
    BY <2>1 DEF TxInv, Stale
  <2>7. QED
    BY <2>1, <2>4, <2>5, <2>6 DEF TxInv, TcomDue, Running
<1>7. QED
  BY <1>1, <1>2, <1>3, <1>4, <1>5, <1>6 DEF Emac, Handler

\* The transmit invariant always holds when an interrupt is taken before a
\* start of the interface is over.
THEOREM TransmitCorrect == InTime => (Spec => []TxInv)
<1> SUFFICES ASSUME InTime PROVE Spec => []TxInv
  OBVIOUS
<1>1. Init => TxInv
  BY DEF Init, TxInv, Stale, TcomDue, TcomRead, Running
<1>2. TypeOK /\ TypeOK' /\ TxInv /\ [Next]_vars => TxInv'
  <2> SUFFICES ASSUME TypeOK, TypeOK', TxInv, [Next]_vars PROVE TxInv'
    OBVIOUS
  <2>1. CASE UNCHANGED vars
    BY <2>1 DEF vars, hwvars, drvvars, TxInv, Stale, Begun, TcomDue, TcomRead, Running
  <2>2. QED
    BY <2>1, TxInvOpen, TxInvClose, TxInvTx, TxInvIrq DEF Next
<1>3. QED
  BY <1>1, <1>2, TypeCorrect, PTL DEF Spec

\* The packet the transmitter reads is the one lp->skb holds: neither freed
\* nor unmapped under the DMA (at91ether_tx and the TCOM branch of
\* at91ether_interrupt).
THEOREM SkbStaysPinned == InTime => (Spec => []SkbPinned)
<1> SUFFICES ASSUME InTime PROVE Spec => []SkbPinned
  OBVIOUS
<1>1. TxInv => SkbPinned
  <2> SUFFICES ASSUME TxInv, NEW i \in DOMAIN txq PROVE txq[i] = skb
    BY DEF SkbPinned
  <2>1. CASE txq = <<>>
    BY <2>1
  <2>2. CASE txq = <<skb>>
    BY <2>2
  <2>3. QED
    BY <2>1, <2>2 DEF TxInv
<1>2. QED
  BY <1>1, TransmitCorrect, PTL

\* A stopped transmit queue always has a packet under way or its TCOM due
\* (netif_stop_queue in at91ether_tx against netif_wake_queue in the handler).
THEOREM QueueKept == InTime => (Spec => []QueueNotLost)
<1> SUFFICES ASSUME InTime PROVE Spec => []QueueNotLost
  OBVIOUS
<1>1. TxInv => QueueNotLost
  BY DEF TxInv, TcomDue, TcomRead, QueueNotLost
<1>2. QED
  BY <1>1, TransmitCorrect, PTL

-----------------------------------------------------------------------------
(* Errata 11, however late an interrupt is taken.                          *)

\* No step leaves the receiver locked up with nobody to restart it.
LEMMA WedgeInvStep ==
  ASSUME TypeOK, WedgeInv, [Next]_vars PROVE WedgeInv'
<1>1. CASE RxFrame \/ RxNoBuffer
  BY <1>1 DEF RxFrame, RxNoBuffer, Receiving, drvvars, WedgeInv
<1>2. CASE TxComplete
  BY <1>2 DEF TxComplete, drvvars, WedgeInv
<1>3. CASE Open \/ Close \/ Tx
  <2>1. /\ irq = "none" /\ irq' = "none" /\ isr' = isr
    BY <1>3 DEF Open, Close, Tx, OpenClock, OpenIer, StartDescr, StartIndex, StartRbqp, StartCtl,
       OpenQueue, CloseCtl, CloseIdr, CloseQueue, TxStop, TxStore, TxStart, ProcStep
  <2>2. locked' => locked
    BY <1>3 DEF Open, Close, Tx, OpenClock, OpenIer, StartDescr, StartIndex, StartRbqp, StartCtl,
       OpenQueue, CloseCtl, CloseIdr, CloseQueue, TxStop, TxStore, TxStart, WriteCtl
  <2>3. QED
    BY <2>1, <2>2 DEF WedgeInv
<1>4. CASE IrqEnter
  BY <1>4 DEF IrqEnter, IrqStep, AfterIsr, AfterRx, AfterTx, drvvars, WedgeInv
<1>5. CASE RxDeliver \/ RxSqueeze \/ RxRelease \/ RxEnd \/ IrqTcom
  <2>1. /\ UNCHANGED <<isr, locked, intstatus, ctl>>
        /\ irq \in {"rx", "release", "tcom"}
        /\ irq' \in {"rx", "release", AfterRx(intstatus), AfterTx(intstatus)}
    BY <1>5 DEF RxDeliver, RxSqueeze, RxRelease, RxEnd, IrqTcom, IrqStep, drvvars
  <2>2. irq' # "rbna2" /\ ("RBNA" \in intstatus => irq' # "none")
    BY <2>1 DEF AfterRx, AfterTx
  <2>3. QED
    BY <2>1, <2>2 DEF WedgeInv
<1>6. CASE IrqRbnaOff
  BY <1>6 DEF IrqRbnaOff, IrqStep, WriteCtl, drvvars, WedgeInv
<1>7. CASE IrqRbnaOn
  BY <1>7 DEF IrqRbnaOn, IrqStep, WriteCtl, drvvars, WedgeInv
<1>8. CASE UNCHANGED vars
  BY <1>8 DEF vars, hwvars, drvvars, WedgeInv
<1>9. QED
  BY <1>1, <1>2, <1>3, <1>4, <1>5, <1>6, <1>7, <1>8 DEF Next, Emac, Handler

\* A receiver stopped by errata 11 is always about to be restarted, however late
\* interrupts are taken (the RBNA branch of at91ether_interrupt).
THEOREM NeverWedged == Spec => []NotWedged
<1>1. Init => WedgeInv
  BY DEF Init, WedgeInv
<1>2. TypeOK /\ WedgeInv /\ [Next]_vars => WedgeInv'
  BY WedgeInvStep
<1>3. WedgeInv => NotWedged
  BY DEF WedgeInv, NotWedged
<1>4. QED
  BY <1>1, <1>2, <1>3, TypeCorrect, PTL DEF Spec

-----------------------------------------------------------------------------
(* The receive side implements FrameQueue.                                 *)

\* Sequences, told from what they are functions of.
LEMMA SeqAppend ==
  ASSUME NEW n \in Nat, NEW f \in [1 .. n -> Nat], NEW g \in [1 .. n + 1 -> Nat],
         \A i \in 1 .. n : g[i] = f[i]
  PROVE  g = Append(f, g[n + 1]) /\ Len(f) = n /\ f \in Seq(Nat)
<1>1. f \in Seq(Nat) /\ Len(f) = n /\ g \in Seq(Nat) /\ Len(g) = n + 1
  OBVIOUS
<1>2. Append(f, g[n + 1]) \in Seq(Nat) /\ Len(Append(f, g[n + 1])) = n + 1
  BY <1>1
<1>3. \A i \in 1 .. n + 1 : Append(f, g[n + 1])[i] = g[i]
  BY <1>1
<1>4. QED
  BY <1>1, <1>2, <1>3

LEMMA SeqTail ==
  ASSUME NEW n \in Nat, NEW f \in [1 .. n + 1 -> Nat], NEW g \in [1 .. n -> Nat],
         \A i \in 1 .. n : g[i] = f[i + 1]
  PROVE  Tail(f) = g /\ f # <<>> /\ Head(f) = f[1] /\ f \in Seq(Nat)
<1>1. f \in Seq(Nat) /\ Len(f) = n + 1 /\ g \in Seq(Nat) /\ Len(g) = n
  OBVIOUS
<1>2. f # <<>> /\ Tail(f) \in Seq(Nat) /\ Len(Tail(f)) = n /\ Head(f) = f[1]
  BY <1>1
<1>3. \A i \in 1 .. n : Tail(f)[i] = g[i]
  BY <1>1
<1>4. QED
  BY <1>1, <1>2, <1>3

LEMMA SeqEmpty == ASSUME NEW f \in [1 .. 0 -> Nat] PROVE f = <<>>
OBVIOUS

LEMMA TailAppend ==
  ASSUME NEW s \in Seq(Nat), s # <<>>, NEW x \in Nat
  PROVE  Tail(Append(s, x)) = Append(Tail(s), x)
         /\ Len(Tail(s)) \in Nat /\ Len(s) \in Nat /\ Len(Tail(s)) < Len(s)
OBVIOUS

\* The ring from descriptor r to the one before w
FilledOf(r, w) == IF r < w THEN w - r ELSE w - r + MAX_RX_DESCR
RingOf(b, r, w) == [n \in 1 .. FilledOf(r, w) |-> b[(r + n - 1) % MAX_RX_DESCR]]

LEMMA WaitingIs ==
  Waiting = IF ~done[rxBuffIndex] THEN <<>>
            ELSE IF irq = "release" THEN Tail(RingOf(buf, rxBuffIndex, rbqp))
            ELSE RingOf(buf, rxBuffIndex, rbqp)
BY DEF Waiting, RingOf, Filled, FilledOf

\* The number of a descriptor, going round.
LEMMA Around ==
  ASSUME NEW r \in Descr, NEW n \in 1 .. MAX_RX_DESCR
  PROVE  (r + n - 1) % MAX_RX_DESCR =
           IF r + n <= MAX_RX_DESCR THEN r + n - 1 ELSE r + n - 1 - MAX_RX_DESCR
<1>1. ASSUME NEW m \in Nat \ {0}, NEW x \in 0 .. m - 1 PROVE x % m = x /\ (x + m) % m = x
  <2>1. \A y \in Nat : y % m \in 0 .. m - 1 /\ y \div m \in Nat /\ y = m * (y \div m) + (y % m)
    OBVIOUS
  <2>2. ASSUME NEW y \in Nat, y < m PROVE m * y = 0 \/ m * y >= m
    OBVIOUS
  <2>3. \A d \in Nat : d = 0 \/ d = 1 \/ \E e \in Nat : d = e + 2
    <3>1. \A d \in Nat : d >= 2 => d - 2 \in Nat /\ d = (d - 2) + 2
      OBVIOUS
    <3>2. QED
      BY <3>1
  <2>4. \A e \in Nat : m * (e + 2) = m * e + m + m /\ m * e \in Nat
    OBVIOUS
  <2>5. x % m = x
    BY <2>1, <2>3, <2>4
  <2>6. (x + m) % m = x
    BY <2>1, <2>3, <2>4
  <2>7. QED
    BY <2>5, <2>6
<1>2. MAX_RX_DESCR \in Nat \ {0}
  BY DescrAssumption
<1>3. CASE r + n <= MAX_RX_DESCR
  <2>1. r + n - 1 \in 0 .. MAX_RX_DESCR - 1
    BY <1>2, <1>3
  <2>2. QED
    BY <1>1, <1>2, <1>3, <2>1
<1>4. CASE r + n > MAX_RX_DESCR
  <2>1. /\ r + n - 1 - MAX_RX_DESCR \in 0 .. MAX_RX_DESCR - 1
        /\ r + n - 1 = (r + n - 1 - MAX_RX_DESCR) + MAX_RX_DESCR
    BY <1>2, <1>4
  <2>2. ((r + n - 1 - MAX_RX_DESCR) + MAX_RX_DESCR) % MAX_RX_DESCR = r + n - 1 - MAX_RX_DESCR
    BY <1>1, <1>2, <2>1
  <2>3. ~(r + n <= MAX_RX_DESCR)
    BY <1>2, <1>4
  <2>4. QED
    BY <2>1, <2>2, <2>3
<1>5. QED
  BY <1>2, <1>3, <1>4

LEMMA RingType ==
  ASSUME NEW b \in [Descr -> Nat], NEW r \in Descr, NEW w \in Descr
  PROVE  /\ FilledOf(r, w) \in 1 .. MAX_RX_DESCR
         /\ RingOf(b, r, w) \in [1 .. FilledOf(r, w) -> Nat]
<1>1. FilledOf(r, w) \in 1 .. MAX_RX_DESCR /\ MAX_RX_DESCR \in Nat
  BY DescrAssumption DEF FilledOf
<1>2. \A n \in 1 .. MAX_RX_DESCR : (r + n - 1) % MAX_RX_DESCR \in Descr
  <2>1. \A n \in 1 .. MAX_RX_DESCR :
          (IF r + n <= MAX_RX_DESCR THEN r + n - 1 ELSE r + n - 1 - MAX_RX_DESCR) \in Descr
    BY DescrAssumption
  <2>2. QED
    BY <2>1, Around
<1>3. \A n \in 1 .. FilledOf(r, w) : b[(r + n - 1) % MAX_RX_DESCR] \in Nat
  BY <1>1, <1>2
<1>4. QED
  BY <1>1, <1>3 DEF RingOf

\* A frame that is stored comes last.
LEMMA RingGrows ==
  ASSUME NEW b \in [Descr -> Nat], NEW r \in Descr, NEW w \in Descr, r # w, NEW x \in Nat
  PROVE  /\ RingOf([b EXCEPT ![w] = x], r, NextDescr(w)) = Append(RingOf(b, r, w), x)
         /\ RingOf(b, r, w) \in Seq(Nat) /\ Len(RingOf(b, r, w)) < MAX_RX_DESCR
<1> DEFINE c == [b EXCEPT ![w] = x]
           v == NextDescr(w)
           n == FilledOf(r, w)
           f == RingOf(b, r, w)
           g == RingOf(c, r, v)
<1>1. c \in [Descr -> Nat] /\ v \in Descr /\ MAX_RX_DESCR \in Nat
  BY NextDescrType, DescrAssumption
<1>2. n \in 1 .. MAX_RX_DESCR - 1 /\ FilledOf(r, v) = n + 1
  BY DescrAssumption DEF FilledOf, NextDescr
<1>3. f \in [1 .. n -> Nat] /\ g \in [1 .. n + 1 -> Nat]
  BY <1>1, <1>2, RingType
<1>4. ASSUME NEW i \in 1 .. n PROVE g[i] = f[i]
  <2>1. i \in 1 .. MAX_RX_DESCR /\ i \in 1 .. n + 1
    BY <1>1, <1>2
  <2>2. (r + i - 1) % MAX_RX_DESCR \in Descr /\ (r + i - 1) % MAX_RX_DESCR # w
    <3>1. /\ (IF r + i <= MAX_RX_DESCR THEN r + i - 1 ELSE r + i - 1 - MAX_RX_DESCR) \in Descr
          /\ (IF r + i <= MAX_RX_DESCR THEN r + i - 1 ELSE r + i - 1 - MAX_RX_DESCR) # w
      BY <1>1, <1>2 DEF FilledOf
    <3>2. QED
      BY <2>1, <3>1, Around
  <2>3. QED
    BY <1>2, <2>1, <2>2 DEF RingOf
<1>5. g[n + 1] = x
  <2>1. n + 1 \in 1 .. MAX_RX_DESCR /\ n + 1 \in 1 .. n + 1
    BY <1>1, <1>2
  <2>2. (r + (n + 1) - 1) % MAX_RX_DESCR = w
    <3>1. (IF r + (n + 1) <= MAX_RX_DESCR THEN r + (n + 1) - 1 ELSE r + (n + 1) - 1 - MAX_RX_DESCR) = w
      BY <1>1, <1>2 DEF FilledOf
    <3>2. QED
      BY <2>1, <3>1, Around
  <2>3. QED
    BY <1>2, <2>1, <2>2 DEF RingOf
<1> HIDE DEF c, v, f, g, n
<1>6. g = Append(f, g[n + 1]) /\ Len(f) = n /\ f \in Seq(Nat)
  BY <1>2, <1>3, <1>4, SeqAppend
<1>7. Len(f) < MAX_RX_DESCR
  <2>1. n < MAX_RX_DESCR
    BY <1>1, <1>2
  <2>2. QED
    BY <2>1, <1>6
<1>8. g = Append(f, x)
  BY <1>5, <1>6
<1>9. QED
  BY <1>6, <1>7, <1>8 DEF c, v, f, g

\* The first frame of an empty ring.
LEMMA RingOne ==
  ASSUME NEW b \in [Descr -> Nat], NEW r \in Descr, NEW x \in Nat
  PROVE  RingOf([b EXCEPT ![r] = x], r, NextDescr(r)) = <<x>>
<1>1. FilledOf(r, NextDescr(r)) = 1
  BY DescrAssumption DEF FilledOf, NextDescr
<1>2. (r + 1 - 1) % MAX_RX_DESCR = r
  BY Around, DescrAssumption
<1>3. [b EXCEPT ![r] = x][(r + 1 - 1) % MAX_RX_DESCR] = x
  BY <1>2
<1>4. QED
  BY <1>1, <1>3 DEF RingOf

\* The oldest frame comes first; without it the ring begins with the next descriptor.
LEMMA RingShrinks ==
  ASSUME NEW b \in [Descr -> Nat], NEW r \in Descr, NEW w \in Descr
  PROVE  /\ RingOf(b, r, w) # <<>> /\ Head(RingOf(b, r, w)) = b[r]
         /\ NextDescr(r) = w => Tail(RingOf(b, r, w)) = <<>>
         /\ NextDescr(r) # w => Tail(RingOf(b, r, w)) = RingOf(b, NextDescr(r), w)
<1> DEFINE n == FilledOf(r, w) - 1
           f == RingOf(b, r, w)
           h == [i \in 1 .. n |-> f[i + 1]]
<1>1. n \in Nat /\ n + 1 = FilledOf(r, w) /\ f \in [1 .. n + 1 -> Nat] /\ n + 1 \in 1 .. MAX_RX_DESCR
      /\ MAX_RX_DESCR \in Nat
  <2>1. FilledOf(r, w) \in 1 .. MAX_RX_DESCR /\ MAX_RX_DESCR \in Nat
    BY RingType, DescrAssumption
  <2>2. n \in Nat /\ n + 1 = FilledOf(r, w)
    BY <2>1
  <2>3. f \in [1 .. FilledOf(r, w) -> Nat]
    BY RingType
  <2>4. QED
    BY <2>1, <2>2, <2>3
<1>2. f[1] = b[r]
  <2>1. (r + 1 - 1) % MAX_RX_DESCR = r
    BY Around, DescrAssumption
  <2>2. 1 \in 1 .. FilledOf(r, w)
    BY <1>1
  <2>3. QED
    BY <2>1, <2>2 DEF RingOf
<1>3. h \in [1 .. n -> Nat] /\ \A i \in 1 .. n : h[i] = f[i + 1]
  BY <1>1
<1>4. NextDescr(r) = w => n = 0
  BY DescrAssumption DEF FilledOf, NextDescr
<1>5. ASSUME NextDescr(r) # w PROVE h = RingOf(b, NextDescr(r), w)
  <2>1. FilledOf(NextDescr(r), w) = n
    BY <1>5, DescrAssumption DEF FilledOf, NextDescr
  <2>2. ASSUME NEW i \in 1 .. n PROVE f[i + 1] = b[(NextDescr(r) + i - 1) % MAX_RX_DESCR]
    <3>1. i \in 1 .. MAX_RX_DESCR /\ i + 1 \in 1 .. MAX_RX_DESCR /\ i + 1 \in 1 .. n + 1
          /\ NextDescr(r) \in Descr
      BY <1>1, NextDescrType
    <3>2. (NextDescr(r) + i - 1) % MAX_RX_DESCR = (r + (i + 1) - 1) % MAX_RX_DESCR
      <4>1. (r + (i + 1) - 1) % MAX_RX_DESCR =
              IF r + (i + 1) <= MAX_RX_DESCR THEN r + (i + 1) - 1 ELSE r + (i + 1) - 1 - MAX_RX_DESCR
        BY <3>1, Around
      <4>2. (NextDescr(r) + i - 1) % MAX_RX_DESCR =
              IF NextDescr(r) + i <= MAX_RX_DESCR THEN NextDescr(r) + i - 1
                                                  ELSE NextDescr(r) + i - 1 - MAX_RX_DESCR
        BY <3>1, Around
      <4>3. (IF r + (i + 1) <= MAX_RX_DESCR THEN r + (i + 1) - 1 ELSE r + (i + 1) - 1 - MAX_RX_DESCR)
              = (IF NextDescr(r) + i <= MAX_RX_DESCR THEN NextDescr(r) + i - 1
                                                     ELSE NextDescr(r) + i - 1 - MAX_RX_DESCR)
        BY <1>1, <3>1 DEF NextDescr
      <4>4. QED
        BY <4>1, <4>2, <4>3
    <3>3. QED
      BY <1>1, <3>1, <3>2 DEF RingOf
  <2>3. RingOf(b, NextDescr(r), w) = [i \in 1 .. n |-> b[(NextDescr(r) + i - 1) % MAX_RX_DESCR]]
    BY <2>1 DEF RingOf
  <2>4. QED
    BY <2>2, <2>3
<1> HIDE DEF h, f, n
<1>6. Tail(f) = h /\ f # <<>> /\ Head(f) = f[1]
  BY <1>1, <1>3, SeqTail
<1>7. n = 0 => h = <<>>
  BY <1>3, SeqEmpty
<1>8. QED
  BY <1>2, <1>4, <1>5, <1>6, <1>7 DEF f

LEMMA WaitingNext ==
  Waiting' = IF ~done'[rxBuffIndex'] THEN <<>>
             ELSE IF irq' = "release" THEN Tail(RingOf(buf', rxBuffIndex', rbqp'))
             ELSE RingOf(buf', rxBuffIndex', rbqp')
BY DEF Waiting, RingOf, Filled, FilledOf

\* A step that leaves the ring and the handler's place in it alone leaves the queue alone.
LEMMA WaitingKept ==
  ASSUME UNCHANGED <<done, buf, rbqp, rxBuffIndex>>, irq' = "release" <=> irq = "release"
  PROVE  Waiting' = Waiting
BY WaitingIs, WaitingNext

\* With an empty ring, before and after, nothing waits.
LEMMA WaitingNone ==
  ASSUME TypeOK, TypeOK', \A i \in Descr : ~done[i], \A i \in Descr : ~done'[i]
  PROVE  Waiting = <<>> /\ Waiting' = <<>>
<1>1. ~done[rxBuffIndex] /\ ~done'[rxBuffIndex']
  BY DEF TypeOK
<1>2. QED
  BY <1>1, WaitingIs, WaitingNext

\* A stored frame enters the queue.
LEMMA RxFrameQueue ==
  ASSUME TypeOK, RingInv, RxFrame PROVE Queue!Accept
<1>1. ~Off /\ rbqp \in Descr /\ ~done[rbqp]
  BY DEF RxFrame, Receiving, RingInv, Quiet, TypeOK
<1>2. /\ UNCHANGED <<irq, out, rxBuffIndex>>
      /\ rbqp' = NextDescr(rbqp)
      /\ done' = [done EXCEPT ![rbqp] = TRUE]
      /\ buf' = [buf EXCEPT ![rbqp] = arrived + 1]
      /\ arrived' = arrived + 1
  BY DEF RxFrame, drvvars
<1>3. /\ rxBuffIndex \in Descr /\ buf \in [Descr -> Nat] /\ arrived + 1 \in Nat
      /\ MAX_RX_DESCR \in Nat \ {0}
  BY DescrAssumption DEF TypeOK
<1> DEFINE ring == RingOf(buf, rxBuffIndex, rbqp)
           next == RingOf(buf', rxBuffIndex', rbqp')
<1>4. CASE ~done[rxBuffIndex]
  <2>1. rbqp = rxBuffIndex
    BY <1>1, <1>4 DEF RingInv, RingShape, InWindow, TypeOK
  <2>2. done'[rxBuffIndex'] /\ irq' # "release"
    BY <1>1, <1>2, <1>4, <2>1 DEF TypeOK, RingInv
  <2>3. next = <<arrived + 1>>
    BY <1>2, <1>3, <2>1, RingOne
  <2>4. Waiting = <<>> /\ Waiting' = <<arrived + 1>>
    BY <1>4, <2>2, <2>3, WaitingIs, WaitingNext
  <2>5. Len(Waiting) < MAX_RX_DESCR /\ Waiting' = Append(Waiting, arrived + 1)
    BY <1>3, <2>4
  <2>6. QED
    BY <1>2, <2>5 DEF Queue!Accept
<1>5. CASE done[rxBuffIndex]
  <2>1. rxBuffIndex # rbqp
    BY <1>1, <1>5
  <2>2. /\ next = Append(ring, arrived + 1)
        /\ ring \in Seq(Nat) /\ Len(ring) < MAX_RX_DESCR
    BY <1>1, <1>2, <1>3, <2>1, RingGrows
  <2>3. done'[rxBuffIndex']
    BY <1>2, <1>3, <1>5, <2>1 DEF TypeOK
  <2>4. CASE irq # "release"
    <3>1. Waiting = ring /\ Waiting' = next
      BY <1>2, <1>5, <2>3, <2>4, WaitingIs, WaitingNext
    <3>2. QED
      BY <1>2, <2>2, <3>1 DEF Queue!Accept
  <2>5. CASE irq = "release"
    <3>1. Waiting = Tail(ring) /\ Waiting' = Tail(next)
      BY <1>2, <1>5, <2>3, <2>5, WaitingIs, WaitingNext
    <3>2. ring # <<>>
      BY <1>1, <1>3, RingShrinks
    <3>3. Tail(next) = Append(Tail(ring), arrived + 1) /\ Len(Tail(ring)) < Len(ring)
          /\ Len(Tail(ring)) \in Nat /\ Len(ring) \in Nat
      BY <1>3, <2>2, <3>2, TailAppend
    <3>4. Len(Waiting) < MAX_RX_DESCR
      BY <1>3, <2>2, <3>1, <3>3
    <3>5. QED
      BY <1>2, <3>1, <3>3, <3>4 DEF Queue!Accept
  <2>6. QED
    BY <2>4, <2>5
<1>6. QED
  BY <1>4, <1>5

\* A frame that finds no descriptor is missed.
LEMMA RxNoBufferQueue ==
  ASSUME RxNoBuffer PROVE Queue!Miss
<1>1. UNCHANGED <<done, buf, rbqp, rxBuffIndex, irq, out>> /\ arrived' = arrived + 1
  BY DEF RxNoBuffer, drvvars
<1>2. Waiting' = Waiting
  BY <1>1, WaitingKept
<1>3. QED
  BY <1>1, <1>2 DEF Queue!Miss

\* The handler takes the oldest frame: it is passed up or dropped.
LEMMA RxTakeQueue ==
  ASSUME TypeOK, RxDeliver \/ RxSqueeze PROVE Queue!PassUp \/ Queue!Drop
<1>1. /\ irq = "rx" /\ irq' = "release" /\ done[rxBuffIndex]
      /\ UNCHANGED <<done, buf, rbqp, rxBuffIndex, arrived>>
  BY DEF RxDeliver, RxSqueeze, IrqStep, drvvars
<1> DEFINE ring == RingOf(buf, rxBuffIndex, rbqp)
<1>2. ring # <<>> /\ Head(ring) = buf[rxBuffIndex]
  BY RingShrinks DEF TypeOK
<1>3. Waiting = ring /\ Waiting' = Tail(ring)
  BY <1>1, WaitingIs, WaitingNext
<1>4. CASE RxDeliver
  <2>1. out' = Head(ring)
    BY <1>2, <1>4 DEF RxDeliver
  <2>2. QED
    BY <1>1, <1>2, <1>3, <2>1 DEF Queue!PassUp
<1>5. CASE RxSqueeze
  <2>1. out' = out
    BY <1>5 DEF RxSqueeze
  <2>2. QED
    BY <1>1, <1>2, <1>3, <2>1 DEF Queue!Drop
<1>6. QED
  BY <1>4, <1>5

\* Giving the descriptor back is no step of the queue.
LEMMA RxReleaseQueue ==
  ASSUME TypeOK, RingInv, RxRelease PROVE Waiting' = Waiting
<1>1. irq = "release" /\ irq' = "rx" /\ done[rxBuffIndex]
  BY DEF RxRelease, IrqStep, RingInv
<1>2. /\ UNCHANGED <<rbqp, buf>>
      /\ rxBuffIndex' = NextDescr(rxBuffIndex) /\ rxBuffIndex' \in Descr
      /\ done' = [done EXCEPT ![rxBuffIndex] = FALSE]
  BY NextDescrType DEF RxRelease, IrqStep, TypeOK
<1>3. /\ rxBuffIndex \in Descr /\ rbqp \in Descr /\ buf \in [Descr -> Nat]
  BY DEF TypeOK
<1>4. \A i \in Descr : done[i] <=> InWindow(i)
  BY <1>1, <1>3 DEF RingInv, RingShape
<1> DEFINE ring == RingOf(buf, rxBuffIndex, rbqp)
<1>5. Waiting = Tail(ring)
  BY <1>1, WaitingIs
<1>6. CASE rxBuffIndex' = rbqp
  <2>1. ~done'[rxBuffIndex']
    BY <1>2, <1>3, <1>4, <1>6, DescrAssumption DEF InWindow, NextDescr, TypeOK
  <2>2. Waiting' = <<>>
    BY <2>1, WaitingNext
  <2>3. NextDescr(rxBuffIndex) = rbqp
    BY <1>2, <1>6
  <2>4. Tail(ring) = <<>>
    BY <1>3, <2>3, RingShrinks
  <2>5. QED
    BY <1>5, <2>2, <2>4
<1>7. CASE rxBuffIndex' # rbqp
  <2>1. done'[rxBuffIndex']
    BY <1>2, <1>3, <1>4, <1>7, DescrAssumption DEF InWindow, NextDescr, TypeOK
  <2>2. Waiting' = RingOf(buf, rxBuffIndex', rbqp)
    BY <1>1, <1>2, <2>1, WaitingNext
  <2>3. Tail(ring) = RingOf(buf, rxBuffIndex', rbqp)
    BY <1>2, <1>3, <1>7, RingShrinks
  <2>4. QED
    BY <1>5, <2>2, <2>3
<1>8. QED
  BY <1>6, <1>7

\* The process context touches the ring only before the first frame is there.
LEMMA ProcQueue ==
  ASSUME TypeOK, TypeOK', RingInv, Open \/ Close \/ Tx
  PROVE  Waiting' = Waiting /\ UNCHANGED <<arrived, out>>
<1>1. \E from, to \in Places : ProcStep(from, to)
  BY DEF Open, Close, Tx, OpenClock, OpenIer, StartDescr, StartIndex, StartRbqp, StartCtl, OpenQueue,
     CloseCtl, CloseIdr, CloseQueue, TxStop, TxStore, TxStart, Places
<1>2. irq = "none" /\ irq' = "none" /\ UNCHANGED <<buf, arrived, out>>
  BY <1>1, ProcStepPrompt
<1>3. CASE StartDescr \/ StartIndex \/ StartRbqp
  <2>1. Off
    BY <1>3 DEF StartDescr, StartIndex, StartRbqp, ProcStep, Off, Running
  <2>2. \A i \in Descr : ~done[i]
    BY <2>1 DEF RingInv, Quiet
  <2>3. \A i \in Descr : ~done'[i]
    BY <1>3, <2>2 DEF StartDescr, StartIndex, StartRbqp, TypeOK
  <2>4. QED
    BY <1>2, <2>2, <2>3, WaitingNone
<1>4. CASE ~(StartDescr \/ StartIndex \/ StartRbqp)
  <2>1. UNCHANGED <<done, rbqp, rxBuffIndex>>
    BY <1>4 DEF Open, Close, Tx, OpenClock, OpenIer, StartCtl, OpenQueue, CloseCtl, CloseIdr,
       CloseQueue, TxStop, TxStore, TxStart, drvvars
  <2>2. QED
    BY <1>2, <2>1, WaitingKept
<1>5. QED
  BY <1>3, <1>4

\* Every step is a step of the queue or none.
LEMMA QueueStep ==
  ASSUME TypeOK, TypeOK', RingInv, [Next]_vars
  PROVE  [Queue!QNext]_(Queue!qvars)
<1> SUFFICES \/ Queue!Accept \/ Queue!Miss \/ Queue!PassUp \/ Queue!Drop
             \/ Waiting' = Waiting /\ UNCHANGED <<arrived, out>>
  BY DEF Queue!QNext, Queue!qvars
<1>1. CASE RxFrame
  BY <1>1, RxFrameQueue
<1>2. CASE RxNoBuffer
  BY <1>2, RxNoBufferQueue
<1>3. CASE TxComplete
  BY <1>3, WaitingKept DEF TxComplete, drvvars
<1>4. CASE Open \/ Close \/ Tx
  BY <1>4, ProcQueue
<1>5. CASE IrqEnter
  BY <1>5, WaitingKept DEF IrqEnter, IrqStep, AfterIsr, AfterRx, AfterTx, drvvars
<1>6. CASE RxDeliver \/ RxSqueeze
  BY <1>6, RxTakeQueue
<1>7. CASE RxRelease
  BY <1>7, RxReleaseQueue DEF RxRelease, IrqStep
<1>8. CASE RxEnd \/ IrqTcom \/ IrqRbnaOff \/ IrqRbnaOn
  BY <1>8, WaitingKept DEF RxEnd, IrqTcom, IrqRbnaOff, IrqRbnaOn, IrqStep, AfterRx, AfterTx, drvvars
<1>9. CASE UNCHANGED vars
  BY <1>9, WaitingKept DEF vars, hwvars, drvvars
<1>10. QED
  BY <1>1, <1>2, <1>3, <1>4, <1>5, <1>6, <1>7, <1>8, <1>9 DEF Next, Emac, Handler

\* What becomes of a received frame, for a ring of any size and interrupts taken
\* at once, or an interface that is opened only once: it is missed, or it waits
\* its turn in a queue no longer than the ring and is then passed up or dropped,
\* once (at91ether_rx against the EMAC, over any number of opens and closes).
THEOREM ImplementsQueue == OnceOrPrompt => (Spec => QueueSafe)
<1> SUFFICES ASSUME OnceOrPrompt PROVE Spec => QueueSafe
  OBVIOUS
<1>1. Init => Queue!QInit
  <2>1. Init => ~done[rxBuffIndex]
    BY DescrAssumption DEF Init
  <2>2. QED
    BY <2>1, WaitingIs DEF Init, Queue!QInit
<1>2. TypeOK /\ TypeOK' /\ RingInv /\ [Next]_vars => [Queue!QNext]_(Queue!qvars)
  BY QueueStep
<1>3. Spec => []TypeOK /\ []RingInv
  BY TypeCorrect, RingCorrect, PTL
<1>4. QED
  BY <1>1, <1>2, <1>3, PTL DEF Spec, QueueSafe, Queue!QSafe
=============================================================================
