------------------------------ MODULE At91Ether ------------------------------
(***************************************************************************)
(* The receive ring, the transmit slot and the interrupt handler of the    *)
(* AT91RM9200 Ethernet driver (drivers/net/arm/at91_ether.c), together     *)
(* with the part of the EMAC they drive.                                   *)
(*                                                                         *)
(* Three agents take steps: the process context (at91ether_open,           *)
(* at91ether_close, at91ether_tx, one at a time), the interrupt handler,   *)
(* which on this uniprocessor build runs to its end before the process     *)
(* context goes on, and the EMAC, which moves frames and raises interrupt  *)
(* bits between any two register accesses of either.                       *)
(***************************************************************************)
EXTENDS Integers, Sequences

CONSTANTS
  MAX_RX_DESCR,  \* number of receive descriptors in the ring
  MaxLatency,    \* process steps that may complete after an interrupt is asserted
  MaxFrames,     \* bound: frames that reach the receiver
  MaxSkbs,       \* bound: packets handed to at91ether_tx
  MaxOpens       \* bound: calls of at91ether_open

ASSUME DescrAssumption == MAX_RX_DESCR \in Nat \ {0}
ASSUME BoundAssumption == /\ MaxLatency \in Nat
                          /\ MaxFrames \in Nat
                          /\ MaxSkbs \in Nat
                          /\ MaxOpens \in Nat

VARIABLES
  ctl,          \* AT91_EMAC_CTL: the receiver and transmitter enable bits
  isr,          \* AT91_EMAC_ISR: latched interrupt bits, cleared when read
  imr,          \* the bits enabled with AT91_EMAC_IER
  rbqp,         \* the descriptor the EMAC fills next
  locked,       \* errata 11: the receiver stopped for want of a buffer
  txq,          \* the packets given to the transmitter and not yet sent
  done,         \* EMAC_DESC_DONE of each descriptor
  buf,          \* the frame in each receive buffer (0: none yet)
  rxBuffIndex,  \* lp->rxBuffIndex
  skb,          \* lp->skb (0: NULL)
  xoff,         \* the transmit queue is stopped
  pc,           \* where the process context is
  k,            \* the loop counter of at91ether_start
  irq,          \* where the interrupt handler is
  intstatus,    \* the handler's copy of AT91_EMAC_ISR
  late,         \* process steps taken since an interrupt is asserted
  arrived,      \* history: number of the last frame that reached the receiver
  out,          \* history: number of the last frame passed to netif_rx
  nskb,         \* history: number of the last packet handed to at91ether_tx
  opens         \* history: calls of at91ether_open

hwvars  == <<ctl, isr, imr, rbqp, locked, txq, done, buf>>
drvvars == <<rxBuffIndex, skb, xoff>>
vars == <<hwvars, drvvars, pc, k, irq, intstatus, late, arrived, out, nskb, opens>>

Descr == 0 .. MAX_RX_DESCR - 1
Irqs  == {"RCOM", "TCOM", "RBNA"}

\* Mutant: no wrap.
NextDescrPast(i) == i + 1

\* The index after i, as the handler wraps it and as EMAC_DESC_WRAP makes the EMAC wrap it.
NextDescr(i) == IF i = MAX_RX_DESCR - 1 THEN 0 ELSE i + 1

Init ==
  /\ ctl = {} /\ isr = {} /\ imr = {} /\ rbqp = 0 /\ locked = FALSE /\ txq = <<>>
  /\ done = [i \in Descr |-> FALSE] /\ buf = [i \in Descr |-> 0]
  /\ rxBuffIndex = 0 /\ skb = 0 /\ xoff = FALSE
  /\ pc = "down" /\ k = 0 /\ irq = "none" /\ intstatus = {} /\ late = 0
  /\ arrived = 0 /\ out = 0 /\ nskb = 0 /\ opens = 0

-----------------------------------------------------------------------------
(* The EMAC.  Its clock runs from at91ether_open to the end of              *)
(* at91ether_close.                                                         *)

Clocked == pc # "down"

\* A write to AT91_EMAC_CTL.  Clearing RE ends the lock-up of errata 11,
\* clearing TE empties the transmitter.
WriteCtl(bits) ==
  /\ ctl' = bits
  /\ locked' = (locked /\ "RE" \in bits)
  /\ txq' = IF "TE" \in bits THEN txq ELSE <<>>

Receiving == Clocked /\ "RE" \in ctl /\ ~locked /\ arrived < MaxFrames

\* A frame is stored: buffer, ownership bit, then RCOM.
RxFrame ==
  /\ Receiving /\ ~done[rbqp]
  /\ arrived' = arrived + 1
  /\ buf' = [buf EXCEPT ![rbqp] = arrived + 1]
  /\ done' = [done EXCEPT ![rbqp] = TRUE]
  /\ rbqp' = NextDescr(rbqp)
  /\ isr' = isr \cup {"RCOM"}
  /\ UNCHANGED <<ctl, imr, locked, txq, drvvars, pc, k, irq, intstatus, late, out, nskb, opens>>

\* A frame finds the next descriptor still owned by the driver: it is lost,
\* RBNA is raised and the receiver stops (errata 11).
RxNoBuffer ==
  /\ Receiving /\ done[rbqp]
  /\ arrived' = arrived + 1
  /\ locked' = TRUE
  /\ isr' = isr \cup {"RBNA"}
  /\ UNCHANGED <<ctl, imr, rbqp, txq, done, buf, drvvars, pc, k, irq, intstatus, late, out, nskb, opens>>

\* A packet has left, or was given up on: TCOM is raised in both cases.
TxComplete ==
  /\ Clocked /\ "TE" \in ctl /\ txq # <<>>
  /\ txq' = Tail(txq)
  /\ isr' = isr \cup {"TCOM"}
  /\ UNCHANGED <<ctl, imr, rbqp, locked, done, buf, drvvars, pc, k, irq, intstatus, late, arrived, out, nskb, opens>>

-----------------------------------------------------------------------------
(* The process context.  It runs only while no handler does, and an        *)
(* asserted interrupt is taken after at most MaxLatency of its steps.       *)

Pending == isr \cap imr # {}

ProcStep(from, to) ==
  /\ irq = "none" /\ pc = from /\ pc' = to
  /\ Pending => late < MaxLatency
  /\ late' = IF Pending THEN late + 1 ELSE 0
  /\ UNCHANGED <<isr, buf, irq, intstatus, arrived, out>>

\* at91ether_open: the clock, then the interrupt mask, then at91ether_start.
OpenClock ==
  /\ ProcStep("down", "ier") /\ opens < MaxOpens
  /\ opens' = opens + 1
  /\ UNCHANGED <<ctl, imr, rbqp, locked, txq, done, drvvars, k, nskb>>

OpenIer ==
  /\ ProcStep("ier", "descr")
  /\ imr' = Irqs /\ k' = 0
  /\ UNCHANGED <<ctl, rbqp, locked, txq, done, drvvars, nskb, opens>>

\* at91ether_start: every descriptor is given back to the EMAC, the indices
\* restart at the first, then receiver and transmitter are enabled.
StartDescr ==
  /\ ProcStep("descr", "descr") /\ k < MAX_RX_DESCR
  /\ done' = [done EXCEPT ![k] = FALSE] /\ k' = k + 1
  /\ UNCHANGED <<ctl, imr, rbqp, locked, txq, drvvars, nskb, opens>>

\* Mutant: the software index is not reset.
StartIndexKept ==
  /\ ProcStep("descr", "rbqp") /\ k = MAX_RX_DESCR
  /\ UNCHANGED <<ctl, imr, rbqp, locked, txq, done, drvvars, k, nskb, opens>>

StartIndex ==
  /\ ProcStep("descr", "rbqp") /\ k = MAX_RX_DESCR
  /\ rxBuffIndex' = 0
  /\ UNCHANGED <<ctl, imr, rbqp, locked, txq, done, skb, xoff, k, nskb, opens>>

\* Mutant: the EMAC goes on where it stopped.
StartRbqpKept ==
  /\ ProcStep("rbqp", "ctl")
  /\ UNCHANGED <<ctl, imr, rbqp, locked, txq, done, drvvars, k, nskb, opens>>

StartRbqp ==
  /\ ProcStep("rbqp", "ctl")
  /\ rbqp' = 0
  /\ UNCHANGED <<ctl, imr, locked, txq, done, drvvars, k, nskb, opens>>

StartCtl ==
  /\ ProcStep("ctl", "startq")
  /\ WriteCtl(ctl \cup {"RE", "TE"})
  /\ UNCHANGED <<imr, rbqp, done, drvvars, k, nskb, opens>>

OpenQueue ==
  /\ ProcStep("startq", "up")
  /\ xoff' = FALSE
  /\ UNCHANGED <<ctl, imr, rbqp, locked, txq, done, rxBuffIndex, skb, k, nskb, opens>>

\* at91ether_close: receiver and transmitter off, then the interrupt mask,
\* then the queue and the clock.
CloseCtl ==
  /\ ProcStep("up", "idr")
  /\ WriteCtl(ctl \ {"RE", "TE"})
  /\ UNCHANGED <<imr, rbqp, done, drvvars, k, nskb, opens>>

CloseIdr ==
  /\ ProcStep("idr", "stopq")
  /\ imr' = {}
  /\ UNCHANGED <<ctl, rbqp, locked, txq, done, drvvars, k, nskb, opens>>

CloseQueue ==
  /\ ProcStep("stopq", "down")
  /\ xoff' = TRUE
  /\ UNCHANGED <<ctl, imr, rbqp, locked, txq, done, rxBuffIndex, skb, k, nskb, opens>>

\* at91ether_tx.  The transmitter takes a second packet while it sends a first;
\* with two it is not "BNQ" and the call returns 1, changing nothing.
BNQ == Len(txq) < 2

\* Mutant: the queue is not stopped.
TxStopAwake ==
  /\ ProcStep("up", "store") /\ ~xoff /\ nskb < MaxSkbs /\ BNQ
  /\ nskb' = nskb + 1
  /\ UNCHANGED <<ctl, imr, rbqp, locked, txq, done, drvvars, k, opens>>

TxStop ==
  /\ ProcStep("up", "store") /\ ~xoff /\ nskb < MaxSkbs /\ BNQ
  /\ nskb' = nskb + 1 /\ xoff' = TRUE
  /\ UNCHANGED <<ctl, imr, rbqp, locked, txq, done, rxBuffIndex, skb, k, opens>>

TxStore ==
  /\ ProcStep("store", "tcr")
  /\ skb' = nskb
  /\ UNCHANGED <<ctl, imr, rbqp, locked, txq, done, rxBuffIndex, xoff, k, nskb, opens>>

TxStart ==
  /\ ProcStep("tcr", "up")
  /\ txq' = Append(txq, nskb)
  /\ UNCHANGED <<ctl, imr, rbqp, locked, done, drvvars, k, nskb, opens>>

-----------------------------------------------------------------------------
(* at91ether_interrupt.  The handler first reads, and so clears, the        *)
(* status, then does what the copy asks for: receive, transmit done, the    *)
(* work-around for errata 11.                                               *)

IrqStep(from, to) ==
  /\ irq = from /\ irq' = to
  /\ UNCHANGED <<imr, rbqp, buf, pc, k, arrived, nskb, opens>>

AfterTx(status) == IF "RBNA" \in status THEN "rbna" ELSE "none"
AfterRx(status) == IF "TCOM" \in status THEN "tcom" ELSE AfterTx(status)
AfterIsr(status) == IF "RCOM" \in status THEN "rx" ELSE AfterRx(status)

IrqEnter ==
  /\ Pending
  /\ IrqStep("none", AfterIsr(isr))
  /\ intstatus' = isr /\ isr' = {} /\ late' = 0
  /\ UNCHANGED <<ctl, locked, txq, done, drvvars, out>>

\* at91ether_rx: copy the frame at rxBuffIndex and pass it up, or drop it for
\* want of memory; then give the descriptor back and move on.
RxDeliver ==
  /\ IrqStep("rx", "release") /\ done[rxBuffIndex]
  /\ out' = buf[rxBuffIndex]
  /\ UNCHANGED <<ctl, isr, locked, txq, done, drvvars, intstatus, late>>

RxSqueeze ==
  /\ IrqStep("rx", "release") /\ done[rxBuffIndex]
  /\ UNCHANGED <<ctl, isr, locked, txq, done, drvvars, intstatus, late, out>>

\* Mutant: one frame per interrupt.
RxReleaseOne ==
  /\ IrqStep("release", AfterRx(intstatus))
  /\ done' = [done EXCEPT ![rxBuffIndex] = FALSE]
  /\ rxBuffIndex' = NextDescr(rxBuffIndex)
  /\ UNCHANGED <<ctl, isr, locked, txq, skb, xoff, intstatus, late, out>>

\* Mutant: the ownership bit is not given back.
RxReleaseKept ==
  /\ IrqStep("release", "rx")
  /\ rxBuffIndex' = NextDescr(rxBuffIndex)
  /\ UNCHANGED <<ctl, isr, locked, txq, done, skb, xoff, intstatus, late, out>>

RxRelease ==
  /\ IrqStep("release", "rx")
  /\ done' = [done EXCEPT ![rxBuffIndex] = FALSE]
  /\ rxBuffIndex' = NextDescr(rxBuffIndex)
  /\ UNCHANGED <<ctl, isr, locked, txq, skb, xoff, intstatus, late, out>>

\* Mutant: "else if" between receive and transmit.
RxEndElse ==
  /\ IrqStep("rx", AfterTx(intstatus)) /\ ~done[rxBuffIndex]
  /\ UNCHANGED <<ctl, isr, locked, txq, done, drvvars, intstatus, late, out>>

RxEnd ==
  /\ IrqStep("rx", AfterRx(intstatus)) /\ ~done[rxBuffIndex]
  /\ UNCHANGED <<ctl, isr, locked, txq, done, drvvars, intstatus, late, out>>

\* Transmit complete: free the packet, if there is one, and wake the queue.
\* Mutant: "else if" between transmit and errata 11.
IrqTcomElse ==
  /\ IrqStep("tcom", "none")
  /\ skb' = 0 /\ xoff' = FALSE
  /\ UNCHANGED <<ctl, isr, locked, txq, done, rxBuffIndex, intstatus, late, out>>

IrqTcom ==
  /\ IrqStep("tcom", AfterTx(intstatus))
  /\ skb' = 0 /\ xoff' = FALSE
  /\ UNCHANGED <<ctl, isr, locked, txq, done, rxBuffIndex, intstatus, late, out>>

\* Errata 11: the receiver is disabled and enabled again.
IrqRbnaOff ==
  /\ IrqStep("rbna", "rbna2")
  /\ WriteCtl(ctl \ {"RE"})
  /\ UNCHANGED <<isr, done, drvvars, intstatus, late, out>>

IrqRbnaOn ==
  /\ IrqStep("rbna2", "none")
  /\ WriteCtl(ctl \cup {"RE"})
  /\ UNCHANGED <<isr, done, drvvars, intstatus, late, out>>

-----------------------------------------------------------------------------
Emac    == RxFrame \/ RxNoBuffer \/ TxComplete
Open    == OpenClock \/ OpenIer \/ StartDescr \/ StartIndex \/ StartRbqp \/ StartCtl \/ OpenQueue
Close   == CloseCtl \/ CloseIdr \/ CloseQueue
Tx      == TxStop \/ TxStore \/ TxStart
Handler == IrqEnter \/ RxDeliver \/ RxSqueeze \/ RxRelease \/ RxEnd \/ IrqTcom \/ IrqRbnaOff \/ IrqRbnaOn

Next == Emac \/ Open \/ Close \/ Tx \/ Handler

Spec == Init /\ [][Next]_vars

(* An asserted interrupt is taken and its handler runs to its end; a call  *)
(* of the driver, once begun, goes on; a transmission that was started     *)
(* ends.  Nothing makes anyone open, close, send, or a frame arrive.       *)
Fairness ==
  /\ WF_vars(Handler)
  /\ WF_vars(TxComplete)
  /\ WF_vars(OpenIer \/ StartDescr \/ StartIndex \/ StartRbqp \/ StartCtl \/ OpenQueue)
  /\ WF_vars(CloseIdr \/ CloseQueue)
  /\ WF_vars(TxStore \/ TxStart)

FairSpec == Spec /\ Fairness

-----------------------------------------------------------------------------
(* Types and safety.                                                       *)

Places    == {"down", "ier", "descr", "rbqp", "ctl", "startq", "up", "store", "tcr", "idr", "stopq"}
IrqPlaces == {"none", "rx", "release", "tcom", "rbna", "rbna2"}

\* Every variable has its type.
TypeOK ==
  /\ ctl \in SUBSET {"RE", "TE"} /\ isr \in SUBSET Irqs /\ imr \in SUBSET Irqs
  /\ rbqp \in Descr /\ locked \in BOOLEAN /\ txq \in Seq(Nat)
  /\ done \in [Descr -> BOOLEAN] /\ buf \in [Descr -> Nat]
  /\ rxBuffIndex \in Descr /\ skb \in Nat /\ xoff \in BOOLEAN
  /\ pc \in Places /\ k \in 0 .. MAX_RX_DESCR /\ irq \in IrqPlaces
  /\ intstatus \in SUBSET Irqs /\ late \in Nat
  /\ arrived \in Nat /\ out \in Nat /\ nskb \in Nat /\ opens \in Nat

\* The receiver has been started and not yet stopped.
Running == pc \in {"startq", "up", "store", "tcr"}

\* No received frame waits with nobody to fetch it: while the descriptor the
\* driver looks at next holds a frame, RCOM is latched or the handler is still
\* in its receive loop.  (at91ether_rx reads descriptors until one is empty,
\* while the EMAC goes on filling them.)
NoStrandedFrame ==
  Running /\ done[rxBuffIndex] => "RCOM" \in isr \/ irq \in {"rx", "release"}

\* A receiver stopped by errata 11 is always about to be restarted: RBNA is
\* latched, or the running handler has read it and has not yet toggled RE.
NotWedged ==
  Running /\ locked =>
    "RBNA" \in isr \/ (irq \notin {"none", "rbna2"} /\ "RBNA" \in intstatus)

\* Frames are passed up in the order they arrived, none twice, also over a
\* close and a new open of the interface.
InOrder == [][out' # out => out' > out]_vars

\* From the end of at91ether_close until at91ether_start enables it again the
\* receiver is off: "Disable Receiver and Transmitter" (at91_ether.c:805).  Not so
\* if the handler works round errata 11 between CloseCtl and CloseIdr.
ReceiverOff == pc \in {"down", "ier", "descr", "rbqp", "ctl"} => "RE" \notin ctl

\* What the transmitter still reads is what lp->skb holds, so the packet is
\* neither freed nor unmapped under the DMA.
SkbPinned == \A i \in DOMAIN txq : txq[i] = skb

\* The transmit queue is not stopped for good: while it is stopped a packet is
\* under way, or its TCOM is latched or in the hands of the running handler.
QueueNotLost ==
  pc = "up" /\ xoff =>
    \/ txq # <<>>
    \/ "TCOM" \in isr
    \/ irq \in {"rx", "release", "tcom"} /\ "TCOM" \in intstatus

\* A stopped transmit queue is woken, or the interface closed.
TxAwake == (xoff /\ pc = "up") ~> (~xoff \/ pc # "up")

-----------------------------------------------------------------------------
(* The inductive invariant of the receive side, for interrupts taken at    *)
(* once, or an interface that is opened only once.                         *)

OnceOrPrompt == MaxLatency = 0 \/ MaxOpens <= 1

\* The receiver has yet to be started; with late interrupts a closed interface
\* need not be mute, so that only the time before the first start counts.
Off == IF MaxLatency = 0 THEN ~Running
       ELSE pc \in {"ier", "descr", "rbqp", "ctl"} \/ (pc = "down" /\ opens = 0)

\* Descriptor i lies between the driver's index and the EMAC's, going round.
InWindow(i) == IF rxBuffIndex < rbqp THEN rxBuffIndex <= i /\ i < rbqp
                                     ELSE rxBuffIndex <= i \/ i < rbqp

\* How far descriptor i is ahead of the driver's index.
Rank(i) == IF rxBuffIndex <= i THEN i - rxBuffIndex
                               ELSE i - rxBuffIndex + MAX_RX_DESCR

RingShape == \/ \A i \in Descr : done[i] <=> InWindow(i)
             \/ (\A i \in Descr : ~done[i]) /\ (Off \/ rxBuffIndex = rbqp)

RingOrder == \A i, j \in Descr : done[i] /\ done[j] /\ Rank(i) < Rank(j) => buf[i] < buf[j]

RingNew ==
  /\ out <= arrived
  /\ \A i \in Descr : done[i] => /\ buf[i] <= arrived
                                 /\ out < buf[i] \/ (irq = "release" /\ i = rxBuffIndex)

Quiet == Off => /\ ctl = {} /\ isr = {} /\ irq = "none"
                /\ \A i \in Descr : ~done[i]

Starting ==
  /\ pc \in {"rbqp", "ctl"} => rxBuffIndex = 0
  /\ pc = "ctl" => rbqp = 0
  /\ Running \/ pc \in {"descr", "rbqp", "ctl"} => imr = Irqs
  /\ pc # "down" => opens > 0

\* What the ring holds is a run of consecutive frames, oldest at rxBuffIndex,
\* all newer than what was passed up; a receiver yet to be started is empty and mute.
RingInv == /\ RingShape /\ RingOrder /\ RingNew /\ Quiet /\ Starting
           /\ NoStrandedFrame
           /\ irq = "release" => done[rxBuffIndex]

(* The inductive invariants of the transmit side and of errata 11.         *)

\* A transmit-complete event is in the hands of the handler; or it is due: there or latched.
TcomRead == irq \in {"rx", "release", "tcom"} /\ "TCOM" \in intstatus
TcomDue  == "TCOM" \in isr \/ TcomRead

\* The process steps since the interrupts were enabled, up to the first packet
Begun == [descr |-> k, rbqp |-> MAX_RX_DESCR + 1, ctl |-> MAX_RX_DESCR + 2,
          startq |-> MAX_RX_DESCR + 3, up |-> MAX_RX_DESCR + 4]

\* An interrupt is taken before a start of the interface is over and a packet
\* is sent.
InTime == MaxLatency <= MAX_RX_DESCR + 4

\* A TCOM that no packet in the slot stands for is left from before the close,
\* and has been asserted since the start enabled the interrupts.
Stale ==
  "TCOM" \in isr /\ ~(pc = "up" /\ xoff) =>
    irq = "none" /\ (pc \in DOMAIN Begun => late >= Begun[pc])

\* At most one packet is under way: the one in lp->skb, behind a stopped
\* queue, and its TCOM is yet to come.  The transmitter of an open interface
\* stays enabled, so the work-around for errata 11 does not empty it.
TxInv ==
  /\ irq = "tcom" => "TCOM" \in intstatus
  /\ TcomRead => "TCOM" \notin isr
  /\ pc # "up" => txq = <<>>
  /\ txq # <<>> => txq = <<skb>> /\ ~TcomDue /\ xoff
  /\ pc = "up" /\ xoff => txq # <<>> \/ TcomDue
  /\ pc = "tcr" => skb = nskb
  /\ pc \in {"store", "tcr"} => xoff /\ ~TcomDue
  /\ Running => "TE" \in ctl
  /\ Running \/ pc \in {"descr", "rbqp", "ctl"} => imr = Irqs
  /\ Stale

\* The receiver cannot lock up between the two writes of the work-around.
WedgeInv ==
  /\ locked => "RBNA" \in isr \/ (irq \notin {"none", "rbna2"} /\ "RBNA" \in intstatus)
  /\ irq = "rbna2" => ~locked /\ "RE" \notin ctl

-----------------------------------------------------------------------------
(* The receive side implements FrameQueue: the queue is what lies in the   *)
(* ring from rxBuffIndex on, without the frame that was just passed up.    *)

Filled == IF rxBuffIndex < rbqp THEN rbqp - rxBuffIndex
                                ELSE rbqp - rxBuffIndex + MAX_RX_DESCR

Waiting ==
  LET ring == [n \in 1 .. Filled |-> buf[(rxBuffIndex + n - 1) % MAX_RX_DESCR]]
  IN IF ~done[rxBuffIndex] THEN <<>>
     ELSE IF irq = "release" THEN Tail(ring) ELSE ring

Queue == INSTANCE FrameQueue WITH
           Capacity <- MAX_RX_DESCR, queue <- Waiting, seen <- arrived, passed <- out

\* Every frame the EMAC stored is passed up or dropped for want of memory,
\* once, in order, and in the end.
QueueSpec == Queue!QSpec

\* The same without the end: none is duplicated, reordered or made up
QueueSafe == Queue!QSafe
=============================================================================
