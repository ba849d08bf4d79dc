------------------------ MODULE At91EtherLink_proofs ------------------------
(***************************************************************************)
(* For any speeds and duplex modes and any number of changes, opens and    *)
(* calls: the management port is on in every access to the PHY, the        *)
(* receive mode is kept, and an interface with nothing left to do knows    *)
(* its link if the PHY told it.  The last follows from two facts about a   *)
(* latch: a bit of XCSIIS that nobody has read yet has also left an edge   *)
(* at the pin, and as long as there is none, and nothing happened without  *)
(* one, nothing has changed since the link was read.                       *)
(***************************************************************************)
EXTENDS At91EtherLink, TLAPS

\* One of the two has the management port
Exclusive ==
  /\ Locked => irq = "none"
  /\ upd # "none" => pc = "upd" \/ irq = "end"

PortOn == Locked \/ irq # "none" => mpe

ModeKept ==
  /\ pc = "rxmode" => cfg.caf = flags
  /\ pc # "rxmode" => caf = flags

Following == {"upd", "up", "io", "iooff", "rxmode"}

Latched ==
  /\ pc \in Following \cup {"xieoff", "opened", "clr"} => (xie <=> installed)
  /\ pc \in {"down", "requested", "xie", "clroff", "free"} => ~xie
  /\ event /\ xie /\ irq # "ack" => edge
  /\ pc \in {"requested", "xie"} => installed

\* A PHY that does not negotiate has the forced mode or no link
OneMode == bmcr # "auto" => phy \in {bmcr, "down"}

\* What update_linkspeed has read is still true if no bit has been set since
ReadYet ==
  ~event /\ ~silent =>
            /\ upd = "bmsr" => phy # "down"
            /\ upd = "lpa" => phy \in Modes
            /\ upd = "mac" => phy \in Modes /\ seen = phy

Known == /\ phy \in Modes => (mode = phy \/ lost) /\ carrier
         /\ phy = "down" => ~carrier

Followed == pc \in Following /\ upd = "none" /\ ~event /\ ~silent => Known

KInv == TypeOK /\ Exclusive /\ PortOn /\ ModeKept /\ Latched /\ OneMode /\ ReadYet /\ Followed

-----------------------------------------------------------------------------
\* The program starts in the invariant.
LEMMA InitOK == Init => KInv
  <1> SUFFICES ASSUME Init PROVE KInv
    OBVIOUS
  <1>1. TypeOK
    BY DEF Init, TypeOK, Pcs
  <1>2. Exclusive /\ PortOn /\ ModeKept /\ Latched /\ OneMode /\ ReadYet /\ Followed
    BY DEF Init, Exclusive, PortOn, ModeKept, Latched, OneMode, ReadYet, Followed, Following, Locked
  <1> QED
    BY <1>1, <1>2 DEF KInv

\* A forced mode: what is not reported is silent.
LEMMA ForcedFacts ==
  ASSUME TypeOK, NEW m \in Modes, Forced(m)
  PROVE  /\ phy' \in {m, "down"} /\ xie' = xie /\ silent' \in BOOLEAN /\ event' \in BOOLEAN
         /\ (event => event') /\ (silent => silent')
         /\ edge' = (edge \/ ((event' /\ xie) # Line))
         /\ phy' # phy => event' \/ silent'
  <1>1. PICK told \in BOOLEAN : (phy \in Modes /\ phy' = "down" => told) /\ Pin(event \/ told, xie)
    BY DEF Forced
  <1>2. event' = (event \/ told) /\ xie' = xie /\ edge' = (edge \/ ((event' /\ xie) # Line))
    BY <1>1 DEF Pin
  <1>3. silent' = (silent \/ (phy' # phy /\ ~event')) /\ phy' \in {m, "down"}
    BY DEF Forced
  <1> QED
    BY <1>2, <1>3 DEF TypeOK

\* The link changes: a bit is set, or it is silent, or there was no link that
\* could be known.
LEMMA PhyChangeOK == KInv /\ PhyChange => KInv'
  <1> SUFFICES ASSUME KInv, PhyChange PROVE KInv'
    OBVIOUS
  <1>1. UNCHANGED <<bmcr, mode, caf, mpe, carrier, installed, pc, irq, upd, seen, cfg, flags, lost,
                    opens, rxs, ioctls>>
    BY DEF PhyChange, macvars
  <1>2. /\ event' \in BOOLEAN /\ xie' = xie /\ silent' \in BOOLEAN
        /\ (event => event') /\ (silent => silent')
        /\ edge' = (edge \/ ((event' /\ xie) # Line))
        /\ phy' \in Modes \cup {"down", "busy"} /\ changes' \in Nat
        /\ bmcr # "auto" => phy' \in {bmcr, "down"}
        /\ ~event' /\ ~silent' => phy' = phy \/ (phy = "down" /\ phy' = "busy")
    <2>0. changes' \in Nat
      BY DEF PhyChange, KInv, TypeOK
    <2>1. CASE Negotiate
      <3>1. /\ bmcr = "auto" /\ event' = (event \/ phy # "down") /\ xie' = xie /\ silent' = silent
            /\ edge' = (edge \/ ((event' /\ xie) # Line))
        BY <2>1 DEF Negotiate, Pin
      <3>2. phy' \in Modes \cup {"down", "busy"} /\ (phy = "down" => phy' = "busy")
        BY <2>1, ModesAssumption DEF Negotiate, KInv, TypeOK
      <3> QED
        BY <2>0, <3>1, <3>2 DEF KInv, TypeOK
    <2>2. CASE bmcr # "auto" /\ Forced(bmcr)
      <3>1. bmcr \in Modes /\ TypeOK
        BY <2>2 DEF KInv, TypeOK
      <3> QED
        BY <2>0, <2>2, <3>1, ForcedFacts
    <2> QED
      BY <2>1, <2>2 DEF PhyChange
  <1>4. TypeOK'
    <2>1. edge' \in BOOLEAN
      BY <1>2 DEF KInv, TypeOK
    <2> QED
      BY <1>1, <1>2, <2>1 DEF KInv, TypeOK
  <1>5. Exclusive' /\ PortOn' /\ ModeKept' /\ OneMode'
    BY <1>1, <1>2 DEF KInv, Exclusive, PortOn, ModeKept, OneMode, Locked
  <1>6. Latched'
    BY <1>1, <1>2 DEF KInv, TypeOK, Latched, Following, Line
  <1>7. ReadYet' /\ Followed'
    BY <1>1, <1>2, ModesAssumption DEF KInv, TypeOK, ReadYet, Followed, Known, Following
  <1> QED
    BY <1>4, <1>5, <1>6, <1>7 DEF KInv

\* What update_linkspeed reads, and what it writes in the end.
LEMMA UpdateOK == KInv /\ UpdateLinkspeed => KInv'
  <1> SUFFICES ASSUME KInv, UpdateLinkspeed PROVE KInv'
    OBVIOUS
  <1>1. UNCHANGED <<phy, bmcr, event, xie, edge, caf, mpe, installed, pc, irq, cfg, flags,
                    silent, changes, opens, rxs, ioctls>>
        /\ upd # "none"
    BY DEF UpdateLinkspeed, UpdNoLink, UpdLink, UpdBusy, UpdBmsr, UpdForced, UpdLpa, UpdMac, Upd, phyvars, counts
  <1>2. TypeOK'
    <2>1. mode' \in Modes /\ seen' \in Modes /\ upd' \in {"none", "bmsr", "lpa", "mac"}
      BY DEF KInv, TypeOK, UpdateLinkspeed, UpdNoLink, UpdLink, UpdBusy, UpdBmsr, UpdForced, UpdLpa, UpdMac, Upd
    <2>2. carrier' \in {carrier, TRUE, FALSE} /\ lost' \in {lost, FALSE}
      BY DEF UpdateLinkspeed, UpdNoLink, UpdLink, UpdBusy, UpdBmsr, UpdForced, UpdLpa, UpdMac
    <2>3. carrier' \in BOOLEAN /\ lost' \in BOOLEAN
      BY <2>2 DEF KInv, TypeOK
    <2> QED
      BY <1>1, <2>1, <2>3 DEF KInv, TypeOK
  <1>3. Exclusive' /\ PortOn' /\ ModeKept' /\ Latched' /\ OneMode'
    BY <1>1 DEF KInv, Exclusive, PortOn, ModeKept, Latched, OneMode, Locked
  <1>4. ReadYet' /\ Followed'
    <2>1. CASE UpdNoLink
      BY <1>1, <2>1 DEF UpdNoLink, Upd, ReadYet, Followed, Known
    <2>2. CASE UpdLink
      BY <1>1, <2>2 DEF UpdLink, Upd, ReadYet, Followed
    <2>3. CASE UpdBusy
      BY <1>1, <2>3 DEF KInv, UpdBusy, Upd, ReadYet, Followed, Known
    <2>4. CASE UpdBmsr
      BY <1>1, <2>4 DEF UpdBmsr, Upd, ReadYet, Followed
    <2>5. CASE UpdLpa
      BY <1>1, <2>5 DEF KInv, UpdLpa, Upd, ReadYet, Followed
    <2>6. CASE UpdMac
      BY <1>1, <2>6, ModesAssumption DEF KInv, UpdMac, Upd, ReadYet, Followed, Known
    <2>7. CASE UpdForced
      BY <1>1, <2>7 DEF KInv, TypeOK, OneMode, UpdForced, Upd, ReadYet, Followed
    <2> QED
      BY <2>1, <2>2, <2>3, <2>4, <2>5, <2>6, <2>7 DEF UpdateLinkspeed
  <1> QED
    BY <1>2, <1>3, <1>4 DEF KInv

\* The handler takes the edge, then the bits, then reads the link.
LEMMA HandlerOK == KInv /\ Handler => KInv'
  <1> SUFFICES ASSUME KInv, Handler PROVE KInv'
    OBVIOUS
  <1>1. UNCHANGED <<phy, bmcr, mode, caf, carrier, installed, pc, seen, cfg, flags, lost,
                    changes, opens, rxs, ioctls>>
    BY DEF Handler, IrqEnter, IrqAck, IrqEnd, Irq, counts
  <1>2. CASE IrqEnter
    <2>1. /\ irq = "none" /\ irq' = "ack" /\ ~Locked /\ edge' = FALSE /\ mpe' = TRUE
          /\ UNCHANGED <<event, xie, upd, silent>>
      BY <1>2 DEF IrqEnter, Irq
    <2>2. TypeOK'
      <3>1. edge' \in BOOLEAN /\ mpe' \in BOOLEAN
        BY <2>1
      <3>2. irq' \in {"none", "ack", "end"}
        BY <2>1
      <3> QED
        BY <1>1, <2>1, <3>1, <3>2 DEF KInv, TypeOK
    <2>3. Exclusive' /\ PortOn' /\ ModeKept' /\ Latched' /\ OneMode' /\ ReadYet' /\ Followed'
      BY <1>1, <2>1 DEF KInv, Exclusive, PortOn, ModeKept, Latched, OneMode, ReadYet, Followed, Known, Locked
    <2> QED
      BY <2>2, <2>3 DEF KInv
  <1>3. CASE IrqAck
    <2>1. /\ irq = "ack" /\ irq' = "end" /\ upd' = (IF event THEN "link" ELSE "none")
          /\ event' = FALSE /\ xie' = xie /\ edge' = (edge \/ ((event' /\ xie) # Line))
          /\ mpe' = mpe /\ silent' = (silent /\ ~event)
      BY <1>3 DEF IrqAck, Irq, Pin
    <2>2. TypeOK'
      <3>1. edge' \in BOOLEAN /\ silent' \in BOOLEAN
        BY <2>1 DEF KInv, TypeOK
      <3> QED
        BY <1>1, <2>1, <3>1 DEF KInv, TypeOK
    <2>3. Exclusive' /\ PortOn' /\ ModeKept' /\ Latched' /\ OneMode'
      BY <1>1, <2>1 DEF KInv, Exclusive, PortOn, ModeKept, Latched, OneMode, Locked
    <2>4. ReadYet' /\ Followed'
      <3>1. upd = "none"
        BY <2>1 DEF KInv, Exclusive, Locked
      <3> QED
        BY <1>1, <2>1, <3>1 DEF KInv, TypeOK, ReadYet, Followed, Known
    <2> QED
      BY <2>2, <2>3, <2>4 DEF KInv
  <1>4. CASE IrqEnd
    <2>1. /\ upd = "none" /\ irq = "end" /\ irq' = "none" /\ mpe' = FALSE
          /\ UNCHANGED <<event, xie, edge, upd, silent>>
      BY <1>4 DEF IrqEnd, Irq
    <2>2. TypeOK'
      <3>1. mpe' \in BOOLEAN
        BY <2>1
      <3>2. irq' \in {"none", "ack", "end"}
        BY <2>1
      <3> QED
        BY <1>1, <2>1, <3>1, <3>2 DEF KInv, TypeOK
    <2>3. Exclusive' /\ PortOn' /\ ModeKept' /\ Latched' /\ OneMode' /\ ReadYet' /\ Followed'
      BY <1>1, <2>1 DEF KInv, Exclusive, PortOn, ModeKept, Latched, OneMode, ReadYet, Followed, Known, Locked
    <2> QED
      BY <2>2, <2>3 DEF KInv
  <1> QED
    BY <1>2, <1>3, <1>4 DEF Handler

\* enable_phyirq and disable_phyirq, the writes of XIE, enable_mdi and disable_mdi:
\* the steps of open, close and ioctl.
LEMMA ProcessOK ==
  KInv /\ (Open \/ OpenLink \/ OpenEnd \/ Close \/ Ioctl) => KInv'
  <1> SUFFICES ASSUME KInv, Open \/ OpenLink \/ OpenEnd \/ Close \/ Ioctl PROVE KInv'
    OBVIOUS
  <1> USE DEF Open, OpenLink, OpenEnd, Close, Ioctl, RequestIrq, SetHandler, MdiOn, MdiOff, WriteXie, Proc
  <1>1. UNCHANGED <<phy, bmcr, irq, carrier, seen, changes, mode, caf, cfg, flags, lost, rxs>> /\ irq = "none"
    OBVIOUS
  <1>2. opens' \in Nat /\ ioctls' \in Nat
    <2>1. opens' \in {opens, opens + 1} /\ ioctls' \in {ioctls, ioctls + 1}
      OBVIOUS
    <2>2. opens \in Nat /\ ioctls \in Nat
      BY DEF KInv, TypeOK
    <2> QED
      BY <2>1, <2>2
  <1>3. event' = event /\ xie' \in {xie, TRUE, FALSE} /\ mpe' \in {mpe, TRUE, FALSE}
        /\ installed' \in {installed, TRUE, FALSE} /\ silent' \in {silent, FALSE} /\ upd' \in {upd, "link"} /\ pc' \in Pcs
    BY DEF Pin, Pcs
  <1>4. /\ pc # "clr" /\ pc # "xie" => UNCHANGED <<event, xie, edge>>
        /\ pc = "xie" => pc' = "xieoff" /\ Pin(event, TRUE) /\ mpe' = mpe
        /\ pc = "clr" => pc' = "clroff" /\ Pin(event, FALSE) /\ mpe' = mpe
    OBVIOUS
  <1>5. TypeOK'
    <2>1. event' \in BOOLEAN /\ xie' \in BOOLEAN /\ mpe' \in BOOLEAN /\ installed' \in BOOLEAN
      BY <1>3 DEF KInv, TypeOK
    <2>3. silent' \in BOOLEAN
      BY <1>3 DEF KInv, TypeOK
    <2>2. edge' \in BOOLEAN
      BY <1>4 DEF KInv, TypeOK, Pin
    <2> QED
      BY <1>1, <1>2, <1>3, <2>1, <2>2, <2>3 DEF KInv, TypeOK
  <1>6. Exclusive' /\ ModeKept' /\ OneMode'
    BY <1>1 DEF KInv, Exclusive, ModeKept, OneMode, Locked
  <1>7. PortOn'
    <2>1. /\ pc' \in {"xie", "upd", "io", "clr"} => mpe'
          /\ pc' \in {"xieoff", "clroff"} => pc \in {"xie", "clr"}
          /\ pc' # "iooff"
      OBVIOUS
    <2>2. CASE pc' \in {"xieoff", "clroff"}
      <3>1. mpe /\ mpe' = mpe
        BY <1>4, <2>1, <2>2 DEF KInv, PortOn, Locked
      <3> QED
        BY <3>1 DEF PortOn
    <2>3. CASE pc' \notin {"xieoff", "clroff"}
      BY <1>1, <2>1, <2>3 DEF PortOn, Locked
    <2> QED
      BY <2>2, <2>3
  <1>8. Latched'
    <2>1. CASE pc \in {"xie", "clr"}
      BY <1>1, <1>4, <2>1 DEF KInv, TypeOK, Latched, Following, Pin, Line
    <2>2. CASE pc \notin {"xie", "clr"}
      <3>1. UNCHANGED <<event, xie, edge, irq>>
        BY <1>1, <1>4, <2>2
      <3>2. CASE pc = "down"
        <4>1. /\ pc' \in {"requested", "opened"} /\ (pc' = "opened" => ~installed')
              /\ (pc' = "requested" => installed')
          BY <3>2
        <4> QED
          BY <3>1, <3>2, <4>1 DEF KInv, Latched, Following
      <3>3. CASE pc # "down"
        <4>1. pc # "free" => installed' = installed
          BY <3>3
        <4>2. /\ pc' # "requested" /\ (pc' = "xie" => pc = "requested")
              /\ pc' \in Following \cup {"xieoff", "opened", "clr"} =>
                   pc \in Following \cup {"xieoff", "opened"}
              /\ pc' \in {"down", "requested", "xie", "clroff", "free"} =>
                   pc \in {"requested", "clroff", "free"}
          BY <2>2, <3>3 DEF Following
        <4> QED
          BY <3>1, <3>3, <4>1, <4>2 DEF KInv, Latched, Following
      <3> QED
        BY <3>2, <3>3
    <2> QED
      BY <2>1, <2>2
  <1>9. ReadYet' /\ Followed'
    BY <1>1, <1>3 DEF KInv, ReadYet, Followed, Known, Following
  <1> QED
    BY <1>5, <1>6, <1>7, <1>8, <1>9 DEF KInv

\* An access to the PHY may begin a negotiation, which leaves no link to be known.
LEMMA IoctlAccessOK == KInv /\ IoctlAccess => KInv'
  <1> SUFFICES ASSUME KInv, IoctlAccess PROVE KInv'
    OBVIOUS
  <1>1. /\ pc = "io" /\ pc' = "iooff" /\ irq = "none" /\ irq' = "none"
        /\ UNCHANGED <<mode, caf, mpe, carrier, installed, upd, seen, cfg, flags, lost,
                       changes, opens, rxs, ioctls>>
    BY DEF IoctlAccess, macvars, counts
  <1> DEFINE Access ==
        /\ event' \in BOOLEAN /\ xie' = xie /\ silent' \in BOOLEAN
        /\ phy' \in Modes \cup {"down", "busy"} /\ bmcr' \in Modes \cup {"auto"}
        /\ bmcr' # "auto" => phy' \in {bmcr', "down"}
        /\ UNCHANGED edge \/ edge' = (edge \/ ((event' /\ xie) # Line))
        /\ event' /\ ~event => edge' = (edge \/ ((event' /\ xie) # Line))
        /\ ~event' /\ ~silent' => ~event /\ ~silent /\ (phy' = phy \/ phy' = "busy")
  <1>2. Access
    <2> USE DEF KInv, TypeOK, OneMode
    <2>1. CASE UNCHANGED <<phyvars, silent>>
      BY <2>1 DEF phyvars
    <2>2. CASE /\ Pin(FALSE, xie) /\ silent' = (silent \/ event)
               /\ UNCHANGED <<phy, bmcr>>
      BY <2>2 DEF Pin
    <2>3. CASE /\ bmcr' = "auto" /\ phy' = "busy" /\ Pin(event \/ phy \in Modes, xie)
               /\ UNCHANGED silent
      BY <2>3 DEF Pin
    <2>4. ASSUME NEW m \in Modes, bmcr' = m, Forced(m)
          PROVE  Access
      BY <2>4, ForcedFacts
    <2> QED
      BY <2>1, <2>2, <2>3, <2>4 DEF IoctlAccess
  <1>3. TypeOK'
    <2>1. xie' \in BOOLEAN /\ edge' \in BOOLEAN
      BY <1>2 DEF KInv, TypeOK
    <2> QED
      BY <1>1, <1>2, <2>1 DEF KInv, TypeOK, Pcs
  <1>4. Exclusive' /\ PortOn' /\ ModeKept' /\ OneMode'
    BY <1>1, <1>2 DEF KInv, Exclusive, PortOn, ModeKept, OneMode, Locked
  <1>5. Latched'
    <2>1. xie' = xie /\ (xie <=> installed) /\ (event /\ xie => edge)
      BY <1>1, <1>2 DEF KInv, Latched, Following
    <2>2. event' /\ xie => edge'
      BY <1>2, <2>1 DEF KInv, TypeOK, Line
    <2> QED
      BY <1>1, <2>1, <2>2 DEF Latched
  <1>6. ReadYet' /\ Followed'
    <2>1. upd = "none" /\ upd' = "none"
      BY <1>1 DEF KInv, Exclusive
    <2> QED
      BY <1>1, <1>2, <2>1, ModesAssumption DEF KInv, TypeOK, ReadYet, Followed, Known, Following
  <1> QED
    BY <1>3, <1>4, <1>5, <1>6 DEF KInv

\* at91ether_set_rx_mode writes back what it read: the mode it undoes is lost.
LEMMA RxModeOK == KInv /\ (RxRead \/ RxWrite) => KInv'
  <1> SUFFICES ASSUME KInv, RxRead \/ RxWrite PROVE KInv'
    OBVIOUS
  <1> USE DEF RxRead, RxWrite, Proc
  <1>1. /\ irq = "none" /\ irq' = "none" /\ pc \in {"up", "rxmode"} /\ pc' \in {"up", "rxmode"}
        /\ UNCHANGED <<phy, bmcr, event, xie, edge, mpe, carrier, installed, upd, seen, silent, changes,
                       opens, ioctls>>
    OBVIOUS
  <1>2. TypeOK'
    <2>1. mode' \in Modes /\ caf' \in BOOLEAN /\ flags' \in BOOLEAN /\ lost' \in BOOLEAN
      BY DEF KInv, TypeOK
    <2>2. cfg' \in [mode : Modes, caf : BOOLEAN] /\ rxs' \in Nat
      BY <2>1 DEF KInv, TypeOK
    <2> QED
      BY <1>1, <2>1, <2>2 DEF KInv, TypeOK, Pcs
  <1>3. Exclusive' /\ PortOn' /\ Latched' /\ OneMode' /\ ReadYet'
    BY <1>1 DEF KInv, Exclusive, PortOn, Latched, OneMode, ReadYet, Locked, Following
  <1>4. ModeKept'
    BY DEF KInv, ModeKept
  <1>5. Followed'
    <2>1. (mode' # mode => lost') /\ (lost => lost')
      <3>1. CASE RxRead
        BY <3>1
      <3>2. CASE RxWrite
        BY <3>2
      <3> QED
        BY <3>1, <3>2
    <2>2. pc \in Following
      BY <1>1 DEF Following
    <2> QED
      BY <1>1, <2>1, <2>2 DEF KInv, Followed, Known
  <1> QED
    BY <1>2, <1>3, <1>4, <1>5 DEF KInv

-----------------------------------------------------------------------------
\* Every step keeps the invariant.
LEMMA NextOK == KInv /\ [Next]_vars => KInv'
  <1> SUFFICES ASSUME KInv, [Next]_vars PROVE KInv'
    OBVIOUS
  <1>1. CASE UNCHANGED vars
    BY <1>1 DEF vars, phyvars, macvars, counts, KInv, TypeOK, Exclusive, Locked, PortOn, ModeKept,
                Latched, OneMode, ReadYet, Followed, Known
  <1> QED
    BY <1>1, PhyChangeOK, UpdateOK, HandlerOK, ProcessOK, IoctlAccessOK, RxModeOK DEF Next

\* It holds in every behaviour.
LEMMA Invariant == Spec => []KInv
  BY InitOK, NextOK, PTL DEF Spec

\* Every variable of the link side of the EMAC driver keeps its type.
THEOREM TypeCorrect == Spec => []TypeOK
  <1>1. KInv => TypeOK
    BY DEF KInv
  <1> QED
    BY <1>1, Invariant, PTL

\* No access to the PHY finds the management port switched off (at91_ether.c:247),
\* by however many opens, ioctls and interrupts.
THEOREM ManagementPortOn == Spec => []MpeOn
  <1>1. KInv => MpeOn
    BY DEF KInv, Exclusive, PortOn, MpeOn, Locked
  <1> QED
    BY <1>1, Invariant, PTL

\* The PHY interrupt keeps the receive mode of at91ether_set_rx_mode.
THEOREM ReceiveModeKept == Spec => []RxKept
  <1>1. KInv => RxKept
    BY DEF KInv, ModeKept, RxKept
  <1> QED
    BY <1>1, Invariant, PTL

\* An interface that is up and has its interrupt, with none under way, has the
\* carrier of its link, and its speed and duplex, negotiated or forced
\* (at91_ether.c:160), if the PHY has reported the link to the driver, and unless
\* at91ether_set_rx_mode has undone the last change (at91_ether.c:620): no
\* interleaving of the link, the handler and the calls makes it miss a report.
THEOREM LinkKnown == Spec => []LinkKnownOrLost
  <1>1. KInv => LinkKnownOrLost
    <2> SUFFICES ASSUME KInv, pc = "up", installed, irq = "none", ~edge, ~silent
                 PROVE  Known
      BY DEF LinkKnownOrLost, Known
    <2>1. upd = "none" /\ ~event
      BY DEF KInv, Exclusive, Latched, Following
    <2> QED
      BY <2>1 DEF KInv, Followed, Following
  <1> QED
    BY <1>1, Invariant, PTL
=============================================================================
