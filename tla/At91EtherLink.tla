---------------------------- MODULE At91EtherLink ----------------------------
(***************************************************************************)
(* The link side of the Ethernet driver (at91_ether.c): how the speed and  *)
(* duplex of the MAC follow what the PHY has negotiated, or was forced to. *)
(*                                                                         *)
(* The PHY changes at any time and pulls its interrupt line; the line goes *)
(* to a port pin that latches both edges.  The handler and the process     *)
(* context share the management port (bit MPE of CTL) and the register     *)
(* CFG.  A handler runs to its end before the process context goes on, and *)
(* does not start while that holds lp->lock with interrupts disabled.      *)
(*                                                                         *)
(* A PHY reports the loss of a link and the end of a negotiation.  Whether *)
(* it reports a change of a forced mode depends on the PHY: both happen.   *)
(* Of the raw registers an ioctl can access, BMCR and XCSIIS are modelled; *)
(* a reset, power-down or mask written to the PHY by hand is not.          *)
(***************************************************************************)
EXTENDS Naturals

CONSTANTS
  Modes,       \* the combinations of speed and duplex
  MaxChanges,  \* bound: changes of the link
  MaxOpens,    \* bound: calls of at91ether_open
  MaxRx,       \* bound: calls of at91ether_set_rx_mode
  MaxIoctls    \* bound: accesses to the PHY with ioctl or ethtool

ASSUME ModesAssumption == Modes # {} /\ Modes \cap {"down", "busy", "auto"} = {}

VARIABLES
  phy,        \* the link: a mode, "down", or "busy" while it is negotiated
  bmcr,       \* MII_BMCR: "auto" with ANENABLE, otherwise the forced mode
  event,      \* the latched bits of XCSIIS, cleared when read
  xie,        \* the PHY interrupt is enabled in XIE
  edge,       \* the port pin has latched an edge
  mode,       \* SPD and FD of AT91_EMAC_CFG
  caf,        \* CAF of AT91_EMAC_CFG, promiscuous mode
  mpe,        \* MPE of AT91_EMAC_CTL, the management port
  carrier,    \* netif_carrier_ok
  installed,  \* the PHY interrupt is requested
  pc,         \* where the process context is
  irq,        \* where the PHY interrupt handler is
  upd,        \* where update_linkspeed is, for whoever called it
  seen,       \* the mode it has read
  cfg,        \* the copy of CFG of at91ether_set_rx_mode: mode and caf
  flags,      \* IFF_PROMISC of the interface
  lost,       \* history: RxWrite undid the last mode written by UpdMac
  silent,     \* history: since update_linkspeed began the link has changed
              \* without a bit of XCSIIS, or an ioctl has taken the bit
  changes, opens, rxs, ioctls   \* history: what is bounded

phyvars == <<phy, bmcr, event, xie, edge>>
macvars == <<mode, caf, mpe, carrier>>
counts  == <<changes, opens, rxs, ioctls>>
vars == <<phyvars, macvars, installed, pc, irq, upd, seen, cfg, flags, lost, silent,
          counts>>

Init ==
  /\ bmcr \in Modes \cup {"auto"}
  /\ phy \in (IF bmcr = "auto" THEN Modes ELSE {bmcr}) \cup {"down"}
  /\ event \in BOOLEAN /\ xie = FALSE /\ edge = FALSE
  /\ mode \in Modes /\ caf = FALSE /\ mpe = FALSE /\ carrier = FALSE
  /\ installed = FALSE /\ pc = "down" /\ irq = "none" /\ upd = "none"
  /\ seen = mode /\ cfg = [mode |-> mode, caf |-> FALSE] /\ flags = FALSE /\ lost = FALSE
  /\ silent = FALSE
  /\ changes = 0 /\ opens = 0 /\ rxs = 0 /\ ioctls = 0

-----------------------------------------------------------------------------
(* The PHY and its pin.                                                    *)

Line == event /\ xie

\* The pin latches every change of the line.
Pin(e, x) == event' = e /\ xie' = x /\ edge' = (edge \/ ((e /\ x) # Line))

\* The cable or the partner: a link is lost, negotiated anew, or established.
\* A negotiation that begins on a dead link raises no bit of XCSIIS.
Negotiate ==
  /\ bmcr = "auto"
  /\ phy' \in (CASE phy = "down" -> {"busy"}
                 [] phy = "busy" -> Modes \cup {"down"}
                 [] phy \in Modes -> {"busy", "down"})
  /\ Pin(event \/ phy # "down", xie)
  /\ UNCHANGED silent

\* Without negotiation the link has the forced mode or is lost.
Forced(m) ==
  /\ phy' \in {m, "down"}
  /\ \E told \in BOOLEAN :
       /\ phy \in Modes /\ phy' = "down" => told
       /\ Pin(event \/ told, xie)
  /\ silent' = (silent \/ (phy' # phy /\ ~event'))

PhyChange ==
  /\ changes < MaxChanges /\ changes' = changes + 1
  /\ Negotiate \/ (bmcr # "auto" /\ Forced(bmcr))
  /\ UNCHANGED <<bmcr, macvars, installed, pc, irq, upd, seen, cfg, flags, lost, opens, rxs, ioctls>>

-----------------------------------------------------------------------------
(* update_linkspeed.  The PHY may change between any two of its reads.     *)

\* Mutant: the ioctl does not disable interrupts.
LockedNotIo == pc \in {"xie", "xieoff", "upd", "clr", "clroff"}

\* Interrupts are disabled, from spin_lock_irq to spin_unlock_irq.
Locked == pc \in {"xie", "xieoff", "upd", "io", "iooff", "clr", "clroff"}

Upd(from, to) ==
  /\ upd = from /\ upd' = to
  /\ UNCHANGED <<phyvars, caf, mpe, installed, pc, irq, cfg, flags, silent, counts>>

UpdNoLink ==
  /\ phy \notin Modes /\ Upd("link", "none")
  /\ carrier' = FALSE
  /\ UNCHANGED <<mode, seen, lost>>

UpdLink == phy # "down" /\ Upd("link", "bmsr") /\ UNCHANGED <<mode, carrier, seen, lost>>

UpdBusy ==
  /\ bmcr = "auto" /\ phy \notin Modes /\ Upd("bmsr", "none")
  /\ UNCHANGED <<mode, carrier, seen, lost>>

UpdBmsr ==
  /\ bmcr = "auto" /\ phy \in Modes /\ Upd("bmsr", "lpa")
  /\ UNCHANGED <<mode, carrier, seen, lost>>

\* BMCR does not change meanwhile: its writers hold the lock.
UpdForced ==
  /\ bmcr # "auto" /\ Upd("bmsr", "mac") /\ seen' = bmcr
  /\ UNCHANGED <<mode, carrier, lost>>

\* Mutant: what the link is by then is taken for a mode.
UpdLpaAny == Upd("lpa", "mac") /\ seen' = phy /\ UNCHANGED <<mode, carrier, lost>>

\* The partner's abilities; of a link that is gone again they may be anything.
UpdLpa ==
  /\ Upd("lpa", "mac")
  /\ seen' \in (IF phy \in Modes THEN {phy} ELSE Modes)
  /\ UNCHANGED <<mode, carrier, lost>>

\* Mutant: CFG is written from the mode alone.
UpdMacAll ==
  /\ upd = "mac" /\ upd' = "none"
  /\ mode' = seen /\ carrier' = TRUE /\ caf' = FALSE /\ lost' = FALSE
  /\ UNCHANGED <<phyvars, mpe, installed, pc, irq, seen, cfg, flags, silent, counts>>

UpdMac ==
  /\ Upd("mac", "none")
  /\ mode' = seen /\ carrier' = TRUE /\ lost' = FALSE
  /\ UNCHANGED seen

-----------------------------------------------------------------------------
(* at91ether_phy_interrupt.                                                *)

Irq(from, to) ==
  /\ irq = from /\ irq' = to
  /\ UNCHANGED <<phy, bmcr, mode, caf, carrier, installed, pc, seen, cfg, flags, lost, counts>>

IrqEnter ==
  /\ installed /\ edge /\ ~Locked /\ Irq("none", "ack")
  /\ edge' = FALSE /\ mpe' = TRUE
  /\ UNCHANGED <<event, xie, upd, silent>>

\* Reading XCSIIS clears it.  An edge without a bit is the falling one.
IrqAck ==
  /\ Irq("ack", "end")
  /\ upd' = IF event THEN "link" ELSE "none"
  /\ silent' = (silent /\ ~event)
  /\ Pin(FALSE, xie)
  /\ UNCHANGED mpe

\* Mutant: the status is read once more before leaving.
IrqEndAck ==
  /\ upd = "none" /\ Irq("end", "none")
  /\ mpe' = FALSE
  /\ Pin(FALSE, xie)
  /\ UNCHANGED <<upd, silent>>

IrqEnd ==
  /\ upd = "none" /\ Irq("end", "none")
  /\ mpe' = FALSE
  /\ UNCHANGED <<event, xie, edge, upd, silent>>

-----------------------------------------------------------------------------
(* The process context.                                                    *)

Proc(from, to) ==
  /\ irq = "none" /\ pc = from /\ pc' = to
  /\ UNCHANGED <<phy, bmcr, irq, carrier, seen, changes>>

\* enable_mdi after spin_lock_irq, disable_mdi before spin_unlock_irq.
MdiOn(from, to) ==
  /\ Proc(from, to) /\ mpe' = TRUE
  /\ UNCHANGED <<event, xie, edge, mode, caf, installed, cfg, flags, lost, rxs>>

MdiOff(from, to) ==
  /\ Proc(from, to) /\ mpe' = FALSE
  /\ UNCHANGED <<event, xie, edge, mode, caf, installed, cfg, flags, lost, rxs>>

\* enable_phyirq and disable_phyirq.
SetHandler(from, to, on) ==
  /\ Proc(from, to) /\ installed' = on
  /\ UNCHANGED <<event, xie, edge, mode, caf, mpe, upd, cfg, flags, lost, silent, rxs, ioctls>>

\* If the interrupt cannot be had, enable_phyirq returns and open goes on.
RequestIrq ==
  /\ opens < MaxOpens /\ opens' = opens + 1
  /\ \/ SetHandler("down", "requested", TRUE)
     \/ SetHandler("down", "opened", FALSE)

WriteXie(from, to, on) ==
  /\ Proc(from, to) /\ Pin(event, on)
  /\ UNCHANGED <<mode, caf, mpe, installed, upd, cfg, flags, lost, silent, opens, rxs, ioctls>>

Open ==
  \/ RequestIrq
  \/ MdiOn("requested", "xie") /\ UNCHANGED <<upd, silent, opens, ioctls>>
  \/ WriteXie("xie", "xieoff", TRUE)
  \/ MdiOff("xieoff", "opened") /\ UNCHANGED <<upd, silent, opens, ioctls>>

\* at91ether_open reads the link itself: its events may be older.
\* Mutant: it leaves that to the interrupt.
OpenLinkNone == MdiOn("opened", "upd") /\ UNCHANGED <<upd, silent, opens, ioctls>>

OpenLink ==
  /\ MdiOn("opened", "upd") /\ upd' = "link" /\ silent' = FALSE
  /\ UNCHANGED <<opens, ioctls>>

OpenEnd == upd = "none" /\ MdiOff("upd", "up") /\ UNCHANGED <<upd, silent, opens, ioctls>>

Close ==
  \/ MdiOn("up", "clr") /\ UNCHANGED <<upd, silent, opens, ioctls>>
  \/ WriteXie("clr", "clroff", FALSE)
  \/ MdiOff("clroff", "free") /\ UNCHANGED <<upd, silent, opens, ioctls>>
  \/ SetHandler("free", "down", FALSE) /\ UNCHANGED opens

\* at91ether_ioctl, nwayreset, get_settings, set_settings: under the lock the PHY
\* is read, made to negotiate anew, or forced to a mode.  None of them calls
\* update_linkspeed: the MAC follows when the PHY interrupts.
Ioctl ==
  \/ MdiOn("up", "io") /\ ioctls < MaxIoctls /\ ioctls' = ioctls + 1 /\ UNCHANGED <<upd, silent, opens>>
  \/ MdiOff("iooff", "up") /\ UNCHANGED <<upd, silent, opens, ioctls>>

IoctlAccess ==
  /\ irq = "none" /\ pc = "io" /\ pc' = "iooff"
  /\ \/ UNCHANGED <<phyvars, silent>>
     \/ /\ Pin(FALSE, xie) /\ silent' = (silent \/ event)
        /\ UNCHANGED <<phy, bmcr>>
     \/ /\ bmcr' = "auto" /\ phy' = "busy" /\ Pin(event \/ phy \in Modes, xie)
        /\ UNCHANGED silent
     \/ \E m \in Modes : bmcr' = m /\ Forced(m)
  /\ UNCHANGED <<macvars, installed, irq, upd, seen, cfg, flags, lost, counts>>

\* at91ether_set_rx_mode: CFG is read, changed and written, with interrupts
\* enabled.
RxRead ==
  /\ Proc("up", "rxmode") /\ rxs < MaxRx /\ rxs' = rxs + 1
  /\ flags' \in BOOLEAN
  /\ cfg' = [mode |-> mode, caf |-> flags']
  /\ UNCHANGED <<event, xie, edge, mode, caf, mpe, installed, upd, lost, silent, opens, ioctls>>

RxWrite ==
  /\ Proc("rxmode", "up")
  /\ mode' = cfg.mode /\ caf' = cfg.caf /\ lost' = (lost \/ cfg.mode # mode)
  /\ UNCHANGED <<event, xie, edge, mpe, installed, upd, cfg, flags, silent, opens, rxs, ioctls>>

-----------------------------------------------------------------------------
UpdateLinkspeed == UpdNoLink \/ UpdLink \/ UpdBusy \/ UpdBmsr \/ UpdForced \/ UpdLpa \/ UpdMac
Handler == IrqEnter \/ IrqAck \/ IrqEnd

Next == PhyChange \/ UpdateLinkspeed \/ Handler \/ Open \/ OpenLink \/ OpenEnd
          \/ Close \/ Ioctl \/ IoctlAccess \/ RxRead \/ RxWrite

Spec == Init /\ [][Next]_vars

(* Interrupts are taken, update_linkspeed and calls once begun go on.      *)
FairSpec ==
  /\ Spec /\ WF_vars(Handler) /\ WF_vars(UpdateLinkspeed)
  /\ WF_vars(OpenLink \/ OpenEnd \/ IoctlAccess \/ RxWrite)
  /\ WF_vars(pc # "down" /\ Open) /\ WF_vars(pc # "up" /\ Close) /\ WF_vars(pc # "up" /\ Ioctl)

-----------------------------------------------------------------------------
Pcs == {"down", "requested", "xie", "xieoff", "opened", "upd", "up", "io", "iooff",
        "clr", "clroff", "free", "rxmode"}

\* Every variable has its type.
TypeOK ==
  /\ phy \in Modes \cup {"down", "busy"} /\ bmcr \in Modes \cup {"auto"}
  /\ event \in BOOLEAN /\ xie \in BOOLEAN /\ edge \in BOOLEAN
  /\ mode \in Modes /\ caf \in BOOLEAN /\ mpe \in BOOLEAN /\ carrier \in BOOLEAN
  /\ installed \in BOOLEAN /\ pc \in Pcs /\ irq \in {"none", "ack", "end"}
  /\ upd \in {"none", "link", "bmsr", "lpa", "mac"} /\ seen \in Modes
  /\ cfg \in [mode : Modes, caf : BOOLEAN] /\ flags \in BOOLEAN /\ lost \in BOOLEAN
  /\ silent \in BOOLEAN
  /\ changes \in Nat /\ opens \in Nat /\ rxs \in Nat /\ ioctls \in Nat

\* The management port is enabled during every access to the PHY: "access to
\* the PHY must be protected by a spinlock", or a handler disables it midway.
MpeOn == upd # "none" \/ irq = "ack" \/ pc \in {"xie", "clr", "io"} => mpe

\* While the interface is up and nothing is left to be done the MAC has the
\* speed and duplex of the link, negotiated or forced, and the carrier is that of
\* the link: whatever the PHY reported, whenever it did, has been acted upon.  The
\* driver had to get its interrupt (at91_ether.c:271), and the report to reach it;
\* the speed can still be wrong if at91ether_set_rx_mode wrote an old one back
\* (at91_ether.c:620).
LinkKnownOrLost ==
  pc = "up" /\ installed /\ irq = "none" /\ ~edge /\ ~silent =>
    /\ phy \in Modes => (mode = phy \/ lost) /\ carrier
    /\ phy = "down" => ~carrier

\* The interrupt handler does not undo what at91ether_set_rx_mode has set.
RxKept == pc = "up" => caf = flags

\* An interface that stays up with a link that stays gets to know it, unless the
\* PHY did not report that link or the driver did not get its interrupt.
LinkFollows ==
  \A m \in Modes : (pc = "up" /\ installed /\ phy = m) ~>
    (((mode = m \/ lost) /\ carrier) \/ silent \/ phy # m \/ pc # "up")
=============================================================================
