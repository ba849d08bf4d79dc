-------------------------------- MODULE Tftp --------------------------------
(***************************************************************************)
(* The command tftp of U-Boot: NetLoop(TFTP) of net/net.c with the         *)
(* handlers of net/tftp.c, against a server over a network that may lose,  *)
(* repeat and reorder packets and delay them past any time-out.            *)
(*                                                                         *)
(* The network is the set of the packets under way.  Whatever goes wrong   *)
(* in it (a packet lost, a packet delivered and kept, a timer that runs    *)
(* out although an answer is under way, an ERROR of the server) is counted *)
(* in faults.  Lengths are in units of TFTP_BLOCK_SIZE, and the content of *)
(* a unit of memory is its number in the file, so FileSize is that of a    *)
(* unit which does not come from the file.                                 *)
(*                                                                         *)
(* The name of the file has no host in front: TftpStart cuts BootFile off  *)
(* at a ':', so that a new attempt for host:file asks for another file     *)
(* (tftp.c:477-486).                                                       *)
(***************************************************************************)
EXTENDS Integers

CONSTANTS
  FileSize,           \* the length of the file, in units
  TftpBlkSizeOption,  \* the block size the client asks for, in units
  TFTP_SEQUENCE_SIZE, \* how many block numbers there are
  TIMEOUT_COUNT,      \* time-outs before the client starts again
  Ports,              \* UDP ports of the client
  Tids,               \* UDP ports of the sessions of the server
  Setups,             \* the servers and the environments there may be
  MaxFaults,          \* bound: faults of the network and the server
  NONE

TFTP_BLOCK_SIZE == 1
WELL_KNOWN_PORT == 69
MaxArpTries == 3  \* two ARP_TIMEOUTs of 5 s in the 10 s of startAgainTimeout

ASSUME TftpAssumption ==
  /\ FileSize \in Nat /\ TftpBlkSizeOption \in Nat \ {0}
  /\ TFTP_SEQUENCE_SIZE \in Nat \ {0, 1} /\ TIMEOUT_COUNT \in Nat /\ MaxFaults \in Nat
  /\ WELL_KNOWN_PORT \notin Tids /\ NONE \notin Ports \cup Tids
  /\ Setups \subseteq [alive : BOOLEAN, options : BOOLEAN, netretry : BOOLEAN]

VARIABLES
  setup,               \* is there a server, does it know options; netretry # "no"
  TftpState, TftpServerPort, TftpOurPort, TftpTimeoutCount,
  TftpBlock, TftpLastBlock, TftpBlockWrapOffset, TftpBlkSize,
  memory,              \* from load_addr on
  NetBootFileXferSize,
  NetState,            \* NETLOOP_RESTART is left at once and not shown
  packetHandler,       \* the time handler changes with it
  NetServerEther,      \* is it known
  NetArpWaitTxPacket,  \* the packet that waits for it, or NONE
  NetArpWaitTry,
  session,             \* the sessions of the server
  net, faults          \* the network

tftp   == <<TftpState, TftpServerPort, TftpOurPort, TftpTimeoutCount,
            TftpBlock, TftpLastBlock, TftpBlockWrapOffset, TftpBlkSize>>
ram    == <<memory, NetBootFileXferSize>>
loop   == <<NetState, packetHandler>>
arp    == <<NetServerEther, NetArpWaitTxPacket, NetArpWaitTry>>
client == <<tftp, ram, loop, arp>>
vars   == <<setup, client, session, net, faults>>

-----------------------------------------------------------------------------
(* Packets.  A DATA packet has the number of its block in the file: the    *)
(* client sees the 16 bits of it that the packet has room for.             *)

Smaller(a, b) == IF a < b THEN a ELSE b
Wire(n)       == n % TFTP_SEQUENCE_SIZE

SessionBlkSize == IF setup.options THEN TftpBlkSizeOption ELSE TFTP_BLOCK_SIZE
LastBlock      == FileSize \div SessionBlkSize + 1
MaxBlock       == FileSize + 1
Offsets        == 0 .. FileSize + TFTP_SEQUENCE_SIZE * TftpBlkSizeOption

Packet(k, port, tid, n) == [kind |-> k, port |-> port, tid |-> tid, block |-> n]
ArpRequest   == Packet("ARP_REQUEST", NONE, NONE, 0)
ArpReply     == Packet("ARP_REPLY", NONE, NONE, 0)
ToServer     == {"ARP_REQUEST", "RRQ", "ACK"}
Answer(t, s) == Packet(IF s.block = 0 THEN "OACK" ELSE "DATA", s.port, t, s.block)
DataLen(p)   == Smaller(SessionBlkSize, FileSize - (p.block - 1) * SessionBlkSize)
DataAt(p, i) == (p.block - 1) * SessionBlkSize + i

Fault == faults < MaxFaults /\ faults' = faults + 1

\* p is taken out of the network, or stays there to come once more; S is sent
Deliver(p, S) == \/ net' = (net \ {p}) \cup S /\ UNCHANGED faults
                 \/ net' = net \cup S /\ Fault

-----------------------------------------------------------------------------
(* NetSendUDPPacket and TftpSend: what is sent, and what has to wait for   *)
(* the address of the server.                                              *)

Sent(p) == IF NetServerEther THEN {p} ELSE {ArpRequest}

NetSendUDPPacket(p) ==
  /\ NetArpWaitTxPacket' = IF NetServerEther THEN NetArpWaitTxPacket ELSE p
  /\ NetArpWaitTry' = IF NetServerEther THEN NetArpWaitTry ELSE 1
  /\ UNCHANGED NetServerEther

TftpSend(state, server, block) ==
  IF state = "RRQ" THEN Packet("RRQ", TftpOurPort, server, 0)
                   ELSE Packet("ACK", TftpOurPort, server, block)

NetStartAgain ==
  IF setup.netretry THEN packetHandler' = "startAgainHandler" /\ UNCHANGED NetState
                    ELSE NetState' = "FAIL" /\ UNCHANGED packetHandler

\* The port is pseudo-random: none that a packet or a session of an earlier
\* attempt still has
InUse(port) == \/ \E p \in net : p.port = port
               \/ \E t \in Tids : session[t] # NONE /\ session[t].port = port

\* mutant: TftpBlock keeps its value of the last attempt
TftpStartKeepsBlock(port) ==
  /\ packetHandler' = "TftpHandler"
  /\ TftpState' = "RRQ" /\ TftpServerPort' = WELL_KNOWN_PORT /\ TftpOurPort' = port
  /\ TftpTimeoutCount' = 0 /\ TftpBlkSize' = TFTP_BLOCK_SIZE
  /\ NetServerEther' = FALSE /\ NetArpWaitTry' = 1
  /\ NetArpWaitTxPacket' = Packet("RRQ", port, WELL_KNOWN_PORT, 0)
  /\ UNCHANGED <<TftpBlock, TftpLastBlock, TftpBlockWrapOffset>>
TftpStart(port) ==
  /\ packetHandler' = "TftpHandler"
  /\ TftpState' = "RRQ" /\ TftpServerPort' = WELL_KNOWN_PORT /\ TftpOurPort' = port
  /\ TftpTimeoutCount' = 0 /\ TftpBlock' = 0 /\ TftpBlkSize' = TFTP_BLOCK_SIZE
  /\ NetServerEther' = FALSE /\ NetArpWaitTry' = 1
  /\ NetArpWaitTxPacket' = Packet("RRQ", port, WELL_KNOWN_PORT, 0)
  /\ UNCHANGED <<TftpLastBlock, TftpBlockWrapOffset>>

Init ==
  /\ setup \in Setups
  /\ TftpOurPort \in Ports
  /\ TftpState = "RRQ" /\ TftpServerPort = WELL_KNOWN_PORT /\ TftpTimeoutCount = 0
  /\ TftpBlock = 0 /\ TftpLastBlock = 0 /\ TftpBlockWrapOffset = 0
  /\ TftpBlkSize = TFTP_BLOCK_SIZE
  /\ memory = [i \in Offsets |-> FileSize] /\ NetBootFileXferSize = 0
  /\ NetState = "CONTINUE" /\ packetHandler = "TftpHandler"
  /\ NetServerEther = FALSE /\ NetArpWaitTry = 1
  /\ NetArpWaitTxPacket = Packet("RRQ", TftpOurPort, WELL_KNOWN_PORT, 0)
  /\ session = [t \in Tids |-> NONE]
  /\ net = {ArpRequest} /\ faults = 0

-----------------------------------------------------------------------------
(* What the client receives.                                               *)

RxArpReply(p) ==
  /\ p = ArpReply
  /\ IF NetArpWaitTxPacket # NONE
     THEN /\ NetServerEther' = TRUE /\ NetArpWaitTxPacket' = NONE
          /\ Deliver(p, {NetArpWaitTxPacket})
          /\ UNCHANGED NetArpWaitTry
     ELSE Deliver(p, {}) /\ UNCHANGED arp
  /\ UNCHANGED <<setup, tftp, ram, loop, session>>

ForTftp(p) == /\ packetHandler = "TftpHandler" /\ p.port = TftpOurPort
              /\ TftpState = "RRQ" \/ p.tid = TftpServerPort

RxIgnored(p) ==
  /\ p.kind \in {"OACK", "DATA", "ERROR"} /\ ~ForTftp(p)
  /\ Deliver(p, {})
  /\ UNCHANGED <<setup, client, session>>

RxOack(p) ==
  /\ p.kind = "OACK" /\ ForTftp(p)
  /\ TftpState' = "OACK" /\ TftpServerPort' = p.tid
  /\ TftpBlkSize' = TftpBlkSizeOption
  /\ LET ack == TftpSend("OACK", p.tid, TftpBlock) IN
       NetSendUDPPacket(ack) /\ Deliver(p, Sent(ack))
  /\ UNCHANGED <<setup, TftpOurPort, TftpTimeoutCount, TftpBlock, TftpLastBlock,
                 TftpBlockWrapOffset, ram, loop, session>>

RxError(p) ==
  /\ p.kind = "ERROR" /\ ForTftp(p)
  /\ Deliver(p, {})
  /\ NetStartAgain
  /\ UNCHANGED <<setup, tftp, ram, arp, session>>

\* A DATA packet: what is decided before the block is stored
First          == TftpState \in {"RRQ", "OACK"}
Last           == IF First THEN 0 ELSE TftpLastBlock
WrapOffset(p)  == IF First THEN 0
                  ELSE IF Wire(p.block) = 0
                  THEN TftpBlockWrapOffset + TftpBlkSize * TFTP_SEQUENCE_SIZE
                  ELSE TftpBlockWrapOffset
RxDataHead(p) ==
  /\ p.kind = "DATA" /\ ForTftp(p)
  /\ TftpState' = "DATA" /\ TftpServerPort' = p.tid
  /\ TftpBlock' = Wire(p.block) /\ TftpBlockWrapOffset' = WrapOffset(p)
  /\ UNCHANGED <<setup, TftpOurPort, TftpTimeoutCount, TftpBlkSize, session>>

RxFirstIsNotOne(p) ==
  /\ First /\ Wire(p.block) # 1
  /\ RxDataHead(p)
  /\ TftpLastBlock' = Last
  /\ Deliver(p, {})
  /\ NetStartAgain
  /\ UNCHANGED <<ram, arp>>

RxSameBlock(p) ==
  /\ ~First /\ Wire(p.block) = Last
  /\ RxDataHead(p)
  /\ Deliver(p, {})
  /\ UNCHANGED <<TftpLastBlock, ram, loop, arp>>

\* store_block: what is copied, in memory as far as it is modelled
Copy(p, offset) == [i \in Offsets |-> IF i - offset \in 0 .. DataLen(p) - 1
                                      THEN DataAt(p, i - offset) ELSE memory[i]]

\* mutant: blocks are stored one after the other, as they come
StoreBlockAppends(p, offset) ==
  /\ memory' = Copy(p, NetBootFileXferSize)
  /\ NetBootFileXferSize' = NetBootFileXferSize + DataLen(p)
\* mutant: the size is the end of the last block, not of the furthest
StoreBlockNoMax(p, offset) ==
  /\ memory' = Copy(p, offset)
  /\ NetBootFileXferSize' = offset + DataLen(p)
StoreBlock(p, offset) ==
  /\ memory' = Copy(p, offset)
  /\ NetBootFileXferSize' =
       LET newsize == offset + DataLen(p)
       IN  IF NetBootFileXferSize < newsize THEN newsize ELSE NetBootFileXferSize

RxNewBlock(p) ==
  /\ Wire(p.block) # Last
  /\ First => Wire(p.block) = 1
  /\ RxDataHead(p)
  /\ TftpLastBlock' = Wire(p.block)
  /\ StoreBlock(p, (Wire(p.block) - 1) * TftpBlkSize + WrapOffset(p))
  /\ LET ack == TftpSend("DATA", p.tid, Wire(p.block)) IN
       NetSendUDPPacket(ack) /\ Deliver(p, Sent(ack))
  /\ NetState' = IF DataLen(p) < TftpBlkSize THEN "SUCCESS" ELSE NetState
  /\ UNCHANGED packetHandler

Receive == \E p \in net : \/ RxArpReply(p) \/ RxIgnored(p) \/ RxOack(p) \/ RxError(p)
                          \/ RxFirstIsNotOne(p) \/ RxSameBlock(p) \/ RxNewBlock(p)

-----------------------------------------------------------------------------
(* The timers and ctrl-c.  Client and server both wait TIMEOUT, which the  *)
(* request asks the server for: with nothing under way the two run out in  *)
(* turn.  Any other order is a fault that delays what is under way.        *)

Serving(t) == session[t] # NONE /\ session[t].port = TftpOurPort
Due        == net = {} /\ \A t \in Tids : Serving(t) => session[t].repeated

\* mutant: the counter is tested before it is incremented
RetriesUsedPost == TftpTimeoutCount > TIMEOUT_COUNT
RetriesUsed     == TftpTimeoutCount + 1 > TIMEOUT_COUNT

TftpTimeout ==
  /\ packetHandler = "TftpHandler"
  /\ IF Due THEN UNCHANGED faults ELSE Fault
  /\ session' = [t \in Tids |-> IF Serving(t) THEN [session[t] EXCEPT !.repeated = FALSE]
                                              ELSE session[t]]
  /\ IF RetriesUsed
     THEN /\ NetStartAgain /\ UNCHANGED <<TftpTimeoutCount, net, arp>>
     ELSE /\ TftpTimeoutCount' = TftpTimeoutCount + 1
          /\ LET p == TftpSend(TftpState, TftpServerPort, TftpBlock) IN
               NetSendUDPPacket(p) /\ net' = net \cup Sent(p)
          /\ UNCHANGED loop
  /\ UNCHANGED <<setup, TftpState, TftpServerPort, TftpOurPort, TftpBlock, TftpLastBlock,
                 TftpBlockWrapOffset, TftpBlkSize, ram>>

\* While TftpTimeout is armed it sends the ARP request again before this does
ArpTimeoutCheck ==
  /\ packetHandler = "startAgainHandler" /\ NetArpWaitTxPacket # NONE
  /\ NetArpWaitTry < MaxArpTries /\ NetArpWaitTry' = NetArpWaitTry + 1
  /\ net' = net \cup {ArpRequest}
  /\ UNCHANGED <<setup, tftp, ram, loop, NetServerEther, NetArpWaitTxPacket, session, faults>>

StartAgainTimeout ==
  /\ packetHandler = "startAgainHandler"
  /\ \E port \in Ports : ~InUse(port) /\ TftpStart(port)
  /\ NetBootFileXferSize' = 0
  /\ net' = net \cup {ArpRequest}
  /\ UNCHANGED <<setup, memory, NetState, session, faults>>

CtrlC ==
  /\ NetState' = "FAIL"
  /\ UNCHANGED <<setup, tftp, ram, packetHandler, arp, session, net, faults>>

-----------------------------------------------------------------------------
(* The server: a session for every request, one block at a time.           *)

ServeArp(p) ==
  /\ p = ArpRequest
  /\ Deliver(p, {ArpReply})
  /\ UNCHANGED <<setup, client, session>>

Free(t) == session[t] = NONE /\ t # TftpServerPort /\ \A p \in net : p.tid # t

ServeRequest(p) ==
  /\ p.kind = "RRQ"
  /\ \/ \E t \in Tids : /\ Free(t)
                        /\ LET s == [port |-> p.port, repeated |-> FALSE,
                                  block |-> IF setup.options THEN 0 ELSE 1]
                           IN  session' = [session EXCEPT ![t] = s] /\ Deliver(p, {Answer(t, s)})
     \/ (\A t \in Tids : ~Free(t)) /\ Deliver(p, {}) /\ UNCHANGED session
  /\ UNCHANGED <<setup, client>>

Acknowledges(p) == /\ session[p.tid] # NONE /\ session[p.tid].port = p.port
                   /\ p.block = Wire(session[p.tid].block)

ServeAck(p) ==
  /\ p.kind = "ACK"
  /\ IF Acknowledges(p) /\ session[p.tid].block < LastBlock
     THEN LET s == [session[p.tid] EXCEPT !.block = @ + 1, !.repeated = FALSE] IN
            session' = [session EXCEPT ![p.tid] = s] /\ Deliver(p, {Answer(p.tid, s)})
     ELSE /\ session' = [session EXCEPT ![p.tid] = IF Acknowledges(p) THEN NONE ELSE @]
          /\ Deliver(p, {})
  /\ UNCHANGED <<setup, client>>

Nobody(p) ==
  /\ p.kind \in ToServer
  /\ Deliver(p, {})
  /\ UNCHANGED <<setup, client, session>>

Serve == \E p \in net : IF setup.alive THEN ServeArp(p) \/ ServeRequest(p) \/ ServeAck(p)
                                       ELSE Nobody(p)

Repeat(t) ==
  /\ session[t] # NONE
  /\ IF net = {} /\ Serving(t) /\ ~session[t].repeated THEN UNCHANGED faults ELSE Fault
  /\ session' = [session EXCEPT ![t].repeated = TRUE]
  /\ net' = net \cup {Answer(t, session[t])}
  /\ UNCHANGED <<setup, client>>

Refuse(t) ==
  /\ session[t] # NONE /\ Fault
  /\ session' = [session EXCEPT ![t] = NONE]
  /\ net' = net \cup {Packet("ERROR", session[t].port, t, 0)}
  /\ UNCHANGED <<setup, client>>

\* A session whose client has gone gives up after its last repetition
GiveUp(t) ==
  /\ session[t] # NONE
  /\ ~Serving(t) \/ packetHandler = "startAgainHandler" \/ TftpServerPort \notin {t, WELL_KNOWN_PORT}
  /\ session' = [session EXCEPT ![t] = NONE]
  /\ UNCHANGED <<setup, client, net, faults>>

Lose == /\ \E p \in net : net' = net \ {p}
        /\ Fault
        /\ UNCHANGED <<setup, client, session>>

-----------------------------------------------------------------------------
Running(A) == NetState = "CONTINUE" /\ A

Next == Running(\/ Receive \/ TftpTimeout \/ ArpTimeoutCheck \/ StartAgainTimeout \/ CtrlC
                \/ Serve \/ Lose
                \/ \E t \in Tids : Repeat(t) \/ Refuse(t) \/ GiveUp(t))

Spec == Init /\ [][Next]_vars

\* What happens by itself: neither a fault nor ctrl-c
Work == Running(/\ UNCHANGED faults
                /\ \/ Receive \/ TftpTimeout \/ ArpTimeoutCheck \/ StartAgainTimeout \/ Serve
                   \/ \E t \in Tids : Repeat(t) \/ GiveUp(t))

FairSpec == /\ Spec /\ WF_vars(Work)
            /\ WF_vars(Running(StartAgainTimeout))
            /\ \A t \in Tids : WF_vars(Running(GiveUp(t)))
-----------------------------------------------------------------------------
(* Properties.                                                             *)

ClientPacket == [kind : {"ARP_REQUEST"}, port : {NONE}, tid : {NONE}, block : {0}]
           \cup [kind : {"RRQ"}, port : Ports, tid : {WELL_KNOWN_PORT}, block : {0}]
           \cup [kind : {"ACK"}, port : Ports, tid : Tids, block : 0 .. TFTP_SEQUENCE_SIZE - 1]
ServerPacket == [kind : {"ARP_REPLY"}, port : {NONE}, tid : {NONE}, block : {0}]
           \cup [kind : {"OACK", "ERROR"}, port : Ports, tid : Tids, block : {0}]
           \cup [kind : {"DATA"}, port : Ports, tid : Tids, block : 1 .. MaxBlock]

\* Every variable has a value the code can give it; in particular an ACK is only
\* ever addressed to a session, never to the port 69 of the server (net/tftp.c)
TypeOK ==
  /\ setup \in Setups
  /\ TftpState \in {"RRQ", "OACK", "DATA"}
  /\ TftpServerPort \in Tids \cup {WELL_KNOWN_PORT} /\ TftpOurPort \in Ports
  /\ TftpTimeoutCount \in 0 .. TIMEOUT_COUNT
  /\ TftpBlock \in 0 .. TFTP_SEQUENCE_SIZE - 1 /\ TftpLastBlock \in 0 .. TFTP_SEQUENCE_SIZE - 1
  /\ TftpBlockWrapOffset \in Nat
  /\ TftpBlkSize \in {TFTP_BLOCK_SIZE, TftpBlkSizeOption}
  /\ memory \in [Offsets -> 0 .. FileSize] /\ NetBootFileXferSize \in Nat
  /\ NetState \in {"CONTINUE", "SUCCESS", "FAIL"}
  /\ packetHandler \in {"TftpHandler", "startAgainHandler"}
  /\ NetServerEther \in BOOLEAN /\ NetArpWaitTry \in 1 .. MaxArpTries
  /\ NetArpWaitTxPacket \in ClientPacket \cup {NONE}
  /\ session \in [Tids -> [port : Ports, block : 0 .. MaxBlock, repeated : BOOLEAN] \cup {NONE}]
  /\ net \subseteq ClientPacket \cup ServerPacket /\ faults \in 0 .. MaxFaults

\* However packets are lost, repeated, delayed and reordered, and however often
\* the transfer is started again: what NetLoop would call the bytes transferred
\* is the beginning of the file, and all of the file once it says so
\* (store_block and NETLOOP_SUCCESS).  For a file shorter than the block numbers
\* allow: see SameBlockIgnored
Received ==
  /\ \A i \in 0 .. NetBootFileXferSize - 1 : memory[i] = i
  /\ NetState = "SUCCESS" => NetBootFileXferSize = FileSize

\* The server is never ahead of what has been stored: a block is acknowledged
\* after store_block, and neither a repeated nor a late packet, nor one of an
\* earlier attempt, makes the client acknowledge one it has not (net/tftp.c)
AckedIsStored ==
  NetState = "CONTINUE" /\ packetHandler = "TftpHandler" =>
    \A t \in Tids : Serving(t) =>
      NetBootFileXferSize >= (session[t].block - 1) * SessionBlkSize

\* tftp comes to an end: with netretry = no it gives up after TIMEOUT_COUNT
\* time-outs even if nobody answers, and otherwise the retries of the two sides
\* get the file over once the faults are over (TftpTimeout, NetStartAgain)
Ends == setup.alive \/ ~setup.netretry => <>(NetState # "CONTINUE")

\* "Same block again; ignore it": a DATA packet with the block number received
\* last changes nothing (tftp.c:365)
SameBlockIgnored ==
  [][\A p \in net : RxSameBlock(p) =>
       UNCHANGED <<TftpState, TftpBlockWrapOffset, TftpBlkSize, ram, loop>>]_vars
=============================================================================
