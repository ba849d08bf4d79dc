---------------------------- MODULE Tftp_proofs ----------------------------
(***************************************************************************)
(* For a file of any size below the block numbers, any block size and any  *)
(* number of faults: what tftp calls received is the beginning of the      *)
(* file, and all of it in the end.  The invariant follows the blocks that  *)
(* are stored around the circle: an acknowledgement is of a stored block,  *)
(* the server sends the block after an acknowledged one, and no packet of  *)
(* an earlier attempt has the port of this one.                            *)
(***************************************************************************)
EXTENDS Tftp, TLAPS

\* No block number of this file comes twice
ShortFile == MaxBlock < TFTP_SEQUENCE_SIZE

Active == NetState = "CONTINUE" /\ packetHandler = "TftpHandler"

\* The client knows the size of the blocks, and has the first n of them
BlkKnown   == TftpBlkSize = SessionBlkSize
Reached(n) == BlkKnown /\ (n * SessionBlkSize <= NetBootFileXferSize \/ NetBootFileXferSize = FileSize)

\* It may get block n: it has all before
Expects(n) == BlkKnown /\ (n - 1) * SessionBlkSize <= NetBootFileXferSize

Whole == NetBootFileXferSize <= FileSize /\ Received

\* In which state the client talks to whom, and what it knows then
Talks == TftpState = "RRQ" <=> TftpServerPort = WELL_KNOWN_PORT
Talking ==
  /\ Active /\ TftpState = "RRQ" => TftpBlock = 0
  /\ ~setup.options => TftpBlkSize = TFTP_BLOCK_SIZE

\* What the client has, by what it remembers
Had == Active /\ TftpState # "RRQ" =>
  /\ Reached(TftpBlock)
  /\ TftpState = "DATA" => Reached(TftpLastBlock) /\ TftpBlockWrapOffset = 0

\* Only a server that knows options speaks of them
Options ==
  /\ \A p \in net : p.kind = "OACK" => setup.options
  /\ \A t \in Tids : session[t] # NONE => (session[t].block = 0 => setup.options)

\* What the client has, by what is under way from it
Says(q) == q.kind = "ACK" /\ q.port = TftpOurPort => Reached(q.block)
Acked == Active =>
  /\ \A q \in net : Says(q)
  /\ NetArpWaitTxPacket # NONE => Says(NetArpWaitTxPacket)

\* and by what is under way to it
Brings(q) == q.kind = "DATA" /\ q.port = TftpOurPort => Expects(q.block)
Ahead == Active =>
  /\ \A q \in net : Brings(q)
  /\ \A t \in Tids : Serving(t) => (session[t].block > 0 => Expects(session[t].block))

TInv == TypeOK /\ Talks /\ Whole /\ Talking /\ Had /\ Options /\ Acked /\ Ahead

-----------------------------------------------------------------------------
(* The blocks of the file.                                                 *)

LEMMA Sizes == ASSUME setup \in Setups
               PROVE  /\ SessionBlkSize \in Nat \ {0}
                      /\ setup.options \in BOOLEAN
                      /\ setup.options => SessionBlkSize = TftpBlkSizeOption
                      /\ ~setup.options => SessionBlkSize = TFTP_BLOCK_SIZE
  <1>1. setup.options \in BOOLEAN
    BY TftpAssumption
  <1> QED
    BY <1>1, TftpAssumption DEF SessionBlkSize, TFTP_BLOCK_SIZE

\* The last block is the first one that is not full, and it may be empty.
LEMMA Blocks == ASSUME setup \in Setups
                PROVE  /\ LastBlock \in 1 .. MaxBlock
                       /\ \A n \in Nat : n < LastBlock => n * SessionBlkSize <= FileSize
  <1>1. \A f \in Nat, b \in Nat \ {0} : f \div b + 1 \in 1 .. f + 1
    OBVIOUS
  <1>2. \A f \in Nat, b \in Nat \ {0}, n \in Nat : n < f \div b + 1 => n * b <= f
    OBVIOUS
  <1>3. FileSize \in Nat
    BY TftpAssumption
  <1> QED
    BY <1>1, <1>2, <1>3, Sizes DEF LastBlock, MaxBlock

\* A block number has its 16 bits in a packet, which of a short file are all.
LEMMA WireType == ASSUME NEW n \in Nat PROVE Wire(n) \in 0 .. TFTP_SEQUENCE_SIZE - 1
  <1>1. \A a \in Nat, b \in Nat \ {0} : a % b \in 0 .. b - 1
    OBVIOUS
  <1> QED
    BY <1>1, TftpAssumption DEF Wire

LEMMA WireShort == ASSUME ShortFile, NEW n \in 0 .. MaxBlock PROVE Wire(n) = n
  <1>1. \A a \in Nat, b \in Nat \ {0} : a < b => a % b = a
    OBVIOUS
  <1>2. n \in Nat /\ n < TFTP_SEQUENCE_SIZE /\ TFTP_SEQUENCE_SIZE \in Nat \ {0}
    BY TftpAssumption DEF ShortFile, MaxBlock
  <1> QED
    BY <1>1, <1>2 DEF Wire

-----------------------------------------------------------------------------
(* Every variable keeps its type, whatever the size of the file.           *)

Packets == ClientPacket \cup ServerPacket

LEMMA InitTyped == Init => TypeOK /\ Talks
  <1> SUFFICES ASSUME Init PROVE TypeOK /\ Talks
    OBVIOUS
  <1>1. ArpRequest \in ClientPacket /\ NetArpWaitTxPacket \in ClientPacket
    BY DEF Init, ClientPacket, ArpRequest, Packet
  <1>2. NetServerEther \in BOOLEAN
    BY DEF Init
  <1>5. /\ session \in [Tids -> [port : Ports, block : 0 .. MaxBlock, repeated : BOOLEAN] \cup {NONE}]
        /\ memory \in [Offsets -> 0 .. FileSize]
    BY TftpAssumption DEF Init
  <1>3. Talks /\ TftpServerPort \in Tids \cup {WELL_KNOWN_PORT}
    BY DEF Init, Talks
  <1>4. faults \in 0 .. MaxFaults /\ NetArpWaitTry \in 1 .. MaxArpTries
    BY TftpAssumption DEF Init, MaxArpTries
  <1> QED
    BY <1>1, <1>2, <1>3, <1>4, <1>5, TftpAssumption DEF Init, TypeOK

\* What a delivery may leave in the network.
LEMMA Delivered == ASSUME TypeOK, NEW p, NEW S, Deliver(p, S)
                   PROVE  net' \subseteq net \cup S /\ faults' \in 0 .. MaxFaults
  BY TftpAssumption DEF Deliver, Fault, TypeOK

\* What the client sends, at once or when the address of the server is known.
LEMMA SendTyped == ASSUME TypeOK, NEW p \in ClientPacket, NetSendUDPPacket(p)
                   PROVE  /\ Sent(p) \subseteq ClientPacket
                          /\ NetServerEther' \in BOOLEAN /\ NetArpWaitTry' \in 1 .. MaxArpTries
                          /\ NetArpWaitTxPacket' \in ClientPacket \cup {NONE}
  <1>1. ArpRequest \in ClientPacket
    BY DEF ClientPacket, ArpRequest, Packet
  <1>2. NetServerEther' \in BOOLEAN
    BY DEF NetSendUDPPacket, TypeOK
  <1>3. NetArpWaitTry' \in 1 .. MaxArpTries
    BY DEF NetSendUDPPacket, TypeOK, MaxArpTries
  <1> QED
    BY <1>1, <1>2, <1>3 DEF NetSendUDPPacket, TypeOK, Sent

LEMMA AckTyped == ASSUME NEW t \in Tids, NEW n \in 0 .. TFTP_SEQUENCE_SIZE - 1, TypeOK,
                         NEW state, state # "RRQ"
                  PROVE  TftpSend(state, t, n) \in ClientPacket
  BY DEF TftpSend, Packet, ClientPacket, TypeOK

LEMMA AgainTyped == TypeOK /\ NetStartAgain =>
                      /\ NetState' \in {"CONTINUE", "SUCCESS", "FAIL"}
                      /\ packetHandler' \in {"TftpHandler", "startAgainHandler"}
  BY DEF TypeOK, NetStartAgain

\* The packets a server sends the client has a handler for.
LEMMA FromServer == ASSUME TypeOK, NEW p \in net, p.kind \in {"OACK", "DATA", "ERROR"}
                    PROVE  /\ p.tid \in Tids /\ p.port \in Ports
                           /\ p.kind = "DATA" => p.block \in 1 .. MaxBlock
  BY DEF TypeOK, ClientPacket, ServerPacket

LEMMA ReceiveTyped ==
  ASSUME TypeOK, Talks, NEW p \in net,
         RxArpReply(p) \/ RxIgnored(p) \/ RxOack(p) \/ RxError(p)
  PROVE  TypeOK' /\ Talks'
  <1>1. CASE RxArpReply(p)
    <2>1. /\ net' \subseteq Packets /\ faults' \in 0 .. MaxFaults
          /\ NetArpWaitTxPacket' \in ClientPacket \cup {NONE} /\ NetArpWaitTry' = NetArpWaitTry
      BY <1>1, Delivered DEF RxArpReply, TypeOK, Packets, arp
    <2>2. NetServerEther' \in BOOLEAN
      BY <1>1 DEF RxArpReply, TypeOK, arp
    <2> QED
      BY <1>1, <2>1, <2>2 DEF RxArpReply, TypeOK, Talks, Packets, tftp, ram, loop
  <1>2. CASE RxIgnored(p)
    <2>1. net' \subseteq Packets /\ faults' \in 0 .. MaxFaults
      BY <1>2, Delivered DEF RxIgnored, TypeOK, Packets
    <2> QED
      BY <1>2, <2>1 DEF RxIgnored, TypeOK, Talks, Packets, client, tftp, ram, loop, arp
  <1>3. CASE RxOack(p)
    <2> DEFINE ack == TftpSend("OACK", p.tid, TftpBlock)
    <2>1. p.tid \in Tids /\ p.tid # WELL_KNOWN_PORT
      BY <1>3, FromServer, TftpAssumption DEF RxOack
    <2>2. ack \in ClientPacket
      BY <2>1, AckTyped DEF TypeOK
    <2>3. NetSendUDPPacket(ack) /\ Deliver(p, Sent(ack))
      BY <1>3 DEF RxOack
    <2> HIDE DEF ack
    <2>4. net' \subseteq Packets /\ faults' \in 0 .. MaxFaults
      BY <2>2, <2>3, SendTyped, Delivered DEF TypeOK, Packets
    <2>5. /\ NetServerEther' \in BOOLEAN /\ NetArpWaitTry' \in 1 .. MaxArpTries
          /\ NetArpWaitTxPacket' \in ClientPacket \cup {NONE}
      BY <2>2, <2>3, SendTyped
    <2> QED
      BY <1>3, <2>1, <2>4, <2>5 DEF RxOack, TypeOK, Talks, Packets, ram, loop
  <1>4. CASE RxError(p)
    <2>1. net' \subseteq Packets /\ faults' \in 0 .. MaxFaults
      BY <1>4, Delivered DEF RxError, TypeOK, Packets
    <2> QED
      BY <1>4, <2>1, AgainTyped DEF RxError, TypeOK, Talks, Packets, tftp, ram, arp
  <1> QED
    BY <1>1, <1>2, <1>3, <1>4

\* A DATA packet, before its block is stored.
LEMMA HeadTyped ==
  ASSUME TypeOK, Talks, NEW p \in net, RxDataHead(p)
  PROVE  /\ p.tid \in Tids /\ p.tid # WELL_KNOWN_PORT /\ p.port = TftpOurPort
         /\ p.block \in 1 .. MaxBlock
         /\ Wire(p.block) \in 0 .. TFTP_SEQUENCE_SIZE - 1
         /\ TftpBlock' = Wire(p.block) /\ TftpState' = "DATA" /\ TftpServerPort' = p.tid
         /\ TftpBlockWrapOffset' \in Nat /\ Talks'
  <1>1. p.tid \in Tids /\ p.tid # WELL_KNOWN_PORT /\ p.block \in 1 .. MaxBlock /\ p.port = TftpOurPort
    BY FromServer, TftpAssumption DEF RxDataHead, ForTftp
  <1>2. p.block \in Nat
    BY <1>1, TftpAssumption DEF MaxBlock
  <1>3. TftpBlockWrapOffset' \in Nat
    <2>1. TftpBlkSize \in Nat /\ TFTP_SEQUENCE_SIZE \in Nat /\ TftpBlockWrapOffset \in Nat
      BY TftpAssumption DEF TypeOK, TFTP_BLOCK_SIZE
    <2>2. \A a \in Nat, b \in Nat, d \in Nat : a + b * d \in Nat
      OBVIOUS
    <2> QED
      BY <2>1, <2>2 DEF RxDataHead, WrapOffset
  <1> QED
    BY <1>1, <1>2, <1>3, WireType DEF RxDataHead, Talks

LEMMA StoreTyped ==
  ASSUME TypeOK, NEW p, p.block \in 1 .. MaxBlock, NEW offset \in Int, StoreBlock(p, offset)
  PROVE  memory' \in [Offsets -> 0 .. FileSize] /\ NetBootFileXferSize' \in Nat
  <1> DEFINE b == SessionBlkSize
             at == (p.block - 1) * b
  <1>1. b \in Nat \ {0} /\ FileSize \in Nat
    BY Sizes, TftpAssumption DEF TypeOK
  <1>2. at \in Nat
    <2>1. p.block - 1 \in Nat /\ b \in Nat
      BY <1>1, TftpAssumption DEF MaxBlock
    <2>2. \A x \in Nat, y \in Nat : x * y \in Nat
      OBVIOUS
    <2> QED
      BY <2>1, <2>2
  <1>3. DataLen(p) = Smaller(b, FileSize - at) /\ \A i : DataAt(p, i) = at + i
    BY DEF DataLen, DataAt
  <1> HIDE DEF b, at
  <1>4. DataLen(p) \in Int /\ DataLen(p) <= FileSize - at
    BY <1>1, <1>2, <1>3 DEF Smaller
  <1>5. \A i \in Offsets : i - offset \in 0 .. DataLen(p) - 1 => DataAt(p, i - offset) \in 0 .. FileSize
    BY <1>1, <1>2, <1>3, <1>4 DEF Offsets
  <1>6. memory' \in [Offsets -> 0 .. FileSize]
    <2>1. memory' = Copy(p, offset)
      BY DEF StoreBlock
    <2> QED
      BY <1>5, <2>1 DEF Copy, TypeOK
  <1>7. NetBootFileXferSize' \in Nat
    BY <1>4 DEF StoreBlock, TypeOK
  <1> QED
    BY <1>6, <1>7

LEMMA DataTyped ==
  ASSUME TypeOK, Talks, NEW p \in net,
         RxFirstIsNotOne(p) \/ RxSameBlock(p) \/ RxNewBlock(p)
  PROVE  TypeOK' /\ Talks'
  <1>1. TFTP_SEQUENCE_SIZE \in Nat \ {0, 1} /\ Last \in 0 .. TFTP_SEQUENCE_SIZE - 1
    BY TftpAssumption DEF Last, TypeOK
  <1>2. CASE RxFirstIsNotOne(p)
    <2>1. net' \subseteq Packets /\ faults' \in 0 .. MaxFaults
      BY <1>2, Delivered DEF RxFirstIsNotOne, TypeOK, Packets
    <2>2. RxDataHead(p) /\ TftpLastBlock' = Last /\ NetStartAgain /\ UNCHANGED <<ram, arp>>
      BY <1>2 DEF RxFirstIsNotOne
    <2> QED
      BY <1>1, <2>1, <2>2, HeadTyped, AgainTyped DEF RxDataHead, TypeOK, Packets, ram, arp
  <1>3. CASE RxSameBlock(p)
    <2>1. net' \subseteq Packets /\ faults' \in 0 .. MaxFaults
      BY <1>3, Delivered DEF RxSameBlock, TypeOK, Packets
    <2>2. RxDataHead(p) /\ UNCHANGED <<TftpLastBlock, ram, loop, arp>>
      BY <1>3 DEF RxSameBlock
    <2> QED
      BY <2>1, <2>2, HeadTyped DEF RxDataHead, TypeOK, Packets, ram, loop, arp
  <1>4. CASE RxNewBlock(p)
    <2> DEFINE ack == TftpSend("DATA", p.tid, Wire(p.block))
               at  == (Wire(p.block) - 1) * TftpBlkSize + WrapOffset(p)
    <2>1. /\ RxDataHead(p) /\ TftpLastBlock' = Wire(p.block) /\ StoreBlock(p, at)
          /\ NetSendUDPPacket(ack) /\ Deliver(p, Sent(ack))
          /\ NetState' \in {"SUCCESS", NetState} /\ UNCHANGED packetHandler
      BY <1>4 DEF RxNewBlock
    <2>2. ack \in ClientPacket
      BY <2>1, HeadTyped, AckTyped
    <2>3. at \in Int
      <3>1. TftpBlkSize \in Int /\ WrapOffset(p) \in Int /\ Wire(p.block) \in Int
        BY <2>1, HeadTyped, TftpAssumption DEF RxDataHead, TypeOK, TFTP_BLOCK_SIZE
      <3>2. \A x \in Int, y \in Int, z \in Int : (x - 1) * y + z \in Int
        OBVIOUS
      <3> QED
        BY <3>1, <3>2
    <2> HIDE DEF ack, at
    <2>4. net' \subseteq Packets /\ faults' \in 0 .. MaxFaults
      BY <2>1, <2>2, SendTyped, Delivered DEF TypeOK, Packets
    <2>5. /\ NetServerEther' \in BOOLEAN /\ NetArpWaitTry' \in 1 .. MaxArpTries
          /\ NetArpWaitTxPacket' \in ClientPacket \cup {NONE}
      BY <2>1, <2>2, SendTyped
    <2>6. memory' \in [Offsets -> 0 .. FileSize] /\ NetBootFileXferSize' \in Nat
      BY <2>1, <2>3, HeadTyped, StoreTyped
    <2> QED
      BY <2>1, <2>4, <2>5, <2>6, HeadTyped DEF RxDataHead, TypeOK, Packets
  <1> QED
    BY <1>2, <1>3, <1>4

Session == [port : Ports, block : 0 .. MaxBlock, repeated : BOOLEAN]

LEMMA AnswerTyped == ASSUME NEW t \in Tids, NEW u \in Session PROVE Answer(t, u) \in ServerPacket
  <1>1. u.port \in Ports /\ u.block \in 0 .. MaxBlock
    BY DEF Session
  <1>2. CASE u.block = 0
    BY <1>1, <1>2 DEF Answer, Packet, ServerPacket
  <1>3. CASE u.block # 0
    <2>1. u.block \in 1 .. MaxBlock
      BY <1>1, <1>3, TftpAssumption DEF MaxBlock
    <2> QED
      BY <1>1, <1>3, <2>1 DEF Answer, Packet, ServerPacket
  <1> QED
    BY <1>2, <1>3

\* What the timers send and start.
LEMMA TimersTyped ==
  ASSUME TypeOK, Talks, TftpTimeout \/ ArpTimeoutCheck \/ StartAgainTimeout \/ CtrlC
  PROVE  TypeOK' /\ Talks'
  <1>0. ArpRequest \in ClientPacket
    BY DEF ClientPacket, ArpRequest, Packet
  <1>1. CASE TftpTimeout
    <2>1. session' \in [Tids -> Session \cup {NONE}]
      <3>1. \A t \in Tids : session[t] \in Session \cup {NONE}
        BY DEF TypeOK, Session
      <3>2. \A u \in Session : [u EXCEPT !.repeated = FALSE] \in Session
        BY DEF Session
      <3>3. session' = [t \in Tids |-> IF Serving(t) THEN [session[t] EXCEPT !.repeated = FALSE]
                                       ELSE session[t]]
        BY <1>1 DEF TftpTimeout
      <3> QED
        BY <3>1, <3>2, <3>3 DEF Serving
    <2>2. faults' \in 0 .. MaxFaults
      BY <1>1, TftpAssumption DEF TftpTimeout, Fault, TypeOK
    <2>3. CASE RetriesUsed
      <3>1. NetStartAgain /\ UNCHANGED <<TftpTimeoutCount, net, arp>>
        BY <1>1, <2>3 DEF TftpTimeout
      <3> QED
        BY <1>1, <2>1, <2>2, <3>1, AgainTyped DEF TftpTimeout, TypeOK, Talks, Session, ram, arp
    <2>4. CASE ~RetriesUsed
      <3> DEFINE q == TftpSend(TftpState, TftpServerPort, TftpBlock)
      <3>1. /\ TftpTimeoutCount' = TftpTimeoutCount + 1
            /\ NetSendUDPPacket(q) /\ net' = net \cup Sent(q) /\ UNCHANGED loop
        BY <1>1, <2>4 DEF TftpTimeout
      <3>2. q \in ClientPacket
        <4>1. CASE TftpState = "RRQ"
          BY <4>1 DEF TypeOK, Talks, TftpSend, Packet, ClientPacket
        <4>2. CASE TftpState # "RRQ"
          BY <4>2, AckTyped DEF TypeOK, Talks
        <4> QED
          BY <4>1, <4>2
      <3> HIDE DEF q
      <3>3. /\ net' \subseteq Packets /\ NetServerEther' \in BOOLEAN /\ NetArpWaitTry' \in 1 .. MaxArpTries
            /\ NetArpWaitTxPacket' \in ClientPacket \cup {NONE}
        BY <3>1, <3>2, SendTyped DEF TypeOK, Packets
      <3>4. TftpTimeoutCount' \in 0 .. TIMEOUT_COUNT
        BY <2>4, <3>1, TftpAssumption DEF RetriesUsed, TypeOK
      <3> QED
        BY <1>1, <2>1, <2>2, <3>1, <3>3, <3>4 DEF TftpTimeout, TypeOK, Talks, Session, Packets, ram, loop
    <2> QED
      BY <2>3, <2>4
  <1>2. CASE ArpTimeoutCheck
    <2>1. NetArpWaitTry' \in 1 .. MaxArpTries
      BY <1>2 DEF ArpTimeoutCheck, TypeOK, MaxArpTries
    <2> QED
      BY <1>0, <1>2, <2>1 DEF ArpTimeoutCheck, TypeOK, Talks, tftp, ram, loop
  <1>3. CASE StartAgainTimeout
    <2>1. PICK port \in Ports : TftpStart(port)
      BY <1>3 DEF StartAgainTimeout
    <2>2. Packet("RRQ", port, WELL_KNOWN_PORT, 0) \in ClientPacket
      BY DEF Packet, ClientPacket
    <2>3. /\ NetServerEther' \in BOOLEAN /\ NetArpWaitTry' \in 1 .. MaxArpTries
          /\ TftpTimeoutCount' \in 0 .. TIMEOUT_COUNT /\ NetBootFileXferSize' \in Nat
          /\ TftpBlock' \in 0 .. TFTP_SEQUENCE_SIZE - 1
      <3>1. NetServerEther' \in BOOLEAN
        BY <2>1 DEF TftpStart
      <3> QED
        BY <1>3, <2>1, <3>1, TftpAssumption DEF TftpStart, StartAgainTimeout, MaxArpTries
    <2>4. net' \subseteq Packets
      BY <1>0, <1>3 DEF StartAgainTimeout, TypeOK, Packets
    <2> QED
      BY <1>3, <2>1, <2>2, <2>3, <2>4 DEF TftpStart, StartAgainTimeout, TypeOK, Talks, Packets
  <1>4. CASE CtrlC
    BY <1>4 DEF CtrlC, TypeOK, Talks, tftp, ram, arp
  <1> QED
    BY <1>1, <1>2, <1>3, <1>4

\* The server and the network do not touch the client.
Elsewhere == \/ \E p \in net : \/ ServeArp(p) \/ ServeRequest(p) \/ ServeAck(p) \/ Nobody(p)
             \/ \E t \in Tids : Repeat(t) \/ Refuse(t) \/ GiveUp(t)
             \/ Lose

LEMMA ElsewhereTyped == ASSUME TypeOK, Talks, Elsewhere PROVE TypeOK' /\ Talks'
  <1>1. UNCHANGED <<setup, client>>
    BY DEF Elsewhere, ServeArp, ServeRequest, ServeAck, Nobody, Repeat, Refuse, GiveUp, Lose
  <1>2. \A t \in Tids : session[t] \in Session \cup {NONE}
    BY DEF TypeOK, Session
  <1>3. net \subseteq Packets /\ ArpReply \in Packets
    BY DEF TypeOK, Packets, ArpReply, Packet, ServerPacket
  <1>4. SUFFICES /\ net' \subseteq Packets /\ faults' \in 0 .. MaxFaults
                 /\ session' \in [Tids -> Session \cup {NONE}]
    BY <1>1 DEF TypeOK, Talks, Packets, Session, client, tftp, ram, loop, arp
  <1>5. session \in [Tids -> Session \cup {NONE}] /\ faults \in 0 .. MaxFaults
    BY DEF TypeOK, Session
  <1>6. ASSUME NEW p \in net, ServeArp(p) \/ Nobody(p)
        PROVE  /\ net' \subseteq Packets /\ faults' \in 0 .. MaxFaults
               /\ session' \in [Tids -> Session \cup {NONE}]
    BY <1>3, <1>5, <1>6, Delivered DEF ServeArp, Nobody
  <1>7. ASSUME NEW p \in net, ServeRequest(p)
        PROVE  /\ net' \subseteq Packets /\ faults' \in 0 .. MaxFaults
               /\ session' \in [Tids -> Session \cup {NONE}]
    <2>1. CASE Deliver(p, {}) /\ UNCHANGED session
      BY <1>3, <1>5, <2>1, Delivered
    <2>2. ASSUME NEW t \in Tids, NEW u, u = [port |-> p.port, repeated |-> FALSE,
                                            block |-> IF setup.options THEN 0 ELSE 1],
                 session' = [session EXCEPT ![t] = u], Deliver(p, {Answer(t, u)})
          PROVE  /\ net' \subseteq Packets /\ faults' \in 0 .. MaxFaults
                 /\ session' \in [Tids -> Session \cup {NONE}]
      <3>1. p.port \in Ports
        BY <1>7 DEF ServeRequest, TypeOK, ClientPacket, ServerPacket
      <3>2. (IF setup.options THEN 0 ELSE 1) \in 0 .. MaxBlock
        BY TftpAssumption DEF MaxBlock
      <3>3. u \in Session
        BY <2>2, <3>1, <3>2 DEF Session
      <3>4. Answer(t, u) \in Packets
        BY <3>3, AnswerTyped DEF Packets
      <3> QED
        BY <1>3, <1>5, <2>2, <3>3, <3>4, Delivered
    <2> QED
      BY <1>7, <2>1, <2>2 DEF ServeRequest
  <1>8. ASSUME NEW p \in net, ServeAck(p)
        PROVE  /\ net' \subseteq Packets /\ faults' \in 0 .. MaxFaults
               /\ session' \in [Tids -> Session \cup {NONE}]
    <2>1. p.tid \in Tids
      BY <1>8 DEF ServeAck, TypeOK, ClientPacket, ServerPacket
    <2>2. CASE Acknowledges(p) /\ session[p.tid].block < LastBlock
      <3>1. PICK u : /\ u = [session[p.tid] EXCEPT !.block = @ + 1, !.repeated = FALSE]
                     /\ session' = [session EXCEPT ![p.tid] = u]
                     /\ Deliver(p, {Answer(p.tid, u)})
        BY <1>8, <2>2 DEF ServeAck
      <3>2. session[p.tid] \in Session
        BY <1>2, <2>1, <2>2 DEF Acknowledges
      <3>3. session[p.tid].block + 1 \in 0 .. MaxBlock
        <4>1. session[p.tid].block \in 0 .. MaxBlock /\ LastBlock \in 1 .. MaxBlock
          BY <3>2, Blocks DEF Session, TypeOK
        <4> QED
          BY <2>2, <4>1, TftpAssumption DEF MaxBlock
      <3>4. u \in Session
        BY <3>1, <3>2, <3>3 DEF Session
      <3>5. Answer(p.tid, u) \in Packets
        BY <2>1, <3>4, AnswerTyped DEF Packets
      <3> QED
        BY <1>3, <1>5, <3>1, <3>4, <3>5, Delivered
    <2>3. CASE ~(Acknowledges(p) /\ session[p.tid].block < LastBlock)
      <3>1. session' = [session EXCEPT ![p.tid] = IF Acknowledges(p) THEN NONE ELSE @] /\ Deliver(p, {})
        BY <1>8, <2>3 DEF ServeAck
      <3>2. session' \in {session, [session EXCEPT ![p.tid] = NONE]}
        BY <1>5, <2>1, <3>1
      <3>3. session' \in [Tids -> Session \cup {NONE}]
        BY <1>5, <2>1, <3>2
      <3> QED
        BY <1>3, <3>1, <3>3, Delivered
    <2> QED
      BY <2>2, <2>3
  <1>9. ASSUME NEW t \in Tids, Repeat(t)
        PROVE  /\ net' \subseteq Packets /\ faults' \in 0 .. MaxFaults
               /\ session' \in [Tids -> Session \cup {NONE}]
    <2>1. session[t] \in Session
      BY <1>2, <1>9 DEF Repeat
    <2>2. [session[t] EXCEPT !.repeated = TRUE] \in Session
      BY <2>1 DEF Session
    <2>3. Answer(t, session[t]) \in Packets
      BY <2>1, AnswerTyped DEF Packets
    <2>4. session' = [session EXCEPT ![t] = [session[t] EXCEPT !.repeated = TRUE]]
      BY <1>5, <1>9 DEF Repeat
    <2>5. faults' \in 0 .. MaxFaults
      BY <1>5, <1>9, TftpAssumption DEF Repeat, Fault
    <2> QED
      BY <1>3, <1>5, <1>9, <2>2, <2>3, <2>4, <2>5 DEF Repeat
  <1>10. ASSUME NEW t \in Tids, Refuse(t) \/ GiveUp(t)
         PROVE  /\ net' \subseteq Packets /\ faults' \in 0 .. MaxFaults
                /\ session' \in [Tids -> Session \cup {NONE}]
    <2>1. session' = [session EXCEPT ![t] = NONE]
      BY <1>10 DEF Refuse, GiveUp
    <2>2. net' \subseteq Packets
      <3>1. CASE Refuse(t)
        <4>1. session[t] \in Session
          BY <1>2, <3>1 DEF Refuse
        <4>2. Packet("ERROR", session[t].port, t, 0) \in Packets
          BY <4>1 DEF Session, Packet, Packets, ServerPacket
        <4> QED
          BY <1>3, <3>1, <4>2 DEF Refuse
      <3>2. CASE GiveUp(t)
        BY <1>3, <3>2 DEF GiveUp
      <3> QED
        BY <1>10, <3>1, <3>2
    <2>3. faults' \in 0 .. MaxFaults
      BY <1>5, <1>10, TftpAssumption DEF Refuse, GiveUp, Fault
    <2> QED
      BY <1>5, <2>1, <2>2, <2>3
  <1>11. CASE Lose
    BY <1>3, <1>5, <1>11, TftpAssumption DEF Lose, Fault
  <1> QED
    BY <1>6, <1>7, <1>8, <1>9, <1>10, <1>11 DEF Elsewhere

LEMMA NextTyped == TypeOK /\ Talks /\ [Next]_vars => TypeOK' /\ Talks'
  <1> SUFFICES ASSUME TypeOK, Talks, [Next]_vars PROVE TypeOK' /\ Talks'
    OBVIOUS
  <1>1. CASE UNCHANGED vars
    BY <1>1 DEF vars, client, tftp, ram, loop, arp, TypeOK, Talks
  <1>2. CASE Next
    <2>1. Receive \/ TftpTimeout \/ ArpTimeoutCheck \/ StartAgainTimeout \/ CtrlC \/ Elsewhere
      BY <1>2 DEF Next, Running, Serve, Elsewhere
    <2> QED
      BY <2>1, ReceiveTyped, DataTyped, TimersTyped, ElsewhereTyped DEF Receive
  <1> QED
    BY <1>1, <1>2

LEMMA Typed == Spec => [](TypeOK /\ Talks)
  BY InitTyped, NextTyped, PTL DEF Spec

\* Every variable keeps its type for any file, faults and attempts: above all,
\* the client acknowledges nothing to the port it sends its requests to.
THEOREM TypeCorrect == Spec => []TypeOK
  BY Typed, PTL

-----------------------------------------------------------------------------
(* What is stored, said and expected.                                      *)

\* What the client has it keeps, and may expect no less.
LEMMA Grows ==
  ASSUME TypeOK, TypeOK', Whole, Whole', UNCHANGED setup, BlkKnown => BlkKnown',
         NetBootFileXferSize <= NetBootFileXferSize', NEW n \in Nat
  PROVE  (Reached(n) => Reached(n)') /\ (Expects(n) => Expects(n)')
  <1>1. SessionBlkSize' = SessionBlkSize /\ SessionBlkSize \in Nat
    BY Sizes DEF SessionBlkSize, TypeOK
  <1>2. /\ NetBootFileXferSize \in Nat /\ NetBootFileXferSize' \in Nat /\ FileSize \in Nat
        /\ NetBootFileXferSize' <= FileSize
    BY TftpAssumption DEF TypeOK, Whole
  <1>3. \A x \in Nat, y \in Nat : x * y \in Nat /\ (x - 1) * y \in Int
    OBVIOUS
  <1>4. n * SessionBlkSize \in Nat /\ (n - 1) * SessionBlkSize \in Int
    BY <1>1, <1>3
  <1> HIDE DEF TypeOK, Whole
  <1> QED
    BY <1>1, <1>2, <1>4 DEF Reached, Expects

\* A step of a client that stays in the transfer, and of no other: S is sent.
LEMMA ClientFrame ==
  ASSUME TInv, TypeOK', Whole', UNCHANGED <<setup, TftpOurPort>>, BlkKnown => BlkKnown',
         Active' => Active, NetBootFileXferSize <= NetBootFileXferSize',
         \A t \in Tids : session'[t] # NONE =>
           session[t] # NONE /\ session'[t].port = session[t].port /\ session'[t].block = session[t].block,
         NEW S \in SUBSET ClientPacket, net' \subseteq net \cup S,
         NetArpWaitTxPacket' \in {NetArpWaitTxPacket, NONE} \cup S,
         Active' => \A q \in S : Says(q)'
  PROVE  Options' /\ Acked' /\ Ahead'
  <1>1. \A q \in S : q.kind \notin {"OACK", "DATA"}
    BY DEF ClientPacket
  <1>2. Options'
    BY <1>1 DEF TInv, Options
  <1>3. \A q \in net : q.kind \in {"ACK", "DATA"} => q.block \in Nat
    BY TftpAssumption DEF TInv, TypeOK, ClientPacket, ServerPacket, MaxBlock
  <1>4. NetArpWaitTxPacket # NONE /\ NetArpWaitTxPacket.kind = "ACK" => NetArpWaitTxPacket.block \in Nat
    BY TftpAssumption DEF TInv, TypeOK, ClientPacket
  <1>5. \A t \in Tids : session[t] # NONE => session[t].block \in Nat
    BY TftpAssumption DEF TInv, TypeOK, MaxBlock
  <1>6. \A n \in Nat : (Reached(n) => Reached(n)') /\ (Expects(n) => Expects(n)')
    BY Grows DEF TInv
  <1>7. ASSUME Active' PROVE /\ \A q \in net' : Says(q)'
                             /\ NetArpWaitTxPacket' # NONE => Says(NetArpWaitTxPacket)'
    <2>1. \A q \in net : Says(q) /\ Says(q)'
      BY <1>3, <1>6, <1>7 DEF TInv, Acked, Says
    <2>2. NetArpWaitTxPacket # NONE => \A q : q = NetArpWaitTxPacket => Says(q)'
      BY <1>4, <1>6, <1>7 DEF TInv, Acked, Says
    <2>3. NetArpWaitTxPacket' # NONE => \A q : q = NetArpWaitTxPacket' => Says(q)'
      BY <1>7, <2>2
    <2>4. NetArpWaitTxPacket' # NONE => Says(NetArpWaitTxPacket)'
      BY <2>3 DEF Says
    <2> QED
      BY <1>7, <2>1, <2>4
  <1>8. ASSUME Active' PROVE /\ \A q \in net' : Brings(q)'
                             /\ \A t \in Tids : Serving(t)' =>
                                  (session'[t].block > 0 => Expects(session[t].block)')
    <2>1. \A q \in net : Brings(q) /\ Brings(q)'
      BY <1>3, <1>6, <1>8 DEF TInv, Ahead, Brings
    <2>2. \A q \in S : Brings(q)'
      BY <1>1 DEF Brings
    <2>3. ASSUME NEW t \in Tids, Serving(t)', session'[t].block > 0 PROVE Expects(session[t].block)'
      <3>1. Serving(t) /\ session[t].block > 0 /\ session'[t].block = session[t].block
        BY <2>3 DEF Serving
      <3>2. Expects(session[t].block)
        BY <1>8, <3>1 DEF TInv, Ahead
      <3>3. \A n \in Nat : n = session[t].block => Expects(n)'
        BY <1>6, <3>2
      <3>4. session[t].block \in Nat
        BY <1>5, <3>1 DEF Serving
      <3>5. \A n \in Nat : n = session'[t].block => Expects(n)'
        BY <3>1, <3>3
      <3> QED
        BY <3>1, <3>4, <3>5 DEF Expects
    <2> QED
      BY <2>1, <2>2, <2>3
  <1>9. Acked' /\ Ahead'
    BY <1>7, <1>8 DEF Acked, Ahead
  <1> QED
    BY <1>2, <1>9

\* What NetSendUDPPacket lets go now, or when the address is known.
LEMMA SendKeeps == ASSUME NEW q \in ClientPacket, NetSendUDPPacket(q)
                   PROVE  /\ NetArpWaitTxPacket' \in {NetArpWaitTxPacket, NONE} \cup {q, ArpRequest}
                          /\ Sent(q) \subseteq {q, ArpRequest}
                          /\ {q, ArpRequest} \subseteq ClientPacket
                          /\ ArpRequest.kind = "ARP_REQUEST"
  <1>1. ArpRequest \in ClientPacket /\ ArpRequest.kind = "ARP_REQUEST"
    BY DEF ClientPacket, ArpRequest, Packet
  <1> QED
    BY <1>1 DEF NetSendUDPPacket, Sent

\* NetStartAgain leaves the transfer.
LEMMA AgainLeaves == NetStartAgain => ~Active' /\ NetState' \in {NetState, "FAIL"}
  BY DEF NetStartAgain, Active

\* A client that has left the transfer answers no packet.
LEMMA Left == ASSUME ~Active' PROVE Had' /\ Acked' /\ Ahead'
  BY DEF Had, Acked, Ahead

\* A step that stores nothing.
LEMMA WholeKept ==
  ASSUME Whole, UNCHANGED ram, NetState' \in {"CONTINUE", NetState, "FAIL"} PROVE Whole'
  BY DEF Whole, Received, ram

LEMMA ArpReplyOK ==
  ASSUME TInv, TypeOK', NEW p \in net, RxArpReply(p) PROVE TInv'
  <1>1. /\ UNCHANGED <<setup, tftp, ram, loop, session>>
        /\ Talks' /\ BlkKnown' = BlkKnown /\ Active' = Active
    BY DEF RxArpReply, TInv, Talks, BlkKnown, Active, SessionBlkSize, tftp, loop
  <1>2. Whole' /\ Talking' /\ Had'
    <2>1. Whole'
      BY <1>1, WholeKept DEF TInv, loop
    <2>2. \A n : Reached(n)' = Reached(n)
      BY <1>1 DEF Reached, BlkKnown, SessionBlkSize, tftp, ram
    <2>3. Talking'
      BY <1>1 DEF TInv, Talking, Active, tftp, loop
    <2>4. Had'
      BY <1>1 DEF TInv, Had, Active, Reached, BlkKnown, SessionBlkSize, tftp, ram, loop
    <2> QED
      BY <2>1, <2>3, <2>4
  <1>3. PICK S : /\ S = IF NetArpWaitTxPacket # NONE THEN {NetArpWaitTxPacket} ELSE {}
                 /\ Deliver(p, S) /\ NetArpWaitTxPacket' \in {NetArpWaitTxPacket, NONE}
    BY DEF RxArpReply, arp
  <1>4. S \subseteq ClientPacket
    BY <1>3 DEF TInv, TypeOK
  <1>5. net' \subseteq net \cup S
    BY <1>3, Delivered DEF TInv
  <1>6. Active' => \A q \in S : Says(q)'
    BY <1>1, <1>3 DEF TInv, Acked, Says, Reached, BlkKnown, SessionBlkSize, tftp, ram
  <1>7. UNCHANGED <<setup, TftpOurPort, session, NetBootFileXferSize>> /\ NetBootFileXferSize \in Nat
    BY <1>1 DEF tftp, ram, TInv, TypeOK
  <1>8. Options' /\ Acked' /\ Ahead'
    BY <1>1, <1>2, <1>3, <1>4, <1>5, <1>6, <1>7, ClientFrame
  <1> QED
    BY <1>1, <1>2, <1>8 DEF TInv

\* An option acknowledgement tells the client the size of the blocks; when it
\* comes again the client goes back to the first block.
LEMMA OackOK ==
  ASSUME TInv, TypeOK', Talks', NetState = "CONTINUE", NEW p \in net, RxOack(p) PROVE TInv'
  <1>1. Active /\ Active' /\ UNCHANGED <<setup, TftpOurPort, TftpBlock, ram, loop, session>>
    BY DEF RxOack, ForTftp, Active, loop
  <1>2. setup.options /\ SessionBlkSize = TftpBlkSizeOption /\ BlkKnown'
    <2>1. setup.options
      BY DEF RxOack, TInv, Options
    <2>2. SessionBlkSize = TftpBlkSizeOption /\ SessionBlkSize' = SessionBlkSize
      BY <1>1, <2>1 DEF SessionBlkSize
    <2> QED
      BY <2>1, <2>2 DEF RxOack, BlkKnown
  <1>3. Whole'
    BY <1>1, WholeKept DEF TInv, loop
  <1>4. /\ TftpBlock \in Nat /\ NetBootFileXferSize \in Nat /\ SessionBlkSize \in Nat
        /\ UNCHANGED NetBootFileXferSize
    BY <1>1, Sizes, TftpAssumption DEF TInv, TypeOK, ram
  <1>5. Reached(TftpBlock)'
    <2>1. CASE TftpState = "RRQ"
      <3>1. TftpBlock' = 0
        BY <1>1, <2>1 DEF TInv, Talking
      <3>2. SessionBlkSize' = SessionBlkSize
        BY <1>1 DEF SessionBlkSize
      <3> QED
        BY <1>2, <1>4, <3>1, <3>2 DEF Reached
    <2>2. CASE TftpState # "RRQ"
      <3>1. Reached(TftpBlock)
        BY <1>1, <2>2 DEF TInv, Had
      <3>2. \A n \in Nat : n = TftpBlock => Reached(n)'
        BY <1>1, <1>2, <1>3, <1>4, <3>1, Grows DEF TInv
      <3> QED
        BY <1>1, <1>4, <3>2 DEF Reached
    <2> QED
      BY <2>1, <2>2
  <1>6. Talking' /\ Had'
    <2>1. TftpState' = "OACK" /\ setup'.options
      BY <1>1, <1>2 DEF RxOack
    <2> QED
      BY <1>5, <2>1 DEF Talking, Had
  <1>7. PICK q : /\ q = TftpSend("OACK", p.tid, TftpBlock)
                 /\ NetSendUDPPacket(q) /\ Deliver(p, Sent(q))
    BY DEF RxOack
  <1>8. q \in ClientPacket
    <2>1. p.tid \in Tids
      BY FromServer DEF RxOack, TInv
    <2> QED
      BY <1>7, <2>1, AckTyped DEF TInv, TypeOK
  <1>9. q.block = TftpBlock /\ Says(q)'
    <2>1. q.block = TftpBlock
      BY <1>7 DEF TftpSend, Packet
    <2> QED
      BY <1>1, <1>5, <2>1 DEF Says, Reached
  <1>10. PICK S \in SUBSET ClientPacket :
           /\ NetArpWaitTxPacket' \in {NetArpWaitTxPacket, NONE} \cup S
           /\ net' \subseteq net \cup S
           /\ S = {q, ArpRequest}
    BY <1>7, <1>8, SendKeeps, Delivered DEF TInv
  <1>11. \A x \in S : Says(x)'
    BY <1>9, <1>10 DEF Says, ArpRequest, Packet
  <1>12. Options' /\ Acked' /\ Ahead'
    <2>1. NetBootFileXferSize <= NetBootFileXferSize'
      BY <1>4
    <2>2. UNCHANGED <<setup, TftpOurPort, session>>
      BY <1>1
    <2> HIDE DEF Says, Acked, Ahead, Options, Active
    <2> QED
      BY <1>1, <1>2, <1>3, <1>10, <1>11, <2>1, <2>2, ClientFrame
  <1> QED
    BY <1>3, <1>6, <1>12 DEF TInv

\* A block that is stored behind, or over, what is there already.
LEMMA Stored ==
  ASSUME TypeOK, Whole, NEW p, p.block \in 1 .. MaxBlock, Expects(p.block),
         StoreBlock(p, (p.block - 1) * SessionBlkSize)
  PROVE  /\ NetBootFileXferSize' \in Nat /\ NetBootFileXferSize <= NetBootFileXferSize'
         /\ NetBootFileXferSize' <= FileSize
         /\ \A i \in 0 .. NetBootFileXferSize' - 1 : memory'[i] = i
         /\ \/ NetBootFileXferSize' = FileSize
            \/ DataLen(p) = SessionBlkSize /\ p.block * SessionBlkSize <= NetBootFileXferSize'
  <1> DEFINE b == SessionBlkSize
             at == (p.block - 1) * b
  <1>1. b \in Nat \ {0} /\ FileSize \in Nat /\ NetBootFileXferSize \in 0 .. FileSize
    BY Sizes, TftpAssumption DEF TypeOK, Whole
  <1>2. at \in Nat /\ p.block * b = at + b
    <2>1. p.block - 1 \in Nat /\ b \in Nat /\ p.block \in Nat
      BY <1>1, TftpAssumption DEF MaxBlock
    <2>2. \A x \in Nat, y \in Nat : x * y \in Nat
      OBVIOUS
    <2>3. \A x \in Nat, y \in Nat : x * y = (x - 1) * y + y
      OBVIOUS
    <2> QED
      BY <2>1, <2>2, <2>3
  <1>3. at <= NetBootFileXferSize
    BY DEF Expects
  <1>4. DataLen(p) = Smaller(b, FileSize - at) /\ \A i : DataAt(p, i) = at + i
    BY DEF DataLen, DataAt
  <1>5. /\ memory' = [i \in Offsets |-> IF i - at \in 0 .. DataLen(p) - 1
                                        THEN DataAt(p, i - at) ELSE memory[i]]
        /\ NetBootFileXferSize' = IF NetBootFileXferSize < at + DataLen(p) THEN at + DataLen(p)
                                  ELSE NetBootFileXferSize
    BY DEF StoreBlock, Copy
  <1>6. \A i \in 0 .. NetBootFileXferSize - 1 : memory[i] = i
    BY DEF Whole, Received
  <1>7. \A i \in 0 .. FileSize - 1 : i \in Offsets
    <2>1. TFTP_SEQUENCE_SIZE * TftpBlkSizeOption \in Nat
      <3>1. \A x \in Nat, y \in Nat : x * y \in Nat
        OBVIOUS
      <3> QED
        BY <3>1, TftpAssumption
    <2> QED
      BY <1>1, <2>1 DEF Offsets
  <1>8. p.block * SessionBlkSize = at + b
    BY <1>2
  <1> HIDE DEF b, at
  <1>9. DataLen(p) \in 0 .. b /\ at + DataLen(p) <= FileSize
        /\ (DataLen(p) = b \/ at + DataLen(p) = FileSize)
    BY <1>1, <1>2, <1>3, <1>4 DEF Smaller
  <1>10. NetBootFileXferSize' \in Nat /\ NetBootFileXferSize <= NetBootFileXferSize'
         /\ NetBootFileXferSize' <= FileSize
    BY <1>1, <1>2, <1>5, <1>9
  <1>11. ASSUME NEW i \in 0 .. NetBootFileXferSize' - 1 PROVE memory'[i] = i
    <2>1. i \in Offsets
      <3>1. i \in 0 .. FileSize - 1
        <4>1. \A f \in Nat, x \in Nat : x <= f => 0 .. x - 1 \subseteq 0 .. f - 1
          OBVIOUS
        <4> QED
          BY <1>1, <1>10, <4>1
      <3> QED
        BY <1>7, <3>1
    <2>2. CASE i - at \in 0 .. DataLen(p) - 1
      BY <1>2, <1>4, <1>5, <2>1, <2>2
    <2>3. CASE i - at \notin 0 .. DataLen(p) - 1
      <3>1. i \in 0 .. NetBootFileXferSize - 1
        BY <1>1, <1>2, <1>3, <1>5, <1>9, <2>3
      <3> QED
        BY <1>5, <1>6, <2>1, <2>3, <3>1
    <2> QED
      BY <2>2, <2>3
  <1>12. \/ NetBootFileXferSize' = FileSize
         \/ DataLen(p) = b /\ p.block * SessionBlkSize <= NetBootFileXferSize'
    BY <1>1, <1>2, <1>5, <1>8, <1>9
  <1> QED
    BY <1>10, <1>11, <1>12 DEF b

\* What is known of a block that comes for this transfer.
LEMMA BlockKnown ==
  ASSUME ShortFile, TInv, NetState = "CONTINUE", NEW p \in net, RxDataHead(p)
  PROVE  /\ Active /\ p.block \in 1 .. MaxBlock /\ Wire(p.block) = p.block
         /\ Expects(p.block) /\ WrapOffset(p) = 0 /\ TftpBlockWrapOffset' = 0
  <1>1. Active /\ p.kind = "DATA"
    BY DEF RxDataHead, ForTftp, Active
  <1>2. p.block \in 1 .. MaxBlock /\ p.port = TftpOurPort
    BY HeadTyped DEF TInv
  <1>3. Wire(p.block) = p.block
    BY <1>2, WireShort, TftpAssumption DEF MaxBlock
  <1>4. Expects(p.block)
    BY <1>1, <1>2 DEF TInv, Ahead, Brings
  <1>5. WrapOffset(p) = 0
    <2>1. CASE First
      BY <2>1 DEF WrapOffset
    <2>2. CASE ~First
      <3>1. TftpState = "DATA"
        BY <2>2 DEF First, TInv, TypeOK
      <3>2. TftpBlockWrapOffset = 0
        BY <1>1, <3>1 DEF TInv, Had
      <3> QED
        BY <1>2, <1>3, <2>2, <3>2 DEF WrapOffset
    <2> QED
      BY <2>1, <2>2
  <1> QED
    BY <1>1, <1>2, <1>3, <1>4, <1>5 DEF RxDataHead

\* The first block is not 1: the transfer is left.
LEMMA FirstIsNotOneOK ==
  ASSUME TInv, TypeOK', Talks', NetState = "CONTINUE", NEW p \in net,
         RxFirstIsNotOne(p) \/ RxError(p)
  PROVE  TInv'
  <1>1. /\ NetStartAgain /\ Deliver(p, {}) /\ UNCHANGED <<setup, TftpBlkSize, ram, session>>
    BY DEF RxFirstIsNotOne, RxError, RxDataHead, tftp
  <1>2. ~Active' /\ Whole'
    BY <1>1, AgainLeaves, WholeKept DEF TInv
  <1>3. Talking'
    BY <1>1, <1>2 DEF TInv, Talking
  <1>4. Options'
    <2>1. net' \subseteq net
      BY <1>1, Delivered DEF TInv
    <2> QED
      BY <1>1, <2>1 DEF TInv, Options
  <1> QED
    BY <1>2, <1>3, <1>4, Left DEF TInv

\* A block that is there already changes nothing but what was received last.
LEMMA SameBlockOK ==
  ASSUME ShortFile, TInv, TypeOK', Talks', NetState = "CONTINUE", NEW p \in net, RxSameBlock(p)
  PROVE  TInv'
  <1>1. /\ RxDataHead(p) /\ ~First /\ Wire(p.block) = Last /\ Deliver(p, {})
        /\ UNCHANGED <<setup, TftpOurPort, TftpLastBlock, TftpBlkSize, ram, loop, arp, session>>
    BY DEF RxSameBlock, RxDataHead
  <1>2. Active /\ Active' /\ BlkKnown' = BlkKnown
    BY <1>1, BlockKnown DEF Active, loop, BlkKnown, SessionBlkSize
  <1>3. TftpState = "DATA" /\ TftpState' = "DATA" /\ TftpBlock' = TftpLastBlock /\ TftpBlockWrapOffset' = 0
    BY <1>1, BlockKnown DEF First, Last, RxDataHead, TInv, TypeOK
  <1>4. Whole'
    BY <1>1, WholeKept DEF TInv, loop
  <1>5. Talking' /\ Had'
    <2>1. Reached(TftpLastBlock)
      BY <1>2, <1>3 DEF TInv, Had
    <2> QED
      BY <1>1, <1>3, <2>1 DEF TInv, Talking, Had, Reached, BlkKnown, SessionBlkSize, ram
  <1>6. Options' /\ Acked' /\ Ahead'
    <2>1. net' \subseteq net \cup {} /\ {} \in SUBSET ClientPacket
      BY <1>1, Delivered DEF TInv
    <2>2. NetBootFileXferSize <= NetBootFileXferSize'
      BY <1>1 DEF ram, TInv, TypeOK
    <2>3. NetArpWaitTxPacket' = NetArpWaitTxPacket /\ UNCHANGED <<setup, TftpOurPort, session>>
      BY <1>1 DEF arp
    <2> QED
      BY <1>2, <1>4, <2>1, <2>2, <2>3, ClientFrame
  <1> QED
    BY <1>4, <1>5, <1>6 DEF TInv

\* A new block is stored in its place, and acknowledged.
LEMMA NewBlockOK ==
  ASSUME ShortFile, TInv, TypeOK', Talks', NetState = "CONTINUE", NEW p \in net, RxNewBlock(p)
  PROVE  TInv'
  <1> DEFINE n == p.block
  <1>1. /\ RxDataHead(p) /\ TftpLastBlock' = Wire(n)
        /\ StoreBlock(p, (Wire(n) - 1) * TftpBlkSize + WrapOffset(p))
        /\ NetState' = IF DataLen(p) < TftpBlkSize THEN "SUCCESS" ELSE NetState
        /\ UNCHANGED <<setup, TftpOurPort, TftpBlkSize, packetHandler, session>>
    BY DEF RxNewBlock, RxDataHead
  <1>2. /\ Active /\ n \in 1 .. MaxBlock /\ n \in Nat /\ Wire(n) = n /\ Expects(n)
        /\ WrapOffset(p) = 0 /\ TftpBlockWrapOffset' = 0
    BY <1>1, BlockKnown, TftpAssumption DEF MaxBlock
  <1>3. /\ TftpBlkSize = SessionBlkSize /\ SessionBlkSize' = SessionBlkSize
        /\ BlkKnown' /\ SessionBlkSize \in Nat \ {0}
    BY <1>1, <1>2, Sizes DEF Expects, BlkKnown, SessionBlkSize, TInv, TypeOK
  <1>4. StoreBlock(p, (n - 1) * SessionBlkSize)
    <2>1. (Wire(n) - 1) * TftpBlkSize + WrapOffset(p) = (n - 1) * SessionBlkSize
      <3>1. \A x \in Nat, y \in Nat : (x - 1) * y + 0 = (x - 1) * y
        OBVIOUS
      <3> QED
        BY <1>2, <1>3, <3>1
    <2> QED
      BY <1>1, <2>1
  <1>5. /\ NetBootFileXferSize' \in Nat /\ NetBootFileXferSize <= NetBootFileXferSize'
        /\ NetBootFileXferSize' <= FileSize
        /\ \A i \in 0 .. NetBootFileXferSize' - 1 : memory'[i] = i
        /\ \/ NetBootFileXferSize' = FileSize
           \/ DataLen(p) = SessionBlkSize /\ n * SessionBlkSize <= NetBootFileXferSize'
    BY <1>2, <1>4, Stored DEF TInv
  <1>6. NetState' = "SUCCESS" => NetBootFileXferSize' = FileSize
    BY <1>1, <1>3, <1>5
  <1>7. Whole'
    BY <1>5, <1>6 DEF Whole, Received
  <1>8. Reached(n)'
    BY <1>3, <1>5 DEF Reached
  <1>9. Talking' /\ Had'
    <2>1. TftpState' = "DATA" /\ TftpBlock' = n /\ TftpLastBlock' = n
      BY <1>1, <1>2 DEF RxDataHead
    <2> QED
      BY <1>1, <1>2, <1>8, <2>1 DEF TInv, Talking, Had, Reached
  <1>10. PICK q \in ClientPacket : /\ q = TftpSend("DATA", p.tid, Wire(n))
                                   /\ NetSendUDPPacket(q) /\ Deliver(p, Sent(q))
    <2>1. TftpSend("DATA", p.tid, Wire(n)) \in ClientPacket
      BY <1>1, HeadTyped, AckTyped DEF TInv
    <2> QED
      BY <2>1 DEF RxNewBlock
  <1>11. q.block = n
    BY <1>2, <1>10 DEF TftpSend, Packet
  <1>12. PICK S \in SUBSET ClientPacket :
           /\ NetArpWaitTxPacket' \in {NetArpWaitTxPacket, NONE} \cup S
           /\ net' \subseteq net \cup S
           /\ S = {q, ArpRequest}
    BY <1>10, SendKeeps, Delivered DEF TInv
  <1>13. \A x \in S : Says(x)'
    BY <1>8, <1>11, <1>12 DEF Says, ArpRequest, Packet, Reached
  <1>14. Options' /\ Acked' /\ Ahead'
    <2>1. UNCHANGED <<setup, TftpOurPort, session>>
      BY <1>1
    <2> HIDE DEF n
    <2> QED
      BY <1>2, <1>3, <1>5, <1>7, <1>12, <1>13, <2>1, ClientFrame
  <1> QED
    BY <1>7, <1>9, <1>14 DEF TInv

\* A time-out says again what has been said.
LEMMA TimeoutOK ==
  ASSUME TInv, TypeOK', Talks', NetState = "CONTINUE", TftpTimeout PROVE TInv'
  <1>1. /\ Active /\ UNCHANGED <<setup, TftpState, TftpOurPort, TftpBlock, TftpLastBlock,
                                 TftpBlockWrapOffset, TftpBlkSize, ram>>
        /\ session' = [t \in Tids |-> IF Serving(t) THEN [session[t] EXCEPT !.repeated = FALSE]
                                      ELSE session[t]]
    BY DEF TftpTimeout, Active
  <1>2. \A t \in Tids : session'[t] # NONE =>
          session[t] # NONE /\ session'[t].port = session[t].port /\ session'[t].block = session[t].block
    <2>1. \A t \in Tids : session[t] # NONE => session[t] \in Session
      BY DEF TInv, TypeOK, Session
    <2>2. \A u \in Session : LET v == [u EXCEPT !.repeated = FALSE]
                             IN  v.port = u.port /\ v.block = u.block
      BY DEF Session
    <2> QED
      BY <1>1, <2>1, <2>2 DEF Serving
  <1>3. BlkKnown' = BlkKnown /\ UNCHANGED NetBootFileXferSize /\ NetBootFileXferSize \in Nat
    BY <1>1 DEF BlkKnown, SessionBlkSize, ram, TInv, TypeOK
  <1>4. CASE RetriesUsed
    <2>1. NetStartAgain /\ UNCHANGED net
      BY <1>4 DEF TftpTimeout
    <2>2. ~Active' /\ Whole'
      BY <1>1, <2>1, AgainLeaves, WholeKept DEF TInv
    <2>3. Talking' /\ Options'
      BY <1>1, <1>2, <2>1, <2>2 DEF TInv, Talking, Options
    <2> QED
      BY <2>2, <2>3, Left DEF TInv
  <1>5. CASE ~RetriesUsed
    <2>1. PICK q : /\ q = TftpSend(TftpState, TftpServerPort, TftpBlock)
                   /\ NetSendUDPPacket(q) /\ net' = net \cup Sent(q) /\ UNCHANGED loop
      BY <1>5 DEF TftpTimeout
    <2>2. q \in ClientPacket
      <3>1. CASE TftpState = "RRQ"
        BY <2>1, <3>1 DEF TInv, TypeOK, Talks, TftpSend, Packet, ClientPacket
      <3>2. CASE TftpState # "RRQ"
        BY <2>1, <3>2, AckTyped DEF TInv, TypeOK, Talks
      <3> QED
        BY <3>1, <3>2
    <2>3. Active' /\ Whole'
      BY <1>1, <2>1, WholeKept DEF TInv, Active, loop
    <2>4. Talking' /\ Had'
      BY <1>1, <1>3, <2>1 DEF TInv, Talking, Had, Active, loop, Reached, SessionBlkSize
    <2>5. Says(q)'
      <3>1. TftpState = "RRQ" => q.kind = "RRQ"
        BY <2>1 DEF TftpSend, Packet
      <3>2. TftpState # "RRQ" => q.block = TftpBlock /\ Reached(TftpBlock)'
        BY <1>1, <2>1, <2>3, <2>4 DEF TftpSend, Packet, Had
      <3> QED
        BY <1>1, <3>1, <3>2 DEF Says, Reached
    <2>6. PICK S \in SUBSET ClientPacket :
            /\ NetArpWaitTxPacket' \in {NetArpWaitTxPacket, NONE} \cup S
            /\ net' \subseteq net \cup S
            /\ S = {q, ArpRequest}
      BY <2>1, <2>2, SendKeeps
    <2>7. \A x \in S : Says(x)'
      BY <2>5, <2>6 DEF Says, ArpRequest, Packet
    <2>8. Options' /\ Acked' /\ Ahead'
      BY <1>1, <1>2, <1>3, <2>3, <2>6, <2>7, ClientFrame
    <2> QED
      BY <2>3, <2>4, <2>8 DEF TInv
  <1> QED
    BY <1>4, <1>5

\* A new attempt has a port that nothing under way has.
LEMMA StartAgainOK ==
  ASSUME TInv, TypeOK', Talks', NetState = "CONTINUE", StartAgainTimeout PROVE TInv'
  <1>1. PICK port \in Ports : ~InUse(port) /\ TftpStart(port)
    BY DEF StartAgainTimeout
  <1>2. /\ TftpState' = "RRQ" /\ TftpBlock' = 0 /\ TftpBlkSize' = TFTP_BLOCK_SIZE
        /\ NetBootFileXferSize' = 0 /\ TftpOurPort' = port
        /\ net' = net \cup {ArpRequest} /\ NetState' = NetState
        /\ UNCHANGED <<setup, session>>
        /\ NetArpWaitTxPacket' = Packet("RRQ", port, WELL_KNOWN_PORT, 0)
    BY <1>1 DEF StartAgainTimeout, TftpStart
  <1>3. /\ \A q \in net : q.port # port
        /\ \A t \in Tids : session[t] # NONE => session[t].port # port
    BY <1>1 DEF InUse
  <1>4. ArpRequest.kind = "ARP_REQUEST" /\ Packet("RRQ", port, WELL_KNOWN_PORT, 0).kind = "RRQ"
    BY DEF ArpRequest, Packet
  <1>5. Whole' /\ Talking' /\ Had'
    <2>1. Whole'
      BY <1>2, TftpAssumption DEF Whole, Received
    <2> QED
      BY <1>2, <2>1 DEF Talking, Had
  <1>6. Options'
    BY <1>2, <1>4 DEF TInv, Options
  <1>7. Acked'
    <2>1. \A q \in net' : Says(q)'
      BY <1>2, <1>3, <1>4 DEF Says
    <2>2. Says(NetArpWaitTxPacket)'
      BY <1>2, <1>4 DEF Says
    <2> QED
      BY <2>1, <2>2 DEF Acked
  <1>8. Ahead'
    <2>1. \A q \in net' : Brings(q)'
      BY <1>2, <1>3, <1>4 DEF Brings
    <2>2. \A t \in Tids : ~Serving(t)'
      BY <1>2, <1>3 DEF Serving
    <2> QED
      BY <2>1, <2>2 DEF Ahead
  <1> QED
    BY <1>5, <1>6, <1>7, <1>8 DEF TInv

\* The client waits to start again, or is told to stop.
LEMMA PausedOK ==
  ASSUME TInv, TypeOK', Talks', NetState = "CONTINUE", ArpTimeoutCheck \/ CtrlC PROVE TInv'
  <1>1. ~Active' /\ UNCHANGED <<setup, TftpBlkSize, ram, session>> /\ NetState' \in {NetState, "FAIL"}
    BY DEF ArpTimeoutCheck, CtrlC, Active, tftp, loop
  <1>2. net' \subseteq net \cup {ArpRequest} /\ ArpRequest.kind # "OACK"
    BY DEF ArpTimeoutCheck, CtrlC, ArpRequest, Packet
  <1>3. Whole'
    BY <1>1, WholeKept DEF TInv
  <1>4. Talking' /\ Options'
    BY <1>1, <1>2 DEF TInv, Talking, Options
  <1> QED
    BY <1>1, <1>3, <1>4, Left DEF TInv

-----------------------------------------------------------------------------
(* The server and the network.                                             *)

\* A session may be at block u.block.
Fit(u) == /\ u.block = 0 => setup.options
          /\ Active /\ u.port = TftpOurPort /\ u.block > 0 => Expects(u.block)

LEMMA SessionsFit == TInv => \A t \in Tids : session[t] # NONE => session[t] \in Session /\ Fit(session[t])
  BY DEF TInv, TypeOK, Options, Ahead, Serving, Session, Fit

\* Nobody but the client makes acknowledgements, and a session answers with the
\* block it has come to.
LEMMA ElsewhereFrame ==
  ASSUME TInv, TypeOK', Talks', UNCHANGED <<setup, client>>,
         \A q \in net' : \/ q \in net \/ q.kind \in {"ARP_REPLY", "ERROR"}
                         \/ \E t \in Tids, u \in Session : q = Answer(t, u) /\ Fit(u),
         \A t \in Tids : session'[t] # NONE => session'[t] \in Session /\ Fit(session'[t])
  PROVE  TInv'
  <1>1. /\ Active' = Active /\ \A n : Reached(n)' = Reached(n) /\ Expects(n)' = Expects(n)
    BY DEF Active, Reached, Expects, BlkKnown, SessionBlkSize, client, tftp, ram, loop
  <1>2. Whole' /\ Talking' /\ Had'
    <2>1. Whole' /\ Talking'
      BY DEF TInv, Whole, Received, Talking, Active, client, tftp, ram, loop
    <2>2. Had'
      BY DEF TInv, Had, Active, Reached, BlkKnown, SessionBlkSize, client, tftp, ram, loop
    <2> QED
      BY <2>1, <2>2
  <1>3. \A t \in Tids, u \in Session : Fit(u) =>
          LET q == Answer(t, u) IN
            /\ q.kind # "ACK" /\ (q.kind = "OACK" => setup.options)
            /\ Active /\ q.kind = "DATA" /\ q.port = TftpOurPort => Expects(q.block)
    <2> SUFFICES ASSUME NEW t \in Tids, NEW u \in Session, Fit(u)
                 PROVE LET q == Answer(t, u) IN
                         /\ q.kind # "ACK" /\ (q.kind = "OACK" => setup.options)
                         /\ Active /\ q.kind = "DATA" /\ q.port = TftpOurPort => Expects(q.block)
      OBVIOUS
    <2>1. CASE u.block = 0
      BY <2>1 DEF Answer, Packet, Fit
    <2>2. CASE u.block # 0
      <3>1. u.block > 0
        BY <2>2, TftpAssumption DEF MaxBlock, Session
      <3>2. Active /\ u.port = TftpOurPort => Expects(u.block)
        BY <3>1 DEF Fit
      <3> QED
        BY <2>2, <3>2 DEF Answer, Packet
    <2> QED
      BY <2>1, <2>2
  <1>4. UNCHANGED <<setup, TftpOurPort, NetArpWaitTxPacket>>
    BY DEF client, tftp, arp
  <1>5. Options'
    BY <1>3, <1>4 DEF TInv, Options, Fit
  <1>6. ASSUME Active PROVE \A q \in net' : Says(q)' /\ Brings(q)'
    <2>1. \A q \in net' : q.kind = "ACK" /\ q.port = TftpOurPort => Reached(q.block)
      BY <1>3, <1>6 DEF TInv, Acked, Says
    <2>2. \A q \in net' : q.kind = "DATA" /\ q.port = TftpOurPort => Expects(q.block)
      BY <1>3, <1>6 DEF TInv, Ahead, Brings
    <2> QED
      BY <1>1, <1>4, <2>1, <2>2 DEF Says, Brings, Reached, Expects
  <1>7. Acked'
    BY <1>1, <1>4, <1>6 DEF TInv, Acked, Says, Reached
  <1>8. Ahead'
    BY <1>1, <1>4, <1>6 DEF Ahead, Serving, Expects, Fit
  <1> QED
    BY <1>2, <1>5, <1>7, <1>8 DEF TInv

\* A session that begins, or goes on with the next block.
LEMMA SessionStep ==
  ASSUME TInv, TypeOK', Talks', UNCHANGED <<setup, client>>, NEW t \in Tids, NEW u \in Session, Fit(u),
         session' = [session EXCEPT ![t] = u], net' \subseteq net \cup {Answer(t, u)}
  PROVE  TInv'
  <1>1. \A q \in net' : \/ q \in net
                        \/ \E x \in Tids, v \in Session : q = Answer(x, v) /\ Fit(v)
    OBVIOUS
  <1>2. \A x \in Tids : session'[x] = u \/ session'[x] = session[x]
    BY DEF TInv, TypeOK
  <1>3. \A x \in Tids : session'[x] # NONE => session'[x] \in Session /\ Fit(session'[x])
    BY <1>2, SessionsFit
  <1> QED
    BY <1>1, <1>3, ElsewhereFrame

\* A session that ends, and what ends with it.
LEMMA SessionEnd ==
  ASSUME TInv, TypeOK', Talks', UNCHANGED <<setup, client>>,
         \A t \in Tids : session'[t] \in {session[t], NONE},
         \A q \in net' : q \in net \/ q.kind \in {"ARP_REPLY", "ERROR"}
  PROVE  TInv'
  <1>1. \A x \in Tids : session'[x] # NONE => session'[x] \in Session /\ Fit(session'[x])
    BY SessionsFit
  <1> QED
    BY <1>1, ElsewhereFrame

\* A request opens a session: with the options, or with block 1 if there are none.
LEMMA RequestOK ==
  ASSUME TInv, TypeOK', Talks', NEW p \in net, ServeRequest(p) PROVE TInv'
  <1>1. UNCHANGED <<setup, client>> /\ setup.options \in BOOLEAN
    BY Sizes DEF ServeRequest, TInv, TypeOK
  <1>2. CASE Deliver(p, {}) /\ UNCHANGED session
    <2>1. net' \subseteq net
      BY <1>2, Delivered DEF TInv
    <2> QED
      BY <1>1, <1>2, <2>1, SessionEnd
  <1>3. ASSUME NEW t \in Tids, NEW u, u = [port |-> p.port, repeated |-> FALSE,
                                          block |-> IF setup.options THEN 0 ELSE 1],
               session' = [session EXCEPT ![t] = u], Deliver(p, {Answer(t, u)})
        PROVE  TInv'
    <2>1. u \in Session
      <3>1. p.port \in Ports
        BY DEF ServeRequest, TInv, TypeOK, ClientPacket, ServerPacket
      <3>2. (IF setup.options THEN 0 ELSE 1) \in 0 .. MaxBlock
        BY TftpAssumption DEF MaxBlock
      <3> QED
        BY <1>3, <3>1, <3>2 DEF Session
    <2>2. Fit(u)
      <3>1. ~setup.options => BlkKnown
        BY <1>1, Sizes DEF TInv, TypeOK, Talking, BlkKnown
      <3>2. (1 - 1) * SessionBlkSize = 0 /\ NetBootFileXferSize \in Nat
        BY Sizes DEF TInv, TypeOK
      <3>3. ~setup.options => Expects(1)
        BY <3>1, <3>2 DEF Expects
      <3>4. /\ u.block = 0 => setup.options
            /\ u.block > 0 => u.block = 1 /\ ~setup.options
        BY <1>1, <1>3
      <3> QED
        BY <3>3, <3>4 DEF Fit
    <2>3. net' \subseteq net \cup {Answer(t, u)}
      BY <1>3, Delivered DEF TInv
    <2> QED
      BY <1>1, <1>3, <2>1, <2>2, <2>3, SessionStep
  <1> QED
    BY <1>2, <1>3 DEF ServeRequest

\* An acknowledgement of the block of its session brings the next one, if the
\* file has one.
LEMMA AckOK ==
  ASSUME ShortFile, TInv, TypeOK', Talks', NEW p \in net, ServeAck(p) PROVE TInv'
  <1>1. UNCHANGED <<setup, client>> /\ p.kind = "ACK" /\ p.tid \in Tids
    BY DEF ServeAck, TInv, TypeOK, ClientPacket, ServerPacket
  <1>2. CASE Acknowledges(p) /\ session[p.tid].block < LastBlock
    <2> DEFINE n == session[p.tid].block
    <2>1. PICK u : /\ u = [session[p.tid] EXCEPT !.block = @ + 1, !.repeated = FALSE]
                   /\ session' = [session EXCEPT ![p.tid] = u]
                   /\ Deliver(p, {Answer(p.tid, u)})
      BY <1>2 DEF ServeAck
    <2>2. session[p.tid] \in Session /\ session[p.tid].port = p.port /\ p.block = Wire(n)
      BY <1>1, <1>2, SessionsFit DEF Acknowledges
    <2>3. n \in 0 .. MaxBlock /\ n \in Nat /\ n + 1 \in 1 .. MaxBlock /\ n * SessionBlkSize <= FileSize
      <3>1. n \in 0 .. MaxBlock /\ n \in Nat
        BY <2>2, TftpAssumption DEF Session, MaxBlock
      <3>2. LastBlock \in 1 .. MaxBlock /\ n * SessionBlkSize <= FileSize
        BY <1>2, <3>1, Blocks DEF TInv, TypeOK
      <3> QED
        BY <1>2, <3>1, <3>2, TftpAssumption DEF MaxBlock
    <2>4. u \in Session /\ u.block = n + 1 /\ u.port = p.port
      <3>1. \A v \in Session : v.block + 1 \in 0 .. MaxBlock =>
              LET w == [v EXCEPT !.block = @ + 1, !.repeated = FALSE]
              IN  w \in Session /\ w.block = v.block + 1 /\ w.port = v.port
        BY DEF Session
      <3>2. n + 1 \in 0 .. MaxBlock
        BY <2>3, TftpAssumption DEF MaxBlock
      <3> QED
        BY <2>1, <2>2, <3>1, <3>2
    <2>5. p.block = n
      BY <2>2, <2>3, WireShort
    <2>6. Fit(u)
      <3>1. u.block # 0
        BY <2>3, <2>4
      <3>2. ASSUME Active, u.port = TftpOurPort PROVE Expects(u.block)
        <4>1. Reached(n)
          BY <1>1, <2>4, <2>5, <3>2 DEF TInv, Acked, Says
        <4>2. (u.block - 1) * SessionBlkSize = n * SessionBlkSize
          <5>1. u.block - 1 = n
            BY <2>3, <2>4
          <5> QED
            BY <5>1
        <4> QED
          BY <2>3, <4>1, <4>2 DEF Reached, Expects
      <3> QED
        BY <3>1, <3>2 DEF Fit
    <2>7. net' \subseteq net \cup {Answer(p.tid, u)}
      BY <2>1, Delivered DEF TInv
    <2> QED
      BY <1>1, <2>1, <2>4, <2>6, <2>7, SessionStep
  <1>3. CASE ~(Acknowledges(p) /\ session[p.tid].block < LastBlock)
    <2>1. session' = [session EXCEPT ![p.tid] = IF Acknowledges(p) THEN NONE ELSE @] /\ Deliver(p, {})
      BY <1>3 DEF ServeAck
    <2>2. \A t \in Tids : session'[t] \in {session[t], NONE}
      BY <2>1 DEF TInv, TypeOK
    <2>3. net' \subseteq net
      BY <2>1, Delivered DEF TInv
    <2> QED
      BY <1>1, <2>2, <2>3, SessionEnd
  <1> QED
    BY <1>2, <1>3

\* Repetitions, errors, losses, and what has nothing to do with the transfer.
LEMMA NetworkOK ==
  ASSUME TInv, TypeOK', Talks',
         \/ \E p \in net : ServeArp(p) \/ Nobody(p) \/ RxIgnored(p)
         \/ \E t \in Tids : Repeat(t) \/ Refuse(t) \/ GiveUp(t)
         \/ Lose
  PROVE  TInv'
  <1>1. UNCHANGED <<setup, client>>
    BY DEF ServeArp, Nobody, RxIgnored, Repeat, Refuse, GiveUp, Lose
  <1>2. ASSUME NEW p \in net, ServeArp(p) \/ Nobody(p) \/ RxIgnored(p) PROVE TInv'
    <2>1. net' \subseteq net \cup {ArpReply} /\ UNCHANGED session
      BY <1>2, Delivered DEF TInv, ServeArp, Nobody, RxIgnored
    <2>2. ArpReply.kind = "ARP_REPLY"
      BY DEF ArpReply, Packet
    <2> QED
      BY <1>1, <2>1, <2>2, SessionEnd
  <1>3. ASSUME NEW t \in Tids, Repeat(t) PROVE TInv'
    <2>1. session[t] \in Session /\ Fit(session[t])
      BY <1>3, SessionsFit DEF Repeat
    <2>2. PICK u \in Session : u = [session[t] EXCEPT !.repeated = TRUE]
      BY <2>1 DEF Session
    <2>3. Fit(u) /\ Answer(t, u) = Answer(t, session[t])
      BY <2>1, <2>2 DEF Fit, Session, Answer
    <2>4. session' = [session EXCEPT ![t] = u] /\ net' \subseteq net \cup {Answer(t, u)}
      BY <1>3, <2>2, <2>3 DEF Repeat, TInv, TypeOK
    <2> QED
      BY <1>1, <2>3, <2>4, SessionStep
  <1>4. ASSUME NEW t \in Tids, Refuse(t) \/ GiveUp(t) PROVE TInv'
    <2>1. session' = [session EXCEPT ![t] = NONE]
      BY <1>4 DEF Refuse, GiveUp
    <2>2. \A x \in Tids : session'[x] \in {session[x], NONE}
      BY <2>1 DEF TInv, TypeOK
    <2>3. \A q \in net' : q \in net \/ q.kind \in {"ARP_REPLY", "ERROR"}
      BY <1>4 DEF Refuse, GiveUp, Packet
    <2> QED
      BY <1>1, <2>2, <2>3, SessionEnd
  <1>5. CASE Lose
    BY <1>1, <1>5, SessionEnd DEF Lose
  <1> QED
    BY <1>2, <1>3, <1>4, <1>5

-----------------------------------------------------------------------------
(* The invariant, and what it says.                                        *)

LEMMA InitOK == Init => TInv
  <1> SUFFICES ASSUME Init PROVE TInv
    OBVIOUS
  <1>1. TypeOK /\ Talks
    BY InitTyped
  <1>2. Whole /\ Talking /\ Had /\ Options
    BY TftpAssumption DEF Init, Whole, Received, Talking, Had, Options, ArpRequest, Packet
  <1>3. Acked /\ Ahead
    BY DEF Init, Acked, Ahead, Says, Brings, Serving, ArpRequest, Packet
  <1> QED
    BY <1>1, <1>2, <1>3 DEF TInv

LEMMA NextOK == ASSUME ShortFile PROVE TInv /\ [Next]_vars => TInv'
  <1> SUFFICES ASSUME TInv, [Next]_vars PROVE TInv'
    OBVIOUS
  <1>1. TypeOK' /\ Talks'
    BY NextTyped DEF TInv
  <1>2. CASE UNCHANGED vars
    <2>1. /\ UNCHANGED <<setup, client, session, net>>
          /\ \A t \in Tids : session'[t] \in {session[t], NONE}
      BY <1>2 DEF vars
    <2> QED
      BY <1>1, <2>1, SessionEnd
  <1>3. CASE Next
    <2>1. NetState = "CONTINUE"
      BY <1>3 DEF Next, Running
    <2>2. \/ \E p \in net : \/ RxArpReply(p) \/ RxIgnored(p) \/ RxOack(p) \/ RxError(p)
                            \/ RxFirstIsNotOne(p) \/ RxSameBlock(p) \/ RxNewBlock(p)
          \/ TftpTimeout \/ ArpTimeoutCheck \/ StartAgainTimeout \/ CtrlC
          \/ \E p \in net : ServeArp(p) \/ ServeRequest(p) \/ ServeAck(p) \/ Nobody(p)
          \/ \E t \in Tids : Repeat(t) \/ Refuse(t) \/ GiveUp(t)
          \/ Lose
      BY <1>3 DEF Next, Running, Receive, Serve
    <2> QED
      BY <1>1, <2>1, <2>2, ArpReplyOK, OackOK, FirstIsNotOneOK, SameBlockOK, NewBlockOK,
         TimeoutOK, PausedOK, StartAgainOK, RequestOK, AckOK, NetworkOK
  <1> QED
    BY <1>2, <1>3

LEMMA Invariant == ASSUME ShortFile PROVE Spec => []TInv
  BY InitOK, NextOK, PTL DEF Spec

\* What NetLoop calls received is the beginning of the file, and all of it when
\* it says NETLOOP_SUCCESS: for any file whose block numbers do not wrap, any size
\* of blocks, and any number of packets lost, repeated, late or of attempts before.
THEOREM FileReceived == ASSUME ShortFile PROVE Spec => []Received
  <1>1. TInv => Received
    BY DEF TInv, Whole
  <1> QED
    BY <1>1, Invariant, PTL

\* The server is never ahead of what is stored (store_block before TftpSend).
THEOREM NothingSkipped == ASSUME ShortFile PROVE Spec => []AckedIsStored
  <1>1. TInv => AckedIsStored
    <2> SUFFICES ASSUME TInv, Active, NEW t \in Tids, Serving(t)
                 PROVE NetBootFileXferSize >= (session[t].block - 1) * SessionBlkSize
      BY DEF AckedIsStored, Active
    <2>1. session[t].block \in Nat /\ NetBootFileXferSize \in Nat /\ SessionBlkSize \in Nat
      BY SessionsFit, Sizes, TftpAssumption DEF Serving, Session, MaxBlock, TInv, TypeOK
    <2>2. CASE session[t].block > 0
      <3>1. Expects(session[t].block)
        BY <2>2 DEF TInv, Ahead
      <3>2. \A x \in Nat, y \in Nat : (x - 1) * y \in Int
        OBVIOUS
      <3> QED
        BY <2>1, <3>1, <3>2 DEF Expects
    <2>3. CASE session[t].block = 0
      <3>1. \A y \in Nat : (0 - 1) * y <= 0
        OBVIOUS
      <3>2. (0 - 1) * SessionBlkSize <= 0 /\ (0 - 1) * SessionBlkSize \in Int
        BY <2>1, <3>1
      <3> QED
        BY <2>1, <2>3, <3>2
    <2> QED
      BY <2>1, <2>2, <2>3
  <1> QED
    BY <1>1, Invariant, PTL
=============================================================================
