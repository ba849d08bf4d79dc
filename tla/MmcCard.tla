------------------------------ MODULE MmcCard ------------------------------
(***************************************************************************)
(* The MMC/SD driver of U-Boot, cpu/arm920t/at91rm9200/atmel_mci.c: the    *)
(* identification of a card by mmc_init and the reading of blocks by       *)
(* mmc_bread, command by command, with a card that is a state machine of   *)
(* its own.                                                                *)
(*                                                                         *)
(* A command or its response may be lost (the controller reports RTOE), a  *)
(* response may be damaged (RCRCE, which mmc_cmd does not test), a block   *)
(* may not come (DTOE).  The OCR, which is asked for many times, and the   *)
(* data of a block (DCRCE, which line 223 does not test) are taken to      *)
(* arrive as they were sent.  Between two calls the card may be exchanged. *)
(***************************************************************************)
EXTENDS Integers, Sequences

CONSTANTS
  MaxPolls,    \* how often a card is asked whether it is ready: 1000
  Rcas,        \* the addresses an SD card may choose
  Blocks,      \* blocks of a card
  Sizes,       \* the blkcnt of mmc_bread, which returns at once for 0
  MaxCalls,    \* bound: calls of mmc_init and mmc_bread
  MaxFaults,   \* bound: what is lost or damaged
  MaxInserts   \* bound: exchanges of the card

MMC_DEFAULT_RCA == 1
BLKSZ           == 2  \* 512 bytes
BAD             == 0  \* the address in a damaged response

ASSUME MmcAssumption ==
  /\ MaxPolls \in Nat \ {0} /\ Rcas \subseteq Nat \ {BAD, MMC_DEFAULT_RCA}
  /\ Blocks \in Nat /\ Sizes \subseteq Nat \ {0}
  /\ {MaxCalls, MaxFaults, MaxInserts} \subseteq Nat

VARIABLES
  card,              \* the card in the slot
  mmc_rca, mmc_card_is_sd, mmc_card_is_sdhc, \* the globals of the driver
  blksz,             \* mmc_blkdev.blksz: 0 until a card has been accepted
  pc, phase, polls,  \* what is executed, in which of the three identifications
  start, blkcnt, i,  \* of mmc_bread
  caller,            \* who called it: mmc_init, or a file system
  buffer, sending,   \* the blocks received, and the one that is on its way
  calm,              \* history: nothing has gone wrong in this call
  ready,             \* history: the card could be selected when it began
  last,              \* history: how the last call ended
  calls, faults, inserts  \* history: what is bounded

globals == <<mmc_rca, mmc_card_is_sd, mmc_card_is_sdhc, blksz>>
params  == <<start, blkcnt, i, caller, buffer, sending>>
bounds  == <<calls, inserts>>
vars    == <<card, globals, pc, phase, polls, params, calm, ready, last, faults, bounds>>

-----------------------------------------------------------------------------
(* The card.  A reply is NONE or a record with the kind of the response.   *)

Kinds     == {"MMC", "SD1", "SD2", "SDHC"}
States    == {"idle", "ready", "ident", "stby", "tran"}
NONE      == [r |-> "none"]
R(kind)   == [r |-> kind]
Fresh(k, s) == [kind |-> k, state |-> "idle", rca |-> 0, app |-> FALSE, ifCond |-> FALSE,
                slow |-> s, busy |-> s]
EmptySlot == Fresh("none", 0)
IsSd(c)   == c.kind \in Kinds \ {"MMC"}

\* what a command does to card c, and what it answers
Ans(c, reply)     == [card |-> [c EXCEPT !.app = FALSE], reply |-> reply]
Goto(c, s, reply) == Ans([c EXCEPT !.state = s], reply)
Silent(c)         == Ans(c, NONE)

GoIdle(c) == Ans(IF c.kind = "none" THEN c ELSE Fresh(c.kind, c.slow), NONE)

SendIfCond(c) ==
  IF c.kind \in {"SD2", "SDHC"} /\ c.state = "idle"
  THEN Ans([c EXCEPT !.ifCond = TRUE], R("R7")) ELSE Silent(c)

AppCmd(c) ==
  IF IsSd(c) /\ c.state = "idle"
  THEN [card |-> [c EXCEPT !.app = TRUE], reply |-> R("R1")] ELSE Silent(c)

PowerUp(c, ccs) ==
  IF c.busy > 0 THEN Ans([c EXCEPT !.busy = @ - 1], [r |-> "R3", done |-> FALSE, ccs |-> FALSE])
                ELSE Goto(c, "ready", [r |-> "R3", done |-> TRUE, ccs |-> ccs])

SdSendOpCond(c, hcs) ==
  IF ~c.app THEN Silent(c)
  ELSE IF c.kind = "SDHC" /\ ~(hcs /\ c.ifCond)
  THEN Ans(c, [r |-> "R3", done |-> FALSE, ccs |-> FALSE])
  ELSE PowerUp(c, c.kind = "SDHC")

SendOpCond(c) == IF c.kind = "MMC" /\ c.state = "idle" THEN PowerUp(c, FALSE) ELSE Silent(c)

AllSendCid(c) == IF c.state = "ready" THEN Goto(c, "ident", R("R2")) ELSE Silent(c)

\* CMD3: an SD card chooses its address rca, an MMC card is given arg
RelativeAddr(c, arg, rca) ==
  LET a == IF IsSd(c) THEN rca ELSE arg
  IN  IF c.state = "ident" THEN Goto([c EXCEPT !.rca = a], "stby", [r |-> "R6", rca |-> a])
                           ELSE Silent(c)

SendCsd(c, rca) == IF c.state = "stby" /\ c.rca = rca THEN Ans(c, R("R2")) ELSE Silent(c)

Select(c, rca) ==
  IF c.state = "stby" /\ c.rca = rca THEN Goto(c, "tran", R("R1"))
  ELSE IF c.state = "tran" /\ c.rca # rca THEN Goto(c, "stby", NONE) ELSE Silent(c)

InTran(c) == IF c.state = "tran" THEN Ans(c, R("R1")) ELSE Silent(c)

SendStatus(c, rca) ==
  IF c.state \in {"stby", "tran"} /\ c.rca = rca THEN Ans(c, R("R1")) ELSE Silent(c)

\* The blocks a card has at an address: none, or one
DataAt(c, addr) == LET b == IF c.kind = "SDHC" THEN addr ELSE addr \div BLKSZ
                   IN  IF b < Blocks THEN <<b>> ELSE <<>>

-----------------------------------------------------------------------------
(* mmc_cmd: what may happen to a command whose effect is a; the response   *)
(* is seen as got.                                                         *)

Fault == faults < MaxFaults /\ faults' = faults + 1 /\ calm' = FALSE

Cmd(a, got) ==
  \/ card' = a.card /\ got = a.reply /\ UNCHANGED <<faults, calm>>
  \/ card' = card /\ got = NONE /\ Fault
  \/ card' = a.card /\ a.reply # NONE /\ got = NONE /\ Fault
  \/ card' = a.card /\ a.reply.r \in {"R1", "R2", "R6", "R7"} /\ got = R("damaged") /\ Fault

Replies == {NONE, R("damaged"), R("R1"), R("R2"), R("R7")}
      \cup [r : {"R3"}, done : BOOLEAN, ccs : BOOLEAN]
      \cup [r : {"R6"}, rca : Rcas \cup {MMC_DEFAULT_RCA}]

-----------------------------------------------------------------------------
(* mmc_init                                                                *)

Init ==
  /\ card = EmptySlot
  /\ mmc_rca = 0 /\ mmc_card_is_sd = FALSE /\ mmc_card_is_sdhc = FALSE /\ blksz = 0
  /\ pc = "prompt" /\ phase = "sdhc" /\ polls = 0
  /\ start = 0 /\ blkcnt = 0 /\ i = 0 /\ caller = "init"
  /\ buffer = <<>> /\ sending = <<>>
  /\ calm = TRUE /\ ready = FALSE /\ last = [call |-> "none"]
  /\ calls = 0 /\ faults = 0 /\ inserts = 0

Begin == /\ pc = "prompt" /\ calls < MaxCalls /\ calls' = calls + 1
         /\ calm' = TRUE /\ last' = [call |-> "none"]
         /\ UNCHANGED <<card, faults, inserts>>

Return(result) == pc' = "prompt" /\ last' = result

\* mutant: the globals keep what the last card was
MmcInitStale ==
  /\ Begin /\ pc' = "idle" /\ phase' = "sdhc"
  /\ UNCHANGED <<globals, polls, params, ready>>
MmcInit ==
  /\ Begin /\ pc' = "idle" /\ phase' = "sdhc"
  /\ mmc_card_is_sd' = FALSE /\ mmc_card_is_sdhc' = FALSE
  /\ UNCHANGED <<mmc_rca, blksz, polls, params, ready>>

initvars == <<params, ready, bounds>>

\* An identification has failed: the next one, or the end of mmc_init
Failed ==
  CASE phase = "sdhc" -> phase' = "sd" /\ pc' = "idle" /\ UNCHANGED <<mmc_rca, last>>
    [] phase = "sd"   -> /\ phase' = "mmc" /\ pc' = "idle" /\ mmc_rca' = MMC_DEFAULT_RCA
                         /\ UNCHANGED last
    [] phase = "mmc"  -> Return([call |-> "init", ok |-> FALSE]) /\ UNCHANGED <<phase, mmc_rca>>

Continue(label) == pc' = label /\ UNCHANGED <<phase, mmc_rca, last>>

FirstPoll == IF phase = "mmc" THEN "op_cond" ELSE "app_cmd"

\* mmc_idle_cards, whose result nobody looks at
IdleCards ==
  /\ pc = "idle"
  /\ Cmd(GoIdle(card), NONE)
  /\ polls' = 0
  /\ pc' = IF phase = "sdhc" THEN "if_cond" ELSE FirstPoll
  /\ UNCHANGED <<globals, phase, last, initvars>>

\* Any other answer than 0x122 ends sdhc_init_card, with the result 0
IfCond ==
  /\ pc = "if_cond"
  /\ \E got \in Replies : /\ Cmd(SendIfCond(card), got)
                          /\ CASE got = NONE    -> Failed
                               [] got.r = "R7"  -> Continue("app_cmd")
                               [] OTHER         -> Continue("csd")
  /\ UNCHANGED <<mmc_card_is_sd, mmc_card_is_sdhc, blksz, polls, initvars>>

AcmdApp ==
  /\ pc = "app_cmd"
  /\ \E got \in Replies : /\ Cmd(AppCmd(card), got)
                          /\ IF got.r = "R1" THEN Continue("op_cond") ELSE Failed
  /\ UNCHANGED <<mmc_card_is_sd, mmc_card_is_sdhc, blksz, polls, initvars>>

\* mutant: one poll too many
LastPollLate == polls = MaxPolls
LastPoll     == polls + 1 = MaxPolls

OpCond ==
  /\ pc = "op_cond"
  /\ \E got \in Replies :
       /\ Cmd(IF phase = "mmc" THEN SendOpCond(card) ELSE SdSendOpCond(card, phase = "sdhc"), got)
       /\ IF got = NONE \/ (~got.done /\ LastPoll) THEN Failed
          ELSE Continue(IF got.done THEN "cid" ELSE FirstPoll)
       /\ polls' = IF got # NONE /\ ~got.done THEN polls + 1 ELSE polls
       /\ mmc_card_is_sdhc' =
            IF phase = "sdhc" /\ got # NONE /\ got.done /\ got.ccs THEN TRUE ELSE mmc_card_is_sdhc
  /\ UNCHANGED <<mmc_card_is_sd, blksz, initvars>>

AllCid ==
  /\ pc = "cid"
  /\ \E got \in Replies : /\ Cmd(AllSendCid(card), got)
                          /\ IF got = NONE THEN Failed ELSE Continue("rca")
  /\ UNCHANGED <<mmc_card_is_sd, mmc_card_is_sdhc, blksz, polls, initvars>>

Rca ==
  /\ pc = "rca"
  /\ \E got \in Replies, rca \in Rcas :
       /\ Cmd(RelativeAddr(card, mmc_rca, rca), got)
       /\ IF got = NONE THEN Failed /\ UNCHANGED mmc_card_is_sd
          ELSE IF phase = "mmc" THEN Continue("csd") /\ UNCHANGED mmc_card_is_sd
          ELSE /\ mmc_rca' = IF got.r = "R6" THEN got.rca ELSE BAD
               /\ mmc_card_is_sd' = TRUE
               /\ pc' = "csd" /\ UNCHANGED <<phase, last>>
  /\ UNCHANGED <<mmc_card_is_sdhc, blksz, polls, initvars>>

\* mmc_bread is called
Enter(who, s, n) ==
  /\ pc' = "select" /\ caller' = who /\ start' = s /\ blkcnt' = n
  /\ i' = 0 /\ buffer' = <<>> /\ sending' = <<>>

\* The CSD, which a damaged response may make one without blocks of 512 bytes;
\* for a card that is accepted init_part looks at the first block
Csd ==
  /\ pc = "csd"
  /\ \E got \in Replies, ok \in BOOLEAN :
       /\ Cmd(SendCsd(card, mmc_rca), got)
       /\ (got = NONE => ~ok) /\ (got.r = "R2" => ok)
       /\ IF ok THEN Enter("init", 0, 1) /\ blksz' = BLKSZ /\ UNCHANGED last
          ELSE Return([call |-> "init", ok |-> FALSE]) /\ UNCHANGED <<params, blksz>>
  /\ UNCHANGED <<mmc_rca, mmc_card_is_sd, mmc_card_is_sdhc, phase, polls, ready, bounds>>

-----------------------------------------------------------------------------
(* mmc_bread                                                               *)

Selectable == card.state = "stby" /\ card.rca = mmc_rca

\* (a refused card leaves block_read set and blksz 0: reading it then is left out)
Bread(s, n) ==
  /\ blksz # 0
  /\ Begin /\ Enter("fat", s, n)
  /\ ready' = Selectable
  /\ UNCHANGED <<globals, phase, polls>>

breadvars == <<globals, phase, polls, start, blkcnt, caller, ready, bounds>>

NextBlock(n) == IF n < blkcnt THEN "read" ELSE "deselect"

SelectCard ==
  /\ pc = "select"
  /\ \E got \in Replies : /\ Cmd(Select(card, mmc_rca), got)
                          /\ pc' = IF got = NONE THEN "status" ELSE "blocklen"
  /\ UNCHANGED <<breadvars, i, buffer, sending, last>>

SetBlocklen ==
  /\ pc = "blocklen"
  /\ \E got \in Replies : /\ Cmd(InTran(card), got)
                          /\ pc' = IF got = NONE THEN "status" ELSE NextBlock(i)
  /\ UNCHANGED <<breadvars, i, buffer, sending, last>>

\* mutant: byte addresses for every card
AddressBytes == (start + i) * blksz
Address      == IF mmc_card_is_sdhc THEN start + i ELSE (start + i) * blksz

ReadSingleBlock ==
  /\ pc = "read"
  /\ \E got \in Replies : /\ Cmd(InTran(card), got)
                          /\ pc' = IF got = NONE THEN "status" ELSE "data"
                          /\ sending' = IF got = NONE THEN <<>> ELSE DataAt(card, Address)
  /\ UNCHANGED <<breadvars, i, buffer, last>>

\* The words of a block until BLKE, or DTOE
Data ==
  /\ pc = "data"
  /\ \/ /\ sending # <<>> /\ i' = i + 1 /\ buffer' = buffer \o sending /\ pc' = NextBlock(i + 1)
        /\ UNCHANGED <<faults, calm>>
     \/ /\ IF sending = <<>> THEN UNCHANGED <<faults, calm>> ELSE Fault
        /\ pc' = "status" /\ UNCHANGED <<i, buffer>>
  /\ sending' = <<>>
  /\ UNCHANGED <<breadvars, card, last>>

\* The end: init_part takes any result
End == Return(IF caller = "init" THEN [call |-> "init", ok |-> TRUE]
                                 ELSE [call |-> "read", n |-> i])

\* mutant: a read that failed leaves the card selected
StatusOnly ==
  /\ pc = "status"
  /\ \E got \in Replies : Cmd(SendStatus(card, mmc_rca), got)
  /\ End
  /\ UNCHANGED <<breadvars, i, buffer, sending>>
Status ==
  /\ pc = "status"
  /\ \E got \in Replies : Cmd(SendStatus(card, mmc_rca), got)
  /\ pc' = "deselect"
  /\ UNCHANGED <<breadvars, i, buffer, sending, last>>

Deselect ==
  /\ pc = "deselect"
  /\ Cmd(Select(card, 0), NONE)
  /\ End
  /\ UNCHANGED <<breadvars, i, buffer, sending>>

-----------------------------------------------------------------------------
Insert ==
  /\ pc = "prompt" /\ inserts < MaxInserts /\ inserts' = inserts + 1
  /\ \E k \in Kinds, s \in 0 .. MaxPolls - 1 : card' = Fresh(k, s)
  /\ last' = [call |-> "none"]
  /\ UNCHANGED <<globals, pc, phase, polls, params, calm, ready, calls, faults>>

Next == \/ MmcInit \/ IdleCards \/ IfCond \/ AcmdApp \/ OpCond \/ AllCid \/ Rca \/ Csd
        \/ \E s \in 0 .. Blocks, n \in Sizes : Bread(s, n)
        \/ SelectCard \/ SetBlocklen \/ ReadSingleBlock \/ Data \/ Status \/ Deselect
        \/ Insert

Spec == Init /\ [][Next]_vars

-----------------------------------------------------------------------------
(* Properties.                                                             *)

\* Every variable has a value of its kind; the polls stop at MaxPolls and no
\* more blocks are read than were asked for
TypeOK ==
  /\ card \in [kind : Kinds \cup {"none"}, state : States, app : BOOLEAN, ifCond : BOOLEAN,
               rca : Rcas \cup {0, MMC_DEFAULT_RCA}, slow : 0 .. MaxPolls, busy : 0 .. MaxPolls]
  /\ mmc_rca \in Rcas \cup {BAD, MMC_DEFAULT_RCA}
  /\ {mmc_card_is_sd, mmc_card_is_sdhc, calm, ready} \subseteq BOOLEAN /\ blksz \in {0, BLKSZ}
  /\ pc \in {"prompt", "idle", "if_cond", "app_cmd", "op_cond", "cid", "rca", "csd",
             "select", "blocklen", "read", "data", "status", "deselect"}
  /\ phase \in {"sdhc", "sd", "mmc"} /\ polls \in 0 .. MaxPolls
  /\ start \in 0 .. Blocks /\ blkcnt \in Sizes \cup {0, 1} /\ i \in 0 .. blkcnt
  /\ caller \in {"init", "fat"}
  /\ buffer \in Seq(0 .. Blocks) /\ sending \in {<<>>} \cup {<<b>> : b \in 0 .. Blocks}
  /\ last \in [call : {"none"}] \cup [call : {"init"}, ok : BOOLEAN]
                \cup [call : {"read"}, n : 0 .. blkcnt]
  /\ faults \in 0 .. MaxFaults /\ calls \in 0 .. MaxCalls /\ inserts \in 0 .. MaxInserts

\* When mmc_init returns 0 the card has the address mmc_rca and can be selected,
\* or still is if a command of the last read was lost, and the driver knows what
\* kind of card it is: whatever was lost or damaged on the way, whatever card was
\* in the slot before and although a wrong answer to SEND_IF_COND counts as success
\* (atmel_mci.c:452)
Identified ==
  pc = "prompt" /\ last.call = "init" /\ last.ok =>
    /\ card.state \in {"stby", "tran"} /\ card.rca = mmc_rca
    /\ mmc_card_is_sdhc = (card.kind = "SDHC")
    /\ mmc_card_is_sd = IsSd(card)

\* What mmc_bread calls read is what the card holds from start on: the address is
\* in the unit of this card, and the count leaves out a block that failed
ReadRight ==
  pc = "prompt" /\ last.call = "read" =>
    buffer = [k \in 1 .. last.n |-> start + k - 1]

\* The driver recovers from whatever earlier calls left behind: an mmc_init in
\* which nothing is lost finds the card, a call in which nothing is lost leaves the
\* card deselected, and an mmc_bread in which nothing is lost reads all blocks there
\* are, unless the card was still selected by a call whose last command was lost
Recovers ==
  pc = "prompt" /\ calm =>
    /\ last.call = "init" /\ card.kind # "none" => last.ok
    /\ last.call # "none" => card.state # "tran"
    /\ last.call = "read" /\ ready /\ start + blkcnt <= Blocks => last.n = blkcnt
=============================================================================
