--------------------------- MODULE MmcCard_proofs ---------------------------
(***************************************************************************)
(* For any number of polls, blocks, calls, faults and exchanges: a card    *)
(* that mmc_init accepts is the one in the slot, what mmc_bread calls read *)
(* is what was asked for, and a call in which nothing is lost succeeds     *)
(* whatever earlier calls left behind.  The invariant follows what the     *)
(* driver knows of the card: nothing while it searches, the kind of a card *)
(* that has answered, the address too once the card has been selected.  A  *)
(* second one follows a call in which nothing is lost.                     *)
(***************************************************************************)
EXTENDS MmcCard, SequenceTheorems, TLAPS

CardType == [kind : Kinds \cup {"none"}, state : States, app : BOOLEAN, ifCond : BOOLEAN,
             rca : Rcas \cup {0, MMC_DEFAULT_RCA}, slow : 0 .. MaxPolls, busy : 0 .. MaxPolls]

Reading == {"select", "blocklen", "read", "data", "status", "deselect"}

\* What is true of a card whatever it is sent
CardOK(c) ==
  /\ c \in CardType
  /\ c.app => IsSd(c)
  /\ c.rca = MMC_DEFAULT_RCA => c.kind = "MMC"
  /\ c.state \in {"stby", "tran"} => c.rca # 0

Found     == card.state \in {"stby", "tran"} /\ card.rca = mmc_rca
UnitKnown == mmc_card_is_sdhc = (card.kind = "SDHC")
KindOfPhase == IF phase = "mmc" THEN card.kind = "MMC" ELSE IsSd(card)

\* no card has answered yet
Searching ==
  pc \in {"idle", "if_cond", "app_cmd", "op_cond", "cid", "rca"} =>
    /\ ~mmc_card_is_sd
    /\ mmc_card_is_sdhc => card.kind = "SDHC"
    /\ phase = "mmc" => mmc_rca = MMC_DEFAULT_RCA
    /\ pc = "if_cond" => phase = "sdhc"
    /\ pc = "app_cmd" => phase # "mmc"
    /\ pc \in {"if_cond", "app_cmd", "op_cond"} => polls < MaxPolls

\* one has, and no other is asked
Answered ==
  /\ pc = "cid" => card.state = "ready" /\ UnitKnown /\ KindOfPhase
  /\ pc = "rca" => card.state = "ident" /\ UnitKnown /\ KindOfPhase
  /\ pc = "csd" =>
       \/ card.state = "idle"
       \/ /\ card.state = "stby" /\ UnitKnown /\ (mmc_card_is_sd <=> IsSd(card))
          /\ mmc_rca \in {card.rca, BAD}

\* a card that can be selected is one whose address unit is known
Selected ==
  /\ pc \in Reading \cup {"prompt"} /\ Found => UnitKnown
  /\ pc \in Reading /\ caller = "init" => Found /\ (mmc_card_is_sd <=> IsSd(card))
  /\ pc \in {"blocklen", "read", "data"} => card.state = "tran" /\ card.rca = mmc_rca

BlocksFrom(n) == [k \in 1 .. n |-> start + k - 1]

Gathered ==
  /\ pc \in Reading => blksz = BLKSZ /\ buffer = BlocksFrom(i) /\ last.call = "none"
  /\ pc \in {"read", "data"} => i < blkcnt
  /\ pc = "data" => sending \in {<<>>, <<start + i>>}
  /\ pc # "prompt" => last.call = "none"

MInv == TypeOK /\ CardOK(card) /\ Searching /\ Answered /\ Selected /\ Gathered
          /\ Identified /\ ReadRight

-----------------------------------------------------------------------------
(* The card.                                                               *)

\* A card that is switched on or reset has no address.
LEMMA FreshOK == \A k \in Kinds \cup {"none"}, s \in 0 .. MaxPolls : CardOK(Fresh(k, s))
  BY DEF CardOK, CardType, Fresh, Kinds, States, IsSd, MMC_DEFAULT_RCA

\* No command makes a card of it that the driver could mistake.
LEMMA CommandOK ==
  ASSUME NEW c, CardOK(c)
  PROVE  /\ CardOK(GoIdle(c).card) /\ CardOK(SendIfCond(c).card) /\ CardOK(AppCmd(c).card)
         /\ \A hcs : CardOK(SdSendOpCond(c, hcs).card)
         /\ CardOK(SendOpCond(c).card) /\ CardOK(AllSendCid(c).card)
         /\ \A rca \in Rcas : \A arg :
              IsSd(c) \/ (c.kind = "MMC" /\ arg = MMC_DEFAULT_RCA) =>
                CardOK(RelativeAddr(c, arg, rca).card)
         /\ \A a : CardOK(SendCsd(c, a).card) /\ CardOK(Select(c, a).card) /\ CardOK(SendStatus(c, a).card)
         /\ CardOK(InTran(c).card)
  <1> USE MmcAssumption
  <1> USE DEF Ans, Goto, Silent, NONE
  <1>0. c \in CardType /\ (c.app => IsSd(c)) /\ (c.rca = MMC_DEFAULT_RCA => c.kind = "MMC")
        /\ (c.state \in {"stby", "tran"} => c.rca # 0)
    BY DEF CardOK
  <1>1. CardOK([c EXCEPT !.app = FALSE])
    BY <1>0 DEF CardOK, CardType, IsSd
  <1>2. IsSd(c) => CardOK([c EXCEPT !.app = TRUE])
    BY <1>0 DEF CardOK, CardType, IsSd
  <1>3. CardOK([[c EXCEPT !.ifCond = TRUE] EXCEPT !.app = FALSE])
    BY <1>0 DEF CardOK, CardType, IsSd
  <1>4. \A s \in {"ready", "ident"} : CardOK([[c EXCEPT !.state = s] EXCEPT !.app = FALSE])
    BY <1>0 DEF CardOK, CardType, IsSd, States
  <1>5. c.rca # 0 => \A s \in {"stby", "tran"} : CardOK([[c EXCEPT !.state = s] EXCEPT !.app = FALSE])
    BY <1>0 DEF CardOK, CardType, IsSd, States
  <1>6. c.busy > 0 => CardOK([[c EXCEPT !.busy = @ - 1] EXCEPT !.app = FALSE])
    <2>1. c.busy > 0 => c.busy - 1 \in 0 .. MaxPolls
      BY <1>0 DEF CardType
    <2>2. \A n \in 0 .. MaxPolls : CardOK([[c EXCEPT !.busy = n] EXCEPT !.app = FALSE])
      BY <1>0 DEF CardOK, CardType, IsSd
    <2> QED
      BY <2>1, <2>2
  <1>7. \A a \in Rcas \cup {MMC_DEFAULT_RCA} : (a = MMC_DEFAULT_RCA => c.kind = "MMC") =>
          CardOK([[[c EXCEPT !.rca = a] EXCEPT !.state = "stby"] EXCEPT !.app = FALSE])
    <2> SUFFICES ASSUME NEW a \in Rcas \cup {MMC_DEFAULT_RCA}, a = MMC_DEFAULT_RCA => c.kind = "MMC"
                 PROVE  CardOK([[[c EXCEPT !.rca = a] EXCEPT !.state = "stby"] EXCEPT !.app = FALSE])
      OBVIOUS
    <2> DEFINE d == [[[c EXCEPT !.rca = a] EXCEPT !.state = "stby"] EXCEPT !.app = FALSE]
    <2>1. a # 0
      BY DEF MMC_DEFAULT_RCA, BAD
    <2>2. d \in CardType
      BY <1>0 DEF CardType, States
    <2>3. d.rca = a /\ d.kind = c.kind /\ d.app = FALSE
      BY <1>0 DEF CardType
    <2> QED
      BY <2>1, <2>2, <2>3 DEF CardOK
  <1>8. \A ccs : CardOK(PowerUp(c, ccs).card)
    BY <1>4, <1>6 DEF PowerUp
  <1>9. CardOK(GoIdle(c).card)
    BY <1>1, <1>0, FreshOK DEF GoIdle, Fresh, CardType, CardOK
  <1>10. CardOK(SendIfCond(c).card) /\ CardOK(AppCmd(c).card) /\ CardOK(InTran(c).card)
    BY <1>1, <1>2, <1>3 DEF SendIfCond, AppCmd, InTran
  <1>11. \A hcs : CardOK(SdSendOpCond(c, hcs).card)
    BY <1>1, <1>8 DEF SdSendOpCond
  <1>12. CardOK(SendOpCond(c).card) /\ CardOK(AllSendCid(c).card)
    BY <1>1, <1>4, <1>8 DEF SendOpCond, AllSendCid
  <1>13. \A a : CardOK(SendCsd(c, a).card) /\ CardOK(Select(c, a).card) /\ CardOK(SendStatus(c, a).card)
    BY <1>0, <1>1, <1>5 DEF SendCsd, Select, SendStatus
  <1>14. \A rca \in Rcas : \A arg :
           IsSd(c) \/ (c.kind = "MMC" /\ arg = MMC_DEFAULT_RCA) =>
             CardOK(RelativeAddr(c, arg, rca).card)
    BY <1>1, <1>7 DEF RelativeAddr, IsSd, MMC_DEFAULT_RCA
  <1> QED
    BY <1>9, <1>10, <1>11, <1>12, <1>13, <1>14

\* No command makes another card of it.
LEMMA KindKept ==
  ASSUME NEW c, CardOK(c)
  PROVE  /\ GoIdle(c).card.kind = c.kind /\ SendIfCond(c).card.kind = c.kind
         /\ AppCmd(c).card.kind = c.kind /\ SendOpCond(c).card.kind = c.kind
         /\ \A hcs : SdSendOpCond(c, hcs).card.kind = c.kind
         /\ AllSendCid(c).card.kind = c.kind /\ InTran(c).card.kind = c.kind
         /\ \A arg, rca : RelativeAddr(c, arg, rca).card.kind = c.kind
         /\ \A a : /\ SendCsd(c, a).card.kind = c.kind /\ Select(c, a).card.kind = c.kind
                  /\ SendStatus(c, a).card.kind = c.kind
  BY DEF CardOK, CardType, Ans, Goto, Silent, GoIdle, Fresh, SendIfCond, AppCmd, SendOpCond, PowerUp,
         SdSendOpCond, AllSendCid, InTran, RelativeAddr, SendCsd, Select, SendStatus

\* What the driver sees of a command: a response only if the card gave one.
LEMMA CmdCases ==
  ASSUME NEW a, NEW got, Cmd(a, got), TypeOK
  PROVE  /\ card' = card \/ card' = a.card
         /\ got \in {NONE, R("damaged"), a.reply}
         /\ got # NONE => card' = a.card /\ a.reply # NONE
         /\ got = R("damaged") => a.reply = got \/ a.reply.r \in {"R1", "R2", "R6", "R7"}
         /\ faults' \in 0 .. MaxFaults /\ calm' \in BOOLEAN
  <1>1. faults \in 0 .. MaxFaults /\ calm \in BOOLEAN /\ MaxFaults \in Nat
    BY MmcAssumption DEF TypeOK
  <1>2. Fault => faults' \in 0 .. MaxFaults
    BY <1>1 DEF Fault
  <1>6. Fault => calm' \in BOOLEAN
    BY DEF Fault
  <1>3. faults' \in 0 .. MaxFaults /\ calm' \in BOOLEAN
    BY <1>1, <1>2, <1>6 DEF Cmd
  <1>4. a.reply.r \in {"R1", "R2", "R6", "R7"} => a.reply # NONE
    BY DEF NONE
  <1>5. NONE # R("damaged")
    BY DEF NONE, R
  <1> QED
    BY <1>3, <1>4, <1>5 DEF Cmd

-----------------------------------------------------------------------------
(* The search.                                                             *)

Places == {"idle", "if_cond", "app_cmd", "op_cond", "cid", "rca"}

\* What every step of the search leaves alone, and what it keeps
SearchStep ==
  /\ pc \in Places
  /\ CardOK(card') /\ faults' \in 0 .. MaxFaults /\ calm' \in BOOLEAN
  /\ polls' \in 0 .. MaxPolls
  /\ mmc_card_is_sdhc' \in BOOLEAN /\ (mmc_card_is_sdhc' => card'.kind = "SDHC")
  /\ UNCHANGED <<mmc_card_is_sd, blksz, initvars>>

\* What Failed does to the variables it changes.
LEMMA FailedCases ==
  ASSUME MInv, Failed, pc \in Places
  PROVE  /\ phase' \in {"sdhc", "sd", "mmc"} /\ mmc_rca' \in Rcas \cup {BAD, MMC_DEFAULT_RCA}
         /\ \/ /\ pc' = "idle" /\ last' = last
               /\ phase' = "mmc" => mmc_rca' = MMC_DEFAULT_RCA
            \/ /\ pc' = "prompt" /\ last' = [call |-> "init", ok |-> FALSE]
               /\ mmc_rca' = MMC_DEFAULT_RCA
  <1>1. phase \in {"sdhc", "sd", "mmc"} /\ mmc_rca \in Rcas \cup {BAD, MMC_DEFAULT_RCA}
    BY DEF MInv, TypeOK
  <1>2. phase = "mmc" => mmc_rca = MMC_DEFAULT_RCA
    BY DEF MInv, Searching, Places
  <1> QED
    BY <1>1, <1>2 DEF Failed, Return

\* An identification that fails keeps the invariant.
LEMMA FailedOK == MInv /\ SearchStep /\ Failed => MInv'
  <1> SUFFICES ASSUME MInv, SearchStep, Failed PROVE MInv'
    OBVIOUS
  <1>0. pc \in Places
    BY DEF SearchStep
  <1>1. \/ pc' = "idle" /\ last' = last
        \/ pc' = "prompt" /\ last' = [call |-> "init", ok |-> FALSE]
    BY <1>0, FailedCases
  <1>2. last.call = "none" /\ last \in [call : {"none"}]
    BY DEF MInv, TypeOK, Gathered, SearchStep, Places
  <1>3. TypeOK'
    <2>0. [call |-> "init", ok |-> FALSE] \in [call : {"init"}, ok : BOOLEAN]
      OBVIOUS
    <2>1. last' \in [call : {"none"}] \cup [call : {"init"}, ok : BOOLEAN]
      BY <1>1, <1>2, <2>0
    <2> QED
      BY <1>1, <2>1, FailedCases DEF MInv, TypeOK, SearchStep, CardOK, CardType, initvars, params, bounds
  <1>4. Searching'
    BY <1>1, FailedCases DEF MInv, Searching, SearchStep, Places
  <1>5. Answered' /\ Gathered'
    BY <1>1, <1>2 DEF Answered, Gathered, Reading
  <1>6. Selected'
    <2>1. mmc_rca' = MMC_DEFAULT_RCA /\ card'.rca = mmc_rca' => card'.kind = "MMC"
      BY DEF SearchStep, CardOK
    <2> QED
      BY <1>1, <2>1, FailedCases DEF Selected, Reading, Found, UnitKnown, SearchStep
  <1>7. Identified' /\ ReadRight'
    BY <1>1 DEF Identified, ReadRight
  <1> QED
    BY <1>3, <1>4, <1>5, <1>6, <1>7 DEF MInv, SearchStep

\* One that goes on does, if the next place is reached as it must be.
LEMMA ContinueOK ==
  ASSUME MInv, SearchStep, NEW label \in Places \cup {"csd"}, Continue(label),
         pc' = label, Searching', Answered'
  PROVE  MInv'
  <1>1. last.call = "none" /\ last' = last
    BY DEF MInv, Gathered, SearchStep, Places, Continue
  <1>2. TypeOK'
    BY DEF MInv, TypeOK, SearchStep, CardOK, CardType, initvars, params, bounds, Continue, Places
  <1>3. Selected' /\ Gathered' /\ Identified' /\ ReadRight'
    BY <1>1 DEF Selected, Gathered, Identified, ReadRight, Places, Reading
  <1> QED
    BY <1>2, <1>3 DEF MInv, SearchStep

\* The reset of the cards begins an identification, or a part of it, anew.
LEMMA IdleCardsOK == MInv /\ IdleCards => MInv'
  <1> SUFFICES ASSUME MInv, IdleCards PROVE MInv'
    OBVIOUS
  <1>1. card' = card \/ card' = GoIdle(card).card
    BY CmdCases DEF MInv, IdleCards
  <1>2. faults' \in 0 .. MaxFaults /\ calm' \in BOOLEAN
    BY CmdCases DEF MInv, IdleCards
  <1>3. CardOK(card') /\ card'.kind = card.kind
    BY <1>1, CommandOK, KindKept DEF MInv
  <1>4. SearchStep
    BY <1>2, <1>3, MmcAssumption DEF MInv, IdleCards, SearchStep, Places, Searching, TypeOK, globals
  <1>5. pc' \in Places /\ Continue(pc') /\ Answered'
    BY DEF IdleCards, FirstPoll, Places, Continue, globals, Answered
  <1>6. Searching'
    BY <1>4, MmcAssumption DEF MInv, Searching, SearchStep, IdleCards, FirstPoll, globals
  <1> QED
    BY <1>4, <1>5, <1>6, ContinueOK

\* A wrong answer to SEND_IF_COND comes from a card that is idle, so that it will not
\* answer SEND_CSD.
LEMMA IfCondOK == MInv /\ IfCond => MInv'
  <1> SUFFICES ASSUME MInv, IfCond PROVE MInv'
    OBVIOUS
  <1>0. PICK got \in Replies :
          /\ Cmd(SendIfCond(card), got)
          /\ CASE got = NONE    -> Failed
               [] got.r = "R7"  -> Continue("app_cmd")
               [] OTHER         -> Continue("csd")
    BY DEF IfCond
  <1>1. /\ card' = card \/ card' = SendIfCond(card).card
        /\ got # NONE => card' = SendIfCond(card).card /\ SendIfCond(card).reply # NONE
    BY <1>0, CmdCases DEF MInv
  <1>2. faults' \in 0 .. MaxFaults /\ calm' \in BOOLEAN
    BY <1>0, CmdCases DEF MInv
  <1>3. CardOK(card') /\ card'.kind = card.kind
    BY <1>1, CommandOK, KindKept DEF MInv
  <1>4. SearchStep
    BY <1>2, <1>3 DEF MInv, IfCond, SearchStep, Places, Searching, TypeOK
  <1>5. CASE got = NONE
    <2>1. Failed
      BY <1>0, <1>5 DEF NONE
    <2> QED
      BY <1>4, <2>1, FailedOK
  <1>6. CASE got # NONE /\ got.r = "R7"
    <2>1. Continue("app_cmd") /\ pc' = "app_cmd"
      BY <1>0, <1>6 DEF Continue
    <2>2. Searching' /\ Answered'
      BY <1>4, <2>1 DEF MInv, Searching, Answered, SearchStep, IfCond, Continue
    <2> QED
      BY <1>4, <2>1, <2>2, ContinueOK DEF Places
  <1>7. CASE got # NONE /\ got.r # "R7"
    <2>1. Continue("csd") /\ pc' = "csd"
      BY <1>0, <1>7 DEF Continue
    <2>2. card'.state = "idle"
      BY <1>1, <1>7 DEF MInv, SendIfCond, Ans, Silent, CardOK, CardType
    <2>3. Searching' /\ Answered'
      BY <2>1, <2>2 DEF Searching, Answered
    <2> QED
      BY <1>4, <2>1, <2>3, ContinueOK
  <1> QED
    BY <1>5, <1>6, <1>7

\* ACMD41 follows CMD55 only for a card that has answered it.
LEMMA AcmdAppOK == MInv /\ AcmdApp => MInv'
  <1> SUFFICES ASSUME MInv, AcmdApp PROVE MInv'
    OBVIOUS
  <1>0. PICK got \in Replies : /\ Cmd(AppCmd(card), got)
                               /\ IF got.r = "R1" THEN Continue("op_cond") ELSE Failed
    BY DEF AcmdApp
  <1>1. card' = card \/ card' = AppCmd(card).card
    BY <1>0, CmdCases DEF MInv
  <1>2. faults' \in 0 .. MaxFaults /\ calm' \in BOOLEAN
    BY <1>0, CmdCases DEF MInv
  <1>3. CardOK(card') /\ card'.kind = card.kind
    BY <1>1, CommandOK, KindKept DEF MInv
  <1>4. SearchStep
    BY <1>2, <1>3 DEF MInv, AcmdApp, SearchStep, Places, Searching, TypeOK
  <1>5. CASE got.r # "R1"
    BY <1>0, <1>4, <1>5, FailedOK
  <1>6. CASE got.r = "R1"
    <2>1. Continue("op_cond") /\ pc' = "op_cond"
      BY <1>0, <1>6 DEF Continue
    <2>2. Searching' /\ Answered'
      BY <1>4, <2>1 DEF MInv, Searching, Answered, SearchStep, AcmdApp, Continue
    <2> QED
      BY <1>4, <2>1, <2>2, ContinueOK DEF Places
  <1> QED
    BY <1>5, <1>6

\* A card says that it has powered up only when it has, and what it is.
LEMMA OcrTrue ==
  ASSUME NEW c, CardOK(c), NEW sdhc \in BOOLEAN
  PROVE  /\ LET a == SdSendOpCond(c, sdhc)
            IN  a.reply # NONE =>
                  /\ a.reply.r = "R3"
                  /\ a.reply.done => /\ a.card.state = "ready" /\ IsSd(c)
                                     /\ a.reply.ccs = (c.kind = "SDHC")
                                     /\ c.kind = "SDHC" => sdhc
         /\ LET a == SendOpCond(c)
            IN  a.reply # NONE =>
                  /\ a.reply.r = "R3"
                  /\ a.reply.done => a.card.state = "ready" /\ c.kind = "MMC"
  <1>1. c.app => IsSd(c)
    BY DEF CardOK
  <1>2. LET a == SdSendOpCond(c, sdhc)
        IN  a.reply # NONE =>
              /\ a.reply.r = "R3"
              /\ a.reply.done => /\ a.card.state = "ready" /\ IsSd(c)
                                 /\ a.reply.ccs = (c.kind = "SDHC")
                                 /\ c.kind = "SDHC" => sdhc
    BY <1>1 DEF SdSendOpCond, PowerUp, Ans, Goto, Silent, CardOK, CardType
  <1>3. LET a == SendOpCond(c)
        IN  a.reply # NONE =>
              /\ a.reply.r = "R3"
              /\ a.reply.done => a.card.state = "ready" /\ c.kind = "MMC"
    BY DEF SendOpCond, PowerUp, Ans, Goto, Silent, CardOK, CardType
  <1> QED
    BY <1>2, <1>3

\* The card that has powered up is of the kind this identification is for.
LEMMA OpCondOK == MInv /\ OpCond => MInv'
  <1> SUFFICES ASSUME MInv, OpCond PROVE MInv'
    OBVIOUS
  <1> DEFINE a == IF phase = "mmc" THEN SendOpCond(card) ELSE SdSendOpCond(card, phase = "sdhc")
  <1>0. PICK got \in Replies :
          /\ Cmd(a, got)
          /\ IF got = NONE \/ (~got.done /\ LastPoll) THEN Failed
             ELSE Continue(IF got.done THEN "cid" ELSE FirstPoll)
          /\ polls' = IF got # NONE /\ ~got.done THEN polls + 1 ELSE polls
          /\ mmc_card_is_sdhc' =
               IF phase = "sdhc" /\ got # NONE /\ got.done /\ got.ccs THEN TRUE ELSE mmc_card_is_sdhc
    BY DEF OpCond
  <1>1. /\ card' = card \/ card' = a.card
        /\ got \in {NONE, R("damaged"), a.reply}
        /\ got # NONE => card' = a.card /\ a.reply # NONE
        /\ got = R("damaged") => a.reply = got \/ a.reply.r \in {"R1", "R2", "R6", "R7"}
    BY <1>0, CmdCases DEF MInv
  <1>2. faults' \in 0 .. MaxFaults /\ calm' \in BOOLEAN
    BY <1>0, CmdCases DEF MInv
  <1>3. CardOK(card') /\ card'.kind = card.kind
    <2>1. CardOK(a.card) /\ a.card.kind = card.kind
      BY CommandOK, KindKept DEF MInv
    <2> QED
      BY <1>1, <2>1 DEF MInv
  <1>4. phase \in {"sdhc", "sd", "mmc"} /\ polls \in 0 .. MaxPolls /\ MaxPolls \in Nat
        /\ mmc_card_is_sdhc \in BOOLEAN /\ polls < MaxPolls
        /\ (mmc_card_is_sdhc => card.kind = "SDHC")
    BY MmcAssumption DEF MInv, TypeOK, Searching, OpCond
  <1>5. a.reply # NONE =>
          /\ a.reply.r = "R3"
          /\ a.reply.done => /\ a.card.state = "ready"
                             /\ IF phase = "mmc" THEN card.kind = "MMC" ELSE IsSd(card)
                             /\ phase # "mmc" => a.reply.ccs = (card.kind = "SDHC")
                             /\ phase # "mmc" /\ card.kind = "SDHC" => phase = "sdhc"
    <2>1. CardOK(card) /\ (phase = "sdhc") \in BOOLEAN
      BY DEF MInv
    <2>2. CASE phase = "mmc"
      BY <2>1, <2>2, OcrTrue
    <2>3. CASE phase # "mmc"
      BY <2>1, <2>3, OcrTrue
    <2> QED
      BY <2>2, <2>3
  <1>6. got # NONE => /\ got = a.reply /\ card' = a.card
                      /\ got.done => card'.state = "ready" /\ KindOfPhase'
    <2>1. got # NONE => got = a.reply
      BY <1>1, <1>5 DEF R
    <2>2. phase' = phase \/ got = NONE \/ ~got.done
      BY <1>0 DEF Continue
    <2> QED
      BY <1>1, <1>3, <1>5, <2>1, <2>2 DEF KindOfPhase, IsSd
  <1>7. polls' \in 0 .. MaxPolls
    BY <1>0, <1>4
  <1>8. mmc_card_is_sdhc' \in BOOLEAN /\ (mmc_card_is_sdhc' => card'.kind = "SDHC")
    <2>1. CASE phase = "sdhc" /\ got # NONE /\ got.done /\ got.ccs
      <3>1. got.ccs = (card.kind = "SDHC")
        BY <1>1, <1>5, <1>6, <2>1
      <3>2. card'.kind = "SDHC"
        BY <1>3, <2>1, <3>1
      <3> QED
        BY <1>0, <2>1, <3>2
    <2>2. CASE ~(phase = "sdhc" /\ got # NONE /\ got.done /\ got.ccs)
      <3>1. mmc_card_is_sdhc' = mmc_card_is_sdhc
        BY <1>0, <2>2
      <3> QED
        BY <1>3, <1>4, <3>1
    <2> QED
      BY <2>1, <2>2
  <1>9. SearchStep
    BY <1>2, <1>3, <1>7, <1>8 DEF OpCond, SearchStep, Places
  <1>10. CASE got = NONE \/ (~got.done /\ LastPoll)
    <2>1. Failed
      BY <1>0, <1>10
    <2> QED
      BY <1>9, <2>1, FailedOK
  <1>11. CASE got # NONE /\ ~got.done /\ ~LastPoll
    <2>1. Continue(FirstPoll) /\ pc' = FirstPoll /\ polls' < MaxPolls /\ phase' = phase
      BY <1>0, <1>4, <1>11 DEF Continue, LastPoll
    <2>2. Searching' /\ Answered'
      BY <1>9, <2>1 DEF MInv, Searching, Answered, SearchStep, OpCond, Continue, FirstPoll
    <2> QED
      BY <1>9, <2>1, <2>2, ContinueOK DEF Places, FirstPoll
  <1>12. CASE got # NONE /\ got.done
    <2>1. Continue("cid") /\ pc' = "cid" /\ phase' = phase
      BY <1>0, <1>12 DEF Continue
    <2>2. UnitKnown'
      <3>1. card'.kind = "SDHC" => phase = "sdhc" /\ got.ccs
        BY <1>1, <1>3, <1>5, <1>6, <1>12
      <3>2. card'.kind = "SDHC" => mmc_card_is_sdhc' = TRUE
        BY <1>0, <1>12, <3>1
      <3> QED
        BY <1>8, <3>2 DEF UnitKnown
    <2>3. Searching' /\ Answered'
      BY <1>6, <1>9, <1>12, <2>1, <2>2 DEF MInv, Searching, Answered, SearchStep, OpCond, Continue
    <2> QED
      BY <1>9, <2>1, <2>3, ContinueOK DEF Places
  <1> QED
    BY <1>10, <1>11, <1>12

\* The card that has sent its CID is the one that powered up.
LEMMA AllCidOK == MInv /\ AllCid => MInv'
  <1> SUFFICES ASSUME MInv, AllCid PROVE MInv'
    OBVIOUS
  <1>0. PICK got \in Replies : /\ Cmd(AllSendCid(card), got)
                               /\ IF got = NONE THEN Failed ELSE Continue("rca")
    BY DEF AllCid
  <1>1. /\ card' = card \/ card' = AllSendCid(card).card
        /\ got # NONE => card' = AllSendCid(card).card /\ AllSendCid(card).reply # NONE
    BY <1>0, CmdCases DEF MInv
  <1>2. faults' \in 0 .. MaxFaults /\ calm' \in BOOLEAN
    BY <1>0, CmdCases DEF MInv
  <1>3. CardOK(card') /\ card'.kind = card.kind
    BY <1>1, CommandOK, KindKept DEF MInv
  <1>4. SearchStep
    BY <1>2, <1>3 DEF MInv, AllCid, SearchStep, Places, Searching, TypeOK
  <1>5. CASE got = NONE
    BY <1>0, <1>4, <1>5, FailedOK
  <1>6. CASE got # NONE
    <2>1. Continue("rca") /\ pc' = "rca" /\ phase' = phase
      BY <1>0, <1>6 DEF Continue
    <2>2. card'.state = "ident"
      BY <1>1, <1>6 DEF AllSendCid, Goto, Ans, Silent, MInv, CardOK, CardType
    <2>3. UnitKnown' /\ KindOfPhase'
      BY <1>3, <2>1 DEF MInv, AllCid, Answered, UnitKnown, KindOfPhase, IsSd
    <2>4. Searching' /\ Answered'
      BY <1>4, <2>1, <2>2, <2>3 DEF MInv, Searching, Answered, SearchStep, AllCid, Continue
    <2> QED
      BY <1>4, <2>1, <2>4, ContinueOK DEF Places
  <1> QED
    BY <1>5, <1>6

\* The card has the address that the driver has read, or the driver has none.
LEMMA RcaOK == MInv /\ Rca => MInv'
  <1> SUFFICES ASSUME MInv, Rca PROVE MInv'
    OBVIOUS
  <1>0. PICK got \in Replies, rca \in Rcas :
          /\ Cmd(RelativeAddr(card, mmc_rca, rca), got)
          /\ IF got = NONE THEN Failed /\ UNCHANGED mmc_card_is_sd
             ELSE IF phase = "mmc" THEN Continue("csd") /\ UNCHANGED mmc_card_is_sd
             ELSE /\ mmc_rca' = IF got.r = "R6" THEN got.rca ELSE BAD
                  /\ mmc_card_is_sd' = TRUE
                  /\ pc' = "csd" /\ UNCHANGED <<phase, last>>
    BY DEF Rca
  <1> DEFINE a == RelativeAddr(card, mmc_rca, rca)
  <1>1. /\ card' = card \/ card' = a.card
        /\ got \in {NONE, R("damaged"), a.reply}
        /\ got # NONE => card' = a.card /\ a.reply # NONE
    BY <1>0, CmdCases DEF MInv
  <1>2. faults' \in 0 .. MaxFaults /\ calm' \in BOOLEAN
    BY <1>0, CmdCases DEF MInv
  <1>3. KindOfPhase /\ UnitKnown /\ (phase = "mmc" => mmc_rca = MMC_DEFAULT_RCA)
        /\ ~mmc_card_is_sd /\ (mmc_card_is_sdhc => card.kind = "SDHC")
    BY DEF MInv, Rca, Answered, Searching
  <1>4. CardOK(card') /\ card'.kind = card.kind
    <2>1. IsSd(card) \/ (card.kind = "MMC" /\ mmc_rca = MMC_DEFAULT_RCA)
      BY <1>3 DEF KindOfPhase
    <2>2. CardOK(card) /\ rca \in Rcas
      BY DEF MInv
    <2>3. CardOK(a.card)
      BY <2>1, <2>2, CommandOK
    <2>4. a.card.kind = card.kind
      BY <2>2, KindKept
    <2> QED
      BY <1>1, <2>2, <2>3, <2>4
  <1>5. ASSUME UNCHANGED mmc_card_is_sd PROVE SearchStep
    BY <1>2, <1>3, <1>4, <1>5 DEF MInv, Rca, SearchStep, Places, TypeOK
  <1>6. CASE got = NONE
    BY <1>0, <1>5, <1>6, FailedOK
  <1>7. got # NONE =>
          /\ card'.state = "stby" /\ a.reply = [r |-> "R6", rca |-> card'.rca]
          /\ card'.rca \in Rcas \cup {BAD, MMC_DEFAULT_RCA}
          /\ phase = "mmc" => card'.rca = mmc_rca
    BY <1>1, <1>3, <1>4
       DEF RelativeAddr, Goto, Ans, Silent, MInv, CardOK, CardType, KindOfPhase, IsSd, BAD
  <1>8. CASE got # NONE /\ phase = "mmc"
    <2>1. Continue("csd") /\ pc' = "csd" /\ UNCHANGED <<mmc_card_is_sd, mmc_rca, mmc_card_is_sdhc>>
      BY <1>0, <1>8 DEF Continue, Rca
    <2>2. UnitKnown' /\ mmc_card_is_sd' = FALSE /\ ~IsSd(card')
      BY <1>3, <1>4, <1>8, <2>1 DEF UnitKnown, KindOfPhase, IsSd, MInv, TypeOK
    <2>3. mmc_card_is_sd' <=> IsSd(card')
      BY <2>2 DEF IsSd
    <2>4. mmc_rca' = card'.rca
      BY <1>7, <1>8, <2>1
    <2>5. Searching' /\ Answered'
      BY <1>7, <1>8, <2>1, <2>2, <2>3, <2>4 DEF Searching, Answered
    <2> QED
      BY <1>5, <2>1, <2>5, ContinueOK
  <1>9. CASE got # NONE /\ phase # "mmc"
    <2>1. /\ mmc_rca' = (IF got.r = "R6" THEN got.rca ELSE BAD)
          /\ mmc_card_is_sd' = TRUE /\ mmc_card_is_sdhc' = mmc_card_is_sdhc
          /\ pc' = "csd" /\ phase' = phase /\ last' = last
      BY <1>0, <1>9 DEF Rca
    <2>2. mmc_rca' \in {card'.rca, BAD}
      BY <1>1, <1>7, <1>9, <2>1 DEF R
    <2>3. UnitKnown' /\ IsSd(card')
      BY <1>3, <1>4, <1>9, <2>1 DEF UnitKnown, KindOfPhase, IsSd
    <2>4. Searching' /\ Answered'
      BY <1>7, <1>9, <2>1, <2>2, <2>3 DEF Searching, Answered
    <2>5. TypeOK'
      BY <1>2, <1>4, <1>7, <1>9, <2>1, <2>2 DEF MInv, TypeOK, CardOK, CardType, Rca, initvars, params, bounds
    <2>6. last.call = "none"
      BY DEF MInv, Gathered, Rca
    <2>7. Selected' /\ Gathered' /\ Identified' /\ ReadRight'
      BY <2>1, <2>6 DEF Selected, Gathered, Identified, ReadRight, Reading
    <2> QED
      BY <1>4, <2>4, <2>5, <2>7 DEF MInv
  <1> QED
    BY <1>6, <1>8, <1>9

-----------------------------------------------------------------------------
(* Reading.                                                                *)

\* A command that goes to one card leaves its address alone, and does not take it
\* out of the two states in which it has one.
LEMMA AddressKept ==
  ASSUME NEW c, CardOK(c), NEW a
  PROVE  /\ \A d \in {SendCsd(c, a).card, SendStatus(c, a).card, InTran(c).card} :
              d.state = c.state /\ d.rca = c.rca
         /\ Select(c, a).card.rca = c.rca
         /\ Select(c, a).card.state \in {"stby", "tran"} <=> c.state \in {"stby", "tran"}
         /\ Select(c, a).reply # NONE => Select(c, a).card.state = "tran" /\ c.rca = a
  BY DEF CardOK, CardType, SendCsd, SendStatus, InTran, Select, Ans, Goto, Silent

\* d is the card c, with its address
Same(c, d) ==
  /\ CardOK(d) /\ d.kind = c.kind /\ d.rca = c.rca
  /\ d.state \in {"stby", "tran"} <=> c.state \in {"stby", "tran"}

\* The commands of a read leave the card what and where it is.
LEMMA SameCard ==
  ASSUME NEW c, CardOK(c), NEW a
  PROVE  /\ Same(c, c) /\ Same(c, Select(c, a).card)
         /\ Same(c, InTran(c).card) /\ Same(c, SendStatus(c, a).card)
  <1>1. Same(c, c) /\ Same(c, Select(c, a).card)
    BY CommandOK, KindKept, AddressKept DEF Same
  <1>2. Same(c, InTran(c).card)
    BY CommandOK, KindKept, AddressKept DEF Same
  <1>3. Same(c, SendStatus(c, a).card)
    <2>1. CardOK(SendStatus(c, a).card)
      BY CommandOK
    <2>2. SendStatus(c, a).card.kind = c.kind
      BY KindKept
    <2>3. SendStatus(c, a).card.state = c.state /\ SendStatus(c, a).card.rca = c.rca
      BY AddressKept
    <2> QED
      BY <2>1, <2>2, <2>3 DEF Same
  <1> QED
    BY <1>1, <1>2, <1>3

\* What every step of mmc_bread leaves alone, and what it keeps
ReadStep ==
  /\ pc \in Reading
  /\ faults' \in 0 .. MaxFaults /\ calm' \in BOOLEAN
  /\ Same(card, card')
  /\ UNCHANGED breadvars

\* A step inside a read keeps the invariant, if it keeps count of the blocks.
LEMMA ReadGoesOn ==
  ASSUME MInv, ReadStep, pc' \in Reading, last' = last,
         pc' \in {"blocklen", "read", "data"} => card'.state = "tran" /\ card'.rca = mmc_rca,
         i' \in 0 .. blkcnt, pc' \in {"read", "data"} => i' < blkcnt,
         buffer' \in Seq(0 .. Blocks), buffer' = BlocksFrom(i'),
         sending' \in {<<>>} \cup {<<b>> : b \in 0 .. Blocks},
         pc' = "data" => sending' \in {<<>>, <<start + i'>>}
  PROVE  MInv'
  <1>1. UNCHANGED <<mmc_rca, mmc_card_is_sd, mmc_card_is_sdhc, blksz, phase, polls,
                    start, blkcnt, caller, ready, calls, inserts>>
    BY DEF ReadStep, breadvars, globals, bounds
  <1>2. last.call = "none" /\ blksz = BLKSZ
    BY DEF MInv, Gathered, ReadStep
  <1>3. TypeOK'
    BY <1>1, <1>2 DEF MInv, TypeOK, ReadStep, Same, Reading, CardOK, CardType
  <1>4. Selected'
    BY <1>1 DEF MInv, Selected, ReadStep, Same, Found, UnitKnown, IsSd, Reading
  <1>5. buffer' = BlocksFrom(i)'
    BY <1>1 DEF BlocksFrom
  <1>6. Gathered'
    BY <1>1, <1>2, <1>5 DEF Gathered
  <1>7. Searching' /\ Answered' /\ Identified' /\ ReadRight'
    BY DEF Searching, Answered, Identified, ReadRight, Reading
  <1> QED
    BY <1>3, <1>4, <1>6, <1>7 DEF MInv, ReadStep, Same

\* So does its end: mmc_init accepts the card that is there, and a file system is
\* told of the blocks that have come.
LEMMA ReadEnds ==
  ASSUME MInv, ReadStep, End, UNCHANGED <<i, buffer, sending>>
  PROVE  MInv'
  <1>1. UNCHANGED <<mmc_rca, mmc_card_is_sd, mmc_card_is_sdhc, blksz, phase, polls,
                    start, blkcnt, caller, ready, calls, inserts, i, buffer, sending>>
    BY DEF ReadStep, breadvars, globals, bounds
  <1>2. /\ pc' = "prompt"
        /\ last' = IF caller = "init" THEN [call |-> "init", ok |-> TRUE]
                                      ELSE [call |-> "read", n |-> i]
    BY DEF End, Return
  <1>3. last' \in [call : {"none"}] \cup [call : {"init"}, ok : BOOLEAN]
                   \cup [call : {"read"}, n : 0 .. blkcnt]
    <2>1. [call |-> "init", ok |-> TRUE] \in [call : {"init"}, ok : BOOLEAN]
      OBVIOUS
    <2>2. i \in 0 .. blkcnt
      BY DEF MInv, TypeOK
    <2> QED
      BY <1>2, <2>1, <2>2
  <1>4. TypeOK'
    BY <1>1, <1>2, <1>3 DEF MInv, TypeOK, ReadStep, Same, CardOK, CardType
  <1>5. Selected'
    BY <1>1, <1>2 DEF MInv, Selected, ReadStep, Same, Found, UnitKnown, IsSd, Reading
  <1>6. Searching' /\ Answered' /\ Gathered'
    BY <1>2 DEF Searching, Answered, Gathered, Reading
  <1>7. Identified'
    <2>1. CASE caller = "init"
      <3>1. Found' /\ UnitKnown' /\ (mmc_card_is_sd' <=> IsSd(card'))
        BY <1>1, <2>1 DEF MInv, Selected, ReadStep, Same, Found, UnitKnown, IsSd
      <3> QED
        BY <3>1, <1>4 DEF Identified, Found, UnitKnown, TypeOK, IsSd
    <2>2. CASE caller # "init"
      BY <1>2, <2>2 DEF Identified
    <2> QED
      BY <2>1, <2>2
  <1>8. ReadRight'
    <2>1. buffer = BlocksFrom(i)
      BY DEF MInv, Gathered, ReadStep
    <2> QED
      BY <1>1, <1>2, <2>1 DEF ReadRight, BlocksFrom
  <1> QED
    BY <1>4, <1>5, <1>6, <1>7, <1>8 DEF MInv, ReadStep, Same

\* What a read has of the invariant before its next step.
LEMMA ReadNow ==
  ASSUME MInv, pc \in Reading
  PROVE  /\ CardOK(card) /\ i \in 0 .. blkcnt /\ blkcnt \in Nat /\ start \in Nat
         /\ buffer \in Seq(0 .. Blocks) /\ buffer = BlocksFrom(i)
         /\ sending \in {<<>>} \cup {<<b>> : b \in 0 .. Blocks}
  <1>1. CardOK(card) /\ i \in 0 .. blkcnt /\ buffer \in Seq(0 .. Blocks) /\ buffer = BlocksFrom(i)
        /\ sending \in {<<>>} \cup {<<b>> : b \in 0 .. Blocks}
    BY DEF MInv, TypeOK, Gathered
  <1>2. blkcnt \in Nat /\ start \in Nat
    BY MmcAssumption DEF MInv, TypeOK
  <1> QED
    BY <1>1, <1>2

\* A card that answers SELECT_CARD is the one that is meant.
LEMMA SelectCardOK == MInv /\ SelectCard => MInv'
  <1> SUFFICES ASSUME MInv, SelectCard PROVE MInv'
    OBVIOUS
  <1>0. PICK got \in Replies : /\ Cmd(Select(card, mmc_rca), got)
                               /\ pc' = IF got = NONE THEN "status" ELSE "blocklen"
    BY DEF SelectCard
  <1>1. /\ card' = card \/ card' = Select(card, mmc_rca).card
        /\ got # NONE => card' = Select(card, mmc_rca).card /\ Select(card, mmc_rca).reply # NONE
    BY <1>0, CmdCases DEF MInv
  <1>2. faults' \in 0 .. MaxFaults /\ calm' \in BOOLEAN
    BY <1>0, CmdCases DEF MInv
  <1>3. CardOK(card) /\ pc \in Reading
    BY DEF MInv, SelectCard, Reading
  <1>4. ReadStep
    BY <1>1, <1>2, <1>3, SameCard DEF ReadStep, SelectCard
  <1>5. pc' = "blocklen" => card'.state = "tran" /\ card'.rca = mmc_rca
    BY <1>0, <1>1, <1>3, AddressKept
  <1>6. pc' \in {"status", "blocklen"} /\ UNCHANGED <<i, buffer, sending, last>>
    BY <1>0 DEF SelectCard
  <1> QED
    BY <1>3, <1>4, <1>5, <1>6, ReadNow, ReadGoesOn DEF Reading

\* SET_BLOCKLEN leads to the first block if there is one.
LEMMA SetBlocklenOK == MInv /\ SetBlocklen => MInv'
  <1> SUFFICES ASSUME MInv, SetBlocklen PROVE MInv'
    OBVIOUS
  <1>0. PICK got \in Replies : /\ Cmd(InTran(card), got)
                               /\ pc' = IF got = NONE THEN "status" ELSE NextBlock(i)
    BY DEF SetBlocklen
  <1>1. card' = card \/ card' = InTran(card).card
    BY <1>0, CmdCases DEF MInv
  <1>2. faults' \in 0 .. MaxFaults /\ calm' \in BOOLEAN
    BY <1>0, CmdCases DEF MInv
  <1>3. CardOK(card) /\ pc \in Reading /\ card.state = "tran" /\ card.rca = mmc_rca
    BY DEF MInv, SetBlocklen, Reading, Selected
  <1>4. ReadStep /\ card'.state = "tran" /\ card'.rca = mmc_rca
    <2>1. ReadStep
      BY <1>1, <1>2, <1>3, SameCard DEF ReadStep, SetBlocklen
    <2>2. card'.state = card.state /\ card'.rca = card.rca
      BY <1>1, <1>3, AddressKept
    <2> QED
      BY <1>3, <2>1, <2>2
  <1>5. /\ pc' \in {"status", "read", "deselect"} /\ (pc' = "read" => i < blkcnt)
        /\ UNCHANGED <<i, buffer, sending, last>>
    BY <1>0 DEF SetBlocklen, NextBlock
  <1> QED
    BY <1>3, <1>4, <1>5, ReadNow, ReadGoesOn DEF Reading

\* The address names the block that is wanted, whatever the unit of the card is.
LEMMA AddressRight ==
  ASSUME MInv, pc = "read"
  PROVE  DataAt(card, Address) \in {<<>>, <<start + i>>}
            /\ (DataAt(card, Address) # <<>> => start + i \in 0 .. Blocks)
            /\ (start + i < Blocks => DataAt(card, Address) = <<start + i>>)
  <1>1. UnitKnown
    BY DEF MInv, Selected, Reading, Found
  <1>2. start + i \in Nat /\ blksz = 2 /\ Blocks \in Nat
    <2>1. pc \in Reading
      BY DEF Reading
    <2>2. start \in Nat /\ i \in Nat
      BY <2>1, ReadNow
    <2> QED
      BY <2>1, <2>2, MmcAssumption DEF MInv, Gathered, BLKSZ
  <1>3. ((start + i) * 2) \div 2 = start + i
    BY <1>2
  <1>4. CASE card.kind = "SDHC"
    <2>1. Address = start + i
      BY <1>1, <1>4 DEF Address, UnitKnown
    <2> QED
      BY <1>2, <1>4, <2>1 DEF DataAt
  <1>5. CASE card.kind # "SDHC"
    <2>1. Address = (start + i) * 2
      BY <1>1, <1>2, <1>5 DEF Address, UnitKnown
    <2>2. Address \div BLKSZ = start + i
      BY <1>3, <2>1 DEF BLKSZ
    <2> QED
      BY <1>2, <1>5, <2>2 DEF DataAt
  <1> QED
    BY <1>4, <1>5

\* READ_SINGLE_BLOCK brings the block that is next, or none.
LEMMA ReadSingleBlockOK == MInv /\ ReadSingleBlock => MInv'
  <1> SUFFICES ASSUME MInv, ReadSingleBlock PROVE MInv'
    OBVIOUS
  <1>0. PICK got \in Replies : /\ Cmd(InTran(card), got)
                               /\ pc' = IF got = NONE THEN "status" ELSE "data"
                               /\ sending' = IF got = NONE THEN <<>> ELSE DataAt(card, Address)
    BY DEF ReadSingleBlock
  <1>1. card' = card \/ card' = InTran(card).card
    BY <1>0, CmdCases DEF MInv
  <1>2. faults' \in 0 .. MaxFaults /\ calm' \in BOOLEAN
    BY <1>0, CmdCases DEF MInv
  <1>3. CardOK(card) /\ pc \in Reading /\ card.state = "tran" /\ card.rca = mmc_rca
    BY DEF MInv, ReadSingleBlock, Reading, Selected
  <1>4. ReadStep /\ card'.state = "tran" /\ card'.rca = mmc_rca
    <2>1. ReadStep
      BY <1>1, <1>2, <1>3, SameCard DEF ReadStep, ReadSingleBlock
    <2>2. card'.state = card.state /\ card'.rca = card.rca
      BY <1>1, <1>3, AddressKept
    <2> QED
      BY <1>3, <2>1, <2>2
  <1>5. pc' \in {"status", "data"} /\ i < blkcnt /\ UNCHANGED <<i, buffer, last>>
    BY <1>0 DEF ReadSingleBlock, MInv, Gathered
  <1>6. /\ sending' \in {<<>>} \cup {<<b>> : b \in 0 .. Blocks}
        /\ sending' \in {<<>>, <<start + i>>}
    <2>1. pc = "read"
      BY DEF ReadSingleBlock
    <2> QED
      BY <1>0, <2>1, AddressRight
  <1> QED
    BY <1>3, <1>4, <1>5, <1>6, ReadNow, ReadGoesOn DEF Reading

\* A block that has come is the next one.
LEMMA OneMore ==
  ASSUME NEW s \in Nat, NEW n \in Nat, NEW b \in Seq(0 .. Blocks), s + n \in 0 .. Blocks,
         b = [k \in 1 .. n |-> s + k - 1]
  PROVE  /\ b \o <<s + n>> \in Seq(0 .. Blocks)
         /\ b \o <<s + n>> = [k \in 1 .. n + 1 |-> s + k - 1]
  <1> DEFINE c == Append(b, s + n)
             d == [k \in 1 .. n + 1 |-> s + k - 1]
  <1>1. c = b \o <<s + n>> /\ c \in Seq(0 .. Blocks)
    BY AppendIsConcat, AppendProperties
  <1>2. Len(b) = n /\ DOMAIN b = 1 .. n
    <2>1. DOMAIN b = 1 .. n
      OBVIOUS
    <2>2. DOMAIN b = 1 .. Len(b) /\ Len(b) \in Nat
      BY LenProperties
    <2> QED
      BY <2>1, <2>2
  <1>3. Len(c) = n + 1 /\ (\A k \in 1 .. n : c[k] = b[k]) /\ c[n + 1] = s + n
    BY <1>2, AppendProperties
  <1>4. \A k \in 1 .. n + 1 : c[k] = d[k]
    BY <1>3
  <1>5. DOMAIN c = 1 .. n + 1 /\ c = [k \in DOMAIN c |-> c[k]]
    BY <1>1, <1>3, LenProperties
  <1>6. c = d
    BY <1>4, <1>5
  <1> QED
    BY <1>1, <1>6

\* A block that has come is added and counted, one that has not is neither.
LEMMA DataOK == MInv /\ Data => MInv'
  <1> SUFFICES ASSUME MInv, Data PROVE MInv'
    OBVIOUS
  <1>1. /\ pc = "data" /\ pc \in Reading /\ CardOK(card) /\ card.state = "tran" /\ card.rca = mmc_rca
        /\ i < blkcnt /\ sending \in {<<>>, <<start + i>>}
    BY DEF MInv, Data, Reading, Selected, Gathered
  <1>2. faults' \in 0 .. MaxFaults /\ calm' \in BOOLEAN
    <2>1. faults \in 0 .. MaxFaults /\ MaxFaults \in Nat /\ calm \in BOOLEAN
      BY MmcAssumption DEF MInv, TypeOK
    <2>2. Fault => faults' \in 0 .. MaxFaults
      BY <2>1 DEF Fault
    <2>3. Fault => calm' \in BOOLEAN
      BY DEF Fault
    <2> QED
      BY <2>1, <2>2, <2>3 DEF Data
  <1>3. ReadStep /\ card' = card
    BY <1>1, <1>2, SameCard DEF ReadStep, Data
  <1>4. sending' = <<>> /\ last' = last
    BY DEF Data
  <1>5. CASE sending # <<>> /\ i' = i + 1 /\ buffer' = buffer \o sending /\ pc' = NextBlock(i + 1)
    <2>1. /\ start \in Nat /\ i \in Nat /\ blkcnt \in Nat /\ buffer \in Seq(0 .. Blocks)
          /\ buffer = [k \in 1 .. i |-> start + k - 1]
      BY <1>1, ReadNow DEF BlocksFrom
    <2>2. sending = <<start + i>> /\ start + i \in 0 .. Blocks
      <3>1. sending = <<start + i>>
        BY <1>1, <1>5
      <3>2. PICK b \in 0 .. Blocks : sending = <<b>>
        BY <1>1, <1>5, ReadNow
      <3> QED
        BY <3>1, <3>2
    <2>3. buffer' \in Seq(0 .. Blocks) /\ buffer' = BlocksFrom(i')
      BY <1>5, <2>1, <2>2, OneMore DEF BlocksFrom
    <2>4. i' \in 0 .. blkcnt
      BY <1>1, <1>5, <2>1
    <2>5. pc' \in {"read", "deselect"} /\ (pc' = "read" => i' < blkcnt)
      BY <1>5 DEF NextBlock
    <2> QED
      BY <1>1, <1>3, <1>4, <2>3, <2>4, <2>5, ReadGoesOn DEF Reading
  <1>6. CASE pc' = "status" /\ UNCHANGED <<i, buffer>>
    BY <1>1, <1>3, <1>4, <1>6, ReadNow, ReadGoesOn DEF Reading
  <1> QED
    BY <1>5, <1>6 DEF Data

\* SEND_STATUS changes nothing.
LEMMA StatusOK == MInv /\ Status => MInv'
  <1> SUFFICES ASSUME MInv, Status PROVE MInv'
    OBVIOUS
  <1>0. PICK got \in Replies : Cmd(SendStatus(card, mmc_rca), got)
    BY DEF Status
  <1>1. card' = card \/ card' = SendStatus(card, mmc_rca).card
    BY <1>0, CmdCases DEF MInv
  <1>2. faults' \in 0 .. MaxFaults /\ calm' \in BOOLEAN
    BY <1>0, CmdCases DEF MInv
  <1>3. CardOK(card) /\ pc \in Reading
    BY DEF MInv, Status, Reading
  <1>4. ReadStep
    BY <1>1, <1>2, <1>3, SameCard DEF ReadStep, Status
  <1>5. pc' = "deselect" /\ UNCHANGED <<i, buffer, sending, last>>
    BY DEF Status
  <1> QED
    BY <1>3, <1>4, <1>5, ReadNow, ReadGoesOn DEF Reading

\* The last command of a read takes the address of no card.
LEMMA DeselectOK == MInv /\ Deselect => MInv'
  <1> SUFFICES ASSUME MInv, Deselect PROVE MInv'
    OBVIOUS
  <1>1. card' = card \/ card' = Select(card, 0).card
    BY CmdCases DEF MInv, Deselect
  <1>2. faults' \in 0 .. MaxFaults /\ calm' \in BOOLEAN
    BY CmdCases DEF MInv, Deselect
  <1>3. CardOK(card) /\ pc \in Reading
    BY DEF MInv, Deselect, Reading
  <1>4. ReadStep
    BY <1>1, <1>2, <1>3, SameCard DEF ReadStep, Deselect
  <1> QED
    BY <1>4, ReadEnds DEF Deselect

-----------------------------------------------------------------------------
(* The beginnings, and the exchange of the card.                           *)

\* What the begin of a call does.
LEMMA BeginKeeps ==
  ASSUME MInv, Begin
  PROVE  /\ calls' \in 0 .. MaxCalls /\ calm' \in BOOLEAN /\ last' = [call |-> "none"]
         /\ UNCHANGED <<card, faults, inserts>> /\ pc = "prompt"
  <1>1. calls \in 0 .. MaxCalls /\ MaxCalls \in Nat
    BY MmcAssumption DEF MInv, TypeOK
  <1>2. calls' \in 0 .. MaxCalls
    BY <1>1 DEF Begin
  <1>3. calm' \in BOOLEAN
    BY DEF Begin
  <1> QED
    BY <1>2, <1>3 DEF Begin

\* mmc_init forgets the kind of the last card.
LEMMA MmcInitOK == MInv /\ MmcInit => MInv'
  <1> SUFFICES ASSUME MInv, MmcInit PROVE MInv'
    OBVIOUS
  <1>1. /\ calls' \in 0 .. MaxCalls /\ calm' \in BOOLEAN /\ last' = [call |-> "none"]
        /\ UNCHANGED <<card, faults, inserts>>
    BY BeginKeeps DEF MmcInit
  <1>2. /\ pc' = "idle" /\ phase' = "sdhc" /\ mmc_card_is_sd' = FALSE /\ mmc_card_is_sdhc' = FALSE
        /\ UNCHANGED <<mmc_rca, blksz, polls, start, blkcnt, i, caller, buffer, sending, ready>>
    BY DEF MmcInit, params
  <1>3. TypeOK'
    <2>1. {mmc_card_is_sd', mmc_card_is_sdhc', calm', ready'} \subseteq BOOLEAN
      BY <1>1, <1>2 DEF MInv, TypeOK
    <2> QED
      BY <1>1, <1>2, <2>1 DEF MInv, TypeOK
  <1>4. Searching' /\ Answered' /\ Selected' /\ Gathered' /\ Identified' /\ ReadRight'
    BY <1>1, <1>2 DEF Searching, Answered, Selected, Gathered, Identified, ReadRight, Reading
  <1> QED
    BY <1>1, <1>3, <1>4 DEF MInv

\* mmc_bread begins without a block.
LEMMA BreadOK == \A s \in 0 .. Blocks, n \in Sizes : MInv /\ Bread(s, n) => MInv'
  <1> SUFFICES ASSUME NEW s \in 0 .. Blocks, NEW n \in Sizes, MInv, Bread(s, n) PROVE MInv'
    OBVIOUS
  <1>1. /\ calls' \in 0 .. MaxCalls /\ calm' \in BOOLEAN /\ last' = [call |-> "none"]
        /\ UNCHANGED <<card, faults, inserts>> /\ pc = "prompt"
    BY BeginKeeps DEF Bread
  <1>2. /\ pc' = "select" /\ caller' = "fat" /\ start' = s /\ blkcnt' = n
        /\ i' = 0 /\ buffer' = <<>> /\ sending' = <<>> /\ ready' = Selectable
        /\ UNCHANGED <<mmc_rca, mmc_card_is_sd, mmc_card_is_sdhc, blksz, phase, polls>>
        /\ blksz # 0
    BY DEF Bread, Enter, globals
  <1>3. n \in Nat \ {0}
    BY MmcAssumption
  <1>4. buffer' = BlocksFrom(i)' /\ buffer' \in Seq(0 .. Blocks)
    <2>1. <<>> = [k \in 1 .. 0 |-> s + k - 1]
      OBVIOUS
    <2> QED
      BY <1>2, <2>1 DEF BlocksFrom
  <1>5. TypeOK'
    <2>1. {mmc_card_is_sd', mmc_card_is_sdhc', calm', ready'} \subseteq BOOLEAN
      BY <1>1, <1>2 DEF MInv, TypeOK, Selectable
    <2>2. i' \in 0 .. blkcnt' /\ blkcnt' \in Sizes \cup {0, 1}
      BY <1>2, <1>3
    <2> QED
      BY <1>1, <1>2, <1>4, <2>1, <2>2 DEF MInv, TypeOK
  <1>6. Selected'
    BY <1>1, <1>2 DEF MInv, Selected, Found, UnitKnown, Reading
  <1>7. Gathered'
    BY <1>1, <1>2, <1>4 DEF MInv, TypeOK, Gathered
  <1>8. Searching' /\ Answered' /\ Identified' /\ ReadRight'
    BY <1>2 DEF Searching, Answered, Identified, ReadRight
  <1> QED
    BY <1>1, <1>5, <1>6, <1>7, <1>8 DEF MInv

\* mmc_init goes on to the first block only with a card that has the address it uses.
LEMMA CsdOK == MInv /\ Csd => MInv'
  <1> SUFFICES ASSUME MInv, Csd PROVE MInv'
    OBVIOUS
  <1>0. PICK got \in Replies, ok \in BOOLEAN :
          /\ Cmd(SendCsd(card, mmc_rca), got)
          /\ (got = NONE => ~ok) /\ (got.r = "R2" => ok)
          /\ IF ok THEN Enter("init", 0, 1) /\ blksz' = BLKSZ /\ UNCHANGED last
             ELSE Return([call |-> "init", ok |-> FALSE]) /\ UNCHANGED <<params, blksz>>
    BY DEF Csd
  <1>1. /\ card' = card \/ card' = SendCsd(card, mmc_rca).card
        /\ got # NONE => SendCsd(card, mmc_rca).reply # NONE
    BY <1>0, CmdCases DEF MInv
  <1>2. faults' \in 0 .. MaxFaults /\ calm' \in BOOLEAN
    BY <1>0, CmdCases DEF MInv
  <1>3. CardOK(card) /\ pc = "csd" /\ last.call = "none" /\ last \in [call : {"none"}]
    BY DEF MInv, Csd, Gathered, TypeOK
  <1>4. CardOK(card') /\ card'.kind = card.kind /\ card'.rca = card.rca /\ card'.state = card.state
    <2> DEFINE d == SendCsd(card, mmc_rca).card
    <2>1. CardOK(d)
      BY <1>3, CommandOK
    <2>2. d.kind = card.kind
      BY <1>3, KindKept
    <2>3. d.rca = card.rca /\ d.state = card.state
      BY <1>3, AddressKept
    <2> QED
      BY <1>1, <1>3, <2>1, <2>2, <2>3
  <1>5. UNCHANGED <<mmc_rca, mmc_card_is_sd, mmc_card_is_sdhc, phase, polls, ready, calls, inserts>>
    BY DEF Csd, bounds
  <1>6. \/ card.state = "idle"
        \/ /\ card.state = "stby" /\ UnitKnown /\ (mmc_card_is_sd <=> IsSd(card))
           /\ mmc_rca \in {card.rca, BAD}
    BY <1>3 DEF MInv, Answered
  <1>7. CASE ok
    <2>1. /\ pc' = "select" /\ caller' = "init" /\ start' = 0 /\ blkcnt' = 1
          /\ i' = 0 /\ buffer' = <<>> /\ sending' = <<>> /\ blksz' = BLKSZ /\ last' = last
      BY <1>0, <1>7 DEF Enter
    <2>2. card.state = "stby" /\ card.rca = mmc_rca
      BY <1>0, <1>1, <1>7 DEF SendCsd, Silent, Ans
    <2>3. Found' /\ UnitKnown' /\ (mmc_card_is_sd' <=> IsSd(card'))
      BY <1>4, <1>5, <1>6, <2>2 DEF Found, UnitKnown, IsSd
    <2>4. buffer' = BlocksFrom(i)' /\ buffer' \in Seq(0 .. Blocks)
      <3>1. <<>> = [k \in 1 .. 0 |-> 0 + k - 1]
        OBVIOUS
      <3> QED
        BY <2>1, <3>1 DEF BlocksFrom
    <2>5. TypeOK'
      BY <1>2, <1>3, <1>4, <1>5, <2>1, <2>4, MmcAssumption DEF MInv, TypeOK, CardOK, CardType
    <2>6. Selected' /\ Gathered'
      BY <1>3, <2>1, <2>3, <2>4 DEF Selected, Gathered
    <2>7. Searching' /\ Answered' /\ Identified' /\ ReadRight'
      BY <2>1 DEF Searching, Answered, Identified, ReadRight
    <2> QED
      BY <1>4, <2>5, <2>6, <2>7 DEF MInv
  <1>8. CASE ~ok
    <2>1. /\ pc' = "prompt" /\ last' = [call |-> "init", ok |-> FALSE]
          /\ UNCHANGED <<start, blkcnt, i, caller, buffer, sending, blksz>>
      BY <1>0, <1>8 DEF Return, params
    <2>2. [call |-> "init", ok |-> FALSE] \in [call : {"init"}, ok : BOOLEAN]
      OBVIOUS
    <2>3. TypeOK'
      BY <1>2, <1>4, <1>5, <2>1, <2>2 DEF MInv, TypeOK, CardOK, CardType
    <2>4. Selected'
      BY <1>4, <1>5, <1>6, <2>1 DEF Selected, Found, UnitKnown, Reading
    <2>5. Searching' /\ Answered' /\ Gathered' /\ Identified' /\ ReadRight'
      BY <2>1 DEF Searching, Answered, Gathered, Identified, ReadRight, Reading
    <2> QED
      BY <1>4, <2>3, <2>4, <2>5 DEF MInv
  <1> QED
    BY <1>7, <1>8

\* A card that has been put in has no address.
LEMMA InsertOK == MInv /\ Insert => MInv'
  <1> SUFFICES ASSUME MInv, Insert PROVE MInv'
    OBVIOUS
  <1>1. PICK k \in Kinds, s \in 0 .. MaxPolls - 1 : card' = Fresh(k, s)
    BY DEF Insert
  <1>2. CardOK(card') /\ card'.state = "idle"
    <2>1. s \in 0 .. MaxPolls
      BY MmcAssumption
    <2> QED
      BY <1>1, <2>1, FreshOK DEF Fresh
  <1>3. inserts' \in 0 .. MaxInserts
    <2>1. inserts \in 0 .. MaxInserts /\ MaxInserts \in Nat
      BY MmcAssumption DEF MInv, TypeOK
    <2> QED
      BY <2>1 DEF Insert
  <1>4. pc' = "prompt" /\ last' = [call |-> "none"]
        /\ UNCHANGED <<globals, phase, polls, params, calm, ready, calls, faults>>
    BY DEF Insert
  <1>5. TypeOK'
    BY <1>2, <1>3, <1>4 DEF MInv, TypeOK, CardOK, CardType, globals, params
  <1>6. Searching' /\ Answered' /\ Selected' /\ Gathered' /\ Identified' /\ ReadRight'
    BY <1>2, <1>4 DEF Searching, Answered, Selected, Found, Gathered, Identified, ReadRight, Reading
  <1> QED
    BY <1>2, <1>5, <1>6 DEF MInv

-----------------------------------------------------------------------------
\* The program starts in the invariant.
LEMMA InitOK == Init => MInv
  <1> SUFFICES ASSUME Init PROVE MInv
    OBVIOUS
  <1>1. CardOK(card) /\ card.state = "idle"
    BY FreshOK, MmcAssumption DEF Init, EmptySlot, Fresh
  <1>2. TypeOK
    <2>1. {mmc_card_is_sd, mmc_card_is_sdhc, calm, ready} \subseteq BOOLEAN
      BY DEF Init
    <2> QED
      BY <1>1, <2>1, MmcAssumption DEF Init, TypeOK, CardOK, CardType, BAD
  <1>3. Searching /\ Answered /\ Selected /\ Gathered /\ Identified /\ ReadRight
    BY <1>1 DEF Init, Searching, Answered, Selected, Found, Gathered, Identified, ReadRight, Reading
  <1> QED
    BY <1>1, <1>2, <1>3 DEF MInv

\* Every step keeps it.
LEMMA NextOK == MInv /\ [Next]_vars => MInv'
  <1> SUFFICES ASSUME MInv, [Next]_vars PROVE MInv'
    OBVIOUS
  <1>1. CASE MmcInit \/ IdleCards \/ IfCond \/ AcmdApp \/ OpCond \/ AllCid \/ Rca \/ Csd
    BY <1>1, MmcInitOK, IdleCardsOK, IfCondOK, AcmdAppOK, OpCondOK, AllCidOK, RcaOK, CsdOK
  <1>2. CASE \E s \in 0 .. Blocks, n \in Sizes : Bread(s, n)
    BY <1>2, BreadOK
  <1>3. CASE SelectCard \/ SetBlocklen \/ ReadSingleBlock \/ Data \/ Status \/ Deselect
    BY <1>3, SelectCardOK, SetBlocklenOK, ReadSingleBlockOK, DataOK, StatusOK, DeselectOK
  <1>4. CASE Insert
    BY <1>4, InsertOK
  <1>5. CASE UNCHANGED vars
    BY <1>5 DEF vars, globals, params, bounds, MInv, TypeOK, CardOK, CardType, IsSd, Searching, Answered,
                Selected, Gathered, Identified, ReadRight, Found, UnitKnown, KindOfPhase, BlocksFrom
  <1> QED
    BY <1>1, <1>2, <1>3, <1>4, <1>5 DEF Next

\* It holds in every behaviour.
LEMMA Invariant == Spec => []MInv
  BY InitOK, NextOK, PTL DEF Spec

\* Every variable of the MMC/SD driver keeps a value of its kind: no identification
\* asks a card more often than MaxPolls (atmel_mci.c:466, 499), no read goes past
\* its count.
THEOREM TypeCorrect == Spec => []TypeOK
  <1>1. MInv => TypeOK
    BY DEF MInv
  <1> QED
    BY <1>1, Invariant, PTL

\* A card that mmc_init accepts has the address the driver uses for it and is of
\* the kind the driver takes it for, whatever has been lost, damaged or exchanged
\* (atmel_mci.c:591-605).
THEOREM CardIdentified == Spec => []Identified
  <1>1. MInv => Identified
    BY DEF MInv
  <1> QED
    BY <1>1, Invariant, PTL

\* mmc_bread gives the blocks from start on, as many as it says (atmel_mci.c:212-248).
THEOREM ReadsRight == Spec => []ReadRight
  <1>1. MInv => ReadRight
    BY DEF MInv
  <1> QED
    BY <1>1, Invariant, PTL

-----------------------------------------------------------------------------
(* Calls in which nothing goes wrong.                                      *)

\* A card that answers is ready before MaxPolls; an empty slot is nothing else
Prompt(c) == c.slow < MaxPolls /\ (c.kind = "none" => c.state = "idle" /\ c.busy = c.slow)

\* Identifications that have failed were not for this card
RightPhase ==
  pc \in Places =>
    /\ phase = "sd" => card.kind \notin {"SD2", "SDHC"}
    /\ phase = "mmc" => card.kind \notin {"SD1", "SD2", "SDHC"}
    /\ phase = "sdhc" /\ pc \notin {"idle", "if_cond"} => card.kind \in {"SD2", "SDHC"}

\* The card has been polled as often as it has counted down
PoweringUp ==
  pc \in {"if_cond", "app_cmd", "op_cond"} =>
    /\ card.state = "idle" /\ polls + card.busy = card.slow
    /\ phase = "sdhc" /\ pc # "if_cond" => card.ifCond
    /\ phase # "mmc" /\ pc = "op_cond" => card.app

Addressed == pc = "csd" => card.state = "stby" /\ card.rca = mmc_rca

Fits == caller = "fat" /\ ready /\ start + blkcnt <= Blocks

\* A read of blocks that are there comes to its end
Undisturbed ==
  pc \in Reading /\ Fits =>
    /\ pc # "status"
    /\ pc = "select" => card.state = "stby" /\ card.rca = mmc_rca
    /\ pc = "data" => sending # <<>>
    /\ pc = "deselect" => i = blkcnt

CalmInv ==
  /\ Prompt(card) /\ Recovers
  /\ calm => RightPhase /\ PoweringUp /\ Addressed /\ Undisturbed

\* No command makes a card slower, or an empty slot anything else.
LEMMA PromptKept ==
  ASSUME NEW c, CardOK(c), Prompt(c)
  PROVE  /\ Prompt(GoIdle(c).card) /\ Prompt(SendIfCond(c).card)
         /\ Prompt(AppCmd(c).card) /\ Prompt(SendOpCond(c).card)
         /\ \A hcs : Prompt(SdSendOpCond(c, hcs).card)
         /\ Prompt(AllSendCid(c).card) /\ Prompt(InTran(c).card)
         /\ \A arg, rca : Prompt(RelativeAddr(c, arg, rca).card)
         /\ \A a : Prompt(SendCsd(c, a).card) /\ Prompt(Select(c, a).card) /\ Prompt(SendStatus(c, a).card)
  <1> USE DEF CardOK, CardType, Prompt, Ans, Goto, Silent
  <1>1. Prompt(GoIdle(c).card) /\ Prompt(SendIfCond(c).card) /\ Prompt(AppCmd(c).card)
    BY DEF GoIdle, Fresh, SendIfCond, AppCmd, IsSd
  <1>2. Prompt(SendOpCond(c).card)
    BY DEF SendOpCond, PowerUp
  <1>3. \A hcs : Prompt(SdSendOpCond(c, hcs).card)
    <2>1. c.app => c.kind # "none"
      BY DEF IsSd, Kinds
    <2> QED
      BY <2>1 DEF SdSendOpCond, PowerUp
  <1>4. Prompt(AllSendCid(c).card) /\ Prompt(InTran(c).card)
    BY DEF AllSendCid, InTran
  <1>5. \A arg, rca : Prompt(RelativeAddr(c, arg, rca).card)
    BY DEF RelativeAddr
  <1>6. \A a : Prompt(SendCsd(c, a).card) /\ Prompt(Select(c, a).card) /\ Prompt(SendStatus(c, a).card)
    BY DEF SendCsd, Select, SendStatus
  <1> QED
    BY <1>1, <1>2, <1>3, <1>4, <1>5, <1>6

\* A command during which nothing goes wrong is carried out and answered.
LEMMA NoFault ==
  ASSUME NEW a, NEW got, Cmd(a, got), calm'
  PROVE  card' = a.card /\ got = a.reply /\ calm
  BY DEF Cmd, Fault

\* Where something has gone wrong nothing more is claimed of the call.
LEMMA Disturbed == ASSUME Prompt(card'), ~calm' PROVE CalmInv'
  BY DEF CalmInv, Recovers

\* One step of the search which is not its end.
LEMMA StillSearching ==
  ASSUME Prompt(card'), pc' \in Places \cup {"csd"}, calm' => RightPhase' /\ PoweringUp' /\ Addressed'
  PROVE  CalmInv'
  BY DEF CalmInv, Recovers, Undisturbed, Places, Reading

\* mmc_idle_cards: every card is as after its power-up.
LEMMA IdleCardsCalm == MInv /\ CalmInv /\ IdleCards => CalmInv'
  <1> SUFFICES ASSUME MInv, CalmInv, IdleCards PROVE CalmInv'
    OBVIOUS
  <1>1. CardOK(card) /\ Prompt(card) /\ Cmd(GoIdle(card), NONE)
    BY DEF MInv, CalmInv, IdleCards
  <1>2. Prompt(card')
    BY <1>1, CmdCases, PromptKept DEF MInv
  <1>3. /\ pc = "idle" /\ pc' = (IF phase = "sdhc" THEN "if_cond" ELSE FirstPoll)
        /\ polls' = 0 /\ phase' = phase /\ phase \in {"sdhc", "sd", "mmc"}
    BY DEF IdleCards, MInv, TypeOK
  <1>4. ASSUME calm' PROVE RightPhase' /\ PoweringUp' /\ Addressed'
    <2>1. card' = GoIdle(card).card /\ calm /\ card'.kind = card.kind
      BY <1>1, <1>4, NoFault, KindKept
    <2>2. card'.state = "idle" /\ card'.busy = card'.slow /\ card'.slow \in Nat
      BY <1>1, <2>1, MmcAssumption DEF GoIdle, Ans, Fresh, Prompt, CardOK, CardType
    <2>3. RightPhase'
      BY <1>3, <2>1 DEF CalmInv, RightPhase, Places, FirstPoll
    <2> QED
      BY <1>3, <2>2, <2>3 DEF PoweringUp, Addressed, FirstPoll
  <1> QED
    BY <1>2, <1>3, <1>4, StillSearching DEF Places, FirstPoll

\* The end of an identification in a calm call.
LEMMA FailedCalm ==
  ASSUME MInv, CalmInv, Failed, pc \in Places, Prompt(card'),
         calm' => /\ phase = "sdhc" => card'.kind \notin {"SD2", "SDHC"}
                  /\ phase = "sd" => card'.kind \notin {"SD1", "SD2", "SDHC"}
                  /\ phase = "mmc" => card'.kind = "none"
  PROVE  CalmInv'
  <1>1. phase \in {"sdhc", "sd", "mmc"}
    BY DEF MInv, TypeOK
  <1>2. CASE phase \in {"sdhc", "sd"}
    <2>1. pc' = "idle" /\ phase' = (IF phase = "sdhc" THEN "sd" ELSE "mmc")
      BY <1>2 DEF Failed
    <2> QED
      BY <1>2, <2>1, StillSearching DEF Places, RightPhase, PoweringUp, Addressed
  <1>3. CASE phase = "mmc"
    <2>1. pc' = "prompt" /\ last' = [call |-> "init", ok |-> FALSE]
      BY <1>3 DEF Failed, Return
    <2>2. calm' => card'.kind = "none" /\ card'.state = "idle"
      BY <1>3 DEF Prompt
    <2> QED
      BY <2>1, <2>2 DEF CalmInv, Recovers, RightPhase, PoweringUp, Addressed, Undisturbed, Places, Reading
  <1> QED
    BY <1>1, <1>2, <1>3

\* Only a card of version 2 answers SEND_IF_COND.
LEMMA IfCondCalm == MInv /\ CalmInv /\ IfCond => CalmInv'
  <1> SUFFICES ASSUME MInv, CalmInv, IfCond PROVE CalmInv'
    OBVIOUS
  <1>0. PICK got \in Replies :
          /\ Cmd(SendIfCond(card), got)
          /\ CASE got = NONE    -> Failed
               [] got.r = "R7"  -> Continue("app_cmd")
               [] OTHER         -> Continue("csd")
    BY DEF IfCond
  <1>1. CardOK(card) /\ Prompt(card) /\ pc = "if_cond" /\ phase = "sdhc" /\ polls' = polls
    BY DEF MInv, CalmInv, IfCond, Searching
  <1>2. Prompt(card')
    BY <1>0, <1>1, CmdCases, PromptKept DEF MInv
  <1>3. CASE ~calm'
    BY <1>2, <1>3, Disturbed
  <1>4. CASE calm'
    <2>1. card' = SendIfCond(card).card /\ got = SendIfCond(card).reply /\ calm /\ card'.kind = card.kind
      BY <1>0, <1>1, <1>4, NoFault, KindKept
    <2>2. card.state = "idle" /\ polls + card.busy = card.slow
      BY <1>1, <2>1 DEF CalmInv, PoweringUp
    <2>3. CASE card.kind \in {"SD2", "SDHC"}
      <3>1. got = R("R7") /\ card'.ifCond /\ card'.state = "idle" /\ polls' + card'.busy = card'.slow
        BY <1>1, <2>1, <2>2, <2>3 DEF SendIfCond, Ans, CardOK, CardType
      <3>2. Continue("app_cmd")
        BY <1>0, <3>1 DEF R, NONE
      <3> QED
        BY <1>1, <1>2, <2>1, <2>3, <3>1, <3>2, StillSearching
        DEF Continue, Places, RightPhase, PoweringUp, Addressed
    <2>4. CASE card.kind \notin {"SD2", "SDHC"}
      <3>1. got = NONE
        BY <2>1, <2>4 DEF SendIfCond, Silent, Ans
      <3>2. Failed
        BY <1>0, <3>1 DEF NONE
      <3> QED
        BY <1>1, <1>2, <2>1, <2>4, <3>2, FailedCalm DEF Places
    <2> QED
      BY <2>3, <2>4
  <1> QED
    BY <1>3, <1>4

\* Only an SD card answers CMD55.
LEMMA AcmdAppCalm == MInv /\ CalmInv /\ AcmdApp => CalmInv'
  <1> SUFFICES ASSUME MInv, CalmInv, AcmdApp PROVE CalmInv'
    OBVIOUS
  <1>0. PICK got \in Replies : /\ Cmd(AppCmd(card), got)
                               /\ IF got.r = "R1" THEN Continue("op_cond") ELSE Failed
    BY DEF AcmdApp
  <1>1. CardOK(card) /\ Prompt(card) /\ pc = "app_cmd" /\ phase # "mmc" /\ polls' = polls
    BY DEF MInv, CalmInv, AcmdApp, Searching
  <1>2. Prompt(card')
    BY <1>0, <1>1, CmdCases, PromptKept DEF MInv
  <1>3. CASE ~calm'
    BY <1>2, <1>3, Disturbed
  <1>4. CASE calm'
    <2>1. card' = AppCmd(card).card /\ got = AppCmd(card).reply /\ calm /\ card'.kind = card.kind
      BY <1>0, <1>1, <1>4, NoFault, KindKept
    <2>2. /\ card.state = "idle" /\ polls + card.busy = card.slow /\ (phase = "sdhc" => card.ifCond)
          /\ phase = "sdhc" => card.kind \in {"SD2", "SDHC"}
          /\ phase = "sd" => card.kind \notin {"SD2", "SDHC"}
      BY <1>1, <2>1 DEF CalmInv, PoweringUp, RightPhase, Places
    <2>3. CASE IsSd(card)
      <3>1. /\ got = R("R1") /\ card'.app /\ card'.ifCond = card.ifCond /\ card'.state = "idle"
            /\ polls' + card'.busy = card'.slow
        BY <1>1, <2>1, <2>2, <2>3 DEF AppCmd, CardOK, CardType
      <3>2. Continue("op_cond")
        BY <1>0, <3>1 DEF R
      <3> QED
        BY <1>1, <1>2, <2>1, <2>2, <3>1, <3>2, StillSearching
        DEF Continue, Places, RightPhase, PoweringUp, Addressed
    <2>4. CASE ~IsSd(card)
      <3>1. got = NONE
        BY <2>1, <2>4 DEF AppCmd, Silent, Ans
      <3>2. Failed
        BY <1>0, <3>1 DEF NONE
      <3>3. card.kind \notin {"SD1", "SD2", "SDHC"}
        BY <2>4 DEF IsSd, Kinds
      <3> QED
        BY <1>1, <1>2, <2>1, <2>2, <3>2, <3>3, FailedCalm DEF Places
    <2> QED
      BY <2>3, <2>4
  <1> QED
    BY <1>3, <1>4

\* The card that is there powers up, and that before the last poll.
LEMMA OpCondCalm == MInv /\ CalmInv /\ OpCond => CalmInv'
  <1> SUFFICES ASSUME MInv, CalmInv, OpCond PROVE CalmInv'
    OBVIOUS
  <1> DEFINE a == IF phase = "mmc" THEN SendOpCond(card) ELSE SdSendOpCond(card, phase = "sdhc")
  <1>0. PICK got \in Replies :
          /\ Cmd(a, got)
          /\ IF got = NONE \/ (~got.done /\ LastPoll) THEN Failed
             ELSE Continue(IF got.done THEN "cid" ELSE FirstPoll)
          /\ polls' = IF got # NONE /\ ~got.done THEN polls + 1 ELSE polls
    BY DEF OpCond
  <1>1. CardOK(card) /\ Prompt(card) /\ pc = "op_cond" /\ phase \in {"sdhc", "sd", "mmc"}
    BY DEF MInv, CalmInv, OpCond, TypeOK
  <1>2. Prompt(card')
    <2>1. Prompt(a.card)
      BY <1>1, PromptKept
    <2> QED
      BY <1>0, <1>1, <2>1, CmdCases DEF MInv
  <1>3. CASE ~calm'
    BY <1>2, <1>3, Disturbed
  <1>4. CASE calm'
    <2>1. card' = a.card /\ got = a.reply /\ calm
      BY <1>0, <1>4, NoFault
    <2>2. /\ card.state = "idle" /\ polls + card.busy = card.slow /\ (phase = "sdhc" => card.ifCond)
          /\ phase # "mmc" => card.app
          /\ phase = "sdhc" => card.kind \in {"SD2", "SDHC"}
          /\ phase = "sd" => card.kind \notin {"SD2", "SDHC"}
          /\ phase = "mmc" => card.kind \notin {"SD1", "SD2", "SDHC"}
      BY <1>1, <2>1 DEF CalmInv, PoweringUp, RightPhase, Places
    <2>3. CASE phase = "mmc" /\ card.kind # "MMC"
      <3>1. card.kind = "none"
        BY <1>1, <2>2, <2>3 DEF CardOK, CardType, Kinds
      <3>2. got = NONE /\ card'.kind = "none"
        BY <1>1, <2>1, <2>3, <3>1, KindKept DEF SendOpCond, Silent, Ans
      <3>3. Failed
        BY <1>0, <3>2
      <3> QED
        BY <1>1, <1>2, <2>3, <3>2, <3>3, FailedCalm DEF Places
    <2>4. CASE phase # "mmc" \/ card.kind = "MMC"
      <3>1. PICK ccs \in BOOLEAN : a = PowerUp(card, ccs)
        <4>1. CASE phase = "mmc"
          BY <2>2, <2>4, <4>1 DEF SendOpCond
        <4>2. CASE phase # "mmc"
          <5>1. (card.kind = "SDHC") \in BOOLEAN
            OBVIOUS
          <5>2. a = PowerUp(card, card.kind = "SDHC")
            BY <1>1, <2>2, <4>2 DEF SdSendOpCond
          <5> QED
            BY <5>1, <5>2
        <4> QED
          BY <4>1, <4>2
      <3>2. /\ card.busy \in Nat /\ card.slow \in Nat /\ card.slow < MaxPolls /\ MaxPolls \in Nat
            /\ polls \in Nat
        BY <1>1, MmcAssumption DEF CardOK, CardType, Prompt, MInv, TypeOK
      <3>3. card'.kind = card.kind
        <4>1. a.card.kind = card.kind
          BY <1>1, KindKept
        <4> QED
          BY <2>1, <4>1
      <3>4. CASE card.busy > 0
        <4>1. got # NONE /\ got.done = FALSE
          BY <2>1, <3>1, <3>4 DEF PowerUp, Ans, NONE
        <4>2. /\ card'.state = "idle" /\ card'.busy = card.busy - 1 /\ card'.slow = card.slow
              /\ card'.ifCond = card.ifCond
          <5>1. card \in CardType
            BY <1>1 DEF CardOK
          <5>2. card' = [[card EXCEPT !.busy = @ - 1] EXCEPT !.app = FALSE]
            BY <2>1, <3>1, <3>4 DEF PowerUp, Ans
          <5> QED
            BY <2>2, <5>1, <5>2 DEF CardType
        <4>3. polls' = polls + 1 /\ ~LastPoll
          BY <1>0, <2>2, <3>2, <3>4, <4>1 DEF LastPoll
        <4>4. Continue(FirstPoll)
          BY <1>0, <4>1, <4>3
        <4>5. polls' + card'.busy = card'.slow
          BY <2>2, <3>2, <4>2, <4>3
        <4> QED
          BY <1>1, <1>2, <2>2, <3>3, <4>2, <4>4, <4>5, StillSearching
          DEF Continue, FirstPoll, Places, RightPhase, PoweringUp, Addressed
      <3>5. CASE card.busy = 0
        <4>1. got # NONE /\ got.done = TRUE
          BY <2>1, <3>1, <3>5 DEF PowerUp, Goto, Ans, NONE
        <4>2. Continue("cid")
          BY <1>0, <4>1
        <4> QED
          BY <1>1, <1>2, <2>2, <3>3, <4>2, StillSearching
          DEF Continue, Places, RightPhase, PoweringUp, Addressed
      <3> QED
        BY <3>2, <3>4, <3>5
    <2> QED
      BY <2>3, <2>4
  <1> QED
    BY <1>3, <1>4

\* The card that has powered up sends its CID.
LEMMA AllCidCalm == MInv /\ CalmInv /\ AllCid => CalmInv'
  <1> SUFFICES ASSUME MInv, CalmInv, AllCid PROVE CalmInv'
    OBVIOUS
  <1>0. PICK got \in Replies : /\ Cmd(AllSendCid(card), got)
                               /\ IF got = NONE THEN Failed ELSE Continue("rca")
    BY DEF AllCid
  <1>1. CardOK(card) /\ Prompt(card) /\ pc = "cid" /\ card.state = "ready"
    BY DEF MInv, CalmInv, AllCid, Answered
  <1>2. Prompt(card')
    BY <1>0, <1>1, CmdCases, PromptKept DEF MInv
  <1>3. CASE ~calm'
    BY <1>2, <1>3, Disturbed
  <1>4. CASE calm'
    <2>1. got = AllSendCid(card).reply /\ calm /\ card'.kind = card.kind
      BY <1>0, <1>1, <1>4, NoFault, KindKept
    <2>2. got # NONE
      BY <1>1, <2>1 DEF AllSendCid, Goto, Ans, R, NONE
    <2>3. Continue("rca")
      BY <1>0, <2>2
    <2> QED
      BY <1>1, <1>2, <2>1, <2>3, StillSearching
      DEF CalmInv, Continue, Places, RightPhase, PoweringUp, Addressed
  <1> QED
    BY <1>3, <1>4

\* Card and driver agree on the address.
LEMMA RcaCalm == MInv /\ CalmInv /\ Rca => CalmInv'
  <1> SUFFICES ASSUME MInv, CalmInv, Rca PROVE CalmInv'
    OBVIOUS
  <1>0. PICK got \in Replies, rca \in Rcas :
          /\ Cmd(RelativeAddr(card, mmc_rca, rca), got)
          /\ IF got = NONE THEN Failed /\ UNCHANGED mmc_card_is_sd
             ELSE IF phase = "mmc" THEN Continue("csd") /\ UNCHANGED mmc_card_is_sd
             ELSE /\ mmc_rca' = IF got.r = "R6" THEN got.rca ELSE BAD
                  /\ mmc_card_is_sd' = TRUE
                  /\ pc' = "csd" /\ UNCHANGED <<phase, last>>
    BY DEF Rca
  <1>1. /\ CardOK(card) /\ Prompt(card) /\ card.state = "ident" /\ KindOfPhase
    BY DEF MInv, CalmInv, Rca, Answered
  <1>2. Prompt(card')
    BY <1>0, <1>1, CmdCases, PromptKept DEF MInv
  <1>3. CASE ~calm'
    BY <1>2, <1>3, Disturbed
  <1>4. CASE calm'
    <2>1. card' = RelativeAddr(card, mmc_rca, rca).card /\ got = RelativeAddr(card, mmc_rca, rca).reply
      BY <1>0, <1>4, NoFault
    <2>2. /\ card'.state = "stby" /\ got = [r |-> "R6", rca |-> card'.rca]
          /\ phase = "mmc" => card'.rca = mmc_rca
      BY <1>1, <2>1 DEF RelativeAddr, Goto, Ans, CardOK, CardType, KindOfPhase, IsSd
    <2>3. got # NONE /\ got.r = "R6" /\ got.rca = card'.rca
      BY <2>2 DEF NONE
    <2>4. pc' = "csd" /\ card'.rca = mmc_rca'
      BY <1>0, <2>2, <2>3 DEF Continue
    <2> QED
      BY <1>2, <2>2, <2>4, StillSearching DEF Places, RightPhase, PoweringUp, Addressed
  <1> QED
    BY <1>3, <1>4

\* So the card sends its CSD, and is accepted.
LEMMA CsdCalm == MInv /\ CalmInv /\ Csd => CalmInv'
  <1> SUFFICES ASSUME MInv, CalmInv, Csd PROVE CalmInv'
    OBVIOUS
  <1>0. PICK got \in Replies, ok \in BOOLEAN :
          /\ Cmd(SendCsd(card, mmc_rca), got)
          /\ (got = NONE => ~ok) /\ (got.r = "R2" => ok)
          /\ IF ok THEN Enter("init", 0, 1) /\ blksz' = BLKSZ /\ UNCHANGED last
             ELSE Return([call |-> "init", ok |-> FALSE]) /\ UNCHANGED <<params, blksz>>
    BY DEF Csd
  <1>1. CardOK(card) /\ Prompt(card) /\ pc = "csd"
    BY DEF MInv, CalmInv, Csd
  <1>2. Prompt(card')
    BY <1>0, <1>1, CmdCases, PromptKept DEF MInv
  <1>3. CASE ~calm'
    BY <1>2, <1>3, Disturbed
  <1>4. CASE calm'
    <2>1. got = SendCsd(card, mmc_rca).reply /\ calm
      BY <1>0, <1>4, NoFault
    <2>2. card.state = "stby" /\ card.rca = mmc_rca
      BY <1>1, <2>1 DEF CalmInv, Addressed
    <2>3. got.r = "R2"
      BY <2>1, <2>2 DEF SendCsd, Ans, R
    <2>4. pc' = "select" /\ caller' = "init"
      BY <1>0, <2>3 DEF Enter
    <2> QED
      BY <1>2, <2>4 DEF CalmInv, Recovers, RightPhase, PoweringUp, Addressed, Undisturbed, Fits, Places
  <1> QED
    BY <1>3, <1>4

\* One step of a read which is not its end.
LEMMA ReadCalm ==
  ASSUME Prompt(card'), pc' \in Reading, UNCHANGED breadvars,
         Fits => /\ pc' \notin {"status", "select"} /\ (pc' = "data" => sending' # <<>>)
                 /\ pc' = "deselect" => i' = blkcnt
  PROVE  CalmInv'
  BY DEF CalmInv, Recovers, RightPhase, PoweringUp, Addressed, Undisturbed, Fits, Places, Reading, breadvars

\* A card that is selected answers SELECT_CARD.
LEMMA SelectCardCalm == MInv /\ CalmInv /\ SelectCard => CalmInv'
  <1> SUFFICES ASSUME MInv, CalmInv, SelectCard PROVE CalmInv'
    OBVIOUS
  <1>0. PICK got \in Replies : /\ Cmd(Select(card, mmc_rca), got)
                               /\ pc' = IF got = NONE THEN "status" ELSE "blocklen"
    BY DEF SelectCard
  <1>1. CardOK(card) /\ Prompt(card) /\ pc = "select" /\ UNCHANGED breadvars
    BY DEF MInv, CalmInv, SelectCard
  <1>2. Prompt(card')
    BY <1>0, <1>1, CmdCases, PromptKept DEF MInv
  <1>3. CASE ~calm'
    BY <1>2, <1>3, Disturbed
  <1>4. CASE calm'
    <2>1. got = Select(card, mmc_rca).reply /\ calm
      BY <1>0, <1>4, NoFault
    <2>2. Fits => pc' = "blocklen"
      <3>1. Fits => card.state = "stby" /\ card.rca = mmc_rca
        BY <1>1, <2>1 DEF CalmInv, Undisturbed, Reading
      <3>2. Fits => got # NONE
        BY <2>1, <3>1 DEF Select, Goto, Ans, R, NONE
      <3> QED
        BY <1>0, <3>2
    <2> QED
      BY <1>0, <1>1, <1>2, <2>2, ReadCalm DEF Reading
  <1> QED
    BY <1>3, <1>4

\* One that is in the transfer state answers SET_BLOCKLEN.
LEMMA SetBlocklenCalm == MInv /\ CalmInv /\ SetBlocklen => CalmInv'
  <1> SUFFICES ASSUME MInv, CalmInv, SetBlocklen PROVE CalmInv'
    OBVIOUS
  <1>0. PICK got \in Replies : /\ Cmd(InTran(card), got)
                               /\ pc' = IF got = NONE THEN "status" ELSE NextBlock(i)
    BY DEF SetBlocklen
  <1>1. /\ CardOK(card) /\ Prompt(card) /\ pc \in Reading /\ card.state = "tran"
        /\ UNCHANGED <<breadvars, i>>
    BY DEF MInv, CalmInv, SetBlocklen, Selected, Reading
  <1>2. Prompt(card')
    BY <1>0, <1>1, CmdCases, PromptKept DEF MInv
  <1>3. CASE ~calm'
    BY <1>2, <1>3, Disturbed
  <1>4. CASE calm'
    <2>1. got # NONE
      BY <1>0, <1>1, <1>4, NoFault DEF InTran, Ans, R, NONE
    <2>2. pc' = NextBlock(i) /\ i \in 0 .. blkcnt /\ blkcnt \in Nat
      BY <1>0, <1>1, <2>1, ReadNow
    <2>3. pc' \in {"read", "deselect"} /\ (pc' = "deselect" => i = blkcnt)
      BY <2>2 DEF NextBlock
    <2> QED
      BY <1>1, <1>2, <2>3, ReadCalm DEF Reading
  <1> QED
    BY <1>3, <1>4

\* It sends every block that it has.
LEMMA ReadSingleBlockCalm == MInv /\ CalmInv /\ ReadSingleBlock => CalmInv'
  <1> SUFFICES ASSUME MInv, CalmInv, ReadSingleBlock PROVE CalmInv'
    OBVIOUS
  <1>0. PICK got \in Replies : /\ Cmd(InTran(card), got)
                               /\ pc' = IF got = NONE THEN "status" ELSE "data"
                               /\ sending' = IF got = NONE THEN <<>> ELSE DataAt(card, Address)
    BY DEF ReadSingleBlock
  <1>1. /\ CardOK(card) /\ Prompt(card) /\ pc \in Reading /\ card.state = "tran" /\ i < blkcnt
        /\ UNCHANGED <<breadvars, i>> /\ pc = "read"
    BY DEF MInv, CalmInv, ReadSingleBlock, Selected, Reading, Gathered
  <1>2. Prompt(card')
    BY <1>0, <1>1, CmdCases, PromptKept DEF MInv
  <1>3. CASE ~calm'
    BY <1>2, <1>3, Disturbed
  <1>4. CASE calm'
    <2>1. got # NONE
      BY <1>0, <1>1, <1>4, NoFault DEF InTran, Ans, R, NONE
    <2>2. pc' = "data" /\ sending' = DataAt(card, Address)
      BY <1>0, <2>1
    <2>3. Fits => sending' # <<>>
      <3>1. i \in Nat /\ start \in Nat /\ blkcnt \in Nat /\ Blocks \in Nat
        BY <1>1, ReadNow, MmcAssumption
      <3>2. Fits => start + i < Blocks
        BY <1>1, <3>1 DEF Fits
      <3>3. start + i < Blocks => DataAt(card, Address) = <<start + i>>
        BY <1>1, AddressRight
      <3>4. <<start + i>> # <<>>
        OBVIOUS
      <3> QED
        BY <2>2, <3>2, <3>3, <3>4
    <2> QED
      BY <1>1, <1>2, <2>2, <2>3, ReadCalm DEF Reading
  <1> QED
    BY <1>3, <1>4

\* A block that is on its way comes.
LEMMA DataCalm == MInv /\ CalmInv /\ Data => CalmInv'
  <1> SUFFICES ASSUME MInv, CalmInv, Data PROVE CalmInv'
    OBVIOUS
  <1>1. Prompt(card') /\ pc = "data" /\ UNCHANGED breadvars
    BY DEF CalmInv, Data
  <1>2. CASE ~calm'
    BY <1>1, <1>2, Disturbed
  <1>3. CASE calm'
    <2>1. i \in 0 .. blkcnt /\ blkcnt \in Nat /\ i < blkcnt
      BY <1>1, ReadNow DEF MInv, Gathered, Reading
    <2>2. CASE sending # <<>> /\ i' = i + 1 /\ pc' = NextBlock(i + 1)
      <3>1. pc' \in {"read", "deselect"} /\ (pc' = "deselect" => i' = blkcnt)
        BY <2>1, <2>2 DEF NextBlock
      <3> QED
        BY <1>1, <3>1, ReadCalm DEF Reading
    <2>3. CASE sending = <<>> /\ pc' = "status" /\ calm' = calm
      <3>1. ~Fits
        BY <1>1, <1>3, <2>3 DEF CalmInv, Undisturbed, Reading
      <3> QED
        BY <1>1, <2>3, <3>1, ReadCalm DEF Reading
    <2> QED
      BY <1>3, <2>2, <2>3 DEF Data, Fault
  <1> QED
    BY <1>2, <1>3

\* The status is asked for only of a read that cannot be completed.
LEMMA StatusCalm == MInv /\ CalmInv /\ Status => CalmInv'
  <1> SUFFICES ASSUME MInv, CalmInv, Status PROVE CalmInv'
    OBVIOUS
  <1>0. PICK got \in Replies : Cmd(SendStatus(card, mmc_rca), got)
    BY DEF Status
  <1>1. CardOK(card) /\ Prompt(card) /\ pc = "status" /\ pc' = "deselect" /\ UNCHANGED breadvars
    BY DEF MInv, CalmInv, Status
  <1>2. Prompt(card')
    BY <1>0, <1>1, CmdCases, PromptKept DEF MInv
  <1>3. CASE ~calm'
    BY <1>2, <1>3, Disturbed
  <1>4. CASE calm'
    <2>1. ~Fits
      BY <1>0, <1>1, <1>4, NoFault DEF CalmInv, Undisturbed, Reading
    <2> QED
      BY <1>1, <1>2, <2>1, ReadCalm DEF Reading
  <1> QED
    BY <1>3, <1>4

\* The last command takes the card out of the transfer state, with all blocks read.
LEMMA DeselectCalm == MInv /\ CalmInv /\ Deselect => CalmInv'
  <1> SUFFICES ASSUME MInv, CalmInv, Deselect PROVE CalmInv'
    OBVIOUS
  <1>1. /\ CardOK(card) /\ Prompt(card) /\ pc = "deselect" /\ Cmd(Select(card, 0), NONE)
        /\ UNCHANGED <<breadvars, i>>
    BY DEF MInv, CalmInv, Deselect
  <1>2. Prompt(card')
    BY <1>1, CmdCases, PromptKept DEF MInv
  <1>3. CASE ~calm'
    BY <1>2, <1>3, Disturbed
  <1>4. CASE calm'
    <2>1. card' = Select(card, 0).card /\ calm
      BY <1>1, <1>4, NoFault
    <2>2. card'.state # "tran"
      BY <1>1, <2>1 DEF Select, Goto, Ans, Silent, CardOK, CardType
    <2>3. /\ pc' = "prompt"
          /\ last' = IF caller = "init" THEN [call |-> "init", ok |-> TRUE]
                                        ELSE [call |-> "read", n |-> i]
      BY DEF Deselect, End, Return
    <2>4. Fits => i = blkcnt
      BY <1>1, <2>1 DEF CalmInv, Undisturbed, Reading
    <2>5. caller \in {"init", "fat"} /\ UNCHANGED <<caller, ready, start, blkcnt>>
      BY <1>1 DEF MInv, TypeOK, breadvars
    <2>6. Recovers'
      BY <2>2, <2>3, <2>4, <2>5 DEF Recovers, Fits
    <2> QED
      BY <1>2, <2>3, <2>6 DEF CalmInv, RightPhase, PoweringUp, Addressed, Undisturbed, Places, Reading
  <1> QED
    BY <1>3, <1>4

-----------------------------------------------------------------------------
\* mmc_init begins with any card.
LEMMA MmcInitCalm == MInv /\ CalmInv /\ MmcInit => CalmInv'
  <1> SUFFICES ASSUME MInv, CalmInv, MmcInit PROVE CalmInv'
    OBVIOUS
  <1>1. Prompt(card') /\ pc' = "idle" /\ phase' = "sdhc"
    BY DEF CalmInv, MmcInit, Begin
  <1> QED
    BY <1>1, StillSearching DEF Places, RightPhase, PoweringUp, Addressed

\* mmc_bread finds the card deselected, or is not ready.
LEMMA BreadCalm == \A s \in 0 .. Blocks, n \in Sizes : MInv /\ CalmInv /\ Bread(s, n) => CalmInv'
  <1> SUFFICES ASSUME NEW s \in 0 .. Blocks, NEW n \in Sizes, MInv, CalmInv, Bread(s, n) PROVE CalmInv'
    OBVIOUS
  <1>1. /\ Prompt(card') /\ pc' = "select" /\ ready' = Selectable
        /\ card' = card /\ mmc_rca' = mmc_rca
    BY DEF CalmInv, Bread, Begin, Enter, globals
  <1> QED
    BY <1>1 DEF CalmInv, Recovers, RightPhase, PoweringUp, Addressed, Undisturbed, Fits, Selectable, Places

\* The card that is put in is one that powers up in time.
LEMMA InsertCalm == MInv /\ CalmInv /\ Insert => CalmInv'
  <1> SUFFICES ASSUME MInv, CalmInv, Insert PROVE CalmInv'
    OBVIOUS
  <1>1. PICK k \in Kinds, s \in 0 .. MaxPolls - 1 : card' = Fresh(k, s)
    BY DEF Insert
  <1>2. Prompt(card')
    BY <1>1, MmcAssumption DEF Prompt, Fresh, Kinds
  <1>3. pc' = "prompt" /\ last' = [call |-> "none"]
    BY DEF Insert
  <1> QED
    BY <1>2, <1>3 DEF CalmInv, Recovers, RightPhase, PoweringUp, Addressed, Undisturbed, Places, Reading

\* The empty slot at the start.
LEMMA InitCalm == Init => CalmInv
  <1> SUFFICES ASSUME Init PROVE CalmInv
    OBVIOUS
  <1>1. Prompt(card)
    BY MmcAssumption DEF Init, EmptySlot, Fresh, Prompt
  <1> QED
    BY <1>1 DEF Init, CalmInv, Recovers, RightPhase, PoweringUp, Addressed, Undisturbed, Places, Reading

\* Every step keeps what is known of calm calls.
LEMMA NextCalm == MInv /\ CalmInv /\ [Next]_vars => CalmInv'
  <1> SUFFICES ASSUME MInv, CalmInv, [Next]_vars PROVE CalmInv'
    OBVIOUS
  <1>1. CASE MmcInit \/ IdleCards \/ IfCond \/ AcmdApp \/ OpCond \/ AllCid \/ Rca \/ Csd
    BY <1>1, MmcInitCalm, IdleCardsCalm, IfCondCalm, AcmdAppCalm, OpCondCalm, AllCidCalm, RcaCalm, CsdCalm
  <1>2. CASE \E s \in 0 .. Blocks, n \in Sizes : Bread(s, n)
    BY <1>2, BreadCalm
  <1>3. CASE SelectCard \/ SetBlocklen \/ ReadSingleBlock \/ Data \/ Status \/ Deselect
    BY <1>3, SelectCardCalm, SetBlocklenCalm, ReadSingleBlockCalm, DataCalm, StatusCalm, DeselectCalm
  <1>4. CASE Insert
    BY <1>4, InsertCalm
  <1>5. CASE UNCHANGED vars
    BY <1>5 DEF vars, globals, params, bounds, CalmInv, Prompt, Recovers, RightPhase, PoweringUp, Addressed,
                Undisturbed, Fits
  <1> QED
    BY <1>1, <1>2, <1>3, <1>4, <1>5 DEF Next

\* An mmc_init in which nothing is lost finds the card that is there, whatever earlier
\* calls left behind; a call in which nothing is lost leaves it deselected, and a read
\* in which nothing is lost gives all blocks there are (atmel_mci.c:151-250, 456-610).
THEOREM DriverRecovers == Spec => []Recovers
  <1>1. Init /\ [][Next]_vars /\ []MInv => []CalmInv
    BY InitCalm, NextCalm, PTL
  <1>2. CalmInv => Recovers
    BY DEF CalmInv
  <1> QED
    BY <1>1, <1>2, Invariant, PTL DEF Spec
=============================================================================
