------------------------------- MODULE SdCard -------------------------------
(***************************************************************************)
(* The SD card driver (sw/lib/hal/spi_sdcard.c) and a card at the other    *)
(* end of the SPI bus: initialisation, reads of any alignment through a    *)
(* swap buffer, writes of whole blocks.                                    *)
(*                                                                         *)
(* The card is seen through the bytes it will send next, `line'; when it   *)
(* has none to send the driver reads 0xFF.  On a command the card decides  *)
(* how many 0xFF come before its answer, whether a block arrives with a    *)
(* transmission error, whether it sends an error token, rejects a block or *)
(* stays busy, within the bounds.  A block with its CRC is one item.  The  *)
(* caller starts an operation only when the card has nothing left to say.  *)
(***************************************************************************)
EXTENDS Integers, SequencesExt

CONSTANTS BlockLen,   \* bytes of a block
          NumBlocks,  \* blocks of the card
          MaxRead,    \* most bytes a read is asked for
          MaxWrite,   \* most blocks a write is asked for
          CmdPolls,   \* polls for a response: 8
          R1bPolls,   \* __spi_sdcard_r1b_timeout
          DataPolls,  \* __spi_sdcard_data_timeout
          MaxDelay,   \* bound on the 0xFF before an answer
          Busy,       \* how many busy bytes the card may send
          MaxIdle,    \* bound on the ACMD41 the card answers with "idle"
          Cards       \* what may be in the slot: "off", "idle", "ready": a card in that
                      \* state; "absent": no card, the line reads 0xFF; "low": it reads 0

ASSUME CardsAssumption == Cards \subseteq {"off", "idle", "ready", "absent", "low"}
ASSUME SizesAssumption == {BlockLen, NumBlocks, CmdPolls, R1bPolls, DataPolls} \subseteq Nat \ {0}
ASSUME BoundsAssumption == {MaxRead, MaxWrite, MaxDelay, MaxIdle} \subseteq Nat /\ Busy \subseteq Nat

Block == 0 .. NumBlocks - 1
Byte == 0 .. BlockLen * NumBlocks - 1   \* a byte of the card, named by its address
Untouched == -1
Garbage == -2

VARIABLES pc,     \* where the driver is
          op,     \* the operation: [kind, addr, size, crc]
          cmd,    \* the command being carried out
          polls,  \* timeout: polls left
          resp,   \* the response byte
          b,      \* blocks transferred
          buf,    \* the caller's buffer and what lies around it
          ret,    \* what the operation returned
          cs,     \* the card's chip select is asserted
          line,   \* what the card sends next
          card,   \* [state, idle, open, next]: open in a multi-block transfer
          store   \* store[n]: the source block last written to block n, or Untouched

vars == <<pc, op, cmd, polls, resp, b, buf, ret, cs, line, card, store>>
driver == <<op, cmd, polls, resp, b, buf, ret>>

Item(k, n) == [k |-> k, n |-> n]
Fill == Item("ff", 0)
Rep(item, n) == [i \in 1 .. n |-> item]
Delay == 0 .. MaxDelay

\* The buffer has a block of foreign bytes on either side.
Around == -BlockLen .. MaxRead + BlockLen - 1
FreshBuf == [i \in Around |-> Untouched]

Ops ==
  [kind : {"read"}, addr : Byte, size : 0 .. MaxRead, crc : BOOLEAN]
  \cup [kind : {"write"}, addr : {BlockLen * n : n \in Block}, size : 0 .. MaxWrite, crc : {TRUE}]

InRange(o) ==
  o.addr + (IF o.kind = "read" THEN o.size ELSE o.size * BlockLen) <= BlockLen * NumBlocks

\* __spi_sdcard_read: block, first_offs, last_len and len_blocks.
\* Mutant: the part of the first block that is skipped is forgotten.
LenBlocksUnaligned(o) == (o.size + BlockLen - 1) \div BlockLen
LenBlocks(o) == (o.size + (o.addr % BlockLen) + BlockLen - 1) \div BlockLen
NumOf(o) == IF o.kind = "read" THEN LenBlocks(o) ELSE o.size
FirstOffs == op.addr % BlockLen
LastLen == LET pte == (op.addr + op.size) % BlockLen IN IF pte = 0 THEN BlockLen ELSE pte
FirstNum == op.addr \div BlockLen
Multi == NumOf(op) > 1

Init ==
  /\ pc = "off"
  /\ op = [kind |-> "init", addr |-> 0, size |-> 0, crc |-> TRUE]
  /\ cmd = "none" /\ polls = 0 /\ resp = 0 /\ b = 0
  /\ buf = FreshBuf
  /\ ret = "none"
  /\ cs = FALSE
  /\ line = <<>>
  /\ card \in [state : Cards, idle : 0 .. MaxIdle,
               open : {FALSE}, next : {0}]
  /\ store = [n \in Block |-> Untouched]

-----------------------------------------------------------------------------
(* The card. *)

\* What a block transfer looks like: a token and a block, perhaps damaged, or
\* an error token.
BlockReplies(n) ==
  {Rep(Fill, d) \o <<Item("token", 0), Item(q, n)>> :
      d \in Delay, q \in IF n \in Block THEN {"good", "bad"} ELSE {}}
  \cup {Rep(Fill, d) \o <<Item("errtoken", 0)>> : d \in Delay}

R1 ==
  CASE cmd = "cmd0"   -> {1}
    [] cmd = "acmd41" -> IF card.idle = 0 THEN {0} ELSE {1}
    [] cmd = "cmd16"  -> IF card.state = "ready" THEN {0} ELSE {0, 5}
    [] OTHER          -> IF card.state = "ready" THEN {0} ELSE {1}

Responses == {Rep(Fill, d) \o <<Item("r1", r)>> : d \in Delay, r \in R1}

\* The card's reaction to a command.  ACMD41 counts down to readiness; CMD12 and
\* the stop token end a transfer; a multi-block read streams until then.
CardReacts ==
  IF card.state \in {"absent", "low"}
  THEN UNCHANGED <<line, card>>
  ELSE CASE cmd \in {"cmd17", "cmd18"} ->
              /\ \E r \in Responses, t \in BlockReplies(FirstNum) : line' = r \o t
              /\ card' = [card EXCEPT !.open = (cmd = "cmd18"), !.next = FirstNum + 1]
         [] cmd = "cmd12" ->
              /\ \E r \in Responses, k \in Busy : line' = r \o Rep(Item("busy", 0), k)
              /\ card' = [card EXCEPT !.open = FALSE]
         [] cmd = "cmd25" ->
              /\ \E r \in Responses : line' = r
              /\ card' = [card EXCEPT !.open = TRUE]
         [] cmd = "stop" ->
              /\ \E k \in Busy : line' = <<Fill>> \o Rep(Item("busy", 0), k)
              /\ card' = [card EXCEPT !.open = FALSE]
         [] cmd = "cmd0" ->
              /\ \E r \in Responses : line' = r
              /\ card' = [card EXCEPT !.state = "idle", !.open = FALSE]
         [] cmd = "acmd41" ->
              /\ \E r \in Responses : line' = r
              /\ card' = IF card.idle = 0 THEN [card EXCEPT !.state = "ready"]
                                          ELSE [card EXCEPT !.idle = @ - 1]
         [] OTHER -> (\E r \in Responses : line' = r) /\ UNCHANGED card

\* One byte (or block) from the card.
Incoming == IF line # <<>> THEN Head(line)
            ELSE IF card.state = "low" THEN Item("busy", 0) ELSE Fill
Rest == IF line = <<>> THEN <<>> ELSE Tail(line)

-----------------------------------------------------------------------------
(* __spi_sdcard_cmd. *)

\* Mutant: an operation ends by itself, without the dummy chip select.
CsKept == UNCHANGED cs
\* __spi_sdcard_csfree: the card's chip select goes away.
CsFree == cs' = FALSE

Return(r) == pc' = "done" /\ ret' = r
Issue(c) == pc' = "send" /\ cmd' = c

\* Send the command; the wait after a written block sends none.
SendCmd ==
  /\ pc = "send"
  /\ pc' = "resp"
  /\ polls' = CmdPolls
  /\ cs' = TRUE
  /\ IF cmd = "wait" THEN UNCHANGED <<line, card>> ELSE CardReacts
  /\ UNCHANGED <<op, cmd, resp, b, buf, ret, store>>

IsR1b == cmd \in {"cmd12", "wait", "stop"}
IsResponse(item) == item.k \in {"r1", "busy"}    \* most significant bit low

\* Mutant: the counter is not decremented.
CountNever(n) == n
Count(n) == n - 1

\* The counter is at zero after the last poll whether or not that poll brought
\* the byte: the code then reports a timeout.
PollResponse ==
  /\ pc = "resp"
  /\ line' = Rest
  /\ resp' = Incoming.n
  /\ LET left == Count(polls) IN
     \/ left = 0 /\ Return("0x12") /\ polls' = 0
     \/ left # 0 /\ ~IsResponse(Incoming) /\ polls' = left /\ UNCHANGED <<pc, ret>>
     \/ /\ left # 0 /\ IsResponse(Incoming)
        /\ pc' = IF IsR1b THEN "busy" ELSE "got"
        /\ polls' = R1bPolls
        /\ UNCHANGED ret
  /\ UNCHANGED <<op, cmd, b, buf, cs, card, store>>

\* R1b: read until the busy flag is cleared.
PollBusy ==
  /\ pc = "busy"
  /\ line' = Rest
  /\ polls' = polls - 1
  /\ IF polls' = 0 THEN Return("0x13")
     ELSE pc' = (IF Incoming.k = "busy" THEN "busy" ELSE "got") /\ UNCHANGED ret
  /\ UNCHANGED <<op, cmd, resp, b, buf, cs, card, store>>

-----------------------------------------------------------------------------
(* __spi_sdcard_activate: CMD0, CMD8, CMD55 and ACMD41 until ready, CMD58, CMD16. *)

StartInit ==
  /\ pc = "off"
  /\ Issue("cmd0")
  /\ cs' = TRUE
  /\ UNCHANGED <<op, polls, resp, b, buf, ret, line, card, store>>

\* __spi_sdcard_cmd_check returns the response that was not expected, which is
\* success when that response is zero.
Checked(c, exp) == cmd = c /\ (resp = exp \/ resp = 0)

\* Mutant: the loop is left after the first ACMD41.
AfterAcmd41Once == "cmd58"
AfterAcmd41 == IF resp = 0 THEN "cmd58" ELSE "cmd55"

\* The mask for the five-byte response to CMD8 is an int shifted by 40 bits,
\* which is undefined: the comparison may come out either way.
InitResponse ==
  /\ pc = "got"
  /\ \/ Checked("cmd0", 1) /\ Issue("cmd8") /\ UNCHANGED ret
     \/ cmd = "cmd0" /\ resp \notin {0, 1} /\ Return("resp") /\ UNCHANGED cmd
     \/ cmd = "cmd8" /\ Issue("cmd55") /\ UNCHANGED ret
     \/ cmd = "cmd8" /\ Return("resp") /\ UNCHANGED cmd
     \/ cmd = "cmd55" /\ Issue("acmd41") /\ UNCHANGED ret
     \/ cmd = "acmd41" /\ Issue(AfterAcmd41) /\ UNCHANGED ret
     \/ cmd = "cmd58" /\ Issue("cmd16") /\ UNCHANGED ret
     \/ cmd = "cmd16" /\ Return(IF resp = 0 THEN "ok" ELSE "resp") /\ UNCHANGED cmd
  /\ CsFree
  /\ line' = <<>>
  /\ UNCHANGED <<op, polls, resp, b, buf, card, store>>

-----------------------------------------------------------------------------
(* Reads and writes. *)

\* The caller asks for the next operation, with a buffer of its own.
Start(o) ==
  /\ pc = "done" /\ (ret = "ok" \/ op.kind # "init")
  /\ line = <<>> /\ ~card.open /\ InRange(o)
  /\ op' = o /\ b' = 0 /\ buf' = FreshBuf
  /\ store' = [n \in Block |-> Untouched]
  /\ IF NumOf(o) = 0
     THEN Return("ok") /\ UNCHANGED cmd
     ELSE /\ Issue(CASE o.kind = "read" -> IF NumOf(o) > 1 THEN "cmd18" ELSE "cmd17"
                     [] OTHER           -> IF NumOf(o) > 1 THEN "cmd25" ELSE "cmd24")
          /\ ret' = "none"
  /\ UNCHANGED <<polls, resp, cs, line, card>>

StartTransfer ==
  /\ pc = "got" /\ cmd \in {"cmd17", "cmd18", "cmd24", "cmd25"}
  /\ pc' = IF op.kind = "read" THEN "token" ELSE "write"
  /\ polls' = DataPolls
  /\ UNCHANGED <<op, cmd, resp, b, buf, ret, cs, line, card, store>>

PollToken ==
  /\ pc = "token"
  /\ line' = Rest
  /\ polls' = polls - 1
  /\ IF polls' = 0 THEN Return("0x19")
     ELSE CASE Incoming.k = "ff"    -> UNCHANGED <<pc, ret>>
            [] Incoming.k = "token" -> pc' = "block" /\ UNCHANGED ret
            [] OTHER                -> Return("0x20")
  /\ UNCHANGED <<op, cmd, resp, b, buf, cs, card, store>>

\* Which bytes of block b go to the caller, and where: through the swap buffer
\* when the block is not wanted as a whole.
FirstBlock == b = 0 /\ FirstOffs # 0
\* Mutant: the last block is taken whole.
LastBlockNever == FALSE
LastBlock == b = NumOf(op) - 1 /\ LastLen # BlockLen
Wanted == (IF FirstBlock THEN FirstOffs ELSE 0) .. (IF LastBlock THEN LastLen ELSE BlockLen) - 1
Swapped == FirstBlock \/ LastBlock

\* The bytes of card block n to their places in the buffer.
Copied(n, good) ==
  [i \in Around |->
     LET j == i + FirstOffs - BlockLen * b IN
     IF j \in Wanted THEN IF good THEN BlockLen * n + j ELSE Garbage ELSE buf[i]]

CrcFails(good) == op.crc /\ ~good

\* Mutant: the last block is left out.
LastDoneEarly == b + 2 >= NumOf(op)
LastDone == b + 1 = NumOf(op)

\* After the last block, CMD12 ends a multi-block read; a single block just detaches.
ReadBlock ==
  /\ pc = "block"
  /\ LET good == Incoming.k = "good" IN
     /\ buf' = IF CrcFails(good) /\ Swapped THEN buf ELSE Copied(Incoming.n, good)
     /\ \/ CrcFails(good) /\ Return("0x21") /\ UNCHANGED <<cmd, cs, b>>
        \/ ~CrcFails(good) /\ ~LastDone /\ pc' = "token" /\ b' = b + 1 /\ UNCHANGED <<cmd, ret, cs>>
        \/ ~CrcFails(good) /\ LastDone /\ Multi /\ Issue("cmd12") /\ b' = b + 1 /\ UNCHANGED <<ret, cs>>
        \/ ~CrcFails(good) /\ LastDone /\ ~Multi /\ Return("ok") /\ CsFree /\ b' = b + 1 /\ UNCHANGED cmd
  /\ polls' = DataPolls
  /\ IF card.open
     THEN /\ \E t \in BlockReplies(card.next) : line' = t
          /\ card' = [card EXCEPT !.next = Min({@ + 1, NumBlocks})]
     ELSE line' = Rest /\ UNCHANGED card
  /\ UNCHANGED <<op, resp, store>>

\* Token, block and CRC; the card accepts and is busy for a while, or rejects.
WriteBlock ==
  /\ pc = "write"
  /\ pc' = "wresp"
  /\ \/ /\ \E k \in Busy : line' = <<Item("accept", 0)>> \o Rep(Item("busy", 0), k)
        /\ store' = [store EXCEPT ![FirstNum + b] = b]
     \/ line' = <<Item("reject", 0)>> /\ UNCHANGED store
  /\ UNCHANGED <<op, cmd, polls, resp, b, buf, ret, cs, card>>

Accepted(item) == item.k = "accept"

DataResponse ==
  /\ pc = "wresp"
  /\ line' = Rest
  /\ IF Accepted(Incoming) THEN Issue("wait") /\ UNCHANGED ret ELSE Return("0x22") /\ UNCHANGED cmd
  /\ UNCHANGED <<op, polls, resp, b, buf, cs, card, store>>

WaitDone ==
  /\ pc = "got" /\ cmd = "wait"
  /\ b' = b + 1
  /\ \/ ~LastDone /\ pc' = "write" /\ UNCHANGED <<cmd, ret, cs>>
     \/ LastDone /\ Multi /\ Issue("stop") /\ UNCHANGED <<ret, cs>>
     \/ LastDone /\ ~Multi /\ Return("ok") /\ CsFree /\ UNCHANGED cmd
  /\ UNCHANGED <<op, polls, resp, buf, line, card, store>>

\* CMD12 and the stop token are the last commands of their operations.
EndTransfer ==
  /\ pc = "got" /\ cmd \in {"cmd12", "stop"}
  /\ Return("ok")
  /\ CsFree
  /\ UNCHANGED <<op, cmd, polls, resp, b, buf, line, card, store>>

Driver ==
  \/ StartInit \/ SendCmd \/ PollResponse \/ PollBusy \/ InitResponse \/ StartTransfer
  \/ PollToken \/ ReadBlock \/ WriteBlock \/ DataResponse \/ WaitDone \/ EndTransfer

Next == Driver \/ \E o \in Ops : Start(o)

Spec == Init /\ [][Next]_vars

\* The driver runs; nobody has to ask for another operation.
FairSpec == Spec /\ WF_vars(Driver)

-----------------------------------------------------------------------------

TypeOK ==
  /\ pc \in {"off", "send", "resp", "busy", "got", "token", "block", "write", "wresp", "done"}
  /\ polls \in 0 .. CmdPolls + R1bPolls + DataPolls
  /\ b \in 0 .. NumBlocks
  /\ \A i \in Around : buf[i] \in Byte \cup {Untouched, Garbage}
  /\ card.state \in Cards \cup {"idle", "ready"} /\ card.next \in 0 .. NumBlocks
  /\ \A n \in Block : store[n] \in Nat \cup {Untouched}

Returned(kind) == pc = "done" /\ op.kind = kind

\* A read that succeeds and checks CRCs leaves exactly the bytes asked for in
\* the buffer, whatever their alignment and whatever the line did.
ReadExact ==
  Returned("read") /\ ret = "ok" /\ op.crc =>
    \A i \in 0 .. op.size - 1 : buf[i] = op.addr + i

\* No read, failed or not, touches a byte outside the caller's buffer: partial
\* first and last blocks go through the swap buffer.
NoOverrun == \A i \in Around : i \notin 0 .. op.size - 1 => buf[i] = Untouched

\* A write that succeeds has been accepted by the card block by block.
WriteExact ==
  Returned("write") /\ ret = "ok" =>
    \A n \in Block : store[n] = IF n - FirstNum \in 0 .. op.size - 1 THEN n - FirstNum ELSE Untouched

\* Success means that the card is released and has ended the transfer.
SuccessDetaches == pc = "done" /\ ret = "ok" /\ (op.kind = "init" \/ NumOf(op) > 0) =>
                     ~cs /\ ~card.open

\* Initialisation succeeds only with a card that has left its idle state.
InitMeansReady == Returned("init") /\ ret = "ok" => card.state = "ready"

\* Every operation returns, whether the card answers or is not there.
Returns == (pc = "send") ~> (pc = "done")
=============================================================================
