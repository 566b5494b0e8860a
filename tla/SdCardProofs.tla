---------------------------- MODULE SdCardProofs ----------------------------
(***************************************************************************)
(* Proofs about SdCard for every block size, card size, timeout and delay. *)
(***************************************************************************)
EXTENDS SdCard, TLAPS

(***************************************************************************)
(* The inductive invariant.                                                *)
(***************************************************************************)

\* A command of C is being carried out.
Commanding(C) == pc \in {"send", "resp", "busy", "got"} /\ cmd \in C

InitCmds == {"cmd0", "cmd8", "cmd55", "acmd41", "cmd58", "cmd16"}
ReadCmds == {"cmd17", "cmd18"}
WriteCmds == {"cmd24", "cmd25"}
EndCmds == {"cmd12", "stop"}

InitOp == [kind |-> "init", addr |-> 0, size |-> 0, crc |-> TRUE]

Kinds == {"ff", "r1", "busy", "token", "errtoken", "good", "bad", "accept", "reject"}
Items == [k : Kinds, n : Int]
States == {"off", "idle", "ready", "absent", "low"}

\* The operation, and how far it is.
InvType ==
  /\ TypeOK
  /\ op = InitOp \/ (op \in Ops /\ InRange(op))
  /\ line \in Seq(Items)
  /\ pc \in {"resp", "busy", "token"} => polls >= 1
  /\ card \in [state : States, idle : Int, open : BOOLEAN, next : Int]
  /\ cs \in BOOLEAN
  /\ store = [n \in Block |-> store[n]]

\* Which commands belong to which operation, and how many blocks are transferred
\* when they are sent.
InvFlow ==
  /\ pc = "off" => op.kind = "init"
  /\ pc \in {"send", "resp", "busy", "got"} =>
       cmd \in CASE op.kind = "init" -> InitCmds
                [] op.kind = "read" -> ReadCmds \cup {"cmd12"}
                [] OTHER            -> WriteCmds \cup {"wait", "stop"}
  /\ pc = "busy" => IsR1b
  /\ pc \in {"token", "block"} => op.kind = "read"
  /\ pc \in {"write", "wresp"} => op.kind = "write"
  /\ pc \in {"token", "block", "write", "wresp"} \/ Commanding({"wait"}) => b < NumOf(op)
  /\ Commanding(ReadCmds \cup WriteCmds) => b = 0 /\ NumOf(op) > 0
  /\ Commanding({"cmd18", "cmd25"}) => Multi
  /\ Commanding({"cmd17", "cmd24"}) => ~Multi
  /\ Commanding(EndCmds) => b = NumOf(op) /\ Multi
  /\ b <= NumOf(op)
  /\ pc = "done" /\ ret = "ok" => b = NumOf(op)

\* A slot without a card sends nothing.
Dark == card.state \in {"absent", "low"}

\* Where a transfer is open in the card.
InvOpen ==
  /\ card.open => ~Dark
  /\ card.open => op.kind # "init"
  /\ card.open => Multi \/ (pc = "done" /\ ret # "ok")
  /\ Commanding(EndCmds) /\ pc # "send" => ~card.open
  /\ SuccessDetaches

Fetching == (Commanding(ReadCmds) /\ pc # "send") \/ pc \in {"token", "block"}

\* A block on its way to the driver is the one it waits for, and so will be the next.
InvLine ==
  /\ Dark /\ op.kind # "write" => line = <<>>
  /\ Fetching => \A i \in DOMAIN line : line[i].k = "good" => line[i].n = FirstNum + b
  /\ Fetching => card.open \/ Dark \/ ~Multi
  /\ Fetching /\ card.open => card.next \in {FirstNum + b + 1, NumBlocks}

\* ACMD41 is answered with zero by a card that is ready, and the loop is left
\* with that answer.
Low == card.state = "low"
InvReady ==
  /\ Commanding({"acmd41"}) /\ pc = "resp" =>
       \A i \in DOMAIN line : line[i].n = 0 /\ IsResponse(line[i]) => card.state = "ready"
  /\ Commanding({"acmd41"}) /\ pc = "got" /\ resp = 0 => card.state = "ready" \/ Low
  /\ Commanding({"cmd58", "cmd16"}) => card.state = "ready" \/ Low
  /\ Returned("init") /\ ret = "ok" => card.state = "ready" \/ Low

\* The bytes of the blocks read so far are in place, and no others.
InvBuf ==
  /\ NoOverrun
  /\ op.kind = "read" /\ op.crc =>
       \A i \in 0 .. op.size - 1 : i + FirstOffs < BlockLen * b => buf[i] = op.addr + i

\* The card is working on block b.
Waits == Commanding({"wait"})
Storing == pc = "wresp" \/ Waits
Taken == pc = "wresp" /\ Accepted(Incoming)

\* The blocks written so far, and at most the one at hand, are in the card.
InvStore ==
  op.kind = "write" /\ (pc # "done" \/ ret = "ok") =>
    /\ \A n \in Block : n - FirstNum \in 0 .. b - 1 => store[n] = n - FirstNum
    /\ \A n \in Block :
         n - FirstNum \notin 0 .. b - 1 /\ ~(Storing /\ n = FirstNum + b) => store[n] = Untouched
    /\ Waits \/ Taken => store[FirstNum + b] = b

Inv ==
  /\ InvType /\ InvFlow /\ InvOpen /\ InvLine /\ InvReady /\ InvBuf /\ InvStore

-----------------------------------------------------------------------------

(* Arithmetic. *)

\* Products with a positive factor keep the order.
LEMMA ProductOrder ==
  ASSUME NEW B \in Int, B > 0, NEW m \in Int, NEW n \in Int
  PROVE  /\ B * m \in Int /\ B * n \in Int
         /\ m <= n => B * m <= B * n
         /\ m < n => B * m + B <= B * n
<1>1. m <= n => B * m <= B * n
  OBVIOUS
<1>2. m + 1 <= n => B * (m + 1) <= B * n
  OBVIOUS
<1>3. B * (m + 1) = B * m + B
  OBVIOUS
<1> QED
  BY <1>1, <1>2, <1>3

\* Quotient and remainder.
LEMMA DivMod ==
  ASSUME NEW B \in Int, B > 0, NEW a \in Int
  PROVE  /\ a \div B \in Int /\ a % B \in Int
         /\ a = B * (a \div B) + (a % B)
         /\ 0 <= a % B /\ a % B < B
OBVIOUS

\* They are unique.
LEMMA DivUnique ==
  ASSUME NEW B \in Int, B > 0, NEW q \in Int, NEW r \in Int, 0 <= r, r < B
  PROVE  (B * q + r) % B = r /\ (B * q + r) \div B = q
<1> DEFINE a == B * q + r
<1> DEFINE d == a \div B
<1> DEFINE e == a % B
<1>1. a \in Int
  OBVIOUS
<1>2. d \in Int /\ e \in Int /\ a = B * d + e /\ 0 <= e /\ e < B
  BY <1>1, DivMod
<1>3. B * q + r = B * d + e
  BY <1>2
<1> HIDE DEF d, e
<1>4. ~(q < d)
  BY <1>2, <1>3, ProductOrder
<1>5. ~(d < q)
  BY <1>2, <1>3, ProductOrder
<1>6. q = d
  BY <1>2, <1>4, <1>5
<1>7. e = r
  BY <1>2, <1>3, <1>6
<1> QED
  BY <1>6, <1>7 DEF d, e

\* The constants are numbers.
LEMMA ConstantFacts ==
  /\ BlockLen \in Int /\ BlockLen > 0 /\ NumBlocks \in Int /\ NumBlocks > 0
  /\ CmdPolls \in Int /\ CmdPolls > 0 /\ R1bPolls \in Int /\ R1bPolls > 0
  /\ DataPolls \in Int /\ DataPolls > 0
  /\ MaxRead \in Int /\ MaxRead >= 0 /\ MaxWrite \in Int /\ MaxWrite >= 0
  /\ MaxDelay \in Int /\ MaxDelay >= 0 /\ MaxIdle \in Int /\ MaxIdle >= 0
  /\ Busy \subseteq Nat
BY SizesAssumption, BoundsAssumption

\* What __spi_sdcard_read makes of an address and a size: offset, number of blocks
\* and length of the last one fit together.
LEMMA Cut ==
  ASSUME NEW B \in Int, B > 0, NEW a \in Nat, NEW s \in Nat
  PROVE  LET f == a % B
             q == a \div B
             n == (s + f + B - 1) \div B
             r == (a + s) % B
             l == IF r = 0 THEN B ELSE r
         IN
         /\ n \in Nat /\ q \in Nat /\ f \in 0 .. B - 1
         /\ s > 0 => n >= 1
         /\ n >= 1 => l \in 1 .. B /\ s + f = B * (n - 1) + l
         /\ a = B * q + f
<1> DEFINE f == a % B
<1> DEFINE q == a \div B
<1> DEFINE n == (s + f + B - 1) \div B
<1> DEFINE r == (a + s) % B
<1> DEFINE l == IF r = 0 THEN B ELSE r
<1> SUFFICES /\ n \in Nat /\ q \in Nat /\ f \in 0 .. B - 1
             /\ s > 0 => n >= 1
             /\ n >= 1 => l \in 1 .. B /\ s + f = B * (n - 1) + l
             /\ a = B * q + f
  OBVIOUS
<1>0. /\ n = (s + f + B - 1) \div B /\ r = (a + s) % B /\ l = IF r = 0 THEN B ELSE r
  OBVIOUS
<1>1. a = B * q + f /\ 0 <= f /\ f < B /\ q \in Int /\ f \in Int
  BY DivMod
<1> HIDE DEF f, q, n, r, l
<1>2. q >= 0
  <2>1. q < 0 => B * q + B <= B * 0
    BY <1>1, ProductOrder
  <2> QED
    BY <1>1, <2>1
<1>3. CASE s + f = 0
  <2>1. B - 1 = B * 0 + (B - 1)
    OBVIOUS
  <2>2. n = 0
    BY <1>0, <1>1, <1>3, <2>1, DivUnique
  <2> QED
    BY <1>1, <1>2, <1>3, <2>2
<1>4. CASE s + f > 0
  <2> DEFINE m == s + f - 1
  <2> DEFINE c == m \div B
  <2> DEFINE e == m % B
  <2>1. m \in Int /\ m >= 0
    BY <1>1, <1>4
  <2>2. m = B * c + e /\ 0 <= e /\ e < B /\ c \in Int /\ e \in Int
    BY <2>1, DivMod
  <2>3. s + f = m + 1 /\ s + f + B - 1 = m + B
    BY <1>1
  <2> HIDE DEF m, c, e
  <2>4. c >= 0
    <3>1. c < 0 => B * c + B <= B * 0
      BY <2>2, ProductOrder
    <3> QED
      BY <2>1, <2>2, <3>1
  <2>5. B * (c + 1) = B * c + B
    BY <2>2
  <2>6. n = c + 1
    <3>1. s + f + B - 1 = B * (c + 1) + e
      BY <2>1, <2>2, <2>3, <2>5
    <3> QED
      BY <1>0, <2>2, <3>1, DivUnique
  <2>7. l = e + 1
    <3>1. B * (q + c) = B * q + B * c /\ B * (q + c + 1) = B * q + B * c + B
      BY <1>1, <2>2
    <3>2. a + s = B * (q + c) + (e + 1)
      BY <1>1, <2>1, <2>2, <2>3, <3>1
    <3>3. CASE e + 1 < B
      <4>1. (B * (q + c) + (e + 1)) % B = e + 1
        BY <1>1, <2>2, <3>3, DivUnique
      <4> QED
        BY <1>0, <2>2, <3>2, <4>1
    <3>4. CASE e + 1 = B
      <4>1. a + s = B * (q + c + 1) + 0
        BY <1>1, <2>2, <3>1, <3>2, <3>4
      <4>2. r = 0
        BY <1>0, <1>1, <2>2, <4>1, DivUnique
      <4> QED
        BY <1>0, <3>4, <4>2
    <3> QED
      BY <2>2, <3>3, <3>4
  <2>8. s + f = B * (n - 1) + l
    <3>1. n - 1 = c
      BY <2>2, <2>6
    <3> QED
      BY <2>2, <2>3, <2>7, <3>1
  <2> QED
    BY <1>1, <1>2, <2>2, <2>4, <2>6, <2>7, <2>8
<1> QED
  BY <1>1, <1>3, <1>4

-----------------------------------------------------------------------------
(* Facts about the operation. *)

\* An operation of the caller.
LEMMA OpTypes ==
  ASSUME NEW o \in Ops
  PROVE  /\ o.kind \in {"read", "write"} /\ o.addr \in Nat /\ o.size \in Nat
         /\ o.crc \in BOOLEAN
         /\ o.kind = "read" => o.size <= MaxRead
         /\ o.kind = "write" => \E n \in Block : o.addr = BlockLen * n
<1>1. Byte \subseteq Nat
  BY ConstantFacts DEF Byte
<1>2. CASE o \in [kind : {"read"}, addr : Byte, size : 0 .. MaxRead, crc : BOOLEAN]
  <2>1. o.kind = "read" /\ o.addr \in Byte /\ o.size \in 0 .. MaxRead /\ o.crc \in BOOLEAN
    BY <1>2
  <2>2. o.kind # "write"
    BY <2>1
  <2>3. o.addr \in Nat /\ o.size \in Nat /\ o.size <= MaxRead
    <3>1. o.addr \in Nat
      BY <1>1, <2>1
    <3>2. o.size \in Nat /\ o.size <= MaxRead
      BY <2>1, ConstantFacts
    <3> QED
      BY <3>1, <3>2
  <2> QED
    BY <2>1, <2>2, <2>3
<1>3. CASE o \in [kind : {"write"}, addr : {BlockLen * n : n \in Block}, size : 0 .. MaxWrite,
                  crc : {TRUE}]
  <2>1. \A n \in Block : BlockLen * n \in Nat
    BY ConstantFacts DEF Block
  <2>2. o.addr \in {BlockLen * n : n \in Block}
    BY <1>3
  <2>3. \E n \in Block : o.addr = BlockLen * n
    BY <2>2
  <2>4. o.kind = "write" /\ o.size \in 0 .. MaxWrite /\ o.crc = TRUE
    BY <1>3
  <2>5. o.addr \in Nat
    BY <2>1, <2>3
  <2>6. o.size \in Nat
    BY <2>4, ConstantFacts
  <2>7. o.kind # "read"
    BY <2>4
  <2> QED
    BY <2>3, <2>4, <2>5, <2>6, <2>7
<1> QED
  BY <1>2, <1>3 DEF Ops

\* A read, cut into blocks.
LEMMA ReadCut ==
  ASSUME op \in Ops, op.kind = "read", InRange(op)
  PROVE  /\ NumOf(op) \in Nat /\ FirstNum \in Nat /\ FirstOffs \in 0 .. BlockLen - 1
         /\ op.size > 0 => NumOf(op) >= 1
         /\ NumOf(op) >= 1 => /\ LastLen \in 1 .. BlockLen
                              /\ op.size + FirstOffs = BlockLen * (NumOf(op) - 1) + LastLen
         /\ op.addr = BlockLen * FirstNum + FirstOffs
         /\ FirstNum + NumOf(op) <= NumBlocks
         /\ FirstNum < NumBlocks
<1>1. op.addr \in Nat /\ op.size \in Nat /\ op.addr \in Byte
  BY OpTypes DEF Ops
<1>2. NumOf(op) = (op.size + FirstOffs + BlockLen - 1) \div BlockLen
  BY DEF NumOf, LenBlocks, FirstOffs
<1>3. /\ NumOf(op) \in Nat /\ FirstNum \in Nat /\ FirstOffs \in 0 .. BlockLen - 1
      /\ op.size > 0 => NumOf(op) >= 1
      /\ NumOf(op) >= 1 => /\ LastLen \in 1 .. BlockLen
                           /\ op.size + FirstOffs = BlockLen * (NumOf(op) - 1) + LastLen
      /\ op.addr = BlockLen * FirstNum + FirstOffs
  <2>1. (op.size + (op.addr % BlockLen) + BlockLen - 1) \div BlockLen = NumOf(op)
    BY <1>2 DEF FirstOffs
  <2>2. /\ BlockLen \in Int /\ BlockLen > 0 /\ op.addr \in Nat /\ op.size \in Nat
    BY <1>1, ConstantFacts
  <2>3. LET f == op.addr % BlockLen
            q == op.addr \div BlockLen
            n == (op.size + f + BlockLen - 1) \div BlockLen
            r == (op.addr + op.size) % BlockLen
            l == IF r = 0 THEN BlockLen ELSE r
        IN
        /\ n \in Nat /\ q \in Nat /\ f \in 0 .. BlockLen - 1
        /\ op.size > 0 => n >= 1
        /\ n >= 1 => l \in 1 .. BlockLen /\ op.size + f = BlockLen * (n - 1) + l
        /\ op.addr = BlockLen * q + f
    BY <2>2, Cut, Zenon
  <2> QED
    BY <2>1, <2>3, Zenon DEF FirstOffs, FirstNum, LastLen
<1>4. FirstNum < NumBlocks
  <2>1. NumBlocks <= FirstNum => BlockLen * NumBlocks <= BlockLen * FirstNum
    BY <1>3, ConstantFacts, ProductOrder
  <2>2. op.addr < BlockLen * NumBlocks
    BY <1>1, ConstantFacts DEF Byte
  <2>3. BlockLen * NumBlocks \in Int /\ BlockLen * FirstNum \in Int
    BY <1>3, ConstantFacts
  <2> QED
    BY <1>1, <1>3, <2>1, <2>2, <2>3, ConstantFacts
<1>5. FirstNum + NumOf(op) <= NumBlocks
  <2>1. CASE NumOf(op) = 0
    BY <1>3, <1>4, <2>1, ConstantFacts
  <2>2. CASE NumOf(op) >= 1
    <3> DEFINE m == FirstNum + (NumOf(op) - 1)
    <3>1. BlockLen * m = BlockLen * FirstNum + BlockLen * (NumOf(op) - 1)
      BY <1>3, ConstantFacts
    <3>2. op.addr + op.size <= BlockLen * NumBlocks
      BY DEF InRange
    <3>3. BlockLen * m < BlockLen * NumBlocks
      BY <1>1, <1>3, <2>2, <3>1, <3>2, ConstantFacts
    <3>4. m \in Int
      BY <1>3
    <3>5. NumBlocks <= m => BlockLen * NumBlocks <= BlockLen * m
      BY <3>4, ConstantFacts, ProductOrder
    <3>6. m < NumBlocks
      <4>1. BlockLen * m \in Int /\ BlockLen * NumBlocks \in Int
        BY <3>4, ConstantFacts
      <4> HIDE DEF m
      <4> QED
        BY <3>3, <3>4, <3>5, <4>1, ConstantFacts
    <3> QED
      BY <1>3, <3>6, ConstantFacts
  <2> QED
    BY <1>3, <2>1, <2>2
<1> QED
  BY <1>3, <1>4, <1>5

\* A write covers whole blocks of the card.
LEMMA WriteCut ==
  ASSUME op \in Ops, op.kind = "write", InRange(op)
  PROVE  /\ NumOf(op) = op.size /\ op.size \in Nat /\ FirstNum \in Block
         /\ FirstNum + op.size <= NumBlocks
<1>1. op.addr \in Nat /\ op.size \in Nat
  BY OpTypes
<1>2. PICK n \in Block : op.addr = BlockLen * n
  BY OpTypes
<1>3. n \in Int /\ 0 <= n /\ n < NumBlocks
  BY ConstantFacts DEF Block
<1>4. FirstNum = n
  <2>1. op.addr = BlockLen * n + 0
    BY <1>1, <1>2, <1>3, ConstantFacts
  <2> QED
    BY <1>3, <2>1, ConstantFacts, DivUnique DEF FirstNum
<1>5. NumOf(op) = op.size
  BY DEF NumOf
<1>6. BlockLen * (n + op.size) = BlockLen * n + op.size * BlockLen
  BY <1>1, <1>3, ConstantFacts
<1>7. op.addr + op.size * BlockLen <= BlockLen * NumBlocks
  BY DEF InRange
<1>8. BlockLen * (n + op.size) <= BlockLen * NumBlocks
  BY <1>2, <1>6, <1>7
<1>9. n + op.size <= NumBlocks
  <2>1. NumBlocks < n + op.size => BlockLen * NumBlocks + BlockLen <= BlockLen * (n + op.size)
    BY <1>1, <1>3, ConstantFacts, ProductOrder
  <2>2. BlockLen * NumBlocks \in Int /\ BlockLen * (n + op.size) \in Int
    BY <1>1, <1>3, ConstantFacts
  <2> QED
    BY <1>1, <1>3, <1>8, <2>1, <2>2, ConstantFacts
<1> QED
  BY <1>1, <1>3, <1>4, <1>5, <1>9 DEF Block

\* Whatever an operation covers is on the card.
LEMMA Covered ==
  ASSUME op = InitOp \/ (op \in Ops /\ InRange(op))
  PROVE  /\ NumOf(op) \in Nat /\ FirstNum \in Nat /\ FirstNum < NumBlocks
         /\ FirstNum + NumOf(op) <= NumBlocks
<1>1. CASE op = InitOp
  <2>1. op.addr = BlockLen * 0 + 0 /\ op.size = 0 /\ op.kind # "read"
    BY <1>1, ConstantFacts DEF InitOp
  <2>2. FirstNum = 0
    BY <2>1, ConstantFacts, DivUnique DEF FirstNum
  <2>3. NumOf(op) = 0
    BY <2>1 DEF NumOf
  <2> QED
    BY <2>2, <2>3, ConstantFacts
<1>2. CASE op \in Ops /\ InRange(op) /\ op.kind = "read"
  BY <1>2, ReadCut
<1>3. CASE op \in Ops /\ InRange(op) /\ op.kind = "write"
  BY <1>3, WriteCut, ConstantFacts DEF Block
<1> QED
  BY <1>1, <1>2, <1>3, OpTypes

\* Of the block at hand, the bytes that are wanted are those that belong to the
\* caller's buffer, and they go where they belong.
LEMMA Landing ==
  ASSUME op \in Ops, op.kind = "read", InRange(op), b \in Nat, b < NumOf(op), NEW i \in Int
  PROVE  LET j == i + FirstOffs - BlockLen * b IN
         /\ j \in Wanted <=> i \in 0 .. op.size - 1 /\ 0 <= j /\ j < BlockLen
         /\ j \in Int
         /\ BlockLen * (FirstNum + b) + j = op.addr + i
<1> DEFINE j == i + FirstOffs - BlockLen * b
<1> DEFINE n == NumOf(op)
<1>1. /\ n \in Nat /\ n >= 1 /\ FirstNum \in Int /\ FirstOffs \in Int
      /\ 0 <= FirstOffs /\ FirstOffs < BlockLen
      /\ LastLen \in Int /\ 1 <= LastLen /\ LastLen <= BlockLen
      /\ op.size + FirstOffs = BlockLen * (n - 1) + LastLen
      /\ op.addr = BlockLen * FirstNum + FirstOffs
  BY ReadCut, ConstantFacts
<1>2. op.size \in Int /\ op.addr \in Int
  BY OpTypes
<1>3. BlockLen * b \in Int /\ j \in Int
  BY <1>1, ConstantFacts
<1>4. BlockLen * (FirstNum + b) + j = op.addr + i
  <2>1. BlockLen * (FirstNum + b) = BlockLen * FirstNum + BlockLen * b
    BY <1>1, ConstantFacts
  <2>2. BlockLen * FirstNum \in Int
    BY <1>1, ConstantFacts
  <2> QED
    BY <1>1, <1>2, <1>3, <2>1, <2>2
<1>5. b = 0 \/ BlockLen <= BlockLen * b
  <2>1. 0 < b => BlockLen * 0 + BlockLen <= BlockLen * b
    BY ConstantFacts, ProductOrder
  <2> QED
    BY <1>3, <2>1, ConstantFacts
<1>6. b = 0 => BlockLen * b = 0
  BY ConstantFacts
<1>7. b = n - 1 \/ BlockLen * b + BlockLen <= BlockLen * (n - 1)
  <2> DEFINE e == n - 1
  <2>1. e \in Int /\ b <= e
    BY <1>1
  <2> HIDE DEF e
  <2>2. b < e => BlockLen * b + BlockLen <= BlockLen * e
    BY <2>1, ConstantFacts, ProductOrder
  <2> QED
    BY <2>1, <2>2 DEF e
<1>8. b = n - 1 => BlockLen * b = BlockLen * (n - 1)
  OBVIOUS
<1>9. j = i + FirstOffs - BlockLen * b /\ BlockLen * (n - 1) \in Int
  BY <1>1, ConstantFacts
<1>10. j \in Wanted <=> /\ (IF b = 0 /\ FirstOffs # 0 THEN FirstOffs ELSE 0) <= j
                        /\ j < (IF b = n - 1 /\ LastLen # BlockLen THEN LastLen ELSE BlockLen)
  BY <1>1, <1>3, ConstantFacts DEF Wanted, FirstBlock, LastBlock
<1> HIDE DEF j, n
<1>11. b = 0 => (j >= FirstOffs <=> i >= 0)
  BY <1>1, <1>3, <1>6, <1>9
<1>12. b # 0 /\ j >= 0 => i >= 0
  BY <1>1, <1>3, <1>5, <1>9, ConstantFacts
<1>13. b = n - 1 => (j < LastLen <=> i <= op.size - 1)
  BY <1>1, <1>2, <1>3, <1>8, <1>9
<1>14. b # n - 1 /\ j < BlockLen => i <= op.size - 1
  BY <1>1, <1>2, <1>3, <1>7, <1>9, ConstantFacts
<1>15. j \in Wanted <=> i \in 0 .. op.size - 1 /\ 0 <= j /\ j < BlockLen
  <2>1. (IF b = 0 /\ FirstOffs # 0 THEN FirstOffs ELSE 0) <= j <=> i >= 0 /\ 0 <= j
    BY <1>1, <1>3, <1>11, <1>12
  <2>2. j < (IF b = n - 1 /\ LastLen # BlockLen THEN LastLen ELSE BlockLen)
          <=> i <= op.size - 1 /\ j < BlockLen
    BY <1>1, <1>2, <1>3, <1>13, <1>14, ConstantFacts
  <2>3. i \in 0 .. op.size - 1 <=> i >= 0 /\ i <= op.size - 1
    BY <1>2
  <2> QED
    BY <1>10, <2>1, <2>2, <2>3
<1> QED
  BY <1>3, <1>4, <1>15 DEF j

-----------------------------------------------------------------------------
(* Facts about the line and the card. *)

\* Every element of a concatenation is one of its parts'.
LEMMA JoinFacts ==
  ASSUME NEW S, NEW s \in Seq(S), NEW t \in Seq(S)
  PROVE  /\ s \o t \in Seq(S)
         /\ \A i \in DOMAIN (s \o t) : \/ i \in DOMAIN s /\ (s \o t)[i] = s[i]
                                     \/ \E k \in DOMAIN t : (s \o t)[i] = t[k]
<1>1. s \o t \in Seq(S)
  OBVIOUS
<1>2. ASSUME NEW i \in DOMAIN (s \o t)
      PROVE  \/ i \in DOMAIN s /\ (s \o t)[i] = s[i]
             \/ \E k \in DOMAIN t : (s \o t)[i] = t[k]
  <2>1. i \in 1 .. Len(s) + Len(t) /\ Len(s) \in Nat /\ Len(t) \in Nat
    BY <1>2
  <2>2. CASE i <= Len(s)
    BY <2>1, <2>2
  <2>3. CASE i > Len(s)
    <3>1. i - Len(s) \in DOMAIN t /\ (s \o t)[i] = t[i - Len(s)]
      BY <2>1, <2>3
    <3> QED
      BY <3>1
  <2> QED
    BY <2>1, <2>2, <2>3
<1> QED
  BY <1>1, <1>2

\* What precedes an answer.
LEMMA DelayFacts ==
  ASSUME NEW d \in Nat, NEW item \in Items
  PROVE  Rep(item, d) \in Seq(Items) /\ \A i \in DOMAIN Rep(item, d) : Rep(item, d)[i] = item
BY DEF Rep

\* A response is made of 0xFF and one of the card's status bytes.
LEMMA ResponseFacts ==
  ASSUME NEW r \in Responses
  PROVE  /\ r \in Seq(Items)
         /\ \A i \in DOMAIN r : r[i].k = "ff" \/ (r[i].k = "r1" /\ r[i].n \in R1)
<1>1. R1 \subseteq Int
  BY DEF R1
<1>2. PICK d \in Delay, x \in R1 : r = Rep(Fill, d) \o <<Item("r1", x)>>
  BY DEF Responses
<1>3. Fill \in Items /\ Fill.k = "ff"
  BY DEF Fill, Item, Items, Kinds
<1>4. Item("r1", x) \in Items /\ Item("r1", x).k = "r1" /\ Item("r1", x).n = x
  BY <1>1 DEF Item, Items, Kinds
<1>5. d \in Nat
  BY ConstantFacts DEF Delay
<1>6. /\ Rep(Fill, d) \in Seq(Items)
      /\ \A i \in DOMAIN Rep(Fill, d) : Rep(Fill, d)[i] = Fill
  BY <1>3, <1>5, DelayFacts
<1> DEFINE t == <<Item("r1", x)>>
<1>7. t \in Seq(Items) /\ \A i \in DOMAIN t : t[i] = Item("r1", x)
  BY <1>4
<1> HIDE DEF t
<1>8. r = Rep(Fill, d) \o t
  BY <1>2 DEF t
<1> QED
  BY <1>3, <1>4, <1>6, <1>7, <1>8, JoinFacts

\* The good block in the answer to a request for block n is block n.
LEMMA BlockReplyFacts ==
  ASSUME NEW n \in Int, NEW t \in BlockReplies(n)
  PROVE  /\ t \in Seq(Items)
         /\ \A i \in DOMAIN t : t[i].k = "good" => n \in Block /\ t[i].n = n
<1>1. Fill \in Items /\ Fill.k = "ff"
  BY DEF Fill, Item, Items, Kinds
<1>2. \A d \in Delay : /\ Rep(Fill, d) \in Seq(Items)
                       /\ \A i \in DOMAIN Rep(Fill, d) : Rep(Fill, d)[i] = Fill
  BY <1>1, ConstantFacts, DelayFacts DEF Delay
<1>3. ASSUME NEW d \in Delay, NEW q \in IF n \in Block THEN {"good", "bad"} ELSE {},
             t = Rep(Fill, d) \o <<Item("token", 0), Item(q, n)>>
      PROVE  /\ t \in Seq(Items)
             /\ \A i \in DOMAIN t : t[i].k = "good" => n \in Block /\ t[i].n = n
  <2> DEFINE u == <<Item("token", 0), Item(q, n)>>
  <2>1. /\ Item("token", 0) \in Items /\ Item("token", 0).k = "token"
        /\ Item(q, n) \in Items /\ Item(q, n).n = n /\ n \in Block
    BY <1>3 DEF Item, Items, Kinds
  <2>2. u \in Seq(Items) /\ \A i \in DOMAIN u : u[i] = Item("token", 0) \/ u[i] = Item(q, n)
    BY <2>1
  <2> HIDE DEF u
  <2>3. t = Rep(Fill, d) \o u
    BY <1>3 DEF u
  <2>4. /\ t \in Seq(Items)
        /\ \A i \in DOMAIN t : t[i] = Fill \/ t[i] = Item("token", 0) \/ t[i] = Item(q, n)
    BY <1>2, <2>2, <2>3, JoinFacts
  <2> QED
    BY <1>1, <2>1, <2>4
<1>4. ASSUME NEW d \in Delay, t = Rep(Fill, d) \o <<Item("errtoken", 0)>>
      PROVE  /\ t \in Seq(Items)
             /\ \A i \in DOMAIN t : t[i].k = "good" => n \in Block /\ t[i].n = n
  <2> DEFINE u == <<Item("errtoken", 0)>>
  <2>1. Item("errtoken", 0) \in Items /\ Item("errtoken", 0).k = "errtoken"
    BY DEF Item, Items, Kinds
  <2>2. u \in Seq(Items) /\ \A i \in DOMAIN u : u[i] = Item("errtoken", 0)
    BY <2>1
  <2> HIDE DEF u
  <2>3. t = Rep(Fill, d) \o u
    BY <1>4 DEF u
  <2>4. t \in Seq(Items) /\ \A i \in DOMAIN t : t[i] = Fill \/ t[i] = Item("errtoken", 0)
    BY <1>2, <2>2, <2>3, JoinFacts
  <2> QED
    BY <1>1, <2>1, <2>4
<1> DEFINE Blocks == {Rep(Fill, d) \o <<Item("token", 0), Item(q, n)>> :
                         d \in Delay, q \in IF n \in Block THEN {"good", "bad"} ELSE {}}
<1> DEFINE Errors == {Rep(Fill, d) \o <<Item("errtoken", 0)>> : d \in Delay}
<1>5. t \in Blocks => \E d \in Delay, q \in IF n \in Block THEN {"good", "bad"} ELSE {} :
                       t = Rep(Fill, d) \o <<Item("token", 0), Item(q, n)>>
  OBVIOUS
<1>6. t \in Errors => \E d \in Delay : t = Rep(Fill, d) \o <<Item("errtoken", 0)>>
  OBVIOUS
<1>7. BlockReplies(n) = Blocks \cup Errors
  BY DEF BlockReplies
<1> HIDE DEF Blocks, Errors
<1>8. t \in Blocks \/ t \in Errors
  BY <1>7
<1> QED
  BY <1>3, <1>4, <1>5, <1>6, <1>8, Zenon

\* What the driver receives, and what remains.
LEMMA LineFacts ==
  ASSUME line \in Seq(Items)
  PROVE  /\ Incoming \in Items /\ Rest \in Seq(Items)
         /\ line # <<>> => 1 \in DOMAIN line /\ Incoming = line[1]
         /\ line = <<>> => Rest = <<>> /\ Incoming = IF card.state = "low" THEN Item("busy", 0) ELSE Fill
         /\ \A i \in DOMAIN Rest : i + 1 \in DOMAIN line /\ Rest[i] = line[i + 1]
<1>1. Item("busy", 0) \in Items /\ Fill \in Items
  BY DEF Fill, Item, Items, Kinds
<1>2. CASE line = <<>>
  BY <1>1, <1>2 DEF Incoming, Rest
<1>3. CASE line # <<>>
  <2>1. Len(line) \in Nat /\ Len(line) > 0 /\ DOMAIN line = 1 .. Len(line)
    BY <1>3
  <2>2. Incoming = line[1] /\ 1 \in DOMAIN line
    BY <1>3, <2>1 DEF Incoming
  <2>3. Rest = Tail(line)
    BY <1>3 DEF Rest
  <2>4. Tail(line) \in Seq(Items) /\ Len(Tail(line)) = Len(line) - 1
    BY <1>3
  <2>5. \A i \in 1 .. Len(line) - 1 : i + 1 \in DOMAIN line /\ Tail(line)[i] = line[i + 1]
    BY <1>3, <2>1
  <2>6. Incoming \in Items
    BY <2>2
  <2> QED
    BY <1>3, <2>2, <2>3, <2>4, <2>5, <2>6
<1> QED
  BY <1>2, <1>3

\* Busy bytes.
LEMMA BusyFacts ==
  ASSUME NEW k \in Busy
  PROVE  LET s == Rep(Item("busy", 0), k) IN
         s \in Seq(Items) /\ \A i \in DOMAIN s : s[i].k = "busy"
<1>1. Item("busy", 0) \in Items /\ Item("busy", 0).k = "busy"
  BY DEF Item, Items, Kinds
<1>2. k \in Nat
  BY ConstantFacts
<1> QED
  BY <1>1, <1>2, DelayFacts

\* The card's reaction to the command that is sent.
LEMMA Reaction ==
  ASSUME Inv, SendCmd
  PROVE  /\ line' \in Seq(Items)
         /\ card' \in [state : States, idle : Int, open : BOOLEAN, next : Int]
         /\ card'.next \in 0 .. NumBlocks
         /\ card'.state \in {card.state, "idle", "ready"}
         /\ Dark \/ cmd = "wait" => line' = line /\ card' = card
         /\ cmd \in ReadCmds => \A i \in DOMAIN line' : line'[i].k = "good" => line'[i].n = FirstNum
         /\ cmd = "cmd18" => Dark \/ (card'.open /\ card'.next = FirstNum + 1)
         /\ card'.open => card.open \/ (cmd \in {"cmd18", "cmd25"} /\ ~Dark)
         /\ cmd \in EndCmds /\ ~Dark => ~card'.open
         /\ cmd = "acmd41" /\ ~Dark =>
              \A i \in DOMAIN line' : line'[i].n = 0 /\ IsResponse(line'[i]) => card'.state = "ready"
         /\ cmd \notin {"cmd0", "acmd41"} => card'.state = card.state
<1> DEFINE CardType == [state : States, idle : Int, open : BOOLEAN, next : Int]
<1>0. /\ pc = "send" /\ card \in CardType /\ line \in Seq(Items) /\ card.next \in 0 .. NumBlocks
      /\ FirstNum \in Nat /\ FirstNum < NumBlocks
      /\ IF cmd = "wait" THEN UNCHANGED <<line, card>> ELSE CardReacts
      /\ cmd \in InitCmds \cup ReadCmds \cup WriteCmds \cup EndCmds \cup {"wait"}
      /\ Dark /\ cmd \in ReadCmds => line = <<>>
      /\ Dark => ~card.open
  BY Covered, ConstantFacts
     DEF Inv, InvType, InvFlow, InvLine, InvOpen, TypeOK, SendCmd, InitCmds, ReadCmds, WriteCmds, EndCmds
<1>1. CASE Dark \/ cmd = "wait"
  <2>1. line' = line /\ card' = card
    BY <1>0, <1>1 DEF CardReacts, Dark
  <2>2. cmd \in ReadCmds => line = <<>>
    BY <1>0, <1>1 DEF ReadCmds
  <2> QED
    BY <1>0, <1>1, <2>1, <2>2 DEF ReadCmds, EndCmds
<1>2. CASE ~Dark /\ cmd # "wait"
  <2>0. CardReacts /\ card.state \notin {"absent", "low"}
    BY <1>0, <1>2 DEF Dark
  <2>1. CASE cmd \in {"cmd17", "cmd18"}
    <3>1. PICK r \in Responses, t \in BlockReplies(FirstNum) : line' = r \o t
      BY <2>0, <2>1 DEF CardReacts
    <3>2. /\ line' \in Seq(Items)
          /\ \A i \in DOMAIN line' : line'[i].k = "good" => line'[i].n = FirstNum
      <4>1. r \in Seq(Items) /\ \A i \in DOMAIN r : r[i].k # "good"
        BY ResponseFacts
      <4>2. FirstNum \in Int
        BY <1>0
      <4>3. t \in Seq(Items) /\ \A i \in DOMAIN t : t[i].k = "good" => t[i].n = FirstNum
        BY <4>2, BlockReplyFacts
      <4> QED
        BY <3>1, <4>1, <4>3, JoinFacts
    <3> DEFINE open == cmd = "cmd18"
    <3> DEFINE succ == FirstNum + 1
    <3>3. card' = [card EXCEPT !.open = open, !.next = succ]
      BY <2>0, <2>1 DEF CardReacts
    <3>6. open \in BOOLEAN /\ succ \in Int
      BY <1>0
    <3> HIDE DEF open, succ
    <3>4. /\ card' \in CardType /\ card'.next = succ /\ card'.open = open
          /\ card'.state = card.state
      BY <1>0, <3>3, <3>6
    <3>5. /\ card' \in CardType /\ card'.next = FirstNum + 1 /\ card'.state = card.state
          /\ card'.open <=> cmd = "cmd18"
      BY <3>4 DEF open, succ
    <3> QED
      BY <1>0, <1>2, <2>1, <3>2, <3>5, ConstantFacts DEF EndCmds
  <2>2. CASE cmd \in {"cmd12", "stop"}
    <3>1. line' \in Seq(Items)
      <4>1. CASE cmd = "cmd12"
        <5>1. PICK r \in Responses, k \in Busy : line' = r \o Rep(Item("busy", 0), k)
          BY <2>0, <4>1 DEF CardReacts
        <5> QED
          BY <5>1, ResponseFacts, BusyFacts, JoinFacts
      <4>2. CASE cmd = "stop"
        <5>1. PICK k \in Busy : line' = <<Fill>> \o Rep(Item("busy", 0), k)
          BY <2>0, <4>2 DEF CardReacts
        <5>2. <<Fill>> \in Seq(Items)
          BY DEF Fill, Item, Items, Kinds
        <5> QED
          BY <5>1, <5>2, BusyFacts, JoinFacts
      <4> QED
        BY <2>2, <4>1, <4>2
    <3>2. card' = [card EXCEPT !.open = FALSE]
      BY <2>0, <2>2 DEF CardReacts
    <3>3. /\ card' \in CardType /\ card'.next = card.next /\ card'.open = FALSE
          /\ card'.state = card.state
      BY <1>0, <3>2
    <3> QED
      BY <1>0, <1>2, <2>2, <3>1, <3>3 DEF ReadCmds
  <2>3. CASE cmd = "cmd25"
    <3>1. line' \in Seq(Items)
      BY <2>0, <2>3, ResponseFacts DEF CardReacts
    <3>2. card' = [card EXCEPT !.open = TRUE]
      BY <2>0, <2>3 DEF CardReacts
    <3>3. /\ card' \in CardType /\ card'.next = card.next /\ card'.state = card.state
      BY <1>0, <3>2
    <3> QED
      BY <1>0, <1>2, <2>3, <3>1, <3>3 DEF ReadCmds, EndCmds
  <2>4. CASE cmd = "cmd0"
    <3>1. line' \in Seq(Items)
      BY <2>0, <2>4, ResponseFacts DEF CardReacts
    <3>2. card' = [card EXCEPT !.state = "idle", !.open = FALSE]
      BY <2>0, <2>4 DEF CardReacts
    <3>3. card' \in CardType /\ card'.next = card.next /\ card'.state = "idle" /\ card'.open = FALSE
      BY <1>0, <3>2 DEF States
    <3> QED
      BY <1>0, <1>2, <2>4, <3>1, <3>3 DEF ReadCmds, EndCmds
  <2>5. CASE cmd = "acmd41"
    <3>1. PICK r \in Responses : line' = r
      BY <2>0, <2>5 DEF CardReacts
    <3>2. card' = IF card.idle = 0 THEN [card EXCEPT !.state = "ready"]
                                   ELSE [card EXCEPT !.idle = @ - 1]
      BY <2>0, <2>5 DEF CardReacts
    <3>3. /\ card' \in CardType /\ card'.next = card.next /\ card'.open = card.open
          /\ card'.state \in {card.state, "ready"}
          /\ card.idle = 0 => card'.state = "ready"
      BY <1>0, <3>2 DEF States
    <3>4. R1 = IF card.idle = 0 THEN {0} ELSE {1}
      BY <2>5 DEF R1
    <3>5. \A i \in DOMAIN line' : line'[i].n = 0 /\ IsResponse(line'[i]) => card'.state = "ready"
      BY <3>1, <3>3, <3>4, ResponseFacts DEF IsResponse
    <3>6. line' \in Seq(Items)
      BY <3>1, ResponseFacts
    <3> QED
      BY <1>0, <1>2, <2>5, <3>3, <3>5, <3>6 DEF ReadCmds, EndCmds
  <2>6. CASE cmd \notin {"cmd17", "cmd18", "cmd12", "cmd25", "stop", "cmd0", "acmd41"}
    <3>1. line' \in Seq(Items) /\ card' = card
      BY <2>0, <2>6, ResponseFacts DEF CardReacts
    <3> QED
      BY <1>0, <1>2, <2>6, <3>1 DEF ReadCmds, EndCmds
  <2> QED
    BY <2>1, <2>2, <2>3, <2>4, <2>5, <2>6
<1> QED
  BY <1>1, <1>2

-----------------------------------------------------------------------------
(* The steps. *)

\* Which steps change a variable.
LEMMA Frames ==
  ASSUME [Next]_vars
  PROVE  /\ UNCHANGED op \/ \E o \in Ops : Start(o)
         /\ \/ UNCHANGED line \/ SendCmd \/ PollResponse \/ PollBusy \/ InitResponse
            \/ PollToken \/ ReadBlock \/ WriteBlock \/ DataResponse
         /\ UNCHANGED card \/ SendCmd \/ ReadBlock
         /\ UNCHANGED store \/ WriteBlock \/ \E o \in Ops : Start(o)
         /\ UNCHANGED buf \/ ReadBlock \/ \E o \in Ops : Start(o)
         /\ UNCHANGED b \/ ReadBlock \/ WaitDone \/ \E o \in Ops : Start(o)
<1>1. CASE StartInit
  BY <1>1 DEF StartInit
<1>2. CASE SendCmd
  BY <1>2 DEF SendCmd
<1>3. CASE PollResponse
  BY <1>3 DEF PollResponse
<1>4. CASE PollBusy
  BY <1>4 DEF PollBusy
<1>5. CASE InitResponse
  BY <1>5 DEF InitResponse
<1>6. CASE StartTransfer
  BY <1>6 DEF StartTransfer
<1>7. CASE PollToken
  BY <1>7 DEF PollToken
<1>8. CASE ReadBlock
  BY <1>8 DEF ReadBlock
<1>9. CASE WriteBlock
  BY <1>9 DEF WriteBlock
<1>10. CASE DataResponse
  BY <1>10 DEF DataResponse
<1>11. CASE WaitDone
  BY <1>11 DEF WaitDone
<1>12. CASE EndTransfer
  BY <1>12 DEF EndTransfer
<1>13. CASE \E o \in Ops : Start(o)
  BY <1>13 DEF Start
<1>14. CASE UNCHANGED vars
  BY <1>14 DEF vars
<1> QED
  BY <1>1, <1>2, <1>3, <1>4, <1>5, <1>6, <1>7, <1>8, <1>9, <1>10, <1>11, <1>12, <1>13, <1>14 DEF Next, Driver

\* The operation and what follows from it stay the same until the next one starts.
LEMMA SameOp ==
  ASSUME op' = op
  PROVE  /\ NumOf(op)' = NumOf(op) /\ Multi' = Multi /\ FirstNum' = FirstNum
         /\ FirstOffs' = FirstOffs /\ InRange(op)' = InRange(op)
BY DEF NumOf, LenBlocks, Multi, FirstNum, FirstOffs, InRange

\* The operation is one of the caller's.
LEMMA OpStep ==
  ASSUME Inv, [Next]_vars
  PROVE  (op = InitOp \/ (op \in Ops /\ InRange(op)))'
<1>1. CASE UNCHANGED op
  BY <1>1, SameOp DEF Inv, InvType, InitOp, Ops, Byte, Block
<1>2. CASE \E o \in Ops : Start(o)
  BY <1>2 DEF Start, InRange
<1> QED
  BY <1>1, <1>2, Frames

\* The line carries items.
LEMMA LineStep ==
  ASSUME Inv, [Next]_vars
  PROVE  line' \in Seq(Items)
<1>1. line \in Seq(Items) /\ Rest \in Seq(Items) /\ card.next \in 0 .. NumBlocks
  BY LineFacts DEF Inv, InvType, TypeOK
<1>2. CASE UNCHANGED line
  BY <1>1, <1>2
<1>3. CASE SendCmd
  BY <1>3, Reaction
<1>4. CASE PollResponse \/ PollBusy \/ PollToken \/ DataResponse
  BY <1>1, <1>4 DEF PollResponse, PollBusy, PollToken, DataResponse
<1>5. CASE InitResponse
  BY <1>5 DEF InitResponse
<1>6. CASE ReadBlock
  <2>1. CASE card.open
    <3>1. \E t \in BlockReplies(card.next) : line' = t
      BY <1>6, <2>1 DEF ReadBlock
    <3>2. card.next \in Int
      BY <1>1, ConstantFacts
    <3> QED
      BY <3>1, <3>2, BlockReplyFacts
  <2>2. CASE ~card.open
    BY <1>1, <1>6, <2>2 DEF ReadBlock
  <2> QED
    BY <2>1, <2>2
<1>7. CASE WriteBlock
  <2>1. CASE line' = <<Item("reject", 0)>>
    BY <2>1 DEF Item, Items, Kinds
  <2>2. CASE \E k \in Busy : line' = <<Item("accept", 0)>> \o Rep(Item("busy", 0), k)
    <3>1. <<Item("accept", 0)>> \in Seq(Items)
      BY DEF Item, Items, Kinds
    <3> QED
      BY <2>2, <3>1, BusyFacts, JoinFacts
  <2> QED
    BY <1>7, <2>1, <2>2 DEF WriteBlock
<1> QED
  BY <1>2, <1>3, <1>4, <1>5, <1>6, <1>7, Frames

\* The smaller of two numbers.
LEMMA MinOfTwo ==
  ASSUME NEW m \in Int, NEW n \in Int
  PROVE  Min({m, n}) = IF m <= n THEN m ELSE n
<1> DEFINE S == {m, n}
<1>1. \E x \in S : \A y \in S : x <= y
  <2>1. CASE m <= n
    BY <2>1
  <2>2. CASE n <= m
    BY <2>2
  <2> QED
    BY <2>1, <2>2
<1>2. Min(S) \in S /\ \A y \in S : Min(S) <= y
  BY <1>1, Zenon DEF Min
<1> QED
  BY <1>2

\* A multi-block read goes on with the next block.
LEMMA NextBlock ==
  ASSUME Inv, ReadBlock
  PROVE  IF card.open
         THEN /\ card' = [card EXCEPT !.next = IF card.next < NumBlocks THEN card.next + 1 ELSE NumBlocks]
              /\ line' \in Seq(Items)
              /\ \A i \in DOMAIN line' : line'[i].k = "good" =>
                   card.next < NumBlocks /\ line'[i].n = card.next
         ELSE card' = card /\ line' = Rest
<1>1. card.next \in 0 .. NumBlocks /\ card.next \in Int
  BY ConstantFacts DEF Inv, InvType, TypeOK
<1>2. CASE ~card.open
  BY <1>2 DEF ReadBlock
<1>3. CASE card.open
  <2>1. card' = [card EXCEPT !.next = Min({card.next + 1, NumBlocks})]
    BY <1>3 DEF ReadBlock
  <2>2. Min({card.next + 1, NumBlocks}) = IF card.next < NumBlocks THEN card.next + 1 ELSE NumBlocks
    BY <1>1, ConstantFacts, MinOfTwo
  <2>3. PICK t \in BlockReplies(card.next) : line' = t
    BY <1>3 DEF ReadBlock
  <2>4. /\ t \in Seq(Items)
        /\ \A i \in DOMAIN t : t[i].k = "good" => card.next \in Block /\ t[i].n = card.next
    BY <1>1, <2>3, BlockReplyFacts
  <2>5. card.next \in Block => card.next < NumBlocks
    BY <1>1, ConstantFacts DEF Block
  <2> QED
    BY <1>3, <2>1, <2>2, <2>3, <2>4, <2>5
<1> QED
  BY <1>2, <1>3

\* The card's record.
LEMMA CardStep ==
  ASSUME Inv, [Next]_vars
  PROVE  /\ card' \in [state : States, idle : Int, open : BOOLEAN, next : Int]
         /\ card'.next \in 0 .. NumBlocks
         /\ card'.state \in Cards \cup {"idle", "ready"}
<1>1. /\ card \in [state : States, idle : Int, open : BOOLEAN, next : Int]
      /\ card.next \in 0 .. NumBlocks
      /\ card.state \in Cards \cup {"idle", "ready"}
  BY DEF Inv, InvType, TypeOK
<1>2. CASE UNCHANGED card
  BY <1>1, <1>2
<1>3. CASE SendCmd
  BY <1>1, <1>3, Reaction
<1>4. CASE ReadBlock
  <2> DEFINE n == IF card.next < NumBlocks THEN card.next + 1 ELSE NumBlocks
  <2>1. n \in 0 .. NumBlocks /\ n \in Int
    BY <1>1, ConstantFacts
  <2>2. card' = [card EXCEPT !.next = n] \/ card' = card
    BY <1>4, NextBlock
  <2> HIDE DEF n
  <2> QED
    BY <1>1, <2>1, <2>2
<1> QED
  BY <1>2, <1>3, <1>4, Frames

\* A number of blocks is not negative; that of the initialisation is zero.
LEMMA NumOfFacts ==
  ASSUME NEW o \in Ops
  PROVE  NumOf(o) \in Nat
<1>1. \/ o.kind = "read" /\ o.addr \in Byte /\ o.size \in 0 .. MaxRead
      \/ o.kind = "write" /\ o.size \in 0 .. MaxWrite
  <2>1. CASE o \in [kind : {"read"}, addr : Byte, size : 0 .. MaxRead, crc : BOOLEAN]
    BY <2>1
  <2>2. CASE o \in [kind : {"write"}, addr : {BlockLen * n : n \in Block}, size : 0 .. MaxWrite,
                    crc : {TRUE}]
    BY <2>2
  <2> QED
    BY <2>1, <2>2 DEF Ops
<1>2. CASE o.kind = "read" /\ o.addr \in Byte /\ o.size \in 0 .. MaxRead
  <2> DEFINE f == o.addr % BlockLen
  <2> DEFINE m == o.size + f + BlockLen - 1
  <2>1. o.addr \in Int /\ o.size \in Nat
    BY <1>2, ConstantFacts DEF Byte
  <2>2. f \in Int /\ f >= 0
    BY <2>1, ConstantFacts, DivMod
  <2>3. m \in Int /\ m >= 0
    BY <2>1, <2>2, ConstantFacts
  <2> HIDE DEF m
  <2>4. m \div BlockLen \in Nat
    <3>1. /\ m \div BlockLen \in Int /\ m = BlockLen * (m \div BlockLen) + (m % BlockLen)
          /\ m % BlockLen < BlockLen /\ m % BlockLen \in Int
      BY <2>3, ConstantFacts, DivMod
    <3> DEFINE d == m \div BlockLen
    <3> DEFINE e == m % BlockLen
    <3> HIDE DEF d, e
    <3>2. d \in Int /\ e \in Int /\ m = BlockLen * d + e /\ e < BlockLen
      BY <3>1 DEF d, e
    <3>3. d < 0 => BlockLen * d + BlockLen <= BlockLen * 0
      BY <3>2, ConstantFacts, ProductOrder
    <3>4. BlockLen * d \in Int /\ BlockLen * 0 = 0
      BY <3>2, ConstantFacts
    <3>5. d >= 0
      BY <2>3, <3>2, <3>3, <3>4, ConstantFacts
    <3> QED
      BY <3>2, <3>5 DEF d
  <2> QED
    BY <1>2, <2>4 DEF NumOf, LenBlocks, m
<1>3. CASE o.kind = "write" /\ o.size \in 0 .. MaxWrite
  BY <1>3, ConstantFacts DEF NumOf
<1> QED
  BY <1>1, <1>2, <1>3

\* The commands follow the operation.
LEMMA FlowStep ==
  ASSUME Inv, [Next]_vars
  PROVE  InvFlow'
<1>0. /\ InvFlow /\ NumOf(op) \in Nat /\ b \in Nat
      /\ op.kind \in {"init", "read", "write"}
  BY Covered, OpTypes, ConstantFacts DEF Inv, InvType, TypeOK, InitOp
<1>1. CASE StartInit
  BY <1>0, <1>1, SameOp DEF StartInit, Return, Issue, InvFlow, Commanding, IsR1b, InitCmds, ReadCmds, WriteCmds, EndCmds, CsFree, Multi, LastDone, AfterAcmd41, Checked
<1>2. CASE SendCmd
  BY <1>0, <1>2, SameOp DEF SendCmd, Return, Issue, InvFlow, Commanding, IsR1b, InitCmds, ReadCmds, WriteCmds, EndCmds, CsFree, Multi, LastDone, AfterAcmd41, Checked
<1>3. CASE PollResponse
  BY <1>0, <1>3, SameOp DEF PollResponse, Return, Issue, InvFlow, Commanding, IsR1b, InitCmds, ReadCmds, WriteCmds, EndCmds, CsFree, Multi, LastDone, AfterAcmd41, Checked
<1>4. CASE PollBusy
  BY <1>0, <1>4, SameOp DEF PollBusy, Return, Issue, InvFlow, Commanding, IsR1b, InitCmds, ReadCmds, WriteCmds, EndCmds, CsFree, Multi, LastDone, AfterAcmd41, Checked
<1>5. CASE InitResponse
  <2>1. /\ pc = "got" /\ UNCHANGED <<op, b>> /\ NumOf(op)' = NumOf(op) /\ Multi' = Multi
    BY <1>5, SameOp DEF InitResponse
  <2>2. op.kind = "init" => NumOf(op) = 0 /\ b = 0
    BY <1>0, OpTypes DEF Inv, InvType, InitOp, NumOf, InvFlow
  <2>3. cmd \in InitCmds
    BY <1>5 DEF InitResponse, InitCmds, Checked
  <2>4. op.kind = "init"
    BY <1>0, <2>1, <2>3 DEF InvFlow, InitCmds, ReadCmds, WriteCmds
  <2>5. \/ pc' = "send" /\ cmd' \in InitCmds \ {"cmd0"}
        \/ pc' = "done"
    BY <1>5 DEF InitResponse, Issue, Return, AfterAcmd41, InitCmds, Checked
  <2> QED
    BY <1>0, <2>1, <2>2, <2>4, <2>5 DEF InvFlow, Commanding, InitCmds, ReadCmds, WriteCmds, EndCmds
<1>6. CASE StartTransfer
  BY <1>0, <1>6, SameOp DEF StartTransfer, Return, Issue, InvFlow, Commanding, IsR1b, InitCmds, ReadCmds, WriteCmds, EndCmds, CsFree, Multi, LastDone, AfterAcmd41, Checked
<1>7. CASE PollToken
  BY <1>0, <1>7, SameOp DEF PollToken, Return, Issue, InvFlow, Commanding, IsR1b, InitCmds, ReadCmds, WriteCmds, EndCmds, CsFree, Multi, LastDone, AfterAcmd41, Checked
<1>8. CASE ReadBlock
  BY <1>0, <1>8, SameOp DEF ReadBlock, Return, Issue, InvFlow, Commanding, IsR1b, InitCmds, ReadCmds, WriteCmds, EndCmds, CsFree, Multi, LastDone, AfterAcmd41, Checked
<1>9. CASE WriteBlock
  BY <1>0, <1>9, SameOp DEF WriteBlock, Return, Issue, InvFlow, Commanding, IsR1b, InitCmds, ReadCmds, WriteCmds, EndCmds, CsFree, Multi, LastDone, AfterAcmd41, Checked
<1>10. CASE DataResponse
  BY <1>0, <1>10, SameOp DEF DataResponse, Return, Issue, InvFlow, Commanding, IsR1b, InitCmds, ReadCmds, WriteCmds, EndCmds, CsFree, Multi, LastDone, AfterAcmd41, Checked
<1>11. CASE WaitDone
  BY <1>0, <1>11, SameOp DEF WaitDone, Return, Issue, InvFlow, Commanding, IsR1b, InitCmds, ReadCmds, WriteCmds, EndCmds, CsFree, Multi, LastDone, AfterAcmd41, Checked
<1>12. CASE EndTransfer
  BY <1>0, <1>12, SameOp DEF EndTransfer, Return, Issue, InvFlow, Commanding, IsR1b, InitCmds, ReadCmds, WriteCmds, EndCmds, CsFree, Multi, LastDone, AfterAcmd41, Checked
<1>13. CASE \E o \in Ops : Start(o)
  <2>1. PICK o \in Ops : Start(o)
    BY <1>13
  <2>2. op' = o /\ b' = 0 /\ NumOf(op)' = NumOf(o) /\ NumOf(o) \in Nat
    BY <2>1, NumOfFacts DEF Start, NumOf, LenBlocks
  <2>3. Multi' <=> NumOf(o) > 1
    BY <2>2 DEF Multi
  <2>4. o.kind \in {"read", "write"}
    BY DEF Ops
  <2>5. \/ NumOf(o) = 0 /\ pc' = "done"
        \/ /\ NumOf(o) # 0 /\ pc' = "send"
           /\ cmd' = IF o.kind = "read" THEN IF NumOf(o) > 1 THEN "cmd18" ELSE "cmd17"
                     ELSE IF NumOf(o) > 1 THEN "cmd25" ELSE "cmd24"
    BY <2>1 DEF Start, Return, Issue
  <2> HIDE DEF Multi
  <2> QED
    BY <2>2, <2>3, <2>4, <2>5
       DEF InvFlow, Commanding, InitCmds, ReadCmds, WriteCmds, EndCmds, IsR1b
<1>14. CASE UNCHANGED vars
  BY <1>0, <1>14, SameOp DEF vars, Return, Issue, InvFlow, Commanding, IsR1b, InitCmds, ReadCmds, WriteCmds, EndCmds, CsFree, Multi, LastDone, AfterAcmd41, Checked
<1> QED
  BY <1>1, <1>2, <1>3, <1>4, <1>5, <1>6, <1>7, <1>8, <1>9, <1>10, <1>11, <1>12, <1>13, <1>14 DEF Next, Driver

\* A transfer is open in the card only while one is under way.
LEMMA OpenStep ==
  ASSUME Inv, [Next]_vars
  PROVE  InvOpen'
<1>0. InvOpen /\ InvFlow /\ op.kind \in {"init", "read", "write"} /\ NumOf(op) \in Nat /\ b \in Nat
  BY Covered, OpTypes, ConstantFacts DEF Inv, InvType, InitOp, TypeOK
<1>1. CASE StartInit
  BY <1>0, <1>1, SameOp DEF StartInit, Return, Issue, InvFlow, InvOpen, Commanding, SuccessDetaches, ReadCmds, WriteCmds, EndCmds, Multi, LastDone, Dark, CsFree, InitCmds
<1>2. CASE SendCmd
  <2>1. /\ pc = "send" /\ pc' = "resp" /\ UNCHANGED <<op, cmd, b, ret>> /\ Multi' = Multi
    BY <1>2, SameOp DEF SendCmd
  <2>2. /\ card'.open => card.open \/ (cmd \in {"cmd18", "cmd25"} /\ ~Dark)
        /\ cmd \in EndCmds /\ ~Dark => ~card'.open
        /\ card'.state \in {card.state, "idle", "ready"}
        /\ Dark => card' = card
    BY <1>2, Reaction
  <2>3. card'.open => ~Dark'
    BY <1>0, <2>2 DEF InvOpen, Dark
  <2>4. card'.open => op.kind # "init" /\ Multi
    BY <1>0, <2>1, <2>2 DEF InvOpen, InvFlow, Commanding, InitCmds
  <2>5. cmd \in EndCmds => ~card'.open
    BY <1>0, <2>2 DEF InvOpen
  <2> QED
    BY <2>1, <2>3, <2>4, <2>5 DEF InvOpen, Commanding, SuccessDetaches
<1>3. CASE PollResponse
  BY <1>0, <1>3, SameOp DEF PollResponse, Return, Issue, InvFlow, InvOpen, Commanding, SuccessDetaches, ReadCmds, WriteCmds, EndCmds, Multi, LastDone, Dark, CsFree, InitCmds
<1>4. CASE PollBusy
  BY <1>0, <1>4, SameOp DEF PollBusy, Return, Issue, InvFlow, InvOpen, Commanding, SuccessDetaches, ReadCmds, WriteCmds, EndCmds, Multi, LastDone, Dark, CsFree, InitCmds
<1>5. CASE InitResponse
  BY <1>0, <1>5, SameOp DEF InitResponse, Return, Issue, InvFlow, InvOpen, Commanding, SuccessDetaches, ReadCmds, WriteCmds, EndCmds, Multi, LastDone, Dark, CsFree, InitCmds
<1>6. CASE StartTransfer
  BY <1>0, <1>6, SameOp DEF StartTransfer, Return, Issue, InvFlow, InvOpen, Commanding, SuccessDetaches, ReadCmds, WriteCmds, EndCmds, Multi, LastDone, Dark, CsFree, InitCmds
<1>7. CASE PollToken
  BY <1>0, <1>7, SameOp DEF PollToken, Return, Issue, InvFlow, InvOpen, Commanding, SuccessDetaches, ReadCmds, WriteCmds, EndCmds, Multi, LastDone, Dark, CsFree, InitCmds
<1>8. CASE ReadBlock
  <2>1. /\ pc = "block" /\ UNCHANGED op /\ Multi' = Multi /\ NumOf(op)' = NumOf(op)
        /\ \/ pc' = "done" /\ ret' = "0x21"
           \/ pc' = "token"
           \/ pc' = "send"
           \/ pc' = "done" /\ ret' = "ok" /\ ~Multi /\ cs' = FALSE
    BY <1>8, SameOp DEF ReadBlock, Return, Issue, CsFree
  <2>2. card'.open = card.open /\ card'.state = card.state
    BY <1>8, NextBlock DEF Inv, InvType
  <2>3. card.open => ~Dark /\ op.kind # "init" /\ Multi
    BY <1>0, <2>1 DEF InvOpen
  <2> HIDE DEF Multi
  <2> QED
    BY <2>1, <2>2, <2>3 DEF InvOpen, Commanding, SuccessDetaches, Dark
<1>9. CASE WriteBlock
  BY <1>0, <1>9, SameOp DEF WriteBlock, Return, Issue, InvFlow, InvOpen, Commanding, SuccessDetaches, ReadCmds, WriteCmds, EndCmds, Multi, LastDone, Dark, CsFree, InitCmds
<1>10. CASE DataResponse
  BY <1>0, <1>10, SameOp DEF DataResponse, Return, Issue, InvFlow, InvOpen, Commanding, SuccessDetaches, ReadCmds, WriteCmds, EndCmds, Multi, LastDone, Dark, CsFree, InitCmds
<1>11. CASE WaitDone
  BY <1>0, <1>11, SameOp DEF WaitDone, Return, Issue, InvFlow, InvOpen, Commanding, SuccessDetaches, ReadCmds, WriteCmds, EndCmds, Multi, LastDone, Dark, CsFree, InitCmds
<1>12. CASE EndTransfer
  BY <1>0, <1>12, SameOp DEF EndTransfer, Return, Issue, InvFlow, InvOpen, Commanding, SuccessDetaches, ReadCmds, WriteCmds, EndCmds, Multi, LastDone, Dark, CsFree, InitCmds
<1>13. CASE \E o \in Ops : Start(o)
  <2>1. PICK o \in Ops : Start(o)
    BY <1>13
  <2>2. /\ op' = o /\ NumOf(op)' = NumOf(o) /\ NumOf(o) \in Nat /\ UNCHANGED card /\ ~card.open
        /\ pc' = "send" \/ (pc' = "done" /\ NumOf(o) = 0)
    BY <2>1, NumOfFacts DEF Start, NumOf, LenBlocks, Return, Issue
  <2>3. o.kind # "init"
    BY DEF Ops
  <2> QED
    BY <2>2, <2>3 DEF InvOpen, SuccessDetaches, Dark, Commanding
<1>14. CASE UNCHANGED vars
  BY <1>0, <1>14, SameOp DEF vars, Return, Issue, InvFlow, InvOpen, Commanding, SuccessDetaches, ReadCmds, WriteCmds, EndCmds, Multi, LastDone, Dark, CsFree, InitCmds
<1> QED
  BY <1>1, <1>2, <1>3, <1>4, <1>5, <1>6, <1>7, <1>8, <1>9, <1>10, <1>11, <1>12, <1>13, <1>14 DEF Next, Driver

\* What remains on the line has been on it before.
LEMMA RestFacts ==
  ASSUME line \in Seq(Items), line' = Rest, NEW x,
         \A i \in DOMAIN line : line[i].k = "good" => line[i].n = x
  PROVE  \A i \in DOMAIN line' : line'[i].k = "good" => line'[i].n = x
BY LineFacts

\* What is on the line belongs to the transfer.
LEMMA LineInvStep ==
  ASSUME Inv, [Next]_vars
  PROVE  InvLine'
<1>0. InvLine /\ InvFlow /\ op.kind \in {"init", "read", "write"}
  BY Covered, OpTypes, ConstantFacts DEF Inv, InvType, InitOp
<1>1. CASE StartInit
  BY <1>0, <1>1, SameOp, LineFacts DEF StartInit, Return, Issue, InvFlow, InvLine, Fetching, Commanding, ReadCmds, WriteCmds, EndCmds, InitCmds, Multi, LastDone, Dark, CsFree
<1>2. CASE SendCmd
  <2>1. /\ pc = "send" /\ pc' = "resp" /\ UNCHANGED <<op, cmd, b>> /\ Multi' = Multi
        /\ FirstNum' = FirstNum
    BY <1>2, SameOp DEF SendCmd
  <2>2. /\ card'.state \in {card.state, "idle", "ready"}
        /\ Dark => line' = line /\ card' = card
        /\ cmd \in ReadCmds => \A i \in DOMAIN line' : line'[i].k = "good" => line'[i].n = FirstNum
        /\ cmd = "cmd18" => Dark \/ (card'.open /\ card'.next = FirstNum + 1)
        /\ card'.open => card.open \/ cmd \in {"cmd18", "cmd25"}
    BY <1>2, Reaction
  <2>3. /\ card.open => Multi /\ ~Dark
        /\ cmd \in ReadCmds => b = 0 /\ (cmd = "cmd17" => ~Multi)
    BY <2>1, <1>0 DEF Inv, InvOpen, InvFlow, Commanding, ReadCmds, WriteCmds
  <2>4. Dark' <=> Dark
    BY <2>2 DEF Dark
  <2>5. FirstNum \in Nat
    BY Covered DEF Inv, InvType
  <2> HIDE DEF Multi
  <2>6. Fetching' <=> cmd \in ReadCmds
    BY <2>1 DEF Fetching, Commanding
  <2>7. cmd = "cmd17" => ~card'.open
    BY <2>2, <2>3 DEF ReadCmds
  <2>8. Dark /\ op.kind # "write" => line = <<>>
    BY <1>0 DEF InvLine
  <2> QED
    BY <2>1, <2>2, <2>3, <2>4, <2>5, <2>6, <2>7, <2>8 DEF InvLine, ReadCmds
<1>3. CASE PollResponse
  <2>1. /\ UNCHANGED <<op, cmd, b, card>> /\ Multi' = Multi /\ FirstNum' = FirstNum /\ line' = Rest
    BY <1>3, SameOp DEF PollResponse
  <2>2. Fetching' => Fetching
    BY <1>0, <1>3 DEF PollResponse, Fetching, Commanding, Return
  <2>3. line \in Seq(Items)
    BY DEF Inv, InvType
  <2>4. Fetching => \A i \in DOMAIN line' : line'[i].k = "good" => line'[i].n = FirstNum + b
    BY <1>0, <2>1, <2>3, RestFacts DEF InvLine
  <2>5. line = <<>> => Rest = <<>>
    BY <2>3, LineFacts
  <2> HIDE DEF Multi
  <2>6. Dark' <=> Dark
    BY <2>1 DEF Dark
  <2> QED
    BY <1>0, <2>1, <2>2, <2>4, <2>5, <2>6 DEF InvLine
<1>4. CASE PollBusy
  <2>1. /\ UNCHANGED <<op, cmd, b, card>> /\ line' = Rest /\ pc = "busy"
        /\ pc' \in {"busy", "got", "done"}
    BY <1>4 DEF PollBusy, Return
  <2>2. ~Fetching'
    BY <1>0, <2>1 DEF Fetching, Commanding, InvFlow, IsR1b, ReadCmds
  <2>3. line = <<>> => Rest = <<>>
    BY LineFacts DEF Inv, InvType
  <2> QED
    BY <1>0, <2>1, <2>2, <2>3 DEF InvLine, Dark
<1>5. CASE InitResponse
  BY <1>0, <1>5, SameOp, LineFacts DEF InitResponse, Return, Issue, InvFlow, InvLine, Fetching, Commanding, ReadCmds, WriteCmds, EndCmds, InitCmds, Multi, LastDone, Dark, CsFree
<1>6. CASE StartTransfer
  BY <1>0, <1>6, SameOp, LineFacts DEF StartTransfer, Return, Issue, InvFlow, InvLine, Fetching, Commanding, ReadCmds, WriteCmds, EndCmds, InitCmds, Multi, LastDone, Dark, CsFree
<1>7. CASE PollToken
  <2>1. /\ UNCHANGED <<op, cmd, b, card>> /\ Multi' = Multi /\ FirstNum' = FirstNum /\ line' = Rest
    BY <1>7, SameOp DEF PollToken
  <2>2. Fetching' => Fetching
    BY <1>0, <1>7 DEF PollToken, Fetching, Commanding, Return
  <2>3. line \in Seq(Items)
    BY DEF Inv, InvType
  <2>4. Fetching => \A i \in DOMAIN line' : line'[i].k = "good" => line'[i].n = FirstNum + b
    BY <1>0, <2>1, <2>3, RestFacts DEF InvLine
  <2>5. line = <<>> => Rest = <<>>
    BY <2>3, LineFacts
  <2> HIDE DEF Multi
  <2>6. Dark' <=> Dark
    BY <2>1 DEF Dark
  <2> QED
    BY <1>0, <2>1, <2>2, <2>4, <2>5, <2>6 DEF InvLine
<1>8. CASE ReadBlock
  <2>1. /\ pc = "block" /\ UNCHANGED op /\ Multi' = Multi /\ FirstNum' = FirstNum
        /\ pc' \in {"done", "token", "send"}
        /\ pc' = "token" => b + 1 # NumOf(op) /\ b' = b + 1
    BY <1>8, SameOp DEF ReadBlock, Return, Issue, LastDone
  <2>2. /\ b < NumOf(op) /\ op.kind = "read" /\ b \in Nat /\ NumOf(op) \in Nat /\ FirstNum \in Nat
        /\ Fetching
    BY <1>0, <2>1, Covered, ConstantFacts DEF Inv, InvType, TypeOK, InvFlow, Fetching
  <2>3. card.next \in Int
    BY DEF Inv, InvType
  <2>4. Fetching' <=> pc' = "token"
    BY <2>1 DEF Fetching, Commanding
  <2>5. pc' = "token" => Multi
    BY <2>1, <2>2 DEF Multi
  <2> HIDE DEF Multi
  <2>6. card.state' = card.state
    BY <1>8, NextBlock DEF Inv, InvType
  <2>7. Dark' <=> Dark
    BY <2>6 DEF Dark
  <2>8. CASE card.open
    <3>1. card'.open /\ ~Dark
      BY <1>8, <2>8, NextBlock DEF Inv, InvType, InvOpen
    <3>2. card'.next = IF card.next < NumBlocks THEN card.next + 1 ELSE NumBlocks
      BY <1>8, <2>8, NextBlock DEF Inv, InvType
    <3>3. \A i \in DOMAIN line' : line'[i].k = "good" =>
             card.next < NumBlocks /\ line'[i].n = card.next
      BY <1>8, <2>8, NextBlock
    <3>4. card.next \in {FirstNum + b + 1, NumBlocks}
      BY <1>0, <2>2, <2>8 DEF InvLine
    <3>5. pc' = "token" => \A i \in DOMAIN line' : line'[i].k = "good" => line'[i].n = FirstNum' + b'
      BY <2>1, <2>2, <3>3, <3>4, ConstantFacts
    <3>6. pc' = "token" => card'.next \in {FirstNum' + b' + 1, NumBlocks}
      BY <2>1, <2>2, <2>3, <3>2, <3>4, ConstantFacts
    <3> QED
      BY <2>4, <2>7, <3>1, <3>5, <3>6 DEF InvLine
  <2>9. CASE ~card.open
    <3>1. card' = card /\ line' = Rest
      BY <1>8, <2>9, NextBlock
    <3>2. Dark \/ ~Multi
      BY <1>0, <2>2, <2>9 DEF InvLine
    <3>3. Dark => line' = <<>>
      BY <1>0, <2>2, <3>1, LineFacts DEF InvLine, Inv, InvType
    <3> QED
      BY <2>4, <2>5, <2>7, <2>9, <3>1, <3>2, <3>3 DEF InvLine
  <2> QED
    BY <2>8, <2>9
<1>9. CASE WriteBlock
  BY <1>0, <1>9, SameOp, LineFacts DEF WriteBlock, Return, Issue, InvFlow, InvLine, Fetching, Commanding, ReadCmds, WriteCmds, EndCmds, InitCmds, Multi, LastDone, Dark, CsFree
<1>10. CASE DataResponse
  BY <1>0, <1>10, SameOp, LineFacts DEF DataResponse, Return, Issue, InvFlow, InvLine, Fetching, Commanding, ReadCmds, WriteCmds, EndCmds, InitCmds, Multi, LastDone, Dark, CsFree
<1>11. CASE WaitDone
  BY <1>0, <1>11, SameOp, LineFacts DEF WaitDone, Return, Issue, InvFlow, InvLine, Fetching, Commanding, ReadCmds, WriteCmds, EndCmds, InitCmds, Multi, LastDone, Dark, CsFree
<1>12. CASE EndTransfer
  BY <1>0, <1>12, SameOp, LineFacts DEF EndTransfer, Return, Issue, InvFlow, InvLine, Fetching, Commanding, ReadCmds, WriteCmds, EndCmds, InitCmds, Multi, LastDone, Dark, CsFree
<1>13. CASE \E o \in Ops : Start(o)
  BY <1>0, <1>13, SameOp, LineFacts DEF Start, Return, Issue, InvFlow, InvLine, Fetching, Commanding, ReadCmds, WriteCmds, EndCmds, InitCmds, Multi, LastDone, Dark, CsFree
<1>14. CASE UNCHANGED vars
  BY <1>0, <1>14, SameOp, LineFacts DEF vars, Return, Issue, InvFlow, InvLine, Fetching, Commanding, ReadCmds, WriteCmds, EndCmds, InitCmds, Multi, LastDone, Dark, CsFree
<1> QED
  BY <1>1, <1>2, <1>3, <1>4, <1>5, <1>6, <1>7, <1>8, <1>9, <1>10, <1>11, <1>12, <1>13, <1>14 DEF Next, Driver

\* ACMD41 is repeated until the card is ready.
LEMMA ReadyStep ==
  ASSUME Inv, [Next]_vars
  PROVE  InvReady'
<1>0. InvReady /\ InvFlow /\ op.kind \in {"init", "read", "write"}
  BY Covered, OpTypes, ConstantFacts DEF Inv, InvType, InitOp
<1>1. CASE StartInit
  BY <1>0, <1>1, SameOp DEF StartInit, Return, Issue, InvFlow, InvReady, Commanding, ReadCmds, WriteCmds, EndCmds, InitCmds, Low, Returned, AfterAcmd41, CsFree, IsR1b
<1>2. CASE SendCmd
  <2>1. pc = "send" /\ pc' = "resp" /\ UNCHANGED <<op, cmd>>
    BY <1>2 DEF SendCmd
  <2>2. /\ Dark => line' = line /\ card' = card
        /\ cmd = "acmd41" /\ ~Dark =>
             \A i \in DOMAIN line' : line'[i].n = 0 /\ IsResponse(line'[i]) => card'.state = "ready"
        /\ cmd \notin {"cmd0", "acmd41"} => card'.state = card.state
    BY <1>2, Reaction
  <2>3. cmd = "acmd41" => op.kind # "write"
    BY <1>0, <2>1 DEF InvFlow, WriteCmds
  <2>4. cmd = "acmd41" /\ Dark => line' = <<>>
    BY <2>2, <2>3 DEF Inv, InvLine
  <2>5. cmd = "acmd41" =>
          \A i \in DOMAIN line' : line'[i].n = 0 /\ IsResponse(line'[i]) => card'.state = "ready"
    BY <2>2, <2>4
  <2> QED
    BY <1>0, <2>1, <2>2, <2>5 DEF InvReady, Commanding, Low, Returned
<1>3. CASE PollResponse
  <2>1. /\ pc = "resp" /\ UNCHANGED <<op, cmd, card>> /\ line' = Rest /\ resp' = Incoming.n
        /\ \/ pc' = "done" /\ ret' = "0x12"
           \/ pc' = "resp"
           \/ pc' \in {"busy", "got"} /\ IsResponse(Incoming)
    BY <1>3 DEF PollResponse, Return
  <2>2. /\ line # <<>> => 1 \in DOMAIN line /\ Incoming = line[1]
        /\ line = <<>> => Incoming = IF card.state = "low" THEN Item("busy", 0) ELSE Fill
        /\ \A i \in DOMAIN Rest : i + 1 \in DOMAIN line /\ Rest[i] = line[i + 1]
    BY LineFacts DEF Inv, InvType
  <2>3. ~IsResponse(Fill)
    BY DEF IsResponse, Fill, Item
  <2>4. cmd = "acmd41" =>
          \A i \in DOMAIN line : line[i].n = 0 /\ IsResponse(line[i]) => card.state = "ready"
    BY <1>0, <2>1 DEF InvReady, Commanding
  <2>5. cmd = "acmd41" =>
          \A i \in DOMAIN line' : line'[i].n = 0 /\ IsResponse(line'[i]) => card'.state = "ready"
    BY <2>1, <2>2, <2>4
  <2>6. cmd = "acmd41" /\ IsResponse(Incoming) /\ Incoming.n = 0 => card.state = "ready" \/ Low
    BY <2>2, <2>3, <2>4 DEF Low
  <2> HIDE DEF IsResponse
  <2> QED
    BY <1>0, <2>1, <2>5, <2>6 DEF InvReady, Commanding, Low, Returned
<1>4. CASE PollBusy
  BY <1>0, <1>4, SameOp DEF PollBusy, Return, Issue, InvFlow, InvReady, Commanding, ReadCmds, WriteCmds, EndCmds, InitCmds, Low, Returned, AfterAcmd41, CsFree, IsR1b
<1>5. CASE InitResponse
  BY <1>0, <1>5, SameOp DEF InitResponse, Return, Issue, InvFlow, InvReady, Commanding, ReadCmds, WriteCmds, EndCmds, InitCmds, Low, Returned, AfterAcmd41, CsFree, IsR1b
<1>6. CASE StartTransfer
  BY <1>0, <1>6, SameOp DEF StartTransfer, Return, Issue, InvFlow, InvReady, Commanding, ReadCmds, WriteCmds, EndCmds, InitCmds, Low, Returned, AfterAcmd41, CsFree, IsR1b
<1>7. CASE PollToken
  BY <1>0, <1>7, SameOp DEF PollToken, Return, Issue, InvFlow, InvReady, Commanding, ReadCmds, WriteCmds, EndCmds, InitCmds, Low, Returned, AfterAcmd41, CsFree, IsR1b
<1>8. CASE ReadBlock
  BY <1>0, <1>8, SameOp DEF ReadBlock, Return, Issue, InvFlow, InvReady, Commanding, ReadCmds, WriteCmds, EndCmds, InitCmds, Low, Returned, AfterAcmd41, CsFree, IsR1b
<1>9. CASE WriteBlock
  BY <1>0, <1>9, SameOp DEF WriteBlock, Return, Issue, InvFlow, InvReady, Commanding, ReadCmds, WriteCmds, EndCmds, InitCmds, Low, Returned, AfterAcmd41, CsFree, IsR1b
<1>10. CASE DataResponse
  BY <1>0, <1>10, SameOp DEF DataResponse, Return, Issue, InvFlow, InvReady, Commanding, ReadCmds, WriteCmds, EndCmds, InitCmds, Low, Returned, AfterAcmd41, CsFree, IsR1b
<1>11. CASE WaitDone
  BY <1>0, <1>11, SameOp DEF WaitDone, Return, Issue, InvFlow, InvReady, Commanding, ReadCmds, WriteCmds, EndCmds, InitCmds, Low, Returned, AfterAcmd41, CsFree, IsR1b
<1>12. CASE EndTransfer
  BY <1>0, <1>12, SameOp DEF EndTransfer, Return, Issue, InvFlow, InvReady, Commanding, ReadCmds, WriteCmds, EndCmds, InitCmds, Low, Returned, AfterAcmd41, CsFree, IsR1b
<1>13. CASE \E o \in Ops : Start(o)
  <2>1. PICK o \in Ops : Start(o)
    BY <1>13
  <2>2. /\ op' = o
        /\ \/ pc' = "done"
           \/ pc' = "send" /\ cmd' \in ReadCmds \cup WriteCmds
    BY <2>1 DEF Start, Return, Issue, ReadCmds, WriteCmds
  <2>3. o.kind # "init"
    BY DEF Ops
  <2> QED
    BY <2>2, <2>3 DEF InvReady, Commanding, Returned, ReadCmds, WriteCmds
<1>14. CASE UNCHANGED vars
  BY <1>0, <1>14, SameOp DEF vars, Return, Issue, InvFlow, InvReady, Commanding, ReadCmds, WriteCmds, EndCmds, InitCmds, Low, Returned, AfterAcmd41, CsFree, IsR1b
<1> QED
  BY <1>1, <1>2, <1>3, <1>4, <1>5, <1>6, <1>7, <1>8, <1>9, <1>10, <1>11, <1>12, <1>13, <1>14 DEF Next, Driver

\* Blocks land where they belong, in order.
LEMMA BufStep ==
  ASSUME Inv, [Next]_vars
  PROVE  InvBuf' /\ (\A i \in Around : buf[i] \in Byte \cup {Untouched, Garbage})'
<1>0. /\ InvBuf /\ \A i \in Around : buf[i] \in Byte \cup {Untouched, Garbage}
      /\ b \in Nat
  BY ConstantFacts DEF Inv, InvType, TypeOK
<1>1. CASE UNCHANGED <<op, buf, b>>
  BY <1>0, <1>1, SameOp DEF InvBuf, NoOverrun
<1>2. CASE \E o \in Ops : Start(o)
  <2>1. buf' = FreshBuf /\ b' = 0
    BY <1>2 DEF Start
  <2>2. \A i \in Around : buf'[i] = Untouched
    BY <2>1 DEF FreshBuf
  <2>3. op' \in Ops
    BY <1>2 DEF Start
  <2>4. \A i \in 0 .. op'.size - 1 : ~(i + FirstOffs' < BlockLen * b')
    <3>1. BlockLen * b' = 0
      BY <2>1, ConstantFacts
    <3>2. op'.addr \in Int /\ op'.size \in Int
      BY <2>3, OpTypes
    <3>3. FirstOffs' \in Int /\ FirstOffs' >= 0
      BY <3>2, ConstantFacts, DivMod DEF FirstOffs
    <3> QED
      BY <3>1, <3>2, <3>3
  <2> QED
    BY <2>2, <2>4 DEF InvBuf, NoOverrun
<1>3. CASE WaitDone
  <2>1. op.kind = "write" /\ UNCHANGED <<op, buf>>
    <3>1. op.kind \in {"init", "read", "write"}
      BY OpTypes DEF Inv, InvType, InitOp
    <3> QED
      BY <1>3, <3>1 DEF WaitDone, Inv, InvFlow, InitCmds, ReadCmds
  <2> QED
    BY <1>0, <2>1 DEF InvBuf, NoOverrun
<1>4. CASE ReadBlock
  <2> DEFINE good == Incoming.k = "good"
  <2> DEFINE J(i) == i + FirstOffs - BlockLen * b
  <2>1. /\ op \in Ops /\ op.kind = "read" /\ InRange(op) /\ b < NumOf(op) /\ UNCHANGED op
        /\ FirstOffs' = FirstOffs /\ Fetching
    BY <1>4, SameOp DEF ReadBlock, Inv, InvType, InvFlow, Fetching, InitOp
  <2>2. /\ FirstOffs \in 0 .. BlockLen - 1 /\ op.size \in Nat /\ op.addr \in Nat /\ FirstNum \in Nat
        /\ FirstNum + NumOf(op) <= NumBlocks /\ NumOf(op) \in Nat /\ op.crc \in BOOLEAN
        /\ op.size <= MaxRead
    BY <2>1, ReadCut, OpTypes
  <2>3. good => Incoming.n = FirstNum + b
    <3>1. line = <<>> => ~good
      <4>1. line = <<>> => Incoming \in {Item("busy", 0), Fill}
        BY LineFacts DEF Inv, InvType
      <4> QED
        BY <4>1 DEF Item, Fill
    <3>2. line # <<>> => 1 \in DOMAIN line /\ Incoming = line[1]
      BY LineFacts DEF Inv, InvType
    <3> QED
      BY <2>1, <3>1, <3>2 DEF Inv, InvLine
  <2>4. \A i \in Around : i \in Int
    BY ConstantFacts DEF Around
  <2>5. ASSUME NEW i \in Around
        PROVE  /\ J(i) \in Wanted <=> i \in 0 .. op.size - 1 /\ 0 <= J(i) /\ J(i) < BlockLen
               /\ J(i) \in Int
               /\ BlockLen * (FirstNum + b) + J(i) = op.addr + i
    BY <1>0, <2>1, <2>4, Landing
  <2>6. buf' = IF CrcFails(good) /\ Swapped THEN buf ELSE Copied(Incoming.n, good)
    BY <1>4 DEF ReadBlock
  <2>7. ASSUME NEW i \in Around
        PROVE  \/ buf'[i] = buf[i] /\ (J(i) \in Wanted => CrcFails(good))
               \/ J(i) \in Wanted /\ buf'[i] = IF good THEN op.addr + i ELSE Garbage
    <3>1. CASE CrcFails(good) /\ Swapped
      BY <2>6, <3>1
    <3>2. CASE ~(CrcFails(good) /\ Swapped)
      <4>1. buf'[i] = IF J(i) \in Wanted THEN IF good THEN BlockLen * Incoming.n + J(i) ELSE Garbage
                      ELSE buf[i]
        BY <2>6, <3>2 DEF Copied
      <4>2. good => BlockLen * Incoming.n + J(i) = op.addr + i
        BY <2>3, <2>5
      <4> HIDE DEF J, good
      <4> QED
        BY <4>1, <4>2
    <3> QED
      BY <3>1, <3>2
  <2>8. op.addr + op.size <= BlockLen * NumBlocks /\ BlockLen * NumBlocks \in Int
    BY <2>1, ConstantFacts DEF InRange
  <2>9. \A i \in Around : buf'[i] \in Byte \cup {Untouched, Garbage}
    <3>1. ASSUME NEW i \in 0 .. op.size - 1
          PROVE  op.addr + i \in Byte
      BY <2>2, <2>8, <3>1 DEF Byte
    <3> HIDE DEF J, good
    <3> QED
      BY <1>0, <2>5, <2>7, <3>1
  <2>10. NoOverrun'
    <3> HIDE DEF J, good
    <3>1. ASSUME NEW i \in Around, i \notin 0 .. op.size - 1
          PROVE  buf'[i] = Untouched
      <4>1. J(i) \notin Wanted
        BY <2>5, <3>1
      <4>2. buf[i] = Untouched
        BY <1>0, <3>1 DEF InvBuf, NoOverrun
      <4> QED
        BY <2>7, <4>1, <4>2
    <3> QED
      BY <2>1, <3>1 DEF NoOverrun
  <2>11. ASSUME op.crc, NEW i \in 0 .. op.size - 1, i + FirstOffs < BlockLen * b'
         PROVE  buf'[i] = op.addr + i
    <3>1. i \in Around /\ i \in Int
      BY <2>2, ConstantFacts DEF Around
    <3>2. BlockLen * b \in Int /\ BlockLen * (b + 1) = BlockLen * b + BlockLen
      BY <1>0, ConstantFacts
    <3>3. J(i) = i + FirstOffs - BlockLen * b
      OBVIOUS
    <3>4. b' = b \/ (b' = b + 1 /\ ~CrcFails(good))
      BY <1>4 DEF ReadBlock
    <3>5. CASE i + FirstOffs < BlockLen * b
      <4>1. J(i) < 0
        BY <2>2, <3>1, <3>2, <3>5
      <4>2. J(i) \notin Wanted
        BY <2>5, <3>1, <4>1
      <4>3. buf[i] = op.addr + i
        BY <1>0, <2>1, <2>11, <3>5 DEF InvBuf
      <4> HIDE DEF J, good
      <4> QED
        BY <2>7, <3>1, <4>2, <4>3
    <3>6. CASE ~(i + FirstOffs < BlockLen * b)
      <4>1. b' = b + 1
        BY <1>0, <2>11, <3>4, <3>6
      <4>2. 0 <= J(i) /\ J(i) < BlockLen
        BY <2>2, <2>11, <3>1, <3>2, <3>6, <4>1, ConstantFacts
      <4>3. J(i) \in Wanted
        BY <2>5, <3>1, <4>2
      <4>4. ~CrcFails(good) /\ good
        BY <1>0, <2>11, <3>4, <4>1 DEF CrcFails
      <4> HIDE DEF J, good
      <4> QED
        BY <2>7, <3>1, <4>3, <4>4
    <3> QED
      BY <3>5, <3>6
  <2> QED
    BY <2>1, <2>9, <2>10, <2>11 DEF InvBuf
<1> QED
  <2>1. UNCHANGED buf \/ ReadBlock \/ \E o \in Ops : Start(o)
    BY Frames
  <2>2. UNCHANGED b \/ ReadBlock \/ WaitDone \/ \E o \in Ops : Start(o)
    BY Frames
  <2>3. UNCHANGED op \/ \E o \in Ops : Start(o)
    BY Frames
  <2> QED
    BY <1>1, <1>2, <1>3, <1>4, <2>1, <2>2, <2>3

\* Blocks are stored one after the other.
LEMMA StoreStep ==
  ASSUME Inv, [Next]_vars
  PROVE  /\ InvStore'
         /\ store' = [n \in Block |-> store'[n]]
         /\ \A n \in Block : store'[n] \in Nat \cup {Untouched}
<1>0. /\ InvStore /\ InvFlow /\ b \in Nat /\ NumOf(op) \in Nat /\ FirstNum \in Nat
      /\ FirstNum + NumOf(op) <= NumBlocks
      /\ op.kind \in {"init", "read", "write"}
      /\ store = [n \in Block |-> store[n]]
      /\ \A n \in Block : store[n] \in Nat \cup {Untouched}
  BY Covered, OpTypes, ConstantFacts DEF Inv, InvType, TypeOK, InitOp
<1>17. /\ store' = [n \in Block |-> store'[n]]
      /\ \A n \in Block : store'[n] \in Nat \cup {Untouched}
  <2>1. CASE UNCHANGED store
    BY <1>0, <2>1
  <2>2. CASE \E o \in Ops : Start(o)
    <3>1. store' = [n \in Block |-> Untouched]
      BY <2>2 DEF Start
    <3> QED
      BY <3>1
  <2>3. CASE WriteBlock
    <3> DEFINE k == FirstNum + b
    <3>1. store' = [store EXCEPT ![k] = b] \/ store' = store
      BY <2>3 DEF WriteBlock
    <3> HIDE DEF k
    <3>2. store' = [n \in Block |-> IF n = k THEN b ELSE store[n]] \/ store' = store
      BY <1>0, <3>1
    <3> QED
      BY <1>0, <3>2
  <2> QED
    BY <2>1, <2>2, <2>3, Frames
<1> SUFFICES InvStore'
  BY <1>17
<1>1. CASE \E o \in Ops : Start(o)
  <2>1. /\ store' = [n \in Block |-> Untouched] /\ b' = 0
        /\ pc' \in {"send", "done"}
        /\ pc' = "send" => cmd' \in ReadCmds \cup WriteCmds
    BY <1>1 DEF Start, Return, Issue, ReadCmds, WriteCmds
  <2>2. ~Storing' /\ ~Waits' /\ ~Taken'
    BY <2>1 DEF Storing, Waits, Taken, Commanding, ReadCmds, WriteCmds
  <2>3. \A n \in Block : n - FirstNum' \notin 0 .. b' - 1
    BY <2>1
  <2> QED
    BY <2>1, <2>2, <2>3 DEF InvStore
<1>2. CASE WriteBlock
  <2>1. /\ pc = "write" /\ pc' = "wresp" /\ UNCHANGED <<op, b, cmd, card, ret>> /\ FirstNum' = FirstNum
        /\ op.kind = "write" /\ b < NumOf(op)
    BY <1>0, <1>2, SameOp DEF WriteBlock, InvFlow
  <2>2. FirstNum + b \in Block /\ FirstNum + b \in Int
    BY <1>0, <2>1, ConstantFacts DEF Block
  <2>3. \/ store' = [store EXCEPT ![FirstNum + b] = b]
        \/ store' = store /\ line' = <<Item("reject", 0)>>
    BY <1>2 DEF WriteBlock
  <2>4. \A n \in Block : n # FirstNum + b => store'[n] = store[n]
    BY <1>0, <2>2, <2>3
  <2>6. Taken' => store'[FirstNum + b] = b
    <3>1. line' = <<Item("reject", 0)>> => ~Taken'
      BY DEF Taken, Accepted, Incoming, Item
    <3> QED
      BY <1>0, <2>2, <2>3, <3>1
  <2>7. \A n \in Block : n - FirstNum \in 0 .. b - 1 => n # FirstNum + b
    BY <1>0
  <2>8. /\ \A n \in Block : n - FirstNum \in 0 .. b - 1 => store[n] = n - FirstNum
        /\ \A n \in Block : n - FirstNum \notin 0 .. b - 1 => store[n] = Untouched
    BY <1>0, <2>1 DEF InvStore, Storing, Waits, Commanding
  <2>9. Storing' /\ ~Waits'
    BY <2>1 DEF Storing, Waits, Commanding
  <2> QED
    BY <1>0, <2>1, <2>4, <2>6, <2>7, <2>8, <2>9 DEF InvStore
<1>3. ASSUME UNCHANGED <<store, op, b>>,
             Waits' \/ Taken' => Waits \/ Taken,
             Storing => Storing' \/ (pc' = "done" /\ ret' # "ok"),
             pc # "done" \/ (pc' = "done" /\ ret' = ret)
      PROVE  InvStore'
  <2>1. FirstNum' = FirstNum
    BY <1>3, SameOp
  <2> QED
    BY <1>0, <1>3, <2>1 DEF InvStore
<1>4. ASSUME op.kind # "write", UNCHANGED op
      PROVE  InvStore'
  BY <1>4 DEF InvStore
<1>5. CASE WaitDone
  <2>1. /\ UNCHANGED <<store, op>> /\ FirstNum' = FirstNum /\ b' = b + 1 /\ Waits /\ Storing
        /\ pc # "done"
    BY <1>5, SameOp DEF WaitDone, Waits, Storing, Commanding
  <2>2. ~Storing' /\ ~Waits' /\ ~Taken'
    BY <1>5 DEF WaitDone, Return, Issue, Storing, Waits, Taken, Commanding
  <2>3. op.kind = "write" => store[FirstNum + b] = b
    BY <1>0, <2>1 DEF InvStore
  <2>4. op.kind = "write" =>
          /\ \A n \in Block : n - FirstNum \in 0 .. b - 1 => store[n] = n - FirstNum
          /\ \A n \in Block : n - FirstNum \notin 0 .. b - 1 /\ n # FirstNum + b => store[n] = Untouched
    BY <1>0, <2>1 DEF InvStore
  <2>5. ASSUME NEW n \in Block
        PROVE  n - FirstNum \in 0 .. b <=> n - FirstNum \in 0 .. b - 1 \/ n = FirstNum + b
    <3>1. n \in Int
      BY ConstantFacts DEF Block
    <3> QED
      BY <1>0, <3>1
  <2>6. FirstNum + b - FirstNum = b
    BY <1>0
  <2>7. op.kind = "write" =>
          /\ \A n \in Block : n - FirstNum \in 0 .. b => store[n] = n - FirstNum
          /\ \A n \in Block : n - FirstNum \notin 0 .. b => store[n] = Untouched
    BY <1>0, <2>3, <2>4, <2>5, <2>6
  <2>8. 0 .. b' - 1 = 0 .. b
    BY <1>0, <2>1
  <2> QED
    BY <2>1, <2>2, <2>7, <2>8 DEF InvStore
<1>6. CASE SendCmd
  <2>1. /\ UNCHANGED <<store, op, b>>
        /\ Waits' \/ Taken' => Waits \/ Taken
        /\ Storing => Storing' \/ (pc' = "done" /\ ret' # "ok")
        /\ pc # "done" \/ (pc' = "done" /\ ret' = ret)
    BY <1>6 DEF SendCmd, Waits, Taken, Storing, Commanding
  <2> QED
    BY <1>3, <2>1
<1>7. CASE PollResponse
  <2>1. /\ UNCHANGED <<store, op, b>>
        /\ Waits' \/ Taken' => Waits \/ Taken
        /\ Storing => Storing' \/ (pc' = "done" /\ ret' # "ok")
        /\ pc # "done" \/ (pc' = "done" /\ ret' = ret)
    BY <1>7 DEF PollResponse, Waits, Taken, Storing, Commanding, Return
  <2> QED
    BY <1>3, <2>1
<1>8. CASE PollBusy
  <2>1. /\ UNCHANGED <<store, op, b>>
        /\ Waits' \/ Taken' => Waits \/ Taken
        /\ Storing => Storing' \/ (pc' = "done" /\ ret' # "ok")
        /\ pc # "done" \/ (pc' = "done" /\ ret' = ret)
    BY <1>8 DEF PollBusy, Waits, Taken, Storing, Commanding, Return
  <2> QED
    BY <1>3, <2>1
<1>9. CASE StartTransfer
  <2>1. /\ UNCHANGED <<store, op, b>>
        /\ Waits' \/ Taken' => Waits \/ Taken
        /\ Storing => Storing' \/ (pc' = "done" /\ ret' # "ok")
        /\ pc # "done" \/ (pc' = "done" /\ ret' = ret)
    BY <1>9 DEF StartTransfer, Waits, Taken, Storing, Commanding
  <2> QED
    BY <1>3, <2>1
<1>10. CASE DataResponse
  <2>1. /\ UNCHANGED <<store, op, b>>
        /\ Waits' \/ Taken' => Waits \/ Taken
        /\ Storing => Storing' \/ (pc' = "done" /\ ret' # "ok")
        /\ pc # "done" \/ (pc' = "done" /\ ret' = ret)
    BY <1>10 DEF DataResponse, Waits, Taken, Storing, Commanding, Return, Issue
  <2> QED
    BY <1>3, <2>1
<1>11. CASE EndTransfer
  <2>1. /\ UNCHANGED <<store, op, b>>
        /\ Waits' \/ Taken' => Waits \/ Taken
        /\ Storing => Storing' \/ (pc' = "done" /\ ret' # "ok")
        /\ pc # "done" \/ (pc' = "done" /\ ret' = ret)
    BY <1>11 DEF EndTransfer, Waits, Taken, Storing, Commanding, Return
  <2> QED
    BY <1>3, <2>1
<1>12. CASE StartInit
  BY <1>0, <1>4, <1>12 DEF StartInit, InvFlow
<1>13. CASE InitResponse
  BY <1>0, <1>4, <1>13 DEF InitResponse, InvFlow, WriteCmds, Checked
<1>14. CASE PollToken
  BY <1>0, <1>4, <1>14 DEF PollToken, InvFlow
<1>15. CASE ReadBlock
  BY <1>0, <1>4, <1>15 DEF ReadBlock, InvFlow
<1>16. CASE UNCHANGED vars
  <2>1. /\ UNCHANGED <<store, op, b>>
        /\ Waits' \/ Taken' => Waits \/ Taken
        /\ Storing => Storing' \/ (pc' = "done" /\ ret' # "ok")
        /\ pc # "done" \/ (pc' = "done" /\ ret' = ret)
    BY <1>16 DEF vars, Waits, Taken, Storing, Commanding, Accepted, Incoming
  <2> QED
    BY <1>3, <2>1
<1> QED
  BY <1>1, <1>2, <1>5, <1>6, <1>7, <1>8, <1>9, <1>10, <1>11, <1>12, <1>13, <1>14, <1>15, <1>16
     DEF Next, Driver


\* Polls are counted down, and the rest of the types follow.
LEMMA TypeStep ==
  ASSUME Inv, [Next]_vars
  PROVE  InvType'
<1>1. pc' \in {"off", "send", "resp", "busy", "got", "token", "block", "write", "wresp", "done"}
  BY DEF Inv, InvType, TypeOK, Next, Driver, StartInit, SendCmd, PollResponse, PollBusy, InitResponse,
         StartTransfer, PollToken, ReadBlock, WriteBlock, DataResponse, WaitDone, EndTransfer, Start,
         Issue, Return, vars
<1>2. /\ polls' \in 0 .. CmdPolls + R1bPolls + DataPolls
      /\ pc' \in {"resp", "busy", "token"} => polls' >= 1
  <2>1. /\ polls \in 0 .. CmdPolls + R1bPolls + DataPolls /\ polls \in Int
        /\ pc \in {"resp", "busy", "token"} => polls >= 1
    BY ConstantFacts DEF Inv, InvType, TypeOK
  <2>2. CASE PollResponse
    BY <2>1, <2>2, ConstantFacts DEF PollResponse, Return, Count
  <2>3. CASE PollBusy
    BY <2>1, <2>3, ConstantFacts DEF PollBusy, Return
  <2>4. CASE PollToken
    <3>1. /\ pc = "token" /\ polls' = polls - 1
          /\ polls' = 0 => pc' = "done"
      <4>1. pc = "token" /\ polls' = polls - 1
        BY <2>4 DEF PollToken
      <4>2. polls' = 0 => pc' = "done"
        BY <2>4 DEF PollToken, Return
      <4> QED
        BY <4>1, <4>2
    <3> QED
      BY <2>1, <3>1, ConstantFacts
  <2>5. CASE SendCmd \/ ReadBlock \/ StartTransfer
    BY <2>1, <2>5, ConstantFacts DEF SendCmd, ReadBlock, StartTransfer, Return, Issue
  <2>6. CASE UNCHANGED vars
    BY <2>1, <2>6 DEF vars
  <2>7. CASE StartInit \/ InitResponse \/ WriteBlock \/ DataResponse \/ WaitDone \/ EndTransfer
    BY <2>1, <2>7 DEF StartInit, InitResponse, WriteBlock, DataResponse, WaitDone, EndTransfer,
                      Return, Issue
  <2>8. CASE \E o \in Ops : Start(o)
    BY <2>1, <2>8 DEF Start, Return, Issue
  <2> QED
    BY <2>2, <2>3, <2>4, <2>5, <2>6, <2>7, <2>8 DEF Next, Driver
<1>3. b' \in 0 .. NumBlocks
  <2>1. b' \in Nat
    <3>1. b \in Nat
      BY ConstantFacts DEF Inv, InvType, TypeOK
    <3> QED
      BY <3>1, Frames DEF ReadBlock, WaitDone, Start
  <2>2. b' <= NumOf(op)' 
    BY FlowStep DEF InvFlow
  <2>3. CASE UNCHANGED op
    <3>1. NumOf(op)' = NumOf(op) /\ NumOf(op) \in Nat /\ NumOf(op) <= NumBlocks
      BY <2>3, SameOp, Covered, ConstantFacts DEF Inv, InvType
    <3> QED
      BY <2>1, <2>2, <3>1, ConstantFacts
  <2>4. CASE \E o \in Ops : Start(o)
    BY <2>4, ConstantFacts DEF Start
  <2> QED
    BY <2>3, <2>4, Frames
<1>4. cs' \in BOOLEAN
  BY DEF Inv, InvType, Next, Driver, StartInit, SendCmd, PollResponse, PollBusy, InitResponse,
         StartTransfer, PollToken, ReadBlock, WriteBlock, DataResponse, WaitDone, EndTransfer, Start,
         CsFree, vars
<1> QED
  BY <1>1, <1>2, <1>3, <1>4, OpStep, LineStep, CardStep, BufStep, StoreStep DEF InvType, TypeOK

\* The invariant holds initially.
LEMMA InvInit == Init => Inv
<1> SUFFICES ASSUME Init PROVE Inv
  OBVIOUS
<1>1. op = InitOp /\ NumOf(op) = 0
  BY DEF Init, InitOp, NumOf
<1>2. /\ card \in [state : States, idle : Int, open : BOOLEAN, next : Int]
      /\ card.next = 0 /\ ~card.open /\ card.state \in Cards
  <2>1. Cards \subseteq States /\ 0 .. MaxIdle \subseteq Int
    BY CardsAssumption, ConstantFacts DEF States
  <2>2. card \in [state : Cards, idle : 0 .. MaxIdle, open : {FALSE}, next : {0}]
    BY DEF Init
  <2>3. card = [state |-> card.state, idle |-> card.idle, open |-> FALSE, next |-> 0]
    BY <2>2
  <2>4. card.state \in States /\ card.idle \in Int /\ card.state \in Cards
    BY <2>1, <2>2
  <2>5. card.next = 0 /\ ~card.open
    BY <2>3
  <2> DEFINE s == card.state
  <2> DEFINE d == card.idle
  <2>6. card = [state |-> s, idle |-> d, open |-> FALSE, next |-> 0] /\ s \in States /\ d \in Int
    BY <2>3, <2>4
  <2> HIDE DEF s, d
  <2>7. card \in [state : States, idle : Int, open : BOOLEAN, next : Int]
    BY <2>6
  <2> QED
    BY <2>4, <2>5, <2>7
<1>3. TypeOK
  BY <1>1, <1>2, ConstantFacts DEF Init, TypeOK, FreshBuf
<1>4. store = [n \in Block |-> store[n]]
  BY DEF Init
<1>5. InvType
  <2>1. cs = FALSE /\ pc = "off" /\ line = <<>>
    BY DEF Init
  <2>2. line \in Seq(Items) /\ cs \in BOOLEAN
    <3>1. <<>> \in Seq(Items)
      OBVIOUS
    <3> QED
      BY <2>1, <3>1
  <2> QED
    BY <1>1, <1>2, <1>3, <1>4, <2>1, <2>2 DEF InvType
<1>6. InvFlow /\ InvOpen /\ InvLine /\ InvReady
  BY <1>1, <1>2 DEF InvFlow, InvOpen, InvLine, InvReady, Init, Commanding, Fetching, SuccessDetaches,
                    Returned
<1>7. InvBuf /\ InvStore
  BY <1>1 DEF InvBuf, InvStore, NoOverrun, Init, FreshBuf, InitOp
<1> QED
  BY <1>5, <1>6, <1>7 DEF Inv

\* Every step keeps it.
LEMMA InvNext == Inv /\ [Next]_vars => Inv'
BY TypeStep, FlowStep, OpenStep, LineInvStep, ReadyStep, BufStep, StoreStep DEF Inv

\* The invariant holds in every state of every behaviour.
THEOREM Invariance == Spec => []Inv
BY InvInit, InvNext, PTL DEF Spec

\* The variables of driver and card keep their types: every poll counter stays in
\* its range, and the buffer holds bytes of the card.
THEOREM TypeCorrect == Spec => []TypeOK
<1>1. Inv => TypeOK
  BY DEF Inv, InvType
<1> QED
  BY <1>1, Invariance, PTL

\* For every alignment, size and block length, a read never stores outside the
\* caller's buffer (__spi_sdcard_read with its swap buffer).
THEOREM BufferRespected == Spec => []NoOverrun
<1>1. Inv => NoOverrun
  BY DEF Inv, InvBuf
<1> QED
  BY <1>1, Invariance, PTL

\* A read with CRC checks that returns success has filled the buffer with exactly
\* the bytes asked for, whatever the card delayed, damaged or refused.
THEOREM ReadsExactly == Spec => []ReadExact
<1>1. Inv => ReadExact
  <2> SUFFICES ASSUME Inv, Returned("read"), ret = "ok", op.crc, NEW i \in 0 .. op.size - 1
               PROVE  buf[i] = op.addr + i
    BY DEF ReadExact
  <2>1. op \in Ops /\ op.kind = "read" /\ InRange(op) /\ b = NumOf(op)
    BY DEF Inv, InvType, InvFlow, Returned, InitOp
  <2>2. /\ NumOf(op) \in Nat /\ FirstOffs \in Int /\ op.size \in Nat
        /\ op.size > 0 => NumOf(op) >= 1
        /\ NumOf(op) >= 1 => /\ LastLen \in 1 .. BlockLen
                             /\ op.size + FirstOffs = BlockLen * (NumOf(op) - 1) + LastLen
    BY <2>1, ReadCut, OpTypes, ConstantFacts
  <2>3. BlockLen * NumOf(op) = BlockLen * (NumOf(op) - 1) + BlockLen
    BY <2>2, ConstantFacts
  <2>4. i + FirstOffs < BlockLen * b
    BY <2>1, <2>2, <2>3, ConstantFacts
  <2> QED
    BY <2>1, <2>4 DEF Inv, InvBuf
<1> QED
  BY <1>1, Invariance, PTL

\* A write that returns success has stored every block in its place, and nothing
\* elsewhere (spi_sdcard_write_blocks).
THEOREM WritesExactly == Spec => []WriteExact
<1>1. Inv => WriteExact
  <2> SUFFICES ASSUME Inv, Returned("write"), ret = "ok", NEW n \in Block
               PROVE  store[n] = IF n - FirstNum \in 0 .. op.size - 1 THEN n - FirstNum ELSE Untouched
    BY DEF WriteExact
  <2>1. op.kind = "write" /\ b = op.size /\ pc = "done"
    BY DEF Inv, InvFlow, Returned, NumOf
  <2>2. ~Storing
    BY <2>1 DEF Storing, Waits, Commanding
  <2> QED
    BY <2>1, <2>2 DEF Inv, InvStore
<1> QED
  BY <1>1, Invariance, PTL

\* An operation that returns success leaves the card deselected and out of any
\* transfer: CMD12 or the stop token was sent where one was open.
THEOREM Detaches == Spec => []SuccessDetaches
<1>1. Inv => SuccessDetaches
  BY DEF Inv, InvOpen
<1> QED
  BY <1>1, Invariance, PTL

\* Initialisation succeeds only with a card that has become ready, if no slot
\* reads as zero: __spi_sdcard_cmd_check takes a zero for success, so that such
\* a slot passes for a card.
THEOREM ReadyWhenInitialised ==
  ASSUME "low" \notin Cards
  PROVE  Spec => []InitMeansReady
<1>1. Inv => InitMeansReady
  BY DEF Inv, InvReady, InvType, TypeOK, Low, InitMeansReady
<1> QED
  BY <1>1, Invariance, PTL
=============================================================================
