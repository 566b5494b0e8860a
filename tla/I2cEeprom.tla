----------------------------- MODULE I2cEeprom ------------------------------
(***************************************************************************)
(* The driver of the 24FC1025 boot EEPROM (sw/lib/hal/i2c_24fc1025.c): an  *)
(* access of any alignment is cut into chunks that fit the FIFOs of the    *)
(* I2C host, each chunk is queued while the host is disabled, and the host *)
(* then works through its format FIFO while the driver polls.              *)
(*                                                                         *)
(* The host and the EEPROM are external: a format entry becomes a byte on  *)
(* the bus; the control byte after a start selects the chip, its 64 KiB    *)
(* block and the direction; two address bytes set the pointer; data bytes  *)
(* are held until a stop programs them.                                    *)
(***************************************************************************)
EXTENDS Integers, Sequences

CONSTANTS Depth,    \* I2C_PARAM_FIFO_DEPTH
          Reads,    \* the reads considered: [addr, len]
          Writes,   \* the writes considered: [addr, len]
          BufBytes  \* bytes of memory from the caller's buffer on

\* CHECK_ASSERT(0x13, ...) of __i2c_24fc1025_access; a level is a uint8_t.
DepthFits == Depth \in 2 .. 128 /\ 128 % Depth = 0
\* A read's buffer has room for what is asked for.
AccessesFit ==
  /\ \A a \in Reads \cup Writes : a.addr \in Nat /\ a.len \in Nat \ {0}
  /\ BufBytes \in Nat /\ \A a \in Reads : a.len <= BufBytes

BlockBytes == 65536
Untouched == -1

VARIABLES pc,       \* where the driver is
          op,       \* the access: [addr, len, write]
          offs,     \* the offset of the next chunk
          chunk,    \* the chunk being carried out: [offs, addr, len]
          buf,      \* the caller's buffer and what lies behind it
          fmt,      \* the host's format FIFO: entries [kind, byte]
          rx,       \* the host's receive FIFO
          enabled,  \* the host is enabled
          dev,      \* the EEPROM: [base, ptr, bytes, left, pending]
          prog      \* the bytes programmed, as <<address, value>>

vars == <<pc, op, offs, chunk, buf, fmt, rx, enabled, dev, prog>>

NoChunk == [offs |-> 0, addr |-> 0, len |-> 0]
Bit(v, i) == (v \div 2^i) % 2
Lesser(a, c) == IF a < c THEN a ELSE c

Init ==
  /\ pc = "access"
  /\ op \in {[addr |-> a.addr, len |-> a.len, write |-> FALSE] : a \in Reads}
            \cup {[addr |-> a.addr, len |-> a.len, write |-> TRUE] : a \in Writes}
  /\ offs = 0
  /\ chunk = NoChunk
  /\ buf = [i \in 0 .. BufBytes - 1 |-> Untouched]
  /\ fmt = <<>> /\ rx = <<>>
  /\ enabled = TRUE
  /\ dev = [base |-> 0, ptr |-> 0, bytes |-> 0, left |-> 0, pending |-> {}]
  /\ prog = {}

-----------------------------------------------------------------------------
(* The driver. *)

\* Mutant: the first chunk runs a whole FIFO, over the boundary.
FirstLenWhole == Depth
\* The first chunk of an unaligned access goes up to the next FIFO boundary,
\* however short the access is.
FirstLen == Depth - (op.addr % Depth)

CallChunk(o, n) == pc' = "vacate" /\ chunk' = [offs |-> o, addr |-> op.addr + o, len |-> n]

\* Mutant: a remainder is left out.
MoreFull == offs + Depth <= op.len
More == offs < op.len

\* __i2c_24fc1025_access: the unaligned start, the aligned chunks, the return.
NextChunk ==
  /\ pc = "access"
  /\ \/ /\ offs = 0 /\ op.addr % Depth # 0
        /\ CallChunk(0, FirstLen)
        /\ offs' = FirstLen
     \/ /\ offs # 0 \/ op.addr % Depth = 0
        /\ More
        /\ CallChunk(offs, Lesser(Depth, op.len - offs))
        /\ offs' = offs + Depth
     \/ /\ offs # 0 \/ op.addr % Depth = 0
        /\ ~More
        /\ pc' = "done" /\ UNCHANGED <<offs, chunk>>
  /\ UNCHANGED <<op, buf, fmt, rx, enabled, dev, prog>>

\* The control byte: a uint8_t, whatever is shifted into it.
CtrlByte(addr) == (160 + Bit(addr, 16) * 2^15 + Bit(addr, 20) * 2^16 + Bit(addr, 24) * 2^20) % 256

Entry(kind, byte) == [kind |-> kind, byte |-> byte]

Address(last) ==
  <<Entry("start", CtrlByte(chunk.addr)),
    Entry("tx", (chunk.addr \div 256) % 256),
    Entry(last, chunk.addr % 256)>>

ReadEntries ==
  Address("stop") \o <<Entry("start", CtrlByte(chunk.addr) + 1), Entry("rx", chunk.len)>>

\* A write chunk takes half a FIFO and the last byte of the chunk, which goes
\* out without a stop; what it sends of the caller's memory is named by offset.
Half == Depth \div 2
WriteEntries ==
  Address("tx")
  \o [i \in 1 .. Lesser(chunk.len - 1, Half) |-> Entry("tx", chunk.offs + i - 1)]
  \o <<Entry("tx", chunk.offs + chunk.len - 1)>>

\* Mutant: the FIFOs are filled without waiting for them.
VacatedAlways == TRUE
Vacated == fmt = <<>> /\ rx = <<>>

\* __i2c_24fc1025_access_chunk: wait, disable the host, queue, enable.
FillFormat ==
  /\ pc = "vacate" /\ Vacated
  /\ fmt' = fmt \o (IF op.write THEN WriteEntries ELSE ReadEntries)
  /\ pc' = "enable"
  /\ enabled' = FALSE
  /\ UNCHANGED <<op, offs, chunk, buf, rx, dev, prog>>

\* A write chunk of more than half a FIFO calls itself for the rest, past the
\* end of the chunk.
Enable ==
  /\ pc = "enable"
  /\ enabled' = TRUE
  /\ IF ~op.write THEN pc' = "receive" /\ UNCHANGED chunk
     ELSE IF chunk.len > Half
     THEN /\ pc' = "vacate"
          /\ chunk' = [offs |-> chunk.offs + chunk.len, addr |-> chunk.addr + chunk.len,
                       len |-> chunk.len - Half]
     ELSE pc' = "access" /\ UNCHANGED chunk
  /\ UNCHANGED <<op, offs, buf, fmt, rx, dev, prog>>

\* Mutant: the driver waits for one byte too many.
ReceivedMore == Len(rx) > chunk.len
Received == Len(rx) >= chunk.len

\* Wait until the chunk is there, then copy it to memory.
Receive ==
  /\ pc = "receive" /\ Received
  /\ buf' = [i \in DOMAIN buf |->
               LET j == i - chunk.offs IN
               IF j \in 0 .. Lesser(chunk.len, Len(rx)) - 1 THEN rx[j + 1] ELSE buf[i]]
  /\ rx' = SubSeq(rx, chunk.len + 1, Len(rx))
  /\ pc' = "access"
  /\ UNCHANGED <<op, offs, chunk, fmt, enabled, dev, prog>>

Driver == NextChunk \/ FillFormat \/ Enable \/ Receive

-----------------------------------------------------------------------------
(* The I2C host and the EEPROM. *)

\* The chip's block bit is bit 3 of the control byte, its address pins bits 1, 2.
Selected(ctrl) == BlockBytes * (Bit(ctrl, 3) + 2 * Bit(ctrl, 1) + 4 * Bit(ctrl, 2))

Bump(ptr) == (ptr + 1) % BlockBytes

\* A data byte of a write, or an address byte.
TakesByte(d, byte) ==
  CASE d.bytes = 0 -> [d EXCEPT !.bytes = 1, !.ptr = byte * 256]
    [] d.bytes = 1 -> [d EXCEPT !.bytes = 2, !.ptr = @ + byte]
    [] OTHER -> [d EXCEPT !.ptr = Bump(@), !.pending = @ \cup {<<d.base + d.ptr, byte>>}]

BusStart ==
  /\ enabled /\ dev.left = 0 /\ fmt # <<>> /\ Head(fmt).kind = "start"
  /\ LET ctrl == Head(fmt).byte IN
     dev' = [dev EXCEPT !.base = Selected(ctrl), !.pending = {},
                        !.bytes = IF Bit(ctrl, 0) = 1 THEN @ ELSE 0]
  /\ fmt' = Tail(fmt)
  /\ UNCHANGED <<pc, op, offs, chunk, buf, rx, enabled, prog>>

BusByte ==
  /\ enabled /\ dev.left = 0 /\ fmt # <<>> /\ Head(fmt).kind \in {"tx", "stop"}
  /\ LET d == TakesByte(dev, Head(fmt).byte)
         stop == Head(fmt).kind = "stop"
     IN /\ prog' = IF stop THEN prog \cup d.pending ELSE prog
        /\ dev' = IF stop THEN [d EXCEPT !.pending = {}] ELSE d
  /\ fmt' = Tail(fmt)
  /\ UNCHANGED <<pc, op, offs, chunk, buf, rx, enabled>>

BusRequest ==
  /\ enabled /\ dev.left = 0 /\ fmt # <<>> /\ Head(fmt).kind = "rx"
  /\ dev' = [dev EXCEPT !.left = Head(fmt).byte]
  /\ fmt' = Tail(fmt)
  /\ UNCHANGED <<pc, op, offs, chunk, buf, rx, enabled, prog>>

\* The EEPROM sends the next byte, which is named by its address.
BusReceive ==
  /\ dev.left > 0
  /\ rx' = Append(rx, dev.base + dev.ptr)
  /\ dev' = [dev EXCEPT !.ptr = Bump(@), !.left = @ - 1]
  /\ UNCHANGED <<pc, op, offs, chunk, buf, fmt, enabled, prog>>

Bus == BusStart \/ BusByte \/ BusRequest \/ BusReceive

Next == Driver \/ Bus
Spec == Init /\ [][Next]_vars

\* The driver runs and the I2C host works through its FIFO.
FairSpec == Spec /\ WF_vars(Driver) /\ WF_vars(Bus)

-----------------------------------------------------------------------------

TypeOK ==
  /\ pc \in {"access", "vacate", "enable", "receive", "done"}
  /\ offs \in 0 .. op.len + Depth - 1
  /\ chunk.len \in 0 .. Depth
  /\ dev.ptr \in 0 .. BlockBytes - 1 /\ dev.left \in 0 .. Depth
  /\ enabled \in BOOLEAN

\* A read below 64 KiB returns the bytes asked for, across chunk boundaries.
ReadExact ==
  pc = "done" /\ ~op.write /\ op.addr + op.len <= BlockBytes =>
    \A i \in 0 .. op.len - 1 : buf[i] = op.addr + i

\* A read writes behind the caller's buffer only up to the next FIFO boundary
\* of the EEPROM's addresses, which it does when the access is shorter than
\* that: a read of a GPT header or entry is.
OverrunBounded ==
  \A i \in DOMAIN buf :
    i >= op.len /\ (op.addr % Depth = 0 \/ i >= Depth - (op.addr % Depth)) => buf[i] = Untouched

\* No chunk overflows a FIFO of the host, although a chunk's entries are all
\* queued before the first one is sent, and no chunk is queued on top of
\* another.
FifosFit == Len(fmt) <= Depth /\ Len(rx) <= Depth

\* Every access ends: the driver never waits for bytes it has not requested.
Ends == <>(pc = "done")
=============================================================================
