------------------------- MODULE PassiveBootProofs --------------------------
(***************************************************************************)
(* Proofs about PassiveBoot for every program, every burst length and any  *)
(* amount of noise: the program runs complete and at its entry point, host *)
(* and debug server stay in step, and the exit code arrives.  The second   *)
(* part is about BootPreload, for every ELF file and size of words, pages  *)
(* and bursts.                                                             *)
(***************************************************************************)
EXTENDS PassiveBoot, BootPreload, SequenceTheorems, WellFoundedInduction, TLAPS

(***************************************************************************)
(* The inductive invariant.                                                *)
(***************************************************************************)

Message ==
  [k : {"ack", "junk", "text", "eot", "eoc"}, v : {0}]
  \cup [k : {"byte"}, v : Nat]
  \cup [k : {"read", "write"}, v : [addr : Nat, left : Nat]]
  \cup [k : {"exec"}, v : {Entry}]
  \cup [k : {"ret"}, v : Reg]

Callers == {"none", "boot_next_stage", "uart_debug_serve", "init", "poll"}

InvWire == rx \in Seq(Message) /\ tx \in Seq(Message)
InvData == mem \in [Addr -> Nat] /\ scratch \in [1 .. 3 -> Reg]
InvHart == cmd \in [addr : Nat, left : Nat] /\ caller \in Callers
InvHost == offs \in Nat /\ sent \in Nat /\ offs <= Section.len /\ read \in Seq(Nat)

InvType == TypeOK /\ InvWire /\ InvData /\ InvHart /\ InvHost

Waiting == {"poll", "check"}
Program == {"run", "crt0", "eoc"}
Ended   == {"exit", "ebreak"}
Silent  == rx = <<>> /\ tx = <<>>

-----------------------------------------------------------------------------
(* UART: the joint states of host and server, by the phase of the host.    *)

\* q holds n bytes of the image, from address a on.
Carries(q, a, n) == Len(q) = n /\ \A i \in 1 .. n : q[i] = Msg("byte", Image[a + i - 1])

Stray == pc \in {"llc", "init"} \cup Waiting /\ tx = <<>> /\ \A i \in DOMAIN rx : rx[i].k = "junk"

Challenged ==
  \/ /\ pc \in Waiting /\ tx = <<>>
     /\ rx # <<>> /\ rx[Len(rx)] = Msg("ack", 0)
     /\ \A i \in 1 .. Len(rx) - 1 : rx[i].k = "junk"
  \/ pc = "serve" /\ rx = <<>> /\ tx = <<Msg("ack", 0)>>

Serving == pc = "serve" /\ Silent

\* The bytes of the burst that the server has not received, and where they go.
Writing ==
  \/ /\ host = "write_ack" /\ pc = "serve" /\ sent = 0
     /\ rx = <<Msg("write", [addr |-> Base + offs, left |-> BurstLen])>> /\ tx = <<>>
  \/ /\ pc = "write"
     /\ tx = IF host = "write_ack" THEN <<Msg("ack", 0)>> ELSE <<>>
     /\ host = "write_ack" => sent = 0
     /\ sent <= BurstLen /\ cmd.left <= BurstLen
     /\ cmd.addr = Base + offs + BurstLen - cmd.left
     /\ Carries(rx, cmd.addr, sent - (BurstLen - cmd.left))
  \/ /\ pc = "serve" /\ rx = <<>> /\ sent = BurstLen
     /\ tx = IF host = "write_ack" THEN <<Msg("ack", 0), Msg("eot", 0)>> ELSE <<Msg("eot", 0)>>

\* q holds the ACK (or not), n bytes of the image from address a on, the EOT (or not).
Stream(q, ack, a, n, eot) ==
  /\ Len(q) = ack + n + eot
  /\ ack = 1 => q[1] = Msg("ack", 0)
  /\ \A i \in 1 .. n : q[ack + i] = Msg("byte", Image[a + i - 1])
  /\ eot = 1 => q[Len(q)] = Msg("eot", 0)

\* What the server has sent of the section and the host has not read: after an
\* ACK, if the host still waits for it, and before an EOT, if the server is done.
Acks == IF host \in {"read_ack", "exec_ack"} THEN 1 ELSE 0
Eots == IF pc = "serve" THEN 1 ELSE 0
Served == Section.len - (IF pc = "read" THEN cmd.left ELSE 0)

Reading ==
  \/ /\ host = "read_ack" /\ pc = "serve" /\ read = <<>>
     /\ rx = <<Msg("read", [addr |-> Base, left |-> Section.len])>> /\ tx = <<>>
  \/ /\ pc \in {"read", "serve"} /\ rx = <<>>
     /\ pc = "read" => cmd.left <= Section.len /\ cmd.addr = Base + Section.len - cmd.left
     /\ host = "read_ack" => read = <<>>
     /\ Len(read) <= Served
     /\ Stream(tx, Acks, Base + Len(read), Served - Len(read), Eots)

\* q holds the ACK (or not), what the program has printed, and the last two
\* messages with its return value (or not).
Output(q, ack, last, r) ==
  /\ Len(q) >= ack + last
  /\ ack = 1 => q[1] = Msg("ack", 0)
  /\ \A i \in ack + 1 .. Len(q) - last : q[i] = Msg("text", 0)
  /\ last = 2 => q[Len(q) - 1] = Msg("eoc", 0) /\ q[Len(q)] = Msg("ret", r)

Running ==
  \/ /\ host = "exec_ack" /\ pc = "serve"
     /\ rx = <<Msg("exec", Entry)>> /\ tx = <<>>
  \/ /\ pc \in Program \cup Ended /\ rx = <<>>
     /\ Output(tx, Acks, IF pc \in Ended THEN 2 ELSE 0, result)

Aborted ==
  \/ pc = "serve" /\ rx = <<Msg("junk", 0)>> /\ tx = <<>>
  \/ pc \in Ended /\ Silent /\ result = 1

UartPhase ==
  \/ host = "start" /\ Stray
  \/ host = "hello" /\ Challenged
  \/ host \in {"burst", "loaded"} /\ Serving
  \/ host \in {"write_ack", "data"} /\ Writing
  \/ host \in {"read_ack", "read_data"} /\ Reading
  \/ host \in {"exec_ack", "console"} /\ Running
  \/ host = "return" /\ pc \in Ended /\ rx = <<>> /\ tx = <<Msg("ret", result)>>
  \/ host = "done" /\ pc \in Ended /\ Silent /\ code = result
  \/ host = "aborted" /\ Aborted

UartResult ==
  /\ host # "done" => code = -1
  /\ pc \in Program => caller = "uart_debug_serve"
  /\ pc \in {"crt0", "eoc"} \cup Ended => result \in Reg
  /\ \/ scratch = <<0, 0, 0>> /\ pc # "eoc"
     \/ pc \in {"eoc"} \cup Ended /\ scratch = <<0, 0, ExitWord(result)>>

InvUart == kind = "uart" => UartPhase /\ UartResult

-----------------------------------------------------------------------------
(* Serial link and JTAG. *)

InvSlink ==
  kind = "slink" =>
    /\ host \in {"start", "load", "entry", "entry_low", "start_signal", "poll", "done"}
    /\ rx = <<>>
    /\ pc \in {"llc", "init", "launch", "jump", "run", "crt0", "ret"} \cup Waiting
    /\ host \notin {"poll", "done"} => pc \in {"llc", "init"} \cup Waiting
    /\ host # "start" => pc # "llc"
    /\ host # "done" => code = -1
    /\ host = "done" => pc = "ret" /\ code = result % Codes
    /\ pc \in {"run", "crt0"} => caller = "boot_next_stage"
    /\ pc \in {"crt0", "ret"} => result \in Reg
    /\ scratch[2] = IF host \in {"start", "load", "entry"} THEN 0 ELSE Entry[1]
    /\ scratch[1] = IF host \in {"start", "load", "entry", "entry_low"} THEN 0 ELSE Entry[2]
    /\ scratch[3] = CASE pc = "ret" -> ExitWord(result)
                      [] pc \in {"jump", "run", "crt0"} -> 0
                      [] OTHER -> IF host \in {"poll", "done"} THEN 2 ELSE 0

InvJtag ==
  kind = "jtag" =>
    /\ host \in {"start", "load", "entry", "poll", "done"}
    /\ rx = <<>>
    /\ host = "start" => pc \in {"llc", "init"} \cup Waiting
    /\ host \in {"load", "entry"} => pc = "halted"
    /\ host \in {"poll", "done"} => pc \in {"run", "crt0", "init", "launch", "jump", "lost"} \cup Waiting
    /\ pc \in {"halted", "run", "crt0"} => caller \in {"init", "poll"}
    /\ scratch[1] = 0 /\ scratch[2] = 0
    /\ scratch[3] = IF host \in {"poll", "done"} /\ pc \in {"init", "launch"} \cup Waiting
                    THEN ExitWord(result) ELSE 0
    /\ host \in {"poll", "done"} /\ pc # "run" => result \in Reg
    /\ host # "done" => code = -1
    /\ host = "done" => code = result % Codes /\ pc \notin {"run", "crt0"}

-----------------------------------------------------------------------------
(* The memory. *)

\* The first n bytes of section j are in place.
Placed(j, n) ==
  \A k \in 0 .. n - 1 : mem[Sections[j].base + k] = Image[Sections[j].base + k]

Loading == {"start", "hello", "burst", "write_ack", "data", "load"}

InvMem ==
  /\ host \in Loading => /\ read = <<>>
                         /\ \A j \in 1 .. sect - 1 : Placed(j, Sections[j].len)
                         /\ Placed(sect, offs)
  /\ kind = "uart" /\ host \in {"write_ack", "data"} /\ pc = "write" =>
       Placed(sect, offs + BurstLen - cmd.left)
  /\ kind = "uart" /\ host \in {"write_ack", "data"} /\ pc = "serve" /\ tx # <<>> =>
       Placed(sect, offs + BurstLen)
  /\ host \notin Loading \cup {"aborted", "fatal"} => mem = Image
  /\ \A i \in DOMAIN read : read[i] = Image[Base + i - 1]
  /\ kind # "uart" => offs = 0

Inv == InvType /\ InvUart /\ InvSlink /\ InvJtag /\ InvMem

-----------------------------------------------------------------------------
(* Facts about the constants and the operators. *)

\* A remainder with a quotient of zero or one.
LEMMA SmallQuotient ==
  ASSUME NEW m \in Nat \ {0}, NEW r \in 0 .. m - 1
  PROVE  r % m = r /\ (m + r) % m = r
OBVIOUS

\* An exit word has the end flag, fits a register, and holds the code without
\* its top bit; both _exit store the same.
LEMMA ExitWordFacts ==
  ASSUME NEW r \in Reg
  PROVE  /\ ExitWord(r) \in Reg
         /\ EndFlag(ExitWord(r)) = 1
         /\ ExitWord(r) \div 2 = r % Codes
         /\ RomExitWord(r) = ExitWord(r)
<1>1. Codes \in Int /\ 1 < Codes /\ r \in Int /\ 0 <= r /\ r < 2 * Codes
  BY SizesAssumption DEF Reg
<1>2. CASE r < Codes
  <2>1. (2 * r + 1) % (2 * Codes) = 2 * r + 1
    BY <1>1, <1>2, SmallQuotient
  <2>2. r % Codes = r
    BY <1>1, <1>2, SmallQuotient
  <2> QED
    BY <1>1, <1>2, <2>1, <2>2 DEF ExitWord, RomExitWord, Reg, EndFlag
<1>3. CASE r >= Codes
  <2> DEFINE d == r - Codes
  <2>1. d \in 0 .. Codes - 1 /\ 2 * d + 1 \in 0 .. 2 * Codes - 1
    BY <1>1, <1>3
  <2>2. r = Codes + d /\ 2 * r + 1 = 2 * Codes + (2 * d + 1)
    BY <1>1
  <2>3. r % Codes = d
    BY <1>1, <2>1, <2>2, SmallQuotient
  <2>4. (2 * r + 1) % (2 * Codes) = 2 * d + 1
    BY <1>1, <2>1, <2>2, SmallQuotient
  <2> QED
    BY <1>1, <2>1, <2>3, <2>4 DEF ExitWord, RomExitWord, Reg, EndFlag
<1> QED
  BY <1>1, <1>2, <1>3

\* The bytes of the sections are the addresses.
LEMMA AddrFacts ==
  /\ \A j \in 1 .. Len(Sections) :
       /\ Sections[j].base \in Nat /\ Sections[j].len \in Nat
       /\ \A k \in 0 .. Sections[j].len - 1 : Sections[j].base + k \in Addr
  /\ \A a \in Addr : \E j \in 1 .. Len(Sections) : \E k \in 0 .. Sections[j].len - 1 :
       a = Sections[j].base + k
  /\ Len(Sections) \in Nat /\ Len(Sections) > 0
  /\ \A a \in Addr : Image[a] \in Nat /\ Image[a] # 0
<1>1. \A j \in 1 .. Len(Sections) : Sections[j].base \in Nat /\ Sections[j].len \in Nat
  <2>1. ASSUME NEW j \in 1 .. Len(Sections)
        PROVE  Sections[j] \in [base : Nat, len : Nat]
    <3> DEFINE S == [base : Nat, len : Nat]
    <3>1. Sections \in Seq(S)
      BY SectionsAssumption
    <3>2. Sections[j] \in S
      <4> HIDE DEF S
      <4> QED
        BY <3>1
    <3> QED
      BY <3>2
  <2> QED
    BY <2>1
<1>2. \A j \in 1 .. Len(Sections) :
        /\ Sections[j].base \in Nat /\ Sections[j].len \in Nat
        /\ \A k \in 0 .. Sections[j].len - 1 : Sections[j].base + k \in Addr
  <2> SUFFICES ASSUME NEW j \in 1 .. Len(Sections), NEW k \in 0 .. Sections[j].len - 1
               PROVE  Sections[j].base + k \in Addr
    BY <1>1
  <2>1. Sections[j].base + k \in Sections[j].base .. Sections[j].base + Sections[j].len - 1
    BY <1>1
  <2> QED
    BY <2>1 DEF Addr
<1>3. ASSUME NEW a \in Addr
      PROVE  \E j \in 1 .. Len(Sections) : \E k \in 0 .. Sections[j].len - 1 : a = Sections[j].base + k
  <2>1. PICK j \in 1 .. Len(Sections) : a \in Sections[j].base .. Sections[j].base + Sections[j].len - 1
    BY DEF Addr
  <2>2. a - Sections[j].base \in 0 .. Sections[j].len - 1 /\ a = Sections[j].base + (a - Sections[j].base)
    BY <1>1, <2>1
  <2> QED
    BY <2>2
<1> QED
  BY <1>2, <1>3, SectionsAssumption, ImageAssumption

\* The current section and burst.
LEMMA BurstFacts ==
  ASSUME TypeOK, InvHost
  PROVE  /\ sect \in 1 .. Len(Sections)
         /\ Section = Sections[sect] /\ Base \in Nat /\ Section.len \in Nat
         /\ BurstLen \in Nat /\ offs + BurstLen <= Section.len
         /\ \A k \in 0 .. Section.len - 1 : Base + k \in Addr
<1>1. sect \in 1 .. Len(Sections)
  BY DEF TypeOK
<1>2. Section.len \in Nat /\ Base \in Nat
  BY <1>1, AddrFacts DEF Section, Base
<1>3. \A k \in 0 .. Section.len - 1 : Base + k \in Addr
  BY <1>1, AddrFacts DEF Section, Base
<1>4. BurstLen \in Nat /\ offs + BurstLen <= Section.len
  BY <1>2, SizesAssumption DEF InvHost, BurstLen
<1> QED
  BY <1>1, <1>2, <1>3, <1>4 DEF Section

\* Taking the first element of a sequence.
LEMMA TailFacts ==
  ASSUME NEW S, NEW q \in Seq(S), q # <<>>
  PROVE  /\ Tail(q) \in Seq(S) /\ Head(q) \in S /\ Head(q) = q[1]
         /\ Len(q) \in Nat /\ Len(q) >= 1 /\ Len(Tail(q)) = Len(q) - 1
         /\ \A i \in 1 .. Len(q) - 1 : Tail(q)[i] = q[i + 1]
         /\ Len(q) = 1 => Tail(q) = <<>>
         /\ Len(q) > 1 => Tail(q) # <<>>
         /\ Tail(q) = <<>> => Len(q) = 1
<1>1. /\ Tail(q) \in Seq(S) /\ Head(q) \in S /\ Head(q) = q[1]
      /\ Len(q) \in Nat /\ Len(q) >= 1 /\ Len(Tail(q)) = Len(q) - 1
  OBVIOUS
<1>2. \A i \in 1 .. Len(q) - 1 : Tail(q)[i] = q[i + 1]
  OBVIOUS
<1>3. Len(q) = 1 <=> Tail(q) = <<>>
  <2>1. Tail(q) # <<>> => Len(Tail(q)) # 0
    <3> DEFINE t == Tail(q)
    <3>1. t \in Seq(S)
      BY <1>1
    <3>2. t # <<>> => Len(t) \in Nat \ {0}
      <4> HIDE DEF t
      <4> QED
        BY <3>1, EmptySeq
    <3> QED
      BY <3>2
  <2>2. Tail(q) = <<>> => Len(Tail(q)) = 0
    BY EmptySeq
  <2> QED
    BY <1>1, <2>1, <2>2
<1> QED
  BY <1>1, <1>2, <1>3

\* Adding elements at the end of a sequence.
LEMMA AppendFacts ==
  ASSUME NEW S, NEW q \in Seq(S), NEW m \in S
  PROVE  /\ Append(q, m) \in Seq(S) /\ Len(q) \in Nat /\ Len(Append(q, m)) = Len(q) + 1
         /\ \A i \in 1 .. Len(q) : Append(q, m)[i] = q[i]
         /\ Append(q, m)[Len(q) + 1] = m
         /\ Append(<<>>, m) = <<m>>
OBVIOUS

\* What may travel on the UART.
LEMMA MessageFacts ==
  /\ \A k \in {"ack", "junk", "text", "eot", "eoc"} : Msg(k, 0) \in Message
  /\ \A v \in Nat : Msg("byte", v) \in Message
  /\ \A v \in [addr : Nat, left : Nat] : Msg("read", v) \in Message /\ Msg("write", v) \in Message
  /\ Msg("exec", Entry) \in Message
  /\ \A v \in Reg : Msg("ret", v) \in Message
  /\ \A k, v : Msg(k, v).k = k /\ Msg(k, v).v = v
BY DEF Message, Msg

\* A READ or WRITE travels with its address and length.
LEMMA CommandFacts ==
  \A m \in Message : m.k \in {"read", "write"} => m.v \in [addr : Nat, left : Nat]
BY DEF Message

-----------------------------------------------------------------------------
(* What the phases say about one step. *)

UartHosts == {"hello", "burst", "write_ack", "data", "loaded", "read_ack", "read_data",
              "exec_ack", "console", "return", "aborted"}
BusHosts == {"load", "entry", "entry_low", "start_signal", "poll"}

Phases == TypeOK /\ InvUart /\ InvSlink /\ InvJtag

\* Which host there is follows from where host and hart are.
LEMMA KindFacts ==
  ASSUME Phases
  PROVE  /\ kind \in {"uart", "slink", "jtag"}
         /\ host \in UartHosts => kind = "uart"
         /\ host \in BusHosts => kind # "uart"
         /\ pc \in {"serve", "read", "write", "eoc"} \cup Ended => kind = "uart"
         /\ pc \in {"launch", "jump"} => kind # "uart"
         /\ kind # "uart" => rx = <<>>
<1>1. kind \in {"uart", "slink", "jtag"}
  BY HostKindsAssumption DEF Phases, TypeOK
<1>2. host \in UartHosts => kind = "uart"
  BY <1>1 DEF Phases, InvSlink, InvJtag, UartHosts
<1>3. host \in BusHosts => kind # "uart"
  BY <1>1 DEF Phases, InvUart, UartPhase, UartResult, BusHosts
<1>4. pc \in {"serve", "read", "write", "eoc"} \cup Ended => kind = "uart"
  BY <1>1 DEF Phases, InvSlink, InvJtag, Ended, Waiting
<1>5. pc \in {"launch", "jump"} => kind # "uart"
  BY DEF Phases, InvUart, UartPhase, UartResult, Stray, Challenged, Serving, Writing, Reading, Running, Aborted,
         Waiting, Program, Ended
<1>6. kind # "uart" => rx = <<>>
  BY <1>1 DEF Phases, InvSlink, InvJtag
<1> QED
  BY <1>1, <1>2, <1>3, <1>4, <1>5, <1>6

\* In which phase the data loops and the program run.
LEMMA PhaseFacts ==
  ASSUME Phases, kind = "uart"
  PROVE  /\ pc = "write" => host \in {"write_ack", "data"} /\ Writing
         /\ pc = "read" => host \in {"read_ack", "read_data"} /\ Reading
         /\ pc \in Program => host \in {"exec_ack", "console"} /\ Running
         /\ pc \in {"llc", "init"} => host = "start"
         /\ pc \in Waiting => host \in {"start", "hello"}
         /\ pc \in Ended => \/ host \in {"exec_ack", "console"} /\ Running
                            \/ host \in {"return", "done", "aborted"}
<1> USE DEF Phases, InvUart, UartPhase, Waiting, Program, Ended
<1>1. pc = "write" => host \in {"write_ack", "data"} /\ Writing
  BY DEF Stray, Challenged, Serving, Reading, Running, Aborted
<1>2. pc = "read" => host \in {"read_ack", "read_data"} /\ Reading
  BY DEF Stray, Challenged, Serving, Writing, Running, Aborted
<1>3. pc \in Program => host \in {"exec_ack", "console"} /\ Running
  BY DEF Stray, Challenged, Serving, Writing, Reading, Aborted
<1>4. pc \in {"llc", "init"} => host = "start"
  BY DEF Challenged, Serving, Writing, Reading, Running, Aborted
<1>5. pc \in Waiting => host \in {"start", "hello"}
  BY DEF Serving, Writing, Reading, Running, Aborted
<1>6. pc \in Ended => \/ host \in {"exec_ack", "console"} /\ Running
                      \/ host \in {"return", "done", "aborted"}
  BY DEF Stray, Challenged, Serving, Writing, Reading, Running
<1> QED
  BY <1>1, <1>2, <1>3, <1>4, <1>5, <1>6

\* The byte the server receives next belongs where it puts it.
LEMMA WriteFacts ==
  ASSUME InvType, Phases, pc = "write"
  PROVE  /\ cmd.addr = Base + offs + BurstLen - cmd.left
         /\ cmd.left > 0 => cmd.addr \in Addr
         /\ rx # <<>> => Head(rx) = Msg("byte", Image[cmd.addr])
<1>1. kind = "uart" /\ Writing
  BY KindFacts, PhaseFacts
<1>2. /\ cmd.left <= BurstLen
      /\ cmd.addr = Base + offs + BurstLen - cmd.left
      /\ Carries(rx, cmd.addr, sent - (BurstLen - cmd.left))
  BY <1>1 DEF Writing
<1>3. /\ cmd.left \in Nat /\ cmd.addr \in Nat /\ offs \in Nat
      /\ Base \in Nat /\ BurstLen \in Nat /\ offs + BurstLen <= Section.len /\ Section.len \in Nat
  BY BurstFacts DEF InvType, InvHart, InvHost
<1>4. cmd.left > 0 => cmd.addr \in Addr
  <2> DEFINE k == offs + BurstLen - cmd.left
  <2>1. cmd.left > 0 => k \in 0 .. Section.len - 1
    BY <1>2, <1>3
  <2>2. cmd.addr = Base + k
    BY <1>2, <1>3
  <2>3. \A i \in 0 .. Section.len - 1 : Base + i \in Addr
    BY BurstFacts DEF InvType
  <2> HIDE DEF k
  <2> QED
    BY <2>1, <2>2, <2>3
<1>5. rx # <<>> => Head(rx) = Msg("byte", Image[cmd.addr])
  <2> SUFFICES ASSUME rx # <<>>
               PROVE  Head(rx) = Msg("byte", Image[cmd.addr])
    OBVIOUS
  <2>1. Len(rx) >= 1 /\ Head(rx) = rx[1]
    BY DEF InvType, InvWire
  <2>2. rx[1] = Msg("byte", Image[cmd.addr + 1 - 1])
    BY <1>2, <2>1 DEF Carries
  <2> QED
    BY <1>3, <2>1, <2>2
<1> QED
  BY <1>2, <1>4, <1>5

\* The server reads from the section the host asked for.
LEMMA ReadFacts ==
  ASSUME InvType, Phases, pc = "read"
  PROVE  /\ cmd.left <= Section.len /\ cmd.addr = Base + Section.len - cmd.left
         /\ cmd.left > 0 => cmd.addr \in Addr
<1>1. kind = "uart" /\ Reading
  BY KindFacts, PhaseFacts
<1>2. cmd.left <= Section.len /\ cmd.addr = Base + Section.len - cmd.left
  BY <1>1 DEF Reading
<1>3. cmd.left \in Nat /\ Base \in Nat /\ Section.len \in Nat
  BY BurstFacts DEF InvType, InvHart
<1>4. cmd.left > 0 => Section.len - cmd.left \in 0 .. Section.len - 1
  BY <1>2, <1>3
<1> QED
  BY <1>2, <1>3, <1>4, BurstFacts DEF InvType

\* The host reads bytes of the image.
LEMMA ReadBackFacts ==
  ASSUME InvType, Phases, host = "read_data", Len(read) < Section.len, tx # <<>>
  PROVE  /\ Head(tx) = Msg("byte", Image[Base + Len(read)])
         /\ Base + Len(read) \in Addr
<1>1. kind = "uart" /\ Reading
  BY KindFacts DEF UartHosts, Phases, InvUart, UartPhase, UartResult
<1>2. /\ cmd.left \in Nat /\ Base \in Nat /\ Section.len \in Nat /\ Len(read) \in Nat
      /\ Len(tx) \in Nat /\ Len(tx) >= 1 /\ Head(tx) = tx[1]
  BY BurstFacts DEF InvType, InvHart, InvWire, InvHost
<1>3. Acks = 0
  BY DEF Acks
<1>4. /\ Len(tx) = Acks + (Served - Len(read)) + (IF pc = "serve" THEN 1 ELSE 0)
      /\ \A i \in 1 .. Served - Len(read) :
           tx[Acks + i] = Msg("byte", Image[Base + Len(read) + i - 1])
  BY <1>1 DEF Reading, Stream, Eots
<1>5. Served \in Int /\ (pc = "serve" => Served = Section.len)
  BY <1>2 DEF Served
<1>6. Served - Len(read) >= 1
  BY <1>2, <1>3, <1>4, <1>5
<1>7. tx[0 + 1] = Msg("byte", Image[Base + Len(read) + 1 - 1])
  BY <1>2, <1>3, <1>4, <1>5, <1>6
<1>8. 0 + 1 = 1 /\ Base + Len(read) + 1 - 1 = Base + Len(read)
  BY <1>2
<1>9. Len(read) \in 0 .. Section.len - 1
  BY <1>2
<1> QED
  BY <1>2, <1>7, <1>8, <1>9, BurstFacts DEF InvType

-----------------------------------------------------------------------------
(* Which steps change which variable. *)

Places == {"llc", "init", "poll", "check", "launch", "jump", "serve", "read", "write",
           "run", "lost", "halted", "crt0", "eoc", "exit", "ret", "ebreak"}

\* Which steps write which variable.
LEMMA Frames ==
  ASSUME [Next]_vars
  PROVE  /\ UNCHANGED kind
         /\ UNCHANGED mem \/ ServeWrite \/ LoadSection
         /\ UNCHANGED scratch \/ ClearStart \/ Crt0Exit \/ RomExit \/ SlinkEntryHigh \/ SlinkEntryLow \/ SlinkStart
         /\ UNCHANGED cmd \/ ServeCommand \/ ServeWrite \/ ServeRead
         /\ UNCHANGED caller \/ Launch \/ ServeCommand \/ JtagHalt
         /\ UNCHANGED result \/ ServeCommand \/ ProgramReturnsSome
         /\ UNCHANGED <<sect, offs>> \/ UartWriteEot \/ LoadSection
         /\ UNCHANGED sent \/ UartWrite \/ UartData
         /\ UNCHANGED read \/ UartReadData
         /\ UNCHANGED code \/ UartReturn \/ WaitForEoc
         /\ \/ rx' \in {rx, <<>>} \/ (rx # <<>> /\ rx' = Tail(rx))
            \/ Noise \/ UartHello \/ UartWrite \/ UartData \/ UartRead \/ UartExec \/ UartBadCommand
         /\ \/ UNCHANGED tx \/ (tx # <<>> /\ tx' = Tail(tx))
            \/ \E k \in {"ack", "eot", "text"} : tx' = Append(tx, Msg(k, 0))
            \/ ServeRead \/ ServeEoc
         /\ pc' \in Places \/ UNCHANGED pc \/ Crt0Exit
<1> USE DEF hartVars, hostVars, Hart, Host, Send, Expect, SlinkWrite, Advance, ProgramReturns,
      ConfigureLlc, UartDebugInit, PollScratch, UartDebugCheck, ClearStart, Launch,
      ServeCommand, ServeWrite, ServeRead, ServeEot, Crt0Exit, ServeEoc, RomExit, UartHello,
      UartHelloAck, UartWrite, UartWriteAck, UartData, UartWriteEot, UartReadAck, UartReadData,
      UartReadEot, UartExecAck, UartConsole, UartReturn, JtagHalt, SlinkReady, LoadSection,
      SlinkEntryHigh, SlinkEntryLow, SlinkStart, JtagResume, WaitForEoc, ProgramPrints,
      ProgramReturnsSome, UartExec, UartRead, Noise, UartBadCommand
<1>1. UNCHANGED kind
  BY DEF Next, RomStep, HostStep, vars
<1>2. UNCHANGED mem \/ ServeWrite \/ LoadSection
  BY DEF Next, RomStep, HostStep, vars
<1>3. UNCHANGED scratch \/ ClearStart \/ Crt0Exit \/ RomExit \/ SlinkEntryHigh \/ SlinkEntryLow \/ SlinkStart
  BY DEF Next, RomStep, HostStep, vars
<1>4. UNCHANGED cmd \/ ServeCommand \/ ServeWrite \/ ServeRead
  BY DEF Next, RomStep, HostStep, vars
<1>5. UNCHANGED caller \/ Launch \/ ServeCommand \/ JtagHalt
  BY DEF Next, RomStep, HostStep, vars
<1>6. UNCHANGED result \/ ServeCommand \/ ProgramReturnsSome
  BY DEF Next, RomStep, HostStep, vars
<1>7. UNCHANGED <<sect, offs>> \/ UartWriteEot \/ LoadSection
  BY DEF Next, RomStep, HostStep, vars
<1>8. UNCHANGED sent \/ UartWrite \/ UartData
  BY DEF Next, RomStep, HostStep, vars
<1>9. UNCHANGED read \/ UartReadData
  BY DEF Next, RomStep, HostStep, vars
<1>10. UNCHANGED code \/ UartReturn \/ WaitForEoc
  BY DEF Next, RomStep, HostStep, vars
<1>11. \/ rx' \in {rx, <<>>} \/ (rx # <<>> /\ rx' = Tail(rx))
       \/ Noise \/ UartHello \/ UartWrite \/ UartData \/ UartRead \/ UartExec \/ UartBadCommand
  BY DEF Next, RomStep, HostStep, vars
<1>12. \/ UNCHANGED tx \/ (tx # <<>> /\ tx' = Tail(tx))
       \/ \E k \in {"ack", "eot", "text"} : tx' = Append(tx, Msg(k, 0))
       \/ ServeRead \/ ServeEoc
  BY DEF Next, RomStep, HostStep, vars, EndOfTransfer
<1>13. pc' \in Places \/ UNCHANGED pc \/ Crt0Exit
  BY DEF Next, RomStep, HostStep, vars, Places
<1> QED
  BY <1>1, <1>2, <1>3, <1>4, <1>5, <1>6, <1>7, <1>8, <1>9, <1>10, <1>11, <1>12, <1>13

-----------------------------------------------------------------------------
(* Types. *)

\* The memory holds bytes of the image or nothing.
LEMMA MemType ==
  ASSUME InvType, Phases, [Next]_vars
  PROVE  mem' \in [Addr -> Nat] /\ \A a \in Addr : mem'[a] \in {0, Image[a]}
<1>0. /\ mem \in [Addr -> Nat] /\ \A a \in Addr : mem[a] \in {0, Image[a]}
      /\ \A a \in Addr : Image[a] \in Nat
  BY ImageAssumption DEF InvType, InvData, TypeOK
<1>1. CASE UNCHANGED mem
  BY <1>0, <1>1
<1>2. CASE ServeWrite
  <2>1. mem' = [mem EXCEPT ![cmd.addr] = Image[cmd.addr]] /\ cmd.addr \in Addr
    <3>1. pc = "write" /\ cmd.left > 0 /\ rx # <<>> /\ mem' = [mem EXCEPT ![cmd.addr] = Head(rx).v]
      BY <1>2 DEF ServeWrite
    <3>2. Head(rx) = Msg("byte", Image[cmd.addr]) /\ cmd.addr \in Addr
      BY <3>1, WriteFacts
    <3>3. Head(rx).v = Image[cmd.addr]
      BY <3>2 DEF Msg
    <3> QED
      BY <3>1, <3>2, <3>3
  <2> QED
    BY <1>0, <2>1
<1>3. CASE LoadSection
  <2> DEFINE D == Base .. Base + Section.len - 1
  <2>1. mem' = [a \in Addr |-> IF a \in D THEN Image[a] ELSE mem[a]]
    BY <1>3 DEF LoadSection
  <2> HIDE DEF D
  <2> QED
    BY <1>0, <2>1
<1> QED
  BY <1>1, <1>2, <1>3, Frames

\* The exit word and the entry point fit the SCRATCH registers.
LEMMA ScratchType ==
  ASSUME InvType, Phases, [Next]_vars
  PROVE  scratch' \in [1 .. 3 -> Reg] /\ \A i \in 1 .. 3 : scratch'[i] \in Reg
<1>0. scratch \in [1 .. 3 -> Reg]
  BY DEF InvType, InvData
<1>1. 0 \in Reg /\ 2 \in Reg
  BY SizesAssumption DEF Reg
<1> SUFFICES scratch' \in [1 .. 3 -> Reg]
  OBVIOUS
<1>2. \A i \in 1 .. 3, v \in Reg : [scratch EXCEPT ![i] = v] \in [1 .. 3 -> Reg]
  BY <1>0
<1>3. CASE UNCHANGED scratch
  BY <1>0, <1>3
<1>4. CASE ClearStart
  BY <1>1, <1>2, <1>4 DEF ClearStart
<1>5. CASE Crt0Exit
  <2>1. result \in Reg
    <3>1. pc = "crt0"
      BY <1>5 DEF Crt0Exit
    <3>2. kind = "uart" => result \in Reg
      BY <3>1 DEF Phases, InvUart, UartPhase, UartResult
    <3>3. kind = "slink" => result \in Reg
      BY <3>1 DEF Phases, InvSlink
    <3>4. kind = "jtag" => result \in Reg
      BY <3>1 DEF Phases, InvJtag, Waiting
    <3> QED
      BY <3>2, <3>3, <3>4, KindFacts
  <2>2. ExitWord(result) \in Reg
    BY <2>1, ExitWordFacts
  <2> QED
    BY <1>2, <1>5, <2>2 DEF Crt0Exit
<1>6. CASE RomExit
  <2>1. pc = "exit"
    BY <1>6 DEF RomExit, Hart
  <2>2. result \in Reg
    BY <2>1, KindFacts DEF Phases, InvUart, UartPhase, UartResult, Ended
  <2>3. RomExitWord(result) \in Reg
    BY <2>2, ExitWordFacts
  <2> QED
    BY <1>2, <1>6, <2>3 DEF RomExit
<1>7. Entry[1] \in Reg /\ Entry[2] \in Reg
  BY EntryAssumption
<1>8. CASE SlinkEntryHigh
  BY <1>2, <1>7, <1>8 DEF SlinkEntryHigh, SlinkWrite
<1>9. CASE SlinkEntryLow
  BY <1>2, <1>7, <1>9 DEF SlinkEntryLow, SlinkWrite
<1>10. CASE SlinkStart
  BY <1>1, <1>2, <1>10 DEF SlinkStart, SlinkWrite
<1> QED
  BY <1>3, <1>4, <1>5, <1>6, <1>8, <1>9, <1>10, Frames

\* A transfer never runs past its end.
LEMMA CmdType ==
  ASSUME InvType, Phases, [Next]_vars
  PROVE  cmd' \in [addr : Nat, left : Nat]
<1>0. cmd \in [addr : Nat, left : Nat]
  BY DEF InvType, InvHart
<1>1. CASE UNCHANGED cmd
  BY <1>0, <1>1
<1>2. CASE ServeCommand
  <2>1. rx # <<>> /\ (UNCHANGED cmd \/ (Head(rx).k \in {"read", "write"} /\ cmd' = Head(rx).v))
    BY <1>2 DEF ServeCommand
  <2>2. Head(rx) \in Message
    BY <2>1 DEF InvType, InvWire
  <2> QED
    BY <1>0, <2>1, <2>2, CommandFacts
<1>3. ASSUME cmd.left > 0, Advance
      PROVE  cmd' \in [addr : Nat, left : Nat]
  <2>1. cmd.addr + 1 \in Nat /\ cmd.left - 1 \in Nat
    BY <1>0, <1>3
  <2> QED
    BY <1>3, <2>1 DEF Advance
<1>4. CASE ServeWrite
  BY <1>3, <1>4 DEF ServeWrite
<1>5. CASE ServeRead
  BY <1>3, <1>5 DEF ServeRead
<1> QED
  BY <1>1, <1>2, <1>4, <1>5, Frames

\* Who is called, and what a program may have returned.
LEMMA HartType ==
  ASSUME InvType, [Next]_vars
  PROVE  caller' \in Callers /\ result' \in Results \cup {-1, 1}
<1>0. caller \in Callers /\ result \in Results \cup {-1, 1}
  BY DEF InvType, InvHart, TypeOK
<1>1. caller' \in Callers
  <2>1. CASE UNCHANGED caller
    BY <1>0, <2>1
  <2>2. CASE Launch
    BY <2>2 DEF Launch, Callers
  <2>3. CASE ServeCommand
    BY <1>0, <2>3 DEF ServeCommand, Callers
  <2>4. CASE JtagHalt
    BY <2>4 DEF JtagHalt, Callers
  <2> QED
    BY <2>1, <2>2, <2>3, <2>4, Frames
<1>2. result' \in Results \cup {-1, 1}
  <2>1. CASE UNCHANGED result
    BY <1>0, <2>1
  <2>2. CASE ServeCommand
    BY <1>0, <2>2 DEF ServeCommand
  <2>3. CASE ProgramReturnsSome
    BY <2>3 DEF ProgramReturnsSome, ProgramReturns
  <2> QED
    BY <2>1, <2>2, <2>3, Frames
<1> QED
  BY <1>1, <1>2

\* The host stays inside the section list and the section.
LEMMA SectType ==
  ASSUME InvType, Phases, InvMem, [Next]_vars
  PROVE  sect' \in 1 .. Len(Sections) /\ offs' \in Nat /\ (offs <= Section.len)'
<1>0. /\ sect \in 1 .. Len(Sections) /\ offs \in Nat /\ offs <= Section.len
      /\ BurstBytes \in Nat /\ Len(Sections) \in Nat
  BY AddrFacts, SizesAssumption DEF InvType, TypeOK, InvHost
<1>1. CASE UNCHANGED <<sect, offs>>
  BY <1>0, <1>1 DEF Section
<1>2. ASSUME sect' = sect + 1, sect < Len(Sections), offs' = 0
      PROVE  sect' \in 1 .. Len(Sections) /\ offs' \in Nat /\ (offs <= Section.len)'
  <2>1. sect' \in 1 .. Len(Sections)
    BY <1>0, <1>2
  <2>2. Sections[sect'].len \in Nat
    BY <2>1, AddrFacts
  <2> QED
    BY <1>2, <2>1, <2>2 DEF Section
<1>3. CASE UartWriteEot
  <2> DEFINE last == offs + BurstBytes > Section.len
  <2>1. /\ offs' = IF last THEN 0 ELSE offs + BurstBytes
        /\ sect' = IF last /\ sect < Len(Sections) THEN sect + 1 ELSE sect
    BY <1>3 DEF UartWriteEot
  <2>2. CASE last /\ sect < Len(Sections)
    BY <1>2, <2>1, <2>2
  <2>3. CASE last /\ ~(sect < Len(Sections))
    <3>1. Section.len \in Nat
      BY BurstFacts DEF InvType
    <3> QED
      BY <1>0, <2>1, <2>3, <3>1 DEF Section
  <2>4. CASE ~last
    <3>1. Section.len \in Nat
      BY BurstFacts DEF InvType
    <3> QED
      BY <1>0, <2>1, <2>4, <3>1 DEF Section
  <2> QED
    BY <2>2, <2>3, <2>4
<1>4. CASE LoadSection
  <2>1. host = "load" /\ offs' = offs /\ offs = 0
    BY <1>4, KindFacts DEF LoadSection, InvMem, BusHosts
  <2>2. (sect' = sect + 1 /\ sect < Len(Sections)) \/ sect' = sect
    BY <1>4 DEF LoadSection
  <2> QED
    BY <1>0, <1>2, <2>1, <2>2 DEF Section
<1> QED
  BY <1>1, <1>3, <1>4, Frames

\* What the host counts, reads back and collects.
LEMMA HostType ==
  ASSUME InvType, Phases, [Next]_vars
  PROVE  sent' \in Nat /\ read' \in Seq(Nat) /\ code' \in Reg \cup {-1}
<1>0. sent \in Nat /\ read \in Seq(Nat) /\ code \in Reg \cup {-1}
  BY DEF InvType, TypeOK, InvHost
<1>1. sent' \in Nat
  BY <1>0, Frames DEF UartWrite, UartData
<1>2. read' \in Seq(Nat)
  <2>1. CASE UNCHANGED read
    BY <1>0, <2>1
  <2>2. CASE UartReadData
    <3>1. /\ host = "read_data" /\ Len(read) < Section.len /\ tx # <<>>
          /\ read' = Append(read, Head(tx).v)
      BY <2>2 DEF UartReadData, Host
    <3>2. Head(tx).v \in Nat
      BY <3>1, ReadBackFacts, AddrFacts DEF Msg
    <3> QED
      BY <1>0, <3>1, <3>2
  <2> QED
    BY <2>1, <2>2, Frames
<1>3. code' \in Reg \cup {-1}
  <2>1. CASE UNCHANGED code
    BY <1>0, <2>1
  <2>2. CASE UartReturn
    <3>1. host = "return" /\ code' = Head(tx).v
      BY <2>2 DEF UartReturn, Expect, Host
    <3>2. kind = "uart"
      BY <3>1, KindFacts DEF UartHosts
    <3>3. tx = <<Msg("ret", result)>> /\ result \in Reg
      BY <3>1, <3>2 DEF Phases, InvUart, UartPhase, UartResult
    <3> QED
      BY <3>1, <3>3, MessageFacts
  <2>3. CASE WaitForEoc
    <3>1. code' = scratch[3] \div 2 /\ scratch[3] \in Reg
      BY <2>3 DEF WaitForEoc, Scratch, InvType, InvData
    <3> QED
      BY <3>1, SizesAssumption DEF Reg
  <2> QED
    BY <2>1, <2>2, <2>3, Frames
<1> QED
  BY <1>1, <1>2, <1>3

\* What travels on the wire is what host and server send.
LEMMA WireType ==
  ASSUME InvType, Phases, [Next]_vars
  PROVE  rx' \in Seq(Message) /\ tx' \in Seq(Message)
<1>0. rx \in Seq(Message) /\ tx \in Seq(Message)
  BY DEF InvType, InvWire
<1>1. rx' \in Seq(Message)
  <2>1. CASE rx' \in {rx, <<>>} \/ (rx # <<>> /\ rx' = Tail(rx))
    <3>1. <<>> \in Seq(Message)
      OBVIOUS
    <3>2. rx # <<>> => Tail(rx) \in Seq(Message)
      BY <1>0
    <3> QED
      BY <1>0, <2>1, <3>1, <3>2
  <2>2. ASSUME NEW m \in Message, rx' = Append(rx, m)
        PROVE  rx' \in Seq(Message)
    BY <1>0, <2>2
  <2>3. CASE Noise \/ UartHello \/ UartBadCommand
    <3>1. rx' = Append(rx, Msg("junk", 0)) \/ rx' = Append(rx, Msg("ack", 0))
      BY <2>3 DEF Noise, UartHello, UartBadCommand, Send
    <3>2. Msg("junk", 0) \in Message /\ Msg("ack", 0) \in Message
      BY MessageFacts
    <3> QED
      BY <2>2, <3>1, <3>2
  <2>4. CASE UartWrite
    <3>1. [addr |-> Base + offs, left |-> BurstLen] \in [addr : Nat, left : Nat]
      BY BurstFacts DEF InvType, InvHost
    <3> QED
      BY <2>2, <2>4, <3>1, MessageFacts DEF UartWrite, Send
  <2>5. CASE UartData
    <3>1. host = "data" /\ sent < BurstLen /\ rx' = Append(rx, Msg("byte", Image[Base + offs + sent]))
      BY <2>5 DEF UartData, Host, Send
    <3>2. Base + offs + sent \in Addr
      <4> DEFINE k == offs + sent
      <4>1. k \in 0 .. Section.len - 1 /\ Base + offs + sent = Base + k
        BY <3>1, BurstFacts DEF InvType, InvHost
      <4>2. \A i \in 0 .. Section.len - 1 : Base + i \in Addr
        BY BurstFacts DEF InvType
      <4> HIDE DEF k
      <4> QED
        BY <4>1, <4>2
    <3>3. Msg("byte", Image[Base + offs + sent]) \in Message
      BY <3>2, AddrFacts, MessageFacts
    <3> QED
      BY <2>2, <3>1, <3>3
  <2>6. CASE UartRead
    <3>1. [addr |-> Base, left |-> Section.len] \in [addr : Nat, left : Nat]
      BY BurstFacts DEF InvType
    <3> QED
      BY <2>2, <2>6, <3>1, MessageFacts DEF UartRead, Send
  <2>7. CASE UartExec
    BY <2>2, <2>7, MessageFacts DEF UartExec, Send
  <2> QED
    BY <2>1, <2>3, <2>4, <2>5, <2>6, <2>7, Frames
<1>2. tx' \in Seq(Message)
  <2>1. CASE UNCHANGED tx \/ (tx # <<>> /\ tx' = Tail(tx))
    BY <1>0, <2>1
  <2>2. CASE \E k \in {"ack", "eot", "text"} : tx' = Append(tx, Msg(k, 0))
    BY <1>0, <2>2, MessageFacts
  <2>3. CASE ServeRead
    <3>1. pc = "read" /\ cmd.left > 0 /\ tx' = Append(tx, Msg("byte", mem[cmd.addr]))
      BY <2>3 DEF ServeRead
    <3>2. mem[cmd.addr] \in Nat
      BY <3>1, ReadFacts DEF InvType, InvData
    <3> QED
      BY <1>0, <3>1, <3>2, MessageFacts
  <2>4. CASE ServeEoc
    <3>1. pc = "eoc" /\ tx' = tx \o <<Msg("eoc", 0), Msg("ret", result)>>
      BY <2>4 DEF ServeEoc, Hart
    <3>2. result \in Reg
      BY <3>1, KindFacts DEF Phases, InvUart, UartPhase, UartResult
    <3>3. Msg("eoc", 0) \in Message /\ Msg("ret", result) \in Message
      BY <3>2, MessageFacts
    <3> QED
      BY <1>0, <3>1, <3>3
  <2> QED
    BY <2>1, <2>2, <2>3, <2>4, Frames
<1> QED
  BY <1>1, <1>2

\* Who gets control when crt0 has stored the exit word.
LEMMA ReturnFacts ==
  ASSUME Phases, pc = "crt0"
  PROVE  /\ result \in Reg
         /\ \/ kind = "uart" /\ caller = "uart_debug_serve"
            \/ kind = "slink" /\ caller = "boot_next_stage"
            \/ kind = "jtag" /\ caller \in {"init", "poll"}
BY KindFacts DEF Phases, InvUart, UartPhase, UartResult, InvSlink, InvJtag, Program, Waiting

\* Every step keeps every variable in its type.
LEMMA TypeStep ==
  ASSUME InvType, Phases, InvMem, [Next]_vars
  PROVE  InvType'
<1>1. pc' \in Places
  <2>1. pc \in Places
    BY DEF InvType, TypeOK, Places
  <2>2. CASE Crt0Exit
    BY <2>2, ReturnFacts DEF Crt0Exit, Places
  <2> QED
    BY <2>1, <2>2, Frames
<1>2. kind' \in HostKinds
  BY Frames DEF InvType, TypeOK
<1>3. TypeOK'
  <2>1. cmd'.left >= 0
    BY CmdType
  <2> QED
    BY <1>1, <1>2, <2>1, MemType, ScratchType, HartType, SectType, HostType DEF TypeOK, Places
<1>4. InvWire' /\ InvData' /\ InvHart' /\ InvHost'
  BY WireType, MemType, ScratchType, CmdType, HartType, SectType, HostType
     DEF InvWire, InvData, InvHart, InvHost
<1> QED
  BY <1>3, <1>4 DEF InvType

-----------------------------------------------------------------------------
(* UART: one step from each phase. *)

\* Which steps are possible in which phase.
LEMMA UartSteps ==
  ASSUME kind = "uart", Next
  PROVE  /\ host = "start" /\ Stray =>
              ConfigureLlc \/ UartDebugInit \/ PollScratch \/ UartDebugCheck \/ Noise \/
              UartHello
         /\ host = "hello" /\ Challenged =>
              PollScratch \/ UartDebugCheck \/ UartHelloAck
         /\ host \in {"burst", "loaded"} /\ Serving =>
              UartWrite \/ UartBadCommand \/ UartRead \/ UartExec
         /\ host \in {"write_ack", "data"} /\ Writing =>
              ServeCommand \/ UartWriteAck \/ UartData \/ ServeWrite \/ ServeEot \/
              UartWriteEot
         /\ host \in {"read_ack", "read_data"} /\ Reading =>
              ServeCommand \/ UartReadAck \/ ServeRead \/ ServeEot \/ UartReadData \/
              UartReadEot
         /\ host \in {"exec_ack", "console"} /\ Running =>
              ServeCommand \/ UartExecAck \/ UartConsole \/ ProgramPrints \/
              ProgramReturnsSome \/ Crt0Exit \/ ServeEoc \/ RomExit
         /\ host = "return" /\ pc \in Ended =>
              RomExit \/ UartReturn
         /\ host = "done" /\ pc \in Ended =>
              RomExit
         /\ host = "aborted" /\ Aborted =>
              ServeCommand \/ RomExit
<1> USE DEF hartVars, hostVars, Hart, Host, Send, Expect, SlinkWrite, Advance, ProgramReturns,
      ConfigureLlc, UartDebugInit, PollScratch, UartDebugCheck, ClearStart, Launch,
      ServeCommand, ServeWrite, ServeRead, ServeEot, Crt0Exit, ServeEoc, RomExit, UartHello,
      UartHelloAck, UartWrite, UartWriteAck, UartData, UartWriteEot, UartReadAck, UartReadData,
      UartReadEot, UartExecAck, UartConsole, UartReturn, JtagHalt, SlinkReady, LoadSection,
      SlinkEntryHigh, SlinkEntryLow, SlinkStart, JtagResume, WaitForEoc, ProgramPrints,
      ProgramReturnsSome, UartExec, UartRead, Noise, UartBadCommand
<1>1. host = "start" /\ Stray =>
       ConfigureLlc \/ UartDebugInit \/ PollScratch \/ UartDebugCheck \/ Noise \/
       UartHello
  BY DEF Next, RomStep, HostStep, Stray, Waiting
<1>2. host = "hello" /\ Challenged =>
       PollScratch \/ UartDebugCheck \/ UartHelloAck
  BY DEF Next, RomStep, HostStep, Challenged, Waiting
<1>3. host \in {"burst", "loaded"} /\ Serving =>
       UartWrite \/ UartBadCommand \/ UartRead \/ UartExec
  BY DEF Next, RomStep, HostStep, Serving, Silent
<1>4. host \in {"write_ack", "data"} /\ Writing =>
       ServeCommand \/ UartWriteAck \/ UartData \/ ServeWrite \/ ServeEot \/
       UartWriteEot
  BY DEF Next, RomStep, HostStep, Writing
<1>5. host \in {"read_ack", "read_data"} /\ Reading =>
       ServeCommand \/ UartReadAck \/ ServeRead \/ ServeEot \/ UartReadData \/
       UartReadEot
  BY DEF Next, RomStep, HostStep, Reading
<1>6. host \in {"exec_ack", "console"} /\ Running =>
       ServeCommand \/ UartExecAck \/ UartConsole \/ ProgramPrints \/
       ProgramReturnsSome \/ Crt0Exit \/ ServeEoc \/ RomExit
  BY DEF Next, RomStep, HostStep, Running, Program, Ended
<1>7. host = "return" /\ pc \in Ended =>
       RomExit \/ UartReturn
  BY DEF Next, RomStep, HostStep, Ended
<1>8. host = "done" /\ pc \in Ended =>
       RomExit
  BY DEF Next, RomStep, HostStep, Ended
<1>9. host = "aborted" /\ Aborted =>
       ServeCommand \/ RomExit
  BY DEF Next, RomStep, HostStep, Aborted, Ended, Silent
<1> QED
  BY <1>1, <1>2, <1>3, <1>4, <1>5, <1>6, <1>7, <1>8, <1>9

\* Before the hello: the server drops stray bytes and never answers one.
LEMMA StartPhase ==
  ASSUME InvType, UartResult, kind = "uart", host = "start", Stray, Next
  PROVE  UartPhase'
<1>0. /\ pc \in {"llc", "init"} \cup Waiting /\ tx = <<>>
      /\ rx \in Seq(Message) /\ \A i \in 1 .. Len(rx) : rx[i].k = "junk"
  BY DEF Stray, InvType, InvWire
<1> USE DEF UartPhase, Stray, Challenged, Waiting, Hart, Host, hostVars, hartVars
<1>1. CASE ConfigureLlc
  BY <1>0, <1>1 DEF ConfigureLlc
<1>2. CASE UartDebugInit
  BY <1>0, <1>2 DEF UartDebugInit
<1>3. CASE PollScratch
  <2>1. ~StartRequested
    BY <1>0 DEF UartResult, StartRequested, StartFlag, Scratch, Ended
  <2> QED
    BY <1>0, <1>3, <2>1 DEF PollScratch
<1>4. CASE UartDebugCheck
  BY <1>0, <1>4 DEF UartDebugCheck
<1>5. CASE Noise
  BY <1>0, <1>5 DEF Noise, Send, Msg
<1>6. CASE UartHello
  BY <1>0, <1>6 DEF UartHello, Send
<1> QED
  BY <1>1, <1>2, <1>3, <1>4, <1>5, <1>6, UartSteps

\* The challenge is the last byte on the line until the server answers it.
LEMMA HelloPhase ==
  ASSUME InvType, UartResult, kind = "uart", host = "hello", Challenged, Next
  PROVE  UartPhase'
<1>0. rx \in Seq(Message) /\ tx \in Seq(Message)
  BY DEF InvType, InvWire
<1> USE DEF UartPhase, Challenged, Serving, Silent, Waiting, Hart, Host, hostVars, hartVars
<1>1. CASE PollScratch
  <2>1. ~StartRequested
    BY <1>1 DEF PollScratch, UartResult, StartRequested, StartFlag, Scratch, Ended
  <2> QED
    BY <1>0, <1>1, <2>1 DEF PollScratch
<1>2. CASE UartDebugCheck
  <2>1. pc = "check" /\ tx = <<>> /\ rx # <<>> /\ rx' = Tail(rx) /\ UNCHANGED host
    BY <1>2 DEF UartDebugCheck
  <2>2. /\ rx[Len(rx)] = Msg("ack", 0)
        /\ \A i \in 1 .. Len(rx) - 1 : rx[i].k = "junk"
    BY <2>1
  <2>3. CASE Len(rx) = 1
    <3>1. Head(rx) = Msg("ack", 0) /\ Tail(rx) = <<>>
      BY <1>0, <2>1, <2>2, <2>3, TailFacts
    <3>2. pc' = "serve" /\ tx' = <<Msg("ack", 0)>>
      BY <1>2, <2>1, <3>1 DEF UartDebugCheck, Msg
    <3> QED
      BY <2>1, <3>1, <3>2
  <2>4. CASE Len(rx) > 1
    <3>1. Head(rx) = rx[1] /\ rx[1].k = "junk" /\ Len(rx) \in Nat
      BY <1>0, <2>1, <2>2, <2>4, TailFacts
    <3>2. pc' = "poll" /\ tx' = tx
      BY <1>2, <2>1, <3>1 DEF UartDebugCheck
    <3>3. /\ rx' # <<>> /\ Len(rx') = Len(rx) - 1
          /\ \A i \in 1 .. Len(rx') : rx'[i] = rx[i + 1]
      BY <1>0, <2>1, <2>4, TailFacts
    <3>4. rx'[Len(rx')] = Msg("ack", 0) /\ \A i \in 1 .. Len(rx') - 1 : rx'[i].k = "junk"
      BY <2>2, <2>4, <3>1, <3>3
    <3> QED
      BY <2>1, <3>2, <3>3, <3>4
  <2> QED
    BY <1>0, <2>1, <2>3, <2>4, TailFacts
<1>3. CASE UartHelloAck
  BY <1>0, <1>3 DEF UartHelloAck, Expect, Msg
<1> QED
  BY <1>1, <1>2, <1>3, UartSteps

\* Between commands both directions are empty.
LEMMA ServingPhase ==
  ASSUME InvType, InvMem, kind = "uart", host \in {"burst", "loaded"}, Serving, Next
  PROVE  UartPhase'
<1>0. read = <<>> \/ host = "loaded"
  BY DEF InvMem, Loading
<1> USE DEF UartPhase, Serving, Silent, Host, Send, hostVars, hartVars
<1>1. CASE UartWrite
  BY <1>1 DEF UartWrite, Writing, Base, Section, BurstLen
<1>2. CASE UartBadCommand
  BY <1>2 DEF UartBadCommand, Aborted
<1>3. CASE UartRead
  BY <1>3 DEF UartRead, Reading, Base, Section
<1>4. CASE UartExec
  BY <1>4 DEF UartExec, Running
<1> QED
  BY <1>1, <1>2, <1>3, <1>4, UartSteps

\* When the host has the exit code, or is about to take it, it stays that way.
LEMMA EndPhases ==
  ASSUME InvType, kind = "uart", Next, pc \in Ended,
         \/ host = "return" /\ rx = <<>> /\ tx = <<Msg("ret", result)>>
         \/ host = "done" /\ Silent /\ code = result
  PROVE  UartPhase'
<1> USE DEF UartPhase, Ended, Silent, Host, Hart, hostVars, hartVars
<1>1. CASE RomExit
  BY <1>1 DEF RomExit
<1>2. CASE UartReturn
  <2>1. host = "return" /\ tx = <<Msg("ret", result)>>
    BY <1>2 DEF UartReturn, Expect
  <2>2. Head(tx) = Msg("ret", result) /\ Tail(tx) = <<>>
    BY <2>1
  <2>3. Head(tx).k = "ret" /\ Head(tx).v = result
    BY <2>2 DEF Msg
  <2> QED
    BY <1>2, <2>1, <2>2, <2>3 DEF UartReturn, Expect
<1> QED
  BY <1>1, <1>2, UartSteps

\* An unknown command ends the server.
LEMMA AbortedPhase ==
  ASSUME InvType, kind = "uart", Next, host = "aborted", Aborted
  PROVE  UartPhase'
<1> USE DEF UartPhase, Aborted, Ended, Silent, Hart, hostVars, hartVars
<1>1. CASE RomExit
  BY <1>1 DEF RomExit
<1>2. CASE ServeCommand
  <2>1. rx = <<Msg("junk", 0)>> /\ tx = <<>>
    BY <1>2 DEF ServeCommand
  <2>2. Head(rx).k = "junk" /\ Tail(rx) = <<>>
    BY <2>1 DEF Msg
  <2> QED
    BY <1>2, <2>1, <2>2 DEF ServeCommand
<1> QED
  BY <1>1, <1>2, UartSteps

-----------------------------------------------------------------------------
(* UART: the burst loop. *)

\* The burst on the wire grows at the end and shrinks at the front.
LEMMA CarriesFacts ==
  ASSUME NEW q \in Seq(Message), NEW a \in Nat, NEW n \in Nat, Carries(q, a, n)
  PROVE  /\ Image[a + n] \in Nat =>
              Carries(Append(q, Msg("byte", Image[a + n])), a, n + 1)
         /\ q # <<>> => n > 0 /\ Carries(Tail(q), a + 1, n - 1)
         /\ n = 0 => q = <<>>
<1>0. Len(q) = n /\ \A i \in 1 .. n : q[i] = Msg("byte", Image[a + i - 1])
  BY DEF Carries
<1>1. ASSUME Image[a + n] \in Nat
      PROVE  Carries(Append(q, Msg("byte", Image[a + n])), a, n + 1)
  <2> DEFINE m == Msg("byte", Image[a + n])
  <2>1. m \in Message
    BY <1>1, MessageFacts
  <2>2. Len(Append(q, m)) = n + 1
    BY <1>0, <2>1, AppendFacts
  <2>3. ASSUME NEW i \in 1 .. n + 1
        PROVE  Append(q, m)[i] = Msg("byte", Image[a + i - 1])
    <3>1. CASE i \in 1 .. n
      BY <1>0, <2>1, <3>1, AppendFacts
    <3>2. CASE i = n + 1
      <4>1. a + i - 1 = a + n
        BY <3>2
      <4>2. Append(q, m)[i] = Msg("byte", Image[a + n])
        BY <1>0, <2>1, <3>2, AppendFacts
      <4>3. Image[a + n] = Image[a + i - 1]
        BY <4>1
      <4> QED
        BY <4>2, <4>3
    <3>3. i \in 1 .. n \/ i = n + 1
      OBVIOUS
    <3> QED
      BY <3>1, <3>2, <3>3
  <2> QED
    BY <2>2, <2>3 DEF Carries
<1>2. ASSUME q # <<>>
      PROVE  n > 0 /\ Carries(Tail(q), a + 1, n - 1)
  <2>1. Len(Tail(q)) = n - 1 /\ n >= 1 /\ \A i \in 1 .. n - 1 : Tail(q)[i] = q[i + 1]
    BY <1>0, <1>2, TailFacts
  <2>2. ASSUME NEW i \in 1 .. n - 1
        PROVE  Tail(q)[i] = Msg("byte", Image[a + 1 + i - 1])
    <3>1. i + 1 \in 1 .. n /\ a + (i + 1) - 1 = a + 1 + i - 1
      OBVIOUS
    <3>2. q[i + 1] = Msg("byte", Image[a + (i + 1) - 1])
      BY <1>0, <3>1
    <3> QED
      BY <2>1, <3>1, <3>2
  <2> QED
    BY <2>1, <2>2 DEF Carries
<1>3. n = 0 => q = <<>>
  BY <1>0, EmptySeq
<1> QED
  BY <1>1, <1>2, <1>3

\* During a burst the line holds what is sent and not yet stored, in order.
LEMMA WritingPhase ==
  ASSUME InvType, kind = "uart", host \in {"write_ack", "data"}, Writing, Next
  PROVE  UartPhase'
<1>0. /\ Base \in Nat /\ offs \in Nat /\ BurstLen \in Nat /\ Section.len \in Nat
      /\ sent \in Nat /\ offs + BurstLen <= Section.len
      /\ cmd.addr \in Nat /\ cmd.left \in Nat
      /\ rx \in Seq(Message) /\ tx \in Seq(Message)
  BY BurstFacts DEF InvType, InvHost, InvHart, InvWire
<1>F. ASSUME UNCHANGED <<sect, offs>>
      PROVE  Base' = Base /\ BurstLen' = BurstLen
  BY <1>F DEF Base, BurstLen, Section
<1>W. SUFFICES ASSUME ~(UartWriteEot)
               PROVE  (host \in {"write_ack", "data"} /\ Writing)'
  <2>1. CASE UartWriteEot
    <3>1. host = "data" /\ tx # <<>>
      BY <2>1 DEF UartWriteEot, Expect, Host
    <3>2. pc = "serve" /\ rx = <<>> /\ tx = <<Msg("eot", 0)>>
      BY <3>1 DEF Writing
    <3>3. Head(tx).k = "eot" /\ Tail(tx) = <<>>
      BY <3>2 DEF Msg
    <3>4. host' \in {"burst", "loaded"} /\ tx' = <<>> /\ rx' = rx /\ pc' = pc
      BY <2>1, <3>3 DEF UartWriteEot, Expect, Host
    <3> QED
      BY <3>2, <3>4 DEF UartPhase, Serving, Silent
  <2> QED
    BY <2>1 DEF UartPhase
<1>1. CASE ServeCommand
  <2>1. /\ pc = "serve" /\ rx # <<>> /\ UNCHANGED <<host, sect, offs, sent>>
        /\ rx' = Tail(rx)
    BY <1>1 DEF ServeCommand, hostVars
  <2>2. /\ host = "write_ack" /\ sent = 0 /\ tx = <<>>
        /\ rx = <<Msg("write", [addr |-> Base + offs, left |-> BurstLen])>>
    BY <2>1 DEF Writing
  <2>3. /\ Head(rx).k = "write" /\ Head(rx).v = [addr |-> Base + offs, left |-> BurstLen]
        /\ Tail(rx) = <<>>
    BY <2>2 DEF Msg
  <2>4. /\ pc' = "write" /\ cmd' = [addr |-> Base + offs, left |-> BurstLen]
        /\ tx' = Append(tx, Msg("ack", 0))
    BY <1>1, <2>3 DEF ServeCommand
  <2>5. tx' = <<Msg("ack", 0)>>
    BY <2>2, <2>4
  <2>6. /\ cmd'.addr = Base' + offs' + BurstLen' - cmd'.left /\ cmd'.left = BurstLen'
        /\ sent' - (BurstLen' - cmd'.left) = 0 /\ sent' <= BurstLen'
    BY <1>0, <1>F, <2>1, <2>2, <2>4
  <2>7. Carries(rx', cmd'.addr, 0)
    <3>1. rx' = <<>>
      BY <2>1, <2>3
    <3>2. Carries(<<>>, cmd'.addr, 0)
      BY EmptySeq DEF Carries
    <3> QED
      BY <3>1, <3>2
  <2> QED
    BY <1>0, <1>F, <2>1, <2>2, <2>4, <2>5, <2>6, <2>7 DEF Writing
<1>2. CASE UartWriteAck
  <2>1. /\ host = "write_ack" /\ tx # <<>> /\ tx' = Tail(tx)
        /\ UNCHANGED <<pc, rx, cmd, sect, offs, sent>>
        /\ host' = IF Head(tx).k = "ack" THEN "data" ELSE "fatal"
    BY <1>2 DEF UartWriteAck, Expect, Host, hartVars
  <2>2. CASE pc = "write"
    <3>1. tx = <<Msg("ack", 0)>>
      BY <2>1, <2>2 DEF Writing
    <3>2. Head(tx).k = "ack" /\ Tail(tx) = <<>>
      BY <3>1 DEF Msg
    <3> QED
      BY <1>F, <2>1, <2>2, <3>2 DEF Writing
  <2>3. CASE pc = "serve"
    <3>1. tx = <<Msg("ack", 0), Msg("eot", 0)>> /\ rx = <<>> /\ sent = BurstLen
      BY <2>1, <2>3 DEF Writing
    <3>2. Head(tx).k = "ack" /\ Tail(tx) = <<Msg("eot", 0)>>
      BY <3>1 DEF Msg
    <3> QED
      BY <1>F, <2>1, <2>3, <3>1, <3>2 DEF Writing
  <2> QED
    BY <2>2, <2>3 DEF Writing
<1>3. CASE UartData
  <2>1. /\ host = "data" /\ sent < BurstLen /\ sent' = sent + 1
        /\ UNCHANGED <<host, pc, tx, cmd, sect, offs>>
        /\ rx' = Append(rx, Msg("byte", Image[Base + offs + sent]))
    BY <1>3 DEF UartData, Host, Send, hartVars
  <2> DEFINE n == sent - (BurstLen - cmd.left)
  <2>2. /\ pc = "write" /\ tx = <<>> /\ cmd.left <= BurstLen
        /\ cmd.addr = Base + offs + BurstLen - cmd.left
        /\ Carries(rx, cmd.addr, n)
    BY <1>0, <2>1 DEF Writing
  <2>3. n \in Nat
    BY <1>0, <2>2 DEF Carries
  <2>4. Base + offs + sent = cmd.addr + n /\ sent' - (BurstLen - cmd.left) = n + 1
    BY <1>0, <2>1, <2>2
  <2>5. Image[Base + offs + sent] \in Nat
    <3> DEFINE k == offs + sent
    <3>1. k \in 0 .. Section.len - 1 /\ Base + offs + sent = Base + k
      BY <1>0, <2>1
    <3>2. \A i \in 0 .. Section.len - 1 : Base + i \in Addr
      BY BurstFacts DEF InvType
    <3> HIDE DEF k
    <3> QED
      BY <3>1, <3>2, AddrFacts
  <2> HIDE DEF n
  <2>6. Carries(rx', cmd.addr, n + 1)
    BY <1>0, <2>1, <2>2, <2>3, <2>4, <2>5, CarriesFacts
  <2>7. Carries(rx', cmd'.addr, sent' - (BurstLen' - cmd'.left))
    BY <1>F, <2>1, <2>4, <2>6
  <2>8. sent' <= BurstLen'
    BY <1>0, <1>F, <2>1
  <2> QED
    BY <1>F, <2>1, <2>2, <2>7, <2>8 DEF Writing
<1>4. CASE ServeWrite
  <2>1. /\ pc = "write" /\ cmd.left > 0 /\ rx # <<>> /\ rx' = Tail(rx)
        /\ UNCHANGED <<host, pc, tx, sect, offs, sent>>
        /\ cmd'.addr = cmd.addr + 1 /\ cmd'.left = cmd.left - 1
    BY <1>4 DEF ServeWrite, hostVars, Advance
  <2> DEFINE n == sent - (BurstLen - cmd.left)
  <2>2. /\ tx = IF host = "write_ack" THEN <<Msg("ack", 0)>> ELSE <<>>
        /\ host = "write_ack" => sent = 0
        /\ sent <= BurstLen /\ cmd.left <= BurstLen
        /\ cmd.addr = Base + offs + BurstLen - cmd.left
        /\ Carries(rx, cmd.addr, n)
    BY <2>1 DEF Writing
  <2>3. n \in Nat
    BY <1>0, <2>2 DEF Carries
  <2>4. Carries(Tail(rx), cmd.addr + 1, n - 1)
    <3> HIDE DEF n
    <3> QED
      BY <1>0, <2>1, <2>2, <2>3, CarriesFacts
  <2>5. sent' - (BurstLen' - cmd'.left) = n - 1
    BY <1>0, <1>F, <2>1
  <2>6. cmd'.left <= BurstLen' /\ cmd'.addr = Base' + offs' + BurstLen' - cmd'.left
    <3>1. Base' = Base /\ BurstLen' = BurstLen /\ offs' = offs
      BY <1>F, <2>1
    <3>2. /\ cmd.left - 1 <= BurstLen
          /\ cmd.addr + 1 = Base + offs + BurstLen - (cmd.left - 1)
      BY <1>0, <2>2
    <3> QED
      BY <2>1, <3>1, <3>2
  <2>7. Carries(rx', cmd'.addr, sent' - (BurstLen' - cmd'.left))
    BY <2>1, <2>4, <2>5
  <2> QED
    BY <1>F, <2>1, <2>2, <2>6, <2>7 DEF Writing
<1>5. CASE ServeEot
  <2>1. /\ pc \in {"read", "write"} /\ cmd.left = 0
        /\ UNCHANGED <<host, rx, sect, offs, sent>>
        /\ pc' = "serve" /\ tx' = Append(tx, Msg("eot", 0))
    BY <1>5 DEF ServeEot, EndOfTransfer, hostVars
  <2>2. /\ tx = IF host = "write_ack" THEN <<Msg("ack", 0)>> ELSE <<>>
        /\ sent <= BurstLen
        /\ Carries(rx, cmd.addr, sent - (BurstLen - 0))
    BY <2>1 DEF Writing
  <2>3. Len(rx) = sent - (BurstLen - 0) /\ Len(rx) \in Nat
    BY <1>0, <2>2 DEF Carries
  <2>4. sent = BurstLen /\ Len(rx) = 0
    BY <1>0, <2>2, <2>3
  <2>5. rx = <<>>
    BY <1>0, <2>4, EmptySeq
  <2>6. tx' = IF host = "write_ack" THEN <<Msg("ack", 0), Msg("eot", 0)>> ELSE <<Msg("eot", 0)>>
    BY <2>1, <2>2
  <2> QED
    BY <1>F, <2>1, <2>4, <2>5, <2>6 DEF Writing
<1> QED
  BY <1>W, <1>1, <1>2, <1>3, <1>4, <1>5, UartSteps

-----------------------------------------------------------------------------
(* UART: reading back. *)

\* How the answer to a READ grows and is consumed.
LEMMA StreamFacts ==
  ASSUME NEW q \in Seq(Message), NEW ack \in {0, 1}, NEW a \in Nat, NEW n \in Nat,
         NEW eot \in {0, 1}, Stream(q, ack, a, n, eot)
  PROVE  /\ eot = 0 /\ Image[a + n] \in Nat =>
              Stream(Append(q, Msg("byte", Image[a + n])), ack, a, n + 1, 0)
         /\ eot = 0 => Stream(Append(q, Msg("eot", 0)), ack, a, n, 1)
         /\ ack = 1 => /\ q # <<>> /\ Head(q) = Msg("ack", 0)
                       /\ Stream(Tail(q), 0, a, n, eot)
         /\ ack = 0 /\ n > 0 => /\ q # <<>> /\ Head(q) = Msg("byte", Image[a])
                                /\ Stream(Tail(q), 0, a + 1, n - 1, eot)
         /\ ack = 0 /\ n = 0 /\ q # <<>> =>
              eot = 1 /\ Head(q) = Msg("eot", 0) /\ Tail(q) = <<>>
<1>0. /\ Len(q) = ack + n + eot /\ Len(q) \in Nat
      /\ ack = 1 => q[1] = Msg("ack", 0)
      /\ \A i \in 1 .. n : q[ack + i] = Msg("byte", Image[a + i - 1])
      /\ eot = 1 => q[Len(q)] = Msg("eot", 0)
  BY DEF Stream
<1>1. Len(q) > 0 => q # <<>>
  BY EmptySeq
<1>2. ASSUME eot = 0, Image[a + n] \in Nat
      PROVE  Stream(Append(q, Msg("byte", Image[a + n])), ack, a, n + 1, 0)
  <2> DEFINE p == Append(q, Msg("byte", Image[a + n]))
  <2>1. Msg("byte", Image[a + n]) \in Message
    BY <1>2, MessageFacts
  <2>2. /\ Len(p) = Len(q) + 1 /\ p[Len(q) + 1] = Msg("byte", Image[a + n])
        /\ \A i \in 1 .. Len(q) : p[i] = q[i]
    BY <2>1, AppendFacts
  <2> HIDE DEF p
  <2>3. Len(p) = ack + (n + 1) + 0 /\ (ack = 1 => p[1] = Msg("ack", 0))
    BY <1>0, <1>2, <2>2
  <2>4. ASSUME NEW i \in 1 .. n + 1
        PROVE  p[ack + i] = Msg("byte", Image[a + i - 1])
    <3>1. CASE i \in 1 .. n
      BY <1>0, <2>2, <3>1
    <3>2. CASE i = n + 1
      <4>1. a + i - 1 = a + n /\ ack + i = Len(q) + 1
        BY <1>0, <1>2, <3>2
      <4>2. Image[a + i - 1] = Image[a + n] /\ p[ack + i] = p[Len(q) + 1]
        BY <4>1
      <4> QED
        BY <2>2, <4>2
    <3>3. i \in 1 .. n \/ i = n + 1
      OBVIOUS
    <3> QED
      BY <3>1, <3>2, <3>3
  <2>5. Stream(p, ack, a, n + 1, 0)
    BY <2>3, <2>4 DEF Stream
  <2> QED
    BY <2>5 DEF p
<1>3. ASSUME eot = 0
      PROVE  Stream(Append(q, Msg("eot", 0)), ack, a, n, 1)
  <2> DEFINE p == Append(q, Msg("eot", 0))
  <2>1. Msg("eot", 0) \in Message
    BY MessageFacts
  <2>2. /\ Len(p) = Len(q) + 1 /\ p[Len(q) + 1] = Msg("eot", 0)
        /\ \A i \in 1 .. Len(q) : p[i] = q[i]
    BY <2>1, AppendFacts
  <2> HIDE DEF p
  <2>3. Len(p) = ack + n + 1 /\ (ack = 1 => p[1] = Msg("ack", 0)) /\ p[Len(p)] = Msg("eot", 0)
    BY <1>0, <1>3, <2>2
  <2>4. ASSUME NEW i \in 1 .. n
        PROVE  p[ack + i] = Msg("byte", Image[a + i - 1])
    <3>1. ack + i \in 1 .. Len(q)
      BY <1>0, <1>3
    <3> QED
      BY <1>0, <2>2, <3>1
  <2>5. Stream(p, ack, a, n, 1)
    BY <2>3, <2>4 DEF Stream
  <2> QED
    BY <2>5 DEF p
<1>4. ASSUME ack = 1
      PROVE  q # <<>> /\ Head(q) = Msg("ack", 0) /\ Stream(Tail(q), 0, a, n, eot)
  <2>1. q # <<>>
    BY <1>0, <1>1, <1>4
  <2> DEFINE p == Tail(q)
  <2>2. /\ Head(q) = q[1] /\ Len(p) = Len(q) - 1 /\ \A i \in 1 .. Len(q) - 1 : p[i] = q[i + 1]
    BY <2>1, TailFacts
  <2> HIDE DEF p
  <2>3. Len(p) = 0 + n + eot /\ (eot = 1 => p[Len(p)] = Msg("eot", 0))
    BY <1>0, <1>4, <2>2
  <2>4. ASSUME NEW i \in 1 .. n
        PROVE  p[0 + i] = Msg("byte", Image[a + i - 1])
    <3>1. i \in 1 .. Len(q) - 1 /\ 0 + i = i /\ i + 1 = ack + i
      BY <1>0, <1>4
    <3> QED
      BY <1>0, <2>2, <3>1
  <2>5. Stream(p, 0, a, n, eot)
    BY <2>3, <2>4 DEF Stream
  <2> QED
    BY <1>0, <1>4, <2>1, <2>2, <2>5 DEF p
<1>5. ASSUME ack = 0, n > 0
      PROVE  /\ q # <<>> /\ Head(q) = Msg("byte", Image[a])
             /\ Stream(Tail(q), 0, a + 1, n - 1, eot)
  <2>1. q # <<>>
    BY <1>0, <1>1, <1>5
  <2> DEFINE p == Tail(q)
  <2>2. /\ Head(q) = q[1] /\ Len(p) = Len(q) - 1 /\ \A i \in 1 .. Len(q) - 1 : p[i] = q[i + 1]
    BY <2>1, TailFacts
  <2> HIDE DEF p
  <2>3. Len(p) = 0 + (n - 1) + eot /\ (eot = 1 => p[Len(p)] = Msg("eot", 0))
    BY <1>0, <1>5, <2>2
  <2>4. ASSUME NEW i \in 1 .. n - 1
        PROVE  p[0 + i] = Msg("byte", Image[a + 1 + i - 1])
    <3>1. i \in 1 .. Len(q) - 1 /\ 0 + i = i /\ i + 1 = ack + (i + 1) /\ i + 1 \in 1 .. n
      BY <1>0, <1>5
    <3>2. a + 1 + i - 1 = a + (i + 1) - 1
      OBVIOUS
    <3>3. q[ack + (i + 1)] = Msg("byte", Image[a + (i + 1) - 1])
      BY <1>0, <3>1
    <3> QED
      BY <2>2, <3>1, <3>2, <3>3
  <2>5. Stream(p, 0, a + 1, n - 1, eot)
    BY <2>3, <2>4 DEF Stream
  <2>6. q[1] = Msg("byte", Image[a])
    <3>1. ack + 1 = 1 /\ a + 1 - 1 = a /\ 1 \in 1 .. n
      BY <1>5
    <3>2. q[ack + 1] = Msg("byte", Image[a + 1 - 1])
      BY <1>0, <3>1
    <3> QED
      BY <3>1, <3>2
  <2> QED
    BY <2>1, <2>2, <2>5, <2>6 DEF p
<1>6. ASSUME ack = 0, n = 0, q # <<>>
      PROVE  eot = 1 /\ Head(q) = Msg("eot", 0) /\ Tail(q) = <<>>
  BY <1>0, <1>6, TailFacts
<1> QED
  BY <1>2, <1>3, <1>4, <1>5, <1>6

\* While a section is read back the line holds what is served and not yet read.
LEMMA ReadingPhase ==
  ASSUME InvType, Phases, InvMem, kind = "uart", host \in {"read_ack", "read_data"}, Reading, Next
  PROVE  UartPhase'
<1>0. /\ Base \in Nat /\ Section.len \in Nat /\ Len(read) \in Nat
      /\ cmd.addr \in Nat /\ cmd.left \in Nat /\ read \in Seq(Nat)
      /\ rx \in Seq(Message) /\ tx \in Seq(Message)
  BY BurstFacts DEF InvType, InvHost, InvHart, InvWire
<1>F. ASSUME UNCHANGED <<sect, offs>>
      PROVE  Base' = Base /\ Section' = Section
  BY <1>F DEF Base, Section
<1>S. ASSUME rx = <<>>
      PROVE  /\ pc \in {"read", "serve"}
             /\ pc = "read" => cmd.left <= Section.len /\ cmd.addr = Base + Section.len - cmd.left
             /\ host = "read_ack" => read = <<>>
             /\ Len(read) <= Served
             /\ Stream(tx, Acks, Base + Len(read), Served - Len(read), Eots)
  BY <1>S DEF Reading
<1>T. /\ Acks \in {0, 1} /\ Eots \in {0, 1}
      /\ rx = <<>> => Served \in Nat /\ Served - Len(read) \in Nat /\ Base + Len(read) \in Nat
  <2>1. Acks \in {0, 1} /\ Eots \in {0, 1}
    BY DEF Acks, Eots
  <2>2. rx = <<>> => Served \in Nat
    BY <1>0, <1>S DEF Served
  <2> QED
    BY <1>0, <1>S, <2>1, <2>2
<1>1. CASE ServeCommand
  <2>1. /\ pc = "serve" /\ rx # <<>> /\ rx' = Tail(rx)
        /\ UNCHANGED <<host, sect, offs, read>>
    BY <1>1 DEF ServeCommand, hostVars
  <2>2. /\ host = "read_ack" /\ read = <<>> /\ tx = <<>>
        /\ rx = <<Msg("read", [addr |-> Base, left |-> Section.len])>>
    BY <2>1 DEF Reading
  <2>3. /\ Head(rx).k = "read" /\ Head(rx).v = [addr |-> Base, left |-> Section.len]
        /\ Tail(rx) = <<>>
    BY <2>2 DEF Msg
  <2>4. /\ pc' = "read" /\ cmd' = [addr |-> Base, left |-> Section.len]
        /\ tx' = Append(tx, Msg("ack", 0))
    BY <1>1, <2>3 DEF ServeCommand
  <2>5. tx' = <<Msg("ack", 0)>> /\ Len(read) = 0
    BY <2>2, <2>4
  <2>6. Acks' = 1 /\ Eots' = 0 /\ Served' = 0
    BY <1>0, <1>F, <2>1, <2>2, <2>4 DEF Acks, Eots, Served
  <2>7. Stream(tx', 1, Base + 0, 0, 0)
    BY <2>5 DEF Stream
  <2>8. Stream(tx', Acks', Base' + Len(read'), Served' - Len(read'), Eots')
    <3>1. Base' = Base /\ Len(read') = 0 /\ Served' - 0 = 0
      BY <1>F, <2>1, <2>5, <2>6
    <3> QED
      BY <2>6, <2>7, <3>1
  <2>9. Len(read') <= Served'
    BY <2>1, <2>5, <2>6
  <2>10. cmd'.left <= Section'.len /\ cmd'.addr = Base' + Section'.len - cmd'.left
    BY <1>0, <1>F, <2>1, <2>4
  <2> QED
    BY <2>1, <2>2, <2>3, <2>4, <2>8, <2>9, <2>10 DEF UartPhase, Reading
<1>2. CASE UartReadAck
  <2>1. /\ host = "read_ack" /\ tx # <<>> /\ tx' = Tail(tx)
        /\ UNCHANGED <<pc, rx, cmd, sect, offs, read>>
        /\ host' = IF Head(tx).k = "ack" THEN "read_data" ELSE "fatal"
    BY <1>2 DEF UartReadAck, Expect, Host, hartVars
  <2>2. rx = <<>>
    BY <2>1 DEF Reading
  <2>3. Acks = 1 /\ read = <<>>
    BY <1>S, <2>1, <2>2 DEF Acks
  <2>4. Head(tx) = Msg("ack", 0) /\ Stream(tx', 0, Base + Len(read), Served - Len(read), Eots)
    BY <1>0, <1>S, <1>T, <2>1, <2>2, <2>3, StreamFacts
  <2>5. host' = "read_data"
    BY <2>1, <2>4 DEF Msg
  <2>6. Acks' = 0 /\ Eots' = Eots /\ Served' = Served /\ Base' = Base /\ Section' = Section
    BY <1>F, <2>1, <2>5 DEF Acks, Eots, Served
  <2> QED
    BY <1>S, <2>1, <2>2, <2>4, <2>5, <2>6 DEF UartPhase, Reading
<1>3. CASE ServeRead
  <2>1. /\ pc = "read" /\ cmd.left > 0 /\ tx' = Append(tx, Msg("byte", mem[cmd.addr]))
        /\ cmd'.addr = cmd.addr + 1 /\ cmd'.left = cmd.left - 1
        /\ UNCHANGED <<host, rx, pc, sect, offs, read>>
    BY <1>3 DEF ServeRead, Advance, hostVars
  <2>2. rx = <<>>
    BY <2>1 DEF Reading
  <2>3. mem[cmd.addr] = Image[cmd.addr] /\ Image[cmd.addr] \in Nat
    BY <2>1, ReadFacts, AddrFacts DEF InvMem, Loading
  <2> DEFINE n == Served - Len(read)
             a == Base + Len(read)
  <2>4. Served = Section.len - cmd.left /\ Served' = Served + 1
    BY <1>0, <1>F, <2>1 DEF Served
  <2>5. a + n = cmd.addr /\ n \in Nat /\ a \in Nat
    BY <1>0, <1>S, <1>T, <2>1, <2>2, <2>4
  <2>6. Acks' = Acks /\ Eots' = 0 /\ Eots = 0
    BY <2>1 DEF Acks, Eots
  <2>7. Stream(tx, Acks, a, n, Eots)
    BY <1>S, <2>2
  <2>8. Base' + Len(read') = a /\ Served' - Len(read') = n + 1
    BY <1>0, <1>F, <1>T, <2>1, <2>2, <2>4
  <2>9. Len(read') <= Served'
    BY <1>0, <1>S, <1>T, <2>1, <2>2, <2>4
  <2>10. cmd'.left <= Section'.len /\ cmd'.addr = Base' + Section'.len - cmd'.left
    <3>1. Base' = Base /\ Section' = Section
      BY <1>F, <2>1
    <3>2. /\ cmd.left - 1 <= Section.len
          /\ cmd.addr + 1 = Base + Section.len - (cmd.left - 1)
      BY <1>0, <1>S, <2>1, <2>2
    <3> QED
      BY <2>1, <3>1, <3>2
  <2> HIDE DEF n, a
  <2>11. Stream(tx', Acks, a, n + 1, 0)
    <3>1. tx' = Append(tx, Msg("byte", Image[a + n])) /\ Image[a + n] \in Nat
      BY <2>1, <2>3, <2>5
    <3> QED
      BY <1>0, <1>T, <2>5, <2>6, <2>7, <3>1, StreamFacts
  <2>12. Stream(tx', Acks', Base' + Len(read'), Served' - Len(read'), Eots')
    BY <2>6, <2>8, <2>11
  <2> QED
    BY <1>S, <2>1, <2>2, <2>9, <2>10, <2>12 DEF UartPhase, Reading
<1>4. CASE ServeEot
  <2>1. /\ pc \in {"read", "write"} /\ cmd.left = 0
        /\ UNCHANGED <<host, rx, sect, offs, read>>
        /\ pc' = "serve" /\ tx' = Append(tx, Msg("eot", 0))
    BY <1>4 DEF ServeEot, EndOfTransfer, hostVars
  <2>2. rx = <<>> /\ pc = "read"
    BY <2>1 DEF Reading
  <2>3. Served = Section.len /\ Served' = Section.len
    BY <1>0, <1>F, <2>1, <2>2 DEF Served
  <2>4. Acks' = Acks /\ Eots = 0 /\ Eots' = 1
    BY <2>1, <2>2 DEF Acks, Eots
  <2>5. Stream(tx', Acks, Base + Len(read), Served - Len(read), 1)
    BY <1>0, <1>S, <1>T, <2>1, <2>2, <2>4, StreamFacts
  <2>6. Stream(tx', Acks', Base' + Len(read'), Served' - Len(read'), Eots')
    BY <1>F, <2>1, <2>3, <2>4, <2>5
  <2> QED
    BY <1>S, <2>1, <2>2, <2>3, <2>6 DEF UartPhase, Reading
<1>5. CASE UartReadData
  <2>1. /\ host = "read_data" /\ Len(read) < Section.len /\ tx # <<>>
        /\ read' = Append(read, Head(tx).v) /\ tx' = Tail(tx)
        /\ UNCHANGED <<host, rx, pc, cmd, sect, offs>>
    BY <1>5 DEF UartReadData, Host, hartVars
  <2>2. rx = <<>> /\ Acks = 0 /\ Acks' = 0 /\ Eots' = Eots
    BY <2>1 DEF Reading, Acks, Eots
  <2> DEFINE n == Served - Len(read)
             a == Base + Len(read)
  <2>3. Stream(tx, 0, a, n, Eots) /\ n \in Nat /\ a \in Nat
    BY <1>S, <1>T, <2>2
  <2>4. n > 0
    <3>1. n = 0 => Eots = 1
      <4> HIDE DEF n, a
      <4> QED
        BY <1>0, <1>T, <2>1, <2>3, StreamFacts
    <3>2. Eots = 1 => n > 0
      BY <1>0, <2>1 DEF Eots, Served
    <3> QED
      BY <2>3, <3>1, <3>2
  <2>5. Head(tx) = Msg("byte", Image[a]) /\ Stream(tx', 0, a + 1, n - 1, Eots)
    <3> HIDE DEF n, a
    <3> QED
      BY <1>0, <1>T, <2>1, <2>3, <2>4, StreamFacts
  <2>6. Len(read') = Len(read) + 1
    <3>1. Head(tx).v \in Nat
      BY <2>1, ReadBackFacts, AddrFacts DEF Msg
    <3> QED
      BY <1>0, <2>1, <3>1
  <2>7. Base' = Base /\ Section' = Section /\ Served' = Served
    BY <1>F, <2>1 DEF Served
  <2>8. /\ Base' + Len(read') = a + 1 /\ Served' - Len(read') = n - 1
        /\ Len(read') <= Served'
    BY <1>0, <1>T, <2>2, <2>4, <2>6, <2>7
  <2> HIDE DEF n, a
  <2>9. Stream(tx', Acks', Base' + Len(read'), Served' - Len(read'), Eots')
    BY <2>2, <2>5, <2>8
  <2> QED
    BY <1>S, <2>1, <2>2, <2>7, <2>8, <2>9 DEF UartPhase, Reading
<1>6. CASE UartReadEot
  <2>1. /\ host = "read_data" /\ Len(read) = Section.len /\ tx # <<>>
        /\ tx' = Tail(tx) /\ UNCHANGED <<pc, rx>>
        /\ host' = IF Head(tx).k = "eot" THEN "loaded" ELSE "fatal"
    BY <1>6 DEF UartReadEot, Expect, Host
  <2>2. rx = <<>> /\ Acks = 0
    BY <2>1 DEF Reading, Acks
  <2>3. Served - Len(read) = 0
    BY <1>0, <1>S, <1>T, <2>1, <2>2 DEF Served
  <2>4. Eots = 1 /\ Head(tx) = Msg("eot", 0) /\ Tail(tx) = <<>>
    BY <1>0, <1>S, <1>T, <2>1, <2>2, <2>3, StreamFacts
  <2>5. pc = "serve" /\ host' = "loaded"
    BY <2>1, <2>4 DEF Eots, Msg
  <2> QED
    BY <2>1, <2>2, <2>4, <2>5 DEF UartPhase, Serving, Silent
<1> QED
  BY <1>1, <1>2, <1>3, <1>4, <1>5, <1>6, UartSteps

-----------------------------------------------------------------------------
(* UART: the program runs. *)

\* How the program's output grows and is consumed.
LEMMA OutputFacts ==
  ASSUME NEW q \in Seq(Message), NEW ack \in {0, 1}, NEW last \in {0, 2}, NEW r,
         Output(q, ack, last, r)
  PROVE  /\ last = 0 => Output(Append(q, Msg("text", 0)), ack, 0, r)
         /\ last = 0 /\ r \in Reg => Output(q \o <<Msg("eoc", 0), Msg("ret", r)>>, ack, 2, r)
         /\ ack = 1 => /\ q # <<>> /\ Head(q) = Msg("ack", 0)
                       /\ Output(Tail(q), 0, last, r)
         /\ ack = 0 /\ q # <<>> =>
              \/ Head(q) = Msg("text", 0) /\ Output(Tail(q), 0, last, r)
              \/ last = 2 /\ Head(q) = Msg("eoc", 0) /\ Tail(q) = <<Msg("ret", r)>>
<1>0. /\ Len(q) \in Nat /\ Len(q) >= ack + last
      /\ ack = 1 => q[1] = Msg("ack", 0)
      /\ \A i \in ack + 1 .. Len(q) - last : q[i] = Msg("text", 0)
      /\ last = 2 => q[Len(q) - 1] = Msg("eoc", 0) /\ q[Len(q)] = Msg("ret", r)
  BY DEF Output
<1>1. Len(q) > 0 => q # <<>>
  BY EmptySeq
<1>2. ASSUME last = 0
      PROVE  Output(Append(q, Msg("text", 0)), ack, 0, r)
  <2> DEFINE p == Append(q, Msg("text", 0))
  <2>1. Msg("text", 0) \in Message
    BY MessageFacts
  <2>2. /\ Len(p) = Len(q) + 1 /\ p[Len(q) + 1] = Msg("text", 0)
        /\ \A i \in 1 .. Len(q) : p[i] = q[i]
    BY <2>1, AppendFacts
  <2> HIDE DEF p
  <2>3. Len(p) >= ack + 0 /\ (ack = 1 => p[1] = Msg("ack", 0))
    BY <1>0, <1>2, <2>2
  <2>4. ASSUME NEW i \in ack + 1 .. Len(p) - 0
        PROVE  p[i] = Msg("text", 0)
    <3>1. i \in ack + 1 .. Len(q) - last \/ i = Len(q) + 1
      BY <1>0, <1>2, <2>2
    <3>2. i \in ack + 1 .. Len(q) - last => i \in 1 .. Len(q)
      BY <1>0, <1>2
    <3> QED
      BY <1>0, <2>2, <3>1, <3>2
  <2>5. Output(p, ack, 0, r)
    BY <2>3, <2>4 DEF Output
  <2> QED
    BY <2>5 DEF p
<1>3. ASSUME last = 0, r \in Reg
      PROVE  Output(q \o <<Msg("eoc", 0), Msg("ret", r)>>, ack, 2, r)
  <2> DEFINE t == <<Msg("eoc", 0), Msg("ret", r)>>
             p == q \o t
  <2>1. t \in Seq(Message) /\ Len(t) = 2 /\ t[1] = Msg("eoc", 0) /\ t[2] = Msg("ret", r)
    <3>1. Msg("eoc", 0) \in Message /\ Msg("ret", r) \in Message
      BY <1>3, MessageFacts
    <3> QED
      BY <3>1
  <2> HIDE DEF t
  <2>2. /\ Len(p) = Len(q) + 2
        /\ \A i \in 1 .. Len(q) + 2 : p[i] = IF i <= Len(q) THEN q[i] ELSE t[i - Len(q)]
    <3>1. /\ Len(p) = Len(q) + Len(t)
          /\ \A i \in 1 .. Len(q) + Len(t) : p[i] = IF i <= Len(q) THEN q[i] ELSE t[i - Len(q)]
      BY <2>1, ConcatProperties
    <3> HIDE DEF p
    <3>2. Len(q) + Len(t) = Len(q) + 2
      BY <2>1
    <3> QED
      BY <3>1, <3>2
  <2> HIDE DEF p
  <2>3. Len(p) >= ack + 2 /\ (ack = 1 => p[1] = Msg("ack", 0))
    BY <1>0, <1>3, <2>2
  <2>4. ASSUME NEW i \in ack + 1 .. Len(p) - 2
        PROVE  p[i] = Msg("text", 0)
    <3>1. i \in ack + 1 .. Len(q) - last /\ i \in 1 .. Len(q) + 2 /\ i <= Len(q)
      BY <1>0, <1>3, <2>2
    <3> QED
      BY <1>0, <2>2, <3>1
  <2>5. p[Len(p) - 1] = Msg("eoc", 0) /\ p[Len(p)] = Msg("ret", r)
    <3>1. /\ Len(p) - 1 \in 1 .. Len(q) + 2 /\ ~(Len(p) - 1 <= Len(q)) /\ Len(p) - 1 - Len(q) = 1
          /\ Len(p) \in 1 .. Len(q) + 2 /\ ~(Len(p) <= Len(q)) /\ Len(p) - Len(q) = 2
      BY <1>0, <2>2
    <3> QED
      BY <2>1, <2>2, <3>1
  <2>6. Output(p, ack, 2, r)
    BY <2>3, <2>4, <2>5 DEF Output
  <2> QED
    BY <2>6 DEF p, t
<1>4. ASSUME ack = 1
      PROVE  q # <<>> /\ Head(q) = Msg("ack", 0) /\ Output(Tail(q), 0, last, r)
  <2>1. q # <<>>
    BY <1>0, <1>1, <1>4
  <2> DEFINE p == Tail(q)
  <2>2. /\ Head(q) = q[1] /\ Len(p) = Len(q) - 1 /\ \A i \in 1 .. Len(q) - 1 : p[i] = q[i + 1]
    BY <2>1, TailFacts
  <2> HIDE DEF p
  <2>3. Len(p) >= 0 + last
    BY <1>0, <1>4, <2>2
  <2>4. last = 2 => p[Len(p) - 1] = Msg("eoc", 0) /\ p[Len(p)] = Msg("ret", r)
    BY <1>0, <1>4, <2>2
  <2>5. ASSUME NEW i \in 0 + 1 .. Len(p) - last
        PROVE  p[i] = Msg("text", 0)
    <3>1. i \in 1 .. Len(q) - 1 /\ i + 1 \in ack + 1 .. Len(q) - last
      BY <1>0, <1>4, <2>2
    <3> QED
      BY <1>0, <2>2, <3>1
  <2>6. Output(p, 0, last, r)
    BY <2>3, <2>4, <2>5 DEF Output
  <2> QED
    BY <1>0, <1>4, <2>1, <2>2, <2>6 DEF p
<1>5. ASSUME ack = 0, q # <<>>
      PROVE  \/ Head(q) = Msg("text", 0) /\ Output(Tail(q), 0, last, r)
             \/ last = 2 /\ Head(q) = Msg("eoc", 0) /\ Tail(q) = <<Msg("ret", r)>>
  <2> DEFINE p == Tail(q)
  <2>1. /\ Head(q) = q[1] /\ Len(p) = Len(q) - 1 /\ \A i \in 1 .. Len(q) - 1 : p[i] = q[i + 1]
        /\ Len(q) >= 1 /\ p \in Seq(Message)
    BY <1>5, TailFacts
  <2> HIDE DEF p
  <2>2. CASE Len(q) > last
    <3>1. Len(p) >= 0 + last
      BY <1>0, <2>1, <2>2
    <3>2. last = 2 => p[Len(p) - 1] = Msg("eoc", 0) /\ p[Len(p)] = Msg("ret", r)
      BY <1>0, <2>1, <2>2
    <3>3. ASSUME NEW i \in 0 + 1 .. Len(p) - last
          PROVE  p[i] = Msg("text", 0)
      <4>1. i \in 1 .. Len(q) - 1 /\ i + 1 \in ack + 1 .. Len(q) - last
        BY <1>0, <1>5, <2>1
      <4> QED
        BY <1>0, <2>1, <4>1
    <3>4. Output(p, 0, last, r)
      BY <3>1, <3>2, <3>3 DEF Output
    <3>5. q[1] = Msg("text", 0)
      BY <1>0, <1>5, <2>2
    <3> QED
      BY <2>1, <3>4, <3>5 DEF p
  <2>3. CASE ~(Len(q) > last)
    <3>1. last = 2 /\ Len(q) = 2
      BY <1>0, <2>1, <2>3
    <3>2. q[1] = Msg("eoc", 0) /\ p[1] = Msg("ret", r) /\ Len(p) = 1
      BY <1>0, <2>1, <3>1
    <3>3. p = <<Msg("ret", r)>>
      BY <2>1, <3>2
    <3> QED
      BY <2>1, <3>1, <3>2, <3>3 DEF p
  <2> QED
    BY <2>2, <2>3
<1> QED
  BY <1>2, <1>3, <1>4, <1>5

\* The output of the program never hides the end of it.
LEMMA RunningPhase ==
  ASSUME InvType, UartResult, kind = "uart", host \in {"exec_ack", "console"}, Running, Next
  PROVE  UartPhase'
<1> DEFINE last == IF pc \in Ended THEN 2 ELSE 0
<1>0. rx \in Seq(Message) /\ tx \in Seq(Message) /\ Acks \in {0, 1} /\ last \in {0, 2}
  BY DEF InvType, InvWire, Acks
<1>S. ASSUME rx = <<>>
      PROVE  pc \in Program \cup Ended /\ Output(tx, Acks, last, result)
  BY <1>S DEF Running
<1>R. ASSUME rx' = <<>>, pc' \in Program \cup Ended, host' \in {"exec_ack", "console"},
             Output(tx', Acks', IF pc' \in Ended THEN 2 ELSE 0, result')
      PROVE  UartPhase'
  BY <1>R DEF UartPhase, Running
<1>D. pc \in Program \cup Ended => rx = <<>>
  BY DEF Running, Program, Ended
<1>1. CASE ServeCommand
  <2>1. pc = "serve" /\ rx # <<>> /\ rx' = Tail(rx) /\ UNCHANGED host
    BY <1>1 DEF ServeCommand, hostVars
  <2>2. host = "exec_ack" /\ tx = <<>> /\ rx = <<Msg("exec", Entry)>>
    BY <2>1 DEF Running
  <2>3. Head(rx).k = "exec" /\ Head(rx).v = Entry /\ Tail(rx) = <<>>
    BY <2>2 DEF Msg
  <2>4. pc' = "run" /\ tx' = Append(tx, Msg("ack", 0))
    BY <1>1, <2>3 DEF ServeCommand
  <2>5. tx' = <<Msg("ack", 0)>> /\ Acks' = 1
    BY <2>1, <2>2, <2>4 DEF Acks
  <2>6. Output(tx', 1, 0, result')
    BY <2>5 DEF Output
  <2> QED
    BY <1>R, <2>1, <2>2, <2>3, <2>4, <2>5, <2>6 DEF Program, Ended
<1>2. CASE UartExecAck
  <2>1. /\ host = "exec_ack" /\ tx # <<>> /\ tx' = Tail(tx) /\ UNCHANGED <<pc, rx, result>>
        /\ host' = IF Head(tx).k = "ack" THEN "console" ELSE "fatal"
    BY <1>2 DEF UartExecAck, Expect, Host, hartVars
  <2>2. rx = <<>> /\ Acks = 1
    BY <2>1 DEF Running, Acks
  <2>3. Head(tx) = Msg("ack", 0) /\ Output(tx', 0, last, result)
    <3> HIDE DEF last
    <3> QED
      BY <1>0, <1>S, <2>1, <2>2, OutputFacts
  <2>4. host' = "console" /\ Acks' = 0
    BY <2>1, <2>3 DEF Msg, Acks
  <2> QED
    BY <1>R, <1>S, <2>1, <2>2, <2>3, <2>4
<1>3. CASE UartConsole
  <2>1. /\ host = "console" /\ tx # <<>> /\ tx' = Tail(tx) /\ UNCHANGED <<pc, rx, result>>
        /\ host' = IF Head(tx).k = "eoc" THEN "return" ELSE "console"
    BY <1>3 DEF UartConsole, hartVars
  <2>2. rx = <<>> /\ Acks = 0
    BY <2>1 DEF Running, Acks
  <2>3. \/ Head(tx) = Msg("text", 0) /\ Output(tx', 0, last, result)
        \/ last = 2 /\ Head(tx) = Msg("eoc", 0) /\ tx' = <<Msg("ret", result)>>
    <3>1. Output(tx, 0, last, result)
      BY <1>S, <2>2
    <3> HIDE DEF last
    <3>2. tx \in Seq(Message) /\ 0 \in {0, 1} /\ last \in {0, 2} /\ tx # <<>>
      BY <1>0, <2>1
    <3>3. \/ Head(tx) = Msg("text", 0) /\ Output(Tail(tx), 0, last, result)
          \/ last = 2 /\ Head(tx) = Msg("eoc", 0) /\ Tail(tx) = <<Msg("ret", result)>>
      BY <3>1, <3>2, OutputFacts
    <3> QED
      BY <2>1, <3>3
  <2>4. CASE Head(tx) = Msg("text", 0) /\ Output(tx', 0, last, result)
    <3>1. host' = "console" /\ Acks' = 0
      BY <2>1, <2>4 DEF Msg, Acks
    <3> QED
      BY <1>R, <1>S, <2>1, <2>2, <2>4, <3>1
  <2>5. CASE last = 2 /\ Head(tx) = Msg("eoc", 0) /\ tx' = <<Msg("ret", result)>>
    <3>1. host' = "return" /\ pc \in Ended
      BY <2>1, <2>5 DEF Msg
    <3> QED
      BY <2>1, <2>2, <2>5, <3>1 DEF UartPhase
  <2> QED
    BY <2>3, <2>4, <2>5
<1>4. CASE ProgramPrints
  <2>1. pc = "run" /\ tx' = Append(tx, Msg("text", 0)) /\ UNCHANGED <<pc, rx, host, result>>
    BY <1>4 DEF ProgramPrints, hostVars
  <2>2. rx = <<>> /\ last = 0 /\ Acks' = Acks
    BY <1>D, <2>1 DEF Program, Ended, Acks
  <2>3. Output(tx', Acks, 0, result)
    BY <1>0, <1>S, <2>1, <2>2, OutputFacts
  <2> QED
    BY <1>R, <2>1, <2>2, <2>3 DEF Program, Ended
<1>5. CASE ProgramReturnsSome
  <2>1. pc = "run" /\ pc' = "crt0" /\ UNCHANGED <<tx, rx, host>>
    BY <1>5 DEF ProgramReturnsSome, ProgramReturns, Hart, hostVars
  <2>2. rx = <<>> /\ last = 0 /\ Acks' = Acks
    BY <1>D, <2>1 DEF Program, Ended, Acks
  <2>3. Output(tx, Acks, 0, result')
    BY <1>S, <2>2 DEF Output
  <2> QED
    BY <1>R, <2>1, <2>2, <2>3 DEF Program, Ended
<1>6. CASE Crt0Exit
  <2>1. pc = "crt0" /\ UNCHANGED <<tx, rx, host, result>>
    BY <1>6 DEF Crt0Exit, hostVars, hartVars
  <2>2. caller = "uart_debug_serve"
    BY <2>1 DEF UartResult, Program
  <2>3. pc' = "eoc"
    BY <1>6, <2>2 DEF Crt0Exit
  <2>4. rx = <<>> /\ last = 0 /\ Acks' = Acks
    BY <1>D, <2>1 DEF Program, Ended, Acks
  <2> QED
    BY <1>R, <1>S, <2>1, <2>3, <2>4 DEF Program, Ended
<1>7. CASE ServeEoc
  <2>1. /\ pc = "eoc" /\ pc' = "exit" /\ UNCHANGED <<rx, host, result>>
        /\ tx' = tx \o <<Msg("eoc", 0), Msg("ret", result)>>
    BY <1>7 DEF ServeEoc, Hart, hostVars, hartVars
  <2>2. rx = <<>> /\ last = 0 /\ Acks' = Acks
    BY <1>D, <2>1 DEF Program, Ended, Acks
  <2>3. result \in Reg
    BY <2>1 DEF UartResult
  <2>4. Output(tx', Acks, 2, result)
    BY <1>0, <1>S, <2>1, <2>2, <2>3, OutputFacts
  <2> QED
    BY <1>R, <2>1, <2>2, <2>4 DEF Program, Ended
<1>8. CASE RomExit
  <2>1. pc = "exit" /\ pc' = "ebreak" /\ UNCHANGED <<tx, rx, host, result>>
    BY <1>8 DEF RomExit, Hart, hostVars, hartVars
  <2>2. rx = <<>> /\ last = 2 /\ Acks' = Acks
    BY <1>D, <2>1 DEF Ended, Acks
  <2> QED
    BY <1>R, <1>S, <2>1, <2>2 DEF Ended
<1> QED
  BY <1>1, <1>2, <1>3, <1>4, <1>5, <1>6, <1>7, <1>8, UartSteps

\* Host and server move from one joint state to another.
LEMMA PhaseStep ==
  ASSUME InvType, Phases, InvMem, kind = "uart", Next
  PROVE  UartPhase'
<1>0. UartPhase /\ UartResult
  BY DEF Phases, InvUart
<1> QED
  BY <1>0, StartPhase, HelloPhase, ServingPhase, WritingPhase, ReadingPhase, RunningPhase,
     EndPhases, AbortedPhase DEF UartPhase

\* From where the program is entered and left.
LEMMA PlaceFrames ==
  ASSUME [Next]_vars, kind = "uart"
  PROVE  /\ pc' \in Program => pc \in Program \/ ServeCommand \/ Launch
         /\ pc' \in {"crt0", "eoc"} \cup Ended =>
              pc \in {"crt0", "eoc"} \cup Ended \/ ServeCommand \/ ProgramReturnsSome
         /\ pc' = "eoc" => pc = "eoc" \/ Crt0Exit
         /\ pc \in {"eoc"} \cup Ended => pc' \in {"eoc"} \cup Ended
<1> USE DEF hartVars, hostVars, Hart, Host, Send, Expect, SlinkWrite, Advance, ProgramReturns,
      ConfigureLlc, UartDebugInit, PollScratch, UartDebugCheck, ClearStart, Launch,
      ServeCommand, ServeWrite, ServeRead, ServeEot, Crt0Exit, ServeEoc, RomExit, UartHello,
      UartHelloAck, UartWrite, UartWriteAck, UartData, UartWriteEot, UartReadAck, UartReadData,
      UartReadEot, UartExecAck, UartConsole, UartReturn, JtagHalt, SlinkReady, LoadSection,
      SlinkEntryHigh, SlinkEntryLow, SlinkStart, JtagResume, WaitForEoc, ProgramPrints,
      ProgramReturnsSome, UartExec, UartRead, Noise, UartBadCommand
<1>1. pc' \in Program => pc \in Program \/ ServeCommand \/ Launch
  BY DEF Next, RomStep, HostStep, vars, Program
<1>2. pc' \in {"crt0", "eoc"} \cup Ended =>
        pc \in {"crt0", "eoc"} \cup Ended \/ ServeCommand \/ ProgramReturnsSome
  BY DEF Next, RomStep, HostStep, vars, Ended
<1>3. pc' = "eoc" => pc = "eoc" \/ Crt0Exit
  BY DEF Next, RomStep, HostStep, vars
<1>4. pc \in {"eoc"} \cup Ended => pc' \in {"eoc"} \cup Ended
  BY DEF Next, RomStep, HostStep, vars, Ended
<1> QED
  BY <1>1, <1>2, <1>3, <1>4

\* The exit word, the return value and the exit code over UART.
LEMMA ResultStep ==
  ASSUME InvType, Phases, kind = "uart", Next
  PROVE  UartResult'
<1>0. UartPhase /\ UartResult
  BY DEF Phases, InvUart
<1>1. (host # "done" => code = -1)'
  <2>1. CASE UNCHANGED code
    <3>1. host = "done" => host' = "done"
      <4>1. host = "done" => RomExit
        BY <1>0, UartSteps DEF UartPhase
      <4> QED
        BY <4>1 DEF RomExit, hostVars
    <3> QED
      BY <1>0, <2>1, <3>1 DEF UartResult
  <2>2. CASE UartReturn
    <3>1. host = "return" /\ host' = IF Head(tx).k = "ret" THEN "done" ELSE "fatal"
      BY <2>2 DEF UartReturn, Expect, Host
    <3>2. tx = <<Msg("ret", result)>>
      BY <1>0, <3>1 DEF UartPhase
    <3> QED
      BY <3>1, <3>2 DEF Msg
  <2>3. ~WaitForEoc
    BY <1>0 DEF UartPhase, WaitForEoc, Host
  <2> QED
    BY <2>1, <2>2, <2>3, Frames
<1>2. (pc \in Program => caller = "uart_debug_serve")'
  <2>1. CASE UNCHANGED caller /\ pc \in Program
    BY <1>0, <2>1 DEF UartResult
  <2>2. CASE ServeCommand
    <3>1. pc = "serve" /\ (pc' \in {"read", "write", "exit"} \/ caller' = "uart_debug_serve")
      BY <2>2 DEF ServeCommand
    <3> QED
      BY <3>1 DEF Program
  <2>3. ~Launch /\ ~JtagHalt
    BY KindFacts DEF Launch, JtagHalt
  <2> QED
    BY <2>1, <2>2, <2>3, Frames, PlaceFrames
<1>3. (pc \in {"crt0", "eoc"} \cup Ended => result \in Reg)'
  <2>1. CASE UNCHANGED result /\ pc \in {"crt0", "eoc"} \cup Ended
    BY <1>0, <2>1 DEF UartResult
  <2>2. CASE ServeCommand
    <3>1. pc' \in {"crt0", "eoc"} \cup Ended => result' = 1
      BY <2>2 DEF ServeCommand, Ended
    <3> QED
      BY <3>1, SizesAssumption DEF Reg
  <2>3. CASE ProgramReturnsSome
    BY <2>3, ResultsAssumption DEF ProgramReturnsSome, ProgramReturns
  <2> QED
    BY <2>1, <2>2, <2>3, Frames, PlaceFrames
<1>4. (\/ scratch = <<0, 0, 0>> /\ pc # "eoc"
       \/ pc \in {"eoc"} \cup Ended /\ scratch = <<0, 0, ExitWord(result)>>)'
  <2>0. \/ scratch = <<0, 0, 0>> /\ pc # "eoc"
        \/ pc \in {"eoc"} \cup Ended /\ scratch = <<0, 0, ExitWord(result)>>
    BY <1>0 DEF UartResult
  <2>E. \A w, v : [<<0, 0, v>> EXCEPT ![3] = w] = <<0, 0, w>>
    OBVIOUS
  <2>1. CASE Crt0Exit
    <3>1. pc = "crt0" /\ scratch' = [scratch EXCEPT ![3] = ExitWord(result)] /\ UNCHANGED result
      BY <2>1 DEF Crt0Exit, hartVars
    <3>2. pc' = "eoc"
      BY <2>1, <3>1, <1>0 DEF Crt0Exit, UartResult, Program
    <3>3. scratch = <<0, 0, 0>>
      BY <2>0, <3>1 DEF Ended
    <3> QED
      BY <2>E, <3>1, <3>2, <3>3 DEF ExitWord
  <2>2. CASE RomExit
    <3>1. /\ pc = "exit" /\ pc' = "ebreak" /\ UNCHANGED result
          /\ scratch' = [scratch EXCEPT ![3] = RomExitWord(result)]
      BY <2>2 DEF RomExit, Hart, hartVars
    <3>2. scratch' = <<0, 0, RomExitWord(result)>>
      BY <2>0, <2>E, <3>1
    <3> QED
      BY <3>1, <3>2 DEF ExitWord, RomExitWord, Ended
  <2>3. CASE UNCHANGED scratch /\ ~Crt0Exit
    <3>1. CASE scratch = <<0, 0, 0>> /\ pc # "eoc"
      BY <2>3, <3>1, PlaceFrames
    <3>2. CASE pc \in {"eoc"} \cup Ended /\ scratch = <<0, 0, ExitWord(result)>>
      <4>1. UNCHANGED result
        BY <3>2, Frames DEF ServeCommand, ProgramReturnsSome, ProgramReturns, Hart, Ended
      <4> QED
        BY <2>3, <3>2, <4>1, PlaceFrames DEF ExitWord
    <3> QED
      BY <2>0, <3>1, <3>2
  <2>4. ~ClearStart /\ ~SlinkEntryHigh /\ ~SlinkEntryLow /\ ~SlinkStart
    BY KindFacts DEF ClearStart, Hart, SlinkEntryHigh, SlinkEntryLow, SlinkStart, SlinkWrite
  <2> QED
    BY <2>1, <2>2, <2>3, <2>4, Frames
<1> QED
  BY <1>1, <1>2, <1>3, <1>4 DEF UartResult

-----------------------------------------------------------------------------
(* Serial link and JTAG: the steps there are, and what they preserve. *)

\* The steps there are with a serial link host and with JTAG.
LEMMA BusSteps ==
  ASSUME Phases, Next
  PROVE  /\ kind = "slink" =>
              ConfigureLlc \/ UartDebugInit \/ PollScratch \/ UartDebugCheck \/
              ClearStart \/ Launch \/ ProgramPrints \/ ProgramReturnsSome \/
              Crt0Exit \/ SlinkReady \/ LoadSection \/ SlinkEntryHigh \/
              SlinkEntryLow \/ SlinkStart \/ WaitForEoc
         /\ kind = "jtag" =>
              ConfigureLlc \/ UartDebugInit \/ PollScratch \/ UartDebugCheck \/
              ClearStart \/ Launch \/ ProgramPrints \/ ProgramReturnsSome \/
              Crt0Exit \/ JtagHalt \/ LoadSection \/ JtagResume \/ WaitForEoc
<1> USE DEF hartVars, hostVars, Hart, Host, Send, Expect, SlinkWrite, Advance, ProgramReturns,
      ConfigureLlc, UartDebugInit, PollScratch, UartDebugCheck, ClearStart, Launch,
      ServeCommand, ServeWrite, ServeRead, ServeEot, Crt0Exit, ServeEoc, RomExit, UartHello,
      UartHelloAck, UartWrite, UartWriteAck, UartData, UartWriteEot, UartReadAck, UartReadData,
      UartReadEot, UartExecAck, UartConsole, UartReturn, JtagHalt, SlinkReady, LoadSection,
      SlinkEntryHigh, SlinkEntryLow, SlinkStart, JtagResume, WaitForEoc, ProgramPrints,
      ProgramReturnsSome, UartExec, UartRead, Noise, UartBadCommand
<1>1. kind = "slink" =>
       ConfigureLlc \/ UartDebugInit \/ PollScratch \/ UartDebugCheck \/
       ClearStart \/ Launch \/ ProgramPrints \/ ProgramReturnsSome \/ Crt0Exit
       \/ SlinkReady \/ LoadSection \/ SlinkEntryHigh \/ SlinkEntryLow \/
       SlinkStart \/ WaitForEoc
  BY DEF Next, RomStep, HostStep, Phases, InvSlink, Waiting
<1>2. kind = "jtag" =>
       ConfigureLlc \/ UartDebugInit \/ PollScratch \/ UartDebugCheck \/
       ClearStart \/ Launch \/ ProgramPrints \/ ProgramReturnsSome \/ Crt0Exit
       \/ JtagHalt \/ LoadSection \/ JtagResume \/ WaitForEoc
  BY DEF Next, RomStep, HostStep, Phases, InvJtag, Waiting
<1> QED
  BY <1>1, <1>2

\* The start signal is no end flag, and no exit word is zero.
LEMMA FlagFacts ==
  /\ StartFlag(0) = 0 /\ EndFlag(0) = 0 /\ StartFlag(2) = 1 /\ EndFlag(2) = 0
  /\ 2 \div 2 = 1
BY DEF StartFlag, EndFlag

\* The entry point is complete before the start signal, which precedes the exit word.
LEMMA SlinkStep ==
  ASSUME InvType, Phases, kind = "slink", Next
  PROVE  InvSlink'
<1>0. InvSlink /\ scratch \in [1 .. 3 -> Reg] /\ InvHart
  BY DEF Phases, InvType, InvData
<1> USE DEF InvSlink, Waiting, Hart, Host, SlinkWrite, hostVars, hartVars, ExitWord
<1>1. CASE ConfigureLlc
  BY <1>0, <1>1 DEF ConfigureLlc
<1>2. CASE UartDebugInit
  BY <1>0, <1>2 DEF UartDebugInit
<1>3. CASE PollScratch
  <2>1. pc = "poll" /\ scratch[3] = IF host \in {"poll", "done"} THEN 2 ELSE 0
    BY <1>0, <1>3 DEF PollScratch
  <2>2. StartRequested <=> host \in {"poll", "done"}
    BY <2>1, FlagFacts DEF StartRequested, Scratch
  <2> QED
    BY <1>0, <1>3, <2>1, <2>2 DEF PollScratch
<1>4. CASE UartDebugCheck
  BY <1>0, <1>4 DEF UartDebugCheck
<1>5. CASE ClearStart
  <2>1. scratch'[3] = 0 /\ scratch'[1] = scratch[1] /\ scratch'[2] = scratch[2]
    BY <1>0, <1>5 DEF ClearStart
  <2> QED
    BY <1>0, <1>5, <2>1 DEF ClearStart
<1>6. CASE Launch
  <2>1. pc = "jump" /\ host = "poll" /\ scratch[2] = Entry[1] /\ scratch[1] = Entry[2]
    BY <1>0, <1>6 DEF Launch
  <2>2. EntryInScratch = Entry
    BY <2>1, EntryAssumption DEF EntryInScratch, Scratch
  <2> QED
    BY <1>0, <1>6, <2>1, <2>2 DEF Launch
<1>7. CASE ProgramPrints
  BY <1>0, <1>7 DEF ProgramPrints
<1>8. CASE ProgramReturnsSome
  <2>1. /\ pc = "run" /\ pc' = "crt0" /\ result' \in Reg
        /\ UNCHANGED <<host, scratch, rx, caller, code>>
    BY <1>8, ResultsAssumption DEF ProgramReturnsSome, ProgramReturns
  <2> QED
    BY <1>0, <2>1
<1>9. CASE Crt0Exit
  <2>1. pc = "crt0" /\ caller = "boot_next_stage" /\ UNCHANGED <<host, rx, caller, result, code>>
    BY <1>0, <1>9 DEF Crt0Exit
  <2>2. pc' = "ret"
    BY <1>9, <2>1 DEF Crt0Exit
  <2>3. /\ scratch'[3] = ExitWord(result) /\ scratch'[1] = scratch[1] /\ scratch'[2] = scratch[2]
    BY <1>0, <1>9 DEF Crt0Exit
  <2> QED
    BY <1>0, <2>1, <2>2, <2>3
<1>10. CASE SlinkReady
  BY <1>0, <1>10 DEF SlinkReady, LlcReady
<1>11. CASE LoadSection
  BY <1>0, <1>11 DEF LoadSection
<1>12. CASE SlinkEntryHigh
  BY <1>0, <1>12 DEF SlinkEntryHigh
<1>13. CASE SlinkEntryLow
  BY <1>0, <1>13 DEF SlinkEntryLow
<1>14. CASE SlinkStart
  BY <1>0, <1>14 DEF SlinkStart
<1>15. CASE WaitForEoc
  <2>1. /\ host = "poll" /\ host' = "done" /\ EndFlag(scratch[3]) = 1 /\ code' = scratch[3] \div 2
        /\ UNCHANGED <<pc, rx, scratch, caller, result>>
    BY <1>15 DEF WaitForEoc, Scratch
  <2>2. pc = "ret" /\ scratch[3] = ExitWord(result) /\ result \in Reg
    BY <1>0, <2>1, FlagFacts
  <2>3. code' = result % Codes
    BY <2>1, <2>2, ExitWordFacts
  <2> QED
    BY <1>0, <2>1, <2>2, <2>3
<1> QED
  BY <1>1, <1>2, <1>3, <1>4, <1>5, <1>6, <1>7, <1>8, <1>9, <1>10, <1>11, <1>12, <1>13, <1>14,
     <1>15, BusSteps

\* The debugger runs the program once; later a returned program may get lost.
LEMMA JtagStep ==
  ASSUME InvType, Phases, kind = "jtag", Next
  PROVE  InvJtag'
<1>0. InvJtag /\ scratch \in [1 .. 3 -> Reg] /\ InvHart
  BY DEF Phases, InvType, InvData
<1> USE DEF InvJtag, Waiting, Hart, Host, SlinkWrite, hostVars, hartVars, ExitWord
<1>1. CASE ConfigureLlc
  BY <1>0, <1>1 DEF ConfigureLlc
<1>2. CASE UartDebugInit
  BY <1>0, <1>2 DEF UartDebugInit
<1>3. CASE PollScratch
  <2>1. /\ pc = "poll" /\ pc' = IF StartRequested THEN "launch" ELSE "check"
        /\ UNCHANGED <<host, scratch, rx, caller, result, code>>
    BY <1>3 DEF PollScratch
  <2>2. host = "start" => scratch[3] = 0
    BY <1>0
  <2>3. host = "start" => ~StartRequested
    BY <2>2, FlagFacts DEF StartRequested, Scratch
  <2> QED
    BY <1>0, <2>1, <2>3
<1>4. CASE UartDebugCheck
  BY <1>0, <1>4 DEF UartDebugCheck
<1>5. CASE ClearStart
  <2>1. scratch'[3] = 0 /\ scratch'[1] = scratch[1] /\ scratch'[2] = scratch[2]
    BY <1>0, <1>5 DEF ClearStart
  <2> QED
    BY <1>0, <1>5, <2>1 DEF ClearStart
<1>6. CASE Launch
  <2>1. pc = "jump" /\ scratch[2] = 0 /\ scratch[1] = 0
    BY <1>0, <1>6 DEF Launch
  <2>2. EntryInScratch # Entry
    BY <2>1, EntryAssumption DEF EntryInScratch, Scratch
  <2>3. pc' = "lost" /\ UNCHANGED <<host, scratch, rx, result, code>>
    BY <1>6, <2>2 DEF Launch
  <2> QED
    BY <1>0, <2>1, <2>3
<1>7. CASE ProgramPrints
  BY <1>0, <1>7 DEF ProgramPrints
<1>8. CASE ProgramReturnsSome
  <2>1. /\ pc = "run" /\ pc' = "crt0" /\ result' \in Reg
        /\ UNCHANGED <<host, scratch, rx, caller, code>>
    BY <1>8, ResultsAssumption DEF ProgramReturnsSome, ProgramReturns
  <2> QED
    BY <1>0, <2>1
<1>9. CASE Crt0Exit
  <2>1. pc = "crt0" /\ caller \in {"init", "poll"} /\ UNCHANGED <<host, rx, caller, result, code>>
    BY <1>0, <1>9 DEF Crt0Exit
  <2>2. pc' = caller
    BY <1>9, <2>1 DEF Crt0Exit
  <2>3. /\ scratch'[3] = ExitWord(result) /\ scratch'[1] = scratch[1] /\ scratch'[2] = scratch[2]
    BY <1>0, <1>9 DEF Crt0Exit
  <2> QED
    BY <1>0, <2>1, <2>2, <2>3
<1>10. CASE JtagHalt
  BY <1>0, <1>10 DEF JtagHalt, LlcReady
<1>11. CASE LoadSection
  BY <1>0, <1>11 DEF LoadSection
<1>12. CASE JtagResume
  BY <1>0, <1>12 DEF JtagResume
<1>13. CASE WaitForEoc
  <2>1. /\ host = "poll" /\ host' = "done" /\ EndFlag(scratch[3]) = 1 /\ code' = scratch[3] \div 2
        /\ UNCHANGED <<pc, rx, scratch, caller, result>>
    BY <1>13 DEF WaitForEoc, Scratch
  <2>2. pc \in {"init", "launch"} \cup Waiting /\ scratch[3] = ExitWord(result) /\ result \in Reg
    BY <1>0, <2>1, FlagFacts
  <2>3. code' = result % Codes
    BY <2>1, <2>2, ExitWordFacts
  <2> QED
    BY <1>0, <2>1, <2>2, <2>3
<1> QED
  BY <1>1, <1>2, <1>3, <1>4, <1>5, <1>6, <1>7, <1>8, <1>9, <1>10, <1>11, <1>12, <1>13, BusSteps

-----------------------------------------------------------------------------
(* The memory. *)

\* How the host gets into and out of the phases in which it loads.
LEMMA HostFrames ==
  ASSUME [Next]_vars
  PROVE  /\ host' \in Loading => host \in Loading
         /\ host \in Loading => \/ host' \in Loading \cup {"aborted", "fatal"}
                                \/ UartWriteEot \/ LoadSection
         /\ host \in {"aborted", "fatal"} => UNCHANGED host
         /\ host' \in {"write_ack", "data"} => host \in {"burst", "write_ack", "data"}
<1> USE DEF hartVars, hostVars, Hart, Host, Send, Expect, SlinkWrite, Advance, ProgramReturns,
      ConfigureLlc, UartDebugInit, PollScratch, UartDebugCheck, ClearStart, Launch,
      ServeCommand, ServeWrite, ServeRead, ServeEot, Crt0Exit, ServeEoc, RomExit, UartHello,
      UartHelloAck, UartWrite, UartWriteAck, UartData, UartWriteEot, UartReadAck, UartReadData,
      UartReadEot, UartExecAck, UartConsole, UartReturn, JtagHalt, SlinkReady, LoadSection,
      SlinkEntryHigh, SlinkEntryLow, SlinkStart, JtagResume, WaitForEoc, ProgramPrints,
      ProgramReturnsSome, UartExec, UartRead, Noise, UartBadCommand
<1>1. host' \in Loading => host \in Loading
  BY DEF Next, RomStep, HostStep, vars, Loading
<1>2. host \in Loading => \/ host' \in Loading \cup {"aborted", "fatal"}
                          \/ UartWriteEot \/ LoadSection
  BY DEF Next, RomStep, HostStep, vars, Loading
<1>3. host \in {"aborted", "fatal"} => UNCHANGED host
  BY DEF Next, RomStep, HostStep, vars
<1>4. host' \in {"write_ack", "data"} => host \in {"burst", "write_ack", "data"}
  BY DEF Next, RomStep, HostStep, vars
<1> QED
  BY <1>1, <1>2, <1>3, <1>4

\* A byte that is in place stays: no step writes another one.
LEMMA MemGrows ==
  ASSUME InvType, Phases, [Next]_vars
  PROVE  \A a \in Addr : mem'[a] \in {mem[a], Image[a]}
<1>0. mem \in [Addr -> Nat]
  BY DEF InvType, InvData
<1>1. CASE UNCHANGED mem
  BY <1>1
<1>2. CASE ServeWrite
  <2>1. pc = "write" /\ cmd.left > 0 /\ rx # <<>> /\ mem' = [mem EXCEPT ![cmd.addr] = Head(rx).v]
    BY <1>2 DEF ServeWrite
  <2>2. Head(rx).v = Image[cmd.addr]
    BY <2>1, WriteFacts DEF Msg
  <2> QED
    BY <1>0, <2>1, <2>2
<1>3. CASE LoadSection
  <2> DEFINE D == Base .. Base + Section.len - 1
  <2>1. mem' = [a \in Addr |-> IF a \in D THEN Image[a] ELSE mem[a]]
    BY <1>3 DEF LoadSection
  <2> HIDE DEF D
  <2> QED
    BY <2>1
<1> QED
  BY <1>1, <1>2, <1>3, Frames

\* What is in place before a step is in place after it.
LEMMA PlacedStays ==
  ASSUME InvType, Phases, [Next]_vars,
         NEW j \in 1 .. Len(Sections), NEW n \in Nat, n <= Sections[j].len, Placed(j, n)
  PROVE  \A k \in 0 .. n - 1 : mem'[Sections[j].base + k] = Image[Sections[j].base + k]
<1> SUFFICES ASSUME NEW k \in 0 .. n - 1
             PROVE  mem'[Sections[j].base + k] = Image[Sections[j].base + k]
  OBVIOUS
<1>1. Sections[j].base + k \in Addr
  <2>1. Sections[j].len \in Nat
    BY AddrFacts
  <2>2. k \in 0 .. Sections[j].len - 1
    BY <2>1
  <2> QED
    BY <2>2, AddrFacts
<1>2. mem[Sections[j].base + k] = Image[Sections[j].base + k]
  BY DEF Placed
<1> QED
  BY <1>1, <1>2, MemGrows

\* The memory is complete when every section is in place.
LEMMA Complete ==
  ASSUME NEW m \in [Addr -> Nat],
         \A j \in 1 .. Len(Sections) : \A k \in 0 .. Sections[j].len - 1 :
           m[Sections[j].base + k] = Image[Sections[j].base + k]
  PROVE  m = Image
<1>1. ASSUME NEW a \in Addr
      PROVE  m[a] = Image[a]
  <2>1. PICK j \in 1 .. Len(Sections) : \E k \in 0 .. Sections[j].len - 1 : a = Sections[j].base + k
    BY AddrFacts
  <2>2. PICK k \in 0 .. Sections[j].len - 1 : a = Sections[j].base + k
    BY <2>1
  <2> QED
    BY <2>2
<1> QED
  BY <1>1, ImageAssumption

\* The host has sent the burst: the server has put it in place, and the section
\* is complete, or the next burst starts behind it.
LEMMA BurstDone ==
  ASSUME InvType, Phases, InvMem, UartWriteEot
  PROVE  /\ kind = "uart" /\ host = "data" /\ mem' = mem /\ read' = read
         /\ Placed(sect, offs + BurstLen)
         /\ \/ /\ sect' = sect + 1 /\ sect < Len(Sections) /\ offs' = 0 /\ host' = "burst"
               /\ offs + BurstLen = Section.len
            \/ /\ sect' = sect /\ sect = Len(Sections) /\ host' = "loaded"
               /\ offs + BurstLen = Section.len
            \/ sect' = sect /\ offs' = offs + BurstLen /\ host' = "burst"
<1>0. /\ sect \in 1 .. Len(Sections) /\ offs \in Nat /\ offs <= Section.len /\ Section.len \in Nat
      /\ BurstBytes \in Nat /\ Len(Sections) \in Nat
  BY AddrFacts, SizesAssumption, BurstFacts DEF InvType, TypeOK, InvHost
<1>1. host = "data" /\ tx # <<>> /\ mem' = mem /\ read' = read
  BY DEF UartWriteEot, Expect, Host
<1>2. kind = "uart"
  BY <1>1, KindFacts DEF UartHosts
<1>3. pc = "serve" /\ tx = <<Msg("eot", 0)>>
  BY <1>1, <1>2 DEF Phases, InvUart, UartPhase, Writing
<1>4. Placed(sect, offs + BurstLen)
  BY <1>1, <1>2, <1>3 DEF InvMem
<1>5. Head(tx).k = "eot"
  BY <1>3 DEF Msg
<1> DEFINE last == offs + BurstBytes > Section.len
<1>6. /\ host' = IF last /\ sect = Len(Sections) THEN "loaded" ELSE "burst"
      /\ offs' = IF last THEN 0 ELSE offs + BurstBytes
      /\ sect' = IF last /\ sect < Len(Sections) THEN sect + 1 ELSE sect
  BY <1>5 DEF UartWriteEot, Expect, Host
<1>7. /\ last => offs + BurstLen = Section.len
      /\ ~last => BurstLen = BurstBytes
  BY <1>0 DEF BurstLen
<1> HIDE DEF last
<1>8. \/ last /\ sect < Len(Sections)
      \/ last /\ sect = Len(Sections)
      \/ ~last
  BY <1>0
<1> QED
  BY <1>0, <1>1, <1>2, <1>4, <1>6, <1>7, <1>8

\* A host on the bus loads whole sections.
LEMMA SectionDone ==
  ASSUME InvType, Phases, InvMem, LoadSection
  PROVE  /\ kind # "uart" /\ host = "load" /\ offs = 0 /\ offs' = 0 /\ read' = read
         /\ \A k \in 0 .. Section.len - 1 : mem'[Base + k] = Image[Base + k]
         /\ \/ sect' = sect + 1 /\ sect < Len(Sections) /\ host' = "load"
            \/ sect' = sect /\ sect = Len(Sections) /\ host' = "entry"
<1>1. host = "load" /\ offs' = offs /\ read' = read
  BY DEF LoadSection
<1>2. kind # "uart" /\ offs = 0
  BY <1>1, KindFacts DEF BusHosts, InvMem
<1>3. \A k \in 0 .. Section.len - 1 : mem'[Base + k] = Image[Base + k]
  <2> SUFFICES ASSUME NEW k \in 0 .. Section.len - 1
               PROVE  mem'[Base + k] = Image[Base + k]
    OBVIOUS
  <2>1. Base \in Nat /\ Section.len \in Nat /\ Base + k \in Addr
    BY BurstFacts DEF InvType
  <2>2. Base + k \in Base .. Base + Section.len - 1
    BY <2>1
  <2> QED
    BY <2>1, <2>2 DEF LoadSection
<1>4. \/ sect' = sect + 1 /\ sect < Len(Sections) /\ host' = "load"
      \/ sect' = sect /\ sect = Len(Sections) /\ host' = "entry"
  <2>1. sect \in 1 .. Len(Sections) /\ Len(Sections) \in Nat
    BY AddrFacts DEF InvType, TypeOK
  <2> QED
    BY <1>1, <2>1 DEF LoadSection
<1> QED
  BY <1>1, <1>2, <1>3, <1>4

\* The sections before the current one, and what the server has stored of it, stay in place.
LEMMA MemStep ==
  ASSUME InvType, Phases, InvMem, Next
  PROVE  InvMem'
<1>0. /\ sect \in 1 .. Len(Sections) /\ offs \in Nat /\ offs <= Section.len /\ Section.len \in Nat
      /\ BurstLen \in Nat /\ offs + BurstLen <= Section.len /\ Len(Sections) \in Nat
      /\ cmd.left \in Nat /\ Base \in Nat /\ Section = Sections[sect] /\ Base = Sections[sect].base
      /\ read \in Seq(Nat)
  BY AddrFacts, BurstFacts DEF InvType, TypeOK, InvHost, InvHart, Base, Section
<1>1. (host \in Loading => /\ read = <<>>
                           /\ \A j \in 1 .. sect - 1 : Placed(j, Sections[j].len)
                           /\ Placed(sect, offs))'
  <2> SUFFICES ASSUME host' \in Loading
               PROVE  (/\ read = <<>>
                       /\ \A j \in 1 .. sect - 1 : Placed(j, Sections[j].len)
                       /\ Placed(sect, offs))'
    OBVIOUS
  <2>1. /\ host \in Loading /\ read = <<>> /\ Placed(sect, offs)
        /\ \A j \in 1 .. sect - 1 : Placed(j, Sections[j].len)
    BY HostFrames DEF InvMem
  <2>2. read' = <<>>
    <3>1. ~UartReadData
      BY <2>1 DEF UartReadData, Host, Loading
    <3> QED
      BY <2>1, <3>1, Frames
  <2>3. \A j \in 1 .. sect - 1 : \A k \in 0 .. Sections[j].len - 1 :
          mem'[Sections[j].base + k] = Image[Sections[j].base + k]
    <3> SUFFICES ASSUME NEW j \in 1 .. sect - 1
                 PROVE  \A k \in 0 .. Sections[j].len - 1 :
                          mem'[Sections[j].base + k] = Image[Sections[j].base + k]
      OBVIOUS
    <3>1. j \in 1 .. Len(Sections)
      BY <1>0
    <3>2. Sections[j].len \in Nat /\ Sections[j].len <= Sections[j].len /\ Placed(j, Sections[j].len)
      BY <2>1, <3>1, AddrFacts
    <3> QED
      BY <3>1, <3>2, PlacedStays
  <2>4. ASSUME NEW n \in Nat, n <= Section.len, Placed(sect, n)
        PROVE  \A k \in 0 .. n - 1 : mem'[Base + k] = Image[Base + k]
    BY <1>0, <2>4, PlacedStays
  <2>5. ASSUME sect' = sect + 1, offs' = 0,
               \A k \in 0 .. Section.len - 1 : mem'[Base + k] = Image[Base + k]
        PROVE  (/\ \A j \in 1 .. sect - 1 : Placed(j, Sections[j].len)
                /\ Placed(sect, offs))'
    <3>1. ASSUME NEW j \in 1 .. sect
          PROVE  \A k \in 0 .. Sections[j].len - 1 :
                   mem'[Sections[j].base + k] = Image[Sections[j].base + k]
      <4>1. j \in 1 .. sect - 1 \/ j = sect
        BY <1>0
      <4> QED
        BY <1>0, <2>3, <2>5, <4>1
    <3>2. sect' - 1 = sect /\ 0 .. offs' - 1 = {}
      BY <1>0, <2>5
    <3> QED
      BY <3>1, <3>2 DEF Placed
  <2>6. CASE UNCHANGED <<sect, offs>>
    <3>1. \A k \in 0 .. offs - 1 : mem'[Base + k] = Image[Base + k]
      BY <1>0, <2>1, <2>4
    <3> QED
      BY <1>0, <2>2, <2>3, <2>6, <3>1 DEF Placed
  <2>7. CASE UartWriteEot
    <3>1. CASE /\ sect' = sect + 1 /\ offs' = 0
               /\ Placed(sect, offs + BurstLen) /\ offs + BurstLen = Section.len
      BY <1>0, <2>2, <2>4, <2>5, <3>1
    <3>2. CASE /\ sect' = sect /\ offs' = offs + BurstLen /\ Placed(sect, offs + BurstLen)
      <4>1. \A k \in 0 .. offs' - 1 : mem'[Base + k] = Image[Base + k]
        <5>1. offs' \in Nat /\ offs' <= Section.len
          BY <1>0, <3>2
        <5>2. Placed(sect, offs')
          BY <3>2
        <5> QED
          BY <2>4, <5>1, <5>2
      <4> QED
        BY <1>0, <2>2, <2>3, <3>2, <4>1 DEF Placed
    <3>3. host' # "loaded"
      BY DEF Loading
    <3> QED
      BY <2>7, <3>1, <3>2, <3>3, BurstDone
  <2>8. CASE LoadSection
    <3>1. sect' = sect + 1 /\ offs' = 0
      BY <2>8, SectionDone DEF Loading
    <3> QED
      BY <2>2, <2>5, <2>8, <3>1, SectionDone
  <2> QED
    BY <2>6, <2>7, <2>8, Frames
<1>P. ASSUME NEW n \in Nat, n <= Section.len, Placed(sect, n)
      PROVE  \A k \in 0 .. n - 1 : mem'[Base + k] = Image[Base + k]
  BY <1>0, <1>P, PlacedStays
<1>Q. ASSUME kind = "uart", host' \in {"write_ack", "data"}, pc' \in {"write", "serve"}
      PROVE  \/ host = "burst" /\ Serving /\ UartWrite
             \/ /\ host \in {"write_ack", "data"} /\ Writing
                /\ ServeCommand \/ UartWriteAck \/ UartData \/ ServeWrite \/ ServeEot
  <2>1. host \in {"burst", "write_ack", "data"} /\ UartPhase
    BY <1>Q, HostFrames DEF Phases, InvUart
  <2>2. CASE host = "burst"
    BY <1>Q, <2>1, <2>2, UartSteps DEF UartPhase, UartBadCommand, UartRead, UartExec, Host
  <2>3. CASE host \in {"write_ack", "data"}
    <3>1. UartWriteEot => host' \notin {"write_ack", "data"}
      BY BurstDone
    <3> QED
      BY <1>Q, <2>1, <2>3, <3>1, UartSteps DEF UartPhase
  <2> QED
    BY <2>1, <2>2, <2>3
<1>B. ASSUME UNCHANGED <<sect, offs>>
      PROVE  /\ Base' = Base /\ BurstLen' = BurstLen /\ offs' = offs
             /\ \A n \in Int : Placed(sect, n)' <=>
                  \A k \in 0 .. n - 1 : mem'[Base + k] = Image[Base + k]
  BY <1>0, <1>B DEF Base, BurstLen, Section, Placed
<1>2. (kind = "uart" /\ host \in {"write_ack", "data"} /\ pc = "write" =>
         Placed(sect, offs + BurstLen - cmd.left))'
  <2> SUFFICES ASSUME kind = "uart", host' \in {"write_ack", "data"}, pc' = "write"
               PROVE  Placed(sect, offs + BurstLen - cmd.left)'
    BY Frames
  <2>1. CASE host = "burst" /\ Serving /\ UartWrite
    BY <2>1 DEF Serving, UartWrite, Send
  <2>2. CASE ServeCommand /\ Writing /\ host \in {"write_ack", "data"}
    <3>1. pc = "serve" /\ rx # <<>> /\ UNCHANGED <<sect, offs>>
      BY <2>2 DEF ServeCommand, hostVars
    <3>2. rx = <<Msg("write", [addr |-> Base + offs, left |-> BurstLen])>>
      BY <2>2, <3>1 DEF Writing
    <3>3. Head(rx).k = "write" /\ Head(rx).v = [addr |-> Base + offs, left |-> BurstLen]
      BY <3>2 DEF Msg
    <3>4. cmd'.left = BurstLen
      BY <2>2, <3>3 DEF ServeCommand
    <3>5. offs' + BurstLen' - cmd'.left = offs
      BY <1>0, <1>B, <3>1, <3>4
    <3>6. Placed(sect, offs)
      BY <2>2 DEF InvMem, Loading
    <3>7. \A k \in 0 .. offs - 1 : mem'[Base + k] = Image[Base + k]
      BY <1>0, <1>P, <3>6
    <3> QED
      BY <1>0, <1>B, <3>1, <3>5, <3>7 DEF Placed
  <2>3. CASE (UartWriteAck \/ UartData) /\ host \in {"write_ack", "data"}
    <3>1. UNCHANGED <<sect, offs, cmd, pc>>
      BY <2>3 DEF UartWriteAck, UartData, Expect, Send, hartVars
    <3> DEFINE n == offs + BurstLen - cmd.left
    <3>2. Placed(sect, n)
      BY <2>3, <3>1 DEF InvMem
    <3>3. n \in Nat /\ n <= Section.len
      <4>1. Writing
        BY <2>3 DEF Phases, InvUart, UartPhase
      <4>2. cmd.left <= BurstLen
        BY <3>1, <4>1 DEF Writing
      <4> QED
        BY <1>0, <4>2
    <3>4. offs' + BurstLen' - cmd'.left = n
      BY <1>B, <3>1
    <3> HIDE DEF n
    <3>5. \A k \in 0 .. n - 1 : mem'[Base + k] = Image[Base + k]
      BY <1>P, <3>2, <3>3
    <3> QED
      BY <1>0, <1>B, <3>1, <3>4, <3>5 DEF Placed
  <2>4. CASE ServeWrite /\ host \in {"write_ack", "data"} /\ Writing
    <3>1. /\ pc = "write" /\ cmd.left > 0 /\ rx # <<>> /\ UNCHANGED <<sect, offs>>
          /\ mem' = [mem EXCEPT ![cmd.addr] = Head(rx).v] /\ cmd'.left = cmd.left - 1
      BY <2>4 DEF ServeWrite, hostVars, Advance
    <3> DEFINE n == offs + BurstLen - cmd.left
    <3>2. Placed(sect, n) /\ cmd.left <= BurstLen
      BY <2>4, <3>1 DEF InvMem, Writing
    <3>3. n \in Nat /\ n <= Section.len /\ offs' + BurstLen' - cmd'.left = n + 1
      <4>0. cmd.left <= BurstLen
        BY <3>2
      <4>1. n \in Nat /\ n <= Section.len
        BY <1>0, <4>0
      <4>2. BurstLen' = BurstLen /\ offs' = offs
        BY <1>B, <3>1
      <4>3. offs + BurstLen - (cmd.left - 1) = n + 1
        BY <1>0
      <4> QED
        BY <3>1, <4>1, <4>2, <4>3
    <3>4. cmd.addr = Base + n /\ cmd.addr \in Addr /\ Head(rx).v = Image[cmd.addr]
      BY <1>0, <3>1, WriteFacts DEF Msg
    <3> HIDE DEF n
    <3>5. \A k \in 0 .. n - 1 : mem'[Base + k] = Image[Base + k]
      BY <1>P, <3>2, <3>3
    <3>6. mem'[Base + n] = Image[Base + n]
      BY <3>1, <3>4 DEF InvType, InvData
    <3>7. \A k \in 0 .. (n + 1) - 1 : k \in 0 .. n - 1 \/ k = n
      BY <3>3
    <3>8. \A k \in 0 .. (n + 1) - 1 : mem'[Base + k] = Image[Base + k]
      BY <3>5, <3>6, <3>7
    <3>9. Placed(sect, offs + BurstLen - cmd.left)' <=>
            \A k \in 0 .. (n + 1) - 1 : mem'[Base + k] = Image[Base + k]
      BY <1>0, <3>1, <3>3 DEF Placed
    <3> QED
      BY <3>8, <3>9
  <2>5. ~ServeEot
    BY DEF ServeEot
  <2> QED
    BY <1>Q, <2>1, <2>2, <2>3, <2>4, <2>5
<1>3. (kind = "uart" /\ host \in {"write_ack", "data"} /\ pc = "serve" /\ tx # <<>> =>
         Placed(sect, offs + BurstLen))'
  <2> SUFFICES ASSUME kind = "uart", host' \in {"write_ack", "data"}, pc' = "serve", tx' # <<>>
               PROVE  Placed(sect, offs + BurstLen)'
    BY Frames
  <2>0. ASSUME Placed(sect, offs + BurstLen), UNCHANGED <<sect, offs>>
        PROVE  Placed(sect, offs + BurstLen)'
    <3> DEFINE n == offs + BurstLen
    <3>1. n \in Nat /\ n <= Section.len /\ offs' + BurstLen' = n
      BY <1>0, <1>B, <2>0
    <3>2. Placed(sect, n)
      BY <2>0
    <3> HIDE DEF n
    <3>3. \A k \in 0 .. n - 1 : mem'[Base + k] = Image[Base + k]
      BY <1>P, <3>1, <3>2
    <3> QED
      BY <1>0, <2>0, <3>1, <3>3 DEF Placed
  <2>1. CASE host = "burst" /\ Serving /\ UartWrite
    BY <2>1 DEF Serving, Silent, UartWrite, Send
  <2>2. ~ServeCommand /\ ~ServeWrite
    BY DEF ServeCommand, ServeWrite
  <2>3. CASE (UartWriteAck \/ UartData) /\ host \in {"write_ack", "data"}
    <3>1. UNCHANGED <<sect, offs, pc>> /\ tx # <<>>
      BY <2>3 DEF UartWriteAck, UartData, Expect, Send, hartVars
    <3> QED
      BY <2>0, <2>3, <3>1 DEF InvMem
  <2>4. CASE ServeEot /\ host \in {"write_ack", "data"} /\ Writing
    <3>1. pc \in {"read", "write"} /\ cmd.left = 0 /\ UNCHANGED <<sect, offs>>
      BY <2>4 DEF ServeEot, hostVars
    <3>2. pc = "write"
      BY <2>4, <3>1 DEF Writing
    <3>3. Placed(sect, offs + BurstLen - 0)
      BY <2>4, <3>1, <3>2 DEF InvMem
    <3>4. offs + BurstLen - 0 = offs + BurstLen
      BY <1>0
    <3> QED
      BY <2>0, <3>1, <3>3, <3>4
  <2> QED
    BY <1>Q, <2>1, <2>2, <2>3, <2>4
<1>4. (host \notin Loading \cup {"aborted", "fatal"} => mem = Image)'
  <2> SUFFICES ASSUME host' \notin Loading \cup {"aborted", "fatal"}
               PROVE  mem' = Image
    OBVIOUS
  <2>0. mem' \in [Addr -> Nat]
    BY MemType
  <2>1. CASE host \notin Loading \cup {"aborted", "fatal"}
    <3>1. mem = Image
      BY <2>1 DEF InvMem
    <3>2. \A a \in Addr : mem'[a] = Image[a]
      BY <3>1, MemGrows
    <3> QED
      BY <2>0, <3>2, ImageAssumption
  <2>2. ASSUME host \in Loading, sect = Len(Sections),
               \A k \in 0 .. Section.len - 1 : mem'[Base + k] = Image[Base + k]
        PROVE  mem' = Image
    <3>1. ASSUME NEW j \in 1 .. Len(Sections)
          PROVE  \A k \in 0 .. Sections[j].len - 1 :
                   mem'[Sections[j].base + k] = Image[Sections[j].base + k]
      <4>1. CASE j \in 1 .. sect - 1
        <5>1. Sections[j].len \in Nat /\ Sections[j].len <= Sections[j].len /\ Placed(j, Sections[j].len)
          BY <2>2, <4>1, AddrFacts DEF InvMem
        <5> QED
          BY <5>1, PlacedStays
      <4>2. CASE j = sect
        BY <1>0, <2>2, <4>2
      <4>3. j \in 1 .. sect - 1 \/ j = sect
        BY <1>0, <2>2
      <4> QED
        BY <4>1, <4>2, <4>3
    <3> QED
      BY <2>0, <3>1, Complete
  <2>3. CASE UartWriteEot
    <3>1. /\ host \in Loading /\ sect = Len(Sections)
          /\ Placed(sect, Section.len)
      <4>1. host' # "burst"
        BY DEF Loading
      <4> QED
        BY <2>3, <4>1, BurstDone DEF Loading
    <3>2. \A k \in 0 .. Section.len - 1 : mem'[Base + k] = Image[Base + k]
      <4>1. Section.len <= Sections[sect].len
        BY <1>0
      <4>2. \A k \in 0 .. Section.len - 1 : mem'[Sections[sect].base + k] = Image[Sections[sect].base + k]
        BY <1>0, <3>1, <4>1, PlacedStays
      <4> QED
        BY <1>0, <4>2
    <3> QED
      BY <2>2, <3>1, <3>2
  <2>4. CASE LoadSection
    <3>1. host \in Loading /\ sect = Len(Sections)
      BY <2>4, SectionDone DEF Loading
    <3> QED
      BY <2>2, <2>4, <3>1, SectionDone
  <2> QED
    BY <2>1, <2>3, <2>4, HostFrames
<1>6. (kind # "uart" => offs = 0)'
  <2>1. CASE UNCHANGED <<sect, offs>>
    BY <2>1, Frames DEF InvMem
  <2>2. CASE UartWriteEot
    BY <2>2, BurstDone, Frames
  <2>3. CASE LoadSection
    BY <2>3, SectionDone
  <2> QED
    BY <2>1, <2>2, <2>3, Frames
<1>5. (\A i \in DOMAIN read : read[i] = Image[Base + i - 1])'
  <2>0. \A i \in 1 .. Len(read) : read[i] = Image[Base + i - 1]
    BY <1>0 DEF InvMem
  <2>1. CASE UartReadData
    <3>1. /\ host = "read_data" /\ Len(read) < Section.len /\ tx # <<>>
          /\ read' = Append(read, Head(tx).v) /\ sect' = sect
      BY <2>1 DEF UartReadData, Host
    <3>2. Head(tx).v = Image[Base + Len(read)] /\ Base + Len(read) \in Addr
      BY <3>1, ReadBackFacts DEF Msg
    <3>3. Head(tx).v \in Nat
      BY <3>2, AddrFacts
    <3>4. /\ Len(read') = Len(read) + 1 /\ DOMAIN read' = 1 .. Len(read')
          /\ \A i \in 1 .. Len(read) : read'[i] = read[i]
          /\ read'[Len(read) + 1] = Head(tx).v
      BY <1>0, <3>1, <3>3
    <3>5. Base' = Base
      BY <3>1 DEF Base, Section
    <3>6. ASSUME NEW i \in 1 .. Len(read) + 1
          PROVE  read'[i] = Image[Base + i - 1]
      <4>1. CASE i \in 1 .. Len(read)
        BY <2>0, <3>4, <4>1
      <4>2. CASE i = Len(read) + 1
        <5>1. Base + i - 1 = Base + Len(read)
          BY <1>0, <4>2
        <5> QED
          BY <3>2, <3>4, <4>2, <5>1
      <4>3. i \in 1 .. Len(read) \/ i = Len(read) + 1
        BY <1>0
      <4> QED
        BY <4>1, <4>2, <4>3
    <3> QED
      BY <3>4, <3>5, <3>6
  <2>2. CASE UNCHANGED read /\ UNCHANGED <<sect, offs>>
    <3>1. Base' = Base
      BY <2>2 DEF Base, Section
    <3> QED
      BY <2>0, <2>2, <3>1 DEF InvMem
  <2>3. CASE UartWriteEot \/ LoadSection
    <3>1. host \in Loading /\ read' = read
      BY <2>3, BurstDone, SectionDone DEF Loading
    <3>2. read' = <<>>
      BY <3>1 DEF InvMem
    <3> QED
      BY <3>2
  <2> QED
    BY <2>1, <2>2, <2>3, Frames
<1> QED
  BY <1>1, <1>2, <1>3, <1>4, <1>5, <1>6 DEF InvMem

-----------------------------------------------------------------------------
(* The theorems. *)

\* What the invariant says of a step that changes nothing.
LEMMA Stutter ==
  ASSUME Inv, UNCHANGED vars
  PROVE  Inv'
<1> USE DEF vars, hartVars, hostVars
<1>1. InvType'
  BY DEF Inv, InvType, TypeOK, InvWire, InvData, InvHart, InvHost, Section
<1>2. Section' = Section /\ Base' = Base /\ BurstLen' = BurstLen
  BY DEF Section, Base, BurstLen
<1>3. InvUart'
  <2>1. UartResult => UartResult'
    BY DEF UartResult, ExitWord
  <2>2. Acks' = Acks /\ Served' = Served /\ Eots' = Eots
    BY <1>2 DEF Acks, Served, Eots
  <2>3. (Stray => Stray') /\ (Challenged => Challenged') /\ (Serving => Serving') /\ (Aborted => Aborted')
    BY DEF Stray, Challenged, Serving, Silent, Aborted
  <2>4. Writing => Writing'
    BY <1>2 DEF Writing
  <2>5. Reading => Reading'
    BY <1>2, <2>2 DEF Reading
  <2>6. Running => Running'
    BY <2>2 DEF Running
  <2>7. UartPhase => UartPhase'
    BY <2>3, <2>4, <2>5, <2>6 DEF UartPhase, Silent
  <2> QED
    BY <2>1, <2>7 DEF Inv, InvUart
<1>4. InvSlink'
  BY DEF Inv, InvSlink, ExitWord
<1>5. InvJtag'
  BY DEF Inv, InvJtag, ExitWord
<1>6. InvMem'
  BY <1>2 DEF Inv, InvMem, Placed
<1> QED
  BY <1>1, <1>3, <1>4, <1>5, <1>6 DEF Inv

\* The invariant holds initially.
LEMMA InvInit == Init => Inv
<1> SUFFICES ASSUME Init
             PROVE  Inv
  OBVIOUS
<1> USE DEF Init
<1>1. 0 \in Reg /\ 1 \in 1 .. Len(Sections) /\ Sections[1].len \in Nat
  <2>1. 0 \in Reg
    BY SizesAssumption DEF Reg
  <2>2. 1 \in 1 .. Len(Sections)
    BY AddrFacts
  <2> QED
    BY <2>1, <2>2, AddrFacts
<1>2. TypeOK
  BY <1>1 DEF TypeOK
<1>3. InvWire /\ InvData /\ InvHart /\ InvHost
  BY <1>1 DEF InvWire, InvData, InvHart, InvHost, Callers, Section
<1>4. InvUart
  BY DEF InvUart, UartPhase, Stray, UartResult, Waiting, Program, Ended
<1>5. InvSlink /\ InvJtag
  BY DEF InvSlink, InvJtag, Waiting
<1>6. InvMem
  BY DEF InvMem, Placed, Loading
<1> QED
  BY <1>2, <1>3, <1>4, <1>5, <1>6 DEF Inv, InvType

\* Every step preserves the invariant.
LEMMA InvNext == Inv /\ [Next]_vars => Inv'
<1> SUFFICES ASSUME Inv, Next
             PROVE  Inv'
  BY Stutter
<1>1. InvType /\ Phases /\ InvMem /\ [Next]_vars
  BY DEF Inv, InvType, Phases
<1>2. InvType'
  BY <1>1, TypeStep
<1>3. InvUart'
  BY <1>1, PhaseStep, ResultStep, Frames DEF InvUart
<1>4. InvSlink'
  <2>1. CASE kind = "slink"
    BY <1>1, <2>1, SlinkStep
  <2>2. CASE kind # "slink"
    BY <1>1, <2>2, Frames DEF InvSlink
  <2> QED
    BY <2>1, <2>2
<1>5. InvJtag'
  <2>1. CASE kind = "jtag"
    BY <1>1, <2>1, JtagStep
  <2>2. CASE kind # "jtag"
    BY <1>1, <2>2, Frames DEF InvJtag
  <2> QED
    BY <2>1, <2>2
<1>6. InvMem'
  BY <1>1, MemStep
<1> QED
  BY <1>2, <1>3, <1>4, <1>5, <1>6 DEF Inv

\* The invariant holds in every reachable state.
THEOREM Invariance == Spec => []Inv
BY InvInit, InvNext, PTL DEF Spec

\* The memory holds bytes of the image or nothing, registers and codes have
\* their width, and no transfer runs past its end.
THEOREM TypeCorrect == Spec => []TypeOK
<1>1. Inv => TypeOK
  BY DEF Inv, InvType
<1> QED
  BY <1>1, Invariance, PTL

\* For every list of sections, image and burst length: the hart enters the
\* program only when every byte of it is in memory, and the host reads back
\* what it wrote.
THEOREM RunsFromCompleteMemory == Spec => []PreloadComplete
<1>1. Inv => PreloadComplete
  <2> SUFFICES ASSUME Inv
               PROVE  PreloadComplete
    OBVIOUS
  <2>1. Phases /\ InvMem
    BY DEF Inv, InvType, Phases
  <2>2. pc = "run" => host \notin Loading \cup {"aborted", "fatal"}
    <3>1. kind = "uart" /\ pc = "run" => host \in {"exec_ack", "console"}
      BY <2>1, PhaseFacts DEF Program
    <3>2. kind = "slink" /\ pc = "run" => host \in {"poll", "done"}
      BY <2>1 DEF Phases, InvSlink, Waiting
    <3>3. kind = "jtag" /\ pc = "run" => host \in {"poll", "done"}
      BY <2>1 DEF Phases, InvJtag, Waiting
    <3> QED
      BY <2>1, <3>1, <3>2, <3>3, KindFacts DEF Loading
  <2> QED
    BY <2>1, <2>2 DEF InvMem, PreloadComplete
<1> QED
  BY <1>1, Invariance, PTL

\* Over UART and serial link hart 0 jumps to the entry point or nowhere.
THEOREM NeverLost == Spec => []EntersAtEntry
<1>1. Inv => EntersAtEntry
  <2> SUFFICES ASSUME Inv, kind # "jtag"
               PROVE  pc # "lost"
    BY DEF EntersAtEntry
  <2>1. kind = "uart" => pc # "lost"
    BY DEF Inv, InvUart, UartPhase, Stray, Challenged, Serving, Writing, Reading, Running,
           Aborted, Waiting, Program, Ended
  <2>2. kind = "slink" => pc # "lost"
    BY DEF Inv, InvSlink, Waiting
  <2>3. Phases
    BY DEF Inv, InvType, Phases
  <2> QED
    BY <2>1, <2>2, <2>3, KindFacts
<1> QED
  BY <1>1, Invariance, PTL

\* Whatever stray bytes come first and however much the program prints, host
\* and debug server stay in step.
THEOREM StaysInStep == Spec => []HostNeverFatal
<1>1. Inv => HostNeverFatal
  <2> SUFFICES ASSUME Inv
               PROVE  host # "fatal"
    BY DEF HostNeverFatal
  <2>1. Phases
    BY DEF Inv, InvType, Phases
  <2>2. kind = "uart" => host # "fatal"
    BY DEF Inv, InvUart, UartPhase
  <2>3. kind # "uart" => host # "fatal"
    BY <2>1, KindFacts DEF Inv, InvSlink, InvJtag
  <2> QED
    BY <2>2, <2>3
<1> QED
  BY <1>1, Invariance, PTL

\* The host collects the code the program returned, whatever it is: all of it
\* over UART, all but the top bit over the bus.
THEOREM CodeArrives == Spec => []HostCodeCorrect
<1>1. Inv => HostCodeCorrect
  <2> SUFFICES ASSUME Inv, code # -1
               PROVE  code = IF kind = "uart" THEN result ELSE result % Codes
    BY DEF HostCodeCorrect
  <2>1. Phases
    BY DEF Inv, InvType, Phases
  <2>2. kind = "uart" => code = result
    BY DEF Inv, InvUart, UartPhase, UartResult
  <2>3. kind # "uart" => code = result % Codes
    BY <2>1, KindFacts DEF Inv, InvSlink, InvJtag
  <2> QED
    BY <2>2, <2>3
<1> QED
  BY <1>1, Invariance, PTL

\* Once the exit word is in SCRATCH[2], no step of UART or serial link, the
\* second _exit included, changes the SCRATCH registers.
THEOREM ExitWordStays == Spec => ExitWordStable
<1>1. Inv /\ [Next]_vars => [kind # "jtag" /\ EndFlag(Scratch(2)) = 1 => scratch' = scratch]_vars
  <2> SUFFICES ASSUME Inv, Next, kind # "jtag", EndFlag(scratch[3]) = 1
               PROVE  scratch' = scratch
    BY DEF Scratch
  <2>1. InvType /\ Phases /\ [Next]_vars
    BY DEF Inv, InvType, Phases
  <2>2. CASE kind = "uart"
    <3>1. UartPhase /\ UartResult
      BY <2>2 DEF Inv, InvUart
    <3>2. pc \in {"eoc"} \cup Ended /\ scratch = <<0, 0, ExitWord(result)>>
      BY <3>1, FlagFacts DEF UartResult
    <3>3. ~ClearStart /\ ~Crt0Exit /\ ~SlinkEntryHigh /\ ~SlinkEntryLow /\ ~SlinkStart
      BY <2>2, <3>2 DEF ClearStart, Hart, Crt0Exit, SlinkEntryHigh, SlinkEntryLow, SlinkStart,
                        SlinkWrite, Ended
    <3>4. RomExit => scratch' = scratch
      <4>1. result \in Reg
        BY <3>1, <3>2 DEF UartResult
      <4> QED
        BY <3>2, <4>1, ExitWordFacts DEF RomExit
    <3> QED
      BY <2>1, <3>3, <3>4, Frames
  <2>3. CASE kind = "slink"
    <3>1. InvSlink
      BY DEF Inv
    <3>2. pc = "ret" /\ host \in {"poll", "done"}
      BY <2>3, <3>1, FlagFacts DEF InvSlink, Waiting
    <3> QED
      BY <2>1, <3>2, Frames DEF ClearStart, Hart, Crt0Exit, RomExit, SlinkEntryHigh, SlinkEntryLow,
                                SlinkStart, SlinkWrite, Host
  <2> QED
    BY <2>1, <2>2, <2>3, KindFacts
<1> QED
  BY <1>1, Invariance, PTL DEF Spec, ExitWordStable

(***************************************************************************)
(* What the host takes for granted of its sections, that the preload tasks *)
(* bring the program of an ELF file into memory: BootPreload.              *)
(***************************************************************************)

Seg(s) == file.segs[s]
SectionOf(s) == [addr |-> Seg(s).paddr, len |-> Seg(s).memsz]

\* The types, and what is assumed of the constants.
LoaderTypes ==
  /\ Loader!SizesFit /\ Loader!FilesFit
  /\ file \in Files /\ method \in Methods
  /\ at \in {"read", "fetch", "load", "entry", "launched", "fatal", "abort"}
  /\ sections \in Seq([addr : Nat, len : Nat \ {0}])
  /\ section_index \in 0 .. Len(sections)
  /\ bf \in [addr : Nat, data : Seq(Nat \X Nat)]
  /\ off \in Nat
  /\ sberr \in BOOLEAN
  /\ ram \in [Memory -> Nat \X Nat]

\* Every section stems from a loadable header, and the reader has its data.
SectionsInv ==
  /\ at = "read" => sections = <<>> /\ mems = <<>> /\ section_index = 0
  /\ \A a \in DOMAIN mems : mems[a] \in Seq(Nat \X Nat)
  /\ \A i \in 1 .. Len(sections) :
       sections[i].addr \in DOMAIN mems /\ \E s \in Loader!Loadable : sections[i] = SectionOf(s)

\* The section that is being sent, and where its next word or burst starts.
SendInv ==
  at = "load" =>
    /\ section_index \in 1 .. Len(sections)
    /\ bf.addr = sections[section_index].addr /\ Len(bf.data) = sections[section_index].len
    /\ Loader!OverJtag => off % BusBytes = 0
    /\ method = "slink" /\ bf.addr % BusBytes = 0 /\ off < Len(bf.data) => off % BusBytes = 0
    /\ Loader!Memh /\ ~Loader!OverJtag => off = 0

\* The files ImageLoaded speaks of.
Sound == file.phtab /\ Loader!Orderly

\* What the reader knows of such a file: all sections, in ascending order and
\* apart, their data, and the entry point.
ReaderInv ==
  Sound /\ at \in {"fetch", "load", "entry"} =>
    /\ entry = file.entry
    /\ \A s \in Loader!Loadable :
         /\ Seg(s).paddr \in DOMAIN mems /\ mems[Seg(s).paddr] = Loader!Contents(s)
         /\ \E i \in 1 .. Len(sections) : sections[i] = SectionOf(s)
    /\ \A i, j \in 1 .. Len(sections) : i < j => sections[i].addr + sections[i].len <= sections[j].addr

\* Segments that should be in memory.
Wanted == {s \in Loader!Loadable : ~Loader!Skipped(Seg(s))}

\* What the program should have at address a of segment s.
Due(s, a) == Loader!Expected(Seg(s), s, a)

\* The buffer of the section that is being sent.
BufferInv ==
  Sound /\ at = "load" =>
    \A s \in Loader!Loadable : sections[section_index] = SectionOf(s) =>
      \A k \in 1 .. Len(bf.data) : bf.data[k] = Due(s, bf.addr + k - 1)

\* Sections handed out are in memory unless skipped, the one that is being sent as far as it
\* has been sent; in the end all are.
RamInv ==
  Sound =>
    /\ ~sberr
    /\ at \in {"fetch", "load"} =>
         \A i \in 1 .. section_index, s \in Wanted : sections[i] = SectionOf(s) =>
           \A a \in Loader!Extent(Seg(s)) :
             (at = "load" /\ i = section_index => a < bf.addr + off) => ram[a] = Due(s, a)
    /\ at \in {"entry", "launched"} =>
         \A s \in Wanted : \A a \in Loader!Extent(Seg(s)) : ram[a] = Due(s, a)
    /\ at = "launched" => start = file.entry

\* The inductive invariant.
LoaderInv ==
  /\ LoaderTypes /\ SectionsInv /\ SendInv /\ ReaderInv /\ BufferInv /\ RamInv
  /\ Loader!OnlySections /\ Loader!BurstsLegal

(* Words, pages and bursts. *)

\* Quotient and rest.
LEMMA WordRule ==
  ASSUME NEW B \in Int, B > 0, NEW a \in Int
  PROVE  /\ a \div B \in Int /\ a % B \in Int
         /\ a = B * (a \div B) + (a % B)
         /\ 0 <= a % B /\ a % B < B
OBVIOUS

\* What starts on a word is a number of whole words.
LEMMA Words ==
  ASSUME NEW B \in Int, B > 0, NEW a \in Int
  PROVE  a % B = 0 <=> \E q \in Int : a = B * q
<1>1. ASSUME a % B = 0 PROVE \E q \in Int : a = B * q
  <2> DEFINE q == a \div B
  <2>1. q \in Int /\ a = B * q
    BY <1>1, WordRule
  <2> HIDE DEF q
  <2>2. QED
    BY <2>1
<1>2. ASSUME NEW q \in Int, a = B * q PROVE a % B = 0
  <2> DEFINE d == a \div B
             e == a % B
  <2>1. d \in Int /\ e \in Int /\ a = B * d + e /\ 0 <= e /\ e < B
    BY WordRule
  <2> HIDE DEF d, e
  <2>2. e = B * (q - d)
    BY <1>2, <2>1
  <2> DEFINE k == q - d
  <2>3. k \in Int /\ e = B * k
    BY <2>1, <2>2
  <2> HIDE DEF k
  <2>4. k < 1
    <3>1. ASSUME k >= 1 PROVE FALSE
      <4>1. B * k >= B * 1
        BY <2>3, <3>1
      <4>2. QED
        BY <2>1, <2>3, <4>1
    <3>2. QED
      BY <2>3, <3>1
  <2>5. k > -1
    <3>1. ASSUME k <= -1 PROVE FALSE
      <4>1. B * k <= B * (-1)
        BY <2>3, <3>1
      <4>2. QED
        BY <2>1, <2>3, <4>1
    <3>2. QED
      BY <2>3, <3>1
  <2>6. k = 0
    BY <2>3, <2>4, <2>5
  <2>7. e = 0
    BY <2>3, <2>6
  <2>8. QED
    BY <2>7 DEF e
<1>3. QED
  BY <1>1, <1>2

\* Sums and differences of whole words.
LEMMA WordSums ==
  ASSUME NEW B \in Int, B > 0, NEW a \in Int, NEW b \in Int, a % B = 0, b % B = 0
  PROVE  (a + b) % B = 0 /\ (a - b) % B = 0
<1>1. PICK p \in Int : a = B * p
  BY Words
<1>2. PICK q \in Int : b = B * q
  BY Words
<1>3. a + b = B * (p + q) /\ a - b = B * (p - q)
  BY <1>1, <1>2
<1>4. p + q \in Int /\ p - q \in Int /\ a + b \in Int /\ a - b \in Int
  OBVIOUS
<1>5. QED
  BY <1>3, <1>4, Words

\* One word ends before the next one starts.
LEMMA WordGap ==
  ASSUME NEW B \in Int, B > 0, NEW a \in Int, NEW b \in Int, a % B = 0, b % B = 0, a < b + B
  PROVE  a <= b
<1>1. PICK p \in Int : a = B * p
  BY Words
<1>2. PICK q \in Int : b = B * q
  BY Words
<1>3. ASSUME p >= q + 1 PROVE FALSE
  <2>1. B * p >= B * (q + 1)
    BY <1>3
  <2>2. B * (q + 1) = B * q + B
    OBVIOUS
  <2>3. QED
    BY <1>1, <1>2, <2>1, <2>2
<1>4. p <= q
  BY <1>3
<1>5. B * p <= B * q
  BY <1>4
<1>6. QED
  BY <1>1, <1>2, <1>5

\* The start of the word an address is in.
LEMMA WordStart ==
  ASSUME NEW B \in Int, B > 0, NEW a \in Int
  PROVE  /\ a - (a % B) \in Int /\ (a - (a % B)) % B = 0
         /\ a - (a % B) <= a /\ a < a - (a % B) + B
<1> DEFINE d == a \div B
           e == a % B
<1>1. d \in Int /\ e \in Int /\ a = B * d + e /\ 0 <= e /\ e < B
  BY WordRule
<1> HIDE DEF d, e
<1>2. a - e = B * d /\ a - e \in Int
  BY <1>1
<1>3. (a - e) % B = 0
  BY <1>1, <1>2, Words
<1>4. a - e <= a /\ a < a - e + B
  BY <1>1
<1>5. QED
  BY <1>2, <1>3, <1>4 DEF e

\* It does not lie before that of an earlier address, nor before an earlier word.
LEMMA WordOrder ==
  ASSUME NEW B \in Int, B > 0, NEW a \in Int, NEW b \in Int, a % B = 0, a <= b
  PROVE  a <= b - (b % B)
<1> DEFINE f == b - (b % B)
<1>1. f \in Int /\ f % B = 0 /\ b < f + B
  BY WordStart
<1> HIDE DEF f
<1>2. a < f + B
  BY <1>1
<1>3. a <= f
  BY <1>1, <1>2, WordGap
<1>4. QED
  BY <1>3 DEF f

\* Addresses of one page.
LEMMA SamePage ==
  ASSUME NEW P \in Int, P > 0, NEW a \in Int, NEW b \in Int, NEW c \in Int,
         c % P = 0, c <= a, a < c + P, c <= b, b < c + P
  PROVE  a \div P = b \div P
<1>1. PICK q \in Int : c = P * q
  BY Words
<1>2. ASSUME NEW x \in Int, c <= x, x < c + P PROVE x \div P = q
  <2> DEFINE d == x \div P
             e == x % P
  <2>1. d \in Int /\ e \in Int /\ x = P * d + e /\ 0 <= e /\ e < P
    BY WordRule
  <2> HIDE DEF d, e
  <2>2. P * d < P * q + P /\ P * q < P * d + P
    BY <1>1, <1>2, <2>1
  <2>3. ASSUME d >= q + 1 PROVE FALSE
    <3>1. P * d >= P * (q + 1)
      BY <2>1, <2>3
    <3>2. P * (q + 1) = P * q + P
      OBVIOUS
    <3>3. QED
      BY <2>1, <2>2, <3>1, <3>2
  <2>4. ASSUME q >= d + 1 PROVE FALSE
    <3>1. P * q >= P * (d + 1)
      BY <2>1, <2>4
    <3>2. P * (d + 1) = P * d + P
      BY <2>1
    <3>3. QED
      BY <2>1, <2>2, <3>1, <3>2
  <2>5. d = q
    BY <2>1, <2>3, <2>4
  <2>6. QED
    BY <2>5 DEF d
<1>3. QED
  BY <1>2

\* The sizes of words, pages and full bursts.
BurstSizes(B, P, S) == P % B = 0 /\ S % B = 0 /\ S \div B + 1 <= 256

\* A burst of n bytes from address x that stays in the page of x: bytes of its first word
\* before x, and its words.
BurstCut(B, P, x, n, bus, beats) ==
  n <= P - (x % P) /\ bus = x % B /\ beats = (bus + n + B - 1) \div B

\* The words cover the burst, stay in its page and are no more than a burst may have.
BurstFits(B, P, x, n, bus, beats) ==
  /\ bus \in 0 .. B - 1 /\ beats \in 1 .. 256
  /\ beats * B >= bus + n /\ beats * B <= bus + n + B - 1 /\ (beats * B) % B = 0
  /\ (x - bus) \div P = (x - bus + beats * B - 1) \div P

\* Such a burst fits.
LEMMA BurstWords ==
  ASSUME NEW B \in Int, B > 0, NEW P \in Int, P > 0, NEW S \in Int, BurstSizes(B, P, S),
         NEW x \in Nat, NEW n \in Int, 1 <= n, n <= S, NEW bus, NEW beats, BurstCut(B, P, x, n, bus, beats)
  PROVE  BurstFits(B, P, x, n, bus, beats)
<1> SUFFICES ASSUME P % B = 0, S % B = 0, S \div B + 1 <= 256,
                    n <= P - (x % P), bus = x % B, beats = (bus + n + B - 1) \div B
             PROVE  BurstFits(B, P, x, n, bus, beats)
  BY DEF BurstSizes, BurstCut
<1> DEFINE z == bus + n + B - 1
<1>1. bus \in Int /\ 0 <= bus /\ bus < B
  BY WordRule
<1>2. z \in Int /\ z >= B
  BY <1>1
<1>3. beats \in Int /\ z = B * beats + (z % B) /\ z % B \in Int /\ 0 <= z % B /\ z % B < B
  BY <1>2, WordRule
<1> DEFINE y == beats * B
<1>4. y \in Int /\ y <= z /\ z < y + B /\ y % B = 0
  <2>1. y = B * beats
    BY <1>3
  <2>2. y \in Int
    BY <1>3
  <2>3. y % B = 0
    BY <1>3, <2>1, <2>2, Words
  <2> HIDE DEF y, z
  <2>4. QED
    BY <1>2, <1>3, <2>1, <2>2, <2>3
<1>5. y >= bus + n /\ y <= bus + n + B - 1
  <2> HIDE DEF y
  <2>1. QED
    BY <1>1, <1>4
<1>6. beats >= 1
  <2>1. ASSUME beats <= 0 PROVE FALSE
    <3>1. B * beats <= B * 0
      BY <1>3, <2>1
    <3>2. y <= 0
      BY <1>3, <3>1
    <3> HIDE DEF y
    <3>3. QED
      BY <1>1, <1>4, <1>5, <3>2
  <2>2. QED
    BY <1>3, <2>1
<1>7. beats <= 256
  <2> DEFINE m == S \div B
  <2>1. m \in Int /\ S = B * m /\ m + 1 <= 256
    BY WordRule
  <2> HIDE DEF m
  <2>2. ASSUME beats >= m + 2 PROVE FALSE
    <3>1. B * beats >= B * (m + 2)
      BY <1>3, <2>1, <2>2
    <3>2. B * (m + 2) = S + B + B
      BY <2>1
    <3>3. y >= S + B + B
      BY <1>3, <3>1, <3>2
    <3> HIDE DEF y
    <3>4. QED
      BY <1>1, <1>4, <1>5, <3>3
  <2>3. QED
    BY <1>3, <2>1, <2>2
<1> DEFINE c == x - (x % P)
           s == x - bus
<1>8. c \in Int /\ c % P = 0 /\ c <= x /\ x < c + P
  BY WordStart
<1>9. x + n <= c + P
  BY <1>8, WordRule
<1>10. s \in Int /\ s % B = 0 /\ s <= x /\ x < s + B
  <2>1. s = x - (x % B)
    OBVIOUS
  <2>2. x \in Int
    OBVIOUS
  <2> HIDE DEF s
  <2>3. QED
    BY <2>1, <2>2, WordStart
<1> HIDE DEF c, s
<1>11. c % B = 0 /\ (c + P) % B = 0
  <2>1. PICK k \in Int : c = P * k
    BY <1>8, Words
  <2>2. PICK m \in Int : P = B * m
    BY Words
  <2> DEFINE h == m * k
  <2>3. h \in Int /\ c = B * h
    BY <2>1, <2>2
  <2>4. c % B = 0
    <3> HIDE DEF h
    <3>1. QED
      BY <1>8, <2>3, Words
  <2>5. QED
    BY <1>8, <2>4, WordSums
<1>12. c <= s
  <2>1. s = x - (x % B)
    BY DEF s
  <2>2. c <= x - (x % B)
    <3>1. B \in Int /\ B > 0 /\ c \in Int /\ x \in Int /\ c % B = 0 /\ c <= x
      BY <1>8, <1>11
    <3>2. QED
      BY <3>1, WordOrder, Zenon
  <2>3. QED
    BY <2>1, <2>2
<1>13. s + y <= c + P
  <2>1. s + y < c + P + B
    <3> HIDE DEF y
    <3>1. QED
      BY <1>1, <1>4, <1>5, <1>8, <1>9, <1>10 DEF s
  <2> HIDE DEF y, z
  <2>2. (s + y) % B = 0 /\ s + y \in Int
    <3>1. s \in Int /\ y \in Int /\ s % B = 0 /\ y % B = 0
      BY <1>4, <1>10
    <3>2. (s + y) % B = 0
      BY <3>1, WordSums, Zenon
    <3>3. s + y \in Int
      BY <3>1
    <3>4. QED
      BY <3>2, <3>3
  <2> DEFINE v == s + y
             w == c + P
  <2>3. v \in Int /\ w \in Int /\ v % B = 0 /\ w % B = 0 /\ v < w + B
    BY <1>4, <1>8, <1>11, <2>1, <2>2
  <2> HIDE DEF v, w
  <2>4. v <= w
    BY <2>3, WordGap
  <2>5. QED
    BY <2>4 DEF v, w
<1>14. s \div P = (s + y - 1) \div P
  <2>1. s < c + P /\ c <= s + y - 1 /\ s + y - 1 < c + P /\ s + y - 1 \in Int
    <3> HIDE DEF y
    <3>1. QED
      BY <1>1, <1>4, <1>5, <1>8, <1>10, <1>12, <1>13
  <2> HIDE DEF y
  <2>2. QED
    BY <1>8, <1>10, <1>12, <2>1, SamePage
<1>15. QED
  BY <1>1, <1>3, <1>4, <1>5, <1>6, <1>7, <1>14 DEF s, BurstFits

(* Headers and sections. *)

\* The sizes.
LEMMA SizeFacts ==
  ASSUME Loader!SizesFit
  PROVE  /\ BusBytes \in Nat /\ BusBytes > 0 /\ BusBytes \in Int
         /\ Page \in Nat /\ Page > 0 /\ Page \in Int /\ Page % BusBytes = 0
         /\ SlinkBurst \in Nat /\ SlinkBurst > 0 /\ SlinkBurst \in Int /\ SlinkBurst % BusBytes = 0
         /\ SlinkBurst \div BusBytes + 1 <= 256
         /\ UartBurst \in Nat /\ UartBurst > 0 /\ UartBurst \in Int
BY DEF Loader!SizesFit

\* A loadable header.
LEMMA HeaderFacts ==
  ASSUME LoaderTypes, NEW s \in Loader!Loadable
  PROVE  /\ s \in Nat
         /\ Seg(s).paddr \in Nat /\ Seg(s).memsz \in Nat \ {0} /\ Seg(s).filesz \in Nat \ {0}
         /\ Loader!Extent(Seg(s)) \subseteq Memory
         /\ Loader!Extent(Seg(s)) = Seg(s).paddr .. Seg(s).paddr + Seg(s).memsz - 1
         /\ Memory \subseteq Nat
<1> DEFINE H == [load : BOOLEAN, paddr : Nat, filesz : Nat, memsz : Nat, whole : BOOLEAN]
<1>1. file.segs \in Seq(H) /\ Memory \subseteq Nat /\ \A t \in DOMAIN file.segs : Loader!Extent(file.segs[t]) \subseteq Memory
  BY DEF LoaderTypes, Loader!FilesFit
<1> HIDE DEF H
<1>2. s \in DOMAIN file.segs /\ Seg(s).memsz > 0 /\ Seg(s).filesz > 0
  BY DEF Loader!Loadable, Loader!Loads, Seg
<1>3. s \in Nat /\ Seg(s) \in H
  <2>1. DOMAIN file.segs = 1 .. Len(file.segs) /\ Len(file.segs) \in Nat
    BY <1>1
  <2>2. \A t \in 1 .. Len(file.segs) : file.segs[t] \in H
    BY <1>1
  <2>3. QED
    BY <1>2, <2>1, <2>2 DEF Seg
<1>4. Seg(s).paddr \in Nat /\ Seg(s).memsz \in Nat /\ Seg(s).filesz \in Nat
  BY <1>3 DEF H
<1>5. QED
  BY <1>1, <1>2, <1>3, <1>4 DEF Loader!Extent, Seg

\* Headers of an orderly file: where their data starts, tells them apart.
LEMMA OrderlyFacts ==
  ASSUME LoaderTypes, Loader!Orderly
  PROVE  /\ \A s, t \in Loader!Loadable : Seg(s).paddr = Seg(t).paddr => s = t
         /\ \A s \in Loader!Loadable : Seg(s).paddr % BusBytes = 0 /\ Seg(s).filesz <= Seg(s).memsz
<1>1. ASSUME NEW s \in Loader!Loadable, NEW t \in Loader!Loadable, Seg(s).paddr = Seg(t).paddr PROVE s = t
  <2>1. s \in Nat /\ t \in Nat /\ Seg(s).paddr \in Nat /\ Seg(s).memsz \in Nat \ {0} /\ Seg(t).memsz \in Nat \ {0}
    BY HeaderFacts
  <2>2. s < t => Seg(s).paddr + Seg(s).memsz <= Seg(t).paddr
    BY DEF Loader!Orderly, Seg
  <2>3. t < s => Seg(t).paddr + Seg(t).memsz <= Seg(s).paddr
    BY DEF Loader!Orderly, Seg
  <2>4. ~(s < t) /\ ~(t < s)
    BY <1>1, <2>1, <2>2, <2>3
  <2>5. QED
    BY <2>1, <2>4
<1>2. ASSUME NEW s \in Loader!Loadable PROVE Seg(s).paddr % BusBytes = 0 /\ Seg(s).filesz <= Seg(s).memsz
  BY DEF Loader!Orderly, Loader!Loadable, Seg
<1>3. QED
  BY <1>1, <1>2

\* The section being sent: a header, an address and a length.
LEMMA SentFacts ==
  ASSUME LoaderTypes, SectionsInv, SendInv, at = "load"
  PROVE  /\ bf.addr \in Nat /\ Len(bf.data) \in Nat \ {0} /\ off \in Nat
         /\ bf.data \in Seq(Nat \X Nat)
         /\ section_index \in 1 .. Len(sections)
         /\ \E s \in Loader!Loadable :
              sections[section_index] = SectionOf(s) /\ bf.addr = Seg(s).paddr /\ Len(bf.data) = Seg(s).memsz
<1>1. bf.addr \in Nat /\ bf.data \in Seq(Nat \X Nat) /\ off \in Nat
  BY DEF LoaderTypes
<1>2. section_index \in 1 .. Len(sections)
  BY DEF SendInv
<1>3. PICK s \in Loader!Loadable : sections[section_index] = SectionOf(s)
  BY <1>2 DEF SectionsInv
<1>4. bf.addr = Seg(s).paddr /\ Len(bf.data) = Seg(s).memsz
  BY <1>3 DEF SendInv, SectionOf
<1>5. Seg(s).memsz \in Nat \ {0}
  BY HeaderFacts
<1>6. QED
  BY <1>1, <1>2, <1>3, <1>4, <1>5

\* Bytes of the buffer.
LEMMA ByteFacts ==
  ASSUME LoaderTypes, NEW i \in Int
  PROVE  /\ Loader!Byte(i) \in Nat \X Nat
         /\ i \in 0 .. Len(bf.data) - 1 => Loader!Byte(i) = bf.data[i + 1]
<1>1. bf.data \in Seq(Nat \X Nat) /\ Len(bf.data) \in Nat
  BY DEF LoaderTypes
<1>2. CASE i \in 0 .. Len(bf.data) - 1
  <2>1. i + 1 \in 1 .. Len(bf.data)
    BY <1>1, <1>2
  <2>2. bf.data[i + 1] \in Nat \X Nat
    BY <1>1, <2>1
  <2>3. QED
    BY <1>2, <2>2 DEF Loader!Byte
<1>3. CASE i \notin 0 .. Len(bf.data) - 1
  <2>1. Loader!Zero \in Nat \X Nat
    BY DEF Loader!Zero
  <2>2. QED
    BY <1>3, <2>1 DEF Loader!Byte
<1>4. QED
  BY <1>2, <1>3

\* What the system's bus does with bytes lo to hi of the section.
LEMMA StoreFacts ==
  ASSUME LoaderTypes, NEW lo \in Int, NEW hi \in Int, NEW bytes \in [lo .. hi -> Nat \X Nat], Loader!Store(bytes)
  PROVE  /\ ram' \in [Memory -> Nat \X Nat]
         /\ \A a \in Memory : IF lo <= a - bf.addr /\ a - bf.addr <= hi
                              THEN ram'[a] = bytes[a - bf.addr]
                              ELSE ram'[a] = ram[a]
<1>1. bf.addr \in Nat /\ Memory \subseteq Nat /\ ram \in [Memory -> Nat \X Nat]
  BY DEF LoaderTypes, Loader!FilesFit
<1>2. ram' = [a \in Memory |-> IF a - bf.addr \in lo .. hi THEN bytes[a - bf.addr] ELSE ram[a]]
  BY DEF Loader!Store
<1>3. \A a \in Memory : a - bf.addr \in lo .. hi <=> lo <= a - bf.addr /\ a - bf.addr <= hi
  BY <1>1
<1>4. QED
  BY <1>1, <1>2, <1>3

(* What every step of the preload tasks does with memory. *)

\* The file and the method do not change.
LEMMA SameWanted ==
  ASSUME file' = file, method' = method
  PROVE  Wanted' = Wanted
<1>1. Loader!Loadable' = Loader!Loadable
  BY DEF Loader!Loadable, Loader!Loads
<1>2. ASSUME NEW s PROVE Loader!Skipped(Seg(s))' = Loader!Skipped(Seg(s))
  BY DEF Loader!Skipped, Loader!UseDramSys, Loader!InDram, Seg
<1>3. QED
  BY <1>1, <1>2 DEF Wanted

\* The file does not change.
LEMMA SameFile ==
  ASSUME file' = file
  PROVE  /\ Loader!Loadable' = Loader!Loadable
         /\ Sound' = Sound
<1>1. Loader!Loadable' = Loader!Loadable
  BY DEF Loader!Loadable, Loader!Loads
<1>2. Loader!Orderly' = Loader!Orderly
  BY <1>1 DEF Loader!Orderly
<1>3. QED
  BY <1>1, <1>2 DEF Sound

\* The section at hand is one that is not loaded.
SkippedNow == Loader!UseDramSys /\ Loader!InDram(bf.addr, Len(bf.data))

\* A step that changes nothing before the part to be sent, and sends all or the
\* part it counts.
LEMMA ProgressRam ==
  ASSUME LoaderTypes, SectionsInv, SendInv, ReaderInv, BufferInv, RamInv,
         at = "load", at' \in {"load", "fetch"},
         UNCHANGED <<file, method, sections, section_index, bf, start>>,
         off' \in Nat, Sound => ~sberr',
         Sound => \A a \in Memory : a < bf.addr + off => ram'[a] = ram[a],
         Sound /\ ~SkippedNow => \A a \in Memory :
                    bf.addr + off <= a /\ a < bf.addr + Len(bf.data) /\ (at' = "load" => a < bf.addr + off') =>
                      ram'[a] = bf.data[a - bf.addr + 1]
  PROVE  RamInv'
<1>1. Sound' = Sound /\ Wanted' = Wanted
  BY SameFile, SameWanted
<1> SUFFICES ASSUME Sound PROVE RamInv'
  BY <1>1 DEF RamInv
<1>2. ~sberr'
  OBVIOUS
<1>3. bf.addr \in Nat /\ Len(bf.data) \in Nat \ {0} /\ off \in Nat /\ section_index \in 1 .. Len(sections)
  BY SentFacts
<1>4. ASSUME NEW i \in 1 .. section_index, NEW s \in Wanted, sections[i] = SectionOf(s),
             NEW a \in Loader!Extent(Seg(s)), at' = "load" /\ i = section_index => a < bf.addr + off'
      PROVE  ram'[a] = Due(s, a)
  <2> s \in Loader!Loadable
    BY DEF Wanted
  <2>1. /\ a \in Memory /\ a \in Nat /\ Seg(s).paddr <= a /\ a < Seg(s).paddr + Seg(s).memsz
        /\ Seg(s).paddr \in Nat /\ Seg(s).memsz \in Nat
    BY <1>4, HeaderFacts
  <2>2. CASE i < section_index
    <3>1. sections[i].addr + sections[i].len <= sections[section_index].addr
      BY <1>3, <2>2 DEF ReaderInv
    <3>2. a < bf.addr
      BY <1>3, <1>4, <2>1, <3>1 DEF SendInv, SectionOf
    <3>3. ram[a] = Due(s, a)
      BY <1>4, <2>2 DEF RamInv
    <3>4. QED
      BY <1>3, <2>1, <3>2, <3>3
  <2>3. CASE i = section_index
    <3>1. bf.addr = Seg(s).paddr /\ Len(bf.data) = Seg(s).memsz
      BY <1>4, <2>3 DEF SendInv, SectionOf
    <3>2. CASE a < bf.addr + off
      <4>1. ram[a] = Due(s, a)
        BY <1>4, <2>3, <3>2 DEF RamInv
      <4>2. ram'[a] = ram[a]
        BY <2>1, <3>2
      <4>3. QED
        BY <4>1, <4>2
    <3>3. CASE bf.addr + off <= a
      <4>0. ~SkippedNow
        BY <3>1 DEF Wanted, SkippedNow, Loader!Skipped
      <4>1. ram'[a] = bf.data[a - bf.addr + 1]
        BY <1>3, <1>4, <2>1, <2>3, <3>1, <3>3, <4>0
      <4> DEFINE k == a - bf.addr + 1
      <4>2. k \in 1 .. Len(bf.data) /\ bf.addr + k - 1 = a
        <5>1. /\ a \in Nat /\ bf.addr \in Nat /\ Len(bf.data) \in Nat
              /\ bf.addr <= a /\ a < bf.addr + Len(bf.data)
          BY <1>3, <2>1, <3>1
        <5>2. QED
          BY <5>1
      <4>3. bf.data[k] = Due(s, bf.addr + k - 1)
        <5> HIDE DEF k
        <5>1. QED
          BY <1>4, <2>3, <4>2 DEF BufferInv
      <4>4. QED
        BY <4>1, <4>2, <4>3
    <3>4. QED
      BY <1>3, <2>1, <3>2, <3>3
  <2>4. QED
    BY <1>3, <2>2, <2>3
<1>5. QED
  BY <1>1, <1>2, <1>4 DEF RamInv, SectionOf, Seg, Due, Loader!Expected, Loader!Extent, Loader!Zero

\* A step that writes only what belongs to a section, or its words.
LEMMA TouchStep ==
  ASSUME LoaderTypes, Loader!OnlySections, file' = file, method' = method,
         \A a \in Memory : ram'[a] # ram[a] => \E s \in Loader!Loadable : a \in Loader!Touched(Seg(s))
  PROVE  Loader!OnlySections'
<1>1. Loader!Loadable' = Loader!Loadable
  BY SameFile
<1>2. ASSUME NEW a \in Memory, ram'[a] # Loader!Blank
      PROVE  \E s \in Loader!Loadable : a \in Loader!Touched(Seg(s))
  BY <1>2 DEF Loader!OnlySections, Seg
<1>3. QED
  BY <1>1, <1>2 DEF Loader!OnlySections, Loader!Touched, Seg, Loader!Down, Loader!Extent, Loader!Blank

\* What sends a part of a section, or finds that there is nothing left, keeps the
\* invariant.
LEMMA SendStep ==
  ASSUME LoaderInv,
         at = "load", at' \in {"load", "fetch"},
         UNCHANGED <<file, method, sections, section_index, mems, entry, bf, start>>,
         off' \in Nat, sberr' \in BOOLEAN, ram' \in [Memory -> Nat \X Nat], Sound => ~sberr',
         at' = "load" /\ Loader!OverJtag => off' % BusBytes = 0,
         at' = "load" /\ method = "slink" /\ bf.addr % BusBytes = 0 /\ off' < Len(bf.data) => off' % BusBytes = 0,
         at' = "load" => ~Loader!Memh \/ Loader!OverJtag,
         Sound => \A a \in Memory : a < bf.addr + off => ram'[a] = ram[a],
         Sound /\ ~SkippedNow => \A a \in Memory :
                    bf.addr + off <= a /\ a < bf.addr + Len(bf.data) /\ (at' = "load" => a < bf.addr + off') =>
                      ram'[a] = bf.data[a - bf.addr + 1],
         \A a \in Memory : ram'[a] # ram[a] => \E s \in Loader!Loadable : a \in Loader!Touched(Seg(s)),
         Loader!BurstsLegal'
  PROVE  LoaderInv'
<1>1. LoaderTypes /\ SectionsInv /\ SendInv /\ ReaderInv /\ BufferInv /\ RamInv /\ Loader!OnlySections
  BY DEF LoaderInv
<1>2. Sound' = Sound /\ Loader!Loadable' = Loader!Loadable
  BY SameFile
<1>3. LoaderTypes'
  BY <1>1 DEF LoaderTypes, Loader!FilesFit, Loader!SizesFit
<1>4. SectionsInv'
  BY <1>1, <1>2 DEF SectionsInv, SectionOf, Seg
<1>5. SendInv'
  <2>1. Loader!OverJtag' = Loader!OverJtag /\ Loader!Memh' = Loader!Memh
    BY DEF Loader!OverJtag, Loader!Memh
  <2>2. QED
    BY <1>1, <2>1 DEF SendInv
<1>6. ReaderInv'
  BY <1>1, <1>2 DEF ReaderInv, SectionOf, Seg, Loader!Contents
<1>7. BufferInv'
  BY <1>1, <1>2 DEF BufferInv, SectionOf, Seg, Due, Loader!Expected, Loader!Zero
<1>8. RamInv'
  BY <1>1, ProgressRam
<1>9. Loader!OnlySections'
  BY <1>1, TouchStep
<1>10. QED
  BY <1>3, <1>4, <1>5, <1>6, <1>7, <1>8, <1>9 DEF LoaderInv

\* Nothing is left of the section.
LEMMA LoadedStep ==
  ASSUME LoaderInv, at = "load", off >= Len(bf.data), Loader!Loaded,
         UNCHANGED <<file, method, sections, section_index, mems, entry, bf, sberr, burst, ram, start>>
  PROVE  LoaderInv'
<1>1. LoaderTypes /\ SectionsInv /\ SendInv /\ RamInv /\ Loader!BurstsLegal
  BY DEF LoaderInv
<1>2. bf.addr \in Nat /\ Len(bf.data) \in Nat \ {0} /\ off \in Nat /\ Memory \subseteq Nat
  BY <1>1, SentFacts DEF LoaderTypes, Loader!FilesFit
<1>3. at' = "fetch" /\ off' = off
  BY DEF Loader!Loaded
<1>4. off' \in Nat /\ sberr' \in BOOLEAN /\ ram' \in [Memory -> Nat \X Nat] /\ (Sound => ~sberr')
  BY <1>1, <1>3 DEF LoaderTypes, RamInv
<1>5. \A a \in Memory : ~(bf.addr + off <= a /\ a < bf.addr + Len(bf.data))
  BY <1>2
<1>6. Loader!BurstsLegal'
  BY <1>1 DEF Loader!BurstsLegal
<1>7. \A a \in Memory : ram'[a] = ram[a]
  OBVIOUS
<1>8. /\ \A a \in Memory : bf.addr + off <= a /\ a < bf.addr + Len(bf.data) /\ (at' = "load" => a < bf.addr + off') =>
                              ram'[a] = bf.data[a - bf.addr + 1]
      /\ at' # "load"
  BY <1>3, <1>5
<1>9. at' \in {"load", "fetch"} /\ UNCHANGED <<file, method, sections, section_index, mems, entry, bf, start>>
  BY <1>3
<1>10. QED
  BY <1>4, <1>6, <1>7, <1>8, <1>9, SendStep

\* Bytes lo to hi of the section go to memory.
LEMMA WrittenBytes ==
  ASSUME LoaderTypes, NEW lo \in Int, NEW hi \in Int, Loader!Store(Loader!Bytes(lo, hi))
  PROVE  /\ ram' \in [Memory -> Nat \X Nat]
         /\ \A a \in Memory : IF lo <= a - bf.addr /\ a - bf.addr <= hi
                              THEN ram'[a] = Loader!Byte(a - bf.addr)
                              ELSE ram'[a] = ram[a]
<1> DEFINE w == Loader!Bytes(lo, hi)
<1>1. ASSUME NEW i \in lo .. hi PROVE Loader!Byte(i) \in Nat \X Nat
  <2>1. i \in Int
    OBVIOUS
  <2>2. QED
    BY <2>1, ByteFacts
<1>2. w \in [lo .. hi -> Nat \X Nat] /\ \A i \in lo .. hi : w[i] = Loader!Byte(i)
  BY <1>1 DEF Loader!Bytes
<1>3. Loader!Store(w)
  OBVIOUS
<1> HIDE DEF w
<1>4. /\ ram' \in [Memory -> Nat \X Nat]
      /\ \A a \in Memory : IF lo <= a - bf.addr /\ a - bf.addr <= hi THEN ram'[a] = w[a - bf.addr] ELSE ram'[a] = ram[a]
  <2>1. w \in [lo .. hi -> Nat \X Nat]
    BY <1>2
  <2>2. QED
    BY <1>3, <2>1, StoreFacts
<1>5. \A a \in Memory : a - bf.addr \in Int
  BY DEF LoaderTypes, Loader!FilesFit
<1>6. QED
  BY <1>2, <1>4, <1>5

\* uart_debug_elf_preload.
LEMMA UartLoadInv == ASSUME LoaderInv, Loader!UartLoad PROVE LoaderInv'
<1>1. LoaderTypes /\ SectionsInv /\ SendInv /\ RamInv /\ Loader!BurstsLegal
  BY DEF LoaderInv
<1>2. /\ at = "load" /\ method = "uart"
      /\ UNCHANGED <<file, method, sections, section_index, mems, entry, bf, sberr, burst, start>>
  BY DEF Loader!UartLoad, Loader!given, Loader!reader
<1>3. CASE off > Len(bf.data) /\ Loader!Loaded /\ UNCHANGED ram
  <2>1. off >= Len(bf.data)
    BY <1>1, <1>2, <1>3, SentFacts
  <2>2. QED
    BY <1>2, <1>3, <2>1, LoadedStep
<1> DEFINE m == Loader!Lesser(off + UartBurst, Len(bf.data))
<1>4. CASE off <= Len(bf.data) /\ Loader!Sent(UartBurst) /\ Loader!Store(Loader!Bytes(off, m - 1))
  <2>1. /\ bf.addr \in Nat /\ Len(bf.data) \in Nat \ {0} /\ off \in Nat /\ Memory \subseteq Nat
        /\ UartBurst \in Nat /\ UartBurst > 0
    BY <1>1, <1>2, SentFacts, SizeFacts DEF LoaderTypes, Loader!FilesFit
  <2>2. at' = "load" /\ off' = off + UartBurst /\ off' \in Nat
    BY <1>4, <2>1 DEF Loader!Sent
  <2>3. m \in Int /\ m <= Len(bf.data) /\ m <= off' /\ (m = off' \/ m = Len(bf.data))
    BY <2>1, <2>2 DEF Loader!Lesser
  <2> HIDE DEF m
  <2> DEFINE h == m - 1
  <2>4. off \in Int /\ h \in Int /\ Loader!Store(Loader!Bytes(off, h))
    BY <1>4, <2>1, <2>3
  <2> HIDE DEF h
  <2>5. /\ ram' \in [Memory -> Nat \X Nat]
        /\ \A a \in Memory : IF off <= a - bf.addr /\ a - bf.addr <= h
                             THEN ram'[a] = Loader!Byte(a - bf.addr)
                             ELSE ram'[a] = ram[a]
    BY <1>1, <2>4, WrittenBytes
  <2>6. \A a \in Memory : a < bf.addr + off => ram'[a] = ram[a]
    BY <2>1, <2>5
  <2>7. ASSUME NEW a \in Memory, bf.addr + off <= a, a < bf.addr + Len(bf.data), a < bf.addr + off'
        PROVE  ram'[a] = bf.data[a - bf.addr + 1]
    <3>1. a - bf.addr \in off .. m - 1 /\ a - bf.addr \in 0 .. Len(bf.data) - 1 /\ a - bf.addr \in Int
      BY <2>1, <2>2, <2>3, <2>7
    <3>2. ram'[a] = Loader!Byte(a - bf.addr)
      BY <2>1, <2>3, <2>5, <3>1 DEF h
    <3>3. QED
      BY <1>1, <3>1, <3>2, ByteFacts
  <2>8. ASSUME NEW a \in Memory, ram'[a] # ram[a]
        PROVE  \E s \in Loader!Loadable : a \in Loader!Touched(Seg(s))
    <3>1. off <= a - bf.addr /\ a - bf.addr <= m - 1 /\ a \in Nat
      BY <2>1, <2>5, <2>8 DEF h
    <3>2. PICK s \in Loader!Loadable : bf.addr = Seg(s).paddr /\ Len(bf.data) = Seg(s).memsz
      BY <1>1, <1>2, SentFacts
    <3>3. a \in Loader!Extent(Seg(s))
      <4>1. Loader!Extent(Seg(s)) = Seg(s).paddr .. Seg(s).paddr + Seg(s).memsz - 1
        BY <1>1, HeaderFacts
      <4>2. QED
        BY <2>1, <2>3, <3>1, <3>2, <4>1
    <3>4. QED
      BY <1>2, <3>3 DEF Loader!Touched
  <2>9. sberr' \in BOOLEAN /\ (Sound => ~sberr') /\ Loader!BurstsLegal'
    BY <1>1, <1>2 DEF LoaderTypes, RamInv, Loader!BurstsLegal
  <2>10. ~Loader!OverJtag /\ ~Loader!Memh /\ method # "slink"
    BY <1>2 DEF Loader!OverJtag, Loader!Memh
  <2>11. QED
    BY <1>2, <2>2, <2>5, <2>6, <2>7, <2>8, <2>9, <2>10, SendStep
<1>5. QED
  BY <1>3, <1>4 DEF Loader!UartLoad

\* jtag_load_section.
LEMMA JtagLoadInv == ASSUME LoaderInv, Loader!JtagLoad PROVE LoaderInv'
<1>1. LoaderTypes /\ SectionsInv /\ SendInv /\ RamInv /\ Loader!BurstsLegal
  BY DEF LoaderInv
<1>2. /\ at = "load" /\ Loader!OverJtag
      /\ UNCHANGED <<file, method, sections, section_index, mems, entry, bf, burst, start>>
  BY DEF Loader!JtagLoad, Loader!given, Loader!reader
<1>3. method \in {"jtag", "memh", "memh_dramsys"}
  BY <1>2 DEF Loader!OverJtag, Loader!Memh
<1>4. /\ bf.addr \in Nat /\ Len(bf.data) \in Nat \ {0} /\ off \in Nat /\ Memory \subseteq Nat /\ off % BusBytes = 0
      /\ BusBytes \in Int /\ BusBytes > 0
  BY <1>1, <1>2, SentFacts, SizeFacts DEF LoaderTypes, Loader!FilesFit, SendInv
<1>5. PICK s \in Loader!Loadable : bf.addr = Seg(s).paddr /\ Len(bf.data) = Seg(s).memsz
  BY <1>1, <1>2, SentFacts
<1>6. CASE ~Loader!JtagMore /\ Loader!Loaded /\ UNCHANGED <<sberr, ram>>
  <2>1. off >= Len(bf.data)
    BY <1>4, <1>6 DEF Loader!JtagMore
  <2>2. QED
    BY <1>2, <1>6, <2>1, LoadedStep
<1>7. CASE /\ Loader!JtagMore /\ Loader!Sent(BusBytes)
           /\ sberr' = (sberr \/ bf.addr % BusBytes # 0)
           /\ IF sberr' THEN UNCHANGED ram ELSE Loader!Store(Loader!Bytes(off, off + BusBytes - 1))
  <2>1. off <= Len(bf.data) /\ at' = "load" /\ off' = off + BusBytes /\ off' \in Nat
    BY <1>4, <1>7 DEF Loader!JtagMore, Loader!Sent
  <2>2. off' % BusBytes = 0
    <3>1. BusBytes % BusBytes = 0
      <4>1. BusBytes = BusBytes * 1 /\ 1 \in Int
        BY <1>4
      <4>2. QED
        BY <1>4, <4>1, Words
    <3>2. off \in Int
      BY <1>4
    <3>3. (off + BusBytes) % BusBytes = 0
      BY <1>4, <3>1, <3>2, WordSums
    <3>4. QED
      BY <2>1, <3>3
  <2>3. sberr' \in BOOLEAN
    BY <1>1, <1>7 DEF LoaderTypes
  <2>4. Sound => ~sberr'
    BY <1>1, <1>5, <1>7, OrderlyFacts DEF Sound, RamInv
  <2> DEFINE h == off + BusBytes - 1
  <2>5. ASSUME ~sberr'
        PROVE  /\ ram' \in [Memory -> Nat \X Nat]
               /\ \A a \in Memory : IF off <= a - bf.addr /\ a - bf.addr <= h
                                    THEN ram'[a] = Loader!Byte(a - bf.addr)
                                    ELSE ram'[a] = ram[a]
    <3>1. off \in Int /\ h \in Int /\ Loader!Store(Loader!Bytes(off, h))
      BY <1>4, <1>7, <2>5
    <3> HIDE DEF h
    <3>2. QED
      BY <1>1, <3>1, WrittenBytes
  <2>6. ram' \in [Memory -> Nat \X Nat]
    <3>1. CASE sberr'
      BY <1>1, <1>7, <3>1 DEF LoaderTypes
    <3>2. QED
      BY <2>5, <3>1
  <2>7. Sound => \A a \in Memory : a < bf.addr + off => ram'[a] = ram[a]
    BY <1>4, <2>4, <2>5
  <2>8. ASSUME Sound, NEW a \in Memory, bf.addr + off <= a, a < bf.addr + Len(bf.data), a < bf.addr + off'
        PROVE  ram'[a] = bf.data[a - bf.addr + 1]
    <3>1. a \in Nat /\ off <= a - bf.addr /\ a - bf.addr <= h
      BY <1>4, <2>1, <2>8
    <3>2. a - bf.addr \in 0 .. Len(bf.data) - 1 /\ a - bf.addr \in Int
      BY <1>4, <2>8, <3>1
    <3>3. ram'[a] = Loader!Byte(a - bf.addr)
      BY <2>4, <2>5, <2>8, <3>1
    <3>4. QED
      BY <1>1, <3>2, <3>3, ByteFacts
  <2>9. ASSUME NEW a \in Memory, ram'[a] # ram[a]
        PROVE  \E t \in Loader!Loadable : a \in Loader!Touched(Seg(t))
    <3>1. ~sberr' /\ bf.addr % BusBytes = 0
      BY <1>7, <2>9
    <3>2. a \in Nat /\ bf.addr + off <= a /\ a <= bf.addr + off + BusBytes - 1
      BY <1>4, <2>5, <2>9, <3>1
    <3> DEFINE x == bf.addr + off
               y == bf.addr + Len(bf.data)
               f == y - (y % BusBytes)
    <3>3. x \in Int /\ y \in Int /\ x <= y /\ x % BusBytes = 0
      <4>1. bf.addr \in Int /\ off \in Int
        BY <1>4
      <4>2. x % BusBytes = 0
        BY <1>4, <3>1, <4>1, WordSums
      <4>3. x \in Int /\ y \in Int /\ x <= y
        BY <1>4, <2>1
      <4> HIDE DEF x, y
      <4>4. QED
        BY <4>2, <4>3
    <3> HIDE DEF x, y
    <3>4. x <= f
      BY <1>4, <3>3, WordOrder
    <3>5. f \in Int
      BY <1>4, <3>3, WordStart
    <3>6. a \in Seg(s).paddr .. f + BusBytes - 1
      <4> HIDE DEF f
      <4>1. a <= x + BusBytes - 1 /\ bf.addr <= a
        BY <1>4, <3>2 DEF x
      <4>2. QED
        BY <1>4, <1>5, <3>2, <3>3, <3>4, <3>5, <4>1
    <3>7. Loader!Touched(Seg(s)) = Seg(s).paddr .. f + BusBytes - 1
      BY <1>3, <1>5 DEF Loader!Touched, Loader!Down, y
    <3>8. QED
      BY <3>6, <3>7
  <2>10. Loader!BurstsLegal'
    BY <1>1, <1>2 DEF Loader!BurstsLegal
  <2>11. method # "slink"
    BY <1>3
  <2>12. QED
    BY <1>2, <2>1, <2>2, <2>3, <2>4, <2>6, <2>7, <2>8, <2>9, <2>10, <2>11, SendStep
<1>8. QED
  BY <1>6, <1>7 DEF Loader!JtagLoad

\* memh_elf_preload.
LEMMA MemhLoadInv == ASSUME LoaderInv, Loader!MemhLoad PROVE LoaderInv'
<1>1. LoaderTypes /\ SectionsInv /\ SendInv /\ RamInv /\ Loader!BurstsLegal
  BY DEF LoaderInv
<1>2. /\ at = "load" /\ Loader!Memh /\ ~Loader!OverJtag /\ at' = "fetch" /\ off' = off
      /\ UNCHANGED <<file, method, sections, section_index, mems, entry, bf, sberr, burst, start>>
      /\ \/ ~Loader!UseDramSys /\ Loader!Store(Loader!Bytes(0, Len(bf.data) - 1))
         \/ Loader!UseDramSys /\ ram' = ram
  BY DEF Loader!MemhLoad, Loader!given, Loader!reader, Loader!Loaded
<1>3. /\ bf.addr \in Nat /\ Len(bf.data) \in Nat \ {0} /\ off = 0 /\ Memory \subseteq Nat
      /\ BusBytes \in Int /\ BusBytes > 0
  BY <1>1, <1>2, SentFacts, SizeFacts DEF LoaderTypes, Loader!FilesFit, SendInv
<1>4. PICK s \in Loader!Loadable : bf.addr = Seg(s).paddr /\ Len(bf.data) = Seg(s).memsz
  BY <1>1, <1>2, SentFacts
<1> DEFINE h == Len(bf.data) - 1
<1>5. ASSUME ~Loader!UseDramSys
      PROVE  /\ ram' \in [Memory -> Nat \X Nat]
             /\ \A a \in Memory : IF 0 <= a - bf.addr /\ a - bf.addr <= h
                                  THEN ram'[a] = Loader!Byte(a - bf.addr)
                                  ELSE ram'[a] = ram[a]
  <2>1. 0 \in Int /\ h \in Int /\ Loader!Store(Loader!Bytes(0, h))
    BY <1>2, <1>3, <1>5
  <2> HIDE DEF h
  <2>2. QED
    BY <1>1, <2>1, WrittenBytes
<1>6. \A a \in Memory : a < bf.addr + off => ram'[a] = ram[a]
  BY <1>2, <1>3, <1>5
<1>7. ASSUME ~Loader!UseDramSys, NEW a \in Memory, bf.addr + off <= a, a < bf.addr + Len(bf.data)
      PROVE  ram'[a] = bf.data[a - bf.addr + 1]
  <2>1. a - bf.addr \in 0 .. Len(bf.data) - 1 /\ a - bf.addr \in Int
    BY <1>3, <1>7
  <2>2. ram'[a] = Loader!Byte(a - bf.addr)
    BY <1>3, <1>5, <1>7, <2>1
  <2>3. QED
    BY <1>1, <2>1, <2>2, ByteFacts
<1>8. ASSUME NEW a \in Memory, ram'[a] # ram[a]
      PROVE  \E t \in Loader!Loadable : a \in Loader!Touched(Seg(t))
  <2> DEFINE y == bf.addr + Len(bf.data)
             f == y - (y % BusBytes)
  <2>1. a \in Nat /\ bf.addr <= a /\ a < y /\ y \in Int
    <3>1. ~Loader!UseDramSys
      BY <1>2, <1>8
    <3>2. QED
      BY <1>3, <1>5, <1>8, <3>1
  <2> HIDE DEF y
  <2>2. f \in Int /\ y < f + BusBytes
    BY <1>3, <2>1, WordStart
  <2> HIDE DEF f
  <2>3. a \in Seg(s).paddr .. f + BusBytes - 1
    BY <1>3, <1>4, <2>1, <2>2
  <2>4. Loader!Touched(Seg(s)) = Seg(s).paddr .. f + BusBytes - 1
    BY <1>2, <1>4 DEF Loader!Touched, Loader!Down, Loader!Memh, y, f
  <2>5. QED
    BY <2>3, <2>4
<1>9. off' \in Nat /\ sberr' \in BOOLEAN /\ (Sound => ~sberr') /\ Loader!BurstsLegal'
  BY <1>1, <1>2, <1>3 DEF LoaderTypes, RamInv, Loader!BurstsLegal
<1>10. ram' \in [Memory -> Nat \X Nat]
  BY <1>1, <1>2, <1>5 DEF LoaderTypes
<1>11. SkippedNow <=> Loader!UseDramSys
  BY <1>2 DEF SkippedNow, Loader!OverJtag
<1>12. QED
  BY <1>2, <1>6, <1>7, <1>8, <1>9, <1>10, <1>11, SendStep

\* The smallest of three numbers.
LEMMA LowestFacts ==
  ASSUME NEW a \in Int, NEW b \in Int, NEW c \in Int, NEW n, n = Loader!Lowest({a, b, c})
  PROVE  (n = a \/ n = b \/ n = c) /\ n <= a /\ n <= b /\ n <= c
<1> DEFINE S == {a, b, c}
<1>1. \E x \in S : \A y \in S : x <= y
  <2>1. CASE a <= b /\ a <= c
    BY <2>1
  <2>2. CASE b <= a /\ b <= c
    BY <2>2
  <2>3. CASE c <= a /\ c <= b
    BY <2>3
  <2>4. QED
    BY <2>1, <2>2, <2>3
<1>2. a \in S /\ b \in S /\ c \in S
  OBVIOUS
<1>3. n = Loader!Lowest(S)
  OBVIOUS
<1> HIDE DEF S
<1>4. n \in S /\ \A y \in S : n <= y
  BY <1>1, <1>3 DEF Loader!Lowest
<1>5. QED
  BY <1>2, <1>4 DEF S

\* a is a number of whole words.
Whole(a, B) == a % B = 0

\* Whole words, without reference to the remainder.
LEMMA WholeFacts ==
  ASSUME NEW B \in Int, B > 0
  PROVE  /\ Whole(B, B)
         /\ \A a, b \in Int : Whole(a, B) /\ Whole(b, B) =>
              Whole(a + b, B) /\ Whole(a - b, B) /\ (a < b + B => a <= b)
<1>1. Whole(B, B)
  <2>1. B = B * 1 /\ 1 \in Int
    OBVIOUS
  <2>2. QED
    BY <2>1, Words DEF Whole
<1>2. ASSUME NEW a \in Int, NEW b \in Int, a % B = 0, b % B = 0
      PROVE  (a + b) % B = 0 /\ (a - b) % B = 0 /\ (a < b + B => a <= b)
  <2>1. (a + b) % B = 0 /\ (a - b) % B = 0
    BY <1>2, WordSums, Zenon
  <2>2. a < b + B => a <= b
    BY <1>2, WordGap, Zenon
  <2>3. QED
    BY <2>1, <2>2
<1>3. QED
  BY <1>1, <1>2 DEF Whole

\* The shortest of a full burst, the rest of l bytes from byte o on, and the room from x
\* to the end e of a page.
LEMMA BurstEnd ==
  ASSUME NEW S \in Int, S > 0, NEW l \in Int, NEW o \in Int, o < l, NEW x \in Int, NEW e \in Int, x < e,
         NEW n \in Int, n <= S, n <= l - o, n <= e - x, n = S \/ n = l - o \/ n = e - x
  PROVE  1 <= n /\ o + n <= l /\ x + n <= e /\ (n = S \/ o + n = l \/ x + n = e)
OBVIOUS

\* The start of the page a is in.
PageStart(a) == a - (a % Page)

\* How long a burst from address x is; c is the page it is in.
LEMMA BurstLenFacts ==
  ASSUME LoaderTypes, off < Len(bf.data), NEW n, n = Loader!BurstLen, NEW x \in Int, x = bf.addr + off,
         NEW c, c = PageStart(x)
  PROVE  /\ n \in Int /\ 1 <= n /\ n <= SlinkBurst /\ off + n <= Len(bf.data)
         /\ c \in Int /\ Whole(c, Page) /\ x + n <= c + Page
         /\ n = SlinkBurst \/ off + n = Len(bf.data) \/ x + n = c + Page
<1>1. /\ bf.addr \in Nat /\ off \in Nat /\ Len(bf.data) \in Nat
      /\ SlinkBurst \in Int /\ SlinkBurst > 0 /\ Page \in Int /\ Page > 0
  BY SizeFacts DEF LoaderTypes
<1>2. PICK rest \in Int : rest = Len(bf.data) - off
  BY <1>1
<1>3. c \in Int /\ Whole(c, Page) /\ c <= x /\ x < c + Page
  BY <1>1, WordStart DEF Whole, PageStart
<1>4. PICK room \in Int : room = Page - (x % Page) /\ room = c + Page - x
  <2>1. x % Page \in Int
    BY <1>1, WordRule
  <2>2. PICK r \in Int : r = x % Page
    BY <2>1
  <2>3. c = x - r
    BY <2>2 DEF PageStart
  <2>4. Page - r \in Int /\ Page - r = c + Page - x
    BY <1>1, <1>3, <2>3
  <2>5. QED
    BY <2>2, <2>4
<1>5. n = Loader!Lowest({SlinkBurst, rest, room})
  BY <1>2, <1>4 DEF Loader!BurstLen
<1>6. SlinkBurst \in Int /\ rest \in Int /\ room \in Int
  BY <1>1, <1>2, <1>4
<1>7. (n = SlinkBurst \/ n = rest \/ n = room) /\ n <= SlinkBurst /\ n <= rest /\ n <= room
  BY <1>5, <1>6, LowestFacts, Zenon
<1>8. PICK e \in Int : e = c + Page /\ x < e /\ room = e - x
  BY <1>1, <1>3, <1>4
<1>9. n \in Int
  BY <1>6, <1>7
<1>10. PICK l \in Int, o \in Int : l = Len(bf.data) /\ o = off /\ o < l /\ rest = l - o
  BY <1>1, <1>2
<1>11. 1 <= n /\ o + n <= l /\ x + n <= e /\ (n = SlinkBurst \/ o + n = l \/ x + n = e)
  <2>1. n <= l - o /\ n <= e - x /\ (n = SlinkBurst \/ n = l - o \/ n = e - x)
    BY <1>7, <1>8, <1>10, Zenon
  <2>2. SlinkBurst \in Int /\ SlinkBurst > 0 /\ n <= SlinkBurst /\ x < e /\ o < l
    BY <1>1, <1>7, <1>8, <1>10
  <2>3. n \in Int /\ l \in Int /\ o \in Int /\ e \in Int /\ x \in Int
    BY <1>9
  <2>4. QED
    BY <2>1, <2>2, <2>3, BurstEnd
<1>12. QED
  BY <1>3, <1>7, <1>8, <1>9, <1>10, <1>11, Zenon

\* A burst from word v up to word u, of n bytes from address x, stays in the words
\* from f to g that a section of l bytes at address p is in.
LEMMA BurstPlace ==
  ASSUME NEW B \in Int, B > 0, NEW p \in Int, NEW l \in Int, NEW x \in Int, NEW n \in Int,
         p <= x, x + n <= p + l,
         NEW v \in Int, Whole(v, B), x < v + B, NEW u \in Int, Whole(u, B), u <= x + n + B - 1,
         NEW f \in Int, Whole(f, B), f <= p, NEW g \in Int, Whole(g, B), p + l - 1 < g + B
  PROVE  f <= v /\ u <= g + B
<1>1. f < v + B
  OBVIOUS
<1>2. f <= v
  BY <1>1, WholeFacts
<1>3. PICK q \in Int : q = g + B /\ Whole(q, B)
  BY WholeFacts
<1>4. u < q + B
  BY <1>3
<1>5. u <= q
  BY <1>3, <1>4, WholeFacts
<1>6. QED
  BY <1>2, <1>3, <1>5

\* The next burst starts on a word if this one does, which starts at byte o of a section
\* at address p, in page c.
LEMMA NextBurst ==
  ASSUME NEW B \in Int, B > 0, NEW P \in Int, P > 0, Whole(P, B), NEW S \in Int, Whole(S, B),
         NEW p \in Int, Whole(p, B), NEW o \in Int, Whole(o, B), NEW c \in Int, Whole(c, P),
         NEW n \in Int, n = S \/ p + o + n = c + P
  PROVE  Whole(o + n, B)
<1>1. CASE n = S
  BY <1>1, WholeFacts
<1>2. CASE p + o + n = c + P
  <2>1. Whole(c, B)
    <3>1. PICK k \in Int : c = P * k
      BY Words DEF Whole
    <3>2. PICK m \in Int : P = B * m
      BY Words DEF Whole
    <3>3. PICK j \in Int : j = m * k /\ c = B * j
      BY <3>1, <3>2
    <3>4. QED
      BY <3>3, Words DEF Whole
  <2>2. PICK e \in Int : e = c + P /\ Whole(e, B)
    BY <2>1, WholeFacts
  <2>3. PICK d \in Int : d = e - p /\ Whole(d, B)
    BY <2>2, WholeFacts
  <2>4. o + n = d
    BY <1>2, <2>2, <2>3
  <2>5. QED
    BY <2>3, <2>4
<1>3. QED
  BY <1>1, <1>2

\* A burst of slink_elf_preload: bytes of the section from address x on, in the words from
\* v to u.
LEMMA SlinkBurstInv ==
  ASSUME LoaderInv, at = "load", method = "slink", at' = "load",
         UNCHANGED <<file, method, sections, section_index, mems, entry, bf, sberr, start>>,
         NEW n \in Int, 1 <= n, off + n <= Len(bf.data), off' = off + n,
         NEW lo \in Int, lo <= off, Sound => lo = off, NEW hi \in Int, off + n - 1 <= hi,
         Loader!Store([i \in lo .. hi |-> IF i \in off .. off + n - 1 THEN Loader!Byte(i) ELSE Loader!Zero]),
         bf.addr % BusBytes = 0 /\ off' < Len(bf.data) => off' % BusBytes = 0,
         NEW s \in Loader!Loadable, \A a \in bf.addr + lo .. bf.addr + hi : a \in Loader!Touched(Seg(s)),
         Loader!BurstsLegal'
  PROVE  LoaderInv'
<1>1. LoaderTypes /\ SectionsInv /\ SendInv /\ RamInv
  BY DEF LoaderInv
<1>2. bf.addr \in Nat /\ Len(bf.data) \in Nat \ {0} /\ off \in Nat /\ Memory \subseteq Nat /\ off' \in Nat
  <2>1. bf.addr \in Nat /\ Len(bf.data) \in Nat \ {0} /\ off \in Nat
    BY <1>1, SentFacts, Zenon
  <2>2. Memory \subseteq Nat
    BY <1>1 DEF LoaderTypes, Loader!FilesFit
  <2>3. off' \in Nat
    BY <2>1
  <2>4. QED
    BY <2>1, <2>2, <2>3
<1>3. /\ ram' \in [Memory -> Nat \X Nat]
      /\ \A a \in Memory :
           /\ a - bf.addr < lo \/ hi < a - bf.addr => ram'[a] = ram[a]
           /\ off <= a - bf.addr /\ a - bf.addr <= off + n - 1 => ram'[a] = Loader!Byte(a - bf.addr)
  <2> DEFINE w == [i \in lo .. hi |-> IF i \in off .. off + n - 1 THEN Loader!Byte(i) ELSE Loader!Zero]
  <2>1. w \in [lo .. hi -> Nat \X Nat] /\ \A i \in lo .. hi : i \in off .. off + n - 1 => w[i] = Loader!Byte(i)
    <3>1. ASSUME NEW i \in lo .. hi PROVE Loader!Byte(i) \in Nat \X Nat
      <4>1. i \in Int
        OBVIOUS
      <4>2. QED
        BY <1>1, <4>1, ByteFacts
    <3>2. Loader!Zero \in Nat \X Nat
      BY DEF Loader!Zero
    <3>3. QED
      BY <3>1, <3>2
  <2>2. Loader!Store(w)
    OBVIOUS
  <2> HIDE DEF w
  <2>3. /\ ram' \in [Memory -> Nat \X Nat]
        /\ \A a \in Memory : IF lo <= a - bf.addr /\ a - bf.addr <= hi
                             THEN ram'[a] = w[a - bf.addr]
                             ELSE ram'[a] = ram[a]
    <3>1. w \in [lo .. hi -> Nat \X Nat]
      BY <2>1
    <3>2. QED
      BY <1>1, <2>2, <3>1, StoreFacts
  <2>4. ASSUME NEW a \in Memory
        PROVE  /\ a - bf.addr < lo \/ hi < a - bf.addr => ram'[a] = ram[a]
               /\ off <= a - bf.addr /\ a - bf.addr <= off + n - 1 => ram'[a] = Loader!Byte(a - bf.addr)
    <3>1. PICK k \in Int : k = a - bf.addr
      BY <1>2
    <3>2. ASSUME k < lo \/ hi < k PROVE ram'[a] = ram[a]
      <4>1. ~(lo <= k /\ k <= hi)
        BY <3>1, <3>2
      <4>2. QED
        BY <2>3, <3>1, <4>1
    <3>3. ASSUME off <= k, k <= off + n - 1 PROVE ram'[a] = Loader!Byte(k)
      <4>1. k \in lo .. hi /\ lo <= k /\ k <= hi /\ k \in off .. off + n - 1
        BY <1>2, <3>1, <3>3
      <4>2. QED
        BY <2>1, <2>3, <3>1, <4>1
    <3>4. QED
      BY <3>1, <3>2, <3>3
  <2>5. QED
    BY <2>3, <2>4
<1>4. ASSUME Sound, NEW a \in Memory, a < bf.addr + off PROVE ram'[a] = ram[a]
  <2>1. a - bf.addr < lo
    BY <1>2, <1>4
  <2>2. QED
    BY <1>3, <2>1
<1>5. ASSUME Sound, NEW a \in Memory, bf.addr + off <= a, a < bf.addr + Len(bf.data), a < bf.addr + off'
      PROVE  ram'[a] = bf.data[a - bf.addr + 1]
  <2>1. a - bf.addr \in 0 .. Len(bf.data) - 1 /\ a - bf.addr \in Int /\ off <= a - bf.addr /\ a - bf.addr <= off + n - 1
    BY <1>2, <1>5
  <2>2. ram'[a] = Loader!Byte(a - bf.addr)
    BY <1>3, <2>1
  <2>3. QED
    BY <1>1, <2>1, <2>2, ByteFacts
<1>6. ASSUME NEW a \in Memory, ram'[a] # ram[a]
      PROVE  \E t \in Loader!Loadable : a \in Loader!Touched(Seg(t))
  <2>1. a - bf.addr \in Int /\ ~(a - bf.addr < lo) /\ ~(hi < a - bf.addr) /\ a \in Nat
    BY <1>2, <1>3, <1>6
  <2>2. a \in bf.addr + lo .. bf.addr + hi
    BY <1>2, <2>1
  <2>3. QED
    BY <2>2
<1>7. sberr' \in BOOLEAN /\ (Sound => ~sberr')
  BY <1>1 DEF LoaderTypes, RamInv
<1>8. ~Loader!OverJtag /\ ~Loader!Memh
  BY DEF Loader!OverJtag, Loader!Memh
<1>9. QED
  BY <1>2, <1>3, <1>4, <1>5, <1>6, <1>7, <1>8, SendStep

\* slink_elf_preload.
LEMMA SlinkLoadInv == ASSUME LoaderInv, Loader!SlinkLoad PROVE LoaderInv'
<1>1. LoaderTypes /\ SectionsInv /\ SendInv
  BY DEF LoaderInv
<1>2. /\ at = "load" /\ method = "slink"
      /\ UNCHANGED <<file, method, sections, section_index, mems, entry, bf, sberr, start>>
  BY DEF Loader!SlinkLoad, Loader!given, Loader!reader
<1>3. /\ bf.addr \in Nat /\ Len(bf.data) \in Nat \ {0} /\ off \in Nat /\ Memory \subseteq Nat
      /\ BusBytes \in Int /\ BusBytes > 0 /\ Page \in Int /\ Page > 0 /\ Page % BusBytes = 0
      /\ SlinkBurst \in Int /\ SlinkBurst % BusBytes = 0 /\ SlinkBurst \div BusBytes + 1 <= 256
  BY <1>1, <1>2, SentFacts, SizeFacts DEF LoaderTypes, Loader!FilesFit
<1>4. PICK s \in Loader!Loadable : bf.addr = Seg(s).paddr /\ Len(bf.data) = Seg(s).memsz
  BY <1>1, <1>2, SentFacts
<1>5. CASE off >= Len(bf.data) /\ Loader!Loaded /\ UNCHANGED <<burst, ram>>
  BY <1>2, <1>5, LoadedStep
<1>6. CASE off < Len(bf.data)
  <2>1. PICK x \in Nat : x = bf.addr + off
    BY <1>3
  <2>2. PICK n : n = Loader!BurstLen
    OBVIOUS
  <2>3. PICK bus : bus = (bf.addr + off) % BusBytes
    OBVIOUS
  <2>4. PICK beats : beats = (bus + n + BusBytes - 1) \div BusBytes
    OBVIOUS
  <2>5. PICK lo : lo = off - bus
    OBVIOUS
  <2>6. PICK hi : hi = off - bus + beats * BusBytes - 1
    OBVIOUS
  <2>7. /\ burst' = [addr |-> bf.addr + off - bus, beats |-> beats]
        /\ Loader!Store([i \in lo .. hi |-> IF i \in off .. off + n - 1 THEN Loader!Byte(i) ELSE Loader!Zero])
        /\ at' = "load" /\ off' = off + n
    <3>1. ~(off >= Len(bf.data))
      BY <1>3, <1>6
    <3>2. QED
      BY <2>2, <2>3, <2>4, <2>5, <2>6, <3>1, Zenon DEF Loader!SlinkLoad, Loader!Sent
  <2>8. PICK c : c = PageStart(x)
    OBVIOUS
  <2>9. /\ n \in Int /\ 1 <= n /\ n <= SlinkBurst /\ off + n <= Len(bf.data)
        /\ c \in Int /\ Whole(c, Page) /\ x + n <= c + Page
        /\ n = SlinkBurst \/ off + n = Len(bf.data) \/ x + n = c + Page
    <3>1. x \in Int
      OBVIOUS
    <3>2. QED
      BY <1>1, <1>6, <2>1, <2>2, <2>8, <3>1, BurstLenFacts
  <2>10. PICK v \in Int : v = x - bus /\ Whole(v, BusBytes) /\ v <= x /\ x < v + BusBytes
    <3>1. x \in Int
      OBVIOUS
    <3>2. bus = x % BusBytes
      BY <2>1, <2>3
    <3>3. QED
      BY <1>3, <3>1, <3>2, WordStart DEF Whole
  <2>11. /\ bus \in Int /\ beats \in 1 .. 256
         /\ beats * BusBytes >= bus + n /\ beats * BusBytes <= bus + n + BusBytes - 1 /\ Whole(beats * BusBytes, BusBytes)
         /\ v \div Page = (v + beats * BusBytes - 1) \div Page
    <3>1. bus = x % BusBytes /\ bus \in Int /\ bus = x - v
      <4>1. bus = x % BusBytes
        BY <2>1, <2>3
      <4>2. bus \in Int
        BY <1>3, <4>1, WordRule
      <4>3. QED
        BY <2>10, <4>1, <4>2
    <3>2. n <= Page - (x % Page)
      <4>1. x % Page \in Int /\ Page \in Int /\ n \in Int /\ c \in Int /\ x + n <= c + Page
        BY <1>3, <2>9, WordRule
      <4>2. PICK r \in Int : r = x % Page
        BY <4>1
      <4>3. c = x - r
        BY <2>8, <4>2 DEF PageStart
      <4>4. n <= Page - r
        BY <4>1, <4>3
      <4>5. QED
        BY <4>2, <4>4
    <3>3. BurstSizes(BusBytes, Page, SlinkBurst) /\ BurstCut(BusBytes, Page, x, n, bus, beats)
      BY <1>3, <2>4, <3>1, <3>2 DEF BurstSizes, BurstCut
    <3>4. BurstFits(BusBytes, Page, x, n, bus, beats)
      <4>1. /\ BusBytes \in Int /\ BusBytes > 0 /\ Page \in Int /\ Page > 0 /\ SlinkBurst \in Int
            /\ x \in Nat /\ n \in Int /\ 1 <= n /\ n <= SlinkBurst
        BY <1>3, <2>9
      <4>2. QED
        BY <3>3, <4>1, BurstWords
    <3>5. x - bus = v
      BY <2>10
    <3>6. QED
      BY <3>1, <3>4, <3>5 DEF Whole, BurstFits
  <2>12. PICK y \in Int : y = beats * BusBytes
    BY <1>3, <2>11
  <2>13. /\ bus \in Int /\ y >= bus + n /\ y <= bus + n + BusBytes - 1 /\ Whole(y, BusBytes)
         /\ hi = off - bus + y - 1
    BY <2>6, <2>11, <2>12
  <2>14. lo \in Int /\ hi \in Int /\ lo <= off /\ off + n - 1 <= hi
    BY <1>3, <2>5, <2>9, <2>10, <2>13
  <2>15. Loader!BurstsLegal'
    <3>1. bf.addr + off - bus = v
      <4>1. x = bf.addr + off /\ v = x - bus /\ bf.addr \in Nat /\ off \in Nat /\ bus \in Int
        BY <1>3, <2>1, <2>10, <2>13
      <4>2. QED
        BY <4>1
    <3>2. burst'.beats = beats /\ burst'.addr = v
      BY <2>7, <3>1
    <3>3. beats \in 1 .. 256 /\ v \div Page = (v + beats * BusBytes - 1) \div Page
      BY <2>11
    <3>4. QED
      BY <3>2, <3>3, Zenon DEF Loader!BurstsLegal
  <2>16. Whole(bf.addr, BusBytes) => Whole(off, BusBytes)
    BY <1>1, <1>2, <1>6 DEF SendInv, Whole
  <2>17. bf.addr \in Int /\ off \in Int /\ x = bf.addr + off /\ Whole(Page, BusBytes) /\ Whole(SlinkBurst, BusBytes)
    BY <1>3, <2>1 DEF Whole
  <2>18. bf.addr % BusBytes = 0 /\ off' < Len(bf.data) => off' % BusBytes = 0
    <3>1. SUFFICES ASSUME Whole(bf.addr, BusBytes), off + n < Len(bf.data) PROVE Whole(off + n, BusBytes)
      BY <2>7 DEF Whole
    <3>2. n = SlinkBurst \/ bf.addr + off + n = c + Page
      BY <1>3, <2>9, <2>17, <3>1
    <3>3. QED
      BY <1>3, <2>9, <2>16, <2>17, <3>1, <3>2, NextBurst
  <2>19. Sound => lo = off
    <3>1. SUFFICES ASSUME Sound PROVE x = v
      BY <1>3, <2>5, <2>10, <2>13
    <3>2. Whole(bf.addr, BusBytes)
      BY <1>1, <1>4, <3>1, OrderlyFacts DEF Sound, Whole
    <3>3. Whole(x, BusBytes)
      BY <1>3, <2>16, <2>17, <3>2, WholeFacts
    <3>4. QED
      BY <1>3, <2>10, <3>3, WholeFacts
  <2>20. \A a \in bf.addr + lo .. bf.addr + hi : a \in Loader!Touched(Seg(s))
    <3>1. PICK l \in Int : l = Len(bf.data)
      BY <1>3
    <3>2. PICK p \in Int : p = bf.addr
      BY <1>3
    <3>3. PICK u \in Int : u = v + y /\ Whole(u, BusBytes)
      BY <1>3, <2>10, <2>13, WholeFacts
    <3>4. PICK f \in Int : f = p - (p % BusBytes) /\ Whole(f, BusBytes) /\ f <= p
      BY <1>3, WordStart DEF Whole
    <3>5. PICK g \in Int :
            g = (p + l - 1) - ((p + l - 1) % BusBytes) /\ Whole(g, BusBytes) /\ p + l - 1 < g + BusBytes
      <4>1. p + l - 1 \in Int
        OBVIOUS
      <4>2. QED
        BY <1>3, <4>1, WordStart DEF Whole
    <3>6. x \in Int /\ p <= x /\ x + n <= p + l /\ u <= x + n + BusBytes - 1
      <4>1. /\ x = p + off /\ off \in Nat /\ off + n <= l /\ n \in Int
            /\ v = x - bus /\ u = v + y /\ bus \in Int /\ y <= bus + n + BusBytes - 1 /\ BusBytes \in Int
        BY <1>3, <2>1, <2>9, <2>10, <2>13, <3>1, <3>2, <3>3
      <4>2. QED
        BY <4>1
    <3>7. x < v + BusBytes /\ Whole(v, BusBytes) /\ Whole(u, BusBytes) /\ Whole(f, BusBytes) /\ f <= p
          /\ Whole(g, BusBytes) /\ p + l - 1 < g + BusBytes
      BY <2>10, <3>3, <3>4, <3>5
    <3>8. f <= v /\ u <= g + BusBytes
      BY <1>3, <2>9, <3>6, <3>7, BurstPlace
    <3>9. Loader!Touched(Seg(s)) = f .. g + BusBytes - 1
      BY <1>2, <1>4, <3>1, <3>2, <3>4, <3>5 DEF Loader!Touched, Loader!Down
    <3>10. bf.addr + lo = v /\ bf.addr + hi = u - 1
      <4>1. /\ x = p + off /\ off \in Nat /\ lo = off - bus /\ hi = off - bus + y - 1
            /\ v = x - bus /\ u = v + y /\ bus \in Int
        BY <1>3, <2>1, <2>5, <2>10, <2>13, <3>2, <3>3
      <4>2. p + lo = v /\ p + hi = u - 1
        BY <4>1
      <4>3. QED
        BY <3>2, <4>2
    <3>11. \A a \in v .. u - 1 : a \in f .. g + BusBytes - 1
      BY <1>3, <3>8
    <3>12. QED
      BY <3>9, <3>10, <3>11
  <2>21. QED
    BY <1>2, <2>7, <2>9, <2>14, <2>15, <2>18, <2>19, <2>20, SlinkBurstInv
<1>7. QED
  BY <1>3, <1>5, <1>6 DEF Loader!SlinkLoad

(* The ELF reader. *)

\* A set of numbers has a least one.
LEMMA LeastHeader == ASSUME NEW T \in SUBSET Nat, T # {} PROVE \E x \in T : \A y \in T : x <= y
<1>1. PICK x \in T : \A y \in T : ~(<<y, x>> \in OpToRel(<, Nat))
  BY NatLessThanWellFounded, WFMin
<1>2. \A y \in T : ~(y < x)
  BY <1>1 DEF OpToRel
<1>3. QED
  BY <1>2

\* The data of a segment.
LEMMA ContentsFacts ==
  ASSUME LoaderTypes, NEW s \in Loader!Loadable
  PROVE  /\ Loader!Contents(s) \in Seq(Nat \X Nat) /\ Len(Loader!Contents(s)) = Seg(s).filesz
         /\ \A k \in 1 .. Seg(s).filesz : Loader!Contents(s)[k] = <<s, k - 1>>
<1>1. s \in Nat /\ Seg(s).filesz \in Nat
  BY HeaderFacts
<1>2. PICK n \in Nat : n = Seg(s).filesz
  BY <1>1
<1>3. Loader!Contents(s) = [k \in 1 .. n |-> <<s, k - 1>>]
  BY <1>2 DEF Loader!Contents, Seg
<1>4. \A k \in 1 .. n : <<s, k - 1>> \in Nat \X Nat
  BY <1>1
<1>5. QED
  BY <1>2, <1>3, <1>4

\* write() adds the data of every address that a header has, and changes none.
LEMMA InsertedFacts ==
  ASSUME LoaderTypes, NEW ins, ins = Loader!Inserted
  PROVE  /\ \A s \in Loader!Loadable : Seg(s).paddr \in DOMAIN ins
         /\ \A a \in DOMAIN mems : a \in DOMAIN ins /\ ins[a] = mems[a]
         /\ \A a \in DOMAIN ins : a \notin DOMAIN mems =>
              \E s \in Loader!Loadable : Seg(s).paddr = a /\ ins[a] = Loader!Contents(s)
<1> DEFINE new == {Seg(s).paddr : s \in Loader!Loadable} \ DOMAIN mems
           First(a) == CHOOSE s \in Loader!Loadable :
                         Seg(s).paddr = a /\ \A t \in Loader!Loadable : Seg(t).paddr = a => s <= t
<1>1. ins = [a \in DOMAIN mems \cup new |-> IF a \in DOMAIN mems THEN mems[a] ELSE Loader!Contents(First(a))]
  BY DEF Loader!Inserted, Seg
<1>2. ASSUME NEW a \in new PROVE First(a) \in Loader!Loadable /\ Seg(First(a)).paddr = a
  <2> DEFINE T == {s \in Loader!Loadable : Seg(s).paddr = a}
  <2>1. T \in SUBSET Nat /\ T # {}
    BY HeaderFacts
  <2>2. PICK s \in T : \A t \in T : s <= t
    <3> HIDE DEF T
    <3>1. QED
      BY <2>1, LeastHeader
  <2>3. s \in Loader!Loadable /\ Seg(s).paddr = a /\ \A t \in Loader!Loadable : Seg(t).paddr = a => s <= t
    BY <2>2
  <2>4. QED
    BY <2>3
<1> HIDE DEF First
<1>3. QED
  BY <1>1, <1>2

\* What load_elf leaves: sections that stem from headers and have data.
LEMMA LoadElfFacts ==
  ASSUME LoaderTypes, SectionsInv, file' = file, NEW next, Loader!LoadElf(next)
  PROVE  /\ at' \in {next, "abort"} /\ section_index' = section_index
         /\ sections' \in Seq([addr : Nat, len : Nat \ {0}]) /\ section_index' \in 0 .. Len(sections')
         /\ \A a \in DOMAIN mems' : mems'[a] \in Seq(Nat \X Nat)
         /\ \A i \in 1 .. Len(sections') :
              sections'[i].addr \in DOMAIN mems' /\ \E s \in Loader!Loadable : sections'[i] = SectionOf(s)
         /\ file.phtab /\ at' = next /\ next # "abort" => entry' = file.entry
<1> DEFINE R == [addr : Nat, len : Nat \ {0}]
<1>1. sections \in Seq(R) /\ Len(sections) \in Nat /\ section_index \in 0 .. Len(sections)
  BY DEF LoaderTypes
<1> HIDE DEF R
<1>2. CASE at' \in {next, "abort"} /\ UNCHANGED <<sections, section_index, mems, entry>> /\ (~file.phtab \/ at' = "abort")
  BY <1>1, <1>2 DEF SectionsInv, R
<1>3. ASSUME NEW visit \in Loader!Visits, sections' = Loader!Listed(visit),
             mems' = Loader!Inserted, entry' = file.entry, section_index' = section_index, at' = next
      PROVE  /\ at' \in {next, "abort"} /\ section_index' = section_index
             /\ sections' \in Seq(R) /\ section_index' \in 0 .. Len(sections')
             /\ \A a \in DOMAIN mems' : mems'[a] \in Seq(Nat \X Nat)
             /\ \A i \in 1 .. Len(sections') :
                  sections'[i].addr \in DOMAIN mems' /\ \E s \in Loader!Loadable : sections'[i] = SectionOf(s)
             /\ file.phtab /\ at' = next /\ next # "abort" => entry' = file.entry
  <2>1. PICK n \in 0 .. Len(file.segs) : visit \in [1 .. n -> Loader!Loadable]
    BY <1>3 DEF Loader!Visits
  <2>2. n \in Nat
    BY DEF LoaderTypes, Loader!FilesFit
  <2> DEFINE rows == [i \in DOMAIN visit |-> [addr |-> file.segs[visit[i]].paddr, len |-> file.segs[visit[i]].memsz]]
  <2>3. /\ \A i \in 1 .. n : visit[i] \in Loader!Loadable /\ SectionOf(visit[i]) \in R
        /\ rows = [i \in 1 .. n |-> SectionOf(visit[i])]
    <3>1. \A i \in 1 .. n : visit[i] \in Loader!Loadable
      BY <2>1
    <3>2. \A s \in Loader!Loadable : SectionOf(s) \in R
      BY HeaderFacts DEF SectionOf, R
    <3>3. QED
      BY <2>1, <3>1, <3>2 DEF SectionOf, Seg
  <2>4. sections' = sections \o rows
    BY <1>3 DEF Loader!Listed
  <2> HIDE DEF rows
  <2>5. rows \in Seq(R) /\ Len(rows) = n /\ \A i \in 1 .. n : rows[i] = SectionOf(visit[i])
    BY <2>2, <2>3
  <2>6. /\ sections' \in Seq(R) /\ Len(sections') = Len(sections) + n
        /\ \A i \in 1 .. Len(sections) + n : sections'[i] =
             IF i <= Len(sections) THEN sections[i] ELSE rows[i - Len(sections)]
    BY <1>1, <2>4, <2>5, ConcatProperties
  <2>7. /\ \A s \in Loader!Loadable : Seg(s).paddr \in DOMAIN mems'
        /\ \A a \in DOMAIN mems : a \in DOMAIN mems' /\ mems'[a] = mems[a]
        /\ \A a \in DOMAIN mems' : a \notin DOMAIN mems =>
             \E s \in Loader!Loadable : Seg(s).paddr = a /\ mems'[a] = Loader!Contents(s)
    BY <1>3, InsertedFacts
  <2>8. ASSUME NEW i \in 1 .. Len(sections')
        PROVE  sections'[i].addr \in DOMAIN mems' /\ \E s \in Loader!Loadable : sections'[i] = SectionOf(s)
    <3>1. CASE i <= Len(sections)
      <4>1. i \in 1 .. Len(sections) /\ sections'[i] = sections[i]
        BY <1>1, <2>2, <2>6, <3>1
      <4>2. QED
        BY <2>7, <4>1 DEF SectionsInv
    <3>2. CASE i > Len(sections)
      <4>1. i - Len(sections) \in 1 .. n /\ sections'[i] = rows[i - Len(sections)]
        BY <1>1, <2>2, <2>6, <3>2
      <4>2. PICK j \in 1 .. n : sections'[i] = SectionOf(visit[j])
        BY <2>5, <4>1
      <4>3. visit[j] \in Loader!Loadable
        BY <2>3
      <4>4. sections'[i].addr = Seg(visit[j]).paddr
        BY <4>2 DEF SectionOf
      <4>5. QED
        BY <2>7, <4>2, <4>3, <4>4
    <3>3. i \in Int /\ Len(sections) \in Int
      BY <1>1
    <3>4. QED
      BY <3>1, <3>2, <3>3
  <2>9. \A a \in DOMAIN mems' : mems'[a] \in Seq(Nat \X Nat)
    BY <2>7, ContentsFacts DEF SectionsInv
  <2>10. section_index' \in 0 .. Len(sections')
    BY <1>1, <1>3, <2>2, <2>6
  <2>11. QED
    BY <1>3, <2>6, <2>8, <2>9, <2>10
<1>4. QED
  BY <1>2, <1>3 DEF Loader!LoadElf, Loader!reader, R

\* The first reading of an orderly file leaves all sections, in ascending order and apart,
\* and their data.
LEMMA FirstReading ==
  ASSUME LoaderTypes, sections = <<>>, mems = <<>>, Loader!Orderly,
         NEW visit \in Loader!Visits, NEW list, list = Loader!Listed(visit), NEW ins, ins = Loader!Inserted
  PROVE  /\ \A s \in Loader!Loadable :
              /\ Seg(s).paddr \in DOMAIN ins /\ ins[Seg(s).paddr] = Loader!Contents(s)
              /\ \E i \in 1 .. Len(list) : list[i] = SectionOf(s)
         /\ \A i, j \in 1 .. Len(list) : i < j => list[i].addr + list[i].len <= list[j].addr
<1>1. PICK n \in 0 .. Len(file.segs) : visit \in [1 .. n -> Loader!Loadable]
  BY DEF Loader!Visits
<1>2. n \in Nat
  BY DEF LoaderTypes, Loader!FilesFit
<1>3. /\ \A i, j \in 1 .. n : i < j => visit[i] < visit[j]
      /\ \A s \in Loader!Loadable : \E i \in 1 .. n : visit[i] = s
  BY <1>1 DEF Loader!Visits
<1>4. Len(list) = n /\ \A i \in 1 .. n : list[i] = SectionOf(visit[i])
  <2> DEFINE rows == [i \in 1 .. n |-> SectionOf(visit[i])]
             R == [addr : Nat, len : Nat \ {0}]
  <2>1. list = <<>> \o rows
    BY <1>1 DEF Loader!Listed, SectionOf, Seg
  <2>2. \A i \in 1 .. n : SectionOf(visit[i]) \in R
    BY <1>1, HeaderFacts DEF SectionOf
  <2> HIDE DEF R
  <2>3. rows \in Seq(R) /\ Len(rows) = n /\ \A i \in 1 .. n : rows[i] = SectionOf(visit[i])
    BY <1>2, <2>2
  <2> HIDE DEF rows
  <2>4. list = rows
    BY <2>1, <2>3, ConcatEmptySeq
  <2>5. QED
    BY <2>3, <2>4
<1>5. ASSUME NEW s \in Loader!Loadable
      PROVE  /\ Seg(s).paddr \in DOMAIN ins /\ ins[Seg(s).paddr] = Loader!Contents(s)
             /\ \E i \in 1 .. Len(list) : list[i] = SectionOf(s)
  <2>1. Seg(s).paddr \in DOMAIN ins /\ Seg(s).paddr \notin DOMAIN mems
    BY InsertedFacts
  <2>2. PICK t \in Loader!Loadable : Seg(t).paddr = Seg(s).paddr /\ ins[Seg(s).paddr] = Loader!Contents(t)
    BY <2>1, InsertedFacts
  <2>3. t = s
    BY <2>2, OrderlyFacts
  <2>4. PICK i \in 1 .. n : visit[i] = s
    BY <1>3
  <2>5. i \in 1 .. Len(list) /\ list[i] = SectionOf(s)
    BY <1>4, <2>4
  <2>6. QED
    BY <2>1, <2>2, <2>3, <2>5
<1>6. ASSUME NEW i \in 1 .. n, NEW j \in 1 .. n, i < j
      PROVE  list[i].addr + list[i].len <= list[j].addr
  <2>1. visit[i] < visit[j] /\ visit[i] \in Loader!Loadable /\ visit[j] \in Loader!Loadable
    BY <1>1, <1>3, <1>6
  <2>2. Seg(visit[i]).paddr + Seg(visit[i]).memsz <= Seg(visit[j]).paddr
    BY <2>1 DEF Loader!Orderly, Seg
  <2>3. QED
    BY <1>4, <2>2 DEF SectionOf
<1>7. QED
  BY <1>4, <1>5, <1>6

\* A step that writes nothing keeps what is in memory, and the last burst.
LEMMA QuietStep ==
  ASSUME LoaderTypes, Loader!OnlySections, Loader!BurstsLegal, UNCHANGED <<file, method, burst, ram>>
  PROVE  Loader!OnlySections' /\ Loader!BurstsLegal'
<1>1. Loader!OnlySections'
  BY TouchStep
<1>2. Loader!BurstsLegal'
  BY DEF Loader!BurstsLegal
<1>3. QED
  BY <1>1, <1>2

\* After a step that ends the simulation nothing is asked but types.
LEMMA EndStep ==
  ASSUME LoaderInv, at' \in {"fatal", "abort"}, UNCHANGED <<file, method, bf, off, sberr, burst, ram, start>>,
         sections' \in Seq([addr : Nat, len : Nat \ {0}]), section_index' \in 0 .. Len(sections'),
         \A a \in DOMAIN mems' : mems'[a] \in Seq(Nat \X Nat),
         \A i \in 1 .. Len(sections') :
           sections'[i].addr \in DOMAIN mems' /\ \E s \in Loader!Loadable : sections'[i] = SectionOf(s)
  PROVE  LoaderInv'
<1>1. LoaderTypes /\ RamInv /\ Loader!OnlySections /\ Loader!BurstsLegal
  BY DEF LoaderInv
<1>2. Sound' = Sound /\ Loader!Loadable' = Loader!Loadable
  BY SameFile
<1>3. LoaderTypes'
  BY <1>1 DEF LoaderTypes, Loader!FilesFit, Loader!SizesFit
<1>4. SectionsInv'
  BY <1>2 DEF SectionsInv, SectionOf, Seg
<1>5. SendInv' /\ ReaderInv' /\ BufferInv'
  BY DEF SendInv, ReaderInv, BufferInv
<1>6. RamInv'
  BY <1>1, <1>2 DEF RamInv
<1>7. Loader!OnlySections' /\ Loader!BurstsLegal'
  BY <1>1, QuietStep
<1>8. QED
  BY <1>3, <1>4, <1>5, <1>6, <1>7 DEF LoaderInv

\* read_elf at the start.
LEMMA ReadInv == ASSUME LoaderInv, Loader!Read PROVE LoaderInv'
<1>1. LoaderTypes /\ SectionsInv /\ RamInv /\ Loader!OnlySections /\ Loader!BurstsLegal
  BY DEF LoaderInv
<1>2. /\ at = "read" /\ Loader!ReadElf("fetch")
      /\ UNCHANGED <<file, method, bf, off, sberr, burst, ram, start>>
  BY DEF Loader!Read, Loader!given
<1>3. Sound' = Sound /\ Loader!Loadable' = Loader!Loadable
  BY <1>2, SameFile
<1>4. CASE at' = "fatal" /\ UNCHANGED <<sections, section_index, mems, entry>>
  BY <1>1, <1>2, <1>4, EndStep DEF LoaderTypes, SectionsInv
<1>5. CASE Loader!LoadElf("fetch")
  <2>1. /\ at' \in {"fetch", "abort"} /\ section_index' = section_index
        /\ sections' \in Seq([addr : Nat, len : Nat \ {0}]) /\ section_index' \in 0 .. Len(sections')
        /\ \A a \in DOMAIN mems' : mems'[a] \in Seq(Nat \X Nat)
        /\ \A i \in 1 .. Len(sections') :
             sections'[i].addr \in DOMAIN mems' /\ \E s \in Loader!Loadable : sections'[i] = SectionOf(s)
        /\ file.phtab /\ at' = "fetch" => entry' = file.entry
    BY <1>1, <1>2, <1>5, LoadElfFacts
  <2>2. CASE at' = "abort"
    BY <1>2, <2>1, <2>2, EndStep
  <2>3. CASE at' = "fetch"
    <3>1. sections = <<>> /\ mems = <<>> /\ section_index = 0
      BY <1>1, <1>2 DEF SectionsInv
    <3>2. LoaderTypes'
      BY <1>1, <1>2, <2>1, <2>3 DEF LoaderTypes, Loader!FilesFit, Loader!SizesFit
    <3>3. SectionsInv'
      BY <1>2, <1>3, <2>1, <2>3 DEF SectionsInv, SectionOf, Seg
    <3>4. SendInv' /\ BufferInv'
      BY <2>3 DEF SendInv, BufferInv
    <3>5. ReaderInv'
      <4>1. SUFFICES ASSUME Sound PROVE ReaderInv'
        BY <1>3 DEF ReaderInv
      <4>2. PICK visit \in Loader!Visits : sections' = Loader!Listed(visit)
        BY <1>5, <2>3, <4>1 DEF Loader!LoadElf, Sound
      <4>3. mems' = Loader!Inserted
        BY <1>5, <2>3, <4>1 DEF Loader!LoadElf, Sound
      <4>4. /\ \A s \in Loader!Loadable :
                 /\ Seg(s).paddr \in DOMAIN mems' /\ mems'[Seg(s).paddr] = Loader!Contents(s)
                 /\ \E i \in 1 .. Len(sections') : sections'[i] = SectionOf(s)
            /\ \A i, j \in 1 .. Len(sections') : i < j => sections'[i].addr + sections'[i].len <= sections'[j].addr
        BY <1>1, <3>1, <4>1, <4>2, <4>3, FirstReading DEF Sound
      <4>5. entry' = file.entry
        BY <2>1, <2>3, <4>1 DEF Sound
      <4>6. QED
        BY <1>2, <1>3, <4>4, <4>5 DEF ReaderInv, SectionOf, Seg, Loader!Contents
    <3>6. RamInv'
      <4>1. 1 .. section_index' = {}
        BY <2>1, <3>1
      <4>2. QED
        BY <1>1, <1>2, <1>3, <2>3, <4>1 DEF RamInv
    <3>7. Loader!OnlySections' /\ Loader!BurstsLegal'
      BY <1>1, <1>2, QuietStep
    <3>8. QED
      BY <3>2, <3>3, <3>4, <3>5, <3>6, <3>7 DEF LoaderInv
  <2>4. QED
    BY <2>1, <2>2, <2>3
<1>6. QED
  BY <1>2, <1>4, <1>5 DEF Loader!ReadElf, Loader!reader

\* What get_section and read_section return.
LEMMA FetchInv == ASSUME LoaderInv, Loader!Fetch PROVE LoaderInv'
<1>1. LoaderTypes /\ SectionsInv /\ ReaderInv /\ RamInv /\ Loader!OnlySections /\ Loader!BurstsLegal
  BY DEF LoaderInv
<1>2. /\ at = "fetch" /\ section_index < Len(sections) /\ section_index' = section_index + 1 /\ off' = 0
      /\ UNCHANGED <<file, method, sections, mems, entry, sberr, burst, ram, start>>
      /\ at' \in {"load", "fatal"}
  BY DEF Loader!Fetch, Loader!given
<1>3. Sound' = Sound /\ Loader!Loadable' = Loader!Loadable
  BY <1>2, SameFile
<1>4. section_index \in Nat /\ section_index' \in 1 .. Len(sections) /\ Len(sections) \in Nat
  BY <1>1, <1>2 DEF LoaderTypes
<1>5. Loader!Section = sections[section_index']
  BY <1>2 DEF Loader!Section
<1>6. PICK s \in Loader!Loadable : sections[section_index'] = SectionOf(s) /\ Seg(s).paddr \in DOMAIN mems
  <2>1. PICK i \in 1 .. Len(sections) : i = section_index'
    BY <1>4
  <2>2. sections[i].addr \in DOMAIN mems /\ \E s \in Loader!Loadable : sections[i] = SectionOf(s)
    BY <1>1 DEF SectionsInv
  <2>3. PICK s \in Loader!Loadable : sections[i] = SectionOf(s)
    BY <2>2
  <2>4. Seg(s).paddr \in DOMAIN mems
    BY <2>2, <2>3 DEF SectionOf
  <2>5. QED
    BY <2>1, <2>3, <2>4
<1> DEFINE d == mems[Seg(s).paddr]
<1>7. Loader!Section.addr = Seg(s).paddr /\ Loader!Section.len = Seg(s).memsz /\ Loader!Data(Loader!Section.addr) = d
  BY <1>5, <1>6 DEF SectionOf, Loader!Data
<1>8. d \in Seq(Nat \X Nat) /\ Len(d) \in Nat
  BY <1>1, <1>6 DEF SectionsInv
<1>9. Seg(s).paddr \in Nat /\ Seg(s).memsz \in Nat \ {0} /\ Seg(s).filesz \in Nat \ {0} /\ s \in Nat
  BY <1>1, HeaderFacts
<1> HIDE DEF d
<1>10. SectionsInv'
  BY <1>1, <1>2, <1>3 DEF SectionsInv, SectionOf, Seg
<1>11. ReaderInv'
  BY <1>1, <1>2, <1>3 DEF ReaderInv, SectionOf, Seg, Loader!Contents
<1>12. Loader!OnlySections' /\ Loader!BurstsLegal'
  BY <1>1, <1>2, QuietStep
<1>13. off' \in Nat
  BY <1>2
<1>14. CASE at' = "fatal"
  <2>1. bf' = bf
    BY <1>14 DEF Loader!Fetch
  <2>2. LoaderTypes'
    BY <1>1, <1>2, <1>4, <1>13, <2>1 DEF LoaderTypes, Loader!FilesFit, Loader!SizesFit
  <2>3. SendInv' /\ BufferInv'
    BY <1>14 DEF SendInv, BufferInv
  <2>4. RamInv'
    BY <1>1, <1>2, <1>3, <1>14 DEF RamInv
  <2>5. QED
    BY <1>10, <1>11, <1>12, <2>2, <2>3, <2>4 DEF LoaderInv
<1>15. CASE at' = "load"
  <2>1. bf' = [addr |-> Seg(s).paddr, data |-> [i \in 1 .. Seg(s).memsz |-> IF i <= Len(d) THEN d[i] ELSE Loader!Zero]]
    BY <1>7, <1>15 DEF Loader!Fetch
  <2>2. PICK n \in Nat : n = Seg(s).memsz
    BY <1>9
  <2>3. bf'.addr = Seg(s).paddr /\ bf'.data = [i \in 1 .. n |-> IF i <= Len(d) THEN d[i] ELSE Loader!Zero]
    BY <2>1, <2>2
  <2>4. bf'.data \in Seq(Nat \X Nat) /\ Len(bf'.data) = n
    <3>1. \A i \in 1 .. n : (IF i <= Len(d) THEN d[i] ELSE Loader!Zero) \in Nat \X Nat
      <4>1. Loader!Zero \in Nat \X Nat
        BY DEF Loader!Zero
      <4>2. \A i \in 1 .. n : i <= Len(d) => d[i] \in Nat \X Nat
        BY <1>8
      <4>3. QED
        BY <4>1, <4>2
    <3>2. QED
      BY <2>3, <3>1
  <2>5. bf' \in [addr : Nat, data : Seq(Nat \X Nat)]
    BY <1>9, <2>1, <2>4
  <2>6. LoaderTypes'
    BY <1>1, <1>2, <1>4, <1>13, <1>15, <2>5 DEF LoaderTypes, Loader!FilesFit, Loader!SizesFit
  <2>7. SendInv'
    <3>1. bf'.addr = sections[section_index'].addr /\ Len(bf'.data) = sections[section_index'].len
      BY <1>6, <2>2, <2>3, <2>4 DEF SectionOf
    <3>2. off' % BusBytes = 0
      <4>1. 0 = BusBytes * 0 /\ 0 \in Int /\ BusBytes \in Int /\ BusBytes > 0
        BY <1>1, SizeFacts DEF LoaderTypes
      <4>2. QED
        BY <1>2, <4>1, Words
    <3>3. QED
      BY <1>2, <1>4, <3>1, <3>2 DEF SendInv
  <2>8. BufferInv'
    <3>1. ASSUME Sound, NEW t \in Loader!Loadable, sections[section_index'] = SectionOf(t), NEW k \in 1 .. Len(bf'.data)
          PROVE  bf'.data[k] = Due(t, bf'.addr + k - 1)
      <4>1. t = s
        BY <1>1, <1>6, <3>1, OrderlyFacts DEF Sound, SectionOf
      <4>2. d = Loader!Contents(s)
        BY <1>1, <1>2, <3>1 DEF ReaderInv, d
      <4>3. Len(d) = Seg(s).filesz /\ \A j \in 1 .. Seg(s).filesz : d[j] = <<s, j - 1>>
        BY <1>1, <4>2, ContentsFacts
      <4>4. k \in 1 .. n /\ bf'.data[k] = IF k <= Len(d) THEN d[k] ELSE Loader!Zero
        BY <2>3, <2>4, <3>1
      <4>5. Due(t, bf'.addr + k - 1) = IF k - 1 < Seg(s).filesz THEN <<s, k - 1>> ELSE Loader!Zero
        <5>1. PICK a : a = bf'.addr + k - 1
          OBVIOUS
        <5>2. a - Seg(s).paddr = k - 1
          BY <1>9, <2>2, <2>3, <4>4, <5>1
        <5>3. Due(s, a) = IF a - Seg(s).paddr < Seg(s).filesz THEN <<s, a - Seg(s).paddr>> ELSE Loader!Zero
          BY DEF Due, Loader!Expected
        <5>4. QED
          BY <4>1, <5>1, <5>2, <5>3
      <4>6. k <= Seg(s).filesz <=> k - 1 < Seg(s).filesz
        BY <1>9, <4>4
      <4>7. CASE k <= Seg(s).filesz
        <5>1. k \in 1 .. Seg(s).filesz
          BY <1>9, <4>4, <4>7
        <5>2. QED
          BY <4>3, <4>4, <4>5, <4>6, <4>7, <5>1
      <4>8. QED
        BY <4>3, <4>4, <4>5, <4>6, <4>7
    <3>2. QED
      BY <1>2, <1>3, <3>1 DEF BufferInv, SectionOf, Seg, Due, Loader!Expected, Loader!Zero
  <2>9. RamInv'
    <3>1. ASSUME Sound, NEW i \in 1 .. section_index', NEW t \in Wanted, sections[i] = SectionOf(t),
                 NEW a \in Loader!Extent(Seg(t)), i = section_index' => a < bf'.addr + off'
          PROVE  ram[a] = Due(t, a)
      <4> t \in Loader!Loadable
        BY DEF Wanted
      <4>1. a \in Nat /\ Seg(t).paddr <= a
        BY <1>1, HeaderFacts
      <4>2. i # section_index'
        <5>1. SUFFICES ASSUME i = section_index' PROVE FALSE
          OBVIOUS
        <5>2. Seg(t).paddr = Seg(s).paddr
          BY <1>6, <3>1, <5>1 DEF SectionOf
        <5>3. a < Seg(s).paddr
          BY <1>2, <1>9, <2>3, <3>1, <5>1
        <5>4. QED
          BY <1>9, <4>1, <5>2, <5>3
      <4>3. i \in 1 .. section_index
        BY <1>2, <1>4, <4>2
      <4>4. QED
        BY <1>1, <1>2, <3>1, <4>3 DEF RamInv
    <3>2. Wanted' = Wanted
      BY <1>2, SameWanted
    <3>3. QED
      BY <1>1, <1>2, <1>3, <1>15, <3>1, <3>2
        DEF RamInv, SectionOf, Seg, Due, Loader!Expected, Loader!Extent, Loader!Zero
  <2>10. QED
    BY <1>10, <1>11, <1>12, <2>6, <2>7, <2>8, <2>9 DEF LoaderInv
<1>16. QED
  BY <1>2, <1>14, <1>15

\* There are no more sections.
LEMMA FetchEndInv == ASSUME LoaderInv, Loader!FetchEnd PROVE LoaderInv'
<1>1. LoaderTypes /\ SectionsInv /\ ReaderInv /\ RamInv /\ Loader!OnlySections /\ Loader!BurstsLegal
  BY DEF LoaderInv
<1>2. /\ at = "fetch" /\ section_index = Len(sections) /\ at' = "entry"
      /\ UNCHANGED <<file, method, sections, section_index, mems, entry, bf, off, sberr, burst, ram, start>>
  BY DEF Loader!FetchEnd, Loader!given, Loader!reader
<1>3. Sound' = Sound /\ Loader!Loadable' = Loader!Loadable
  BY <1>2, SameFile
<1>4. LoaderTypes'
  BY <1>1, <1>2 DEF LoaderTypes, Loader!FilesFit, Loader!SizesFit
<1>5. SectionsInv'
  BY <1>1, <1>2, <1>3 DEF SectionsInv, SectionOf, Seg
<1>6. SendInv' /\ BufferInv'
  BY <1>2 DEF SendInv, BufferInv
<1>7. ReaderInv'
  BY <1>1, <1>2, <1>3 DEF ReaderInv, SectionOf, Seg, Loader!Contents
<1>8. RamInv'
  <2>1. ASSUME Sound, NEW s \in Wanted, NEW a \in Loader!Extent(Seg(s)) PROVE ram[a] = Due(s, a)
    <3>1. PICK i \in 1 .. Len(sections) : sections[i] = SectionOf(s)
      BY <1>1, <1>2, <2>1 DEF ReaderInv, Wanted
    <3>2. QED
      BY <1>1, <1>2, <2>1, <3>1 DEF RamInv
  <2>2. Wanted' = Wanted
    BY <1>2, SameWanted
  <2>3. QED
    BY <1>1, <1>2, <1>3, <2>1, <2>2 DEF RamInv, Seg, Due, Loader!Expected, Loader!Extent, Loader!Zero
<1>9. Loader!OnlySections' /\ Loader!BurstsLegal'
  BY <1>1, <1>2, QuietStep
<1>10. QED
  BY <1>4, <1>5, <1>6, <1>7, <1>8, <1>9 DEF LoaderInv

\* A bus error ends the simulation.
LEMMA JtagErrorInv == ASSUME LoaderInv, Loader!JtagError PROVE LoaderInv'
<1>1. LoaderTypes /\ SectionsInv
  BY DEF LoaderInv
<1>2. at' = "fatal" /\ UNCHANGED <<file, method, sections, section_index, mems, entry, bf, off, sberr, burst, ram, start>>
  BY DEF Loader!JtagError, Loader!given, Loader!reader
<1>3. QED
  BY <1>1, <1>2, EndStep DEF LoaderTypes, SectionsInv

\* get_entry, and the second reading of the file.
LEMMA EntryInv == ASSUME LoaderInv, Loader!Entry PROVE LoaderInv'
<1>1. LoaderTypes /\ SectionsInv /\ ReaderInv /\ RamInv /\ Loader!OnlySections /\ Loader!BurstsLegal
  BY DEF LoaderInv
<1>2. /\ at = "entry" /\ start' = IF at' = "launched" THEN entry' ELSE start
      /\ UNCHANGED <<file, method, bf, off, sberr, burst, ram>>
  BY DEF Loader!Entry, Loader!given
<1>3. Sound' = Sound /\ Loader!Loadable' = Loader!Loadable
  BY <1>2, SameFile
<1>4. /\ at' \in {"launched", "fatal", "abort"} /\ section_index' = section_index
      /\ sections' \in Seq([addr : Nat, len : Nat \ {0}]) /\ section_index' \in 0 .. Len(sections')
      /\ \A a \in DOMAIN mems' : mems'[a] \in Seq(Nat \X Nat)
      /\ \A i \in 1 .. Len(sections') :
           sections'[i].addr \in DOMAIN mems' /\ \E s \in Loader!Loadable : sections'[i] = SectionOf(s)
      /\ Sound /\ at' = "launched" => entry' = file.entry
  <2>1. CASE Loader!LoadElf("launched")
    BY <1>1, <1>2, <2>1, LoadElfFacts DEF Sound
  <2>2. CASE at' \in {"launched", "fatal"} /\ UNCHANGED <<sections, section_index, mems, entry>>
    BY <1>1, <1>2, <2>2 DEF LoaderTypes, SectionsInv, ReaderInv
  <2>3. QED
    BY <2>1, <2>2 DEF Loader!Entry, Loader!ReadElf, Loader!reader
<1>5. CASE at' \in {"fatal", "abort"}
  BY <1>2, <1>4, <1>5, EndStep
<1>6. CASE at' = "launched"
  <2>1. LoaderTypes'
    BY <1>1, <1>2, <1>4, <1>6 DEF LoaderTypes, Loader!FilesFit, Loader!SizesFit
  <2>2. SectionsInv'
    BY <1>2, <1>3, <1>4, <1>6 DEF SectionsInv, SectionOf, Seg
  <2>3. SendInv' /\ BufferInv' /\ ReaderInv'
    BY <1>6 DEF SendInv, BufferInv, ReaderInv
  <2>4. RamInv'
    <3>1. Wanted' = Wanted
      BY <1>2, SameWanted
    <3>2. QED
      BY <1>1, <1>2, <1>3, <1>4, <1>6, <3>1 DEF RamInv, Seg, Due, Loader!Expected, Loader!Extent, Loader!Zero
  <2>5. Loader!OnlySections' /\ Loader!BurstsLegal'
    BY <1>1, <1>2, QuietStep
  <2>6. QED
    BY <2>1, <2>2, <2>3, <2>4, <2>5 DEF LoaderInv
<1>7. QED
  BY <1>4, <1>5, <1>6

\* The preload starts with the invariant.
LEMMA LoaderInit == Loader!Init => LoaderInv
<1> SUFFICES ASSUME Loader!Init PROVE LoaderInv
  OBVIOUS
<1>1. Loader!SizesFit /\ Loader!FilesFit
  BY PreloadSizesAssumption, PreloadFilesAssumption
<1>2. LoaderTypes
  <2>1. <<>> \in Seq([addr : Nat, len : Nat \ {0}]) /\ Len(<<>>) = 0 /\ <<>> \in Seq(Nat \X Nat)
    BY EmptySeq
  <2>2. Loader!Blank \in Nat \X Nat
    BY DEF Loader!Blank
  <2>3. ram \in [Memory -> Nat \X Nat]
    BY <2>2 DEF Loader!Init
  <2>4. sections \in Seq([addr : Nat, len : Nat \ {0}]) /\ section_index \in 0 .. Len(sections)
    BY <2>1 DEF Loader!Init
  <2>5. bf \in [addr : Nat, data : Seq(Nat \X Nat)]
    BY <2>1 DEF Loader!Init
  <2>6. /\ file \in Files /\ method \in Methods /\ off \in Nat /\ sberr \in BOOLEAN
        /\ at \in {"read", "fetch", "load", "entry", "launched", "fatal", "abort"}
    BY DEF Loader!Init
  <2>7. QED
    BY <1>1, <2>3, <2>4, <2>5, <2>6 DEF LoaderTypes
<1>3. SectionsInv
  BY DEF Loader!Init, SectionsInv
<1>4. SendInv /\ ReaderInv /\ BufferInv /\ RamInv
  BY DEF Loader!Init, SendInv, ReaderInv, BufferInv, RamInv
<1>5. Loader!OnlySections
  BY DEF Loader!Init, Loader!OnlySections
<1>6. Loader!BurstsLegal
  <2>1. BusBytes \in Int /\ BusBytes > 0 /\ Page \in Int /\ Page > 0 /\ Page % BusBytes = 0
    BY <1>1, SizeFacts
  <2>2. BusBytes <= Page
    <3>1. PICK q \in Int : Page = BusBytes * q
      BY <2>1, Words
    <3>2. q >= 1
      <4>1. ASSUME q <= 0 PROVE FALSE
        <5>1. BusBytes * q <= BusBytes * 0
          BY <2>1, <4>1
        <5>2. QED
          BY <2>1, <3>1, <5>1
      <4>2. QED
        BY <3>1, <4>1
    <3>3. BusBytes * q >= BusBytes * 1
      BY <2>1, <3>2
    <3>4. QED
      BY <2>1, <3>1, <3>3
  <2>3. 0 = Page * 0 /\ 0 \in Int
    BY <2>1
  <2>4. 0 % Page = 0
    BY <2>1, <2>3, Words
  <2> DEFINE z == BusBytes - 1
  <2>5. z \in Int /\ 0 <= z /\ z < 0 + Page /\ 0 < 0 + Page
    BY <2>1, <2>2
  <2> HIDE DEF z
  <2>6. 0 \div Page = z \div Page
    BY <2>1, <2>3, <2>4, <2>5, SamePage
  <2>7. burst.addr = 0 /\ burst.beats = 1
    BY DEF Loader!Init
  <2>8. 0 + 1 * BusBytes - 1 = z
    BY <2>1 DEF z
  <2>9. QED
    BY <2>6, <2>7, <2>8 DEF Loader!BurstsLegal
<1>7. QED
  BY <1>2, <1>3, <1>4, <1>5, <1>6 DEF LoaderInv

\* Every step of the preload keeps the invariant.
LEMMA LoaderStep == LoaderInv /\ [Loader!Next]_(Loader!vars) => LoaderInv'
<1> SUFFICES ASSUME LoaderInv, [Loader!Next]_(Loader!vars) PROVE LoaderInv'
  OBVIOUS
<1>1. CASE Loader!Read
  BY <1>1, ReadInv
<1>2. CASE Loader!Fetch
  BY <1>2, FetchInv
<1>3. CASE Loader!FetchEnd
  BY <1>3, FetchEndInv
<1>4. CASE Loader!UartLoad
  BY <1>4, UartLoadInv
<1>5. CASE Loader!JtagError
  BY <1>5, JtagErrorInv
<1>6. CASE Loader!JtagLoad
  BY <1>6, JtagLoadInv
<1>7. CASE Loader!MemhLoad
  BY <1>7, MemhLoadInv
<1>8. CASE Loader!SlinkLoad
  BY <1>8, SlinkLoadInv
<1>9. CASE Loader!Entry
  BY <1>9, EntryInv
<1>10. CASE UNCHANGED Loader!vars
  <2>1. UNCHANGED <<file, method, at, sections, section_index, mems, entry, bf, off, sberr, burst, ram, start>>
    BY <1>10 DEF Loader!vars
  <2>2. Sound' = Sound /\ Loader!Loadable' = Loader!Loadable
    BY <2>1, SameFile
  <2>3. LoaderTypes /\ SectionsInv /\ SendInv /\ ReaderInv /\ BufferInv /\ RamInv /\ Loader!OnlySections /\ Loader!BurstsLegal
    BY DEF LoaderInv
  <2>4. LoaderTypes'
    BY <2>1, <2>3 DEF LoaderTypes, Loader!FilesFit, Loader!SizesFit
  <2>5. SectionsInv' /\ SendInv'
    BY <2>1, <2>2, <2>3 DEF SectionsInv, SendInv, SectionOf, Seg, Loader!OverJtag, Loader!Memh
  <2>6. ReaderInv'
    BY <2>1, <2>2, <2>3 DEF ReaderInv, SectionOf, Seg, Loader!Contents
  <2>7. BufferInv'
    BY <2>1, <2>2, <2>3 DEF BufferInv, SectionOf, Seg, Due, Loader!Expected, Loader!Zero
  <2>8. RamInv'
    <3>1. Wanted' = Wanted
      BY <2>1, SameWanted
    <3>2. QED
      BY <2>1, <2>2, <2>3, <3>1 DEF RamInv, SectionOf, Seg, Due, Loader!Expected, Loader!Extent, Loader!Zero
  <2>9. Loader!OnlySections' /\ Loader!BurstsLegal'
    BY <2>1, <2>3, QuietStep
  <2>10. QED
    BY <2>4, <2>5, <2>6, <2>7, <2>8, <2>9 DEF LoaderInv
<1>11. QED
  BY <1>1, <1>2, <1>3, <1>4, <1>5, <1>6, <1>7, <1>8, <1>9, <1>10 DEF Loader!Next

\* LoaderInv holds in every state of a preload.
THEOREM LoaderInvariance == PreloadSpec => []LoaderInv
BY LoaderInit, LoaderStep, PTL DEF PreloadSpec, Loader!Spec

\* elfloader.cpp and the preload tasks of vip_cheshire_soc.sv: a program of an orderly file
\* that is launched is in memory, zeros included, and starts at its entry point; what
\* memh_elf_preload skips under DRAMSys is left out.
THEOREM ProgramLoaded == PreloadSpec => []PreloadImageLoaded
<1>1. LoaderInv => PreloadImageLoaded
  <2> SUFFICES ASSUME LoaderInv, at = "launched", file.phtab, Loader!Orderly
               PROVE  /\ start = file.entry
                      /\ \A s \in Loader!Loadable : ~Loader!Skipped(file.segs[s]) =>
                           \A a \in Loader!Extent(file.segs[s]) : ram[a] = Loader!Expected(file.segs[s], s, a)
    BY DEF PreloadImageLoaded, Loader!ImageLoaded
  <2>1. QED
    BY DEF LoaderInv, RamInv, Sound, Due, Seg, Wanted
<1>2. QED
  BY <1>1, LoaderInvariance, PTL

\* The preload tasks write nothing but the sections, apart from the rest of a word.
THEOREM LoaderWritesSections == PreloadSpec => []PreloadOnlySections
<1>1. LoaderInv => PreloadOnlySections
  BY DEF LoaderInv, PreloadOnlySections
<1>2. QED
  BY <1>1, LoaderInvariance, PTL

\* slink_elf_preload: every burst has 1 to 256 beats and stays in its page.
THEOREM LoaderBurstsLegal == PreloadSpec => []PreloadBurstsLegal
<1>1. LoaderInv => PreloadBurstsLegal
  BY DEF LoaderInv, PreloadBurstsLegal
<1>2. QED
  BY <1>1, LoaderInvariance, PTL
=============================================================================
