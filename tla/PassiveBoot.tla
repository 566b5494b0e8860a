---------------------------- MODULE PassiveBoot -----------------------------
(***************************************************************************)
(* Passive preload: hart 0 in boot_passive (hw/bootrom/cheshire_bootrom.c) *)
(* and the UART debug server (sw/lib/hal/uart_debug.c) on one side; on the *)
(* other the host that preloads a program, starts it and collects its exit *)
(* code, as the verification IP does it (target/sim/src/                   *)
(* vip_cheshire_soc.sv) over UART, over the serial link or over JTAG.      *)
(*                                                                         *)
(* The hart and the host share the memory, the SCRATCH registers and the   *)
(* two directions of the UART.  A command with its address and length, a   *)
(* data byte and a return code each travel as one message.  boot_next_stage*)
(* is one step here: SmpBoot says what it does with the other harts.       *)
(***************************************************************************)
EXTENDS Integers, Sequences

CONSTANTS HostKinds,  \* the hosts considered, a subset of {"uart", "slink", "jtag"}
          Sections,   \* the program's ELF sections: sequence of [base, len]
          Image,      \* Image[a]: the program's byte at address a
          Entry,      \* the program's entry point, <<high, low>>
          BurstBytes, \* UartBurstBytes
          Codes,      \* how many codes an exit word has room for: 2^31; a SCRATCH
                      \* register and a return code have twice as many values
          Results,    \* what the program's main may return
          MaxNoise,   \* bound on the stray bytes a UART host sends
          MaxPrint    \* bound on the messages the program prints

Addr == UNION {s.base .. s.base + s.len - 1 : s \in {Sections[i] : i \in 1 .. Len(Sections)}}

Reg == 0 .. 2 * Codes - 1

ASSUME HostKindsAssumption == HostKinds \subseteq {"uart", "slink", "jtag"}
ASSUME SectionsAssumption == Sections \in Seq([base : Nat, len : Nat]) /\ Sections # <<>>
ASSUME ImageAssumption == Image \in [Addr -> Nat \ {0}]
ASSUME SizesAssumption == BurstBytes \in Nat \ {0} /\ Codes \in Nat /\ Codes > 1
ASSUME ResultsAssumption == Results \subseteq Reg
\* Nothing is run at address 0, which is the debug module's.
ASSUME EntryAssumption == Entry \in Reg \X Reg /\ Entry # <<0, 0>>

VARIABLES kind,     \* the host there is
          pc,       \* where hart 0 is
          host,     \* where the host is
          mem,      \* the memory the program is loaded to
          scratch,  \* SCRATCH[0..2]
          rx,       \* bytes on their way to the debug server
          tx,       \* bytes on their way to the host
          cmd,      \* addr and left: the server's current transfer
          caller,   \* who gets control when the program returns
          result,   \* what the program returned, -1 before
          sect,     \* the section the host is at
          offs,     \* the offset in that section
          sent,     \* the bytes sent of the current burst
          read,     \* the bytes the host has read back
          code,     \* the exit code the host has collected, -1 before
          noise, printed \* counters for the bounds MaxNoise and MaxPrint

hartVars == <<cmd, caller, result, printed>>
hostVars == <<host, sect, offs, sent, read, code, noise>>
vars == <<kind, pc, mem, scratch, rx, tx, hartVars, hostVars>>

Init ==
  /\ kind \in HostKinds
  /\ pc = "llc"
  /\ host = "start"
  /\ mem = [a \in Addr |-> 0]
  /\ scratch = <<0, 0, 0>>
  /\ rx = <<>> /\ tx = <<>>
  /\ cmd = [addr |-> 0, left |-> 0]
  /\ caller = "none"
  /\ result = -1
  /\ sect = 1 /\ offs = 0 /\ sent = 0
  /\ read = <<>>
  /\ code = -1
  /\ noise = 0 /\ printed = 0

Msg(k, v) == [k |-> k, v |-> v]
Scratch(i) == scratch[i + 1]
StartFlag(v) == (v \div 2) % 2
EndFlag(v) == v % 2

-----------------------------------------------------------------------------
(* Hart 0 in the boot ROM. *)

Hart(from, to) == pc = from /\ pc' = to

\* _start has configured the LLC as scratchpad; hosts on the bus wait for this.
LlcReady == pc # "llc"

ConfigureLlc ==
  /\ Hart("llc", "init")
  /\ UNCHANGED <<kind, hostVars, mem, scratch, rx, tx, hartVars>>

\* uart_debug_init: enabling the FIFO clears it, whatever had arrived.
UartDebugInit ==
  /\ Hart("init", "poll")
  /\ rx' = <<>>
  /\ UNCHANGED <<kind, hostVars, mem, scratch, tx, hartVars>>

StartRequested == StartFlag(Scratch(2)) = 1

\* The loop condition of boot_passive.
PollScratch ==
  /\ Hart("poll", IF StartRequested THEN "launch" ELSE "check")
  /\ UNCHANGED <<kind, hostVars, mem, scratch, rx, tx, hartVars>>

\* The loop body, uart_debug_check: a byte that is there is consumed; ACK
\* starts the debug server, which answers with ACK.
UartDebugCheck ==
  /\ pc = "check"
  /\ IF rx = <<>>
     THEN pc' = "poll" /\ UNCHANGED <<rx, tx>>
     ELSE /\ rx' = Tail(rx)
          /\ IF Head(rx).k = "ack"
             THEN pc' = "serve" /\ tx' = Append(tx, Msg("ack", 0))
             ELSE pc' = "poll" /\ UNCHANGED tx
  /\ UNCHANGED <<kind, hostVars, mem, scratch, hartVars>>

\* Leaving the loop: clear the start signal, ...
ClearStart ==
  /\ Hart("launch", "jump")
  /\ scratch' = [scratch EXCEPT ![3] = 0]
  /\ UNCHANGED <<kind, hostVars, mem, rx, tx, hartVars>>

\* Mutant: the halves of the entry point are swapped.
EntryInScratchSwapped == <<Scratch(0), Scratch(1)>>
EntryInScratch == <<Scratch(1), Scratch(0)>>

\* ... and jump to scratch[1:0]; there is code to run only at Entry.
Launch ==
  /\ pc = "jump"
  /\ pc' = IF EntryInScratch = Entry THEN "run" ELSE "lost"
  /\ caller' = "boot_next_stage"
  /\ UNCHANGED <<kind, hostVars, mem, scratch, rx, tx, cmd, result, printed>>

\* uart_debug_serve: take the next command.  EXEC acknowledges and calls the
\* code; READ and WRITE acknowledge and move to the data loop; any other byte
\* ends the server with return code 1.
ServeCommand ==
  /\ pc = "serve"
  /\ rx # <<>>
  /\ rx' = Tail(rx)
  /\ LET m == Head(rx) IN
     \/ /\ m.k \in {"read", "write"}
        /\ pc' = m.k
        /\ cmd' = m.v
        /\ tx' = Append(tx, Msg("ack", 0))
        /\ UNCHANGED <<caller, result>>
     \/ /\ m.k = "exec"
        /\ pc' = IF m.v = Entry THEN "run" ELSE "lost"
        /\ caller' = "uart_debug_serve"
        /\ tx' = Append(tx, Msg("ack", 0))
        /\ UNCHANGED <<cmd, result>>
     \/ /\ m.k \notin {"read", "write", "exec"}
        /\ pc' = "exit"
        /\ result' = 1
        /\ UNCHANGED <<cmd, caller, tx>>
  /\ UNCHANGED <<kind, hostVars, mem, scratch, printed>>

\* Mutant: the pointer stays where it is.
AdvanceStuck == cmd' = [addr |-> cmd.addr, left |-> cmd.left - 1]
Advance == cmd' = [addr |-> cmd.addr + 1, left |-> cmd.left - 1]

\* The data loops, one byte a step.
ServeWrite ==
  /\ pc = "write"
  /\ cmd.left > 0
  /\ rx # <<>>
  /\ mem' = [mem EXCEPT ![cmd.addr] = Head(rx).v]
  /\ rx' = Tail(rx)
  /\ Advance
  /\ UNCHANGED <<kind, hostVars, scratch, tx, pc, caller, result, printed>>

ServeRead ==
  /\ pc = "read"
  /\ cmd.left > 0
  /\ tx' = Append(tx, Msg("byte", mem[cmd.addr]))
  /\ Advance
  /\ UNCHANGED <<kind, hostVars, mem, scratch, rx, pc, caller, result, printed>>

\* Mutant: the end of the transfer is reported with the opcode of EXEC's end.
EndOfTransferEoc == Msg("eoc", 0)
EndOfTransfer == Msg("eot", 0)

ServeEot ==
  /\ pc \in {"read", "write"}
  /\ cmd.left = 0
  /\ tx' = Append(tx, EndOfTransfer)
  /\ pc' = "serve"
  /\ UNCHANGED <<kind, hostVars, mem, scratch, rx, hartVars>>

\* The program writes to its console, which is the same UART.
ProgramPrints ==
  /\ pc = "run"
  /\ printed < MaxPrint
  /\ tx' = Append(tx, Msg("text", 0))
  /\ printed' = printed + 1
  /\ UNCHANGED <<kind, hostVars, mem, scratch, rx, pc, cmd, caller, result>>

ProgramReturns(r) ==
  /\ Hart("run", "crt0")
  /\ result' = r
  /\ UNCHANGED <<kind, hostVars, mem, scratch, rx, tx, cmd, caller, printed>>

\* Mutants: the end flag is left out; the value is not shifted.
ExitWordNoFlag(r) == (2 * r) % (2 * Codes)
ExitWordUnshifted(r) == (r - (r % 2)) + 1
ExitWord(r) == (2 * r + 1) % (2 * Codes)

\* crt0's _exit: store the exit word in SCRATCH[2] and return to the caller.
\* boot_next_stage jumped with ra pointing at its own ret, which then returns
\* to itself for ever; a program started by a debugger returns into whatever
\* boot ROM code the debugger interrupted.
Crt0Exit ==
  /\ pc = "crt0"
  /\ scratch' = [scratch EXCEPT ![3] = ExitWord(result)]
  /\ pc' = CASE caller = "uart_debug_serve" -> "eoc"
             [] caller = "boot_next_stage"  -> "ret"
             [] OTHER                       -> caller
  /\ UNCHANGED <<kind, hostVars, mem, rx, tx, hartVars>>

\* The debug server reports the return code and returns it.
ServeEoc ==
  /\ Hart("eoc", "exit")
  /\ tx' = tx \o <<Msg("eoc", 0), Msg("ret", result)>>
  /\ UNCHANGED <<kind, hostVars, mem, scratch, rx, hartVars>>

\* Mutant: the boot ROM stores the return value as it is.
RomExitWordRaw(r) == r
RomExitWord(r) == (2 * r + 1) % (2 * Codes)

\* The boot ROM's _exit: store the exit word and yield to the debugger.
RomExit ==
  /\ Hart("exit", "ebreak")
  /\ scratch' = [scratch EXCEPT ![3] = RomExitWord(result)]
  /\ UNCHANGED <<kind, hostVars, mem, rx, tx, hartVars>>

RomStep ==
  \/ ConfigureLlc \/ UartDebugInit \/ PollScratch \/ UartDebugCheck \/ ClearStart \/ Launch
  \/ ServeCommand \/ ServeWrite \/ ServeRead \/ ServeEot \/ Crt0Exit \/ ServeEoc \/ RomExit

ProgramReturnsSome == \E r \in Results : ProgramReturns(r)

-----------------------------------------------------------------------------
(* The UART host. *)

Section == Sections[sect]
Base == Section.base

\* The bytes of the current burst: none at all after a last full one.
BurstLen == IF offs + BurstBytes <= Section.len THEN BurstBytes ELSE Section.len - offs

Host(from, to) == host = from /\ host' = to

Send(m) == rx' = Append(rx, m) /\ UNCHANGED <<kind, mem, scratch, tx, pc, hartVars>>

\* uart_boot_scoop_expect: take the next byte, give up if it is another one.
Expect(from, k, to) ==
  /\ tx # <<>>
  /\ Host(from, IF Head(tx).k = k THEN to ELSE "fatal")
  /\ tx' = Tail(tx)
  /\ UNCHANGED <<kind, mem, scratch, rx, pc, hartVars>>

\* Bytes that are not ACK may be on the line before the host says hello.
Noise ==
  /\ kind = "uart" /\ host = "start" /\ noise < MaxNoise
  /\ Send(Msg("junk", 0))
  /\ noise' = noise + 1
  /\ UNCHANGED <<host, sect, offs, sent, read, code>>

\* The host waits for the boot ROM to settle, by time alone, and challenges it.
UartHello ==
  /\ kind = "uart" /\ pc \notin {"llc", "init"}
  /\ Host("start", "hello")
  /\ Send(Msg("ack", 0))
  /\ UNCHANGED <<sect, offs, sent, read, code, noise>>

UartHelloAck == Expect("hello", "ack", "burst") /\ UNCHANGED <<sect, offs, sent, read, code, noise>>

\* uart_debug_rw: the command, its ACK, the bytes, the EOT.
UartWrite ==
  /\ Host("burst", "write_ack")
  /\ Send(Msg("write", [addr |-> Base + offs, left |-> BurstLen]))
  /\ sent' = 0
  /\ UNCHANGED <<sect, offs, read, code, noise>>

UartWriteAck == Expect("write_ack", "ack", "data") /\ UNCHANGED <<sect, offs, sent, read, code, noise>>

UartData ==
  /\ Host("data", "data") /\ sent < BurstLen
  /\ Send(Msg("byte", Image[Base + offs + sent]))
  /\ sent' = sent + 1
  /\ UNCHANGED <<sect, offs, read, code, noise>>

\* The burst loop of uart_debug_elf_preload, i <= sec_len, and the section loop.
UartWriteEot ==
  /\ sent = BurstLen
  /\ LET last == offs + BurstBytes > Section.len IN
     /\ Expect("data", "eot", IF last /\ sect = Len(Sections) THEN "loaded" ELSE "burst")
     /\ offs' = IF last THEN 0 ELSE offs + BurstBytes
     /\ sect' = IF last /\ sect < Len(Sections) THEN sect + 1 ELSE sect
  /\ UNCHANGED <<sent, read, code, noise>>

\* The host may read the last section back, once.
UartRead ==
  /\ Host("loaded", "read_ack") /\ read = <<>>
  /\ Send(Msg("read", [addr |-> Base, left |-> Section.len]))
  /\ UNCHANGED <<sect, offs, sent, read, code, noise>>

UartReadAck == Expect("read_ack", "ack", "read_data") /\ UNCHANGED <<sect, offs, sent, read, code, noise>>

UartReadData ==
  /\ Host("read_data", "read_data") /\ Len(read) < Section.len /\ tx # <<>>
  /\ read' = Append(read, Head(tx).v)
  /\ tx' = Tail(tx)
  /\ UNCHANGED <<kind, mem, scratch, rx, pc, hartVars, sect, offs, sent, code, noise>>

UartReadEot ==
  /\ Len(read) = Section.len
  /\ Expect("read_data", "eot", "loaded")
  /\ UNCHANGED <<sect, offs, sent, read, code, noise>>

UartExec ==
  /\ Host("loaded", "exec_ack")
  /\ Send(Msg("exec", Entry))
  /\ UNCHANGED <<sect, offs, sent, read, code, noise>>

UartExecAck == Expect("exec_ack", "ack", "console") /\ UNCHANGED <<sect, offs, sent, read, code, noise>>

\* The reader prints what comes, until EOC; then the return code is taken.
UartConsole ==
  /\ host = "console" /\ tx # <<>>
  /\ host' = IF Head(tx).k = "eoc" THEN "return" ELSE "console"
  /\ tx' = Tail(tx)
  /\ UNCHANGED <<kind, mem, scratch, rx, pc, hartVars, sect, offs, sent, read, code, noise>>

UartReturn ==
  /\ tx # <<>>
  /\ Expect("return", "ret", "done")
  /\ code' = Head(tx).v
  /\ UNCHANGED <<sect, offs, sent, read, noise>>

\* A command the debug server does not know.
UartBadCommand ==
  /\ \/ Host("burst", "aborted") \/ Host("loaded", "aborted")
  /\ Send(Msg("junk", 0))
  /\ UNCHANGED <<sect, offs, sent, read, code, noise>>

-----------------------------------------------------------------------------
(* The hosts on the bus: the serial link and JTAG. *)

\* The debugger halts the hart somewhere in the boot ROM, once the LLC is set
\* up; its return address register then holds some earlier call's return.
JtagHalt ==
  /\ kind = "jtag" /\ LlcReady
  /\ Host("start", "load")
  /\ pc \in {"init", "poll", "check"} /\ pc' = "halted"
  /\ \E c \in {"init", "poll"} : caller' = c
  /\ UNCHANGED <<kind, mem, scratch, rx, tx, cmd, result, printed,
                 sect, offs, sent, read, code, noise>>

SlinkReady ==
  /\ kind = "slink" /\ LlcReady
  /\ Host("start", "load")
  /\ UNCHANGED <<kind, mem, scratch, rx, tx, pc, hartVars, sect, offs, sent, read, code, noise>>

\* One section; how a section becomes bus writes is Preload's subject.
LoadSection ==
  /\ host = "load"
  /\ mem' = [a \in Addr |-> IF a \in Base .. Base + Section.len - 1 THEN Image[a] ELSE mem[a]]
  /\ IF sect < Len(Sections)
     THEN sect' = sect + 1 /\ UNCHANGED host
     ELSE host' = "entry" /\ UNCHANGED sect
  /\ UNCHANGED <<kind, scratch, rx, tx, pc, hartVars, offs, sent, read, code, noise>>

\* slink_elf_run: the three register writes, in this order.
SlinkWrite(from, reg, v, to) ==
  /\ kind = "slink"
  /\ Host(from, to)
  /\ scratch' = [scratch EXCEPT ![reg + 1] = v]
  /\ UNCHANGED <<kind, mem, rx, tx, pc, hartVars, sect, offs, sent, read, code, noise>>

SlinkEntryHigh == SlinkWrite("entry", 1, Entry[1], "entry_low")
SlinkEntryLow  == SlinkWrite("entry_low", 0, Entry[2], "start_signal")
SlinkStart     == SlinkWrite("start_signal", 2, 2, "poll")

\* jtag_elf_run: point the hart at the entry and let it go on.
JtagResume ==
  /\ kind = "jtag"
  /\ Host("entry", "poll")
  /\ pc' = "run"
  /\ UNCHANGED <<kind, mem, scratch, rx, tx, hartVars, sect, offs, sent, read, code, noise>>

\* slink_wait_for_eoc, jtag_wait_for_eoc: poll bit 0 of SCRATCH[2].
WaitForEoc ==
  /\ Host("poll", "done") /\ EndFlag(Scratch(2)) = 1
  /\ code' = Scratch(2) \div 2
  /\ UNCHANGED <<kind, mem, scratch, rx, tx, pc, hartVars, sect, offs, sent, read, noise>>

\* The steps of a host that means to see its program through.
HostStep ==
  \/ UartHello \/ UartHelloAck \/ UartWrite \/ UartWriteAck \/ UartData \/ UartWriteEot
  \/ UartReadAck \/ UartReadData \/ UartReadEot \/ UartExecAck
  \/ UartConsole \/ UartReturn
  \/ JtagHalt \/ SlinkReady \/ LoadSection \/ SlinkEntryHigh \/ SlinkEntryLow \/ SlinkStart
  \/ JtagResume \/ WaitForEoc

Next == RomStep \/ ProgramPrints \/ ProgramReturnsSome \/ HostStep \/ UartExec
        \/ UartRead \/ Noise \/ UartBadCommand

\* The hart runs, a program that runs returns in the end, and the host goes on;
\* reading back, aborting and noise are up to the host.
Fairness ==
  /\ WF_vars(RomStep) /\ WF_vars(ProgramReturnsSome)
  /\ WF_vars(HostStep) /\ WF_vars(UartExec)

Spec == Init /\ [][Next]_vars
FairSpec == Spec /\ Fairness

-----------------------------------------------------------------------------

TypeOK ==
  /\ kind \in HostKinds
  /\ pc \in {"llc", "init", "poll", "check", "launch", "jump", "serve", "read", "write",
             "run", "lost", "halted", "crt0", "eoc", "exit", "ret", "ebreak"}
  /\ \A a \in Addr : mem[a] \in {0, Image[a]}
  /\ \A i \in 1 .. 3 : scratch[i] \in Reg
  /\ cmd.left >= 0
  /\ result \in Results \cup {-1, 1}
  /\ sect \in 1 .. Len(Sections)
  /\ code \in Reg \cup {-1}

\* The program runs only from complete memory: every byte of every section is
\* in place when the hart enters it, across burst boundaries and the bursts of
\* length zero; and what the host reads back is what it wrote.
PreloadComplete ==
  /\ pc = "run" => mem = Image
  /\ \A i \in DOMAIN read : read[i] = Image[Base + i - 1]

\* Hart 0 never jumps to an address the host did not mean: over the serial
\* link the entry point is complete when the start signal is seen, and no
\* stray UART byte starts anything.
EntersAtEntry == kind # "jtag" => pc # "lost"

\* The debug server and the host stay in step: the host never meets another
\* byte than the one it waits for, whatever is on the line when it says hello.
HostNeverFatal == host # "fatal"

\* The host ends up with the code the program returned; over the bus without
\* the top bit, for which the exit word has no room.
HostCodeCorrect ==
  code # -1 => code = IF kind = "uart" THEN result ELSE result % Codes

\* Under UART and serial link the exit word stays for the next reader:
\* _exit of crt0 and _exit of the boot ROM store the same word.
ExitWordStable ==
  [][kind # "jtag" /\ EndFlag(Scratch(2)) = 1 => scratch' = scratch]_vars

\* A UART or serial link host that does not abort collects an exit code.
Completes == kind # "jtag" => <>(host \in {"done", "aborted"})
=============================================================================
