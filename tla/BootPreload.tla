---------------------------- MODULE BootPreload -----------------------------
(***************************************************************************)
(* The preload of an ELF file as a step of the passive boot: Preload under *)
(* names that leave those of PassiveBoot alone, and what PassiveBoot takes *)
(* for granted of the sections and entry point its host has.               *)
(***************************************************************************)
EXTENDS Integers

CONSTANTS Files, Methods, Memory, DramFirst, DramEnd,
          BusBytes, Page, UartBurst, SlinkBurst, CheckBytes

VARIABLES file, method, at, sections, section_index, mems, entry, bf, off, sberr, burst, ram, start

Loader == INSTANCE Preload WITH pc <- at, offs <- off, mem <- ram

ASSUME PreloadSizesAssumption == Loader!SizesFit
ASSUME PreloadFilesAssumption == Loader!FilesFit

PreloadSpec == Loader!Spec

\* elfloader.cpp and the preload tasks: a program that is launched is completely
\* in memory, if its file is as linkers write them, and starts at its entry point;
\* only sections in DRAM are not, where memh_elf_preload skips them under DRAMSys.
PreloadImageLoaded == Loader!ImageLoaded

\* The preload tasks write nothing but sections.
PreloadOnlySections == Loader!OnlySections

\* slink_elf_preload sends only bursts that AXI allows.
PreloadBurstsLegal == Loader!BurstsLegal
=============================================================================
