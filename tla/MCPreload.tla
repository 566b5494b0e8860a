----------------------------- MODULE MCPreload ------------------------------
(* Model-checking instance of Preload: files of two program headers, aligned *)
(* and not, with and without zeros behind their data, apart, touching or at  *)
(* the same address; four-byte words, pages of four words, bursts of two.    *)
EXTENDS BootPreload

Segs(addrs, files, extras) ==
  {[load |-> TRUE, paddr |-> a, filesz |-> f, memsz |-> f + x, whole |-> TRUE] :
     a \in addrs, f \in files, x \in extras}

Good(segs, e) ==
  [opens |-> TRUE, ehdr |-> TRUE, ident |-> "elf64", phtab |-> TRUE, entry |-> e, segs |-> segs]

Some == Good(<<CHOOSE s \in Segs({4}, {3}, {2}) : TRUE>>, 4)

MCFiles ==
  {Good(<<s, t>>, e) : s \in Segs({4, 6, 12}, {0, 3, 8, 12}, {0, 1}),
                       t \in Segs({4, 20, 24, 26}, {4, 11}, {0, 5}), e \in {0, 4}}
  \cup {[Some EXCEPT !.opens = FALSE], [Some EXCEPT !.ehdr = FALSE], [Some EXCEPT !.ident = "other"],
        [Some EXCEPT !.ident = "elf32"], [Some EXCEPT !.phtab = FALSE],
        [Some EXCEPT !.segs[1].whole = FALSE], [Some EXCEPT !.segs[1].load = FALSE],
        [Some EXCEPT !.segs[1].memsz = 2]}

MCMemory == 0 .. 48
=============================================================================
