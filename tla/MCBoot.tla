------------------------------- MODULE MCBoot -------------------------------
(***************************************************************************)
(* A small instance of Boot.  Some binaries are there for the image and    *)
(* some for the relocations, and their first initialiser ends the program; *)
(* the others lack a function or none, and launch.                         *)
(***************************************************************************)
EXTENDS Boot, TLC

\* pages of two units, files of up to two segments in any order, with and without
\* a gap, a part that is not in the file or an end inside a page, and one file
\* with five segments
Segment == {s \in [load : {TRUE}, x : BOOLEAN, vaddr : 0 .. 4, filesz : 0 .. 2,
                   memsz : 1 .. 2] : s.filesz <= s.memsz}
Note == [load |-> FALSE, x |-> FALSE, vaddr |-> 1, filesz |-> 1, memsz |-> 1]

SmallHeaders ==
  {<<s>> : s \in Segment} \cup {<<Note, s>> : s \in Segment}
  \cup {<<p[1], p[2]>> : p \in {q \in Segment \X Segment : Disjoint(q[1], q[2])}}
  \cup {[i \in 1 .. 5 |-> [Note EXCEPT !.load = TRUE, !.vaddr = i - 1]]}

\* From the kernel, of 4, 8 and 12 units, the last one by default; and from the
\* environment, with an end inside a page, a beginning inside one, and so small that
\* the place for the image is beyond its end.
Kernel(free)         == [override |-> FALSE, addr |-> 2, size |-> 0, free |-> free]
Override(addr, size) == [override |-> TRUE, addr |-> addr, size |-> size, free |-> 0]

TinyHeap   == Override(2, 1)
SmallHeaps == {Kernel(9), Kernel(12), Kernel(7), Override(2, 7), Override(3, 9), TinyHeap}

-----------------------------------------------------------------------------
\* words that wrap at 64, bitmaps of three words, files with all types of
\* relocations of all kinds of symbols, and files with all bitmaps
SmallPlace == 0 .. 10

\* "own" is also an import, "shim" also in a module, "null" an import without an
\* address, "libc" only in modules, and "none" nowhere.
SmallOwn ==
  [s \in {"own", "shim", "null", "libc", "none"} |-> IF s = "own" THEN 5 ELSE Undef]

SmallImports ==
  << [symbol |-> "own",  func |-> 40], [symbol |-> "shim", func |-> 41],
     [symbol |-> "null", func |-> 0],  [symbol |-> "shim", func |-> 42] >>

Sym(s, defined, local, address) ==
  [symbol |-> s, defined |-> defined, local |-> local, address |-> address]

SmallModules ==
  << << Sym("libc", FALSE, FALSE, 50), Sym("libc", TRUE, TRUE, 51) >>,
     << Sym("shim", TRUE, FALSE, 52), Sym("null", TRUE, FALSE, 53),
        Sym("libc", TRUE, FALSE, 54) >>,
     << Sym("libc", TRUE, FALSE, 55) >> >>

Words == [a \in SmallPlace |-> 3 * a]
File(rs, ps) == [rels |-> rs, relr |-> ps, words |-> Words]

Rel(a, addends) ==
  [type : {"ABS64", "RELATIVE", "GLOB_DAT", "JUMP_SLOT", "other"},
   at : {a}, sym : DOMAIN SmallOwn, addend : addends]

Even(a) == [even |-> TRUE, at |-> a]
Odd     == {[even |-> FALSE, bits |-> b] : b \in SUBSET (1 .. 3)}

SmallFiles ==
  {File(<<r, s>>, <<>>) : r \in Rel(1, {-2, 0}), s \in Rel(0, {0, 1})}
  \cup {File(<<r>>, <<Even(2), o>>) : r \in Rel(0, {1}), o \in Odd}
  \cup {File(<<>>, <<Even(2), o, p>>) : o \in Odd, p \in Odd}
  \cup {File(<<>>, <<Even(1), o, Even(6), p>>) : o \in Odd, p \in Odd}
  \cup {File(<<>>, <<Even(1), Even(2), o>>) : o \in Odd}

-----------------------------------------------------------------------------
SmallHooked      == <<"init", "destroy">>
SmallTrampoline  == [h \in {"init", "destroy"} |-> IF h = "init" THEN 2 ELSE 3]
SmallEntryPoints == <<"launch", "menu">>

\* code on two pages, then data
Game == << [Note EXCEPT !.load = TRUE, !.x = TRUE, !.vaddr = 0, !.filesz = 2, !.memsz = 2],
           [Note EXCEPT !.load = TRUE, !.x = TRUE, !.vaddr = 2, !.filesz = 1, !.memsz = 2],
           [Note EXCEPT !.load = TRUE, !.vaddr = 4] >>
OneImport == File(<<[type |-> "JUMP_SLOT", at |-> 1, sym |-> "shim", addend |-> 0]>>, <<>>)

All == [f \in Looked |-> IF f \in {"init", "launch"} THEN 0 ELSE 1]

Binary(heap_, headers, rel, functions, init) ==
  [heap |-> heap_, headers |-> headers, file |-> rel, inits |-> init,
   exports |-> [f \in functions |-> All[f]]]

SmallBinaries ==
  {Binary(h, hs, OneImport, Looked, <<"exits">>) : h \in SmallHeaps, hs \in SmallHeaders}
  \cup {Binary(Kernel(7), Game, f, Looked, <<"exits">>) : f \in SmallFiles}
  \cup {Binary(Kernel(7), Game, OneImport, Looked \ {f}, <<"exits">>) : f \in Looked}
  \cup {Binary(Kernel(7), Game, OneImport, Looked \ {"menu"}, <<"null", "returns">>)}

BootHeaders == SmallHeaders \cup {Game}

Symmetry == Permutations(Thread)
=============================================================================
