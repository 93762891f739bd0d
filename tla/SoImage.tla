------------------------------- MODULE SoImage -------------------------------
(***************************************************************************)
(* How the game binary gets into memory: __libnx_initheap() of             *)
(* source/main.c splits the heap, so_load() of source/so_util.c copies the *)
(* segments of the file into the upper part, and so_finalize() maps the    *)
(* copy as code and sets the permissions of its pages.  Addresses count in *)
(* small units, PageSize of them to a page.  Relocation is SoRelocate.     *)
(***************************************************************************)
EXTENDS Integers, Sequences, FiniteSets

CONSTANTS
  PageSize,    \* 0x1000
  NewlibHeap,  \* MEMORY_MB * 1024 * 1024
  Grain,       \* 0x200000, the unit in which the kernel gives heaps
  DefaultHeap, \* 0x2000000 * 16
  Heaps,       \* what the environment or the kernel may give as the heap
  Headers,     \* the sequences of program headers that the file may have
  Word,        \* 2^64, where a size_t wraps
  MaxSegments  \* SO_MAX_SEGMENTS

\* The heap is at addr: either the environment overrides it and says its size, or the
\* kernel is asked for one when free units of memory, total less used, are left.
Heap == [override : BOOLEAN, addr : Nat \ {0}, size : Nat, free : Int]

\* The size to ask the kernel for, in whole grains.
WholeGrains(free) == IF free > Grain THEN ((free - Grain) \div Grain) * Grain ELSE 0
AskedSize(free) == IF WholeGrains(free) = 0 THEN DefaultHeap ELSE WholeGrains(free)
SizeOf(h) == IF h.override THEN h.size ELSE AskedSize(h.free)

\* A header that describes a part of the file to load is a PT_LOAD.
Header == [load : BOOLEAN, x : BOOLEAN, vaddr : Nat, filesz : Nat, memsz : Nat]

\* The linker gives segments addresses that do not overlap.
Disjoint(s, t) == s.vaddr + s.memsz <= t.vaddr \/ t.vaddr + t.memsz <= s.vaddr

ASSUME SoImageAssumption ==
  /\ PageSize \in Nat \ {0} /\ NewlibHeap \in Nat /\ MaxSegments \in Nat
  /\ Word \in Nat \ {0}
  /\ Grain \in Nat \ {0} /\ Grain % PageSize = 0
  /\ DefaultHeap \in Nat /\ DefaultHeap % PageSize = 0
  /\ Heaps \subseteq Heap
  /\ \A h \in Heaps : /\ h.addr + SizeOf(h) + PageSize < Word
                      /\ h.override \/ h.addr % PageSize = 0
  /\ Headers \subseteq Seq(Header)
  /\ \A hs \in Headers : \A i \in 1 .. Len(hs) :
       /\ hs[i].filesz <= hs[i].memsz /\ hs[i].memsz > 0
       /\ \A j \in 1 .. i - 1 : hs[i].load /\ hs[j].load => Disjoint(hs[i], hs[j])

VARIABLES
  heap,       \* the heap of the process
  newlibEnd,  \* fake_heap_end
  base,       \* heap_so_base
  limit,      \* heap_so_limit
  pc,         \* where the boot is
  result,     \* what so_load() returns, 0 until then
  phdr,       \* the program headers
  so_base,    \* whether the file image is allocated
  load_memrv, \* whether the virtual memory is reserved
  listed,     \* whether the module is in so_list
  load_size,  \* load_size
  next,       \* the next header to copy
  zone,       \* the LOAD zone: Zero, or a place in the file image
  is_x_page,  \* is_x_page
  want_x,     \* want_x
  pg,         \* pg
  perm        \* host: permissions of the mapped pages

heapVars == <<heap, newlibEnd, base, limit>>
fileVars == <<phdr, so_base, load_memrv, listed>>
zoneVars == <<load_size, next, zone>>
pageVars == <<is_x_page, want_x, pg, perm>>
vars == <<heapVars, pc, result, fileVars, zoneVars, pageVars>>

Zero == <<0, 0>>

\* ALIGN_MEM(a, 0x1000)
Align(a) == ((a + PageSize - 1) \div PageSize) * PageSize

Loads == {i \in 1 .. Len(phdr) : phdr[i].load}
EndOf(i) == phdr[i].vaddr + phdr[i].memsz

\* A heap of size h and a file with the program headers hs.
InitWith(h, hs) ==
  /\ heap = h /\ newlibEnd = 0 /\ base = 0 /\ limit = 0
  /\ pc = "heap" /\ result = 0
  /\ phdr = hs
  /\ so_base = FALSE /\ load_memrv = FALSE /\ listed = FALSE
  /\ load_size = 0 /\ next = 1 /\ zone = <<>>
  /\ is_x_page = <<>> /\ want_x = TRUE /\ pg = 0 /\ perm = <<>>

Init == \E h \in Heaps, hs \in Headers : InitWith(h, hs)

-----------------------------------------------------------------------------
(***************************************************************************)
(* __libnx_initheap(): newlib gets a fixed part, or all there is, and the  *)
(* image the rest.  A heap from the environment is taken as it comes.      *)
(***************************************************************************)
\* umin(size, MEMORY_MB * 1024 * 1024)
Newlib == IF SizeOf(heap) < NewlibHeap THEN SizeOf(heap) ELSE NewlibHeap

HeapEnd == heap.addr + SizeOf(heap)

InitHeap ==
  /\ pc = "heap"
  /\ \/ /\ pc' = "open"
        /\ newlibEnd' = heap.addr + Newlib
        /\ base' = Align(newlibEnd')
        /\ limit' = (HeapEnd - base') % Word
     \/ \* svcSetHeapSize() fails: diagAbortWithResult().
        /\ ~heap.override /\ pc' = "failed"
        /\ UNCHANGED <<newlibEnd, base, limit>>
  /\ UNCHANGED <<heap, result, fileVars, zoneVars, pageVars>>

-----------------------------------------------------------------------------
(***************************************************************************)
(* so_load(), whose caller ends the program when it fails.                 *)
(***************************************************************************)
\* err_free_load and err_free_so
Undo == so_base' = FALSE /\ load_memrv' = FALSE

Fail(code) ==
  /\ pc' = "failed" /\ result' = code
  /\ Undo
  /\ UNCHANGED <<heapVars, phdr, listed, next, zone, pageVars>>

\* There is no file, or no memory for it.
OpenFails ==
  /\ pc = "open" /\ \E code \in {-1, -2} : Fail(code)
  /\ UNCHANGED load_size

Open ==
  /\ pc = "open" /\ pc' = "check"
  /\ so_base' = TRUE
  /\ UNCHANGED <<heapVars, result, phdr, load_memrv, listed, zoneVars, pageVars>>

\* Mutant of Extent: the last segment is taken to be the highest.
ExtentOfLast ==
  IF Loads = {} THEN 0
  ELSE CHOOSE e \in {EndOf(i) : i \in Loads} :
         \E i \in Loads : e = EndOf(i) /\ \A j \in Loads : j <= i
\* The end of the highest segment.
Extent ==
  IF Loads = {} THEN 0
  ELSE CHOOSE e \in {EndOf(i) : i \in Loads} : \A i \in Loads : EndOf(i) <= e

TooManyHeaders == Len(phdr) > 2 * MaxSegments

\* load_size > max_size
TooLarge == Align(Extent) > limit

\* The file is no ELF file, has too many headers or is too large.  Base is not NULL
\* here, as no heap begins at 0.
CheckFails ==
  /\ pc = "check"
  /\ \/ Fail(-1) /\ UNCHANGED load_size
     \/ TooManyHeaders /\ Fail(-4) /\ UNCHANGED load_size
     \/ ~TooManyHeaders /\ TooLarge /\ Fail(-3) /\ load_size' = Align(Extent)

\* The LOAD zone is cleared before anything else is done with it, where it is said to
\* be: there may be no memory beyond the heap.
ZoneFaults ==
  /\ pc = "check" /\ ~TooManyHeaders /\ ~TooLarge
  /\ Extent > 0 /\ base + Align(Extent) > HeapEnd
  /\ pc' = "failed"
  /\ load_size' = Align(Extent)
  /\ UNCHANGED <<heapVars, result, fileVars, next, zone, pageVars>>

Reserve ==
  /\ pc = "check" /\ ~TooManyHeaders /\ ~TooLarge
  /\ pc' = "copy"
  /\ load_size' = Align(Extent)
  /\ zone' = [a \in 0 .. Align(Extent) - 1 |-> Zero]
  /\ next' = 1
  /\ load_memrv' = TRUE
  /\ UNCHANGED <<heapVars, result, phdr, so_base, listed, pageVars>>

\* The addresses that header i copies from the file.
InFile(i, a) == a \in phdr[i].vaddr .. phdr[i].vaddr + phdr[i].filesz - 1

CopySegment ==
  /\ pc = "copy" /\ next <= Len(phdr)
  /\ next' = next + 1
  /\ zone' = [a \in DOMAIN zone |->
                IF phdr[next].load /\ InFile(next, a)
                THEN <<next, a - phdr[next].vaddr>> ELSE zone[a]]
  /\ UNCHANGED <<heapVars, pc, result, fileVars, load_size, pageVars>>

NoSymbols ==
  /\ pc = "copy" /\ next > Len(phdr) /\ Fail(-2)
  /\ UNCHANGED load_size

Register ==
  /\ pc = "copy" /\ next > Len(phdr)
  /\ pc' = "loaded"
  /\ listed' = TRUE
  /\ UNCHANGED <<heapVars, result, phdr, so_base, load_memrv, zoneVars, pageVars>>

-----------------------------------------------------------------------------
(***************************************************************************)
(* so_finalize(): the executable runs of pages first, then the others.     *)
(***************************************************************************)
NumPages == load_size \div PageSize
Page == 0 .. NumPages - 1

\* the last page that a segment needs
LastPage(i) == (Align(EndOf(i)) \div PageSize) - 1

Map ==
  /\ pc = "loaded" /\ pc' = "pages"
  /\ perm' = [p \in Page |-> "mapped"]
  /\ is_x_page' = [p \in Page |-> \E i \in Loads :
                     phdr[i].x /\ p \in (phdr[i].vaddr \div PageSize) .. LastPage(i)]
  /\ want_x' = TRUE /\ pg' = 0
  /\ UNCHANGED <<heapVars, result, fileVars, zoneVars>>

\* Mutant of RunOf: the run takes one page too many.
RunBeyond(p) == {q \in Page : q >= p /\ \A r \in p .. q - 1 : is_x_page[r] = want_x}
\* The pages from p on, up to the first one that is not wanted.
RunOf(p) == {q \in Page : q >= p /\ \A r \in p .. q : is_x_page[r] = want_x}

SkipPage ==
  /\ pc = "pages" /\ pg \in Page /\ is_x_page[pg] # want_x
  /\ pg' = pg + 1
  /\ UNCHANGED <<heapVars, pc, result, fileVars, zoneVars, is_x_page, want_x, perm>>

\* svcSetProcessMemoryPermission() of a run of pages
SetPermission ==
  /\ pc = "pages" /\ pg \in Page /\ is_x_page[pg] = want_x
  /\ perm' = [p \in Page |-> IF p \in RunOf(pg) THEN IF want_x THEN "rx" ELSE "rw"
                             ELSE perm[p]]
  /\ pg' = pg + Cardinality(RunOf(pg))
  /\ UNCHANGED <<heapVars, pc, result, fileVars, zoneVars, is_x_page, want_x>>

EndPass ==
  /\ pc = "pages" /\ pg \notin Page
  /\ IF want_x THEN want_x' = FALSE /\ pg' = 0 /\ UNCHANGED pc
               ELSE pc' = "ready" /\ UNCHANGED <<want_x, pg>>
  /\ UNCHANGED <<heapVars, result, fileVars, zoneVars, is_x_page, perm>>

\* A system call or an allocation of so_finalize() fails: fatal_error().
Fatal ==
  /\ pc \in {"loaded", "pages"} /\ pc' = "failed"
  /\ UNCHANGED <<heapVars, result, fileVars, zoneVars, pageVars>>

Load == \/ Open \/ OpenFails \/ CheckFails \/ ZoneFaults \/ Reserve
        \/ CopySegment \/ NoSymbols \/ Register
Finalize == Map \/ SkipPage \/ SetPermission \/ EndPass \/ Fatal

Next == InitHeap \/ Load \/ Finalize

Spec == Init /\ [][Next]_vars

-----------------------------------------------------------------------------
TypeOK ==
  /\ heap \in Heaps /\ newlibEnd \in Nat /\ base \in Nat /\ limit \in 0 .. Word - 1
  /\ pc \in {"heap", "open", "check", "copy", "loaded", "pages", "ready", "failed"}
  /\ result \in -4 .. 0
  /\ so_base \in BOOLEAN /\ load_memrv \in BOOLEAN /\ listed \in BOOLEAN
  /\ load_size \in Nat /\ next \in 1 .. Len(phdr) + 1
  /\ DOMAIN zone \in SUBSET Nat
  /\ want_x \in BOOLEAN /\ pg \in 0 .. NumPages

\* The LOAD zone is in the heap, of which newlib hands out a part and the image has
\* the rest.
ZoneInHeap == load_memrv => base + load_size <= HeapEnd

\* The LOAD zone is above what newlib hands out; and it is in the heap, if that came
\* from the kernel, or if what is left of it begins inside it.
ZoneFits ==
  load_memrv => /\ newlibEnd <= base
                /\ ~heap.override \/ base <= HeapEnd => ZoneInHeap

\* Once so_load() has succeeded, every part of every segment that the file has is
\* in its place, and the rest, such as the bss, is zero.
ZoneComplete ==
  pc \in {"loaded", "pages", "ready"} =>
    /\ \A i \in Loads : \A o \in 0 .. phdr[i].memsz - 1 :
         /\ phdr[i].vaddr + o \in DOMAIN zone
         /\ zone[phdr[i].vaddr + o] = IF o < phdr[i].filesz THEN <<i, o>> ELSE Zero
    /\ \A a \in DOMAIN zone :
         zone[a] # Zero => \E i \in Loads : a \in phdr[i].vaddr .. EndOf(i) - 1

\* The zone that so_load() fills does not overlap newlib's heap; it does not leave a
\* heap that the kernel gave, however small, nor one from the environment in which the
\* place for it is above newlib's part; and in the end it holds what the file describes.
ZoneSound == ZoneFits /\ ZoneComplete

\* In the end every page that has code can be executed, every other page can be
\* written, and no page both.
PagesReady ==
  pc = "ready" => \A p \in Page :
    perm[p] = IF \E i \in Loads : /\ phdr[i].x
                                  /\ phdr[i].vaddr < (p + 1) * PageSize
                                  /\ EndOf(i) > p * PageSize
              THEN "rx" ELSE "rw"

\* The game finds its file in memory as the headers describe it, page by page with
\* the rights that the code and the data in it need.
ImageSound == ZoneSound /\ PagesReady

\* The permission of a page is set once, from the freshly mapped state: the
\* kernel does not let a page become executable that was writable.
SetOnce ==
  [][\A p \in DOMAIN perm : perm'[p] # perm[p] => perm[p] = "mapped"]_vars
=============================================================================
