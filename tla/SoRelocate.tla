----------------------------- MODULE SoRelocate -----------------------------
(***************************************************************************)
(* How the game binary is bound to its addresses and to its imports:       *)
(* so_relocate(), so_process_relr() and so_resolve() of source/so_util.c,  *)
(* one relocation a step.  They patch the words of the LOAD zone.          *)
(*                                                                         *)
(* Addresses of the zone count in words, and words hold numbers below      *)
(* Word.  The sections .rela.dyn and .rela.plt, which the loops go through *)
(* one after the other, are one sequence.                                  *)
(***************************************************************************)
EXTENDS Integers, Sequences

CONSTANTS
  Word,     \* 2^64
  Bits,     \* 63: the words that one bitmap describes
  Virtbase, \* load_virtbase
  Place,    \* the words of the LOAD zone
  Own,      \* Own[s] is the st_value of symbol s, or Undef
  Undef,    \* SHN_UNDEF
  Imports,  \* funcs: a sequence of a symbol and a func each
  Modules,  \* the other modules of so_list, each a sequence of its symbols
  Files     \* what the file may hold

Symbol == DOMAIN Own

Rela  == [type : {"ABS64", "RELATIVE", "GLOB_DAT", "JUMP_SLOT", "other"},
          at : Place, sym : Symbol, addend : Int]
Entry == [even : {TRUE}, at : Place] \cup [even : {FALSE}, bits : SUBSET (1 .. Bits)]

VARIABLES
  file,  \* its relocations, its packed relocations and its words
  taint, \* taint_missing_imports
  mem,   \* the words of the LOAD zone
  pc,    \* which loop runs, or "done" or "failed"
  i,     \* the next relocation or packed entry
  where  \* where

vars == <<file, taint, mem, pc, i, where>>

rels == file.rels
relr == file.relr

-----------------------------------------------------------------------------
(***************************************************************************)
(* The layout of the packed relocations, and what a file may hold: no word *)
(* is relocated twice, and bitmaps follow an address.                      *)
(***************************************************************************)
\* The address that entry k goes on from.
Anchor(f, k) == CHOOSE e \in 1 .. k : f.relr[e].even /\ \A d \in e + 1 .. k : ~f.relr[d].even

\* The words that entry k describes.
Described(f, k) ==
  IF f.relr[k].even THEN {f.relr[k].at}
  ELSE LET first == f.relr[Anchor(f, k)].at + 1 + (k - Anchor(f, k) - 1) * Bits
       IN  {first + b - 1 : b \in f.relr[k].bits}

Packed(f) == UNION {Described(f, k) : k \in 1 .. Len(f.relr)}

WellFormed(f) ==
  /\ f.rels \in Seq(Rela) /\ f.relr \in Seq(Entry)
  /\ f.words \in [Place -> 0 .. Word - 1]
  /\ f.relr # <<>> => f.relr[1].even
  /\ \A k \in 1 .. Len(f.relr) :
       /\ Described(f, k) \subseteq Place
       /\ \A l \in 1 .. k - 1 : Described(f, k) \cap Described(f, l) = {}
  /\ \A k \in 1 .. Len(f.rels) :
       /\ f.rels[k].at \notin Packed(f)
       /\ \A l \in 1 .. k - 1 : f.rels[k].at # f.rels[l].at

SoRelocateAssumption ==
  /\ Word \in Nat \ {0} /\ Bits \in Nat \ {0} /\ Virtbase \in 0 .. Word - 1
  /\ Place \subseteq Nat
  /\ \A s \in Symbol : Own[s] = Undef \/ Own[s] \in 0 .. Word - 1
  /\ \A k \in 1 .. Len(Imports) : Imports[k].func \in 0 .. Word - 1
  /\ \A m \in 1 .. Len(Modules) : \A k \in 1 .. Len(Modules[m]) :
       Modules[m][k].address \in 1 .. Word - 1  \* no module is mapped at 0
  /\ \A f \in Files : WellFormed(f)

-----------------------------------------------------------------------------
InitWith(f, t) ==
  /\ file = f /\ taint = t
  /\ mem = f.words
  /\ pc = "rela" /\ i = 1 /\ where = 0

Init == \E f \in Files, t \in BOOLEAN : InitWith(f, t)

\* *ptr = value, with the loop counter
Store(a, value) == mem' = [mem EXCEPT ![a] = value % Word]

\* the next loop, from its first round
Go(loop) == pc' = loop /\ i' = 1

Continue == i' = i + 1 /\ UNCHANGED pc

\* sym->st_shndx == SHN_UNDEF
Imported(r) == Own[r.sym] = Undef

-----------------------------------------------------------------------------
(***************************************************************************)
(* so_relocate()                                                           *)
(***************************************************************************)
Relocate ==
  /\ pc = "rela" /\ i <= Len(rels)
  /\ LET r == rels[i] IN
       \/ /\ r.type = "RELATIVE"
          /\ Store(r.at, Virtbase + r.addend)
       \/ /\ r.type \in {"ABS64", "GLOB_DAT", "JUMP_SLOT"} /\ ~Imported(r)
          /\ Store(r.at, Virtbase + Own[r.sym] + r.addend)
       \/ /\ r.type = "ABS64" /\ Imported(r)
          /\ Store(r.at, r.addend)
       \/ /\ r.type \in {"GLOB_DAT", "JUMP_SLOT"} /\ Imported(r)
          /\ UNCHANGED mem
  /\ Continue
  /\ UNCHANGED <<file, taint, where>>

\* fatal_error()
UnknownType ==
  /\ pc = "rela" /\ i <= Len(rels) /\ rels[i].type = "other"
  /\ pc' = "failed"
  /\ UNCHANGED <<file, taint, mem, i, where>>

EndRela ==
  /\ pc = "rela" /\ i > Len(rels)
  /\ Go("relr") /\ where' = 0
  /\ UNCHANGED <<file, taint, mem>>

-----------------------------------------------------------------------------
(***************************************************************************)
(* so_process_relr()                                                       *)
(***************************************************************************)
Add(places) ==
  mem' = [a \in Place |-> IF a \in places THEN (mem[a] + Virtbase) % Word ELSE mem[a]]

\* Mutant of Skip: a bitmap is taken to describe as many words as it has bits.
SkipWord == Bits + 1
\* how far a bitmap moves where
Skip == Bits

Address ==
  /\ pc = "relr" /\ i <= Len(relr) /\ relr[i].even
  /\ Add({relr[i].at})
  /\ where' = relr[i].at + 1
  /\ Continue
  /\ UNCHANGED <<file, taint>>

Bitmap ==
  /\ pc = "relr" /\ i <= Len(relr) /\ ~relr[i].even
  /\ Add({where + bit - 1 : bit \in relr[i].bits})
  /\ where' = where + Skip
  /\ Continue
  /\ UNCHANGED <<file, taint>>

EndRelr ==
  /\ pc = "relr" /\ i > Len(relr)
  /\ Go("resolve")
  /\ UNCHANGED <<file, taint, mem, where>>

-----------------------------------------------------------------------------
(***************************************************************************)
(* so_resolve()                                                            *)
(***************************************************************************)
First(S) == CHOOSE k \in S : \A l \in S : k <= l

\* so_lookup_export(): where module m has symbol s, or 0
Export(m, s) ==
  LET found == {k \in 1 .. Len(m) : m[k].symbol = s /\ m[k].defined /\ ~m[k].local}
  IN  IF found = {} THEN 0 ELSE m[First(found)].address

\* so_resolve_symbol(): the first entry of the import table, or else the first
\* other module that exports s, or 0
AddressOf(s) ==
  LET table == {k \in 1 .. Len(Imports) : Imports[k].symbol = s}
      other == {k \in 1 .. Len(Modules) : Export(Modules[k], s) # 0}
  IN  CASE table # {}                -> Imports[First(table)].func
        [] table = {} /\ other # {}  -> Export(Modules[First(other)], s)
        [] OTHER                     -> 0

\* the relocations that so_resolve() looks at
Resolvable(r) == r.type \in {"ABS64", "GLOB_DAT", "JUMP_SLOT"} /\ Imported(r)

Resolve ==
  /\ pc = "resolve" /\ i <= Len(rels)
  /\ LET r == rels[i] IN
       \/ /\ Resolvable(r) /\ AddressOf(r.sym) # 0
          /\ Store(r.at, AddressOf(r.sym) + r.addend)
       \/ /\ Resolvable(r) /\ AddressOf(r.sym) = 0 /\ taint
          /\ Store(r.at, r.at)
       \/ /\ ~Resolvable(r) \/ (AddressOf(r.sym) = 0 /\ ~taint)
          /\ UNCHANGED mem
  /\ Continue
  /\ UNCHANGED <<file, taint, where>>

EndResolve ==
  /\ pc = "resolve" /\ i > Len(rels)
  /\ Go("done")
  /\ UNCHANGED <<file, taint, mem, where>>

Next ==
  \/ Relocate \/ UnknownType \/ EndRela
  \/ Address \/ Bitmap \/ EndRelr
  \/ Resolve \/ EndResolve

Spec == Init /\ [][Next]_vars

-----------------------------------------------------------------------------
TypeOK ==
  /\ taint \in BOOLEAN
  /\ mem \in [Place -> 0 .. Word - 1]
  /\ pc \in {"rela", "relr", "resolve", "done", "failed"}
  /\ i \in 1 .. (IF pc = "relr" THEN Len(relr) ELSE Len(rels)) + 1
  /\ where \in Nat

\* What a relocation stands for, by the psABI, where undefined symbols are those
\* of the import table and of the other modules.
Meaning(r) ==
  CASE r.type = "RELATIVE" -> Virtbase + r.addend
    [] r.type # "RELATIVE" /\ ~Imported(r) -> Virtbase + Own[r.sym] + r.addend
    [] OTHER -> AddressOf(r.sym) + r.addend

\* The value of an import that nobody has: an address in the zone, so that the
\* game crashes in an obvious place, or what so_relocate() left there.
MissingValue(r) ==
  CASE taint                       -> r.at
    [] ~taint /\ r.type = "ABS64"  -> r.addend
    [] OTHER                       -> file.words[r.at]

Missing(r) == r.type # "RELATIVE" /\ Imported(r) /\ AddressOf(r.sym) = 0

\* In the end every word has what its relocation stands for, a packed word is
\* moved exactly once, and the other words are those of the file.
Relocated ==
  pc = "done" =>
    /\ \A k \in 1 .. Len(rels) : LET r == rels[k] IN
         mem[r.at] = (IF Missing(r) THEN MissingValue(r) ELSE Meaning(r)) % Word
    /\ \A a \in Packed(file) : mem[a] = (file.words[a] + Virtbase) % Word
    /\ \A a \in Place \ Packed(file) :
         (\A k \in 1 .. Len(rels) : rels[k].at # a) => mem[a] = file.words[a]

\* An import is bound to the first entry of the import table that has its name,
\* and only if there is none to an export of a module, of the first in load order
\* that has one: never to a local or undefined symbol.
ImportsBound ==
  pc = "done" => \A k \in 1 .. Len(rels) : LET r == rels[k] IN
    r.type # "RELATIVE" /\ Imported(r) =>
      LET entries == {n \in 1 .. Len(Imports) : Imports[n].symbol = r.sym}
          exports == {e \in UNION {{n} \X (1 .. Len(Modules[n])) : n \in 1 .. Len(Modules)} :
                        LET s == Modules[e[1]][e[2]] IN
                          s.symbol = r.sym /\ s.defined /\ ~s.local}
      IN  /\ \A n \in entries :
               (\A l \in entries : n <= l) /\ Imports[n].func # 0 =>
                 mem[r.at] = (Imports[n].func + r.addend) % Word
          /\ entries = {} /\ exports # {} =>
               \E e \in exports :
                 /\ \A d \in exports : e[1] <= d[1]
                 /\ mem[r.at] = (Modules[e[1]][e[2]].address + r.addend) % Word

\* The second pass over the relocations neither repeats nor undoes the first, and
\* every word, packed or not, ends with what the file means by it.
WordsBound == Relocated /\ ImportsBound
=============================================================================
