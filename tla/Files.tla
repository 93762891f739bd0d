-------------------------------- MODULE Files --------------------------------
(***************************************************************************)
(* What the game gets when it asks for a file: fopen_hook(), open_hook(),  *)
(* writev_fake() and the AAsset functions of source/imports.c, and the     *)
(* functions on a FILE, some wrapped by source/libc_shim.c and the others  *)
(* bound to newlib's own.  The game has files of two kinds: absolute       *)
(* paths, its saves, and relative ones, its assets, which it only reads;   *)
(* and three FILEs, its stdin, stdout and stderr, that are no FILEs of     *)
(* newlib.  A byte is the number of bytes that were written until then.    *)
(***************************************************************************)
EXTENDS Integers, Sequences

CONSTANTS
  Saved,      \* the names under which the game saves
  Packed,     \* Packed[a]: the content of asset a
  Handle,     \* what the game may have open at a time
  Parts,      \* the lengths of the parts that a writev() may get
  MaxWritten  \* bound: how many bytes are written

Asset == DOMAIN Packed
Path  == {<<"", s>> : s \in Saved} \cup {<<"assets/", a>> : a \in Asset}
Temp  == <<"", "urandom.tmp">>

ASSUME FilesAssumption ==
  /\ \A a \in Asset : Packed[a] \in Seq(Nat)
  /\ Parts \subseteq Seq(Nat) /\ MaxWritten \in Nat
  /\ Temp \notin Path

VARIABLES
  disk,    \* the content of each file, or Absent; newlib's buffers are not on disk
  open,    \* open[h]: the FILE, descriptor or Asset h
  written, \* history: the bytes that newlib's write() took for each file since the
           \* game has asked for its truncation, and how many in all
  mixed,   \* history: the files that were also written without O_APPEND
  writev,  \* the call of writev_fake() that runs
  strayed  \* history: newlib got a FILE that it has not made

vars == <<disk, open, written, mixed, writev, strayed>>

Absent == <<-1>>
Closed == [kind |-> "closed"]
Idle   == [pc |-> "idle"]

Init ==
  /\ disk = [p \in Path \cup {Temp} |-> IF p[1] = "assets/" THEN Packed[p[2]] ELSE Absent]
  /\ open = [h \in Handle |-> Closed]
  /\ written = [all |-> 0, to |-> [p \in Path |-> <<>>]]
  /\ mixed = {} /\ writev = Idle /\ strayed = FALSE

FirstOf(s, n) == SubSeq(s, 1, IF n < Len(s) THEN n ELSE Len(s))

\* A new FILE, descriptor or Asset, of which nothing has been read.
Opened(kind, file, at, writes, appends, size) ==
  [kind |-> kind, file |-> file, at |-> at, writes |-> writes, appends |-> appends,
   size |-> size, got |-> <<>>]

Give(h, what) == open[h] = Closed /\ open' = [open EXCEPT ![h] = what]

\* The game asks that file is empty.
Truncate(file) ==
  /\ disk' = [disk EXCEPT ![file] = <<>>]
  /\ written' = IF file = Temp THEN written ELSE [written EXCEPT !.to[file] = <<>>]
  /\ mixed' = mixed \ {file}

-----------------------------------------------------------------------------
(***************************************************************************)
(* fopen_hook().  Saves are written, assets are read.                      *)
(***************************************************************************)
Fopen(h, file, mode) ==
  /\ file[1] = "assets/" => mode = "r"
  /\ Give(h, Opened("file", file, 0, mode # "r", mode = "a", 0))
  /\ \/ mode = "w" /\ Truncate(file)
     \/ mode = "a" /\ disk[file] = Absent /\ Truncate(file)
     \/ mode \in {"r", "a"} /\ disk[file] # Absent /\ UNCHANGED <<disk, written, mixed>>
  /\ UNCHANGED <<writev, strayed>>

\* /dev/urandom is a file that is made anew, or the one that is there if it cannot
\* be made; 7 stands for what is random.
FopenUrandom(h) ==
  /\ Give(h, Opened("file", Temp, 0, FALSE, FALSE, 0))
  /\ \/ disk' = [disk EXCEPT ![Temp] = <<7, 7>>]
     \/ disk[Temp] # Absent /\ UNCHANGED disk
  /\ UNCHANGED <<written, mixed, writev, strayed>>

-----------------------------------------------------------------------------
(***************************************************************************)
(* open_hook().  Flags are sets of bits, of which the lowest two say if    *)
(* the file is read or written.                                            *)
(***************************************************************************)
Linux  == [creat |-> 6, excl |-> 7, trunc |-> 9, append |-> 10]
Newlib == [append |-> 3, creat |-> 9, trunc |-> 10, excl |-> 11]

\* Mutant of Translate: newlib gets the bits of the game.
Untranslated(flags) == flags
\* out_flags
Translate(flags) ==
  (flags \cap {0, 1}) \cup {Newlib[f] : f \in {g \in DOMAIN Linux : Linux[g] \in flags}}

\* What the game may ask for.
Flags == {{}} \cup {{0, Linux.creat} \cup f : f \in SUBSET {Linux.excl, Linux.trunc, Linux.append}}

\* newlib's open(): whether it succeeds, and the content of the file then
OpenSucceeds(content, bits) ==
  IF content = Absent THEN Newlib.creat \in bits
                      ELSE ~({Newlib.creat, Newlib.excl} \subseteq bits)
OpenContent(content, bits) ==
  IF content = Absent \/ Newlib.trunc \in bits THEN <<>> ELSE content

Open(h, file, flags) ==
  /\ file[1] = "assets/" => flags = {}
  /\ LET bits == Translate(flags) IN
       /\ OpenSucceeds(disk[file], bits)
       /\ Give(h, Opened("fd", file, 0, 0 \in bits, Newlib.append \in bits, 0))
       /\ disk' = [disk EXCEPT ![file] = OpenContent(@, bits)]
  /\ IF Linux.trunc \in flags \/ disk[file] = Absent
     THEN written' = [written EXCEPT !.to[file] = <<>>] /\ mixed' = mixed \ {file}
     ELSE UNCHANGED <<written, mixed>>
  /\ UNCHANGED <<writev, strayed>>

-----------------------------------------------------------------------------
(***************************************************************************)
(* AAssetManager_open_fake(), AAsset_openFileDescriptor_fake(), and the    *)
(* functions of newlib that read, close and move.                          *)
(***************************************************************************)
\* Mutant of Rewound: the Asset is left at the end that was measured.
NotRewound(size) == size
\* where the FILE of an Asset is after its size was measured
Rewound(size) == 0

AssetOpen(h, a) ==
  /\ LET file == <<"assets/", a>>
         size == Len(disk[file])
     IN  Give(h, Opened("asset", file, Rewound(size), FALSE, FALSE, size))
  /\ UNCHANGED <<disk, written, mixed, writev, strayed>>

\* A descriptor of its own, at the start of the asset.
AssetDescriptor(h, from) ==
  /\ open[from].kind = "asset"
  /\ Give(h, Opened("region", open[from].file, 0, FALSE, FALSE, open[from].size))
  /\ UNCHANGED <<disk, written, mixed, writev, strayed>>

\* AAsset_read_fake(), fread_fake() or read() of up to n bytes
Read(h, n) ==
  /\ open[h] # Closed /\ ~open[h].writes
  /\ LET o == open[h]
         d == FirstOf(SubSeq(disk[o.file], o.at + 1, Len(disk[o.file])), n)
     IN  d # <<>> /\ open' = [open EXCEPT ![h].at = @ + Len(d), ![h].got = @ \o d]
  /\ UNCHANGED <<disk, written, mixed, writev, strayed>>

\* AAsset_close_fake(), fclose_fake() or close(); only what h is, is closed.
Close(h) ==
  /\ open[h] # Closed /\ (writev.pc = "loop" => writev.h # h)
  /\ open' = [open EXCEPT ![h] = Closed]
  /\ UNCHANGED <<disk, written, mixed, writev, strayed>>

-----------------------------------------------------------------------------
(***************************************************************************)
(* writev_fake(), one write() a step, and others write meanwhile.          *)
(***************************************************************************)
\* newlib's write() takes the bytes d, at the end or where it is.
Put(h, d) ==
  LET o    == open[h]
      old  == disk[o.file]
      at   == IF o.appends THEN Len(old) ELSE o.at
      size == IF at + Len(d) > Len(old) THEN at + Len(d) ELSE Len(old)
      new  == [k \in 1 .. size |-> IF k \in at + 1 .. at + Len(d) THEN d[k - at]
                                   ELSE IF k <= Len(old) THEN old[k] ELSE 0]
  IN  /\ disk' = [disk EXCEPT ![o.file] = new]
      /\ open' = [open EXCEPT ![h].at = at + Len(d)]
      /\ written' = [all |-> written.all + Len(d),
                     to  |-> [written.to EXCEPT ![o.file] = @ \o d]]
      /\ mixed' = IF o.appends THEN mixed ELSE mixed \cup {o.file}

\* the next n bytes that are written
Bytes(n) == [k \in 1 .. n |-> written.all + k]

\* write() of another thread, or newlib writes what fwrite_fake() has given it.
Write(h) ==
  /\ open[h] # Closed /\ open[h].writes /\ written.all < MaxWritten
  /\ Put(h, Bytes(1))
  /\ UNCHANGED <<writev, strayed>>

Writev(h, parts) ==
  /\ writev.pc \in {"idle", "done"}
  /\ open[h] # Closed /\ open[h].kind = "fd" /\ open[h].writes
  /\ writev' = [pc |-> "loop", h |-> h, parts |-> parts, i |-> 1, total |-> 0, put |-> <<>>]
  /\ UNCHANGED <<disk, open, written, mixed, strayed>>

\* Mutant of Total: only the last part counts.
TotalOfLast(total, n) == n
\* total += n
Total(total, n) == total + n

\* where the bytes of part i are in the whole
Before(parts, i) ==
  LET sum[j \in 0 .. Len(parts)] == IF j = 0 THEN 0 ELSE sum[j - 1] + parts[j]
  IN  sum[i - 1]

\* write() takes n bytes of the part in turn; after a short write the loop goes on.
WritevPart(n) ==
  /\ writev.pc = "loop" /\ writev.i <= Len(writev.parts)
  /\ n <= writev.parts[writev.i] /\ written.all + n <= MaxWritten
  /\ Put(writev.h, Bytes(n))
  /\ writev' = [writev EXCEPT !.i = @ + 1, !.total = Total(@, n),
                  !.put = @ \o [k \in 1 .. n |-> Before(writev.parts, writev.i) + k]]
  /\ UNCHANGED strayed

WritevFails ==
  /\ writev.pc = "loop" /\ writev.i <= Len(writev.parts)
  /\ writev' = [writev EXCEPT !.pc = "done", !.total = -1]
  /\ UNCHANGED <<disk, open, written, mixed, strayed>>

WritevReturns ==
  /\ writev.pc = "loop" /\ writev.i > Len(writev.parts)
  /\ writev' = [writev EXCEPT !.pc = "done"]
  /\ UNCHANGED <<disk, open, written, mixed, strayed>>

-----------------------------------------------------------------------------
(***************************************************************************)
(* The functions on a FILE, called with stdin, stdout or stderr.           *)
(***************************************************************************)
\* The import table binds these functions on a FILE to a wrapper,
Wrapped ==
  {"fclose", "fflush", "fread", "fwrite", "fseek", "fputc", "fputs", "fprintf",
   "ferror", "fileno", "getc", "ungetc"}
\* and these to newlib.
Direct ==
  {"ftell", "fgetc", "feof", "getwc", "putwc", "ungetwc", "putc", "setvbuf"}

\* is_fake_file() is true, and the wrapper only returns something.
Absorbs(function) == function \in Wrapped

OnFakeFile(function) ==
  /\ strayed' = (strayed \/ ~Absorbs(function))
  /\ UNCHANGED <<disk, open, written, mixed, writev>>

Next ==
  \/ \E h \in Handle :
       \/ \E f \in Path : \/ \E mode \in {"r", "w", "a"} : Fopen(h, f, mode)
                          \/ \E flags \in Flags : Open(h, f, flags)
       \/ FopenUrandom(h)
       \/ \E a \in Asset : AssetOpen(h, a)
       \/ \E from \in Handle : AssetDescriptor(h, from)
       \/ \E n \in 1 .. 2 : Read(h, n)
       \/ Close(h) \/ Write(h) \/ \E parts \in Parts : Writev(h, parts)
  \/ \E n \in 0 .. MaxWritten : WritevPart(n)
  \/ WritevFails \/ WritevReturns
  \/ \E function \in Wrapped \cup Direct : OnFakeFile(function)

Spec == Init /\ [][Next]_vars

-----------------------------------------------------------------------------
TypeOK ==
  /\ \A p \in Path : disk[p] \in Seq(Nat) \cup {Absent}
  /\ \A h \in Handle : open[h] # Closed => open[h].file \in DOMAIN disk /\ open[h].at \in Nat
  /\ written.all \in 0 .. MaxWritten /\ mixed \subseteq Path
  /\ writev.pc \in {"idle", "loop", "done"} /\ strayed \in BOOLEAN

\* What is read of an Asset and through each of its descriptors is the asset from
\* its beginning on, with nothing left out, whatever was read through the others or
\* closed; and its length is the one that the game was told.
AssetReads ==
  \A h \in Handle : open[h] # Closed /\ open[h].kind \in {"asset", "region"} =>
    /\ open[h].got = SubSeq(Packed[open[h].file[2]], 1, open[h].at)
    /\ open[h].size = Len(Packed[open[h].file[2]])

\* A save to which the game only appends holds everything that was written since
\* the game has last asked for its truncation, in order, however often and through
\* whatever mix of FILEs and descriptors it was opened.
AppendsKept ==
  \A p \in Path : p[1] = "" /\ p \notin mixed /\ disk[p] # Absent => disk[p] = written.to[p]

\* If writev() returns a number, that many bytes were written; and if all, they were
\* written in order.  (A short write leaves a gap, and after a failure it returns
\* -1 although parts may have been written.)
WritevCounts ==
  writev.pc = "done" /\ writev.total >= 0 =>
    /\ writev.total = Len(writev.put)
    /\ writev.total = Before(writev.parts, Len(writev.parts) + 1) =>
         writev.put = [k \in 1 .. writev.total |-> k]

\* libc_shim.c:463-464: libc++ initialises std::cout and cerr "against &__sF[1]/
\* &__sF[2]; these wrappers absorb accesses to those fake FILEs and forward the
\* rest": newlib never gets a FILE that it has not made.
FakesAbsorbed == ~strayed
=============================================================================
