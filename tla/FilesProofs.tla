----------------------------- MODULE FilesProofs -----------------------------
(***************************************************************************)
(* Proofs about Files, for any names, assets, number of handles and parts. *)
(*                                                                         *)
(* None of the properties is inductive.  That assets are read as they are  *)
(* needs that no handle through which something can be written leads to    *)
(* one (Guarded); that appends lose nothing needs that the bits which      *)
(* newlib gets mean what the game has asked for (TranslateMeans); and what *)
(* writev() returns needs what its loop has counted and put so far         *)
(* (Counted), with the lengths of the parts before it (BeforeIs).          *)
(***************************************************************************)
EXTENDS Files, SequenceTheorems, WellFoundedInduction, TLAPS

\* A FILE, descriptor or Asset that is open.
Item ==
  [kind : {"file", "fd", "asset", "region"}, file : Path \cup {Temp}, at : Nat,
   writes : BOOLEAN, appends : BOOLEAN, size : Nat, got : Seq(Nat)]

\* A call of writev_fake() that runs or has returned.
Call ==
  [pc : {"loop", "done"}, h : Handle, parts : Parts, i : Nat \ {0}, total : Int,
   put : Seq(Nat)]

Types ==
  /\ disk \in [Path \cup {Temp} -> Seq(Nat) \cup {Absent}]
  /\ open \in [Handle -> Item \cup {Closed}]
  /\ written \in [all : 0 .. MaxWritten, to : [Path -> Seq(Nat)]]
  /\ mixed \subseteq Path
  /\ writev \in Call \cup {Idle}
  /\ strayed \in BOOLEAN

\* A file that is open is there, nothing is written through what leads to an asset
\* or to the random file, and only assets are opened as one.
Guarded ==
  /\ \A h \in Handle : open[h] # Closed =>
       /\ disk[open[h].file] # Absent
       /\ open[h].writes => open[h].file \in Path /\ open[h].file[1] = ""
       /\ open[h].kind \in {"asset", "region"} => open[h].file \in Path /\ open[h].file[1] = "assets/"
  /\ writev.pc = "loop" => open[writev.h] # Closed /\ open[writev.h].writes
  /\ \A a \in Asset : disk[<<"assets/", a>>] = Packed[a]

\* What was read of an asset is its beginning.
FromStart ==
  \A h \in Handle : open[h] # Closed /\ open[h].kind \in {"asset", "region"} =>
    /\ open[h].at <= open[h].size
    /\ open[h].size = Len(disk[open[h].file])
    /\ open[h].got = SubSeq(disk[open[h].file], 1, open[h].at)

\* The loop of writev() has counted what it has put, at most the parts so far, and if
\* it was all of them then in order.
Counted ==
  /\ writev.pc = "loop" => writev.i <= Len(writev.parts) + 1 /\ writev.total >= 0
  /\ writev.pc = "done" /\ writev.total >= 0 => writev.i = Len(writev.parts) + 1
  /\ writev.pc # "idle" /\ writev.total >= 0 =>
       /\ writev.total = Len(writev.put)
       /\ writev.total <= Before(writev.parts, writev.i)
       /\ writev.total = Before(writev.parts, writev.i) =>
            writev.put = [k \in 1 .. writev.total |-> k]

-----------------------------------------------------------------------------
(***************************************************************************)
(* The lengths of the parts before one.                                    *)
(***************************************************************************)
\* A set of naturals has a least element.
LEMMA Least ==
  ASSUME NEW T \in SUBSET Nat, T # {}
  PROVE  \E m \in T : \A n \in T : m <= n
<1> DEFINE Less == {ss \in Nat \X Nat : ss[1] < ss[2]}
<1>1. IsWellFoundedOn(Less, Nat)
  BY NatLessThanWellFounded DEF OpToRel
<1>2. PICK m \in T : \A n \in T : ~ (<<n, m>> \in Less)
  <2> HIDE DEF Less
  <2> QED BY <1>1, WFMin
<1>3. ASSUME NEW n \in T PROVE m <= n
  <2>1. <<n, m>> \in Nat \X Nat /\ ~ (<<n, m>> \in Less)
    BY <1>2
  <2>2. ~ (n < m)
    BY <2>1
  <2> QED BY <2>2
<1> QED BY <1>3

\* f has the sums of the first parts, up to part n.
SumsUpTo(f, parts, n) ==
  /\ f \in [0 .. n -> Nat] /\ f[0] = 0
  /\ \A j \in 1 .. n : f[j] = f[j - 1] + parts[j]

\* There are such sums.
LEMMA SumsExist ==
  ASSUME NEW parts \in Seq(Nat), NEW n \in 0 .. Len(parts)
  PROVE  \E f : SumsUpTo(f, parts, n)
<1> DEFINE T == {m \in 0 .. Len(parts) : ~ \E f : SumsUpTo(f, parts, m)}
<1>1. T = {}
  <2>1. SUFFICES ASSUME T # {} PROVE FALSE
    OBVIOUS
  <2>2. PICK m \in T : \A k \in T : m <= k
    <3>1. T \in SUBSET Nat
      OBVIOUS
    <3> HIDE DEF T
    <3> QED BY <2>1, <3>1, Least
  <2>3. m # 0
    <3>1. SumsUpTo([j \in 0 .. 0 |-> 0], parts, 0)
      BY DEF SumsUpTo
    <3> QED BY <3>1
  <2>4. m \in 1 .. Len(parts) /\ m - 1 \notin T /\ Len(parts) \in Nat
    BY <2>2, <2>3
  <2>5. PICK f : SumsUpTo(f, parts, m - 1)
    BY <2>4
  <2> DEFINE g == [j \in 0 .. m |-> IF j = m THEN f[m - 1] + parts[m] ELSE f[j]]
  <2>6. parts[m] \in Nat /\ f[m - 1] \in Nat
    BY <2>4, <2>5 DEF SumsUpTo
  <2>7. g \in [0 .. m -> Nat] /\ g[0] = 0
    BY <2>4, <2>5, <2>6 DEF SumsUpTo
  <2>8. \A j \in 1 .. m : g[j] = g[j - 1] + parts[j]
    BY <2>4, <2>5 DEF SumsUpTo
  <2>9. SumsUpTo(g, parts, m)
    <3> HIDE DEF g
    <3> QED BY <2>7, <2>8 DEF SumsUpTo
  <2> QED BY <2>2, <2>9
<1> QED BY <1>1

\* Before() starts with 0 and goes on with the length of each part.
LEMMA BeforeIs ==
  ASSUME NEW parts \in Seq(Nat)
  PROVE  /\ Before(parts, 1) = 0
         /\ \A i \in 1 .. Len(parts) + 1 : Before(parts, i) \in Nat
         /\ \A i \in 1 .. Len(parts) : Before(parts, i + 1) = Before(parts, i) + parts[i]
<1> DEFINE body(s) == [j \in 0 .. Len(parts) |-> IF j = 0 THEN 0 ELSE s[j - 1] + parts[j]]
           sum == CHOOSE s : s = body(s)
<1>0. Len(parts) \in Nat
  OBVIOUS
<1>1. PICK f : SumsUpTo(f, parts, Len(parts))
  BY <1>0, SumsExist
<1>2. f = body(f)
  BY <1>0, <1>1 DEF SumsUpTo
<1>3. sum = body(sum)
  <2>1. \E s : s = body(s)
    BY <1>2
  <2> HIDE DEF body
  <2> QED BY <2>1
<1>4. \A i \in 1 .. Len(parts) + 1 : Before(parts, i) = sum[i - 1]
  BY DEF Before
<1> HIDE DEF sum
<1>5. sum[0] = 0 /\ \A j \in 1 .. Len(parts) : sum[j] = sum[j - 1] + parts[j]
  BY <1>0, <1>3
<1>6. \A j \in 0 .. Len(parts) : sum[j] \in Nat
  <2> DEFINE T == {j \in 0 .. Len(parts) : sum[j] \notin Nat}
  <2>1. SUFFICES ASSUME T # {} PROVE FALSE
    OBVIOUS
  <2>2. PICK m \in T : \A k \in T : m <= k
    <3>1. T \in SUBSET Nat
      BY <1>0
    <3> HIDE DEF T
    <3> QED BY <2>1, <3>1, Least
  <2>3. m \in 1 .. Len(parts) /\ m - 1 \notin T
    BY <1>0, <1>5, <2>2
  <2>4. sum[m - 1] \in Nat /\ parts[m] \in Nat
    BY <1>0, <2>3
  <2> QED BY <1>5, <2>2, <2>3, <2>4
<1>7. ASSUME NEW i \in 1 .. Len(parts)
      PROVE  Before(parts, i + 1) = Before(parts, i) + parts[i]
  <2>1. i + 1 \in 1 .. Len(parts) + 1 /\ i \in 1 .. Len(parts) + 1 /\ (i + 1) - 1 = i
    BY <1>0
  <2> QED BY <1>4, <1>5, <2>1
<1>8. Before(parts, 1) = 0
  <2>1. 1 \in 1 .. Len(parts) + 1 /\ 1 - 1 = 0
    BY <1>0
  <2> QED BY <1>4, <1>5, <2>1
<1>9. ASSUME NEW i \in 1 .. Len(parts) + 1 PROVE Before(parts, i) \in Nat
  <2>1. i - 1 \in 0 .. Len(parts)
    BY <1>0
  <2> QED BY <1>4, <1>6, <2>1
<1> QED BY <1>7, <1>8, <1>9

-----------------------------------------------------------------------------
(***************************************************************************)
(* What the operators of the model return.                                 *)
(***************************************************************************)
\* What a file has is no content of a file that is not there.
LEMMA AbsentIsNone == Absent \notin Seq(Nat) /\ <<>> \in Seq(Nat) /\ <<>> # Absent
<1>1. Len(Absent) = 1 /\ Absent[1] = -1
  BY DEF Absent
<1>2. ASSUME Absent \in Seq(Nat) PROVE FALSE
  <2>1. Absent[1] \in Nat
    BY <1>1, <1>2, ElementOfSeq
  <2> QED BY <1>1, <2>1
<1>3. Len(<<>>) = 0 /\ <<>> \in Seq(Nat)
  OBVIOUS
<1> QED BY <1>1, <1>2, <1>3

\* The bits that newlib gets mean what the game has asked for.
LEMMA TranslateMeans ==
  ASSUME NEW flags \in Flags
  PROVE  /\ 0 \in Translate(flags) <=> flags # {}
         /\ Newlib.creat \in Translate(flags) <=> flags # {}
         /\ Newlib.excl \in Translate(flags) <=> Linux.excl \in flags
         /\ Newlib.trunc \in Translate(flags) <=> Linux.trunc \in flags
         /\ Newlib.append \in Translate(flags) <=> Linux.append \in flags
<1>1. /\ Linux.creat = 6 /\ Linux.excl = 7 /\ Linux.trunc = 9 /\ Linux.append = 10
      /\ Newlib.append = 3 /\ Newlib.creat = 9 /\ Newlib.trunc = 10 /\ Newlib.excl = 11
      /\ DOMAIN Linux = {"creat", "excl", "trunc", "append"}
  BY DEF Linux, Newlib
<1>2. flags = {} \/ (0 \in flags /\ 6 \in flags)
  BY <1>1 DEF Flags
<1>3. flags \subseteq {0, 6, 7, 9, 10}
  BY <1>1 DEF Flags
<1>4. \A b \in Nat : b \in Translate(flags) <=>
        \/ b \in flags /\ b \in {0, 1}
        \/ 6 \in flags /\ b = 9
        \/ 7 \in flags /\ b = 11
        \/ 9 \in flags /\ b = 10
        \/ 10 \in flags /\ b = 3
  <2>1. ASSUME NEW b \in Nat
        PROVE  b \in Translate(flags) <=>
                 \/ b \in flags /\ b \in {0, 1}
                 \/ \E g \in DOMAIN Linux : Linux[g] \in flags /\ b = Newlib[g]
    BY DEF Translate
  <2>2. /\ Linux["creat"] = 6 /\ Linux["excl"] = 7 /\ Linux["trunc"] = 9
        /\ Linux["append"] = 10 /\ Newlib["append"] = 3 /\ Newlib["creat"] = 9
        /\ Newlib["trunc"] = 10 /\ Newlib["excl"] = 11
    BY DEF Linux, Newlib
  <2>3. ASSUME NEW b \in Nat
        PROVE  (\E g \in DOMAIN Linux : Linux[g] \in flags /\ b = Newlib[g]) <=>
                 \/ 6 \in flags /\ b = 9
                 \/ 7 \in flags /\ b = 11
                 \/ 9 \in flags /\ b = 10
                 \/ 10 \in flags /\ b = 3
    <3>1. (\E g \in DOMAIN Linux : Linux[g] \in flags /\ b = Newlib[g]) <=>
            \/ Linux["creat"] \in flags /\ b = Newlib["creat"]
            \/ Linux["excl"] \in flags /\ b = Newlib["excl"]
            \/ Linux["trunc"] \in flags /\ b = Newlib["trunc"]
            \/ Linux["append"] \in flags /\ b = Newlib["append"]
      BY <1>1, Zenon
    <3> QED BY <2>2, <3>1, Zenon
  <2> QED BY <2>1, <2>3
<1>5. /\ 0 \in Translate(flags) <=> 0 \in flags
      /\ 9 \in Translate(flags) <=> 6 \in flags
      /\ 11 \in Translate(flags) <=> 7 \in flags
      /\ 10 \in Translate(flags) <=> 9 \in flags
      /\ 3 \in Translate(flags) <=> 10 \in flags
  BY <1>3, <1>4
<1> QED BY <1>1, <1>2, <1>5

\* A part of a file is as long as its bounds are apart.
LEMMA PartOf ==
  ASSUME NEW s \in Seq(Nat), NEW from \in Nat, NEW to \in 0 .. Len(s), from <= to
  PROVE  SubSeq(s, from + 1, to) \in Seq(Nat) /\ Len(SubSeq(s, from + 1, to)) = to - from
<1>1. \A k \in from + 1 .. to : s[k] \in Nat
  BY ElementOfSeq, LenProperties
<1>2. from + 1 \in Int /\ to \in Int
  BY LenProperties
<1>3. /\ SubSeq(s, from + 1, to) \in Seq(Nat)
      /\ Len(SubSeq(s, from + 1, to)) = IF from + 1 <= to THEN to - (from + 1) + 1 ELSE 0
  BY <1>1, <1>2, SubSeqProperties
<1> QED BY <1>2, <1>3

\* Bytes that are read go on where the ones before have ended.
LEMMA ReadGoesOn ==
  ASSUME NEW s \in Seq(Nat), NEW at \in 0 .. Len(s), NEW n \in Nat
  PROVE  LET d == FirstOf(SubSeq(s, at + 1, Len(s)), n)
         IN  /\ d \in Seq(Nat) /\ at + Len(d) \in 0 .. Len(s)
             /\ SubSeq(s, 1, at) \o d = SubSeq(s, 1, at + Len(d))
<1> DEFINE r == SubSeq(s, at + 1, Len(s))
           m == IF n < Len(r) THEN n ELSE Len(r)
<1>0. Len(s) \in Nat /\ at \in Nat /\ \A k \in 1 .. Len(s) : s[k] \in Nat
  BY LenProperties, ElementOfSeq
<1>1. r \in Seq(Nat) /\ Len(r) = Len(s) - at
  BY <1>0, PartOf
<1>2. m \in Nat /\ m <= Len(s) - at
  BY <1>0, <1>1
<1>3. SubSeq(r, 1, m) = SubSeq(s, at + 1, at + m)
  <2>1. CASE m = 0
    <3>1. SubSeq(r, 1, 0) = <<>>
      BY SubSeqEmpty
    <3>2. SubSeq(s, at + 1, at) = <<>>
      BY <1>0, SubSeqEmpty
    <3> QED BY <1>0, <2>1, <3>1, <3>2
  <2>2. CASE m # 0
    <3>1. /\ at + 1 \in 1 .. Len(s) /\ Len(s) \in 1 .. Len(s)
          /\ 1 \in 1 .. Len(s) - (at + 1) + 1 /\ m \in 1 .. Len(s) - (at + 1) + 1
      BY <1>0, <1>2, <2>2
    <3>2. SubSeq(SubSeq(s, at + 1, Len(s)), 1, m) = SubSeq(s, (at + 1) + 1 - 1, (at + 1) + m - 1)
      <4> HIDE DEF m
      <4> QED BY <3>1, SubSeqOfSubSeq
    <3>3. (at + 1) + 1 - 1 = at + 1 /\ (at + 1) + m - 1 = at + m
      <4> HIDE DEF m
      <4> QED BY <1>0, <1>2
    <3> QED BY <3>2, <3>3
  <2> QED BY <2>1, <2>2
<1>4. FirstOf(r, n) = SubSeq(r, 1, m)
  BY DEF FirstOf
<1> HIDE DEF m, r
<1>5. SubSeq(s, at + 1, at + m) \in Seq(Nat) /\ Len(SubSeq(s, at + 1, at + m)) = m
  <2>1. at + m \in 0 .. Len(s) /\ at <= at + m /\ (at + m) - at = m
    BY <1>0, <1>2
  <2>2. /\ SubSeq(s, at + 1, at + m) \in Seq(Nat)
        /\ Len(SubSeq(s, at + 1, at + m)) = (at + m) - at
    <3> DEFINE to == at + m
    <3>1. to \in 0 .. Len(s) /\ at <= to /\ at \in Nat
      BY <1>0, <2>1
    <3>2. SubSeq(s, at + 1, to) \in Seq(Nat) /\ Len(SubSeq(s, at + 1, to)) = to - at
      <4> HIDE DEF to
      <4> QED BY <3>1, PartOf
    <3> QED BY <3>2
  <2> QED BY <2>1, <2>2
<1>6. SubSeq(s, 1, at) \o SubSeq(s, at + 1, at + m) = SubSeq(s, 1, at + m)
  <2>1. 1 \in 1 .. Len(s) + 1 /\ at \in 1 - 1 .. Len(s) /\ at + m \in at .. Len(s)
    BY <1>0, <1>2
  <2> QED BY <2>1, ConcatAdjacentSubSeq
<1>7. FirstOf(r, n) = SubSeq(s, at + 1, at + m) /\ at + m \in 0 .. Len(s)
  BY <1>0, <1>2, <1>3, <1>4
<1>8. r = SubSeq(s, at + 1, Len(s))
  BY DEF r
<1> QED BY <1>5, <1>6, <1>7, <1>8

-----------------------------------------------------------------------------
(***************************************************************************)
(* The inductive invariant, step by step.                                  *)
(***************************************************************************)
IInv == Types /\ Guarded /\ FromStart /\ Counted /\ AppendsKept

\* A path is that of a save or of an asset.
LEMMA PathIs ==
  /\ \A p \in Path : p[1] = "" \/ (p[1] = "assets/" /\ p[2] \in Asset)
  /\ \A a \in Asset : /\ <<"assets/", a>> \in Path
                        /\ <<"assets/", a>>[1] = "assets/" /\ <<"assets/", a>>[2] = a
  /\ Temp[1] = "" /\ Temp \notin Path
<1>1. ASSUME NEW p \in Path PROVE p[1] = "" \/ (p[1] = "assets/" /\ p[2] \in Asset)
  <2>1. ASSUME NEW t \in Saved, p = <<"", t>> PROVE p[1] = ""
    BY <2>1
  <2>2. ASSUME NEW a \in Asset, p = <<"assets/", a>> PROVE p[1] = "assets/" /\ p[2] \in Asset
    BY <2>2
  <2>3. (\E t \in Saved : p = <<"", t>>) \/ (\E a \in Asset : p = <<"assets/", a>>)
    BY DEF Path
  <2> QED BY <2>1, <2>2, <2>3
<1>2. \A a \in Asset : <<"assets/", a>> \in Path
  BY DEF Path
<1> QED BY <1>1, <1>2, FilesAssumption DEF Temp

\* No file is open in the beginning, and the assets are there.
LEMMA InitInv == Init => IInv
<1> SUFFICES ASSUME Init PROVE IInv
  OBVIOUS
<1> USE DEF Init
<1>1. \A h \in Handle : open[h] = Closed
  OBVIOUS
<1>2. /\ \A a \in Asset : <<"assets/", a>> \in Path /\ <<"assets/", a>>[1] = "assets/"
                             /\ <<"assets/", a>>[2] = a
      /\ \A p \in Path : p[1] = "assets/" => p[2] \in Asset
      /\ Temp[1] = ""
  BY PathIs
<1>3. disk \in [Path \cup {Temp} -> Seq(Nat) \cup {Absent}]
  BY <1>2, FilesAssumption
<1>4. \A a \in Asset : disk[<<"assets/", a>>] = Packed[a]
  BY <1>2
<1>5. Types
  <2>1. written \in [all : 0 .. MaxWritten, to : [Path -> Seq(Nat)]]
    BY AbsentIsNone, FilesAssumption
  <2> QED BY <1>3, <2>1 DEF Types, Idle
<1>6. AppendsKept
  BY DEF AppendsKept
<1> QED BY <1>1, <1>4, <1>5, <1>6 DEF IInv, Guarded, FromStart, Counted, Idle

\* A handle that is given leads to a file of its kind, from the beginning.
Fresh(o) ==
  /\ o \in Item /\ o # Closed /\ o.at = 0 /\ o.got = <<>>
  /\ o.writes => o.file \in Path /\ o.file[1] = ""
  /\ o.kind \in {"asset", "region"} => o.file \in Path /\ o.file[1] = "assets/"

\* To open something disturbs nothing that is open, whatever becomes of the content
\* of a save.
LEMMA OpenStep ==
  ASSUME IInv, NEW h \in Handle, NEW o, Fresh(o), Give(h, o), UNCHANGED <<writev, strayed>>,
         Types', disk'[o.file] # Absent,
         o.kind \in {"asset", "region"} => o.size = Len(disk[o.file]),
         \A f \in Path \cup {Temp} : disk'[f] = Absent => disk[f] = Absent,
         \A f \in Path : f[1] = "assets/" => disk'[f] = disk[f],
         AppendsKept'
  PROVE  IInv'
<1> USE DEF IInv
<1>1. /\ open[h] = Closed /\ open'[h] = o
      /\ \A k \in Handle : k # h => open'[k] = open[k]
  BY DEF Give, Types
<1>2. \A k \in Handle : open[k] # Closed => open[k] \in Item
  BY DEF Types
<1>3. \A a \in Asset : <<"assets/", a>> \in Path /\ <<"assets/", a>>[1] = "assets/"
  BY PathIs
<1>4. Guarded'
  <2>1. ASSUME NEW k \in Handle, open'[k] # Closed
        PROVE  /\ disk'[open'[k].file] # Absent
               /\ open'[k].writes => open'[k].file \in Path /\ open'[k].file[1] = ""
               /\ open'[k].kind \in {"asset", "region"} =>
                    open'[k].file \in Path /\ open'[k].file[1] = "assets/"
    <3>1. CASE k = h
      BY <1>1, <3>1 DEF Fresh
    <3>2. CASE k # h
      <4>1. open'[k] = open[k] /\ open[k].file \in Path \cup {Temp}
        BY <1>1, <1>2, <2>1, <3>2 DEF Item
      <4> QED BY <2>1, <4>1 DEF Guarded
    <3> QED BY <3>1, <3>2
  <2>2. writev.pc = "loop" => open'[writev.h] # Closed /\ open'[writev.h].writes
    <3>1. writev.pc = "loop" => writev.h \in Handle
      BY DEF Types, Call, Idle
    <3>2. writev.pc = "loop" => writev.h # h
      BY <1>1 DEF Guarded
    <3> QED BY <1>1, <3>1, <3>2 DEF Guarded
  <2>3. \A a \in Asset : disk'[<<"assets/", a>>] = Packed[a]
    BY <1>3 DEF Guarded
  <2> QED BY <2>1, <2>2, <2>3 DEF Guarded
<1>5. FromStart'
  <2>1. ASSUME NEW k \in Handle, open'[k] # Closed, open'[k].kind \in {"asset", "region"}
        PROVE  /\ open'[k].at <= open'[k].size
               /\ open'[k].size = Len(disk'[open'[k].file])
               /\ open'[k].got = SubSeq(disk'[open'[k].file], 1, open'[k].at)
    <3>1. CASE k = h
      <4>1. /\ o.at = 0 /\ o.got = <<>> /\ disk'[o.file] = disk[o.file]
            /\ o.size = Len(disk'[o.file]) /\ o.size \in Nat
        BY <1>1, <2>1, <3>1 DEF Fresh, Item
      <4>2. SubSeq(disk'[o.file], 1, 0) = <<>>
        BY SubSeqEmpty
      <4>3. open'[k] = o
        BY <1>1, <3>1
      <4>4. /\ o.at <= o.size /\ o.size = Len(disk'[o.file])
            /\ o.got = SubSeq(disk'[o.file], 1, o.at)
        BY <4>1, <4>2
      <4> QED BY <4>3, <4>4
    <3>2. CASE k # h
      <4>1. open'[k] = open[k] /\ open[k].file \in Path /\ open[k].file[1] = "assets/"
        BY <1>1, <2>1, <3>2 DEF Guarded
      <4>2. disk'[open[k].file] = disk[open[k].file]
        BY <4>1
      <4>3. /\ open[k].at <= open[k].size
            /\ open[k].size = Len(disk[open[k].file])
            /\ open[k].got = SubSeq(disk[open[k].file], 1, open[k].at)
        BY <2>1, <4>1 DEF FromStart
      <4> QED BY <4>1, <4>2, <4>3
    <3> QED BY <3>1, <3>2
  <2> QED BY <2>1 DEF FromStart
<1>6. Counted'
  BY DEF Counted
<1> QED BY <1>4, <1>5, <1>6

\* What is on the disk and what was written have their types.
Contents ==
  /\ disk \in [Path \cup {Temp} -> Seq(Nat) \cup {Absent}]
  /\ written \in [all : 0 .. MaxWritten, to : [Path -> Seq(Nat)]]
  /\ mixed \subseteq Path

\* A save that the game wants empty is empty, and all that was written to it is gone.
LEMMA TruncateStep ==
  ASSUME IInv, NEW file \in Path,
         disk' = [disk EXCEPT ![file] = <<>>],
         written' = [written EXCEPT !.to[file] = <<>>], mixed' = mixed \ {file}
  PROVE  Contents' /\ AppendsKept'
<1>1. /\ disk' \in [Path \cup {Temp} -> Seq(Nat) \cup {Absent}] /\ disk'[file] = <<>>
      /\ \A f \in Path : f # file => disk'[f] = disk[f]
  BY AbsentIsNone DEF IInv, Types
<1>2. /\ written'.all = written.all /\ written'.to = [written.to EXCEPT ![file] = <<>>]
      /\ written' \in [all : 0 .. MaxWritten, to : [Path -> Seq(Nat)]]
  BY AbsentIsNone DEF IInv, Types
<1>3. /\ written'.to[file] = <<>> /\ \A f \in Path : f # file => written'.to[f] = written.to[f]
  BY <1>2 DEF IInv, Types
<1>4. AppendsKept'
  BY <1>1, <1>3 DEF IInv, AppendsKept
<1>5. mixed' \subseteq Path
  BY DEF IInv, Types
<1> QED BY <1>1, <1>2, <1>4, <1>5 DEF Contents

\* What is opened has the type of what is open.
LEMMA OpenedIsItem ==
  ASSUME NEW kind \in {"file", "fd", "asset", "region"}, NEW file \in Path \cup {Temp},
         NEW writes \in BOOLEAN, NEW appends \in BOOLEAN, NEW size \in Nat,
         writes => file \in Path /\ file[1] = "",
         kind \in {"asset", "region"} => file \in Path /\ file[1] = "assets/"
  PROVE  /\ Fresh(Opened(kind, file, 0, writes, appends, size))
         /\ Opened(kind, file, 0, writes, appends, size).file = file
         /\ Opened(kind, file, 0, writes, appends, size).kind = kind
         /\ Opened(kind, file, 0, writes, appends, size).size = size
<1> DEFINE o == Opened(kind, file, 0, writes, appends, size)
<1>1. /\ o.kind = kind /\ o.file = file /\ o.at = 0 /\ o.writes = writes
      /\ o.size = size /\ o.got = <<>>
  BY DEF Opened
<1>2. o \in Item
  <2>1. <<>> \in Seq(Nat) /\ 0 \in Nat
    BY AbsentIsNone
  <2> QED BY <2>1 DEF Opened, Item
<1>3. o # Closed
  <2>1. Closed.kind = "closed" /\ kind # "closed"
    BY DEF Closed
  <2> HIDE DEF o
  <2> QED BY <1>1, <2>1
<1> HIDE DEF o
<1>4. Fresh(o)
  BY <1>1, <1>2, <1>3 DEF Fresh
<1> QED BY <1>1, <1>4 DEF o

\* To give something keeps the types.
LEMMA GiveTypes ==
  ASSUME IInv, NEW h \in Handle, NEW o \in Item, Give(h, o), Contents',
         UNCHANGED <<writev, strayed>>
  PROVE  Types'
<1>1. open' \in [Handle -> Item \cup {Closed}]
  BY DEF Give, IInv, Types
<1> QED BY <1>1 DEF IInv, Types, Contents

\* fopen_hook()
LEMMA FopenStep ==
  ASSUME IInv, NEW h \in Handle, NEW file \in Path, NEW mode \in {"r", "w", "a"},
         Fopen(h, file, mode)
  PROVE  IInv'
<1> DEFINE o == Opened("file", file, 0, mode # "r", mode = "a", 0)
<1>1. file[1] = "" \/ file[1] = "assets/"
  BY PathIs
<1>2. Fresh(o) /\ o.file = file /\ o.kind = "file"
  <2>1. mode # "r" => file[1] = ""
    BY <1>1 DEF Fopen
  <2>2. PICK w \in BOOLEAN, a \in BOOLEAN : w = (mode # "r") /\ a = (mode = "a")
    OBVIOUS
  <2>3. Fresh(Opened("file", file, 0, w, a, 0))
    BY <2>1, <2>2, OpenedIsItem
  <2>4. o.file = file /\ o.kind = "file"
    BY DEF Opened
  <2> QED BY <2>2, <2>3, <2>4
<1>3. Give(h, o) /\ UNCHANGED <<writev, strayed>>
  BY DEF Fopen
<1>4. \/ Truncate(file) /\ (mode = "w" \/ mode = "a")
      \/ UNCHANGED <<disk, written, mixed>> /\ disk[file] # Absent
  BY DEF Fopen
<1> HIDE DEF o
<1>5. CASE Truncate(file) /\ (mode = "w" \/ mode = "a")
  <2>0. file # Temp /\ file[1] = ""
    BY <1>1, <1>5, FilesAssumption DEF Fopen
  <2>1. /\ disk' = [disk EXCEPT ![file] = <<>>] /\ mixed' = mixed \ {file}
        /\ written' = [written EXCEPT !.to[file] = <<>>]
    BY <1>5, <2>0 DEF Truncate
  <2>2. Contents' /\ AppendsKept'
    BY <2>1, TruncateStep
  <2>3. /\ disk'[file] = <<>>
        /\ \A f \in Path \cup {Temp} : f # file => disk'[f] = disk[f]
    BY <2>1 DEF IInv, Types
  <2>4. Types'
    BY <1>2, <1>3, <2>2, GiveTypes DEF Fresh
  <2>5. \A f \in Path \cup {Temp} : disk'[f] = Absent => disk[f] = Absent
    BY <2>3, AbsentIsNone
  <2>6. \A f \in Path : f[1] = "assets/" => disk'[f] = disk[f]
    BY <2>0, <2>3
  <2> QED BY <1>2, <1>3, <2>2, <2>3, <2>4, <2>5, <2>6, AbsentIsNone, OpenStep
<1>6. CASE UNCHANGED <<disk, written, mixed>> /\ disk[file] # Absent
  <2>1. Contents' /\ AppendsKept'
    BY <1>6 DEF IInv, Types, Contents, AppendsKept
  <2>2. Types'
    BY <1>2, <1>3, <2>1, GiveTypes DEF Fresh
  <2> QED BY <1>2, <1>3, <1>6, <2>1, <2>2, OpenStep
<1> QED BY <1>4, <1>5, <1>6

\* fopen_hook() of /dev/urandom
LEMMA FopenUrandomStep ==
  ASSUME IInv, NEW h \in Handle, FopenUrandom(h)
  PROVE  IInv'
<1> DEFINE o == Opened("file", Temp, 0, FALSE, FALSE, 0)
<1>1. Fresh(o) /\ o.file = Temp /\ o.kind = "file"
  <2>1. PICK w \in BOOLEAN : w = FALSE
    OBVIOUS
  <2>2. Fresh(Opened("file", Temp, 0, w, w, 0))
    BY <2>1, OpenedIsItem
  <2>3. o.file = Temp /\ o.kind = "file"
    BY DEF Opened
  <2> QED BY <2>1, <2>2, <2>3
<1>2. Give(h, o) /\ UNCHANGED <<writev, strayed, written, mixed>>
  BY DEF FopenUrandom
<1> HIDE DEF o
<1>3. <<7, 7>> \in Seq(Nat) /\ <<7, 7>> # Absent
  BY AbsentIsNone
<1>4. /\ disk' \in [Path \cup {Temp} -> Seq(Nat) \cup {Absent}] /\ disk'[Temp] # Absent
      /\ \A f \in Path : disk'[f] = disk[f]
  BY <1>3, FilesAssumption DEF FopenUrandom, IInv, Types
<1>5. Contents' /\ AppendsKept'
  BY <1>2, <1>4 DEF IInv, Types, Contents, AppendsKept
<1>6. Types'
  BY <1>1, <1>2, <1>5, GiveTypes DEF Fresh
<1>7. \A f \in Path \cup {Temp} : disk'[f] = Absent => disk[f] = Absent
  BY <1>4
<1> QED BY <1>1, <1>2, <1>4, <1>5, <1>6, <1>7, OpenStep

\* open_hook()
LEMMA OpenHookStep ==
  ASSUME IInv, NEW h \in Handle, NEW file \in Path, NEW flags \in Flags,
         Open(h, file, flags)
  PROVE  IInv'
<1> DEFINE bits == Translate(flags)
           o == Opened("fd", file, 0, 0 \in bits, Newlib.append \in bits, 0)
<1>1. file[1] = "" \/ file[1] = "assets/"
  BY PathIs
<1>2. Fresh(o) /\ o.file = file /\ o.kind = "fd"
  <2>1. 0 \in bits => file[1] = ""
    BY <1>1, TranslateMeans DEF Open
  <2> HIDE DEF bits
  <2>2. PICK w \in BOOLEAN : w <=> 0 \in bits
    OBVIOUS
  <2>3. PICK a \in BOOLEAN : a <=> Newlib.append \in bits
    OBVIOUS
  <2>4. Fresh(Opened("fd", file, 0, w, a, 0))
    BY <2>1, <2>2, <2>3, OpenedIsItem
  <2>5. w = (0 \in bits) /\ a = (Newlib.append \in bits)
    BY <2>2, <2>3
  <2>6. o.file = file /\ o.kind = "fd"
    BY DEF Opened
  <2> QED BY <2>4, <2>5, <2>6
<1>3. /\ Give(h, o) /\ UNCHANGED <<writev, strayed>> /\ OpenSucceeds(disk[file], bits)
      /\ disk' = [disk EXCEPT ![file] = OpenContent(disk[file], bits)]
  BY DEF Open
<1> HIDE DEF o
<1>4. CASE Linux.trunc \in flags \/ disk[file] = Absent
  <2>1. disk' = [disk EXCEPT ![file] = <<>>]
    BY <1>3, <1>4, TranslateMeans DEF OpenContent
  <2>2. written' = [written EXCEPT !.to[file] = <<>>] /\ mixed' = mixed \ {file}
    BY <1>4 DEF Open
  <2>3. Contents' /\ AppendsKept'
    BY <2>1, <2>2, TruncateStep
  <2>4. /\ disk'[file] = <<>>
        /\ \A f \in Path \cup {Temp} : f # file => disk'[f] = disk[f]
    BY <2>1 DEF IInv, Types
  <2>5. file[1] = ""
    <3>1. flags # {}
      BY <1>3, <1>4, TranslateMeans DEF OpenSucceeds
    <3> QED BY <1>1, <3>1 DEF Open
  <2>6. Types'
    BY <1>2, <1>3, <2>3, GiveTypes DEF Fresh
  <2>7. \A f \in Path \cup {Temp} : disk'[f] = Absent => disk[f] = Absent
    BY <2>4, AbsentIsNone
  <2>8. \A f \in Path : f[1] = "assets/" => disk'[f] = disk[f]
    BY <2>4, <2>5
  <2> QED BY <1>2, <1>3, <2>3, <2>4, <2>6, <2>7, <2>8, AbsentIsNone, OpenStep
<1>5. CASE ~(Linux.trunc \in flags \/ disk[file] = Absent)
  <2>1. UNCHANGED <<disk, written, mixed>>
    <3>1. OpenContent(disk[file], bits) = disk[file]
      BY <1>5, TranslateMeans DEF OpenContent
    <3>2. disk' = disk
      BY <1>3, <3>1 DEF IInv, Types
    <3> QED BY <1>5, <3>2 DEF Open
  <2>2. Contents' /\ AppendsKept'
    BY <2>1 DEF IInv, Types, Contents, AppendsKept
  <2>3. Types'
    BY <1>2, <1>3, <2>2, GiveTypes DEF Fresh
  <2> QED BY <1>2, <1>3, <1>5, <2>1, <2>2, <2>3, OpenStep
<1> QED BY <1>4, <1>5

\* AAssetManager_open_fake() and AAsset_openFileDescriptor_fake()
LEMMA AssetStep ==
  ASSUME IInv, NEW h \in Handle,
         \/ \E a \in Asset : AssetOpen(h, a)
         \/ \E from \in Handle : AssetDescriptor(h, from)
  PROVE  IInv'
<1>1. /\ UNCHANGED <<disk, written, mixed, writev, strayed>>
      /\ Contents' /\ AppendsKept'
  BY DEF AssetOpen, AssetDescriptor, IInv, Types, Contents, AppendsKept
<1>2. ASSUME NEW file \in Path, NEW kind \in {"asset", "region"}, NEW size \in Nat,
             file[1] = "assets/", disk[file] # Absent, size = Len(disk[file]),
             Give(h, Opened(kind, file, 0, FALSE, FALSE, size))
      PROVE  IInv'
  <2> DEFINE o == Opened(kind, file, 0, FALSE, FALSE, size)
  <2>1. Fresh(o) /\ o.file = file /\ o.size = size
    <3>1. PICK w \in BOOLEAN : w = FALSE
      OBVIOUS
    <3>2. Fresh(Opened(kind, file, 0, w, w, size))
      BY <1>2, <3>1, OpenedIsItem
    <3>3. o.file = file /\ o.size = size
      BY DEF Opened
    <3> QED BY <3>1, <3>2, <3>3
  <2>2. Give(h, o)
    BY <1>2
  <2> HIDE DEF o
  <2>3. Types'
    BY <1>1, <2>1, <2>2, GiveTypes DEF Fresh
  <2> QED BY <1>1, <1>2, <2>1, <2>2, <2>3, OpenStep
<1>3. ASSUME NEW a \in Asset, AssetOpen(h, a) PROVE IInv'
  <2> DEFINE file == <<"assets/", a>>
  <2>1. file \in Path /\ file[1] = "assets/"
    BY PathIs
  <2>2. disk[file] = Packed[a] /\ disk[file] \in Seq(Nat)
    BY FilesAssumption DEF IInv, Guarded
  <2>3. Len(disk[file]) \in Nat /\ disk[file] # Absent
    BY <2>2, AbsentIsNone, LenProperties
  <2>4. Give(h, Opened("asset", file, 0, FALSE, FALSE, Len(disk[file])))
    BY <1>3 DEF AssetOpen, Rewound
  <2> QED BY <1>2, <2>1, <2>3, <2>4
<1>4. ASSUME NEW from \in Handle, AssetDescriptor(h, from) PROVE IInv'
  <2>1. open[from] # Closed /\ open[from].kind = "asset"
    BY <1>4 DEF AssetDescriptor, Closed
  <2>2. /\ open[from].file \in Path /\ open[from].file[1] = "assets/"
        /\ disk[open[from].file] # Absent
    BY <2>1 DEF IInv, Guarded
  <2>3. open[from].size \in Nat /\ open[from].size = Len(disk[open[from].file])
    BY <2>1 DEF IInv, Types, Item, FromStart
  <2>4. Give(h, Opened("region", open[from].file, 0, FALSE, FALSE, open[from].size))
    BY <1>4 DEF AssetDescriptor
  <2> QED BY <1>2, <2>2, <2>3, <2>4
<1> QED BY <1>3, <1>4

\* To move or close one handle, and nothing else, disturbs nothing.
LEMMA HandleStep ==
  ASSUME IInv, NEW h \in Handle, NEW o \in Item \cup {Closed}, open[h] # Closed,
         open' = [open EXCEPT ![h] = o],
         UNCHANGED <<disk, written, mixed, writev, strayed>>,
         o # Closed => /\ o.file = open[h].file /\ o.kind = open[h].kind
                       /\ o.writes = open[h].writes,
         o = Closed => (writev.pc = "loop" => writev.h # h),
         o # Closed /\ o.kind \in {"asset", "region"} =>
           /\ o.at <= o.size /\ o.size = Len(disk[o.file])
           /\ o.got = SubSeq(disk[o.file], 1, o.at)
  PROVE  IInv'
<1> USE DEF IInv
<1>1. open'[h] = o /\ \A k \in Handle : k # h => open'[k] = open[k]
  BY DEF Types
<1>2. Types'
  BY DEF Types
<1>3. Guarded'
  <2>1. ASSUME NEW k \in Handle, open'[k] # Closed
        PROVE  /\ disk[open'[k].file] # Absent
               /\ open'[k].writes => open'[k].file \in Path /\ open'[k].file[1] = ""
               /\ open'[k].kind \in {"asset", "region"} =>
                    open'[k].file \in Path /\ open'[k].file[1] = "assets/"
    <3>1. CASE k = h
      <4>1. /\ open'[k].file = open[k].file /\ open'[k].kind = open[k].kind
            /\ open'[k].writes = open[k].writes /\ open[k] # Closed
        BY <1>1, <2>1, <3>1
      <4> QED BY <4>1 DEF Guarded
    <3>2. CASE k # h
      BY <1>1, <2>1, <3>2 DEF Guarded
    <3> QED BY <3>1, <3>2
  <2>2. writev.pc = "loop" => open'[writev.h] # Closed /\ open'[writev.h].writes
    <3>1. writev.pc = "loop" => writev.h \in Handle
      BY DEF Types, Call, Idle
    <3> QED BY <1>1, <3>1 DEF Guarded
  <2> QED BY <2>1, <2>2 DEF Guarded
<1>4. FromStart'
  <2>1. ASSUME NEW k \in Handle, open'[k] # Closed, open'[k].kind \in {"asset", "region"}
        PROVE  /\ open'[k].at <= open'[k].size
               /\ open'[k].size = Len(disk[open'[k].file])
               /\ open'[k].got = SubSeq(disk[open'[k].file], 1, open'[k].at)
    <3>1. CASE k = h
      BY <1>1, <2>1, <3>1
    <3>2. CASE k # h
      BY <1>1, <2>1, <3>2 DEF FromStart
    <3> QED BY <3>1, <3>2
  <2> QED BY <2>1 DEF FromStart
<1>5. Counted' /\ AppendsKept'
  BY DEF Counted, AppendsKept
<1> QED BY <1>2, <1>3, <1>4, <1>5

\* AAsset_read_fake(), fread_fake() or read()
LEMMA ReadStep ==
  ASSUME IInv, NEW h \in Handle, NEW n \in Nat, Read(h, n)
  PROVE  IInv'
<1> DEFINE f == open[h]
           s == disk[f.file]
           d == FirstOf(SubSeq(s, f.at + 1, Len(s)), n)
           o == [f EXCEPT !.at = @ + Len(d), !.got = @ \o d]
<1>1. open[h] # Closed /\ UNCHANGED <<disk, written, mixed, writev, strayed>>
  BY DEF Read
<1>2. f \in Item /\ s \in Seq(Nat)
  BY <1>1 DEF IInv, Types, Guarded, Item
<1>3. d # <<>> /\ open' = [open EXCEPT ![h] = o]
  BY DEF Read
<1>4. f.at \in Nat /\ f.got \in Seq(Nat)
  BY <1>2 DEF Item
<1>5. f.at \in 0 .. Len(s)
  <2>1. SUFFICES ASSUME f.at > Len(s) PROVE FALSE
    BY <1>2, <1>4, LenProperties
  <2>2. SubSeq(s, f.at + 1, Len(s)) = <<>>
    <3> HIDE DEF f, s
    <3>1. Len(s) \in Nat /\ f.at + 1 > Len(s)
      BY <1>2, <1>4, <2>1, LenProperties
    <3> QED BY <1>4, <3>1, SubSeqEmpty
  <2>3. FirstOf(<<>>, n) = <<>>
    <3>1. Len(<<>>) = 0 /\ ~(n < 0)
      OBVIOUS
    <3>2. SubSeq(<<>>, 1, 0) = <<>>
      BY SubSeqEmpty
    <3> QED BY <3>1, <3>2 DEF FirstOf
  <2> QED BY <1>3, <2>2, <2>3
<1>6. /\ d \in Seq(Nat) /\ f.at + Len(d) \in 0 .. Len(s)
      /\ SubSeq(s, 1, f.at) \o d = SubSeq(s, 1, f.at + Len(d))
  <2> HIDE DEF f, s
  <2> QED BY <1>2, <1>5, ReadGoesOn
<1> HIDE DEF d
<1>7. Len(d) \in Nat /\ f.got \o d \in Seq(Nat)
  BY <1>4, <1>6, LenProperties, ConcatProperties
<1>8. /\ o \in Item /\ o.file = f.file /\ o.kind = f.kind /\ o.writes = f.writes
      /\ o.at = f.at + Len(d) /\ o.got = f.got \o d /\ o.size = f.size
  <2>1. o = [f EXCEPT !.at = f.at + Len(d), !.got = f.got \o d]
    OBVIOUS
  <2>2. f \in Item /\ f.at + Len(d) \in Nat /\ f.got \o d \in Seq(Nat)
    BY <1>2, <1>4, <1>7
  <2>3. PICK at \in Nat, got \in Seq(Nat) : at = f.at + Len(d) /\ got = f.got \o d
    BY <2>2
  <2>4. o = [f EXCEPT !.at = at, !.got = got]
    BY <2>1, <2>3
  <2> HIDE DEF s, f, o
  <2>5. /\ o \in Item /\ o.file = f.file /\ o.kind = f.kind /\ o.writes = f.writes
        /\ o.at = at /\ o.got = got /\ o.size = f.size
    BY <2>2, <2>4 DEF Item
  <2> QED BY <2>3, <2>5
<1>9. o.kind # "closed" /\ Closed.kind = "closed"
  <2>1. o.kind \in {"file", "fd", "asset", "region"}
    BY <1>8 DEF Item
  <2> QED BY <2>1 DEF Closed
<1>10. f.kind \in {"asset", "region"} => f.size = Len(s) /\ f.got = SubSeq(s, 1, f.at)
  BY <1>1 DEF IInv, FromStart
<1>11. s = disk[f.file] /\ f = open[h] /\ Len(s) \in Nat
  BY <1>2, LenProperties
<1> HIDE DEF o
<1>12. o.kind \in {"asset", "region"} =>
         /\ o.at <= o.size /\ o.size = Len(disk[o.file])
         /\ o.got = SubSeq(disk[o.file], 1, o.at)
  <2>1. o.kind \in {"asset", "region"} => f.got \o d = SubSeq(s, 1, f.at + Len(d))
    <3> HIDE DEF s, f
    <3> QED BY <1>6, <1>8, <1>10
  <2>2. f.at + Len(d) <= Len(s)
    <3> HIDE DEF s, f
    <3> QED BY <1>6, <1>11
  <2>3. disk[o.file] = s
    BY <1>8
  <2> HIDE DEF s, f
  <2> QED BY <1>8, <1>10, <2>1, <2>2, <2>3
<1> HIDE DEF s, f
<1> QED BY <1>1, <1>3, <1>8, <1>9, <1>11, <1>12, HandleStep

\* AAsset_close_fake(), fclose_fake() or close()
LEMMA CloseStep ==
  ASSUME IInv, NEW h \in Handle, Close(h)
  PROVE  IInv'
BY HandleStep DEF Close

\* What is written at some place of a file makes a file, and at its end a longer one.
LEMMA PutMakes ==
  ASSUME NEW old \in Seq(Nat), NEW d \in Seq(Nat), NEW at \in Nat, NEW size \in Nat,
         size = IF at + Len(d) > Len(old) THEN at + Len(d) ELSE Len(old),
         NEW new, new = [k \in 1 .. size |-> IF k \in at + 1 .. at + Len(d) THEN d[k - at]
                                   ELSE IF k <= Len(old) THEN old[k] ELSE 0]
  PROVE  new \in Seq(Nat) /\ (at = Len(old) => new = old \o d)
<1>1. /\ Len(d) \in Nat /\ \A k \in 1 .. Len(d) : d[k] \in Nat
      /\ Len(old) \in Nat /\ \A k \in 1 .. Len(old) : old[k] \in Nat
  BY LenProperties, ElementOfSeq
<1>2. new \in [1 .. size -> Nat]
  BY <1>1
<1>3. new \in Seq(Nat)
  BY <1>2
<1>4. ASSUME at = Len(old) PROVE new = old \o d
  <2>1. /\ old \o d \in Seq(Nat) /\ Len(old \o d) = Len(old) + Len(d)
        /\ \A k \in 1 .. Len(old) + Len(d) :
             (old \o d)[k] = IF k <= Len(old) THEN old[k] ELSE d[k - Len(old)]
    BY ConcatProperties
  <2>2. Len(new) = Len(old) + Len(d) /\ size = Len(old) + Len(d)
    BY <1>1, <1>2, <1>4
  <2>3. ASSUME NEW k \in 1 .. Len(old) + Len(d) PROVE new[k] = (old \o d)[k]
    BY <1>1, <1>4, <2>1, <2>2, <2>3
  <2> QED BY <1>3, <2>1, <2>2, <2>3, SeqEqual
<1> QED BY <1>3, <1>4

\* newlib's write(): if it appends, nothing is lost, and if not the file counts as
\* mixed; no asset is written.
LEMMA PutStep ==
  ASSUME IInv, NEW h \in Handle, NEW n \in Nat, open[h] # Closed, open[h].writes,
         written.all + n <= MaxWritten, Put(h, Bytes(n)), UNCHANGED strayed,
         writev'.pc = "loop" => writev.pc = "loop" /\ writev'.h = writev.h
  PROVE  /\ Contents' /\ open' \in [Handle -> Item \cup {Closed}]
         /\ Guarded' /\ FromStart' /\ AppendsKept'
<1> DEFINE f == open[h]
           old == disk[f.file]
           d == Bytes(n)
           at == IF f.appends THEN Len(old) ELSE f.at
           size == IF at + Len(d) > Len(old) THEN at + Len(d) ELSE Len(old)
           new == [k \in 1 .. size |-> IF k \in at + 1 .. at + Len(d) THEN d[k - at]
                                       ELSE IF k <= Len(old) THEN old[k] ELSE 0]
           file == f.file
           o == [f EXCEPT !.at = at + Len(d)]
<1> USE DEF IInv
<1>1. /\ f \in Item /\ file \in Path /\ file[1] = "" /\ f.writes
      /\ f.kind \notin {"asset", "region"} /\ f.at \in Nat /\ f.appends \in BOOLEAN
  <2>1. f \in Item /\ file \in Path /\ file[1] = "" /\ f.writes
    BY DEF Types, Guarded
  <2>2. f.kind \in {"asset", "region"} => file[1] = "assets/"
    BY DEF Guarded
  <2> QED BY <2>1, <2>2 DEF Item
<1>2. old \in Seq(Nat) /\ Len(old) \in Nat
  <2>1. old \in Seq(Nat)
    BY <1>1 DEF Types, Guarded
  <2> QED BY <2>1, LenProperties
<1>3. d \in Seq(Nat) /\ Len(d) = n
  <2>1. written.all \in Nat
    BY FilesAssumption DEF Types
  <2>2. d \in [1 .. n -> Nat]
    BY <2>1 DEF Bytes
  <2> QED BY <2>2
<1>4. /\ disk' = [disk EXCEPT ![file] = new]
      /\ open' = [open EXCEPT ![h].at = at + Len(d)]
      /\ written' = [all |-> written.all + Len(d),
                     to |-> [written.to EXCEPT ![file] = @ \o d]]
      /\ mixed' = IF f.appends THEN mixed ELSE mixed \cup {file}
  BY DEF Put
<1> HIDE DEF d
<1>5. at \in Nat /\ size \in Nat
  <2> HIDE DEF f, old
  <2>1. at \in Nat
    BY <1>1, <1>2
  <2> HIDE DEF at
  <2> QED BY <1>2, <1>3, <2>1
<1>6. new \in Seq(Nat) /\ (at = Len(old) => new = old \o d)
  <2> HIDE DEF at, old
  <2>1. PICK z \in Nat : z = IF at + Len(d) > Len(old) THEN at + Len(d) ELSE Len(old)
    BY <1>5
  <2>2. PICK w : w = [k \in 1 .. z |-> IF k \in at + 1 .. at + Len(d) THEN d[k - at]
                                       ELSE IF k <= Len(old) THEN old[k] ELSE 0]
    OBVIOUS
  <2>3. w \in Seq(Nat) /\ (at = Len(old) => w = old \o d)
    BY <1>2, <1>3, <1>5, <2>1, <2>2, PutMakes
  <2>4. w = new
    BY <2>1, <2>2
  <2> QED BY <2>3, <2>4
<1>7. f.appends => at = Len(old)
  OBVIOUS
<1> HIDE DEF new
<1>8. /\ disk' \in [Path \cup {Temp} -> Seq(Nat) \cup {Absent}] /\ disk'[file] = new
      /\ \A p \in Path \cup {Temp} : p # file => disk'[p] = disk[p]
  <2> HIDE DEF file
  <2> QED BY <1>1, <1>4, <1>6 DEF Types
<1>9. /\ written'.to[file] = written.to[file] \o d
      /\ \A p \in Path : p # file => written'.to[p] = written.to[p]
      /\ written' \in [all : 0 .. MaxWritten, to : [Path -> Seq(Nat)]]
  <2> HIDE DEF file, f
  <2>1. written.to \in [Path -> Seq(Nat)] /\ written.all \in 0 .. MaxWritten
    BY DEF Types
  <2>2. written.to[file] \in Seq(Nat) /\ written.to[file] \o d \in Seq(Nat)
    BY <1>1, <1>3, <2>1, ConcatProperties
  <2>3. written.all + Len(d) \in 0 .. MaxWritten
    BY <1>3, <2>1, FilesAssumption
  <2> QED BY <1>1, <1>4, <2>1, <2>2, <2>3
<1>10. mixed' \subseteq Path /\ mixed \subseteq mixed' /\ (file \notin mixed' => f.appends)
  <2> HIDE DEF file, f
  <2> QED BY <1>1, <1>4 DEF Types
<1>11. Contents'
  BY <1>8, <1>9, <1>10 DEF Contents
<1>12. AppendsKept'
  <2>1. SUFFICES ASSUME NEW p \in Path, p[1] = "", p \notin mixed', disk'[p] # Absent
                 PROVE  disk'[p] = written'.to[p]
    BY DEF AppendsKept
  <2>2. CASE p = file
    <3>1. f.appends /\ file \notin mixed /\ old # Absent
      BY <1>2, <1>10, <2>1, <2>2, AbsentIsNone
    <3>2. old = written.to[file]
      BY <1>1, <3>1 DEF AppendsKept
    <3>3. new = old \o d
      BY <1>6, <1>7, <3>1
    <3> HIDE DEF file, old
    <3> QED BY <1>8, <1>9, <2>2, <3>2, <3>3
  <2>3. CASE p # file
    <3> HIDE DEF file
    <3> QED BY <1>8, <1>9, <1>10, <2>1, <2>3 DEF AppendsKept
  <2> QED BY <2>2, <2>3
<1>13. /\ open' \in [Handle -> Item \cup {Closed}]
       /\ open'[h] # Closed /\ open'[h].writes /\ open'[h].file = file
       /\ open'[h].kind = f.kind
       /\ \A k \in Handle : k # h => open'[k] = open[k]
  <2>1. PICK to \in Nat : to = at + Len(d)
    BY <1>3, <1>5
  <2>2. open' = [open EXCEPT ![h] = [f EXCEPT !.at = to]]
    BY <1>4, <2>1
  <2> HIDE DEF f
  <2>3. PICK g : g = [f EXCEPT !.at = to]
    OBVIOUS
  <2>4. g \in Item /\ g.writes = f.writes /\ g.file = f.file /\ g.kind = f.kind
    BY <1>1, <2>3 DEF Item
  <2>5. g # Closed
    <3>1. g.kind # "closed"
      BY <2>4 DEF Item
    <3> QED BY <3>1 DEF Closed
  <2>6. open' = [open EXCEPT ![h] = g]
    BY <2>2, <2>3
  <2> QED BY <1>1, <2>4, <2>5, <2>6 DEF Types
<1>14. Guarded'
  <2>1. ASSUME NEW k \in Handle, open'[k] # Closed
        PROVE  /\ disk'[open'[k].file] # Absent
               /\ open'[k].writes => open'[k].file \in Path /\ open'[k].file[1] = ""
               /\ open'[k].kind \in {"asset", "region"} =>
                    open'[k].file \in Path /\ open'[k].file[1] = "assets/"
    <3>1. CASE k = h
      <4> HIDE DEF file, f
      <4> QED BY <1>1, <1>6, <1>8, <1>13, <3>1, AbsentIsNone
    <3>2. CASE k # h
      <4>1. open'[k] = open[k] /\ open[k].file \in Path \cup {Temp}
        BY <1>13, <2>1, <3>2 DEF Types, Item
      <4>2. disk'[open[k].file] # Absent
        <5> DEFINE p == open[k].file
        <5>1. p \in Path \cup {Temp} /\ disk[p] # Absent
          BY <2>1, <4>1 DEF Guarded
        <5> HIDE DEF file, p
        <5>2. disk'[p] # Absent
          BY <1>6, <1>8, <5>1, AbsentIsNone
        <5> QED BY <5>2 DEF p
      <4> QED BY <2>1, <4>1, <4>2 DEF Guarded
    <3> QED BY <3>1, <3>2
  <2>2. writev'.pc = "loop" => open'[writev'.h] # Closed /\ open'[writev'.h].writes
    <3>1. writev.pc = "loop" => writev.h \in Handle
      BY DEF Types, Call, Idle
    <3> HIDE DEF file, f
    <3> QED BY <1>13, <3>1 DEF Guarded
  <2>3. \A a \in Asset : disk'[<<"assets/", a>>] = Packed[a]
    <3>1. ASSUME NEW a \in Asset PROVE <<"assets/", a>> \in Path /\ <<"assets/", a>> # file
      BY <1>1, PathIs
    <3> HIDE DEF file
    <3> QED BY <1>8, <3>1 DEF Guarded
  <2> QED BY <2>1, <2>2, <2>3 DEF Guarded
<1>15. FromStart'
  <2>1. ASSUME NEW k \in Handle, open'[k] # Closed, open'[k].kind \in {"asset", "region"}
        PROVE  /\ open'[k].at <= open'[k].size
               /\ open'[k].size = Len(disk'[open'[k].file])
               /\ open'[k].got = SubSeq(disk'[open'[k].file], 1, open'[k].at)
    <3>1. k # h
      <4> HIDE DEF file, f
      <4> QED BY <1>1, <1>13, <2>1
    <3>2. open'[k] = open[k]
      BY <1>13, <3>1
    <3>3. open[k].file \in Path /\ open[k].file[1] = "assets/"
      BY <2>1, <3>2 DEF Guarded
    <3>4. disk'[open[k].file] = disk[open[k].file]
      <4> HIDE DEF file
      <4> QED BY <1>1, <1>8, <3>3
    <3> QED BY <2>1, <3>2, <3>4 DEF FromStart
  <2> QED BY <2>1 DEF FromStart
<1> QED BY <1>11, <1>12, <1>13, <1>14, <1>15

\* write() of another thread
LEMMA WriteStep ==
  ASSUME IInv, NEW h \in Handle, Write(h)
  PROVE  IInv'
<1>1. /\ open[h] # Closed /\ open[h].writes /\ written.all + 1 <= MaxWritten
      /\ Put(h, Bytes(1)) /\ UNCHANGED <<writev, strayed>>
  BY FilesAssumption DEF Write, IInv, Types
<1>2. /\ Contents' /\ open' \in [Handle -> Item \cup {Closed}]
      /\ Guarded' /\ FromStart' /\ AppendsKept'
  <2>1. 1 \in Nat
    OBVIOUS
  <2> QED BY <1>1, <2>1, PutStep
<1> QED BY <1>1, <1>2 DEF IInv, Types, Contents, Counted

\* writev_fake() starts.
LEMMA WritevStep ==
  ASSUME IInv, NEW h \in Handle, NEW parts \in Parts, Writev(h, parts)
  PROVE  IInv'
<1> USE DEF IInv
<1> DEFINE call == [pc |-> "loop", h |-> h, parts |-> parts, i |-> 1, total |-> 0, put |-> <<>>]
<1>1. /\ open[h] # Closed /\ open[h].writes /\ writev' = call
      /\ UNCHANGED <<disk, open, written, mixed, strayed>>
  BY DEF Writev
<1>2. parts \in Seq(Nat) /\ Len(parts) \in Nat
  BY FilesAssumption, LenProperties
<1>3. Before(parts, 1) = 0
  BY <1>2, BeforeIs
<1>4. call \in Call
  BY AbsentIsNone DEF Call
<1>5. Types'
  BY <1>1, <1>4 DEF Types
<1>6. Guarded'
  BY <1>1 DEF Guarded
<1>7. Counted'
  <2>1. Len(<<>>) = 0 /\ <<>> = [k \in 1 .. 0 |-> k]
    OBVIOUS
  <2> QED BY <1>1, <1>2, <1>3, <2>1 DEF Counted
<1> QED BY <1>1, <1>5, <1>6, <1>7 DEF FromStart, AppendsKept

\* A write() of writev_fake(): it counts what was written, and puts it where it
\* belongs.
LEMMA WritevPartStep ==
  ASSUME IInv, NEW n \in 0 .. MaxWritten, WritevPart(n)
  PROVE  IInv'
<1> DEFINE h == writev.h
           parts == writev.parts
           i == writev.i
           total == writev.total
           put == writev.put
           more == [k \in 1 .. n |-> Before(parts, i) + k]
<1>1. /\ writev.pc = "loop" /\ i <= Len(parts) /\ n <= parts[i]
      /\ written.all + n <= MaxWritten /\ Put(h, Bytes(n)) /\ UNCHANGED strayed
      /\ writev' = [writev EXCEPT !.i = i + 1, !.total = total + n, !.put = put \o more]
  BY DEF WritevPart, Total
<1>2. /\ writev \in Call /\ h \in Handle /\ parts \in Parts /\ parts \in Seq(Nat)
      /\ Len(parts) \in Nat /\ i \in 1 .. Len(parts) /\ parts[i] \in Nat
      /\ total \in Int /\ put \in Seq(Nat) /\ n \in Nat
  <2>1. writev \in Call
    BY <1>1 DEF IInv, Types, Idle
  <2>2. h \in Handle /\ parts \in Parts /\ i \in Nat \ {0} /\ total \in Int /\ put \in Seq(Nat)
    BY <2>1 DEF Call
  <2>3. parts \in Seq(Nat) /\ n \in Nat
    BY <2>2, FilesAssumption
  <2>4. Len(parts) \in Nat
    BY <2>3, LenProperties
  <2>5. i \in 1 .. Len(parts)
    BY <1>1, <2>2, <2>4
  <2>6. parts[i] \in Nat
    BY <2>3, <2>5, ElementOfSeq
  <2> QED BY <2>1, <2>2, <2>3, <2>4, <2>5, <2>6
<1>3. /\ Before(parts, i) \in Nat
      /\ Before(parts, i + 1) = Before(parts, i) + parts[i]
  <2> HIDE DEF parts, i
  <2>1. i \in 1 .. Len(parts) + 1
    BY <1>2
  <2> QED BY <1>2, <2>1, BeforeIs
<1>4. /\ total >= 0 /\ total = Len(put) /\ total <= Before(parts, i)
      /\ total = Before(parts, i) => put = [k \in 1 .. total |-> k]
  BY <1>1 DEF IInv, Counted
<1>5. more \in Seq(Nat) /\ Len(more) = n /\ \A k \in 1 .. n : more[k] = Before(parts, i) + k
  BY <1>2, <1>3
<1> HIDE DEF more
<1>6. /\ writev'.pc = "loop" /\ writev'.h = h /\ writev'.parts = parts /\ writev'.i = i + 1
      /\ writev'.total = total + n /\ writev'.put = put \o more /\ writev' \in Call
  <2>1. PICK t \in Int, p \in Seq(Nat), j \in Nat \ {0} :
          t = total + n /\ p = put \o more /\ j = i + 1
    <3> HIDE DEF total, put, i
    <3>1. total + n \in Int /\ i + 1 \in Nat \ {0}
      BY <1>2
    <3>2. put \o more \in Seq(Nat)
      BY <1>2, <1>5, ConcatProperties
    <3> QED BY <3>1, <3>2
  <2>2. writev' = [writev EXCEPT !.i = j, !.total = t, !.put = p]
    BY <1>1, <2>1
  <2>3. /\ writev'.pc = "loop" /\ writev'.h = h /\ writev'.parts = parts /\ writev'.i = j
        /\ writev'.total = t /\ writev'.put = p /\ writev' \in Call
    BY <1>1, <1>2, <2>2 DEF Call
  <2> QED BY <2>1, <2>3
<1>7. /\ Contents' /\ open' \in [Handle -> Item \cup {Closed}]
      /\ Guarded' /\ FromStart' /\ AppendsKept'
  <2>1. open[h] # Closed /\ open[h].writes
    BY <1>1 DEF IInv, Guarded
  <2>2. h = writev.h
    OBVIOUS
  <2> HIDE DEF h
  <2>3. writev'.pc = "loop" => writev.pc = "loop" /\ writev'.h = writev.h
    BY <1>1, <1>6, <2>2
  <2> QED BY <1>1, <1>2, <2>1, <2>3, PutStep
<1>8. Types'
  BY <1>1, <1>6, <1>7 DEF IInv, Types, Contents
<1> HIDE DEF h, parts, i, total, put
<1>9. Len(put \o more) = total + n
  BY <1>2, <1>4, <1>5, ConcatProperties
<1>10. total + n <= Before(parts, i + 1)
  BY <1>1, <1>2, <1>3, <1>4
<1>11. ASSUME total + n = Before(parts, i + 1)
       PROVE  put \o more = [k \in 1 .. total + n |-> k]
  <2>1. total = Before(parts, i) /\ n = parts[i]
    BY <1>1, <1>2, <1>3, <1>4, <1>11
  <2>2. put = [k \in 1 .. total |-> k] /\ total \in Nat
    BY <1>2, <1>4, <2>1
  <2> DEFINE all == [k \in 1 .. total + n |-> k]
  <2>3. all \in Seq(Nat) /\ Len(all) = total + n
    <3>1. total + n \in Nat /\ all \in [1 .. total + n -> Nat]
      BY <1>2, <2>2
    <3> QED BY <3>1
  <2>4. put \o more \in Seq(Nat)
    BY <1>2, <1>5, ConcatProperties
  <2>5. ASSUME NEW k \in 1 .. total + n PROVE (put \o more)[k] = all[k]
    <3>1. (put \o more)[k] = IF k <= total THEN put[k] ELSE more[k - total]
      BY <1>2, <1>4, <1>5, <2>5, ConcatProperties
    <3>2. CASE k <= total
      BY <1>2, <2>2, <3>1, <3>2
    <3>3. CASE ~(k <= total)
      <4>1. k - total \in 1 .. n
        BY <1>2, <2>2, <3>3
      <4> QED BY <1>2, <1>5, <2>1, <2>2, <3>1, <3>3, <4>1
    <3> QED BY <3>2, <3>3
  <2> HIDE DEF all
  <2>6. put \o more = all
    BY <1>9, <2>3, <2>4, <2>5, SeqEqual
  <2> QED BY <2>6 DEF all
<1>12. Counted'
  <2>1. i + 1 <= Len(parts) + 1 /\ total + n >= 0
    BY <1>2, <1>4
  <2> QED BY <1>6, <1>9, <1>10, <1>11, <2>1 DEF Counted
<1> QED BY <1>7, <1>8, <1>12 DEF IInv

\* writev_fake() fails or returns.
LEMMA WritevEndStep ==
  ASSUME IInv, WritevFails \/ WritevReturns
  PROVE  IInv'
<1> USE DEF IInv
<1>1. UNCHANGED <<disk, open, written, mixed, strayed>> /\ writev.pc = "loop"
  BY DEF WritevFails, WritevReturns
<1>2. writev \in Call
  BY <1>1 DEF Types, Idle
<1>3. CASE WritevFails
  <2>1. PICK t \in Int : t = -1
    OBVIOUS
  <2>2. writev' = [writev EXCEPT !.pc = "done", !.total = t]
    BY <1>3, <2>1 DEF WritevFails
  <2>3. writev' \in Call /\ writev'.pc = "done" /\ writev'.total = t
    BY <1>2, <2>2 DEF Call
  <2>4. ~(writev'.total >= 0)
    BY <2>1, <2>3
  <2>5. Counted'
    BY <2>3, <2>4 DEF Counted
  <2> QED BY <1>1, <2>3, <2>5 DEF Types, Guarded, FromStart, AppendsKept
<1>4. CASE WritevReturns
  <2>1. /\ writev' \in Call /\ writev'.pc = "done" /\ writev'.total = writev.total
        /\ writev'.i = writev.i /\ writev'.parts = writev.parts /\ writev'.put = writev.put
    BY <1>2, <1>4 DEF WritevReturns, Call
  <2>2. writev.i = Len(writev.parts) + 1
    <3>1. writev.parts \in Seq(Nat) /\ writev.i \in Nat
      BY <1>2, FilesAssumption DEF Call
    <3>2. Len(writev.parts) \in Nat
      BY <3>1, LenProperties
    <3> QED BY <1>4, <3>1, <3>2 DEF WritevReturns, Counted
  <2>3. Counted'
    BY <1>1, <2>1, <2>2 DEF Counted
  <2> QED BY <1>1, <2>1, <2>3 DEF Types, Guarded, FromStart, AppendsKept
<1> QED BY <1>3, <1>4

-----------------------------------------------------------------------------
(***************************************************************************)
(* The theorems.                                                           *)
(***************************************************************************)
\* All that the other theorems follow from holds always.
THEOREM Invariant == Spec => []IInv
<1>1. Init => IInv
  BY InitInv
<1>2. IInv /\ [Next]_vars => IInv'
  <2> SUFFICES ASSUME IInv, [Next]_vars PROVE IInv'
    OBVIOUS
  <2>1. ASSUME NEW h \in Handle, NEW file \in Path, NEW mode \in {"r", "w", "a"},
               Fopen(h, file, mode)
        PROVE  IInv'
    BY <2>1, FopenStep
  <2>2. ASSUME NEW h \in Handle, NEW file \in Path, NEW flags \in Flags, Open(h, file, flags)
        PROVE  IInv'
    BY <2>2, OpenHookStep
  <2>3. ASSUME NEW h \in Handle, FopenUrandom(h) PROVE IInv'
    BY <2>3, FopenUrandomStep
  <2>4. ASSUME NEW h \in Handle, NEW a \in Asset, AssetOpen(h, a) PROVE IInv'
    BY <2>4, AssetStep
  <2>5. ASSUME NEW h \in Handle, NEW from \in Handle, AssetDescriptor(h, from) PROVE IInv'
    BY <2>5, AssetStep
  <2>6. ASSUME NEW h \in Handle, NEW n \in 1 .. 2, Read(h, n) PROVE IInv'
    <3>1. n \in Nat
      OBVIOUS
    <3> QED BY <2>6, <3>1, ReadStep
  <2>7. ASSUME NEW h \in Handle, Close(h) PROVE IInv'
    BY <2>7, CloseStep
  <2>8. ASSUME NEW h \in Handle, Write(h) PROVE IInv'
    BY <2>8, WriteStep
  <2>9. ASSUME NEW h \in Handle, NEW parts \in Parts, Writev(h, parts) PROVE IInv'
    BY <2>9, WritevStep
  <2>10. ASSUME NEW n \in 0 .. MaxWritten, WritevPart(n) PROVE IInv'
    BY <2>10, WritevPartStep
  <2>11. CASE WritevFails \/ WritevReturns
    BY <2>11, WritevEndStep
  <2>12. ASSUME NEW function \in Wrapped \cup Direct, OnFakeFile(function) PROVE IInv'
    BY <2>12 DEF OnFakeFile, IInv, Types, Guarded, FromStart, Counted, AppendsKept
  <2>13. CASE UNCHANGED vars
    BY <2>13 DEF vars, IInv, Types, Guarded, FromStart, Counted, AppendsKept
  <2> QED BY <2>1, <2>2, <2>3, <2>4, <2>5, <2>6, <2>7, <2>8, <2>9, <2>10, <2>11, <2>12,
             <2>13 DEF Next
<1> QED BY <1>1, <1>2, PTL DEF Spec

\* Every variable has its type, and no more is written than the bound allows.
THEOREM TypeCorrect == Spec => []TypeOK
<1>1. IInv => TypeOK
  <2> SUFFICES ASSUME IInv PROVE TypeOK
    OBVIOUS
  <2>1. \A h \in Handle : open[h] # Closed => open[h].file \in DOMAIN disk /\ open[h].at \in Nat
    BY DEF IInv, Types, Item
  <2>2. writev.pc \in {"idle", "loop", "done"}
    BY DEF IInv, Types, Call, Idle
  <2> QED BY <2>1, <2>2 DEF IInv, Types, TypeOK
<1> QED BY <1>1, Invariant, PTL

\* What is read of an Asset and through its descriptors is the asset from its
\* beginning on, and its length is the one the game was told.
THEOREM AssetsCorrect == Spec => []AssetReads
<1>1. IInv => AssetReads
  <2> SUFFICES ASSUME IInv, NEW h \in Handle, open[h] # Closed,
                      open[h].kind \in {"asset", "region"}
               PROVE  /\ open[h].got = SubSeq(Packed[open[h].file[2]], 1, open[h].at)
                      /\ open[h].size = Len(Packed[open[h].file[2]])
    BY DEF AssetReads
  <2>1. open[h].file \in Path /\ open[h].file[1] = "assets/"
    BY DEF IInv, Guarded
  <2>2. PICK a \in Asset : open[h].file = <<"assets/", a>>
    <3>1. \/ \E s \in Saved : open[h].file = <<"", s>>
          \/ \E a \in Asset : open[h].file = <<"assets/", a>>
      BY <2>1 DEF Path
    <3>2. \A s : <<"", s>>[1] = ""
      OBVIOUS
    <3> QED BY <2>1, <3>1, <3>2
  <2>3. disk[<<"assets/", a>>] = Packed[a] /\ <<"assets/", a>>[2] = a
    BY DEF IInv, Guarded
  <2>4. disk[open[h].file] = Packed[open[h].file[2]]
    BY <2>2, <2>3
  <2> QED BY <2>4 DEF IInv, FromStart
<1> QED BY <1>1, Invariant, PTL

\* A save to which the game only appends loses nothing.
THEOREM AppendsCorrect == Spec => []AppendsKept
<1>1. IInv => AppendsKept
  BY DEF IInv
<1> QED BY <1>1, Invariant, PTL

\* What writev() returns is how much was written, and if that is all, in order.
THEOREM WritevCorrect == Spec => []WritevCounts
<1>1. IInv => WritevCounts
  BY DEF IInv, Counted, WritevCounts
<1> QED BY <1>1, Invariant, PTL
=============================================================================
