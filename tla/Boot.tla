-------------------------------- MODULE Boot --------------------------------
(***************************************************************************)
(* main() of source/main.c from its first to its last line: the game       *)
(* binary is loaded (SoImage), relocated and bound to its imports          *)
(* (SoRelocate), two of its functions are hooked, its entry points are     *)
(* looked up, it is mapped as code and its initialisers run; then comes    *)
(* the session (Session).  From the first initialiser on the game has      *)
(* threads of its own (GameThreads).                                       *)
(*                                                                         *)
(* The three modules have the memory of the game in different grains: what *)
(* part of the file is where, the words that are relocated, and here the   *)
(* instructions that the hooks change.                                     *)
(***************************************************************************)
EXTENDS SoImage, GameThreads

CONSTANTS
  Bits, Virtbase, Place, Own, Undef, Imports, Modules, \* see SoRelocate
  Hooked,      \* the functions that are hooked, in order
  Trampoline,  \* Trampoline[h]: the offset of the trampoline of h in the zone
  Visibility,  \* the function that shows and hides touch controls
  EntryPoints, \* what resolve_entry_points() looks up, in order
  Optional,    \* those that the game need not have
  Binaries     \* the heap, headers, relocations, exports and initialisers

VARIABLES
  stage,   \* the call of main() that runs
  step,    \* where it is
  exports, \* the offset in the zone of each function that the game exports
  inits,   \* what each entry of .init_array does
  entry,   \* the function pointers of main(): where each points
  code,    \* the first instructions of the hooked functions, and trampolines
  flushed, \* whether the caches have what is in memory
  file, taint, mem, rpc, ri, where, \* see SoRelocate
  spc, device, context, active, live, current, faults, held, gameSources,
  musicSources, inited, egl         \* see Session

R == INSTANCE SoRelocate WITH
  pc <- rpc, i <- ri, Files <- {b.file : b \in Binaries}
S == INSTANCE Session WITH pc <- spc

imageVars == <<heapVars, pc, result, fileVars, zoneVars, pageVars>>
mainVars  == <<entry, code, flushed>>
gameVars  == <<exports, inits>>
relocVars == <<file, taint, mem, rpc, ri, where>>
sessionVars == <<spc, device, context, active, live, current, faults, held, gameSources,
                 musicSources, inited, egl>>
bootVars  == <<stage, step, gameVars, mainVars, imageVars, relocVars, sessionVars, threadVars>>

ElementsOf(s) == {s[k] : k \in 1 .. Len(s)}
Looked == ElementsOf(Hooked) \cup {Visibility} \cup ElementsOf(EntryPoints)

ASSUME BootAssumption ==
  /\ R!SoRelocateAssumption
  /\ Optional \subseteq ElementsOf(EntryPoints)
  /\ Hooked \in Seq(ElementsOf(Hooked)) /\ EntryPoints \in Seq(ElementsOf(EntryPoints))
  /\ \A j, k \in 1 .. Len(Hooked) : Hooked[j] = Hooked[k] => j = k
  /\ Visibility \notin ElementsOf(Hooked)
  /\ ElementsOf(EntryPoints) \cap ElementsOf(Hooked) = {}
  /\ \A b \in Binaries :
       /\ b.heap \in Heaps /\ b.headers \in Headers
       /\ DOMAIN b.exports \subseteq Looked
       /\ b.inits \in Seq({"null", "returns", "exits"})

-----------------------------------------------------------------------------
(***************************************************************************)
(* The order of main().                                                    *)
(***************************************************************************)
\* Mutant of Order: the entry points are resolved when the game is ready.
OrderEntriesLate ==
  <<"heap", "checks", "load", "relocate", "hooks", "finalize", "flush", "tls",
    "entries", "init", "free", "session">>
\* Mutant of Order: the initialisers run before TPIDR_EL0 is set.
OrderTlsLate ==
  <<"heap", "checks", "load", "relocate", "hooks", "entries", "finalize", "flush",
    "init", "tls", "free", "session">>
\* the calls of main(), after the heap was split
Order ==
  <<"heap", "checks", "load", "relocate", "hooks", "entries", "finalize", "flush",
    "tls", "init", "free", "session">>

\* The call after this one, from its beginning.
Proceed ==
  \E k \in 1 .. Len(Order) - 1 :
    Order[k] = stage /\ stage' = Order[k + 1] /\ step' = 1

\* fatal_error(), or exit()
End(how) == stage' = how /\ UNCHANGED step
Stay     == UNCHANGED <<stage, step>>

InitHeapStage ==
  /\ stage = "heap" /\ InitHeap
  /\ IF pc' = "failed" THEN End("fatal") ELSE Proceed
  /\ UNCHANGED <<gameVars, mainVars, relocVars, sessionVars, threadVars>>

\* check_syscalls() and check_data()
Checks ==
  /\ stage = "checks" /\ (Proceed \/ End("fatal"))
  /\ UNCHANGED <<gameVars, mainVars, imageVars, relocVars, sessionVars, threadVars>>

LoadStage ==
  /\ stage = "load" /\ Load
  /\ CASE pc' = "loaded" -> Proceed
       [] pc' = "failed" -> End("fatal")
       [] OTHER          -> Stay
  /\ UNCHANGED <<gameVars, mainVars, relocVars, sessionVars, threadVars>>

\* so_relocate() and so_resolve()
RelocateStage ==
  /\ stage = "relocate" /\ R!Next
  /\ CASE rpc' = "done"   -> Proceed
       [] rpc' = "failed" -> End("fatal")
       [] OTHER           -> Stay
  /\ UNCHANGED <<gameVars, mainVars, imageVars, sessionVars, threadVars>>

-----------------------------------------------------------------------------
(***************************************************************************)
(* Looking up functions: so_find_addr(), so_find_addr_rx() and             *)
(* so_try_find_addr_rx(), which are given the function's name and address  *)
(* it in load_base or in load_virtbase.                                    *)
(***************************************************************************)
Null == <<"null", 0>>
Found(f) == f \in DOMAIN exports
At(space, offset) == <<space, offset>>

\* Instructions are counted from the beginning of a function or trampoline, of which
\* the first six are enough here.
Function(h) == [k \in 1 .. 6 |-> <<"own", h, k>>]

\* A branch is LDR X17, BR X17 and where it goes, in two halves.
Branch(to) == << <<"ldr">>, <<"br">>, to, to >>

\* where the target branches to: the replacement of h in main.c
Replacement(h) == <<"replacement", h, 1>>
\* where the trampoline branches to: target_rx + 16
Continues(h) == <<"target", h, 5>>

\* Mutant of Prologue: the target is patched before it is copied.
PrologueLate(h) == Branch(Replacement(h))
\* the 16 bytes of the function that the trampoline gets
Prologue(h) == SubSeq(code[h].target, 1, 4)

\* install_game_hook() of the function in turn
InstallHook ==
  /\ stage = "hooks" /\ step \in 2 .. Len(Hooked) + 1
  /\ LET h == Hooked[step - 1] IN
       \/ ~Found(h) /\ End("fatal") /\ UNCHANGED mainVars
       \/ /\ Found(h)
          /\ code' = [code EXCEPT ![h] =
               [target     |-> Branch(Replacement(h)) \o SubSeq(@.target, 5, 6),
                trampoline |-> Prologue(h) \o Branch(Continues(h))]]
          /\ entry' = [entry EXCEPT ![h] = At("rx", Trampoline[h])]
          /\ flushed' = FALSE
          /\ stage' = stage /\ step' = step + 1
  /\ UNCHANGED <<gameVars, imageVars, relocVars, sessionVars, threadVars>>

\* so_find_addr_rx(), or so_try_find_addr_rx() of what is optional
Find(f) ==
  \/ /\ Found(f) \/ f \in Optional
     /\ entry' = [entry EXCEPT ![f] = IF Found(f) THEN At("rx", exports[f]) ELSE Null]
     /\ stage' = stage /\ step' = step + 1
  \/ /\ ~Found(f) /\ f \notin Optional
     /\ End("fatal") /\ UNCHANGED entry

FindVisibility ==
  /\ stage = "hooks" /\ step = 1 /\ Find(Visibility)
  /\ UNCHANGED <<gameVars, code, flushed, imageVars, relocVars, sessionVars, threadVars>>

FindEntryPoint ==
  /\ stage = "entries" /\ step <= Len(EntryPoints) /\ Find(EntryPoints[step])
  /\ UNCHANGED <<gameVars, code, flushed, imageVars, relocVars, sessionVars, threadVars>>

EndLookups ==
  /\ \/ stage = "hooks" /\ step = Len(Hooked) + 2
     \/ stage = "entries" /\ step = Len(EntryPoints) + 1
  /\ Proceed
  /\ UNCHANGED <<gameVars, mainVars, imageVars, relocVars, sessionVars, threadVars>>

-----------------------------------------------------------------------------
(***************************************************************************)
(* From so_finalize() to so_free_temp().                                   *)
(***************************************************************************)
FinalizeStage ==
  /\ stage = "finalize" /\ Finalize
  /\ CASE pc' = "ready"  -> Proceed
       [] pc' = "failed" -> End("fatal")
       [] OTHER          -> Stay
  /\ UNCHANGED <<gameVars, mainVars, relocVars, sessionVars, threadVars>>

\* so_flush_caches()
Flush ==
  /\ stage = "flush" /\ Proceed
  /\ flushed' = TRUE
  /\ UNCHANGED <<gameVars, entry, code, imageVars, relocVars, sessionVars, threadVars>>

\* main_fake_tls
SetTls ==
  /\ stage = "tls" /\ Proceed
  /\ tls' = [tls EXCEPT ![MainThread] = MainThread]
  /\ UNCHANGED <<gameVars, mainVars, imageVars, relocVars, sessionVars,
                 caller, state, record, starved, misuse>>

\* so_execute_init_array(): the initialiser in turn returns, or ends the program.
Initialise ==
  /\ stage = "init"
  /\ \/ /\ step <= Len(inits) /\ inits[step] # "exits"
        /\ stage' = stage /\ step' = step + 1
     \/ step <= Len(inits) /\ inits[step] = "exits" /\ End("exited")
     \/ step > Len(inits) /\ Proceed
  /\ UNCHANGED <<gameVars, mainVars, imageVars, relocVars, sessionVars, threadVars>>

\* so_free_temp()
FreeTemp ==
  /\ stage = "free" /\ Proceed
  /\ so_base' = FALSE
  /\ UNCHANGED <<gameVars, mainVars, heapVars, pc, result, phdr, load_memrv, listed,
                 zoneVars, pageVars, relocVars, sessionVars, threadVars>>

SessionStage ==
  /\ stage = "session" /\ S!Next
  /\ UNCHANGED <<stage, step, gameVars, mainVars, imageVars, relocVars, threadVars>>

-----------------------------------------------------------------------------
\* main() is in code of the game, or could be.
MainInGame ==
  \/ stage = "init" /\ step <= Len(inits) /\ inits[step] # "null"
  \/ stage = "session" /\ spc \in {"launch", "running", "audio"}

GameRunning == MainInGame \/ \E t \in Thread : state[t] = "run"

\* Threads stop with the program.
Ended == stage \in {"fatal", "exited"} \/ spc = "exited"

\* Code of the game creates a thread.
GameCreates(t) ==
  /\ GameRunning /\ ~Ended /\ Allocate(t)
  /\ UNCHANGED <<stage, step, gameVars, mainVars, imageVars, relocVars, sessionVars>>

GameThread(t) ==
  /\ ~Ended /\ ThreadStep(t)
  /\ UNCHANGED <<stage, step, gameVars, mainVars, imageVars, relocVars, sessionVars>>

\* main() passes taint_missing_imports.
BootInit ==
  /\ \E b \in Binaries :
       /\ InitWith(b.heap, b.headers) /\ R!InitWith(b.file, TRUE)
       /\ exports = b.exports /\ inits = b.inits
  /\ S!Init /\ ThreadInit
  /\ stage = "heap" /\ step = 1 /\ flushed = FALSE
  /\ entry = [f \in Looked |-> Null]
  /\ code = [h \in ElementsOf(Hooked) |->
               [target |-> Function(h), trampoline |-> <<>>]]

BootNext ==
  \/ InitHeapStage \/ Checks \/ LoadStage \/ RelocateStage
  \/ FindVisibility \/ InstallHook \/ FindEntryPoint \/ EndLookups
  \/ FinalizeStage \/ Flush \/ SetTls \/ Initialise \/ FreeTemp
  \/ SessionStage
  \/ \E t \in Thread : GameCreates(t) \/ GameThread(t)

BootSpec == BootInit /\ [][BootNext]_bootVars

-----------------------------------------------------------------------------
BootTypeOK ==
  /\ TypeOK /\ R!TypeOK /\ S!TypeOK /\ ThreadTypeOK
  /\ stage \in ElementsOf(Order) \cup {"fatal", "exited"}
  /\ step \in Nat
  /\ DOMAIN entry = Looked

\* What main() reads and patches is there: relocations, symbols and instructions
\* are in the copy at load_base, which so_finalize() takes away; the section
\* headers are in the file image, which so_free_temp() takes away; and the caches
\* are flushed, and initialisers run, where the image is mapped.
ReadsMapped ==
  /\ stage \in {"relocate", "hooks", "entries"} => pc = "loaded"
  /\ stage \in {"relocate", "init"} => so_base
  /\ stage \in {"flush", "init", "session"} => pc = "ready"

\* No code of the game runs, on main() or a thread of its own, before its words are
\* relocated and bound, its pages have their permissions, the caches are flushed,
\* the unwinder can find it, and main() has its TLS block.
GameCodeReady ==
  GameRunning =>
    /\ rpc = "done" /\ pc = "ready" /\ flushed /\ listed
    /\ tls[MainThread] = MainThread

\* Every pointer leads to the function or trampoline it is named for, where its code
\* can be executed, if it is code; only what the game need not have may be NULL.
EntriesExecutable ==
  stage = "session" => \A f \in Looked :
    /\ entry[f] = Null => f \in Optional
    /\ entry[f] # Null =>
         /\ entry[f] = At("rx", IF f \in ElementsOf(Hooked) THEN Trampoline[f]
                                                            ELSE exports[f])
         /\ (\E i \in Loads : phdr[i].x /\ entry[f][2] \in phdr[i].vaddr .. EndOf(i) - 1) =>
              perm[entry[f][2] \div PageSize] = "rx"

\* The first branch of text from instruction k on, or the end of it; what runs until
\* then, and where the branch leads.
Until(text, k) ==
  CHOOSE b \in k .. Len(text) + 1 :
    /\ b <= Len(text) => text[b] = <<"ldr">>
    /\ \A j \in k .. b - 1 : text[j] # <<"ldr">>
Runs(text, k)  == SubSeq(text, k, Until(text, k) - 1)
Leads(text, k) == text[Until(text, k) + 2]

\* A hooked function leads to its replacement at once; and what the replacement calls
\* as the original does all that the function did, and does not come back to the hook.
HooksSound ==
  stage \in {"finalize", "init", "session"} => \A h \in ElementsOf(Hooked) :
    LET to == Leads(code[h].trampoline, 1) IN
      /\ Runs(code[h].target, 1) = <<>> /\ Leads(code[h].target, 1) = Replacement(h)
      /\ to[1] = "target" /\ to[2] \in ElementsOf(Hooked)
      /\ Runs(code[h].trampoline, 1) \o Runs(code[to[2]].target, to[3]) = Function(h)

\* In the session main() calls the functions it means, hooked or not, and a hook that
\* calls the original does all that the function did before it was patched.
EntriesSound == EntriesExecutable /\ HooksSound

\* As in SoRelocate, once so_resolve() has returned.
WordsBound == R!WordsBound

\* As in Session.
NoDoubleFree == S!NoDoubleFree
SharedKept == S!SharedKept
SourcesReleased == S!SourcesReleased
=============================================================================
