------------------------------ MODULE Runtime ------------------------------
(***************************************************************************)
(* The life of a process, in the two builds of the library.  With its own  *)
(* C runtime (xcrt): mainCRTStartup() loads the numbers of the system      *)
(* calls, makes the locks of the runtime, runs the global constructors,    *)
(* main() and the global destructors.  On the compiler's runtime: the      *)
(* static objects of each unit load the numbers, and those of PFiles.cpp   *)
(* construct the standard streams, before main().                          *)
(*                                                                         *)
(* One thread.  Meanwhile other software in the process may rewrite a stub *)
(* of ntdll (Patch), which is what a failed load is: at most MaxPatches.   *)
(***************************************************************************)
EXTENDS Bootstrap

CONSTANTS
  Calls,        \* the system calls, in the order of Syscalls.mac
  Names,        \* the names ntdll may export, those of the calls among them
  Stubs,        \* what the machine code of a stub may be
  CreateMutant, \* the call that makes a lock
  LockTable,    \* the locks of the runtime, in order
  Units,        \* the units with static objects that load the numbers
  PFiles,       \* the one that has the standard streams
  Ctors, Dtors, \* __CTOR_LIST__ and __DTOR_LIST__
  MaxPatches

ASSUME RuntimeAssumption ==
  /\ Names \subseteq Int /\ IsFiniteSet(Names)
  /\ Calls \in Seq(Names) /\ IsInjective(Calls)
  /\ \A stub \in Stubs : IsStub(stub)
  /\ CreateMutant \in Range(Calls)
  /\ PFiles \in Units
  /\ LockTable \in Seq(Range(LockTable))
  /\ Ctors \in Seq(Range(Ctors)) /\ Dtors \in Seq(Range(Dtors))
  /\ MaxPatches \in Nat

VARIABLES
  xcrt,         \* which build; never changes
  code,         \* the stub of each exported name
  patches,      \* how often code was changed
  pc,           \* where the process is
  back,         \* where load_syscalls() returns to
  at,           \* the next call to load, lock to make or unit to start
  did_succeed,  \* __did_succeed_
  syscalls,     \* __syscalls_
  errors,       \* __errors_
  locks,        \* the locks that are initialized, in that order
  streams,      \* __init_pfiles() has run
  started,      \* the units whose static objects are constructed
  did_init,     \* __did_init_ctors_
  ran           \* the functions of the program that ran, in order

loading == <<did_succeed, syscalls, errors>>
program == <<locks, streams, started, did_init, ran>>
vars == <<xcrt, code, patches, pc, back, at, loading, program>>

(* ntdll's table has the names in order.                                   *)
exports ==
  CHOOSE table \in [1 .. Cardinality(DOMAIN code) -> DOMAIN code] :
    \A i, j \in DOMAIN table : i < j => table[i] < table[j]

Init ==
  /\ xcrt \in BOOLEAN
  /\ \E E \in SUBSET Names : code \in [E -> Stubs \cup {<<>>}]
  /\ patches = 0
  /\ pc = (IF xcrt THEN "mainCRTStartup" ELSE "statics")
  /\ back = "none" /\ at = 0
  /\ did_succeed = FALSE
  /\ syscalls = [C \in Range(Calls) |-> <<0, 0, 0, 0>>]
  /\ errors = [C \in Range(Calls) |-> "Success"]
  /\ locks = <<>> /\ streams = FALSE /\ started = {}
  /\ did_init = FALSE /\ ran = <<>>

Patch(n, stub) ==
  /\ patches < MaxPatches
  /\ n \in DOMAIN code /\ code[n] # <<>> /\ stub # code[n]
  /\ code' = [code EXCEPT ![n] = stub]
  /\ patches' = patches + 1
  /\ UNCHANGED <<xcrt, pc, back, at, loading, program>>

Stays == UNCHANGED <<xcrt, code, patches>>
Goto(l) == pc' = l /\ UNCHANGED <<back, at>>

-----------------------------------------------------------------------------
(* load_syscalls(), to return to l.                                        *)
Load(l) == pc' = "load" /\ back' = l /\ UNCHANGED at

LoadBegin ==
  /\ pc = "load"
  /\ IF did_succeed
     THEN pc' = back /\ UNCHANGED <<at, did_succeed>>
     ELSE pc' = "loading" /\ at' = 1 /\ did_succeed' = TRUE
  /\ Stays /\ UNCHANGED <<back, syscalls, errors, program>>

(* Mutation: a call that loads makes the whole load successful.            *)
HandleLastWins ==
  /\ pc = "loading" /\ at <= Len(Calls)
  /\ \E stub \in parse_stub(exports, code, Calls[at]) :
       /\ did_succeed' = (stub.err = "Success")
       /\ errors' = [errors EXCEPT ![Calls[at]] = stub.err]
       /\ syscalls' = [syscalls EXCEPT ![Calls[at]] = stub.call]
  /\ at' = at + 1
  /\ Stays /\ UNCHANGED <<pc, back, program>>

handle_syscall ==
  /\ pc = "loading" /\ at <= Len(Calls)
  /\ \E stub \in parse_stub(exports, code, Calls[at]) :
       /\ did_succeed' = (did_succeed /\ stub.err = "Success")
       /\ errors' = [errors EXCEPT ![Calls[at]] = stub.err]
       /\ syscalls' = [syscalls EXCEPT ![Calls[at]] = stub.call]
  /\ at' = at + 1
  /\ Stays /\ UNCHANGED <<pc, back, program>>

LoadEnd ==
  /\ pc = "loading" /\ at > Len(Calls)
  /\ pc' = back
  /\ at' = 0
  /\ Stays /\ UNCHANGED <<back, loading, program>>

-----------------------------------------------------------------------------
(* The xcrt build.  force_syscall_reload() forgets and loads;              *)
(* are_syscalls_loaded() loads again what failed.                          *)
force_syscall_reload ==
  /\ pc = "mainCRTStartup"
  /\ did_succeed' = FALSE
  /\ Load("reloaded")
  /\ Stays /\ UNCHANGED <<syscalls, errors, program>>

are_syscalls_loaded ==
  /\ pc = "reloaded"
  /\ Load("loaded")
  /\ Stays /\ UNCHANGED <<loading, program>>

(* What a load that failed meets is __hc_unreachable(): a trap in the      *)
(* debug build; in the release build it is undefined, and a process        *)
(* without the test goes on.                                               *)
Startup ==
  /\ pc = "loaded"
  /\ \E l \in IF did_succeed THEN {"locks"} ELSE {"locks", "trap"} : Goto(l)
  /\ Stays /\ UNCHANGED <<loading, program>>

(* Mutation: the locks are made from the last to the first.                *)
LocksBackwards ==
  /\ pc = "locks" /\ Len(locks) < Len(LockTable)
  /\ locks' = Append(locks, LockTable[Len(LockTable) - Len(locks)])
  /\ Stays /\ UNCHANGED <<pc, back, at, loading, streams, started, did_init, ran>>

(* __xcrt_locks_setup(): each is constructed and makes its mutant.         *)
locks_setup ==
  /\ pc = "locks" /\ Len(locks) < Len(LockTable)
  /\ locks' = Append(locks, LockTable[Len(locks) + 1])
  /\ Stays /\ UNCHANGED <<pc, back, at, loading, streams, started, did_init, ran>>

locks_done ==
  /\ pc = "locks" /\ Len(locks) = Len(LockTable)
  /\ Goto("ctors")
  /\ Stays /\ UNCHANGED <<loading, program>>

(* Mutation: __main() does not look at the flag.                           *)
MainInitsAgain ==
  /\ pc \in {"ctors", "main"}
  /\ did_init' = TRUE
  /\ ran' = ran \o Reverse(Ctors)
  /\ Goto(IF pc = "ctors" THEN "main" ELSE "body")
  /\ Stays /\ UNCHANGED <<loading, locks, streams, started>>

(* __main() is called by xcrtMainInvoker(), and again by the code the      *)
(* compiler puts at the start of main().                                   *)
__main ==
  /\ pc \in {"ctors", "main"}
  /\ IF did_init
     THEN UNCHANGED <<did_init, ran>>
     ELSE did_init' = TRUE /\ ran' = ran \o Reverse(Ctors)
  /\ Goto(IF pc = "ctors" THEN "main" ELSE "body")
  /\ Stays /\ UNCHANGED <<loading, locks, streams, started>>

main ==
  /\ pc = "body"
  /\ ran' = Append(ran, "main")
  /\ Goto(IF xcrt THEN "dtors" ELSE "exit")
  /\ Stays /\ UNCHANGED <<loading, locks, streams, started, did_init>>

(* The locks are not destroyed: the process ends with them.                *)
do_global_dtors ==
  /\ pc = "dtors"
  /\ ran' = ran \o Dtors
  /\ Goto("exit")
  /\ Stays /\ UNCHANGED <<loading, locks, streams, started, did_init>>

-----------------------------------------------------------------------------
(* On the compiler's runtime.  Units start in any order; each has a        *)
(* _SyscallLoader, from the header, before any object of its own.          *)
Loader(u) ==
  /\ pc = "statics" /\ u \notin started
  /\ started' = started \cup {u}
  /\ Load(IF u = PFiles THEN "streams" ELSE "checked")
  /\ Stays /\ UNCHANGED <<loading, locks, streams, did_init, ran>>

LoaderChecks ==
  /\ pc = "checked"
  /\ Goto(IF did_succeed THEN "statics" ELSE "trap")
  /\ Stays /\ UNCHANGED <<loading, program>>

(* Mutation: the streams come before the loader of their unit.             *)
StreamsFirst ==
  /\ pc \in {"statics", "streams"} /\ ~streams
  /\ streams' = TRUE
  /\ Goto(IF pc = "statics" THEN pc ELSE "checked")
  /\ Stays /\ UNCHANGED <<loading, locks, started, did_init, ran>>

(* $Once { __init_pfiles(); }, after the check of the unit's loader: the   *)
(* three streams and their mutants.                                        *)
init_pfiles ==
  /\ pc = "streams"
  /\ IF did_succeed
     THEN streams' = TRUE /\ Goto("statics")
     ELSE UNCHANGED streams /\ Goto("trap")
  /\ Stays /\ UNCHANGED <<loading, locks, started, did_init, ran>>

StaticsDone ==
  /\ pc = "statics" /\ started = Units
  /\ Goto("body")
  /\ Stays /\ UNCHANGED <<loading, program>>

Next ==
  \/ \E n \in Names, stub \in Stubs : Patch(n, stub)
  \/ LoadBegin \/ handle_syscall \/ LoadEnd
  \/ force_syscall_reload \/ are_syscalls_loaded \/ Startup
  \/ locks_setup \/ locks_done
  \/ __main \/ main \/ do_global_dtors
  \/ \E u \in Units : Loader(u)
  \/ LoaderChecks \/ init_pfiles \/ StaticsDone

Spec == Init /\ [][Next]_vars

-----------------------------------------------------------------------------
Errors == {"Success", "IllegalInstruction", "UnexpectedC2Retn",
           "UnknownFunction", "SyscallNotFound"}

(* The types of the variables; the locks made are the first of the table.  *)
TypeOK ==
  /\ xcrt \in BOOLEAN /\ did_succeed \in BOOLEAN /\ streams \in BOOLEAN
  /\ did_init \in BOOLEAN
  /\ DOMAIN code \subseteq Names /\ Range(code) \subseteq Stubs \cup {<<>>}
  /\ patches \in 0 .. MaxPatches
  /\ at \in 0 .. Len(Calls) + 1
  /\ syscalls \in [Range(Calls) -> Seq(Nat)]
  /\ errors \in [Range(Calls) -> Errors]
  /\ IsPrefix(locks, LockTable)
  /\ started \subseteq Units

(* The search finds each exported name where it is and no other, whatever  *)
(* it reads outside the table.                                             *)
SearchFinds ==
  \A S \in Names : \A pos \in bsearch(exports, S) :
    IF S \in DOMAIN code THEN pos >= 0 /\ exports[pos + 1] = S ELSE pos < 0

(* The parser, which goes by first bytes and its own table of lengths,     *)
(* reads every stub as its instructions mean it, operands that look like   *)
(* instructions included.                                                  *)
ParseAgrees ==
  \A n \in DOMAIN code : code[n] # <<>> =>
    do_parsing(FlattenSeq(code[n])) = Meaning(code[n])

(* Once the load is done, each number is valid and comes from the stub of  *)
(* its own name, or is the invalid one and its error is kept, however      *)
(* often the load was repeated after a failure half way; the flag says     *)
(* whether all are valid.  Only the startup of the xcrt build may run on   *)
(* without some of them.                                                   *)
LoadedIsUsable ==
  pc \in {"locks", "ctors", "main", "body", "dtors", "exit", "trap"} =>
    /\ \A C \in Range(Calls) :
         IF errors[C] = "Success"
         THEN /\ syscalls[C] # invalid_syscall
              /\ patches = 0 => Ok(syscalls[C]) = Meaning(code[C])
         ELSE syscalls[C] = invalid_syscall
    /\ did_succeed <=> \A C \in Range(Calls) : errors[C] = "Success"
    /\ did_succeed \/ xcrt \/ pc = "trap"

(* No kernel object is made with a number that is still to be loaded, the  *)
(* locks of the runtime and the streams in whatever order the units of the *)
(* program start: it is the number of a stub, or, when the startup ran on  *)
(* after a failure, the invalid one that the kernel refuses.  The streams  *)
(* are only made when every number is loaded.                              *)
NoEarlyKernelCall ==
  [][/\ locks' # locks \/ streams' # streams =>
          IF errors[CreateMutant] = "Success"
          THEN \E stub \in Stubs : Meaning(stub) = Ok(syscalls[CreateMutant])
          ELSE xcrt /\ syscalls[CreateMutant] = invalid_syscall
     /\ streams' # streams => did_succeed]_vars

(* In the xcrt build each constructor runs once, from the last to the      *)
(* first, with the locks of the runtime in place, then main(), then each   *)
(* destructor from the first on, though __main() is called twice.  On the  *)
(* compiler's runtime main() has the streams.                              *)
CtorsAroundMain ==
  /\ ran # <<>> /\ xcrt => locks = LockTable
  /\ ran # <<>> /\ ~xcrt => streams
  /\ pc = "exit" /\ xcrt => ran = Reverse(Ctors) \o <<"main">> \o Dtors
=============================================================================
