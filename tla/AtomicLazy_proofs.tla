------------------------- MODULE AtomicLazy_proofs -------------------------
(***************************************************************************)
(* What AtomicLazy does keep, for every set of threads, although it tests  *)
(* its flag outside the lock: the inductive invariant ties the location in *)
(* the lock to the task at hand, says who may have written flag and        *)
(* storage, and, where the object is kept, that a thread that constructed  *)
(* finds the flag set from then on.  Behind it, the spinlock: it excludes  *)
(* and implements the abstract lock, by itself and inside an AtomicLazy.   *)
(***************************************************************************)
EXTENDS AtomicLazy, TLAPS

(* A thread's place in the lock follows from what it has left to do.       *)
Places ==
  \A t \in Threads :
    /\ doing[t] = "none" => at[t] = "away"
    /\ doing[t] \in {"construct", "destroy"} => at[t] \in {"cas", "spin", "held"}
    /\ doing[t] \in Inside => at[t] = "held"

(* Between writing the storage and writing the flag the two may differ,    *)
(* and only then.                                                          *)
Windows ==
  /\ \A t \in Threads : doing[t] = "publish" => builders # {}
  /\ \A t \in Threads : doing[t] = "unpublish" => builders = {}
  /\ (\A t \in Threads : doing[t] \notin {"publish", "unpublish"})
       => (init <=> builders # {})

(* Where the object is kept, references come after the flag, and a thread  *)
(* that constructed is not about to construct again.                       *)
Kept ==
  kept =>
    /\ \A t \in Threads : doing[t] \notin {"destroy", "destroying", "unpublish"}
    /\ refs # {} => init
    /\ init => builders # {}
    /\ \A t \in builders : doing[t] \notin {"construct", "constructing"}
    /\ \A t \in builders : init \/ doing[t] = "publish"
    /\ \A t \in refs : doing[t] = "none"

IInv == TypeOK /\ Mtx!Exclusion /\ Places /\ Windows /\ Kept

(* A lock and an empty storage satisfy it.                                 *)
LEMMA IInvInit == Init => IInv
  BY DEF Init, IInv, TypeOK, Places, Windows, Kept, Tasks, Inside, Mtx!Init, Mtx!TypeOK,
         Mtx!Exclusion, Mtx!Locations

(* Every step of ctor() and dtor(), those of the lock included, keeps it.  *)
LEMMA IInvStep == IInv /\ [Next]_vars => IInv'
<1> SUFFICES ASSUME IInv, [Next]_vars PROVE IInv'
  OBVIOUS
<1> USE DEF IInv, TypeOK, Places, Windows, Kept, Tasks, Inside, Idle, mtx,
            Mtx!TypeOK, Mtx!Exclusion, Mtx!Locations
<1>1. ASSUME NEW t \in Threads, CtorFast(t) PROVE IInv'
  BY <1>1 DEF CtorFast
<1>2. ASSUME NEW t \in Threads, CtorSlow(t) PROVE IInv'
  BY <1>2 DEF CtorSlow, Mtx!Lock
<1>3. ASSUME NEW t \in Threads, Dtor(t) PROVE IInv'
  BY <1>3 DEF Dtor, Mtx!Lock
<1>4. ASSUME NEW t \in Threads, Locking(t) PROVE IInv'
  <2>1. CASE Mtx!Cas(t)
    BY <1>4, <2>1 DEF Locking, Mtx!Cas
  <2>2. CASE Mtx!CasFails(t)
    BY <1>4, <2>2 DEF Locking, Mtx!CasFails
  <2>3. CASE Mtx!Poll(t)
    BY <1>4, <2>3 DEF Locking, Mtx!Poll
  <2>4. QED
    BY <1>4, <2>1, <2>2, <2>3 DEF Locking
<1>11. ASSUME NEW t \in Threads, BeginConstruct(t) PROVE IInv'
  BY <1>11 DEF BeginConstruct
<1>5. ASSUME NEW t \in Threads, Construct(t) PROVE IInv'
  BY <1>5 DEF Construct
<1>6. ASSUME NEW t \in Threads, Publish(t) PROVE IInv'
  BY <1>6 DEF Publish
<1>12. ASSUME NEW t \in Threads, BeginDestroy(t) PROVE IInv'
  BY <1>12 DEF BeginDestroy
<1>7. ASSUME NEW t \in Threads, Destroy(t) PROVE IInv'
  BY <1>7 DEF Destroy
<1>8. ASSUME NEW t \in Threads, Unpublish(t) PROVE IInv'
  BY <1>8 DEF Unpublish
<1>9. ASSUME NEW t \in Threads, Return(t) PROVE IInv'
  BY <1>9 DEF Return, Mtx!Unlock
<1>10. CASE UNCHANGED vars
  BY <1>10 DEF vars
<1>13. QED
  BY <1>1, <1>2, <1>3, <1>4, <1>11, <1>5, <1>6, <1>12, <1>7, <1>8, <1>9, <1>10
  DEF Next, Running

(* So it holds of every reachable state.                                   *)
LEMMA IInvAlways == Spec => []IInv
  BY IInvInit, IInvStep, PTL DEF Spec

(* It is strong enough for the two invariants the run checks.              *)
LEMMA IInvImplies == IInv => Inv /\ RefsAreBuilt
  BY DEF IInv, TypeOK, Places, Windows, Kept, Inside, Inv, FlagTruthful, RefsAreBuilt,
         Mtx!TypeOK, Mtx!Exclusion

(* Flag and storage change only under the lock, and agree whenever it is   *)
(* free, dtor() included.                                                  *)
THEOREM LazyFlagTruthful == Spec => []Inv
  BY IInvAlways, IInvImplies, PTL

(* Where nobody calls dtor(), a returned reference is to storage in which  *)
(* a constructor has run to its end, and whoever constructs over it has    *)
(* neither built there before nor holds a reference.                       *)
THEOREM LazyRefsAreBuilt == Spec => []RefsAreBuilt
  BY IInvAlways, IInvImplies, PTL

(* Where nobody calls dtor(), no thread constructs twice, although two     *)
(* threads may.                                                            *)
THEOREM LazyOncePerThread == Spec => OncePerThread
<1>1. IInv /\ [Next]_vars =>
        [\A t \in Threads :
           kept /\ doing[t] = "construct" /\ doing'[t] = "constructing"
             => t \notin builders]_vars
  BY DEF IInv, Kept
<1>2. QED
  BY <1>1, IInvAlways, PTL DEF Spec, OncePerThread

-----------------------------------------------------------------------------
(* The spinlock by itself, of which an AtomicLazy has one.  Its invariant  *)
(* holds at the start and every access to the byte keeps it.               *)
LEMMA LockInductive ==
  /\ Mtx!Init => Mtx!Inv
  /\ Mtx!Inv /\ [Mtx!Next]_(Mtx!vars) => Mtx!Inv'
<1>1. Mtx!Init => Mtx!Inv
  BY DEF Mtx!Init, Mtx!Inv, Mtx!TypeOK, Mtx!Exclusion, Mtx!Locations
<1>2. Mtx!Inv /\ [Mtx!Next]_(Mtx!vars) => Mtx!Inv'
  <2> SUFFICES ASSUME Mtx!Inv, [Mtx!Next]_(Mtx!vars) PROVE Mtx!Inv'
    OBVIOUS
  <2> USE DEF Mtx!Inv, Mtx!TypeOK, Mtx!Exclusion, Mtx!Locations
  <2>1. ASSUME NEW t \in Threads, Mtx!Lock(t) PROVE Mtx!Inv'
    BY <2>1 DEF Mtx!Lock
  <2>2. ASSUME NEW t \in Threads, Mtx!Cas(t) PROVE Mtx!Inv'
    BY <2>2 DEF Mtx!Cas
  <2>3. ASSUME NEW t \in Threads, Mtx!CasFails(t) PROVE Mtx!Inv'
    BY <2>3 DEF Mtx!CasFails
  <2>4. ASSUME NEW t \in Threads, Mtx!Poll(t) PROVE Mtx!Inv'
    BY <2>4 DEF Mtx!Poll
  <2>5. ASSUME NEW t \in Threads, Mtx!Unlock(t) PROVE Mtx!Inv'
    BY <2>5 DEF Mtx!Unlock
  <2>6. CASE UNCHANGED Mtx!vars
    BY <2>6 DEF Mtx!vars
  <2>7. QED
    BY <2>1, <2>2, <2>3, <2>4, <2>5, <2>6 DEF Mtx!Next, Mtx!Running
<1>3. QED
  BY <1>1, <1>2

(* At most one thread is between lock() and unlock(), and the byte is set  *)
(* exactly while one is.                                                   *)
THEOREM SpinlockExcludes == Mtx!Spec => []Mtx!Inv
  BY LockInductive, PTL DEF Mtx!Spec

-----------------------------------------------------------------------------
(* Every access to the byte is a step of the abstract lock or no step of   *)
(* it: failed and repeated compare-and-swaps are waiting.                  *)
LEMMA LockStepRefines ==
  Mtx!Inv /\ [Mtx!Next]_(Mtx!vars) => [Mtx!Abstract!Next]_(Mtx!Abstract!vars)
<1> SUFFICES ASSUME Mtx!Inv, [Mtx!Next]_(Mtx!vars) PROVE [Mtx!Abstract!Next]_(Mtx!Abstract!vars)
  OBVIOUS
<1> USE DEF Mtx!Inv, Mtx!TypeOK, Mtx!Exclusion, Mtx!Locations
<1> DEFINE Phase(l) == IF l = "held" THEN "holding"
                       ELSE IF l = "away" THEN "away" ELSE "waiting"
           phase  == [t \in Threads |-> Phase(at[t])]
           phase2 == [t \in Threads |-> Phase(at'[t])]
<1>1. ASSUME NEW t \in Threads, Mtx!Lock(t) PROVE Mtx!Abstract!Ask(t)
  <2>1. at[t] = "away" /\ at' = [at EXCEPT ![t] = "cas"]
    BY <1>1 DEF Mtx!Lock
  <2>2. phase[t] = "away" /\ phase2 = [phase EXCEPT ![t] = "waiting"]
    BY <2>1
  <2>3. QED
    BY <2>2 DEF Mtx!Abstract!Ask
<1>2. ASSUME NEW t \in Threads, Mtx!Cas(t) PROVE Mtx!Abstract!Take(t)
  <2>1. at[t] = "cas" /\ ~locked /\ at' = [at EXCEPT ![t] = "held"]
    BY <1>2 DEF Mtx!Cas
  <2>2. phase[t] = "waiting" /\ phase2 = [phase EXCEPT ![t] = "holding"]
    BY <2>1
  <2>3. \A u \in Threads : phase[u] # "holding"
    BY <2>1
  <2>4. QED
    BY <2>2, <2>3 DEF Mtx!Abstract!Take
<1>3. ASSUME NEW t \in Threads, Mtx!CasFails(t) \/ Mtx!Poll(t) PROVE UNCHANGED Mtx!Abstract!vars
  BY <1>3 DEF Mtx!CasFails, Mtx!Poll, Mtx!Abstract!vars
<1>4. ASSUME NEW t \in Threads, Mtx!Unlock(t) PROVE Mtx!Abstract!Release(t)
  <2>1. at[t] = "held" /\ at' = [at EXCEPT ![t] = "away"]
    BY <1>4 DEF Mtx!Unlock
  <2>2. phase[t] = "holding" /\ phase2 = [phase EXCEPT ![t] = "away"]
    BY <2>1
  <2>3. QED
    BY <2>2 DEF Mtx!Abstract!Release
<1>5. CASE UNCHANGED Mtx!vars
  BY <1>5 DEF Mtx!vars, Mtx!Abstract!vars
<1>6. QED
  BY <1>1, <1>2, <1>3, <1>4, <1>5 DEF Mtx!Next, Mtx!Running, Mtx!Abstract!Next

(* The spinlock implements the abstract lock: a thread gets past lock()    *)
(* only while no other is between lock() and unlock().                     *)
THEOREM SpinlockImplementsMutex == Mtx!Spec => Mtx!ImplementsMutex
<1>1. Mtx!Init => Mtx!Abstract!Init
  BY DEF Mtx!Init, Mtx!Abstract!Init
<1>2. QED
  BY <1>1, LockStepRefines, SpinlockExcludes, PTL
  DEF Mtx!Spec, Mtx!Abstract!Spec, Mtx!ImplementsMutex

-----------------------------------------------------------------------------
(* The operations use the lock only through its own steps.                 *)
LEMMA StepsOfLock == [Next]_vars => [Mtx!Next]_(Mtx!vars)
  BY DEF vars, mtx, Next, CtorFast, CtorSlow, Dtor, Running, Locking, BeginConstruct, Construct,
         Publish, BeginDestroy, Destroy, Unpublish, Return, Mtx!vars, Mtx!Next, Mtx!Running

(* The lock inside an AtomicLazy keeps the promise of the abstract lock:   *)
(* no thread gets past it while another constructs or destroys.            *)
THEOREM LazyImplementsMutex == Spec => ImplementsMutex
<1>1. Init => Mtx!Init
  BY DEF Init
<1>2. Spec => Mtx!Spec
  BY <1>1, StepsOfLock, PTL DEF Spec, Mtx!Spec
<1>3. QED
  BY <1>2, SpinlockImplementsMutex, PTL DEF ImplementsMutex
=============================================================================
