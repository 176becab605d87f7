------------------------------- MODULE OSMtx -------------------------------
(***************************************************************************)
(* sys::OSMtx (include/Sys/OSMutex.hpp) over RawMtxHandle                  *)
(* (src/Sys/Win/OSMutex.cpp): a recursive lock built on an NT mutant whose *)
(* handle is created by initialize(), or by the first lock().  Beside the  *)
(* kernel object it keeps a count and a flag of its own: the flag is       *)
(* written before the wait, count and flag before the release.             *)
(*                                                                         *)
(* The mutants are the kernel's: a free one is granted to a waiter, its    *)
(* owner may take it again, and only its owner can release it.  Creating   *)
(* and waiting are assumed to succeed, as the code's invariants do.        *)
(***************************************************************************)
EXTENDS Integers

CONSTANTS
  Threads, None,    \* None: the owner of a free mutant
  MaxDepth,         \* bound: how deep clients nest lock()
  MaxHandles,       \* bound: handles the kernel gives out
  Word,             \* number of values of the u32 __lock_count
  Race              \* whether first calls of lock() may overlap

ASSUME OSMtxAssumption ==
  /\ None \notin Threads
  /\ MaxDepth \in Nat \ {0} /\ MaxHandles \in Nat \ {0}
  /\ Word \in Nat /\ Word > MaxDepth
  /\ Race \in BOOLEAN

npos    == 0
Handles == 1 .. MaxHandles

VARIABLES
  data,         \* __data: the handle, npos when not initialized
  lock_count,   \* __lock_count
  locked,       \* __locked
  open,         \* the kernel's mutants that have a handle
  owner, taken, \* of each mutant: who owns it and how many times
  at,           \* where each thread is in lock() and unlock()
  h,            \* the handle each thread has in hand (a local)
  depth,        \* lock() calls of a thread that returned and await unlock()
  alive         \* ~OSMtx() has not run

object == <<data, lock_count, locked>>
kernel == <<open, owner, taken>>
vars   == <<object, kernel, at, h, depth, alive>>

Locations ==
  {"away",      \* outside lock() and unlock()
   "create",    \* initialize(): about to call RawMtxHandle::New()
   "store",     \* initialize(): has the new handle, __data not yet written
   "mark",      \* lock(): about to set __locked
   "enter",     \* lock(): about to read __data for the wait
   "blocked",   \* in the kernel, waiting for the mutant in h
   "count",     \* granted, __lock_count not yet incremented
   "release"}   \* unlock(): count and flag written, mutant still owned

Go(t, from, to) == at[t] = from /\ at' = [at EXCEPT ![t] = to]

Init ==
  /\ data \in {npos, 1}
  /\ lock_count = 0
  /\ locked = FALSE
  /\ open = {data} \ {npos}
  /\ owner = [k \in Handles |-> None]
  /\ taken = [k \in Handles |-> 0]
  /\ at = [t \in Threads |-> "away"]
  /\ h = [t \in Threads |-> npos]
  /\ depth = [t \in Threads |-> 0]
  /\ alive = TRUE

-----------------------------------------------------------------------------
Initializing == \E t \in Threads : at[t] \in {"create", "store"}

(* Mutation: lock() takes it for granted that somebody has initialized.    *)
LockUninitialized(t) ==
  /\ alive
  /\ Race \/ data # npos \/ ~Initializing
  /\ depth[t] < MaxDepth
  /\ Go(t, "away", "mark")
  /\ UNCHANGED <<object, kernel, h, depth, alive>>

(* lock().  It tests the handle, and initialize() tests it again at once;  *)
(* the two reads are one step, since a handle seen by the second only      *)
(* means that initialize() returns.  Of an uninitialized object, calls     *)
(* overlap with the first one only if Race.                                *)
Lock(t) ==
  /\ alive
  /\ Race \/ data # npos \/ ~Initializing
  /\ depth[t] < MaxDepth
  /\ Go(t, "away", IF data = npos THEN "create" ELSE "mark")
  /\ UNCHANGED <<object, kernel, h, depth, alive>>

(* RawMtxHandle::New(): a mutant nobody owns, under a fresh handle.        *)
Create(t) ==
  /\ Go(t, "create", "store")
  /\ \E k \in Handles \ open :
       /\ open' = open \cup {k}
       /\ h' = [h EXCEPT ![t] = k]
  /\ UNCHANGED <<object, owner, taken, depth, alive>>

Store(t) ==
  /\ Go(t, "store", "mark")
  /\ data' = h[t]
  /\ UNCHANGED <<lock_count, locked, kernel, h, depth, alive>>

Mark(t) ==
  /\ Go(t, "mark", "enter")
  /\ locked' = TRUE
  /\ UNCHANGED <<data, lock_count, kernel, h, depth, alive>>

(* RawMtxHandle::Lock(__data): from here the kernel has the handle, and a  *)
(* later change of __data does not matter to this wait.                    *)
Enter(t) ==
  /\ Go(t, "enter", "blocked")
  /\ h' = [h EXCEPT ![t] = data]
  /\ UNCHANGED <<object, kernel, depth, alive>>

(* Mutation: the wait comes back without the mutant being free.            *)
AcquireAnyway(t) ==
  /\ Go(t, "blocked", "count")
  /\ owner' = [owner EXCEPT ![h[t]] = t]
  /\ taken' = [taken EXCEPT ![h[t]] = @ + 1]
  /\ UNCHANGED <<object, open, h, depth, alive>>

Acquire(t) ==
  /\ Go(t, "blocked", "count")
  /\ owner[h[t]] \in {None, t}
  /\ owner' = [owner EXCEPT ![h[t]] = t]
  /\ taken' = [taken EXCEPT ![h[t]] = @ + 1]
  /\ UNCHANGED <<object, open, h, depth, alive>>

(* Mutation: the count does not follow the grant.                          *)
CountForgets(t) ==
  /\ Go(t, "count", "away")
  /\ depth' = [depth EXCEPT ![t] = @ + 1]
  /\ UNCHANGED <<data, lock_count, locked, kernel, h, alive>>

Count(t) ==
  /\ Go(t, "count", "away")
  /\ lock_count' = (lock_count + 1) % Word
  /\ depth' = [depth EXCEPT ![t] = @ + 1]
  /\ UNCHANGED <<data, locked, kernel, h, alive>>

-----------------------------------------------------------------------------
(* unlock(), by a thread that holds the lock: ScopedLock and FileLock pair *)
(* every unlock() with a lock() of the same thread.                        *)

(* Mutation: the flag is left set at the last unlock().                    *)
UnlockKeepsFlag(t) ==
  /\ depth[t] > 0
  /\ Go(t, "away", "release")
  /\ lock_count' = (lock_count - 1) % Word
  /\ depth' = [depth EXCEPT ![t] = @ - 1]
  /\ UNCHANGED <<data, locked, kernel, h, alive>>

(* The count is unsigned: "<= 0" is "= 0".                                 *)
Unlock(t) ==
  /\ depth[t] > 0
  /\ Go(t, "away", "release")
  /\ lock_count' = (lock_count - 1) % Word
  /\ locked' = IF lock_count' = 0 THEN FALSE ELSE locked
  /\ depth' = [depth EXCEPT ![t] = @ - 1]
  /\ UNCHANGED <<data, kernel, h, alive>>

(* Mutation: unlock() leaves the mutant with its owner.                    *)
ReleaseForgets(t) ==
  /\ Go(t, "release", "away")
  /\ UNCHANGED <<object, kernel, h, depth, alive>>

(* RawMtxHandle::Unlock(__data).  The kernel refuses a mutant the caller   *)
(* does not own, and then nothing is released.                             *)
Release(t) ==
  /\ Go(t, "release", "away")
  /\ IF owner[data] = t
     THEN /\ taken' = [taken EXCEPT ![data] = @ - 1]
          /\ owner' = [owner EXCEPT ![data] = IF taken'[data] = 0 THEN None ELSE t]
     ELSE UNCHANGED <<owner, taken>>
  /\ UNCHANGED <<object, open, h, depth, alive>>

-----------------------------------------------------------------------------
Unused == \A t \in Threads : at[t] = "away" /\ depth[t] = 0

(* Mutation: the destructor forgets RawMtxHandle::Delete().                *)
DestroyLeaks(t) ==
  /\ alive /\ Unused
  /\ alive' = FALSE
  /\ UNCHANGED <<object, kernel, at, h, depth>>

(* ~OSMtx(), by a thread once no other uses the object: an initialized one *)
(* is locked, and its handle is closed while it is owned.                  *)
Destroy(t) ==
  /\ alive /\ Unused
  /\ alive' = FALSE
  /\ IF data = npos
     THEN UNCHANGED <<object, kernel>>
     ELSE /\ lock_count' = (lock_count + 1) % Word
          /\ locked' = TRUE
          /\ open' = open \ {data}
          /\ UNCHANGED <<data, owner, taken>>
  /\ UNCHANGED <<at, h, depth>>

Stepping(t) == Create(t) \/ Store(t) \/ Mark(t) \/ Enter(t) \/ Count(t) \/ Release(t)

Next == \E t \in Threads :
          Lock(t) \/ Stepping(t) \/ Acquire(t) \/ Unlock(t) \/ Destroy(t)

Spec == Init /\ [][Next]_vars

(* A thread inside a call keeps running, and a holder unlocks in the end,  *)
(* also one that nests and unnests: the last unlock() comes.  The kernel   *)
(* queues the waiters of a mutant, so one that finds it free again and     *)
(* again is granted it: strong fairness of Acquire.                        *)
FairSpec ==
  Spec /\ \A t \in Threads :
            /\ WF_vars(Stepping(t))
            /\ WF_vars(Unlock(t)) /\ SF_vars(depth[t] = 1 /\ Unlock(t))
            /\ SF_vars(Acquire(t))

-----------------------------------------------------------------------------
(* The types of the variables.                                             *)
TypeOK ==
  /\ data \in Handles \cup {npos}
  /\ lock_count \in 0 .. Word - 1
  /\ locked \in BOOLEAN
  /\ open \subseteq Handles
  /\ owner \in [Handles -> Threads \cup {None}]
  /\ taken \in [Handles -> Nat]
  /\ at \in [Threads -> Locations]
  /\ h \in [Threads -> Handles \cup {npos}]
  /\ depth \in [Threads -> 0 .. MaxDepth]
  /\ alive \in BOOLEAN

Holds(t) == depth[t] > 0 \/ at[t] \in {"count", "release"}

(* Between the return of the wait and the release at most one thread holds *)
(* the lock, however deep it nests.  It fails if the first lock() calls    *)
(* race: each may create a mutant of its own and wait on that.             *)
Exclusion == \A t, u \in Threads : Holds(t) /\ Holds(u) => t = u

(* What the invariants of RawMtxHandle::Lock() and Unlock() ask for, even  *)
(* when the first lock() calls race: a thread waits only on a handle that  *)
(* exists, and releases through one.                                       *)
HandleExists ==
  \A t \in Threads :
    /\ at[t] \in {"blocked", "count"} => h[t] \in open
    /\ at[t] = "release" => data \in open

(* While the object lives, its own count agrees with the kernel's: it is   *)
(* what the holder has locked and not yet unlocked, and the kernel is one  *)
(* ahead during the two windows in which count and mutant differ.          *)
CountAgrees ==
  alive =>
    /\ \A t \in Threads : Holds(t) =>
         /\ lock_count = depth[t]
         /\ taken[data] = depth[t] + (IF at[t] \in {"count", "release"} THEN 1 ELSE 0)
    /\ (\A t \in Threads : ~Holds(t)) => lock_count = 0

(* The types, the exclusion and the agreement of the two counts.           *)
Inv == TypeOK /\ Exclusion /\ CountAgrees

(* The flag is written by waiters and by the holder without agreement, so  *)
(* it can read FALSE while the lock is held; but it cannot stay TRUE: when *)
(* nobody is in lock() or holds the lock, it is clear.                     *)
FlagSettles == alive /\ Unused => ~locked

(* The destructor leaves no kernel object behind.                          *)
NoHandleLeft == ~alive => open = {}

(* The recursive lock, seen from outside, is the abstract one.             *)
Abstract == INSTANCE Mutex WITH
  phase <- [t \in Threads |->
              IF Holds(t) THEN "holding"
              ELSE IF at[t] = "away" THEN "away" ELSE "waiting"]

ImplementsMutex == Abstract!Spec

(* Every lock() and every unlock() returns.                                *)
CallsReturn == \A t \in Threads : at[t] # "away" ~> at[t] = "away"
=============================================================================
