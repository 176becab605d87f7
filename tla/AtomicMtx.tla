----------------------------- MODULE AtomicMtx -----------------------------
(***************************************************************************)
(* The spinlock sys::AtomicMtx (include/Sys/AtomicMutex.hpp): one byte     *)
(* __locked, taken by compare-and-swap and polled by a plain read in       *)
(* between.  One action per memory access; the pause hint between two      *)
(* polls keeps the compiler from hoisting the read out of the loop, so     *)
(* every poll sees memory.  tryLock() has no caller but lock().            *)
(***************************************************************************)
CONSTANT Threads

VARIABLES locked,   \* AtomicMtx::__locked
          at        \* where each thread is in lock() and unlock()

vars == <<locked, at>>

Locations == {"away",   \* outside lock() and not holding
              "cas",    \* lock(): about to run tryLock()
              "spin",   \* lock(): in the inner while (__locked)
              "held"}   \* lock() returned, unlock() not called

Init ==
  /\ locked = FALSE
  /\ at = [t \in Threads |-> "away"]

Lock(t) ==
  /\ at[t] = "away"
  /\ at' = [at EXCEPT ![t] = "cas"]
  /\ UNCHANGED locked

(* Mutation: the flag is read and then written, not swapped at once.       *)
CasStale(t) ==
  /\ at[t] = "cas"
  /\ at' = [at EXCEPT ![t] = "held"]
  /\ locked' = TRUE

(* tryLock() of the outer loop finds the byte clear and sets it.           *)
Cas(t) ==
  /\ at[t] = "cas"
  /\ ~locked
  /\ locked' = TRUE
  /\ at' = [at EXCEPT ![t] = "held"]

CasFails(t) ==
  /\ at[t] = "cas"
  /\ locked
  /\ at' = [at EXCEPT ![t] = "spin"]
  /\ UNCHANGED locked

(* Mutation: the poll waits for the wrong value.                           *)
PollInverted(t) ==
  /\ at[t] = "spin"
  /\ locked
  /\ at' = [at EXCEPT ![t] = "cas"]
  /\ UNCHANGED locked

(* The inner loop reads the byte clear and goes back to tryLock(); while   *)
(* it reads TRUE nothing changes.                                          *)
Poll(t) ==
  /\ at[t] = "spin"
  /\ ~locked
  /\ at' = [at EXCEPT ![t] = "cas"]
  /\ UNCHANGED locked

(* Mutation: unlock() leaves the byte set.                                 *)
UnlockForgets(t) ==
  /\ at[t] = "held"
  /\ at' = [at EXCEPT ![t] = "away"]
  /\ UNCHANGED locked

Unlock(t) ==
  /\ at[t] = "held"
  /\ locked' = FALSE
  /\ at' = [at EXCEPT ![t] = "away"]

Running(t) == Cas(t) \/ CasFails(t) \/ Poll(t) \/ Unlock(t)

Next == \E t \in Threads : Lock(t) \/ Running(t)

Spec == Init /\ [][Next]_vars

(* A thread inside lock() is running code, and a holder is expected to     *)
(* give the lock back; nobody is obliged to ask for it.                    *)
FairSpec == Spec /\ \A t \in Threads : WF_vars(Running(t))

-----------------------------------------------------------------------------
(* The types of the two variables.                                         *)
TypeOK ==
  /\ locked \in BOOLEAN
  /\ at \in [Threads -> Locations]

(* At most one thread is between lock() and unlock(), and the byte is set  *)
(* exactly while one is: what every caller of lock() relies on.            *)
Exclusion ==
  /\ \A t, u \in Threads : at[t] = "held" /\ at[u] = "held" => t = u
  /\ locked <=> \E t \in Threads : at[t] = "held"

(* Types and exclusion together are inductive.                             *)
Inv == TypeOK /\ Exclusion

(* A thread entitled to the lock takes it before anyone else is let in:    *)
(* the spinlock implements the abstract lock.                              *)
Abstract == INSTANCE Mutex WITH
  phase <- [t \in Threads |->
              IF at[t] = "held" THEN "holding"
              ELSE IF at[t] = "away" THEN "away" ELSE "waiting"]

ImplementsMutex == Abstract!Spec

(* Whenever some thread is inside lock(), some thread gets the lock: the   *)
(* two nested loops cannot leave everybody spinning on a free byte.  (Not  *)
(* "that thread gets it": a spinlock may starve one thread.)               *)
SomeoneGetsIn ==
  (\E t \in Threads : at[t] \in {"cas", "spin"})
    ~> (\E t \in Threads : at[t] = "held")
=============================================================================
