------------------------------- MODULE Mutex -------------------------------
(***************************************************************************)
(* What a lock of the runtime promises, whatever it is built from: a       *)
(* thread asks, waits while another thread holds the lock, holds it alone, *)
(* and gives it back.  AtomicMtx (a spinlock) and OSMtx (a kernel mutant)  *)
(* are shown to implement it.                                              *)
(***************************************************************************)
CONSTANT Threads

VARIABLE phase      \* what each thread is doing with the lock

vars == <<phase>>

Phases == {"away", "waiting", "holding"}

Init == phase = [t \in Threads |-> "away"]

Ask(t) ==
  /\ phase[t] = "away"
  /\ phase' = [phase EXCEPT ![t] = "waiting"]

(* A waiting thread, or one that only tries, takes a lock nobody holds.    *)
Take(t) ==
  /\ phase[t] \in {"away", "waiting"}
  /\ \A u \in Threads : phase[u] # "holding"
  /\ phase' = [phase EXCEPT ![t] = "holding"]

Release(t) ==
  /\ phase[t] = "holding"
  /\ phase' = [phase EXCEPT ![t] = "away"]

Next == \E t \in Threads : Ask(t) \/ Take(t) \/ Release(t)

Spec == Init /\ [][Next]_vars
=============================================================================
