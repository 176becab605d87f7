---------------------------- MODULE OSMtx_proofs ----------------------------
(***************************************************************************)
(* What OSMtx keeps for every set of threads and every depth of nesting.   *)
(* Even if the first calls of lock() race, every wait and release is       *)
(* through a handle that exists; without the race there is one mutant, and *)
(* the object excludes, counts right, settles its flag and leaks nothing.  *)
(***************************************************************************)
EXTENDS OSMtx, TLAPS

(* Handles come into being before they are used, and go with the object.   *)
HandlesInUse ==
  /\ alive => data \in open \cup {npos}
  /\ \A t \in Threads :
       /\ at[t] \in {"store", "blocked", "count"} => h[t] \in open
       /\ at[t] \notin {"away", "create", "store"} \/ depth[t] > 0 => data # npos
       /\ at[t] # "away" \/ depth[t] > 0 => alive

(* The kernel counts what is owned, and clients stay within the bound.     *)
Counted ==
  /\ \A k \in Handles : owner[k] = None <=> taken[k] = 0
  /\ \A t \in Threads : at[t] \notin {"away", "release"} => depth[t] < MaxDepth

UseInv == TypeOK /\ HandlesInUse /\ Counted

(* Counting modulo Word stays in its range.                                *)
LEMMA InWord ==
  \A n \in 0 .. Word - 1 : (n + 1) % Word \in 0 .. Word - 1 /\ (n - 1) % Word \in 0 .. Word - 1
  BY OSMtxAssumption

(* npos is no handle.                                                      *)
LEMMA HandleFacts == npos \notin Handles /\ 1 \in Handles /\ npos # 1
  BY OSMtxAssumption DEF npos, Handles

(* What count and unlock do, apart from the arithmetic of the count.       *)
LEMMA CountFacts ==
  ASSUME NEW t \in Threads, Count(t)
  PROVE  /\ Go(t, "count", "away")
         /\ depth' = [depth EXCEPT ![t] = @ + 1]
         /\ lock_count \in 0 .. Word - 1 => lock_count' \in 0 .. Word - 1
         /\ UNCHANGED <<data, locked, open, owner, taken, h, alive>>
  BY InWord DEF Count, kernel

(* The same of unlock().                                                   *)
LEMMA UnlockFacts ==
  ASSUME NEW t \in Threads, Unlock(t)
  PROVE  /\ depth[t] > 0
         /\ Go(t, "away", "release")
         /\ depth' = [depth EXCEPT ![t] = @ - 1]
         /\ lock_count \in 0 .. Word - 1 => lock_count' \in 0 .. Word - 1
         /\ locked \in BOOLEAN => locked' \in BOOLEAN
         /\ UNCHANGED <<data, open, owner, taken, h, alive>>
  BY InWord DEF Unlock, kernel

(* A shared object starts with one free mutant or none.                    *)
LEMMA UseInit == Init => UseInv
<1> SUFFICES ASSUME Init PROVE UseInv
  OBVIOUS
<1>1. data \in Handles \cup {npos} /\ open \subseteq Handles
  BY HandleFacts DEF Init
<1>2. TypeOK
  <2>1. lock_count \in 0 .. Word - 1 /\ depth \in [Threads -> 0 .. MaxDepth]
    BY OSMtxAssumption DEF Init
  <2>2. /\ owner \in [Handles -> Threads \cup {None}] /\ taken \in [Handles -> Nat]
        /\ at \in [Threads -> Locations] /\ h \in [Threads -> Handles \cup {npos}]
        /\ locked \in BOOLEAN /\ alive \in BOOLEAN
    BY DEF Init, Locations
  <2>3. QED
    BY <1>1, <2>1, <2>2 DEF TypeOK
<1>3. HandlesInUse /\ Counted
  BY OSMtxAssumption DEF Init, HandlesInUse, Counted
<1>4. QED
  BY <1>2, <1>3 DEF UseInv

(* Every step of lock(), unlock() and the destructor keeps the handles.    *)
LEMMA UseStep == UseInv /\ [Next]_vars => UseInv'
<1> SUFFICES ASSUME UseInv, [Next]_vars PROVE UseInv'
  OBVIOUS
<1> USE DEF UseInv
<1>1. TypeOK'
  <2> USE OSMtxAssumption, HandleFacts
      DEF TypeOK, HandlesInUse, Counted, Locations, Go, object, kernel
  <2>1. ASSUME NEW t \in Threads, Lock(t) PROVE TypeOK'
    BY <2>1 DEF Lock
  <2>2. ASSUME NEW t \in Threads, Create(t) PROVE TypeOK'
    BY <2>2 DEF Create
  <2>3. ASSUME NEW t \in Threads, Store(t) PROVE TypeOK'
    BY <2>3 DEF Store
  <2>4. ASSUME NEW t \in Threads, Mark(t) PROVE TypeOK'
    BY <2>4 DEF Mark
  <2>5. ASSUME NEW t \in Threads, Enter(t) PROVE TypeOK'
    BY <2>5 DEF Enter
  <2>6. ASSUME NEW t \in Threads, Acquire(t) PROVE TypeOK'
    BY <2>6 DEF Acquire
  <2>7. ASSUME NEW t \in Threads, Count(t) PROVE TypeOK'
    BY <2>7, CountFacts
  <2>8. ASSUME NEW t \in Threads, Unlock(t) PROVE TypeOK'
    BY <2>8, UnlockFacts
  <2>9. ASSUME NEW t \in Threads, Release(t) PROVE TypeOK'
    BY <2>9 DEF Release
  <2>10. ASSUME NEW t \in Threads, Destroy(t) PROVE TypeOK'
    <3>1. lock_count' \in 0 .. Word - 1 /\ open' \subseteq open
      BY <2>10, InWord DEF Destroy
    <3>2. locked' \in BOOLEAN /\ alive' \in BOOLEAN
      BY <2>10 DEF Destroy
    <3>3. UNCHANGED <<data, owner, taken, at, h, depth>>
      BY <2>10 DEF Destroy
    <3>4. QED
      BY <3>1, <3>2, <3>3
  <2>11. CASE UNCHANGED vars
    BY <2>11 DEF vars
  <2>12. QED
    BY <2>1, <2>2, <2>3, <2>4, <2>5, <2>6, <2>7, <2>8, <2>9, <2>10, <2>11
    DEF Next, Stepping
<1>2. HandlesInUse' /\ Counted'
  <2> USE OSMtxAssumption, HandleFacts
      DEF TypeOK, HandlesInUse, Counted, Locations, Go, object, kernel
  <2>1. ASSUME NEW t \in Threads, Lock(t) PROVE HandlesInUse' /\ Counted'
    BY <2>1 DEF Lock
  <2>2. ASSUME NEW t \in Threads, Create(t) PROVE HandlesInUse' /\ Counted'
    BY <2>2 DEF Create
  <2>3. ASSUME NEW t \in Threads, Store(t) PROVE HandlesInUse' /\ Counted'
    BY <2>3 DEF Store
  <2>4. ASSUME NEW t \in Threads, Mark(t) PROVE HandlesInUse' /\ Counted'
    BY <2>4 DEF Mark
  <2>5. ASSUME NEW t \in Threads, Enter(t) PROVE HandlesInUse' /\ Counted'
    BY <2>5 DEF Enter
  <2>6. ASSUME NEW t \in Threads, Acquire(t) PROVE HandlesInUse' /\ Counted'
    BY <2>6 DEF Acquire
  <2>7. ASSUME NEW t \in Threads, Count(t) PROVE HandlesInUse' /\ Counted'
    BY <2>7, CountFacts
  <2>8. ASSUME NEW t \in Threads, Unlock(t) PROVE HandlesInUse' /\ Counted'
    BY <2>8, UnlockFacts
  <2>9. ASSUME NEW t \in Threads, Release(t) PROVE HandlesInUse' /\ Counted'
    BY <2>9 DEF Release
  <2>10. ASSUME NEW t \in Threads, Destroy(t) PROVE HandlesInUse' /\ Counted'
    BY <2>10 DEF Destroy, Unused
  <2>11. CASE UNCHANGED vars
    BY <2>11 DEF vars
  <2>12. QED
    BY <2>1, <2>2, <2>3, <2>4, <2>5, <2>6, <2>7, <2>8, <2>9, <2>10, <2>11
    DEF Next, Stepping
<1>3. QED
  BY <1>1, <1>2

(* It holds of every reachable state, and includes HandleExists.           *)
LEMMA UseAlways == Spec => []UseInv
  BY UseInit, UseStep, PTL DEF Spec

(* However the first calls of lock() race: a thread waits only on a mutant *)
(* that exists, and releases through one.                                  *)
THEOREM WaitsOnExistingHandle == Spec => []HandleExists
<1>1. UseInv => HandleExists
  BY DEF UseInv, HandlesInUse, HandleExists
<1>2. QED
  BY <1>1, UseAlways, PTL

-----------------------------------------------------------------------------
(* Without the race there is one mutant at most: the first call of lock()  *)
(* makes it while nobody else does, and everybody waits on it.             *)
OneMutant ==
  /\ \A t, u \in Threads :
       at[t] \in {"create", "store"} /\ at[u] \in {"create", "store"} => t = u
  /\ \A t \in Threads :
       /\ at[t] = "create" => data = npos /\ open = {}
       /\ at[t] = "store" => data = npos /\ open = {h[t]}
       /\ at[t] \in {"blocked", "count"} => h[t] = data
  /\ alive /\ data # npos => open = {data}
  /\ data = npos /\ ~Initializing => open = {}
  /\ ~alive => open = {}

(* The kernel's owner of that mutant is the holder, and the object's count *)
(* is what the holder has locked and not unlocked.                         *)
OwnerHolds ==
  /\ \A k \in Handles : k # data => owner[k] = None
  /\ data # npos /\ owner[data] # None => Holds(owner[data])
  /\ \A t \in Threads : Holds(t) => owner[data] = t

(* The flag is set by somebody who is waiting or holds.                    *)
FlagHasCause ==
  alive /\ locked =>
    \E t \in Threads : at[t] \in {"enter", "blocked", "count"} \/ depth[t] > 0

SafeInv == UseInv /\ OneMutant /\ OwnerHolds /\ CountAgrees /\ FlagHasCause

(* One holder follows from one owner.                                      *)
LEMMA OwnerExcludes == OwnerHolds => Exclusion
  BY DEF OwnerHolds, Exclusion

(* Within the bound on nesting the count does not wrap.                    *)
LEMMA NoWrap ==
  /\ \A n \in 0 .. MaxDepth - 1 : (n + 1) % Word = n + 1
  /\ \A n \in 1 .. MaxDepth : (n - 1) % Word = n - 1
  BY OSMtxAssumption

(* The start satisfies the strengthened invariant.                         *)
LEMMA SafeInit == Init => SafeInv
<1> SUFFICES ASSUME Init PROVE SafeInv
  OBVIOUS
<1>1. UseInv
  BY UseInit
<1>2. OneMutant /\ OwnerHolds /\ CountAgrees /\ FlagHasCause
  BY OSMtxAssumption, HandleFacts
  DEF Init, OneMutant, OwnerHolds, CountAgrees, FlagHasCause, Holds, Initializing
<1>3. QED
  BY <1>1, <1>2 DEF SafeInv

(* A release is by the owner, and leaves the mutant free after the last.   *)
LEMMA ReleaseFacts ==
  ASSUME SafeInv, NEW t \in Threads, Release(t)
  PROVE  /\ Go(t, "release", "away")
         /\ alive /\ data \in Handles /\ owner[data] = t
         /\ taken' = [taken EXCEPT ![data] = depth[t]]
         /\ owner' = [owner EXCEPT ![data] = IF depth[t] = 0 THEN None ELSE t]
         /\ UNCHANGED <<data, lock_count, locked, open, h, depth, alive>>
<1>1. alive /\ data \in Handles /\ at[t] = "release"
  BY DEF SafeInv, UseInv, TypeOK, HandlesInUse, Release, Go
<1>2. owner[data] = t /\ taken[data] = depth[t] + 1
  BY <1>1 DEF SafeInv, OwnerHolds, CountAgrees, Holds
<1>3. taken \in [Handles -> Nat] /\ depth[t] \in Nat
  BY DEF SafeInv, UseInv, TypeOK
<1>4. taken' = [taken EXCEPT ![data] = depth[t]]
  BY <1>1, <1>2, <1>3 DEF Release
<1>5. owner' = [owner EXCEPT ![data] = IF depth[t] = 0 THEN None ELSE t]
  BY <1>1, <1>2, <1>3, <1>4 DEF Release
<1>6. QED
  BY <1>1, <1>2, <1>4, <1>5 DEF Release, object

(* Each part of the invariant is kept by every step, given the whole.      *)
LEMMA SafeStep ==
  ASSUME ~Race, SafeInv, [Next]_vars
  PROVE  SafeInv'
<1> USE DEF SafeInv
<1>1. UseInv'
  BY UseStep
<1>2. OneMutant'
  <2> USE OSMtxAssumption, HandleFacts
      DEF UseInv, TypeOK, Locations, HandlesInUse, Go, object, kernel, OneMutant, Initializing
  <2>1. ASSUME NEW t \in Threads, Lock(t) PROVE OneMutant'
    BY <2>1 DEF Lock
  <2>2. ASSUME NEW t \in Threads, Create(t) PROVE OneMutant'
    BY <2>2 DEF Create
  <2>3. ASSUME NEW t \in Threads, Store(t) PROVE OneMutant'
    BY <2>3 DEF Store
  <2>4. ASSUME NEW t \in Threads, Mark(t) PROVE OneMutant'
    BY <2>4 DEF Mark
  <2>5. ASSUME NEW t \in Threads, Enter(t) PROVE OneMutant'
    BY <2>5 DEF Enter
  <2>6. ASSUME NEW t \in Threads, Acquire(t) PROVE OneMutant'
    BY <2>6 DEF Acquire
  <2>7. ASSUME NEW t \in Threads, Count(t) PROVE OneMutant'
    BY <2>7, CountFacts
  <2>8. ASSUME NEW t \in Threads, Unlock(t) PROVE OneMutant'
    BY <2>8, UnlockFacts
  <2>9. ASSUME NEW t \in Threads, Release(t) PROVE OneMutant'
    BY <2>9 DEF Release
  <2>10. ASSUME NEW t \in Threads, Destroy(t) PROVE OneMutant'
    BY <2>10 DEF Destroy, Unused
  <2>11. CASE UNCHANGED vars
    BY <2>11 DEF vars
  <2>12. QED
    BY <2>1, <2>2, <2>3, <2>4, <2>5, <2>6, <2>7, <2>8, <2>9, <2>10, <2>11
    DEF Next, Stepping
<1>3. OwnerHolds'
  <2> USE OSMtxAssumption, HandleFacts
      DEF UseInv, TypeOK, Locations, HandlesInUse, Go, object, kernel, OneMutant, Initializing, OwnerHolds, Holds, Counted
  <2>1. ASSUME NEW t \in Threads, Lock(t) PROVE OwnerHolds'
    BY <2>1 DEF Lock
  <2>2. ASSUME NEW t \in Threads, Create(t) PROVE OwnerHolds'
    BY <2>2 DEF Create
  <2>3. ASSUME NEW t \in Threads, Store(t) PROVE OwnerHolds'
    BY <2>3 DEF Store
  <2>4. ASSUME NEW t \in Threads, Mark(t) PROVE OwnerHolds'
    BY <2>4 DEF Mark
  <2>5. ASSUME NEW t \in Threads, Enter(t) PROVE OwnerHolds'
    BY <2>5 DEF Enter
  <2>6. ASSUME NEW t \in Threads, Acquire(t) PROVE OwnerHolds'
    BY <2>6 DEF Acquire
  <2>7. ASSUME NEW t \in Threads, Count(t) PROVE OwnerHolds'
    BY <2>7, CountFacts
  <2>8. ASSUME NEW t \in Threads, Unlock(t) PROVE OwnerHolds'
    BY <2>8, UnlockFacts
  <2>9. ASSUME NEW t \in Threads, Release(t) PROVE OwnerHolds'
    BY <2>9, ReleaseFacts
  <2>10. ASSUME NEW t \in Threads, Destroy(t) PROVE OwnerHolds'
    BY <2>10 DEF Destroy, Unused
  <2>11. CASE UNCHANGED vars
    BY <2>11 DEF vars
  <2>12. QED
    BY <2>1, <2>2, <2>3, <2>4, <2>5, <2>6, <2>7, <2>8, <2>9, <2>10, <2>11
    DEF Next, Stepping
<1>4. CountAgrees'
  <2> USE OSMtxAssumption, HandleFacts
      DEF UseInv, TypeOK, Locations, HandlesInUse, Go, object, kernel, OneMutant, OwnerHolds, Holds, Counted, CountAgrees
  <2>1. ASSUME NEW t \in Threads, Lock(t) PROVE CountAgrees'
    BY <2>1 DEF Lock
  <2>2. ASSUME NEW t \in Threads, Create(t) PROVE CountAgrees'
    BY <2>2 DEF Create
  <2>3. ASSUME NEW t \in Threads, Store(t) PROVE CountAgrees'
    BY <2>3 DEF Store
  <2>4. ASSUME NEW t \in Threads, Mark(t) PROVE CountAgrees'
    BY <2>4 DEF Mark
  <2>5. ASSUME NEW t \in Threads, Enter(t) PROVE CountAgrees'
    BY <2>5 DEF Enter
  <2>6. ASSUME NEW t \in Threads, Acquire(t) PROVE CountAgrees'
    BY <2>6 DEF Acquire
  <2>7. ASSUME NEW t \in Threads, Count(t) PROVE CountAgrees'
    BY <2>7, NoWrap DEF Count
  <2>8. ASSUME NEW t \in Threads, Unlock(t) PROVE CountAgrees'
    BY <2>8, NoWrap DEF Unlock
  <2>9. ASSUME NEW t \in Threads, Release(t) PROVE CountAgrees'
    <3>1. /\ lock_count' = depth'[t] /\ taken'[data'] = depth'[t]
          /\ at'[t] = "away" /\ depth'[t] \in Nat
      BY <2>9, ReleaseFacts
    <3>2. \A u \in Threads : u # t => at'[u] = at[u] /\ depth'[u] = depth[u] /\ ~Holds(u)
      BY <2>9, ReleaseFacts
    <3>3. QED
      BY <3>1, <3>2
  <2>10. ASSUME NEW t \in Threads, Destroy(t) PROVE CountAgrees'
    BY <2>10 DEF Destroy, Unused
  <2>11. CASE UNCHANGED vars
    BY <2>11 DEF vars
  <2>12. QED
    BY <2>1, <2>2, <2>3, <2>4, <2>5, <2>6, <2>7, <2>8, <2>9, <2>10, <2>11
    DEF Next, Stepping
<1>5. FlagHasCause'
  <2> USE OSMtxAssumption, HandleFacts
      DEF UseInv, TypeOK, Locations, HandlesInUse, Go, object, kernel, OneMutant, OwnerHolds, Holds, CountAgrees, FlagHasCause
  <2>1. ASSUME NEW t \in Threads, Lock(t) PROVE FlagHasCause'
    BY <2>1 DEF Lock
  <2>2. ASSUME NEW t \in Threads, Create(t) PROVE FlagHasCause'
    BY <2>2 DEF Create
  <2>3. ASSUME NEW t \in Threads, Store(t) PROVE FlagHasCause'
    BY <2>3 DEF Store
  <2>4. ASSUME NEW t \in Threads, Mark(t) PROVE FlagHasCause'
    BY <2>4 DEF Mark
  <2>5. ASSUME NEW t \in Threads, Enter(t) PROVE FlagHasCause'
    BY <2>5 DEF Enter
  <2>6. ASSUME NEW t \in Threads, Acquire(t) PROVE FlagHasCause'
    BY <2>6 DEF Acquire
  <2>7. ASSUME NEW t \in Threads, Count(t) PROVE FlagHasCause'
    <3>1. depth'[t] > 0
      BY <2>7, CountFacts
    <3>2. QED
      BY <3>1
  <2>8. ASSUME NEW t \in Threads, Unlock(t) PROVE FlagHasCause'
    <3>1. CASE depth[t] = 1
      <4>1. lock_count = 1
        BY <2>8, <3>1, UnlockFacts
      <4>2. locked' = FALSE
        BY <2>8, <4>1, NoWrap DEF Unlock
      <4>3. QED
        BY <4>2
    <3>2. CASE depth[t] > 1
      <4>1. depth'[t] > 0
        BY <2>8, <3>2, UnlockFacts
      <4>2. QED
        BY <4>1
    <3>3. depth[t] \in Nat /\ depth[t] > 0
      BY <2>8, UnlockFacts
    <3>4. depth[t] = 1 \/ depth[t] > 1
      BY <3>3
    <3>5. QED
      BY <3>1, <3>2, <3>4
  <2>9. ASSUME NEW t \in Threads, Release(t) PROVE FlagHasCause'
    <3> SUFFICES ASSUME alive', locked'
                 PROVE  \E u \in Threads : at'[u] \in {"enter", "blocked", "count"} \/ depth'[u] > 0
      OBVIOUS
    <3>1. alive /\ locked /\ depth' = depth
      BY <2>9, ReleaseFacts
    <3>2. PICK u \in Threads : at[u] \in {"enter", "blocked", "count"} \/ depth[u] > 0
      BY <3>1
    <3>3. at'[u] = at[u] \/ u = t
      <4>1. at' = [at EXCEPT ![t] = "away"]
        BY <2>9, ReleaseFacts
      <4>2. QED
        BY <4>1
    <3>4. u = t => depth[u] > 0
      BY <2>9, <3>2, ReleaseFacts
    <3>5. QED
      BY <3>1, <3>2, <3>3, <3>4
  <2>10. ASSUME NEW t \in Threads, Destroy(t) PROVE FlagHasCause'
    BY <2>10 DEF Destroy, Unused
  <2>11. CASE UNCHANGED vars
    BY <2>11 DEF vars
  <2>12. QED
    BY <2>1, <2>2, <2>3, <2>4, <2>5, <2>6, <2>7, <2>8, <2>9, <2>10, <2>11
    DEF Next, Stepping
<1>6. QED
  BY <1>1, <1>2, <1>3, <1>4, <1>5

(* The strengthened invariant holds of every reachable state.              *)
LEMMA SafeAlways == ASSUME ~Race PROVE Spec => []SafeInv
  BY SafeInit, SafeStep, PTL DEF Spec

(* One holder, and a count that agrees with the kernel's, where the first  *)
(* calls of lock() do not overlap.                                         *)
THEOREM OSMtxExcludes == ASSUME ~Race PROVE Spec => []Inv
<1>1. SafeInv => Inv
  BY OwnerExcludes DEF SafeInv, UseInv, Inv
<1>2. QED
  BY <1>1, SafeAlways, PTL

(* The flag cannot stay set when nobody waits or holds.                    *)
THEOREM OSMtxFlagSettles == ASSUME ~Race PROVE Spec => []FlagSettles
<1>1. SafeInv => FlagSettles
  BY DEF SafeInv, UseInv, TypeOK, FlagHasCause, FlagSettles, Unused
<1>2. QED
  BY <1>1, SafeAlways, PTL

(* The destructor closes the one handle there is.                          *)
THEOREM OSMtxNoHandleLeft == ASSUME ~Race PROVE Spec => []NoHandleLeft
<1>1. SafeInv => NoHandleLeft
  BY DEF SafeInv, OneMutant, NoHandleLeft
<1>2. QED
  BY <1>1, SafeAlways, PTL

-----------------------------------------------------------------------------
(* Every step is a step of the abstract lock, or inside the wait or a      *)
(* nested call and none of it.                                             *)
LEMMA OSMtxStepRefines ==
  ASSUME SafeInv, SafeInv', [Next]_vars
  PROVE  [Abstract!Next]_(Abstract!vars)
<1> DEFINE Phase(t) == IF Holds(t) THEN "holding"
                       ELSE IF at[t] = "away" THEN "away" ELSE "waiting"
           Phase2(t) == IF Holds(t)' THEN "holding"
                        ELSE IF at'[t] = "away" THEN "away" ELSE "waiting"
           phase  == [t \in Threads |-> Phase(t)]
           phase2 == [t \in Threads |-> Phase2(t)]
<1> USE DEF SafeInv, UseInv, TypeOK, Holds, Go, object, kernel
<1>1. ASSUME NEW t \in Threads, Lock(t) PROVE Abstract!Ask(t) \/ UNCHANGED Abstract!vars
  <2>1. CASE depth[t] = 0
    <3>1. Phase(t) = "away" /\ Phase2(t) = "waiting"
      BY <1>1, <2>1 DEF Lock
    <3>2. \A u \in Threads : u # t => Phase2(u) = Phase(u)
      BY <1>1 DEF Lock
    <3>3. phase2 = [phase EXCEPT ![t] = "waiting"]
      BY <3>1, <3>2
    <3>4. QED
      BY <3>1, <3>3 DEF Abstract!Ask
  <2>2. CASE depth[t] > 0
    <3>1. \A u \in Threads : Phase2(u) = Phase(u)
      BY <1>1, <2>2 DEF Lock
    <3>2. QED
      BY <3>1 DEF Abstract!vars
  <2>3. QED
    BY <2>1, <2>2
<1>2. ASSUME NEW t \in Threads, Create(t) \/ Store(t) \/ Mark(t) \/ Enter(t)
      PROVE  UNCHANGED Abstract!vars
  <2>1. \A u \in Threads : Phase2(u) = Phase(u)
    BY <1>2 DEF Create, Store, Mark, Enter
  <2>2. QED
    BY <2>1 DEF Abstract!vars
<1>3. ASSUME NEW t \in Threads, Acquire(t) PROVE Abstract!Take(t) \/ UNCHANGED Abstract!vars
  <2>1. \A u \in Threads : u # t => Phase2(u) = Phase(u)
    BY <1>3 DEF Acquire
  <2>2. Phase2(t) = "holding"
    BY <1>3 DEF Acquire
  <2>3. CASE depth[t] > 0
    <3>1. \A u \in Threads : Phase2(u) = Phase(u)
      BY <2>1, <2>2, <2>3
    <3>2. QED
      BY <3>1 DEF Abstract!vars
  <2>4. CASE depth[t] = 0
    <3>1. Phase(t) = "waiting"
      BY <1>3, <2>4 DEF Acquire
    <3>2. \A u \in Threads : ~Holds(u)
      BY <1>3, <2>4, OSMtxAssumption DEF Acquire, OwnerHolds, OneMutant
    <3>3. \A u \in Threads : phase[u] # "holding"
      BY <3>2
    <3>4. phase2 = [phase EXCEPT ![t] = "holding"]
      BY <2>1, <2>2
    <3>5. QED
      BY <3>1, <3>3, <3>4 DEF Abstract!Take
  <2>5. QED
    BY <2>3, <2>4
<1>4. ASSUME NEW t \in Threads, Count(t) \/ Unlock(t) PROVE UNCHANGED Abstract!vars
  <2>1. \A u \in Threads : Phase2(u) = Phase(u)
    <3>1. CASE Count(t)
      BY <3>1, CountFacts
    <3>2. CASE Unlock(t)
      BY <3>2, UnlockFacts
    <3>3. QED
      BY <1>4, <3>1, <3>2
  <2>2. QED
    BY <2>1 DEF Abstract!vars
<1>5. ASSUME NEW t \in Threads, Release(t)
      PROVE  Abstract!Release(t) \/ UNCHANGED Abstract!vars
  <2>1. \A u \in Threads : u # t => Phase2(u) = Phase(u)
    BY <1>5 DEF Release
  <2>2. Phase(t) = "holding"
    BY <1>5 DEF Release
  <2>3. CASE depth[t] = 0
    <3>1. Phase2(t) = "away"
      BY <1>5, <2>3 DEF Release
    <3>2. phase2 = [phase EXCEPT ![t] = "away"]
      BY <2>1, <3>1
    <3>3. QED
      BY <2>2, <3>2 DEF Abstract!Release
  <2>4. CASE depth[t] > 0
    <3>1. Phase2(t) = "holding"
      BY <1>5, <2>4 DEF Release
    <3>2. \A u \in Threads : Phase2(u) = Phase(u)
      BY <2>1, <2>2, <3>1
    <3>3. QED
      BY <3>2 DEF Abstract!vars
  <2>5. QED
    BY <2>3, <2>4
<1>6. ASSUME NEW t \in Threads, Destroy(t) PROVE UNCHANGED Abstract!vars
  BY <1>6 DEF Destroy, Abstract!vars
<1>7. CASE UNCHANGED vars
  BY <1>7 DEF vars, Abstract!vars
<1>8. QED
  BY <1>1, <1>2, <1>3, <1>4, <1>5, <1>6, <1>7 DEF Next, Stepping, Abstract!Next

(* The recursive lock implements the abstract one, where the first calls   *)
(* of lock() do not overlap.                                               *)
THEOREM OSMtxImplementsMutex == ASSUME ~Race PROVE Spec => ImplementsMutex
<1>1. Init => Abstract!Init
  BY DEF Init, Holds, Abstract!Init
<1>2. QED
  BY <1>1, OSMtxStepRefines, SafeAlways, PTL DEF Spec, Abstract!Spec, ImplementsMutex
=============================================================================
