----------------------------- MODULE AtomicLazy -----------------------------
(***************************************************************************)
(* common::AtomicLazy<T> (include/Common/AtomicLazy.hpp): storage for one  *)
(* object, a flag __init that says it is constructed, and an AtomicMtx     *)
(* around construction and destruction.  ctor() and ctorDeferred() have    *)
(* the same control and are one operation here.  Threads call ctor() and,  *)
(* where the object is not kept for good, dtor(), any number of times.     *)
(*                                                                         *)
(* The flag is tested before the lock is taken and not again under it: a   *)
(* thread that waited runs the constructor again, over the object that is  *)
(* there and that others may already refer to.  Constructor and destructor *)
(* take time: each has a step where it starts and one where it has ended.  *)
(***************************************************************************)
CONSTANT Threads

VARIABLES
  kept,         \* the clients never call dtor(), like those of the parsed ntdll
  locked, at,   \* __mtx
  init,         \* __init
  builders,     \* threads whose constructor has run to its end in the storage
                \* since the last destruction: {} when it holds no object
  doing,        \* what each thread has left to do in its call
  refs          \* threads whose last call was a ctor() that has returned

mtx  == <<locked, at>>
vars == <<kept, locked, at, init, builders, doing, refs>>

Mtx == INSTANCE AtomicMtx

Tasks == {"none", "construct", "constructing", "publish",
          "destroy", "destroying", "unpublish", "unlock"}

Init ==
  /\ kept \in BOOLEAN
  /\ Mtx!Init
  /\ init = FALSE
  /\ builders = {}
  /\ doing = [t \in Threads |-> "none"]
  /\ refs = {}

Idle(t) == doing[t] = "none" /\ at[t] = "away"

(* ctor(), __init already set: the reference is handed out without a lock. *)
CtorFast(t) ==
  /\ Idle(t)
  /\ init
  /\ refs' = refs \cup {t}
  /\ UNCHANGED <<kept, mtx, init, builders, doing>>

(* Mutation: every ctor() goes for the lock and constructs.                *)
CtorSlowUnchecked(t) ==
  /\ Idle(t)
  /\ Mtx!Lock(t)
  /\ doing' = [doing EXCEPT ![t] = "construct"]
  /\ refs' = refs \ {t}
  /\ UNCHANGED <<kept, init, builders>>

(* ctor(), __init still clear: go for the lock.                            *)
CtorSlow(t) ==
  /\ Idle(t)
  /\ ~init
  /\ Mtx!Lock(t)
  /\ doing' = [doing EXCEPT ![t] = "construct"]
  /\ refs' = refs \ {t}
  /\ UNCHANGED <<kept, init, builders>>

(* dtor(): a clear flag means there is nothing to destroy.                 *)
Dtor(t) ==
  /\ ~kept
  /\ Idle(t)
  /\ init
  /\ Mtx!Lock(t)
  /\ doing' = [doing EXCEPT ![t] = "destroy"]
  /\ refs' = refs \ {t}
  /\ UNCHANGED <<kept, init, builders>>

(* The steps of __mtx.lock().                                              *)
Locking(t) ==
  /\ Mtx!Cas(t) \/ Mtx!CasFails(t) \/ Mtx!Poll(t)
  /\ UNCHANGED <<kept, init, builders, doing, refs>>

(* Mutation: the flag is set before the object is there.                   *)
BeginConstructPublishes(t) ==
  /\ doing[t] = "construct"
  /\ at[t] = "held"
  /\ init' = TRUE
  /\ doing' = [doing EXCEPT ![t] = "constructing"]
  /\ UNCHANGED <<kept, mtx, builders, refs>>

(* The lock is there: the constructor starts, whatever the storage holds.  *)
BeginConstruct(t) ==
  /\ doing[t] = "construct"
  /\ at[t] = "held"
  /\ doing' = [doing EXCEPT ![t] = "constructing"]
  /\ UNCHANGED <<kept, mtx, init, builders, refs>>

(* The constructor has run to its end.                                     *)
Construct(t) ==
  /\ doing[t] = "constructing"
  /\ builders' = builders \cup {t}
  /\ doing' = [doing EXCEPT ![t] = "publish"]
  /\ UNCHANGED <<kept, mtx, init, refs>>

(* Mutation: the lock is given back without the flag being set.            *)
PublishForgets(t) ==
  /\ doing[t] = "publish"
  /\ doing' = [doing EXCEPT ![t] = "unlock"]
  /\ UNCHANGED <<kept, mtx, init, builders, refs>>

Publish(t) ==
  /\ doing[t] = "publish"
  /\ init' = TRUE
  /\ doing' = [doing EXCEPT ![t] = "unlock"]
  /\ UNCHANGED <<kept, mtx, builders, refs>>

BeginDestroy(t) ==
  /\ doing[t] = "destroy"
  /\ at[t] = "held"
  /\ doing' = [doing EXCEPT ![t] = "destroying"]
  /\ UNCHANGED <<kept, mtx, init, builders, refs>>

(* The destructor has run to its end.                                      *)
Destroy(t) ==
  /\ doing[t] = "destroying"
  /\ builders' = {}
  /\ doing' = [doing EXCEPT ![t] = "unpublish"]
  /\ UNCHANGED <<kept, mtx, init, refs>>

(* Mutation: the destroyed object stays published.                         *)
UnpublishForgets(t) ==
  /\ doing[t] = "unpublish"
  /\ doing' = [doing EXCEPT ![t] = "unlock"]
  /\ UNCHANGED <<kept, mtx, init, builders, refs>>

Unpublish(t) ==
  /\ doing[t] = "unpublish"
  /\ init' = FALSE
  /\ doing' = [doing EXCEPT ![t] = "unlock"]
  /\ UNCHANGED <<kept, mtx, builders, refs>>

(* The call returns; a ctor() returns the reference it made.  The step     *)
(* after "publish" leaves init set, the one after "unpublish" leaves it    *)
(* clear, and the lock is still held, so init tells the two apart.         *)
Return(t) ==
  /\ doing[t] = "unlock"
  /\ Mtx!Unlock(t)
  /\ doing' = [doing EXCEPT ![t] = "none"]
  /\ refs' = IF init THEN refs \cup {t} ELSE refs
  /\ UNCHANGED <<kept, init, builders>>

Running(t) ==
  \/ Locking(t)
  \/ BeginConstruct(t) \/ Construct(t) \/ Publish(t)
  \/ BeginDestroy(t) \/ Destroy(t) \/ Unpublish(t)
  \/ Return(t)

Next == \E t \in Threads : CtorFast(t) \/ CtorSlow(t) \/ Dtor(t) \/ Running(t)

Spec == Init /\ [][Next]_vars

(* A thread inside a call keeps running, and constructor and destructor of *)
(* the object end; nobody is obliged to call.                              *)
FairSpec == Spec /\ \A t \in Threads : WF_vars(Running(t))

-----------------------------------------------------------------------------
(* The types of the variables.                                             *)
TypeOK ==
  /\ kept \in BOOLEAN
  /\ Mtx!TypeOK
  /\ init \in BOOLEAN
  /\ builders \subseteq Threads
  /\ doing \in [Threads -> Tasks]
  /\ refs \subseteq Threads

(* Tasks of a thread that has gone on from the acquisition of the lock.    *)
Inside == {"constructing", "publish", "destroying", "unpublish", "unlock"}

(* Whatever was tested before the lock, the flag and the storage change    *)
(* only under it: a thread past the lock's acquisition is alone there, and *)
(* whenever the lock is free the flag tells the truth about the storage.   *)
FlagTruthful ==
  /\ \A t, u \in Threads : doing[t] \in Inside /\ doing[u] \in Inside => t = u
  /\ ~locked => (init <=> builders # {})

(* The types, the exclusion of the lock and the truthfulness of the flag.  *)
Inv == TypeOK /\ Mtx!Exclusion /\ FlagTruthful

(* The lock inside implements the abstract lock: no thread gets past it    *)
(* while another is constructing or destroying.                            *)
ImplementsMutex == Mtx!ImplementsMutex

(* Whenever some thread is inside lock(), some thread gets the lock.       *)
SomeoneGetsIn == Mtx!SomeoneGetsIn

(* Where nobody calls dtor(), a reference that ctor() has returned, on the *)
(* fast path or the slow one, refers to storage in which a constructor has *)
(* run to its end, never to storage nobody has built in.  It need not be   *)
(* whole at the moment: a thread of the first race may be constructing     *)
(* over it, but then one that has no part in the object so far, so that a  *)
(* thread that holds a reference is disturbed by the other threads alone.  *)
RefsAreBuilt ==
  kept /\ refs # {} =>
    /\ builders # {}
    /\ \A t \in Threads : doing[t] = "constructing" => t \notin builders \cup refs

(* Where nobody calls dtor(), the constructions over the object come to an *)
(* end: some time after the first reference was returned it is whole, and  *)
(* stays so.  (The flag is set by then, so nobody joins the race.)         *)
RefsSettle ==
  kept /\ refs # {} ~> [](\A t \in Threads : doing[t] # "constructing")

(* Threads can construct over each other's object (the flag is not read    *)
(* again under the lock), but where nobody destroys, a thread constructs   *)
(* at most once: the double construction is bounded by the threads that    *)
(* were in the race.                                                       *)
OncePerThread ==
  [][\A t \in Threads :
       kept /\ doing[t] = "construct" /\ doing'[t] = "constructing"
         => t \notin builders]_vars

(* The storage is constructed only while it is empty: what "atomic         *)
(* initialization checks" promise.  The code does not keep it.             *)
ConstructsWhenEmpty ==
  [][\A t \in Threads :
       doing[t] = "construct" /\ doing'[t] = "constructing" => builders = {}]_vars

(* Where nobody calls dtor() every ctor() returns, although the lock is    *)
(* not fair: once the flag is set no new thread competes for it.           *)
CtorReturns ==
  \A t \in Threads : kept /\ doing[t] = "construct" ~> doing[t] = "none"
=============================================================================
