------------------------------ MODULE Skiplist ------------------------------
(***************************************************************************)
(* parcel::Skiplist<T, N> (include/Parcel/Skiplist.hpp) over a BitList     *)
(* (include/Parcel/BitList.hpp): N slots for objects, and one bit per slot *)
(* in words of Bits bits that says whether its object is constructed.  An  *)
(* object is owned by the SkiplistHandle that insert() returned, or by the *)
(* client that called insertRaw() and must call eraseRaw().  The runtime's *)
(* table of open files is such a list.  It is used by one thread.          *)
(*                                                                         *)
(* The words hold more bits than there are slots (one word more than N     *)
(* fills), and insertRaw() looks only at the words.                        *)
(***************************************************************************)
EXTENDS Integers, FiniteSets

CONSTANTS
  N,            \* slots
  Bits,         \* bits in a word of the BitList
  Handles,      \* SkiplistHandle objects of the clients
  Null,         \* a null pointer
  Careful       \* clients insert only while countActive() < N

ASSUME SkiplistAssumption ==
  /\ N \in Nat \ {0} /\ Bits \in Nat \ {0}
  /\ Null \notin Int
  /\ Careful \in BOOLEAN

(* BitList::__count words, of which the last is never needed in full.      *)
Words  == 0 .. N \div Bits
Indexes == 0 .. Bits * (N \div Bits + 1) - 1

VARIABLES
  bits,     \* __bits: the indexes whose bit is set
  live,     \* the slots that hold a constructed object; an index from N on
            \* is memory behind the array
  handle,   \* the pointer of each handle that exists
  raw,      \* slots owned through a raw pointer
  alive     \* ~Skiplist() has not run

vars == <<bits, live, handle, raw, alive>>

Init ==
  /\ bits = {} /\ live = {} /\ raw = {}
  /\ handle = [x \in {} |-> Null]
  /\ alive = TRUE

-----------------------------------------------------------------------------
(* The word with index i, as the set of its bits that are 1.               *)
Word(i) == {b \in 0 .. Bits - 1 : i * Bits + b \in bits}
Full    == 0 .. Bits - 1

(* Mutation: the first set bit instead of the first clear one.             *)
FindSetSlot(S) ==
  IF S # {} THEN CHOOSE b \in S : \A c \in S : b <= c ELSE 0

(* ffsll(~S) - 1.                                                          *)
FindEmptySlot(S) ==
  IF S # {} THEN CHOOSE b \in Full \ S : \A c \in Full \ S : b <= c ELSE 0

countActive   == Cardinality(bits)

(* Mutation: any word that is not full will do.                            *)
InsertAnywhere(V) ==
  \E i \in Words :
    /\ Word(i) # Full
    /\ V = i * Bits + FindEmptySlot(Word(i))
    /\ live' = live \cup {V}
    /\ bits' = bits \cup {V}

(* insertRaw(): the first word that is not full has the slot.              *)
InsertRaw(V) ==
  \E i \in Words :
    /\ Word(i) # Full
    /\ \A j \in Words : j < i => Word(j) = Full
    /\ V = i * Bits + FindEmptySlot(Word(i))
    /\ live' = live \cup {V}
    /\ bits' = bits \cup {V}

(* eraseRaw(): a null pointer or a clear bit is refused.                   *)
EraseRaw(P) ==
  IF P # Null /\ P \in bits
  THEN /\ bits' = bits \ {P}
       /\ live' = live \ {P}
  ELSE UNCHANGED <<bits, live>>

-----------------------------------------------------------------------------
(* Clients.                                                                *)
MayInsert == alive /\ (Careful => countActive < N)

Insert(x) ==
  /\ MayInsert
  /\ x \notin DOMAIN handle
  /\ \E V \in Indexes :
       /\ InsertRaw(V)
       /\ handle' = [y \in DOMAIN handle \cup {x} |-> IF y = x THEN V ELSE handle[y]]
  /\ UNCHANGED <<raw, alive>>

InsertPtr ==
  /\ MayInsert
  /\ \E V \in Indexes : InsertRaw(V) /\ raw' = raw \cup {V}
  /\ UNCHANGED <<handle, alive>>

ErasePtr ==
  /\ alive
  /\ \E P \in raw : EraseRaw(P) /\ raw' = raw \ {P}
  /\ UNCHANGED <<handle, alive>>

(* Mutation: moving leaves the pointer in both handles.                    *)
MoveCopies(x, y) ==
  /\ x \in DOMAIN handle /\ y \notin DOMAIN handle
  /\ handle' = [z \in DOMAIN handle \cup {y} |->
                  IF z = y THEN handle[x] ELSE handle[z]]
  /\ UNCHANGED <<bits, live, raw, alive>>

(* A handle is constructed by moving from another, which is left null.     *)
Move(x, y) ==
  /\ x \in DOMAIN handle /\ y \notin DOMAIN handle
  /\ handle' = [z \in DOMAIN handle \cup {y} |->
                  IF z = x THEN Null ELSE IF z = y THEN handle[x] ELSE handle[z]]
  /\ UNCHANGED <<bits, live, raw, alive>>

(* erase() by hand, and by the destructor of the handle.                   *)
Erase(x) ==
  /\ alive /\ x \in DOMAIN handle
  /\ EraseRaw(handle[x])
  /\ handle' = [handle EXCEPT ![x] = Null]
  /\ UNCHANGED <<raw, alive>>

Drop(x) ==
  /\ alive /\ x \in DOMAIN handle
  /\ EraseRaw(handle[x])
  /\ handle' = [y \in DOMAIN handle \ {x} |-> handle[y]]
  /\ UNCHANGED <<raw, alive>>

(* Mutation: the loop over the slots starts one late.                      *)
DestroySkipsFirst ==
  /\ alive
  /\ DOMAIN handle = {}
  /\ alive' = FALSE
  /\ live' = live \ {I \in 1 .. N - 1 : I \in bits}
  /\ raw' = {}
  /\ UNCHANGED <<bits, handle>>

(* ~Skiplist(), once no handle refers to the list: what raw pointers still *)
(* own is destroyed.  The bits are left as they are.                       *)
Destroy ==
  /\ alive
  /\ DOMAIN handle = {}
  /\ alive' = FALSE
  /\ live' = live \ {I \in 0 .. N - 1 : I \in bits}
  /\ raw' = {}
  /\ UNCHANGED <<bits, handle>>

Next ==
  \/ \E x \in Handles : Insert(x) \/ Erase(x) \/ Drop(x)
  \/ \E x, y \in Handles : Move(x, y)
  \/ InsertPtr
  \/ ErasePtr
  \/ Destroy

Spec == Init /\ [][Next]_vars

-----------------------------------------------------------------------------
(* The types of the variables.                                             *)
TypeOK ==
  /\ bits \subseteq Indexes /\ live \subseteq Indexes /\ raw \subseteq Indexes
  /\ DOMAIN handle \subseteq Handles
  /\ \A x \in DOMAIN handle : handle[x] \in Indexes \cup {Null}
  /\ alive \in BOOLEAN

(* The pointers that handles and raw clients hold.                         *)
Held == {x \in DOMAIN handle : handle[x] # Null}

(* Ownership: an object exists in exactly the slots somebody owns, each    *)
(* through one handle or one raw pointer, and the bits say so.  So no      *)
(* handle dangles, none is erased twice, and nothing leaks, moves and      *)
(* destructors included.                                                   *)
OwnedOnce ==
  /\ alive => live = raw \cup {handle[x] : x \in Held} /\ bits = live
  /\ \A x, y \in Held : handle[x] = handle[y] => x = y
  /\ \A x \in Held : handle[x] \notin raw

(* The types and the ownership.                                            *)
Inv == TypeOK /\ OwnedOnce

(* The scan by words finds the lowest slot without an object.              *)
LowestFreeSlot ==
  [][\A V \in Indexes : live' = live \cup {V} /\ live' # live =>
       \A I \in Indexes : I < V => I \in live]_vars

(* An insertion never constructs over an object that exists.               *)
NoOverwrite ==
  [][(\E x \in Handles : Insert(x)) \/ InsertPtr => live' # live]_vars

(* Clients that look at countActive() before they insert stay inside the   *)
(* array.  The list itself does not check: "I < Size()" is an invariant of *)
(* BitList::operator[] that an insertion into a full list breaks.          *)
InArray == bits \subseteq 0 .. N - 1

(* The list leaves no object behind when it is destroyed.                  *)
AllDestroyed == ~alive => live = {}
=============================================================================
