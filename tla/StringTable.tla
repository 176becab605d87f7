---------------------------- MODULE StringTable ----------------------------
(***************************************************************************)
(* parcel::IStringTable (include/Parcel/StringTable.hpp and                *)
(* src/Parcel/StringTable.cpp, sorted by _StrTblSortSlow.hpp) over the two *)
(* IStaticVecs it is given: buf, where the characters of every string are  *)
(* appended, and tbl, whose entries say where in buf a string is.  It is   *)
(* used by one thread.                                                     *)
(*                                                                         *)
(* A string is a sequence of characters, numbers from 1 on; 0 is the null  *)
(* terminator.  Positions count from 0, as in the code; the entry at i is  *)
(* tbl[i + 1].  The invariants the code asserts are no-ops in a release    *)
(* build and constrain nothing here.                                       *)
(*                                                                         *)
(* Bounds: BufCap, TblCap and the strings of the clients.                  *)
(***************************************************************************)
EXTENDS Integers, Sequences, SequencesExt, FiniteSets

CONSTANTS
  Strings,      \* the strings clients insert, none empty
  BufCap,       \* capacity of buf, in characters
  TblCap,       \* capacity of tbl, in entries
  SlideLen      \* entries moved at a time by binaryInsert(): 8

ASSUME StringTableAssumption ==
  /\ Strings \subseteq Seq(Nat \ {0}) \ {<<>>}
  /\ BufCap \in Nat /\ TblCap \in Nat /\ SlideLen \in Nat \ {0}

VARIABLES
  buf,          \* the characters, from the first to the last in use
  tbl,          \* the entries: [off, len]
  flags,        \* DataFlags; imp_empty is always set
  given,        \* the strings handed out by insert() and not popped since,
                \* each with the offset it was handed out at
  ret           \* what the last insert() returned

vars == <<buf, tbl, flags, given, ret>>

NoString == [off |-> -1, len |-> 0]     \* invalidString, of a null pointer
Empty    == [off |-> 0, len |-> 0]      \* GetEmptyString()
Answer(status, ref) == [status |-> status, ref |-> ref]

Init ==
  /\ buf = <<>> /\ tbl = <<>> /\ given = {}
  /\ flags = [null_term |-> FALSE, destructive |-> FALSE, dirty |-> FALSE,
              ksorted |-> FALSE, is_sorted |-> TRUE, has_empty |-> FALSE]
  /\ ret = Answer("none", NoString)

-----------------------------------------------------------------------------
Terminator == IF flags.null_term THEN <<0>> ELSE <<>>

(* isSorted<true>(): fewer than two entries are sorted.                    *)
isSorted == flags.is_sorted \/ Len(tbl) < 2

resolveDirect(e) == SubSeq(buf, e.off + 1, e.off + e.len)
At(i) == resolveDirect(tbl[i + 1])

(* strncmp(X, Y, n) < 0 for strings of length n.                           *)
LexBefore(X, Y) ==
  \E i \in DOMAIN X : X[i] < Y[i] /\ \A j \in 1 .. i - 1 : X[j] = Y[j]

Shortlex(X, Y) == Len(X) < Len(Y) \/ (Len(X) = Len(Y) /\ LexBefore(X, Y))

(* Mutation: the terminator is forgotten.                                  *)
StorageWithoutNull(S) == Len(tbl) < TblCap /\ BufCap - Len(buf) >= Len(S)

doesHaveStorageFor(S) ==
  /\ Len(tbl) < TblCap
  /\ BufCap - Len(buf) >= Len(S \o Terminator)

(* The entry of the next string to be appended.                            *)
NextEntry(S) == [off |-> Len(buf), len |-> Len(S)]

(* Mutation: the search gives up when one entry is left.                   *)
SearchOpen(S) ==
  LET find[range \in Int \X Int] ==
        LET l   == range[1]
            r   == range[2]
            mid == (l + r) \div 2
        IN  IF l >= r THEN NoString
            ELSE IF S = At(mid) THEN tbl[mid + 1]
            ELSE IF Shortlex(S, At(mid)) THEN find[<<l, mid - 1>>]
            ELSE find[<<mid + 1, r>>]
  IN find[<<0, Len(tbl) - 1>>]

(* A table of one entry is compared, which is what the loop does too.      *)
binarySearch(S) ==
  LET find[range \in Int \X Int] ==
        LET l   == range[1]
            r   == range[2]
            mid == (l + r) \div 2
        IN  IF l > r THEN NoString
            ELSE IF S = At(mid) THEN tbl[mid + 1]
            ELSE IF Shortlex(S, At(mid)) THEN find[<<l, mid - 1>>]
            ELSE find[<<mid + 1, r>>]
  IN find[<<0, Len(tbl) - 1>>]

locateString(S) ==
  IF ~isSorted \/ (S = <<>> /\ ~flags.has_empty) THEN NoString
  ELSE IF S = <<>> THEN Empty ELSE binarySearch(S)

(* The search of binaryInsert(), over a range that does not contain its    *)
(* upper end but is narrowed as if it did.  It ends at S or at a position  *)
(* to put it.                                                              *)
InsertPos(S) ==
  LET seek[range \in Int \X Int] ==
        LET l   == range[1]
            r   == range[2]
            mid == (l + r) \div 2
        IN  IF l >= r THEN l
            ELSE IF S = At(mid) THEN mid
            ELSE IF Shortlex(S, At(mid)) THEN seek[<<l, mid - 1>>]
            ELSE seek[<<mid + 1, r>>]
  IN seek[<<0, Len(tbl)>>]

(* Mutation: nothing is moved out of the way.                              *)
PutOver(e, p) == ReplaceAt(Append(tbl, Last(tbl)), p + 1, e)

(* Entry e is put at p and those behind it slide up, by blocks of          *)
(* SlideLen from the end.  Each further block starts one entry too low, so *)
(* one in SlideLen + 1 stays where it was.                                 *)
SlideIn(e, p) ==
  LET n == Len(tbl)
      Skipped(i) == (n - i + 1) % (SlideLen + 1) = 0
  IN [i \in 1 .. n + 1 |->
        IF i = p + 1 THEN e
        ELSE IF i <= p \/ Skipped(i - 1) THEN tbl[i] ELSE tbl[i - 1]]

(* When exactly SlideLen entries are left to move, the end of the range    *)
(* falls below its start.  The distance is compared as unsigned, so that   *)
(* the copying goes on below the table until memory ends and with it the   *)
(* process: nothing of the table is seen again.                            *)
RunsAway(p) == (Len(tbl) - p) % (SlideLen + 1) = SlideLen

Alive == ret.status # "fault"

-----------------------------------------------------------------------------
(* insert(S), once trailing nulls are dropped.                             *)
Store(S) ==
  /\ buf' = buf \o S \o Terminator
  /\ given' = given \cup {[off |-> Len(buf), str |-> S]}
  /\ ret' = Answer("success", NextEntry(S))

appendDirect(S) == Store(S) /\ tbl' = Append(tbl, NextEntry(S))

Found(e) ==
  /\ ret' = Answer("alreadyExists", e)
  /\ UNCHANGED <<buf, tbl, given, flags>>

emptyInsert ==
  /\ flags' = [flags EXCEPT !.has_empty = TRUE]
  /\ ret' = Answer("alreadyExists", Empty)
  /\ UNCHANGED <<buf, tbl, given>>

(* Mutation: neither looked up nor put in place.                           *)
InsertAtEnd(S) == appendDirect(S) /\ UNCHANGED flags

binaryInsert(S) ==
  LET p == InsertPos(S)
  IN IF tbl = <<>> \/ Shortlex(resolveDirect(Last(tbl)), S)
     THEN appendDirect(S) /\ UNCHANGED flags
     ELSE IF resolveDirect(Last(tbl)) = S
     THEN Found(Last(tbl))
     ELSE IF At(p) = S
     THEN Found(tbl[p + 1])
     ELSE IF RunsAway(p)
     THEN ret' = Answer("fault", NoString) /\ UNCHANGED <<buf, tbl, given, flags>>
     ELSE /\ Store(S)
          /\ tbl' = SlideIn(NextEntry(S), p)
          /\ UNCHANGED flags

insertFull(S) ==
  IF isSorted /\ binarySearch(S) # NoString
  THEN Found(binarySearch(S))
  ELSE /\ ret' = Answer("atCapacity", NoString)
       /\ UNCHANGED <<buf, tbl, given, flags>>

insertUnsorted(S) ==
  /\ appendDirect(S)
  /\ flags' = [flags EXCEPT !.is_sorted = FALSE]

Insert(S) ==
  /\ Alive
  /\ \/ S = <<>> /\ emptyInsert
     \/ S # <<>> /\ ~doesHaveStorageFor(S) /\ insertFull(S)
     \/ S # <<>> /\ doesHaveStorageFor(S) /\ ~flags.ksorted /\ insertUnsorted(S)
     \/ S # <<>> /\ doesHaveStorageFor(S) /\ flags.ksorted /\ binaryInsert(S)

-----------------------------------------------------------------------------
(* pop().  A refused pop() changes nothing and is no step.                 *)
Destructive == tbl # <<>> /\ flags.is_sorted /\ flags.destructive
Ungive(e) == given' = {g \in given : g.off # e.off}

(* The end of the string is compared with the number of entries.           *)
popDestructive ==
  LET e == Last(tbl)
      slen == Len(resolveDirect(e) \o Terminator) + e.off
  IN /\ Alive /\ Destructive
     /\ tbl' = Front(tbl)
     /\ flags' = [flags EXCEPT !.dirty = flags.dirty \/ slen # Len(tbl)]
     /\ Ungive(e)
     /\ UNCHANGED <<buf, ret>>

(* The buffer is to shrink by the string popped, but the __setSize() that  *)
(* resizeUninit() finds for a trivial T calls itself: an optimized build   *)
(* drops the endless call and the size stays (another one never returns).  *)
(* Without an entry to pop there is nothing to unwrap, and it is refused.  *)
popBack ==
  /\ Alive /\ ~Destructive
  /\ buf # <<>> /\ ~flags.is_sorted          \* isPoppable()
  /\ tbl # <<>>
  /\ tbl' = Front(tbl)
  /\ Ungive(Last(tbl))
  /\ UNCHANGED <<buf, flags, ret>>

-----------------------------------------------------------------------------
(* Sorting.  Insertion sort moves each entry down past those it precedes.  *)
Sink(A, e, Precedes) ==
  LET stop == CHOOSE j \in 0 .. Len(A) :
                /\ \A k \in j + 1 .. Len(A) : <<e, A[k]>> \in Precedes
                /\ j > 0 => <<e, A[j]>> \notin Precedes
  IN InsertAt(A, stop + 1, e)

InsertionSort(Precedes) ==
  LET done[k \in 0 .. Len(tbl)] ==
        IF k = 0 THEN <<>> ELSE Sink(done[k - 1], tbl[k], Precedes)
  IN done[Len(tbl)]

Pairs == ToSet(tbl) \X ToSet(tbl)

(* ISTableSorter::__comp: the second test of the lengths repeats the first *)
(* the other way round, so a longer string is compared, over its own       *)
(* length, with a shorter one and what follows that in buf; a byte behind  *)
(* the end of buf is whatever is there.                                    *)
comp(l, r, beyond) ==
  LET Byte(k) == IF k \in DOMAIN buf THEN buf[k] ELSE beyond
  IN \/ l.len < r.len
     \/ LexBefore(resolveDirect(l), [k \in 1 .. l.len |-> Byte(r.off + k)])

Sorted(beyond) == InsertionSort({p \in Pairs : comp(p[1], p[2], beyond)})

(* A byte that decides a comparison: null, or any other.                   *)
Bytes == {0} \cup UNION {{S[i] : i \in DOMAIN S} : S \in Strings}

shortlexSort(keep) ==
  /\ Alive
  /\ \E beyond \in Bytes : tbl' = Sorted(beyond)
  /\ flags' = [flags EXCEPT !.ksorted = keep, !.is_sorted = TRUE]
  /\ UNCHANGED <<buf, given, ret>>

(* Mutation: unsort() compares the wrong way round.                        *)
UnsortReversed ==
  /\ Alive
  /\ flags' = [flags EXCEPT !.ksorted = FALSE, !.is_sorted = FALSE]
  /\ tbl' = InsertionSort({p \in Pairs : p[1].off > p[2].off})
  /\ UNCHANGED <<buf, given, ret>>

unsort ==
  /\ Alive
  /\ flags' = [flags EXCEPT !.ksorted = FALSE, !.is_sorted = FALSE]
  /\ tbl' = IF isSorted
            THEN InsertionSort({p \in Pairs : p[1].off < p[2].off})
            ELSE tbl
  /\ UNCHANGED <<buf, given, ret>>

-----------------------------------------------------------------------------
(* Settings.  setImplicitEmptyValuePolicy() does nothing.                  *)
setNullTerminationPolicy(V) ==
  /\ Alive /\ buf = <<>>
  /\ flags' = [flags EXCEPT !.null_term = V]
  /\ UNCHANGED <<buf, tbl, given, ret>>

setDestructivePopPolicy(V) ==
  /\ Alive /\ ~flags.dirty
  /\ flags' = [flags EXCEPT !.destructive = V]
  /\ UNCHANGED <<buf, tbl, given, ret>>

setKSortPolicy(V) ==
  IF V /\ ~flags.ksorted /\ ~isSorted
  THEN shortlexSort(V)
  ELSE /\ Alive
       /\ flags' = [flags EXCEPT !.ksorted = V]
       /\ UNCHANGED <<buf, tbl, given, ret>>

(* clear() destroys the elements of both vectors, which does nothing to    *)
(* their sizes.                                                            *)
clear ==
  /\ Alive
  /\ flags' = [flags EXCEPT !.dirty = FALSE, !.is_sorted = TRUE,
                            !.has_empty = FALSE]
  /\ UNCHANGED <<buf, tbl, given, ret>>

Next ==
  \/ \E S \in Strings \cup {<<>>} : Insert(S)
  \/ popDestructive
  \/ popBack
  \/ \E V \in BOOLEAN :
       \/ shortlexSort(V)
       \/ setNullTerminationPolicy(V)
       \/ setDestructivePopPolicy(V)
       \/ setKSortPolicy(V)
  \/ unsort
  \/ clear

Spec == Init /\ [][Next]_vars

-----------------------------------------------------------------------------
Entries == [off : 0 .. BufCap, len : 1 .. BufCap]

(* The types of the variables, and the capacities.                         *)
TypeOK ==
  /\ buf \in Seq(Bytes) /\ Len(buf) <= BufCap
  /\ tbl \in Seq(Entries) /\ Len(tbl) <= TblCap
  /\ flags \in [{"null_term", "destructive", "dirty",
                 "ksorted", "is_sorted", "has_empty"} -> BOOLEAN]
  /\ given \subseteq [off : 0 .. BufCap, str : Strings]
  /\ ret \in [status : {"none", "success", "alreadyExists", "atCapacity", "fault"},
              ref : Entries \cup {NoString, Empty}]

(* The table holds exactly the strings inserted and not popped, each where *)
(* insert() said it is: nothing is lost, doubled or overwritten by sorted  *)
(* insertions, sorts, pops and settings in any order, and every reference  *)
(* a client was given keeps its characters.                                *)
ContentsKept ==
  /\ {[off |-> tbl[i].off, str |-> resolveDirect(tbl[i])] : i \in DOMAIN tbl} = given
  /\ Cardinality(given) = Len(tbl)

InOrder == \A i, j \in DOMAIN tbl :
  i < j => ~Shortlex(resolveDirect(tbl[j]), resolveDirect(tbl[i]))

Holds(S) == \E i \in DOMAIN tbl : resolveDirect(tbl[i]) = S

(* In a table that is in order the search finds a string exactly when the  *)
(* table holds it, at every size and position.  (The empty string is not   *)
(* in the table but in a flag.)                                            *)
SearchAgrees ==
  isSorted /\ InOrder =>
    \A S \in Strings : /\ locateString(S) # NoString <=> Holds(S)
                       /\ Holds(S) => resolveDirect(locateString(S)) = S

(* The answer of insert() tells what it did: after success the new string  *)
(* stands among the others, whose order is as before; alreadyExists is     *)
(* given with a reference to the string itself; atCapacity leaves all as   *)
(* it was.  A table that is kept sorted, and is, takes no string twice.    *)
InsertAnswers ==
  [][\A S \in Strings : Insert(S) =>
       CASE ret'.status = "success" ->
              /\ ~(flags.ksorted /\ isSorted /\ InOrder /\ Holds(S))
              /\ \E p \in 1 .. Len(tbl) + 1 : tbl' = InsertAt(tbl, p, ret'.ref)
              /\ ret'.ref.off >= Len(buf)
         [] ret'.status = "alreadyExists" ->
              tbl' = tbl /\ resolveDirect(ret'.ref) = S
         [] ret'.status = "atCapacity" ->
              tbl' = tbl /\ buf' = buf
         [] OTHER -> FALSE]_vars

(* unsort() of a table known to be sorted gives the insertion order back,  *)
(* whatever was popped, found or inserted in place since.                  *)
UnsortRestores ==
  [][unsort /\ isSorted =>
       \A i, j \in DOMAIN tbl' : i < j => tbl'[i].off < tbl'[j].off]_vars

(* "Strings are to be kept sorted" while ksorted is set.                   *)
KeptSorted == flags.ksorted => InOrder

=============================================================================
