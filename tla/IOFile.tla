------------------------------- MODULE IOFile -------------------------------
(***************************************************************************)
(* sys::IIOFile (src/Sys/IOFile.hpp, src/Sys/IOFile.cpp): one stdio file.  *)
(* A buffer is shared by both directions: pos is the read cursor after a   *)
(* read and the number of pending bytes after a write.  Every public       *)
(* operation runs under the file's lock (FileLock), so one operation with  *)
(* all its device calls is one action.                                     *)
(*                                                                         *)
(* Bytes are numbered: n > 0 is the n-th byte the client got accepted, -n  *)
(* the n-th byte the device delivered, 0 any other byte of the buffer, one *)
(* that was never set or that a write put there and did not report.  What  *)
(* the device receives is all that it is sent and takes, repetitions and   *)
(* leftovers of the buffer included.  read_fn and write_fn answer with a   *)
(* length of at most what was asked and with an error or none, in any      *)
(* combination.                                                            *)
(*                                                                         *)
(* This is the release build: __hc_invariant does nothing there.           *)
(***************************************************************************)
EXTENDS Integers, Sequences

CONSTANTS
  Files,        \* the files that may be constructed: of each
                \*   mode      IIOMode, a subset of {"r", "w", "a", "+"}
                \*   buf_mode  "None" or "Full" (line buffering is unimplemented)
                \*   array     size of the array behind the buffer, 0 for none
                \*   fails     whether its device may fall short or report errors
  Word,         \* number of values of usize
  MaxLen,       \* bound: bytes asked for in one call
  MaxBytes,     \* bound: bytes accepted or fetched
  MaxBoth,      \* bound: bytes accepted and fetched of a file for update
  MaxSent       \* bound: bytes the device takes, repeated ones included

FileType == [mode : SUBSET {"r", "w", "a", "+"}, buf_mode : {"None", "Full"},
             array : Nat, fails : BOOLEAN]

ASSUME IOFileAssumption ==
  /\ Files \subseteq FileType
  /\ MaxLen \in Nat /\ MaxBytes \in Nat /\ MaxBoth \in 0 .. MaxBytes
  /\ MaxSent \in Nat /\ Word \in Nat
  /\ \A f \in Files : Word > f.array + MaxLen + 1

VARIABLES
  file,             \* the file: Flags, buf_mode and device never change
  buf, size,        \* contents of the buffer and bufSize()
  pos, read_limit,  \* the cursors
  last_op, err, eof,
  isOpen,           \* close() has not got to close_fn
  accepted,         \* client bytes accepted: the sum of what writes returned
  received,         \* bytes the device took, in the order it took them
  lost,             \* accepted bytes that were dropped before they arrived
  fetched,          \* bytes the device delivered
  delivered,        \* bytes handed to readers
  skipped,          \* device bytes a flush discarded
  flushed           \* the last call was a flush() that returned eNone

cursors == <<pos, read_limit>>
device  == <<received, fetched>>
history == <<accepted, lost, delivered, skipped>>
vars    == <<file, buf, size, cursors, last_op, err, eof, isOpen, device, history, flushed>>

canRead  == file.mode \cap {"r", "a", "+"} # {}
canWrite == file.mode \cap {"w", "+"} # {}

(* adjustBuf(): a readable file without a buffer gets the ungetc byte.     *)
InitSize == IF canRead /\ file.array = 0 THEN 1 ELSE file.array

Init ==
  /\ file \in Files
  /\ size = InitSize
  /\ buf = [i \in 1 .. InitSize |-> 0]
  /\ pos = 0 /\ read_limit = 0
  /\ last_op = "None" /\ err = FALSE /\ eof = FALSE
  /\ isOpen = TRUE
  /\ accepted = 0 /\ received = << >> /\ lost = {}
  /\ fetched = 0 /\ delivered = << >> /\ skipped = {}
  /\ flushed = FALSE

-----------------------------------------------------------------------------
Lesser(a, b) == IF a < b THEN a ELSE b

Bound == IF canRead /\ canWrite THEN MaxBoth ELSE MaxBytes

(* The first n bytes of s, and all but the first n.                        *)
Front(s, n) == SubSeq(s, 1, n)
Rest(s, n)  == SubSeq(s, n + 1, Len(s))

(* The answers of a device that was asked to move n bytes.                 *)
Answers(n) == IF file.fails
              THEN [value : 0 .. n, isErr : BOOLEAN]
              ELSE {[value |-> n, isErr |-> FALSE]}

(* Mutation: the copy misses its last byte.                                *)
PutShort(b, p, s) ==
  [i \in DOMAIN b |-> IF i - p \in 1 .. Len(s) - 1 THEN s[i - p] ELSE b[i]]

(* The buffer's contents with s put at offset p.                           *)
Put(b, p, s) ==
  [i \in DOMAIN b |-> IF i - p \in 1 .. Len(s) THEN s[i - p] ELSE b[i]]

(* The bytes a reader has not seen, the bytes a writer has pending.        *)
Unread  == IF last_op = "Read" THEN SubSeq(buf, pos + 1, read_limit) ELSE << >>
Pending == IF last_op = "Write" THEN Front(buf, pos) ELSE << >>

(* The device takes the bytes s.                                           *)
Arrives(s) == Len(received) + Len(s) <= MaxSent /\ received' = received \o s

(* What is in the buffer of a failed write beyond the bytes it reported is *)
(* nobody's.                                                               *)
Disown(b, a) == [i \in DOMAIN b |-> IF b[i] > a THEN 0 ELSE b[i]]

(* The accepted bytes that are neither at the device nor pending are lost. *)
Ran(s) == {s[i] : i \in DOMAIN s}
Held   == Ran(received) \cup Ran(Pending)
Drops  == lost' = lost \cup ((1 .. accepted') \ Held')

(* Mutation: only an error counts, not a short answer.                     *)
FailedOnError(w, n) == w.isErr

(* The device did not do all of n bytes.                                   *)
Failed(w, n) == w.isErr \/ w.value < n

(* Mutation: a failed write reports nothing as written, although part of   *)
(* the new data may have gone out behind the old.                          *)
ClaimedNone(k, p) == 0

(* Of the k bytes the device took, those after the p that were pending.    *)
Claimed(k, p) == IF k <= p THEN 0 ELSE k - p

-----------------------------------------------------------------------------
(* What writeUnlockedNone() writes of the buffer.                          *)
write_size == pos

(* Mutation: the bytes pending are not written first.                      *)
WriteNoneBypass(data) ==
  /\ \E x \in Answers(Len(data)) :
       /\ err' = (err \/ x.value < Len(data))
       /\ Arrives(Front(data, x.value))
       /\ accepted' = accepted + x.value
  /\ UNCHANGED <<buf, pos>>

(* writeUnlockedNone(): what is pending first, then the data, unbuffered.  *)
(* pos is 0 whatever the device says, so the flushUnlocked() that follows  *)
(* in the unbuffered mode finds nothing to do.                             *)
WriteNone(data) ==
  /\ pos' = 0
  /\ \E w \in Answers(write_size) :
       IF w.value < write_size
       THEN /\ err' = TRUE
            /\ Arrives(Front(buf, w.value))
            /\ UNCHANGED accepted
       ELSE \E x \in Answers(Len(data)) :
            /\ err' = (err \/ x.value < Len(data))
            /\ Arrives(Front(buf, write_size) \o Front(data, x.value))
            /\ accepted' = accepted + x.value
  /\ UNCHANGED buf

(* writeUnlockedFull(): fill the buffer, flush it when it cannot hold all, *)
(* then buffer the remainder or, if it is too long, write it directly.     *)
WriteFull(data) ==
  LET space     == size - pos
      split     == Lesser(Len(data), space)
      filled    == Put(buf, pos, Front(data, split))
      remainder == Rest(data, split)
      full      == pos + split
  IN IF Len(data) > space + size THEN WriteNone(data)
     ELSE IF remainder = << >>
     THEN /\ buf' = filled
          /\ pos' = full
          /\ accepted' = accepted + Len(data)
          /\ UNCHANGED <<err, received>>
     ELSE \E w \in Answers(size) :
          IF Failed(w, full)
          THEN /\ pos' = 0
               /\ err' = TRUE
               /\ Arrives(Front(filled, w.value))
               /\ accepted' = accepted + Claimed(w.value, pos)
               /\ buf' = Disown(filled, accepted')
          ELSE IF Len(remainder) < size
          THEN /\ buf' = Put(filled, 0, remainder)
               /\ pos' = Len(remainder)
               /\ Arrives(Front(filled, w.value))
               /\ accepted' = accepted + Len(data)
               /\ UNCHANGED err
          ELSE \E x \in Answers(Len(remainder)) :
               /\ buf' = filled
               /\ pos' = 0
               /\ err' = (err \/ Failed(x, Len(remainder)))
               /\ Arrives(Front(filled, w.value) \o Front(remainder, x.value))
               /\ accepted' = accepted + split + x.value

(* Mutation: the buffer mode is not looked at.                             *)
WriteAsFull(data) == WriteFull(data)

(* writeUnlocked() by mode.                                                *)
WriteUnlocked(data) == IF file.buf_mode = "None" THEN WriteNone(data) ELSE WriteFull(data)

(* write() of n bytes.                                                     *)
Write(n) ==
  /\ isOpen /\ canWrite
  /\ accepted + fetched + n <= Bound
  /\ WriteUnlocked([i \in 1 .. n |-> accepted + i])
  /\ last_op' = "Write"
  /\ flushed' = FALSE
  /\ UNCHANGED <<file, size, read_limit, eof, isOpen, fetched, delivered, skipped>>
  /\ Drops

-----------------------------------------------------------------------------
(* read() of n bytes.  The subtraction is unsigned.                        *)
Read(n) ==
  LET available == (read_limit - pos) % Word
      held      == SubSeq(buf, pos + 1, pos + Lesser(n, available))
      to_fetch  == n - available
      Fetch(k)  == [i \in 1 .. k |-> -(fetched + i)]
  IN
  /\ isOpen /\ canRead
  /\ last_op' = "Read"
  /\ IF n <= available
     THEN /\ pos' = pos + n
          /\ delivered' = delivered \o held
          /\ UNCHANGED <<buf, read_limit, err, eof, fetched>>
     ELSE \E r \in Answers(IF to_fetch > size THEN to_fetch ELSE size) :
          LET short == Failed(r, to_fetch)
              used  == Lesser(r.value, to_fetch)
          IN /\ accepted + fetched + r.value <= Bound
             /\ fetched' = fetched + r.value
             /\ delivered' = delivered \o held \o Fetch(used)
             /\ err' = (err \/ (short /\ r.isErr))
             /\ eof' = (eof \/ (short /\ ~r.isErr))
             /\ IF to_fetch > size
                THEN /\ pos' = 0 /\ read_limit' = 0
                     /\ UNCHANGED buf
                ELSE /\ pos' = used /\ read_limit' = r.value
                     /\ buf' = Put(buf, 0, Fetch(r.value))
  /\ flushed' = FALSE
  /\ UNCHANGED <<file, size, isOpen, received, accepted, lost, skipped>>

(* read() or write() of a file whose mode does not allow it: eBadFD.       *)
Refused ==
  /\ isOpen
  /\ ~canRead \/ ~canWrite
  /\ err' = TRUE
  /\ flushed' = FALSE
  /\ UNCHANGED <<file, buf, size, cursors, last_op, eof, isOpen, device, history>>

-----------------------------------------------------------------------------
(* Mutation: the read limit survives the discarding of unread bytes.       *)
FlushKeepsLimit(ok) ==
  /\ ok
  /\ IF last_op = "Read" /\ pos > 0
     THEN /\ pos' = 0
          /\ skipped' = skipped \cup {Unread[i] : i \in DOMAIN Unread}
     ELSE UNCHANGED <<pos, skipped>>
  /\ UNCHANGED <<read_limit, err, received>>

(* flushUnlocked(): returns eNone exactly when ok.  Pending bytes go out   *)
(* with the rest of the buffer behind them; if the device is short they    *)
(* all stay pending, those it took included, and the error returned is the *)
(* device's, which may be eNone.  Unread bytes are discarded.              *)
FlushUnlocked(ok) ==
  IF last_op = "Write" /\ pos > 0
  THEN \E w \in Answers(size) :
       /\ ok = ~w.isErr
       /\ Arrives(Front(buf, w.value))
       /\ IF Failed(w, pos)
          THEN err' = TRUE /\ UNCHANGED pos
          ELSE pos' = 0 /\ UNCHANGED err
       /\ UNCHANGED <<read_limit, skipped>>
  ELSE /\ ok
       /\ IF last_op = "Read" /\ pos > 0
          THEN /\ pos' = 0 /\ read_limit' = 0
               /\ skipped' = skipped \cup {Unread[i] : i \in DOMAIN Unread}
          ELSE UNCHANGED <<pos, read_limit, skipped>>
       /\ UNCHANGED <<err, received>>

Flush ==
  /\ isOpen
  /\ \E ok \in BOOLEAN : FlushUnlocked(ok) /\ flushed' = ok
  /\ UNCHANGED <<file, buf, size, last_op, eof, isOpen, fetched, accepted, delivered>>
  /\ Drops

(* close(): a flush that fails leaves the file open; otherwise a buffer    *)
(* without an array behind it is dropped and close_fn takes over.          *)
Close ==
  /\ isOpen
  /\ \E ok \in BOOLEAN :
       /\ FlushUnlocked(ok)
       /\ isOpen' = ~ok
       /\ size' = IF ok /\ file.array = 0 THEN 0 ELSE size
  /\ flushed' = FALSE
  /\ UNCHANGED <<file, buf, last_op, eof, fetched, accepted, delivered>>
  /\ Drops

(* clearerr(): the error, not the end of file.                             *)
Clearerr ==
  /\ isOpen
  /\ err' = FALSE
  /\ flushed' = FALSE
  /\ UNCHANGED <<file, buf, size, cursors, last_op, eof, isOpen, device, history>>

-----------------------------------------------------------------------------
(* Clients follow the rule of update streams: they change direction only   *)
(* after a flush, or when nothing is buffered.                             *)
MayTurnTo(op) == last_op \in {"None", op} \/ pos = 0

Next ==
  \/ \E n \in 0 .. MaxLen : MayTurnTo("Write") /\ Write(n)
  \/ \E n \in 0 .. MaxLen : MayTurnTo("Read") /\ Read(n)
  \/ Refused
  \/ Flush
  \/ Close
  \/ Clearerr

Spec == Init /\ [][Next]_vars
-----------------------------------------------------------------------------
Byte == -MaxBytes .. MaxBytes

(* The types of the variables.                                             *)
TypeOK ==
  /\ file \in Files
  /\ size \in {0, InitSize}
  /\ buf \in [1 .. InitSize -> Byte]
  /\ pos \in 0 .. InitSize /\ read_limit \in 0 .. InitSize
  /\ last_op \in {"None", "Read", "Write"}
  /\ err \in BOOLEAN /\ eof \in BOOLEAN /\ isOpen \in BOOLEAN
  /\ accepted \in 0 .. MaxBytes /\ fetched \in 0 .. MaxBytes
  /\ received \in Seq(Byte) /\ delivered \in Seq(Byte)
  /\ lost \subseteq 1 .. MaxBytes /\ flushed \in BOOLEAN
  /\ skipped \subseteq Byte

(* The cursors stay inside the buffer and in order, whatever the device    *)
(* answers: reading never runs past what was fetched, pending bytes never  *)
(* exceed the buffer, and a file that has nothing unread has both at 0.    *)
CursorsInBuffer ==
  isOpen =>
    /\ pos <= size /\ read_limit <= size
    /\ last_op = "Read" => pos <= read_limit /\ (pos = 0 => read_limit = 0)
    /\ last_op # "Read" => read_limit = 0
    /\ last_op = "None" => pos = 0

(* The types and the bounds of the cursors.                                *)
Inv == TypeOK /\ CursorsInBuffer

(* Readers get the device's bytes in the order of the device, each once:   *)
(* those delivered, skipped by a flush, and still unread are all that was  *)
(* fetched.                                                                *)
ReadsInOrder ==
  LET seen == delivered \o Unread
  IN /\ \A i, j \in DOMAIN seen : i < j => seen[i] > seen[j]
     /\ {seen[i] : i \in DOMAIN seen} \cup skipped = {-n : n \in 1 .. fetched}
     /\ \A i \in DOMAIN seen : seen[i] \notin skipped

(* The device gets the client's bytes in the client's order: before a byte *)
(* arrives for the first time, all that were accepted before it have       *)
(* arrived, but for those a failing device lost.  That is all the order    *)
(* there is: a flush() repeats what a short one has sent before, and sends *)
(* leftovers of the buffer behind what is pending.                         *)
WritesInOrder ==
  \A i \in DOMAIN received :
    received[i] > 0 =>
      \A n \in 1 .. received[i] - 1 :
        n \in lost \/ \E j \in 1 .. i - 1 : received[j] = n

(* The device holds, and the buffer has pending, only bytes the client was *)
(* told are accepted: what a failed write reports is exactly what arrived, *)
(* so that a client that goes on from there repeats and skips nothing.     *)
NoneUnclaimed == (\A b \in Held : b <= accepted) /\ Ran(Pending) \subseteq 1 .. accepted

(* A step that drops accepted bytes leaves the error flag set.             *)
LossReported == [][lost' # lost => err']_vars

(* An unbuffered file keeps nothing back: its device has what the writes   *)
(* returned as written, each byte once and in order.                       *)
NothingHeldBack ==
  file.buf_mode = "None" => received = [n \in 1 .. accepted |-> n]

(* flush() returns eNone only with nothing pending: "Ensure all data was   *)
(* flushed."  The code returns the device's eNone after a short write.     *)
FlushedMeansEmpty == flushed => Pending = << >>

-----------------------------------------------------------------------------
(* A file is a stream, with the flaws of this one: whatever the sizes of   *)
(* the calls and of the buffer and whatever the device answers, the device *)
(* gets a beginning of what is pending, and pending bytes go away only by  *)
(* arriving or by a device that fails, with the error flag set; a flush    *)
(* that fails has them all sent again; only a flush that sent all that was *)
(* pending has leftovers behind it; and what a failed write reports as     *)
(* written is what arrived.  Readers get the device's bytes in order.      *)
TheStream == INSTANCE Stream WITH
  faulty  <- file.fails,
  queue   <- Pending,
  ahead   <- Unread,
  arrived <- received,
  Most    <- MaxBytes

ImplementsStream == TheStream!Spec
=============================================================================
