------------------------------- MODULE Stream -------------------------------
(***************************************************************************)
(* What a file is to its clients: a queue of bytes in each direction,      *)
(* between them and the device.  Bytes are numbered, those of the clients  *)
(* from 1 up and those of the device from -1 down, in the order in which   *)
(* they are handed over.                                                   *)
(*                                                                         *)
(* Each step may take bytes in at the end of a queue and hand over others  *)
(* from its front.  What waits for the device is dropped only if the       *)
(* device may fail, all of it at once, and with the error reported.  The   *)
(* device may get bytes more than once, when a push fails, and bytes that  *)
(* are no part of the queue, behind all of it.                             *)
(***************************************************************************)
EXTENDS Integers, Sequences

CONSTANT Most           \* bound: the bytes given in one step

VARIABLES
  faulty,               \* whether the device may fail; never changes
  accepted, fetched,    \* how many bytes clients and device have given
  queue, ahead,         \* the bytes under way to the device, to the clients
  arrived, delivered,   \* the bytes that got there
  err                   \* the error flag; clients may clear it

outward == <<accepted, queue, arrived>>
inward  == <<fetched, ahead, delivered>>

Init ==
  /\ accepted = 0 /\ queue = << >> /\ arrived = << >>
  /\ fetched = 0 /\ ahead = << >> /\ delivered = << >>

(* The first k bytes of q are handed over.                                 *)
Over(q, k, to) == to \o SubSeq(q, 1, k)
Kept(q, k)     == SubSeq(q, k + 1, Len(q))

(* The clients have n more bytes accepted, the device takes some.          *)
Send(n) ==
  LET q == queue \o [i \in 1 .. n |-> accepted + i]
  IN  /\ accepted' = accepted + n
      /\ \E k \in 0 .. Len(q) :
           /\ arrived' = Over(q, k, arrived)
           /\ queue' = Kept(q, k) \/ (queue' = << >> /\ faulty /\ err')
      /\ UNCHANGED inward

(* The clients push what waits.  Either all of it arrives, or it is kept   *)
(* and some of it may have arrived.  Behind all of it there may be more.   *)
Push ==
  /\ queue # << >>
  /\ \/ /\ Len(arrived) + Len(queue) <= Len(arrived')
        /\ SubSeq(arrived', 1, Len(arrived) + Len(queue)) = arrived \o queue
        /\ queue' = << >> \/ (queue' = queue /\ faulty /\ err')
     \/ /\ \E k \in 0 .. Len(queue) : arrived' = Over(queue, k, arrived)
        /\ queue' = queue /\ faulty /\ err'
  /\ UNCHANGED <<accepted, inward>>

(* The device gives m more bytes, a client gets some.                      *)
Receive(m) ==
  LET q == ahead \o [i \in 1 .. m |-> -(fetched + i)]
  IN  /\ fetched' = fetched + m
      /\ \E k \in 0 .. Len(q) :
           delivered' = Over(q, k, delivered) /\ ahead' = Kept(q, k)
      /\ UNCHANGED outward

(* The clients give up what they have not read.                            *)
Skip == ahead' = << >> /\ UNCHANGED <<outward, fetched, delivered>>

Next ==
  /\ \/ \E n \in 0 .. Most : Send(n) \/ Receive(n)
     \/ Push
     \/ Skip
  /\ UNCHANGED faulty

Spec == Init /\ [][Next]_<<faulty, outward, inward>>
=============================================================================
