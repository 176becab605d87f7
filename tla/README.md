# headless-compiler runtime: models, checks and proofs

TLA+ models of the runtime library under `hc-rt/`, the runs that check them with TLC, and
theorems about them whose proofs TLAPS checks. `PROJECT.json` lists the components, the
runs, the source lines each definition translates (`map`), the mutation that each
property catches (`mutants`), what is hard to test in this code (`hazards`), the
disagreements between code and comments that the models show (`findings`) and the
theorems.

The code is a C++ runtime for Windows without a C runtime below it: it finds the numbers
of system calls in the machine code of ntdll, calls the kernel directly, and builds
locks, buffered files, containers and program startup on that. Paths below are relative
to `src/hc-rt`.

## 1. Inventory

| component | state | operations | what is hard | what makes it correct |
|---|---|---|---|---|
| **Spinlock** `include/Sys/AtomicMutex.hpp` | one byte | `lock`, `tryLock`, `unlock` | steps of threads between the poll and the compare-and-swap | one holder; the byte tells; somebody always gets in |
| **Lazy object** `include/Common/AtomicLazy.hpp` | storage, flag, a spinlock | `ctor`, `ctorDeferred`, `dtor` | the flag is read before the lock is taken and not again under it | a returned reference is to storage that was built; construction is bounded and comes to an end; flag and storage agree |
| **OS mutex** `include/Sys/OSMutex.hpp`, `src/Sys/Win/OSMutex.cpp` | handle, count, flag, and the kernel's mutant | `initialize`, `lock`, `unlock`, destructor, nesting | a first `lock()` creates the mutant, unsynchronized; the object's count beside the kernel's; the flag is written by waiters | one holder; counts agree; waits on an open handle; no handle leaks; calls return |
| **Buffered file** `src/Sys/IOFile.{hpp,cpp}` | buffer, two cursors, last operation, error, end of file | `read`, `write`, `flush`, `close`, `clearerr`, two buffer modes | short answers and errors of the device at every call; one buffer for both directions | order in both directions, exact accounting of what was accepted, every loss is reported |
| **Slot list** `include/Parcel/Skiplist.hpp`, `BitList.hpp` | slots, a bit each, handles | `insert`, `insertRaw`, `eraseRaw`, moves and destructors of handles, destructor | more bits than slots; ownership that moves | one owner and one bit per object; lowest free slot; no overwriting; nothing left |
| **String table** `src/Parcel/StringTable.cpp`, `include/Parcel/StringTable.hpp`, `_StrTblSortSlow.hpp` | a buffer of characters, a table of offsets, flags | `insert` (5 ways), two pops, sort, unsort, settings, `clear`, search | long sequences of settings, sorts and pops; half-open and closed ranges mixed; moving blocks | no string lost, doubled or overwritten; the search agrees with the contents; answers are true |
| **Static vector** `include/Parcel/StaticVec.hpp` | size and elements | grow, shrink, `clear` | `clear()` keeps the size | as storage of the string table |
| **System call bootstrap** `src/Bootstrap/Syscalls.cpp`, `StubParser.cpp`, `COFFModule.cpp` | number and error of each call, success mark | load, reload, look up, parse a stub | a load that fails half way and is repeated; operands that look like instructions; search bounds | each number is that of its own function, or invalid and marked so |
| **Startup and shutdown** `xcrt/Phase0`, `xcrt/Phase1` | locks, run-once flag | load numbers, make locks, constructors, `main()`, destructors | order; `__main()` is called twice | each runs once, after what it needs |
| **Standard streams, table of files** `src/Sys/Win/PFiles.cpp`, `IOFile.cpp` | three streams, a slot list | construct, (open), close | static objects of several units in any order | kernel objects only after the numbers |
| **Emulated thread-local storage** `xcrt/Mingw/emutils.c`, `xcrt/Phase1/Emutls.cpp` | - | - | the first is LLVM's and not built, the second only makes and destroys a mutex | not modelled |
| **Paths** `src/Sys/Win/PathPredictor.cpp`, `PathNormalizer*.cpp` | - | predict the kind of a path (normalizing it is a stub) | overlapping forms tested in order; tests that consume and then fail; places the code declares unreachable | a path is given the type of its form; a reserved name is a device behind any number of links; separators and further components do not change a type |
| **Memory and text primitives** `src/Common/Inline*.hpp`, `IAlign.hpp`, `include/Common/StrRef.hpp` | - | `memcpy`, `memset`, `memcmp`, slices, numbers from text | blocks of several sizes that overlap and are aligned on the way; two builds each | every byte written and none beside; equality is told exactly, and by the bytes of the first block that differs |
| Atomics `include/Sys/Atomic.hpp` | - | one instruction each; `fetchMax`, `fetchMin` are two | lost update in those two | no caller; not modelled |
| Errors, NT wrappers, templates, file formats, status tables, tools | - | thin wrappers, compile-time code, data, test drivers | - | not modelled |

How they interact:

- `AtomicLazy` takes a spinlock around construction and destruction. The parsed ntdll is such an object.
- Every public operation of a file takes the file's `OSMtx` first (`FileLock`,
  `src/Sys/IOFile.hpp`); the runtime's own locks (`xcrt/Locks.hpp`) are `OSMtx` as well.
- `OSMtx` makes its mutant by a system call, so its first use has to come after the
  numbers are loaded. That ordering is what the startup code is about.
- The standard streams are files made by a static object in `PFiles.cpp`. The table of
  open files is a slot list of them.
- The string table owns no memory: it works in two static vectors that it is given.
- The memory primitives are below everything: files copy to and from their buffers by
  them, vectors move their elements by them, and `StrRef`, which the path predictor is
  written in, compares by them. The models of those components take a copy as exact,
  which `Memory` shows.

## 2. Modules

```
Mutex                 what a lock promises
 ^ refined by
AtomicMtx <---------- AtomicLazy              INSTANCE: the lock inside the object
OSMtx -> Mutex
Stream                what a file promises
 ^ refined by
IOFile     <- MCIOFile
Skiplist
StringTable <- MCStringTable
Bootstrap  <- Runtime <- MCRuntime            operators; the life of a process
Memory, Paths <- MCLibrary                    the pure functions, called one at a time
Recursion             induction and recursive functions, for the proofs
 ^ extended by
Runtime_proofs, StringTable_proofs, Library_proofs (Memory and Paths)
*_proofs              the other theorems: AtomicLazy (with the lock inside it), OSMtx,
                      Skiplist, IOFile (with the stream it implements)
```

An arrow `A <- B` is "B EXTENDS A". A `MC` module only defines values of constants.
Definitions marked *Mutation* are plausible bugs; nothing uses them except the check
that each property would notice its bug.

**Mutex.** The abstract lock: threads ask, take when nobody holds, release. `Take` is
also allowed from outside, for a lock that is only tried.

**AtomicMtx.** One action per memory access of `lock()` and `unlock()`: the
compare-and-swap (`Cas`, `CasFails`), the plain read of the inner loop (`Poll`; reading
TRUE changes nothing and is a stutter), the store of `unlock()`.

**AtomicLazy.** `CtorFast`, `CtorSlow` and `Dtor` are the test of the flag with its two
outcomes; then the steps of the lock, the start of the constructor or destructor, its end, the
writing of the flag, and the return. So a constructor that runs again over an object that
others refer to is a state of its own ("constructing"). `kept` chooses at the start
whether the clients ever call `dtor()`. `builders` is the storage: the threads whose
constructor has run to its end in it since it was empty. `refs` are the threads whose
last call was a `ctor()` that returned.

**OSMtx.** `Lock` to `Count` are `lock()` from its test of the handle to its increment:
`Create` and `Store` are `initialize()`, `Mark` the flag, `Enter` the reading of the
handle, `Acquire` the kernel's grant. `Unlock` writes count and flag and `Release` goes
to the kernel, which refuses a mutant of somebody else. The kernel's mutants (`open`,
`owner`, `taken`) are external, as `OSMutex.cpp` uses them. With `Race = FALSE` the
first `lock()` of an object nobody initialized overlaps no other call; with TRUE it may.

**Stream.** A queue of bytes in each direction. Each step takes bytes in at the end of a
queue and hands others over from its front; what waits for the device may be dropped
only if the device may fail, all at once and with the error reported. A push either gets
all that waits to the device, and maybe other bytes behind it, or keeps all of it, of
which the device may have got a beginning: that will come again. There is no buffer, no
mode, no cursor and no size of a call in it.

**IOFile.** One action per public operation, with all its device calls: the file lock
makes it atomic for other threads, and what the device answers (any length up to the one
asked for, any error) is the choice inside the action. Bytes are numbers, so that order,
loss and repetition are visible, and `received` is all that the device takes, in the
order in which it takes it. `flushUnlocked()` sends the whole buffer, so behind what is
pending the device gets leftovers of the buffer, and after a short flush it gets the
pending bytes again; they are in `received` like any others. For `Stream` the outward
queue is what is pending, the inward queue what was fetched and not read. Clients of update
streams obey the usual rule (`MayTurnTo`): they flush between directions, or nothing is
buffered. Unsigned subtraction is modulo `Word`.

**Skiplist.** The words of bits are cut out of the set `bits`; `InsertRaw` takes the
first word that is not full and its first clear bit, as the code does. Handles can be
constructed by moving, erased by hand and destroyed. `Careful` is the clients' rule to
look at `countActive()` first.

**StringTable.** Every public operation of `IStringTable`, over sequences `buf` and
`tbl`. The two binary searches are recursive functions with the code's own bounds;
`SlideIn` is the copy by blocks; `comp` is the comparator of the slow sorter. A byte
read behind the end of the buffer is any byte. `pop()` takes the last entry and never
gives characters back: the shrinking of the buffer it asks for is lost in a function
that calls itself (section 7), so what a popped string occupied stays occupied. An insertion
that moves exactly as many entries as a block has runs on below the table (`RunsAway`):
that step answers "fault", and nothing is said of the table afterwards.

**Bootstrap** has operators only: the search in the export table, the parser of stubs,
and `Meaning`, which says of the instructions of a stub what the parser has to find in
its bytes. **Runtime** is the life of a process in both builds, with its own C runtime
(`xcrt`) and on the compiler's: `mainCRTStartup()` or the static objects of the units,
the loading call by call, locks, constructors, `main()`, destructors. Other software in
the process may rewrite a stub (`Patch`), between any two steps. Behind a load that
failed, `mainCRTStartup()` has `__hc_unreachable()`: a trap in one build and nothing at
all in the release build, so `Startup` may stop or go on to the locks and `main()`. The
checks of the compiler's runtime (`LoaderChecks`, `init_pfiles`) do stop.

**Memory.** A block is the set of the offsets it spans, and a primitive the union of the
blocks it writes, or the sequence of those it compares. What one block does is exact
when it is written (one vector load and store), so what can be wrong, and what is
modelled, is which blocks a length and an address lead to. A comparison goes by
big-endian words, except in vectors of 16: there the code takes the maximum of two lanes
of 64 bits, as little-endian numbers, and the last byte that differs in the first lane
that does decides (`Decides`). Both builds of
`memset` (`HC_SOFTWARE_PREFETCH`, on by default in `src/CMakeLists.txt`) and of `memcmp`
(SSE 4.1) are there. An action is a call by any client.

**Paths.** Every function of `PathPredictor.cpp` has the operator of its name. A
character is a member of a class the code tells apart, and a word it looks for is one
element. A word still has its first character: those of `HexWords` (CON, COM, AUX and
DosDevices) look like the beginning of an address, the others do not. Consumers return what they leave of the path, also when they fail: that the
next test starts there is how the code works. Where the code says `__hc_unreachable` or
slices beyond the end of a string the prediction is "Undefined", anything at all.

All models are of the release build: `__hc_invariant` and `__hc_assert` do nothing
there, so they constrain nothing.

## 3. Runs

Runs that pass:

| run | instance | distinct states | shows |
|---|---|---|---|
| `AtomicLazy` | 3 threads | 3 031 | the lock inside excludes, implements `Mutex` and always lets somebody in; flag and storage agree whenever it is free; without `dtor()` references are to storage somebody has built in, no thread constructs twice or over an object it has a part in, constructions come to an end, every `ctor()` returns |
| `OSMtx` | 3 threads, depth 2, 3 handles, counts modulo 5, no race of first calls | 6 411 | one holder, counts that agree with the kernel's, waits and releases through an open handle, a flag that settles, no leaked handle, refinement of `Mutex`, calls that return |
| `IOFile` | 6 files (the three streams and three update files, buffers of 0 to 3 bytes), calls up to 4 bytes, 5 bytes accepted or fetched (4 altogether for update files), 6 bytes sent | 272 323 | cursors in range; readers get each byte once and in order; no byte reaches the device before those accepted before it; exact accounting of partial writes; the refinement of `Stream`; a loss always leaves the error flag |
| `Skiplist` | 4 slots in words of 2 bits, 3 handles and raw pointers | 864 | ownership, lowest free slot, no overwriting, inside the array, nothing left |
| `StringTable` | strings a, b, ab; 5 characters, 3 entries, blocks of 8 | 180 873 | contents kept, searches right, answers true, `unsort()` restores |
| `Runtime` | 2 calls among 3 names, every export table, 6 kinds of stub, 1 rewriting; 2 units, 3 locks | 112 176 | the search and the parser are right; after a load a number is that of its stub or invalid with its error kept; only the `xcrt` startup runs on with an invalid one; nothing asks the kernel for an object before the load; order of everything |
| `Library` | `memcpy` and `memset` of 0 to 140, 185 to 230 and 285 to 325 bytes at 3 addresses, `memcmp` of 29 lengths with two differing bytes; about 73 000 paths | 115 172 | exact writes but for the known gaps; equality told exactly, and decided by the first difference or, in vectors of 16, one at most seven bytes behind; paths have the type of their form, and keep it |

Runs that show where the code does not do what a comment says (`findings`):

| run | violated | what happens |
|---|---|---|
| `AtomicLazy_twice` | `ConstructsWhenEmpty` | two threads that both saw the flag clear construct one after the other in the same storage |
| `OSMtx_lazy` | `Exclusion` | two overlapping first `lock()` calls make a mutant each and both get in |
| `IOFile_shortflush` | `FlushedMeansEmpty` | after a short write without an error `flush()` returns `eNone` with bytes pending; `close()` then drops them |
| `Skiplist_full` | `InArray` | an insertion into a full list goes behind the array |
| `StringTable_kept` | `KeptSorted` | the comparator puts "ab" before "b", in a table marked sorted |

### Why the bounds are enough

- *Locks.* Three threads are one that holds and two that compete, the least at which a
  waiter can be overtaken. Depth 2 has an outermost and a nested call; the modulus 5
  lies above the depth (an assumption of the module). The handles are as many as threads
  can create. The theorems hold for all of these values.
- *IOFile.* A buffer of two bytes with calls of up to four has the cases fits, fills
  exactly, overflows into the buffer, overflows past it; likewise for reads and a buffer
  of three, and the one-byte buffer that a readable file without one gets. Five bytes
  go through the buffer more than twice, and the six a device takes leave room for a
  flush that is short and is repeated with leftovers behind it.
- *Skiplist.* Two full words and the extra one; three handles and raw pointers fill all
  four slots and allow a move into each state. The theorems hold for all sizes.
- *StringTable.* Two lengths and two characters are what shortlex tells apart. Three
  entries give the binary searches each of their outcomes. Tables longer than `SlideLen`
  are *outside* the instance: there the block copy of `binaryInsert()` leaves one entry
  in nine behind, and with exactly eight entries left its signed distance is compared as
  unsigned and it runs on (`SlideIn`, `RunsAway`). `ContentsKept`, `InsertAnswers` and
  `UnsortRestores` are claims about tables of up to eight entries, proved for all of
  those (section 5). They fail for longer ones: an insertion at the front of eight entries
  runs away, at the front of nine it loses one.
- *Runtime.* Every subset of three names, with the calls listed out of order, gives a
  search for names before, between and behind those of the table, and empty tables. The
  stubs are the one of ntdll (with operands that look like `ret` and `syscall`), the
  plain one, a hooked, an incomplete and an invalid one, and one that returns with `ret
  n`. One rewriting is enough to make a load fail and the next succeed, or the reverse.

- *Library.* The lengths surround every change of block size and zero to two rounds of
  the prefetching loop, at an aligned address and at those just behind and before one.
  Two bytes that differ either way, in one vector or in two, are what tells the order
  within a lane, between lanes and between vectors.
  Paths: all of up to five characters over
  what the outer forms are made of, and all short continuations of what looks like a host
  name, an address of either kind, each of the words as a host, as a share and as a device,
  a device (also behind two links), a volume and the kernel's namespace. The theorems hold for all lengths, addresses and paths.

### Deadlock

It is checked for `AtomicLazy`, `AtomicLazy_twice`, `StringTable`, `StringTable_kept` and
`Library`.
The other systems come to an end: an object is destroyed, a file closed with its bytes
used up, a process ended or stopped at a trap.

## 4. Fairness

Only the two lock models state liveness.

- `AtomicMtx`, `AtomicLazy`: weak fairness of the steps of a thread inside a call: it
  runs and is not suspended for ever. Nobody is obliged to call. A spinlock is not fair,
  so what is claimed is that *somebody* gets in (`SomeoneGetsIn`); that every `ctor()`
  returns (`CtorReturns`) holds only where nobody calls `dtor()`, because once the flag
  is set no new thread competes.
- `OSMtx`: weak fairness of a thread's own steps; strong fairness of `Acquire`, since
  the kernel queues the waiters of a mutant; and holders unlock in the end, also those
  that nest: the last `unlock()` comes (the strong fairness of `Unlock` at depth 1). The
  last is an assumption about the clients, which pair calls by `ScopedLock` and `FileLock`.

The others are safety only: single-threaded code whose calls return by construction.

## 5. Proofs

Each `*_proofs` module EXTENDS its component. All theorems are for every value of the
constants that satisfies the module's assumption.

- **AtomicLazy_proofs.** First the lock, taken by INSTANCE as in the model: its types and
  exclusion are inductive together, and give `SpinlockExcludes` and, action by action,
  `SpinlockImplementsMutex`. Then the object. Exclusion alone is not enough, since the flag is tested outside
  the lock. The invariant adds `Places` (where in the lock a thread is follows from what
  it has left to do), `Windows` (flag and storage differ only between the two writes)
  and `Kept` (without `dtor()`, a reference implies the flag, the flag implies the
  object, and a thread that constructed neither constructs nor is about to). It gives
  `LazyFlagTruthful`, `LazyRefsAreBuilt`, `LazyOncePerThread` and, through the theorem
  about the lock, `LazyImplementsMutex`.
- **OSMtx_proofs.** Two layers. `UseInv` holds even if first calls race: handles are
  created before they are used and go with the object. From it,
  `WaitsOnExistingHandle`. `SafeInv` adds that there is one mutant (`OneMutant`), that
  its owner is the holder (`OwnerHolds`), that the counts agree and that a set flag has
  somebody waiting or holding (`FlagHasCause`). It is inductive under `~Race`, and gives
  `OSMtxExcludes`, `OSMtxFlagSettles`, `OSMtxNoHandleLeft` and `OSMtxImplementsMutex`.
  `~Race` is necessary: `OSMtx_lazy` is the counterexample without it.
- **Skiplist_proofs.** Lemmas about words and bits (`Least`, `EmptySlot`, `IndexOf`,
  `Split`, `Order`: an index is a word and a bit, in lexicographic order) give
  `Insertion`: the slot taken was free and all before it were not. Types and ownership
  are inductive with it (`SkiplistOwnedOnce`), and it gives `SkiplistNoOverwrite` and
  `SkiplistLowestFreeSlot`. Under `Careful` a counting argument (`RoomBelow`: were the
  slot taken behind the array, all N slots would be in use) gives `SkiplistInArray`, and with it
  `SkiplistAllDestroyed`. `Careful` is necessary: `Skiplist_full`.
- **IOFile_proofs.** Types and cursors are inductive with the fact that a buffer keeps
  its size while the file is open (`IInv`; `close()` drops it): `IOFileInv`. Lemmas about
  cuts of a buffer (`Cut`, `CutOfCut`, `CutOfPut`, `JoinCut`) carry the refinement: each
  branch of a write is shown to take from the front of the queue what it adds at its end,
  or to drop the queue with the error set (`Sends`), each branch of a read likewise
  (`Receives`), and a flush to hand over a beginning of the whole buffer and then either to
  empty the queue, all of it having gone, or to keep it with the error set (`Pushes`). So
  `IOFileImplementsStream`.
  The writers' accounts are kept byte by byte: pending bytes are the last ones accepted
  (`Lasting`), every accepted byte is at the device, pending or lost (`Covered`), and
  neither the device nor any place of the buffer has one that was not accepted (`Below`,
  `Known`, the latter because a failed write disowns what it did not report). `Hands`
  says what any step of a writer does in these terms, repetitions and leftovers included,
  and `HandsAccounts` that it keeps them. A byte that arrives for the first time comes
  from the queue, and all before it are at the device, in the queue before it or lost:
  `IOFileWritesInOrder`. The same accounts give `IOFileNoneUnclaimed`, and
  `IOFileLossReported`, since only a queue that is dropped, with the error set, loses
  anything. That the device of an unbuffered file has exactly what was accepted (`UInv`)
  is inductive with `IInv` and gives `IOFileNothingHeldBack`. `RInv` keeps the readers'
  account: what was delivered with what is unread behind it comes in the device's order,
  nothing of it was discarded, and with what was it is all that was fetched (`Account`):
  `IOFileReadsInOrder`.
- **Library_proofs.** `memcpy` and `memset`: the union of the blocks is the whole range.
  A strip of blocks covers what lies between its first block and its limit
  (`StripCovers`, by division with remainder), and each primitive is a first part, a
  strip that begins inside it and a last block that begins inside the strip. `memcmp`:
  where blocks come in order, each beginning no later than the one before ends
  (`Ordered`), the first that differs holds the first difference, and the byte that decides in it is
  that one or in the same lane (`DecidesIn`, `FirstDecides`). They give `MemWritesExactly`
  and `MemComparesFirst`. Two theorems say that what these leave open is no weakness of
  theirs: `MemsetLeavesGaps` names two bytes that no block of a round covers, and
  `SseAnswersByLane` operands whose order vectors of 16 tell by the second byte.
  Paths: the inputs are assumed to be texts over the classes of characters, nothing more,
  and the only invariant needed is that `path` is one. The rest are lemmas about texts. Whether a
  text has a form is shown to be a condition on its first characters (`UnderMore`,
  `DeviceForms`, `NtForm`, `GuidBegins`), which is how the code tests it, so that the order of the
  tests can be gone through (`FormsHold`). `deduce_dos_drive_type()` recurses on what is
  left behind a link; as a loop it gives its answer at the first text that is not one
  (`DosIs`, with `LoopAnswers` of `Recursion`), behind any number of links
  (`DeviceHolds`). For the host, each consumer leaves an end of what it was given: what
  failed as an address has only taken digits and dots (`Ipv4Reads`), so that what is then
  tried as a name is where the code says it is (`HostIs`); in the other direction a plain
  host that no hexadecimal digit begins looks like no address and is accepted
  (`PlainAccepted`), and one that such a letter begins is read as an address, which ends
  at its first backslash (`PlainUndefined`). They
  give `PathsAgreeTheorem`. `PathsUnlikeHeader` has the forms of the header that the code
  does not know. `PathsAlikeTheorem` compares two readings: of a text and its copy
  with slashes, which agree character by character up to a separator (`Alike`), and of a text and
  the same text with a component behind it, where each consumer does the same and leaves
  the same end, extended, or the prediction is undefined (`Follows`, `ExtServer`,
  `ExtUnc`): the scan for an IPv6 address meets the added separator and gives up
  (`Ipv6Bad`).
- **Recursion.** The models compute by recursive functions, `f == CHOOSE f : f = [x \in D
  |-> ... f[y] ...]`, of which nothing follows until such an `f` is known to exist.
  `Fixpoint` shows that it does where the right side looks at smaller arguments only, by a
  measure; it is built on induction over the natural numbers with a set in the place of the
  formula (`LeastElement`, `Induct`, `Iterate`), so that no operator is passed to a theorem.
  `LoopExists` and `LoopAnswers` are the two halves for loops (what holds at the start and
  is kept until the loop stops holds of the answer), `PassExists` is for passes over a
  sequence.
- **Runtime_proofs.** `Order` ties the program counter to what has been loaded and made,
  in both builds; it is inductive and gives `RuntimeCtorsAroundMain`. The search
  of the export table keeps a range that the name sought cannot leave (`BsearchFinds`,
  `RuntimeSearchFinds`), the parser keeps step with the meaning of the instructions
  already passed (`ParsesMeaning`, `RuntimeParseAgrees`). With both, a call that was asked
  for has the number of the stub it came from (`Good`) or the invalid one with its error
  (`Bad`). `Numbers` says for which calls that holds at each point of a load, that the
  mark of success stands over good ones alone, and that without it only the `xcrt`
  startup goes on. It gives `RuntimeLoadedIsUsable` and `RuntimeNoEarlyKernelCall`; with
  `Relies`, that on the compiler's runtime the mark stays once the streams are made,
  `RuntimeStaticsLoadFirst`.
- **StringTable_proofs.** `Inv` (types, capacities, and every entry about characters in
  use) is inductive: `StringTableTypeOK`. The searches are loops over shrinking ranges.
  What `binarySearch()` finds is the string (`SearchSound`), and in a table in order the
  half it goes on with is the one with the string in it, if there is one (`RightHalf`, by
  the totality of shortlex), so that it is found (`SearchComplete`):
  `StringTableSearchAgrees`, for tables of every size. The same lemma carries the search
  of `binaryInsert()` with its half-open range (`SeekFinds`), which also ends inside the
  table (`SeekWithin`). A sort is a pass that keeps the set of entries and their number,
  and by offset makes them rise (`SortKeeps`, `SortByOffset`). `Kept` adds to `Inv` that
  entries start at different characters and that what clients were given is what the
  entries stand for. It is inductive where a sorted insertion puts its entry in without
  losing one (`SlideInserts`), and gives `StringTableContentsKept`,
  `StringTableInsertAnswers` and `StringTableUnsortRestores`, under the hypothesis
  `TblCap <= SlideLen`, that is for tables of at most eight entries: an insertion moves
  at most seven of them, so it never runs away. The bound is that of the code: moving
  eight runs away, and moving more does too or loses an entry, in every table
  (`SlideLosesAnEntry`).

Only model-checked: liveness, for which the prover has no rule, `RefsSettle` among it.
Every invariant and every action property of the passing runs is stated by a theorem.

## 6. What is not modelled, and why

- Failures of the system calls behind `OSMtx`, which the code asserts away, and named mutants.
- `seek` and `tell`, which are declared and not defined; line buffering, a to-do in the
  code; opening files, a stub that returns null, so that no slot of the table is ever
  taken and `close_file()`, which closes through itself, is never entered.
- The device functions of Windows, stubs that transfer nothing: the device of `IOFile` is
  any device.
- The fast sorter of the string table, unfinished in the code; offsets of 16 bits, which
  buffers below 65 536 characters do not overflow; iterators, which only read.
- The parser of the image headers (`ModuleParser.cpp`), a straight walk over a mapped
  image; the security cookie; the console, whose setup and shutdown are commented out;
  the printing of failed calls.
- Static vectors of elements with constructors, `Option` and `Result` as owners: nothing in the
  library or its tools puts such an element in them, so there is no client whose
  behaviour a model could be faithful to.
- The normalizer of paths: the body of `PathNormalizer::operator()` is a stub, its helpers
  have no callers, and the older `PathNormalizer0.cpp` is not built.
- `memmove`, `strlen` and `strcmp`, the casts of `Checked.hpp` and the operations of
  `Atomic.hpp`: one loop, one comparison or one instruction each.
- The larger part of the repository by lines is data and declarations, which have no
  behaviour: the generated tables of status codes (`PlatformStatus.cpp`, `NtCodes.html`),
  the layouts of kernel structures and of file headers (`Win64KernelDefs.hpp`,
  `COFF.hpp`), and templates evaluated by the compiler (`Meta`, `Tuple`, `Mem::Ptr`
  and the like). The wrappers in `Sys/Win/Nt` are one system call each.
- `Driver.cpp`, `UnionDriver.cpp`, `VolumeInfoDumper.hpp` and `tools/`: programs that
  exercise the library and print what they see.

## 7. Seen while modelling

Divergences that the models contain as the code has them, beside the findings:

- `readUnlocked()`: `__hc_invariant(read_limit > pos)` (`src/Sys/IOFile.cpp:88`) is false
  on a fresh file. It is a no-op in the release build; the subtraction behind it is right.
- A file of mode "a" cannot be written (`src/Sys/IOFile.hpp:129`), though
  `include/Sys/File.hpp:48` promises the flag syntax of `std::fopen`.
- `clearerr()` leaves the end of file set.
- `BitList::countInactive()` counts words instead of bits (`include/Parcel/BitList.hpp:84`); no caller in the library.
- The string table: `binaryInsert()` may put a string beside its place; a key-sort
  setting on a table of one entry marks nothing; `clear()` keeps the sizes of its
  vectors (`StaticVec.hpp:479`); `popDestructive()` compares an offset with a number of
  entries (`StringTable.cpp:112`); `unsort()` does nothing to a table not marked sorted;
  sorting does not mark the table dirty, although the documentation says so.
- `ExportBSearcher` starts one below the table and reads there, for a name before all
  others. The result is right all the same (`SearchFinds`, over every outcome of that read).
- `sysenter` has the first byte of `syscall`, and is therefore never told apart.
- In the `xcrt` build nothing calls `__init_pfiles()`, and `__fini_pfiles()` has no caller at all.
- `memset` with software prefetching: each round of its loop counts for 128 bytes and writes
  64 of them (`InlineMemset.hpp:102`: steps of a block of 64, writes of a block of 32), so that
  an aligned rest of 288 bytes or more keeps old contents in between. `MemsetLeavesGaps`
  proves that it always does. The option is on by default (`src/CMakeLists.txt:62`).
- `__setSize()` of a static vector of trivial elements calls itself (`StaticVec.hpp:411`).
- `StrRef::back()` reads behind the string (`StrRef.hpp:114`), `backSafe()` answers the
  front, and `consumeUnsigned()` multiplies after it adds: 26 is read as 260, and an
  octet above 25 is out of range for the predictor.
- `PathPredictor.cpp`: the scan for an IPv6 address runs to the end of the path, so no path
  with a share has such a host, and a host name that begins with a letter from a to f ends
  in a place declared unreachable; a full address that does not end in ":" is no address;
  a test that fails leaves the path partly consumed, so that `\\1.a\s` has the host "a";
  `\\.\DosDevices` alone is sliced beyond its end; an empty share, and any character
  in a host name behind the first, are let through.
- `PathNormalizer.hpp:63-76` lists the forms of paths, and the code keeps others apart
  (`PathsUnlikeHeader`, `PathsAgree`): `//[.|?]/UNC/` (line 68) is taken with "." alone, and
  gives no type with "?"; a reserved name without a prefix (line 71, and `NUL` at
  `src/Driver.cpp:515`) is a relative path; `/??/NUL` (`src/Driver.cpp:517`) is a path of
  the kernel's namespace, which is tested first; `//[name]/[share]/` (line 69) with a name
  that begins with a letter from a to f has no defined type; `//./[volume]:/` and
  `//?/Volume{...}` are accepted like their counterparts of lines 65 and 67.
- `memcmp` with SSE 4.1: `__sse_max_u8()` (`Immintrin.hpp:59`) takes its operands for two
  numbers of 64 bits, not for sixteen bytes, so that of operands of more than 16 bytes the
  last byte that differs in a lane gives the sign (`cmp_neq<Gmi128>`, `MemUtils.hpp:203`).
  Whether they are equal is told right. `SseAnswersByLane` proves that it happens.
- `mainCRTStartup()` is to "Make sure syscalls are bootstrapped." (`xcrt/Phase1/Initialization.cpp:63`),
  but behind a failed load is `__hc_unreachable()`, which in the release build lets the
  process go on: the locks are then made with the number the kernel refuses.
- `flush()` sends the whole buffer and not the pending part of it (`IOFile.cpp:163`), so a
  device gets leftovers of earlier writes, and after a short write the same bytes again.
- `Align::IsPow2()` is true for zero alone, `StaticVec::isFull()` asserts
  that the vector is not full, and `neq()` (`MemUtils.hpp:128`) compares its left operand
  with itself; nothing depends on them.
- `close()` of a stream releases the lock before `close_fn`, which then refuses: the stream
  stays usable. The model ends the life of a file there.

## 8. Plan

Order of the modules, the most important behaviour first: locking and lazy construction
(`Mutex`, `AtomicMtx`, `AtomicLazy`, `OSMtx`), files (`IOFile`), slot lists (`Skiplist`),
string tables (`StringTable`), bootstrap and startup (`Bootstrap`, `Runtime`), the pure
functions (`Memory`, `Paths`), the abstract stream (`Stream`). All are done.

Left:

1. The composition of a file with its lock: the operations of two threads under `FileLock`.
   `OSMtx` and `IOFile` are each checked alone; what joins them is that every public
   operation takes the lock first.
2. The normalizer and the opening of files, once the code has them.
