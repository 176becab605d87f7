----------------------------- MODULE Bootstrap -----------------------------
(***************************************************************************)
(* How the runtime learns the number of a system call: it looks the        *)
(* function up in the export table of ntdll (COFFModule.cpp) and reads the *)
(* number out of the machine code of its stub (StubParser.cpp).  Operators *)
(* only: what they are applied to belongs to the module Runtime.           *)
(*                                                                         *)
(* Names are numbers, in the order of their spelling.  A stub is a         *)
(* sequence of instructions and each of these a sequence of bytes, as long *)
(* as the processor says; the parser sees the bytes one after the other.   *)
(***************************************************************************)
EXTENDS Integers, Sequences, SequencesExt, FiniteSets

-----------------------------------------------------------------------------
(* ExportBSearcher::bsearch over a sorted table.                           *)

(* Division rounds towards zero.                                           *)
Half(x) == IF x < 0 THEN -((-x) \div 2) ELSE x \div 2

(* Mutation: the range shrinks to the middle and not past it.              *)
bsearchShort(table, S) ==
  LET find[range \in Int \X Int] ==
        LET F == range[1]
            B == range[2]
            middle == Half(B + F)
        IN  IF F >= B THEN {-1}
            ELSE IF middle < 0 THEN {middle} \cup find[<<middle + 1, B>>]
            ELSE IF table[middle + 1] = S THEN {middle}
            ELSE IF table[middle + 1] > S THEN find[<<F, middle - 1>>]
            ELSE find[<<middle + 1, B>>]
  IN find[<<-1, Len(table) - 1>>]

(* The range starts one below the table.  For a name that sorts before all *)
(* of it the search reads there, and compares with whatever it finds: the  *)
(* results are those of every outcome of that comparison.  An empty table  *)
(* is refused before and gives the same answer.                            *)
bsearch(table, S) ==
  LET find[range \in Int \X Int] ==
        LET F == range[1]
            B == range[2]
            middle == Half(B + F)
        IN  IF F > B THEN {-1}
            ELSE IF middle < 0
            THEN {middle} \cup find[<<F, middle - 1>>] \cup find[<<middle + 1, B>>]
            ELSE IF table[middle + 1] = S THEN {middle}
            ELSE IF table[middle + 1] > S THEN find[<<F, middle - 1>>]
            ELSE find[<<middle + 1, B>>]
  IN find[<<-1, Len(table) - 1>>]

-----------------------------------------------------------------------------
(* The instructions, by their first byte, by which they are told apart.    *)
KCall == 15             MovImmToEax == 184
Retn  == 195            Retn16      == 194

(* instruction_size() of what get_instruction() makes of a first byte: jne;*)
(* mov eax, ecx, edx; ret; ret n; call; xor ecx; mov edx, esp; call edx;   *)
(* syscall, and sysenter, which has the same first byte and is never       *)
(* reached; mov r10, rcx; lea; test; call fs.                              *)
Opcodes == {15, 51, 76, 100, 117, 139, 141, 184, 185, 186, 194, 195, 232, 246, 255}
instruction_size ==
  [e \in Opcodes |-> CASE e = 195                      -> 1
                       [] e \in {15, 51, 117, 139, 255} -> 2
                       [] e \in {76, 194}               -> 3
                       [] e = 141                       -> 4
                       [] e \in {184, 185, 186, 232}    -> 5
                       [] e = 100                       -> 7
                       [] e = 246                       -> 8]

invalid_syscall == <<255, 255, 255, 255>>

Err(e)  == [err |-> e, call |-> invalid_syscall]
Ok(c)   == [err |-> "Success", call |-> c]

(* Mutation: the operand of a test is taken for code.                      *)
TurnIntoTest(bytes, loop) ==
  LET I == bytes[loop.off + 1]
  IN IF I \notin Opcodes \ {Retn, Retn16} THEN loop
     ELSE [off  |-> loop.off + (IF I = 246 THEN 4 ELSE instruction_size[I]),
           call |-> IF I = MovImmToEax THEN SubSeq(bytes, loop.off + 2, loop.off + 5)
                    ELSE loop.call,
           did  |-> loop.did \/ I = KCall]

(* One turn of the loop, which stands still where the code leaves it.      *)
Turn(bytes, loop) ==
  LET I == bytes[loop.off + 1]
  IN IF I \notin Opcodes \ {Retn, Retn16} THEN loop
     ELSE [off  |-> loop.off + instruction_size[I],
           call |-> IF I = MovImmToEax THEN SubSeq(bytes, loop.off + 2, loop.off + 5)
                    ELSE loop.call,
           did  |-> loop.did \/ I = KCall]

(* The operand of the last mov eax is the number, at a ret behind which    *)
(* nothing is looked at.  An instruction has a byte at least, so that no   *)
(* more turns than there are bytes bring the loop to its end.              *)
do_parsing(bytes) ==
  LET run[n \in Nat] == IF n = 0 THEN [off |-> 0, call |-> invalid_syscall, did |-> FALSE]
                        ELSE Turn(bytes, run[n - 1])
      end == run[Len(bytes)]
      I   == bytes[end.off + 1]
  IN IF I \notin Opcodes THEN Err("IllegalInstruction")
     ELSE IF I = Retn16 THEN Err("UnexpectedC2Retn")
     ELSE IF end.call = invalid_syscall \/ ~end.did THEN Err("SyscallNotFound")
     ELSE Ok(end.call)

(* resolveExportRaw() and parse_stub(): exports are the names in the table,*)
(* code what each refers to, an empty sequence for an address of zero.     *)
Resolve(exports, code, S) ==
  {IF pos < 0 THEN <<>> ELSE code[exports[pos + 1]] : pos \in bsearch(exports, S)}

parse_stub(exports, code, S) ==
  {IF stub = <<>> THEN Err("UnknownFunction") ELSE do_parsing(FlattenSeq(stub)) :
     stub \in Resolve(exports, code, S)}

-----------------------------------------------------------------------------
(* A stub is as the processor would take it apart, as far as the parser    *)
(* knows the instructions, and has one that the parser stops at.           *)
IsStub(stub) ==
  /\ stub \in Seq(Seq(Nat) \ {<<>>})
  /\ \A i \in DOMAIN stub :
       stub[i][1] \in Opcodes => Len(stub[i]) = instruction_size[stub[i][1]]
  /\ \E i \in DOMAIN stub : stub[i][1] \notin Opcodes \ {Retn, Retn16}

(* What a stub means, said of its instructions: they run up to the first   *)
(* that is a return or is not known.                                       *)
Meaning(stub) ==
  LET Known(i)  == stub[i][1] \in Opcodes \ {Retn, Retn16}
      last      == CHOOSE i \in DOMAIN stub :
                     ~Known(i) /\ \A j \in 1 .. i - 1 : Known(j)
      Has(op)   == {i \in 1 .. last : stub[i][1] = op}
      mov       == CHOOSE i \in Has(MovImmToEax) : \A j \in Has(MovImmToEax) : j <= i
  IN IF stub[last][1] = Retn16 THEN Err("UnexpectedC2Retn")
     ELSE IF stub[last][1] # Retn THEN Err("IllegalInstruction")
     ELSE IF Has(MovImmToEax) = {} \/ Has(KCall) = {} THEN Err("SyscallNotFound")
     ELSE IF Tail(stub[mov]) = invalid_syscall THEN Err("SyscallNotFound")
     ELSE Ok(Tail(stub[mov]))
=============================================================================
