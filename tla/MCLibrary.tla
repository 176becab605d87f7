------------------------------ MODULE MCLibrary ------------------------------
(* The memory primitives and the path predictor, called one at a time.     *)
EXTENDS Memory, Paths

(* The lengths around every change of block size and every number of       *)
(* rounds, at addresses that are aligned, just beyond and just before.     *)
Lengths == (0 .. 140) \cup (185 .. 230) \cup (285 .. 325)
Writes  == [fn : {"memcpy", "memset", "memset_prefetch"}, dst : {0, 1, 31}, len : Lengths]

(* Operands that differ in one byte or two, either way.                    *)
Signs(n, At) == {[i \in 0 .. n - 1 |-> IF i = p THEN 1 ELSE IF i = q THEN -1 ELSE 0] :
                  p, q \in At}
Edges(n)   == IF n < 34 THEN 0 .. n
              ELSE {0, 15, 16, 17, 200, n - 17, n - 16, n - 1, n}
Compares(n) == [fn : {"memcmp", "memcmp_sse"}, dst : {0, 1, 15}, len : {n},
                sgn : Signs(n, Edges(n))]

someCalls ==
  {[fn |-> w.fn, dst |-> w.dst, len |-> w.len, sgn |-> [i \in 0 .. w.len - 1 |-> 0]] :
     w \in Writes}
  \cup UNION {Compares(n) : n \in (0 .. 20) \cup {31, 32, 33, 383, 384, 385, 391, 400}}

-----------------------------------------------------------------------------
UpTo(n, A)  == UNION {[1 .. m -> A] : m \in 0 .. n}
Join(s, c)  == FoldLeft(LAMBDA r, x : r \o c \o x, s[1], Tail(s))
Unc         == <<"\\", "\\">>
Dev(c)      == <<"\\", "\\", c, "\\">>
Behind      == {<<>>, <<"DosDevices", "/">>, <<"DosDevices", "\\", "DosDevices", "/">>}

(* All short paths, and the longer ones that look like an address, a       *)
(* device (also behind links), a volume or the namespace of the kernel.    *)
somePaths ==
  UpTo(5, {"\\", "/", ".", "?", ":", "z", NUL})
  \cup {Unc \o s : s \in UpTo(5, {"\\", ".", "$", "_", ":", "z", "a", "1"})}
  \cup {Unc \o h \o <<"\\">> \o s : h \in UpTo(4, {".", "$", "_", "z", "1"}),
                                    s \in {<<>>, <<"z">>, <<"z", "$">>, <<"z", ".">>, <<".">>}}
  \cup {Unc \o Join(o, <<".">>) \o <<"\\", "z">> :
          o \in UNION {[1 .. n -> {<<>>, <<"1">>, <<"1", "3">>, <<"3", "1">>, <<"z">>}] : n \in 3 .. 5}}
  \cup {Unc \o Join(b, <<":">>) \o s :
          b \in UNION {[1 .. n -> {<<>>, <<"a">>}] : n \in 3 .. 10}, s \in {<<>>, <<"\\", "z">>}}
  \cup {Dev(c) \o d \o s : c \in {".", "?"}, d \in Behind,
                            s \in UpTo(3, {"UNC", "DosDevices", "CON", "COM", "1", "\\", "/", ":", "z"})}
  \cup {Dev(".") \o <<w>> \o s : w \in {"PRN", "LPT"}, s \in UpTo(2, {"1", "/", "z"})}
  \cup {Unc \o <<w>> \o s : w \in Words \cup {"Volume{"}, s \in UpTo(3, {"\\", "$", "CON", "1"})}
  \cup {Unc \o <<"z", "\\", w>> \o s : w \in Words \cup {"1"}, s \in UpTo(2, {"$", "/", "1"})}
  \cup {Dev(c) \o <<"Volume{">> \o g \o e : c \in {".", "?"},
          g \in {guid, Tail(guid), SubSeq(guid, 1, 8)}, e \in {<<>>, <<"}">>, <<"}", "/">>}}
  \cup {<<"/", "GLOBAL">> \o s : s \in UpTo(3, {"?", "/", "z"})}

-----------------------------------------------------------------------------
Init == MemInit /\ PathInit
Next == \/ path = <<>> /\ MemNext /\ UNCHANGED path
        \/ call = NoCall /\ PathNext /\ UNCHANGED call
Spec == Init /\ [][Next]_<<call, path>>
=============================================================================
