------------------------------ MODULE MCIOFile ------------------------------
(***************************************************************************)
(* The files the runs of IOFile construct: the three standard streams as   *)
(* PFiles.cpp makes them, with smaller buffers, on a device that fails in  *)
(* every way it can, and files for update, also on a device that always    *)
(* answers in full.                                                        *)
(***************************************************************************)
EXTENDS IOFile

pout == [mode |-> {"w"}, buf_mode |-> "Full", array |-> 2, fails |-> TRUE]
perr == [mode |-> {"w"}, buf_mode |-> "None", array |-> 0, fails |-> TRUE]
pin  == [mode |-> {"r"}, buf_mode |-> "Full", array |-> 3, fails |-> TRUE]
both == [mode |-> {"r", "+"}, buf_mode |-> "Full", array |-> 2, fails |-> TRUE]
sure == [both EXCEPT !.fails = FALSE]
raw  == [mode |-> {"r", "+"}, buf_mode |-> "None", array |-> 0, fails |-> FALSE]

AllFiles == {pout, perr, pin, both, sure, raw}
OutFiles == {pout}
=============================================================================
