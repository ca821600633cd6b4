------------------------------ MODULE MCUpload ------------------------------
(* Upload for TLC: handlers are interchangeable, and no session counts more than *)
(* MaxCount chunks.                                                              *)
EXTENDS Upload, TLC

CONSTANT MaxCount

Bounded == \A s \in Sessions : IsRow(s)' => sessions'[s].uploaded <= MaxCount

UploadSpec == Init /\ [][Next /\ Bounded]_vars

Symmetry == Permutations(Calls)
=============================================================================
