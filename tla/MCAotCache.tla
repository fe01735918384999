----------------------------- MODULE MCAotCache -----------------------------
(***************************************************************************)
(* Two programs have blocks of different lengths at the same pc, so that a *)
(* file of one is longer than a file of the other; the uninitialised words *)
(* include the ones that make a torn header look right.                    *)
(***************************************************************************)
EXTENDS AotCache, TLC

MCPCs == {4}
MCBlocks ==
    [pc \in MCPCs |-> {[code |-> <<31, 32, 33>>, count |-> 2], [code |-> <<41, 42>>, count |-> 1]}]
MCGarbage == {0, 2, 4}
Symmetry == Permutations(Procs)
=============================================================================
