----------------------------- MODULE MCDecoder -----------------------------
(* All values of bits 31 to 21 of a word, with chosen values of the fields  *)
(* below: bits 20 to 16 (Rm or opcode2), 15 to 10, 9 to 5 (Rn), 4 to 0 (Rd);*)
(* and NOP.                                                                 *)
EXTENDS A64

CONSTANTS Rms, Mids, Rns, Rds

MCWords == ({hi * 32 + rm : hi \in 0..2047, rm \in Rms} \X
           {mid * 1024 + rn * 32 + rd : mid \in Mids, rn \in Rns, rd \in Rds})
           \cup {<<\hD503, \h201F>>}
=============================================================================
