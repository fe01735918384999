------------------------- MODULE MCTranslationCache -------------------------
(***************************************************************************)
(* Model of the translation cache: three block addresses, a capacity of    *)
(* two, a pool that holds three allocations and a rest too small for one,  *)
(* blocks hot after two hits.                                              *)
(***************************************************************************)
EXTENDS TranslationCache

MCPCs == {0, 4, 8}
MCAllocSizes == {2}
=============================================================================
