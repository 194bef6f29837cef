--------------------------- MODULE MCFlashBlocks ---------------------------
(* Model-checking instance of the block registry: four blocks, erase       *)
(* failures and bad blocks enabled.                                        *)
EXTENDS FlashBlocks
=============================================================================
