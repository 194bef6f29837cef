--------------------------- MODULE MCFlashStore ----------------------------
(* Model-checking instance of the flash store.  The constants are given    *)
(* in the .cfg files: each run picks the device geometry, the stores, the  *)
(* object sizes, the driver faults and the caller misuse it explores.      *)
EXTENDS FlashStore
=============================================================================
