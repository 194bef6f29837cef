---------------------------- MODULE FlashBlocks ----------------------------
(***************************************************************************)
(* The block registry of the flash store (src/store/flash.c): the array   *)
(* flash_blocks of per-block control records, the two intrusive lists     *)
(* threaded through it (flash_free_blocks and flash_bad_blocks), the      *)
(* counters flash_used_block_count and flash_error_count, and the pages   *)
(* of the device itself as the driver exposes them.                       *)
(*                                                                         *)
(* The registry operations are written as operators from a device record  *)
(* to a device record, so that the page engine (FlashStore) can run them  *)
(* inside its write and delete loops.  The second half of the module is   *)
(* a stand-alone specification of the allocator driven the way test_1 of  *)
(* src/unittest/ut_flash.c drives it: allocate and reclaim in any order.  *)
(***************************************************************************)
EXTENDS Integers, Sequences, FiniteSets, SequencesExt

CONSTANTS
    NumBlocks,      \* FLASH_DRIVER.num_blocks
    PagesPerBlock,  \* FLASH_DRIVER.pages_per_block
    EraseCanFail,   \* whether the driver's erase may report failure
    BadCanAppear    \* whether the driver's isbad may report a block bad

ASSUME NumBlocks \in Nat \ {0} /\ PagesPerBlock \in Nat \ {0}
ASSUME EraseCanFail \in BOOLEAN /\ BadCanAppear \in BOOLEAN

Blocks == 0 .. NumBlocks - 1
Pages  == 0 .. PagesPerBlock - 1
NoBlock == -1                       \* BP_FLASH_INVALID_INDEX

(***************************************************************************)
(* Page contents.  A page holds either nothing (erased, all ones), the    *)
(* first page of an object (sync magic and the header fields) or a later  *)
(* page of an object.  oid and part are not stored by the code: they name *)
(* which object and which page of it the bytes came from, so that a read  *)
(* can be checked against what was written.  A failed program leaves the  *)
(* page with bytes that do not carry the sync magic (Junk).               *)
(***************************************************************************)
Erased == [sync |-> FALSE, oid |-> 0, part |-> 0, handle |-> -1, size |-> 0, sid |-> 0]
Junk   == [Erased EXCEPT !.oid = -1]
ErasedBlock == [p \in Pages |-> Erased]

EmptyList == [out |-> NoBlock, in |-> NoBlock, count |-> 0]

\* A cleared control record, as flash_free_reclaim writes it.
ClearRecord == [next_block |-> NoBlock, prev_block |-> NoBlock,
                max_pages |-> PagesPerBlock, page_use |-> Pages]

(***************************************************************************)
(* flash_block_list_add: append block b at the in end of list l ("free"   *)
(* or "bad") of device d.  When the list is empty only out is set, and b  *)
(* still gets the stale in as its prev_block.                              *)
(***************************************************************************)
\* Variant with the link from the old in block left out.
ListAddNoLink(d, l, b) ==
    [d EXCEPT !.blocks[b].prev_block = d[l].in,
              ![l] = [out   |-> IF d[l].out = NoBlock THEN b ELSE d[l].out,
                      in    |-> b,
                      count |-> d[l].count + 1]]

\* Variant that tests in, not out, for an empty list.
ListAddInCheck(d, l, b) ==
    LET list == d[l]
        linked == IF list.in = NoBlock THEN d.blocks
                  ELSE [d.blocks EXCEPT ![list.in].next_block = b]
    IN  [d EXCEPT !.blocks = [linked EXCEPT ![b].prev_block = list.in],
                  ![l] = [out   |-> IF list.out = NoBlock THEN b ELSE list.out,
                          in    |-> b,
                          count |-> list.count + 1]]

ListAdd(d, l, b) ==
    LET list == d[l]
        linked == IF list.out = NoBlock THEN d.blocks
                  ELSE [d.blocks EXCEPT ![list.in].next_block = b]
    IN  [d EXCEPT !.blocks = [linked EXCEPT ![b].prev_block = list.in],
                  ![l] = [out   |-> IF list.out = NoBlock THEN b ELSE list.out,
                          in    |-> b,
                          count |-> list.count + 1]]

(***************************************************************************)
(* flash_free_reclaim: clear the control record, count the block as no    *)
(* longer used and append it to the free list, or to the bad list when    *)
(* the driver reports it bad.  It succeeds iff the block is not bad.      *)
(***************************************************************************)
\* Variant that does not take the block off the used count.
ReclaimKeepsCount(d, b, isbad) ==
    ListAdd([d EXCEPT !.blocks[b] = ClearRecord], IF isbad THEN "bad" ELSE "free", b)

Reclaim(d, b, isbad) ==
    LET d1 == [d EXCEPT !.blocks[b] = ClearRecord, !.used = @ - 1]
    IN  ListAdd(d1, IF isbad THEN "bad" ELSE "free", b)

(***************************************************************************)
(* flash_free_allocate: erase the block at the out end of the free list;  *)
(* on success hand it out, on failure count the error, append it to the   *)
(* bad list and try the next one.  Either way out moves to next_block of  *)
(* the candidate and the free count drops.  efail is the set of blocks    *)
(* whose erase fails during this call: a block that fails goes bad and is *)
(* never erased again, so each candidate is tried at most once.           *)
(***************************************************************************)
RECURSIVE Allocate(_, _)

\* Variant that hands out the out block without moving out past it.
AllocateNoAdvance(d, efail) ==
    IF d.free.out = NoBlock
    THEN [ok |-> FALSE, block |-> NoBlock, dev |-> d]
    ELSE LET c == d.free.out
         IN  IF c \in efail
             THEN Allocate([ListAdd([d EXCEPT !.errors = @ + 1], "bad", c)
                              EXCEPT !.free.out = d.blocks[c].next_block,
                                     !.free.count = @ - 1], efail)
             ELSE [ok |-> TRUE, block |-> c,
                   dev |-> [d EXCEPT !.used = @ + 1, !.flash[c] = ErasedBlock,
                                     !.free.count = @ - 1]]

Allocate(d, efail) ==
    IF d.free.out = NoBlock
    THEN [ok |-> FALSE, block |-> NoBlock, dev |-> d]
    ELSE LET c  == d.free.out
             d1 == IF c \in efail
                   THEN ListAdd([d EXCEPT !.errors = @ + 1], "bad", c)
                   ELSE [d EXCEPT !.used = @ + 1, !.flash[c] = ErasedBlock]
             d2 == [d1 EXCEPT !.free.out = d1.blocks[c].next_block,
                              !.free.count = @ - 1]
         IN  IF c \in efail THEN Allocate(d2, efail)
             ELSE [ok |-> TRUE, block |-> c, dev |-> d2]

(***************************************************************************)
(* The blocks met walking a list from out along next_block until the      *)
(* invalid index; the walk is cut after NumBlocks + 1 blocks, so a cycle  *)
(* shows up as a walk longer than the device.                              *)
(***************************************************************************)
RECURSIVE WalkFrom(_, _, _)
WalkFrom(blks, b, fuel) ==
    IF b = NoBlock \/ fuel = 0 THEN <<>>
    ELSE <<b>> \o WalkFrom(blks, blks[b].next_block, fuel - 1)

ListWalk(d, l) == WalkFrom(d.blocks, d[l].out, NumBlocks + 1)

\* A list is sound when walking it from out visits count distinct blocks,
\* the last of them being in, and then stops.
ListSound(d, l) ==
    LET w == ListWalk(d, l)
    IN  /\ Len(w) = d[l].count
        /\ Cardinality(ToSet(w)) = Len(w)
        /\ w # <<>> => Last(w) = d[l].in

\* The logging loop of bplib_store_flash_stats over device d stops: a walk
\* cut at NumBlocks + 1 blocks has met a block twice.
LogWalkEnds(d) == Len(ListWalk(d, "bad")) <= NumBlocks

\* ... and the bad.count blocks it prints first are the bad list, ending at in.
BadListLogged(d) ==
    LET w == ListWalk(d, "bad")
    IN  /\ LogWalkEnds(d)
        /\ d.bad.count <= Len(w)
        /\ Cardinality(ToSet(SubSeq(w, 1, d.bad.count))) = d.bad.count
        /\ d.bad.count > 0 => w[d.bad.count] = d.bad.in

(***************************************************************************)
(* bplib_store_flash_init in FORMAT mode: both lists empty, then every    *)
(* block reclaimed in index order, then both counters zeroed.  bad is the *)
(* set of blocks the driver reports bad.  The control records come from   *)
(* malloc; every field reclaim reads has been written before it is read.  *)
(***************************************************************************)
RECURSIVE FormatFrom(_, _, _)
FormatFrom(d, b, badset) ==
    IF b = NumBlocks THEN d
    ELSE FormatFrom(Reclaim(d, b, b \in badset), b + 1, badset)

Format(badset) ==
    LET d0 == [blocks |-> [b \in Blocks |-> ClearRecord],
               free |-> EmptyList, bad |-> EmptyList,
               used |-> 0, errors |-> 0,
               flash |-> [b \in Blocks |-> ErasedBlock]]
    IN  [FormatFrom(d0, 0, badset) EXCEPT !.errors = 0, !.used = 0]

\* The inputs the driver may produce in one call.
EraseFailSets == IF EraseCanFail THEN {{}} \cup {{b} : b \in Blocks} ELSE {{}}
BadAnswers    == IF BadCanAppear THEN BOOLEAN ELSE {FALSE}
InitialBadSets == IF BadCanAppear THEN {{}} \cup {{b} : b \in Blocks} ELSE {{}}

-----------------------------------------------------------------------------
(***************************************************************************)
(* Stand-alone specification of the registry.  owned is the set of blocks *)
(* the caller holds: what allocate handed out and reclaim has not taken   *)
(* back (test_1 allocates every block and reclaims them in reverse).      *)
(***************************************************************************)
VARIABLES blocks, free, bad, used, errors, flash, owned

regvars == <<blocks, free, bad, used, errors, flash, owned>>

Dev == [blocks |-> blocks, free |-> free, bad |-> bad,
        used |-> used, errors |-> errors, flash |-> flash]

SetDev(d) ==
    /\ blocks' = d.blocks /\ free' = d.free /\ bad' = d.bad
    /\ used' = d.used /\ errors' = d.errors /\ flash' = d.flash

IsDev(d) ==
    /\ blocks = d.blocks /\ free = d.free /\ bad = d.bad
    /\ used = d.used /\ errors = d.errors /\ flash = d.flash

RegInit ==
    /\ \E b0 \in InitialBadSets : IsDev(Format(b0))
    /\ owned = {}

AllocateStep ==
    \E ef \in EraseFailSets :
        LET r == Allocate(Dev, ef)
        IN  /\ SetDev(r.dev)
            /\ owned' = IF r.ok THEN owned \cup {r.block} ELSE owned

ReclaimStep ==
    \E b \in owned, isbad \in BadAnswers :
        /\ SetDev(Reclaim(Dev, b, isbad))
        /\ owned' = owned \ {b}

\* bplib_store_flash_stats with reset_stats: only the error counter changes.
StatsReset ==
    /\ errors' = 0
    /\ UNCHANGED <<blocks, free, bad, used, flash, owned>>

RegNext == AllocateStep \/ ReclaimStep \/ StatsReset

RegSpec == RegInit /\ [][RegNext]_regvars

-----------------------------------------------------------------------------
RegTypeOK ==
    /\ blocks \in [Blocks -> [next_block : Blocks \cup {NoBlock},
                              prev_block : Blocks \cup {NoBlock},
                              max_pages : 0 .. PagesPerBlock,
                              page_use : SUBSET Pages]]
    /\ free \in [out : Blocks \cup {NoBlock}, in : Blocks \cup {NoBlock}, count : 0 .. NumBlocks]
    /\ bad \in [out : Blocks \cup {NoBlock}, in : Blocks \cup {NoBlock}, count : 0 .. NumBlocks]
    /\ used \in 0 .. NumBlocks /\ errors \in Nat
    /\ owned \subseteq Blocks

(***************************************************************************)
(* Free list integrity (spec P1, P2, I1, I2): after any interleaving of   *)
(* allocate (with erase failures) and reclaim (with blocks turning bad),  *)
(* walking the free list from out visits exactly free.count distinct      *)
(* blocks ending at in, none of them held by the caller; and every block  *)
(* is counted once as free, bad or used, used matching what is held.     *)
(***************************************************************************)
FreeListIntact ==
    /\ ListSound(Dev, "free")
    /\ ToSet(ListWalk(Dev, "free")) \cap owned = {}
    /\ free.count + bad.count + used = NumBlocks
    /\ used = Cardinality(owned)

(***************************************************************************)
(* The bad list, walked from out along next_block the way the logging     *)
(* loop of bplib_store_flash_stats walks it, lists exactly the bad        *)
(* blocks.                                                                 *)
(***************************************************************************)
BadListIntact == ListSound(Dev, "bad")

(***************************************************************************)
(* The stats log ends (flash.c:667-672).  The loop follows next_block from *)
(* bad.out without the device lock and with no bound: the blocks a failed *)
(* erase puts on the bad list keep their free-list next_block, so the     *)
(* walk runs on through free and used blocks.  It must still print every  *)
(* bad block first and then reach the invalid index: no interleaving of   *)
(* allocate, erase failure and reclaim may close a cycle of next_block    *)
(* links through the bad list's last block.                                *)
(***************************************************************************)
StatsLogEnds == BadListLogged(Dev)
=============================================================================
