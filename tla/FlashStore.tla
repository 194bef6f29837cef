----------------------------- MODULE FlashStore -----------------------------
(***************************************************************************)
(* The flash-backed object store of src/store/flash.c: the page-level     *)
(* read/write engine (flash_data_write, flash_data_read), the object      *)
(* framing layer (flash_object_write/read/scan/delete), the store table   *)
(* and the public API (the bplib_store_flash functions).  The registry  *)
(* comes from FlashBlocks.  Every public call that takes the device lock *)
(* is one atomic action: the lock serialises them.  release and getcount *)
(* do not take the lock.                                                  *)
(*                                                                         *)
(* Sizes are in units: a page carries PageSize units, the object header   *)
(* (flash_object_hdr_t) takes HdrSize of them.                            *)
(***************************************************************************)
EXTENDS Integers, Sequences, FiniteSets, SequencesExt

CONSTANTS
    NumBlocks, PagesPerBlock,
    PageSize,       \* FLASH_DRIVER.page_size, in units
    HdrSize,        \* sizeof(flash_object_hdr_t), in units
    NumStores,      \* FLASH_MAX_STORES
    AttrSizes,      \* max_data_size values passed to create; 0 stands for a NULL attr
    DataSizes,      \* payload sizes the callers enqueue
    MaxObjects,     \* bound: number of enqueue calls
    MaxFaults,      \* bound: number of driver faults injected
    Faults,         \* driver faults that may occur: "erase", "write", "read", "bad"
    Misuse,         \* caller misuse explored: "lease", "stale"
    Lifecycle       \* whether the higher layer destroys and re-creates stores

ASSUME PageSize > HdrSize /\ HdrSize > 0
ASSUME AttrSizes \subseteq Nat
ASSUME DataSizes \subseteq Nat /\ MaxObjects \in Nat /\ MaxFaults \in Nat
ASSUME Faults \subseteq {"erase", "write", "read", "bad"}
ASSUME Misuse \subseteq {"lease", "stale"}
ASSUME Lifecycle \in BOOLEAN

VARIABLES
    blocks, free, bad, used, errors, flash,   \* registry and device (FlashBlocks)
    stores,         \* flash_stores[]
    locked,         \* flash_device_lock held by a call that never returned
    \* history variables: what the code does not keep but the properties need
    nextOid,        \* objects enqueued so far (names the object written)
    committed,      \* objects whose enqueue succeeded and relinquish has not
    held,           \* per store: the [sid, oid] pairs the caller got from reads
    faults          \* driver faults injected so far

LOCAL INSTANCE FlashBlocks
    WITH EraseCanFail <- "erase" \in Faults, BadCanAppear <- "bad" \in Faults,
         owned <- {}

vars == <<blocks, free, bad, used, errors, flash, stores, locked,
          nextOid, committed, held, faults>>

Stores == 0 .. NumStores - 1
Addr   == [block : Blocks, page : Pages]
NoAddr == [block |-> NoBlock, page |-> 0]
Sids   == 1 .. NumBlocks * PagesPerBlock

\* FLASH_GET_SID, FLASH_GET_BLOCK, FLASH_GET_PAGE
SidOf(a)  == a.block * PagesPerBlock + a.page + 1
AddrOf(sid) == [block |-> (sid - 1) \div PagesPerBlock, page |-> (sid - 1) % PagesPerBlock]

\* bytes_to_copy: min(bytes_left, page_size)
BytesToCopy(left) == IF left < PageSize THEN left ELSE PageSize

MaxPages(d, b) == d.blocks[b].max_pages

\* The address check at the top of flash_data_write and flash_data_read.
ValidAddr(d, a) == a.block \in Blocks /\ a.page < MaxPages(d, a.block)

\* The address after a, moving to next_block once a block's pages are used.
NextAddr(d, a) ==
    IF a.page + 1 = MaxPages(d, a.block)
    THEN [block |-> d.blocks[a.block].next_block, page |-> 0]
    ELSE [a EXCEPT !.page = @ + 1]

-----------------------------------------------------------------------------
(***************************************************************************)
(* flash_data_read: copy pages from a until left units are read.  rf is   *)
(* the set of addresses whose read fails once in this call.  A failed     *)
(* read counts an error and returns with a unchanged; reaching the end of *)
(* a block with no next block is a failure even when nothing is left.     *)
(***************************************************************************)
RECURSIVE ReadLoop(_, _, _, _, _)

\* Variant that gives up at the end of every block, next_block or not.
ReadLoopNoNext(d, a, left, acc, rf) ==
    IF left <= 0
    THEN [status |-> "SUCCESS", addr |-> a, data |-> acc, dev |-> d, rf |-> rf]
    ELSE IF a \in rf
    THEN [status |-> "ERROR", addr |-> a, data |-> acc,
          dev |-> [d EXCEPT !.errors = @ + 1], rf |-> rf \ {a}]
    ELSE IF a.page + 1 = MaxPages(d, a.block)
    THEN [status |-> "FAILEDSTORE", addr |-> [a EXCEPT !.page = @ + 1],
          data |-> Append(acc, d.flash[a.block][a.page]), dev |-> d, rf |-> rf]
    ELSE ReadLoop(d, NextAddr(d, a), left - BytesToCopy(left),
                  Append(acc, d.flash[a.block][a.page]), rf)

ReadLoop(d, a, left, acc, rf) ==
    IF left <= 0
    THEN [status |-> "SUCCESS", addr |-> a, data |-> acc, dev |-> d, rf |-> rf]
    ELSE IF a \in rf
    THEN [status |-> "ERROR", addr |-> a, data |-> acc,
          dev |-> [d EXCEPT !.errors = @ + 1], rf |-> rf \ {a}]
    ELSE LET acc1 == Append(acc, d.flash[a.block][a.page])
             left1 == left - BytesToCopy(left)
             end == a.page + 1 = MaxPages(d, a.block)
         IN  IF end /\ d.blocks[a.block].next_block = NoBlock
             THEN [status |-> "FAILEDSTORE", addr |-> [a EXCEPT !.page = @ + 1],
                   data |-> acc1, dev |-> d, rf |-> rf]
             ELSE ReadLoop(d, NextAddr(d, a), left1, acc1, rf)

DataRead(d, a, n, rf) ==
    IF ValidAddr(d, a) THEN ReadLoop(d, a, n, <<>>, rf)
    ELSE [status |-> "FAILEDSTORE", addr |-> a, data |-> <<>>, dev |-> d, rf |-> rf]

(***************************************************************************)
(* flash_data_write: program page k of parts at a, for left units.  wf is *)
(* the set of addresses whose program fails once in this call, ef the    *)
(* blocks whose erase fails, isbad the blocks the driver reports bad.     *)
(* A failed program counts an error; at page > 0 it truncates the block  *)
(* (max_pages := page), at page 0 it reclaims the block; then a fresh     *)
(* block is allocated and linked after the failed block's prev_block     *)
(* (read after the reclaim) and the same page is tried there.  After a    *)
(* good program the page advances and a full block is chained to a fresh *)
(* one at once.  Programming a page that is not erased yields Junk.       *)
(***************************************************************************)
\* Variant that sets only the new block's prev_block.
ChainBlockNoForward(d, b, nb) == [d EXCEPT !.blocks[nb].prev_block = b]

\* Variant that writes the back link into the new block's next_block.
ChainBlockNextSwap(d, b, nb) ==
    [d EXCEPT !.blocks[b].next_block = nb, !.blocks[nb].next_block = b]
\* Chain the fresh block nb after the full block b.
ChainBlock(d, b, nb) ==
    [d EXCEPT !.blocks[b].next_block = nb, !.blocks[nb].prev_block = b]

RECURSIVE WriteLoop(_, _, _, _, _, _, _, _)
WriteLoop(d, a, k, left, parts, wf, ef, isbad) ==
    IF left <= 0 THEN [status |-> "SUCCESS", addr |-> a, dev |-> d]
    ELSE IF a \in wf
    THEN LET d1 == [d EXCEPT !.errors = @ + 1, !.flash[a.block][a.page] = Junk]
             d2 == IF a.page > 0
                   THEN [d1 EXCEPT !.blocks[a.block].max_pages = a.page]
                   ELSE Reclaim(d1, a.block, a.block \in isbad)
             r  == Allocate(d2, ef)
             pb == r.dev.blocks[a.block].prev_block
             linked == IF pb # NoBlock
                       THEN [r.dev.blocks EXCEPT ![pb].next_block = r.block]
                       ELSE r.dev.blocks
             d3 == [r.dev EXCEPT !.blocks = [linked EXCEPT ![r.block].prev_block = pb]]
         IN  IF r.ok
             THEN WriteLoop(d3, [block |-> r.block, page |-> 0], k, left,
                            parts, wf \ {a}, ef, isbad)
             ELSE [status |-> "FAILEDSTORE", addr |-> a, dev |-> r.dev]
    ELSE LET d1 == [d EXCEPT !.flash[a.block][a.page] =
                                 IF @ = Erased THEN parts[k] ELSE Junk]
             left1 == left - BytesToCopy(left)
             a1 == [a EXCEPT !.page = @ + 1]
             r  == Allocate(d1, ef)
             d3 == ChainBlock(r.dev, a.block, r.block)
         IN  IF a1.page # MaxPages(d1, a.block)
             THEN WriteLoop(d1, a1, k + 1, left1, parts, wf, ef, isbad)
             ELSE IF r.ok
             THEN WriteLoop(d3, [block |-> r.block, page |-> 0], k + 1, left1,
                            parts, wf, ef, isbad)
             ELSE [status |-> "FAILEDSTORE", addr |-> a1, dev |-> r.dev]

DataWrite(d, a, n, parts, wf, ef, isbad) ==
    IF ValidAddr(d, a) THEN WriteLoop(d, a, 0, n, parts, wf, ef, isbad)
    ELSE [status |-> "FAILEDSTORE", addr |-> a, dev |-> d]

-----------------------------------------------------------------------------
(***************************************************************************)
(* Object framing.  An object of size units takes HdrSize + size units:  *)
(* the first page carries the header (sync magic, handle, size, sid) and *)
(* the start of the data, the rest of the data follows page by page.     *)
(***************************************************************************)
NumParts(size) == (HdrSize + size + PageSize - 1) \div PageSize

Header(o, h, size, sid) ==
    [sync |-> TRUE, oid |-> o, part |-> 0, handle |-> h, size |-> size, sid |-> sid]

Payload(o, i) == [Erased EXCEPT !.oid = o, !.part = i]

\* The pages the write stage holds for object o: header first, then data.
StageParts(o, h, size, sid) ==
    [k \in 0 .. NumParts(size) - 1 |-> IF k = 0 THEN Header(o, h, size, sid)
                                       ELSE Payload(o, k)]

(***************************************************************************)
(* test_3 of ut_flash.c on the device d: allocate a block, write n units  *)
(* from its page 0, then read n units back from page 0.  The data are    *)
(* payload pages of an object id no enqueue uses.                         *)
(***************************************************************************)
PageRoundTrip(d, n) ==
    LET r0 == Allocate(d, {})
        a0 == [block |-> r0.block, page |-> 0]
        parts == [k \in 0 .. (n + PageSize - 1) \div PageSize - 1 |-> Payload(MaxObjects + 1, k)]
        w == DataWrite(r0.dev, a0, n, parts, {}, {}, {})
        r == DataRead(w.dev, a0, n, {})
    IN  [alloc |-> r0.ok, parts |-> parts, write |-> w, read |-> r]

(***************************************************************************)
(* flash_object_write: the room check against the free blocks and the    *)
(* store's max_data_size, then the header stamped with the sid of the    *)
(* write address as it is before the write, then flash_data_write.       *)
(***************************************************************************)
\* Variant that stamps the sid of the address the write ends at.
ObjectWriteLateSid(d, fs, h, size, o, wf, ef, isbad) ==
    LET r0 == DataWrite(d, fs.write_addr, HdrSize + size,
                        StageParts(o, h, size, 0), wf, ef, isbad)
        sid == SidOf(r0.addr)
        r == DataWrite(d, fs.write_addr, HdrSize + size,
                       StageParts(o, h, size, sid), wf, ef, isbad)
    IN  IF d.free.count * PagesPerBlock * PageSize >= HdrSize + size
           /\ fs.max_data_size >= HdrSize + size
        THEN [status |-> r.status, addr |-> r.addr, dev |-> r.dev, sid |-> sid]
        ELSE [status |-> "STOREFULL", addr |-> fs.write_addr, dev |-> d, sid |-> 0]

\* Variant without the room check against the free blocks.
ObjectWriteNoRoomCheck(d, fs, h, size, o, wf, ef, isbad) ==
    LET sid == SidOf(fs.write_addr)
        r == DataWrite(d, fs.write_addr, HdrSize + size,
                       StageParts(o, h, size, sid), wf, ef, isbad)
    IN  IF fs.max_data_size >= HdrSize + size
        THEN [status |-> r.status, addr |-> r.addr, dev |-> r.dev, sid |-> sid]
        ELSE [status |-> "STOREFULL", addr |-> fs.write_addr, dev |-> d, sid |-> 0]

ObjectWrite(d, fs, h, size, o, wf, ef, isbad) ==
    LET needed == HdrSize + size
        sid == SidOf(fs.write_addr)
        r == DataWrite(d, fs.write_addr, needed,
                       StageParts(o, h, size, sid), wf, ef, isbad)
    IN  IF d.free.count * PagesPerBlock * PageSize >= needed /\ fs.max_data_size >= needed
        THEN [status |-> r.status, addr |-> r.addr, dev |-> r.dev, sid |-> sid]
        ELSE [status |-> "STOREFULL", addr |-> fs.write_addr, dev |-> d, sid |-> 0]

\* The read stage after data has been copied over its first pages.
Overlay(stage, data) == data \o SubSeq(stage, Len(data) + 1, Len(stage))

(***************************************************************************)
(* flash_object_read: refuse while the stage is locked; read one page,   *)
(* validate size, handle and sync, read the rest of the data from where  *)
(* the first read stopped; lock the stage on success.  a is advanced the *)
(* way the reads advance it, and the stage keeps whatever was copied.   *)
(***************************************************************************)
\* Variant that returns the object without locking the stage.
ObjectReadNoLock(d, fs, h, a, rf) ==
    LET r == DataRead(d, a, PageSize, rf)
    IN  IF fs.stage_locked
        THEN [status |-> "FAILEDSTORE", addr |-> a, dev |-> d, rf |-> rf, fs |-> fs]
        ELSE [status |-> IF r.status = "SUCCESS" /\ r.data[1].sync THEN "SUCCESS"
                         ELSE "FAILEDSTORE",
              addr |-> r.addr, dev |-> r.dev, rf |-> r.rf,
              fs |-> [fs EXCEPT !.stage = Overlay(@, r.data)]]

\* Variant that reads the rest of the object from the object's start
\* again instead of from where the header read stopped.
ObjectReadRestart(d, fs, h, a, rf) ==
    LET r1  == DataRead(d, a, PageSize, rf)
        hdr == r1.data[1]
        valid == hdr.size <= fs.max_data_size /\ hdr.handle = h /\ hdr.sync
        remaining == hdr.size - (PageSize - HdrSize)
        r2  == IF r1.status = "SUCCESS" /\ valid /\ remaining > 0
               THEN DataRead(r1.dev, a, remaining, r1.rf)
               ELSE [r1 EXCEPT !.data = <<>>]
        status == IF r1.status # "SUCCESS" THEN r1.status
                  ELSE IF ~valid THEN "FAILEDSTORE" ELSE r2.status
    IN  IF fs.stage_locked
        THEN [status |-> "FAILEDSTORE", addr |-> a, dev |-> d, rf |-> rf, fs |-> fs]
        ELSE [status |-> status, addr |-> r2.addr, dev |-> r2.dev, rf |-> r2.rf,
              fs |-> [fs EXCEPT !.stage = Overlay(@, r1.data \o r2.data),
                                !.stage_locked = (status = "SUCCESS")]]

ObjectRead(d, fs, h, a, rf) ==
    LET r1  == DataRead(d, a, PageSize, rf)
        hdr == r1.data[1]
        valid == hdr.size <= fs.max_data_size /\ hdr.handle = h /\ hdr.sync
        remaining == hdr.size - (PageSize - HdrSize)
        r2  == IF r1.status = "SUCCESS" /\ valid /\ remaining > 0
               THEN DataRead(r1.dev, r1.addr, remaining, r1.rf)
               ELSE [r1 EXCEPT !.data = <<>>]
        status == IF r1.status # "SUCCESS" THEN r1.status
                  ELSE IF ~valid THEN "FAILEDSTORE" ELSE r2.status
    IN  IF fs.stage_locked
        THEN [status |-> "FAILEDSTORE", addr |-> a, dev |-> d, rf |-> rf, fs |-> fs]
        ELSE [status |-> status, addr |-> r2.addr, dev |-> r2.dev, rf |-> r2.rf,
              fs |-> [fs EXCEPT !.stage = Overlay(@, r1.data \o r2.data),
                                !.stage_locked = (status = "SUCCESS")]]

(***************************************************************************)
(* flash_object_scan: from a, read a header's worth at each address until *)
(* one carries the sync magic.  The read itself advances a (past the     *)
(* header found, or one page on a good read), and a miss adds one more   *)
(* page, following next_block at max_pages.  A read that stops at the    *)
(* end of a chain leaves page = max_pages, the increment takes it past   *)
(* it and the loop never ends: that outcome, and a walk longer than the  *)
(* device, is "SPIN".                                                     *)
(***************************************************************************)
RECURSIVE ScanLoop(_, _, _, _)
ScanLoop(d, a, rf, fuel) ==
    IF a.block = NoBlock
    THEN [status |-> "ERROR", addr |-> a, dev |-> d, rf |-> rf]
    ELSE IF fuel = 0 \/ a.page > MaxPages(d, a.block)
    THEN [status |-> "SPIN", addr |-> a, dev |-> d, rf |-> rf]
    ELSE LET r == DataRead(d, a, HdrSize, rf)
             a1 == [r.addr EXCEPT !.page = @ + 1]
             a2 == IF a1.page = MaxPages(r.dev, a1.block)
                   THEN [block |-> r.dev.blocks[a1.block].next_block, page |-> 0]
                   ELSE a1
         IN  IF r.status = "SUCCESS" /\ r.data[1].sync
             THEN [status |-> "SUCCESS", addr |-> r.addr, dev |-> r.dev, rf |-> r.rf]
             ELSE ScanLoop(r.dev, a2, r.rf, fuel - 1)

ObjectScan(d, a, rf) == ScanLoop(d, a, rf, NumBlocks * PagesPerBlock + 1)

(***************************************************************************)
(* The delete loop of flash_object_delete, from address a with left      *)
(* units of the object still to delete.  cur is the block whose free     *)
(* pages cnt counts (the zero bits of page_use, counted again whenever   *)
(* the loop enters another block).  Each page's bit is cleared; when the *)
(* block then has max_pages free pages it is bridged out of its chain    *)
(* and reclaimed, which is refused while data is left to delete.         *)
(***************************************************************************)
RECURSIVE DeleteLoop(_, _, _, _, _, _)

\* Variant that waits for one free page more than the block has.
DeleteLoopOffByOne(d, a, cur, cnt, left, isbad) ==
    LET cnt1 == IF cur = a.block THEN cnt
                ELSE Cardinality(Pages \ d.blocks[a.block].page_use)
        d1 == [d EXCEPT !.blocks[a.block].page_use = @ \ {a.page}]
        cnt2 == IF a.page \in d.blocks[a.block].page_use THEN cnt1 + 1 ELSE cnt1
        nb == d1.blocks[a.block].next_block
        atEnd == a.page + 1 = MaxPages(d1, a.block)
        a1 == IF atEnd THEN [block |-> nb, page |-> 0] ELSE [a EXCEPT !.page = @ + 1]
    IN  IF left <= 0 THEN [status |-> "SUCCESS", dev |-> d]
        ELSE IF atEnd /\ nb = NoBlock THEN [status |-> "FAILEDSTORE", dev |-> d1]
        ELSE DeleteLoop(d1, a1, a.block, cnt2, left - BytesToCopy(left), isbad)

DeleteLoop(d, a, cur, cnt, left, isbad) ==
    IF left <= 0 THEN [status |-> "SUCCESS", dev |-> d]
    ELSE LET cur1 == a.block
             cnt1 == IF cur = a.block THEN cnt
                     ELSE Cardinality(Pages \ d.blocks[a.block].page_use)
             inuse == a.page \in d.blocks[a.block].page_use
             d1 == [d EXCEPT !.blocks[a.block].page_use = @ \ {a.page}]
             cnt2 == IF inuse THEN cnt1 + 1 ELSE cnt1
             left1 == left - BytesToCopy(left)
             nb == d1.blocks[a.block].next_block
             atEnd == a.page + 1 = MaxPages(d1, a.block)
             a1 == IF atEnd THEN [block |-> nb, page |-> 0]
                   ELSE [a EXCEPT !.page = @ + 1]
             pb == d1.blocks[cur1].prev_block
             nx == d1.blocks[cur1].next_block
             b1 == IF pb # NoBlock THEN [d1.blocks EXCEPT ![pb].next_block = nx]
                   ELSE d1.blocks
             b2 == IF nx # NoBlock THEN [b1 EXCEPT ![nx].prev_block = pb] ELSE b1
             d2 == Reclaim([d1 EXCEPT !.blocks = b2], cur1, cur1 \in isbad)
         IN  IF atEnd /\ nb = NoBlock THEN [status |-> "FAILEDSTORE", dev |-> d1]
             ELSE IF cnt2 < MaxPages(d1, cur1)
             THEN DeleteLoop(d1, a1, cur1, cnt2, left1, isbad)
             ELSE IF left1 # 0 THEN [status |-> "FAILEDSTORE", dev |-> d1]
             ELSE [status |-> "SUCCESS", dev |-> d2]

(***************************************************************************)
(* flash_object_delete: the address of the sid must be inside its block, *)
(* its header must read back with the same sid; then the pages of size   *)
(* units (the payload size, the header not counted) are deleted.         *)
(***************************************************************************)
ObjectDelete(d, sid, rf, isbad) ==
    LET a == AddrOf(sid)
        r == DataRead(d, a, HdrSize, rf)
    IN  IF a.page >= MaxPages(d, a.block)
        THEN [status |-> "FAILEDSTORE", dev |-> d]
        ELSE IF r.status # "SUCCESS" THEN [status |-> r.status, dev |-> r.dev]
        ELSE IF r.data[1].sid # sid THEN [status |-> "FAILEDSTORE", dev |-> r.dev]
        ELSE DeleteLoop(r.dev, a, NoBlock, 0, r.data[1].size, isbad)

-----------------------------------------------------------------------------
(***************************************************************************)
(* The store table and the public API.  A store record holds the fields  *)
(* of flash_store_t that the calls use; stage is the read stage as the   *)
(* sequence of pages copied into it.                                      *)
(***************************************************************************)
NoObject == 0

\* memset(flash_stores, 0, ...) in bplib_store_flash_init
ZeroStore == [in_use |-> FALSE, max_data_size |-> 0,
              write_addr |-> [block |-> 0, page |-> 0],
              read_addr |-> [block |-> 0, page |-> 0],
              stage_locked |-> FALSE, stage |-> <<>>, object_count |-> 0]

\* The driver faults of one call: at most one, of the kinds the call meets.
NoFault == [ef |-> {}, wf |-> {}, rf |-> {}, isbad |-> {}]

FaultChoices(kinds) ==
    LET k == kinds \cap Faults
    IN  {NoFault} \cup
        IF faults >= MaxFaults THEN {}
        ELSE UNION {
          IF "erase" \in k THEN {[NoFault EXCEPT !.ef = {b}] : b \in Blocks} ELSE {},
          IF "write" \in k THEN {[NoFault EXCEPT !.wf = {a}] : a \in Addr} ELSE {},
          IF "read"  \in k THEN {[NoFault EXCEPT !.rf = {a}] : a \in Addr} ELSE {},
          IF "bad"   \in k THEN {[NoFault EXCEPT !.isbad = {b}] : b \in Blocks} ELSE {}}

CountFault(f) == faults' = faults + IF f = NoFault THEN 0 ELSE 1

Init ==
    /\ \E b0 \in InitialBadSets : IsDev(Format(b0))
    /\ stores = [s \in Stores |-> ZeroStore]
    /\ locked = FALSE
    /\ nextOid = 0
    /\ committed = {}
    /\ held = [s \in Stores |-> {}]
    /\ faults = 0

\* bplib_store_flash_create with attributes attr: the first store not in
\* use; attributes below a page are refused before anything changes.
Create(attr) ==
    LET idle == {s \in Stores : ~stores[s].in_use}
        s == CHOOSE t \in idle : \A u \in idle : t <= u
        size == IF attr = 0 THEN PageSize ELSE attr
    IN  /\ idle # {}
        /\ attr = 0 \/ attr >= PageSize
        /\ stores' = [stores EXCEPT ![s] =
                        [ZeroStore EXCEPT !.in_use = TRUE,
                                          !.max_data_size = size + HdrSize,
                                          !.write_addr = NoAddr, !.read_addr = NoAddr]]
        /\ UNCHANGED <<blocks, free, bad, used, errors, flash, locked,
                       nextOid, committed, held, faults>>

(***************************************************************************)
(* bplib_store_flash_destroy: frees the stages and clears in_use, no     *)
(* more.  The higher layer drains a store before destroying it: nothing  *)
(* queued, nothing counted, nothing leased.                               *)
(***************************************************************************)
Destroy(s) ==
    /\ Lifecycle
    /\ stores[s].in_use
    /\ stores[s].read_addr = stores[s].write_addr
    /\ stores[s].object_count = 0
    /\ ~stores[s].stage_locked
    /\ stores' = [stores EXCEPT ![s].in_use = FALSE]
    /\ held' = [held EXCEPT ![s] = {}]
    /\ UNCHANGED <<blocks, free, bad, used, errors, flash, locked,
                   nextOid, committed, faults>>

(***************************************************************************)
(* bplib_store_flash_enqueue of size units, object nextOid + 1.  Under   *)
(* the lock: allocate the chain's first block if there is none (failing  *)
(* here returns without unlocking), start the read cursor at the write   *)
(* cursor if the queue is empty, write the object, count it on success.  *)
(***************************************************************************)
Enqueue(s, size) ==
    /\ ~locked
    /\ stores[s].in_use
    /\ nextOid < MaxObjects
    /\ \E f \in FaultChoices({"erase", "write", "bad"}) :
        LET fs == stores[s]
            o  == nextOid + 1
            r0 == Allocate(Dev, f.ef)
            first == fs.write_addr.block = NoBlock
            d0 == IF first THEN r0.dev ELSE Dev
            wa == IF first THEN [fs.write_addr EXCEPT !.block = r0.block]
                  ELSE fs.write_addr
            fs1 == [fs EXCEPT !.write_addr = wa,
                              !.read_addr = IF @.block = NoBlock THEN wa ELSE @]
            w  == ObjectWrite(d0, fs1, s, size, o, f.wf, f.ef, f.isbad)
            ok == w.status = "SUCCESS"
        IN  /\ CountFault(f)
            /\ nextOid' = o
            /\ IF first /\ ~r0.ok
               THEN /\ SetDev(r0.dev)
                    /\ locked' = TRUE
                    /\ UNCHANGED <<stores, committed, held>>
               ELSE /\ SetDev(w.dev)
                    /\ stores' = [stores EXCEPT ![s] =
                                    [fs1 EXCEPT !.write_addr = w.addr,
                                                !.object_count = @ + IF ok THEN 1 ELSE 0]]
                    /\ committed' = IF ok THEN committed \cup
                                        {[oid |-> o, store |-> s, size |-> size, sid |-> w.sid]}
                                    ELSE committed
                    /\ UNCHANGED <<locked, held>>

(***************************************************************************)
(* bplib_store_flash_dequeue, when read_addr # write_addr (otherwise it  *)
(* returns BP_TIMEOUT and changes nothing).  The object read advances    *)
(* read_addr; on failure the scan moves it on to the next sync.  A scan  *)
(* that never ends holds the lock for good.  The caller releases before *)
(* dequeuing again unless "lease" misuse is explored.                   *)
(***************************************************************************)
\* Variant of the availability check that compares the blocks only.
QueueNonEmptyBlockOnly(fs) == fs.read_addr.block # fs.write_addr.block

\* Data objects are available: the read cursor is not at the write cursor.
QueueNonEmpty(fs) == fs.read_addr # fs.write_addr

Dequeue(s) ==
    /\ ~locked
    /\ stores[s].in_use
    /\ "lease" \in Misuse \/ ~stores[s].stage_locked
    /\ QueueNonEmpty(stores[s])
    /\ \E f \in FaultChoices({"read"}) :
        LET fs == stores[s]
            r  == ObjectRead(Dev, fs, s, fs.read_addr, f.rf)
            sc == ObjectScan(r.dev, r.addr, r.rf)
            ok == r.status = "SUCCESS"
            hdr == r.fs.stage[1]
        IN  /\ CountFault(f)
            /\ SetDev(IF ok THEN r.dev ELSE sc.dev)
            /\ stores' = [stores EXCEPT ![s] =
                            [r.fs EXCEPT !.read_addr = IF ok THEN r.addr ELSE sc.addr]]
            /\ locked' = (~ok /\ sc.status = "SPIN")
            /\ held' = IF ok THEN [held EXCEPT ![s] = @ \cup {[sid |-> hdr.sid, oid |-> hdr.oid]}]
                       ELSE held
            /\ UNCHANGED <<nextOid, committed>>

(***************************************************************************)
(* bplib_store_flash_retrieve of a sid the caller got from a read: the   *)
(* object read runs on a copy of the address; the cursor stays put.      *)
(***************************************************************************)
Retrieve(s, x) ==
    /\ ~locked
    /\ stores[s].in_use
    /\ ~stores[s].stage_locked
    /\ \E f \in FaultChoices({"read"}) :
        LET r == ObjectRead(Dev, stores[s], s, AddrOf(x.sid), f.rf)
        IN  /\ CountFault(f)
            /\ SetDev(r.dev)
            /\ stores' = [stores EXCEPT ![s] = r.fs]
            /\ UNCHANGED <<locked, nextOid, committed, held>>

(***************************************************************************)
(* bplib_store_flash_release with the sid of the object in the stage     *)
(* (a sid that does not match changes nothing).  It takes no lock.       *)
(***************************************************************************)
Release(s) ==
    /\ stores[s].in_use
    /\ stores[s].stage_locked
    /\ stores' = [stores EXCEPT ![s].stage_locked = FALSE]
    /\ UNCHANGED <<blocks, free, bad, used, errors, flash, locked,
                   nextOid, committed, held, faults>>

(***************************************************************************)
(* bplib_store_flash_relinquish of a sid the caller got from a read.  A  *)
(* caller forgets the sid once it is relinquished, unless "stale" misuse *)
(* is explored.                                                           *)
(***************************************************************************)
Relinquish(s, x) ==
    /\ ~locked
    /\ stores[s].in_use
    /\ \E f \in FaultChoices({"read", "bad"}) :
        LET r == ObjectDelete(Dev, x.sid, f.rf, f.isbad)
            ok == r.status = "SUCCESS"
        IN  /\ CountFault(f)
            /\ SetDev(r.dev)
            /\ stores' = [stores EXCEPT ![s].object_count = @ - IF ok THEN 1 ELSE 0]
            /\ committed' = IF ok THEN {c \in committed : c.oid # x.oid} ELSE committed
            /\ held' = IF ok /\ "stale" \notin Misuse
                       THEN [held EXCEPT ![s] = @ \ {x}] ELSE held
            /\ UNCHANGED <<locked, nextOid>>

\* bplib_store_flash_stats with reset_stats (a reset of a zero count is a
\* stuttering step).
Stats ==
    /\ errors # 0
    /\ errors' = 0
    /\ UNCHANGED <<blocks, free, bad, used, flash, stores, locked,
                   nextOid, committed, held, faults>>

Next ==
    \/ \E attr \in AttrSizes : Create(attr)
    \/ Stats
    \/ \E s \in Stores :
        \/ Destroy(s) \/ Dequeue(s) \/ Release(s)
        \/ \E size \in DataSizes : Enqueue(s, size)
        \/ \E x \in held[s] : Retrieve(s, x) \/ Relinquish(s, x)

Spec == Init /\ [][Next]_vars

(***************************************************************************)
(* The consumer of a store (the channel that polls its store, spec 7)   *)
(* keeps calling dequeue, releases what it got and relinquishes what was *)
(* delivered: these steps are weakly fair.  The producer (enqueue), the  *)
(* retriever, create, destroy and stats are callers that may stop.       *)
(***************************************************************************)
Fairness ==
    \A s \in Stores :
        /\ WF_vars(Dequeue(s))
        /\ WF_vars(Release(s))
        /\ WF_vars(\E x \in held[s] : Relinquish(s, x))

FairSpec == Spec /\ Fairness

-----------------------------------------------------------------------------
AddrOrNone == [block : Blocks \cup {NoBlock}, page : Nat]

TypeOK ==
    /\ blocks \in [Blocks -> [next_block : Blocks \cup {NoBlock},
                              prev_block : Blocks \cup {NoBlock},
                              max_pages : 0 .. PagesPerBlock,
                              page_use : SUBSET Pages]]
    /\ free.count \in 0 .. NumBlocks /\ bad.count \in 0 .. NumBlocks
    /\ used \in 0 .. NumBlocks /\ errors \in Nat
    /\ \A s \in Stores :
          /\ stores[s].in_use \in BOOLEAN /\ stores[s].stage_locked \in BOOLEAN
          /\ stores[s].write_addr \in AddrOrNone /\ stores[s].read_addr \in AddrOrNone
          /\ stores[s].object_count \in 0 .. MaxObjects
    /\ locked \in BOOLEAN
    /\ nextOid \in 0 .. MaxObjects
    /\ held \in [Stores -> SUBSET [sid : Int, oid : Int]]
    /\ faults \in 0 .. MaxFaults

(***************************************************************************)
(* Committed objects stay readable (spec section 1 (b)): an object whose *)
(* enqueue returned success and that the caller has not relinquished can *)
(* be read back at its sid, header and every page of its data, whatever  *)
(* other stores, the allocator, deletes and reclaims did meanwhile.       *)
(***************************************************************************)
CommittedObjectsIntact ==
    \A c \in committed :
        LET parts == StageParts(c.oid, c.store, c.size, c.sid)
        IN  DataRead(Dev, AddrOf(c.sid), HdrSize + c.size, {}).data
                = [i \in 1 .. NumParts(c.size) |-> parts[i - 1]]

(***************************************************************************)
(* The device lock is always given back: no call returns, or stays       *)
(* forever, holding flash_device_lock (enqueue's early return when the   *)
(* first block cannot be allocated, a dequeue whose scan never ends).    *)
(***************************************************************************)
DeviceLockReleased == ~locked

RECURSIVE ChainBlocks(_, _, _)
ChainBlocks(b, w, fuel) ==
    IF b = NoBlock \/ fuel = 0 THEN {}
    ELSE {b} \cup IF b = w THEN {} ELSE ChainBlocks(blocks[b].next_block, w, fuel - 1)

(***************************************************************************)
(* The free list stays a list (spec P1, I2): walked from out along       *)
(* next_block it visits free.count distinct blocks ending at in, none of *)
(* them on a store's chain, after any sequence of enqueues, deletes,     *)
(* bridges and reclaims by any of the stores.                             *)
(***************************************************************************)
FreeListSound ==
    /\ ListSound(Dev, "free")
    /\ \A s \in Stores : stores[s].in_use =>
          ToSet(ListWalk(Dev, "free"))
            \cap ChainBlocks(stores[s].read_addr.block, stores[s].write_addr.block, NumBlocks)
            = {}

\* The first count blocks of list l, as the list's own walk reaches them.
Listed(l) ==
    LET w == ListWalk(Dev, l)
    IN  ToSet(SubSeq(w, 1, IF Len(w) < Dev[l].count THEN Len(w) ELSE Dev[l].count))

\* The blocks on neither list: those the used counter stands for.
UsedBlocks == Blocks \ (Listed("free") \cup Listed("bad"))

(***************************************************************************)
(* No block leaks (spec invariant I1): the used counter counts the blocks *)
(* that are on neither list, and every one of them holds a page of an     *)
(* object the caller has not relinquished or lies on a store's chain     *)
(* between its read and its write cursor.                                *)
(***************************************************************************)
LiveBlocks ==
    UNION {ChainBlocks(stores[s].read_addr.block, stores[s].write_addr.block, NumBlocks)
             : s \in {t \in Stores : stores[t].in_use}}
    \cup {b \in Blocks : \E p \in Pages, c \in committed :
             flash[b][p].oid = c.oid /\ p \in blocks[b].page_use}

NoLeak ==
    /\ used = Cardinality(UsedBlocks)
    /\ UsedBlocks \subseteq LiveBlocks

(***************************************************************************)
(* Refinement: each store behaves as the FIFO queue of FlashQueue.  The  *)
(* queue is the objects whose headers lie on the chain from read_addr up *)
(* to write_addr, the lease the object in a locked stage, the live set   *)
(* the committed objects of the store, the count what getcount returns.  *)
(***************************************************************************)
RECURSIVE HeadersFrom(_, _, _)
HeadersFrom(a, w, fuel) ==
    IF a = w \/ fuel = 0 \/ ~ValidAddr(Dev, a) THEN <<>>
    ELSE (IF flash[a.block][a.page].sync THEN <<flash[a.block][a.page].oid>> ELSE <<>>)
         \o HeadersFrom(NextAddr(Dev, a), w, fuel - 1)

QueueOf(s) ==
    IF stores[s].in_use
    THEN HeadersFrom(stores[s].read_addr, stores[s].write_addr, NumBlocks * PagesPerBlock)
    ELSE <<>>

\* bplib_store_flash_getcount: the store's object_count, read without the lock.
GetCount(s) == stores[s].object_count

Queue == INSTANCE FlashQueue
    WITH Oids <- 1 .. MaxObjects,
         queue <- [s \in Stores |-> QueueOf(s)],
         lease <- [s \in Stores |-> IF stores[s].stage_locked
                                    THEN stores[s].stage[1].oid ELSE NoObject],
         live  <- [s \in Stores |-> {c.oid : c \in {c \in committed : c.store = s}}],
         count <- [s \in Stores |-> GetCount(s)]

(***************************************************************************)
(* The read cursor stays on the store's chain while data is queued: a   *)
(* store whose read_addr differs from write_addr reaches the write       *)
(* block by following next_block from the read block.  Dequeue walks     *)
(* that way, and flash_data_read's address check reads                   *)
(* flash_blocks[addr->block].max_pages before it tests the block index,  *)
(* so a cursor off the chain is read from, or indexes past the table.    *)
(***************************************************************************)
ReadCursorOnChain ==
    \A s \in Stores :
        LET fs == stores[s]
        IN  fs.in_use /\ QueueNonEmpty(fs) =>
                fs.write_addr.block \in ChainBlocks(fs.read_addr.block, fs.write_addr.block, NumBlocks)

(***************************************************************************)
(* The page engine reads back what it wrote (test_3 of ut_flash.c, from  *)
(* any device state the store reaches): when a fresh block is allocated  *)
(* and a write of up to two blocks' worth of units from its page 0       *)
(* succeeds, the read of as many units from page 0 succeeds, returns the *)
(* written pages and ends at the address the write ended at.  The write  *)
(* chains a fresh block at each block end; the read must follow it.      *)
(***************************************************************************)
WriteReadAgree ==
    \A n \in 1 .. 2 * PagesPerBlock * PageSize :
        \A t \in {PageRoundTrip(Dev, n)} :
            t.alloc /\ t.write.status = "SUCCESS" =>
                /\ t.read.status = "SUCCESS"
                /\ t.read.addr = t.write.addr
                /\ t.read.data = [i \in 1 .. Len(t.read.data) |-> t.parts[i - 1]]
                /\ Len(t.read.data) = Cardinality(DOMAIN t.parts)

(***************************************************************************)
(* Every object is delivered (spec 1 (b) and P3): under a fair consumer,  *)
(* an object whose enqueue succeeded is eventually dequeued and, once the *)
(* consumer is done with it, relinquished.  Read errors, the scan, the   *)
(* eager allocation at block end and a lock that is never given back are *)
(* what could strand an object.  Stated for the whole store: whenever    *)
(* objects are committed, a state follows in which none is.  With        *)
(* finitely many enqueues, an object that is never relinquished keeps    *)
(* committed non-empty for good.                                          *)
(***************************************************************************)
EveryObjectDelivered == committed # {} ~> committed = {}

\* Every behaviour of the flash store is a behaviour of the abstract queue.
QueueSpec == Queue!Spec

(***************************************************************************)
(* The stats log ends with the stores running (flash.c:667-672): besides *)
(* allocate and reclaim, the page engine links blocks (ChainBlock), and   *)
(* the failed eager allocation leaves a full block linked to the block    *)
(* that went bad.  No sequence of these may close a cycle of next_block   *)
(* links that the unbounded logging walk from bad.out would follow.       *)
(***************************************************************************)
BadListLogEnds == LogWalkEnds(Dev)

(***************************************************************************)
(* A dequeue or retrieve delivers a whole object (spec P3): when the     *)
(* read stage is locked, its pages are the header and then the payload   *)
(* parts 1 .. n-1 of that one object, in order, for the n pages its size *)
(* spans.  The second flash_data_read of flash_object_read continues     *)
(* from where the header read left the address, across a block end,     *)
(* truncated pages and blocks linked in by write-failure recovery; a    *)
(* read resuming anywhere else, or a chain link pointing elsewhere,     *)
(* stitches pages of other objects into the stage.                       *)
(***************************************************************************)
DeliveredWhole ==
    \A s \in Stores :
        LET st == stores[s].stage
        IN  stores[s].stage_locked =>
                \A i \in 1 .. NumParts(st[1].size) :
                    i <= Len(st) /\ st[i].oid = st[1].oid /\ st[i].part = i - 1

=============================================================================
