# TLA+ models of the bplib flash store

This directory holds TLA+ models of `src/store/flash.c`, the flash-backed object
store, and the TLC configurations that check them. `PROJECT.json` lists:

- the components;
- the runs and what they show;
- the mutants that show each checked property can fail;
- the map from every definition to the source lines it translates;
- the findings;
- the hazards of this code that a model checker reaches.

## The system

`flash.c` keeps a queue of objects per *store* on a NAND device that must be
erased before it is written. Its parts:

| part | state in the code | operations |
|---|---|---|
| Block registry | `flash_blocks[]` (`next_block`, `prev_block`, `max_pages`, `page_use`); two intrusive lists `flash_free_blocks` and `flash_bad_blocks` (`out`, `in`, `count`); `flash_used_block_count` and `flash_error_count` | `flash_block_list_add`, `flash_free_reclaim`, `flash_free_allocate` (lazy erase) |
| Page engine | the pages of the device, reached through the driver | `flash_data_write` (program failure handling, chaining to new blocks), `flash_data_read` |
| Object framing | header (sync magic, handle, size, sid) and data, page by page | `flash_object_write`, `flash_object_read`, `flash_object_scan`, `flash_object_delete` |
| Store table and API | `flash_stores[]` (`in_use`, `max_data_size`, `write_addr`, `read_addr`, `read_stage`, `stage_locked`, `object_count`); `flash_device_lock` | init, stats, create, destroy, enqueue, dequeue, retrieve, release, relinquish, getcount |

How the parts interact:

- **Enqueue** writes an object at the store's write cursor. It allocates fresh
  blocks as pages fill, and recovers from program failures by truncating or
  reclaiming the block.
- **Dequeue** reads the object at the read cursor into the read stage and locks
  the stage. After a failed read it scans forward for the next sync.
- **Release** unlocks the stage.
- **Relinquish** clears the object's `page_use` bits. A block whose pages are
  all deleted is bridged out of its chain (`prev.next = next`) and reclaimed to
  the free list.
- **The lock.** All stores share one device and one lock. Enqueue, dequeue,
  retrieve and relinquish take the lock; release and getcount do not.

Behaviours that are hard to test:

- intrusive list pointers that outlive a block's membership of a list;
- driver faults in the middle of a multi-page write or read;
- the scan's resynchronisation;
- deletes that must find block boundaries from `page_use` counts;
- two stores sharing the allocator;
- callers that repeat or reorder calls.

## Modules

- **`FlashBlocks`**: the block registry.
  - The operations are operators from a device record
    `[blocks, free, bad, used, errors, flash]` to a new device record, so that
    the loops of the page engine can run them inside one atomic step:
    - `ListAdd` is `flash_block_list_add`;
    - `Reclaim` is `flash_free_reclaim`;
    - `Allocate` is `flash_free_allocate`, recursive over erase failures;
    - `Format` is init in FORMAT mode;
    - `ListWalk` is the logging loop of `bplib_store_flash_stats`, which walks
      the bad list from `out` along `next_block` until the invalid index.
  - The second half is a stand-alone specification (`RegSpec`) driven the way
    `test_1` drives the registry: allocate and reclaim in any order, with erase
    failures and blocks turning bad.
- **`FlashStore`**: the page engine, the object framing, the store table and the
  API. It takes the registry through `LOCAL INSTANCE FlashBlocks`.
  - The page and object layers:
    - `ReadLoop` and `WriteLoop` are the loops of `flash_data_read` and
      `flash_data_write`, including write-failure truncation, reclaim, the
      re-link through `prev_block`, and eager allocation at block end;
    - `ObjectWrite`, `ObjectRead`, `ScanLoop` and `DeleteLoop` are the object
      functions.
  - Each public call is one atomic action: `Create(attr)`, `Destroy`,
    `Enqueue`, `Dequeue`, `Retrieve`, `Release`, `Relinquish`, `Stats`. Its
    guard comes from the code's early returns, and it runs every loop the call
    runs.
  - Variables: the registry variables, `stores`, and `locked`. `locked` means
    the lock is held by a call that never returned: enqueue's early return, or
    a scan that never ends.
  - History variables, not kept by the code:
    - `nextOid` names the object written;
    - `committed` holds the objects whose enqueue succeeded and that were not
      relinquished;
    - `held` holds the sids a caller got from reads;
    - `faults` is the fault budget.
- **`FlashQueue`**: the abstract specification, i.e. what a store promises.
  - A FIFO queue per store, a single lease, a live set and a count.
  - `FlashStore` refines it. Its `QueueSpec` is `FlashQueue!Spec` under this
    mapping:
    - `queue` is the headers on the chain from `read_addr` to `write_addr`;
    - `lease` is the object in a locked stage;
    - `live` is the store's committed objects;
    - `count` is `object_count`.
- **`MCFlashBlocks`, `MCFlashStore`**: the instances that TLC checks. The
  constants come from the `.cfg` files.

### Abstractions

- **Sizes are units.** A page holds `PageSize` units, and the header takes
  `HdrSize` of them (real builds use bytes; the checked ratios are 2:1). An
  object of `size` units takes `ceil((HdrSize+size)/PageSize)` pages, as the
  code's byte arithmetic gives.
- **A page's contents are a record**: sync, oid, part, handle, size, sid.
  - `oid` and `part` say which object and which page of it the bytes came
    from, so properties can tell a correct read from a wrong one.
  - A failed program leaves `Junk` (no sync). Programming a page that is not
    erased also yields `Junk`.
  - Payload bytes are never taken for the sync magic.
- **Driver faults are inputs.** Each call may meet at most one fault, chosen
  nondeterministically. The kinds are:
  - a failing erase of a block;
  - a failing program or read of one address, which happens once;
  - a block that `isbad` reports bad.

  `MaxFaults` bounds the total.
- **`page_use` free-page counting.** The code counts the zero bits of
  `pages_per_block/8` bytes. The model counts all clear bits of the block,
  which is what the code does whenever `pages_per_block` is a multiple of 8
  (128 in practice). With the 2 pages per block used here, the literal code
  would count none.
- **Bounds check order.** The address check `page >= max_pages || block >=
  num_blocks` is modelled as testing the block first. The code's
  out-of-bounds read of `max_pages` is listed as a hazard.
- **Callers.** Callers relinquish and retrieve only sids they got from a
  dequeue, release before dequeuing again, and destroy only drained stores,
  as spec 5 and 7 require. The `Misuse` constant (`"lease"`, `"stale"`) lifts
  the first two rules. `Lifecycle` turns destroy and re-create on.
  `AttrSizes` is the set of `max_data_size` values callers pass to create,
  0 standing for a NULL attribute pointer (the default of one page).

## Runs

Each run uses 2 pages per block, `PageSize` 2 and `HdrSize` 1. Deadlock
checking is off in the store runs: when `MaxObjects` enqueues are spent and
everything is relinquished, the bounded callers are done and the system really
stops. A lock that is held for good is checked by `DeviceLockReleased`
instead.

| run | cfg | setting | result |
|---|---|---|---|
| registry | MCFlashBlocks | 4 blocks, erase failures, bad blocks | `StatsLogEnds` and `FreeListIntact` hold (219k states) |
| store_core | MCFlashStore | 3 blocks, 1 store, bad blocks, 5 enqueues, fair consumer | `ReadCursorOnChain`, `CommittedObjectsIntact`, `NoLeak`, `FreeListSound`, `WriteReadAgree`, `QueueSpec` and `EveryObjectDelivered` hold (3k states, about a minute) |
| store_lifecycle | MCLifecycle | 4 blocks, destroy and re-create with default or 3-unit attributes, 5 enqueues of 1- and 2-page objects | `TypeOK`, `DeliveredWhole`, `CommittedObjectsIntact`, `QueueSpec` and `FreeListSound` hold (123k states) |
| erase_recovery | MCEraseRecovery | 4 blocks, up to 3 erase failures or bad blocks, 5 enqueues | `BadListLogEnds`, `CommittedObjectsIntact` and `FreeListSound` hold (74k states) |
| two_stores_stale_prev | MCTwoStores | 4 blocks, 2 stores, no faults | `QueueSpec` violated |
| first_allocate_lock_leak | MCLockLeak | 2 stores, one fills the device | `DeviceLockReleased` violated |
| write_fault_sid | MCWriteFault | one program failure | `CommittedObjectsIntact` violated |
| erase_fault_block_end | MCEraseFault | one erase failure | `ReadCursorOnChain` violated |
| read_fault_drop | MCReadDrop | one read failure | `QueueSpec` violated |
| read_fault_spin | MCReadFault | one read failure, two-page objects | `DeviceLockReleased` violated |
| delete_size | MCDeleteSize | objects of 2 units (2 pages) | `NoLeak` violated |
| span_delete | MCSpanDelete | objects of 1 and 2 pages, no faults, fair consumer | `EveryObjectDelivered` violated |

### What the properties say

- `CommittedObjectsIntact`: every committed object reads back at its sid,
  header and data, whatever other calls did in the meantime.
- `NoLeak`: the used counter counts the blocks on neither list, and each of
  them holds a page of a committed object or lies on a store's chain between
  its cursors (set inclusion, not a comparison of sizes). It is checked in
  store_core. It is not checked in erase_recovery. There, the block-end
  divergence leads dequeue into a bad block, and the block that holds the
  delivered but uncounted object belongs to nothing. That is a consequence of
  `erase_fault_block_end`, and the check fails on it.
- `FreeListSound`: the free list walks as a list of `count` distinct blocks,
  and none of them is on a store's chain.
- `DeviceLockReleased`: no call keeps the lock. It is checked in the runs
  where a call can keep it (two stores, read faults). In store_core no
  call can: the first allocation always succeeds and no dequeue fails.
- `WriteReadAgree`: `test_3` of `ut_flash.c`, asked of every device state
  store_core reaches. Allocate a block, write up to two blocks' worth of
  units from its page 0, and read them back. When the write succeeds, the
  read returns the written pages and ends where the write ended, following
  the block the write chained at the block end.
- `ReadCursorOnChain`: while a store's queue is not empty, following
  `next_block` from the read cursor's block reaches the write cursor's block.
  Dequeue walks that way. A cursor off the chain reads blocks the store does
  not own, and an invalid block index reaches the address check of
  `flash_data_read`, which reads `flash_blocks[block]` before it tests the
  index.
- `EveryObjectDelivered` (liveness): whenever objects are committed, a state
  follows in which none is. With finitely many enqueues, this says that every
  object is eventually dequeued and relinquished by a fair consumer.
- `QueueSpec`: each store behaves as the FIFO queue with a single lease.
- `StatsLogEnds` (registry) and `BadListLogEnds` (stores): the logging loop
  of `bplib_store_flash_stats` ends. It has no bound and takes no lock, and a
  block whose erase failed joins the bad list with its free-list
  `next_block`, so the walk runs on through free and used blocks. No
  sequence of allocations, erase failures, reclaims, chainings and bridges
  may close a cycle of `next_block` links on that walk. In the registry alone,
  the walk also prints every bad block first, ending at `in`.
- `DeliveredWhole`: when the read stage is locked, it holds the header and
  then payload parts 1 to n-1 of that one object, for the n pages its size
  spans (spec P3). The second `flash_data_read` of `flash_object_read` must
  go on from where the header read stopped, across the block end, following
  the chain's link. A chain link that points elsewhere puts pages of other
  objects, or erased pages, into the stage under a successful return.

### Findings

The violations are findings, described in `PROJECT.json`:

- **Stale `prev_block` in a store's first block.** Enqueue never clears it. The
  delete bridge then rewrites another store's chain. With one store and two
  erase failures, the stale `prev_block` can also name a block that went bad.
  The bridge then rewrites that block's `next_block`, and the stats log no
  longer reaches the later bad blocks (log output only; found with the store
  version of the full bad-list check at 4 blocks, not kept as a run).
- **Lock leak.** The first-allocation failure returns without unlocking.
- **Wrong sid after a write retry.** The sid is computed before the write, so
  it still names the failed address after the retry.
- **A failed enqueue that is delivered anyway, through a stale link.** The
  eager allocation at block end fails after the object is written. Enqueue
  reports failure, but the object is dequeued later. `flash_free_allocate`
  never clears the `next_block` of the block it hands out, so the full block
  still links to the block whose erase just failed. Dequeue follows that link
  off the store's chain into a bad block; after a read error there, the scan
  leaves the cursor at an invalid block.
- **The scan steps past the header it finds.** One read error therefore drops
  an intact object. The same step loses an object when a caller dequeues while
  leased.
- **The scan never terminates** once a read stops at the end of a chain, and
  it holds the lock.
- **Delete counts the payload without the header**, and leaks a block.
- **An object that spans two blocks can never be relinquished** once the
  pages before it in its first block are deleted, which is the normal FIFO
  order. Delete empties the first block with bytes still owed, takes that
  as a consistency error, and fails the same way on every retry. Both blocks
  stay allocated.

Two more violations were found with settings that no kept run uses. Both are
recorded as hazards in `PROJECT.json`:

- **Write recovery at page 0 links through the free list.** After a program
  failure at page 0, `flash_data_write` reclaims the block and only then
  reads its `prev_block` (`flash.c:238`). By then the reclaim has set that
  field to the free list's old tail. The tail's `next_block` is pointed at
  the replacement block, and the chain predecessor still links to the
  reclaimed block. TLC finds this with one write fault (`Faults = {"write"}`,
  objects of 1 and 2 pages, 4 blocks): the second object's header fills a
  block, and its data page fails at page 0 of the eagerly allocated block.
  Enqueue succeeds, and the next dequeue returns the header followed by an
  erased page, violating `DeliveredWhole` in 7 steps. `write_fault_sid`
  already reports the header-page case of this recovery path, and the run
  budget is full.
- **The read stage is overrun.** This needs erase and bad-block faults in
  the lifecycle settings. A store with 3-unit attributes is destroyed and a
  default store reuses the handle. The block-end divergence then leads
  dequeue into a bad block that still holds the old store's header. Its
  size, 3, passes the check against `max_data_size` 3, and 4 units are
  copied, in 17 steps, past the `max_data_size` bytes that create mallocs.
  The check at `flash.c:395` compares the header's size with a bound that
  already includes the header. Without faults, a store reads only headers
  that its own room check accepted, so no kept run checks this bound.

### Bounds

The bounds were chosen so that each case occurs:

- With 3–4 blocks of 2 pages, a chain crosses blocks, fills the device and
  reclaims and reuses blocks.
- 5–6 enqueues are enough to wrap around the device at least once.
- 2 stores are enough for chains that share the allocator.
- Objects of 3 units (2 pages) in a store with attributes of 3 units start at either
  page of a block, so some of them span two blocks. This exercises the
  second read of `flash_object_read` and the delete across a block boundary.
- One fault per behaviour reaches every fault-handling path. erase_recovery
  allows three, so that several blocks go bad and the bad list's walk
  crosses chains, bridges and reclaims.
- In store_lifecycle a default store (3 units, header included) and a store
  with 3-unit attributes (4 units) take turns on the same handle. The
  3-unit object fits only the second store.

Every action of `FlashStore` fires in the passing runs. `Stats` needs errors,
which come from the erase failures of erase_recovery.

### Mutants

Every property of a passing run has a mutant in `PROJECT.json`: a variant
operator defined just before the definition it replaces, which TLC shows
violating the property under that run's cfg. The mutants:

- `ListAddNoLink` leaves out the link from the old `in` block;
- `AllocateNoAdvance` hands out a block without advancing `out`;
- `ReclaimKeepsCount` does not decrement the used count;
- `ObjectWriteLateSid` stamps the sid of the address where the write ended;
- `ReadLoopNoNext` fails at the end of every block;
- `DeleteLoopOffByOne` needs one more free page than a block has;
- `ObjectReadNoLock` does not lock the stage;
- `ChainBlockNoForward` chains a fresh block without setting the full
  block's `next_block`;
- `QueueNonEmptyBlockOnly` makes dequeue's availability check compare the
  blocks only, so objects in the write cursor's block are never dequeued;
- `ListAddInCheck` tests `in` rather than `out` for an empty list, so a
  reclaim into an emptied free list links the stale `in` block to the
  reclaimed one (a block linked to itself, in the registry's trace);
- `ChainBlockNextSwap` writes the back link into the new block's
  `next_block`;
- `ObjectReadRestart` reads the rest of an object from the object's start
  instead of from where the header read stopped.

## Fairness

The code schedules nothing by itself: every step is a caller's call. The
liveness property therefore assumes a consumer that keeps taking its steps:
a channel that polls its store. Spec 7 relies on such a caller when it says
that a failed dequeue advances the cursor "so subsequent dequeues can make
progress". `FairSpec` adds, for each store,
weak fairness of:

- `Dequeue(s)`;
- `Release(s)`;
- relinquishing some sid it holds.

The producer (enqueue), retrieve, create, destroy and stats get no fairness:
a caller may stop calling them. Relinquish needs its own fairness. With only
the consumer's steps fair as one action, a retrieve and release of the same
sid could repeat forever. `store_core` and `span_delete` use `FairSpec`; the
other runs check safety only.

## Not modelled, and why

- **RECOVER init** is a no-op in the code.
- **Driver and OS services** are external. They appear only as the faults
  they can report.
- **malloc and lock-creation failures** are early returns that change no
  shared state.
- **Logging and timestamps** only read state. The stats log's walk is
  checked as a property of every state. Getcount also only reads: it is
  `GetCount`, which the refinement maps to the abstract count.
- **Lockless `release` and `stats` racing the locked calls.** Every call is
  one atomic step here. Spec 6 states the contract: `stats`, `create`,
  `destroy` and `init` run in quiescent phases, and `release` only toggles a
  flag whose one writer is the same store's consumer. That consumer releases
  before its next read, so no read of the stage overlaps a release. A race
  would need a caller that breaks the contract, for example one that repeats
  a release concurrently with its own dequeue.
- **A repeated relinquish** reclaims a block twice. `FreeListSound` catches
  this with `Misuse = {"stale"}`, but that run is not kept.

## Plan for later sittings

1. **A check on SID reuse.** A stale retrieve or relinquish can reach a
   different object at a reused sid.
2. **A run for write faults on data pages**, if a run slot is freed. The
   data-page case of the page-0 recovery breaks `DeliveredWhole` and
   `FreeListSound`.
