# libredstone: a verification of its core

libredstone is a C library that reads and writes two file formats of Minecraft:
*region files*, which hold up to 1024 chunks in 4096-byte sectors, and *NBT*, a
binary tree format. This directory holds TLA+ models of its parts, the TLC
configurations that check them on small instances, and proofs for TLAPS. Every
definition was translated from the code under `src/src`; `PROJECT.json` maps it
to its lines.

To check a run: `tlc -workers 2 -config RegionAny.cfg MCRegion`; the table under
"The runs" names the module of each. To check the proofs: `tlapm M.tla` for each of
`SequenceLemmas`, `RegionInvariant`, `RegionLayout`, `RegionContents`, `TagHeapProofs`,
`NBTStoreProofs`, `ListCellsProofs` and `NBTProofs` (about 35 minutes for all of them from
nothing).

## 1. The system

### Components

| Component | Source | State | Operations | Modelled in |
|---|---|---|---|---|
| Region files | `region.c` | the file: size, location table, timestamp table, sectors; the handle: mode, mapping, list of cached writes; locals of a flush | open, close, getters, set/clear chunk, flush | `Region`, `RegionHistory`, `RegionStore`, `RegionInvariant`, `RegionLayout`, `RegionContents` |
| Tags | `tag.c` | heap of tags: type, reference count, contents | new, ref, unref, list and compound operations, iterators, search, printing | `TagHeap`, `TagHeapProofs`; iterators in `ListCells`, search in `NBTTrees` |
| NBT files | `nbt.c` | root name, root tag; stack of the recursive parser and writer; the file or region that carries it | parse, write, set name, set root, from and to buffers, files and regions | `NBT`, `NBTTrees`, `NBTProofs`, `NBTStore`, `NBTStoreProofs`; root pointer also in `TagHeap` |
| Compression | `compression.c` | buffers and heads of the loops around zlib | compress, decompress, guess the type | `Compression`, `NBTStoreProofs` |
| Lists | `list.c` | cells | push, pop, remove, reverse, nth, ... | `ListCells`, `TagList`, `ListCellsProofs`; as sequences in `TagHeap` and `Region` |
| Byte order | `rsendian.c` | none (one cached flag) | conversions | `BigEndian`, `Signed`, `Unsigned` of `NBT` |
| Memory | `memory.c` | table of functions | set functions, malloc, free, realloc | which table made a cell, in `ListCells` |
| Errors | `error.c`, `error.h` | none | `rs_assert`, `rs_error`, `rs_critical` | their effect, in `Region` |
| File mapping | `mmap-*.c` | handles of Windows | mmap, munmap, msync | no; POSIX semantics are built into `Region` |
| Python bindings, tools | `bindings/`, `tools/` | none of their own | clients of the functions above | their loops in `ListCells`; load, edit and save in `NBTTrees` and `NBTStore` |

How they interact. A client holds handles (`RSRegion*`, `RSNBT*`, `RSTag*`) and
calls functions; nothing runs concurrently inside the library. An NBT file comes
from a buffer, a file or a chunk of a region, goes through `rs_decompress` and is
parsed into tags; writing goes the opposite way. Tags live in lists of `list.c`
and count references; the root of an RSNBT is one reference. The region keeps
copies of the data of writes until `rs_region_flush`, which rewrites a *shared
mapping* of the file in place, so that every store is visible in the file at once.

### What is hard

* The in-place flush. Six loops shift table entries and move data over each other,
  twice, with heads that are updated in an order the code never states. A process
  that dies in between leaves what it had stored.
* What the flush trusts: the tables and lengths come from the file.
* Reference counts that start at zero ("floating"), with containers in containers.
* Compression with fixed buffers, where the interesting lengths are the multiples.
* Files that are parsed in a shared mapping and saved by truncating them first, with
  no lock: another process may save in the middle of a load, a disk may be full.
* Iterators that are bare pointers to cells, over lists that the loop's body changes.
* A recursive parser that is told lengths by its input, and a writer whose buffer is
  sized by another recursion.

`PROJECT.json` lists these as `hazards`, each at its line.

### What makes each component correct

* Region: a write list without duplicates; a flush that touches only the chunks it was
  asked to, unless the entries of the file lead it over the tables; that leaves every chunk
  where the table says it is, whole, old or new; that ends; that applies all writes (it
  does not: see "Findings").
* Tags: no tag freed that is still held, none kept that nobody holds (not so
  either), counts equal to holders, one type in a list, one value for a key.
* NBT: what is written can be read and is the same; what was cut off, extended or
  replaced is refused; the buffer is exactly filled.
* Compression: whole output or none, and an end.
* Documents in files and regions: a load gives what was saved once, or nothing; a
  save that says it worked has worked; one that fails early leaves the old document.
* Lists: the cells are the sequence, none is lost; a loop that keeps to its rules
  reads no freed cell and gives every item once.

## 2. Modules

```
RegionStore      what region.h promises: a map of chunks, writes applied at once
    ^ refinement (StoreSpec)
RegionHistory    rules of careful clients, history variables, properties
    |                     <-- RegionLayout <-- RegionContents
    | EXTENDS
Region           region.c, store by store  <-- RegionInvariant

RegionStore      (the region, as region.h promises it)
    | INSTANCE
NBTStore         nbt.c with files, regions, other processes  <-- NBTStoreProofs
    | EXTENDS
Compression      compression.c

TagList          what tag.h promises of lists, compounds and loops over them
    ^ refinement (ListSpec)
ListCells        list.c, iterators of tag.c, memory.c  <-- ListCellsProofs

TagHeap          tag.c: references, on sequences of tags; the root of nbt.c  <-- TagHeapProofs
SequenceLemmas   about InsertAt, RemoveAt, Reverse, SelectSeq, SumFunction ..., for all proofs
                 but RegionInvariant

NBTTrees         whole trees: search and integers of tag.c, comparison of trees
    | EXTENDS
NBT              nbt.c, call by call  <-- NBTProofs
MCRegion, MCRegionHistory, MCTagHeap, MCNBT      instances for TLC
```

Definitions called *mutants* (each says so in its comment) are plausible errors in
the code, used to make sure that the properties can fail; no specification uses
them.

### Region

The file is `fsize` (in sectors), `ragged` (whether the last sector is partial),
`locations`, `timestamps`, and `sectors`. A sector holds one part of one payload,
zeros, or garbage; this is all the flush can tell apart. The handle is `mode`,
`mapped`, `cached_writes`. A flush in progress is `pc`, `cell`, the two ordered
lists `shrinks` and `grows` (sets with order and rank, since insertion keeps them
sorted by the sector and then newest-in-the-list first), `sectors_added`,
`new_fsize` and the two heads.

One action is one store into the mapping or one turn of a loop that stores nothing:

| Code | Actions |
|---|---|
| `rs_region_open`, `_close` | `Open`, `CloseClean`, `StartFlush(TRUE)` |
| `rs_region_set_chunk_data[_full]`, `_clear_chunk` | `SetChunk`, `ClearChunk` |
| getters | `QueryFault`, the one thing they may do to the state |
| flush of an empty file, 325-409 | `SizeWrite`, `CreateFile`, `PlaceClear`, `PlaceEntry`, `PlaceHeaderOnly`, `PlaceData`, `PlacedAll` |
| sorting, 431-513 | `ClassifyFault`, `ClassifySkip`, `ClassifyShrink`, `ClassifyGrow`, `Classified` |
| shrinking pass, 514-588 | `ShrinkAbort`, `ShrinkShift`, `ShrinkMoveFault`, `ShrinkMove`, `ShrinkDelete`, `ShrinkEntry`, `ShrinkDataFault`, `ShrinkData`, `Shrunk` |
| resize, 590-617 | `ResizeAbort`, `Resize` |
| growing pass, 618-708 | `GrowAbort`, `GrowShift`, `GrowMove`, `GrowEntry`, `GrowAdd`, `GrowDataFault`, `GrowData`, `Grown` |
| end of the flush, 713-728 | `Finish` |
| `rs_error`, a kill, the end after an assertion | `Crash` |

An access outside the mapping is undefined in C. The model lets it fault
(`status = "faulted"`), and lets it go on having read arbitrary bytes or written to
memory that is no part of the file. Arbitrary bytes read as a length are either
below or above everything (`LengthsAt`). Nor does the code look whether what it moves or
stores reaches into the first two sectors, which are the tables: an entry with the offset 1
is a chunk to it. `StoreTables` says what this does to them: what it leaves in a table is read
as entries (`StrayLocations`) and dates (`StrayTimes`).

What it leaves out: the five header bytes of a chunk are part of its first sector;
a table entry (offset, count, timestamp) is one store, and so is the header and data
of a chunk, and one memmove, and the shift of all the entries in a range
(`ShiftLocations`, up to 1024 stores in the code; a crash among them, with some shifted and
others not, is not modelled); a store over a table may change
all of it; the sums in `uint32_t` wrap only where the heads are
computed from `sectors_added`; a file of 4 GB or more. A process that dies is
modelled, a machine that loses power is not: the page cache survives, and no order
of write-back matters. Assertions are compiled in. If they are not (`NDEBUG`), the
states after `status = "aborted"` would go on.

### RegionHistory and RegionStore

`Region` lets clients do whatever the functions accept. `RegionHistory` adds rules
under which a flush is meant to work, each one there because of a run that fails
without it:

* `CarefulWrite`: NULL exactly for length 0 (or region.c:404 asserts); fewer than
  256 sectors (or the count wraps); a timestamp other than 0 (a chunk of time 0
  counts as absent, region.c:232).
* `CarefulOpen`: the file is a whole number of sectors, its chunks are disjoint,
  inside the file and whole.
* `CarefulFlush`: nothing live lies within the sectors the resize will cut off
  (`TailSurvives`). No client can be expected to compute that; the rule is what the
  code needs for its flush to be right, not what region.h asks.
* Getters are not called while the file is empty.

It also remembers in `before` how the chunks read when the flush began and in
`slack` how many sectors were unused. `RegionStore` is the promise of region.h
without a file: chunks, writes outstanding, a flush or close that applies them at
once, and a death of the process after which each chunk is old, new or misread: between
the shift of the table (region.c:526-539) and the move of the bytes an entry points to
sectors whose bytes have not come yet, and a reader finds there what is torn, or the whole
payload of another chunk under the date of this one (`Misread`). The refinement maps `store` to what the file reads as between flushes and to `before`
during one, and `pending` to the last write of each chunk. `StoreSpec` says that
every step of the flush is a stutter until `Finish`, which is the atomic flush or
close.

### TagHeap

The state of each address is `type` ("free" if there is no tag), `refcount`,
`subtype` (the type of list items) and `items`; then `root`, what the client
`owned`, `unrefs` (the stack of calls of `rs_tag_unref` still to be made, so that
each free is a step of its own), `lost` (history: references that went without an
unref) and `crashed`. `New`, `Ref`, `Unref`, `ListSetType`, `ListInsert`,
`ListInsertCrash`, `ListDelete`, `ListReverse`, `CompoundSet`, `CompoundDelete` and
`SetRoot` are the functions, `UnrefStep` one call of `rs_tag_unref`. Clients use only
what they can reach, unref only what they ref'd or created, and build no cycles.

### ListCells and TagList

`ListCells` is one container, list or compound, with its cells in memory: `items` (the
first), `next`, `data`, `live` (allocated) and `maker` (the table of functions that
allocated it; `memfuncs` is the current one). `ListInsert`, `ListDelete`, `CompoundSet`,
`CompoundDelete`, `ListReverse`/`ReverseCell`/`Reversed` and `FreeContainer`/`Pop`/`Freed`
are the functions with the loops of `list.c` that store something, `New` and
`SetMemoryFunctions` the others. A freed address may come back from the next
allocation, also within one `CompoundSet`. Tags are not counted here: that is
`TagHeap`, which has the same operations on sequences.

`IteratorInit`, `IteratorNext` and `IteratorEnd` are a loop over the container, one turn
at a time; between two turns the client calls any of the functions above. The code has
no rules for such a body. `Breaks` states the weakest ones under which the loop works:
take out only items the loop has given you, and none after `rs_tag_list_reverse`.
They may be broken; `broken` remembers it, and `IteratorFault` is what may happen then.
The properties of loops are about those that break nothing, which inserting and setting
keys never does.

`TagList` states the same without cells: a sequence, and the iterator as a place in it,
that stays with its item as others come and go and is lost with it. `ListSpec` is the
refinement. A loop whose iterator was lost may go anywhere, since its cell may be
anything by then.

### NBT

Writer: `WriteStart`, `Measure` (`_rs_nbt_tag_length`), `WriteName`, `WriteTag`,
`Written`, with the list `todo` of what is still to be done. Parser: `ParseStart`, one
action for each case of the switch, `ListItem` and `CompoundItem` for the return of a
call inside a container, `ParseEnd`, with `stack` for the calls in progress. Bytes are
bytes: signs, order and widths are computed. `Damage` cuts the file off anywhere, lets
something follow it, or puts a byte in front that is no type. `Counted` keeps the length of a file below
2^31 (`Huge`), where the code counts in a `uint32_t`.

`NBTTrees` has what recurses over whole trees. `PathTo` is `rs_tag_find`,
`Get` and `GetChain` the getters of compounds; `SetInteger` finds a tag and sets it, cut to
its width. `setspawn` and `setgamemode` do this between loading and saving, with tags they
have seen to be TAG_Int, the former with three in a row; the clients of `EditSpec` set one
tag at a time, of any integer type. To `NBT` it is one more root that is set.

Left out: TAG_Long, TAG_Float, TAG_Double (TAG_Int in other widths, but for the encoding of
floats). Strings, names and keys have no NUL byte in them: the code keeps them as C
strings and would cut one that a file holds there (tag.c:594, 794, 812), so that two keys
may become one. A string tag fresh from `rs_tag_new0` has no string at all until one is set, and
the writer crashes on it (nbt.c:391); here every string tag has one.

### Compression

Data is counted in units, so that the two buffer sizes (256 KB and 16 KB) become 4
and 3. zlib is external: `inflate` fills the buffer or comes to the end of what is
there, and notices the end of the stream in the same call or the next; `deflate`
takes any amount of input and puts out any amount that its contract allows. A stream
may be whole, cut off or faulty, of either format; memory may run out in every call.

### NBTStore

The functions of `nbt.h` that save and load, each as the calls it makes: `SaveStart` to
`Return` for `rs_nbt_write_to_file` and `_to_region`, `LoadOpen` or `LoadFromRegion` to
`Return` for `rs_nbt_parse_from_file` and `_from_region`. The loops between are the
actions of `Compression` (`Loop`); the region is `RegionStore`, whose promise `Region`
keeps under the rules of `RegionHistory`. `use` says, for a whole behaviour, whether the
process works with buffers (`Compression` alone, with any stream), a file or a region;
the three share no state, and this keeps the runs small.

`file` is a sequence of units of compressed streams, each told by the document it
belongs to; `mapped` is what the parser has read of its mapping or would read.
`SaveOpen` truncates, `SaveWrite` and `SaveClose` put any part of the stream on the disk
(stdio buffers, a disk that fills up). `OtherSaves` is another process that does the
same at its own pace, to the same file; what it writes shows in a mapping beyond
the units already read, and a page behind the end of the file is `LoadFault`. `Crash`
ends the process at any point. The simplifications: the other process and a crash act
between the steps of `rs_decompress` but not within `rs_compress`, where they commute
with what the process does; zlib reads as many units of input as it has put out, and
one more; a unit behind the end of a file is a fault or reads as zeros, as it is or is
not on the last page. A document is told by its length: that bytes and trees correspond is
what `NBT` shows. `loads` is a history variable: how many files the process has mapped, each
of which costs it a descriptor for good.

## 3. The runs

| Run | Module | States | Shows |
|---|---|---|---|
| `RegionAny` | `MCRegion` | 491 k | Clients that keep to no rule, on an empty, a ragged and a cut-off file and two with wrong entries, with chunks too large for the table: `TypeOK`, `OneWritePerChunk`, `CachedOnlyIfWritable`, `NoDuplicateOrderedWrites`, `FlushTouchesOnlyWritten` |
| `CarefulFlush` | `MCRegionHistory` | 486 k | Three chunks of one or two sectors, starting from an empty file: `NoFailure`, `LayoutAtLoopHeads`, `EachOldOrNew`, `GapIsGrowth`, `FlushKeepsSlack`, `EntriesInFile`, `FlushAppliesWrites` |
| `CarefulStore` | `MCRegionHistory` | 278 k | Two chunks, three initial files, one of them with a hole: the flush implements `RegionStore` (`StoreSpec`) and ends (`FlushTerminates`) |
| `TagAny` | `MCTagHeap` | 112 k | Three tags, two keys: `TypeOK`, `NoDangling`, `ListsHomogeneous`, `KeysUnique`, `CountExact`, `OnlyLostLeaks` |
| `ListCells` | `ListCells` | 258 k | Three cells, two tags, three keys, two tables of allocator functions: the cells are the sequence (`WellLinked`, `CellsExact`, `ListSpec`, `OneAllocator`), and loops (`NoStaleRead`, `EachOnce`, `LoopsEnd`) |
| `Compression` | `NBTStore` | 206 k | Lengths 0 to 13 units in buffers, documents in a file shared with another process, or in a region: `DecompressesWhole`, `CompressesWhole`, `LoadedWasSaved`, `TrueIsWhole`, `FileTouchedLast`, `CallsReturn`, `StoreTypeOK` |
| `NBTFiles` | `MCNBT` | 81 k | Twenty-one trees, three names, every prefix of their files, every edit of an integer: `TypeOK`, `WrittenIsReadable`, `BufferFilled`, `DamageNoticed`, `FindsEveryKey` |
| `TailLost`, `FreshQuery`, `RaggedFile`, `TagLeak`, `NBTTruncated` | | | violations: see "Findings" |

Why these bounds are enough:

* Regions. Payloads of one and two sectors give every kind of resize (same size,
  smaller, larger, new, deleted). Three chunks are the fewest with one written chunk
  before, between and behind others, so that both passes move a neighbour. `MaxFile`
  (in `WithinBound`, a guard of `StartFlush`) keeps the file within six sectors: the
  header and four of data, so that two large chunks or three chunks of which one is
  large fit. In `RegionAny` the payload has 257 sectors (`oversize`), more than the
  count of the table can say, and 260 sectors let one of them be flushed beside a
  NULL write with the length 7. `Bent` makes the files whose entries are wrong: a chunk that
  is said to lie in the second sector, which is the table of dates, one that is said to be longer than
  its file, one at the very end. What is stored over a table reads as one entry
  (`MCStrayLocations`) or as the date 0 or 1, which is all that tells chunks that are there from
  others. The growing pass does not put an entry before the start of the file
  (`write_head' >= 0` in `GrowSetEntry`), where the code would fault. `HeaderKept` stops a file from shrinking below its
  header, which takes a damaged table. `Huge` stands for `UINT32_MAX`.
* Tags. Three tags are the fewest for a container in a container with a value that
  both hold; two keys for a compound whose delete must find the right one; `MaxItems`
  2; the client takes one reference to a tag at most (`MaxOwned`) and a count stops at
  2 (`MaxCount`), which is the root or a client beside a container, or two containers.
  `MaxCount` is needed, since each value lost adds one for good.
* Lists. Three cells are the fewest with one before and one behind the iterator; three
  keys fill them. Two tags, since
  an item may occur twice in a list.
* Compression. `MaxLen` 13 is more than three of the larger buffers, with every
  remainder by 4 and 3.
* Files. Documents of 2 and 5 units: one that fits into a buffer of either loop and one
  that does not, so that another process can write under the parser between two calls of
  zlib. `MaxFds` 2: a load leaves a descriptor open for good, and the second one takes
  the last.
* NBT. All kinds of tags at the edges of their numbers, alone, in lists and in
  compounds, down to three levels, some with one key at several depths (`MCTrees`; `MCTags` are these and what they contain).
  No file comes near the bound of `Counted`. `Values` has an integer that
  fits TAG_Int alone and one below zero. A changed name or root forgets the file written
  before, so that a file is always the newest version.

`CHECK_DEADLOCK FALSE` stands in `CarefulFlush` and `CarefulStore` (a torn region is
not opened again), `TagAny` (a crashed client does nothing) and `ListCells` (nor does one
that read a freed cell).

**Fairness.** `FairCarefulSpec` assumes weak fairness of the flush's next step,
`FairStoreSpec` of `NBTStore` that of the next step within a call (`Inside`). Both are
straight loops of one process that wait for nobody, so all this says is that a process
that was not killed goes on running. Nothing is assumed of clients, of the other process, nor of
`Crash`, with one exception: `FairSpec` of `ListCells` lets the client of a loop ask for
the next item at some time, since `LoopsEnd` is about clients that want to get through.
It may do anything in between, as often as it likes.

## 4. What is proved

A run checks a small instance, the theorems below hold for every value of the
constants. Each is proved from an inductive invariant that TLC has checked first; the
one of a module is shown to be kept by one lemma for each action.

### Region (`RegionInvariant`)

For every set of chunks and payloads, every initial file (also one whose tables make no
sense), every client and every place of a crash:

| Theorem | Statement | Also checked by |
|---|---|---|
| `TypeCorrect` | `Spec => []TypeOK` | RegionAny |
| `OneWrite` | `Spec => []OneWritePerChunk` | RegionAny |
| `CachedOnly` | `Spec => []CachedOnlyIfWritable` | RegionAny |
| `NoDuplicates` | `Spec => []NoDuplicateOrderedWrites` | RegionAny |
| `TouchesOnlyWritten` | `Spec => FlushTouchesOnlyWritten` | RegionAny |

Assumptions: `PayloadAssumption`, `InputAssumption`, `FileAssumption` and `StrayAssumption`
of `Region`, which say of what kind the parameters are and no more.

The inductive invariant is `IInv`:

* `TypeOK` alone is not inductive: `PlaceData` reads `cached_writes[cell]`, and only `Phases`
  says that there is such a cell; `CreateFile` needs that `new_fsize` is a natural
  number.
* `Phases` ties `pc` to the handle: a mapping exactly for a file that is not empty, no
  list without write mode, an index of at least 1 during a flush.
* `EmptyFileOK`: an empty file has empty tables. `CreateFile` clears both tables, which
  touches no chunk only because of this.
* `OneWritePerChunk` is kept by taking the first write for the chunk out before the
  new one is pushed. That this leaves no other follows from the invariant itself
  (`WithoutWriteProperties`).
* `Drawn`: a member of the ordered lists is the write at its rank, ranks are unique
  and below `cell`. With `OneWritePerChunk` this gives `NoDuplicateOrderedWrites`, and
  that each entry the passes store is that of a chunk in the list.

`TouchesOnlyWritten` then goes through the actions that change the tables: shifts change
offsets only, the stores of entries are those of chunks in the list, and what is moved
or stored as data leaves the tables alone as long as it starts behind them
(`StoreBehindTables`); if it does not, the step is one of those that the property excepts
(`OverTables`).

### Region, careful clients (`RegionLayout`, `RegionContents`)

For any set of at most 1024 chunks, any payloads, encodings and dates, every first file
that is sound, any number of open regions one after another, and every place of a crash,
under the rules of `RegionHistory`:

| Theorem | Statement | Also checked by |
|---|---|---|
| `NothingFails` | `CarefulSpec => []NoFailure` | CarefulFlush |
| `LaidOut` | `CarefulSpec => []LayoutAtLoopHeads` | CarefulFlush |
| `InsideFile` | `CarefulSpec => []EntriesInFile` | CarefulFlush |
| `GapFits` | `CarefulSpec => []GapIsGrowth` | CarefulFlush |
| `OldOrNew` | `CarefulSpec => []EachOldOrNew` | CarefulFlush |
| `WritesApplied` | `CarefulSpec => []FlushAppliesWrites` | CarefulFlush; TailLost shows what it needs `TailSurvives` for |
| `SlackKept` | `CarefulSpec => []FlushKeepsSlack` | CarefulFlush |
| `RegionImplementsStore` | `CarefulSpec => StoreSpec` | CarefulStore |

Assumptions: those above, `ChunkAssumption` (at most 1024 chunks) and `HistoryAssumption`
(the marks for absent, torn and no value are no values and differ).

The inductive invariant is `CInv`, which is `IInv` with two more parts:

* `Layout` says where the chunks lie. In the placement of an empty file everything done is
  below the write head, and `Space` is left for the rest. In the shrinking pass what is
  done lies below the write head, what is not lies from the read head on; the heads are
  as far apart as sectors have been freed, and what lies behind all shrinks ends before
  the new end of the file: this is `TailSurvives`, carried through the pass. In the
  growing pass what is done lies from the write head on, and the heads are as far apart as
  the chunks still to be grown need (`GapIsGrowth`); no growth is lost in `sectors_added`,
  which is counted while sorting and read in the resize. That every shrink frees at least
  nothing and every grow takes at least nothing needs the chunks to be whole, since the code
  tells one from the other by the length in the file. Both heads stay behind the
  tables throughout, so that no move or store changes those (`TablesKept`): for careful
  clients the exception in `FlushTouchesOnlyWritten` never applies.
* `Contents` says what they hold. The bytes of a chunk are at its entry, or at the other
  head between the shift of the table and the move (`Home`); they are what the chunk held
  before while its write is still to be done, and the written value afterwards (`Promise`).
  Only the chunk whose entry is stored and whose data comes next (`Storing`) has
  neither. That a move copies overlapping sectors in the right direction (`MoveSectors`)
  is why `Kept` survives it.

`SlackKept` rests on a second inductive invariant, `Balance`, which needs `CInv` to be
one: the sectors behind the tables are those that the entries count (`Used`), what is still
to be stored, and the slack the flush started with. In the placement of an empty file what
is still to be stored is `Space`, and every clear that has been passed leaves one sector
(`Clears`); in the shrinking pass the balance is that of the size the file will be cut to;
in the growing pass what is still to be stored is `GrowthOf(grows)`. A store of one entry
moves both sides by the same count (`UsedBesides`). That the slack of an existing file is
not negative is the lemma `Packed`: disjoint chunks are together no longer than
what they lie in.

`SequenceLemmas` has the lemmas about sums the heads need, shown with least
counterexamples, since the library defines sums by recursion.

`RegionImplementsStore` takes each step between `StartFlush` and `Finish` to a stutter,
`Finish` to the atomic flush or close, and `Crash` to a crash. Its proof showed that an
earlier promise, each chunk old, new or torn after a crash, was too strong: with two chunks
TLC finds no counterexample, with three of one sector each, the outer ones deleted, it
does: until the bytes of the middle one follow its entry, that points to the sector of the
first, whose payload is still whole there. `RegionStore` says now what holds.

### Tags (`TagHeapProofs`)

For any finite set of addresses, any keys, and any of the three bounds:

| Theorem | Statement | Also checked by |
|---|---|---|
| `TypeCorrect` | `Spec => []TypeOK` | TagAny |
| `NothingDangles` | `Spec => []NoDangling` | TagAny |
| `ListsAreHomogeneous` | `Spec => []ListsHomogeneous` | TagAny |
| `KeysAreUnique` | `Spec => []KeysUnique` | TagAny |
| `CountsExact` | `Spec => []CountExact` | TagAny |
| `OnlyLostTagsLeak` | `Spec => []OnlyLostLeaks` | TagAny |

Assumption: `TagAssumption` (finitely many addresses, of which NULL is none; the bounds
are numbers).

The inductive invariant is `TagInv`. None of the four safety properties is inductive
without the others: `NoDangling` needs exact counts, since a tag is freed when its count
comes to 0; `CountExact` needs `KeysUnique` (the value that a delete drops is the one
that loses its reference) and `NoDangling` (an address that is used again has no
holders left). Two parts are no property of their own:

* `Counted` says what the count is in the middle of `rs_tag_unref`, where `CountExact`
  says nothing of floating tags: the count is exact (`Settled`), or the tag floats and
  the one call that will free it is under way (`Sinking`).
* `Acyclic`: every set of tags has one that no other of the set contains. Clients build
  trees (`MayTake`), and this is why a tag taken apart is not among its own descendants.
  It is stated by sets, not by paths, so that no induction is needed; `Within` of `TagHeap`
  is stated by closed sets for the same reason, and `OnlyLostTagsLeak` then follows from
  a highest leaked tag: whoever holds it is a holder it does not have.

### Files and compression (`NBTStoreProofs`)

For buffers of any size, data of any length up to any `MaxLen`, any documents, any
number of descriptors, and every moment at which another process writes or a crash comes:

| Theorem | Statement | Also checked by |
|---|---|---|
| `StoreTypeCorrect` | `StoreSpec => []StoreTypeOK` | Compression |
| `DecompressionIsWhole` | `StoreSpec => []DecompressesWhole` | Compression |
| `CompressionIsWhole` | `StoreSpec => []CompressesWhole` | Compression |
| `WhatIsLoadedWasSaved` | `StoreSpec => []LoadedWasSaved` | Compression |
| `SavedIsReadable` | `StoreSpec => []TrueIsWhole` | Compression |
| `FileIsTouchedLast` | `StoreSpec => FileTouchedLast` | Compression |

Assumptions: `BufferAssumption` (the buffers are not empty) and `DocAssumption` (the
documents are lengths, and the marks are none of the values they stand beside).

The inductive invariant is `StoreInv`. Its parts about the loops (`Inflating`,
`Deflating`) say that `out` is the first `made` units of what is to come out and that
`write_head` is `made`; for `rs_compress` also how much zlib can have put out of the input
it was given, and that `finishing` is set exactly with the last block, which is what makes
the stream end. `Mapped` is what loads rest on. What a load has read may come from several versions
of a file that another process empties and rewrites under it. But a stream is taken only
with its foot, the foot is read last, and the version it came from was whole, since files
are written front to back: so what was read is a document of `whole`. `SavedSoFar` says
that the file is the prefix `written` of the stream unless something interfered, and gives
`TrueIsWhole`. `StoreTypeOK` counts descriptors exactly: a save holds one from
`SaveOpen` on and gives it back where it ends, in `SaveWrite` or `SaveClose`; a load takes one for
good.

### Lists (`ListCellsProofs`)

For any finite set of cells, any items, keys and tables of allocator functions:

| Theorem | Statement | Also checked by |
|---|---|---|
| `CellsTypeCorrect` | `Spec => []TypeOK` | ListCells |
| `CellsAreLinked` | `Spec => []WellLinked` | ListCells |
| `NoCellLost` | `Spec => []CellsExact` | ListCells |
| `OneAllocatorFrees` | `Spec => []OneAllocator` | ListCells |
| `LoopsReadLiveCells` | `Spec => []NoStaleRead` | ListCells |
| `LoopsGiveEachOnce` | `Spec => []EachOnce` | ListCells |
| `CellsImplementLists` | `Spec => ListSpec` | ListCells |

Assumption: `CellAssumption` (finitely many cells; NULL is nothing else; there is a table).

The inductive invariant is `CellInv`. `InOrder` says that the pointers follow `order`, which
holds each cell once, and that what is allocated is what is in it. Within `rs_list_reverse`
a place k divides the cells that are turned from those that are not (`HalfTurned`), and
within `rs_list_free` some sequence is left. `Iterating` gives a loop its place: all it was
given lies before it, and all that was there throughout and was not given lies at it or
behind (`Stands`). `NoStaleRead` needs that place: a body may only take out items it was
given, and those are not the cell that the iterator stands on.

`CellsImplementLists` is the refinement: the initial state maps to that of `TagList`, and
every step maps to the step of the same name, or to none for the turns of the loops within
`rs_list_reverse` and `rs_list_free`. The mapping reads the sequence of items off `order` and
turns the iterator's cell into its place there; the lemmas say how inserting, removing
and reversing cells moves both.

### NBT files (`NBTProofs`)

For any trees and names, and everything a file may hold after it was damaged:

| Theorem | Statement | Also checked by |
|---|---|---|
| `FilesTypeCorrect` | `Spec => []TypeOK` | NBTFiles |
| `BufferExact` | `Spec => []BufferFilled` | NBTFiles |
| `DamageIsNoticed` | `Fits => (Spec => []DamageNoticed)` | NBTFiles |

`Fits` is what a file can say: strings, keys and names of fewer than 65536 bytes and arrays
and lists of a length below 2^31, since the writer cuts lengths to 16 and 32 bits, and lists
whose items have one type, since the writer stores that once (`TagHeap` shows that
rs_tag_list_insert lets no other in, `ListsHomogeneous`). It also says that Nil is no
record. Without `Fits` the file written may not be one the parser can follow, and nothing
can be said of what it makes of half of it.

Assumptions: `BytesAssumption` (what damages a file are bytes, names are made of bytes) and
`TagsAssumption` (each tag of `Tags` has the contents of its type, and what it contains is in
`Tags`). The specification is `Spec`, for every set `Trees`; a tree that was edited in
`EditSpec` is one more of them.

The inductive invariant is `NBTInv`. Trees have any depth, and no proof here recurses over
them. `NBTInv` says instead that there is some set T of tags, with each of which it has
what that contains (`Closed`), such that all of the state is made of them: the root, what is
still to be written, the tags in the hands of the parser. A tag that is parsed joins T.

* `FileTyped` and `ParserTyped` give `TypeOK`: `at` moves only over what was found to be
  there, what is made of bytes is a tag with the contents of its type, and a list that
  waits has `count` above 0, since each item takes one off and the last ends the call.
* `Measured` gives `BufferFilled`. The two passes of `rs_nbt_write` are recursions of their
  own, and what relates them is the list of steps (`Run`): what is to be done next depends
  on what was to be done before and on nothing else, so the second pass does the very steps
  that were counted in the first. In every step as many bytes are written as were counted,
  with one exception: the end of a compound is written when the writer comes to it and was
  counted with its beginning, so that up to then the file is behind by one byte for each
  compound that is open (`Ends`). None is open at the end, and the lengths agree.
* `DamageIsNoticed` has an invariant of its own, `DamageInv`, on top of `NBTInv`. A file
  that was written has a `Track`: the steps in which the second pass wrote it, each with what was
  left to write and how many bytes were there. The parser never sees it, but walks it: at each
  step it stands at the number of bytes of some step of the track, and what the calls on its
  stack have still to read, one behind the other, is what was left to write then (`Matches`).
  A damaged file agrees with the one it was as far as both go (`Agree`), so this holds in it
  too until the parser finds too little and fails, or has parsed the root. Then nothing
  is left, and the parser stands where the other file ends; since the damaged file has another
  length, that is not its own end, and `Accepted` is false. A file that does not begin with a
  type fails at its first byte (`Blunt`). What is parsed can be written again (`Asked`), so
  that the next file has a track too.

### Only model-checked

* `WrittenIsReadable` and `FindsEveryKey` of `NBTTrees`: that a whole tree comes back from
  its bytes, and what a search finds in it, are stated with `RECURSIVE` operators over trees,
  which the prover does not take.
* `FlushTerminates`, `LoopsEnd`, `CallsReturn`: liveness under fairness, which needs
  `ENABLED`.

## 5. Findings

Each is a run of its own whose counterexample is short:

1. **TailLost** (bug). A flush that deletes or shrinks a chunk moves only what lies
   between two such chunks (region.c:541). What is behind the last one stays, and the
   resize cuts the freed sectors off the end: chunks behind it are truncated. Deleting
   the first of two chunks loses the second.
2. **FreshQuery**. Getters dereference a NULL table on a file that is still empty,
   against "If the chunk does not exist, this is NULL" (region.h:101).
3. **RaggedFile**. A file whose size is no multiple of 4096 opens and aborts the
   process in the next flush, after the shrinking pass has rewritten it;
   `rs_assert` is for "internal-consistancy checks ONLY" (error.h:17).
4. **TagLeak**. `rs_tag_compound_delete`, and `rs_tag_compound_set` on a key that is
   there, drop the value without an unref; it can never be freed.
5. **NBTTruncated**. A file cut off inside a string tag crashes the parser: the one
   case that does not test for too little data.

Met on the way, and kept out of the runs by a rule or a bound: a chunk written with
the timestamp 0 is absent afterwards while its sectors stay in use; a chunk of 256
sectors or more has its count cut to eight bits; the length of a string of 65536
bytes or more is cut to 16 bits, so that the file cannot be read (`StringBytes` does
this too, but no tree checked is that long); `rs_tag_list_insert` with an index
above 0 writes through NULL when the list is empty (`ListInsertCrash`).

Met in the code, and part of the models as they are:
`rs_nbt_parse_from_file` never closes its descriptor once it has mapped the file
(nbt.c:63-75); `rs_nbt_write_to_file` ignores what `fclose` returns (nbt.c:589), so that
true may be returned for a file that is cut off, and `rs_nbt_write_to_region` returns true on
a handle that takes no writes (nbt.c:561-564), both against "returns true on success"
(nbt.h:26). `TrueIsWhole` excepts the former (`spoilt`), so that it speaks of the rest of the
save. A chunk whose entry says that it begins in the second sector counts as one
(region.c:228), and writing it goes over the table of dates (`OverTables`). A
compound that is parsed has its nodes in the opposite order (tag.c:796-798 puts each in front),
so that the tag `rs_tag_find` calls the first (tag.h:69) may be another one after a save
and a load, when a key occurs in two items of one compound.

## 6. Not modelled

* Memory mapping for Windows and for systems without it, and the build: operating
  system calls without state of their own.
* Allocation failure: `rs_malloc` ends the process. `rs_realloc` passes on to the table
  like `rs_malloc0`, and no list uses it.
* Printing of tags, which changes nothing; `rs_list_find`, which nothing calls; floats;
  setting the contents of strings and arrays in place, which replaces a leaf.
* Addresses of strings: `rs_nbt_set_name` frees the old name before it copies the new
  one (nbt.c:605), which is a fault if they are the same string.
* The wrappers of the Python bindings, and the tools that only read: clients, with no
  state that matters here.
* Two handles that write one region file, or a mapping older than a resize. A second
  process that maps the file in the middle of a flush finds what `EachOldOrNew` and
  `EntriesInFile` say. `rs_region_flush` on a handle without writes is modelled as
  changing nothing, as in the code, though region.h:198-199 says that it rereads the file.
* Pointers of `rs_region_get_chunk_data` that a client keeps across a flush.
* A container put into itself: clients of `TagHeap` build no cycles (`MayTake`).

## 7. Plan

Done in this order: `Region` with its faults and crashes; `RegionHistory` and
`RegionStore`; the proof of `IInv`; `TagHeap`; `Compression`; `NBT`; `ListCells` and
`TagList`, with the allocator table; `NBTStore`; searching and editing in `NBTTrees`.

Proofs, in this order: `Region` for all clients; `TagHeap`; `NBTStore` with
`Compression`; `ListCells` with the refinement of `TagList`; `Region` for careful clients
with the refinement of `RegionStore`; `NBT`, damaged files last.

Next, the most important first:

1. `RegionShared`: two handles with one file mapped, both writing; faults behind a file
   that has shrunk.
