# TLA+ models of the fluxfox_fat directory layer

This directory holds TLA+ specifications of `src/src/dir.rs`, the FAT
directory layer of fluxfox_fat. It has TLC configurations that check the
specifications on small disk images, and TLAPS proofs of invariants that
hold for every image.

## The system

A FAT directory is a stream of 32-byte slots. For a FAT12/16 root this is a
fixed region of the disk. For a subdirectory, or a FAT32 root, it is a
cluster chain that grows when it is written past its end. `dir.rs` has these
layers:

* **The slot codec.** `DirFileEntryData`, `DirLfnEntryData` and
  `DirEntryData::deserialize` classify a slot as short entry, LFN fragment,
  free or end. Two `is_end` functions disagree:
  * `find_free_entries` uses `DirEntryData::is_end`, which also treats an LFN
    slot of order 0 as an end;
  * the iterator checks only short slots.
* **`DirIter` and `LongNameBuilder`.**
  * `read_dir_entry` reads slots until it gets a short entry.
  * Along the way it collects LFN fragments (`process`: order, checksum and
    last-flag checks, then `resize`).
  * It clears them at a free slot and checks the checksum against the short
    name (`validate_chksum`).
  * It returns `None` at a terminator, and an I/O error if the stream ends
    first.
* **`Dir`.**
  * `split_path`, `find_entry`, `open_dir`, `open_file`, `create_file`,
    `is_empty` and `remove` each walk a path component by component.
    `to_dir` asserts that every component before the last is a directory.
  * `create_file` calls `create_file_entry`. That function uses
    `find_free_entries` to find a run of free slots, or else the terminator's
    position. It then writes the LFN group and the short slot.
    `gen_short_name` produces the short name.
  * `remove` frees the entry's cluster chain, then marks the entry's slot
    range free.

## Modules

| Module | Models |
|---|---|
| `FatDir` | The directory layer: slots, builder, iterator, free search, entry creation, path operations. |
| `DirNames` | What the layer promises at the level of names: each directory is a set of names; create adds one, remove deletes one, open changes nothing. |
| `MCFatDir` | The model instance: a root and one subdirectory `sub`, short names, checksums and paths. |
| `FatDirIter` | A caller's `DirIter` (`Dir::iter`, `next`) whose `next()` calls interleave with the `Dir` operations. |
| `FatDirFaults` | `remove` failing with an I/O error part-way through its slot loop. |
| `EntryFields` | The 16-bit fields of a short entry: `set_modified`/`modified` (`Date`/`Time` `to_u16`/`from_u16`) and `set_first_cluster`/`first_cluster`. |
| `MCFatDirIter`, `MCFatDirFaults`, `MCEntryFields` | Their model instances. |
| `FatDirProofs` | TLAPS proofs of `TypeOK` and `TailFree` for every instance. |
| `FatDirFaultsProofs` | TLAPS proof of `TailFree` with failing removes. |
| `FatDirAllocProofs` | TLAPS proof of `NoCrossLink` for every instance. |
| `FatDirSlotsProofs` | TLAPS proofs of `EndsAgree` and `LiveSlotsKept` for every instance. |

### State of `FatDir`

* `dirs[d]`: the slot sequence of directory `d`.
* `chain[d]`: the clusters of its chain.
* `alloc`: the clusters the FAT marks used.
* `last`: the operation just performed, its path and its result
  (`ok`/`err`/`panic`).

### Slots and names

* A slot is a record of kind `end`, `free`, `short` or `lfn`. Names are model
  values.
* An LFN slot stores `<<name, part index>>`, or `"pad"`.
* `NameLen[n]` gives the byte length of a name. `NumLfn` is
  `(len + 12) / 13`, as the code computes it.
* `gen_short_name` and `lfn_checksum` are the constants `GenShort` and
  `Checksum`. `MCFatDir` gives them the values the code computes:
  * the extension keeps the dot (`NEW     .TX`);
  * `LONG    TXT` and `NEW     .TX` are given a common checksum, so the
    checksum-collision case is reachable.

### The iterator

* `Scan(s)` is a recursive function over the prefixes of `s`. It gives the
  builder state before each slot (`Fresh`, `Clear`, `Process`, `Step`).
* `Entries`, `RangeOf` and `FileName` give what `DirIter::next` yields.
* `RangeBegin(s, i)` is where the entry ending at short slot `i` begins
  (`begin_offset`). The loop resets `begin_offset` to the next slot after
  each free or short slot. So the range begins just after the last such slot
  before `i`, or at the iteration start. `RangeBegin` states this closed form
  with `Least` instead of reading the `begin` field of `Scan`. The provers
  can reason about the closed form but not about the recursive `Scan`. TLC
  checked that the two agree in every reachable state of the passing runs.
* `Terminated` says whether a terminator comes before the end of the stream.

### Actions

There is one action per public operation, over every path in `Paths`:

* `OpenDir`, `OpenFile`: `open_dir`, `open_file`.
* `CreateFile`: `create_file` with `CreateFileEntry`, `FreePos`, `Group` and
  `WriteRun`.
* `Remove`: `remove` with `IsEmpty`, `ChainFrom` and `MarkFree`.

Each action also covers its path walk (`Walk`, `WalkFails`). That includes
the `to_dir` panic and the error results of `find_entry` and of the
name-length check.

### Iterating while the directory changes (`FatDirIter`)

`Dir::iter` clones the stream, and the `DirIter` does not borrow the `Dir`.
A program can therefore create and remove entries of the directory it is
listing. `FatDirIter` adds:

* `itr`: the iterator's stream position (`pos`), its `err` flag, and whether
  `next()` has returned `None` (`done`);
* `IterNext`: one `next()`. It returns `None` after an error. Otherwise it
  reads from `pos` to the first stop (`Stops`: a terminator or a live short
  slot), with a builder that starts fresh at `pos` (`ScanFrom`). It sets `err`
  if the stream ends first.
* `DirStep`: any `Dir` operation between two `next()` calls;
* history variables: `seen` (the yielded `<<slot, name>>` pairs) and `touched`
  (the slots of the directory an operation rewrote since `iter()`).

### Failing removes (`FatDirFaults`)

`remove` frees the cluster chain (`dir.rs` 562-565), then rewrites the slots
of the range one by one (566-579). Each read and write can fail with `?`.
`RemoveFails(p)` frees the chain, then fails at some slot `k` of the range,
with the slots before `k` freed (`MarkFreeBefore`), and returns `err`.
A failure after the LFN slots and before the short slot leaves the file
listed under its short name. `create_file` then accepts the long name again,
and two such failures give two entries with one name. This has the same root
cause as `fatdir_remove_io_dangling`, so it has no run of its own.
`FNext` is `Next` plus these steps. The failure of the cluster free itself
is not modelled: `cluster_iter` is not in this source.

### Entry fields (`EntryFields`)

The fields are `u16` words, and the model keeps that width:

* `Shl16(a, k)` is `(a * 2^k) % 2^16`;
* `|` and `&` come from `Bitwise`;
* `year - 1980` on a `u16` panics in a debug build and wraps in a release
  build. `SetModified` allows either outcome for a year before 1980, and the
  pass run reaches both. A release build stores 1970 as 2098, and 2108 as
  1980. The spec (3.5) gives the range 1980-2107 and says nothing of other
  years, so no property states what they become.

`None` is a model value for `Option::None`. The inputs are:

* dates at the edges of each field, plus the years 1970, 1979, 2024 and 2108;
* clusters 2, 65535, 65536 and 268435447 (the largest FAT32 cluster).

### Modelled from the spec

`File` and `DiskSlice` are not in this repository's `src/`. The following are
therefore modelled from the spec:

* a write past the end of the fixed root is short (`Room`, `Written`);
* a write past the end of a chain allocates a cluster that reads as
  terminators (`Grown`);
* a read past the end of the stream fails.

`PROJECT.json` lists the source lines of every definition.

## Runs

| Run | Expect | Shows |
|---|---|---|
| `fatdir_fixed_root` (`MCFatDir.cfg`) | pass | `TypeOK`, `TailFree`, `UniqueNames`, `AllocMatchesTree`, `CreateThenFind`, `NoCrossLink`, `EndsAgree` and `LiveSlotsKept` hold on a fixed 6-slot root. |
| `fatdir_fat32_growth` (`MCFatDir32.cfg`) | pass | `TailFree`, `AllocMatchesTree`, `CreateThenFind`, `NoCrossLink`, `EndsAgree` and `LiveSlotsKept` hold while the root grows by clusters. |
| `fatdir_refines_dirnames` (`MCFatDirRefine.cfg`) | pass | `FatDir` implements `DirNames`. The mapping sends `names[d]` to the listing of `d`. |
| `fatdir_no_terminator` | violation | Creating `a-much-longer-name.txt` writes 3 slots into the last 3 slots of the root. No terminator is left, and listing the root fails with EOF. |
| `fatdir_remove_dot` | violation | `remove("sub/.")` frees cluster 1 while the root's `SUB` entry still points at it. |
| `fatdir_path_through_file` | violation | `open_dir("long.txt/new.txt")` panics in `to_dir`. The spec says it should return an error. |
| `fatdir_nul_name` | violation | Creating a name whose short name starts with NUL returns `Ok`, but the file is then read back as a terminator and cannot be found. |
| `fatdir_iter_during_changes` (`MCFatDirIter.cfg`) | pass | `StableEntriesListed` and `IterationEnds` hold while the root is listed and changed. |
| `fatdir_iter_straddle` | violation | The iterator has yielded `long.txt` and `sub`. `sub` is removed and `new.txt` is created in its slots 3-4. `next()` starts at slot 4 and yields the new file as `NEW..TX`, a name no listing gives it. |
| `fatdir_remove_faults_tail` (`MCFatDirFaultsSafe.cfg`) | pass | `TailFree` holds with failing removes. |
| `fatdir_remove_io_dangling` | violation | A remove that fails in its slot loop leaves the entry live with its cluster freed. |
| `entry_fields` (`MCEntryFields.cfg`) | pass | `ModifiedRoundTrip` and `FirstClusterRoundTrip` hold. |

### Properties

* **`TypeOK`**: every directory is a sequence of well-formed slots. This
  includes LFN part indices within the 255-character limit.
* **`TailFree`**: after the first terminator, every slot is a terminator. It
  covers:
  * the position `find_free_entries` returns;
  * writes and growth;
  * `remove` marking only slots before the terminator.
* **`UniqueNames`**: no directory lists a name twice.
* **`AllocMatchesTree`**: the FAT holds exactly the clusters the reachable
  tree references. Each such cluster is in a reachable directory's chain or
  is the first cluster of one of its entries. So no entry dangles and no
  cluster leaks.
* **`NoCrossLink`**: no cluster is cross-linked. It has four parts:
  * every directory chain is allocated;
  * two chains share no cluster;
  * the first cluster of each file entry (`OwnsCluster`) is allocated and in
    no chain;
  * two entries never share a first cluster.

  This is weaker than `AllocMatchesTree`: it allows leaked clusters and the
  dangling chain that `remove` of `.` leaves (`remove` of `..` is always
  refused). It is the part that survives
  every image and every call sequence of the passing runs. A remove whose
  range stops one slot short (`RangeOfShort`) leaves the entry live with its
  cluster freed, and `NoCrossLink` catches that.
* **`EndsAgree`**: the two end tests agree on every slot. Every slot that
  `DirEntryData::is_end` reports as the end is one `read_dir_entry` stops
  at too. That covers `find_free_entries`'s use of `is_end`, which includes
  an LFN slot of order 0. A group whose fragments are numbered from 0
  (`GroupOrdFromZero`) breaks it.
* **`LiveSlotsKept`** (action property): no step overwrites a slot the
  iterator reads (one before `EndPos`) that holds an entry or an LFN
  fragment. The one exception is a successful `remove`, which may change
  such a slot only to free, and only in the range of the entry `find_entry`
  returned for the path's last component. So `create_file` writes only
  into the free run or the tail that `find_free_entries` found. Two mutants
  break it:
  * `FreePosRunEarly`: a free run taken to start one slot early;
  * `MarkFreeOneMore`: one slot too many freed.
* **`CreateThenFind`**: after a successful `create_file`, the name is listed.
* **`RefinesDirNames`**: every step changes at most one directory's name set,
  and only as the operation allows.
* **`StableEntriesListed`**: an iteration that ends with `None` has yielded,
  under its original name, every entry of the initial directory whose slots
  no operation rewrote while it ran. So removes and creates between `next()`
  calls never make the iterator skip an untouched entry.
* **`IterationEnds`**: a caller that keeps calling `next()` sees `None`.
* **`YieldIsLogicalEntry`** (violated): every yielded entry is a logical
  entry of the directory at that moment.
* **`ModifiedRoundTrip`**: for years 1980-2107, `modified()` returns what
  `set_modified` stored, with the seconds rounded down to even.
* **`FirstClusterRoundTrip`**: `first_cluster()` returns what
  `set_first_cluster` stored, for every FAT32 cluster number.
* **`ListingTerminates`** and **`PathThroughFileIsError`**: the spec's
  statements that the violation runs break.

Each property of a passing run has a mutant in `PROJECT.json`: a plausible
bug in the definition it is about, which TLC finds. The mutants cover:

* off-by-one in the free search;
* the LAST flag placed on the wrong LFN slot;
* a dropped length check;
* no existence check in `create_file`;
* freeing only the first cluster;
* a grown cluster not linked into the chain;
* one slot too many freed, or the short slot left out of the range;
* LFN fragments numbered from 0;
* a free run taken to start one slot early;
* freed slots written as terminators (`MarkFreeAsEnd`, `MarkFreeBeforeAsEnd`);
* `next()` not setting its error flag;
* a minute field shifted by 6, and a cluster high half taken from bit 15.

### Bounds

The image has two directories and five paths of length one or two, including
a path into `sub`. The names cover each class the code treats differently:

* one LFN fragment (`long.txt`, `new.txt`);
* two fragments (`a-much-longer-name.txt`, 22 bytes);
* over 255 bytes (`toolong`);
* `.`/`..`;
* a colliding checksum;
* a NUL short name (in `fatdir_nul_name` only).

Six root slots let a create be:

* reusing a free slot;
* written at the terminator;
* filling the root exactly;
* cut short.

In `fatdir_fat32_growth`, a cluster of 3 slots makes a two-fragment create
cross a cluster boundary. Five clusters leave one free. Each state count is
above 4000.

`fatdir_iter_during_changes` uses the paths `long.txt`, `sub` and
`a-much-longer-name.txt` on the fixed root. Removing `sub` and creating a
two-fragment name reuse freed runs behind and ahead of the iterator. The
straddle run swaps the long name for `new.txt`, which fits the two slots
`sub` frees. The run has 26015 distinct states.

The iterator runs use `VIEW IView`. It leaves out `last`, which no action
reads, so the states it merges have the same successors. They set
`CHECK_DEADLOCK FALSE` because the listing session ends when `next()` returns
`None`. `DirStep` is guarded by `~itr.done`. The `EntryFields` runs set it
because a panic ends the program.

### Fairness

The `Dir` operations are called by the program, and none of them must
happen, so they get no fairness. The one liveness property is about a caller
that iterates with a `for` loop, which calls `next()` until it returns `None`.
`ISpec` therefore has `WF_allvars(IterNext)`: `next()` is always enabled
until `done`. `IterationEnds` then holds because every call moves `pos`
forward in a bounded stream or ends the iteration. The mutant that drops the
`err` flag breaks it: `next()` fails forever at the end of the stream.

## Proofs (`FatDirProofs`)

The constant assumption `ConstantsAssumption` in `FatDir` requires that:

* the image is well-typed;
* cluster numbers are positive;
* each initial directory has its terminators only at its tail.

From it, two theorems are proved:

* **`TypeCorrect`** `Spec => []TypeOK`. It rests on a lemma per action:
  * `GroupType`: a group is a sequence of non-end slots;
  * `FreePosBound`: the write position is in `1..Len+1`;
  * `WriteRunType`, `CreateType`, `RemoveType` and `OpenType`.
* **`TailFreeInvariant`** `Spec => []TailFree`. `TailFree` alone is not
  inductive, because the write lemmas need the slot types. The inductive
  invariant is `TailInv == TypeOK /\ TailFree`. The argument:
  * `EntriesBeforeEnd`: every entry of a directory lies before its first
    terminator, so `MarkFree` changes only slots before it (`MarkFreeTail`);
  * `WriteTail`: `WriteRun` writes non-end slots at a position no later than
    the first terminator, or at a free run before it. Past the group, growth
    appends only terminators.

**`FaultTailFree`** (`FatDirFaultsProofs`) `FSpec => []TailFree`. It uses the
same inductive invariant `TailInv`:

* `TailStep`: a step of `Next` keeps `TailInv`. It is the step case of
  `TailFreeInvariant`, factored out so that both theorems cite it.
* `MarkFreeBeforeTail`: freeing a prefix of an entry's range keeps the
  terminator tail, for the same reason `MarkFreeTail` does.
* `RemoveFailsType` and `RemoveFailsTail`.

`LeastIsMin` comes from the well-foundedness of `<` on `Nat`. It gives the
minimality of `FindEntry` and `RunStart`.

**`NoCrossLinkInvariant`** (`FatDirAllocProofs`)
`Spec /\ NoCrossLink => []NoCrossLink`. The code does not check the image
it mounts, so the theorem assumes the initial image has no cross-link. The
inductive invariant is `NCInv == TypeOK /\ NoCrossLink`. The argument:

* `RefsKept`: no step makes a slot own a cluster that did not own it before,
  at the same position. Under it, `RefsShrink` shows the owning slots after
  the step are a subset of those before, with the same clusters.
* `NoCrossLinkShrink`: a step keeps the invariant if it:
  * keeps `RefsKept`;
  * only shrinks chains;
  * frees a set `F` of clusters that no remaining chain or owning slot holds.
* `create_file` (`WriteRunNoCrossLink`, `CreateNoCrossLink`). The group it
  writes owns no cluster (`GroupOwnsNone`): its short slot has cluster 0.
  Growth takes clusters outside `alloc`, which by the invariant are in no
  chain and owned by no slot.
* `remove` (`RemoveNoCrossLink`). The entry `i` that `find_entry` returns
  lies in its own range (`FoundIsEntry`, `EntryInRange`). So `MarkFree`
  frees its short slot (`MarkFreeRefs`). Then there are three cases, each
  an instance of `NoCrossLinkShrink`:
  * a subdirectory: its chain is freed and emptied, and disjointness keeps
    the other chains and entries clear of it;
  * a file: its one cluster is freed, and uniqueness keeps it out of every
    other entry;
  * cluster 0 (`..` of a root child): nothing is freed, and the root's chain
    would be emptied. The proof covers this case, but no run reaches it:
    such a `..` entry is only removed when its directory is empty, and the
    root is never empty while the child exists.

**`EndsAgreeInvariant`** and **`LiveSlotsKeptHolds`** (`FatDirSlotsProofs`)
are `Spec /\ EndsAgree => []EndsAgree` and
`Spec /\ EndsAgree => LiveSlotsKept`. The code accepts any image. An image
with an order-0 LFN slot makes `find_free_entries` stop early, and
`create_file` then overwrites entries the iterator still lists (dir.rs:200).
So both theorems assume the initial image has no such slot. Both use the
inductive invariant `EAInv == TypeOK /\ EndsAgree`. The argument:

* `GroupEndsAgree`: the fragments `create_file_entry` writes have orders
  `1..NumLfn`. Its short slot is an end for both tests exactly when its name
  starts with byte 0. `WriteRunEnds` and `EndsAgreeStep` then carry
  `EndsAgree` through growth and through `MarkFree`'s free slots.
* `WrittenSlotsFree`: a slot of the run `find_free_entries` returns that lies
  before `EndPos` is free. There are two cases:
  * a complete free run;
  * the run that ends at the slot taken for the end, which by `EndsAgree` is
    at or after `EndPos` (`EndPosBound`), so only the free slots before it
    can lie before `EndPos`.
* `WriteRunKeeps` and `CreateKeeps`: `create_file` therefore leaves every
  such slot as it was.
* `RemoveKeeps`: `remove` changes a slot only through `MarkFree` of the
  entry it found, and only on success.
* The action property follows by `PTL` from `EAInv /\ [Next]_vars =>
  [KeptStep]_vars`. Here `KeptStep` is the body of `LiveSlotsKept`.

These are checked by TLC only:

* `UniqueNames`, `AllocMatchesTree`, `CreateThenFind` and the refinement.
  They depend on which name each entry carries. That means the long-name
  builder state that the recursive `Scan` computes over every prefix, and the
  installed provers cannot prove facts about it: the library's induction
  theorems take an operator parameter. `AllocMatchesTree` also needs
  reachability of the directory tree.
* `IterationEnds`: liveness is beyond TLAPS.
* Everything about `FatDirIter` and `EntryFields`. `EntryFields` uses
  `Bitwise`, and `FatDirIter`'s properties rest on `Scan`.

## Not modelled

* The byte layout of slots. Of the numeric fields, only the modification
  time and the first cluster are modelled. The creation and access dates use
  the same conversions.
* `FileEntryInfo::write` and `File` objects.
* An I/O error in the cluster free of `remove`.
* The FAT table beyond the set `alloc` and the per-directory `chain`.
* I/O errors other than the ones above.
* Several handles open on the same directory.

The hazards these leave uncovered are in `PROJECT.json` with notes.

## Plan for later sittings

* Add a corrupted-image input with an order-0 LFN slot. A violation run of
  `LiveSlotsKept` would then show create overwriting a listed entry.
* Model `gen_short_name` as an operator over short character sequences,
  replacing the constant table.
* Prove `AllocMatchesTree` from `NoCrossLink` plus a reachability argument
  over the directory tree.
* Combine iteration with failing removes.
