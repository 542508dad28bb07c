# macbitlock in TLA+

A verification development for `macbitlock`, a pure-Python tool that reads,
decrypts and creates BitLocker volumes (`src/macbitlock/`, 17 files). It models
the parts of the program that read and change disks, checks them with TLC on small
instances and proves the main results with TLAPS for every value of the
constants. Everything is translated from the Python source; where the source
and its documentation disagree, the model follows the source and a run shows
the disagreement.

Contents: [1 The system](#1-the-system) · [2 Modules](#2-modules) ·
[3 Runs](#3-runs) · [4 Fairness](#4-fairness) · [5 Proofs](#5-proofs) ·
[6 Findings](#6-findings) · [7 Assumptions and limits](#7-assumptions-and-limits) ·
[8 Plan](#8-plan)

## 1 The system

### Components, their state and operations

| component | source | state | operations | what makes it correct |
|---|---|---|---|---|
| in-place encryptor | `encryptor.py` 391-626 | the device; the position in the region loop; the saved header; the block being written | detect the file system, compute regions, encrypt chunk by chunk, write three metadata blocks, the header backup, the BitLocker header last, sync | a volume that carries the BitLocker header can always be unlocked and gives back its data; each sector in use is sealed once, under its own place; nothing else is touched |
| image encryptor | `encryptor.py` 164-388 | source and output image | copy, encrypt, write structures into a new image | decrypting the image gives the source back |
| volume layout | `encryptor.py` 61-100 | none (a function) | `_calculate_layout`, `_align` | structures disjoint, sector-aligned, inside the volume, below 4 GB |
| FAT32 used-region scan | `encryptor.py` 103-161 | the list of regions | scan the first FAT, sort, merge | exactly the maximal runs of sectors in use |
| sector cipher | `crypto.py` | none | AES-XTS and AES-CBC per sector, Elephant diffuser, choice of method and keys | decryption undoes encryption under the same key and place, and under no other |
| decryptor | `decryptor.py` | source, output file, the metadata block tried, the offset | try the three metadata blocks, unwrap VMK and FVEK, restore the header, decrypt chunks, copy the unencrypted rest; `get_volume_info` | a failure costs nothing; one good block is enough; the output is the original volume |
| volume header | `volume.py` | none | parse a BitLocker or BitLocker-To-Go header, build one from a BPB | what is built parses back to the same layout |
| metadata builder, parser | `builder.py`, `metadata.py` | none | FVE block: header, entries, CCM-wrapped keys, validation | the entries built are the entries parsed; nonces are not reused |
| key hierarchy | `keys.py` | none | password and recovery key stretching, unwrapping, recovery key arithmetic | either protector leads to the same FVEK; a mistyped recovery key is refused |
| partition detection | `partition.py` | none | the four entries of an MBR, the VHD footer, offset and size of the volume (no GPT) | the volume is found, whatever the other entries are |
| USB drives | `usb.py` | a `USBDrive` snapshot per drive | `diskutil` list, info, unmount, mount | what the snapshot says still holds when it is used |
| commands | `cli.py` | the progress of a command | `info`, `decrypt`, `encrypt`, `encrypt-usb` | nothing is written without consent, to a mounted drive, or without handing the recovery key out |
| constants, package | `constants.py`, `__init__.py`, `__main__.py` | none | none | (no behaviour) |

### How they interact

`encrypt-usb` detects drives (`usb.py`), asks the user, unmounts, and calls the
in-place encryptor, which uses the layout, the region scan, the sector cipher,
the key functions and the builder, and writes to the raw device. It then
mounts again and prints the recovery key. The decryptor finds the volume
(`partition.py`, `volume.py`), reads metadata (`metadata.py`), unwraps the keys
(`keys.py`) and writes an image. All calls are synchronous and the program has
one thread: there are no callbacks except progress reports. What runs
concurrently is the rest of the world: the owner who stops the command or pulls
the drive, macOS that mounts and ejects it, the device that fails.

### What is hard

* **Order and crash.** The conversion is in place. Nothing is journalled, and
  the only atomicity is the place of the BitLocker header, written last.
* **Retry.** The key of an interrupted run is gone; a second run starts on
  what the first one left.
* **Fixed places.** Metadata and backup go to places computed from the volume
  size alone, whatever is stored there.
* **Sector arithmetic.** Places are counted in 512-byte sectors, in sectors of
  the volume and in bytes; every tweak depends on it.
* **Staleness.** The FAT is read before the writes; the drive is looked at once,
  before the prompts.
* **Fallback.** Three metadata blocks, any of which may be damaged.
* **Containers.** A volume may lie behind a partition table, before a VHD
  footer, and be encrypted only in part.
* **Lengths.** The parser of the metadata goes by sizes and byte offsets alone
  and stops without an error at the first that does not fit.

`PROJECT.json` lists each such hazard with the line where it bites and the
properties that watch it.

## 2 Modules

Operators preceded by a comment "Seeded fault" are not part of the model: each
is a plausible mistake in the operator that follows it, and `PROJECT.json`
(`mutants`) names the property that catches it when it takes that operator's
place.

**`SectorCipher`** (`crypto.py` 11-52, 165-255). The content of a sector is a
base value under layers, each a cipher operation with a key and a place; an
operation cancels the topmost layer when it is its inverse with the same key
and place, and otherwise adds one. So a sector sealed twice, or opened with
another key or tweak, is not the original, as with the real ciphers. XTS and
CBC differ only inside a sector and are one operation here.

**`Layout`**, **`LayoutPlan`** (`encryptor.py` 61-100). The offsets as pure
operators; `LayoutPlan` is the call for one volume. `LayoutFits` is a condition
that is *not* in the code: the size from which the layout is sound.

**`Fat32`**, **`Fat32Regions`** (`encryptor.py` 103-145). `Fat32` defines the
geometry, the sectors that a set of clusters covers, and the maximal runs of a
set of sectors, which is the reference definition. `Fat32Regions` is the scan,
the sort and the merge loop, one iteration a step, and is shown to return the
runs. An entry counts in its low 28 bits (`EntryRange`).

**`BitLockerVolume`**. A device as an array of sectors with the structures of
`Layout`, a torn write (`Put(disk, w, m)`: the first `m` sectors of `w`), and
`View`, which is what a reader gets for a sector.

**`InPlaceEncryptor`** (`encryptor.py` 391-626, 46-58). One action per write or
decision:

| code | action |
|---|---|
| 415-538: read header, detect, compute regions and keys | `ReadVolume`, `RefuseVolume` |
| 544-554: next region, skip or clip the header | `EnterRegion` |
| 556-602: one chunk read, encrypted, written back | `EncryptChunk` |
| 604-608: one metadata block | `WriteMetadata` |
| 610-612: the header backup | `WriteBackup` |
| 614-617: the header, zeros after it | `WriteHeader` |
| 619-626: flush, fsync, return | `Sync` |
| a cut at any sector of the write under way | `Interrupt` |

Keys are numbered by run. What a FAT reads as once it has been sealed, or
overwritten by a structure, is any of `StaleReadings`. `MaxRuns` bounds how
often the tool is started; nothing else is bounded.

**`InPlaceInvariant`**: its inductive invariant. **`Conversion`**: what it
promises an owner, in three variables without sectors: `plain`, `converting`,
and then `locked` and readable, or `broken`. It has one atomic commit.
`InPlaceEncryptor` implements it (`ImplementsConversion`, the mapping is
`StatusOf`, `ReadableOf` and `run > 1`), and `EncryptUsb` uses it as the contract
of the call.

**`PartitionScan`** (`partition.py` 13-69, `volume.py` 67-78). Where a volume
starts and whether its first sector is taken for a header. A sector counts by
its face: the eight bytes at offset 3, the mark 55 AA, the label at offset 82.

**`Decryptor`** (`decryptor.py` 57-276; `metadata.py` 72-177 and 264-282 and
`keys.py` 109-123 as outcomes). A `job` is the whole situation: the source with
its container, the health of the three blocks, the protectors, the credentials,
whether the output path names the source.

| code | action |
|---|---|
| 77-78: credentials given | `CheckCredentials` |
| 83-87, 235-238: search and header | `FindVolume` |
| 89-103: the next metadata block | `SkipCopy`, `NoCopyLeft`, `TakeCopy` |
| 239-271: the fields of the description | `DescribeCopy` |
| 105-161: entries, VMK, FVEK, open the output | `Unlock` |
| 162-180: the header from its backup | `RestoreHeader` |
| 182-217: chunk by chunk | `DecryptChunk`, `BodyDone` |
| `crypto.py` 208-209: a method that is not known | `UnknownMethod` |
| 218-228: the rest as it is | `CopyTail` |
| any read raises | `ReadFails` |

**`ImageEncryptor`** (`encryptor.py` 164-388, 147-161). The same structures as
the in-place conversion, but into a new file and in another order: the header
first, the sectors, the blocks, the backup.

| code | action |
|---|---|
| 192-315: read, detect, regions, keys, open the output | `Refuse`, `Open` |
| 316-322: the header and its zeros | `WriteHead` |
| 324-360: one chunk, sectors not in use as they are | `EncryptChunk`, `EndBody` |
| 362-366: one metadata block, unless it lies past the end | `WriteMetadata` |
| 368-370: the header backup | `WriteBackup` |
| 372-384: the file made as long as the source | `FitSize` |
| a cut inside any write | `Interrupt` |

**`ImageRoundTrip`**. `encrypt` and then `decrypt` on what is there, finished or
cut off: an instance of `Decryptor` whose source is the output of
`ImageEncryptor`. What `read_metadata` makes of a block that is there only in
part is left open (`BlockHealth`).

**`MetadataEntries`** (`builder.py` 28-225, `metadata.py` 126-261). The builder
makes trees of entries, each of so many bytes. The parser knows only bytes: at
an offset it finds either the header of an entry or a field that is no header,
or the time stamp of a nonce, which may look like one. So a wrong size anywhere
loses what follows.

**`RecoveryKey`** (`keys.py` 52-84, 151-180). The arithmetic of the 48 digits
with real numbers, and the two ways of mistyping them.

**`KeyHierarchy`** (`keys.py`, `crypto.py` 144-162, `encryptor.py` 205-299 and
448-510, `builder.py` 228-404, `decryptor.py` 32-43 and 105-155). The writer is
a sequence of actions: `Generate` (keys, salts, time stamp), `WrapNext` (the six
wraps in the order of the code), `BuildBlock`, `Validate`. `encrypt_volume` and
`encrypt_device_inplace` contain the same code here, line by line. The reader is two
operators over what it extracts from the stored block, `OpenWithPassword` and
`OpenWithRecovery`; nothing else passes from one to the other. `MaxRuns` bounds how many
encryptions follow each other.

**`EncryptUsb`** (`cli.py` 229-381 with `usb.py`). One action per stage of the
command, plus the environment: `Ask` (the user), `Kill`, `OthersMount`,
`OthersUnmount`. The call of `encrypt_device_inplace` is not translated a second
time: `Begin`, `Seal`, `Commit` and `WriteFails` are the actions of `Conversion`
(`Contract`), which is what `InPlaceEncryptor` is shown to implement. So that the
command is a conversion is no result here, but what it may rely on.

The `MC…` modules hold only values for the constants. `…Proofs` hold theorems.

## 3 Runs

Eight runs pass.

| run | question | properties | bounds and why they are enough |
|---|---|---|---|
| `layout` | Is every layout sound? | `StructuresDisjoint`, `StructuresSectorAligned`, `OffsetsWithin32Bits` | the code's own constants, counted in units of 64 bytes; sizes from 32 MB (the smallest FAT32) to 100 GB, sector by sector around 36 MB + 2 GB + 64 KB (where the layout changes), around 4 GB and just above 32 MB; sector sizes 512 to 4096. TLC's 32-bit integers hold because of the unit |
| `regions` | Does the scan and merge return exactly the sectors in use? | `TypeOK`, `ReturnsTheRuns`, `MergeLosesNothing` | all FATs of a 13-sector volume over four entry values (with and without reserved bits) and four geometries: the FAT limits the scan, the volume limits it, the last cluster is cut, a single FAT |
| `inplace` | Is a FAT32 volume safe at every cut and on a second run? | `TypeOK`, `LockedMeansRecoverable`, `SealedOnceInPlace`, `ReportedMeansComplete`, `IInv`, `HeaderWrittenLast`, `CopiesSurviveTheRun`, `RunEnds` | 20 sectors: header 2, blocks of 2 sectors, chunks of 3 (they do not divide the regions), four allocations (empty, gaps and neighbours, clusters under the structures, full), two runs; full and used-space mode both |
| `inplace_ntfs` | Is the conversion atomic to its owner, and what is the success of a third run worth? | `LockedMeansRecoverable`, `ReportedMeansComplete`, `ImplementsConversion` | the same device as NTFS, three runs: first, retry, retry of the retry |
| `decrypt` | Is the volume found, described and given back, or are things left as they were? | `TypeOK`, `FailureKeepsOutput`, `OneCopyIsEnough`, `FindsTheVolume`, `InfoFromOneBlock`, `OutputIsOriginal`, `DoneMeansView`, `DecryptionEnds` | the 20-sector volume encrypted in full or to sector 13; behind a 3-sector partition table, with sectors after it, with a footer, with a partial last sector, four sectors short; seven ways to be hidden among other entries and decoys; every health of the first block and six continuations to decrypt, every combination of three to describe; each credential none, right, wrong; any read may fail |
| `image` | Does decrypting an encrypted image give the source back, and what does a cut leave? | `TypeOK`, `RoundTrip`, `CutImageKeepsData`, `EncryptionEnds` | the same 20 sectors and allocations in a file, chunks of 4, FAT32 and NTFS, full and used-space mode, with and without a partial last sector, onto itself; a cut inside every write |
| `keys` | Does either protector open what was stored, with no nonce used twice? | `TypeOK`, `NonceUsedOnce`, `ParsesWhatWasBuilt`, `EitherProtectorOpens`, `RecoveryTypoRefused` | the four methods, fifteen time stamps on both sides of each limit at which one reads as an entry, two recovery keys with the least and greatest values, two encryptions in a row with the clock set back or not |
| `usb` | Does the command keep to consent and to unmounted drives, and hand out the key? | `TypeOK`, `NothingWithoutConsent`, `WrittenOnlyUnmounted`, `KeyReachesOwner` | one drive with any of five file systems; no other bound, the state space is finite |

What they show, in the order of their weight:

* `LockedMeansRecoverable`: whichever write is cut at whichever sector, a
  volume with the BitLocker header opens, and every sector that no structure
  overwrites decrypts to what it was. This is the "LAST for safety" of
  `encryptor.py:614`, and includes the torn write of the header itself.
* `ImplementsConversion`: seen by the owner, the hundreds of writes are one
  atomic commit, also when a first run was cut off and the tool is started
  again, where the abstract conversion no longer promises the data.
* `SealedOnceInPlace`: no sector is encrypted twice, none under another tweak,
  no free one is touched, at every moment of the first run.
* `ReportedMeansComplete`: the success of a run, also of a second or third one,
  means that header, blocks and backup are those of this run and not what an
  earlier one left, and that this run has sealed each data sector in use exactly
  once, and no other, over the original under layers of earlier runs, each at its
  place. With its key, a reader gets every sector as the run found it.
* `HeaderWrittenLast`: for every run, also a second one.
* `CopiesSurviveTheRun`: a block, once written, is not damaged by the same run.
* `RoundTrip`: writer and reader agree on the whole format. Every sector in use
  comes back, wherever chunks, regions, structures and the end of the file fall.
* `EitherProtectorOpens`, `ParsesWhatWasBuilt`: sizes, nesting, order of the
  entries, counters, key lengths fit together between `builder.py` and
  `metadata.py`. The property states its one exception exactly: a time stamp
  that reads as the header of an entry with a key (`TimeReadsAsKey`).
* `NonceUsedOnce`: one time stamp serves all nonces of a run and may return in
  the next; the counters and the keys of a run keep the uses apart.
* `OneCopyIsEnough`, `FailureKeepsOutput`: the fallback tolerates lost blocks,
  and a mistyped password does not empty an existing output file.
* `RecoveryTypoRefused`: eleven times a number tells a wrong digit and an
  exchange of neighbours apart, at every place.
* `FindsTheVolume`, `InfoFromOneBlock`: other entries do not hide a volume, and
  a description never mixes two metadata blocks.
* `CutImageKeepsData`: an image says that it is a BitLocker volume from its
  first sector on; if a cut one opens, its data are there.
* `OutputIsOriginal`, `DoneMeansView`: the output is a right beginning of the
  original at every step, complete on success, and agrees with `View`, on which
  the encryptor's properties rest. So the two modules speak of one format.
* `KeyReachesOwner`: once the volume is locked, only a kill or a failing fsync
  keeps the recovery key from its owner.

Four runs end in a violation: section 6. `CHECK_DEADLOCK FALSE` is set in all
runs, since each program ends by itself (a call that returned, a run that is
done, a command that has finished).

## 4 Fairness

* `InPlaceEncryptor`: weak fairness of the steps of a run (`RunStep`). A run is
  the straight execution of one process and always has its next step enabled
  until it ends. Starting a run (`ReadVolume`) and cutting it (`Interrupt`) are
  not fair: nobody has to. `RunEnds` holds without help from `Interrupt`.
* `Fat32Regions`: none; the loop is a Python `for` over a finite list.
* `Decryptor`: weak fairness of the program's steps; a read may fail and need
  not. `DecryptionEnds` covers sources that are shorter than they say, where
  only the empty read ends the loop.
* `ImageRoundTrip`: weak fairness of the steps of each of the two programs.
  Nobody has to decrypt, or to cut a run.
* `KeyHierarchy`: none; its properties are about safety.
* `EncryptUsb`: weak fairness of the program's own steps. The user need not
  answer (`Ask` is not fair), and the environment need do nothing. Between the
  commit and the display of the recovery key there is one call of `diskutil`,
  that of `mount_partition`, and it is given up after five seconds
  (`usb.py:137`). The calls for detection and unmounting have no time-out; they
  come before the conversion, where `KeyReachesOwner` asks for nothing yet.
* `Conversion`: weak fairness of its end, which `InPlaceEncryptor` discharges
  (`ImplementsConversion`).

## 5 Proofs

All are checked by `tlapm` to the last leaf; nothing is assumed but the named
`ASSUME`s on the constants, which TLC evaluates in every run:
`LayoutConstants`, `Fat32Constants` (domains), `VolumeConstants` (blocks and
volume are whole sectors, the layout fits), `EncryptorConstants` (at least one
FAT, boot sectors and FATs end inside the volume), `ImageConstants` (the same
for images, and requests are well formed), `UsbAssumption` (a drive has
one of the five file systems), `KeyConstants` (methods, words of
16 bits, and at least one method, time and recovery key),
`RegionsAssumption` (geometries of FAT32 whose system region ends inside the
volume), `DecryptorConstants` (a key, chunks of at least one sector) and
`JobsAssumption`: a job is well formed, and a source whose metadata names a
header backup holds what the encryptor leaves, sector by sector, wherever it
begins and however far the encrypted part goes, and is not cut off inside the
header or its backup.

* **`VolumeProofs`**: facts about the operators the components share.
  * Layout: `AlignBounds` (rounding up is a multiple, less than one alignment
    away) and `LayoutIsSound`: from `LayoutFits` on, header, block, backup,
    block, block and the end of the volume follow each other.
  * FAT32: `RunsCover` and `RunsApart`, that the maximal runs of any set of
    sectors cover it and do not overlap. The end points of the run around a
    place are found as the least and greatest numbers of a set, by well-founded
    minimality, so that no induction over data is needed.
  * Cipher: operations keep the type; decryption undoes encryption
    (`DecryptUndoesEncrypt`).
* **`LayoutPlanProofs`**: hence `StructuresDisjoint` for every size; also
  `StructuresSectorAligned`, if the fixed places are multiples of the sector
  size, and `OffsetsWithin32Bits`, if the fixed places and two blocks fit below
  `MaxUsable`. Both hypotheses are facts about the numbers in `constants.py`.
* **`Fat32RegionsProofs`**: the scan and the merge loop. `ReturnsTheRuns` speaks
  of the end only, `MergeLosesNothing` does not say why the next region can only
  join the last one. `RegionsInv == TypeOK /\ FoundInv /\ MergeInv`:
  * `FoundInv`: what has been found covers the system region and the clusters in
    use that were passed, in order, since `ClusterStart` grows with the number of
    the cluster. So the list is sorted before it is sorted: this gives
    the witness that a sorted rearrangement exists at all, and keeps the proof
    clear of any sorting algorithm.
  * `MergeInv`: the regions still to come start no earlier than the last merged
    one; the merged ones are apart from each other with a gap between them, and
    together the two lists cover the sectors in use.

  At the end the list to come is empty: merged regions that cover a set with
  gaps between them are its maximal runs (`NothingLost`, `RunsAreReturned`). The
  types come with it (`RegionsTypes`).
* **`InPlaceProofs`**: the conversion. `LockedMeansRecoverable` is not
  inductive: it says nothing while the header is not there, which is when
  everything it needs is being put in place. The inductive invariant is
  `IInv == TypeOK /\ Progress /\ DataInv /\ LayersInv`:
  * `Progress`: the regions still to come are apart from each other and from
    the current one and lie in `used`; the structures the run has passed are on
    the device, so that a later write may not disturb them (this is where
    `LaidOut` is needed).
  * `DataInv`: in the first run, a sector is sealed exactly if the loop has
    passed it; the header is the original until it is replaced; the saved
    header is the original; *if the header is there although the run is over,
    everything is there* (`LockedIsComplete`), which is what a cut inside the
    write of the header has to establish.
  * `LayersInv`: in any run, the data sectors the loop has passed are sealed by
    this run over what the runs before it left, and all others are as those left
    them (`SealedByThisRun`); a run that was cut off has done so to a part
    (`SealedByRunsOnly`). Of what earlier runs left it says that it is the
    original under layers of those runs at the sector's own place
    (`SealedByRuns`); so the layer of this run cannot be there yet.
    `ReportedMeansComplete` is what it comes to at the end of a run.

  The step theorem goes action by action, and for each by conjunct; the cut is
  a write of any length, so lemmas about `Put` serve both. From it follow
  `TypeCorrect`, `SealsOnceInPlace`, `SuccessIsComplete`, `HeaderIsLast` (an
  action property) and, for `SectorSize = BaseSectorSize`,
  `LockedVolumeRecoverable`. That hypothesis is needed: finding 3.
  `CopiesStayIntact` (`CopiesSurviveTheRun`) needs one more invariant,
  `KeysOnDevice`: while a run seals, no sector can belong to a block of that
  run, because its key is not on the device yet.
  All hold for every volume, FAT, allocation, chunk size and number of runs.

  `PromiseKept` is the step simulation of `Conversion`: under the mapping of
  `StatusOf` and `ReadableOf`, initial states are initial and every step is
  `Begin`, `TryAgain`, `Seal`, `Commit`, `Break` or a stutter. It needs
  `ConversionInv`: what is on the device has only been sealed, never opened, and
  before the first write everything preserved is in the clear. It is proved for
  512-byte sectors and `OneConversion`: NTFS over any number of runs, FAT32 over
  the first, since a converted FAT32 volume is accepted again (finding 2).
* **`DecryptorProofs`**: `FailureKeepsOutput`, because nothing is written
  before the output is opened (`OutputInv`); `OneCopyIsEnough`, because every
  block the loop has left behind does not parse or could not be read
  (`LoopInv`), and each error follows from the block it stands at (`ErrorInv`);
  `InfoFromOneBlock`, because the fields set so far come from one block that was
  read (`InfoInv`). For all sources, jobs and failures of reads.
  `DecryptsToOriginal` (`OutputIsOriginal`) needs what the property does not
  say, that the output is as long as the offset (`CopyInv`): `Joined` puts a
  chunk at the end of the file, `DecryptSectors` opens it under the offset, and
  only while the two agree does a sector land in its place. When the encrypted
  part ends, the offset is set to `EncryptedSize`; the invariant shows that this
  changes nothing, since the loop never passes that size, and never ends before
  it when more of the source follows. Chunk size, offset of the volume, footer,
  partial last sector and the end of the encrypted part are arbitrary.

  `SuccessIsTheView` (`DoneMeansView`) is stronger: nothing has stopped early,
  and each sector is what a reader sees, those that structures were written over
  included. `CopyInv` therefore says of each sector written which sector
  of the source it is from and whether it was deciphered (`Yielded`), and not
  only that it is the original; that it then is the original is a lemma about
  the job (`YieldsOriginal`). That `FindsTheVolume` holds (`VolumeIsFound`) is a
  case analysis over the four entries of the table: an entry before the right
  one is passed over because nothing else is signed (`ScanFinds`, `SearchInv`).
  `DecryptorTypes` says, besides types, that the output is a file without holes
  and that the offset lies in the volume or at the end of the header, which is
  written whole. It is inductive only with the rest of `TypeInv`, that past the
  search the partition is the one of the volume.
* **`ImageProofs`**: the writer of images and the decryptor one after the other.
  `RoundTrip` and `CutImageKeepsData` speak of the end of both; the invariant is
  `ImageInv == FileInv /\ DataInv /\ ReadInv`:
  * `FileInv`: types, source and output are files without holes, no longer than
    the volume. From it comes `ImageTypes`.
  * `DataInv`: during the loop the output ends at the offset, and what is behind
    the header is, sector by sector, sealed under its own place or, for a sector
    not in use, the original; afterwards all of that is there wherever no
    structure has been written (`BodyThere`), and so are the structures put down
    so far. A file cut off has `BodyThere` or no sector of a metadata block
    (`Keyless`): *the structures come after the sectors*, and this is all that
    the second property hangs on.
  * `RegionsFound`, part of it: the search through the sorted regions, which
    stops at the first that starts behind the sector, says of a sector whether it
    is in use. That a set of regions can be sorted at all is `SortingExists`: a
    region's place is the number of those that start no later.
  * `ReadInv`: the decryptor's side. Nothing of it is proved again: `DP`
    instantiates `DecryptorProofs` for the variables of this module and for any
    job, and its invariants and step lemmas hold of the file just written once
    its assumptions about a job are shown (`DecryptorAssumptions`; `JobSays`).
    What is new is that the decryption of a finished image meets no error
    (`StaysStraight`) and that of a file without keys ends at its metadata
    (`StaysLocked`).

  `ImageComesBack` (`RoundTrip`) has the hypothesis
  `SectorSize = BaseSectorSize`, as the header saved is otherwise not the whole
  one (finding 3); `CutImageOpensWhole` and `ImageTypes` need none. All hold for
  every volume, layout, FAT, size, chunk and kind of request.
* **`KeyHierarchyProofs`**: `NonceUsedOnce` is not inductive, since it does not
  say which counters are still free. `NonceInv` orders all uses by
  `Rank == 10 * run + counter`, which grows with every use. `RecoveryTypoRefused`
  is arithmetic: changing a digit, or exchanging two, moves the number by a
  multiple of a power of ten that is less than eleven of them, or by nine such,
  and never by a multiple of eleven (`ShiftedIsRefused`, `ExchangedIsRefused`).

  `BlocksAreParsed` (`ParsesWhatWasBuilt`) and `ProtectorsOpen`
  (`EitherProtectorOpens`) relate the builder to the parser. Neither is
  inductive: they speak of the stored block and of keys drawn several steps
  earlier. `KeyInv` says what every step leaves for them: the blobs made so far
  are those that the list of wraps asks for, made with the keys of this run
  (`KeysWrapped`); the block is the five entries built from them and up to 15
  bytes of padding (`IsBuilt`), in the end with the hash behind it (`IsStored`). `KeyTypes` (`TypeOK`) follows as well: the size of the metadata
  is computed from that of its entries and stays within its 16 bits.

  The reader's side is about operators. What ends where in a sequence of items,
  and the parse from an offset, are recursive functions. A recursive function is
  a `CHOOSE`, and that there is such a function is shown by the least place at
  which there would be none (`SumExists`, `ChainExists`); no induction theorem is
  used. Then `EndsAre` and `ParseIs` unfold them by one step, and
  `EntriesAreRead` says once what all of the metadata rests on: *if each item
  up to where the parser is told to stop states the size it has, the parser finds
  exactly these items*. It is applied to the block, to both entries for the VMK
  behind their 28 bytes and to the stretch key in each behind its 20. For the
  FVEK the parser looks for entries in a payload that has none; what it meets
  first is the time stamp, and this is where the one exception comes from
  (`TimeReadsAsKey`): the theorem proves that with such a time neither protector
  opens, and with any other both do.
* **`EncryptUsbProofs`**: type correctness; `NothingWithoutConsent` from what
  each stage of the command presupposes (`StepInv`); `WrittenOnlyUnmounted` from
  `MountInv`.

Every invariant and action property that a passing run checks is the subject of
a theorem. Model-checked only is liveness (`RunEnds`, `DecryptionEnds`,
`EncryptionEnds`, `KeyReachesOwner`) and with it the refinement as a whole
(`ImplementsConversion`), whose steps are proved but not its fairness. Liveness and `ENABLED` are out of the
prover's reach. So is induction over data by the theorems of the library; where
the model recurses over metadata, the least counterexample takes its place, and
what a theorem says of those functions is said for sequences of any length.

## 6 Findings

Each has a run that ends in a counterexample.

1. `inplace_overwrite`: files under the metadata blocks or the header backup
   are overwritten, in used-space mode as in full mode (README.md:294 promises
   that all existing data is encrypted in place).
2. `inplace_again`: a converted FAT32 volume still carries its `FAT32` label at
   offset 82 and is accepted as a file system; a second run encrypts it again
   and the first key is gone from the volume. NTFS volumes are refused.
3. `inplace_4k`: with sectors larger than 512 bytes, 8 KB of header are saved
   while 16 sectors are zeroed and later restored from the backup.
4. `usb_supported`: ExFAT and FAT16 drives pass the check for FAT32.

Two more are seen in the model and go against the words of a document. They have
no run of their own; the properties that touch them except them by name.

* A volume that is decrypted onto itself is emptied, and success reported
  (`decryptor.py:161`), although README.md:292 says of the decryption that it
  "never writes to the source device". It takes an output path that names the
  source. `FailureKeepsOutput` shows that nothing is lost while the credential is
  wrong; `DoneMeansView` excepts the case.
* The VHD footer is appended to an image decrypted from a VHD that is encrypted
  only in part (`decryptor.py:219`), although `partition.py:19` speaks of VHD
  images with "strips footer". `DoneMeansView` restricts nothing behind the
  volume.

Seen while modelling, without a document that says otherwise; each is in the
model, and where a property touches it, it is named there as an exception:

* A drive is left unmounted when the command fails after unmounting it
  (`cli.py:361`).
* An image encrypted onto itself is emptied, and success reported
  (`encryptor.py:315`).
* The last sector of an image that ends inside a sector cannot be decrypted
  (`encryptor.py:334`).
* About once in 326 days there are some seven minutes in which about one time
  stamp in a thousand reads as a key when it is in the FVEK's nonce, and the
  volume written with it does not open (`metadata.py:242`).
* A method that is not known is noticed only when the output has been emptied
  (`decryptor.py:167`).
* A plain FAT volume with the OEM name `MSWIN4.1` hides a BitLocker volume in a
  later partition (`partition.py:32`).

## 7 Assumptions and limits

* A write reaches the raw device in order, and a cut leaves a first part of it
  in whole sectors. Python's buffering keeps the order of writes on one file;
  a drive that reorders its cache is outside.
* The device is at least as large as its boot sector says. So `encryptor.py`
  418-419 ("Device is too small") and the ends of the loop at an empty read (560
  and 587), which are taken only otherwise, have no action.
* Keys of different runs differ, and a cipher with a wrong key or tweak does
  not yield the original.
* The volume is large enough for its layout (`LaidOut`). The code does not
  check it; below some 600 KB the structures would overlap.
* The FATs end before the first metadata block in the small instance (the
  proofs do not need it). A 256 GB volume with 32 KB clusters breaks it.
* `LockedMeansRecoverable` and `SealedOnceInPlace` speak of the first run: the
  data of a volume whose first run was cut off cannot be had back.
* `WrittenOnlyUnmounted` excepts a mount by somebody else after detection, and
  `KeyReachesOwner` a kill and a failing fsync; neither is excluded by the code.
* `OutputIsOriginal` and `DoneMeansView` suppose a metadata block that names
  the backup of the header. With an output path that names the source, the
  source is emptied and success reported: modelled, and excepted in
  `DoneMeansView` and `RoundTrip`. How much of it was read ahead before is one
  of `Held`.
* The boot code of a plain FAT volume that is taken for a header gives three
  offsets, and none of them leads to a metadata block; no ciphertext reads as
  the header of an entry.
* A metadata block that was written in part may parse or not: both are tried.
* SHA-256, AES-CCM and the block ciphers are symbolic. A blob opens under the
  key and nonce it was made with and no other; random keys and salts of
  different runs differ.

Not modelled: the Elephant diffuser (`crypto.py` 55-131), which only decrypts
and has no inverse here to check it against; the walk over the lists that
`diskutil` prints (`usb.py` 22-68), which is parsing; the arguments, progress
bars and output of the commands; checksums and texts in the metadata;
`constants.py`, whose values are the constants of the modules.

## 8 Plan

The order was: first what the data of an owner hangs on, the layout, the region
scan, the cipher, the in-place conversion with its abstract specification and
its proofs; then the decryptor against the same `View`, and the command; then
the writer of images composed with the decryptor, the metadata and the keys, the
search for the volume; then the proofs about decryptor, command and keys.

Then came the proof about images, whose second half is the proof about the
decryptor for an instance of it, and last the metadata, from the bytes built to
the key opened. Of the plan nothing is left but what is out of the prover's reach.
