# Verification of the magiskboot_build compatibility layer

magiskboot_build builds Magisk's `magiskboot` for systems it was not written for:
Windows (MinGW), Emscripten and other hosts without Linux calls. The vendored
projects (Magisk, Android's libbase, corrosion, ...) are submodules. What the
repository itself contributes, and what this project models, is

* `src/libc-compat/`, a C library of replacements for POSIX calls,
* `src/winsup-rs/`, Rust's view of C descriptors on Windows,
* the build step that resets and patches the vendored trees.

The modules are TLA+, model-checked with TLC on small instances; the theorems of
the eight `*Proofs` modules are checked by TLAPS for every value of the constants.
`PROJECT.json` has the machine-readable side: components, runs, mutants, the map
from definitions to source lines, findings, hazards and theorems.

Paths below are relative to the repository; `libc-compat/` is `src/libc-compat/`.

## Inventory

| Component | State it keeps | Operations | What is hard | Correct when |
|---|---|---|---|---|
| `emsup/mmap_hack.c` | list `maps` of mappings that must be written back | wrapped `mmap`, `munmap`, `close`, `fclose` | order of closes and unmaps, reuse of descriptor numbers, `assert()` with effects, `malloc()` failing | a mapping reaches the file it was made from; a delayed close happens, once, to the right descriptor |
| `winsup/internal/fd.c` (cache) | `fd_cache`, `fd_cache_max_size` | fill at `open()`, look-up with purge, fallback to access rights | `close()` is not wrapped, so entries outlive descriptors; numbers and handle values are reused | the flag of an open file is never lost or changed, the array never left |
| `winsup/open.c`, `link.c`, `stat.c` | none of their own; CRT descriptors and Windows handles | `open`, `CreateFileW`, `readlink`, `link`, `symlink`, `fstat`, `lstat` | every descriptor owns a handle and must be closed once; handle and name are read at different times; lengths in bytes and in characters | no descriptor without an owner; what is answered is true of the file |
| `winsup/file.c`, `acl.c`, `mknod_stub.c` | none; file attributes, CRT descriptors and `FILE`s | `fopen`, `fdopen`, `creat`, `fchmod`, `chown`, `fchown`, `lchown`, `mknod` | a mode string converted twice, a failure after the file was opened, attributes read and then set | stream and descriptor agree; a failed call leaves nothing; the mode asked for is the mode the file has |
| `winsup/uio.c`, `str.c` | counters of the loops | `readv`, `writev`, `memmem` | partial, empty and interrupted transfers; `size_t` handed on as `int` and `unsigned int` | bytes in order and counted; the first occurrence is found |
| `winsup-rs/fd.rs` | none; moves handles between C and Rust | `from_raw_fd`, `as_raw_fd`, `into_raw_fd` | who closes what, a full descriptor table | one owner per handle |
| `winsup/at.c`, `mkdir.c` | none; paths on the heap during a call | nine `*at()` calls | a path made before it is used while directories move; two paths with separate failures | the call acts where the descriptor stands; nothing leaks; errno says why |
| `winsup/internal/errno.c` | the table `__winerr_map` | `__set_errno_via_winerr` | codes outside the table or without entry | a failure has an errno |
| `winsup/dirent.c` | a stream: CRT `DIR` and descriptor; one static answer | `opendir`, `fdopendir`, `readdir`, `closedir`, `rewinddir`, `seekdir`, `telldir`, `dirfd` | two opens by one path, ownership on failure, `assert()` with effects | one owner per descriptor; stream and descriptor are one directory |
| `non-linux/sendfile_fallback.c` | counters of the loop | `sendfile` | `size_t` for results that may be -1, partial reads and writes | the output is the input |
| `CMakeLists.patch.txt`, `Makefile` | vendored trees, flag `.mbb_patched` | configure, `make clean` | a kill anywhere, failing git, edits | the flag means patched; configuring again works |
| `winsup/io.c`, `crt_flags.c`, `internal/assert.c`, `common/__errno.c`, `rs/` | none or write-once | see *What is not modelled* | | |

How they interact: `open.c` fills the cache of `fd.c`; Rust's `as_raw_fd` and
`into_raw_fd` read it; `readlink` and `lstat` make descriptors beside it (all in
**FdCache**, which composes them over one descriptor table). `at.c` builds paths
with `__get_path_at` of `fd.c`, calls `_mkdir_stub`, `readlink`, `link`, `symlink`
and `lstat`, and takes errno from `errno.c` (**AtCalls** over **WinErr**).
`dirent.c` opens with `open`, resolves with `__fd_get_path` and answers types with
`fstatat` (**Dirent**). `fopen` ends in the wrapped `open` and `fdopen`, `lstat` in
`fstat`, `fstat` of a link in `__fd_get_path` and `readlink`, and all of them take
errno from `errno.c` (**WinFiles** over **FileModes** and **WinErr**). `mmap_hack.c` wraps the calls of Emscripten (**MmapHack**
implements **WriteBack**).

The library has no threads and no locks. What is concurrent is the rest of the
system: other processes that move, fill and empty directories, rename files and
set attributes; kills; and the
interleaving of C and Rust code over one descriptor table.

The recurring hazard of this code is `assert(call())`. In a Release build, the one
the README tells users to make, the call is not made at all. A module with such a call
therefore has the build type as a parameter or as a variable.

## Plan

Written, in this order:

1. `WriteBack`, `MmapHack`, `MmapHackProofs`: the core, with refinement and proofs;
2. `FdCache`, `FdCacheProofs`;
3. `Sendfile`, `SendfileProofs`;
4. `VendorPatch`, `VendorPatchProofs`;
5. `WinErr`, `AtCalls`, `AtCallsProofs`;
6. `Dirent`, `DirentProofs`;
7. `FileModes`, `WinFiles`, `WinFilesProofs`;
8. `Memory`, `Uio`, `UioProofs`.

## Modules and the code

### MmapHack and WriteBack (`libc-compat/emsup/mmap_hack.c`)

On Emscripten `munmap()` writes a shared mapping back through the descriptor
*number* it was made with. The file keeps a list of such mappings, turns
`close()`/`fclose()` of their descriptors into a mark, and closes in `munmap()` of
the last one.

`maps` is the list, as a set: the code walks it by key, and stopping at the first
match is a choice among the matches. The rest of the state is Emscripten and the
client: `table` (descriptors), `mapped`, `stream` and `unsaved` (the `FILE`s),
`owned` (what the client has to close), `disk`, `aborted`. `Mmap`, `Close`,
`Fclose` and `Munmap` are the wrapped calls, with `PostMunmapHook` inside `Munmap`;
`Open`, `Fdopen`, `Fwrite`, `Store` are calls that are not wrapped. The client
respects ownership: it does not use what it has closed, and unmaps whole mappings
(Emscripten refuses anything else). `EnvFaults` lets `malloc()` and `fflush()`
fail. A Release build that fails to allocate an entry writes through a null
pointer, which is ordinary memory on Emscripten: the list head ends up null, so
the list is empty. `lost` is history: the mappings there were at that moment.

`WriteBack` is what a client relies on: a mapping belongs to the file it was made
from, and closing ends the use of the descriptor and nothing else. The refinement
mapping shows a descriptor to the client only while the client owns it.

### FdCache (`winsup/internal/fd.c`, `open.c`, `link.c`, `stat.c`, `winsup-rs/fd.rs`)

`fd_cache` and `fd_cache_max_size` are the variables of the C file. `osfhandle` is
the CRT's table, which hands out the lowest free number; `object` says what a
handle value denotes now, since Windows reissues values. `cfds` and `rfiles` are
the owners, `opened`, `answer` and `overrun` history. One action per operation:
`WrapOpen`, `CrtClose`, `Readlink`, `Lstat`, `RustOpen`, `RustDrop`, `FromRawFd`,
`AsRawFd`, `IntoRawFd`, the last two also with a full table. `NewFd` is what `__open_dir_fd`,
`__open_symlink_fd` and the CRT's `open()` have in common. The look-up purges
the entries of closed descriptors only as far as its walk goes. A write to the cache
at or behind `OPEN_MAX` sets `overrun`, after which nothing more is said.

### Sendfile (`non-linux/sendfile_fallback.c`)

`n_read` and `n_write` are `size_t`, values of 0 to `SIZE_MAX`; `n_left` is `off_t`, signed,
and every assignment to it goes through `AsOff`. Both types have one width, as on the 64-bit
systems. `MIN(n_left, sf_buf_size)` is a signed comparison, so with a count above
`OFF_MAX` the request is negative and no `read()` takes it. Each `read()` and `write()`
is a step, its result chosen by the environment within `Faults`. A failed call is the value
`SIZE_MAX` that `size_t` makes of -1, and the branches for `EINTR` and errors are absent
because their condition is never true. After a short write the code adds `n_write` to
`&sf_buf`, a pointer to the whole array, so that the rest comes from memory behind the
buffer (the operator `Memory`), and a `write()` from there may fail with `EFAULT`.

### VendorPatch (`CMakeLists.patch.txt`, `Makefile`)

A configure run is `Begin`, `Update`, `Clean`, on Windows `Unlink` and `Relink`,
then `ApplyPatch` per patch, `WriteFlag`. `tree[d]` says which patches are in,
whether one is in by half, whether the links are there and what the user changed.
`Crash` ends a run at any step with any part of that step done. A git command may
fail, and the run goes on (`ignored` remembers it); a failing `patch` ends the run.
A git that is killed may leave its lock on a tree (`locked`): every later update of that
tree fails until `RemoveLock`. The user edits (`Edit`), takes patches or links away
(`Undo`, remembered in `undone` until the next flag), removes a flag or makes one by hand,
as README.md:377 describes (`MakeFlag`); `flag` says who made it, which cmake cannot tell.

### AtCalls and WinErr (`winsup/at.c`, `mkdir.c`, `internal/fd.c`, `internal/errno.c`)

A directory is an object at a place; a path is a place and a name. A call is
`Begin` (flags), per path `TakeAbsolute`, `StrdupFails`, `Resolve` or
`ResolveFails`, then the plain call (`Succeed`, `Fail`, `AccessDenied`,
`ChmodFails`, `NullPath`), then `TakeAnswer`. `PlainCall` has one operator per call, the
effect it has on the names when it succeeds. `Move` is another process, allowed at
any point. `heap` holds the paths in allocated memory; what leaves it is what a function
frees itself, behind the plain call (`CallFrees`) or at the label `error`
(`ErrorFrees`). A directory at one of `LongPlaces` has a path longer than `PATH_MAX`:
`GetFinalPathNameByHandle()` answers the length it needs, `fd.c:58` takes that for
success, and the path is whatever was in the buffer (`unwritten`). In a Release build a failed
`strdup()` of the second path goes back to the second path, and one of the first
goes on with a null pointer, as the labels of `linkat()` and `renameat()` have it.
`WinErr` has the table, in stretches of 150 codes, and `__set_errno_via_winerr`;
0 in the table, or a code behind it, becomes -1.

### Dirent (`winsup/dirent.c`)

`dirp[s]` is a stream: the descriptor, the directory its CRT `DIR` really reads
and the names left. Opening is two steps, since the second open is by path:
`Opendir` or `Fdopendir`, then `OpenReal`, `OpenFails` or `OpenFindsNothing`.
`FdGetPath` is the path of a descriptor, any place at all when it is longer than
`PATH_MAX` (`LongPlaces`). A stream is `stray` when its path was such a one or a directory
moved while it was opened. Reading is two steps as well: `Readdir`, then `FinishReadDebug` or `FinishReadRelease`.
A name is its length, which is all that `strlcpy` and `d_namlen` see of it. Kind
`"none"` is no file and, as an answer, `DT_UNKNOWN`; a Release build answers any
kind, since it reads an uninitialized `struct stat`.

### FileModes and WinFiles (`winsup/file.c`, `open.c`, `acl.c`, `stat.c`, `link.c`, `mknod_stub.c`)

`FileModes` has the pure parts: `__fmodeflags` and `__fixup_fmode`, the hash of
extensions, permission bits, `makedev`, `major` and `minor`. A mode string is its
first character and the set of the others; flags are a set. `Minors` is the number of
minors, 2^16 in the code; what `makedev` keeps of its arguments is proved for every value.

`WinFiles` has files with attributes (`attrs`), a name and data or none, a
descriptor table and `FILE`s. A call that looks at a file more than once is several
steps: `Fchmod`, then `FchmodReads`, then `FchmodSets` or `FchmodDenied`; `Fstat` or
`Lstat`, then `Info`, then `StatMode`, then for a link one of the `Readlink...`
actions. `pc` says which step is next, `call` holds its arguments, `hfi` and `buf`
are the C variables. `SetAttributes` and `Rename` are other processes, allowed at any
point; they and failures the code cannot foresee share the bound `MaxUpsets`.
`table[fd].owner` says who will close a descriptor: the client, a stream, the call
in progress, or nobody (`LostFd`), which is what a failed `fopen()` and every
`readlink()` leave. `asked` is history: the mode the program last gave a file. What
Windows does is taken from how it is used and listed case by case:
`CREATE_ALWAYS` sets attributes anew, `SetFileInformationByHandle()` needs a handle
that may write and ignores attributes of 0, `GetFinalPathNameByHandle()` answers the
length it needs when the buffer is too short.

`readlink()` gives the number of bytes of the target as the number of wide
characters to convert (`Chars`): the result is twice the length, and a target of half
the buffer's length or more ends in `abort()`.

### Memory and Uio (`winsup/uio.c`, `str.c`)

`i`, `off` and `ret` are the C variables of the loop. Each turn is one action by the
result of `read()` or `write()`: `Moves(r)`, `Nothing`, `Interrupted`, `Fails`.
`Count` is what the call sees of the rest of the buffer, an `unsigned int` up to
`UINT_MAX`. `moved` lists the places in memory the bytes went to.

A client may then search what it read. `Search` makes the checks of `memmem()`. A turn of
its loop is `Compare`, with the place at which `memchr()` stopped and the verdict of
`memcmp()` over `needlelen` bytes, or `GivesUp`. `needle`, `ndx` and `result` are the C variables;
`haystacklen` and `needlelen` are the lengths as converted to `int`.

## Runs

Passing:

| Run | Instance | Distinct states | Shows |
|---|---|---|---|
| `mmap_debug` | 2 descriptors, files, addresses, contents; debug build | 41 476 | list and table agree, write-back goes to the right file, no leak, no close under an owner, asserts hold, closed streams are flushed, `WriteBack` is implemented, delayed closes happen |
| `mmap_release_faults` | the same; Release build, failing `malloc()` and `fflush()` | 25 700 (symmetry) | when a failed `malloc()` wipes the list, only the mappings there are then can lose their write-back; later ones keep their descriptors |
| `fdcache_mixed` | 3 descriptors, a cache of 4, 3 handle values; C, links and Rust | 286 771 (symmetry) | flags stay cached and in reach, one owner per handle, answers are right unless a descriptor was left behind |
| `sendfile_copy` | `OFF_MAX` 7, `SIZE_MAX` 15, buffer 3, inputs to 7, counts to 9 and 15, 3 mishaps | 189 278 | exact copy without mishaps, of nothing for a count above `OFF_MAX`; with mishaps it ends, and no earlier block comes back |
| `patch_configure` | 1 build directory, 2 trees of 2 patches, 4 upsets | 144 368 | the flag of a run means patched, configuring again succeeds once no lock is left, links and edits are as promised unless git failed unseen |
| `at_calls` | 3 directories, 4 places, one with a long path, both builds, 1 move, 1 failed allocation, all calls | 380 380 | acts where asked, no leak, errno set, no trace of a failure, every call returns |
| `dirent_streams` | 2 directories, 3 places, one with a long path, 2 descriptors, 2 streams, both builds, 2 upsets | 55 456 (symmetry) | one owner per descriptor, a failed `fdopendir()` takes nothing, stream and descriptor agree |
| `files` | a file, a directory, a link, a terminal; 2 descriptors, 1 `FILE`, 5 mode strings, 1 upset, both builds | 1 078 848 | streams fit their descriptors, every descriptor is closed but in the known cases, failed `fopen()` leaves nothing but in these, the read-only attribute is the one asked for, `stat` is true |
| `uio_vectors` | `UINT_MAX` 15, up to 3 buffers of 0 to 17 bytes, all inputs to 5 bytes of 2 values, one of 9 and one of 17, needles to 3, 1 mishap | 242 354 | bytes in order, counted, all buffers served, the loop ends, `memmem()` finds the first occurrence and always answers |

Violated, each a disagreement of the code with its own comments (the findings):

| Run | Property | What happens |
|---|---|---|
| `mmap_release_leak` | `NoDescriptorLeak` | open, mmap, close, munmap in a Release build: the delayed close is inside `assert()` and never made (`mmap_hack.c:151,153`) |
| `sendfile_write_fails` | `OutputIsPrefix` | an interrupted `write()` is taken for a complete one (`sendfile_fallback.c:36`) |
| `at_openat` | `ActsWhereAsked` | `openat()` builds a path and opens the name it was given (`at.c:165`) |

### Exceptions written into the passing properties

A property that holds only outside a known deviation says so in its statement:

* `OthersActWhereAsked` leaves out `openat()`, a directory moved while the call ran, and
  a directory whose path is longer than `PATH_MAX` (`fd.c:58`).
* `SameDirectory` leaves out streams opened while a directory moved and those
  `fdopendir()` opened by such a long path.
* `ErrnoSet` leaves out `faccessat()` with `AT_SYMLINK_NOFOLLOW`, which answers -1
  from the mode bits with errno untouched (`at.c:187`), and calls that found no
  memory: `__fd_get_path` fails without `SetLastError()`, and `__get_path_at` takes
  errno from whatever error was last, possibly none (`fd.c:55`, `fd.c:151`).
* `FailureLeavesNoTrace` is about debug builds: the `rmdir()` after a failed
  `chmod()` is inside `assert()` (`mkdir.c:16`).
* `AnswerRight` leaves out look-ups made while a cached descriptor sits in the CRT
  table over a handle its own `open()` did not make. `from_raw_fd()` and
  `readlink()` leave such descriptors, and once Windows reissues the handle value
  the old file's flag is answered.
* `CacheReachable` and `OpenedStaysCached` speak of a cache that was not overrun. It is
  with the UCRT: `fd.c:26-32` chooses 8192 without
  `_UCRT` and 2048 with it, the reverse of the two CRTs.
* `FlaggedHasLinks` and `DirtyDiscarded` leave out runs in which a git command
  failed: `CMakeLists.patch.txt:40-43,56-57` look at no result.
* `FlaggedIsPatched` and `FlaggedHasLinks` are about flags a run wrote: one made by hand
  stands over whatever is there, as documented (README.md:377). They leave out trees in
  which the user has undone patches since. They are checked and proved for one build
  directory; with a second one they are false: `make clean`, or the other's run, resets
  the trees under a flag.
* `Recovers` needs the user to remove the lock of a killed git: with it every update fails,
  unseen, and configuring fails at the first patch that is in already.
* `LossContained` leaves out the mappings there were when the list was wiped: closing
  their descriptors closes them at once, and their write-back is lost.
* `CopiesExactly` is about copies without a failed call or a short write. After a
  failed `read()` the loop has one byte too many left and may read beyond `count`. For a
  count above `OFF_MAX` it says that nothing is copied.

* `FopenFailsClean` leaves out two cases in which `fopen()` has opened, and so
  created or emptied, the file when `fdopen()` fails, and its descriptor is lost
  (`file.c:122`): no free `FILE`, and an empty mode string, in which `strchr()` finds
  the terminator of `"rwa"` (`file.c:20`).
* `ModeRemembered` leaves out a file whose only attribute is READONLY: `fchmod()` that
  takes it away sets the attributes to 0, which Windows takes for no change, and
  answers 0 (`acl.c:46`).
* `StatTrue` is about names that fit `PATH_MAX` and calls nobody races. A longer name
  leaves the buffer unwritten, and it is read as a string (`fd.c:58`). It says that no
  executable is missed; others are taken for one, since extensions are compared by a
  hash of 9 bits: `img`, `png`, `log` and `sys` have that of `com`, `bin` and `elf` that
  of `cmd` (`stat.c:102`), so a `boot.img` is executable. It says that the size of a
  link is at least that of its target; it is twice that (`link.c:100`).
* `TransferExact` asks for all buffers only when none is empty or longer than
  INT_MAX: the transfer ends at such a buffer (`uio.c:37,45`).
* `MemmemFinds` leaves out two cases in which `memmem()` answers that there is no
  occurrence although there is one: an empty needle, and data longer than INT_MAX, whose
  length turns negative or is cut. What it does find is right there as well.

Deviations the models have and no property states, because nothing holds in their
place:

* `readlink()` closes the handle and not its descriptor, "no need to close fd since
  handle already owns it" (`link.c:111`), while `fd.c:125` says "the ownership is
  transferred to the fd". A descriptor is lost at every call, and so at every
  `lstat()` of a link (`Readlink` of FdCache, `LinkResult` of WinFiles).
* `readdir()` drops the last character of every name: `strlcpy()` gets `d_namlen` as
  its size, which has no room for the terminator, while `d_namlen` is that of the
  whole name (`dirent.c:144`; `CloneData` of Dirent).
* every debug build of `readdir()` that delivers an entry aborts, since
  `assert(!lseek(fd, 1, SEEK_CUR))` sees 1 or -1 (`dirent.c:150`);
* `fchmod()` sets back attributes another process set between its two calls
  (`acl.c:39`; `FchmodSets` of WinFiles);
* `__get_path_at` reports a closed descriptor as `ENOTDIR` where its comment says
  "errno is set by fstat" (`fd.c:134,140`).

### Bounds

* MmapHack: two descriptors, since every hazard is about one number taken over by
  another file while an older mapping lives; two addresses, since a mark must reach
  a second mapping of the same descriptor. The proofs cover all other sizes.
* FdCache: three descriptors, so that the walk can stop at a hit with an entry
  below and one above it, and the bound can shrink past one; a cache of four, so that
  the table is what fills up. Proved for all sizes.
* Sendfile: `sf_buf_size` 3 gives full and partial blocks and short writes of two
  lengths; counts are those of up to three blocks, `OFF_MAX`, from which a mishap makes
  `n_left` negative, and three above it; three mishaps are enough for a failed read, a
  short write and a failed write in one copy.
* VendorPatch: the order over trees and within a tree needs two of each. Four
  upsets are a kill in each of two runs, an act of the user and a failing git, or the
  kill that leaves a lock, its removal and two more.
* AtCalls: two directories that can move and a free place, so that one can take the
  place another left; one place with a long path; one name; one move and one failed allocation, which is one
  race or one failure, at any point, in calls of at most two paths. Calls do not
  hand anything on to the next but the names, of which all sets are initial
  states. Three Windows errors: with an errno, without, and the first behind the
  table.
* Dirent: two descriptors and two streams, for one that leaks into or is closed
  under another. Symmetry does not exchange the place with the long path.
* WinFiles: two descriptors, one open at the start, so that the table can be full
  before a call and in the middle of one (`lstat()` of a link needs two); one `FILE`,
  so that `fdopen()` can fail for want of one. One upset is one failure or one race, at
  any point of a call. The mode strings give each access, O_APPEND, O_EXCL and the two
  that are refused, early and late. Targets of 1 and 3 characters are one that fits
  the buffer and one that does not; 0 and a junction take the other ways out. Names: an
  upper-case executable, one without extension, one with another, one that is too long.
* Uio: with `UINT_MAX` 15, 8 is the first length above INT_MAX and 17 the first that is cut
  to an ordinary one. Three buffers, for one that ends the transfer with something
  before and after it. Needles to 3 in inputs to 5 have overlapping first bytes and
  occurrences at both ends. The input of 9 is longer than INT_MAX; that of 17 is longer than
  UINT_MAX, so that its length is cut to 1, and `<<7, 7, 7>>` reads all of it.

`CHECK_DEADLOCK FALSE` is set where the model really stops: a process that has
aborted or crashed, a copy that is done, a configured tree with no upsets left, a
full descriptor table over exhausted handles.

### Fairness

* MmapHack: `WF(Munmap(p))`. magiskboot's mappings are owned by C++ objects and
  Rust values whose destructors unmap them; `DelayedCloseHappens` depends on
  nothing else.
* Sendfile: `WF(Next)`, the loop is running code and its system calls return.
* VendorPatch: the steps of a run, and `Begin`: a user without a configured tree
  configures again. Kills, edits, cleans and the removal of locks are not fair and are
  bounded.
* Uio: `WF(Transfer \/ Memmem)`, for the same reason; the client need not search.
  Interruptions are bounded: a `read()` that is
  interrupted for ever is retried for ever.
* AtCalls: `WF(Step)`, code inside a call goes on. The client and the movers owe
  nothing.

### Mutants

Each property of a passing run has a mutant in `PROJECT.json`: an operator beside
the one it replaces, written as a plausible slip (a mark on the first entry only,
a missing purge, an off-by-one in a bound, a lost close on an error path), under
which the run must fail.

## Proofs

### MmapHackProofs

* `ListInvariantHolds`: `Spec => []ListInvariant`
* `WriteBackReadyHolds`: `SoundList => (Spec => []WriteBackReady)`
* `NoDescriptorLeakHolds`: `~NDEBUG => (Spec => []NoDescriptorLeak)`
* `RefinesWriteBack`: `SoundList => (Spec => ImplementsWriteBack)`
* `LossContainedHolds`: `Spec => []LossContained`
* `OwnedStaysOpenHolds`: `Spec => []OwnedStaysOpen`
* `NoAssertFails`: `~EnvFaults => (Spec => []AssertsHold)`
* `ClosedStreamsFlushedHolds`: `~EnvFaults => (Spec => []ClosedStreamsFlushed)`
* `ClosedOnceUnmappedHolds`: `~NDEBUG => (Spec => []ClosedOnceUnmapped)`

for all sets of descriptors, files, addresses and contents, assuming only that
`NoFile` and `NoRegion` are none of them. `SoundList` excludes one case, a Release
build in which `malloc()` fails, where the list really is lost. `ListInvariant`,
`LossContained` and `OwnedStaysOpen` hold there too: only the mappings in `lost` are without
an entry.

`WriteBackReady` is not inductive: that a mapping's descriptor is open says nothing
about the next `close()`. `ListInvariant` adds why it stays open. Every entry
describes a live mapping through an open descriptor that names the mapped file
(`EntriesBacked`), every shared writable mapping that is not `lost` has one (`SyncTracked`), and
the marks of all entries of a descriptor say exactly what the client has closed
(`MarksAgree`, `StreamsAgree`). There is one lemma per action; `MarkingKeepsEntries`
is shared by `Close` and `Fclose`. `NoDescriptorLeak` uses the same invariant and
one more step lemma, needing a debug build since only there is the delayed close
made. The refinement maps each action to one of `WriteBack` or to a stutter; the
step for `Munmap` is where `WriteBackReady` is used. `AssertsHold` and
`ClosedStreamsFlushed` are proved together (`QuietHolds`): the delayed `fclose()` inside
`assert()` succeeds because a closed stream was flushed, and the marks agree by
`ListInvariant`. `ClosedOnceUnmapped` is the safe half of `DelayedCloseHappens`: a
descriptor the client has given up is open only while a mapping that needs it is left.

### FdCacheProofs

* `CacheInvariantHolds`: `Spec => []CacheInvariant`
* `SingleOwnerHolds`: `Spec => []SingleOwner`
* `OpenedStaysCachedHolds`: `Spec => []OpenedStaysCached`
* `CacheReachableHolds`: `Spec => []CacheReachable`
* `AnswerRightHolds`: `Spec => AnswerRight`

for all sizes of the cache and of the CRT table, the longer CRT table included, and any
set of handle values.
`CacheInvariant` is types, `SingleOwner`, that descriptors of wrapped opens denote
open objects (`OpenedLive`), and while the array has not been left that all entries
lie below the bound and those of open files hold their flag. `LookupStep` is the
heart: purging drops only entries the CRT no longer knows, and lowering the bound
by one hides no entry, since the bound shrinks only over a slot just dropped.

`AnswerRight` is an action property and needs one thing more (`AppendOpened`): a file
open for appending through the CRT is that of a descriptor its `open()` made. A look-up
that finds no entry then has not missed a flag.

### SendfileProofs

* `SendfileInvariantHolds`, `CopiesExactlyHolds`, `BlocksInOrderHolds`
* `SendfileProgressHolds`: `Spec => SendfileProgresses`

for every `OFF_MAX`, every buffer no longer than that, any inputs, any counts a `size_t` can
hold, and any mishaps. A mishap adds one to `n_left`, which may make it negative.
`CopiesExactly` and `BlocksInOrder` see only the output. `SendfileInvariant` adds where
the loop stands: the last byte of the block in the buffer is number `in_pos` and not out
yet, and the block is no longer than `n_left`, which is positive then (`BlockInBuffer`), a
retry is of less than a block (`Rewriting`), nothing out is ahead of the input
(`NothingAhead`), and without a mishap the counters say how much is out, or, for a count
above `OFF_MAX`, are at or below 0 (`CountersRight`). `WriteAppends` is the heart: what one
`write()` sends, the block from its start or memory behind the buffer, leaves blocks in
order. `SendfileProgress` says what brings a copy to its end: a step reads on, has less of a
block left to write, goes on to the next `read()`, is one of the mishaps, or, with `n_left`
negative, brings it one nearer to 0.

### VendorPatchProofs

* `Builds = {Default} => (Spec => []FlaggedIsPatched)`, and the same for
  `PatchInvariant`, `FlaggedHasLinks`, `RestUntouched` and the action properties
  `DirtyDiscarded` and `RunsProgress`

for any number of trees and of patches, on both kinds of host, with any kills, locks,
edits, undone patches, flags made by hand and failures of git. The statements about
flags are about those a run wrote and trees not undone since. With a second build directory the properties are false (see
*Exceptions*), hence the hypothesis. `PatchInvariant` follows a run: the trees before
the one it is at are patched and that one so far (`PatchedSoFar`), git has reset what
the steps so far say it has, unless a failure was ignored (`ResetSoFar`), and the
re-linking steps come before the first patch. The last was missing at first: TLC found
the invariant true without it, but a run that comes to patching from there with some
trees passed over could not be excluded step by step. The walk over trees and patches is one counter, whose
quotient and remainder move as `WalkStep` says.

`RunsProgress` is why configuring again succeeds. Each step that is no upset brings a run
to its next stage or patch, and a run gives up at a patch only when a failure of git was
ignored, which without an upset only a lock brings about. The invariant it needs is `RestUntouched`: what a run has still to patch is as
upstream has it, whatever was left there by crashes and failed patches before it.

### AtCallsProofs

* `AtInvariantHolds`, `OthersActWhereAskedHolds`, `NoPathLeakHolds`, `ErrnoSetHolds`,
  and `FailureLeavesNoTraceHolds` and `CallsProgressHolds` for the action properties

for any directories, places, names, Windows errors, moves and failed allocations, in
both builds. That a call acts where it was asked rests on what a path is worth while
directories move: it leads to the place the descriptor's directory has, or that
directory has been moved since, or the path was never written (`ResolvedRight`), and no two
directories are in one place (`PlacesApart`). That nothing leaks rests on what each
function has in memory when it comes to its frees (`HeapRight`): the paths that are
not null, but for the absolute path of a call that does not copy it. `WinerrErrno` is the lemma about the table: whatever code
Windows gives, errno is set, to -1 if need be. `CallsProgress` says that no call goes
round for ever: the label to which a failed second `strdup()` of a Release build goes back
lies behind the first path, and every return to it costs one of the failed allocations.

### DirentProofs

* `DirentInvariantHolds`, `OneOwnerHolds`, `ClientKeepsHolds`, `SameDirectoryHolds`

for any directories, descriptors and streams, both builds, with or without other
processes. `OneOwner` speaks of states between calls. The invariant also says who owns
what during one: the descriptor of a stream is open and not the client's
(`StreamsOwn`), no two streams have one (`StreamsApart`), every open descriptor has an
owner, which may be the call (`EveryOwned`), and the call that has opened a descriptor
but no `DIR` yet holds one no stream has, of the directory at its path unless that is
`stray` (`OpeningSound`).

### WinFilesProofs

* `WinFilesInvariantHolds`, `FilesInvariantHolds`, `StreamFitsDescriptorHolds`,
  `ModeRememberedHolds`, `StatTrueHolds`, and `FopenFailsCleanHolds` for the action
  property
* `DeviceNumberParts`, `DeviceNumberWhole`: `makedev`, `major` and `minor`, for all integers

for any files of which one is what descriptor 0 is open on, any names, link targets,
tables, mode strings, path lengths and `PATH_MAX`. `FileModes` is reasoned about for all
mode strings: `__fmodeflags` and `__fixup_fmode` agree on access and appending whenever
both accept (`ConversionsAgree`), and accept the same strings but for the empty one
(`ConversionsDiffer`). `WinFilesInvariant` has three parts. `DiskRight`: nothing but
the attributes a program can set ever changes, so what a file *is* can be told from
them. `TableRight`: open descriptors are of files that exist, and descriptors that
belong to streams and streams are paired one to one. `CallRight`: what a call has read
so far is true, or the call has been raced, and says at any rate what the file is; the
descriptor a call made is there until it ends.

### UioProofs

* `UioInvariantHolds`, `TransferExactHolds`
* `SearchInvariantHolds`, `MemmemFindsHolds`
* `UioProgressHolds`: `Spec => UioProgresses`

for every `UINT_MAX` of the form 2n + 1, all vectors, inputs and results of `read()` and
`write()`. `TransferExact` speaks of the places moved so far; `Position` adds that the
loop stands right behind the last of them, and `LeftEarly` that it is left before the
end of the vector only at the end of the file, at a failure, and at a buffer whose
length is 0 as the call sees it. `CountWithin` is the point about widths: a length
handed on as an `unsigned int` is never more than the length.

`MemmemFinds` speaks of the answer. `SearchRight` adds that every occurrence in what was
read is at `ndx` or behind it: the needle's first byte stands at each of them, so
`memchr()` stops at the first or before it, and `memcmp()` fails only where none is. The
lengths may be converted to anything; `WithinRead` says that no byte is looked at that was
not read. `UioProgress` says what brings both loops to their end.

Every inductive invariant was checked by TLC on the instance of the component's run
before it was proved.

### Model-checked only

* Liveness: `DelayedCloseHappens`, `Terminates`, `Recovers`, `Returns`, `Finishes`. It
  rests on `ENABLED`, which this prover does not have. What is safety in them is proved:
  `ClosedOnceUnmapped`, `SendfileProgresses`, `RunsProgress`, `CallsProgress` and
  `UioProgresses` say that every step comes nearer to the end. That a step is possible
  until the end, and is taken, stays with TLC.

## What is not modelled

* Whether `symlink()` makes a link to a file or to a directory (`link.c:154-162`). It looks
  the target up from the current directory, not from where the link is, and its comment
  says that a wrong type and a target that changes are ignored: no property would hold.
* Of `stat.c`: times and link counts, copied from what Windows answers.
* `winsup/io.c`, `crt_flags.c`: constructors that set globals of the CRT once.
* `winsup/internal/assert.c`: text for logs. `common/__errno.c`: one call chosen at
  compile time.
* `libc-compat/rs/`: declarations and constants for Rust; `sendfile()` is the C
  function's wrapper.
* What the patches change: code of the submodules, which are not in the repository.
* CMake files other than the patch step, scripts and CI: descriptions of a build.
