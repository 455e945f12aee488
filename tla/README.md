# mpidt-benchmark: specifications, model checking and proofs

TLA+ specifications of the MPI datatype benchmarks in `src/`: what each
program does between `main` and `MPI_Finalize`, how the ranks of a job
interact, and what has to hold for the latency it prints to mean anything.
TLC checks the specifications on small instances; TLAPS proves every safety
property and every refinement they state, for all values of the constants.

Contents: 1 the system; 2 the modules and how they correspond to the code;
3 what is checked; 4 what is proved; 5 divergences found; 6 what is not
modelled; 7 plan.

## 1. The system

### Components

| part | state it keeps | operations | interacts through |
|---|---|---|---|
| `src/shmem_dt.c` | mapping of `/tmp/shmem.file`, `lbuf`, `liov` and the copy loop's counters | open/ftruncate/mmap, pack (`copy_to_shmem`), unpack (`copy_from_shmem`), RTS, FIN | shared file; Bcast (RTS), Gather (FIN), Barrier |
| `src/shmem_pipeline_dt.c` | the same, and `iovcnt`, `iov_off`, `shm_off`, `capacity` on either side | pack or copy one chunk at a time, one Bcast a chunk | the same |
| `src/cma_dt.c` | `lbuf`, both iovec lists, `iov_off`, `remaining`, `total_copied` | `process_vm_readv` in batches of `IOV_MAX` | memory of the sender process; Bcast of pid and list, Gather |
| `src/xpmem_dt.c` | attached segments, `lastpagebase_addr`, `curr_attach_ptr`, the apid | get, attach, copy, detach in every round, release | memory of the sender process; Bcast of segid and list, Gather |
| `src/xpmem_cache_dt.c` | the same | attach in the first round, detach in the last | the same |
| `src/bench.c` | all of the above, shared between five benchmark functions | the five benchmarks for block sizes `min_bs`, `2*min_bs`, ... | one stream of collectives |
| `src/mpi/osu_latency_contig.c` | `options`, `cnt`, `i`, the clock | blocking ping-pong of growing length | Send/Recv, Barrier |
| `src/mpi/osu_util.c` | `options`, `bad_usage` | `process_options` and setters; printing; device buffers | called by the OSU test before `MPI_Init` |
| `include/util.h`, `Makefile` | - | `NUM_ITER`, `SKIP_ITER`, `SHMEM_PIPELINE_DEPTH`, printing | compile-time |
| `src/misc-tests/test_cma.c` | `local_buf`, `size`, one iovec, the timer | one Bcast a size, 110 reads of it at each receiver | memory of the sender process; Bcast, Barrier |
| `src/mpi/osu_latency_vector.c`, `src/misc-tests/test_memcpy.c`, `src/type_tests` | - | stand-alone experiments, not built by the Makefile | - |

### How the parts interact

All of the datatype benchmarks play one protocol. Rank 0 (`sender`) owns the
data. A round is

1. the sender makes the data available (packs it into the shared file; for CMA
   and XPMEM there is nothing to do) and enters `MPI_Bcast`: the RTS;
2. every receiver leaves its `MPI_Bcast` and copies the whole buffer;
3. every rank enters `MPI_Gather` to the sender: the FIN. Receivers return at
   once, the sender when all have entered.

`SKIP_ITER` warm-up rounds are followed by `NUM_ITER` timed ones. Nothing else
orders the plain memory accesses of the processes: no lock, no atomic, no
second buffer. The OSU test is a ping-pong of two ranks, with a barrier before
every message length. `test_cma` has step 2 without step 3: one RTS a size and
no FIN, so its sender runs ahead until the barrier at the end.

### Which behaviours are hard

* *Ordering of plain memory accesses by collectives.* The standard lets the root
  of a Bcast and the leaves of a Gather return early, so a receiver may be one
  FIN behind the sender's view and one RTS behind its progress.
* *Independent counting.* In the pipelined program and in the OSU test each side
  derives the number of calls from its own counters; one call of difference
  pairs a Bcast with a Gather, or leaves a message behind, and hangs the job.
* *Failures that do not stop a rank.* `open`, `ftruncate`, `mmap`,
  `process_vm_readv` and `xpmem_attach` may fail in one rank only; the code
  prints and goes on, asserts, or jumps to the end.
* *Stale data.* The file survives the program, every round carries the same
  bytes, cached attachments and page pointers outlive a round, `bench` reuses
  one set of buffers for five benchmarks.
* *Arithmetic at the edges.* Blocks that do not divide the buffer, chunks that do
  not divide it, `size_t` sums of `-1`, a `size_t` narrowed to `int`.
* *Freeing.* CMA and XPMEM senders free memory other processes read.

### What makes each part correct

* every transport: the sender does not touch the data while a receiver may
  read it; what a receiver reports is that round, whole; the clock reads fall
  between complete rounds; every job stops, even one in which a rank dies;
* pipelined: both sides cut the buffer into the same chunks;
* CMA: the unchecked sum of the calls is enough to detect any missing byte;
* XPMEM: a copy only goes through live attachments; they are all given back;
* bench: the benchmarks do not get into each other's buffers, lists or calls;
* OSU: both ranks follow the same schedule, and the divisor is what was timed;
* test_cma: a receiver reads each size with the iovec of that size, from memory
  that is still there.

The full list of hazards, each at its line and with the properties that cover
it, is in `PROJECT.json` ("hazards").

## 2. The modules

```
MpiWorld                    ranks, collectives, launcher        (external code)
  BenchLoop                 warm-up and timed rounds, the clock
    ShmemDt                 + Arguments, SharedFile
    ShmemPipelineDt         + Arguments, SharedFile
    CmaDt                   + Arguments
    XpmemDt                 + Arguments    (xpmem_dt and xpmem_cache_dt)
    Bench                   the five benchmarks in sequence
  TestCma                   misc-tests/test_cma
  OsuLatency                + OsuOptions
  MpiProofs                 lemmas about histories of collectives, and arithmetic
Transfer                    abstract: what every transport promises
<module>Proofs              theorems about <module>, + MpiProofs, for each of
                            the seven programs above
MC<module>                  bounds for TLC, one or more .cfg each
```

**MpiWorld.** `calls[r]` is the history of collectives rank `r` has entered. MPI
matches the k-th call of one rank with the k-th of every other, so when a call
returns depends on these histories: a Bcast returns at a leaf once the root has
entered the call of the same number (`BcastReturns`), a Gather at the root once
everybody has (`GatherReturns`), a Barrier when all have. Two ranks whose k-th
calls differ never match. This is the weakest behaviour the standard allows; a
library that synchronises more has fewer behaviours. `Kill`: the launcher kills
the rest of a job once a rank has died from a signal or an assertion.

**BenchLoop** is the `for (i = 0; i < NUM_ITER + SKIP_ITER; i++)` around every
round; `clock` stands for the sender's `start`/`end`. **Arguments** holds
`blocksize`, `bufsize` and `nblocks`; **SharedFile** the open/ftruncate/mmap
sequence with each of its failures, and SIGBUS on a page beyond the file.

**ShmemDt.** One action per block copied (`PackBlock`, `UnpackBlock`), so the
copies of all ranks interleave. Data are round numbers: `shm[x]` is the round
byte `x` of the file belongs to (0: left by an earlier run), likewise
`lbuf[r][x]`. The program writes the same bytes in every round, so it could not
see the difference itself; the specification can. `Fault` is a signal at an
unmapped or unbacked address, `AssertFails` the assertion on `nread`.

**ShmemPipelineDt.** One action per `memcpy`, with both cursors and the capacity
of the chunk. A datum is `<<round, byte>>`, so a copy to a wrong offset shows.
What the loops do behind the end of the list (`Overrun`, `OverrunFault`) is a
choice between a signal and a copy of junk, for at most `MaxOverrun` elements.

**CmaDt.** Each `process_vm_readv` reads any prefix of what it was asked for, or
fails with -1; counters wrap modulo `SizeMax + 1` (`SIZE_MAX`; an object is at
most half of it). Elements behind the lists are unreadable, empty, or of a length
from `GarbageLens`.

**XpmemDt.** Both XPMEM programs: they differ in `AttachNow` and `DetachNow`
(`use_cache`). An attachment is the region of the sender's buffer it shows;
blocks smaller than a page share one (`ReusePage`), and any attachment may be
refused (`PageRefused`, and for whole blocks a later fault). A small block that
straddles a page boundary is reached only up to the end of its first page
(`Shown`): the rest of the copy faults or brings junk. `apids` counts the access
permits a rank holds.

**Bench.** The control of `main` and of the five benchmark functions, and all
their collectives. The inside of a round is coarser than in the modules above
(one step per chunk); a piece of a buffer holds `<<benchmark, round>>`. What is
new here is what the five share: `blocksize`, `lbuf`, `liov` (own list or the sender's),
`shmem_ptr` (mapped, NULL, or stale when `init_shmem` failed after an unmap), and
the collectives. `wild` is the last benchmark in which a copy went astray: through
a stale `shmem_ptr`, through the detached page of the round before (`OnePage`), or
past the end of a page (`Straddles`); such a copy faults, or brings any part of
the right data. All rounds of all benchmarks are one run of Transfer
(`ImplementsTransfer`) as long as no copy went astray.

**OsuOptions** is `process_options` as a recursive function over the arguments
before the first operand (the `+` of its option string), with its setters. `long_options` is
one table for all benchmark kinds, so the whole `switch` is reachable by long
names: `Valid` says which of the values that a latency test never reads make it
refuse its arguments. **OsuLatency** is the ping-pong: `net[r]` holds the messages on their way
to `r`; `MPI_Send` may return at any time (buffered) and is only guaranteed to
once its message is received. `cnt` is narrowed from `size_t` by `ToInt`.

**TestCma** keeps the history of the sender's iovecs in `iovs`, from which every
receiver takes them in order; `got[r]` is how much of the buffer has been read.
Each read is complete, or the assertion after it ends the program.

**Transfer** is the abstract specification: a round is published when everyone
holds the previous one, each receiver takes it as a whole, and the sender reports
only when all hold the last. ShmemDt, ShmemPipelineDt, CmaDt and XpmemDt each
define `Abstract == INSTANCE Transfer WITH ...`: `sent` counts the announcing
Bcasts of the sender, `held[r]` is the oldest round any byte of `r`'s buffer
belongs to, and `reported` is a stopped clock. In Bench the rounds are numbered
through all benchmarks (`RunBefore` skips those without a driver), `held[r]` does
not go back when a benchmark clears the buffer (what was cleared had been held),
and `reported` stays false: its clock readings are the subject of
`MeasuredRounds`.

Some operators are marked `mutant`: they are small wrong variants (a wait that
does not wait, a cursor that is not reset, one round too many) kept to confirm
that every property fails when the code is wrong; no action uses them.

## 3. What is checked

Passing runs:

| run | bounds | shows |
|---|---|---|
| `shmem` | 3 ranks, 4 bytes, blocks 0 1 2 3 5, files of 0 2 6 bytes, 3 rounds | no overlap, fresh and complete rounds, timing, termination, implements Transfer |
| `shmem_pipeline` | 3 ranks, 6 bytes, chunks 2 4 6, blocks 0 2 3 5 7, 2 rounds | no race between chunks, equal numbers of calls, the same promises, every byte in its place |
| `cma` | 3 ranks, 6 bytes, 2 elements a call, `SIZE_MAX` = 15, 2 rounds | short reads, errors and wrap-around never pass the assertion; nothing is read after free |
| `xpmem` | 3 ranks, 6 bytes in 2 pages of 3, blocks 0 1 2 3 4 6, with and without cache, 3 rounds | copies through live attachments only, all detached, the same promises |
| `bench` | 3 ranks, 4 bytes, block sizes 1-2, 3 and a rejected pair, chunks 2 and 3, pages of 2 3 4, 2 rounds | the five benchmarks do not disturb each other; together they implement Transfer |
| `osu_latency` | 2 ranks (or 1), counts to 4, large from 3, `INT_MAX` = 15, 120 argument lists | ranks in step, every size once, right divisor, termination |
| `test_cma` | 3 ranks, 6 bytes (sizes 1 2 4), 1 warm-up and 2 timed reads | right iovec for every size, no read after free, the right reads timed, termination |

Runs that exhibit a divergence (section 5): `pipeline_overrun`, `cma_overrun`,
`xpmem_one_page`, `xpmem_refused`, `osu_max_size`.

*Why the bounds are enough.* Two receivers are the least for which one can lag
behind the other. A FIN lets a rank be at most one round away, so two rounds
show every overtaking, and three have a middle round that is neither first nor
last (needed for the XPMEM cache and for one warm-up before two timed rounds).
The block sizes cover: rejected, one byte, dividing, not dividing, larger than
the buffer. The chunk sizes cover: dividing the buffer, cutting through blocks,
running past the list; the page size makes both shared pages and whole-page
blocks occur. `MaxOverrun` = 1 is enough to leave the list. `IovMax` = 2 gives
exact and inexact numbers of batches. `SIZE_MAX` = 15 holds
`bufsize` = 6 and wraps on -1.
Pages of 3 with blocks of 2 make a block straddle; in `bench` a page of 4 is the
whole buffer. A buffer of 6 is no power of two, so the sizes of `test_cma` end below
it, and three sizes let the sender be two iovecs ahead.

*Fairness.* Every rank is an operating-system process of its own, so each gets
weak fairness on its own steps, as does the launcher. A step that waits for a
collective is enabled only when the call may return, so fairness promises
nothing MPI does not. A send is fair only once its message has been received.

*Deadlock.* Where `CHECK_DEADLOCK FALSE` stands (XpmemDt, Bench) the job hangs
after a refused attachment; `TerminationIfAttached` says that it stops in all
other cases. Elsewhere deadlock is checked; a job in which all ranks have stopped
stutters through `Terminating`.

*Reading the properties with care.*

* `ImplementsTransfer` of ShmemPipelineDt speaks of the bytes that blocks
  cover. When neither `blocksize` nor the chunk divides the buffer, a run
  past the list can move just as many junk bytes as are missing; the assertions
  then hold and the tail is never copied.
* In CmaDt an element behind the list that happens to be readable *and* as long as
  the bytes missing from a short read would satisfy the assertion on the sum.
  `GarbageLens` = {0, 1} does not produce that coincidence in the sizes checked.
* `MeasuredRounds` and `ImplementsTransfer` of Bench say nothing once a copy has
  gone astray (in that benchmark, and from then on): whether junk is noticed then
  depends on what happens to be at the address.
* `CopiesAttached` and `ImplementsTransfer` of XpmemDt speak of the part of a block
  that lies in the page it starts in. `AllDetached` asks for all permits to be
  released only with the cache: `xpmem_dt` gets one a round and releases one.
* `SetMessageSize` overwrites the verdict on a rejected minimum by that on the
  maximum; `EverySize` starts from the minimum that was taken.

## 4. What is proved

Every invariant, every action property and every refinement of section 3 is
also a theorem, for any set of ranks, any buffer, block, chunk, page and file
sizes, any numbers of rounds and any command line, as far as the assumptions
the modules state about their constants allow. Nothing else is assumed except
where a hypothesis is named below.

| module | theorems, beside `Inductive` (`Spec => []IInv`) and `TypeCorrect` |
|---|---|
| `ShmemDtProofs` | `NoOverlapHolds`, `FreshRoundsHold`, `FinMeansCopiedHolds`, `TimedRoundsHold`, `Implements` |
| `ShmemPipelineDtProofs` | `CallsAgreeHolds`, `NoRaceHolds`, `Implements` |
| `CmaDtProofs` | `NoReadAfterFreeHolds`; `TimedRoundsHold` and `Implements` (no call leaves the lists); `ElementsExistIfWhole`, `TimedRoundsHoldIfWhole`, `ImplementsIfWhole` |
| `XpmemDtProofs` | `NoReadAfterFreeHolds`, `AllDetachedHolds`; `CopiesAttachedHolds` (`SpansPages`), `Implements` (`SpansPages`, `HoldsBlock`) |
| `BenchProofs` | `ReadersHoldSenderHolds`, `OwnListsHolds`, `CallsAgreeIfAttachedHolds`, `MeasuredRoundsHold`, `Implements` |
| `OsuLatencyProofs` | `ParserWorks`, `OneInFlightHolds`, `MeasuredRoundTripsHold`, `EverySizeHolds` |
| `TestCmaProofs` | `ReadsItsSizeHolds`, `NoReadAfterFreeHolds`, `TimedReadsHold` |

### Hypotheses

They are the ones the divergences of section 5 call for: without them the
statement is false.

* *CMA.* What is said of the data holds if no call leaves the iovec lists
  (`[]ElementsExist`): a call that does may transfer bytes of something else, and
  the assertion only counts them. `WholeCalls` says for which arguments that is
  so: the blocks of every block size fit one call, or fill a whole number of calls
  (`ElementsExistIfWhole`); the run `cma_overrun` breaks it for the others. Types
  and `NoReadAfterFree` need no hypothesis.
* *XPMEM.* `SpansPages`: without the cache, small blocks reach into a second page;
  the run `xpmem_one_page` shows the copy through a detached pointer otherwise.
  The refinement also asks that a block fits the buffer (`HoldsBlock`): a round
  without blocks attaches and copies nothing, so there is no byte to date it by.
* *bench.* `MeasuredRounds` and `ImplementsTransfer` exclude copies that went astray
  themselves; `CallsAgreeIfAttached` excludes a refused attachment.

### The arguments

None of the properties is inductive: that a receiver is in its copy loop says
nothing by itself about where the sender is. The missing link is in every module
the *position*: how many collectives a rank has entered (`Pos`), which is tied to
its `pc` and counters, and which a returning collective compares between ranks.
`MpiProofs` says what entering and returning do to it (`EnterPos`, `ReturnsPos`) and
how entering changes the number of calls of one kind (`AppendCounts`).

* *ShmemDt.* In round `i` a rank has entered `2i+1` collectives before its RTS,
  `2i+2` before its FIN and `2i+3` after it. `Position` ties these to `pc`, `Bounds`
  keeps what remains true of a dead rank, `Lag` says that the sender begins round
  `i` only with everyone's FIN of round `i-1`, `Ahead` that no receiver has a FIN
  without the sender's RTS. `ShmInv` and `LbufInv` add what the file and the buffers
  hold. `pack` then puts the sender at `2i+1`, with everyone's FIN behind it, `unpack`
  puts a receiver at `2i+2`, and both cannot be.
* *ShmemPipelineDt.* How many collectives a round takes is not written anywhere: each
  side counts its own chunks. The invariant says that a chunk moves the offset in the
  file by exactly `depth` bytes, a chunk that runs past the list too (`Own`, `Cursor`),
  so the blocks of a round make `Chunks` of them, and round `i` starts at `Start(i)`.
  `CallsAgree` is then that the place in the stream determines the operation. For
  `NoRace`, both windows are at chunks the position tells: the sender packs one that
  no receiver has had the RTS of, and everyone's FIN lies between two rounds (`Lag`).
  The refinement adds which bytes of which round are in the file and in each buffer.
* *CmaDt.* The two `size_t` counters of a receiver wrap; what is kept is their sum
  modulo `SizeMax + 1`, from which the assertion yields that nothing is missing
  (`bufsize` is at most half of `SizeMax`). That the sender cannot free its buffer
  early is positional, as in ShmemDt.
* *XpmemDt.* A refused receiver leaves the stream: it waits in a barrier where the
  others call a Gather, which the invariant shows never to return. For the rest, the
  attachments a receiver holds are a function of its block index, round and program,
  and so are its permits. `CopiesAttached` needs to know of the page the last block
  has left behind (`lastpagebase_addr`): that it is a different one from the first
  block's is `SpansPages`.
* *Bench.* The five benchmarks differ in their prologues and in the calls a round
  takes. The stream is laid out once as a function of the job (`Base`, `Loop`,
  `Expected`), and `IInv` says that each rank is where its `pc` says in it (`Own`), has
  called what is expected there (`Shape`), has entered a barrier instead of the
  Gather if it was refused (`Refusal`), and that the sender has waited for everybody
  wherever it waits (`Ahead`). From it follows a second invariant, `Data`: no rank is
  more than a round away from the sender (`Near`), a refused one stops the sender in
  that round's Gather (`Stuck`), the file holds what the sender has packed (`Written`)
  and each receiver what its position says (`Holds`), up to the benchmark in which a
  copy last went astray (`Recent`). Whenever the sender begins a round all ranks are
  found at one of four places (`Gathered`); at each of them the round before is
  complete, hence `MeasuredRoundsHold`. For `Implements` the rounds of all benchmarks
  are counted through (`Full`): what has been announced (`SentOf`) and what is held
  (`HeldOf`) are functions of the position, an RTS or the packing of a first chunk is
  `Publish`, the last chunk of a copy `Take`, everything else a stutter. Two facts are
  particular to it: the sender's last two calls tell an RTS from the broadcast of a
  pid or a segid (`TellingIs`), and block sizes that double leave fewer than
  `5 * BufSize` benchmarks, so the rounds are bounded (`Big`, `RoundsRemain`).
* *OsuLatency.* `Together` says how far apart the two ranks can be while both live,
  `Nets` which messages are on their way even to or from a dead one, `Printed` that
  the sizes measured so far are consecutive powers of two. `ParserWorks` (an accepted
  command line gives at least one iteration, and the last `-i` before the first
  operand decides) is an induction over the arguments, `EverySize` one over the list
  printed. The induction theorems of the library take an operator as a parameter,
  which the provers cannot instantiate; both use instead that a non-empty set of
  numbers has a least element (`Least` and `Induction` of `MpiProofs`).
* *TestCma.* There is no FIN. The number of broadcasts a receiver has taken is the
  index of its iovec in the sender's history, and the barrier at the end is what the
  sender waits for before it frees the buffer.

Every `Next` has one step per action in the proofs that it keeps the invariant, split
into what the action does to its own rank and what it leaves alone (`OthersKeep`).

### Only model-checked

`Termination` and `TerminationIfAttached`, in all modules: liveness under fairness is
outside the reach of the provers. The runs that exhibit divergences are
counterexamples and need no proof.

## 5. Divergences found

| run | where | what |
|---|---|---|
| `pipeline_overrun` | `shmem_pipeline_dt.c:105` | a chunk longer than the rest of the buffer is filled from behind the iovec list; always so if the depth does not divide `bufsize` |
| `cma_overrun` | `cma_dt.c:103` | the last batch of a list that is longer than and no multiple of `IOV_MAX` passes elements that do not exist |
| `xpmem_one_page` | `xpmem_dt.c:115` | when all blocks lie in one page, rounds after the first copy through a detached pointer |
| `xpmem_refused` | `xpmem_dt.c:121` | a refused attachment skips the FIN: the sender waits in the Gather for ever |
| `osu_max_size` | `osu_latency_contig.c:127` | `-m MAX` is accepted and has no effect |

`bench.c` has the first four as well. The runs state the assertion, comment or
help text that the behaviour contradicts; `PROJECT.json` quotes it.

## 6. What is not modelled

* Allocation failures in the datatype programs, a wrong `argc` of the
  stand-alone programs, negative arguments (huge as `size_t`; the first `malloc`
  fails and the first `memset` faults).
* What a `memcpy` to a wrong address overwrites: junk elements behind an iovec list
  as destinations, and the stale mapping of `bench`.
* `apid` is indeterminate where `xpmem_get` was not called (the sender, the early
  exits) and is released all the same; the driver refuses an id the process does
  not hold, so nothing the modules keep would change.
* Two jobs on one node: `SHARED_FILE_NAME` is fixed, and they would share the file.
* Validation and debug output: `VALIDATE`, `PRINT_DEBUG` and `DEBUG_PRINT` are 0.
* In OSU: accelerators (not compiled in); the missing terminator of `long_options`;
  message formatting and the help texts. A rank that returns without
  `MPI_Finalize` is taken to have the launcher kill the job. Two thirds of
  `osu_util.c` have no caller in the repository: the allocation of windows and
  managed buffers, the kernels that overlap computation with non-blocking
  collectives, and the defaults of the collective, one-sided and OSHM benchmarks.
* A kernel that is more permissive than POSIX asks for, memory models: the
  collectives are taken as synchronising memory.
* `osu_latency_vector.c`: not in the Makefile, and it does not compile; the ping-pong
  in it is that of OsuLatency.
* `misc-tests/test_memcpy.c`: one process that copies in a loop.
* `type_tests`: one send and one receive each. What they test is the datatype engine
  of the MPI library, of which the repository has no source. (`contig_dt.c:19` makes
  a type of four `MPI_INT` for a structure of four shorts, so both sides move 16
  bytes through 8-byte objects.)

## 7. Plan

Done: all modules of section 2, their runs, and the theorems of section 4. What is
left of the source is listed in section 6.

Next: the complement of the hypotheses of section 4, as theorems of their own. For
CMA, that the last call of a round leaves the lists whenever `WholeCalls` fails; for
XPMEM, that a round after the first copies through nothing attached when `SpansPages`
fails; for `bench`, what `CallsAgree` still says of the ranks that were not refused.
