# TLA+ models of the transcoding farm and its encoder

The repository is the deployment tree of a video transcoding farm.  Its own
code is in `src/source/CeleryWorkers` (Python 2 workers that take tasks from a
Celery broker) and the encoder it runs is in `src/x264-devel` (x264, in C).
Everything else under `src/` is third-party software that is built on the
machines: Python, ffmpeg, gpac, lame, fdk-aac, libass, fribidi, yasm,
setuptools.  This directory holds TLA+ models of the parts in which several
threads or processes work together, TLC configurations that check small
instances of them, and proofs for TLAPS.

## Files

| file | what it is |
|---|---|
| `ThreadPool.tla` | `common/threadpool.c` over the synchronised lists of `common/frame.c` |
| `TaskPool.tla` | what the pool promises its client: a queue of tasks |
| `MCThreadPool.tla`, `ThreadPool.cfg` | its instance |
| `ThreadPoolProofs.tla` | theorems about every pool, one of them that it implements `TaskPool` |
| `Lookahead.tla` | the way of a frame through `encoder/encoder.c` and `encoder/lookahead.c` |
| `MCLookahead.tla`, `Lookahead_*.cfg` | its instances |
| `LookaheadProofs.tla` | theorems about every lookahead |
| `FrameThreads.tla`, `MCFrameThreads.tla`, `FrameThreads*.cfg` | frame threads: reference frames, their counts and rows, over `TaskPool` |
| `FrameThreadsProofs.tla` | theorems about any number of contexts, references and rows |
| `SliceThreads.tla`, `MCSliceThreads.tla`, `SliceThreads.cfg` | sliced threads and their passes, over `TaskPool` |
| `SliceThreadsProofs.tla` | theorems about any number of slices |
| `FrameRefs.tla`, `MCFrameRefs.tla`, `FrameRefs*.cfg` | input frames that two threads count and recycle without a lock |
| `FrameRefsProofs.tla` | theorems about any number of pictures, contexts and B-frames |
| `Win32Cond.tla`, `MCWin32Cond.tla`, `Win32Cond.cfg` | the condition variables of `common/win32thread.c` |
| `CondVar.tla` | what a condition variable promises its threads |
| `Win32CondProofs.tla` | that the emulation keeps it, for any number of threads |
| `EncodeTasks.tla` | the tasks `encode_video` and `encode_audio` of the farm |
| `MCEncodeTasks.tla`, `EncodeTasks.cfg` | its instance |
| `EncodeTasksProofs.tla` | theorems about any number of processes and tasks |
| `Muxing.tla`, `MCMuxing.tla`, `Muxing.cfg` | the task `muxing` of the farm |
| `MuxingProofs.tla` | theorem about any number of processes and jobs |
| `PROJECT.json` | components, runs, mutants, the lines each definition models, hazards, findings, theorems |

`tlc -config X.cfg M` runs a configuration, `tlapm M.tla` checks the proofs of a
module.

## Inventory of the system

### The encoder

**Thread pool** (`common/threadpool.c`).  State: `exit`, an array of threads and
three synchronised lists of job objects: `uninit` (free), `run` (queued),
`done` (finished).  Operations: `init`, `run`, `wait`, `wait_all`, `delete`, and
the loop of a thread.  Three pools exist, each with one client: the frame or
slice threads (`h->threadpool`), the analysis of the lookahead
(`h->lookaheadpool`), the input reader.  Hard: condition variables, a broadcast
after the unlock, `wait` that takes a job out of the middle of a list, deletion
with jobs outstanding.  Correct when no job object is lost or in two places, no
wake-up is lost, a wait gets the result of its own job, and delete always ends.

**Synchronised frame lists** (`common/frame.c`).  A bounded list, a mutex and the
conditions `cv_fill` and `cv_empty`; `push`, `pop`, `shift`.  The same file
recycles frames by reference counts (`frames.unused`, `blank_unused`) and lets a
thread wait until so many rows of a reference frame are encoded
(`x264_frame_cond_wait`), or until the slice above has come to a pass
(`x264_threadslice_cond_wait`).  Hard: counts that are changed without a lock by
two threads; who waits for whose rows.

**Lookahead** (`encoder/lookahead.c`).  The lists `ifbuf`, `next`, `ofbuf`,
`b_exit_thread`, `b_thread_active`, `last_nonb`; a thread of its own when
`i_sync_lookahead` is not 0.  `put_frame`, `get_frames`, `is_empty`, `delete`.
Hard: two threads that wait for each other over two bounded lists, flags read
without the mutex, the end of the stream.  Correct when every frame comes out
once, and nobody waits for ever.

**Slice type decision** (`encoder/slicetype.c`).  Chooses how many B-frames stand
before the next other frame, reorders the mini-GOP and hands on presentation
times.  Its cost analysis is a dynamic program on costs.
Types may also be given: by the client (`pic->i_type`, `--qpfile`) or a stats file, with several B-references
in one mini-GOP.  Hard: counts and temporary arrays in the reordering, times handed from frame to frame.

**Encoder loop** (`encoder/encoder.c`).  `x264_encoder_encode` puts a frame in,
takes one out of the lookahead, gives it to the next context of the ring of
frame threads, and returns the one of the oldest context.  It keeps the
decoding times, the reference lists and the decoded picture buffer.  Hard: calls
that return early while buffers fill, the flush, error returns in the middle,
the delay promised to the client (`x264.h:902-909`).

**Sliced threads** (`encoder.c`, `frame.c`), **Windows condition variables** (`common/win32thread.c`: a
semaphore, a count of waiters and an event stand for a condition variable), **frame cache**
(`filters/video/cache.c`), **input reader thread** (`input/thread.c`), **bitstream and CABAC**
(`common/bitstream.c`, `common/cabac.c`): small protocols or algorithms, each with boundary cases; see the
plan.

**Macroblock analysis, transforms, motion search, rate control, headers, CPU
detection, OpenCL, readers and writers of files**: numerical code, tables,
formats and I/O.

**Command line** (`x264.c`).  The client of the library: one loop that encodes, one
that flushes until `x264_encoder_delayed_frames` is 0.

### The farm

**Encoding tasks** (`tasks.py`, `utilities.py`, `libraries/EncodeVideo.py`,
`libraries/EncodeAudio.py`, `libraries/utils.py`).  A task fetches its piece with
rsync, encodes it in a folder under `/tmp` named after the md5 of its input and
the time, copies the output to the mux machine, removes the folder.
**Notification** (`base_task.py`): `on_success` and `on_failure` post one message to
the API.  **Splitting, file information, muxing** (`tasks.py`, `libraries/Join.py`,
`SplitVideo.py`, `LibraryEncode.py`): the other tasks.  **Queue registration**
(`celery.py`).  Outside of the repository: the broker, the API that schedules
the tasks, rsync, ssh, ffmpeg, the mux and split machines.  Hard: names that two
tasks may share, any external command may fail, a process may die, and nothing
is retried.

### How the parts interact

The command line calls the encoder; the encoder and the lookahead share the two
lists and exchange broadcasts; the encoder gives jobs to its pool and waits for
them; the frame threads wait for each other's rows.  On the farm the workers share
nothing but file systems: `/tmp` of a machine, and the folders of the mux machine.

## The models

A step of the C models is one critical section, or one access outside of the
critical sections; the broadcast behind an unlock is a step of its own.
A condition variable is modelled by who sleeps on it: a sleeper is removed by a
broadcast, or for no reason (`SpuriousWakeup`), and then repeats its test.  A
definition called `Bug_X` is a wrong variant of the one below it; nothing uses
it but `PROJECT.json`, which says which property finds it.

### ThreadPool and TaskPool

| code | model |
|---|---|
| `pool->exit`, the lists, `job->arg`, `job->ret` | `exit`, `list`, `jarg`, `jret` |
| the local `job` of a thread, where it is, what it sleeps on | `job`, `pc`, `waits` |
| `x264_threadpool_thread` | `WorkerLoop`, `WorkerTake`, `WorkerExec`, `WorkerPush`, `WorkerSignal` |
| `x264_threadpool_run` | `RunCall`, `RunPop`, `RunPush`, `RunSignal` |
| `x264_threadpool_wait` | `WaitCall`, `WaitScan`, `WaitPush`, `WaitSignal` |
| `x264_threadpool_delete` | `DeleteCall`, `DeleteJoin` |
| `b_thread_active` of the callers | `active`: an argument is not run again before it was waited for |

`outcome` is a history variable: what the last run of an argument computed.
The client has at most as many arguments as the pool has threads; this is how
all three clients are written, and `FreeJobAtPop` in the proofs depends on it.

`TaskPool` has no threads, lists or job objects: tasks start in the order of
submission, at most `Threads` at a time, each is finished once and collected with
its own result.  The refinement mapping (`phaseBar`, `queueBar`, `resultBar`) reads
the phase of a task off the place of its job.

### Lookahead

| code | model |
|---|---|
| `ifbuf`, `next`, `ofbuf`, `frames.current` | sequences of frame numbers |
| `b_exit_thread`, `b_thread_active` | `exitThread`, `laActive` |
| `x264_lookahead_thread` | `LaTop`, `LaFill`, `LaWaitInput`, `LaDecide`, `LaEmit`, `LaDrain`, `LaFinish` |
| `x264_slicetype_decide` | `MiniGopSizes`, `BRefSets`, `CodedOrder`, `ReorderedPts`, `NewTypes` in `LaDecide`, `GetInline` |
| `x264_encoder_encode` with a picture | `EncodeCall`, `Put`, `PutSignal` |
| `x264_encoder_encode` without | `FlushCall` |
| the common part | `GetFromThread`, `GetInline`, `GetNothing`, `TakeFrame`, `TakeNothing`, `EndFrame` |
| `x264_encoder_delayed_frames` | `Delayed` |
| `x264_encoder_close` | `CloseCall`, `CloseJoin` |
| the ring of contexts | `phase`, `slot` |

The cost analysis is replaced by every size it may choose: 0 to `i_bframe` B-frames,
never the last waiting frame, none before the very first frame.  `GivenTypes` says whether types may be given:
then any B-frames of a mini-GOP may be B-references, as many as lines 1698-1713 let pass (`MaxBRefs`, from
`Pyramid` and `References`), and the middle one of two or more B-frames becomes one only if there is none yet
(line 1780).  The coded order is the non-B frame, the B-references, the others (`Place`), each in display
order.  A B-reference given directly before an IDR frame becomes a P frame and stays counted (lines 1749-1753);
`BRefBeforeIdr` says whether that may happen, and `Miscounts` that the other B-frames then start one place late,
with the place before them left as the temporary array has it.  That array is filled in line 1796 unless rate
control is CQP, which the model leaves out: there the place is uninitialised.

`TimestampsOK` is what `i_bframe_delay` can do for the times.  It is 1, or 2 with a pyramid (line 1464), which
makes up for one B-reference.  With two, in display order 0 B1 b2 B3 b4 P5 (b: B-references), coded 0 5 2 4 1 3,
frame 1 gets the presentation time of frame 2 for its decoding time, and the library warns of an "invalid DTS"
(`encoder.c:3769-3770`).  `Late` are the frames this may happen to, those before the second B-reference of their
mini-GOP; the run with given types shows that there are no others, `DecodedBeforeShown` that there is none when
the encoder decides the types.

`coded`, `dts` and
`output` are histories.  The client is the one of `x264.c`: presentation times
increase, and nothing is encoded after the first flush call; unlike `x264.c`, it
may close at any time between two calls.

### EncodeTasks

| code | model |
|---|---|
| `encode_video`, `encode_audio` up to the encoder | `Accept`, `Begin`, `BeginFails`, `NoLink`, `Fetch`, `FetchFails` |
| `EncodeVideo.main`, `EncodeAudio.main`, `run_command`, `permission_file` | `EncodeStart`, `EncodeEnd`, `EncodeFails` |
| `copy_to_mux_machine` | `Mkdir`, `MkdirFails`, `Copy`, `CopyFails` |
| the `finally` clause | `Cleanup`, `CleanupFails` |
| `on_success`, `on_failure` | `Notify`, `NotifyFails` |
| `md5(input + str(time.time()) + salt)[:10]` | `Name`: kind, input and hundredth of a second |

`str(time.time())` has hundredths of a second in Python 2, so two tasks of one
piece (two qualities) may get the same name; the model lets it happen and
follows both through the shared folder.  Collisions of md5 are left out.  What
`OutputIsOwn` says is exact about it: a reported output is the one of its task
unless another task came to the same name.  A message is acknowledged when it is
received, which is what Celery does by default and `settings.py` does not change.

`Crash` ends a process anywhere.  The rsync or ffmpeg that it runs is an ordinary child (`utils.py:32`, `Popen`
without a process group or anything else that would end it), so it becomes an orphan of the model, which ends
as it would have ended or fails (`OrphanFetches`, `OrphanEncodes`, `OrphanCopies`, `OrphanFails`): it may write
into the folder, or to the mux machine, while another task of the same name is at work there.  An `rmtree` fails
when somebody else works in the folder; that it fails by an error of the disk alone is left out, as then a
folder does stay and `NoTempLeft` would have to except it.

### FrameThreads

| code | model |
|---|---|
| the ring, `frames.reference`, `fdec` of the contexts | `turn`, `reference`, `fdec` |
| `i_reference_count`, `frames.unused[1]` | `store.count`, `store.unused` |
| `i_lines_completed`, in rows of 16 lines | `lines`; `done` is a history of what is really filtered |
| `x264_frame_push_unused`, `x264_frame_pop_unused` | `Release`, `Hold`, `Pop`; a whole list is counted at once by `Times`, all lists at the close by `InAll` |
| `x264_thread_sync_context` | `Synced` |
| `x264_reference_update`, `_reset`, `_build_list` | `Updated`, `Leaving`, `EncodeCall`, `Lists` |
| `x264_encoder_encode` and its error returns | `BufferCall`, `EncodeCall`, `FlushCall`, `EncodeFails`, `NoMemory` |
| `x264_encoder_frame_end`, `x264_encoder_close` | `NothingToEnd`, `EndFrame`, `CloseCall`, `CloseJoin` |
| `x264_frame_cond_wait`, `_broadcast` in `x264_slice_write` | `WaitRows`, `CodeRow` with `Completed` |

Only the API thread touches counts and lists of reconstructed frames, so that the setup of a
picture is one step; the frame threads interleave row by row.  The pool is `TaskPool`, whose
abstraction the run `pool` checks: the four actions of a task are those of that module, and the
context is its argument.  Picture types follow what `x264_encoder_encode` requires: an IDR
picture when there are no references, a B-picture only between two.

### SliceThreads

| code | model |
|---|---|
| `i_threadslice_pass` | `pass` |
| `x264_threaded_slices_write` | `Setup`, `Dispatch`, `WaitPasses`, `Merge` |
| `x264_threadpool_wait_all` in encode, dump and close | `WaitSlice`, `WaitedAll`, `OneFailed` |
| the end of `x264_slice_write` | `Code`, `Filter`, `WaitNeighbour`, `FilterBorder` |
| the `fail` label of `x264_slices_write` | `Fail`, `TellDone` |
| `x264_encoder_close` | `CloseCall`, `Delete`, `Join` |

A failed slice lets its picture be returned as a success with the NAL units of that slice missing: the error is
seen by `wait_all` at the next call, and `FailureStops` says that no picture is built on the broken
one.  Nobody sees the error of the last picture, and none at all when `psz_dump_yuv` is set, as
`x264_frame_dump` (`encoder.c:85-87`) drops what `wait_all` returns; that is why the property
excludes `dump`.

### FrameRefs

| code | model |
|---|---|
| `i_reference_count`, `frames.unused[0]` with its NULL | `count`, `unused` |
| `x264_frame_push_unused`: load, store, load again or not (`ReadsAgain`), compare, scan, write | `PushUnused`, `Tested`, by either thread |
| `x264_frame_pop_unused` | `PopEmpty`, `PopFound`, `PopScan`, `PopRead`, `PopClear`, `PopCount` |
| `x264_lookahead_update_last_nonb` | `UpdateLastNonb`, `SetLastNonb`, `Hold` |
| the way of the frame through lookahead and ring | `Put`, `Decide`, `Shift`, `Get`, `End` |

Neither the counts nor `unused[0]` has a lock, and the two threads do meet: in this instance decrements of one
count are lost, two entries go to one slot of the list, and an entry comes to stand behind a hole, where it is
hidden until the hole is filled.  `frame.c:751` decrements the count and line 752 reads it again for the
comparison.  `ReadsAgain` says whether the build does so: gcc keeps the decremented value in a register at the
levels `configure` sets, a build without optimisation loads it a second time.  With one load (`frame_refs`, and
the theorems) the race only ever costs a frame: `NotReusedInUse`.  As the source is written
(`frame_refs_reread`), with a count of 2 both threads may decrement, both then find 0, and the frame is listed
twice; `HeldWhenReleased`, the assertion of line 750, is what breaks in the end.

### Win32Cond and CondVar

| code | model |
|---|---|
| `waiter_count`, `is_broadcast`, `semaphore`, `waiters_done`, `mtx_broadcast` | `waiterCount`, `isBroadcast`, `semaphore`, `waitersDone`, `mtxBroadcast` |
| the mutex of the caller | `mutex` |
| `x264_pthread_cond_wait` | `Wait`, `WaitUnlock`, `WaitSemaphore`, `WaitCount`, `WaitTell`, `WaitRelock` |
| `x264_pthread_cond_broadcast` | `LockBroadcast`, `NobodyThere`, `ReleaseAll`, `Told`, `Clear`, `Leave` |
| `x264_pthread_cond_signal` | `LockBroadcast`, `NobodyThere`, `SomebodyThere`, `ReleaseOne`, `Told`, `Leave` |

What is done under `mtx_waiter_count` is one step.  `CondVar` has only threads that are outside, have the
mutex, sleep or were woken, and calls that take effect once.  The refinement mapping (`stateBar`, `callBar`)
lets a broadcast take effect when the semaphore is released, for everybody who was counted, and a signal when
a thread gets through the semaphore.  The emulation never wakes without reason, so it is a better condition
variable than the one the other models assume.  They take a broadcast for one step in which all sleepers wake;
that is `Broadcast` of `CondVar`.

### Muxing

| code | model |
|---|---|
| `tasks.muxing` up to `Join.main`, `create_input` | `Accept`, `Begin` |
| the joined file `<folder of the audio>/<first piece>_temp.mp4` | `temp[Temp(j)]` |
| the two calls of MP4Box | `JoinStart`, `JoinEnd`, `MuxStart`, `MuxEnd` |
| exceptions; the notice; a killed process | `Fails`, `Notify`, `Crash` |
| the MP4Box of a killed process, if it goes on | `orphans`, `OrphanJoins`, `OrphanMuxes`, `OrphanFails` |

Two qualities of one source have pieces of the same names, and if they use one audio file they use one
temporary file.  A worker that is killed need not take its MP4Box along (`utils.py:32`): it may go on writing
that file while the next job uses it.  `MovieIsOwn` says exactly when this matters: a movie that is reported is
of its own pieces unless somebody, another job or such an orphan, wrote the file during the job's use of it
(`met`).  Others that read the file, before, after or at the same time, do no harm, nor does what was left
there: the file stays when the task is over (below the comment `# remove process file`, `tasks.py:271`, nothing
is removed), and MP4Box begins it anew.  Nothing in the code keeps two writers apart, so that the property has
to except them.

## The runs

| run | instance | what it shows |
|---|---|---|
| `pool` | 3 threads, 2 arguments, fair | `JobsConserved`, `NoLostWakeup`, `DoneArgsDistinct`, `WaitReturnsOwnResult`, `DeleteFreesEveryJob`, `NoSleepForRoom` in every interleaving; `WaitReturns`, `DeleteReturns`, `QueuedJobStarts`; `ImplementsTaskPool` |
| `lookahead_threaded` | `i_slicetype_length` 2, sync lookahead 2, 3 contexts, VFR, 2 B-frames with pyramid, types decided by the encoder, 11 frames | conservation, room for every shift, no starvation, the promised delay, output order, valid times; fair: a call, the flush loop and close end |
| `lookahead_inline` | no lookahead thread, one context, 3 B-frames, types given with up to 2 B-references in a mini-GOP, 9 frames, fair | conservation, delay and times when the decision is made in the call (`InlineGuarantees`); the flush loop ends |
| `lookahead_idr` | the same with B-references before IDR frames, 6 frames | violated: `FramesConserved` |
| `encode_tasks` | 2 processes on one machine, 2 qualities of a piece, 1 sound track, 2 times, 1 crash, fair | each task is in one place, a reported output is its own, no folder stays, every task is reported or lost |
| `frame_threads` | 2 contexts, 2 references, 3 rows, failing allocations, fair | counts are what the contexts hold, no frame in use is recycled, only finished rows are read, calls and close return as long as no slice fails |
| `frame_threads_fail` | the same | violated: `CloseReturns` when a slice fails |
| `slice_threads` | 4 slices, any may fail, with and without dumping, fair | passes are those of this picture, a failure stops the encoder, every call and the close return |
| `frame_refs` | `i_slicetype_length` 2, sync lookahead 1, 2 contexts, 2 B-frames, 9 pictures, one load for decrement and comparison | no frame is reused while it is held, none released without a holder |
| `frame_refs_reread` | the count is loaded again | violated: `HeldWhenReleased` |
| `win32_cond` | 4 threads that wait, broadcast and signal at will, fair | refinement of `CondVar`, and a broadcast or signal always returns |
| `muxing` | 2 processes, 4 jobs of which 2 share a temporary file, 2 crashes that may leave an MP4Box | a reported movie is its own unless somebody wrote its file meanwhile |

**The findings.**  When a slice fails, `x264_slices_write` says "Tell other threads we're done, so they
wouldn't wait for it" (`encoder.c:3070`), and does so with sliced threads only.  With frame threads the rows
of the failed picture are never completed.  If the context after it refers to that picture, it sleeps in
`x264_frame_cond_wait` for ever; the client sees the error and closes, and `x264_encoder_close` hangs when
`x264_threadpool_delete` joins that thread.  `frame_threads_fail` shows it; `CallsReturn` in `frame_threads`
shows that this is the only way to hang.

When a B-reference is given directly before an IDR frame, x264 makes it a P frame ("x264 will correct the input
picture type", `x264.h:789-790`) but counts it as a B-reference still.  The loop of `slicetype.c:1839-1844`
leaves a place of `frames` out, the `memcpy` of line 1847 copies what was there, and with two or more B-frames
in the group one frame comes twice and another never: `lookahead_idr`.  All theorems about the lookahead
exclude this input (`~BRefBeforeIdr`).

As it is written, `x264_frame_push_unused` compares a count that it reads a second time, without a lock, and
two threads may both find 0: `frame_refs_reread`.  The theorems about `FrameRefs` are about builds that load the
count once (`~ReadsAgain`).

**Why the bounds are enough.**  Three pool threads are the fewest with one asleep, one running and one between
push and broadcast, and two contexts make two of them work at once.  One job object is then always free: that
nobody sleeps for room when all are out as well is left to the theorem about `NoSleepForRoom`.
`Args` needs no bound on the number of calls: the state space is finite.  `Threads` and `Args` are arbitrary
in the proofs. In the lookahead a frame is buffered over at most `Delay` (7 and 4) others, so 11 and 9 frames
are enough to fill every list, to go around the ring of contexts, and to flush from every state of filling; 2
and 3 B-frames with pyramid have a mini-GOP with and without frames on both sides of the B-reference, and 3
with two B-references have every place of a frame before, between and behind the two.  With
`i_sync_lookahead` 2 the caller may run ahead of the lookahead thread, and does find `ifbuf` full.  Times are
uneven (`f*f+f`) to make the decoding times of the two rules differ.  With two values of the clock, two tasks
share a name or do not; a crash leaves an orphan with either name (several machines, which share names on the
mux machine only, are covered by the proofs).  Two contexts and two references are the fewest in which a picture refers to one that is in work and
to one that is done, and in which B-pictures leave their frame at once; three rows have a first, a middle and
a last one.  More contexts only multiply the names of the frames (3 contexts are some millions of states).
Four slices are a first one, a last one and two between, so that a border has a neighbour that is waiting
itself.  Nine pictures let three mini-GOPs be released while frames are taken from and put into a list of
several entries: holes, lost entries and lost decrements all occur.  In `muxing` a job meets another one
before, during and after its own use of the file. Four threads at a condition are one that wakes, two that
sleep and one that comes late. `MaxTick`, `MaxCrashes`, `MaxFrames`, `MaxPictures` and `CanFail` are the only
bounds on behaviours.

`CHECK_DEADLOCK` is on everywhere but in `win32_cond`, where all threads may come to sleep: a finished system
stutters by an explicit action (`Terminated`, `Finished`), any other halt is an error.  In `FrameThreads` a
context that waits for rows nobody will write counts as finished, too (`Hung`), for the liveness properties to
tell who hangs.

**Fairness.**  Weak fairness of each thread's steps: a thread that can run does, a mutex
is held for a bounded time and so is obtained, and the function of a job returns.  Nothing is
assumed about spurious wake-ups.  The client need not make another call, but for
the flush loop of `x264.c`, which goes on while frames are delayed.  A worker process of the farm goes on
working; this includes that ffmpeg, rsync and ssh end in some way, which the code relies on: it
has no timeouts.  Sleeping steps are disabled, so weak fairness is enough.

## The theorems

A theorem holds for every value of the constants that the named assumption of the module allows; the
bounds of the runs play no part in it.  No invariant below is inductive as it stands (types apart): each
proofs module states an inductive invariant `IInv`, proves with one lemma per action that every step keeps
it, and draws the theorems from it.

| module | assumption | theorems |
|---|---|---|
| `ThreadPoolProofs` | `PoolAssumption`: not more arguments than threads | `TypeOK`, `JobsConserved`, `NoSleepForRoom`, `NoLostWakeup`, `DoneArgsDistinct`, `WaitReturnsOwnResult`, `DeleteFreesEveryJob`, `ImplementsTaskPool` |
| `LookaheadProofs` | `LookaheadAssumption`: what `x264_validate_parameters` and `x264_encoder_open` make of the parameters | `TypeOK`, `FramesConserved`, `ShiftsFit`, `NeverStarves`, `DelayBounded`, `OutputInCodedOrder`, `TimestampsOK`, `DecodedBeforeShown`, `InlineGuarantees`, unless `BRefBeforeIdr`; `DecodedBeforeShown` unless two B-references may be given in a mini-GOP |
| `EncodeTasksProofs` | `EncodeTasksAssumption` | `TypeOK`, `EachTaskOnce`, `OutputIsOwn`, `NoTempLeft` |
| `SliceThreadsProofs` | `SliceThreadsAssumption` | `PassesOfThisPicture`, `FailureStops` |
| `MuxingProofs` | `MuxingAssumption` | `MovieIsOwn` |
| `FrameThreadsProofs` | `FrameThreadsAssumption` | `TypeOK`, `FramesAccounted`, `NoRecycledInUse`, `ReadsOnlyWritten` |
| `FrameRefsProofs` | `FrameRefsAssumption` | unless `ReadsAgain`: `NotReusedInUse`, `HeldWhenReleased`; `ListedOnce`: `unused[0]` has no frame twice and none in use |
| `Win32CondProofs` | `Win32CondAssumption` | `ImplementsCondVar` |

**ThreadPoolProofs.**  `IInv` adds to the properties
`HolderPC` (a thread holds a job exactly at the program counters between take and push),
`SleepPC` (who may sleep on which condition, and where), `CallOK` (the argument of the
current call and its place in `active`), `ArgsDistinct` (jobs in use have different,
active arguments) and `ResultOK` (a computed job holds the outcome of its argument).
The argument: as jobs are conserved, a thread that holds one proves by counting that
every list has room (`NotFull`), so nobody sleeps in push; as jobs in use have distinct
arguments among `active`, and there are no more arguments than jobs, a free job is
there when the client pops (`FreeJobAtPop`).  That takes the counting lemmas at
the head of the module, on sequences without repetition.

The second part of the module is the refinement.  `TaskPool` speaks of arguments, the steps of the pool of job
objects.  `Stage(j)` is the phase of the argument that job `j` carries, told by the place of `j`.  Since jobs
in flight carry different arguments, a step that moves one job moves one argument (`OneJobMoves`); each action
then either leaves all stages as they are, or moves one of them as an action of `TaskPool` does.

**LookaheadProofs.**  The argument rests on one sequence that no step reorders: `Order`, the frames whose
place in coded order is decided, wherever they are (`coded`, `current`, `ofbuf`, and the mini-GOP `Deciding`
at the head of `next` while the thread waits for room).  A decision appends a mini-GOP to it, every other step
hands frames on along it. `OrderOK` says that it is a permutation of the first frames, in which no frame
stands more than `BFrameDelay` places behind its own, but for those with two B-references behind them in
display order (`Behind`); `WaitingOK` that the undecided frames follow without a
gap; `GroupsOK` that `Order` is cut into mini-GOPs at places that do not move, so that a list is always cut at
a boundary; `RingOK` that the contexts hold its last coded frames along the ring; `TimesOK` what the reordered
times and the two rules for decoding times make of it; `ThreadOK` and `CallOK` where the two threads are when
they end, and how many frames the early return of `encoder.c:3277` leaves before the ring.  Conservation is
then an equality of two sets, counted once; the delay and the room for shifts are arithmetic on lengths; the
decoding times need that coding order and display order differ by at most `BFrameDelay`, with the same
exception.  That a mini-GOP is put into coded order by a permutation is counted out once, for any set of
B-references (`PlaceFacts`, `PlaceTaken`, `CodedOrderPlaces`); it is here that the proof needs
`~BRefBeforeIdr`.

**EncodeTasksProofs.**  A message is in one place (`Places`), a process takes a name once (`StampsOK`),
what lies in a folder or on the mux machine under a name nobody else has is of its task (`OutputsOK`), and a
folder has a process that has still to remove it, or crashed (`TempOK`); what a crash left running works under
the name of its own task (`OrphansOK`), so that only a task of the same name meets it.

**SliceThreadsProofs.**  A slice that has still to be coded has no mark of a pass (`FreshOK`), a pass that was
told was done (`MarksOK`), contexts are set up while no slice is active (`SetupOK`), and a failed slice is
known to the pool or to the client (`FailuresOK`).  `FailureStops` is an action property: from `IInv`, `Setup`
is not taken while a failure is known and nothing is dumped.

**MuxingProofs.**  While a job that met nobody uses its temporary file no other job and no orphan writes it
(`Alone`), and its pieces can be followed from the end of the join through the second call of MP4Box into the
movie (`PiecesOwn`).

**FrameThreadsProofs.**  No context names a frame twice (`NoRepeats`), so that a count is the number of
contexts that hold the frame (`CountsOK`), and the lists can be treated as sets.  What a context refers to was
a reference, or the picture, of each older context (`RingOK`); hence the other contexts hold at most `NumRef`
+ `Contexts` - 1 frames between them when a new one is taken, and the array of frames never has to be longer
than the one the code allocates.  A picture in work is one of its own context with earlier pictures as
references (`WorkOK`), and the lines of a frame are those of the one picture that goes to it: as many as its
finished rows allow, or none yet (`RowsOK`). Failing allocations and slices, and the close with tasks still in
the queue, are steps like all others.

**FrameRefsProofs.**  The two threads race, so the counts cannot be said to be right; `IInv` says what is
left.  It follows where a frame is: `Stream` are the frames that carry a picture, from `x264_encoder_encode`
to the push of `x264_encoder_frame_end`, `Nonb` the one counted for `last_nonb`, `Pushed` and `Popped` those
on their way into and out of the list.  A frame in the stream has the count 2 if the lookahead holds it as
well, else 1 (`Counts`); a count that a thread has loaded is the count still, or the other thread has dropped
its own reference since (`Loaded`), so that the store of a stale count makes it too large and never too small.
The entries of the list are free frames, each once (`Places`).  A frame lost in a race is in none of these
places, and nothing brings it back.  The list of the model has a place for every picture, and a scan ends
within it because a scanned index is at most the number of entries below it and of pops since (`Index`); that
the `i_delay` + 3 places of the code (`encoder.c:1485`) are enough in every race is not claimed.  `Ring` says
that the context a call turns to has no frame.

**Win32CondProofs.**  `IInv` follows one broadcast or signal: who holds `mtx_broadcast` (`HolderOK`), that
`waiterCount` counts the threads that will still subtract themselves (`CountOK`), how far those released have
come, and that otherwise neither the semaphore nor the event is left over (`ReleasesOK`).  That last part is
why the emulation never wakes a thread without reason and why a late waiter cannot take the place of an early
one.

**What the proofs changed in the models.**  Two branches of the mapping `callBar` overlapped, so that a `CASE`
had to choose between values TLC took in textual order; they exclude each other now.  `CodedOrder` filtered
the B-frames with `SelectSeq`, about which the provers know nothing; it computes the place of each frame now
(`Place`), as the loop of the code does. In `FrameThreads` a call changed the counts by folds over the lists
of references, which need an induction over the list; they are counts of occurrences now (`Times`, `InAll`),
and `Taken` is a `CHOOSE`.

**Only model-checked.**  Liveness: `WaitReturns`, `DeleteReturns`, `QueuedJobStarts`, `CallsReturn`,
`CloseReturns`, `TaskSettles` and the like.  The prover has no rules for fairness and `ENABLED`.  Every other
property that a passing run checks is stated by a theorem.

## What is not modelled

`PROJECT.json` lists every component with its status.  Inside of the modelled ones:

- `wait_all` of the pool is a sequence of waits and needs no action of its own.
- Errors when the encoder is opened, and in the analysis of the lookahead.
- CQP in `Lookahead`, where the temporary array of `slicetype.c:1796` is not filled.
- Pictures after a failing call of `x264_encoder_encode`: the client closes, as `x264.c` does.
- An `rmtree` of the farm that fails by an error of the disk alone.
- The second analysis of keyframes in the lookahead (`x264_slicetype_analyse` changes costs, no list).
- B-references and strict pyramid, open GOP, mmco commands and reordering of the reference lists
  (`x264_reference_hierarchy_reset`, `encoder.c:2428-2463`): the instances of `FrameThreads` with them are
  beyond what TLC does in minutes; weighted duplicates of references (`frames.blank_unused`).
- The order in which a thread re-encodes a row for VBV, and several slices in one picture of a frame thread.
- `get_file_info`, `split_video` and `run_command` of the farm: one external command each, in a folder nobody else uses.
- On the farm, malformed messages, files of other programs under `/tmp`, and collisions of md5.

Numerical code, rate control, formats and I/O have no protocol to follow and no state space a
model checker can cover.

## Plan

In this order; each module with its own instances.

1. `RefDPB`: B-references, mmco and open GOP (`encoder.c:2152-2268, 2390-2463`), without threads.
2. `FrameCache`, `InputThread`: the window of cached frames, and reading one frame ahead.
3. `NalEscape` and the carry of the arithmetic coder, as functions against a reference definition.

The safety invariants of the present modules are all proved; each of the new ones brings its own proofs.
