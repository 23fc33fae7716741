# A TLA+ model of libyaooi

libyaooi runs blocking OS operations on a thread pool and pollable ones through
epoll or poll, and hands the results of both back from one call,
`yo_queue_poll`. This directory models the parts of it that threads, deadlines
and shared memory make hard to test, checks them with TLC on small instances,
and proves nearly all of the safety that it checks for instances of every size
with TLAPS.

Paths are relative to the repository. All modules are translated from the C
source; `PROJECT.json` maps each definition to its lines.

## The system

| Part | State | Operations | Why it is hard |
|---|---|---|---|
| request queue (`src/queue.c`, `src/unix/pollish.c`) | `lock`, ready list `head`, notify pipe, `ready.code` of each request | `yo_req_new`, `yo_req_free`, `yoi_req_end`, `yoi_queue_pop`, `yo_queue_poll` | workers complete requests while the poller waits, drains the pipe without the lock, and reads popped requests without the lock |
| thread pool (`src/pool.c`, `src/utils/multithread.h`) | list of workers, each with a slot, a lock, a condition and the flag `kys` | `yo_req_exec`, the worker's loop, `yoi_pool_free` | hand-over by one signal, reuse of workers, joining while holding a lock, signals to threads |
| I/O requests (`src/unix/pollish.c`, `src/unix/epoll.c`) | per handle: list of armed requests, `read_n`, `write_n`; per queue: the kernel's interest set | `yoa_read` and its siblings, `_yoi_pl_req_start/stop/cancel`, `yo_fd_close`, the event half of `yo_queue_poll` | three copies of one fact (list, counters, kernel) that every path must keep equal |
| deadlines (`src/unix/epoll.c`, `src/time.c`) | one timerfd per queue that outlives the calls | `yoi_pl_impl_poll`, `yo_timeadd`, `yo_timesub`, `yo_timecmp`, `yo_timems` | stale timers, deadlines in the past, carries |
| cancellation (`src/queue.c`, `src/queue.h`) | the union of the running and the ready view of a request | `yo_req_cancel` and its callbacks | the flag is written after the memory has changed its meaning |
| fallback queue (`src/fallback/queue.c`) | ready list and a condition variable | `yo_queue_poll`, `yoi_queue_impl_notify` | the test and the wait are two critical sections |
| fallback wrappers (`src/fallback/async.c`) | malloc'ed arguments of an operation | `yoa_*` | who frees them when a step fails |
| poll(2) backend (`src/unix/poll.c`) | list of registered descriptors, array of `pollfd` filled from it | `setmask`, `addfd`, `impl_poll` | results are read back by an index stored on the way out; growth that fails |
| processes (`src/unix/impl.c`) | the pipes of a spawn in parent and children, the child | `yo_proc_spawn`, `yo_proc_wait`, `yo_proc_disown` | four pipes and seven failure points; calls overlap on the pool and forks copy each other's pipes |
| signals (`src/unix/impl.c`, `src/utils/multithread.h`) | activation counters, one shared set, one mask per thread | `yo_sig_on`, `yo_sig_off`, `yo_sig_wait`, the start of a pool thread | shared set, private masks, threads that start with their creator's mask, cancellation by a signal, unsynchronised initialisation |
| files, sockets, directories, terminals, paths, environment (`src/unix/impl.c`, `src/win/impl.c`, `src/ansi/impl.c`) | what a call holds between its first and its last step | `yo_file_*`, `yo_socket_*`, `yo_dir_*`, `yo_tty_*`, `yo_getpath`, `yo_env*`, Windows `yo_proc_*` | error paths with several resources |
| queue creation (`src/queue.c`, `src/unix/epoll.c`) | timer, epoll, pipe | `yo_queue_new`, `yo_queue_free` | seven failure points |
| addresses (`src/addr.c`), address lists, Windows command lines | none | parsing, comparison, quoting | grammar edges, sizes computed beforehand |

How they interact: a caller allocates a request on a queue and gives it either
to `yo_req_exec` (directly or through a fallback wrapper), which puts it in a
worker's slot, or to a `yoa_*` function, which links it on a handle and
registers the descriptor. A worker, the EPERM path of a start, and the close of
a handle complete it with `yoi_req_end`: under `queue->lock` it is linked and
the poller is notified. An event on a descriptor completes its request inside
`yo_queue_poll`, without the list. Either way `yo_queue_poll` returns it.

What makes each part correct:

* queue: nothing lost, nothing twice, right code, no sleep on a non-empty list,
  no use of a request after it was returned or freed (unless the caller frees it
  while it is outstanding);
* pool: a task has one worker until it completes, no worker sleeps on a task,
  destruction ends;
* I/O: list, counters and interest set agree; every event finds its request
  and its handle;
* deadlines: kept, and not before their time;
* cancellation: leaves the list intact;
* processes: no descriptor and no zombie left behind, success reported only for a
  program that was started;
* time: arithmetic on two fields equals arithmetic on nanoseconds;
* poll(2) backend: its list is the interest set that epoll keeps, what it
  reports is true, and it stays inside its array (it does not quite);
* signals: masks agree with the counters, and an activated signal does not kill (it
  can, while a pool thread is starting);
* calls: whatever fails, what was acquired is released once or handed over;
* text: parsers and quoting agree with a reference on every short input.

## Modules

| Module | Models | Steps |
|---|---|---|
| `Completions` | what a queue promises: a submission is completed once with one code, and delivered once with that code | one per promise |
| `EventQueue` | the queue over epoll; the poll(2) backend never creates the notify pipe (`poll.c:145-151`), so nothing is said of it | every access to memory two threads share is a step |
| `Pool` | pool, workers and `yo_queue_free` | a section under a worker's own lock is one step, `queue->lock` is explicit |
| `Pollish` | handles, their requests, the interest set | all of it runs in the loop thread: one call, one step |
| `EpollDeadline` | the deadline half of `yo_queue_poll` | each system call is a step, and the clock |
| `ReqCancel` | the two words of a request that the views share | each read or write of them is a step |
| `FallbackQueue` | the queue of the Win32 build; the ANSI build has no threads (`multithread.h:124`) | a critical section is a step |
| `Spawn` | the descriptors of `yo_proc_spawn`, its child, wait and disown (its memory is in `Resources`) | each system call is a step; calls overlap |
| `PollTable` | `src/unix/poll.c` | one call of `setmask` is a step; a poll takes one per descriptor filled and one for the result |
| `Signals` | `yo_sig_*` and the masks of all threads, with pool threads that start and end | the flag of the first call, its reset and each body are steps, and the line where a new thread sets its mask |
| `Resources` | what every call of the three platforms, the queue's creation and the fallback wrappers acquire and release | each acquisition, release and call that may fail is a step |
| `YoText` | `src/addr.c`, the list of `yo_dns_getaddrinfo`, the command line of a Windows process | operators, evaluated on inputs that one action makes longer |
| `YoTime` | `src/time.c` | operators; `EpollDeadline` computes and compares its deadlines with them |
| `EventQueueProofs`, `PoolProofs`, `PollishProofs`, `EpollDeadlineProofs`, `FallbackQueueProofs`, `SpawnProofs` | the theorems about the module they are named after (`EpollDeadlineProofs` has those about `YoTime` too) | |
| `PlatformProofs` | the theorems about `Signals`, `PollTable`, `YoText` and the composition `MCPlatform` | |
| `ListFacts` | lemmas about linked lists that several proofs need: what a push, a pop, a join and a count do, induction, and functions that walk a list from its front | |

In `Resources` a function is data: its paths, each a sequence of `Get`, `Try`,
`Put`, ... with what the code releases when that step fails, which is exactly
what a reader has to compare with the labels at the end of the C function. Four
actions run any such function, and the caller keeps its results and passes them
to later calls.

Parts that share no state are run side by side: a behaviour picks one and
exercises it. `MCPlatform` does so with `Resources`, `Signals`, `PollTable` and `YoText`,
`MCParts` adds `FallbackQueue` and `EpollDeadline` to these, and `MCThreads` takes `Pool` and
`Spawn`. The other `MC*` modules only name the values TLC needs. A definition named
"Mutant" is a plausible bug in the code next to it; it is part of no specification, and
`PROJECT.json` says which property fails when it takes the place of the
original.

Correspondence, where the names differ from the code's: in `EventQueue` a
worker thread is named after its request and `pc` is its place; `mem` says who
owns a request; `pipe` counts bytes; `io` and `rdy` are the armed requests and
those whose fd is ready; "lost" is the place of a task whose thread did not start. In `Pool`, `slot` is `worker->req` with
`worker->worker` and `worker->args`, which are always set together, and `wreq` the
thread's local copy. In `Pollish`, `reg[q][o]` is what epoll of queue `q` holds for
descriptor `o`. In `EpollDeadline` seconds are counted from the current one, so that the
clock needs no bound. In `ReqCancel`, `word1` is `cancelled` in one view and `ready.next`
in the other; `low` says what its lowest byte holds. In `Spawn` a descriptor is an end of
a pipe of a call; `keep` is what the child inherited without `FD_CLOEXEC`. In
`PollTable`, `pcap` is `fds_cap` and `palloc` the cells the array really has, `pwrote` how many
have been written in this call, the cleared ones included; `preg` is
what the caller has registered, `presult.seen` what poll(2) found. In `Signals`, `sbal`
counts what callers have asked for and `scount` is `_core_sig_counts`; a thread in "start" has not
reached `multithread.h:73`. In `YoText` a
character of an address is a number, a hexadecimal digit its value.

## Runs

Passing runs:

| Run | Module | Checks | Bounds and why they are enough |
|---|---|---|---|
| `queue` | `MCEventQueue` | `TypeOK`, `NoLostWakeup`, `OnePlace`, `NoTouchAfterFree`, `ImplementsCompletions`, `AllDelivered` | 2 requests, 2 codes (results can be swapped), a notify pipe that two pushes fill (bytes of completions popped without a wait stay in it, so a later push is dropped) and that a drain empties one byte at a time; requests are freed, allocated again and resubmitted for ever; the pool may refuse a task or lose it |
| `threads` | `MCThreads` | of `Pool` `TypeOK`, `TaskHeldOnce`, `NoSleepOnTask`, `ListedAlive`, `IdleFreeDefined`, `TasksComplete`, `IdleFreeReturns`; of `Spawn` `CTypeOK`, `NoDescriptorLeft`, `NoZombie`, `SuccessIsReal`, `SpawnReturns` | pool: 2 requests, 3 workers, so that a request is submitted again while its first worker still holds its slot and a third worker is spawned; threads may fail to start; the queue is freed at any moment. Processes: 2 overlapping calls, each with no stream or all three, every failure point, retries: a fork can fall between any two system calls of the other call |
| `io` | `MCPollish` | `TypeOK`, `CountsMatch`, `NoSpin`, `ArmedWatched` | 3 handles (borrowed, owned, and one whose descriptor epoll refuses), 3 requests, both directions: two requests in one direction and one in the other on one handle. `MaxCount` caps the counters of the refused descriptor, which only grow. Requests are interchangeable, hence the symmetry |
| `parts` | `MCParts` | `TypeOK` (the four parts of `MCPlatform`); of `Resources` `OwnershipKept`; of `Signals` `SignalsAgree`, `ActiveKillsOnlyAtStart`; of `PollTable` `ListIsInterest`, `CellsMatch`, `OverrunBounded`, `ReportsTruth`; of `YoText` `AddrExact`, `CmdlineExact`; of `FallbackQueue` `FTypeOK`, `ImplementsCompletions`, `AllDelivered`; of `EpollDeadline` `DTypeOK`, `TimeExact`, `TimerAssert`, `NotEarly`, `DeadlineHonoured` | see below |

Bounds of `parts`:

* `Resources` has none: every function, every path and every failure of each platform,
  for ever.
* `Signals`: an application thread and a pool thread that comes and goes, a library
  signal that is one OS signal and one that is three, two activations of each (`MaxOn`: on
  twice and off once), an OS signal of each and `SIGCHLD`, which the library has no
  name for.
* `PollTable`: three descriptors, one of them with two handles, an array that starts
  with one cell (`MinCap`, 16 in the code) and so grows three times; descriptors idle,
  readable, in error or not open.
* `YoText`: IPv4 texts of up to five groups and IPv6 texts of up to nine, of which up
  to two (`MaxOdd`) are odd: empty, too large, too long, with leading zeros, with a
  foreign character; up to two arguments with four characters in all of backslash,
  quote, space, plain and multi-byte; up to four addresses, of two families, two
  values, and two fillings of the bytes that an IPv4 address leaves unwritten. These
  bounds are constants (`MaxGroups`, `MaxOdd`, `MaxArgs`, `MaxChars`, `MaxAddrs`);
  `GroupAssumption` asks for at most 15 groups because the plain group at a place is the
  place itself, written as one digit. The proofs below do without them.
* `FallbackQueue`: 2 requests, 2 codes, every poll with a deadline.
* `EpollDeadline`: a second of 4 parts, 2 to a millisecond; deadlines of now, 3 parts and
  1 second 1 part ahead of every phase of the clock, or none: every kind of carry and
  borrow, sums of exactly one second included; `MaxReady` = 2 results.

Deadlock checking is off where the modelled program may stop for good: a loop that
waits only for tasks whose thread never started (`EventQueue`), a queue
that has been freed and processes that have all ended (`MCThreads`), undefined behaviour after
which nothing is explored (`ReqCancel`, an overrun in `PollTable`), a process that a signal ended, a
failed assertion and inputs at their bounds (`MCParts`), and the poller that sleeps for ever,
which is what `fallback_lost` shows.

Runs in which the code does not do what a comment or document says. Each is a
finding with the quotation in `PROJECT.json`:

| Run | Property | What happens |
|---|---|---|
| `pool_free_busy` | `FreeReturns` | `yo_queue_free` joins a worker that waits for the lock it holds |
| `io_shared_fd` | `ArmedWatched` | two handles on stdin overwrite each other's registration |
| `deadline_unnormalised` | `AnyDeadlineHonoured` | `nsec = 10^9`, which `yo_timeadd` leaves, is rejected by the kernel, and the call waits without a timer |
| `cancel_io` | `ListSound` | the flag of a cancelled request is written over its link in the ready list |
| `fallback_lost` | `AllDelivered` | a completion between the pop and the wait is not noticed |
| `free_outstanding` | `NoTouchAfterFree` | `yo_req_free` of an outstanding request, which `inc/yaooi/queue.h:38` offers ("Cancels the request"), only frees its memory, and the worker goes on with it |
| `queue_free_leak` | `QueueFreeFreesAll` | `yo_queue_free` opens a second notify pipe (`epoll.c:126`) instead of closing the one there is |
| `ipv6_compressed` | `Ipv6Compressed` | `::1` is read as `1:0:0:0:0:0:0:0` and `1::1` is refused |

The passing runs state their exceptions where the code has a known limit:
`NoTouchAfterFree` is checked for a caller that frees only requests that are not
outstanding, as the loop of `src/README.md` does (`Frees` without "lib");
`TasksComplete` and `AllDelivered` of `EventQueue` exempt a task whose thread could not be created
(`pthread_create` fails with a positive number, `pool.c:84` tests for a negative one);
`IdleFreeDefined` and `IdleFreeReturns` speak of a queue with nothing outstanding
(with a task outstanding, SIGPWR may reach a worker before its handler is
installed and end the process); `DeadlineHonoured` and `NotEarly` of normal
deadlines; `SpawnReturns` exempts a call that was interrupted, whose `waitpid` then
waits for the program, and one whose status pipe another child holds because its
parent forked between `pipe` and `fcntl`; `NoZombie` a call that was interrupted;
`AllDelivered` of a caller that stops submitting, because the ready list
is a stack and an old completion can be overtaken for ever.

The exceptions leave out the very cases of some hazards, and no property catches
those: an unnormalised sum is not seen by `TimeExact`, which compares values (the run
`deadline_unnormalised` shows what it does to a poll); an interrupted spawn is exempted by
`NoZombie`, and one whose pipe another child holds by `SpawnReturns`. `PROJECT.json` says so at
each hazard.

`OwnershipKept` carries two lists, `KnownLost` and `KnownBad`, of what
the code does lose, release twice, or use or hand over without having. It says that there is
nothing else, and catches none of what is on the lists. Each of
these defects is reached: take its entries out and TLC shows the path. One of them, the pipe of
`yo_queue_free`, contradicts the header and has a run of its own. On Unix: the
arguments of a fallback wrapper when `yo_req_exec` refuses; the handle when `open`
fails; the socket when `connect` fails (and `close(-1)` when `socket` does: the
labels at `impl.c:706` are swapped); the address list and the `getpwuid_r` buffer
when `malloc` fails, and an untested `malloc` in `_yoi_generic_getenvpath`; the queue's
memory when `yoi_queue_impl_init` fails; on `yo_queue_free` the notify pipe, because
`epoll.c:126` calls `yoi_pl_init`, and everything else when that fails; a
descriptor and a `DIR` closed again after EINTR; on every error path of `yo_proc_spawn` the
`yo_proc` and the handles of the streams (`impl.c:946-963`), and its first `malloc` is not tested
(`impl.c:838`); off Linux, a path copied to where a fresh handle happens to point
(`impl.c:576-588`). On Windows: the search handle of a
directory, the name of an entry, the handle of an accepted connection (the raw
socket is handed over), the address list, path buffers, the handles of a failed
spawn and the converted arguments of a raw command line; the pair of an
environment iterator is freed uninitialised or twice, and a process handle is
used as a `yo_proc`. In ANSI builds: the handle when a file cannot be opened, and an
untested `malloc` in `yo_getpath`.

`Signals` assumes one application thread and calls that do not overlap the first
(`InitRace = FALSE`). With a second application thread `SignalsAgree` fails, since
`pthread_sigmask` reaches only the caller; with `InitRace = TRUE` it fails
as well, since a late reset wipes an activation (`impl.c:135` has a TODO about it). Neither case is
covered by a property. `inc/yaooi/io.h:209` says that an activated signal nobody waits for is
ignored. That is not so: a pool thread sets its mask itself (`multithread.h:70-73`) and has its
creator's until then, so one that was created before `yo_sig_on` can still take the signal with its
default action. `ActiveKillsOnlyAtStart` says that this is the only way. A SIGPWR that arrives before `yo_sig_wait`
blocks it is taken by the handler and lost; no property is about it, since nothing but another
cancellation could end the wait.

`PollTable` counts the cells that are written. `poll.c:75` clears the cell behind the one being
filled, which is past the end whenever the array is full, and a failed `realloc` leaves
`fds_cap` larger than the array, so that later cells are filled past its end (`poll.c:61-65`).
`OverrunBounded` says that it is that one cleared cell and, after a failed growth, a filled
one, and nothing further; after a filled one the model stops. The other properties suppose that
the cleared cell does no harm. A failure of poll(2) itself aborts (`poll.c:110-113`), and a
descriptor that is not open (`POLLNVAL`) makes a call return at once and look like a timeout.

`Ipv6Exact` claims less than the standard: full addresses come out right, foreign characters are
refused, and a short text is refused or read as the first of the eight groups. Texts with an empty
group are the subject of `ipv6_compressed`; five digits in a row are two groups, and a colon
after the eighth group passes.

The round trip of `CmdlineExact` is about the quoted form. `flags == YO_SPAWN_NOESCAPE` selects the
raw one (`win/impl.c:139`), and that value is 0 (`inc/yaooi/io.h:43`), so no named flag and no
caller that passes none gets the quoted form; of the raw form only the size of the buffer
is claimed. A program takes its own name by other rules (no escapes), hence the condition `IsName`.

Seen in the source and not made a property: `_yoi_pl_get_req` does not look at the
queue of a request, so two queues that share a handle get each other's results;
a start that failed leaves its request linked (`pollish.c:82-83`), so a caller that submits it again
links it twice and one that frees it leaves a stale link: `Pollish` supposes that it does neither
(`Callers`), and no property covers it; the data of an epoll event is a union, so a timer
descriptor with number 0 would look like the notify pipe; a poll with the current time returns before any descriptor is looked at
(`epoll.c:57` against `inc/yaooi/queue.h:26`); on a timeout `*preq` is not assigned
(`pollish.c:157` against `inc/yaooi/queue.h:24`); cancelling a task follows
`running.task.worker`, which nothing assigns (`pool.c:19`); the fallback poll
ignores the result of its timed wait and goes on (`fallback/queue.c:34`);
`yo_proc_wait` stores the terminating signal in `*pcode` (`impl.c:976` against
`inc/yaooi/io.h:187`); `yo_proc_disown` has no reaper (`impl.c:983` against
`inc/yaooi/io.h:191`); `YO_OPEN_NOFOLLOW` and `YO_OPEN_STAT` have the same value
(`inc/yaooi/io.h:36`); with the poll(2) backend nodes are unlinked and never freed and
the notify pipe is never created, and the first ready node of a newest-first list
wins each call; the pipes of a child's standard streams are not marked `FD_CLOEXEC`
(`impl.c:115`), so later children inherit them; on Windows `yo_file_remove` goes on to
`RemoveDirectoryW` after a file was deleted (`win/impl.c:656`) and file times are divided
by 10^8 where there are 10^7 ticks in a second (`win/impl.c:282`); in ANSI builds `yo_read`
reports items instead of bytes (`ansi/impl.c:215`), `yo_write` casts the handle to `FILE*`
(`ansi/impl.c:226`), the size of a file is the result of `fseek` (`ansi/impl.c:250`), and
positional reads and writes leave the position changed at end of file.

## Fairness

Liveness is checked under the fairness the program's environment gives. Threads
are scheduled (weak fairness of each thread's steps). A mutex does not starve a
waiter for ever (strong fairness of the acquisitions in `EventQueue`). Callbacks
return and descriptors become ready, because the operations themselves end. The
loop polls while something is outstanding, as the loop of `README.md` does; it
is never obliged to submit, free or close. `epoll_wait`
rotates the sources that are ready and so does not report the same one for ever
(strong fairness of `WaitNotify` in `EventQueue`). The clock runs, and a deadline passes. A child gets as far as `execve` or
fails; a program that was started need not end. Spurious wakeups may happen and are never
relied on. In `MCThreads` and `MCParts` a behaviour is fair to the part that it exercises, with the
same conditions that `FairSpec`, `FairCSpec`, `FairFSpec` and `FairDSpec` state for the modules on their own.

## Proofs

A theorem holds for all values of the constants that the named assumptions in the
modules allow: any number of requests, workers, handles, queues, calls, threads
and descriptors, any capacity, any units of time. The assumptions are about
types (a count is a natural number, a model value such as `NoReq` is not a
request), with these exceptions: a pipe holds and a read takes at least one byte
(`PipeAssumption`); a handle that owns its descriptor shares it with no other
(`ConstAssumption` of `Pollish`: the library has just opened it); a second has a whole
number of milliseconds (`UnitAssumption`). TLC evaluates them in every run.

| Module | Theorem | Statement |
|---|---|---|
| `EventQueueProofs` | `TypeCorrect`, `WakeupsKept` | `TypeOK`, `NoLostWakeup` |
| | `RequestsConserved`, `NoUseAfterReturn`, `Implements` | `OnePlace`, `NoTouchAfterFree`, `ImplementsCompletions`, if `FreesOnlyOwn` |
| `PoolProofs` | `PoolTypeCorrect`, `TasksHeldOnce`, `SignalsNotLost`, `ListedWorkersLive`, `IdleFreeIsDefined` | `TypeOK`, `TaskHeldOnce`, `NoSleepOnTask`, `ListedAlive`, `IdleFreeDefined` |
| `PollishProofs` | `PollishTypeCorrect`, `CountersMatch` | `TypeOK`, `CountsMatch` |
| | `PollNeverSpins`, `ArmedAreWatched` | `NoSpin`, `ArmedWatched`, in behaviours with `[]Exclusive` |
| | `OwnHandlesAreWatched` | both, if `OwnDescriptors` and `OneQueueOnly` |
| `EpollDeadlineProofs` | `DeadlineTypeCorrect`, `TimesExact`, `TimerAsserted` | `DTypeOK`, `TimeExact`, `TimerAssert` |
| | `NeverEarly` | the action property `NotEarly` |
| `FallbackQueueProofs` | `FallbackTypeCorrect`, `FallbackImplements` | `FTypeOK`, `ImplementsCompletions` |
| `SpawnProofs` | `SpawnTypeCorrect`, `NoDescriptorLeaks`, `NoZombies`, `SuccessesAreReal` | `CTypeOK`, `NoDescriptorLeft`, `NoZombie`, `SuccessIsReal` |
| `PlatformProofs` | `MasksAgree`, `ActiveSignalsAreHarmless` | `SignalsAgree`, `ActiveKillsOnlyAtStart`, if `OneThread` and `NoInitRace` |
| | `TableIsInterest`, `CellsAreTheNodes`, `OverrunIsBounded`, `ReportsAreTrue` | `ListIsInterest`, `CellsMatch`, `OverrunBounded`, `ReportsTruth` |
| | `CommandLines`, `Addresses` | `CmdlineExact`, `AddrExact` |
| | `ArgumentsSurvive`, `AddressesOnce`, `Ipv4Texts`, `Ipv6Texts` | the facts behind these two, for all inputs: `ArgvExact`, `AddrsOnce`, `Ipv4Exact`, `Ipv6Exact` |
| | `PartsRun`, `TypesKept` | the parts in composition; `TypeOK` of `MCPlatform`, if `OneThread` and `NoInitRace` |

`PlatformProofs` is about `SSpec`, `PSpec` and `TSpec`, the specifications of the modules on
their own; `PartsRun` shows that a behaviour of `MCPlatform` is a behaviour of each of
them. The theorems named `...Inductive` state the inductive invariants.

Hypotheses. Some theorems hold only of programs that the code was
written for, and say so as hypotheses of their own, not as assumptions of the
model. `FreesOnlyOwn`: the caller frees no request that is outstanding; the header lets it, and
`free_outstanding` shows what follows. `Exclusive` is about the behaviour: at no moment are there requests of two handles,
or of two queues, on one descriptor. The kernel holds one registration for a descriptor
and each handle overwrites it with its own mask, which is what the run
`io_shared_fd` shows; with two queues on one handle the counters, which are the handle's, end
up in the mask of whichever queue changed last. Handles may share a descriptor
and queues a handle, as long as they take turns. A program in which no two handles wrap one
descriptor (`OwnDescriptors`) and which has one queue (`OneQueueOnly`) always does.
`CountersMatch` needs none of this. `OneThread` (one application thread) because
`pthread_sigmask` reaches only its caller; `NoInitRace` because `_yoi_sig_init` tests its
flag without a lock. The passing runs are instances that satisfy them.

The arguments, with what each inductive invariant adds:

* Queue (`IndInv`): `LockInv` (a thread is in its critical section exactly when it
  holds the lock; without it a pop could overlap a push), `CurInv` (the loop thread
  has a request in hand exactly inside `yoi_req_end` and between pop and return),
  `PlaceInv` (a thread that has linked its request and not yet unlocked still has it
  on the list, since removing it takes the lock; this is what makes
  `NoTouchAfterFree` inductive) and `CodeInv` (a request being linked, listed or popped
  carries its operation's code; this is what the refinement needs to deliver the
  right one). `Implements` maps a request to done while it is listed or popped:
  `EndPush` is the abstract completion, `PopReturn` the delivery, an event on a
  descriptor both at once, and every other step of poller and workers a stutter
  or a submission.
* Pool (`PoolInv`): `SlotInv` ties a worker's slot, the thread's copy of it and the place
  of the thread (a slot stays full from its assignment until its worker empties
  it, so `yo_req_exec` cannot put a second task in it, and a worker whose request was
  completed and resubmitted does not count as holding it); `LoopInv` says that
  the request `yo_req_exec` walks the list with is still the caller's; `StopInv` that
  only a queue being freed stops workers, and unlinks them first. `IdleFreeDefined`
  follows because a worker past its start has installed the handler and one
  without a thread still has its task, which is outstanding.
* I/O requests: `ListInv` speaks of the library's memory alone. `LinkInv`: a request is linked
  on the handle its record names, exactly while it is armed or its start failed,
  once, and only on open pollable handles. `CountInv`: counters are the
  cardinalities of the two directions of the list. `ReadyInv`: completed requests are on
  their queue's list once. A close completes any number of requests in one walk; what the
  walk leaves on each ready list (`EndedFacts`) is proved by induction over the length of the
  list. `WatchInv` adds `RegInv`: a registration leads to an open handle, its mask
  lies within the directions somebody waits in, and every linked request on the
  descriptor is of the handle and the queue that made it (`UsedBy`), so that a step of
  another handle finds the descriptor unused or its registration its own. `NoSpin` then
  follows because every direction in the mask has a linked request to serve.
* Deadlines (`DeadlineInv`): in the wait the timer is this call's own, disarmed without a
  deadline, equal to the deadline when the kernel accepts it (`WaitInv`). What
  remains is arithmetic: `yo_timeadd`, `yo_timesub`, `yo_timecmp` and `yo_timems` against one number,
  for times with the one unnormalised value `nsec = PerSec` that `yo_timeadd` leaves.
* Fallback queue (`FallbackInv`): requests being linked, linked or popped carry their
  code. The refinement mapping is the queue's; the lost wakeup of `fallback_lost`
  is a matter of liveness and does not touch it.
* Processes (`SpawnInv`): `FdOk` says for each place in `yo_proc_spawn` which of its own
  descriptors are open, in the order in which the streams are made, so that each label of the
  cleanup closes exactly what is open when it is reached; `KidOk` says that a child
  still setting up holds its status pipe and that one which failed has written to it. Steps of
  other calls are shown to touch none of it.
* Signals (`SigInv`): `CallInv` (an off under way is matched by an on that has
  returned, so counters do not go below zero, and a thread that is not there has no call), `ResetInv` (the reset happens once, before any call
  has changed anything), `WaitInv` (the mask saved by `yo_sig_wait` is the one the
  thread must have afterwards, even if signals were turned on or off meanwhile).
  No OS signal has two names in the library and every fatal one has one, which is read
  off the table.
* poll(2) backend (`TableInv`): one node for each registered descriptor with what was
  registered last (`NodeInv`); the first cells of the array belong to the first nodes, in order
  (`CellInv`); as long as no growth failed the capacity is the array's, and what is written goes at most one
  cell past it until a cell behind it is filled (`CapInv`).

* Command lines: the splitting of the text is a fold over characters with a small
  state, and so is the quoting. `QuotedIsSplit` follows both through one argument: after
  each character the splitter, fed what the quoting has written, holds exactly the part of the argument
  before the backslashes that are still held back. `CmdlineSplits` goes on from argument to argument,
  `CmdlineRoom` bounds what is written by twice the length of the argument and the two quotes.
* The list of addresses: what `unix_add` keeps is the first occurrence of each key, and an
  address that is appended comes after all of them.
* Parsers: `Places` gives the position of each group in the text, `Run` what a scan finds
  from there. The IPv4 loop is followed for its four turns: either it has read the
  groups so far and stands before the next one (`Reading`), or it has met something that no
  later turn gets past (`Stuck`). The IPv6 loop is followed for its eight (`State6`, `Read6`), where the
  cursor never gets past a foreign character (`Before`).
  `ipv4_number` stops early so as not
  to overflow; `Saturated` shows that it refuses exactly the numbers above 255.
  `Ipv6Texts` supposes a text that `yo_parse_ipv4` refuses, which holds of every text of the run.

Induction. The library's induction theorems take an operator, which the
provers here do not instantiate. `NatInduct` and `SeqInduct` in `ListFacts` take a set (of
lengths, of lists) instead and are proved from the least counterexample. A walk over a list is
written as a recursive function of the position. For a step that is given as a function,
`FoldOf` yields the function on lists that takes one step for each element, and says how a
recursive definition is seen to be it; all that the proofs above use afterwards is
what one more element does.

Only model-checked:

* all liveness (`AllDelivered`, `TasksComplete`, `IdleFreeReturns`, `DeadlineHonoured`,
  `SpawnReturns`), which needs fairness;
* `OwnershipKept` of `Resources`: its data are the functions of three platforms, a finite
  table without parameters, and the run visits all of its states, so a proof
  would say nothing more;
* the runs that end in a violation.

## Not modelled

The calls that only move data or attributes (`yo_read`, `yo_write`, `yo_stat`, `yo_sync`,
`chmod`, `chown`, positional reads and writes) and the clocks: one system call each,
with no state of the library's own. The tables of error codes, open flags and
stat fields. The functions that only return `YO_ENOTSUP` on Windows and in ANSI
builds, signals among them. The contents of paths and environment strings. The
build without threads. Running out of memory in `Pool` outside `yo_req_exec`.
Callers that poll one queue from two threads, turn a signal off more often
than on, close a handle that a call still uses, or start or free a request whose start has
failed. First calls of `yo_sig_*` that overlap, outside `InitRace`.

## Plan

1. Done: the queue and its proofs, pool, I/O requests, deadlines, cancellation,
   fallback queue, time, processes, poll(2) backend, signals, resources of all
   platforms, address parsing and command lines.
2. Done: proofs of all safety properties of queue, pool, I/O requests, deadlines and
   time, fallback queue, processes, signals, poll(2) backend, address parsing and
   command lines; of resources they are checked on all states there are.
3. Left: action properties worth stating over the proved invariants (what a step
   of one worker, call or handle may never do to another's); the calls that
   transfer data on the three platforms.
