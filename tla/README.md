# TLA+ models of the CS307 Systems Practicum programs

The repository is a set of independent course programs: each has its own `main` and none
calls another (only `PeerSync` has two parts that would be used together). The modules here
are therefore one per program, or per pair of programs that talk to each other, and each
program's properties are checked on its own.

## 1. The system's parts

| Part | State it keeps | Operations | What is hard | Correct when |
|---|---|---|---|---|
| Dining students `A1/Q2` | one mutex, one condition variable, `spoonStatus`, `studentStatus`, a counter per thread | `canTakeSpoons`, `giveUpSpoons`, the loop of `student`, `main`'s joins | wake-ups: `notify_one` may pick a waiter that cannot eat | spoons are exclusive, no sleeper is forgotten, `main` returns |
| Thread-pool server `PeerSync/MultiThreaded-Server-master` | ring queue, mutex, condition, descriptors in the threads' hands | `queue1_add`, `queue1_get`, `doProcessing`, `push`/`pop`/`peek` | signal after unlock, stolen elements, a full queue, a failed `accept` | every queued connection is served once, in order |
| `torrent()` in `test.hpp` | `shut_down` flag shared by workers, resume and session files, a libtorrent session each | alert loop, save of resume data | one flag for many loops, resume alerts that overlap | the last resume data saved is the torrent's last |
| Merge sort `A2/Q3` | `arr`, `threadCount` under a lock, the vector `th` of handles | `func`, `merge`, `mergeSort`, `main` | numbering of threads, joins as the only protection of `arr`, empty segments | the array ends sorted, or the program dies for a known reason |
| File server and client `A4/question2` | a socket, the file, counts of bytes | FILE, STAT, EXIT | partial reads, a file that changes, a client that leaves | the client's copy is the file |
| CRC server and client `A4/question3` | a socket, a message and its remainder | encode, send, receive, decode | framing; one bit left unprotected | a damaged message is reported |
| Shell `A1/Q1` | `userArgs`, history file, working directory, child process | parse, built-ins, fork/exec/wait, batch | nested batch files share one argument vector; end of input | each command runs once with its own arguments |
| Matrix multiplication `A1/Q3` | three matrices, threads | three splits of the product | odd sizes, threads that write the same cell | every cell is computed |
| Child processes and pipes `A2/Q2` | four pipes, four processes | encrypt, generate, copy, loop; the parent's `select` | inherited write ends, end of file | every child's result is displayed |
| `peersync.cpp`, `try.cpp`, `torrent.py`, `generate.cpp`, `read_test.cpp`, `run.py` | files | a menu, demonstrations, helpers | none for a model | - |

How they interact: the threads of one program share memory under one mutex each; the servers
and their clients exchange bytes on TCP connections; the pool server's workers call
`torrent()`, which shares a flag and two files between workers; the shell and the pipes
program interact with their children through `wait` and pipes. libtorrent, the kernel's
sockets and the C++ thread library are external, and are modelled only by what the code
under `src/` expects of them.

The hazards of each part, at their lines, are in `PROJECT.json` under `hazards`, with the
properties that would catch each.

## 2. Plan

In order of importance (concurrency first):

1. `DiningTable`, `DiningStudents`, `DiningStudentsHistory`, `DiningStudentsProofs` - done.
2. `RequestQueue`, `RingQueue`, `ConnectionPool`, `ConnectionPoolProofs` - done.
3. `MergeSort`, `MCMergeSort`, `MergeSortProofs` - done: the types, `HandlesKept`, `NoRace`,
   `AbortsIffTooSmall` and `Sorted` proved for every depth and every file.
4. `FileTransfer`, `MCFileTransfer`, `FileTransferProofs`: A4/question2, both sides over a byte
   stream - done: the types and the four properties about content proved.
5. `TorrentWorker`, `MCTorrentWorker`, `TorrentWorkerProofs`: `torrent()` of several workers over
   shared files and flag - done: the types, `TornByTwo` and `FinishedIsSaved` proved.
6. `CrcLink`, `MCCrcLink`: A4/question3, the encoder and decoder against polynomial division,
   and the stream - modelled and checked.
7. `PipeChildren`, `PipeChildrenProofs` (a parent's `select` over four children whose pipes inherit
   each other's ends) and `Shell`, `MCShell`, `ShellProofs` (batch files inside batch files, the
   history across lives) - done: their safety invariants proved.
8. `MatrixThreads`, `MCMatrixThreads`, `MatrixThreadsProofs` (three ways to divide one product) -
   done: the product proved for every size, matrix and limit on the threads.

## 3. The modules and what corresponds to what

### Dining students

`DiningTable` is the promise: a set of students eating and a count of meals; `Sit` needs that
no neighbour eats and that meals are left, `Rise` counts one.

`DiningStudents` is the program. Each student thread has a program point `pc[s]`:

    enter -> check -> seated -> eating -> rising -> clearing -> notify -> thinking -> record -> (enter | done)
               \-> asleep -> woken -> check

`check`, `seated`, `rising`, `clearing` are the points at which it holds `studentLock`, which is
modelled with its holder. `spoonOperationsLock` is taken only by a thread that already holds
`studentLock`, so `canTakeSpoons` is one step. `conditionVariable.wait` is `FallAsleep` (release
and block in one step), a wake by `NotifyOne` or `SpuriousWake`, and `LockToCheck` again. Nothing
is assumed about which waiter `notify_one` picks. `main` is `Join`, in thread order.

`DiningStudentsHistory` adds two history variables (who has waited longest, who has slept
longest) and gives `notify_one` the kindest order, to test a sentence of the report.

### Thread-pool server

`RingQueue` holds the functions of `queue.hpp` on records, and `Contents`, the sequence a ring
stands for. `ConnectionPool` has the main thread (`Accept`/`AcceptFails`, `AddLock`, `AddPush`,
`AddSignal`), the workers (`GetLock`, `GetWait`, `GetPeek`, `GetPop`, then `Recv` or `RecvFails`,
`TorrentReturns`, `SendAnswer`) and the clients (`Connect`, `SendMagnet`, `HangUp`). A connection
is named by its client, each of which connects once. `recv` failing ends the process (`exit(1)`):
`up` becomes FALSE and nothing of the server moves again. `RequestQueue` is the promise: FIFO,
each request taken at most once, refused only when full. It is refined with
`pending <- Contents(q)`.

### Merge sort

`MergeSort` names a thread by its place in the tree (1, then 2k and 2k+1) and keeps the number
the program gave it in `args[k].threadID`, because whether those numbers are right is a property.
`Split`, `ReadCount`, `AddCount` are the critical section; `Create1`, `Create2` store the handle in
`th` and start the child; `Join1`, `Join2` wait for whatever handle is in the slot; `MergeCopy` and
`MergeWrite` are the two halves of `merge`. `Half` truncates as C does, so empty segments behave as
in the program: `MergeThrows` is `new int[-1]`, `MergeOutside` a merge that reads past the end of
`arr`. A leaf's sequential sort is `SortCopy` and `SortWrite` around the function `mergeSort`.

### File server and client

`FileTransfer` has one record per connection for the locals of `serve` and one for those of the
client's `main`, and the two directions of the TCP stream as sequences of units: a header
(command, status, size) is `HeaderLen` units, a name `NameLen`, a byte of a file or a line of the
statistics one. A read takes between one unit and what was asked for. The code reads a header
once and takes what it gets, so a short read leaves its rest to be taken for what follows; the
loops over a file's bytes read again and count, on the server up (`offset`), on the client down
(`size`), until exactly zero. `Change` alters a file between the measurement and the second
`fopen`. Descriptors are counted (`MaxFds`): `serve` closes neither the file it has sent nor its
socket after EXIT. A file that is not there ends in `CloseNull`; so does one that cannot be
opened any more. The server process also ends when a thread writes to a client that has left
(SIGPIPE), and when it has stayed without a descriptor for long enough: `accept` then returns -1 at once,
`main` starts a thread for it each time round and joins none, and the constructor of a thread throws in
the end (`AcceptFails`).

On the client's side nobody asks whether the copy could be opened (`filefd`) or how much of it was
written (`Written`): `file` is what was received, `copy` what is in the file RECV_..., and `kept` whether
the two are the same because every call did its work. `Save` prints "Saved at" in each case, also
where there is no copy: that message says no more than that the loop has ended, so `CopyIsFile` has `kept` as a
premise. The other properties have not: a copy that fails does not take the client out of step.

`sound[u]` is a history variable: no name, status or size was read in pieces on this connection, and no
file changed between its measurement and its last byte. The properties about content have it as a
premise, because nothing holds without it: the protocol frames nothing, and the rest of a split
name or size is taken for what comes next. What the properties say is that nothing *else* goes wrong: data
in any pieces, a command in pieces (the server closes the connection), other users, the server's
end at any moment. In practice the messages of this program are split rarely, for each is written with one
call and is read when nothing else is under way; that is a matter of the network and not of the code.

A4/Report.md:73 reports "slight loss in pdf and binary files" and no support for files of more than
65 KB. The code at this commit has no such loss on a sound connection (`CopyIsFile`; the units of the model
may be any bytes, and nothing depends on the length but that `int` and nine digits hold it). It would have one
if the line that is commented out at client.cpp:88, `if (n<1000) break;`, were in force: a read that returns
less than the buffer, as it does whenever the network is slower than the client, would end the copy.
`ReadTurnStopsShort` is this line, and `StreamIsFile` fails with it. A copy can also fall short of
what was received when a write to it does (`Written`).
`Bounds` is a set of records, one for each situation to check: how many commands each user types,
how many mishaps there are and which files. `Init` picks one, so that one run covers them all.

### torrent()

`TorrentWorker` has a record for the locals of `torrent()` in each worker, one for the worker's
libtorrent session, and what all share: `shut_down`, `.resume_file`, `.session`. `Load` reads both
files, `PopAlerts`, `StopDownload` and one action per kind of alert are the loop, `HandleSave` and
`WriteResume` truncate and fill the file in two steps that another worker can interleave with,
and `OpenState`, `Return` do the same with the session. A file that is read or written by two at
once may be `Torn`; reading such a file throws. libtorrent is external: it adds, downloads,
answers each request to save with the state of that moment or a failure, in order. Since
`SavePeriodically` and the end of the download both ask, an older answer can end the loop, which
is what `FinishedIsSaved` is about. `Pieces` gives each torrent the pieces that are not there at first,
and `Bounds` the situations: what the clients of each worker send, in order, and the mishaps.

### CRC server and client

`CrcLink` has `encode_crc` and `decode_crc` on bits (`Subtract` is one turn of the outer loop, with
the comparison of characters as the code makes it), the two loops `crc_client` and `crc`, and the
stream between them, on which number and message follow each other without a frame; a read may
take less or more than was meant (`astray` counts those), a number misread from other units is
some number, and the wire may flip bits. `ended` is whether the character after `msgblock`, which
`strcmp` compares too, is NUL in this build.

### Child processes and pipes

`PipeChildren` keeps, for each process, the pipe ends it holds (`ends`). `init_child` is the parent's
turn of forking: the child is given everything the parent holds at that moment, and the parent
closes one write end. The children are forked from the fourth to the first, so that child c
inherits the write ends of pipes 1..c, and every read end. A child that writes (`HasLine`,
`WriteLine`) closes its own read end and nothing else; the other two do their work and leave
(`Work`). `Ready` and `Holders` are the kernel's rules: a pipe is readable when something is in it or
nobody holds its write end any more; a write kills when nobody holds the read end. The parent is
`Select`, then `Show` or `Skip` for each pipe, then `Loop`, with the buffer as cells that are cleared,
filled, and printed up to the first NUL. Three things the source says otherwise at first sight come out of this: the
children one and four hold each other's read end, so that after the parent's death neither gets
SIGPIPE while the other lives, and once the pipe is full it blocks for ever; child four's `wait` has
no child to wait for, so its loop never ends; and the parent's loop cannot end either, as
`select` does not fail, so its `wait`s and closing text are not reached.

### Matrix multiplication

`MatrixThreads` is one module for the three programs, which differ in `multiply` (what additions a
thread is given), in the order of the loops (`Before`) and in whether a thread holds the lock
(`Locks`). A `+=` is `ReadCell` and `WriteCell`, with anything in between; `Create`, `CreateFails` (the
assertion in `Pthread_create`) and `Join` are `main`. `Product` is what `sequential.cpp` computes.
`ProductComputed` has one exception, which is what the code does: `multithread3` with n = 1 gives each
of its four threads an empty half, and C stays 0.

### Shell

`Shell` has the loop of `main` and the frames of `executeBatchFile` as a stack (`stack`), each with the
lines left; the lines come from the innermost file (`ReadBatch`), else from the user (`Type`). There is one
`userArgs`; `parseCommand` clears and refills it, and `first` is what its first cell holds or last held,
which is what `userArgs[0]` reads when the vector is empty. `updateHistory` writes the line (`history`, a file that outlives the
shell) before it is executed; then there is one action per kind of command. Nobody asks whether the file
could be opened: each frame of the stack keeps a batch file open, and with `limit` of them none is left
for the history, nor for one more batch file, which is then executed as if it were empty. `limit` has this
number (`files`) and whether the history file can be written to in this life (`writable`: always, never, or now
and then). `lost` has the lines that were not written. `help` says that history lists the commands executed
(myshell.cpp:73, `ListsExecuted`); a batch file that runs itself under the usual limits refutes it, and
`HistoryComplete` says what is left. `Start` has the
cases of `main`: no argument, a batch file, one that is not there or cannot be opened, too many
arguments; in each it may also crash, for the shell resolves `argv[0]` with `realpath`, which is null when
the shell was found through `PATH`.
`Enter` ends a pause only while the input has not ended: `cin.get` then returns no newline any more.
The stack overflows at `MaxDepth` frames, which with the usual limits (1024 files, 8 MB) comes after the
files have run out; both orders are checked (`Limits`). `Nothing` is what is left of an argument that was overwritten; no
argument, file or directory is called that.

## 4. Runs, bounds and results

| Run | Bounds | Shows |
|---|---|---|
| `dining` | 4 students, 2 meals, 1 spurious wake-up | `SpoonExclusion`, `NoLostWakeup`, `LogConsistent`, termination (`AllJoined`), refinement of `DiningTable` |
| `dining_order` | 5 students, 2 meals, FIFO wake-ups | violation: `LongestWaitFirst` (Report.md, problem 2) |
| `pool` | 3 clients, 2 workers, capacity 2, 1 failed accept or spurious wake-up | `OneOwner`, `NoLostSignal`, `QueuedIsServed`, refinement of `RequestQueue` |
| `pool_full` | capacity 1 | violation: `EveryRequestKept` (README of the server) |
| `mergesort` | all files of up to 3 bytes over 3 values, four longer ones; 1, 3 and 7 threads | `HandlesKept`, `NoRace`, `Sorted`, `AbortsIffTooSmall`, termination |
| `transfer` | 1 user, 3 commands and 2 files of 3 bytes, or 2 commands and 1 file, with 1 mishap (a header in pieces, a changed file, a copy that is not opened or written); or 2 users, 2 commands and 1, 1 file, no mishap; reads of 2, 3 descriptors | `StreamIsFile`, `CopyIsFile`, `NoLeftovers`, `StatIsTrue`, every command ends (`Answered`) |
| `transfer_missing` | 1 user, 1 command | violation: `ServerSurvives` (Report.md of A4) |
| `torrent` | 1 worker, 2 calls, 2 links or a text that is none, up to 2 pieces, 2 SIGINTs or errors; or 2 workers, 2 or 3 calls, at most 1 piece, no error | `FinishedIsSaved`, `TornByTwo`, a worker that is done leaves (`Leaves`) |
| `crc` | 9 blocks that span all blocks, one block with every two flips, two blocks with every flip, 2 pairs of messages, 1 read astray | `NoFalseAlarm`, `ReportsByDivision`, `OneFlipIsSeen` |
| `pipes` | 3 lines from child one, 1 from child four, pipes and buffer of 2 lines, 2 processes killed or not forked | `EndsAreHeld`, `ShownIsWritten`, each line is shown (`EachLineShown`) |
| `matrix` | the 3 programs for sizes 1 to 3, at most 4 threads at a time | `ProductComputed`, `main` returns or is aborted (`Ends`) |
| `shell` | 3 typed lines, 2 lives, 3 batch files, a stack of 3, 2 or 4 files that may be open, 4 and no history that can be written | `HistoryComplete`, `CrashHasCause`, each line ends (`LineEnds`) |

Why the bounds are enough. Four students are the smallest table at which two may eat at once and
a notified student can find a spoon still taken; two meals let a student come back while others
sleep. With a queue of two and three clients the ring wraps, is full, is empty, and a woken
worker can lose its element to one that came by itself. Depth 2 in the merge sort has threads
that both split and are joined, at several heights at once, and files shorter than, equal to
and longer than what the tree needs. The proofs below remove the bounds for the safety part of
all but `crc`. In the transfers a file of three bytes takes two reads of two, the last one short, at
every way the network can cut it; two files tell one transfer's bytes from the next one's; three
descriptors run out at the third connection or file. Two requests at once are what lets an old
answer overtake a finished download in `torrent`; two workers and one later call that reads are
all that a torn file takes. A pipe of two lines fills with the third, a full buffer lacks its NUL,
and two mishaps are the parent and one child killed, or two children. Sizes one to three are the
empty, the even and the odd quadrant, and nine cells are more than the four threads of
`multithread1` that fit; the matrices have no equal elements, so that a lost or doubled term shows. Three frames are
enough for a file in a file in a file, and one more overflows; two open files run out before the stack, four
do not; a history that can be written now and then in one life is only in the proof; three lines typed can give an
argument, use it again and go on; two lives show what a kill leaves in the history. The division of the CRC is linear, so that the zero block, the eight unit
blocks and every damage of one block say it all for one and two flips.

The three violations are disagreements between a document and the code, not of the properties
above: the report says the thread that waited most is scheduled next, but a student that is
notified while a spoon of his is still taken falls asleep again behind the others; and the
server's README says a request is added to the queue, but `push` silently drops it when the queue
is full, leaving the accepted socket open and unanswered. The report of A4 says that FILE checks
whether the file is there; the server calls `fclose` on the null pointer before it answers
NOTFOUND, and every user loses the process.

`OneFlipIsSeen` and `ReportsByDivision` state what the CRC is worth as coded: seven turns for
eight data bits leave the eighth undivided, and the client does not look at it, so a remainder
that ends up there is lost. The flip of the last data bit goes unnoticed, and so does that of the
second, because x^9 and x^3 have the same remainder by x^4 + x^3 + x + 1.

`AbortsIffTooSmall` records a fact that the program's documents do not mention: with n elements
and depth h the program dies in `merge` exactly when n < 2^(h-1).

Deadlock is checked in `dining`, `mergesort` and `matrix`, whose ends are explicit self-loops
(`Returned`, `Ended`). It is not in the others. In the pool runs, with finitely many clients the server rightly ends up
blocked in `accept`, or has exited; `QueuedIsServed` says what must have happened before. The users of
the file transfer may stop typing and `Answered` says that none is left waiting before; the
calls of `torrent()` are bounded and `Leaves` says how each ends; the CRC client waits for ever for a
server that sends no more. In `pipes` and `shell` nobody need type, and `EachLineShown` and `LineEnds` say
what must have happened of what was typed.

## 5. Fairness

Only that a runnable thread is eventually scheduled and that `sleep_for` returns: weak fairness of
each thread's steps. No order is assumed for mutexes or condition variables; that is enough
because each execution takes each mutex finitely often (meals, clients and mishaps are bounded).
`SpuriousWake`, `AcceptFails`, `HangUp` and `Connect` have no fairness. Neither has
`TorrentReturns`: a download may never end. `QueuedIsServed` therefore has the premise that no
worker stays in a download for ever, and a client that has connected is assumed to write its
magnet link (client.cpp does so at once) or to hang up.

In the file transfer each server thread and each client that waits for the network is scheduled, and
what was sent arrives; users need neither start nor type. `AcceptFails` stands for the many turns of
`main`'s loop that use up the threads: `main` does nothing else while the process stays without a
descriptor, so that weak fairness is what the loop gives, and `Answered` includes connections that are
never accepted. It excepts only those that are not sound. In `torrent` the worker runs and libtorrent answers: it
adds or refuses a torrent, posts the end of a download and answers each request to save;
`Download`, SIGINT and new calls have no fairness. `TornByTwo` and the CRC properties are safety.
In `pipes` the parent and each child run; a line need not come (`HasLine`), nor a kill. In `matrix`
`main` and each thread run, and no order is assumed for the lock, which each thread takes finitely
often. In `shell` only the shell itself is scheduled: the user need not type or press Enter, and a
program that was started need not end, which is why `LineEnds` lets a line end in waiting for either.

## 6. Proofs

The modules `DiningStudentsProofs`, `ConnectionPoolProofs`, `MergeSortProofs`, `TorrentWorkerProofs`,
`PipeChildrenProofs`, `ShellProofs`, `FileTransferProofs` and `MatrixThreadsProofs` are checked by TLAPS for every value of the constants that
satisfies the named assumptions: at least two students; a positive capacity and finitely many
workers; at least one thread for the sort and files that are sequences of bytes; special values that
are none of the ordinary ones (`NoMagnet`, `Nothing`); pipes and a buffer that hold something; command
lines with sequences of arguments; finitely many users and files, and headers, names, reads and
descriptors of a positive number; matrices of naturals (the programs fill them with `rand() % 50`) of
a positive size and a positive limit on the threads. Each inductive invariant below was checked by TLC on small
instances before it was proved.

Dining. `IInv` adds to the safety properties who holds the lock (`LockHeld`), who is in the wait set
(`SleepersAsleep`), how the local and the published counters follow the program point
(`CyclesFollow`), and that the spoons of a student who has put them down but still holds the
mutex are free (`StateFollows`). Without the last, `LogConsistent` is not inductive. `NoLostWakeup`
rests on `SpoonExclusion`: a student falls asleep because a spoon is taken, a taken spoon has a
holder, and the holder has yet to notify. `Implements` is the refinement of `DiningTable`.

Pool. First the ring: `PushFacts` and `PopFacts` say that `push` and `pop` are `Append` and `Tail` on
`Contents` and keep `WellFormed`. `PoolInv` adds the mutex holder and what each thread has in hand;
`Owned` adds to `OneOwner` that hands, queue and closed sockets are all opened ones. `SignalStep`
counts: a push is paid for by the signal due, the signal by the waiter it wakes, and a worker
that stops looking takes an element or has found none. `Implements` is the refinement of
`RequestQueue`.

torrent(). `TornOnlyByTwo` is `TornByTwo` for any number of workers, torrents, calls, errors and SIGINTs.
`TornByTwo` alone is not inductive: a write may tear what it finds unless that is the empty file
the worker has just opened. `TornInv` therefore adds `OneWrites` (where a worker is about to write, the file is
empty or two have written it at once; two that are about to write one file make it such), the
types, and that a worker saves for an alert it has in hand (`SavesAlert`). `Shapes` reduces the fifteen
steps of `torrent()` to three: quiet ones, those that open a file and those that write it; the
invariant is then kept by each shape.

The second theorem about `torrent()`, `SavesFinished`, is that what a finished download leaves behind is
complete (`FinishedIsSaved`). A call's two queues of alerts are what makes it hard: an answer to an
old request to save may arrive before or after the alert of the end. `SaveInv` is a predicate of one
worker and its session (`Good`): no save in a queue tells more than the torrent has (`Progress`);
in each queue every save behind the alert of the end tells all of it, and once that alert has
been handled every save does (`Ordered`, `Full`, in `Finishes`); a worker that leaves without being
stopped has such a save in hand (`Leaving`). As no other worker touches a worker's locals or its session,
each step concerns one pair.

Merge sort. `IInv` of `MergeSortProofs` has seven parts: the types but for `arr` and its copies;
where the threads of the tree can be, by height (`Places`); which children a thread at each point
has (`Family`: started, running or joined); the numbers handed out (`Numbers`); the segments (`Sizes`);
who holds what (`OneHolds`); how it ends (`Outcome`). `NoRace` follows from `OneHolds`: each element is
held by one thread, a parent's segment passing to its children when they are created and coming
back when they are joined. `HandlesKept` follows from `Numbers`: `threadCount` is one more than twice the
number of threads that have counted themselves (`Counted`), and a tree has less than `t / 2` that do,
so that the numbers stay below the `t - 1` slots of `th`. `AbortsIffTooSmall` follows from `Sizes`: in a
file that is large enough a thread that splits at height g has at least `2^(h - 1 - g)` elements, and a
thread that has merged had. The arithmetic of powers of two is proved without a theorem of
induction: a power is the number of subsets of a set, or the claim is refuted at its least
counterexample (`LeastNatural`).

`Sorted` needs three things more. First, that `merge` and `mergeSort` do what they should, for sequences
of any length: `MergeWorks` and `SortWorks`. A function that TLA+ defines recursively is one that satisfies
its equation if there is one, so existence comes first (`RecursionExists`: right below each size,
hence right everywhere), and `MergeDefined` and `SortDefined` apply it, for each call is for fewer
elements. That the results are in order and have each byte as often is again refuted at the least
number of elements, which is why no theorem of induction is needed. Second, `Data`: what each thread
has in order at each point - a child that is done its segment, a parent its left half once it has
joined one child, both once it has joined two, and in its copies what is in `arr`. `OneHolds` keeps it: a
write concerns elements that no other thread holds. Third, `Permuted`: `arr` has each byte as often as
the file, as every write puts back a rearrangement of the segment it replaces. Both hold only in a
file that is large enough; in a smaller one a merge may read outside `arr`, but the
program then does not end with a result. For `TypeOK`, which is about every file, `Bounds` follows the
segments of a tree that is too deep: an empty one is off by one more at each level (`Inside`).

Pipes. `Held` says who has which end: a child the write ends of its own pipe and of those forked
after it, and all other read ends. `EndsAreHeld` then needs that between `select` and the read nobody
else takes what made the pipe readable (`Selected`), and that the dead stay dead (`Ages`). `Lines`
splits what a child has written into what is shown and what is in the pipe; `Prints` is the buffer
(cleared, filled, printed to its first NUL), `Longer` how what is shown grows.

Shell. `HistoryInv` orders the numbers in the file against that of the line read last, and counts the
lines that were recorded, or lost because they could not be, and not executed (`Pending`): one more only
when a life is cut off, which the next start pays for. `NothingIsLost` is about `ListsExecuted`: it
holds where the history can be written and the stack overflows before the files run out (`Enough`,
a premise that the usual limits do not meet); the proof needs of `CrashInv` that the stack
does not exceed `MaxDepth`. `CrashInv` says of each frame that its remaining lines are a suffix of its
file (`Left`), that the last line done calls the next frame (`Calls`), and that while `userArgs[0]` was never
filled no line has had an argument (`Bare`), which is why nothing but the file it was started with
can be executing.

File transfer. Types first, and they are more than types: `TypeInv` adds that on its way to a server
each FILE is followed by a name, that a server about to read a name finds one first, and that a
client who owes one is about to send it or has left (`Asked`); without this a server could take a
command for a name. `StreamIsFile` is not inductive: whether the stream holds the file depends on how client and server
got there. `SoundInv` says of each connection that is `sound` and whose client has not left where the two
stand to each other (`Connected`), in five situations: the client is `AtPrompt` or `Asks` with all
streams empty but for the request; it `Misses` the file; it `Gets` it, and what it has, what is on its
way and what the server is still to send (`Due`) are together the file; it `Hears` the statistics,
likewise. `Cut` is a client that has come to the end of what a server process that has ended had sent: what it has
is a beginning of the file. `Measured` ties the size the server measured to the file on the disk. A read that
falls short is then a matter of splitting a sequence (`ReadFirst`, `Joined`, `FirstPiece`), once for each
situation; every step concerns one connection, and the others are kept because no file they
read changes unless they stop being `sound`. `StreamIsFile`, `NoLeftovers` and `StatIsTrue` follow from
`SoundInv` without another induction. `CopyIsFile` takes a small one, `CopyInv`: while every open and write did
its work, `copy` is what was received.

Matrix. `ProductComputed` speaks of the end only. The invariant is about each cell at each moment (`Adding`):
`C[i,j]` is the sum of the terms that were given to some thread and that no thread has left (`Done`), and a thread
between its `ReadCell` and its `WriteCell` holds the value that is in the cell (`Reading`). The second needs that no
two threads are given additions to one cell, or that they lock: `NoneForTwo`. That nothing is missing at the
end is `EachForOne`, which finds the thread that is given each addition (the number of the cell modulo the
threads for `multithread1`, a quadrant for the others), and `NothingOfOne` is the exception. A sum over a set is a
recursive function in the community modules; that it exists, and that the order of adding does not
matter, is refuted at a least counterexample (`SumsFurther`, `SumAddsUp`), not by a theorem of induction.
`FirstIsLeft` shows that the order of the loops never runs dry while an addition is left.

Only model-checked: liveness (`AllJoined`, `QueuedIsServed`, `Ends`, `Answered`, `Leaves`, `EachLineShown`,
`LineEnds` and the termination of the sort), which needs fairness and ENABLED; and everything about
`CrcLink`, whose properties compare folds over the bits of a message with polynomial division.

## 7. Not modelled

Printing, log layout, durations; the `assert`s around failing pthread calls; socket setup errors
before the pool starts; a `SIGPIPE` at the single `send` (it would need the connection to be reset
between two of the server's own calls on it); signals to the server before its first download.
In the file transfer the sizes of the buffers (names and texts that do not fit), directories, and that the
rest of a split name may happen to be stale bytes that read as a command; in the CRC pair messages beyond `MAXLEN`, the NUL that `sprintf` writes past
`polynomial`, and `accept` being given the address of a pointer; in `torrent()` the progress it prints and
its missing return value, which the only caller ignores; a process that ends
between the truncation of a file and its write, and a read that sees part of a write (`TornByTwo` is about the
writes of workers that go on).

In the pipes program the substitution table of `encrypt` and the arithmetic of the load, which depend
on one line alone; what children two and three do to `espeak` and to their files; the subprocess
that `system` starts and that may outlive child two, with the ends it inherits. In the matrices
sizes below one and overflow; `multiply` has no return statement, which the builds of the Makefiles
(without optimisation) survive. In the shell a history line that a full disk takes in part; what a started program reads of the shell's own
input; the position in it that a failed `execvp`'s exit may set back; two shells that share a
history; batch files named by paths; `chdir` failing is modelled, what `dir` lists is not.

`peersync.cpp` is not modelled: one process and one user, no state it shares; it appends what is typed to
`.config` until the line `done` and then hashes and seeds inside libtorrent for ever. Its only loop
of interest does not look at the state of `cin`: when the input ends before `done` it appends
empty lines without end. `try.cpp` and `torrent.py` demonstrate libtorrent; `generate.cpp`,
`read_test.cpp` and `run.py` prepare, show and plot data, with no behaviour of their own to check.
