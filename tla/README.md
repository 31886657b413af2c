# Verification of the parallel-programming examples

The repository is a collection of small C and C++ programs about sockets,
event loops, processes, pipes, threads, queues and allocators.  There is no
common library and no test; what documentation there is are comments (most of
them in Russian) in the programs.  Each program is a component of its own, and
the interactions worth verifying are inside a program (threads, processes,
handlers, system calls) or between a program and its clients.

This directory holds TLA+ models of the programs, TLC configurations that check
them, and TLAPS proofs.  Everything is modelled from the code; kernels, clients,
executed programs and libraries (boost::asio, libevent, OpenMP and MPI
runtimes) are external and modelled from the calls the code makes.  No module
declares a RECURSIVE operator.

    tlc -config poll.cfg PollServer      # one of the runs below
    tlapm PollServerProofs.tla           # one of the proof modules

## 1. Inventory

Modelled components:

| Component | State | Operations | Hard behaviours |
|---|---|---|---|
| poll echo server (`burkley sockets, multiplex/multiplex/poll_server.cpp`) | set of connected sockets, pollfd array, one static buffer, `errno` | poll, accept, recv, send, close | events go stale while earlier slots are handled; `errno` is tested though `recv()` = 0 does not set it; -1 becomes a length; ignored results of `send()` and `accept()` |
| epoll echo server (`.../epoll_server.cpp`) | interest set, `events[]`, buffer, `errno` | the same with epoll | the same; more events than fit in one call; an interrupted `epoll_wait()` (N = -1 compared as unsigned) |
| select echo server (`.../server.cpp`) | `std::set` of sockets, fd_set, buffer, `errno` | the same with select | the iterator is incremented after its element was erased; `FD_SET(-1)` after a failed `accept()` |
| boost asio echo server (`async work with network/boost_asio/echo.cpp`) | session objects, pending operations, queued handlers | accept, read and write handlers | self-deleting sessions; memory used again; backpressure; descriptors that run out |
| libevent echo server (`.../libevent_example/echo.cpp`) | listener, bufferevents and their output buffers, the socket's name in the file system | accept, read, event and error callbacks, start, end | output dropped with its connection; SIGPIPE; a restart meets its own socket file |
| one-at-a-time server and client (`.../server-client/server.c`, `client.c`) | the connection being served, streams | accept, recv, send, close on both sides | one `recv()` on each side of a size the other never sends; the stream comes in parts; unread bytes reset a connection; a client that types nothing |
| pipeline of commands (`process, channel, signal/pipes !!!/task2.cpp`) | loop position, children, pipes | split and parse the line, fork, exec, wait | the parent waits before the reader is started; fork or exec fails; empty commands |
| FIFO relay (`.../pipes !!!/task1.cpp`) | two FIFOs, the buffer and its length | open, read, write, close of parent and child | everything is O_NONBLOCK and unchecked; the buffer keeps old words; -1 as a length; SIGPIPE; two names for one FIFO |
| process creation (`.../process_creation/test.cpp`, `test2.cpp`) | pid file, ignored signals; parent and child | save pid, ignore, wait | a signal between two lines; a child killed before it is waited for |
| System V message queue (`mqueue, semaphore, shared memory/message queue!!!/task1.cpp`) | the queue, the parent's buffer | msgsnd, msgrcv, save, remove | sizes that do not fit each other; an uninitialised buffer decides the loop |
| POSIX message queue (`.../task2.cpp`) | the queue, the file | open, receive with retry, save, unlink | empty messages, a queue that cannot be used, messages that were there before |
| System V semaphores (`.../semaphore/task1.cpp`) | the set of a key, each run's id | semget, remove, semget, semop | two runs at once on one key, a run killed between two calls; no result is checked: a set of another user, too small or closed to this one |
| unlocked counter (`threads, syncromization/posix threads/task1.c`) | the shared int, each thread's copy | create, read, write, join | lost updates |
| locks (`threads, syncromization/mutex/task1.cpp`) | a mutex, a spin lock, two read-write locks, eight threads | create, lock, join | a shared read lock, the wrong helper, a join of a thread that never ends |
| OpenMP regions (`parallel programming/open MP/example.cpp`) | shared and private variables, iterations, output | work, barrier, single, master, ordered, critical, atomic | every interleaving of every team size; an int that wraps |
| MPI ranks (`parallel programming/MPI/example.c`) | messages, ranks | MPI_Send, MPI_Recv | a send to itself that nobody receives |
| small allocator (`containers, pointer, allocators/allocator/main.cpp`) | the array, `pos`, the program's blocks | Alloc, ReAlloc, Free | unsigned sums that wrap; ReAlloc copies as many bytes as the NEW size, over overlapping cells |
| derivative (`.../derivative/main.cpp`) | the text, the position, the sums | one term per iteration | a '+' belongs to the number before it or to the term behind it; 0 is taken for "absent" |

All components are modelled in full but the derivative, whose printing is left
out, and the allocator after a sum that wrapped around, where only `Alloc()`
goes on.  What is not modelled, the libev server among it, is in section 9.

How components interact: the programs do not call each other.  The socket
servers share the world of `Sockets` (a kernel with descriptors and byte
streams, and clients that connect, send, read, end and reset at any time);
server.c is composed with client.c; `Pipeline` starts the commands that
`CommandLine` computes (its constant N is the number of commands; that N > 0 is
proved of CommandLine, as `LineTypeCorrect`).

What makes each correct:

- an echo server returns to each client that client's own bytes, in order, none
  twice; it watches exactly its open sockets; it acts on no stale event; it
  disconnects clients that ended and no others; it accepts waiting ones;
- the asio and libevent servers besides lose nothing while a connection
  stands; the asio server forgets no session, calls no deleted one, and always
  waits for the next client;
- every client.c comes to its end;
- the pipeline gives every command its neighbour's output, whatever fails, and
  comes to its end if the output fits;
- relay and queues pass on only what was put in, in order; a killed child is
  collected; a run of the semaphore program that is alone leaves the values its
  comment promises, unless another user's set or a refused one is in the way;
- the counter ends within 2 and the number of increments; a parallel region
  computes what the sequential loop would; allocated blocks share no byte and
  keep their contents; the derivative is the derivative.

## 2. Modules

| Module | Of | Extends / instantiates |
|---|---|---|
| `Sockets` | kernel and clients under the echo servers | |
| `EchoService` | abstract: an echo server that may drop the end of a piece | |
| `ExactEcho` | abstract: an echo server that loses nothing | |
| `PollServer` | poll_server.cpp | EXTENDS Sockets, INSTANCE EchoService |
| `EpollServer` | epoll_server.cpp | EXTENDS Sockets, INSTANCE EchoService |
| `SelectServer` | server.cpp | EXTENDS Sockets |
| `AsioEcho` | boost_asio/echo.cpp | INSTANCE Sockets, ExactEcho |
| `LibeventEcho` | libevent_example/echo.cpp | EXTENDS Sockets |
| `ServerClient` | server.c with client.c | |
| `CommandLine`, `Pipeline` | pipes !!!/task2.cpp: `split`, `parse`, `to_c_str`; `main` | |
| `FifoRelay` | pipes !!!/task1.cpp | |
| `Zombies`, `Signals` | process_creation/test2.cpp, test.cpp | |
| `MsgQueue`, `PosixMq` | message queue!!!/task1.cpp, task2.cpp | |
| `Semaphores` | semaphore/task1.cpp | |
| `Counter`, `Locks` | posix threads/task1.c, mutex/task1.cpp | |
| `OpenMP`, `MpiExample` | open MP/example.cpp, MPI/example.c | |
| `SmallAllocator`, `Derivative` | allocator/main.cpp, derivative/main.cpp | |
| `MCAsioEcho` | symmetry of clients and addresses | EXTENDS AsioEcho |
| `MCEventLoops` | libevent and asio servers, one at a time | INSTANCEs of the two |
| `MCProcesses` | the eight programs of processes, one at a time | EXTENDS Pipeline, INSTANCEs |
| `MCComputations` | the six programs that compute, one at a time | EXTENDS Counter, SmallAllocator, INSTANCEs |
| `SocketsProofs`, `PollServerProofs`, `EpollServerProofs`, `SelectServerProofs`, `AsioEchoProofs` | proofs about the modules of these names | EXTEND them |
| `EventLoopsProofs`, `ProcessesProofs`, `ComputationsProofs` | proofs about LibeventEcho; Pipeline, CommandLine, Semaphores, FifoRelay and MsgQueue; Counter, SmallAllocator, OpenMP and Derivative | EXTEND the MC module of their programs |

PROJECT.json ("map") gives the source lines of every definition.  A definition
commented as a mutant is a plausible bug used to see that a property can fail;
no specification uses it.

The last three MC modules check programs that have nothing to do with each
other in one run.  A variable `program`, chosen by the first state and never
changed, says which of them runs; the variables of the others keep their initial
values, so the reachable states are those of each program by itself, side by
side.  A property of one program holds trivially in the states of the others,
and the fairness of each is stated for the case that it runs.

### Sockets

A byte is `<<c, k>>`, the k-th byte client c sends, so a byte's origin is known
wherever it turns up.  `fdt` is the descriptor table, `backlog` the accept queue
(a set: the order of accepts is not used), `peer` what the server's kernel knows
of the client: none, up, fin (stream ended), rst (reset, error pending), gone
(error reported), closed (by the server).

- `accept()` returns the lowest free descriptor or -1.  The code passes the
  result to `set_nonblock()`; on -1 its `fcntl()` calls fail with EBADF, so
  `errno` is not EAGAIN afterwards whatever `accept()` left there.
- `errno` is EAGAIN or other: the code tests nothing else.
- `recv()` returns all that has arrived up to the buffer; 0 at the end of the
  stream, which leaves `errno` as it was; -1 with EAGAIN or another error.
- `send()` takes what fits, reports the rest in a result the code ignores, and
  gets an int as a size_t: -1 is larger than anything that fits (`AsSize`), and
  what would be read beyond the received data is `Junk`.
- a connection reset in the accept queue may stay there or be dropped
  (`AbortQueued`).
- The static buffer keeps the rest of an earlier, longer piece.

### PollServer, EpollServer, SelectServer

One step is one wait call or the handling of one reported event, cut between
`recv()` and `send()`; clients act between any two steps.  All three have
`AcceptSlave`, `Disconnect` (0 received, errno not EAGAIN), `KeepEnded` (0
received, errno still EAGAIN: neither branch is taken; `Ignore` in the epoll
server), `Receive` and `SendBack`.

- PollServer: slot 0 is the listening socket, the slots after it the set in
  ascending order; -1 may be in the set and `poll()` ignores its slot.  The
  array has 2048 slots, more than the usual limit of descriptors.
- EpollServer: the kernel reports ready sockets in turn (`served`), at most
  MaxEvents.  `Interrupted` is EINTR with nothing ready (poll() and select() are
  restarted after a stop and continue, epoll_wait() is not): N = -1 is compared
  with an unsigned index, so the loop handles arbitrary descriptors (`overrun`)
  until it faults.
- SelectServer: after `erase(iter)` the incremented iterator is any element,
  the end, or a crash (undefined behaviour, all outcomes).  `FD_SET(-1)` sets
  the bit of `Alias`; when that descriptor is closed select() fails with EBADF
  and every bit stays set.  `max_element()` of the empty set reads 0 with
  libstdc++.  `wild` records that one of these two has happened.  The scan that
  goes on after an erase can come to a socket with nothing to receive, which is
  answered with (size_t)-1 bytes; that is in the model, no run asks about it.
  Clients in `Quiet` connect and do nothing else (a bound).

### AsioEcho

A session is named by its address.  `ops[s]` are its pending operations,
`ready` the queue of handlers of completed operations, first in first out.
`AcceptDone`, `AcceptFails`, `ReadDone`, `ReadFails`, `WriteSome` and
`WriteFails` are the library; `HandleAccept` (with the `start_accept()` at its
end), `HandleRead` and `HandleWrite` are the code.  `delete this` closes the
socket and would cancel what is pending.  There is one address more than there
are descriptors: the connected sessions and the one that waits, which is exactly
what the code ever has at once.  A deleted address may be used again at once.

### LibeventEcho

`Listen`, `AcceptConn`, `AcceptNone` and `AcceptError` are the
listener; `ReadCb` moves what was read to the output buffer, `Flush` is
libevent's write, `EventCb` frees the bufferevent with the output it still has.
`BrokenPipe` is SIGPIPE, `Kill` the terminal; `Start` fails when the name of the
UNIX socket exists, which it does from the first start on.

### Processes

- ServerClient: `AskFor`, `Text` and `Answer` are the sizes of server.c and
  client.c in small; a byte sent `Arrive`s later; a close with unread bytes
  resets the connection.  Clients of `Telnet` are typed by hand and owe nothing.
- CommandLine translates the three functions with folds over a line that grows a
  character at a time, so a run sees every line up to its bound.  Letters, spaces
  and bars are the classes of characters the code tells apart.
- Pipeline numbers commands from 1; the loop goes from N to 1.  `prevIN` names
  the pipe by its writer.  `ForkFails` is the branch the code takes for -1.
  Executed programs read and write what they like a byte at a time.  Descriptors
  that children inherit are left out except where they decide something: a pipe
  always has a reader, since the parent keeps `fd[0]` open, so no writer is
  ended by SIGPIPE and a full pipe blocks.  `pipe()`, `open()` and `dup2()` succeed.
- FifoRelay: `atHome` says whether the absolute and the relative name of in.fifo
  are one file.  A word is its number, a write takes all or nothing (PIPE_BUF), a
  FIFO that nobody has open loses its contents.  The length -1 as a size_t makes
  `write()` fail, after `read()` failed.
- Zombies, Signals: one action per line that matters; `Kill...` and `Signalled`
  at any time.  PosixMq, MsgQueue: the loop iteration by iteration, with other
  senders and with messages that were in the queue before the program.
- Semaphores: runs of the program by two users, each of which may be killed
  between two calls; all 16 values change in one `semop()`, so `sum` counts these.
  The set that the first run finds is of any owner; it may refuse a user
  (`refuses`: too few semaphores, or no access), be full up to its limit (`sum`,
  `MaxSum`), or make `semop()` wait for its semaphore 0 (`waits`).  `semget()`
  returns -1 for a set that refuses, or when there is no room for a new one;
  `semctl(IPC_RMID)` does nothing with -1 or with another user's set; `semop()`
  fails without a set or with a full one.  The program goes on after each of
  them.  In MCProcesses `SetFound` takes one first state of those that no call can
  tell apart, and `InOrder` starts the runs of one user in the order of their
  numbers.

### Computations

- Counter: `Read` and `Write` are lines 24 and 26; the calls around them keep
  the compiler from merging rounds, and an aligned int is read and written in one
  access, so interleaving these is what the data race can do in a build.
- Locks: `LockOf` is the lock a thread takes; only the two readers' is shared.
- OpenMP: the regions with a construct, one after the other, for teams of 1 up
  to what is asked for; static chunks as libgomp cuts them; sums are `% Word`.
- MpiExample: `buffered`, chosen by the first state, says which of the two
  behaviours the standard allows MPI_Send() has.
- SmallAllocator: the program is any program over the three calls.  A request
  whose sum wraps (`Wraps`) gets a block that leaves the array, moves `pos` back
  and sets `wrapped`.  From then on the program only calls `Alloc()`, which may
  cut blocks from memory that is in use; writes and copies, which may leave the
  array, are not modelled.  ReAlloc's upward loop over cells it may itself have written is
  `Copied`.
- Derivative: a polynomial is a sequence of terms of its syntax, `Text` its
  characters with numbers as single tokens.

## 3. Runs

| Run | Question | Bounds | States |
|---|---|---|---|
| `poll` | the poll server, safety and liveness | 2 clients, 2 descriptors, 2 bytes each, buffer 2, kernel buffer 1 | 59,331 |
| `epoll` | the epoll server, through an interrupted wait to the crash | the same, 1 event per call, 1 signal | 272,536 |
| `epoll_signal` (violation) | an endless wait never returns without an event | 1 byte each | |
| `select` | what survives the erased iterator and FD_SET(-1), and who is served | 3 clients of which 1 quiet, 2 descriptors, 2 bytes each, buffer 1 | 345,408 |
| `select_errno` (violation) | an ended stream is not taken for an interrupted call | 2 clients | |
| `asio` | sessions, and the lossless echo service | 3 clients, 2 descriptors, 2 bytes each in pieces of 2, kernel buffer 1 | 854,350 |
| `eventloops` | libevent and asio: what is kept, who is served in the end | 2 clients, 2 descriptors (1 for asio), 2 bytes each, 2 starts of the libevent program | 53,736 |
| `processes` | pipeline, parsing, server and client, relay, both queues, semaphores, child | 3 commands and a pipe of 2; lines of 8 characters; a client.c and a telnet; 3 words, a buffer of 2, 2 visits of the reader; 3 messages; 3 runs of 2 users, a semaphore that is full after 2 | 357,411 |
| `relay` (violation) | everything that was read is written | 2 words | |
| `signals` (violation) | a process whose pid is known cannot be ended | none | |
| `computations` | counter, allocator, OpenMP, derivative, locks, MPI | the code's 10 rounds; 5 bytes, numbers below 8, 3 blocks; teams of up to 4; 3 terms; 8 threads; 4 ranks | 103,535 |
| `locks` (violation) | somebody waits for the read-write locks | 8 threads | |

Why the bounds are enough.  Two clients make one overwrite the buffer of the
other, take its descriptor number, and compete for events; a piece of 2 with
room for 1 gives the short send, the full buffer and EAGAIN; two pieces of
different length leave old bytes at the end of the buffer.  The third client of
`select` and `asio` finds all descriptors taken; it need do no more, so it is
quiet in `select`.  One signal is enough since the server does not survive it.

For the pipeline three commands are a first, a last and a middle one, and 3 bytes
do not fit in the pipe; eight characters hold every combination of two words,
bars and double spaces.  A client.c and a telnet are one who ends and one who
holds the others up; the server asks for more bytes than a client sends.  Three
words are more than a buffer and than a FIFO holds.  Three messages are an empty
one, the first with a byte and one that must not overtake; of three runs on one key
one is alone before or after two that overlap, and one is another user's.  The allocator's 3 blocks are an
old one, its copy and a neighbour, and numbers below 8 wrap in a few calls.
Three terms let a '+' be taken from the term before or after.  Locks, MPI's four
ranks and the counter's rounds are those of the code or any of its runs; 6 and 5
iterations cut by teams of 1 to 4 give even, uneven and empty chunks.  What is
proved does not depend on these bounds.

CHECK_DEADLOCK is FALSE where a program rightly stops: the servers wait for
clients that have used up their bounded bytes, the computations and processes
end or may block (that they do so only as described is `PipelineEnds`,
`EveryClientEnds`, `EndsWithThreeWaiting` and `EverybodyOrNobody`).

Every property of a passing run has a mutant in PROJECT.json: a small change to
the code's definition under which TLC finds the property violated.

## 4. Properties

Servers:

- `EchoServiceSpec`: poll and epoll implement the abstract echo service: no byte
  of another client, none twice or out of order, nothing of the memory behind the
  data, although one buffer is shared and -1 is passed as a length.  `taken` is
  what was received less the piece in hand.
- `WatchedIsOpen`: the sockets waited for are the open ones.  `EventsStayTrue`: a
  reported event still holds when its turn comes, and its descriptor still means
  the same client.
- `ErrorSendIsVain`: the length (size_t)-1 only meets a connection that is gone.
- `HealthyStayConnected`: no step disconnects a client that is still there, even
  in the overrun and after the erased iterator.
- `SoundUnlessWild`: the select server loses the order of echoes, and handles
  a descriptor that is not readable, only after the two undefined behaviours.
- `EveryoneIsServed` (liveness): ended clients are closed and waiting ones
  accepted, with the exceptions the code has: an `errno` that stays EAGAIN for
  ever, a crash, no descriptor left.  For asio also: what is sent comes back.  What
  happens while `errno` stays EAGAIN is shown by `EndIsNoInterruption`, which is
  violated.
- `OneOperation`, `SessionsAreConnections`: every session waits for exactly one
  operation or handler; one of them waits for the next client; the others are
  exactly the open connections.
- `ExactEchoSpec`: the asio server loses nothing (refinement).
- `OutputIsTheRest` (libevent): what has been echoed and what is still held are
  together all that was received, as long as the connection stands.
- `ComesBack` (libevent): what was received is sent in the end.  `ServesOnce`: a
  libevent program that ended never starts again on its socket's name.

Processes:

- `InputIsNeighbour`, `FullForEver`, `PipelineEnds`: the wiring of the pipeline,
  and that a full pipe is the one thing that blocks it, for ever.
- `CommandsAreTheLine`, `NullNameIsGap`: parsing loses and moves nothing, and
  `execvp()` gets a null name exactly for the gaps between bars.
- `EveryClientEnds`: nobody waits for ever between two single `recv()` calls,
  except behind somebody who has connected and types nothing.
- `OnlyTypedComesOut`: the relay passes words on in order, none twice.
- `FirstIsWritten`: the POSIX receiver saves the first message with a byte.
- `NothingPassesTheChild`: the System V child's message is too long to be
  received and stops all behind it.
- `AloneIsRight`: a run of the semaphore program that no other overlapped leaves
  each semaphore of a set of its own user with its number, whatever was found and
  whatever killed runs left behind.  It ends with a set of another user, to whose
  values it may have added, only if that set was in the way, and with none only if
  the set refuses it or there was no room for one.
- `NoZombie`: a killed child is collected, whenever and with whomever it died.

Computations:

- `FinalRange`: 2 to 2 * Rounds.
- `EndsWithThreeWaiting`: for good and in every interleaving one thread waits at
  the mutex, two at the spin lock, and none at a read-write lock.
- `ResultsAreSequential`, `OutputInOrder`: what the OpenMP constructs promise.
- `EverybodyOrNobody`: with buffered sends every rank gets the string, without
  rank 0 waits for itself for ever.
- `BlocksDisjoint`: a block whose request did not wrap around lies in the array,
  and two blocks share a byte only if the first of them, or one cut between the
  two, did.  `ContentsKept`: until a request wraps around, a block keeps what was
  written into it.
- `DerivativeIsRight`: equal to the derivative by its definition, but for the
  two ways the code misreads a text (`Misread`).

## 5. Fairness

- The poll, epoll and select servers are one thread that the system schedules:
  weak fairness of the whole server, nothing of the clients.  Which event is
  handled next is in the model (ascending order, the kernel's turn).  The overrun
  of the epoll server ends (strong fairness of `Fault`) because the memory behind
  `events[]` ends.
- io_service::run() takes handlers in order and gives the reactor its turn in
  the same queue: weak fairness of the handlers, and of each session's
  completions.  libevent: of the
  listener, and of each connection's callbacks, since its loop takes all
  connections that are ready in one turn.
- Processes run: weak fairness of each process that the program consists of
  (the pipeline's parent and children, server.c, each client.c, the queue's
  receiver, the parent and the adopter of test2.cpp) and of the network.  Not of
  killing, of typing, of senders, or of what an executed program reads.
- Locks, MPI: threads and ranks run until they block; a free lock is given to
  somebody who waits: weak fairness of Next.

## 6. Disagreements with the comments

- epoll_server.cpp:48 calls the wait endless; an interrupted call returns -1 and
  the loop runs out of `events[]` (`epoll_signal`).
- server.cpp:58 says that the test of errno tells an interrupted call; recv() = 0
  does not set errno, and after one EAGAIN an ended client is never closed
  (`select_errno`).  The poll server has the same test without the comment.
- pipes !!!/task1.cpp:6 wants everything that was read from in.fifo written to
  out.fifo; while nobody reads out.fifo it is thrown away (`relay`).
- process_creation/test.cpp:20 wants a process that withstands SIGTERM and
  SIGINT; its pid is known two lines before the first is ignored (`signals`).
- mutex/task1.cpp:11 wants two threads waiting for a read-write lock; there is
  never one (`locks`).

The lost update, the full pipe, the dropped rest of a piece, the message nobody
can receive and the send to oneself contradict no comment; they are in the
models as the code has them.

## 7. Proofs

All proofs hold for every value of the constants under the named assumptions of
the modules (`SocketsAssumption`, `EpollAssumption`, `AsioAssumption`,
`PipelineAssumption`, `CounterAssumption`, `AllocatorAssumption`).  Modules
without an assumption have the types of their bounds as a hypothesis of the
theorem: `MaxStarts`, `BufWords`, `MaxOthers`, `MaxLine`, `Turns`, `MaxTeam` and
`Sums` are natural numbers, `MaxSum` is a positive one, `Numbers` and `Powers` are sets of them, `Run` is
finite.  Each module that is proved about ends with its inductive invariant,
`IInv`, which TLC checked on the instance of its run before it was proved; those
of CommandLine and Derivative, which speak of sequences that exist, stand beside
their proofs.

The last three proof modules extend an MC module, where several programs live
side by side.  `INSTANCE` makes a copy of every definition (`Ev!Room` is not
`Room` to the provers), so EventLoopsProofs starts
with a lemma (`EventSockets`) that the copied definitions of Sockets
are those of Sockets, and can then cite SocketsProofs.

SocketsProofs has the lemmas about recv, send, accept and the clients that both
server proofs use; `AppendInOrder` is the heart of both: bytes of the piece in
hand behind bytes that precede it are in order.

PollServerProofs: `Invariance` (Spec => []IInv), and from it `TypeCorrect`,
`WatchedCorrect`, `EventsCorrect`, `ErrorSendCorrect`, `EchoCorrect` and
`Refinement` (the server implements EchoService).  None of the properties is
inductive alone.  `IInv` adds: different open descriptors are different clients,
none of them queued or closed (so a close leaves other events true); the piece
in hand starts the buffer and is the last received (so what is sent are the
bytes after those already echoed); what was echoed precedes the piece in hand.
Events stay true because only the slot being handled is received from or closed,
and clients can only make a socket more readable.  Refinement: `SendBack` is
`Answer(c, n, m)` with m the bytes taken, every other step a stutter.

EpollServerProofs: `Invariance`, `TypeCorrect`, `InterestCorrect`,
`EventsCorrect`, `HealthyCorrect` and `Refinement`.  The invariant is of the same
kind, with the interest set for the polled set, and every step of the overrun
preserves it too: there the descriptor is arbitrary and no event is promised,
but what is received from it, answered and closed is decided by its own state.
So the order of echoes and the healthy clients survive the overrun, for every
number of clients, descriptors and signals.

AsioEchoProofs: `Invariance`, `TypeCorrect`, `OperationCorrect`,
`ConnectionsCorrect` and `Refinement` (the server implements ExactEcho).  The
order of the queue matters to none of them, so `AppendQueue` and `TailQueue`
replace it by the set of its handlers.  `IInv` has three parts besides the types.
`Alone`: a session that lives waits for one operation or one handler, a dead one
for nothing, and one session for a client; hence a session that is deleted has
nothing to cancel (`NothingCancelled`).  `Linked`: sessions and connections
correspond, and only a session that waits for a client, or whose accept failed,
has none.  `OwedOK`: a session that reads owes nothing; one that writes, or whose
read is done, has what it owes in its buffer, as the next bytes of its client's
stream; no other session touches that buffer or stream (`OwedByOthers`).
Refinement: a read is `Take`, a part of async_write `Return`, the end of a
connection `End`, every other step a stutter.

SelectServerProofs: `Invariance`, `TypeCorrect`, `WatchedCorrect`,
`HealthyCorrect` (an action property) and `SoundCorrect`.  The invariant is in two
layers.  Descriptors, connections and the two undefined places are described
whatever has happened; hence healthy clients stay connected even after the erased
iterator was incremented or -1 was watched.  Streams and bits are described as
long as `wild` is FALSE: then every bit still set belongs to an open, readable
socket, since only the socket being handled is received from.

EventLoopsProofs, LibeventEcho: `EventInvariance`, `OutputCorrect` and
`RestartFails` (an action property).  The proof reads `OutputIsTheRest` byte by
byte (`EventRest`): what was echoed are the client's first bytes, what is in the
output buffer are the next (`From`).  Appending what was received and cutting off
what was written are then two lemmas about pieces (`FromLonger`, `FromPart`).
That a connection has only one descriptor keeps the others untouched.  The
property needs the fact, which it does not say, that who waits in the queue has
connected; without it the invariant is not inductive.  `RestartFails` needs only
that the name exists from the first start on (`NameStays`).

ProcessesProofs, Pipeline: `Invariance`, `RightToLeftCorrect`, `InputCorrect`,
`FullCorrect`.  The invariant ties everything to the parent's position: commands below i have not
been started, those above i are not alive, and prevIN is the pipe of i + 1.  The
one command that is alive is then i, and nobody can read its pipe; that is why a
full one stays full.

ComputationsProofs, Counter: `CounterInvariance`, `FinalCorrect`,
`CounterTypeCorrect`.  Upper bound: no value
exceeds the writes so far.  Lower bound: once a thread has written, no value it
reads is 0; the last write of all is some thread's last, which follows a write
of the same thread.

ComputationsProofs, SmallAllocator: `AllocatorInvariance`, `DisjointCorrect`,
`ContentsCorrect`, for every size of the array and of an unsigned int.  `BlocksDisjoint` is not
inductive: `Layout` adds that blocks lie below `pos` in the order of the calls
that made them, back to the last one that wrapped around.  While none has, all
blocks are `Stacked` below `pos` (`WhileUnwrapped`), which is what the steps that
copy and write start from.  For `ContentsKept` the copy has to be read cell by cell: the
loop goes upwards from an old block that lies below the new one, so a cell of
the old block is read before it could be overwritten, and cells beyond the old
block are beyond its contents.

ComputationsProofs, OpenMP: `OpenMPInvariance`, `OutputCorrect`, for every size
of a team and every number of iterations.  Each region has its part of the
invariant.  Barrier: while anybody is before it nothing of behind it has been
printed.  Ordered: the threads' chunks are consecutive (`Chunks`), so the lines
printed are those of the turns so far.  Single and critical: what has been
printed is counted by the threads that are past the place (`Counted`).  The
number of threads at a place changes by one when one moves (`Moved`).  That the
turn in an ordered region always belongs to somebody (`SomebodysTurn`) needs an
induction over threads: the library's induction takes an operator as a
parameter, but the least number of a set exists (`LeastNumber`, from the well-
founded order of the naturals), and that is enough.

`SumInvariance`, `ResultsCorrect`: for every word size, too.  The copy of a thread
is the sum of the numbers of its chunk below its next iteration, modulo the word,
and `total` that of the chunks of the threads that are done; the region asks for
four threads, so the invariant writes out four terms, and at the end they
telescope (`NextRegionSum`).  A remainder taken at every addition is one taken at
the end (`ModPlus`).  `ResultsAreSequential` has the sequential loop as a fold,
which the library defines by a recursive function on sets of indices, chosen by
its equation: `LoopSum` gives a solution of the equation, a count of pairs, so
that the chosen function satisfies it, and then finds its value on 1 .. m, by the
least index where it would be wrong.

ProcessesProofs, Semaphores: `SemInvariance`, `AloneCorrect`, for every finite
set of runs and any choice of those that are the guest's.  `AloneIsRight` speaks of
the end of a run; `AloneOK` says for each
of its calls what the key refers to and who made it: a set that is still there
after `Remove` is another user's or refuses this one.
What a `semget()` of a run that is alone returns is a lemma (`GotSet`).  A new set holds zeros because no run has
made it before: `SetsOK` counts the calls of semget() that have been made, and so
bounds the sets.

ProcessesProofs, FifoRelay: `FifoInvariance`, `RelayCorrect`.  The property is
about the words that have come out; the invariant strings the two FIFOs, the
buffer and what came out together, in the order in which the words were typed.
The words a shorter `read()` leaves in the buffer are older than those it wrote,
but they are behind the length that is written; a length of -1 writes nothing.

ProcessesProofs, MsgQueue: `MsgInvariance`, `ChildStopsTheQueue`.  Once the child's
message is at the head of the queue the parent's `msgrcv()` fails for ever, and
what the parent has taken before are messages of others that were sent before it.

ProcessesProofs, CommandLine: `LineTypeCorrect`, `CommandsCorrect` and
`GapsCorrect`, for a line of any length.  split() and parse() are folds over the
line, and the words they are compared with are the longest runs without a space
(`Runs`), so this is an induction over data.  `FoldExists` shows that the equation
of a fold has a solution on every set of indices, for every step, and
`FoldIsLoop` that the fold is the last value of a loop; both are inductions over a
set of numbers (`UpTo`), whose least counterexample exists.  What each loop does is
then an invariant of a loop: `Cuts` and `Opens` say which runs split() has found
and which it is in, `Divides` where the commands of parse() stand among the words.
`Runs` numbers the runs by their rank, which is the order in which they were found
(`CutsAreRuns`).  With that, joining the commands gives the words back
(`DividesJoins`).  A line of n characters has at most (n + 1) / 2 words (`FewWords`)
and parse() makes at most one command more than there are words (`FewCommands`),
so main() starts at most (n + 3) / 2.  The commands without a word correspond one to one to the gaps
(`EmptyAreGaps`).

ComputationsProofs, Derivative: `DerivativeInvariance` and `DerivativeCorrect`, for
a polynomial of any number of terms.  `TextLaidOut` gives the positions where the
terms start in the text and what stands there; `Tally` is the sum of each power
after each term.  An iteration that starts at a term, or behind the '+' of one,
either reads that term up to the next one, with or without its '+', or has taken a
'+' for a constant and stays in front of the same term (`IterationReads`): so only
the sum of power 0 is wrong, and the loop is still where it should be.  `Misread`
is needed at two places, exactly those it names: a number that is 0 is not the one
that get_num() returns, and a '+' behind a constant belongs to the next term.  The
sums of power 0 are not in the invariant.  The proof also found that `PowerOf` was
not a function of the term when two of its cases overlapped, which TLC, taking the
first, does not show; it now says what was meant.

AsioEchoProofs also shows `LossyRefinement`: the asio server implements
EchoService, with the bytes returned as `taken`.  It follows from its refinement
of ExactEcho alone: a `Return` is an `Answer` of a piece that drops nothing.

## 8. Model-checked only

Liveness under fairness, and ENABLED, are beyond the prover:
`EveryoneIsServed`, `ComesBack`, `PipelineEnds`,
`EveryClientEnds`, `FirstIsWritten`, `NoZombie`, `EndsWithThreeWaiting` and
`EverybodyOrNobody` stay with TLC.

Every invariant and every action property of the runs is stated by a theorem.
What TLC adds to those is that the properties can fail: the runs reach the states
they speak of.

## 9. Not modelled, and plan

Not modelled, because there is no program or no state to speak of:

- the libev server initialises the watcher of its listening socket (echo.c:45)
  but never starts it: the only `ev_io_start()` is in the callback that this watcher
  would call.  `ev_loop()` has nothing to wait for, `main()` calls it again for
  ever, and nobody is accepted; there is no state to follow.  This was found by
  reading;
- kqueue.cpp does not compile anywhere (`EU_ADD`, `EV_READ`, a missing header);
  the TBB functions are called by nobody, in a file that does not compile;
- the libuv server has callbacks of a library version that is not in the
  repository; with a current one `bind()` is refused for an IPv6 flag on an IPv4
  address, so everything it does depends on the library;
- the string pointer is never copied by its program; the POSIX semaphore is
  straight-line and has no specified outcome (`sem_init()` on the result of
  `sem_open()`); the shared-memory programs fill a segment and end;
- the socket pair is a child that writes for ever and a parent that reads for
  ever; the file lock is one shared and one exclusive lock, a guard of the kernel;
- the condition variable is waited for with a mutex that is not locked, which is
  undefined, and the barrier is one of one thread;
- vendored libevent is a third party's: headers, CMake files, a code generator.
  It is most of the repository (10,392 of its 12,318 implementation lines), so
  the mapped share of all lines stays small although the map has most of the
  lines of the programs that decide something.

Left out of modelled programs: `socket()`, `bind()`, `listen()`, `pipe()` and
thread creation are taken to succeed; exceptions of boost::asio's constructors;
what the programs print, unless a property is about it.

Nothing is planned: the single `Wait` of Zombies and the two-thread locks have no
safety property beyond their types, and what they promise is liveness.
