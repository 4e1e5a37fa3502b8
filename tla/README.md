# Remote shell: a TLA+ verification project

`remoteshell` is a client and a server in C. The server listens on a TCP port, forks a process per client,
and that process runs a shell on a pseudo-terminal and copies bytes between the shell and the client's socket.
The client puts the user's terminal in raw mode and copies bytes between it and the server. Either side may
use TLS. This directory holds a TLA+ model of both programs, the configurations with which TLC checks it on
small instances, and theorems that the TLA+ proof system proves for every value of the constants.

Paths below are relative to `src/`.

## 1. The system

```
 user's terminal                                                          /bin/<shell> -i
      |  ^                                                                    ^  |
      v  |                                                                    |  v  pty
 +-------------------+   frames of DEF_DATASIZE bytes    +---------------------------------+
 | client            | --------------------------------> | session process                 |
 |  main  (cleanup)  |          TCP, plain or TLS        |  main  (cleanup_crew_client)     |
 |  commandPrompt    | <-------------------------------- |  commandPrompt   socket -> pty   |
 |  outputPrinter    |                                   |  outputWritter   pty -> socket   |
 +-------------------+                                   +---------------------------------+
          | tryConnect                                                ^ fork
          v                                                           |
        connect  -------------------- listen queue ------------> accept_connections
```

### Components, their state and their operations

| component | state | operations | talks to |
|---|---|---|---|
| accept loop (`admin/main.c`) | `server_alive`, `server_socket`, `client_socket` | select, accept, fork, close; SIGINT and SIGCHLD handlers | sessions, by `fork` and inherited descriptors |
| server session (`admin/Sources/client_mgmt.c`) | `all_alive`, `out_alive`, `cmd_alive`, three condition variables with a mutex each, `master_fd`, `client_socket`, `server_ssl`, `pid_shell` | set-up in `do_connection`, two worker loops, `switch_all_off`, the signal handler, `cleanup_crew_client` | shell (pty, SIGCHLD), client (socket), its own threads |
| client session (`client/main.c`) | the same flags and condition variables, the saved terminal settings, `client_socket`, `client_ssl` | `main`, `getOutput`, `command_line_thread`, `cleanup`, the signal handler, `cleanup_crew` | server (socket), user's terminal, its own threads |
| client connection loop (`client/main.c`) | `success`, `numOfTries`, `errno`, the socket | connect, SO_ERROR, select | network |
| data plane (`xtrafun/Sources/sockio_tcp.c` and the workers) | `outbuff`, `raw_line` | `readsome`, `sendsome`, `recvsome`, `writesome`, `sendsome_ssl`, `readsome_ssl` | both sessions |
| TLS lifecycle (`xtrafun/Sources/openssl_stuff.c`) | `global_ctx`, three "initialised" flags, the SSL objects | init, handshake, `ShutdownSSL`, end | both sessions |
| shared flags and buffers (`xtrafun/Sources/fileshit.c`) | the globals above | - | everything |
| doubly linked list (`doublelist.c`) | nodes, `head`, `trail`, `currSize` | add, remove, get, find, destroy, by index or by value | stack, queue, iterator, `atomicOps.c` |
| comparator list, stack, queue (`doublelistcomp.c`, `stackList.c`, `queueList.c`) | a list | the same by comparator; push, pop, enqueue, dequeue | hash table; doubly linked list |
| hash table (`hashtablecomp.c`) | buckets, `currSize` | add (and grow), remove, get, destroy | comparator list |
| iterator and mutex-protected access (`dliterator.c`, `atomicOps.c`) | the caller's | one call under a mutex; nobody calls them | lists, stacks, iterators, counters |
| the rest: `socketops.c`, `auxFuncs.c`, `cmdstruct.c`, the certificate paths, headers, scripts, vendored OpenSSL headers | none or constant | single system calls, string helpers | - |

`PROJECT.json` lists every component with its sources, its modules and the reason where there are none.

### What is hard here

* **Wakeups.** Every flag is an atomic that is stored, and every condition variable signalled, *without* the
  mutex its waiter holds. A signal that falls between the waiter's test and its wait is lost. There are three
  such hand-overs per session (`exitCond`, `cmdCond`, `outCond`).
* **Switching off.** `switch_all_off` is three stores and a signal; the signal handlers do the same stores and
  wake nobody; several threads may do it at once, and `writeOutput` raises `cmd_alive` without looking.
* **Teardown.** The server joins a worker only if its flag reads 0, and closes descriptors and frees the SSL
  object that a worker it did not join may be using. The client joins both first.
* **Failure of one part.** A failed handshake is not reported; the server's output thread may end alone; the end
  of the stream is taken for an empty command; a signal makes any select fail, which ends the session.
* **Frames.** The sender sends whole buffers, TCP delivers any part of them, and the server's receiver finds
  the end of the text with `strlen`.
* **Two ends.** The two programs may disagree about TLS; `SSL_connect` returns before the server has judged the
  client's certificate; a refused client gets a session all the same; the client closes its socket without a
  goodbye; a client whose server has gone notices only when something is typed.
* **Counts.** The hash table counts removals that removed nothing, and grows by that count.
* **Processes.** Descriptors are inherited by every fork; the end of one session must be visible to its client
  while others, and their shells, live on; the shell's own jobs can keep its connection open after it.

The hazards are in `PROJECT.json`, each with its line and the properties that would catch it, or the reason why there
is none: for the shared SSL object and for the `strlen` of a full frame the models allow the undefined behaviour, and
no property promises that it does not come.

### What makes each component correct

* A session that is told to stop stops, for good, starts no further I/O, and ends (both ends); the client
  releases nothing that a thread still uses and hands the terminal back.
* Start-up hands over in order: printer before typing, output before commands.
* A session whose client and shell have gone does not live on.
* A queued client gets exactly one session, nobody but the session's own shell and jobs holds the connection
  after it, and the port is free when the server is down.
* The client's connection loop ends, and ends early only when it is connected.
* Bytes arrive in order, once, and all of them unless a named fault occurred or a worker left.
* Only a client the server knows commands its shell; either end's going ends the other.
* The list is a sequence, its links are whole, and no call leaves the live nodes. The hash table is a bag, and
  what is in it can be found.

## 2. The modules

| module | models | refines / composed with |
|---|---|---|
| `SessionContract` | what one end of a connection promises | abstract |
| `ServerSession` | `client_mgmt.c`: three threads, handlers, shell, client, descriptors | implements `SessionContract` (not orderly) |
| `ClientSession` | `client/main.c` from the handshake on | implements `SessionContract` (orderly) |
| `AcceptLoop` | `admin/main.c` and the processes it forks | sessions reduced to descriptors and life cycle |
| `TryConnect` | `initClient`'s socket and `tryConnect` | - |
| `DataPath` | either direction of the data plane, both workers and the wire between them | - |
| `RemoteShell` | a client and a server session on one connection: handshake, resets, shell, jobs | composes what `ServerSession`, `ClientSession` and the TLS handshake show of themselves |
| `ListOps` | what the searching functions of the lists do to a sequence | operators used by the next three |
| `SequenceList` | what the list, comparator list, stack and queue promise | abstract |
| `DoubleList`, `MCDoubleList` | `doublelist.c`, `doublelistcomp.c`, `stackList.c`, `queueList.c`, node by node | implements `SequenceList` |
| `BagTable` | what the hash table promises | abstract |
| `HashTable`, `MCHashTable` | `hashtablecomp.c` on buckets that are sequences | implements `BagTable` |
| `ServerSessionProofs`, `ClientSessionProofs`, `AcceptLoopProofs`, `TryConnectProofs`, `DataPathProofs`, `RemoteShellProofs`, `HashTableProofs`, `DoubleListProofs` | theorems | extend the module they are about |

### How state and actions correspond to the code

**Sessions.** `all_alive`, `out_alive`, `cmd_alive` are the atomics of `fileshit.c`. `pc[t]` is where thread `t`
is, with one label per step that another thread can tell from the next. `after[t]` is where a worker goes on
when a `switch_all_off` it called from inside an I/O helper returns. `handler[t]` counts the stores a signal
handler running on `t` still has to do; while it is positive `t` itself stands still. The environment is `peer`
(open, closed, reset, or dead: reset and already reported once), and in the server `shell` (none, running, gone
leaving jobs on the pty, gone). An I/O call is the label at which a worker stands, and its return an action:
`Receive`, `ReceiveFails`, `Send`, `SendFails`, `SendPipe`, `IoFatal` and so on, each enabled by the state of the
descriptor, the peer and the SSL object. Undefined behaviour (an SSL call on NULL or on a freed object, two
threads in one SSL object) may end the process: `SslCrash`. A TLS helper that got an error and reads a stale
EAGAIN in `errno` retries without looking at the flags: the label `spin`, which may or may not be left.

**Condition variables.** Every condition variable has one possible waiter, and the signaller never holds the
mutex. So the mutexes exclude nothing, and a wait is three labels: `check` (the guard is about to be read),
`park` (it said wait), `parked`. `Signal` wakes a parked thread and is lost on any other; the history variable
`missed` records that one fell into the window. Spurious wakeups are allowed at any time.

**Atomicity.** A guard such as `while(cmd_alive&&all_alive)` loads two atomics, and the model loads both in one
step. That loses no behaviour that matters: `all_alive` is never set again once cleared, and every switch-off
clears it before the other two. If the two loads straddle a switch-off, the guard is false in both orders; if
they straddle the raising of a flag, the result is one the code also has when the step is taken a moment earlier
or later. The invariants `OffIsForGood` of the proof modules state the two facts used.

**The accept loop.** `holders[c]` is the set of processes with a copy of client `c`'s connected socket and
`listeners` the set with a copy of the listening socket, because `close` ends a connection only when the last
copy goes. `fork` copies every descriptor (`Inherits`)
and nothing sets `FD_CLOEXEC`, so a shell holds the client's socket, and so do its jobs, which may outlive it
(`StartJobs`, `ShellEnds`, `JobsEnd`; the jobs of one shell are one holder). A connection therefore need not be free
when its session and shell have gone: `ConnectionFreed` says who may still hold it, and that nobody else does.

**The connection loop.** `errno` is a variable that a successful `connect` leaves alone, as in C; `conn` is what
the network has made of the socket.

**The data plane.** The source's bytes are numbered and 0 is the padding, so that order, loss and duplication
can be told. A sender reads into a zeroed buffer and sends all of it; plain `send` and `recv` take any part, a
TLS record arrives whole. A record that OpenSSL began for a call that gave up is `pending`: the next call
finishes it with the old bytes and reports the new ones as written. `SSL_write` returning 0 is a frame dropped
without an error. What the sink takes is kept with its padding; the client, which breaks its loop at `exit_word`
before the `memset`, may keep old bytes in its buffer. `faults` records drops, short writes and cut
frames, so that `Lossless` can say that *without* them nothing is missing before a byte that has arrived. A worker
that leaves with bytes in its hands is no fault: `Lossless` does not speak of what follows the last byte delivered.

**Both ends together.** `RemoteShell` keeps of each session what the other end can tell: where its main is,
`all_alive`, its SSL object, and the frame each worker holds. What `ServerSession` and `ClientSession` show is
taken as one step: a switch-off is noticed at once, since only a lost wakeup or a spin prevents it. `up` and
`down` are the frames in flight; `fin` ends a stream when the last copy of a socket closes, and a close that
leaves frames unread is a reset, as in TCP. The server's socket is inherited by its shell and the jobs, so it
closes with the last of them. `mode` holds the two command lines' `will_use_tls` and whether the server accepts
the client's certificate; what the client thinks of the server's is left open at each handshake.

**The list.** A pointer is a live node, `Null` or `Wild` (never written). A call that goes through anything but a
live node sets `broken`: undefined behaviour, after which the model says nothing. `malloc` may return any
node that is not allocated. `call` and `ret` record the last call, so that refinement says which abstract
operation each call is. `comp` says which of the two lists it is; `Key` is what the comparator sees, and TLC is
given one that takes two of the three values for equal. Stacks and queues are calls of their own on a plain list.

**The hash table.** `spine` is the array of buckets, each the descending sequence that `DoubleList` implements.
Growing adds every element to a table twice as large with `addToHTComp`, which may itself find that table full and
call `rehash` again. Each call of the two is a step: `growing` is the stack of the calls of `rehash` that have not
returned, each with what it has yet to take from its old table and the element whose addition made it necessary, and
`spine` is the table the innermost of them fills. Every other call waits until the stack is empty (`Ready`), as the
caller of `addToHTComp` does. `missed` counts the removals that were counted and removed nothing since the table last
grew; a grown table counts afresh. In the refinement the bag holds what the table and the stack hold together, so
that an addition is one step of it, the first, and the growing that follows is none.

### The contract

`SessionContract` is a session without flags: it is up, stops once, releases, ends, and its workers start rounds
of I/O only while it is up. `Orderly` says that it releases only when no round is under way. The client
implements the orderly contract: `cleanup_crew` joins both workers unconditionally. The server implements the
other: `cleanup_crew_client` decides by flags that another thread is still clearing, and run `server_joins` shows
a worker that is running while its descriptors are closed. A round that began before the stop may go on after
it, in both; none begins.

## 3. The runs

| run | shows | bounds |
|---|---|---|
| `server_life` | hand-over, contract, end of a stopped session, end of an abandoned one | with and without TLS; one SIGINT without |
| `server_joins` (violation) | descriptors are closed under a worker | no SIGINT |
| `client_life` | terminal, hand-over, contract, start-up, end | one SIGINT, with and without TLS |
| `client_ctrld` (violation) | Ctrl+D may leave the client running | no SIGINT |
| `accept` | descriptors, one session per connection, port; a queued client is served, a stopped server closes, a connection outlives its session in its shell and jobs only | 3 clients, each shell with and without jobs, queue of 2, 1 transient error |
| `connect_loop` | the loop ends, early only when connected | the code's 10 tries |
| `connect_claim` (violation) | "Sucessfully connected!!!" without a connection | 10 tries |
| `data` | order, no gap without a fault, arrival | both directions, both transports, frames of 2, room for 5, 5 bytes |
| `remote` | strangers do not command, the handshake settles, a refused session ends, a client's end is noticed, a typist gets out | every mix of transports, 3 frames each way |
| `list_calls` | links, no undefined behaviour but one, refinement of `SequenceList` | 5 nodes, 3 values in 2 classes, indices to 4, arrays of up to `MaxArray` = 2 |
| `list_remove` (violation) | a removal by value removes another value | 3 nodes |
| `hash` | look-up at any point of growing, the lagging count, how deep growing nests, refinement of `BagTable` | the code's 3 buckets, 3 values, 11 elements |

`TLSModes` is the set of values `will_use_tls` may start with, so that one run can check both transports.

**Why the bounds are enough.** The threads of a session are all there; nothing about them is bounded but the
number of SIGINTs. One already reaches every thread at every label, interrupts every call and runs its three
stores between any other steps; a second adds no label (its handler's stores are the same, and `all_alive` is
down). The signals that SIGCHLD and SIGPIPE bring are not counted. Three clients are one in its session, one
between accept and close, and one in the queue, which is the most that can interact through descriptors. A
queue of 2 can be full. Frames of 2 bytes are the smallest that can be cut, and room for 5 holds two frames
and a part of a third, so that a frame can be begun and not finished; 5 bytes are two frames and a padded one.
In `remote`, 3 frames hold a hello, a finish and a command sent before the server has seen either, and fill up
when more is typed. Five nodes are the shortest list in which an index is reached from `trail` by at least one
step; `MaxIndex` reaches the last node of the longest list, and an array of 2 is the shortest that writes `trail`. A table of 3 buckets grows with the sixth element it counts and one of 6 with the tenth; the eleventh stored
element is the first that finds a table with a lagging count and makes it grow twice in one add.

**The violations** are the findings in `PROJECT.json`; each quotes the message or comment that says otherwise.

### Fairness

* Sessions: weak fairness of each thread's steps and of running handlers. The scheduler runs every runnable
  thread, and every `select` of the helpers has a time-out, so a call returns. No fairness for the handshake (it
  loops as long as the peer is silent), for signals, the peer, the shell, crashes or spurious wakeups.
* Accept loop: weak fairness of the acceptor, whose `select` wakes every three seconds, and of a forked child's
  set-up. None for clients, signals or the end of a session, a shell or its jobs.
* Connection loop: weak fairness of the loop; none for the network.
* Data plane: weak fairness of sending and of receiving; none for typing or leaving.
* Both ends together: weak fairness of each process's main and workers, and of a shell that leaves when its
  terminal hangs up (SIGHUP). None for typing, printing by the shell, signals, crashes, or jobs, which may hold a
  socket for ever. `TypistLeaves` assumes in its own statement that the user goes on typing.

A liveness property that a lost wakeup defeats has `missed` among its conclusions: the property then says that
the lost wakeup is the *only* thing that can go wrong. Under TLS a spin is the other (`Stuck`).

## 4. What is proved

All for every value of the constants, under the named assumptions of the modules (`TLSModes` is a set of booleans, bounds
are natural numbers, `None` is not a client, the backlog is positive, the
hash function takes equal values to the same number and a new hash table has a bucket, the heap of the lists is finite and an index of
`MaxIndex` reaches the end of any list in it).

| module | theorems |
|---|---|
| `ServerSessionProofs` | `TypeCorrect`, `OutputIsNotLeftWaiting`, `CommandsWaitForOutput`, `ServerKeepsContract` |
| `ClientSessionProofs` | `TypeCorrect`, `TerminalHandedBack`, `PrinterLasts`, `TypingWaitsForPrinter`, `ClientKeepsContract` |
| `AcceptLoopProofs` | `TypeCorrect`, `DescriptorsStayHome`, `OneFork`, `PortIsReleased` |
| `TryConnectProofs` | `TypeCorrect`, `EarlyExit` |
| `DataPathProofs` | `TypeCorrect`, `BytesKeepTheirOrder`, `MissingOnlyAfterAFault` |
| `RemoteShellProofs` | `TypeCorrect`, `StrangersDoNotCommand` |
| `HashTableProofs` | `TypeCorrect`, `StoredIsFound`, `CountLagsByMisses`, `GrowingNestsOnce`, `TableIsABag`; of the lists' operators `FoundIsFirst`, `PresentIsFound`, `InsertionKeepsOrder`, `RemovalKeepsOrder` |
| `DoubleListProofs` | `TypeCorrect`, `LinksStayWhole`, `ListsAreSequences` |

Each state machine has one inductive invariant (`IInv`, or `Inv`), proved to hold initially and to be preserved by one step per
action, and its theorems follow from it.

* **Server.** The property `OutputNeverParks` is not inductive: that writeOutput finds `out_alive` up depends on
  main having stored it before creating the thread, and on whatever clears it having cleared `all_alive` first.
  `OffIsForGood` says the latter (of workers in the middle of a switch-off, of running handlers, and of main in
  its teardown), `OutputCreatedLast` the former, `OffReturns` that a switch-off knows its way back, and
  `CmdAliveIsAnnounced` carries the order of the hand-over to `CommandsFollowOutput`. The contract follows
  because a round starts at a loop test that reads `all_alive`, and main is in its teardown only when that is down.
* **Client.** The same, with `CreatedThenJoined` (main's label tells which workers exist and which have
  returned, which is what makes the contract orderly), `PrinterHasFlag` (while the session is alive nobody has
  cleared `out_alive`, hence the printer has not left) and `RawWhileTyping` (the terminal is raw from
  `enable_raw` to `disable_raw`).
* **Accept loop.** `SocketInHand` ties `client_socket` to the acceptor's label and to the holders of that
  socket; `QueuedOnce` says a queued client is in the queue once, not forked for and not in hand. Without the two
  neither the descriptors nor the single fork are inductive.
* **Connection loop.** The invariant says what `errno` and `success` mean at each label; the stale `errno` is
  harmless because a leftover EINPROGRESS only sends the loop round again.

* **Data plane.** `InOrder` speaks of the sink only. The invariant follows the bytes through all five places
  they can be in (sink, receiver's buffer, wire, the record begun, sender's buffer): they increase along each and
  from each to the ones behind it, and none is newer than the source has given. Lemmas on pieces and on joins of
  such sequences carry it through every step. `Lossless` needs more: `Accounted` says that every byte the source has
  given is in one of the four others and no record is left begun, unless a fault is recorded, and `Framed` that without faults the receiver's
  frames end where the sender's do, so that a frame handed to the sink has all its bytes before its padding.
* **Both ends.** `OnlyKnownClientsCommand` needs where the server's main is against its SSL object
  (`ServerPhase`), that a `finish` on the wire comes from a client that speaks TLS (`HandshakeIsTheClients`), and,
  for the types, that each end closes once (`Bounded`).
* **Operators on lists.** `FoundIsFirst` rests on the well-foundedness of the naturals, and the others on it. They say
  for every list what `Findable` and the order of the buckets need in one bucket.
* **Hash table.** The invariant has four parts: the types (`Typed`), every bucket in order (`Ordered`), every element in
  the bucket its hash leads to (`Placed`), and how full the table can be (`Load`). `Findable` follows from the first
  three and `PresentIsFound`. Counting is by places, pairs of a bucket and a position: `OneMoreCounted` is the bijection
  by which an insertion or a removal changes the number of places by one, and `CopiesCounted` the one by which the
  copies of all values, counted value by value, are the places. `Load` is why growing ends: a table that was found full
  by a lagging count may hold many more elements than its larger copy has room for, so the copy fills up while it is
  being filled and grows once more; but everything that goes into a copy is counted, so the next one gets only as many
  elements as overfill half of it, and cannot be found full before the outer call goes on. From there on the count is
  true. Neither half of `CountLags` (`Lag` and `NestsOnce`) is inductive without the bound on what the inner call has yet to take.
  For the refinement, a step of `rehash` moves an element from the stack to the table, and nothing the bag sees.
* **The linked list.** The invariant is that there is a sequence `c` of nodes, `Linked(c)`: no node in it twice,
  every allocated node in it, `head` its first, each `next` and `prev` its neighbours, `trail` its last but in a
  `Fragile` list, made of an array of one element. The walks of the code and of `Chain` are recursive
  functions over an interval of numbers; `SameWalk` (the least index at which two walks differ is not the first, and not a
  later one either) settles each once: `StepsOnward` and `StepsBack` say where k steps lead, `NodeAtIndex` that both
  ends lead to the node of an index, `NodeFound` that `findNode` finds the position `FoundPos` does.
  `LinkedIn` and `LinkedOut` say that the pointer writes of an addition and of a removal take `Linked(c)` to
  `Linked` of `c` with a node inserted or removed. Every operation then ends in one of a few
  outcomes, a list that again has a chain (`Holds`) or an access that was undefined in a `Fragile` list (`Undone`),
  and from the outcome follow both the invariant and the step of `SequenceList`. The refinement covers every action.

**Only model-checked.** All liveness, which is out of the prover's reach. Every invariant, action property and
refinement of a passing run is a theorem.

## 5. Not modelled

* **The vendored headers.** 46,000 of the repository's 50,000 lines are OpenSSL's declarations under
  `openssl/includes`. They hold no code of this system, so the share of the repository that the map covers stays small
  although it covers most of what the two programs run and of the libraries beneath them.
* **The iterator and the mutex-protected access** (`dliterator.c`, `atomicOps.c`): no program of the repository calls
  them. Which threads share which mutex, and what a thread does between two calls, would be invented.
* The flags of `init_/end_openssl_libs_*` and the loading of certificates: each process runs either once, and a
  failure is only printed.
* A record received in part before a time-out: a frame is smaller than the largest record, and OpenSSL hands out a
  record only when all of it is there.
* A 0 byte typed or printed: in the data plane 0 is the padding.
* The children that `waitid` never waits for: `ReapShell` ends at once, as the code's loop does, and nothing
  promises that the shell is gone.
* What is printed, the sizes of the pty, the names and paths, the string helpers.
* Failures before the system exists (`bind`, `socket`), and exhaustion of memory or threads.
* The functions that print a list or a table, and `makeIntList` of an empty array.
* The components marked `not_modelled` in `PROJECT.json`.

## 6. What could follow

* The sessions' and `RemoteShell`'s abstraction related by a refinement, with the threads' labels mapped to the frame
  each worker holds.
* Concurrent callers of `atomicOps.c`, once a program has any.
