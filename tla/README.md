# ProcessingCore in TLA+

Specifications, model checks and proofs for the framework in `src/`: a tree of
cooperative processes (`Processing.*`), pipes between them (`Pipe.h`), and the
debugging facilities built on both (`SystemCommanding.*`, `SystemDebugging.*`,
`TcpListening.*`, `TcpTransfering.*`, `targets/stm32/*`).

`PROJECT.json` lists the components, the runs, the lines of the source that each
definition stands for, a mutant for each property, the disagreements found, the
hazards and the theorems.

    tlc -workers 2 -config MCProcessTree_tree.cfg MCProcessTree.tla
    tlapm ProcessTree_lifetimes.tla

## 1. The system

### Parts, state, operations

| Part | State | Operations |
|---|---|---|
| Process tree (`Processing.cpp`, `Processing.h`, the loop of `tools/hello-world/main.cpp`) | for each process `mStateAbstract`, `mStatParent`, `mStatDrv`, `mDriver`, `mChildList`, `mSuccess`; the thread of a driver | `create`, `start`, `treeTick`, `cancel`, `repel`, `whenFinishedRepel`, `unusedSet`, `undrivenSet`, `parentalDrive`, `internalDrive`, `destroy`, `processTreeStr` |
| Pipe (`Pipe.h`) | queue, `mSourceDone`, `mSinkDone`, parent and child list, one mutex for each of the three | `commit`, `toPushTry`, `get`, `sourceDoneSet`, `sinkDoneSet`, `connect`, `disconnect`, `parentDisconnect`, destructor |
| Command line (`SystemCommanding.*`) | ring of lines, index of the edited, viewed and last line, cursor and end, key state | `dataReceive`, `ansiFilter`, `chInsert`, `chRemove`, cursor moves, `tabProcess`, history, `lineAck`, `commandExecute`, `autoCommandReceive` |
| Single wire (`targets/stm32/*`) | states of the two processes, of a transfer and of the interrupt, `mValidBuf`, input buffer, `mSyncedTransfer` | `process`, `byteProcess`, `dataSent`, `commandInterpret`, `procTreeSend`, `entryLogEnqueue`, `logImmediateSend` |
| TCP transfer (`TcpTransfering.*`, `Transfering.h`) | `mState`, `mSocketFd` with its mutex, `mReadReady`, `mSendReady`, `mDone`, `mErrno` | `process`, `shutdown`, `read`, `send`, `disconnect`, `socketOptionsSet`, `connClientDone`, `doneSet` |
| TCP listener (`TcpListening.*`) | two listening sockets, `ppPeerFd` (a pipe of descriptors), `mCntSkip` | `process`, `socketCreate`, `connectionsAccept`, `shutdown` |
| Debugging server of the desktop (`SystemDebugging.*`) | four listeners, `mPeerList`, the last process tree with its flags and time, `qLogEntries` with its mutex | `process`, `listenersStart`, `peerListUpdate`, `peerCheck`, `peerAdd`, `commandAutoProcess`, `processTreeSend`, `entryLogEnqueue`, `logEntriesSend` |
| Log, WiFi, examples | | listed in `PROJECT.json`, not modelled |

### How they interact

* A parent drives its children by calling `treeTick()` on them, or gives a child
  a thread (`internalDrive()`), or leaves it to an external driver. Parent and
  child share `mStatParent` (requests of the parent) and `mStatDrv` (news of the
  driver): bytes without a lock. The child list has a mutex, taken by `start()`,
  by the removal of a child and by the walk of `processTreeStr()`, which the
  debugging server calls on the root from whatever thread drives it.
* `main()` is the driver of the root; a signal handler writes into its
  `mStatParent`.
* Pipes connect processes of different threads. A pipe changes lists of other
  pipes, and pushes into their queues.
* The debugging server creates listeners as its children and takes descriptors
  out of their queues. For each it creates a `TcpTransfering`, or a command
  line, which is a process that creates its own `TcpTransfering`. One driver
  ticks the server, its listeners and its connections.
* A connection is read by its user (the server, a command line, or a thread of
  the application) and looked at by its own `process()`.
* Any thread may log: the entry goes into a queue of the debugging server, which
  sends it to peers through the same connections, whose `send()` may log.
* On a microcontroller, an interrupt feeds `SingleWireTransfering`, a child of
  `SystemDebugging`; they share buffers and a byte that says which are valid.

### What is hard

* Which thread may touch a process when, until it is deleted: the two status
  bytes are all there is to decide it.
* `|=` on a byte that two threads change.
* Finishing: bottom up, over several threads, with each level waiting for the
  one below.
* A pipe checks first whether all children have room and gives later; the end
  of the source travels behind the data.
* Links have two ends, each with a mutex.
* A socket is closed by whoever sees its end first: `process()`, `read()`,
  `send()` or `shutdown()`, in two threads; the number of a closed descriptor
  is given to somebody else, while the driver may still have it in a register.
* A connection has an end that lies behind its data, and an error that one
  thread sees and the other reports.
* A connection of the debugging server passes through five hands (kernel, queue,
  process, peer list, command line), and the server may be repelled in any of
  its ticks.
* What a viewer is shown depends on a change, on a period, and on who came in
  between.
* A line has a zero byte at its end and an index that says where it is; a ring
  of lines has three indices into it.
* The main loop of the microcontroller remembers which buffer was sent while an
  interrupt receives the next request.

`PROJECT.json`, "hazards", has all of them, at the lines where they bite, with
the property that covers each or the reason why none does.

## 2. Modules

| Module | Models |
|---|---|
| `ProcessTree` | the process tree, its drivers, the walk, `main()` and the signal |
| `ScopedLifetimes` | abstract: what the tree promises about lifetimes (README of the source: "Process and data lifetimes are tied together") |
| `ProcessTree_proofs` | theorems about `ProcessTree`: types and requests |
| `ProcessTree_lifetimes` | theorems about `ProcessTree`: lifetimes and refinement |
| `Pipe` | queues, back pressure, end of the source |
| `Pipe_proofs` | theorems about `Pipe` |
| `PipeLinks` | who is linked to whom, and the mutexes |
| `PipeLinks_proofs` | theorems about `PipeLinks` |
| `SystemCommanding` | the command line |
| `CommandHistory` | abstract: a history of lines |
| `SystemCommanding_proofs` | theorems about `SystemCommanding` |
| `SingleWire` | transfer and debugging on the microcontroller |
| `SingleWire_proofs` | theorems about `SingleWire` |
| `Transfering` | abstract: what the interface promises of `read()` (comment in `Transfering.h`) |
| `TcpTransfering` | one TCP connection, server or client, its user, kernel and peer |
| `TcpTransfering_proofs` | theorems about `TcpTransfering` |
| `TcpListening` | the listeners, as children of one process; ticks of a process |
| `SystemDebugging` | the debugging server, composed with `TcpListening` and the processes of its connections |
| `SystemDebugging_proofs` | theorems about `SystemDebugging` and `TcpListening` |
| `MCProcessTree`, `MCPipe`, `MCPipeLinks`, `MCSystemCommanding`, `MCSystemDebugging` | instances for TLC |

### ProcessTree

A process is a model value; who creates whom is the constant `Parent`. State
variables carry the members of `Processing` (`statParent` is `mStatParent` as a
set of bits, and so on); `life` says whether the object exists. A driver is a
chain of `treeTick()` activations with at most one for each process, so the
program counter and the local variables of `treeTick()` are functions on
processes: `pc`, `cur` (the child at hand), `todo` (what is left of the loop),
`op` and `reg` (a `|=` under way). An action is one access to something that
another thread can see:

* `DriverTick`, `DriverLeaves`, `DriverExits` are `internalDrive()`;
  `MainDestroysRoot` is `main()`, `CloseRequest` and `CloseStores` the handler,
  which has the application in hand between them (`HandlerTarget`).
* `DriveChild`, `ChildReturned`, `PassChild`, `EraseChild`, `DestroyChild` are
  the first half of `treeTick()`; the state machine is `LeaveExistent` to
  `FinishedTick`, with one action for each way out of a state.
* `StartChild`, `AddChild`, `RestartChild`, `CancelChild`, `RepelChild`,
  `WhenFinishedRepel` are what the code of a process may do with its children,
  at any time while it runs; it drops a handle where the API returns NULL. The
  constant `Uses` says which of the last four a process of an instance uses.
  `RestartChild` is a second `start()` of a child that its parent drives. That
  of a child with a driver of its own is not a step: `start()` would overwrite
  `mDriver` and could give it two (`Processing.cpp:770`, `:776`, `:811`).
* `OrBegins` and `StoreStat` are the load and the store of a `|=`; `UnuseChild` is
  the second one of `repel()`.
* `WalkBegins`, `WalkDown`, `WalkUp` are `processTreeStr()`.

The bits of `mStatParent` are atomic as a byte; so the race on it is two `|=`
that overlap, not a torn value.

### Pipe and PipeLinks

`Pipe` has the data and takes the links as they are, but for a child that is
connected late and a reader that disconnects. A step is a critical section of
`mEntryMtx`; `toPushTry()` has a program counter for what it does between two
of them. Particles are numbers in the order of `commit()`, so that "lost",
"twice" and "out of order" are visible. `PipeLinks` has the links and the
mutexes without the data: an operation that changes a list of another pipe
while it holds a mutex of its own is a sequence of steps, and `held` says who
holds what. `toPushTry()` is there as a holder of a child list mutex.

### SystemCommanding

A line is a sequence of characters, next to `lineEnd`, which the code keeps
apart from the zero byte. `PendingByte` is a byte inside of an escape sequence,
`Key` a complete key with all that it causes (insertion, removal, completion,
history, execution and the reset afterwards), `RefusedByte` an error;
`ChunkEnds` is the end of one `read()`, where the prompt is sent or not.
`shown` is what the terminal shows, `executed` what was executed. In the automatic
mode `autoCommandReceive` takes what one `read()` finds as the command; of an
empty one the code reads what lies in front of the lines, so what is executed is
open there. The properties of the line are about a terminal.

### SingleWire

One step is a call of `process()` of one of the two processes, or an interrupt.
The input buffer is kept byte by byte because what earlier commands left in it
matters; contents are reduced to their kind. `DbgStart` and `DbgReadyWait` are the
start-up, in which the application chooses by `logImmediateSendSet()` whether
transfers are synchronous. If so, the main loop waits for the end of each
transfer, `busy` says in which of three loops, and a log entry is sent at once
(`entryLogEnqueue`, `FlowSent`, `LogSent`). `unsent` is a history variable: the
buffers whose content nobody has sent yet.

### TcpTransfering

An action of the driver is a call of `process()` or `shutdown()`, cut where the
code touches `mSocketFd` without its mutex: `connect()`, and `poll()` and
`getsockopt()` in `connClientDone()`, with `reg` for the number loaded. An action
of the user is a call of `read()` or `send()`, atomic under the mutex; a `send()`
on a socket that still blocks keeps the mutex (`left`, `done`). `disconnect()` is
an operator with the two things its callers differ in. `sock` is the state of
the connection in the kernel, `slot` whose file the number of the descriptor
names: after `close()` another part of the program may get it (`OtherOpens`).
Bytes are counted, not stored: `sent`, `got` and `out`, `acc`, `taken` are
enough to say what was lost or reported.

### TcpListening and SystemDebugging

`Ticked` is `treeTick()` of a process that its parent drives, one step of the
state machine per tick, and `Swept` is its removal. The theorems about
`ProcessTree` are what allows this shorter form: all processes here have one
driver. `ChildrenTick` is the first half of `treeTick()` of the server: the
listeners, then the connections in one step. Nothing of the environment
between the ticks of two children could be told apart from the same before or
after them, since no child looks at another one of the same level. The second
half, `process()` of the server, is a step for each of its parts:
`peerListUpdate`, `processTreeSend`, and the loop of `logEntriesSend()`
(`LogEntryTaken`, `logEntriesSend`, `LogEntriesSent`), between which others log
and peers come, read, stall and go. `Cancel` (the parent of the server repels it)
and `TreeChanges` are taken between two ticks only: the parent's driver and the
server's are the same, and the tree is read once per tick.

## 3. Runs

| Run | Question | Instance |
|---|---|---|
| `tree` | safety of the tree, that it implements `ScopedLifetimes`, that it gets empty after a stop, and that what is unused is deleted | a root that walks the tree, uses every request and may fail; a service in a thread, a grandchild that the service drives; the thread may fail to be created, so the root may drive the child, too |
| `whenfinished` | disagreement, see section 6 | root and one child |
| `pipe` | nothing lost, order, end, every reader ends | a blocking source with a reader that may quit, and a dropping pipe with a late reader; 3 particles, queues of 1 and 2 |
| `links` | links agree, nothing dangles, every operation ends | three pipes wired in every way by one thread, pushed by another |
| `links_deadlock` | disagreement, see section 6 | the owner of each end in a thread of its own |
| `links_wirers` | disagreement, see section 6 | the same |
| `editor` | the line, the prompt, the execution, the history | lines of 2 characters, 3 buffers (2 lines of history), letters and blank, chunks of 1 or 2 bytes |
| `wire` | null pointer, buffer limit, content on its way out | input buffer of 4 bytes, one tick of delay, both modes of transfer |
| `wire_reply` | disagreement, see section 6 | the same |
| `tcp` | one connection between its two threads: descriptor, end, error, counts, readiness, what the interface promises of a connection that is ready, the end of the process | server and client; 2 bytes in, 3 out, room for 2 |
| `debug` | the server from start to deletion: no connection left open, none kept when its peer has gone, no log entry and no last tree missed | four listeners, five scenarios of connections, entries and trees (`Small`) |
| `logloop` | disagreement, see section 6 | one log peer that may stop to read, one entry |

### Bounds

* Three processes are the least with a parent, a child and a grandchild, and
  with two children of one parent; every relation that the properties speak of
  is between two or three processes. The theorems of section 5 hold for any
  number of them.
* `NumBurst` is the number of ticks between two looks at `progress()`: 13
  by default (`numBurstInternalDrive`). It only delays what the driver sees; 1
  lets it look as often as possible, and the theorems hold for every number.
* `StartModes` and `Results` say which drivers and results a process may have.
  In `tree` the root ends by an error or by the signal, the child and the
  grandchild are services, as those of a program that waits for Ctrl-C are. The
  child is in a thread or driven by the root, so `destroy()` joins a thread on
  the way to `CloseCompletes` and `UnusedIsDeleted`. An external driver is in
  `whenfinished`; the theorems cover every mixture.
* Only the root uses the requests in `tree` (`Uses`); the child starts the
  grandchild and ends it by finishing. That is enough for each pair of threads
  that meet at a process: parent and child, viewer and child. The theorems are
  for all uses.
* The signal comes once (`stopReq`), at any time, also when `main()` has
  deleted the application; setting the bits again changes nothing.
  The viewer walks at most once for each call of its code (`walked`).
* A pipe needs two entries in a queue, with two children of which one is full,
  and a third particle to see one lost. With `NumParticles` = 3 the queue of the
  source is full, and the end has to wait behind data, on all branches.
* Two columns are enough to have a cursor at the start, inside and at the end,
  and a full line; three line buffers to go round the ring, with a line
  overwritten. The commands have a common prefix, so that completion both stops
  at the limit and completes.
* `SzBufInCmd` = 4 is an identifier, a character, an end mark and the byte that
  is never written; old end marks of shorter commands stay behind longer ones.
* `tcp`: two bytes are data before and behind the look of `process()`; a `send()`
  of three bytes into room for two is one that is cut short, or blocks. The
  theorems hold for every number.
* `debug`: the environment of one program run is one of the scenarios in `Small`
  (variable `may`), each the least in which a hazard can bite: two viewers of both
  address families and a queue for one (one is dropped or comes second, one
  stalls); one viewer and two changes of the tree; a log peer with the entry that
  must reach it and one more; a viewer and a log peer, where sending to the one
  logs for the other; a command line with its own connection, whose listener may
  fail. All of them at once would only interleave what shares nothing but the
  driver. `MaxConn` = 1 makes the queue full with the second connection.
  `CntSkipMax` = 1 lets a listener look at each tick; a larger one only delays.
* The log queue has no limit in the code and none in the model; it stays short as
  long as peers read (see section 6).

### Fairness

Safety has none. `tree` and `whenfinished`: each thread is scheduled (weak
fairness of `Step`, `Walk` and `main()`), and the code of a process ends its
`shutdown()` after finitely many calls: strong fairness of `ShutdownReturns`,
because each call that is not the last returns Pending and disables it. That is
what the framework asks of a process; it is not asked to end by itself, to
cancel or to repel anybody. A thread that waits for the mutex of a child list
gets it between two walks of the viewer, which are half a second apart: strong
fairness of `AddChild` and `EraseChild`. `pipe`: the sender commits what it has,
owners call `toPushTry()` again and again, and a reader calls `get()` again and
again until it has called `sinkDoneSet()`; one that has given up owes no read.
A late child is connected at some time, and a reader that has given up also
disconnects, both strong, since the caller comes back while the pipe goes on.
The second is what the other readers depend on: without it the run fails,
since a blocking pipe with a full queue in front of a reader that gave up is
blocked for ever (`Pipe.h:405`); `sinkDoneSet()` alone does not free it.
`links`: a thread that waits for a mutex
gets it if it is free again and again, which `std::mutex` does on the targets
although the standard does not promise it; the two threads of `links_deadlock`
wait for ever even so. `tcp`: the driver ticks, the clock of the connection
timeout runs, the user goes on reading (as every caller of `read()` in the
repository does, once per tick), and a `send()` that blocks goes on when the
kernel has room. The peer owes nothing: it may never answer, read, send or close.
`debug`: the driver of the server ticks and the period of the tree passes; peers
and other threads owe nothing, and `TreeReachesPeers` speaks of peers that stay
and read.

### Deadlock

TLC looks for it in every run but those of `PipeLinks`: a `Terminated` step, or
the calls a user may always repeat, are the only ways to rest. In `PipeLinks` it is switched
off, since a program that has deleted its pipes does stop; that no operation gets
stuck is `EveryOperationEnds`.

## 4. Properties

* **Tree.** `NoUseAfterDelete`: a deleted process is not ticked, driven, listed,
  the target of a `|=` of a process, in a handle that code can still use, or on
  the path of the walk (`NotTouched`). The signal handler is excepted, by name
  and no further: what it has in hand is the application, and that is deleted
  only when `main()` has left its loop (`main.cpp:72`, see section 6). `OneDriver`, `UndrivenIsAtRest`: a process has one driver, and after
  it nothing moves. `RequestsAreKept`: no overlapping `|=` loses a bit.
  `NoStrandedChild`: who finishes has told all its children to stop.
  `SkippedShutdownStartedNothing`: the shortcut of a cancelled process past
  `shutdown()` is harmless. `CloseCompletes`, `UnusedIsDeleted`: the tree gets
  empty after a stop, and what is unused is freed while the parent works.
* **Pipe.** `NothingIsLost`: what has left a blocking pipe is in each child that
  wants it. `EndIsComplete`: -1 of `get()` is final. `InOrder` for every pipe,
  the dropping ones, too. `EveryReaderEnds`: each reader gets to the end or gives
  up, also next to one that has given up.
* **Links.** `LinksAgree`, `NoDanglingLink`, `EveryOperationEnds`; all three for
  one thread that wires, next to others that push.
* **Command line.** `LineIsConsistent`, `PromptIsCurrent`, `ExecutesTheLine`, and
  the refinement `ImplementsHistory`.
* **Single wire.** `DataTxNotNull`, `SentIsValid`.
* **TCP transfer.** `SocketIsOwn`: under the mutex the number in `mSocketFd` is
  that of its own socket, or invalid, whichever thread closed it. `connect()`,
  `poll()` and `getsockopt()` run without the mutex and do use closed and foreign
  numbers in the model, as in the code; the property says when: only if the
  connection was ended meanwhile by `read()` or `send()`, so never with one
  thread. A finished process leaves socket and address open only if it was
  canceled in Existent, which skips `shutdown()`. `EndMeansAllRead`: the look of
  `process()` (MSG_PEEK) does not hide data behind an end. `ErrorIsTold`: an error
  seen in a user's thread makes the process fail; a reset that `read()` sees is
  none for the code, and ends it with success. `SendReportIsExact`: of each
  `send()` that does not fail; one that fails behind a part reports the error.
  `SendReadyMeansConnected`. `PeerEndIsSeen`: a connection whose peer is gone ends
  its process if the user reads on. `ImplementsTransfering`: the promise of the
  interface, for the zero from `mReadReady` on (section 6).
* **Debugging server.** `NothingLeftOpen`: no destructor closes a socket, so each
  process must have reached its `shutdown()` before it is deleted, also when the
  server is repelled while a connection is in the queue or just created.
  `LeaverIsClosed`, `NoEntryIsLost`, `TreeReachesPeers`. The last two speak of the
  peers that go on reading (`Conns \ Stalls`): `send()` to one that does not is
  given up, and what it carried is not repeated. In `debug` the peer that stalls is
  a viewer; a log peer that does keeps the driver in `logEntriesSend()`, which
  breaks the last and `LeaverIsClosed`, and is shown by `logloop`.

For each property of a passing run a mutant of the code is given that breaks it:
operators with a name like `childCanBeRemoved_StillUsed`, defined in front of the
definition they change.

## 5. Proofs

Every invariant, every action property and every refinement that a passing run
checks is also proved, for every value of the constants. That is: any finite or
infinite tree of processes, any start modes and results, any `NumBurst` > 0; any
tree of pipes with any sizes and any number of particles; any threads that link
them; any length of a line, number of lines, commands and chunks; any number of
bytes in and out of a connection and any room in the kernel; any size of the input
buffer of the single wire from 3 on; any connections, limits and scenarios of the
debugging server. Liveness stays with TLC.

Assumptions: each module states the types of its constants (`TreeAssumption`,
`PipeAssumption` and so on), TLC evaluates them in the runs. Those that say more:

* `TreeIsAcyclic`: "a set of processes that holds the parent of each of its
  members is empty". A process is created by one that exists already, and `main()`
  creates the first.
* `PipeAssumption`: a pipe has one parent at most (`parentAdd()` refuses a second
  one), the source has none, a reader has no children.
* `CommandingAssumption`: two lines and two bytes in a chunk at least (the code
  has 1 + `CONFIG_CMD_SIZE_HISTORY` = 6 lines and reads up to 7 bytes at once); a
  command has a name made of letters.
* `OneWirer`, no assumption of a module but the hypothesis of four theorems: one
  thread connects, disconnects and deletes pipes, while any number of threads push.
  That is how the repository uses pipes. Without it they are false: TLC finds that
  with two such threads (`links_deadlock`, `links_wirers`).
* `ListeningAssumption`: the connections of one run of the program are finitely
  many, since the limit of a queue is a cardinality.

| Module | Theorem | Says |
|---|---|---|
| `ProcessTree_proofs` | `TypeCorrect` | `Spec => []TypeOK` |
| `ProcessTree_proofs` | `RequestsInvariant`, `RequestsKept` | no request is lost |
| `ProcessTree_lifetimes` | `LifetimesInvariant`, `NothingUsedAfterDelete`, `DrivenByOne`, `UndrivenStaysAtRest`, `NobodyStranded`, `SkippedIsHarmless` | every other invariant of `tree`; `NoUseAfterDelete` with its exception of the handler |
| `ProcessTree_lifetimes` | `TreeImplementsScopedLifetimes` | `Spec => ImplementsScopedLifetimes` |
| `Pipe_proofs` | `PipeInvariant`, `TypeCorrect`, `NothingLost`, `EndComplete`, `Ordered` | every invariant of `pipe` |
| `PipeLinks_proofs` | `MutexesExclude`, `TypeCorrect` | types and exclusion, for any threads |
| `PipeLinks_proofs` | `LinksInvariant`, `LinksAlwaysAgree`, `NoLinkDangles` | the other invariants of `links`, under `OneWirer` |
| `PipeLinks_proofs` | `NoCircleOfThreads` | under `OneWirer`, not all who have begun an operation wait for a mutex |
| `SystemCommanding_proofs` | `EditInvariant`, `TypeCorrect`, `LineAlwaysConsistent`, `PromptAlwaysCurrent` | every invariant of `editor` |
| `SystemCommanding_proofs` | `ExecutesTheEditedLine` | `Spec => ExecutesTheLine` (an action property) |
| `SystemCommanding_proofs` | `RingInvariant`, `RingImplementsHistory` | `Spec => ImplementsHistory` |
| `SingleWire_proofs` | `WireInvariant`, `TypeCorrect`, `NeverNull`, `SentStaysValid` | every invariant of `wire` |
| `TcpTransfering_proofs` | `ConnectionInvariant`, `TypeCorrect`, `SocketStaysOwn`, `EndIsBehindData`, `ErrorsAreTold`, `ReportsAreExact`, `SendReadyIsConnected` | every invariant of `tcp`; `SocketIsOwn` with the uses without the mutex |
| `TcpTransfering_proofs` | `ConnectionImplementsTransfering` | `Spec => ImplementsTransfering`, from `mReadReady` on for the zero |
| `SystemDebugging_proofs` | `DebugInvariant`, `TypeCorrect`, `AllIsClosed`, `OwedEntryIsKept` | every invariant of `debug` |

**Requests.** That a `|=` loses nothing is not inductive: it depends on who else
may have loaded the byte. `RequestsInv` says: a process works on its own
children, and on itself only if it was asked to repel itself (`Owned`,
`SelfRepelled`); of a process that was asked so, nobody has a handle any more
(`Dropped`), so all that its parent can still do is `unusedSet()`, at its own
end. Then two overlapping `|=` have the same mask, and a load is still good when
the store comes: what the byte has got since is in the mask (`LoadIsGood`). The
mutant `WhenFinishedRepel_KeepsHandle`, a caller that keeps its pointer,
shows that the protocol of handles is what it rests on.

**Lifetimes.** `LifetimeInv` strengthens the four safety invariants by: what
a process not created yet looks like (`Young`), in which state the activation of
a process may be where (`Position`), who drives (`Driven`), that a child on its
way out is undriven and unused (`Removed`), that who is alive hangs on a parent
that is alive (`Listed`), that a working process has handles only of children it
has not repelled (`Handled`), that the walk holds the mutexes of a path from the
root and so nobody on it can be erased (`OnPath`), and what the loop of
ChildrenUnusedSet has done so far (`Told`). The module has one lemma for each
kind of step; steps of the same kind (treeTick() returns; a `|=` begins) share
one. `TreeIsAcyclic` is used where one level is not enough: that nobody is alive
any more when `main()` destroys the root, and that the root is alive when the
walk begins.

**Refinement.** `stageBar` maps a process that is alive to "finished" from
ChildrenUnusedSet on. `StartChild` is `Create`, the entry into the final states is
`Finish`, `DestroyChild` and `MainDestroysRoot` are `Delete`; everything else
stutters.

**TCP connection.** The properties are not inductive one by one. `IInv` adds: that
a socket is closed once, so that the first reason and its error number stay
(`ClosedOnce`); that the end is final (`EndIsFinal`: `read()` has no socket any
more, which is why neither zero nor data can follow; `ConnectionOver`, the state that the
interface is about, is looked up in the kernel and never goes back, `OverStays`); the count of a `send()` that
blocks (`Counts`, `SendIsExact`); in which state the driver may be between two
system calls and that a client past `getsockopt()` is connected, unless its socket
has been closed meanwhile (`Position`); that the driver leaves `process()` before it
ticks, and a client's socket is fresh until `connect()` (`AtWork`); and that a process that ended unasked
and with success has closed its socket, not after an error (`Told`). Each part has
a lemma with a step for each action that touches what it speaks of.
The assumption is `TcpAssumption` (the bounds are positive numbers).

**Single wire.** `DataTxNotNull` depends on the order of two processes: debug mode
goes on one tick before the reply is offered. `IInv` says that in debug mode a
pointer is there, or a reply, or the reply comes with the next tick, and that
content is asked for in debug mode only (`Pointed`); that a transfer is under way
only where somebody waits for its end (`Waiting`); and that the interrupt has room
for a byte and the zero behind it (`IndexFits`). The assumption is
`SingleWireAssumption`.

**Pipe.** `toPushTry()` looks at the children, takes the entry and commits it, each
under another lock, and `NothingIsLost` rests on what the look at a child is still
worth then. `HasRoom` says it: while the entry is on its way, each child of a
blocking pipe that was found ready and has not got it is done or has room,
because only its parent fills it and its reader only makes room. `EndIsComplete`
adds where the end is with respect to the activation (`Position`). `InOrder` is not
inductive: a child has only what its parent has taken (`Inherited`), before it gets
the entry at hand only what is older (`EntryIsNew`), and a pipe that waits for its
parent has nothing (`Fresh`). These three hold for dropping pipes, too, which
leave out particles but never turn them round.

**Links.** An operation is a chain of critical sections in which the two lists do
not agree. `WireOK` says of each operation under way what it has done so far,
`Agree` allows a link with one end for the pair of pipes that is worked on, and
`PushOK` that who walks along a list holds its mutex, so that nobody else changes
it. `HoldOK` names the mutex that an operation keeps while it takes others:
who pushes keeps one and takes none, so whoever waits waits for somebody who
pushes or has nobody to wait for. `SomebodyGoesOn` is not a property of a run; on
the instance of `links_deadlock`, where `OneWirer` does not hold, TLC finds it
violated by the circle of section 6.

**Command line.** `FitsInv` keeps `lineEnd`, the cursor and the limit together for
the edited line, with lemmas on what insertion, removal, completion and the moves by
word do to a line and to its length. `ShownInv` relates what the terminal shows to
the line in the middle of a chunk: they may differ only if a key of this chunk has
reported a change. For the ring, `Slot(n)` is the place of the line entered n lines
before; `RingInv` says that the places up to the position in the history are
filled, that one behind the last is empty while the ring is not full, and that
the edited one is none of them. The steps of `CommandHistory` are then
`lineAck` (enter), and the two history keys; the arithmetic modulo `NumLines` is in
lemmas of its own.

**Debugging server.** `NothingLeftOpen` needs, for each open descriptor and in
each tick, who is still bound to close it (`PlaceInv`, `TransInv`): the listener
that has it in its queue and has not shut down, or a `TcpTransfering` that is
not behind its shutdown. The process that is canceled before its first tick
skips the shutdown, so the invariant must exclude that a transfer is canceled in
Existent. For a command line, which creates its transfer at its first `process()`,
this is a matter of counting ticks (`CommandInv`): server, command line and transfer
go down one stage per tick, the server created the command line while it was
working, and it reaches the stage in which it cancels its children only after the
command line has had its first call. For the log, `PeerInv` and `OwedInv` say that a
peer which stays and reads is not taken out of the list, its transfer not
ended and its descriptor open, so that the send reaches it. The limit of a queue
(`QueueFits`) adds up what one call accepts from both sockets.

The invariants were checked with TLC on the instances of the runs before they
were proved.

**Only model-checked:** liveness (`CloseCompletes`, `UnusedIsDeleted`,
`EveryReaderEnds`, `EveryOperationEnds`, `PeerEndIsSeen`, `LeaverIsClosed`,
`TreeReachesPeers`): fairness and ENABLED are out of the prover's reach.
`NoCircleOfThreads` is the part of `EveryOperationEnds` that is safety. The five
properties of the runs of section 6 do not hold.

## 6. Disagreements found

Each is a run that TLC ends with a counterexample, quoted in "findings".

1. `whenFinishedRepel()` of a child in a thread that has just passed
   FinishedPrepare: never repelled while its parent works (`whenfinished`). The
   caller has got NULL and cannot repel it any more.
2. The destructor of a parent pipe against `parentDisconnect()` of its child
   deadlocks (`links_deadlock`); the header says "Thread safe".
3. `connect()` in one thread and `parentDisconnect()` of the same child in another,
   between its two critical sections, leave a link with one end (`links_wirers`);
   the header says "Thread safe".
4. On the microcontroller, an answer "nothing to send" clears the mark of the
   buffer sent before, which may hold a new reply (`wire_reply`).
5. `send()` avoids a message for a closed socket, because of the "endless loop for
   the SystemDebugging() log peers", but logs one for a full socket:
   `logEntriesSend()` to a log peer that does not read feeds its own queue and
   does not end while the peer stalls (`logloop`).

Others follow from the models, or from the code next to them, and have no run of
their own:

* A signal after `main()` has destroyed the application writes to the deleted
  object (`main.cpp:72`, `:158`). The model does it (`CloseStores` after
  `MainDestroysRoot`, reached in `tree`), and `NoUseAfterDelete` excepts it by
  name. A signal between the registration of the handler (`main.cpp:89`) and the
  creation of the application (`:96`) goes through a null pointer; the model
  begins after it.
* `read()` returns 0 while `mReadReady` is not set, and that is for ever after a
  failed address, socket or option, or a cancel in Existent
  (`TcpTransfering.cpp:318`). `Transfering.h:53` says of a 0 that data can be
  expected in the future. `Transfering` holds the zero to this only from `ready`
  on; without that condition `ImplementsTransfering` does not hold.
* `connect()`, `poll()` and `getsockopt()` may act on the file of another part of
  the program, after `read()` in another thread has closed the socket
  (`TcpTransfering.cpp:207`, `:534`, `:557`; `SocketIsOwn`).
* A connection canceled in Existent leaves its descriptor and address to nobody:
  `treeTick()` skips `shutdown()`, the destructor closes nothing
  (`Processing.cpp:200`). The debugging server never does it (`NothingLeftOpen`).
* With synchronous transfers, a log entry between the transfer of a reply and the
  tick that clears its mark takes over `mValidIdTx`, so that the reply is sent
  twice (`targets/stm32/SingleWireTransfering.cpp:137`).

### Hazards no property covers

Next to those with a note in `PROJECT.json`:

* `Processing.cpp:342`: `procTreeDisplaySet()` changes `mStatDrv` with a load and a
  store next to the driver. `Processing.cpp:823`: in the embedded build `start()`
  finds the child list full after it has created the driver.
* `Pipe.h:389`: `toPushTry()` looks for an entry and takes it under a second
  lock, right as long as one thread reads. `Pipe.h:118`: the move constructor
  takes the second time of an entry from the first one.
* `SystemCommanding.cpp:664`: the list of commands is read without the mutex of
  `cmdReg()`. `:1272`: a character code is added to `keyF0`. `:1390`: after IAC the
  key state is left on DO only. `:668`: a line that begins with a blank has an empty
  first word, which is equal to the shortcut of every command that has none
  (`cmdReg()` and the help take an empty shortcut for none). `:362`: in the
  automatic mode the command is what the first `read()` finds, also when it
  arrives in two parts; of an empty one, the character in front of the line
  (`:372`) and the line of index -1 (`:630`) are read.
* `targets/stm32/SingleWireTransfering.cpp:253`: a command without an end mark is
  dropped.
* `TcpTransfering.cpp:397`: `readFlush()` repeats while `read()` does not return
  zero; behind the end of a connection `read()` is negative for ever.
* `EspWifiConnecting.cpp:423`: a flag is set by tasks of the vendor's driver.
* `TcpListening.cpp`, `connectionsAccept()`: an accepted descriptor whose address
  cannot be read is returned from without `close()`.
* `SystemDebugging.cpp:549`: after the server has ended, entries are still queued
  and nobody takes them.
* `SystemDebugging.cpp`, `processTreeSend()`: the result of `send()` is ignored; a
  viewer whose socket was full has the old tree until the next change.
* `Transfering.h:54`: `exactRead()` reads what there is; a part of a packet read
  before it returns zero is gone for the next call.

## 7. Not modelled, and why

* Log: formatting and output. WiFi: the driver it wraps is not in the repository.
  Examples, generators, converter, build files: no core logic.
* Of `Processing`: a second `start()` of a child that has a driver of its own; the
  fixed-size child list of the embedded build, the text of
  the tree (`processTreeStr()` is the walk only), `applicationClose()`, and
  `procTreeDisplaySet()`.
* Of the pipe: contents and times of particles.
* Of the command line: the internal commands, `cmdReg()`, the lookup of a command.
* Of the single wire: what a registered command answers, errors of the
  configuration at the start (no function to send with, a second instance).
* Of TCP: that the kernel refuses the options of a socket that is connected, in the
  server (`TcpTransfering` alone has it); errors of `accept()` other than "nothing there", the text of addresses,
  the start-up of Winsock; `readFlush()` and `exactRead()`, which only repeat
  `read()`.
* Of the debugging server: the level of an entry, a filter in front of the queue;
  the text that is sent. A `create()` that fails for lack of memory, which leaves
  the accepted descriptor open (`SystemDebugging.cpp:222`, `:326`, `:338`,
  `SystemCommanding.cpp:217`). A first text to a new peer that is larger than the
  buffer of its socket: before the first tick of the connection the socket blocks,
  and the driver with it; a peer stalls from the first tick on.
* A concrete process is free to call what `Uses` and section 2 name, at any time,
  so that no example has to be modelled.

## 8. Plan

Written, in this order: `ProcessTree` with `ScopedLifetimes` and its proofs,
`Pipe`, `PipeLinks`, `SystemCommanding` with `CommandHistory`, `SingleWire` and its
proofs, `TcpTransfering` with `Transfering` and its proofs, `TcpListening` and
`SystemDebugging`, the proofs of `Pipe`, `PipeLinks`, `SystemCommanding` and
`SystemDebugging`.

Next:

1. An abstract specification of the pipe (a stream that each child follows) and
   the refinement, from the invariant that is proved.
2. `ProcessTree`: the child list of the embedded build and what `start()` does
   when it is full.
3. `SystemCommanding`: registration and lookup of commands, with the mutex that
   only one of the two takes.
