# A verification development for com_lite

com_lite is a small chat server in C++: clients connect over TCP, log in as a
user, and send frames that the server forwards to every device on which the
receiver is logged in. This directory models the server and its test client in
TLA+, checks the models with TLC on small instances, and proves the safety of
all of them with TLAPS for every value of their parameters.

## The system

All server code runs on one thread. Paths below are relative to `src/src/`.

| Component | Source | State | Operations |
|---|---|---|---|
| core event loop | `server/core/core.cpp` | `conns_`, the epoll masks, `pending_close_` | `init`, `run`, `handle_accept`, `handle_client`, `update_events`, `close_client`, `drain_pending_close`, `~Core` |
| connection buffers | `server/core/connections.cpp` | `read_buf_`, `write_buf_`, `write_pos_`, `peer_closed_` | `on_readable`, `on_writeable`, `send` (with `flush`, `compact`) |
| users group | `server/coordination/users_group.h`, `user.h` | `uid_to_fd_`, `fd_to_uid_` | `register_user`, `delete_fd`, `has_fd`, `query_all` |
| controller, assembler | `server/controller/controller.cpp`, `server/coordination/assembler.h` | none of their own | `process`, `delete_fd` |
| frame codec | `common/encoder.h`, `decoder.h`, `message.h`, `frame_header.h` | none (the core's `encode_buf_` is handed in) | `encode`, `decode` |
| json library | `../include/json.hpp` (vendored) | parser, serializer with its 512-byte buffer | of these: strings and numbers |
| server wiring | `server/main.cpp` | none | construction, the two handlers, the last try/catch |
| client | `client/main.cpp` | one receive buffer | ten manual test scenarios (`m1` to `m10`) |
| unit tests | `../tests/` | | read as documentation of what is intended |

The core calls upwards through two callbacks. The message handler gives a
decoded frame to `Controller::process`, which changes the users group and
returns an *out queue* of (frame, fd) pairs; the core encodes and sends them at
once, to the connection it is handling and to others. The disconnect handler
runs when a connection is destroyed and removes its binding. The layers share
no state but the fd numbers, and those are reused by the kernel.

### What is hard in it

- **fd reuse.** A binding, an epoll event or a pending close that outlives its
  connection refers to whoever gets the number next. The code answers with
  deferred destruction: `close_client` takes the fd out of epoll and queues it,
  and `drain_pending_close` destroys it when the batch of events is over.
- **Writing to connections other than the one being handled.** The target may
  block, may be dead or above its high-water mark, or may be doomed already by
  an earlier frame; the sender must not pay for it and must get its own reply.
- **Stale events.** Peers and kernel go on between `epoll_wait` and the handling
  of an event, and one event of a batch can doom the connection of a later one.
- **Two tables for one relation.** Logins and disconnects in any order must keep
  `uid_to_fd_` and `fd_to_uid_` exact inverses.
- **Partial writes.** The kernel may split a write anywhere; cursor, clearing and
  compaction must neither lose nor repeat a byte nor let the buffer grow.
- **Half-closed peers** get what is buffered for them before they are closed.
- **A byte stream for frames.** A read may end inside a header or bring several
  frames. The read buffer has no limit of its own: its bound rests on the order
  of the checks in `Decoder::decode`.
- **Memory and system calls run out** anywhere: a signal ends `epoll_wait`, an
  allocation throws in the middle of a login or a close. The code answers with
  the end of the process, and with an order of steps inside `encode`.
- **Texts are made anew.** `Encoder::encode` serialises the `Message`, not the
  bytes received: lengths change on the way, enums are cast from any number, and
  the JSON library checks UTF-8 with two different automata.
- **The client** alternates sending and receiving on one thread, and takes its
  login result and the frames after it from the same stream.

`PROJECT.json` lists every hazard at its line with the properties that cover it.

## Modules

| Module | What it is |
|---|---|
| `Presence` | abstract: for every user the devices online, oldest login first |
| `UsersGroup` | the two tables; `register_user` and `delete_fd`; implements `Presence` |
| `UsersGroupProofs` | its theorems |
| `ByteStream` | abstract: a bounded FIFO of bytes with all-or-nothing sends, and an end behind the last byte |
| `Connections` | the write side of a connection, byte by byte; implements `ByteStream` |
| `ConnectionsProofs` | its theorems |
| `FrameQueue` | abstract: frames handed over whole and in order, junk refused |
| `Framing` | the read side of a connection, byte by byte, and the drain loop; implements `FrameQueue` |
| `FramingProofs` | its theorems |
| `Controller` | frames, the assembler, `process` and the disconnect handler over the tables of `UsersGroup` |
| `Service` | abstract: what the server promises to its peers, over `Controller`, without epoll, batches, masks or deferred closing |
| `Core` | the event loop, over `Controller`, with kernel and peers as environment |
| `CoreRefinement` | the mapping under which `Core` implements `Service` |
| `CoreProofs` | theorems of `Core`: deferred destruction, types, bindings and fd reuse; nobody forgotten, unanswered, or closed for another's fault; who gets which frames, and in which order |
| `Server` | the process around the event loop: `main`, `init`, a failing `epoll_wait`, memory that runs out, the destructors |
| `ServerProofs` | `Core` implements `Service`; what failures leave behind; what of all this holds in the process |
| `Codec` | a message from one `decode` through the controller and `encode` to the next `decode`: lengths, numbers, the reused buffer |
| `CodecProofs` | its theorems |
| `JsonString` | a text from the sender's JSON parser through the serializer to the receiver's parser |
| `JsonStringProofs` | its theorems |
| `Client` | the test client against a server that replies, drops a reply, repeats it, forwards or closes |
| `ClientProofs` | its theorems, and what strings frames together and takes them apart again |
| `MC...` | the instances for TLC |

`Core` extends `Controller`, which instantiates `UsersGroup`; `CoreRefinement`
instantiates `Service`, which extends `Controller` too; `Server` extends it.
`Connections`, `Framing`, `Codec` and `JsonString` are the layers below a frame
and stand alone: what `Core` takes from them is whole frames, accepted or
refused.

### How state and actions correspond to the code

*UsersGroup.* `uid_to_fd` and `fd_to_uid` are the two hash tables, partial
functions whose domain is the set of keys; a `User` is its vector of fds.
`RegisterResult` is the classification of `register_user`, `AddFd` its commit,
`DropFd` the body of `delete_fd`.

*Connections.* One step is one call of the class. `flush` takes any number of
bytes; when it does not take all, it ends with `would_block` (and compacts) or
with a failure. `wire` is what the call handed to the kernel, `fin` whether
`on_writeable` has shut the write side down, which it does when `flush` reports
`ok` for a peer that has closed. Retries after EINTR are invisible.

*Framing.* `read_buf` is `read_buf_`; `ReadSome` and `ReadNothing` are the turns
of the loop in `on_readable`, `DrainFrame`, `DrainRefuses` and `DrainEnds` those
of the drain loop. `decode` keeps the order of the code's checks. What a header
means and which bodies parse are parameters (`Known`, `BodyLen`, `Parses`). The
handler is invisible here, except that sending its answers may end the
connection. `unhandled` is a history variable: what the peer has sent and nobody
has got.

*Controller.* A frame is its opcode, the user it names and, for a reply, the
frame it echoes. `credential` is the outcome of the table lookup in `auth`; an
unknown user is one with a wrong credential. `fits` says whether the body,
serialised again, is still within 65530 bytes. It need not be: `Encoder::encode`
serialises the `Message`, not the bytes received, so the one-byte content of an
ack's reply becomes six bytes and an enum received as `-2` is written as `254`.
A `garbled` frame is whatever `Decoder::decode` refuses. `out_queue` and
`process` are the two effects of `Controller::process`.

*Core.* `pc` says where the thread is: `wait` (in `epoll_wait`), `dispatch` (at
the loop over events), `write`, `read` and `drain` (in `handle_client`), `close`
(in `drain_pending_close`). A step reaches from one system call to the next, or
handles one frame. Between any two steps peers connect, send, read, shut down or
reset, so `batch` may be stale when it is handled. `sock` is the kernel's socket
and its peer, of which `tx` fills up when the peer does not read; `EventsOf` is
level-triggered epoll. The fd given to an accepted connection is any that is not
open, also one closed in the previous batch. Buffers hold whole frames;
`Connections` and `Framing` have the bytes. `loginOf`, `greeting` and `owed` are
history: who logged in on the connection, what became of its login result, and
which reply is still to be sent.

*Service.* Per connection an inbox, an outbox of which the server still holds
the last `unsent` frames, and what is still to be delivered for the frame
handled last. `Handle` takes one frame; `Deliver`, `Lose` and `Refuse` dispose
of one answer, and no frame of anybody is handled before they are done, so that
peers see the frames of others in one order. `Fail` is the only way a
connection ends by itself: its peer is gone, its next bytes are no frame, or it
has stopped sending and all is handled and transmitted. `CoreRefinement` maps
`Core` to it. A connection has *failed* when it is in `pending_close_`, or is
the one being handled and marked fatal; its inbox is what is in the read buffer
and in the kernel, empty once it has failed; its outbox is what the kernel and
the write buffer hold for it, nothing when the peer is gone.

*Server.* `phase` is `init`, `running`, `unwinding` or `over`. Any call of
`Core::init` may fail. Each `ThrowIn...` is an allocation that fails: the
exception leaves the state as it is at that point of the code and ends `run()`.
The handler may throw before it changes a table, between its two tables, or
behind them, when the frame is copied or queued; a read loses the bytes of its
last `read()`, which no buffer has taken. `Unwind` is the destructors. Everything
else are the steps of `Core`.

*Codec.* A buffer is a sequence of cells: three for a header, one for each byte
of a body, which carries what text it is from and where in it, so that a mixed
or truncated body shows. `Number` is the numbers a body may have for an enum:
a value without what follows its point, the bytes of its text, and whether it
is a float. `Cast` is the conversion to an enum of 8 bits (modulo 256; of a float
truncated, and undefined out of range); `Digits` is `count_digits` for what comes
out of it. `Serialize`, `Resize` and `Write` are the parts of `encode` between
which it may fail; `Send` is the core's use of the result. Names, times,
padding and contents count by their lengths only.

*JsonString.* A text is a sequence of pieces: bytes as they are, short escapes,
`\u` escapes, pairs of them. `Scan` is one turn of `scan_string`, which leaves
bytes of the string in `token`; `Dump` takes one of them through the automaton
of `dump_escaped` and gives the piece that comes out to the receiver's parser.
`expects` and `again` are the ranges the two parsers demand of the next bytes,
`utf8` and `codepoint` the automaton, `bytes` and `top` the serializer's buffer.

*Client.* `mode` is the scenario and `pc` the loop the thread is in. The server
is environment and says only what the client can see of it: it answers the
login, replies to a request or drops the reply, sends frames nobody asked for
(what others write, or a reply a second time), and closes at any time, when what
it had sent may be cut off anywhere. `down` is the stream towards the client, in
bytes; `up` only a number of bytes, at most what the kernel holds. Timeouts and
deadlines are steps that may come whenever the code would wait, and a failing
`poll` ends the scenario. `SendAll` is `send_all`, which blocks; `SendSome` and
`SendBlocked` are the loop of `run_sender`. `sent` and `missed` are history: how
many frames the server sent behind the login result, and those the client has
not received whole. The ten modes are seven scenarios: "single" is `m1` and
`m4`, one frame and its answer, "login" is `m7`, one login and one `recv`. The
opcode of that answer is always a response, as only this login was sent.

Operators named "Seeded fault" in a comment are not used by any specification.
Each is a plausible mistake in the definition it stands next to, and shows that
the property listed with it in `PROJECT.json` notices.

## Runs

| Run | Instance | What it shows |
|---|---|---|
| `users_group` | 2 users, 4 fds | `InvariantsOk`, `NoRebind`, `ImplementsPresence` |
| `connections` | frames of 1 to 3 bytes of 2 values, high-water mark 4, threshold 1 | `TypeOK`, `BufferBounded`, `StatusTellsBacklog`, `ImplementsByteStream` |
| `framing` | 3 items out of 2 frames and 4 kinds of junk, header 2, body up to 3, soft cap 5, reads up to 3 bytes, fair | `ReadBufferBounded`, `ImplementsFrameQueue`, `FramesServed` |
| `json_string` | 31 bytes and 27 code units at the edges of every range, buffer of 20 bytes | `DumpNeverThrows`, `NeverLonger`, `ReadBackSame`, `BufferFits` |
| `codec` | limit 15, bodies below it, at it and above it, 5 integers and one float, out of range, 2 frames | `StreamInSync`, `DroppedOnlyNearLimit`, `FailureLeavesNoTrace` |
| `core` | 2 users, 2 fds, 3 connects, 3 frames (logins, requests, garbled), batches of 2 | `TypeOK`, `BindingsAreCurrent`, `NoMisdelivery`, `ClosedOnce`, `EveryAskerAnswered`, `LoginResultFirst`, `HandledIsAlive`, `NothingStalls`, `OnlyTheFaultyClosed`, `ImplementsService` |
| `core_live` | frames of 1 user (login, request), 2 fds, 2 connects, 3 frames, batches of 3, fair | `OutputDrains`, `DeadConnectionsGo`, `InputConsumed` |
| `server` | 1 user, 1 fd, 2 connects, 3 frames of 9 kinds, fair | `IntactWhileRunning`, `ServesUntilUnwinding`, `BacklogServed` |
| `client` | 7 scenarios, 4 frames of 2 bytes, kernel buffer 3, replies of 3 and 5 bytes, 1 forward, fair | `InStep`, `LimitNeverStrikes`, `PassIsTrue`, `UnreadBounded`, `ClientEnds` |
| `core_long_login` | 1 fd, 1 connect, 2 frames | violated: `LoginAnswered` |
| `client_login` | `m8` of `client`, forwards from the first moment on | violated: `InStep` |
| `client_second_echo` | `m1` and `m4` of `client` | violated: `OneEchoOnly` |

Two of the properties say together what a peer may rely on.
`ImplementsService` is about everything it sends and gets: nothing is handled
twice, out of order or after its connection failed, no answer is lost but with
its receiver or for its length, and no connection fails without a cause of its
own. The liveness properties say that these things do happen.

### Bounds

- Two fds and three connects make the kernel hand out a number again while
  another connection is open; three frames are two logins and a request, or two
  logins and a second login on a bound connection. Four fds of two users let the
  middle one of three devices leave.
- `HighWater = 1` and `TxCap = 1`, in frames, reach every answer of `send`: one
  frame is under way, one waits, the next is refused. They hide one behaviour,
  which the proof of `NothingStalls` brought up: with room for two, a frame
  forwarded to a half-closed connection can flush what it had left, so that
  nobody waits for anything and yet it has to be destroyed. `update_events` is
  not called again before its EPOLLOUT, which destroys it. The theorem covers
  that case with all others.
- `ReadCap = 2` separates the soft cap from a drained socket.
- `MaxEvents` 2 with three sockets lets a batch be smaller than the ready set.
- For the write side, four bytes and a threshold of one put every boundary of
  `flush`, `compact` and the high-water test within reach; the theorems cover
  all other values.
- For the read side, the largest frame has exactly the soft cap's length, as
  nearly in the code (65536 bytes), and a read of 3 bytes is shorter than it and
  longer than a header, so it can end anywhere and can bring the end of one
  frame and the start of the next. Junk is refused by its own bytes; a frame
  that claims to be longer than it is would make the next one part of it, in the
  code as in the model, and is not an item.
- In the client, 4 frames are more than fit under way, so that `UnreadBounded`
  can fail; two sizes of replies and reads of 5 bytes cut the stream anywhere.
  `MaxAcc` is 9 bytes, the largest frame less one byte and one read: with a byte
  less the limit would strike a server that sends only frames.
  `Quiet` says that nobody writes to the client until it has its login result:
  without it, `InStep` is violated (`client_login`). `InOnePiece` says that one
  `recv` returns all of the login result; `pre_login` calls it once and wants no
  more than a header, so `InStep` does not hold without it either.
- In `server`, one fd and two connects are a process out of file descriptors:
  the second peer waits in the backlog while the first is served. Its nine kinds
  of frames fire every branch of `process`, and it is this run that shows the
  refinement of `Service` for answers too long to send. Memory may run out once;
  the process does not survive it.
- In `codec`, a limit of 15 and texts from 7 to 18 bytes put messages at the
  limit and on both sides of it, on the way in and, grown by their enums or an
  ack's content, on the way out; the integers 511, -1 and -2 become 255, 255 and
  254. The second frame is shorter, longer or as long as the first.
- In `json_string`, bytes and code units are the first and last of every range
  that parser, encoder or automaton tells apart. The text is endless: the state
  forgets it, character by character. A buffer of 20 has to be
  flushed after two escapes.
- Two fds are interchangeable, and so are the users: `core` uses both symmetries.
  The runs with liveness use none.

The specifications of all but the users group may stop: texts and frames run
out, a server process ends, peers out of budget leave the server in
`epoll_wait`, and a failed connection is not used again. Deadlock is therefore
not checked for them; `NothingStalls` and the liveness properties say what must
not be left waiting.

### Fairness

`FairSpec` of `Core` assumes that the server thread goes on whenever it can (it
has no locks and its only blocking call is `epoll_wait`), and that a peer that
is still there reads what was sent to it. The second is an assumption about
clients: towards one that never reads, output waits until it passes the
high-water mark or the peer goes. The run uses batches with room for every
socket, so that which ready sockets `epoll_wait` reports is not an issue; the
code's 64 relies on the kernel taking turns.

`FairServerSpec` of `Server` assumes the same of the thread and the peers while
the loop runs, and that destructors run. `accept` may fail for any reason each
time it is called, but not for ever while a peer is waiting and an fd is free.
That other system calls succeed or that memory lasts is not assumed:
`BacklogServed` lets the loop end instead.

`FairSpec` of `Framing` assumes that the thread goes on (epoll is
level-triggered, so a socket with something to read is reported until it is
read), and that what the peer has sent, and the end of its stream behind it,
arrives: reads that find nothing do not go on for ever. Nothing is assumed of the
peer, which is the point of `FramesServed`: it may be waiting for its answer.

`FairSpec` of `Client` assumes that the client goes on whenever it can, its
timeouts and deadlines included, and that the server takes a request it has
received, or closes for bytes that are none, which is the server's own liveness
(`InputConsumed`).

## Proofs

All of them are for any set of users, fds and bytes and any limits, except for
the assumptions at the end.

- *Users group.* `TypeOK /\ InvariantsOk` is inductive. The classification lets
  `AddFd` run only for an fd in neither table; that each fd is listed exactly
  once (`BackwardExact`) is what makes one `DropFd` clear it from both. The
  lemma `DeleteDevice` says what removing the only occurrence of an element
  does to a sequence. `NoRebind` and the refinement of `Presence` follow from
  the invariant, step by step.
- *Connections.* The invariant joins `TypeOK` with `Compacted`, `BufferBounded`,
  `StatusTellsBacklog` and `ShutThenClosed`: once the write side is shut down,
  the core calls it no more. `BufferBounded`
  is not inductive alone: between calls the sent part must be at most the
  threshold or half the buffer, which `compact` re-establishes exactly when
  `flush` ends with `would_block`. The refinement rests on two lemmas about
  sequences (`AdvanceCursor`, `AppendToUnsent`) and one about `flush`.
- *Framing.* What the drain loop leaves is shorter than a frame (lemma
  `Residue`), because `decode` answers `incomplete` only for a length within the
  limit; with `WireSize + MaxBody <= SoftCap` it is below the soft cap, so every
  `read` starts below it (`ReadsBelowCap`). With that conjunct, and with
  `NothingLeftBehind` for the time between events, `TypeOK` and
  `ReadBufferBounded` are inductive. With the constants
  of the code (6 + 65530 <= 65536, reads of 4096) the bound is the 69631 of
  `core.cpp:179`.
- *Framing implements FrameQueue.* `InOrder` says that buffer and wire together
  hold the items nobody has got yet, one behind the other, the last perhaps cut
  once the peer has ended. `Spelled` says so without recursion: there are places
  where each item ends. Sending adds a place, reading moves bytes over the
  boundary, a frame taken out shifts all places (`SpelledRest`). `decode` looks
  only at the bytes of the first frame, so on the buffer it gives the verdict it
  would give on the first item alone (`SameVerdict`); what is handed over or
  refused is therefore that item.
- *Core.* All its safety properties are proved, each from an invariant added to
  those before.
  - `Struct` is deferred destruction: epoll watches exactly the connections that
    do not wait in `pending_close`, none waits twice (`Closing`), and the one
    being handled is watched until the last step of `handle_client`
    (`Handling`). `ClosedOnce` and `HandledIsAlive` are parts of it.
  - `Data` is `TypeOK` in parts, with the kernel's limit on what it holds.
    `UGP!Inv` is the users group's invariant, carried over because every step is
    a step of `UsersGroup` or leaves the tables alone (`TablesStep`). The out
    queue needs it: its targets are fds of the tables.
  - `Bound`: the tables name only open connections, with the user that logged in
    on them, and an fd that is not bound has no login left over. Destruction
    removes connection and binding in one step.
  - `Watching`: between two events every watched connection is watched for all
    it waits for, except the one being handled, whose mask `handle_client` sets
    at its end.
  - `Owing`: while a reply is owed, it is in the queue of frames to send, or the
    connection has failed.
  - `Blame` and `HungUp`: `fatal`, `rst` and a hang-up event, however stale, come
    from the peer of the very connection that is doomed for them.
  - `Routed` carries a request from the tables to the queue of frames to send,
    to the write buffer and to the kernel: `loginOf` of its target stays the
    same, or the target is gone with all its buffers.
  - `Greeted`: a connection that has logged in without its result sent or dropped
    is the one being handled, with the result in the queue, or has failed; until
    then no request in the queue is for it.
- *Core implements Service.* `RInv` joins the invariants above with `Quiet`:
  nothing is queued for delivery outside the drain loop, an fd without a
  connection has a fresh socket, and a peer is counted as closed only once all it
  sent has been read. Under it every step simulates one step of `Service` or
  none: `Accept` is `Open`; `DrainFrame` is `Handle`, or `Fail` when the bytes
  are no frame; `SendFrame` is `Deliver`, `Lose` or `Refuse`; `HandleWrite` is
  `Transmit` or `Fail`; the end of `handle_client` and a hang-up are `Fail` or
  nothing; `DrainPendingClose` is `Close`; reading, `epoll_wait` and the rest
  are invisible. The invariant is needed where the two differ: that a hang-up
  event, however stale, is the reset of this very peer; that a closed peer's
  connection ends only with empty buffers; that an fd has nothing left of its
  last connection when it is given out again.
- *Server.* `ProcessInv` says that until the process unwinds, all the invariants
  above hold (`CoreInv`). A failure may leave the state of the event loop in
  pieces, but then it also leaves `run()` in the same step, and nothing looks at
  the pieces any more. The same invariant carries the results about the loop
  over to the process: every safety property of `Core` holds while the loop runs
  (`SafeWhileRunning`; `IntactWhileRunning` follows), and until the process
  unwinds, its steps are those of `Service` or invisible
  (`ServedUntilUnwinding`).
- *Codec.* `CodecIInv` follows one `encode`: the text is that of the pack and
  within the limit (`Texted`), the buffer has grown enough before it is written
  (`Grown`), and what is reported valid is the frame of the pack (`Encoded`),
  whatever else the buffer holds (lemma `WrittenOver`). A pack that came in is at
  most two bytes shorter than its text, seven for an ack (`AcceptedPack`, from
  `CastLen`: a number becomes an enum with at most one digit more).
  `Strung` says that the receiver's buffer is the frames not yet read, one behind
  the other; `ReadsFrame`, that its decoder takes exactly the first of them.
- *Client.* `IInv` says that what is held, what is under way and what a closing
  server cut off are the frames not counted (`InStream`), that the frames sent
  and not missed are those counted (`Counted`), that all is sent once the client
  only waits (`AllSent`), and that the sender's requests under way and its
  unread replies together fit into the kernel's buffers and the frame it is
  sending (`Unread`): it begins a frame only with nothing unread. That is why
  `UnreadBounded` holds, and it is not inductive without counting in bytes. All
  theorems assume `Quiet` and `InOnePiece`; without them, the client gets out of
  step. `LimitUnused` says that no loop ends for the limit on the buffer when a
  frame less one byte and one chunk fit into it (65535 + 4096 into 1 MiB,
  `main.cpp:69-72`): being in step, a client holds less than a frame when it
  calls `recv`.
- *Induction in ClientProofs.* `drain_frames` takes frames out until none is
  complete (`drained`, a recursive function), and the stream is a sequence of
  frames made flat. The rules of induction in the library have an operator as
  parameter, which the provers cannot instantiate. `SetInduction` has a set, the
  numbers for which a fact holds, and follows from the library's theorem that a
  well-founded relation has minimal elements. With it, `drained` satisfies the
  equation that defines it (`DrainedIs`), and what it takes out of a buffer are
  the first frames of the stream (`DrainFrames`).
- *JsonString.* `IInv` says that the receiver's parser demands what the state of
  the automaton stands for (`Demand`), that the automaton, run over the bytes in
  `token`, gets to what the sender's parser demands (`Runs`), that the code point
  is bounded by what the automaton has read, and how far the buffer may be
  filled in each state; it adds up the lengths. All four properties follow. The
  heart is that the classes and transitions of the automaton fit the ranges of
  the parser (`FirstByte`, `InStep`): they are two tables in the code.
- Assumptions: the serializer's buffer has at least 20 bytes (512 in the code),
  a frame is never empty (it has a header), the compaction threshold is below
  the high-water mark (8 KiB and 1 MiB in the code), the limits of `Core` are
  positive, its listening fd is not a client's, and a peer's items are whole
  frames or refused by their own bytes (`ItemsAssumption`: it gives the word
  item its meaning and restricts no stream that is cut into items this way). A
  content is at least one byte (`is_valid`), no longer than it is dumped, and
  dumped no longer than it came in, which is what `NeverLonger` says of each
  character; a number's text has a byte for each digit, the sign, a point or an
  exponent (`NumberAssumption`). The server's frames are whole, and its login
  result, which echoes the client's own short login, fits into one `recv` of
  4096 bytes.

The theorems of type correctness for users group and framing are there for the
others; no run checks these formulas, which are conjuncts of what it checks.

Only model-checked: liveness (`OutputDrains`, `DeadConnectionsGo`,
`InputConsumed`, `FramesServed`, `BacklogServed`, `ClientEnds`). Liveness under
fairness is beyond the prover, as is ENABLED. Every other property of a
passing run is a theorem.

## Findings

- `client/main.cpp:123` says that the client consumes one frame of response
  after its login. `pre_login` drops all that one `recv` returns, so a frame
  forwarded right behind the login result is lost, and if only its beginning was
  received, the client reads the rest as headers (`client_login`). It also takes
  the one frame for one `recv`: of a login result that arrives in parts only the
  first is consumed.
- `client/main.cpp:12` says that more frames than the one echo give an exit
  status other than 0. `m1` and `m4` look only at the number of complete frames
  when the first has come, and pass with the beginning of a second one in the
  buffer, which `m2` and `m3` would refuse; one that comes later is never read
  (`client_second_echo`). So what `PassIsTrue` says of a PASS is that as many
  frames have come as were asked for, not that each request was answered: a frame
  nobody asked for may stand for a reply that was dropped.
- `docs/architecture.md:205` says that a successful login is answered with
  `response(ok)`. When the echoed login no longer fits once serialised again,
  the connection is bound and the answer is dropped (`core_long_login`).

`core.cpp:309-314` calls the guard of `close_client` more than defensive. In the
model no call site needs it: targets that are doomed are skipped, events for
them too, and the handled connection has one place where it is closed.
`ClosedOnce` would hold without it; it is what keeps it true when a call site
is added.

Comments that are out of date without any consequence:

- `controller.cpp:100`: all outgoing frames go to the fd they came from;
- `assembler.h:15-17`: writing to other fds does not exist yet;
- `TODO.md`: only the first device of a user is served;
- `core.cpp:322`: `pending_close_` holds at most the closings of one batch, at
  most 64. One event can doom several connections, the targets of its frames and
  its own; the code does not depend on the number;
- `core.cpp:173` and `:312`: a user that sends to itself sends to the connection
  being handled. Requests fan out, so its other devices get the request as well;
  the code compares fds and stays right.

An accepted fd is lost when memory runs out in `conns_.try_emplace`
(`core.cpp:120-122`): it is in no table yet. The process that would own it is
about to end, which closes it.

## Not modelled

- The client's arguments, which are constants of its model, and what it prints.
- The return values of `epoll_ctl` and `fcntl`, which the code ignores: the
  models take them for success.
- The two sockets the core opens for itself, the listening one and that of
  epoll, which `~Core` closes: nothing the models say depends on them.
- Memory that runs out inside `decode` or `encode`, which catch it: there the
  connection is treated as after garbled bytes and the answer as one that does
  not encode (`Codec` has the failures of `encode`). `Server` has the allocations
  that throw out of `run()`.
- Logging, and the settings of sockets that have no effect on order or bounds.
- The rest of `json.hpp`: objects, arrays, number formatting, allocation. It is a
  vendored library of 25526 lines, more than nine tenths of the lines in the
  repository, so most of these are outside of these models and will stay there.
  The models have what com_lite's own code relies on: strings and numbers that
  become enums. Field names, base64 and byte order are constants of a frame.
- The unit tests.

## Plan

Done: users group, connections, framing, the core with the controller, the
abstract service, the server process with failing calls and exhausted memory, the
codec's lengths and buffer, JSON strings, the client; and theorems for all their
safety properties and for the four abstract specifications they implement.
Left, in this order:

1. *Client*: its composition with `Service` instead of a server that is only
   environment.
2. *Controller*: what `process` promises for one frame, as lemmas of its own.
