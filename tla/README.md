# uvnet: a specification

uvnet is a small C++ library on top of libuv: a TCP client and a TCP server, each with an
event loop on a thread of its own, that exchange framed packets. This directory holds TLA+
modules that model it, the TLC configurations that check them on small instances, and
proofs, checked by TLAPS, of theorems that hold for every instance. Line numbers refer to the
files under `src/`; `PROJECT.json` maps every definition to the lines it stands for.

## 1. Inventory

| Part | State | Operations | Called from |
|---|---|---|---|
| Ring buffer, `pod_circularbuffer.h` | array, read and write position, two flags | `write`, `read`, `clear`, `size` | `TCPClient`, under `_mutex_writebuf` |
| `TCPClient`, sending, `tcpclient.cpp` | ring, idle write params, async handle, close flags | `Send`, `Close` (any thread); `AsyncCB`, `OnSend`, `OnRecv`, `_send` (loop) | user threads; the user's `Process` |
| `TCPClient`, connection, `tcpclient.cpp` | handle and its `data` field, timer, `_connect_status`, `_is_connecting`, `_is_closed`, `_is_user_closed` | `Connect`, `Close` (user); `OnConnect`, `OnRecv` error, `OnClientClose`, `ReconnectTimer`, `AsyncCB`, `_run` (loop) | user thread, libuv |
| `TCPServer`, sessions, `tcpserver.cpp` | pooled `SessionCtx` and `WriteParam`, `_sessions`, session ids | `OnConnection`, `_send`, `OnSend`, `OnRecv`, `Session::Close`, `SessionClosed`, `_close`, `_start_thread` | libuv; user's `Close` |
| `TCPServer`, start, `tcpserver.cpp` | `_start_status`, `_is_closed`, `_is_user_closed`, start thread | constructor, `Start`, `Close`, destructor | user thread |
| Protocol table, `tcpserver.cpp`, `tcpclient.cpp` | map from protocol id to handler | `AddProtocol`, `RemoveProtocol`, look-up in `GetPacket` | user thread, loop |
| Frame parser, `packet_sync.h` | two buffers, position and phase of parsing | `Start`, `recvdata` | loop, once per read |
| Header codec, `net_base.h` | none | integer and header conversions | parser, packet builders |
| Log writer, `log.c` | stream, path, lock | `log`, `_write`, `logclose`, `loginit` | any thread |
| Thread wrappers, `thread_uv.h` | thin | only `GetUVError` is used by the rest | |
| Protobuf messages, `pb/` | fields, which are set, unknown fields | parse, merge, serialise, size | `GetPacket` (client and server), users |

**How they interact.** A user's thread calls `TCPClient::Send`, which copies into the ring
and signals the loop's async handle; the loop thread copies from the ring into write params
and hands those to `uv_write`. Received bytes go through the parser, which calls `GetPacket`,
which parses a `CProto` message (or takes a plain number), looks a protocol up and calls the user's
`Process` on the loop thread; `Process` may call `Send` again. The server is the same without the ring: `Process` runs on the loop thread and its
answer is written at once. Both sides are shut down by a flag and a signal, after which the
loop thread closes its handles one by one, each with a close callback.

**What is hard here.** Flags shared between threads without a lock; a bounded ring with sleeping
writers and an edge-triggered signal; memory that libuv owns between a call and its callback, and
that is pooled; a `void* data` field that points to one of two types depending on the phase of
the handle; two-phase closing, during which other callbacks arrive; a repeating timer that starts
attempts while earlier ones are in flight; a wait with a limit that races with its answer; state that
outlives the connection it describes (`_connect_status`, `_is_user_closed`, the parser, the ring);
a server that is started again while the thread of its last life is still leaving; a table that is changed
beside the thread that searches it; a log file that one thread replaces while others write; signed bytes.
`PROJECT.json` lists these hazards at their lines, with the properties that catch them.

**What makes each part correct.** The ring is a bounded FIFO queue. Sending loses, duplicates and
reorders nothing, misses no wake-up and always returns. After a loss the client tries again until it is connected or closed,
casts each `data` field to what it is, and tells the user of losses and connections in turn. The server gives
every context and param back exactly once, and its callbacks arrive in the documented order; when it says it is
closed it is quiet, so that it can be started again, and its destructor leaves nothing behind. A protocol is
deleted once, and not while it is used. The parser delivers exactly the well-formed frames. The codec ought to be
the inverse of the encoding, which it is not (`start_ids`). The log is
reopened once for each time its file was taken away.

## 2. Modules

| Module | Models | Notes |
|---|---|---|
| `FifoOps` | – | append and take on a bounded queue, as operators |
| `BoundedFifo` | the promise of the ring | abstract specification |
| `PodCircularBuffer` | `pod_circularbuffer.h` | one action per member function that changes state; each `memcpy` branch is an operator; refines `BoundedFifo` through `Unread` |
| `ClientSend` | sending in `tcpclient.cpp` | uses `FifoOps` in place of the ring |
| `ClientSendProperties` | – | properties over the histories of bytes |
| `ClientConnection` | `Connect`, loss, reconnect, `Close` in `tcpclient.cpp` | state of the handles in libuv is a variable |
| `Frames` | the frame of `net_base.h` and `packet_sync.h` | operators on sequences of bytes |
| `FrameStream` | the promise of the parser | abstract specification |
| `PacketSync` | `packet_sync.h` | one step per turn of `recvdata`'s loop; refines `FrameStream` |
| `SessionEvents` | what a user of the server may rely on | abstract specification |
| `TcpServer` | connections, pools, shutdown in `tcpserver.cpp` | refines `SessionEvents` |
| `TcpServerProperties` | – | properties beyond memory ownership, and the refinement |
| `ServerStart` | `Start`, `Close`, the start thread, the destructor in `tcpserver.cpp` | the handles of the server itself only; sessions are `TcpServer`'s |
| `NetBase` | the conversions and `PacketData` of `net_base.h` | pure operators, the size of a byte a parameter |
| `NetMessage` | `pb/netmessage.pb.*` | pure operators, one schema for the four messages |
| `ServerProtocols` | the protocol table and `GetPacket` in `tcpserver.cpp` | composes the three above; implements `ServerStart` |
| `LogWriter` | `log.c` | any number of threads |
| `...Proofs` (8 modules) | – | the theorems about the module they are named after; `CodecProofs` those about `NetBase` and `NetMessage`, `ServerProofs` those about `ServerStart`, `ServerProtocols` and the messages of its run, `ClientSendProofs` and `TcpServerProofs` also those about the `...Properties` |
| `MCPodCircularBuffer`, `MCClientSend`, `MCPacketSync`, `MCServerProtocols` | – | instances for TLC |

### PodCircularBuffer
The variables are the class's members. `Write` follows the branches of `write`: into the free
stretch, or to the end of the array and again from its front, with the comparison (68-146) that
decides whether the ring became full; `Read` likewise (151-217). A `read` whose ring is full, one that
takes from one stretch and one that wraps are `ReadFromFull`, `ReadContiguous`, `ReadAround`.
`new T[n]` leaves the array uninitialised, so `Init` allows any contents. The ring is used under one mutex, which makes
a call one step.

### ClientSend
A step is the code between two points where another thread can come in: `Send` up to its first
`uv_async_send`, one turn of the loop that writes into the ring under `_mutex_writebuf`, the second
signal; on the loop thread, one turn of `_send`, or the start of a callback. A sender on the
loop thread (in `Process`) and one on a thread of its own run the same code; `LoopSenders` tells
which are which; `MaxMsgs` bounds the messages of each sender. Bytes are known by sender, message and position. A `uv_write` may be refused
and a completed write may report an error; the bytes then go to `lost`. `doing` is where the
loop thread is. A param freed beyond `MAXLISTSIZE` is simply no longer in a list.
`ClientSendProperties` says where bytes are by their `Place`: the wire, each write libuv owns, oldest first, and the ring.

### ClientConnection
The user's thread and the loop thread interleave between accesses to the shared flags. `handle` is
libuv's view of the tcp handle (none, open, reading, closing), and `data` is whether its
`data` field points to the `TcpClientCtx` or the `TCPClient`. `OnClientClose` takes the field
for a client; when it finds a context the pointer it compares differs from the handle, and nothing
happens, as in the code. Re-initialising a handle libuv still knows puts it into the loop's queue twice; what
follows is undefined, so the model sets `corrupted` and stops. `Connect` is modelled on a
closed client only: on an open one the code walks the loop's handles from the caller's thread,
which libuv gives no meaning. Its failures are `InitFails` (nothing was opened) and `ConnectFails`
(handles and perhaps an attempt, without a thread).

### PacketSync
`recvdata` is sequential; a step is one turn of its loop, cut in two where the header has been found. A buffer is the
sequence of its valid bytes and its size; `headpos` counts from 1. Headers are opaque: `Legal`, `DataLen` and `Intact`
are parameters that stand for `CharToNetPacket` and the MD5 check. `Start` does what the code does: nothing to the buffers.
The refinement maps the abstract `pending` to `Undecided \o data`: the buffered bytes from where the frame being read starts,
and those `recvdata` has not looked at. Each loop turn is then a skip over bytes at which no frame can begin, a delivery, or a stutter. So a
byte can be neither lost nor examined twice, wherever a read ends and whatever the buffers' sizes. Bytes are unsigned: the code compares a signed
`char` with `TAIL` (140), which makes no difference below 128.

### TcpServer
Every callback of the loop thread is one step; only `Close` runs elsewhere, and it is three
steps. A `SessionCtx` stands for its handle, a Session for its id. libuv's part is external: a
closing handle first has its writes answered with an error, then its callback is called
(`HandleCloses`); it closes at any later step, which includes the orders of libuv's turns. `uv_close` on a
handle that is closing fails an assertion, modelled by `aborted`. `uv_accept` succeeds in the connection
callback, as libuv guarantees. A WriteParam is counted, not named: `Unanswered` are the writes that hold one. `_broadcast` has no caller and `Session::_recv_cb` is never called: neither is modelled.

### ServerStart
The owner's thread, a thread inside `Close` and the start threads of this and of earlier lives share `_is_closed`,
`_is_user_closed` and `_start_status` without a lock; a step is the code between two accesses. `thread[l]` is where the
start thread of life `l` is: inside the loop, or on its way through the four last statements of
`_start_thread`. The owner calls `Start` when `IsClosed()` says so, at once if it likes (`hasty` remembers that it did not wait
for the callback that tells the end), or after a `Start` that failed. `Start`'s own `_close`, the failure of each of its
calls, its limited wait and the status it overwrites at the end of it are steps of their own. Where libuv's behaviour is
undefined (initialising a handle it still knows, binding a closing one) the model sets `corrupted` and stops.

### ServerProtocols, NetBase, NetMessage
`ServerProtocols` extends the life of the server by its table. `GetPacket` is three steps, between which the
user's thread can change the table: parse the packet and take the id (`GetPacket`), search (`Process`), return
from the user's `Process` (`ProcessReturns`). `RemoveProtocol` is two: delete, then erase. `crashed` says that the loop
thread used a deleted protocol or searched while the table was being changed; `rash` that the user changed it on a server not
closed. The destructor joins, then deletes (`DeleteProtocols`). What a packet holds goes through the operators
of `NetMessage` and `NetBase`, with their failures: the result of `ParseFromString` is ignored, an id
is unsigned in the message and signed in the table.

`NetBase` gives the conversions byte by byte, with the sign a `char` has on x86 and the width of the integers (`ToUInt32`).
`NetMessage` is the generator's pattern, once: a class is the list of its fields' kinds, and `CProto`, `CP1`, `CP2` and
`EchoProto` are its instances. What is parsed is a sequence of chunks, one per tag; a text is known by a number. The parser's loop (`Turns`)
and the writer's walk through the fields (`Written`) are recursive functions whose values are what there is after each turn.

### LogWriter
A step is the code between two accesses to `fp` or the file system: `access`, the lock, the second `access`, `fclose`, `fp = NULL`,
`fopen`, `fp = ...`, the unlock, and then, outside the lock, taking `fp` and writing. A stream is known by the order in which it was
opened. `Remove` is the log rotation. A `fopen` that fails ends the process, as in the code.

## 3. Runs

| Run | What it shows |
|---|---|
| `ring` | every sequence of writes, reads and clears on a ring of 4 elements, with buffers of up to 5 over 2 values, behaves as `BoundedFifo` |
| `send` | an application thread and a `Process` on the loop thread: no lost wake-up (`NoLostWakeup`), no byte lost, duplicated or reordered (`Conservation`, `EachSenderInOrder`), no write param used twice (`ParamsOwned`); `Send` returns unless the loop thread waits for itself; after `Close` the loop thread ends, even from within a full `Send` |
| `send_torn` | **violation**: frames of two threads mix in the ring |
| `connection` | two lives of a client: after a loss the user was told of attempts go on until one succeeds or a `Close` is served (`ReconnectGoesOn`), casts are right, events alternate, the first `Connect` says true only of a connection, a `Close` of the first life is not forgotten (`CloseIsRemembered`), completes, and once it is served is final (`ServedCloseIsFinal`) |
| `connection_retry` | **violation**: the timer initialises a handle that is open |
| `packet` | whatever arrives, however it is cut into reads, the parser delivers exactly the frames of the stream, none late, and `recvdata` returns |
| `packet_reuse` | **violation**: on a parser that is used again the first frame of the new connection is swallowed |
| `server` | memory, callbacks and shutdown of the server; refinement of `SessionEvents` |
| `server_twice` | **violation**: `Close` right after the loss of a connection closes its handle twice |
| `start` | two starts with failures, timeouts, `Close`, a hasty restart and the destructor, the table changed beside the loop thread: closed is quiet, destroyed is quiet, protocols are deleted once and not while in use, `Close` completes, the destructor returns; `MessagesRead` evaluates the messages' operators against their reference definitions |
| `start_ids` | **violation**: for plain data `GetPacket` looks up an id no sender has written, as `CharToInt32` sign-extends its bytes |
| `log` | three threads, two rotations: one reopening for each, no stream leaked or closed twice, and only a call that overlaps with another thread's reopening can come to harm |

Each passing property has a mutant: a small change of a mapped definition (a `...Mut` operator next to it)
under which TLC finds the property violated.

**Bounds, and why they suffice.**
- `ring`: `Capacity = 4`, inputs up to 5. Buffers shorter than, equal to and longer than the ring occur at every
  position, so every branch and every boundary of the comparisons is met; 2 values tell elements apart.
- `send`: a ring of 3 bytes and messages of 2; the application sends twice, the loop thread's `Process` once. The second
  message is always split and its sender sleeps, so the order of a sender's messages, the missing signal between the parts
  and the loop thread waiting for itself all occur. `MAXLISTSIZE = 0` makes the idle list overflow at its second param.
  `MCParams` has a param for each byte, so allocation never fails. `send_torn`: a ring of 2, two application threads, messages of 1 and 2.
- `connection`: `MaxConnects = 2` gives a second life, in which stale flags matter; `MaxEvents = 4` allows two
  losses with a reconnect between.
- `packet`: three byte values: `HEAD`, `TAIL` and another, so that both occur inside headers and data; a header of two bytes (length and check
  value); data of 0 or 3 bytes; buffers of 3 bytes, one more than the header, so that the shorter frame (4 bytes) exceeds `readdata`
  and the longer one (7) makes both buffers grow; reads of 1 to 4 bytes, the longest of them as long as the shorter frame. The stream is unbounded: only the undecided bytes are in the state.
- `server`: two contexts, three session ids, one write in flight each, `MAXLISTSIZE = 0`: contexts are reused
  for later sessions, and one beyond the list's limit is freed.
- `start`: `MaxStarts = 2` lets a life meet the one before it, in each place of its thread; two protocols and two
  ids, so that an id is taken, free, or not in the table; eight packets: whole and half messages, fields out of order, a negative id,
  plain data with ids that decode right and wrong, and a type that is neither. Bytes have 4 values there, so that the
  smallest id that decodes wrong, 8, is like the real 32768; the theorems on `NetBase` are for every even number of values, the real 256 among them.
  `start_ids`: one start of the same server.
- `log`: three threads and two removals: two threads find the file missing while the third is writing, twice.

`CHECK_DEADLOCK FALSE` is set where the system really stops: senders and starts are bounded, and
the closed client or server, or the process that could not open its log, has nothing to do.

**Fairness.** A thread inside `Send`, `Start`, `Close` or the destructor goes on (weak fairness of its steps). libuv serves every
ready handle once per turn, so a signalled async handle is not overtaken for ever: strong fairness of
`AsyncCB` in `ClientSend` and of `LoopStep` in `ServerProtocols`, where other callbacks keep disabling them; weak fairness elsewhere. libuv calls
every close callback and answers every write of a closing stream. A user's `Process` returns. Peers, the network and the user owe nothing: no
fairness for data, connections, completed writes on an open stream, the timer's success, or calls of the API. The log and the ring have no liveness property.

## 4. Theorems

Every theorem holds for all values of the constants, from the assumption named in the module that declares them.

| Theorem | Statement |
|---|---|
| `RingSound` | for every capacity, element type, inputs and counts: `Spec => []TypeOK /\ []PositionsAgree` |
| `RingIsFifo` | `Spec => RefinesFifo`: the ring implements `BoundedFifo` |
| `SendWakesLoop` | for any threads, sizes and bounds, if every message fits into the ring: `Spec => []NoLostWakeup` |
| `BytesTyped`, `SendersKeepOrder`, `ParamsHaveOneOwner`, `BytesArrive` | `TypeOK`, `EachSenderInOrder`, `ParamsOwned` and `Conservation` of `ClientSend`, for any threads, messages, ring and pool, as long as memory lasts: `Spec /\ []MemoryLeft => []...` |
| `EnoughMemory` | with infinitely many params memory lasts, so that `Spec` alone has the four invariants |
| `BuffersSuffice`, `NoneWaits` | `TypeOK` and `NoFrameWaits` of `PacketSync`, for any bytes, headers, buffers and reads |
| `ParserFindsFrames` | `Spec => FindsFrames`: the parser implements `FrameStream` |
| `ConnectionTypes`, `ReadersAlwaysFindCtx`, `EventsAlwaysAlternate`, `FirstConnectIsTold` | `TypeOK`, `ReadersFindCtx`, `EventsAlternate` and `FirstConnectTold` of the client's connection, for any number of Connects and events |
| `ReconnectNeverStops` | `Spec => []ReconnectGoesOn`: a client whose user was told of a loss, and not of a connection since, has its timer running or the callback due that starts it, until a `Close` is served. It says nothing of a first attempt that fails or of a failed `uv_read_start` (see section 5) |
| `CloseStaysServed` | `Spec => ServedCloseIsFinal`: from when the loop thread serves a `Close` until the client is closed no attempt starts or succeeds, no event is told and no handle comes back |
| `FirstCloseIsRemembered` | `Spec => []CloseIsRemembered`: in the client's first life a `Close` that was not served yet has its signal set or about to be |
| `ServerTypes`, `ServerOwnsCtxs`, `ServerCallbacksFindTheirs` | `TypeOK`, `CtxsOwned`, `CallbacksFindTheirs` of `TcpServer`, for any contexts, sessions, writes and pool size |
| `ServerKeepsParams` | `ParamsConserved`: every WriteParam is idle or in one unanswered write |
| `ServerEndIsClean` | `EndIsClean`: when the server has ended no session and no write is left, and all memory is in the idle lists |
| `ServerImplementsEvents` | `Spec => CallbacksInOrder`: the server implements `SessionEvents` |
| `StartFindsQuiet`, `StartsOneLoop`, `DestructorLeavesQuiet` | for any number of starts: closed is quiet, one thread at most is in the loop, nothing outlives the destructor of a patient owner |
| `ServerImplementsStart`, `ServerQuiet` | `ServerSpec => Spec`: the server with its protocols implements `ServerStart`, hence is quiet too |
| `ServerOwnsProtocols`, `ServerKeepsProtocols` | `ProtocolsOwned` and `ProtocolsAlive`, for any protocols, ids, packets and starts |
| `ServerTyped` | `ServerSpec => []ServerTypeOK` |
| `LogReopensOnce`, `LogOwnsStream`, `LogHarmless` | the three invariants of the log, for any threads and removals |
| `CharsDecode`, `HeaderDecodes` | for bytes of any even number of values: exactly which numbers of four bytes, and which headers, the sign-extension of `CharToInt32` spares |
| `StreamsMerge` | `ConcatenationMerges(class, first, second)` for any class and any two sequences of chunks |
| `MessagesRoundTrip` | `RoundTrip(class, m)` for any class and any message whose unknown fields are whole and not the class's (`AllForeign`) |
| `ReadMessagesRoundTrip` | `RoundTrip` of every message that was read, without failure, from any stream |
| `MessagesAreRead` | `ServerSpec => []MessagesRead`, as an instance of the above |

*Ring.* `TypeOK /\ PositionsAgree` is inductive. The proof does not follow the branches of the code twice: `WriteHasEffect` and
`ReadHasEffect` show that each call, whichever branch it takes, moves both positions by the number of elements it
reports modulo the capacity and sets the flags accordingly; `WriteEffectInv` and `ReadEffectInv` show the invariant from that
effect alone. For the refinement, `Unread` is the abstract queue: `UnreadElements` says which array element each of its
elements is, `WriteAppends` and `ReadTakes` that the effect on it is that of a queue, and `RingIsFifo` maps each action
to its abstract counterpart. The only assumption is `RingAssumption`.

*Send.* `NoLostWakeup` alone is not inductive: a sender that writes part of its message does not signal again before it sleeps,
so one has to know that a sender whose message did not fit found the ring non-empty, hence signalled already. The
strengthening adds `RingOK` and `SendersOK`: the ring is a sequence within its bound, a sender's `iret` is within its message, and one that
is writing has not finished. The hypothesis `MessagesFit` (every message fits into the ring)
is needed: without it the statement is false (see section 5).

*Bytes.* `BytesInv` is the inductive invariant: `TypeOK`, `EachSenderInOrder`, and
- `Owned`: no param is in both lists, or in one of them twice;
- `Whole`: a sender is writing while its message is not finished, and not longer, unless a `Close` cut it short;
- `Taken`: every accepted byte is one its sender has already written, so that the next byte is new;
- `Sound`: the places (`Stages`) hold every accepted byte that is not lost and no other, in the order of acceptance.

What the code does to the bytes is one of five operations on the places, each with its lemma: bytes enter
the last place (`PlacesGrow`), the last place is cut in two (`PlacesSplit`: a read from the ring that `uv_write` takes), bytes of its
front are dropped (`PlacesRefuse`: `uv_write` refuses), the second place joins the first (`PlacesDeliver`: `OnSend`) or vanishes (`PlacesFail`). The steps of
the model are then instances. `MemoryLeft` says that allocating a param succeeds: the code does not test what the allocation returns, and the model, whose
memory is the set `Params`, would have no param to name. It is a hypothesis on the behaviour, not on
the constants; `EnoughMemory` shows that it can be met.

*Parser.* `IInv` of `PacketSyncProofs` is `TypeOK`, `Phase` (what `parsetype` is at each place of the loop), `Reading` (while a frame
is read, `readdata` has HEAD and its legal header at `headpos`, and `packetdata` begins with the bytes that follow them there) and `Settled` (a parser that
returns has too little for a frame).
The refinement maps `pending` to `Undecided \o data`. The lemmas on `Frames` say when a place can no longer become a frame, whatever follows
(`IllegalIsHopeless`, `NotHead`), and that a frame is the same whichever of the two buffers it lies in (`LaidInReaddata`, `FrameThere`).
Each turn of `recvdata` is a skip over hopeless places, a delivery or a stutter (`StepRefines`).

*Connection.* The strengthening says that a client that is reconnecting has its timer running or about to be (`Retrying`); that one whose async handle is closing does not reconnect, and has nothing
left but handles that close (`Ending`); what the user heard last, according to whether the client is connected, reconnecting or making an attempt, and that
after a loss it is reconnecting (`Heard`), so that `ReconnectGoesOn` follows;
that a client before its first `Connect` is as the constructor left it (`Fresh`); and that the first life's status of success follows a connection (`Told`). `Ending` is also what makes a served `Close` final: the handle that waits for
its callback may have been lost before the `Close`, and its callback would start the timer again if `_stop_reconnect` had not turned `data` and `_is_connecting` back. That
a `Close` is not forgotten needs in addition that none came before the first `Connect` (`Untouched`); it holds in the first life only, since
`_is_user_closed` stays set in the next one without a signal.

*Sessions.* The strengthening of `TypeOK /\ CtxsOwned /\ CallbacksFindTheirs` is `Serves` (a live session's ctx carries its id, and is open or on its way to
`_session_close`, so that no two sessions share one), `Told` (ids grow, and a session is alive exactly if the user heard of it and not yet of its end) and
`Ended` (a closed server has no handle). The pool is a list without duplicates; a few
lemmas about taking from its front, appending to it and membership carry the ownership. For the refinement each callback maps to one step of
`SessionEvents` or a stutter.

*Params.* `ParamsConserved` counts the unanswered writes, as pairs of a stream and a place. It is inductive together with their being
finitely many (`ParamsInv`). A write that is taken adds one pair, `OnSend` removes one, a closing handle all those of its stream; what is freed
because the list is long leaves both sides of the balance. `EndIsClean` follows, since without handles there are no writes (`NothingPending`).

*Start.* A thread in the loop is always the last start's, since `Start` finds the server closed or a life without a thread, and
closed means quiet (`LastServes`); the loop has left when both handles are gone (`LeftQuiet`); the flag, once set, stays until the next
start (`LeftClosed`); a start that is not hasty finds all earlier threads at their ends (`EarlierDone`). `StepRefines` shows that each step of
`ServerProtocols` is one of `ServerStart` or leaves its variables alone, so that these invariants are inherited. For the table: between the
delete and the erase exactly one entry is dangling (`Half`), no protocol is under two ids (`Once`), a thread busy with a packet is in
the loop (`Busy`), and, unless the user was rash, what it searches is whole and what it runs is alive (`Whole`, `Kept`). `ServerTyped` needs that
what is read as an id is a number, whatever the bytes (`IdsAreNumbers`, from the lemmas on the parser); `PacketAssumption` says what a packet is: chunks if its
type is 1, at least four chars if it is 2. The code looks at four bytes in any case, and the parser's buffer is always longer than that.

*Log.* The lock is held by the one thread between `Lock` and `Unlock` (`LockHeld`); a thread past the second look has found the file gone
(`Removed`), and each removal accounts for one stream more; which streams are open depends on where the holder of the lock is (`Streams`); a
thread that has taken a stream that is closed or NULL is already counted as disturbed (`Told`).

*Codec.* `OfBytes` decomposes a number into its bytes, `SumExact` evaluates the sum of the signed bytes with its borrows, `Swap`
reverses it. The modulus is a product of four bytes' sizes, so that the argument is one about carries and needs no numbers: `BaseAssumption` (the size of a
byte is even) is the only assumption.

*Messages.* A recursive function exists since its restriction to each initial part of its domain does, and so has the value that its definition says
at each place (`TurnsDefined`, `WrittenDefined`). This, and what the function computes, is shown by the least place at which the claim could fail (`UpTo`), which stands in for an
induction. Parsing
one stream after another goes on from the state the first leaves (`ParseAppend`), and a turn commutes with a merge
(`MergeTurn`): hence `ParseConcat` and `StreamsMerge`. For the round trip, the fields that were written set exactly those fields (`FieldsParsed`), chunks the class does
not know change no field and are all kept (`ParseForeign`), and `ParseConcat` puts the two together. The condition on the unknown fields is needed: a message that kept
a chunk of one of its own fields would read it back into that field. `ReadMessagesRoundTrip` shows that no message that came out of the parser has
one, unless the stream was cut off in the middle of an unknown text (`ParseWhole`).

**Only model-checked.** The liveness properties (those with `~>`): the prover reasons neither about fairness nor about `ENABLED`. Every other
property of a passing run is a theorem. The library's theorems on induction and recursive definitions take an operator as a parameter, which the
provers cannot instantiate. Where a proof needs one of them it takes the least of some numbers from the well-foundedness of the naturals instead
(`LeastExists` in `PacketSyncProofs`, `UpTo` in `CodecProofs`).

## 5. What the models show beyond their properties

Besides the findings in `PROJECT.json`, these came up while modelling; no run asks for them:
- `_connect_status` is cleared by the constructor only, so a second `Connect` returns the first one's outcome without waiting (307);
  `FirstConnectTold` therefore speaks of the first one. `_is_user_closed` is never cleared either: after `Close` and a new `Connect` the next
  signal, such as a `Send`'s, closes the client (647).
- A message longer than the ring leaves `Send` asleep for ever if nobody else signals: the loop is not woken between the parts (tcpclient.cpp:398-411). Hence the hypothesis `MessagesFit`, and the bound on `MsgLens`.
- A `Connect` that timed out returns false, yet the attempt goes on and may connect (312). It also overwrites a status that
  arrives during its last sleep; one that arrives between that write and the test that follows it (316) is returned.
- A `Connect` whose `uv_tcp_connect` fails at once, or that cannot create its thread, leaves the handles open and no loop thread; `Close` then never completes (293, 302).
- Only the loss of a connection is followed by attempts: after a first attempt that fails (343-356), or a connection on which `uv_read_start` fails (361-365),
  nothing is under way; the client stays open and unconnected until the user closes it.
- `_stop_reconnect` sets `data` to the context (718), so on the user's `Close` `OnClientClose` reads a context as a client. The
  comparison that follows fails by luck, which is what ought to happen.
- The idle lists hold `MAXLISTSIZE + 1` entries, as the length is tested before the insertion with `>`.
- `SetRecvCB` of a session stores a callback that nothing calls.
- The client's ring is not cleared when its connection is lost: the rest of a frame may be sent on the next connection. (For the parser see `packet_reuse`.)
- A `Send` from the user's `Process` on a full ring waits for the loop thread, which is itself (tcpclient.cpp:398); the test
  does call `Send` there (test/test_tcpclient.cpp:38). `SendReturnsUnlessLoopWaits` excepts exactly this.
- A `Start` that fails leaves its handles open and `_is_closed` false; the next one begins with `_close`, "to make sure that the server is closed"
  (tcpserver.cpp:202), which only starts to close them, and goes on to bind a closing handle: no later `Start` can succeed.
- The old start thread clears `_is_user_closed` after it has set `_is_closed` (341-342). A `Close` of a server that was restarted in between is
  forgotten; `CloseCompletes` excepts exactly this window.
- The destructor joins the last start thread only. After a hasty restart the one before may still be about to tell the end, on memory that is freed;
  or it clears the flag that the destructor's `Close` has just set, and the join never returns. `DestroyedIsQuiet` and `DestructorReturns` except such restarts.
- `AddProtocol` with an id that is taken drops the protocol without deleting it or saying so.
- What `CharToInt32` does to the id of plain data (`start_ids`) it also does to headers: every frame of 32768 to 65535 bytes of data is read with a wrong length, 33000 as 32999
  for instance, and is taken for broken.
- The data that `GetPacket` gives to `Process` for a packet of type 1 is the text of a `CProto` that ended with its block (tcpserver.cpp:943-968, tcpclient.cpp:613-633),
  unless the message had no body: the model's `serving.data` is "freed" then. The test's `Process` parses it (test/test_tcpserver.cpp:19).
- A user who calls `RemoveProtocol` on a running server may delete a protocol under the loop thread; the table has no lock (`rash`).
- A `type` 2 packet with less data than four bytes gives `Process` a negative length.
- The result of `ParseFromString` is ignored (945), so that the id and the body of half a message are processed.
- The user's close callback runs under `_mutex_sessions`, which is not recursive (592): to call `SetRecvCB` from it never returns.
- A message for the log is written outside the lock: during another thread's reopening it may go to `NULL` or to a closed stream. A second `log_init`
  on a writer in use would find `fp` NULL in the same window and leak a stream.

## 6. Not modelled

- The client's protocol table and `GetPacket`: the same code as the server's, line by line, plus `_recv_cb`, which sees each packet first.
- `NetBase`'s 64-bit conversions: nothing in the library calls them. In `NetMessage`, accessors, the ownership of strings, descriptors and
  the tag bytes: the generator's, without a decision of this program's.
- `Connect` on an open client and `Start` on a running server: both work on libuv's handles from a foreign thread, which libuv gives no meaning.
- `_broadcast` and `Session::_recv_cb`, which nothing calls.
- Thread wrappers and the abstract protocol classes, which have no state; formatting and levels of the log; the test programs.

## 7. Plan

Done, in this order: the ring with its refinement and proofs; sending, with `SendWakesLoop`; the client's connection; the
server's sessions; the parser with its refinement; start and restart of the server, its protocols, codec and messages; the log; the proofs
of all these; last the parser's refinement, the invariants of sending, the server's params, the types of its table,
the codec and the messages for all inputs, and what a `Close` of the client leads to.

Open:
1. Liveness as theorems, once the prover reasons about fairness; until then the runs are all there is.
2. The client's protocol table, if it comes to differ from the server's.
3. Runs are kept to one per question; when new ones come, weaker violations give way and are described in section 5 instead.
