# aiobt in TLA+

Specifications, model-checking instances and proofs for aiobt, an asyncio
BitTorrent client. Paths such as `engine.py:270` are below `src/aiobt/` of the
repository.

## The system

aiobt is one process on one asyncio event loop. Coroutines interleave only at
`await`; file I/O and HTTP run in worker threads.

| part | state it keeps | operations | interacts with |
|---|---|---|---|
| transfer engine, `engine.py` | per connection: current piece, blocks received, the peer's pieces, choke and interest flags; per torrent: `EndgameState` | `run_peer` (one coroutine per connection), `_start_piece`, `_broadcast_endgame_cancel` | piece tracker and endgame shared by all connections of a torrent; storage, events, choking manager |
| piece tracker, `piece.py` | have, pending, failed, availability counts | mark, count, rarest-first selection, hash check | engine, resume check |
| choking manager, `choking.py` | rates per peer, optimistic slot, wake event | register, unregister, wake, periodic rechoke | a task per torrent; sends on connections the engine reads |
| client and lifecycle, `client.py` | sessions by info hash, peers by address, torrent state, `done_event`, tracker tiers, tasks | add, start (with check), stop, remove, wait, add_peer, incoming connection, LSD consumer, shutdown, announce | everything |
| resume, `resume.py` | one file per torrent | save (temporary file, rename, in a worker thread), load | saved after every verified piece, loaded by `start()` |
| storage, `storage/` | files, offset map, write lock | open, prepare, read, write, close | one backend object serves every torrent |
| tracker, `tracker.py` | UDP transactions in flight | HTTP and UDP announce with retries | the failover of `do_announce` |
| discovery, `discovery.py` | announced hashes, bounded queues | announce, withdraw, receive | the client's consumer loop |
| encryption, `mse.py`; connection, `peer.py` | stream state, policy | initiate, receive, fall back | client, engine |
| events, `events.py` | listeners | on, once, off, emit | an await point of the others |
| codecs and values: `protocol.py`, `bencode.py`, `torrent.py`, `create.py`, `network.py` | none | parse, build | - |

What is hard, and what correctness means:

- *Engine.* Any number of coroutines share pending, availability and the endgame
  across awaits, and each may be cut off at any await. No piece is lost to
  everybody or fetched twice outside the endgame; nothing is held before it is
  stored; the endgame's records survive failures; the download ends, and so do
  its waiters.
- *Choking.* One task sends to all peers, with an await per send, while peers
  register, leave and change interest. Slots are respected, no interest change
  is lost, the task survives.
- *Lifecycle.* Every public call awaits in the middle, connections begin and end
  meanwhile, the choking task may die, and handles outlive their torrents. A stop,
  a removal and a leave end the choking task, a listed peer is alive, removal
  releases the waiters, leaving ends and leaves nothing behind.
- *Resume and storage.* Writes and saves run in threads that outlive the tasks
  waiting for them, and the process may die in between: what the client says it
  has is on disk, across file boundaries, and what was saved is found again.
- *Announce.* Calls overlap over shared tiers: every URL is tried, tiers stay
  permutations of themselves, promotion is not undone, late UDP answers keep nobody
  from succeeding.
- *Connection setup.* Two policies that can agree do agree, FORCED never ends in
  plaintext, nobody waits for ever.
- *Discovery.* Bounded queues drop, never block, and torrents are removed and added
  again while dials for them are under way; who shares a torrent connects in the end,
  and nobody announces a torrent that is gone.

`PROJECT.json` lists each hazard at its line with the properties that cover it.

## Modules

| module | models |
|---|---|
| `Download` | what a download promises, as an abstract specification: store, hold, finish |
| `Engine` | `engine.py` (download side) and `piece.py`: all connections of one torrent |
| `MCEngine` | the instances of `Engine` that TLC checks |
| `EngineProofs` | theorems about `Engine`, checked by TLAPS |
| `Choking` | `choking.py` and the upload side of one torrent: the handlers of `engine.py` and the registration in `client.py` it works with |
| `MCChoking` | the instances of `Choking` that TLC checks |
| `ChokingProofs` | theorems about `Choking`, checked by TLAPS |
| `Channel` | what two peers promise each other when they connect, as an abstract specification |
| `Mse`, `MCMse` | the setup of one connection: `mse.py`, `PeerConnection.connect`, `Client._handle_incoming` |
| `MseProofs` | theorems about `Mse`, checked by TLAPS |
| `Announce`, `MCAnnounce` | `do_announce` in `client.py` and the HTTP and UDP announces of `tracker.py` |
| `AnnounceProofs` | theorems about `Announce`, checked by TLAPS |
| `Discovery`, `MCDiscovery` | `discovery.py` and the client's use of it |
| `DiscoveryProofs` | theorems about `Discovery`, checked by TLAPS |
| `Storage` | the offset map and the slices of `storage/disk.py`, as operators |
| `Resume`, `MCResume` | writing pieces (`storage/queue.py`, `disk.py`), saving (`resume.py`) and checking (`client.py`) |
| `ResumeProofs` | theorems about `Resume` and lemmas about the arithmetic of `Storage`, checked by TLAPS |
| `DataProofs` | lemmas about numbers that several proofs use: a set of numbers has a least one, induction |
| `Lifecycle`, `MCLifecycle` | the client and one torrent in it: `client.py` |
| `LifecycleProofs` | theorems about `Lifecycle`, checked by TLAPS |

`Engine` and `Choking` meet only in `run_peer`, which reads both kinds of message
from one connection. Neither half changes the state of the other: the download
side never reads `PeerRates`, the upload side never touches the tracker. What
the two share is that a coroutine in one handler is not reading; `Choking` lets
any message wait, which is what the download side's awaits do to it.

### Engine

The shared variables are the fields of `PieceTracker` (`have`, `pending`,
`avail`), the session's `EndgameState` as a record (`endgame`), the event behind
`wait()` (`done`) and the set of pieces whose bytes the storage holds (`disk`).
The per-peer variables are the locals of `run_peer`; `pc` says at which await the
coroutine is suspended. `told` is what we have announced on the connection and
`dropped` whether the remote side has thrown away our requests after a Cancel.

| action | code |
|---|---|
| `Connect` | `run_peer` starts and sends the bitfield |
| `RecvBitfield`, `RecvHave`, `RecvChoke`, `RecvUnchoke` | the handlers of those messages, whole |
| `RecvBlock`, `RecvLastBlock`, `RecvBadPiece` | the handler of Piece: not the last block, the last one with a matching hash, the last one without |
| `DiskWrite`, `MarkHave` | the write in its worker thread; its return and `mark_have` |
| `Announced` | PIECE_VERIFIED emitted and Have sent; the endgame's record closed |
| `CancelsSent` | `_broadcast_endgame_cancel` done |
| `NextPiece`, `StartPiece` (in the steps above) | lines 301-322 and `_start_piece` |
| `Lost` | any exception or cancellation, at any await: the `finally` clause |

A step is the code between two awaits where another coroutine could matter.
Sends of Interested, NotInterested and Request change nothing shared and are
merged with the step that decides them; a failure of the send is `Lost`.

The search loop of `_start_piece` is modelled by its net effect: every candidate
that sorts before the first one the peer has becomes pending and stays so. The
inner `mark_failed` is applied to a piece that is not pending and undoes
nothing.

`Traits` says what each remote peer may do: hold everything (`seed`), get pieces
while connected (`grows`), choke or break off at any await (`flaky`), send data
that fails its hash (`corrupt`), repeat and reorder messages (`rude`), honour
Cancel (`cancels`; aiobt itself does not, `engine.py:324`). A storage error
while a peer's piece is written is part of `flaky`, since it ends that
coroutine.

Abstracted: the bytes (a piece matches its hash or not), the length of blocks
(`Blocks` are the offsets, the same for every piece), `_failed` (never read),
the statistics, events other than as an await, the upload side (in `Choking`).
One connection per address is assumed (see the hazard at `client.py:943`).

### Choking

`entries` is the manager's dict as the sequence of its items, in insertion order,
with one entry per address (`AddrOf`); a connection can therefore lose its entry
to another one with its address. `interested`, `amChoking`, `down` and `up` are
the fields of a connection's `PeerRates`; `optimistic`, `ticks`, `wake` and
`seeding` the manager's own. `phase` says where the task is; while it sends,
`granted` is `to_unchoke`, `rest` what the loop's iterator has before it, and
`size` and `left` the counters that make Python notice that the dict has
changed. `unseen` is a history variable of two properties.

| action | code |
|---|---|
| `Dial`, `DialFails`, `Register` | `add_peer`: the look-up, its failure, and `register` after the connection is made |
| `Close`, `Unregister` | the transport closes; the `finally` of `_run_peer_wrapper` |
| `RecvInterest` | Interested and NotInterested, with `wake()` |
| `RecvBlock` | the byte count of Piece |
| `RecvRequest`, `SendBlock` | Request up to the storage read, and after it |
| `Complete` | the last piece is verified |
| `Start`, `Stop` | the manager's part of `start()` and `stop()`; `Stop` cancels at any await |
| `IdleRound` | a round with nobody interested: the early return |
| `Rechoke` | a round up to its first send, or to its end |
| `Sent` | a send has returned or raised: up to the next one, or to the end |

Abstracted: the amounts (a counter counts messages up to `MaxBytes`), the time
(the timer expires, or not yet), the compaction of a
dict that is changed while it is iterated. The awaits in `add_peer` before and
after the connection is made are one; so are a wait that ends and the round that
follows, since what happens between them is seen by that round. Unchoking on
Interested without a `PeerRates` is left out: the client always passes one.

### Mse and Channel

One connection: A dials, B answers. `setup` is what both bring to it (policies,
torrent, what A offers), fixed from the start. A is this program or another one
that speaks MSE, which may offer anything and send early payload; `key19` says that
the first byte of A's public key happens to be 19. A stream carries tokens, the
units that the code reads: a public key, padding, an offer, a selection, the
BitTorrent handshake, a message. A token has the mode it was written in and can be
read only in that mode; this is what is left of the cryptography. `faulted` is a
history variable: a timer fired early, the connection broke or the torrent was
removed.

| action | code |
|---|---|
| `Dial` | `connect` up to the first bytes: a key, or the plain handshake |
| `ReadKeyA`, `SkipPadA`, `ReadSelect` | `_mse_initiate_inner` |
| `MseEndA`, `MseTimeoutA` | `mse_initiate` raises: FORCED closes, PREFERRED goes on in plaintext on the same stream |
| `ReadHandshakeA`, `BadHandshakeA` | `_receive_handshake` |
| `FirstByteMse`, `FirstBytePlain` | the two paths of `_handle_incoming` |
| `ReadKeyB`, `SkipPadB`, `ReadOffer` | `_mse_receive_inner`, with the lookup of the session before and after |
| `ReadHandshakeB`, `BadHandshakeB`, `TimeoutB` | the rest of `_handle_incoming` |
| `ReadMessage`, `Reset`, `RemoveTorrent` | the engine's first message; the connection breaks; the torrent goes |

`Channel` is what is promised: the answering side decides, the dialling side can
only agree, in a mode both allow, and nothing decided changes. `Implements` says
that `Mse` implements it, with `allowed` the modes both policies accept. That FORCED
never ends in plaintext on either side is part of it.

### Announce

`tiers` is the session's `_tracker_tiers`, which all calls of `do_announce` share
and change (shuffle, promotion); `tier` and `left` are a call's position, in the
copy of the tier it made. Below it an HTTP announce is one step with the outcomes
its tracker's `mood` allows. A UDP announce is an exchange: `udp` is the request
that waits, `sent` the requests that reached the tracker, `inbox` the datagrams
that may arrive at this socket, now or again. Transaction identifiers come from a
small set, so that they coincide. A shuffle may give any order (`Rearranged`); a
promotion takes the first occurrence of the URL out and puts it in front, as
`list.remove` and `insert` do, so a tier may repeat a URL and tiers may share one.

| action | code |
|---|---|
| `Begin` | `do_announce` called: the first tier is shuffled and copied, its first URL tried |
| `Failover` (in the steps below) | `TrackerError` or `OSError`: the next URL, tier or the end |
| `HttpAnswers`, `HttpFails`, `HttpGarbled` | the outcomes of `http_announce` |
| `Connected`, `Announced`, `UdpRefused`, `UdpLost`, `Resend` | `udp_connect` and `udp_announce` over `_udp_request` |
| `TrackerAnswers` | the tracker's side |

### Discovery

Per node: the state of its `LocalDiscovery`, the registered torrents, the announced
ones (`active`), the two queues, and the consumer's dials and connections (`conns`):
for a peer and a torrent, a task that has not begun, a dial or a connection, `gone`
if the session it belongs to has been removed. `lan` holds the datagrams under way,
which arrive any number of times at anybody, their sender included, and can be lost
at any time. `Library` says which torrents each node may have. Only `Listeners`
have their receiving half followed.

| action | code |
|---|---|
| `Start`, `Started`, `StartFails`, `Stop`, `Stopped` | `__aenter__` and `__aexit__` of the client with `_start` and `_stop` |
| `Register`, `RemoveTorrent` | the client's registry and `announce`, `withdraw`. A removal leaves tasks and dials alone; what is dialled or connected belongs to a session that is gone (`Orphaned`) |
| `AnnounceRound` | a round of the announce loop, all of whose packets leave without an await |
| `Receive` | `datagram_received`: a full queue drops the datagram |
| `Lose` | the network loses a datagram |
| `Listen` | a turn of `_listen_loop` |
| `Consume` | a turn of the client's consumer loop: a task for `add_peer`, if the torrent is here and the peer not connected |
| `AddPeer`, `Connected` | `add_peer` up to the connect, and after it: listed in the session looked up before |
| `Disconnect` | a dial fails, a connection ends |

Two dials to one peer for one session that are at the same point are one.

### Storage and Resume

`Storage` has the arithmetic: a torrent's bytes are cells of files, `Offsets` the
running sum that `prepare_files` makes of their lengths, `SlicesFor` the set of files
an interval overlaps, `Chunk` what one turn of the write loop writes. The loop goes
through the slices in the order of the torrent, so that a turn's file (`FileOf`) is the
least that is left.
`Resume` is everything around it: peer tasks write pieces chunk by chunk under the
lock of the I/O queue, each chunk in a worker thread (`jobs`) that goes on if its
task is cancelled; each piece is followed by a save (`save`), again in a thread;
the torrent is started, and the check reads the pieces that the resume file names,
or all. `stored` is the set of cells that hold the torrent's bytes; a piece read
back matches its hash just if all its cells are there.

| action | code |
|---|---|
| `Register`, `CheckResume`, `CheckPiece`, `Checked` | `_register`, `check_resume` |
| `WritePiece`, `AcquireLock`, `NextSlice`, `PieceWritten` | `DiskStorage.write` over `FileQueue.write`; `mark_have` and `_save_resume` |
| `OrphanRuns`, `JobFails` | a thread nobody waits for; an I/O error, which may leave part of a chunk |
| `SaveOpens`, `SaveWrites`, `SaveReplaces`, `SaveFails` | `_sync_write`: truncate, write, rename, and what another save does to the same `.tmp` file in between |
| `Cancel`, `Crash`, `Damage` | a task is cancelled; the process dies or the power fails; files change while the client is down |

A crash leaves any part of each write in flight. The resume file is not synced, so
a power failure may empty it. `promised` is a history variable of `SavedIsFound`.

### Lifecycle

The client with one info hash: the session registered there, those made before and
removed since (`created` numbers them), what each holds (`session`, `peers`), the
call each caller is in (`call`: which and at which await) and the connections
(`conn`). Connections are of three kinds, which the code treats differently: by the
application's `add_peer`, by the discovery loop's (a task in `_peer_tasks` while it
dials), and incoming (a handler that is in no list until its peer has a task). Dials
share one address; an incoming connection has its own.

Each await of the code ends an action.

| action | code |
|---|---|
| `Add`, `AddFails`, `Registered`, `Added`, `AddAgain` | `add_torrent` and `_register` |
| `Start`, `StartChecked`, `StartChokes` | `start()`: up to the check, up to the event, the choking task |
| `Stop`, `StopResumes`, `StopReturns` | `stop()`: the choking task is cancelled, has ended; the announce |
| `ChokingEnds`, `ChokingDies` | the cancelled task ends; a round ends it with an error (`Choking` says when) |
| `Remove`, `RemoveResumes`, `RemoveGoesOn`, `RemoveReturns` | `remove_torrent` |
| `Exit`, `ExitCloses`, `ExitCancels`, `ExitGathered`, `ExitGoesOn`, `ExitReturns` | `__aexit__` |
| `Dial`, `Connected`, `Launch`, `DialCancelled` | `add_peer` |
| `Accept`, `Greeted`, `Connected`, `Launch` | `_handle_incoming` |
| `ConnectFails`, `Completes`, `SetsDone`, `Ends`, `Ended` | failures; the transfer; the `finally` of `_run_peer_wrapper` |

`start()` and `stop()` work on any handle the application has been given, whether its
torrent is still here or not, as in the code: they look at the session only.
`revived` marks the choking task that `start()` makes for a session that is not
registered. The loops over `session.peers` in `remove_torrent` and `__aexit__` go
from one `disconnect()` to the next in a turn (`RemoveTurn`, `ExitTurn`), the first
turn in the step that reaches the loop, and a dict whose size has changed since the
loop began raises, as in Python: out of `remove_torrent`, or out of `__aexit__` with the
torrent still registered.

Left out of `Lifecycle`: errors of closing a transport, cancelled calls, and calls on
a handle once the client is being left. The application leaves when its other calls
have returned.

## Runs

| run | instance | shows |
|---|---|---|
| `engine_any` | 2 peers of every trait but seed, 2 pieces of 2 blocks | types; only held pieces are announced; nothing is left with a choking peer; availability never too low; `Engine` implements `Download` |
| `engine_endgame` | 3 flaky, corrupting peers, 2 pieces | duplicates only in the endgame, the endgame covers every missing piece, fetchers are recorded, Cancels reach them all; availability exact; an idle unchoked peer has nothing we miss |
| `engine_seed` | a seed and a flaky, corrupting peer, 3 pieces | every piece is eventually held; `wait()` is released |
| `choking_restart` | 2 connections of every trait, 1 slot, stop and start | types; a round that ends leaves unchoked only what it granted; the optimistic slot belongs to somebody |
| `choking_turns` | 3 connections, one fickle, one that leaves, 1 slot | slots are bounded between rounds; who stays interested is unchoked again and again; who is not yields; changes of interest are looked at although wakes get lost |
| `mse` | every pair of policies, both initiators, 2 torrents | types; `Mse` implements `Channel`; every attempt ends on both sides; compatible policies connect |
| `announce` | 2 calls, tiers of 3 and 1, 2 identifiers, 1 repeat, 5 cases of trackers | types, tiers keeping their URLs; every URL tried before "all failed"; a promotion lasts; one working tracker is enough |
| `discovery` | 2 nodes, 2 torrents, one of which the followed node may have, packets of one torrent, a queue of one | types, packets within their limit; a round names what is registered; sharers connect, in the session that is here |
| `resume` | 2 tasks, 2 saves, 2 jobs, pieces of 2 cells over files of 1, 0 and 2 | types; what we have is stored; what a lone save named is found |
| `lifecycle` | 1 caller, 1 discovered peer and 1 incoming connection, the torrent added twice | the choking task follows the torrent's state, on old handles too; listed peers are alive; nothing the client began outlives it, but for what `start()` revived |

Bounds of `Engine`. Two peers are the least for a duplicate request and three the least for
a Cancel to have several targets and for a third party to give the piece back
meanwhile. Two pieces give an order to rarest-first and a piece that is left
over; the three of `engine_seed` let `_start_piece` leave several marks behind. `MaxAvail` bounds the availability counters, which repeated messages
increase without limit: it exceeds the number of peers in the runs with repeated
messages, and is never reached in the others. Peers are symmetric where all have
the same traits and no liveness is checked.

Bounds of `Choking`. With one regular slot, three connections are the fewest that
can exceed the bound of two, or compete for the optimistic slot. `OptimisticEvery`
is 2, so that rotations and the rounds between them both happen. `MaxBytes` of 1
tells a peer that sends from one that does not; `choking_turns` counts none, since
its properties do not depend on the ranking. Two connections suffice for a round
cut short by a stop and repaired by the next; they have all traits there.

Bounds of the others. `mse` has no bound but two torrents, one that A wants and one
to take it for. In `announce` two calls are what it takes to reorder a tier under
one that goes through it, three URLs what makes the rest of a tier worth shuffling,
two tiers what failover needs; two identifiers coincide and differ; one repeat is
enough for a late answer to an earlier request. Which tracker works is fixed in five
cases (`Moods`): the UDP tracker of the first tier, the one of the second tier, or none
for sure; the first URL answers now and then, the others are down, flaky or garbled.
In `discovery` two torrents over packets of one make two batches, and a queue of one
is full at once, so that the other torrent's packet is dropped; the followed node has
one of the two, the announcing one both. `MaxFound` bounds a queue that the code does
not bound. In `resume` the first piece spans
three files, one of them empty, the second is shorter; two saves overlap, a third
would only repeat that; `MaxJobs` of 2 is one orphaned write and one new. In
`lifecycle` a torrent is added again after its removal while connections of the
first session, and its handle, are still there. It has no dial of the application's,
which differs from a discovered peer's only in that nothing cancels it and that the
exit waits for it, and which would make the instance ten times larger; such dials
are in `lifecycle_remove` and `lifecycle_exit`, and the theorems are for any. The
counterexamples need neither a discovered peer nor a second session.

Fairness (`Fairness` in `Engine`). Weak fairness of a connection's own steps: the
event loop runs ready coroutines, and sends and writes return or raise. Weak
fairness of answers: a peer sends the blocks it was asked for, unless it was
told to cancel. The code has no request timeout, so without this assumption no
liveness holds. For seeds, that they connect, send their bitfield and unchoke
us once. Nothing is assumed of the other peers: in `engine_seed` the flaky one may
take pieces and vanish for ever.

Fairness (`Fairness` in `Choking`). The timer of the waiting task expires. A send
returns or raises; the code does not see to it (next section). Strong fairness of `RotateTo(c)`, for a
connection that is again and again among the choices of a rotation:
`random.choice` does not avoid it for ever. Nothing is assumed of what peers send,
and the liveness properties are about peers and a task that stay.

Fairness elsewhere. `Mse`: the coroutine of each side goes on when its bytes have
arrived, and the timers that the code sets fire; the reads without a timer get
none. `Announce`: an HTTP request returns or times out, a datagram that can arrive
does, and `tracker_timeout` bounds the rest. `Discovery`: tasks get their turns, the
announce timer fires again and again; `FairLink`: a torrent that is announced again
and again to a node that stays is heard there again and again, that is, not each of
its packets is lost or meets a full queue; and strong fairness of `Connected`: not
every dial fails. `Lifecycle` (the two
counterexamples): every await ends but that of a transfer, which a remote peer may
keep up as long as it is neither disconnected nor cancelled, and `wait_closed`,
which waits for connections. In `mse` and the `lifecycle` runs deadlock checking is
off because a connection that is set up, and a client that has been left, rest.

### Disagreements between the code and its texts

Each of these runs ends in a counterexample.

| run | text | what the code does |
|---|---|---|
| `lifecycle_remove` | "Block until the torrent reaches 100% or is removed." (`client.py:311`), "Remove should unblock the waiter" (`tests/test_client.py:329`) | `remove_torrent` awaits inside its loop over `session.peers` (`client.py:902`); the task of the peer it has disconnected removes itself from that dict, the loop raises `RuntimeError`, and neither `done_event.set()` nor TORRENT_REMOVED is reached. The test removes a torrent without peers |
| `lifecycle_exit` | "Wait for tasks to finish (with timeout to prevent hangs)" (`client.py:791`) | `__aexit__` awaits `wait_closed()` (`client.py:771`) before it ends the peer tasks; since Python 3.12 that waits for the accepted connections, so leaving lasts as long as a remote peer likes |

Disagreements met in the code, which no run shows. In the engine and the choking
manager:

- If the sending of Have fails after the last piece, `done_event.set()` is skipped
  (`engine.py:278`, 307), although `wait()` says "until the torrent reaches 100%".
- A peer that honours our endgame Cancel is never asked again: its coroutine keeps
  `current_piece` and waits for the cancelled blocks (`engine.py:436`), although
  `request_timeout` is "Seconds to wait for a block before re-requesting."
  (`client.py:362`; it is used only to connect, 954).
- A peer that registers or leaves while a round is sending ends the choking task
  with a `RuntimeError` (`choking.py:205`); "Run the rechoke loop until *stop_event*
  is set." (`choking.py:128`). Nothing restarts it. The step is in `Choking`.
- `wake()` is to "Trigger an immediate rechoke" (`choking.py:114`), but one made
  while a round is sending is discarded by `clear()` after it (`choking.py:133`).
  `ChangesAreSeen` shows that the next timer makes up for it.
- Two calls of `add_peer` for one address register two connections under one entry
  (`client.py:943`); the replaced one keeps its unchoke outside the "Number of
  regular unchoke slots" (`choking.py:73`).
- `pending` is not the "pieces currently being downloaded" (`piece.py:82`): the
  search of `_start_piece` leaves marks on pieces that nobody fetches
  (`engine.py:362`). For the same reason the endgame, said to activate "when all
  remaining pieces are already pending" (`engine.py:75`), may start with nothing
  requested. This is harmless as long as the endgame works: `engine_endgame` and
  `engine_seed` show that it makes up for the stray marks.
- Availability is not the "number of peers that have it" (`piece.py:68`) after
  repeated Haves or bitfields: they are counted again. `engine_any` shows that it
  is then too high, never too low.
- Have does not start a request on an idle unchoked connection
  (`engine.py:198`), although in the endgame "every peer that has a needed piece
  will also request it" (`engine.py:76`).
- A block read from the storage for a peer is sent even if the peer has been
  choked meanwhile (`engine.py:242`).
- Rounds caused by `wake()` count as whole intervals for the optimistic rotation
  (`choking.py:166`).
- A torrent that completes while it runs goes on ranking by download rate, since
  only `start()` sets `is_seeding` (`client.py:255`).
- One peer that does not read blocks a round, and with it the choking of all
  others, for as long as its connection lasts (`choking.py:212`).

In the connection setup:

- The fallback of PREFERRED, "fall back to plaintext if the
  peer declines" (`mse.py:40`), goes on with
  the stream that already carries key-exchange bytes (`peer.py:134-143`), which no
  listener takes for a handshake: PREFERRED to DISABLED never connects.
- A DISABLED listener, and any other when the key starts with byte 19, reads a
  public key as a handshake (`client.py:1058`).
- Payload inside an offer is read and dropped; with plaintext selected, so is what
  came in one chunk behind it, and the read of the handshake then waits without a
  timeout (`client.py:1105`). Neither happens between two instances of this program.
- A failed BitTorrent handshake leaves A's transport open (`peer.py:198-208`), and
  `add_peer` says "silently skip" (`client.py:956`) but lets `IncompleteReadError` and
  `ValueError` escape.

In the announce:

- A `DecodeError` or `ValueError` from one tracker ends the failover, and the stop
  that announces (`client.py:573`, 307).
- "URLs within each tier are shuffled" (`client.py:525`), and the comment at the
  shuffle says that the first URL is kept "if promoted" (543): the code keeps it
  always (545), also the first that the torrent names and that nobody has asked yet.
- UDP repeats after 15 s and more never happen with the default `tracker_timeout`,
  which is 15 s too.

In discovery: a dial of the consumer for a torrent that is removed meanwhile connects
in the removed session (`client.py:954-958`), after its peers have been disconnected
(901), and the connection stays as long as the remote peer likes; the sockets made before `_start` failed are not closed; torrents added
just after a round wait for the next; the `QueueFull` branch of the peer queue is
dead, since that queue is unbounded.

In storage and resume:

- Overlapping saves write one `.tmp` file and may finish in either order: the resume
  file can go back to an older set, or be torn, or a save can end in
  `FileNotFoundError` (`resume.py:79-83`).
- A peer served before or during the check saves a set that names only part of the
  pieces, and after a restart only those are looked at (`client.py:479-482`). Pieces
  that a scan has found are saved with the next verified piece, not before.
- "only one write executes at a time" (`queue.py:59`) fails after a cancellation: the
  lock is released while the thread goes on.
- Every registration re-targets the one storage object (`client.py:1019`).

In the client, with calls one after the other:

- `start()` on the handle of a removed torrent starts a choking task (`client.py:247`
  looks at the state only) that neither a removal nor `__aexit__` ends, which cancels
  "all choking tasks" (774) of the sessions still registered. `stop()` on the handle
  does end it.
- A peer that ends while `__aexit__` goes through its peers ends the exit with a
  `RuntimeError` too (814), with storages open and sessions registered.
- `session.task` is never assigned (289), so `stop()` ends no transfer; `max_peers` is
  not enforced (355); the first of two connections to an address to end takes the
  other one's entry (1231).

When calls overlap on one torrent, which the run of `Lifecycle` leaves out: a second
`start()` during the check skips it (`client.py:463`); two additions orphan a session
(1006).

## Proofs

`EngineProofs` proves, for any finite set of peers, any traits and any number of
pieces, from `EngineAssumption` alone (finitely many peers, the count is a natural
number, `None` is not a piece, a piece has blocks, the traits are traits):

- `TypeCorrect`, `NoStrayDuplicate`, `NoStrayUnpending`, `EndgameIsTotal`,
  `FetchersAreRecorded`, `EveryDuplicateIsCancelled`, `AdvertisingIsHonest`,
  `NothingAskedWhileChoked`, `AvailabilityIsEnough`;
- `AvailabilityIsExact`, for peers that repeat nothing (`NobodyRude`), and
  `IdleIsExhausted`, for peers that say what they have in one bitfield (`Settled`):
  with these, every invariant of `engine_any` and `engine_endgame` is proved;
- `EngineImplementsDownload`: every behaviour of `Engine` is one of `Download`.

The inductive invariant `IInv`. That a piece is not fetched twice outside the
endgame does not follow from pending alone: when two connections share a piece
and one gives it back, pending forgets it while the other goes on. `Consistent`
therefore has four parts that need each other: a duplicate is in the endgame set
(`OneFetcher`); so is a piece in progress without its mark (`MarkedOrShared`);
the set of an active endgame has every missing piece (`Covers`), which is why
the endgame can be re-entered or a piece given back without harm; a fetcher is
recorded until its piece is done and the record emptied (`Recorded`), from which
it follows that Cancels reach every duplicate. The parts are stated of explicit
arguments because a step that ends a piece first gives it back and then chooses
the next one from the result: `ReleaseKeeps` (or `DropKeeps`, `PieceDoneKeeps`)
proves the first half, `TakeKeeps`, `CandidateKeeps` and `DuplicateKeeps` the
second, `NextPieceKeeps` joins them, and there is one lemma per action.

The counting theorems compare a counter with the number of peers that have the
piece. `MovedStep` says what a change of one peer's pieces does to that number, and
`CountingSteps` that only a bitfield, a Have and a lost connection make one. A rude
peer's repeated bitfield counts again what it counted before and forgets what it no
longer lists, which is why equality needs `NobodyRude` and the bound from below does
not. `IdleIsExhausted` rests on `Covers`: when `_start_piece` finds nothing
(`NoChoiceNoOffer`), the endgame it has just entered or already found lists every
missing piece, so a peer with nothing to give has nothing we miss. `Settled` is
needed: after a late Have the code asks for nothing until the peer unchokes again.

`ChokingProofs` proves, from `ChokingAssumption` (finitely many connections, an
interval of at least one round):

- `TypeCorrect`, `OptimisticBelongs`: for any connections and addresses;
- `RoundsAreApplied`: if no two connections share an address (`OwnAddresses`);
- `SlotsAreBounded`: if besides the torrent is not stopped (`MayStop = FALSE`).

`OwnAddresses` is needed: a connection whose entry another one replaces keeps its
unchoke outside the slots. So is the absence of
a stop for the slot bound between any two rounds: a round cut short has granted
some slots and not yet taken others back, and a next round with nobody
interested returns early (`choking.py:177`) and leaves it so. `RoundsAreApplied`
holds with stops and says that the next round that gets through repairs it.

The inductive invariant has two parts. `Present`: a connection that is up has its
entry, so that every unchoked connection is in the dict the loop goes over.
`RoundSoFar`: while a round is sending, an unchoked connection that is no longer in
`rest` is granted. It holds when the round begins, because everything is in
`rest` then; each turn of the loop moves a connection out of `rest` after
settling it; a connection that registers meanwhile is choked; and when the loop
ends `rest` is empty and what is left is the claim. A departure and an arrival
during one send leave the size as it was and escape Python's check, which is why
the invariant speaks of `rest` and not of the size. For the slot bound
`SInv` adds that `granted` has at most `MaxUnchoked + 1` addresses.

`MseProofs` proves, from `MseAssumption` (an initiator is this program or another
one):

- `TypeCorrect`;
- `MseImplementsChannel`: every behaviour of `Mse` is one of `Channel`.

The invariant `MseInv` says what may be on its way. A side that is up in a mode has
to rest on what the other side has done, and the two are connected only by the
streams: a handshake on its way to A was sent by a B that is up, in B's mode
(`SentByB`), so A comes up after B and in the same mode; an offer on its way to B is
what A makes of its policy (`SentByA`), so what B selects is acceptable to A. The
plain path needs more: B believes a plain handshake without asking A's policy, and
that is right only because a side that uses MSE starts with its key (`FirstIsKey`),
whatever it falls back to later. The rest is one lemma per action over two lemmas,
`StepOfA` and `StepOfB`, that settle what all steps of a side have in common.

`LifecycleProofs` proves, from `LifecycleAssumption` (the kinds of connection and
the placeholders are distinct, at least one session), for any connections and any
number of sessions:

- `TypeCorrect` and `NoStaleEntry`, for any callers, whose calls may overlap;
- `ChokingIsTidy` and `ExitIsQuiet`, for calls made one after the other
  (`OneCaller`).

`NoStaleEntry` is not inductive: a transfer that ends takes off whoever is listed at
its address, which leaves no stale entry only if a connection is never listed
twice. `LInv` says so (`Own`: listed at its own address, in its own session, with its
task there) and, because a cancelled dial would leave its entry behind, that nothing
is cancelled while the client is entered (`NobodyExits`, `NothingCancelled`). After
`Exit` the claim is void and so is the invariant.

`Tidy` follows the choking task through each call: what is true at every await of an
addition, a start, a stop and a removal; that a task no call is about runs and its
torrent is started (`Steady`); that a started torrent that is here has its task, or
had one that died (`BetweenCalls`); and that a session other than the registered one
rests unless it was revived or its removal is under way (`Elsewhere`). It needs one
caller: two additions that overlap both create a session, the second displaces the
first in the registry, and the first keeps its choking task for ever. The exit may end
in its loop and leave the session registered; by then the task has ended (`Leaving`).
`Calm` adds what the exit relies on: only the exit's call is under way once the client
is leaving, nothing is dialled any more, and the exit does not reach its loop before
everything it cancelled has ended (`Gathered`, `Quiet`). What both need of the loops is
in `RemoveLoopFacts` and `ExitGoesFacts`: a turn changes no task and only closes
connections.

`AnnounceProofs` proves, from `AnnounceAssumption` (the torrent's tiers are sequences
of URLs, empty ones and repeated URLs allowed; each URL has one of two schemes), for
any number of calls, tiers and repeats:

- `Typed`: besides the types, each tier is at all times a rearrangement of the one that
  was built for it;
- `FailsAfterAll`, `ProvenStayFirst`.

That a call fails only when it has tried everything is about the tiers as they were
built, while it goes through a copy of a tier that other calls reorder behind its
back. `Going` connects the two: what a call has tried, and what is left in its copy
after the current URL, are together the URLs of all tiers up to this one (`Covered`).
A shuffle and a promotion keep a tier's URLs (`Rearranged`, by the lemmas that compose
surjections of its places and follow the place of the promoted one), so the copy that
the next tier gives has them all; and when nothing is left in the last tier, `Covered`
is everything. `ProvenStayFirst` follows a promotion through whatever is under way in
other calls, with the history variable `proven`: a shuffle keeps the first URL of its
tier, and only one that answered is put before it.

`DiscoveryProofs` proves, from `DiscoveryAssumption` (finitely many info hashes, packets
that hold at least one, natural bounds), for any nodes:

- `Typed`: besides the types, no packet is empty or too long and the receive queue
  keeps its bound;
- `RoundTellsAll`: a round names every torrent registered at the node and none that is
  not.

What a round names is LocalDiscovery's own list, so the invariant has to say that this
list and the client's registry agree whenever a round is possible (`InStep`). They do
not always: a torrent that is there before `_start` has finished is added to the list
only then, and a start that fails empties it. The batches are consecutive runs of
`MaxBatch` places of a sequence; `NextMultiple` finds the run of a place, from which
`BatchesFacts` has that they cover the set and how long they are.

`ResumeProofs` proves, from `StorageAssumption` (pieces have a length, file lengths are
natural numbers of which one is not zero) and `ResumeAssumption` (nobody is not a task,
there is a save to be had), for any layout of files, any tasks, jobs and saves:

- `Typed`: besides the types, the write lock is held just by the task that has a
  thread at work, and that is one thread;
- `HeldStaysStored` and `SavedStaysFound`.

The first half is arithmetic. `Offsets` is a recursive function; `OffsetFacts` says
that it exists and that a file begins where the one before it ends, `OffsetsOrdered`
that files do not overlap, by induction over the number of a file. `Progress` is the
loop invariant of `DiskStorage.write`: the cells of the piece before `offset` are
stored, `offset` lies in the first slice that is left, and the slices left are all the
files from that one on that begin before the end of the piece. `WriteBegins`
establishes it for the slices `_slices_for` finds, `WriteGoesOn` says that a turn
keeps it or, if it is the last one by either of the loop's two ends, that the piece is
stored. An empty file in the middle is an empty turn, not an end.

The second half is interleaving. `WInv` says that each task at a write has made the
progress its locals claim, whatever others store meanwhile, that a thread with an owner
has the chunk its task waits for, and that the task that waits for a save is the one
this save will wake, and has no other. It is inductive without a word about the resume
file. `Saving` follows a save that has been alone from its first step: the `.tmp`
file is torn while it writes and whole, with its names, when it renames, and
a save that has not been alone ends the promise. `Promised` then is short: what is
promised is stored, and the resume file names it or names nothing. The second case is
what a power failure leaves, and what makes the check look at everything.

Proofs about data. No theorem of the library that takes an operator can be used,
the induction theorems among them. `DataProofs` states induction of a set of numbers
instead, from the well-foundedness of `<`, and this is enough for what the model needs:
sums of file lengths, batches, orders of trackers.

With these, every invariant and every action property of the runs that pass is proved,
under the hypotheses named above.
Only model-checked are the liveness properties (`TransferCompletes`,
`WaitersEventuallyReleased`, `InterestedGetTurns`, `UninterestedYield`,
`ChangesAreSeen`, `EveryAttemptEnds`, `CompatibleConnects`, `CallsSucceed`,
`SharersConnect`), which are out of the prover's reach.

## Not modelled

- Calls of the client that overlap on one torrent, in a run: `Lifecycle` has the
  steps for several callers, and the list above says what they lead to.
- Two `run_peer` loops over bounded socket buffers, each blocked in its sends.
- Cancelling the application's own calls.
- `storage/compact.py`, the preallocation in `prepare`, and one storage object for
  several torrents.
- The wire codec, bencoding and torrent parsing and creation (stateless, data only),
  network settings (constants and socket options), the compiled twins of Python
  modules, benchmarks and examples, and the cryptography of `mse.py` (only who can
  read what is of interest).
