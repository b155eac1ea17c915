# XD in TLA+

A verification development for XD, a BitTorrent client for I2P and Lokinet written in Go. It
holds TLA+ modules translated from the source, TLC configurations that check them on small
instances, and proofs checked by TLAPS that hold for every instance. Line numbers refer to the
files under `src/lib`.

## 1. The system

XD runs a swarm of torrents. Every torrent has a storage, a piece tracker, two tables of peer
connections and one announcer per tracker. The goroutines are: one tick loop for the whole swarm
(every 100 ms); per torrent a run loop, a rate ticker, an announce poller and a goroutine per peer
it tries to reach; per connection a `run` loop and a reader; for the swarm an accept loop and a
loop that hands out the network context. They share memory. Some of it is behind mutexes
(`pieceTracker.mtx`, `PeerConn.access`, `Torrent.connMtx`, `fsTorrent.access`, `bfmtx`), much is
not: the bytes of bitfields, the fields of a cached piece, the flags of connections and torrents.

| component | state | operations | interacts with |
|---|---|---|---|
| piece download (`swarm/piece.go`, parts of `peer.go`, `torrent.go`) | cached pieces with `pending`, `obtained`, `lastActive`; each connection's `downloading` list and `lastRequest`; choke and interest flags | `NextRequest`, `handlePieceData`, `canceledRequest`, expiry pass, `tickDownload`, `gotDownload`, `cancelPiece`, `doClose` | storage (`PutChunk`, `VerifyPiece`), remote peers, tick loop |
| torrent storage (`storage/fs.go`) | data files, bitfield in memory and on disk, metainfo, settings, `seeding`, `checking` | `PutChunk`, `GetPiece`, `VerifyPiece`, `VerifyAll`, `Seed`, `MoveTo`, `Flush`, `PutInfoBytes`, `Delete`, `OpenAllTorrents` | run loop, piece download, restart |
| connection goroutines (`peer.go`) | `send`, `recv`, `close` channels, `sendPending`, `closing` | `Send`, `queueRecv`, `Close`, `tickOne`, `doClose` | tick loop, broadcasts, uploads |
| connection table (`torrent.go`, `pex.go`) | `obconns`, `ibconns`, PEX map | `DialPeer`, `PersistPeer`, `addPeers`, `onNewPeer`, `remove*Conn`, `PopDestHashLists` | announcer, accept loop, peers |
| torrent life cycle (`torrent.go`, `holder.go`, `swarm.go`) | `started`, `closing`, `seeding`, `active`, the holder's two maps | `Start`, `Stop`, `Delete`, `Remove`, `AddTorrent`, `waitForQueue`, `Holder.Close` | RPC, storage, announcer |
| network context (`swarm.go`) | `getNet`, `newNet`, `netDied`, `netError`, `netDead` | `Network`, `netLoop`, `acceptLoop`, `LostNetwork`, `ObtainedNetwork` | everything that dials |
| announcer (`announce.go`, `tracker/http.go`) | `next`, `fails`, the ticker | `tryAnnounce`, `pollAnnounce`, `StopAnnouncing` | life cycle, connection table |
| metadata exchange (`peer.go`, `torrent.go`) | info buffer, pending and requesting bitfields | `nextMetaInfoReq`, `putInfoSlice`, `resetPendingInfo` | storage, connections |
| SAM session (`network/i2p`) | control connection, keyfile, lookup queue | `Open`, `ensure`, `runLookups`, `Accept` | network context |
| upload and interest (`peer.go`) | choke and interest flags of both ends, the remote bitfield | `inboundMessage`, `handlePieceRequest`, `checkInterested`, `broadcastHave` | piece download, connections |
| layout of pieces, blocks and files (`piece.go`, `metainfo.go`, `bitfield.go`, `fs.go`) | bytes of files and bitfields | `nextRequest`, `accept`, `WriteAt`, `ReadAt`, bitfield operations, `GetStatus` | piece download, upload, RPC |
| I/O workers (`storage/fs.go`) | one channel of operations, the workers | `Run`, `RunIOP`, `Close` | storage, every goroutine that reads or writes |
| SFTP driver (`fs/sftp.go`) | two layers of connection | file operations, `ensureConn`, `Close` | storage |
| wire format, RPC's JSON, web UI, configuration | none of their own that others rely on | | |

What is hard, and what must be true of it:

* **Piece download.** Several connections work on one cached piece, the tick goroutine expires it
  meanwhile, goroutines go on with cached pieces that were removed from the map and created anew,
  and bits are set by an unlocked read-modify-write of a byte. Correct means: XD never marks a
  piece it does not hold; a block counts as obtained only when it was written; a block on request
  is released in the end, so that it can be asked for again; a connection respects its limit; the
  tick loop never gets stuck; a new piece is asked for when the old one is exhausted.
* **Storage.** Crashes between the steps of a move, a flush or a check; a check that runs while
  pieces arrive. Correct means: after a restart the bitfield claims no more than the files hold,
  data is never lost by a failed move, and only a complete torrent is seeding.
* **Connection goroutines.** Bounded channels with several writers, shutdown while a write waits.
  Correct means: everybody who waits is woken, and a closed connection leaves the table.
* **Connection table.** Tests and insertions under separate locks. Correct means: one connection
  for each address, at most `MaxPeers`, and a removal that removes its own entry.
* **Life cycle.** The count of active torrents against the queue size, places given back exactly
  once, every torrent stopped and flushed at the end.
* **Network context.** A lost context is not handed out, and nobody who reports an event blocks.
* **Announcer.** One announce at a time, retried later after a failure, the lock released after a
  failed announce too.
* **Metadata.** The info bytes are complete and verified before the torrent counts as ready, and
  once a right length is agreed on one good peer is enough to get them.
* **SAM session and keyfile.** The destination stays the same over sessions, a lookup is answered.
* **Upload and interest.** Nothing the other end holds stays unknown, and interest is told when it
  changes, although pieces are completed by other connections at any time.
* **Layout.** A block lands on its bytes and nowhere else, for every split into files.
* **I/O workers and SFTP driver.** Every operation is answered, and one that reports success was
  done.

`PROJECT.json` lists the hazards one by one with their lines and the properties that cover them.

## 2. Plan

In this order, the most important behaviour first. All of it is written and checked; what is left
is named at the end.

1. `Download`, `MCDownload`, `DownloadProofs`: the download of pieces. `PieceStore` is the abstract
   specification it implements.
2. `Storage`, `MCStorage`: files, bitfield and settings on disk, the check, `Seed`, `MoveTo`,
   deletion, crash and restart.
3. `Layout`, `Bitfield`, and `Blocks`, which composes them with `Download`: the bytes under the
   blocks and the bits under the sets of pieces. `MCBlocks`.
4. `Channels`: the channels and goroutines of one connection, its senders and closers.
5. `Connections`: tables, admission, dialling, PEX, shutdown.
6. `Torrents`: adding, queue, start, stop, delete, the holder.
7. `Network`: network context, session managers, accept loop, SAM sessions with their lookups.
   `Context` is the abstract specification it implements.
8. `Announce`: the lock, the times of announces, stop while announcing.
9. `Metadata`: slices of the info dictionary, restarts of the request set.
10. `Wire`: two XDs on one connection, bitfields, HAVE, interest, choke, requests. `Exchange` is the
    abstract specification it implements.
11. `PooledIO` and `SFTP`: what is under the storage.

`MCPeers` composes `Connections` and `Metadata` for TLC, `MCTorrents` composes `Torrents`,
`Announce` and `Wire`, and `MCNetwork` composes `Network`, `Channels`, `SFTP` and `PooledIO`. These
are sums: a variable `part` says which of the modules is moving, and the others rest in a state in
which nothing is due. The modules meet at the assumptions named
below (the announces assume a network that comes back, which `Network` shows), not by shared
variables. Two compositions do share state: `Blocks` extends `Download` with the bytes its steps
write, and `Download` maps its state to `PieceStore`.

The proofs are in modules of their own, each of which extends what it is about: `DownloadProofs`,
`BlocksProofs` (`Blocks` with `Layout` and `Bitfield`), `StorageProofs`, `ConnectionsProofs`,
`NetworkProofs`, `PeersProofs` (`Metadata`, in `MCPeers`), `MCNetworkProofs` (`Channels`, `SFTP` and
`PooledIO`, in `MCNetwork`), and `TorrentsProofs` (`Torrents`, `Announce` and `Wire`, in
`MCTorrents`). All safety properties that hold are proved (section 7).

Left: a product of `Download` with `Storage`, so that a crash meets the races of the piece tracker;
the two agree now on what a stored piece is, and nothing checks them together.

Every module is written for TLAPS: parameters are constants with named assumptions, one action for
each step, no recursive operator.

## 3. The module `Download`

One torrent whose metainfo is known, with connections whose bitfields have arrived. A step is what
a goroutine does between two accesses to state another goroutine may touch.

| variable | code |
|---|---|
| `requests` | `pieceTracker.requests`, from a piece to the address of its cached piece |
| `cached` | the heap of `cachedPiece` values: index, `pending`, `obtained`, and `old` for "`lastActive` is more than five minutes ago" |
| `bf` | `fsTorrent.bf` |
| `disk` | for each block whether the data file holds nothing, the torrent's data or other data |
| `open`, `choked`, `interested`, `downloading`, `lastRequest` | `~closing`, `peerChoke`, `usInterested`, `downloading` (a bag), `lastRequest` of each connection |
| `outq`, `wire` | requests in the `send` channel, and those the remote peer has and may still answer |
| `run` | what each connection's `run` goroutine is doing: pc, request, cached piece in hand, byte loaded |
| `tick` | the same for the swarm's tick goroutine |
| `faults` | chokes, closes, failed reads and writes and slow answers so far |

| actions | code |
|---|---|
| `ReceivePiece`, `VisitData`, `PutChunk`, `PutChunkFails`, `SetObtained`, `UnsetPending`, `CheckDone`, `ReadBack`, `ReadBackFails`, `SetHave`, `BroadcastHave`, `removePiece` | `gotDownload` and `handlePieceData` with `put`, `cancel`, `done`, `VerifyPiece`, `broadcastHave`, `removePiece` |
| `ReceiveChoke`, `ReceiveUnchoke`, `WriteRequest`, `doClose`, `CancelLoad`, `CancelStore` | `remoteChoke`, `cancelPendingDownloads`, `remoteUnchoke`, `processWrite`, `cancelDownload`, `doClose`, `canceledRequest` |
| `TickStart`, `TickExpire`, `TickCancelPiece`, `TickZero` | `Torrent.tick` up to the end of the expiry pass, `iterCached`, `cancelPiece` |
| `TickVisitPeers`, `TickDownload`, `TickVisitLast`, `TickPick`, `TickVisit`, `TickLoad`, `TickStore`, `TickQueue`, `TickEnd` | `tickDownload`, `NextRequest`, `getRarestPiece`, `nextRequest`, `queueDownload` |
| `Age` | the passing of five minutes without activity (`isExpired`) |

Where the code is racy the model is too. `Bitfield.Set` and `Unset` are a load of the byte and a
later store. A piece is found under `pieceTracker.mtx` and used after it is released, so a goroutine
may hold a cached piece that is no longer in the map; such pieces stay on the heap until nobody
refers to them. The tick goroutine reads choke, interest and closing without the lock and waits for
`access` only where the code does. `access` is held for the whole of `gotDownload`,
`cancelPendingDownloads`, `cancelDownload` and `doClose`, which is what `Unlocked` says.

Abstractions, each with its reason:

* A bitfield byte is a whole set of bits. Small instances have at most eight pieces and eight
  blocks in a piece, and losing an update in one byte is the hazard; more bytes mean fewer races.
* `nextRequest` scans the bits and loads the byte of `pending` in one step; the scan's reads come
  before the load and a bit set during the scan by others is only ever in the other direction
  (`obtained` then `pending` cleared), which the load before or after `SetObtained` covers.
* `broadcastHave` computes the interest of all connections from one reading of the bitfield.
* `PutChunk` writes its block at once, under `fsTorrent.access`; a failing one writes nothing.
  `VerifyPiece` reads the piece at once, under the same lock, and sets the bit later.
* The send channel and what the peer has been asked are sets: order and duplicates of requests do
  not matter to the properties. CANCEL messages are not queued: the peer heeds them or answers.
  The limits of the channels belong to the module `Channels`.
* `Close` and `doClose` are one step for a connection whose goroutine is idle; its entry in the
  connection table goes at the same time (`open`).
* An answer to a request that is listed always has a legal offset and length, so `accept` holds.
  Data that answers no listed request is dropped by `gotDownload`, as in the code.
* Which of the candidates is rarest is left open here; `Bitfield` has `FindRarest`.
* The quarter of a second between attempts (`nextPieceRequest`), the `Done` callback, keep-alive
  and PEX messages of `tick` are left out; they change nothing here.

## 4. The module `Storage`

One torrent in `storage/fs.go`, over any number of restarts up to the bounds. Where `Download`
looks at the races over one cached piece, `Storage` looks at what is on disk: it takes a block that
is stored to be good, since bad data of peers is the subject of `Download`, and has the check, the
move, the deletion, crashes and faults of the disk instead.

| variable | code |
|---|---|
| `files`, `roots` | the data files under `DataDir` and `SeedingDir`, each with the pieces whose part in it is right, and the directories of a torrent of several files |
| `bfFile`, `settings`, `meta` | `.bitfield`, the `dir` in `.settings`, `.torrent` in `MetaDir` |
| `up`, `dir`, `bf`, `seeding` | the torrent is open in a running process; `fsTorrent.dir`, `bf`, `seeding` |
| `main` | the torrent's main goroutine: loading, checking, moving, and for which caller |
| `conn` | `handlePieceData` of each connection: parts still to write, byte loaded, bitfield encoded |
| `del` | what a deletion removes next |
| `mishap` | history: a disk fault, a failed or interrupted move, a deletion under running goroutines, settings left by a deleted torrent |
| `unmoved` | history: seeding since it was opened, without a move being tried |
| `faults`, `crashes` | counters for the bounds |

| actions | code |
|---|---|
| `OpenAllTorrents`, `AddTorrent`, `LoadBitfield`, `CreateNewBitfield`, `NilBitfield` | start of the process, `addFileTorrent`, `openTorrent` with `Allocate`, `ensureBitfield`, `FindBitfield` |
| `Request`, `PutPart`, `PutPartFails`, `VerifyPiece`, `SetBit`, `Flush`, `WriteFlush` | `handlePieceData`: `PutChunk`, `WriteAt`, `VerifyPiece`, `Flush`, `flushBitfield` |
| `Seed`, `CheckPiece`, `CheckSetBit`, `CheckEnd`, `CheckFlush`, `CheckWrite`, `CheckWriteFails` | `Torrent.run`, `doSeed`, `VerifyAll` |
| `MoveFile`, `MoveFileFails`, `RemoveOld`, `PutSettings` | `MoveTo` |
| `DeleteStart`, `DeleteStep`, `DeleteFails` | `Torrent.Delete`, `Torrent.Close`, `fsTorrent.Delete` |
| `Crash`, `Rot` | the end of the process at any moment; damage to a part on disk |

`bfmtx` is held while the bitfield is loaded and during the whole check (`BfLocked`), `access` for
the whole of `MoveTo` (`Moving`) and for each read and each write of a chunk, which are one step
each. Bits are loaded and stored as in `Download`.

Abstractions: a piece is stored part by part, in any order, and a part is right or not; a bitfield
file is written in one step once it is there, since `OpenFileWriteOnly` does not truncate and the
encoding of a torrent's bitfield always has the same length; `putSettings`, whose errors the code
ignores, succeeds; a removal is of everything or of nothing. A goroutine that outlives the deletion
of its torrent ends before the torrent is added again. The statistics file and the polling of the
download directory are left out; magnet links are in `Metadata`, the pooled I/O in `PooledIO`, the
mapping of blocks to files in `Layout`.

## 5. The other modules

Each section says what the state stands for, which code the actions are, and what is left out. The
paragraph "found" lists what the code does that its reader may not expect; the models have it, and
the properties except it by name where they would fail of it.

### `Layout`, `Bitfield`, `Blocks`

`Layout` has no state: it is `newPiece`, `nextRequest`, `accept`, `LengthOfPiece`, `Allocate`,
`WriteAt`, `ReadAt`, `putChunk`, `GetPiece` and `handlePieceRequest` as operators over an info
section (length or list of file lengths, piece length, number of hashes) and files that are functions
from offsets to bytes. The loops over the files are recursive functions of the number of files done,
`Writing` and `Reading`, with the bodies `WriteFile` and `ReadFile`. `Bitfield` is `bitfield.go` over
sequences of bytes, a byte being the set of its bits; each operator takes the number `w` of bits of a
byte, which is 8 in the code. `FindRarest` takes the order in which Go goes through its map of
counts. `Blocks` extends `Download` by `info` and `files`; the step of `Download` in which a block
is written writes its bytes with `putChunk`, so that every property of where data lands is checked in
every state the download can reach, and the set of held pieces is compared with its encoding as
bytes, for each of several widths of a byte. `GetStatus` is there with its slices of the bitfield.
The info sections are torrents as they are made, with a hash for every `PieceLength` bytes and one
for the rest (`InfosAssumption`); XD does not check that a torrent is.

Found: `NewBitfield` allocates one byte too many when the number of bits is a multiple of eight
(`bitfield.go:25`), and `GetStatus` relies on it; it counts bytes as bits in the progress of a file
(the code says so at `torrent.go:297`). A file of few bytes is shown by the first bit of the next
byte, so that an empty file at the end of a finished torrent may be shown by a spare bit, as not
complete (`torrent.go:302`); `BitfieldsAgree` excepts empty files. `AND` leaves the bits beyond a shorter remote bitfield
(`bitfield.go:98`). `readFileAt` dereferences a nil file when it can't be opened (`fs.go:138-147`);
that case is left out of `Layout`.

### `PieceStore`

What downloading promises: `whole`, the pieces that are good on disk, grows one at a time, and
`have`, what is claimed, is any subset of it. `Download!Store` is
`INSTANCE PieceStore WITH have <- bf, whole <- ...`, and `IsPieceStore` is checked as a PROPERTY and
proved. That a claim may be given up is the lost update of `bitfield.go:202`.

### `Channels`

One `PeerConn`. `sendq` is the number of messages in `send`, `pending` the counter `sendPending`,
`full` whether `close` holds its value, `gone` the channels `doClose` has set to nil, `shut` is
`closing`, `access` the mutex. The counters are integers without a bound of their
own; a message is taken only while the count has drifted out of `0 .. Cap` by `MaxSkew` at most.
`Begin`, `Lock`, `Test`, `Load`, `Store`, `Put` are `Send`, with the unlocked `sendPending++` as a
load and a store, by other goroutines, by the run goroutine itself, and by whoever cancels requests
with the lock held. `BeginClose`, `CloseSet`, `CloseValue`, `ClosePut` are `Close`; `RecvCloses` is
the run goroutine that calls it itself, for what a message says (`peer.go:568`,
`torrent.go:850,854,859`). `queueRecv`, `RecvValue` are the reader. `Loop` is the run goroutine's test of
`closing`, `SelectClose`, `SelectRecv`, `SelectSend` and `SelectTicker` are its select, and `DecLoad`,
`DecStore`, `Write`, `NilSend`, `NilRecv`, `NilClose`, `doClose` the rest of it. `clash` is history: two goroutines met in one of the windows the code leaves open.

Found: two senders that both pass the test may fill the channel, and the run goroutine, which is the
only one to empty it, may be one of them (`peer.go:224`); two closers may both find room for one
value (`peer.go:384`); a channel may be set to nil between test and use, and a send on a nil channel
blocks for ever; the reader may stay blocked after the run loop has left (`peer.go:248`); the tick
goroutine may block in `Send` with `access` held (`peer.go:367`). `ChannelsHaveRoom` says that these
windows are the only ways.

### `Connections`

The connections of a torrent. `conn` has a state, a direction and an address for each, `ib` and `ob`
are the tables, `dialer` the `PersistPeer` goroutines, `visit` what `Torrent.Close` has yet to close,
`pex` and `pop` the PEX state and the address `PopDestHashLists` is about to delete. `Arrive`,
`TurnAway`, `TestDuplicate`, `TestLimit`, `addIBPeer`, `Start` are `inboundConn` and `onNewPeer`;
`addPeers`, `PeerExchange`, `PersistPeer`, `DialPeer`, `DialFails`, `addOBPeer` the outbound side;
`End`, `doClose`, `onPeerDisconnected` the end of a connection; `Close`, `CloseConn`, `StartTorrent`
the torrent. Each test and each table access is a step of its own.

Found: of two dials of one address the second replaces the first in the table, and the removal of
either deletes the entry (`torrent.go:505,511,619`); a rejected inbound connection keeps its socket
(`torrent.go:707`); `NeedsPeers` compares with `<=`, so even `MaxPeers = 0` admits one
(`torrent.go:699`); a dial that meets another infohash counts as a success; `PopDestHashLists` visits
one entry only (`pex.go:34`); keep-alives never count as activity, so an idle connection is closed
after fifteen minutes.

### `Metadata`

A magnet link's info. `met` are the peers whose handshake for extensions has come, `known` those
whose bitfield has, `alloc` whether the buffer has been allocated, and with the right length. `have`,
`asked` and `buf` are the two bitfields and the shared buffer, `req` the requests of each peer, `task`
what each run goroutine is doing with an answer, `toAsk` the peers `askAllMetadata` has yet to ask,
`meta` the installed info, `late` history. Actions: `handleExtendedOpts`, `metaInfoDownload`,
`FirstLeaves`, `ResetRequests`, `askAllMetadata`, `Answer`, `Reject`, `SetPending`, `CopySlice`,
`PutInfoBytes`, `WriteTorrentFile`, `askNextMetadata`. Nothing is locked in the code, and nothing is
in the model. Servers are peers that have the info and keep the protocol; `Xds` answer as
`handleMetadata` does; any peer may send a bad slice, up to `MaxFaults`. A bitfield that comes before
the handshake leads to nothing (`peer.go:459`); that of an XD always does, since its handshake answers
ours and ours answers its bitfield (`peer.go:512`, `torrent.go:714`). `FirstLeaves` is one more peer
that has the buffer allocated, with a wrong length perhaps, is asked for a slice and goes. The named
peers of the model tell the right length; a wrong one has as many slices as the right one.

Found: the length the first peer names is kept, and when it is wrong the hash never matches, for ever
(`peer.go:460-468`, `torrent.go:550`). Until some peer's handshake comes before its bitfield nothing
is allocated, and the run loop asks nobody (`torrent.go:739`), so that a swarm of XDs alone never
gives a magnet link its info; nor could it, for an XD serves only the last whole slice, with what
follows it, and nothing of an info shorter than 16 KiB. An info whose length is a multiple of 16 KiB
needs a slice that does not exist; the info is installed before its file is written, and it aliases
the buffer (`torrent.go:577`, `fs.go:297`); the next request carries our number for the extension and
not the peer's.

### `Torrents`

`listed` and `holderClosing` are the holder, `started`, `closing`, `seeding` the flags of a torrent,
`loop` how many run goroutines it has in each state (new, in the loop, in `Seed`), `active` the
swarm's counter, `th` the goroutine that starts each torrent and the RPC requests. Actions:
`AddTorrent`, `SetCallbacks`, `waitForQueue`, `LoadActive`, `StoreActive`, `Start`, `StartRun`;
`RunStarts`, `RunEnds`, `SeedBegins`, `SeedReturns`; `ChangeTorrent`, `HolderClose`, `Stop`, `Close`,
`StopAnnouncing`, `StopHangs`, `Erase`, `RemoveSelf`. A run goroutine looks at `closing` at the top of
its loop only, and is in `Seed` and `AnnounceSeed` as long as it likes. A stop waits for its announce
between `Close` and `Stopped`, and for ever if that hangs. `Complete` are the torrents whose download
is complete sooner or later.

Found: a torrent that is stopped while it is queued is unlisted and takes a place it never had off
the count, and is started later nevertheless; `started` is set by the run goroutine, after a `Close`
that came first, which leaves a torrent that is closing and started, so that it can be neither
started nor stopped again (`torrent.go:726,884,920`); a request and the queue may start two run
loops; `active++` and `active--` lose updates (`swarm.go:58`); `Delete` gives no place back;
`Holder.Close` visits one entry (`holder.go:112`); `RemoveSelf` is nil before `startTorrent` has run,
and in `Holder.Close` the panic ends the process; `AddTorrent` dereferences the nil it gets when the
holder has closed (`swarm.go:194-196`), which ends the process too. `mishap` records those that spoil
the count.

### `Announce`

One torrent and one tracker: `life` says whether the torrent is announced, `ticker` and `reads` are
`announceTicker` and the ticker each poll loop receives from, `lock` is `torrentAnnounce.access`,
`due` whether it is later than `next`, `numeric` whether the network's port is a number. `hasty` is
history: `next` passed while one waited for the lock that a stop had overtaken. Actions:
`StartAnnouncing`, `StopAnnouncing`, `DropAnnouncing` (`StopAnnouncing(false)`), `Stopped`,
`AnnounceSeed`, `PollTop`, `PollRead`, `PollTick`, `tryAnnounce`, `Network`, `PortFails`, `Announced`,
`addPeers`, `Hang`, `NextPasses`. Two starts in a row are possible, as in `Torrents`. `next` passes
when it likes: it may lie in the past at once, and pass while somebody has the lock.

Found: `tryAnnounce` returns with the lock held when the port is not a number (`announce.go:45-47`,
`PortFails`); it always is one on I2P. The poll loop reads the ticker twice, and panics when it has
become nil in between (`dead`); an announce whose lookup never returns (`sam.go:196`) keeps the lock
for ever (`Hang`); the announce of "stopped" is not sent when the next announce is not due. The
interval a tracker names is not checked: it is 30 seconds when none is named (`http.go:94`), and may
be nothing or negative (`http.go:135,189`), and then a goroutine that waited while a torrent was
stopped announces it once more (`hasty`).

### `Network`

`sess`, `key`, `keyfile`, `queue`, `server` are the sessions with their keys and lookups, `mgr` the
session manager in `xd.go`, `net` and `loop` are `netLoop`, `acc` is `acceptLoop`, `caller` whoever
calls `Network` and dials. Actions: `Open`, `OpenFails`, `CreateSession`, `Die`, `Lookup`,
`LookupReply`; `CallNetwork`, `Dial`; `ObtainedNetwork`, `LostNetwork`, `OfferNetwork`,
`HandToCaller`, `HandToAccept`, `NetLoopEnds`; `AcceptLoop`, `Accept`, `AcceptFails`,
`AcceptRefused`, `NetError`, `AcceptWakes`; `Close`, `CloseSession`. A send on an unbuffered channel
and its receive are one step.

Found: while a lost session is still on offer `acceptLoop` takes it, fails on it, and its error ends
the next, healthy session (`swarm.go:270`), which is why `FaultCost` has a factor of two; lookups
queued on a dead session wait for ever (`sam.go:196`), and a session's `Close` may block behind a
full queue (`sam.go:53`); `Store` creates the keyfile before it writes it, and a torn one makes every
`Open` fail (`keyfile.go:98`); a peer whose name can't be looked up ends the plain network
(`inet.go:92`); a Lokinet session that an interrupt closes before it is open dereferences nil.

### `Context`

What those who call `Network` and `acceptLoop` can rely on: `current`, the network on hand if there
is one, `dialing` and `accepting`, the networks in use. A network comes (`Obtain`) when there is none
and is newer than every one in use, is lost (`Lose`), and is taken (`Take`, `TakeInbound`) only while
it is on hand; a lost one is used until it is dropped. `NetworkProofs` maps `Network` to it with
`current <- net`; no run checks it.

### `Wire`

Two ends, each an XD with the info. `held` is the bitfield, `stage` how far the connection is set up,
`theirs`, `wants`, `told`, `wanted`, `chokes`, `choked`, `downloads`, `asked`, `last` are the fields
of `PeerConn`, `sent` the messages under way, `work` what the run goroutine of this connection and one
of another connection have yet to do, step by step. Actions: `addPeer`, `Snapshot`, `SendBitfield`;
`ReceiveBitfield`, `ReceiveHave`, `ReceiveUnchoke`, `ReceiveInterest`, `ReceiveRequest`,
`ReceivePiece`; `Elsewhere`; `Visit`, `ReadBitfields`, `Assign`, `Compare`, `Record`, `Unchoke`,
`RunDownload`, `SendOne`; `tickDownload`, which visits the piece of the last request first, as
`NextRequest` does, and asks for it again although it is held (`piece.go:211-218`). A piece is one
block: `Download` and `Blocks` look at what is inside. Messages are not lost, for the connection is a stream; the loss of the connection is in
`Connections` and `Channels`.

Found: a HAVE that comes before the bitfield closes a healthy connection, and a piece completed
between the entry in the table and the bitfield sends one (`torrent.go:712-714`);
`checkInterested` runs unlocked in two goroutines and may send the older result last (`raced`); a
connection that is not interested does not ask when a bit is cleared (`peer.go:440`), which `Wire`
does not show, since bits are only set there; XD never sends CHOKE, and its `choked` is cleared once.

### `Exchange`

What a connection between two XDs promises, without messages, flags and goroutines: `held`, the
pieces of each end, `known`, those each end knows of the other, and `outside`, how many came from
elsewhere. An end learns of pieces the other one really holds (`Learn`), gets a piece it knows of
(`Fetch`), or comes by one elsewhere (`Bring`), and neither set ever shrinks. `TorrentsProofs` maps
`Wire` to it, with `known <- Known`, the remote bitfield or nothing before it has come. No run
checks it; the refinement is proved for every number of pieces.

### `PooledIO`

`ioChan` is the channel, `user` the goroutines that read and write, `access` the locks of the
torrents they hold, `worker` the workers, `quits` the nils `Close` has yet to send. Actions: `Call`,
`Lock`, `Test`, `Put`, `Direct`, `Unlock`; `Run`, `StartWorker`, `Take`, `RunIOP`; `Close`,
`SendNil`.

Found: an operation sent after the last nil is never answered, and its torrent's lock never
released (`late`); `wg.Add` is called in the goroutine it counts, so `Run` may return early; `Close`
does not wait for the workers.

### `SFTP`

`ssh` and `client` are the two layers of the connection, `file` and `dirs` the server's, `last` the
last operation with what it reported. `Operate`, `OperateDead` and `OperateUnconnected` are an
operation through `ensureConn` with a live, a dead and no connection; an operation is one step whose
outcomes are what its calls may leave behind, so that a failure after any of them is covered.

Found: `OpenFileWriteOnly` truncates, so each chunk wipes out the earlier ones
(`sftp.go:212-223`); a connection that dies is never made again; `ensureConn` returns `Close`'s nil
when it can't connect, so that operations after the end of the storage report success; `EnsureFile`
takes a short file for a whole one and closes a nil file when it can't create one; `removeAllDir`
looks for a nested directory under a wrong name. `SuccessIsDone` therefore speaks of the last
operation, and of an open storage.

## 6. The runs

| run | instance | checked |
|---|---|---|
| `download_expiry` | `MCDownload`: 2 honest peers, 1 piece of 2 blocks, window 1, 1 fault; fair | `ExpiryCancelsAll`, `ObtainedOnDisk`, `PendingReleased`, `FirstPieceArrives`, `TickReturns` |
| `download_pieces` | `MCDownload`: 2 honest peers, 2 pieces of 1 block, window 1, 1 fault | `IsPieceStore` |
| `download_pipelined` | `MCBlocks`: 1 peer that may send anything, pieces of 2 and 1 blocks, window 2, layouts of one to three files, empty ones among them | `RequestLimit`, `BlocksLand`, `BitfieldsAgree`, `VerifiedWhenSet` |
| `download_new_piece` | `MCDownload`: 1 honest peer, 2 pieces of 1 block, window 1, no fault; fair | `PicksNewPiece`, **violated** |
| `storage_safe` | `MCStorage`: 1 connection, 1 fault, 2 crashes; fair | `TypeOK`, `ClaimedOnDisk`, `SeedsWhenDone` |
| `storage_conns` | `MCStorage`: 2 connections (symmetric), no fault, 1 crash | `ClaimedOnDisk`, `OldDirGone` |
| `storage_move` | `MCStorage`: 1 connection, no fault, 1 crash | `MoveKeepsData`, **violated** |
| `storage_seed` | `MCStorage`: 1 connection, 1 fault, no crash | `SeedOnlyComplete`, **violated** |
| `storage_delete` | `MCStorage`: 2 connections, no fault, no crash | `DeletedIsGone`, **violated** |
| `network` | `MCNetwork`: 1 caller, 5 sessions, a lookup queue of 1, 2 faults, a keyfile. Channels: 1 sender, room for 2 messages, at most 2 cancels under one lock, no skew out of the range. SFTP: 2 files of 2 chunks, 1 failing call. PooledIO: 3 users, two of one torrent, 2 workers, a channel of 1, 3 operations; fair | `AllTypeOK`, `LostIsGone`, `FaultCost`, `SameDestination`, `ChannelsHaveRoom`, `SuccessIsDone`, `BackOnline`, `CallersServed`, `RunLoopEnds`, `OpsReturn` |
| `peers` | `MCPeers`: 2 addresses, 2 connections, 1 dialler, 2 tries. Metadata: 2 slices, a server, an XD and one more that is first and leaves, 1 fault; fair | `BothTypeOK`, `TablesMatch`, `InboundBound`, `NoGhostPeers`, `InstalledIsGood`, `ClosingEnds`, `InfoArrives` |
| `torrents` | `MCTorrents`: 2 torrents, one of which completes, a queue of 1, 1 user, 2 requests. Announce: 2 starts, 2 stops or seeding announces, a port that is a number or not. Wire: 2 pieces, 1 request on the way, 1 piece completed elsewhere, one end with everything or each with one; fair | `AllTypeOK`, `OpenIsRun`, `NothingMissed`, `InterestTold`, `PlacesReturn`, `SilentAfterStop`, `AnnouncesGoOn`, `NoStandstill` |

What they show:

* `IsPieceStore`: `Download` with honest peers implements `PieceStore`: a piece is claimed only when
  it is whole on disk (`HaveIsValid`), and what is whole stays whole. No stale cached piece, repeated download, late cancel or lost
  update of the bitfield byte makes XD claim a piece it does not have. It is enough to have two
  pieces that share a byte and two connections that finish them together. A lost update can only
  lose a bit, and the piece is then downloaded again.
* `ObtainedOnDisk`: a block marked obtained, in a stale cached piece too, was written.
* `RequestLimit`: the check and the addition are under two separate holds of the lock, and the
  limit still holds, because only the tick goroutine adds.
* `ExpiryCancelsAll`: between the first `cancelPiece` and `pending.Zero` no connection that was
  cancelled lists a block of the piece again.
* `PendingReleased`: a block on request does not stay so for ever, although a connection that
  closes while the tick goroutine is about to queue a request for it leaves an orphan behind, which
  only the expiry of the piece cleans up.
* `FirstPieceArrives` and `TickReturns`: something is downloaded while a connection lasts, and the
  one tick goroutine gets through every round.
* `VerifiedWhenSet`: whatever a peer sends, a bit is set only when the piece is good at that moment.
  It is stated for one connection; with two, a bad block of one may land between the other's reading
  the piece back and its setting the bit.
* `PicksNewPiece` is what the comment at `swarm/piece.go:219` says, and the code does otherwise: a
  piece that was completed is removed from the map, the connection's last request still names it,
  and `NextRequest` creates it anew and downloads it again before it looks for another. With a
  window of one request the connection never leaves it. With a wider one it happens whenever the
  last block of a piece is answered before the next tick. This is also why `FirstPieceArrives` is
  about the first piece and the fair runs have one piece: a connection caught by this may starve
  the download of the rest.
* `ClaimedOnDisk`: what the bitfield file claims is good where the next start looks for it, and
  what the bitfield in memory claims is good where it reads, at every moment: through crashes in a
  download, a check or a deletion, older bitfields flushed over newer ones, and torrents deleted and
  added again. It holds because data is synced before the bit is set, the bit is set before the
  flush, and a deletion removes the bitfield before the data.
* `OldDirGone`: no connection writes to the directory the torrent has moved from. `MoveTo` holds
  `access` until `dir` is the new one.
* `SeedsWhenDone`: a complete torrent comes to be seeding, also when the move or the flush of its
  first attempt fails, unless the check finds a bad piece, and then its `dir` is the seeding directory
  with one exception, `unmoved`. `VerifyAll` sets `seeding` by itself (`fs.go:398`): for a torrent that
  was complete when it was added, whose `Seed` returns at once (`fs.go:478`), and for one whose flush
  after the check failed. Neither is moved, although `storage.go:69` says so of `Seed`. Since a failed
  move sets `dir` to the new directory nevertheless and a check that can't read a piece keeps its bit,
  a torrent may be seeding data that is not there; the mishaps are excluded from `ClaimedOnDisk` and
  not from this.
* `MoveKeepsData` is violated: a crash during a move loses the files that had moved. The settings
  are written last, the next start allocates empty files in the old directory, and the check and
  the move that follow rename them over the good ones.
* `SeedOnlyComplete` is violated: `doSeed` waits for an `ErrInvalidPiece` that `VerifyAll` has
  replaced by nil, so a torrent with bad pieces is moved and marked as seeding while it lacks them.
  Its run loop goes on, for it ends only when the torrent is done (`torrent.go:746-748`), and the tick
  goes on asking for the pieces (`torrent.go:816-834`). Two connections can do the same to undamaged data: one verifies a
  piece whose bit is set already and loads the byte, the other sets the last bit, `Seed` begins, and
  the first stores its byte without that bit (`bitfield.go:202`), perhaps after the check.
* `DeletedIsGone` is violated: a connection that is storing a piece when its torrent is deleted
  writes the bitfield file, and for a torrent of one file the data, again.

  Section 7 proves that nothing else is behind these three: what they lack is that a mishap came
  first, and for `SeedOnlyComplete` that lost bit.

* `BlocksLand`: the blocks of a cached piece, the request for each, the test of its answer and the
  place of its bytes agree for ten layouts, with one file to three, empty files and blocks that lie in
  three files among them; what is read back for the hash and for an upload is what was written.
  Section 7 proves it for every layout.
* `BitfieldsAgree`: whatever a peer puts into the spare bits of its bitfield, interest and the choice
  of a piece are what the sets say, for bytes of one to three bits, `GetStatus` reads no byte beyond
  the bitfield, and a finished torrent shows all of its files that are not empty as complete.
* `SuccessIsDone`: the driver never reports success of what it did not do, as long as the storage is
  open.
* `LostIsGone`: once `LostNetwork` has returned nobody gets the lost network.
* `FaultCost`: one fault costs at most two sessions (section 5, found), not an endless run of them.
* `SameDestination`: with a keyfile every session has the same destination, whichever step failed.
* `BackOnline`, `CallersServed`: neither the manager nor `netLoop` nor a caller of `Network` waits
  for ever for the other, and a lookup is answered while its session lives.
* `ChannelsHaveRoom`, `RunLoopEnds`: nobody waits for room in a channel and every closing connection
  leaves its loop, but for the races named in section 5.
* `TablesMatch`: an entry of the tables is a connection that lives, and one that lives has its entry,
  unless two of one address met. `InboundBound`: the limit is exceeded by no more connections than
  were in admission together. `NoGhostPeers`: PEX never tells of an address with no connection.
  `ClosingEnds`: a connection that is told to close leaves its table, also when it was told between
  its entry and its start.
* `InstalledIsGood`, `InfoArrives`: what is installed is what the hash was taken of, unless a slice
  was stored late. Once the buffer has the right length one server is enough, whatever others reject
  or send wrong, whether its handshake came before its bitfield or after, and whoever named the length
  and left. When the first peer names a wrong length there is no such promise (section 5).
* `OpsReturn`: reads and writes return and release their torrent, also while the workers are told to
  leave over the channel the operations go through.
* `OpenIsRun`: `Start` and `Stop` communicate with the run loop by two flags nobody locks, and it
  looks at them once a second. Yet no order of starts and stops leaves a torrent that is open and not
  seeding without a run goroutine; there may be two. `PlacesReturn`: a queued torrent gets the place
  of one that was stopped, unless the stop's announce hangs, an update of the count was lost, or a
  torrent was closed without a stop.
* `SilentAfterStop`: after a stop the tracker hears of the torrent at most from a late
  `AnnounceSeed`, or from one that waited for the lock so long that its next announce was due again.
  `AnnouncesGoOn`: a stop returns and announces go on, unless an announce hangs or the port is not a
  number; a failed announce keeps nobody waiting.
* `NothingMissed`: no piece that is completed while the connection is set up stays unknown to the
  other end. `InterestTold`: when nothing is left to do both ends know who wants something.
  `NoStandstill`: no end stops asking while the other one has something it lacks, unless a HAVE closed
  the connection, two goroutines met in `checkInterested`, or it asks for a piece it holds, again and
  again. The last is what `PicksNewPiece` shows; with one request at a time and pieces of one block it
  is the rule, and it keeps the ends from ever holding the same.

The bounds are enough for the interesting cases to happen. Two connections with one piece give every
race between two handlers and the tick goroutine over one cached piece, two pieces give the races
over one byte of the bitfield, and one fault at any moment gives every single failure. `Objects`
never restricts a run: there is at most one reachable cached piece for each piece and one held by
each goroutine, and the instances have at least as many addresses as that. `TickStart` idles once
the torrent is complete, so no `download` run deadlocks. Bad blocks are sent for the first piece of
the single-file instance only: where the bytes go does not depend on what they are. In `Storage` a
torrent that is seeding has nothing to do, so its runs do not check for deadlock. Two crashes give a
crash in what a restart does about the first; a piece in two files is stored and moved in two steps,
which is what a crash can separate; the second connection is there for a piece being stored twice
and for flushes that overtake each other. The sums may stop because their parts do: a closed swarm,
an installed info, a pool without work, bounds that are used up. In `network` two faults give a
fault while the first is dealt with, and five sessions are `2 * MaxFaults + 1`: a second session
without a fault and a fourth after one would violate `FaultCost`, which is proved for every number
of both. `MaxPeers = 0` still admits a connection, so that the second one meets the limit. A channel
for one operation with three users and two workers has users waiting for room while nils are sent.
In `torrents` one place for two torrents makes one of them wait; two requests stop it and start or
delete it again. The end of the swarm is the last request. `t1` completes and seeds, `t2` does not.
Two starts of the announces leave an earlier goroutine waiting for the lock of a later one, and two
calls have a stop meet the seeding announce or another stop. In `Metadata` the one fault is the
wrong length, a bad slice or a failed write. `Holdings` has an end that only gives and two ends that
give and take; with `Elsewhere` on top a piece comes from two sides.

Fairness: every goroutine runs (weak fairness of its steps), where nothing less is said here. In
`Download` a peer answers a request it has and a queued request is written (weak); a peer that
choked us unchokes us in the end (weak, and only when choked); time passes (strong fairness of
`Age`, since activity on a piece disables it for a moment, and the five minutes of inactivity do
come when nothing happens). In `Storage` only the torrent's main goroutine is assumed to run: it is
one goroutine whose loop wakes once a second and waits for nobody else. In `Channels` the run
goroutine gets a mutex others take in turn (strong: Go's mutex hands over to one that has waited a
millisecond); nothing is assumed of what the peer sends and of what others queue. In `Network` those
that wait on an unbuffered channel are served in the order they came (strong fairness of
`HandToCaller`, `HandToAccept` and `Dial`); the router answers lookups. In `Announce` whoever holds
the lock gets the network or finds that it can't (weak, which is what `Network` shows of its
callers), a free lock is taken by somebody who waits, `next` passes, polls run, and the stop gets a
lock that others take in turn (strong: Go's mutex hands over to one that has waited a millisecond).
`Hang` is a choice of its own: nothing makes it happen and the properties except it. In `Torrents`
the goroutines that start a torrent and those of the requests run; nothing is assumed of run
goroutines, which may be in `Seed` or behind an announce for ever. In `Connections` only the
goroutines of the connections are assumed to run. In `Metadata` a server shakes hands, sends its
bitfield and answers (the last strong, for the requests are forgotten and made anew), and its
connection comes first in some visit of the table (strong: the order in which Go visits a map is
random). In `Wire` what is sent arrives. Nothing is assumed of chokes, closes, failures, inbound
connections, users and what callers do next.

A property of the form `[]<>P` is "P again and again": where P is an implication about a state in
which something is due, it says that the state is never stuck there. It is used in place of `Q ~> R`
where the state can be left in several ways, or where `Q` and `R` stay once they hold.

## 7. The proofs

Each theorem is about the specification of its module with any constants that satisfy the module's
named assumptions: any number of connections, pieces, blocks, files, sessions, callers, torrents,
requests, faults and crashes, any window, capacity and limit. The assumptions say of what type a
constant is, that what must be finite is, and that `None` is none of the values it stands beside. TLC
evaluates them in every run. Where a theorem asks for more, it says so.

Hardly any of the properties is inductive. The argument is always the same: a stronger invariant says
where each goroutine is and what it holds there; the initial states have it, every step keeps it, one
step of the proof per action and one below per conjunct the action can disturb; it implies the
property.

`MCPeers`, `MCNetwork` and `MCTorrents` are sums of modules that have to be instantiated there, since
their variables and constants share names. The theorems about those modules are stated for the sum,
`MCSpec => ...`, and each rests on lemmas of the form "the invariant of this part holds at first and
is kept by a step of this part". The constants of the parts are arbitrary there too. What the sums fix
is the rest state of the parts that do not move, what the two ends of `Wire` hold at first, and for
`SFTP` how the files are spread over directories.

### `DownloadProofs`

* `TypeCorrect == Spec => []TypeOK`. `TypeOK` is not inductive by itself: that `cached[run[p].obj]`
  has an index at all depends on the cached piece a goroutine holds not being recycled. The
  inductive invariant is `Typed`: `TypeOK` and `MapRefs`, `RunRefs`, `TickRefs`, which say what the
  map and the goroutines refer to at each pc and that a referenced object has the right index.
  The lemmas about `Sweep` and `Reach` say that what is reachable keeps its value.
* `HaveCorrect`, assuming every peer is honest: `Spec => []HaveIsValid`. The inductive invariant
  `HaveInv` adds that no block on disk is bad, that the byte a goroutine has loaded from the
  bitfield (`snap`) contains only good pieces, and that a goroutine at `have` has verified its
  piece. A loaded byte may be stale and the store may lose bits, but good blocks never turn bad, so
  it never stores a wrong one.
* `ImplementsPieceStore`, with the same assumption: `Spec => IsPieceStore`. The initial states map to
  initial states; a step that writes a block that completes its piece maps to `Arrive`, one that
  stores the byte of the bitfield to `Claim`, by `HaveInv` after it, and every other step stutters.
* `ObtainedCorrect == Spec => []ObtainedOnDisk`. The inductive invariant `DiskInv` adds the loaded
  `obtained` bytes of goroutines at `put` and that their block is written.
* `ExpiryCorrect == Spec => []ExpiryCancelsAll`. A connection that was cancelled is asked for
  nothing while the tick goroutine, the only one that asks, is still cancelling.
* `RequestCorrect == Spec => []RequestLimit`. `LimitInv` adds that as long as the tick goroutine is
  anywhere between `numDownloading` and `queueDownload` for a connection, that connection is below
  its limit, since everybody else only takes requests away. The lengths of bags of requests are
  cardinalities of finite sets in the proof.
* `VerifiedCorrect`, assuming there is a single connection, as `VerifiedWhenSet` does: `OwnInv` says
  that what this connection has loaded of the bitfield is still in it, and that the piece it found
  good is good until its bit is stored. No peer is assumed to be honest.

### `BlocksProofs`

All theorems are about `BlocksSpec`: any number of pieces, peers and files, empty ones among them,
any sizes of blocks, pieces and bytes. They assume that the torrent is well made (`InfosAssumption`),
that a byte has a bit (`WidthsAssumption`) and that the peers are finitely many
(`ConnectionsAssumption`).

* `BlocksCorrect == BlocksSpec => []BlocksLand`. `BlocksLand` says what reading a block gives, and
  that is not inductive: a write goes through the loop over the files, and what the next read gives
  depends on bytes no property mentions. The invariant `BytesInv` goes below it: every file has its
  length, and for every block each byte of each file that lies in it is the one `disk` says. That it
  is kept rests on three groups of lemmas. `WritingFacts` and `ReadingFacts` say where the loops of
  `WriteAt` and `ReadAt` are after `i` files (`WriteState`, `ReadState`), for any files, so that a
  write changes the bytes in its range and no other and a read returns those of its range.
  `PieceFacts`, `BlockFacts` and `SlotsApart` say that the blocks of the pieces are ranges that do
  not meet and `PieceCovered` that they leave nothing of a piece out. `WhoWrites` relates the steps
  of `Download` to the one write of `Blocks`.
* `BitsCorrect == BlocksSpec => []BitfieldsAgree`, from `Typed` of `DownloadProofs`. `Packed` is the
  bitfield of a set; `EncodeFacts` says that setting and unsetting bits in any history leads to it
  (`BitPlace` and `BitPlaceUnique`: `Idx` and `Mask` are one to one). On it, `CountFacts` and
  `InterestFacts` say what `CountSet`, `Completed` and `checkInterested` compute, the latter against
  any payload of the peer; `RarestFacts` what `FindRarest` finds in whatever order; `FileBytesFacts`
  and `FileFull` that the bytes `GetStatus` takes for a file lie in the bitfield, and hold no spare
  bit unless the file is empty.
* `FilesImplementStore`, assuming that all peers are honest: `BlocksSpec => FileStore!Spec`. This
  carries the refinement of `PieceStore` down to the bytes. `whole` is no longer what `disk` says but
  the set of pieces whose bytes, read from the files as `VerifyPiece` reads them, are the hashed ones
  (`WholeFiles`). By `BytesInv` the two are the same set, before and after a step, so that a step maps
  as in `ImplementsPieceStore`.
* `ServedCorrect`, with the same assumption: `BlocksSpec => []Served`. What `handlePieceRequest` answers
  to a request for a block of a piece in the bitfield is the torrent's own data, from `HaveInv` (such a
  piece is good) and `BytesInv` (a good block reads as good). No run states these two: `BlocksLand`
  and `IsPieceStore` are their two halves on the instances.

What a loop computes is an induction over the number of its turns. The theorems of the library for
that take a predicate as a parameter, which the provers cannot instantiate, so the loops are recursive
functions and the induction is over a set of numbers: `CountUp`, proved from the well-foundedness of
the natural numbers, says that a set with 0 and with the successor of each of its members below `n`
has all up to `n`. The same argument shows that such a function exists at all (`WritingLoop`,
`ReadingLoop`, `MarkingLoop`, `RarestLoop`).

### `StorageProofs`

* `TypeCorrect == Spec => []TypeOK`, with `Typed`: `TypeOK`, and that a goroutine at work has a piece
  and a bitfield to work with.
* `ClaimCorrect == Spec => []ClaimedOnDisk` and `OldDirCorrect == Spec => []OldDirGone`, both from
  `Sound`: before any mishap, the settings say where the torrent is (`Located`), every copy of the
  bitfield, on disk, in memory and loaded by a goroutine, claims only pieces that are good wherever
  their files are by now (`Claims`), nobody works on a torrent that is closed, deleted or being loaded
  (`Alone`), and after a move the old directory is empty (`OldGone`). `ClaimedOnDisk` excepts a move
  in progress; the invariant cannot, since the copies outlive it, so it follows each file to the
  directory it is in at that moment (`Place`).

Three theorems give the other side of the three violated properties: under which conditions the code
does keep what its documentation says.

* `DataCorrect == Spec => DataStays` (for `MoveKeepsData`): before a mishap, and whatever crashes there
  are outside a move, only deletions and disk faults lose a part of a piece. `Undoubled`: a file is
  nowhere but where the torrent looks for it (`Single`), so a rename replaces nothing and the
  directory that `RemoveAll` takes is empty.
* `DeleteCorrect == Spec => []CleanDelete` (for `DeletedIsGone`): a deletion that no fault or crash
  cuts short removes everything, if no goroutine was at work when it began and the torrent was not
  added on the settings of an earlier one. `NothingLeft`: who is in the swarm has a `.torrent` file,
  so that one which is neither open nor has that file went through the whole of `Delete`; `Single`
  says that the other directory is empty.
* `SeedCorrect == Spec => SeedsComplete` (for `SeedOnlyComplete`): with one connection and before a
  mishap a torrent comes out of `Seed` complete. `Seeds`: whoever may still store a byte of the
  bitfield works on a torrent that is not done, so nobody does while `Seed` runs; the check finds
  every piece good because the bits are set and `Claims` holds. With two connections the first half
  is false, and so is the theorem (section 6).

### `ConnectionsProofs`

* `TypeCorrect == Spec => []TypeOK`, with `Typed`: `TypeOK`, and that whoever admits, dials or runs
  knows an address.
* `TablesCorrect == Spec => []TablesMatch` and `GhostsCorrect == Spec => []NoGhostPeers`: these two
  are inductive together with `Typed`.
* `BoundCorrect == Spec => []InboundBound`, assuming finitely many addresses and connections. The
  entries alone are no invariant: `BoundInv` counts those that have passed the test and are not
  stored yet along with the entries, and says that the sum is at most `MaxPeers + peak`. When the last
  of them passed, the entries were within the limit, and all others were in admission with it.

### `NetworkProofs`

* `TypeCorrect == Spec => []TypeOK`.
* `DestinationCorrect == Spec => []SameDestination`: no session has a key but the one on disk
  (`KeyInv`). A session without a keyfile of its time would have to be followed by one that finds it,
  and a torn keyfile comes before the first key only.
* `LostCorrect == Spec => []LostIsGone`. `GoneInv` adds that what is on offer, and what `acceptLoop`
  accepts on, is a network.
* `CostCorrect == Spec => []FaultCost`. `Due` is the number of sessions still to be made for the
  faults there have been: two while a dead network is on offer, for it is taken and reported by
  `acceptLoop` and lost by the manager, one for an error that is yet to be reported, one for a network
  that is being replaced. `CostInv`: sessions made and due are at most `2 * faults + 1`, until the
  swarm is closed. This is where the factor of two comes from, for every number of faults.
* `NetworkImplementsContext == Spec => X!Spec`, the refinement. `UseInv`: the network on hand is the
  last session made, whoever waits has none, and nobody has the session that is being opened. The last
  needs the keyfile: only a torn one makes the manager try again under the same number, and then no
  session was ever given to anybody. What it adds to `LostIsGone`: a lost network does not come back
  later either.

### `PeersProofs`

* `TypesCorrect == MCSpec => []BothTypeOK`.
* `InstalledCorrect == MCSpec => []InstalledIsGood`. `OnePutter`: unless a slice was stored late, at
  most one goroutine is putting the info, `putting` is set while it does and stays set when the info
  is installed, and the installed buffer is good. That it stays set is what keeps the slices that are
  still on their way out of the buffer, which the installed info shares.

### `MCNetworkProofs`

* `RoomCorrect == MCSpec => []ChannelsHaveRoom`. `CountInv`: unless two goroutines have met in one of
  the windows, `sendPending` is the number of messages in the channel, about to be put there, and
  taken out but not counted yet; at most one goroutine is past the test and not counted, there is room
  for it, and whoever is about to write the counter back has read what it still is. `CloseInv`: only
  one is in `Close`, nothing is in its channel until it has put it there, and the channel exists when
  it takes it. Any number of senders, any capacity.
* `SuccessCorrect == MCSpec => []SuccessIsDone`. `DoneInv`: the files are well-formed, and the last
  operation that reported success is still done, since nothing but an operation changes a file.
* `AllTypesCorrect == MCSpec => []AllTypeOK`, for `Network`, `Channels`, `SFTP` and `PooledIO`
  together. `PoolInv` adds that a user about to send, a running worker and a `Close` that sends nils
  are there only when the pool has its channel.

### `TorrentsProofs`

* `AllTypesCorrect == MCSpec => []AllTypeOK`. `TypeOK` bounds the number of run loops, and that is the
  hard part: `LoopsInv` says that each run loop of a torrent was started by a request or by the
  torrent's own goroutine, so that loops and the goroutines that may still start one are together at
  most the requests made and one. `Scripted` says what comes after what in the steps a goroutine of
  `Wire` has before it, and `Unknown` that nothing is wanted of an end whose bitfield has not come.
* `OpenCorrect == MCSpec => []OpenIsRun`. `OpenInv` makes it inductive by what `started` promises: a
  torrent that is not closing, and counts as started or was once started by its own goroutine, has a
  run goroutine, is seeding, or is about to get one. So whoever finds it "already started" may leave;
  a run goroutine leaves its loop only when it finds the torrent closing, which only a `Start` that
  goes on to start another one takes back, or seeding.
* `SilentCorrect == MCSpec => SilentAfterStop`, an action property. `SilentInv`: only the holder of
  the lock is past it; a torrent that is not on has no ticker; and after a stop, whether "stopped" was
  sent or not, `a.next` is in the future for all that still wait, so that whoever gets the lock later
  returns at the test, or `hasty` says that it has passed, or the port is not a number and nobody ever
  sends.
* `MissedCorrect == MCSpec => []NothingMissed`. The property is about an open connection that is set
  up; the invariant `HeldInv` covers the setting up: what is held is in the snapshot, under way, or
  due to be broadcast by a goroutine that sees the connection in the table; what is known or under way
  is held; there is one bitfield and it comes first.
* `InterestCorrect == MCSpec => []InterestTold`. `InterestInv`, for ends in which no two goroutines
  met in `checkInterested`: one goroutine at a time compares; when no bitfield remains to be read by
  one the comparison is up to date; and what was said last, counting what a goroutine has queued and
  not recorded, is what the other end knows or the last thing under way to it.
* `WireImplementsExchange == MCSpec => X!Spec`, the refinement: `Learn` is the receipt of a bitfield or
  a HAVE, `Fetch` that of a piece, `Bring` is `Elsewhere`, and every other step of the goroutines
  stutters. `HeldInv` shows that what is learned is held; `AsksInv` adds that only what is known is
  asked for and that what is asked for, about to be answered or under way is held by the end it comes
  from, so that no piece arrives that was not known. That
  the last request is asked for again keeps to this too: `LastKnown`, its piece is known of the other
  end.
* `AsksCorrect == MCSpec => []AsksHeld`, from the same invariant: `handlePieceRequest` reads the disk
  without a look at the bitfield (`torrent.go:837-862`), and what it reads is a verified piece all the
  same, for XD asks only for what the other end holds, and an end of `Wire` gives nothing up. Of a
  remote peer that is not an XD this says nothing.

### What is only model-checked

* The liveness properties: `PendingReleased`, `FirstPieceArrives`, `TickReturns`, `SeedsWhenDone`,
  `BackOnline`, `CallersServed`, `RunLoopEnds`, `OpsReturn`, `ClosingEnds`, `InfoArrives`,
  `PlacesReturn`, `AnnouncesGoOn`, `NoStandstill`. Fairness needs `ENABLED`, which is beyond the prover.
* The four properties that are violated.

## 8. Not modelled

* The wire format: encoding and decoding of single messages, without state. What an answer of the
  wrong shape does is in `accept` and `handlePieceRequest`.
* The DHT and gnutella: stubs, nothing in them changes the state of a swarm.
* Configuration, logging, translation, statistics, the torrent maker and the parsers: sequential, at
  start-up or for display. Of `xd.go` the session managers and the interrupt are in `Network`. An
  interrupt closes the pipe of the log first (`xd.go:116`), and the process may end before everything
  is flushed; what a lost flush costs is a crash of `Storage`.
* RPC's JSON, HTTP and the web UI. The requests that change torrents are the users of `Torrents`.
* Of the plain network everything but a connection that can't be named, and of I2P the packet
  connection and a stream once it is made.
* Of the SFTP driver `Glob`, `Stat` and the handling of paths; `std.go` calls the Go library.
* Of the storage the saved statistics and `PollNewTorrents`; a bitfield file that was created and not
  written before a crash, which leaves the bitfield nil (`fs.go:646`), is a state of `Storage`
  (`Empty`), the panic that may follow is not.
* Of the piece tracker the 250 ms between attempts and the rate statistics.
