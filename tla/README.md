# TransNode in TLA+

TransNode is a BitTorrent client for node.js: a C++ binding (`src/src/*.cpp`)
over a copy of libtransmission 2.75 (`src/src/libtransmission`, C, some 50,000
lines). This directory holds TLA+ models of it, the TLC instances that check
them and proofs of their main properties. Every definition is translated from
the code; `PROJECT.json` maps it to the lines it stands for. Below, file names
without a directory are in `src/src/libtransmission`, except `transNode.cpp` and
`TransSession.cpp`, which are in `src/src`.

    tlc -config TorrentLife.cfg MCTorrentLife.tla      # check an instance
    tlapm Threads_proofs.tla                           # check the proofs

## 1. The system

### Threads

| thread | created by | runs |
| --- | --- | --- |
| script | node.js | the API functions, `after()` |
| API worker | `pthread_create` in each API function | one `xxxImpl` on the session, then ends |
| idle/log loop | `TransSession::start` | the watch directory, log messages |
| event thread | `tr_eventInit` | libevent: timers, sockets, calls queued by `tr_runInEventThread` |
| verify thread | `tr_verifyAdd` | `verifyThreadFunc`, ends when its list is empty |
| web thread | `tr_webInit` | curl |

There are several locks (the session's recursive lock, the pipe's lock of
trevent.c, the verify lock, the lock of web tasks) and much state that is read
or written with none of them. Where the code takes no lock, the models take none.

### Components

*Node binding* (transNode.cpp). State: `queue_msg`, `isSuscribed`, one
`uv_async_t`, the global `transSession`. Operations: open, add, list, start,
stop, remove, mp3ToTorrent, and `after`. Each call gets a worker thread, which
pushes its baton and sends the async handle; `after` pops one baton per wakeup.
Hard: wakeups coalesce; the handle is initialised again for each call; two opens
race. Correct when no wakeup finds an empty queue, no baton is delivered twice,
every call is answered and one session exists. **Modelled: NodeBridge.**

*TransSession* (TransSession.cpp). State: the `tr_session*`, the watch
directory. Operations: start, add, list, start/stop/remove a torrent, an idle
loop. It walks the library's torrent list and reads torrents' flags in the API
worker, with no lock. Partly modelled: creation in NodeBridge, the use of
torrents in TorrentLife; the idle loop and adds by URL are not.

*Event thread* (trevent.c). State: a pipe, its lock, `die`. Any thread hands a
function to it as a command byte followed by a `tr_run_data`. Hard: two-part
writes, a pipe that fills up, closing while others write. Correct when it is an
ordered, at-most-once queue and every caller gets through. **Modelled:
EventPipe, EventQueue.**

*Torrent lifecycle* (torrent.c) and *verification* (verify.c). State: a
torrent's `isRunning`, `isStopping`, `isQueued`, `isDeleting`,
`startAfterVerify`, `verifyState`; `verifyList`, `currentNode`, `stopCurrent`,
`verifyThread`. Operations: add, start, stop, remove, verify, and the report of
a verification. Hard: three kinds of threads act on a torrent, and it is freed in
one of them. Correct when nothing uses a freed torrent, verification and removal
end, and a start put off until after verification is acted on. **Modelled:
TorrentLife.**

*Block cache* (cache.c), *completion* (completion.c, bitfield.c), *torrent I/O*
(inout.c), *resume files* (resume.c), and the part of peer-mgr.c that receives
blocks. State: cached blocks, the block bitfield, the files, the `.resume` file,
`isDirty`. Operations: write a block (and trim), read, flush a file, a torrent or
what is done, test a piece, save, load, verify. Hard: writes that fail part of
the way, a crash between a flush and a save, sessions that close with an error
pending. Correct when a complete piece reads as good data, and what the
`.resume` file claims is in the files. **Modelled: WritePath.**

*Announcer* (announcer.c). State: tiers with their event queues, current
tracker, `isAnnouncing`, `isScraping`, times; `slotsAvailable`; goodbyes.
Operations: events from the lifecycle, the upkeep timer, answers to announces
and scrapes. Hard: answers for tiers that moved on or are gone, failed announces
queued again among newer events, slots. Correct when events keep their order and
meaning, each is announced, running torrents go on being announced and no slot is
lost. **Modelled: Announcer.**

What follows runs in the event thread; other threads post functions to it.
Where another thread takes part, the entry says so.

*Peer manager: requests* (peer-mgr.c). State: the sorted list of requests, the
list of wanted pieces with a count of requests each, how many peers have a
piece. Operations: choose what to ask a peer for, receive a block, a choke, a
reject, a cancel, what a peer has, a peer leaving, files turned on and off,
requests that got too old. Hard: one request is recorded in three places and
seven events take it out again. Correct when the records agree, no block is
asked for in vain and no count goes below zero. **Modelled: PeerRequests.**

*Peer manager: connections* (peer-mgr.c). State: atoms (what is known of an
address), peers, handshakes, choking, interest. Operations: learn of an address,
connect and be connected to, end a handshake, ban, the four pulses, start and
stop. Hard: handshakes end after the torrent stopped or the peer was banned;
atoms are freed beneath peers; `optimistic` points to a peer that may be freed.
Correct when what is connected has its atom and the upload slots are kept.
**Modelled: Swarm.**

*Peer messages* (peer-msgs.c). State: for each connection, who chokes and is
interested in whom, the peer's queue of requests, the batch of messages.
Operations: every message, choke and unchoke, requests, the batch, the block
that is written straight into the stream. Hard: a choke crosses a request; a full
queue, a cancel, a lost piece each take a request away. Correct when both ends
agree once the messages in between are read. **Modelled: PeerMsgs.**

*Extension protocol and metadata* (peer-msgs.c, torrent-magnet.c). State: which
pieces of the metadata are needed and when each was asked for, what each peer
was told of other peers. Hard: answers come twice, late, from liars; the
metadata turns out to be wrong when it is complete. Correct when each piece is
needed or held, and a peer's idea of the swarm is what we think it is.
**Modelled: Extensions.**

*Handshake* (handshake.c, crypto.c). State: a state per end, the cipher's place
in the key stream. Hard: ciphers change in the middle of a stream; on an error
the connecting end tries again in plaintext. Correct when two connected ends
read each other and a handshake fails only for a reason. **Modelled: Handshake.**

*Peer I/O and bandwidth* (peer-io.c, bandwidth.c). State: buffers, a queue of the
kinds of data in them, references, events; a tree of bandwidths with what is left
of each. Hard: a connection may be destroyed during its turn; some traffic
honors no limit. Correct when no limited bandwidth gives more than its allotment.
**Modelled: PeerIo.**

*UDP trackers* (announcer-udp.c). State: trackers with an address, a connection
id, requests. Hard: datagrams are lost, repeated, late; at the end the session
waits for it. Correct when the announcer hears once of each request and the
shut-down ends. **Modelled: UdpTracker.**

*Web requests and web seeds* (web.c, webseed.c). State: the web thread's queue
and transfers; a seed's tasks, connections, failures. Two threads: data arrives
in one and is written in the other. Hard: the torrent may be stopped and the seed
freed while its blocks are on their way. Correct when a block is reported once to
a task that exists. **Modelled: WebSeeds.**

*File descriptor cache* (fdlimit.c, with its users in inout.c and net.c). State:
the slots, the number of peers' sockets. Hard: slots are reused, files are opened
again for writing, opening fails half-way. Correct when a descriptor is the
file's that it is used for. **Modelled: FdCache.**

*Port forwarding* (port-forwarding.c, natpmp.c, upnp.c). State: two state machines
and a timer. Hard: the port changes, or forwarding stops, between any two steps.
Correct when what is said to be forwarded is, and what is forwarded is known.
**Modelled: PortForwarding.**

*Peers without trackers* (tr-lpd.c, tr-dht.c, tr-udp.c). State: when each torrent
is announced next, a quota of announces heard, the bootstrap threads. Hard: the
quota goes to some torrents first; a thread bootstraps while the session ends.
Correct when everybody gets a turn and private torrents none. **Modelled:
Discovery.**

*Download queue* (torrent.c, session.c, `queuePulse` in peer-mgr.c). State:
positions, slots, enabled queues. Correct when the positions are 0, 1, 2, ...
and a pulse starts who is next. **Modelled: TorrentQueue.**

*Session: limits and settings* (session.c). State: the two sets of speed limits,
the table of the schedule, settings that other threads toggle. Correct when the
limits are the schedule's or the user's, and what was asked is what is set.
**Modelled: SpeedSchedule.**

*Torrent files* (torrent.c). State: the directories of a torrent, `.part` names,
open descriptors, cached blocks. Hard: a file may be in one of two directories
under one of two names, while blocks for it wait in the cache. Correct when what
is claimed can be found. **Modelled: TorrentFiles.**

*Seeding limits and errors* (torrent.c). State: ratio and idle limits with their
modes, byte counts, the error. Hard: a torrent that was stopped at its ratio is
started again. **Modelled: Seeding.**

*Bitfields, pieces and priorities* (bitfield.c, completion.c, torrent.c). State:
an array that is freed when it is full or empty; what is wanted, in files and in
pieces; two sums that are computed when needed. Correct when they are the sets
and sums they stand for. **Modelled: Bitfield, Pieces.**

*RPC* (rpc-server.c, rpcimpl.c). State: the server, replies that wait for a
transfer, the list of removed torrents. Hard: settings changed from other
threads; errors half-way through a request. Correct when the server is what it was
last asked to be and each request gets one true reply. **Modelled: Rpc.**

*Blocklists* (blocklist.c, session.c, peer-mgr.c). State: ranges of addresses,
their files, verdicts cached in atoms. Correct when an address is blocked exactly
if a list holds it. **Modelled: Blocklist.**

### How the components interact

A block comes in through PeerIo and PeerMsgs, is accounted for in PeerRequests,
written and tested in WritePath, and found again by TorrentFiles and FdCache.
Peers come from Announcer (over UdpTracker), Discovery and Extensions to Swarm,
which connects to them through Handshake. TorrentQueue and Seeding start and stop
torrents, which TorrentLife carries out; all calls from other threads go
through EventPipe.

## 2. Modules

| module | models | state and actions |
| --- | --- | --- |
| NodeBridge | transNode.cpp, `TransSession::start` | a worker's `pc`, `queue_msg`, the handle's pending flag, `transSession`; one action per step of a worker, and `after` |
| EventQueue | what `tr_runInEventThread` promises | `waiting`, `ran`, `closed` |
| EventPipe | trevent.c | cells of the pipe, its lock, `die`; one action per write, read or step of the close |
| TorrentLife | torrent.c, verify.c, workers of TransSession.cpp, two pulses of peer-mgr.c | flags of each torrent, verify.c's statics, the pipe as a FIFO; one action per handler, split where a thread may be seen between |
| WritePath | cache.c, completion.c, parts of inout.c, resume.c, peer-mgr.c, session.c, verify.c | what cache, files, bitfield and `.resume` hold of each block; one action per handler |
| Announcer | announcer.c, its callers in torrent.c | the fields of each tier, slots, requests under way; one action per handler |
| PeerRequests | peer-mgr.c | `torrent` (requests, pieces, replication), `fetching` (web seeds), `choked`, `aged`, `running` |
| Swarm | peer-mgr.c | `swarm` (atoms, peers, handshakes, choking), `incoming`, `blocked`, `rated`, `remembered`; an action per pulse and event |
| PeerMsgs | peer-msgs.c, both ends | `side`, `out` (the batch), `sent` (the stream), `fext` |
| Extensions | peer-msgs.c, torrent-magnet.c | `meta`, `msgs`, `askedMeta`, the two streams, `connected`, `told` |
| Handshake | handshake.c, crypto.c, both ends | `hs`, `hsOut`, `wire`, `utp`, `foreign` |
| PeerIo | peer-io.c, bandwidth.c | `band` (the tree), `outbuf`, `queued`, `owned`, `refs`, `enabled`, `pulse`; ghosts `allotted`, `used` |
| UdpTracker | announcer-udp.c, the wait in session.c | `tau`, `req`, `answers`, `closing` |
| WebSeeds | webseed.c, web.c | `seed`, `task`, `eventQ`, `web`, `owner` |
| FdCache | fdlimit.c, parts of inout.c and net.c | `slot`, `disk`, `given`, `sockets` |
| PortForwarding | port-forwarding.c, natpmp.c, upnp.c | `shared`, `natpmp`, `upnp`, `router` |
| Discovery | tr-lpd.c, tr-dht.c, parts of tr-udp.c | `lpd`, `activity`, `quota`, `learned`, `dht`, `boots`, `dhtDue` |
| TorrentQueue | parts of torrent.c, session.c, peer-mgr.c | `position`, `doing`, `aspect`, `slots`, `pulse2` (the last pulse) |
| SpeedSchedule | session.c | `turtle`, `minute`, `limits`, `bandwidth`, `flags`, `posted` |
| TorrentFiles | torrent.c, with inout.c, fdlimit.c and cache.c where it calls them | `dirs`, `disk2`, `open2`, `cached`, `had`, `status2`, `rash` |
| Seeding | torrent.c, limits in session.c | `tor`, `limit`, `bytes`, `posted2`, `wish` (what the user did last) |
| Bitfield | bitfield.c | `field`, and `truth`, the set it stands for |
| Pieces | completion.c, parts of torrent.c, inout.c, resume.c | `info`, `dnd`, `priority`, `cp` |
| Rpc | rpc-server.c, rpcimpl.c | `rpc` (ghost `hurried`), `rpcPosted`, `http`, `controlled`, `removed`, `view`, `lastSet` |
| Blocklist | blocklist.c, parts of session.c and peer-mgr.c | `lists`, `binary`, `texts`, `listsOn`, `verdict`; ghosts `meant`, `settled` |

`MCx` modules give instances of module `x`; `x_proofs` modules hold its theorems,
those of a group (below) in one module per group. Threads_proofs has those of
NodeBridge, EventPipe and TorrentLife. Wire_proofs is built on Handshake_proofs, which
holds the inductive invariant of the handshake, and Session_proofs on Pieces_proofs, which
holds that of the pieces.
Three MC modules hold a group of modules each:

| module | holds |
| --- | --- |
| MCNetwork | PeerRequests, Swarm, UdpTracker, WebSeeds, FdCache, PortForwarding, Discovery |
| MCWire | Handshake, PeerMsgs, Extensions, PeerIo |
| MCSession | TorrentQueue, SpeedSchedule, TorrentFiles, Seeding, Bitfield, Pieces, Rpc, Blocklist |

The modules of a group share no variables. A variable `part`, chosen at the start, says
which of them a behaviour exercises; the variables of the others keep one dummy
value. The group's specification is thus the disjunction of its modules'
specifications, one run checks them all, and the product of their state spaces is
not explored, which would show nothing more. Symmetric model values
(`AddrSymmetry`, `IoSymmetry`, `PartsAlike`) are those whose order no definition
looks at; these runs check invariants only.

External code is modelled from its use: libuv's async handle (sends coalesce
until the callback runs; initialising a live handle may drop a send) and a
blocking pipe. Trackers answer well, badly or not in time. curl, the DHT, the
router with miniupnp and libnatpmp may answer in any way the code provides for.

Composition: EventPipe implements EventQueue through a refinement mapping, which
is what entitles TorrentLife, Seeding, Rpc and SpeedSchedule to take the pipe
for a FIFO. The other modules run in the event thread and take a handler for one
step, as the event thread does. WritePath and Announcer take a torrent's start
and stop from torrent.c. The verify thread appears in WritePath as one step on a
stopped torrent: TorrentLife has its interleavings.

Main abstractions:

- *NodeBridge*: arguments and results; what a call does with the session.
- *EventPipe*: the pipe has few cells; a call is its identity.
- *TorrentLife*: completeness, seed limits and queue slots are choices; both
  queues are enabled. Calls from RPC and the loading of torrents at start are
  left out. `fault` records the use of a freed torrent.
- *WritePath*: a block is good or bad. The rank of a run of blocks keeps its
  DONE and MULTI flags; length and age decide arbitrarily within a class, as any
  values of them may. Files are ranges of blocks.
- *Announcer*: a time is never, due or later. Which tiers go first when there
  are too few slots is arbitrary. A tracker has one URL. Byte counts,
  intervals, peers and the replacement of a tracker list are left out. Adding
  and removing a torrent whose `torrentStartImpl` is still queued belongs to
  TorrentLife.
- *PeerRequests*: the random salt of a piece is fixed; a request is new or older
  than its time to live.
- *Swarm*: rates, times, sources and scores may be anything, so any order that
  sorting by them may give is possible. A freed peer that is still `optimistic`
  is the value `Gone`, until the memory is given to a new peer. Blame is of one
  piece.
- *PeerMsgs*: a piece is one block. A PIECE is written at once and may overtake
  messages of the batch.
- *Extensions*: metadata pieces are right or wrong. Peers run the same code; a
  liar sends other sizes and data.
- *Handshake*: a message is a token with its place in the key stream, which
  stands for the cipher; padding and hashes are left out.
- *PeerIo*: a limit is the same up and down. A pulse flushes protocol messages,
  then lets the connections take turns in two or three passes.
- *UdpTracker*: what an answer says is good or an error. A minute is one step.
- *WebSeeds*: curl delivers data and ends as it likes.
- *FdCache*: a descriptor is named by the file it is open on.
- *PortForwarding*: a router does what it is asked, refuses, or says nothing.
- *Discovery*: time is counted in upkeeps; a DHT node is a count.
- *SpeedSchedule*: a day and a week of any length.
- *TorrentFiles*: a file is one piece. `rash` is set by what is known to lose
  data, listed under "Deviations".
- *Seeding*: bytes are counted in pieces.
- *Rpc*: arguments are those of torrent-set that may fail; other methods are
  their replies. JSON is left out.
- *Blocklist*: addresses are numbers; a text is a list of ranges.

## 3. Runs

| run | question | instance | result |
| --- | --- | --- | --- |
| NodeBridge | queue and wakeups of the binding | 5 calls, 3 outstanding, opens made alone | holds |
| NodeBridgeLostWakeup | is every call answered? | 4 calls, 2 outstanding | no: a baton stays queued |
| EventPipe | framing, refinement of EventQueue, progress | 3 callers, 1 direct call, 3 cells | holds |
| TorrentLife | does verify.c know live torrents only? is `verifyState` true? do verification, removal and put-off starts happen? | 2 torrents, 1 worker, 2 API calls of any kind, fair threads | holds |
| TorrentLifeFreed | is a freed torrent never used? | 1 torrent, 1 remove | no: the report outlives it |
| WritePath | is what is claimed there, in memory and after a crash? | 2 torrents (3 blocks in 2 pieces and 2 files; 1 block), cache of 2, 1 bad block, 1 failed write, 1 crash | holds |
| Announcer | slots, queues, order, progress | 2 torrents, 2 tiers (one of two trackers, one of one), 2 slots, 3 operations, 1 scrape, 1 failure | holds |
| AnnouncerSilent | is a waiting tracker ever announced to? | 1 torrent, 3 operations, 1 failure | no |
| Wire | do both ends of a connection agree, and keep to the limits? | see below | holds |
| Network | are requests, peers, trackers, web seeds, descriptors and ports accounted for? | see below | holds |
| Session | queue, schedule, files, limits, sets, replies, blocklists | see below | holds |
| BlocklistStale | do verdicts follow the lists? | 1 list, 4 addresses, 3 calls | no: two ways to change a list leave them |

The parts of the group runs, the property each has, and its instance:

| run | module: property | instance |
| --- | --- | --- |
| Wire | Handshake: HandshakeSound | every pair of encryption modes, 3 accidents (a fourth adds no state), no foreign client |
| | PeerMsgs: ConversationSound | a seed and a leech, with and without the fast extension, 2 blocks, 2 requests wanted, a queue of 3, 2 chokes, 1 event on each side |
| | Extensions: ExtensionsSound | 2 peers, one a liar, metadata of 2 pieces (or 1, says the liar), 2 addresses; 1 event of a magnet torrent, 4 of one that is not |
| | PeerIo: AllotmentsKept | 2 connections, limits of 1 and 2 units or none, 5 events |
| Network | PeerRequests: RequestsAgree, NoVainRequest, RarityCovers | 3 blocks in 2 pieces, 2 peers, 1 web seed, 2 events of any kind |
| | Swarm: AtomsKept, SlotsKept | 2 addresses, 1 upload slot, 1 atom kept, 2 events |
| | UdpTracker: TrackersAnswered | 1 tracker, 2 announces, 1 scrape, 2 connection requests, 2 lookups or minutes |
| | WebSeeds: WebseedsAnswered | 3 tasks of 2 blocks, 2 connections, 4 events |
| | FdCache: DescriptorsKept | 3 files, one of each of 3 torrents, one larger than it should be, 2 slots, 7 steps |
| | PortForwarding: PortsKnown | 2 ports, 7 pulses or calls |
| | Discovery: DiscoverySound | 2 torrents, an interval of 2 upkeeps, 1 announce heard in each, 3 steps of the DHT |
| Session | TorrentQueue: QueueInOrder | 3 torrents, queue sizes 0 and 1, 5 calls |
| | SpeedSchedule: ScheduleKept | a day of 2 minutes, a week of 3 days, 2 settings |
| | TorrentFiles: FilesInPlace | 2 files of 2 blocks, 3 directories, 2 calls |
| | Seeding: SeedingStops | ratios 0 and 1, 1 idle limit, 3 calls |
| | Bitfield: FieldsAreSets | fields of 0 (unknown), 3 and 4 bits with bytes of 2 bits, 4 calls |
| | Pieces: PiecesCounted | 3 layouts of files (empty ones, some that share pieces), 2 calls |
| | Rpc: RpcAnswers | 1 request, 2 torrents of 2 files, 2 tracker URLs, 2 calls |
| | Blocklist: BlocklistKept | 4 addresses, 2 lists, ranges that nest, overlap and are reversed, 3 calls |

What the properties of the groups say:

- *HandshakeSound*: two connected ends use the same cipher at the same place of
  the stream, and a handshake fails only if the modes cannot agree or there was an
  accident.
- *ConversationSound*: with the fast extension every request the asker waits for
  is on its way, in the other's queue, or answered on the way back; what each end believes
  of the other is what the other decided, once the messages in between are read.
- *ExtensionsSound*: each piece of the metadata is needed once or held; a torrent
  gets its metadata from right pieces only; what a peer was told of others is what
  we remember having told it.
- *AllotmentsKept*: connections that honor a limit never move more piece data in
  a period than it allows; the queue of kinds describes the buffer; no turn comes
  after a connection is destroyed.
- *RequestsAgree*, *NoVainRequest*, *RarityCovers*: the three records of a
  request agree; nothing is asked for that is there, of more than two peers or of
  one that left; replication never counts fewer peers than have a piece.
- *AtomsKept*, *SlotsKept*: whoever is connected has an atom, and a torrent that is
  stopped no connection; no more peers than slots are unchoked, beside the
  optimistic one.
- *TrackersAnswered*: one answer to each request; two passes after the deadline of
  the shut-down none is left.
- *WebseedsAnswered*: connections, transfers and blocks are counted right and no
  block is reported twice or for a freed seed.
- *DescriptorsKept*: a descriptor is the file's and writable if it is written to,
  unless an open failed half-way; sockets are counted.
- *PortsKnown*: what is said to be forwarded was asked of the router; it forwards
  nothing we would not remove but what it refused to.
- *DiscoverySound*: every torrent has its turn before another's second; private
  torrents learn of nobody.
- *QueueInOrder*: positions without gap or tie after any calls; a pulse starts
  those in front, as many as there are slots.
- *ScheduleKept*: the mode is the schedule's or the user's, the bandwidth obeys it
  once the pipe is empty; a setting toggled alone ends as asked.
- *FilesInPlace*: what is claimed is in the cache or in the file that would be
  found, and what is complete has its name and place.
- *SeedingStops*: a limit stops a torrent only when it is reached, and not again
  after the user started it.
- *FieldsAreSets*, *PiecesCounted*: the representation is the set, the counts, the sums.
- *RpcAnswers*: once the event thread has done what was posted, the server runs if it
  is enabled, on the port that was set (`hurried` records the exception, which takes
  three calls); one reply to each request but those listed below; "success" only if all
  was done; a client that polls hears of every removal.
- *BlocklistKept*: an address is blocked exactly if a list that is in use was
  asked to hold it, until the lists change behind the verdicts' back.

The type invariants of NodeBridge, EventPipe and TorrentLife are parts of their
inductive invariants; those of the modules of MCNetwork and MCWire are conjuncts of the
groups' properties. The modules of MCSession state none: there the types are part of
the inductive invariants of the proofs, where there is one. Those of WritePath and
Announcer are conjuncts of theirs.

### Why the bounds are enough

- *NodeBridge*: a lost or early wakeup needs two workers between push and send;
  three outstanding calls leave one more.
- *EventPipe*: with three cells the pipe is full after one command, its data
  and half of the next, so that every write can block, at either half.
- *TorrentLife*: one torrent to be verified while another waits, and two API
  calls that race the event thread and the verify thread: the second is made while
  what the first queued is still in the pipe.
- *WritePath*: pieces of two blocks and one, so that a run may span pieces, end
  in a complete or an incomplete one, and be trimmed; a cache smaller than a
  torrent; one of each fault, since a second of a kind finds the program in a
  state the first left.
- *Announcer*: the shortest behaviours that break a property under a small
  change of the code have three operations (start, remove, add while an answer
  is under way) or one failure (a tracker change with a scrape under way).
  `MaxTasks` equals the number of tiers in the passing run: with fewer, the
  arbitrary choice among due tiers may starve one, which the code's sorting by
  transfer does not rule out either, and which is not claimed.
- *Wire*: an accident at each end, or one in the encrypted handshake and one in
  the retry; a choke that crosses a request, taken back, with a cancel or a lost
  piece; two peers of which one spoils what the other sends; two connections that
  compete for less than both want, one of them destroyed in its turn.
- *Network*: a piece of two blocks and the short last one, two peers for the
  endgame and a web seed that is asked beside them; two addresses for one slot, of
  which one may be freed and come back; requests that share a connection, before and
  after it expires; one connection more wanted than there may be; three files for
  two slots; a port that changes in any state, and back; two torrents for one
  announce.
- *Session*: three torrents give a first, a middle and a last; a schedule that
  crosses midnight and the end of the week; a complete and an incomplete file,
  each moved; a field that becomes full, empty and neither, and whose last byte is
  not full; layouts with empty files at both ends and in the middle of a piece;
  two torrents of which the second fails; ranges that touch, nest and overlap.

Each property has, in `PROJECT.json`, a change of the code under which its run fails
within these bounds: a dropped guard, a missing reset, a swapped order. The changed
definitions stand beside the right ones, marked "Mutant".

Runs without a deadlock check are of systems that stop: all calls answered,
the session closed, the bounds reached.

### Findings

The violated properties are those documents, comments or assertions state:

- *EveryCallIsAnswered*: README.md of the repository documents callbacks that
  two calls at once may never get.
- *NoFreedTorrentUsed*: `assert (tr_isTorrent (tor))` of the report a verify
  thread queued behind a removal.
- *AnnounceStateHonest*: the comment of TR_TRACKER_WAITING. A failed "stopped" is
  queued behind the "started" made since and throws it away; once it succeeds
  nothing is queued, and the running torrent is silent until it is stopped.
- *PortListenedOn*: the comment of `tr_sessionSetRPCPort`. Disabled, moved to another
  port and enabled again before the event thread runs, the server was never stopped and nobody
  posted a restart. Two calls cannot do this, which is why an earlier bound of two hid it; the
  attempt to prove the property found it.
- *VerdictsFollow*: the comment of `tr_peerMgrOnBlocklistChanged`, which erases
  cached verdicts. Only a reload of the lists calls it: `tr_blocklistSetContent`
  and `tr_blocklistSetEnabled` leave them.

### Deviations no run shows

The models contain these too. The properties that passing runs check are stated with
the exception (a flag such as `rash`, `settled`, `botched` or `overlapped` records it), and
where a property without it is named below, a configuration with that property
as its invariant gives the counterexample.

| where | what | property |
| --- | --- | --- |
| transNode.cpp:220 | two opens at once both find `transSession` NULL and create one | AtMostOneSession, with `OpensAlone = FALSE` |
| torrent.c:1639 | `torrentStart` reads the activity before it takes the lock | NotRunningWhileVerified |
| cache.c:465 | a flush ends at the first failed write: blocks are left at the close | CacheEmptyAtClose |
| handshake.c:1150 | the retry in plaintext first sends what was left in the buffer | FallbackIsPlain |
| handshake.c:890 | where another client offers plaintext inside the encrypted handshake and a client that prefers plaintext selects it, `readIA` changes the cipher before it reads the initial payload, which came encrypted: the handshake fails | HandshakeSound, with `ForeignClients = {TRUE}` |
| fdlimit.c:389 | an open whose truncate fails leaves a descriptor under the label of the slot's former file | FdIsTheFiles |
| rpc-server.c:710 | disabled, given another port and enabled again before the event thread has run what was posted, the server keeps its old port: no restart is posted while it is disabled, and the start finds it running | ServerObeys without `hurried`, with `MaxRpcCalls = 3` |
| net.c:265 | a socket that cannot be bound is counted and never closed | - |
| peer-mgr.c:1077 | pieces that become wanted again while there is a list are not put on it | ListCoversWanted |
| web.c:352 | tasks still queued when the web thread ends get no callback | - |
| port-forwarding.c | forwarding that is turned on again before the first timer is freed has two | - |
| torrent.c:2951 | a move with blocks in the cache, and one that failed half-way, leave claims for data that is elsewhere | LocationVerified |
| rpcimpl.c:1436, rpc-server.c | a torrent-add of nothing, and an RPC request with another verb or without a query, get no reply; an upload with a bad session id gets two | - |
| cache.c:371 | a read that begins inside a cached block gets the block's first bytes; no caller does so | - |
| bitfield.c:398 | `tr_bitfieldRem` tests its index the wrong way round; nobody calls it | - |
| bitfield.c | in a field of unknown size the hint "none" is never taken back | - |
| torrent-magnet.c | metadata that is complete but unusable removes the magnet's file, and later attempts cannot succeed | - |

`HaveBacked` and `ResumeBacked` hold as long as no write failed: the code does
lose blocks it claims when one fails, and says nowhere that it does not.
`IntentKept` and `RunningIsAnnounced` hold as long as no request failed, for the
reasons AnnouncerSilent and the hazards of announcer.c show. `EventsSent` holds
through failures.

## 4. Fairness

- *NodeBridge*: weak fairness of each worker and of `after`: threads are
  scheduled and libuv's loop polls. The script owes nothing.
- *EventPipe*: weak fairness of the event thread, strong of each caller: a
  mutex and a blocking write let a waiter through when they are free again and
  again.
- *TorrentLife*: weak fairness of the verify thread and of the wait in
  `tr_verifyRemove`; strong of the queued calls (the event loop serves the pipe and
  the timers), of the pulse that stops a stopping torrent, and of workers that
  wait for the session lock.
- *Announcer*: weak fairness of the upkeep timer, of queued `torrentStartImpl`s,
  of time passing for each tier, and of the answers: the back ends time out.
  Nothing makes operations on torrents happen.
- *WritePath* and the groups: none; only safety is checked. What must happen in the
  end is stated as safety where it can be: that the shut-down of the UDP trackers
  ends is an invariant of its second pass, that a torrent gets its announce is a bound on
  how long it waited.

## 5. Proofs

Proved by TLAPS for every value of the constants that meets the modules'
assumptions, by an inductive invariant checked by induction on steps:

| theorems | say |
| --- | --- |
| Threads_proofs: Inductive, AfterFindsBaton, BatonsOnce | WakeupFindsBaton, EachBatonOnce |
| Threads_proofs: PipeInductive, Framed, Refinement | CommandsFramed; EventPipe implements EventQueue |
| Threads_proofs: LifeInductive, StateMatches, Forgotten | VerifyStateMatches, FreedIsForgotten |
| WritePath_proofs: Inductive, LimitIsKept, HaveIsBacked, ResumeIsBacked, EmptyAtClose | LimitKept, HaveBacked, ResumeBacked; once the session is closed, nothing of its torrents waits in the cache |
| Announcer_proofs: Inductive, SlotsComeBack, TrackersKnow | NoSlotLost, IntentKept |
| Network_proofs: SwarmSound, AtomsAreKept, SlotsAreKept | AtomsKept, SlotsKept |
| Network_proofs: RequestsSound, RequestsDoAgree, NothingIsAskedInVain, RarityIsCovered | RequestsAgree, NoVainRequest, RarityCovers |
| Network_proofs: Inductive, EachAnsweredOnce, ShutdownEnds, Typed, TrackersAreAnswered | TrackersAnswered, of UdpTracker |
| Network_proofs: Webseed, WebseedsAreAnswered | WebseedsAnswered |
| Network_proofs: Descriptors, DescriptorsAreKept | DescriptorsKept, of FdCache |
| Network_proofs: Forwarding, PortsAreKnown | PortsKnown |
| Network_proofs: PeersWithoutTrackers, DiscoveryIsSound | DiscoverySound |
| Wire_proofs: HandshakeIsSound | HandshakeSound |
| Wire_proofs: ConversationKept, ConversationIsSound | ConversationSound, of PeerMsgs |
| Wire_proofs: ExtensionsKept, ExtensionsAreSound | ExtensionsSound |
| Wire_proofs: AllotmentsSound, AllotmentsAreKept | AllotmentsKept, of PeerIo |
| Session_proofs: QueueIsInOrder, QueueKeepsOrder | QueueInOrder |
| Session_proofs: ScheduleIsObeyed, ScheduleIsKept | ScheduleKept |
| Session_proofs: LimitsAreHonest, SeedingIsHonest | SeedingStops |
| Session_proofs: FieldStandsForSet, FieldsStandForSets | FieldsAreSets |
| Session_proofs: BlocksExactly, BlocklistsAreKept | BlocklistKept |
| Session_proofs: FilesAreKept, FilesStayInPlace | FilesInPlace |
| Session_proofs: ServerDoesObey, RpcIsSound, RpcAnswersTruly | RpcAnswers |
| Pieces_proofs: PiecesAreSound; Session_proofs: PiecesAreCounted | PiecesCounted |

In a group a step of a behaviour whose `part` is X is a step of X's Next or stutters;
so what is invariant in X's own specification is invariant in the one TLC checks.
The second-named theorems of each row are about the latter.

Every safety property that a passing run checks is stated by one of these theorems; only
liveness is left to TLC.

### The inductive invariants

*NodeBridge.* Assumes that the requests are a finite set, NULL is none of them
and opens are requests. `WakeupFindsBaton` is not inductive: sends coalesce, so a
pending wakeup says nothing about the queue by itself. The invariant counts:
callbacks made plus the pending wakeup are at most the batons sent
(`WakeupsCounted`), and batons pushed are those queued plus those delivered, each
in one place (`PushedOnce`). What is sent was pushed, so the queue is not empty.

*EventPipe.* Assumes that `NoCall` is no call and direct calls are none of the
callers'. The pipe alternates because one thread at a time is half way
(`LockHeld`), and the number of unread cells is odd exactly while it is
(`Parity`). `WrittenAreDone` then makes every run call one that was made, once.
For the refinement, the calls whose data is in the pipe are those that wait; each
step is a step of EventQueue or leaves `waiting`, `ran` and `die` alone.

*TorrentLife.* Assumes that `NoTorrent`, for NULL, is no torrent. The invariant adds to
the type and `VerifyStateMatches` the link between verify.c and the event thread
(`Linked`): a torrent that is not live is unknown to verify.c, the list never
holds the current torrent, and while the event thread waits in
`tr_verifyRemove`, `stopCurrent` is set exactly if the torrent it waits for is the
current one. Without the last part a torrent could be freed while it is verified.

*WritePath.* Assumes that torrents and pieces have blocks and that files lie in
their torrents. `HaveBacked` holds only because only running torrents have blocks
in the cache: otherwise a later flush could write what was read before a check.
The invariant says so, with `Limited` (the cache is within its limit
between calls), that freed torrents do not run, and, as long as no write has failed
(`Backed`), that a piece the resume file claims is a piece we have and is whole in the
file, and that a piece we have reads as good from the cache or the file. The passes
over runs of blocks (`CacheTrim`, the flushes) have lemmas of their own: a flush
moves blocks and changes what no read returns.

*Announcer.* Assumes at least one tracker in a tier and, from filter_trackers, that two
tiers of a torrent have no tracker in common. `SlotsTaken` counts slots and requests in
flight. For `IntentKept` a tier's queue of events has a shape (`Shaped`) that
`tier_announce_event_push` keeps when it drops what a STOPPED makes pointless; no request
in flight has a key that is still to be given (`Kept`), so an answer is never taken
by a later tier at the same place; and the last start or stop in the queue, or else
the one in flight, or else what the tier takes for the state, is the torrent's state (`Means`),
unless a request failed.

*Swarm.* Assumes that the two values for "no peer" are no addresses. `SwarmInv` adds the
types to the properties; of the peers that are unchoked, those served are counted
through the sort by rate and the optimistic choice, and each function of the
pulses (rechoke, reconnect, purge) keeps what it does not decide.

*PeerRequests.* `RequestsInv`: no piece is twice in the list, and the list counts for a
piece no more requests than there are; `pendingReqsToPeer` of a peer is exact; a block
is asked of two at most and of none when it is done; a piece's replication is at
least the number of the peers that have it; of a peer that is not connected nothing is known.
The list is taken apart and put together by every event: each of its operations draws
the new entries from the old ones, none twice (`DrawnFrom`). The loop over the blocks of a
piece is bounded by the first one at which it stops.

*UdpTracker.* Assumes that announces are no scrapes and that no tracker is
called "none" or "done", which say where a request is. The functions of
announcer-udp.c are operators from a world (trackers, requests, answers) to a
world, and each lemma says that one of them keeps `WorldOK`: a request is answered
once exactly if it is done and somebody waited, a tracker that sends has an address and
an id. `AnsweredOnce` needs also that ids stay in their range (`IdsCounted`: one
more may be asked for when the shut-down begins at the bound). For the end of
the shut-down, `LateWaits`: after a pass past the deadline no tracker asks for an
address or an id, so the next pass cancels everything.

*WebSeeds.* Assumes finitely many tasks. `WebGood`: tasks in use and idle connections
are within the limit, and one is free while the timer of a failing seed runs; the tasks
counted as active are those whose event of success was handled; what a task has written
and what waits in the event queue to be written is what it received; and its answer is the
last that is heard of it, so that nothing follows the free.

*FdCache.* `FdInv`: a slot labelled with a file other than the one that is open in it
is `botched`; a slot that no failed open ever came to is the first that has its label, and what
else is open under that label was left by a failed open (`FirstOfLabel`). What `FdSound` first said
of two slots with one label turned out false in the attempt to prove it: after a
failed open and a later successful one in the same slot, no field shows any more why
the label is there twice. This takes 7 steps with 3 files and 2 slots, more than
the run went at the time; the property now speaks of slots to which a failed open
came at any time (`spoilt`, a history field), and the run goes that far.

*PortForwarding.* Assumes that 0 is no port. A pulse is a chain of functions on a
machine and the router. For NAT-PMP each keeps `NatpmpOK`: a mapping at
rest is one the router has. For UPnP the stages hand on `UpnpOK`, `UpnpChecked`,
`UpnpCleared`, `UpnpAfter`: what the router forwards is at the port the machine
remembers, or was left there by a refusal.

*Discovery.* Assumes finitely many torrents. `TurnsTaken`, where the torrents are not more than the
interval has upkeeps: a torrent that has been passed over k times while it was due has seen k
others announced that are not due again (`Overtaken`), so it is passed over fewer
times than there are torrents.

*Handshake.* Assumes that both ends run this code (`ForeignClients` is no more than
{FALSE}; section 3 says what happens otherwise). That two connected ends agree is
not inductive: it says nothing of the way there. The invariant takes the encrypted
conversation, and the plaintext one, as two scripts, one for each direction: what
the ciphers will have put into the stream, token by token. An end is at a place of
its conversation (`EncryptedA`, `EncryptedB`, `PlainA`, `PlainB`): so much read of
the other's script, so much written of its own, and the cipher at the position this
calls for; what lies between, on the wire and in the buffer, is what the script has
there (`Carries`). A retry starts from an end that has sent its key or has not
(`MayTryAgain`) and leads back into the plaintext script, perhaps after what the old
connection left (`Leftover`), or to one of two places from which nothing can be
connected: what comes to B is no handshake it can read (`Refused`), or the key that
was left in the buffer goes ahead of the handshake (`Astray`). There may be any
number of accidents.

*PeerMsgs.* Assumes two sides and finitely many blocks. `ConversationSound` is about two
peers and two streams and far from inductive. `WireInv` says of each request that is
pending, where both know the fast extension (`Kept`): it is on its way and no CANCEL for it follows; or no
CANCEL for it is on its way and it is queued at the peer, or its answer (PIECE or REJECT)
is on the way back. Choked and interested are at one end, after what is on the way, as
the other end has set them (`Views`); what we have the peer knows or is being told
(`Shown`); a peer that is choked has nothing queued, and nothing pending is a block
we have (`Quiet`); a greeting on its way is the first message, and nothing was asked for yet
(`Greeted`). The lemmas behind it are about streams: two put together, one
in which pieces are put ahead of the batch (`Speaks`), one whose first message is
read (`Listens`).

*Extensions.* Assumes finitely many addresses and wrong counts. `ExtInv`: the pieces of
metadata still needed, in a list without repeats, and those held make up all the pieces;
of the addresses sent by PEX at most `MaxPex` are remembered, so the list of dropped
ones holds all that are gone; and what the other end knows when it has heard what
is on the way is what we remember to have told it.

*PeerIo.* `IoInv`: what is left of an allotment and what was used of it are not more
than was allotted; the chunks queued by type sum to the bytes in the buffer; the
references to a connection are its owner's and one for an allocation that is in progress, which
holds every connection it will still flush. The sums are over prefixes of the queue.

*TorrentQueue.* Assumes finitely many torrents. A torrent that is moved leaves a gap; those
between the gap and where it goes move by one towards the gap (`PlaceAfter`), and the
last place it may take is found by looking for the back of the others. The invariant
(`Lined`) is that as many torrents as there are hold different places below their number: all
places are then taken, by counting (`PlacesTaken`). The loop of a move over several torrents
keeps it at each step. For the pulse, the loop invariant `PulseGood` counts
who was started and keeps whose turn it was. Reading the model against the code for this
proof showed that `tr_torrentsQueueMoveDown` takes the torrents in the opposite order,
as `tr_torrentsQueueMoveTop` does; the model had them in order, and is corrected.

*SpeedSchedule.* Assumes that days and weeks are not empty. `TableIsSchedule`:
the table of minutes, which the code fills going through the days and wrapping at the week's end,
is the set of minutes that the settings cover (`Scheduled`). `ScheduleInOrder`:
table, automatic state and mode agree at each minute. `PostedOK` counts what waits
in the pipe: a toggle is pending exactly if the setting is not as asked, unless
toggles overlapped.

*Seeding.* `SeedIInv`: a torrent that counts as a seed is complete; while a start waits in the
pipe no data move, so what it does not find done is not done when it runs (`StartKept`);
the last call that waits is the user's last word (`LastWord`); and a torrent marked as
ended by its idle limit stops, unless a start waits (`IdleEnded`).

*Bitfield.* Assumes a byte of at least one bit. While the field says neither "all" nor "none", its array
is the set it stands for.

*Blocklist.* Assumes finitely many lists, and addresses and ranges of naturals; a range may
be reversed, as the code does not reject one. Sorting by the first address is a
permutation, found by ranks (`SortedIs`); after k ranges the merged rules are in order and
`Apart`, begin no later than the k-th range, and hold what the first k hold (`Upto`);
in rules that are apart bisection finds what they cover (`Bisection`). The invariant
of the session's lists is then that each file and each mapped list hold exactly what they were
asked to, that the list that is downloaded is there at most once, and that the verdicts
cached since the last change are right.

*TorrentFiles.* Assumes finitely many files, numbered from 1, with blocks, and that no directory is called
"none". The properties speak of behaviours in which nothing was lost by a move itself
(`rash`), and these must be told apart from the others only at the step that
loses: while `rash` is false, nothing of a file is on the disk and all that is claimed of it waits in the
cache; or it is at one place, in the current directory, with all that is claimed
and does not wait, there is nothing of it elsewhere, and its descriptor, if open, is open
on it (`FileOK`). What is complete does not wait and has its name (`FileNamed`). Of two
directories the download directory is the current one only if they are the same and the first file
is there (`OneHome`): otherwise a restart, which looks for the first file to tell
which directory is current (`refreshCurrentDir`), would lose the others.

*Rpc.* Assumes that 0 is no port and that there are finitely many torrents. The server
(`ServerInv`): where it is not yet as asked, a call that will see to it is posted
(`SeenTo`). A disabled server that still listens, or that its start at the beginning
will make listen, has a "changed" posted; an enabled one that does not listen has
something posted; one that listens on another port has a restart posted, or was enabled
again too soon. torrent-set is a loop over torrents, each of which goes through six
arguments: a step touches its torrent alone and forgets no error (`Touches`), so that
a success at the end speaks of all of them. The loops over trackers are proved step by
step; that tiers are numbered without a gap is a count of the tiers before (`TierNumber`),
after the sort by ranks of Blocklist. `RemovesThese` says for lists of any
length what RemovesExactly says of three.

*Pieces.* Assumes of a layout what the code checks before it makes a torrent: the
block size is not 0 and divides the size of a piece (`tr_getBlockSize`,
`torrentParseImpl`), and some file has a byte (`tr_metainfoParseImpl`). The rest follows
for any number of files of any length. The bytes from 0 to the total are cut three
ways, into files, pieces and blocks; each cut has a part for every byte, and its
parts are as long as the code says (`PartLen`), so a sum of lengths is the number of
bytes in the parts summed. The files of a piece are contiguous, an empty one included,
which is why `setFileDND` may stop at the first neighbour that does not reach the
piece, and `calculatePiecePriority` at the first file outside it. The invariant
(`PiecesInv`) says what the arrays and counters hold after any calls: a piece is left out
exactly if all its files are (`DndFits`), its priority is that of its files
(`PriorityFits`), `sizeNow` is the number of bytes of the blocks, and each lazy sum is dirty
or the number of bytes it stands for, with what is wanted now (`CpFits`). The last part is
what no single call can be asked to keep: a change that forgot to dirty a sum would
break it. A call with many files is a loop, and is proved as one.

### What the provers do not do

- *Loops.* Induction in the library takes an operator as a parameter, which no
  installed prover can instantiate. A set of naturals that is not empty has a least
  element, though, and this says enough (`LeastNat`): the first step at which a loop's
  invariant fails is not 0, so the one before it holds. `StepsReach`, prefix sums, the
  relief of the request lists and the reading of a stream are proved so. Folds whose
  order does not matter are written as set operations in the models that have proofs.
  No module uses RECURSIVE operators.
- *Liveness*, and ENABLED: `LoneCallIsAnswered`, `EveryCallRuns`, `VerifyHappens`,
  `RemoveCompletes`, `StartAfterVerifyHonoured`, `EventsSent` and `RunningIsAnnounced` are
  model-checked.
- The properties the code violates (section 3).

## 6. Not modelled

- *UDP and uTP sockets, net.c's wrappers*: socket input and output. Dispatch by the
  first byte; libutp is third-party.
- *HTTP trackers* (announcer-http.c): its answers are those Announcer chooses
  from; the rest builds URLs and parses responses.
- *Statistics* (stats.c): sums without interleaving of their own.
- *Metainfo, magnet links, bencode, JSON, ID3*: pure conversion of input; a model
  would have to go through bytes one by one.
- *Torrent constructor*: options with a fallback and a force mode.
- *Torrent creation* (makemeta.c): files in, a file out, in a thread of its own.
- *Watch directory, paths, utilities, platform*: input and output, or containers
  that the models have as sets and sequences. The recursive lock of platform.c is
  inlined where it is taken.
- *Third-party code*: dht, libutp, miniupnp, libnatpmp, jsonsl and the rest are not
  of this repository.
- Left out of modelled parts: the reading and writing of settings and
  session-set; the loading of torrents at start; the idle loop of TransSession;
  `tr_verifyClose`; prefetching and the change of the cache's limit; the
  replacement of a tracker list; allowed-fast sets; junk files at moves.
  `PROJECT.json` has them by component.

## 7. Plan

What would come next, in this order:

1. The composition of EventPipe's full pipe with the session lock: threads that
   hold the lock while they write to the pipe, and the verify thread's report.
2. Announcer over UdpTracker: that the answers of one are those the other assumes,
   as a refinement.
3. Settings: what is written at the close and read at the start, and what
   session-set changes on the way.
4. Liveness in PeerRequests and Swarm: with a peer that has what is missing, every
   block is asked for again and again.
