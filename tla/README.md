# A verification project for the CMaNGOS WotLK server

TLA+ modules for the concurrent core of `mangosd`, which is the sockets, the sessions,
the asynchronous database and the threads that update the maps, and for the parts of the
game in which goods change hands: trade, mail and the auction house. They are
checked by TLC on small instances; what matters most about all of them is proved
by TLAPS for instances of any size. `PROJECT.json` ties every definition to
the lines it models. Paths below are relative to `src/src/`.

Contents: 1 the system, 2 the modules, 3 the runs, 4 fairness, 5 the
proofs, 6 what the runs found, 7 what is left out, 8 the plan.

## 1. The system

`mangosd` is one process. Its threads:

| thread | runs | defined in |
|---|---|---|
| network threads | `io_service::run`: the asio handlers of the sockets assigned to them | `shared/Network/NetworkThread.hpp` |
| world thread | `World::Update` in a loop: sessions, maps, query results, timers | `mangosd/WorldRunnable.cpp`, `game/World/World.cpp` |
| map update threads (3 by default) | `Map::Update` of one map at a time, the packets of its players included, while the world thread waits | `game/Maps/MapUpdater.cpp` |
| delay thread, one per database | the delayed SQL operations | `shared/Database/SqlDelayThread.cpp` |
| main thread | start and shutdown | `mangosd/Master.cpp` |

A client's packet goes: kernel → `Socket::OnRead` → `WorldSocket::ProcessIncomingData`
→ `WorldSession::QueuePacket` (network thread) → `WorldSession::Update` (world
thread or map update thread) → an opcode handler. An answer goes:
`WorldSession::SendPacket` → `WorldSocket::SendPacket` → `Socket::Write` (any thread) →
`FlushOut`/`OnWriteComplete` (network thread) → kernel. What a handler saves goes
through `CharacterDatabase` to the delay thread; what it asks for comes back
through `SqlResultQueue` to the world thread.

`World::UpdateSessions` handles the packets that have come before it, `Map::Update` those of the
players on a map that have come since: `WorldSession::Update` takes all of either and asks no
filter. So handlers of players on *one* map run one after another, those of players on different
maps at once, and neither beside what the world thread does itself (auctions, mail sweep, logins,
logouts). Nothing locks the auction houses, the mailboxes or the trades that they share.

### Components

| component | state | operations | interacts through | hard because | correct when |
|---|---|---|---|---|---|
| Socket, writes | write state, two buffers, flush timer, pending write | `Write`, `FlushOut`, `OnWriteComplete`, `Close` | `m_mutex`; asio handlers | senders on several threads; a state read before the lock; partial writes; close at any time | the wire carries a prefix of what was written (where moving the rest of a partial write keeps it); one continuation exists whenever data is buffered |
| Socket, reads | input buffer, read position, kept header, receive cipher | `OnRead`, `ProcessIncomingData`, `Close` | asio handlers, `errno` | frames cut anywhere; buffer growth; a header decrypted before its body came | each frame handled once, whole, in order; each header decrypted once |
| Database, asynchronous | per-thread transaction, delay queue, connection, result queue | `Execute`, transactions, `AsyncQuery`, `Direct…`, `ProcessResultQueue`, `HaltDelayThread` | three mutexes | two lock orders; direct calls on the delay thread's connection; shutdown | serial in the order of the calls, transactions atomic, nothing queued is lost |
| Sessions | state (CREATED, READY, OFFLINE), socket, requested socket, player, logout time, packets | `HandleAuthSession`, `Update`, login, logout, reconnect, kick, delete | `m_recvQueueLock`, raw pointers between socket and session | a client returns while its old session is alive, dying, deleted | sockets and sessions matched; no player without client stays; waiting threads are answered |
| Login queue | waiting sessions, limit | add, remove | `World` | limits changed while sessions wait | FIFO; the limit is respected |
| Map update pool | pending count, request queue, token | schedule, wait, execute, deactivate | two mutexes and condition variables | lost and spurious wakeups; shutdown with sleeping threads | each map once per tick and nothing after it; ticks and shutdown end |
| Maps and grids | grids, object lists, removal lists | add, remove, load, unload | the pool; teleports between maps | objects removed while iterated; a player between two maps | an object is on one map; no unloaded grid has active objects |
| Trade | two offers, two accepted flags | open, set, accept, cancel | two sessions, perhaps on two maps | early returns after the flag was set; partners in two threads; money at its cap | both or neither exchange; what is exchanged was agreed |
| Auction, mail | auctions, bids, letters, money | bid, buy out, cancel, expire, take, return | database transactions; houses and mailboxes shared by all maps | several transactions per operation; crash between them; handlers on two maps; money cap | money and items conserved |
| Group loot | votes, numbers, end time | vote, update, finish | group and loot objects | votes against timeout and logout; repeated votes | one winner, chosen by the rules; the item is given once |
| Battleground queue | groups per bracket, counters of invited players | join, invite, enter, leave, remove event | events, battlegrounds | timeouts against acceptance; counters | counters equal members; nobody is in two battlegrounds |
| Groups, guilds, arena teams, channels, social lists, calendar | membership | join, leave, promote | database | little | records agree with the database |
| Instances | saves, resets, binds | bind, reset | maps, database | a reset against players inside | a player inside is bound to the map's save |
| Entities, combat, spells, motion, vehicles, quests, achievements, reputation | the rules of the game | several hundred handlers and effects | each other, within a map | width, not depth | the game's rules |
| Pools, events, weather, outdoor PvP, battlefield, scripts, bots | content | timers | maps | data | content |
| DBC/SQL stores, vmaps, mmaps | read-only data | load | – | geometry | – |
| Console, RA, SOAP, GM tools; realmd | – | commands; login protocol | queue to the world thread; database | I/O, arithmetic | – |

`PROJECT.json` lists all of them with their status, and as `hazards` what in this code
a test would hardly reach, with the property that covers it or why none does.

## 2. The modules

| module | role | models |
|---|---|---|
| `SocketWrite` | detailed | write half of `Socket`, `WorldSocket::SendPacket` |
| `ByteStream` | abstract | one stream of bytes, of which the peer has a prefix |
| `SocketRead` | detailed | read half of `Socket`, `WorldSocket::ProcessIncomingData` |
| `SqlDelay` | detailed | transactions, `SqlDelayThread`, `SqlResultQueue`, direct calls |
| `SerialStore` | abstract | operations take effect one at a time, in the order of the calls |
| `WorldSession` | detailed | sessions of one account, and its sockets |
| `MapUpdate` | detailed | `MapManager::Update`, `MapUpdater`, `ProducerConsumerQueue` |
| `WorldTick` | abstract | every map once per tick, by one thread, none outside |
| `Trade` | detailed | `TradeData`, `Player::TradeCancel`, the handlers of the trade opcodes |
| `Exchange` | abstract | goods pass in one step for both sides, and only as consented to |
| `CharacterStore` | shared | what memory and the characters database have of money, items, mails and auctions; crash and restart; login, teleport, logout; sending of mails |
| `Mail` | detailed | the handlers of a mailbox, the sweep of old mails; over `CharacterStore` |
| `Auction` | detailed | listing, bids, cancellation, the update of the auction house; over `CharacterStore` |
| `Market` | composition | `Mail` and `Auction` over one `CharacterStore`, and the properties of all three |
| `DataLemmas` | lemmas | induction over finite sets; prefixes, concatenation, `FlattenSeq`; sums over finite sets |
| `SocketWrite_proofs`, `SocketRead_proofs`, `SqlDelay_proofs`, `WorldSession_proofs`, `MapUpdate_proofs`, `Trade_proofs`, `Market_proofs` | proofs | theorems of section 5 |
| `MC…` | for TLC | one per checked module |

Common conventions. A step is what a thread does between two points where
another thread can see or change the state: one critical section, or the code
between two of them. What the code reads before it takes a lock is read in a step of
its own. A variable has the name of the member it stands for; those marked *history*
record the past for the properties and are read by no guard, with one exception:
the bounds. A definition whose comment begins with "Mutant:" is a plausible bug
used to show that a property can fail; it is not part of the specification.

**SocketWrite.** `m_outBuffer` and `m_secondaryOutBuffer` hold the bytes up to
`m_writePosition`; a byte is the pair of the keystream position of its packet and its
index. `SendPacket` is `Encrypt` (no lock), `Write` (locked), `Return`
(`ForceFlushOut`, which cancels the timer). `flushTimer` is *waiting* or *due*: a timer
that expired or was cancelled has its handler queued. `FlushOut` and
`OnWriteComplete` are two steps each, for they test `IsClosed()` before they lock;
`handler` is the position in between. `WriteSome` and `WriteFails` are asio and the
kernel. `EncryptSend` is one atomic step: in the code two threads in it are a data
race on the cipher's own state, so the model is kinder than the code there. After a
partial write `OnWriteComplete` moves the rest to the start of the buffer with `memcpy`
(`Socket.cpp:275`). If more is left than was written the two regions overlap, and what
`memcpy` does is undefined: `Moved` has two outcomes, the rest as it was and what a copy from its
end would leave, and `garbled` (*history*) tells that they differed.

**SocketRead.** A byte is (frame, index). `frames` fixes at the start the body
size and the fate of each frame: accepted, rejected by its handler (returns
false), or malformed. `OnRead` is one step to the loop and then one step per
`ProcessIncomingData`, for another thread may close the socket in between. `Fail` is
what `OnRead` does after a call returned false: it depends on `errno`, which
some returns do not set. `OnReadThrows` is a `Close` between the `IsClosed()` test and
`available()`, which throws on a closed socket, out of `io_service::run`; nothing of that
socket goes on, and what becomes of the network thread is not modelled. `AsioResetsErrno` says what the Boost of the build does with
`errno` on a successful socket call (`available()` in `OnRead`): its
`clear_last_error` sets it to 0 in the versions current with this code.

**SqlDelay.** A statement is a number; an operation is *plain* (statement or prepared
statement), a *transaction*, or a *query* (also a query holder). A client's call is
two steps, building it and getting the mutex. The delay thread takes the
connection for one operation; within a transaction each statement is a step and the
server may refuse any; direct calls wait for the connection. The world thread
holds the result queue's mutex across all callbacks, and these may make requests.
No callback of the code uses the Direct calls (`MayGoDirect`): one that did
would wait for the connection that the delay thread holds while it waits for the
result queue. The mutant of `CallbacksRun` is that callback.
`CommitTransactionDirect` returns true whatever `SqlTransaction::Execute` did, so
`acknowledged` (*history*) has a direct transaction in any case, and a direct statement when it
took effect. The shutdown is `WorldEnds`, when neither the world thread nor the threads of the
pool, which it waits for, are in a call, and then `Stop`. Nobody waits for the clients in
`Detached`: the network threads are detached (`NetworkThread.hpp:49`, `~Listener` joins only the
acceptor), and the CLI thread is joined after `HaltDelayThread` (`Master.cpp:262-269`). They go on
delaying operations while the thread ends; a `Delay` after its object is deleted is
`DelayTooLate`, where the model stops (`crashed`).

**WorldSession.** One account, for sessions of different accounts share nothing that
the properties speak of. `entry` is `m_sessions[account]`; `conn` are the sockets with
the position of their network thread in `HandleAuthSession` or the packet path;
`updating` is the session in `Update` (which holds `m_recvQueueLock`), `removing` one that
`Update` gave up and the world thread is about to delete. `tick` alternates the
session update and the map update that also runs packets. `logoutTime` is
abstracted to what `ShouldLogOut` and `ShouldDisconnect` tell apart. Session
objects are never reused: a network thread that uses a deleted one, or the
second deletion of a player whose load failed, is undefined behaviour, and the
behaviour ends there (`crashed`). What the properties say, they say of the rest.

**MapUpdate.** The world thread is `world`; each worker has a `pc` and the map in its
`request` (or null). `WaitAndPop` and `wait()` are one step from lock to sleep or
return, and one again per wakeup. A thread-unsafe packet is the only thing a map's
update does that the model tells apart. Without threads in the pool
`MapManager::Update` updates the maps itself; that case is not modelled.

**Trade.** Partners on one map are handled by one thread, so a handler is a step. A far
teleport leaves the trade open (`FarTeleport`, `Arrive`; `place` is a player's map), and
then their handlers may run at once, in two threads of the pool, without a lock: both in
`TradeCancel`, or one of them while the other sets an item or accepts. That is `Collide`; it may
leave either, both or none of the two TradeData (what else the two handlers write is left
out), sets `raced` (*history*), and the model stops there, for a second deletion or a use of a
deleted TradeData is undefined. Until then handlers run one at a time, also those of partners on
two maps, whose checks of the distance then fail (`Near`). An
offer holds GUIDs, and an item is looked up in its owner's inventory each time
(`GetItem`): `Spend`, `LoseItem` and `GainItem` are the rest of the game, which changes
purses and inventories without knowing of the trade. `HandleAcceptTradeOpcode` is an
action per way out, each with the flags it leaves: `AcceptUndone`, `PartnerLacksMoney`,
`NotTradable`, `AcceptFirst`, `SpellFails`, `NoRoom`, `Complete`. What depends on the rest
of the game (distance, `CanBeTraded`, `CheckCast`, room) may go either way. `seen` (*history*)
is the window a player had before it when it accepted, `aimed` (*history*) the item a
spell was chosen for. `Exchange` knows bags, purses and consents, no slots and no
flags; a consent is what `seen` has of terms while the flag is set.

**CharacterStore, Mail, Auction, Market.** A thread runs a handler to
its end and delays one transaction after the other, which the delay thread executes in
that order (`SqlDelay`; the order of one thread's calls is what `SerialStore` promises). Handlers
of players on two maps may run at once. If they are at different auctions, mailboxes and purses
they change different rows, and are two steps in either order, their transactions in turn or not. If
they are at the same, they *meet*, which is a step of its own: `BidsAtOnce` (both read the
entry before either writes it: the older bid is refunded twice, and memory and row have the bidder of one
and the price of one, perhaps not of the same; two buyouts may both send the item),
`CancelAtOnce` (the entry is deleted under a bid), `SendAtOnce` (one mail id given twice, or a mail
lost from the deque of a receiver who is busy). Each sets `raced` (*history*), after which of the
properties only `TypeOK` and `PendingHoldsNoItem` are claimed, for the others fail. Other pairs
(a mail returned while another is sent) meet in the same two places, the counter of ids and the
receiver's box, and `SendAtOnce` stands for them. The world thread's own steps meet nobody.

A handler that meets none is written as the sequence of the images of the database after each of its
transactions, and what it does to memory. Either it runs to its end (`Commit`: `db` is the
last image and memory has changed), or the server dies in it (`DiesIn`: it restarts
from the image after one of the earlier transactions, and all memory is gone). A crash between
two handlers is `Crash`. That `db` is the image *once the delay thread has caught
up* loses nothing: a crash that loses queued transactions of several handlers is the same as
one that came earlier. `Restart` includes `LoadAuctions`. A player is *offline*, *online*, or
*between*: loading, or in a far teleport, where a `Player` exists that is in no map, so
that mails reach only its rows and the sweep takes it for absent. `raced` tells
also that the sweep took a mail which such a player has in its box; what a later save makes of it is not
followed. `burned` and `limbo` are no data of the server: money that has
left the game (postage, cut, deposit, in deleted mails, above the cap), and money of mails
on their way back to the sender, which are deleted before they are sent again.

## 3. The runs

| run | bounds | time, about | shows |
|---|---|---|---|
| `socket_write` | 2 senders, 3 packets of 1–2 bytes | 24 s | no loss, no doubling, frozen buffer, asserts, refinement of ByteStream until a `memcpy` spoils bytes, every byte is sent |
| `socket_write_cipher` | the same | seconds | *violation*: cipher order is not wire order |
| `socket_read` | 3 frames, bodies of 0–1, header 2, buffer 3 | 70 s | framing, cipher, progress |
| `socket_read_oversize` | 1 frame of 6 bytes, buffer 4 | seconds | *violation*: reads of nothing for ever |
| `sql_delay` | 2 clients, one of them detached, 3 requests, transactions of up to 2 | under a minute | refinement of SerialStore, direct calls durable, no deadlock, nothing lost that came in time |
| `world_session` | 3 connections, 2 sessions, 1 packet, 1 login in flight | 2 min | ownership, timers, leaving, answers |
| `world_session_kick` | 1, 1, 1, 1 | seconds | *violation*: a session kicked while offline stays |
| `world_session_login` | 1, 1, 2, 2 | seconds | *violation*: two players for one session |
| `map_update` | 3 maps, 2 workers | 5 s | count, refinement of WorldTick, ticks and shutdown end |
| `map_update_packets` | the same | seconds | *violation*: thread-unsafe handlers beside other maps |
| `trade` | 2 players, 2 maps, 2 items, 1 traded slot and the other, 1 spell, purses of at most 1 | 2–3 min | until handlers collide: pairing, acceptances are of the offers as they are, spell targets, one owner, refinement of Exchange |
| `market` | 3 players, 1 item, 1 lot, 2 mails at a time, purses of at most 2, 1 player away, 1 crash | 1–2 min | until handlers meet: money and items conserved, memory and database agree, no money lost in a crash, COD paid, bids settled |

Why the bounds are enough to be interesting:

- *SocketWrite*: one packet in the primary buffer under a pending write, one in
  the secondary, one sender between encryption and write; packets of two bytes are
  split by partial writes.
- *SocketRead*: a buffer of 3 is smaller than two frames and smaller than the three
  arriving at once, so it grows; a frame is cut in the header, between header
  and body, and behind another frame.
- *SqlDelay*: a transaction and a direct call, or a query and a callback's request,
  are in flight together; a transaction of two can fail at its second statement. The client that
  nobody waits for makes its requests before, during and after the end of the delay thread.
- *WorldSession*: three connections are an old socket, the one that replaces
  it and one more refused or waiting; two sessions are a deleted one and its
  successor. One login in flight, since two are what `world_session_login` shows to go wrong and
  all else would be lost behind that.
- *MapUpdate*: more maps than threads, so one thread sleeps while another takes two
  requests, and both sleep or are busy at shutdown.

- *Trade*: two players make every pairing that two TradeData can get wrong; what more
  players add (a third who opens a trade at the same time) is in the proofs, which hold for any
  number of everything. Two maps are one on which the partners meet again and one on which they
  do not. Two items and two slots let an item move from slot to slot, and
  be what a spell is for or cast with. A cap of 1 is reached as soon as money passes.
- *Market*: a seller and two bidders, so that there is an outbid bidder and a winner, and a mail to
  each at the same time, or a COD mail and its payment. The three have more coins
  together than one purse holds, so the cap is met. One lot is listed again and again.
  A restart is followed by what the server does on its own (deliveries, ends, the sweep, on
  the database the crash has left) until somebody begins to log in; `Followed`, a state
  constraint, says so, and that the successors of a state with `raced` are not looked at: the state
  itself is, so that what two handlers that meet leave is checked for types. Everything that a
  player does before a crash, and every place to crash, is explored.

`CHECK_DEADLOCK FALSE` in the runs about sockets, database, sessions and maps: a closed
socket, a server shut down and a client with no connection left are legitimate ends, and
progress is stated as liveness instead. In `trade` the model stops when handlers have
collided. `market` checks for deadlock.

`StreamSpec`, `StoreSpec`, `TickSpec`, `ExchangeSpec` are refinements: the abstract module is
instantiated with a mapping from the detailed state (`wire` for `delivered`; queue,
local queue and hand for `pending`; the workers inside `Map::Update` for
`updating`; acceptances with what was seen for `consent`), and its `Spec` is checked as a
property.

## 4. Fairness

- Sockets: an asio handler that is queued is run, since `io_service` runs handlers in
  order; `FlushOut` and `OnWriteComplete` have strong fairness because the network
  thread may be inside `SendPacket` again and again when one looks. A timer expires, a
  write completes or fails, a thread inside `SendPacket` goes on. Nobody has to send
  or close. For reads: what was sent arrives, a read with data or without space
  completes.
- Database: the delay thread runs whenever it does not wait for a mutex; the world thread
  updates the result queue in each tick; a call that can get its mutex gets it; a
  shutdown that began goes on. What a detached thread has begun to call it finishes. Clients need not ask for anything and nobody has to shut down.
- Sessions: the world thread goes round its loop, polling network threads wake up
  (`sleep_for` in a loop), time passes. Clients need not do anything.
- Maps: every thread that is not asleep runs, the update of a map returns. Nobody
  has to begin a tick; sleepers wake only when notified.
- Trade and market: none. Players need not do anything, and what the server does by
  itself (an auction ends, a mail gets old) these modules allow at any time; their
  properties are safety.

## 5. The proofs

TLAPS proves, for every value of the constants that satisfies the modules' `ASSUME`s
(some network thread among the senders and positive bounds; headers and buffers of positive size; the delay and the world thread
are distinct and the bounds numbers; finite maps and a
non-empty finite pool; null values that are no items, offers or terms; starting inventories
that are disjoint; finitely many players, lots and mail ids in the market):

| module | theorem | states |
|---|---|---|
| `SocketWrite_proofs` | `TypeCorrect`, `HandlerAssertsHold`, `PrimaryStaysFrozen`, `OneContinuationHolds` | the invariants of `socket_write` |
| | `ImplementsStream` | `Spec => StreamSpec`: the stream, until a `memcpy` spoils it |
| | `DrainOnlyAdvances` | `Drains` without its fairness |
| | `PacketsStayWhole` | packets on the wire are together, in order, and once, while `~garbled` |
| | `OneSenderInCipherOrder` | `WireInCipherOrder` (while `~garbled`), where `Senders = {NetThread}` |
| `SocketRead_proofs` | `TypeCorrect`, `NoByteLost`, `FramesInOrder`, `CipherKeepsStep` | the invariants of `socket_read` |
| | `ReadNeverStalls`, `FramesOnlyAdvance` | `FramesProcessed` without its fairness, where every frame fits the buffer and `AsioResetsErrno` |
| `SqlDelay_proofs` | `TypeCorrect`, `DirectIsDurable` | the invariants of `sql_delay` |
| | `ImplementsStore` | `Spec => StoreSpec` |
| | `WaitsNotInCircle`, `ShutdownLosesNothing` | no circle of mutexes; nothing left behind but what a detached thread delays too late |
| | `LineOnlyAdvances`, `CallbacksOnlyAdvance` | `AllExecuted` and `CallbacksRun` without their fairness |
| `WorldSession_proofs` | `TypeCorrect`, `OwnSockets` | `TypeOK` and `SocketOwnership` of `world_session` |
| | `TimerStopped`, `OwnedPlayers` | `NoStaleTimer` and `PlayersOwned`, where `MaxHolders <= 1` |
| | `OrphansOnlyFromLogin` | only the callback of a login leaves a Player without a session |
| | `WaitersOfEntry`, `WaitOnlyShrinks` | `RequestAnswered` without its fairness |
| | `LeaveOnlyAdvances` | `PlayerLeaves` without its fairness, where `MaxHolders <= 1` |
| `MapUpdate_proofs` | `TypeCorrect`, `RequestsAreCounted` | the invariants of `map_update` |
| | `ImplementsTick` | `Spec => TickSpec` |
| | `WakeupsArrive`, `PoolNeverStuck` | no lost wakeup; nobody waits for a thread that can not go on |
| | `TickOnlyAdvances`, `JoinOnlyAdvances` | `TickEnds` and `ShutdownEnds` without their fairness |
| `Trade_proofs` | `TypeCorrect`, `TradersPaired`, `AcceptanceHolds`, `SpellTargetHolds`, `OneOwnerHolds` | the invariants of `trade`, all but `TypeOK` until handlers collide |
| | `TradeIsExchange` | `Spec => ExchangeSpec` |
| `Market_proofs` | `TypeCorrect`, `PendingCorrect` | `TypeOK` and `PendingHoldsNoItem` of `market` |
| | `WrittenThroughHolds`, `OneHolderHolds` | the invariants `WrittenThrough` and `OneHolder` of `market`, until handlers meet |
| | `BidSettledHolds`, `CodPaidHolds` | the action properties `BidSettled` and `CodPaid` of `market`, until handlers meet |
| | `MoneyConservedHolds`, `CrashLosesNoMoneyHolds` | the invariants `MoneyConserved` and `CrashLosesNoMoney` of `market`, until handlers meet |

*SocketWrite.* None of the invariants is inductive: all speak of an open socket, and
the handlers run on a closed one too. `IInv` adds `Chain`, which says who carries the
data on in each write state whether the socket is open or not (a pending
write is the whole primary buffer, a started timer means Buffering, `FlushOut` past its
test finds data); `HeaderOK`, that packets under way are within the bound;
`Counted`, that as many bytes as were written and are not on the wire are in the buffers,
whatever a `memcpy` made of them; and
`NothingLost`: while `~garbled`, on an open socket `accepted` is the wire, then what the kernel
has not taken of the primary buffer, then the secondary; on any socket the wire is
a prefix. These are the refinement: a `WriteSome` extends the wire by the next
part of `accepted`, which is `Deliver`; `Write` is `Put`; an `OnWriteComplete` that spoils bytes is
`Spoil`, which needs more than one byte to be left (`MovedRest`); all else but closing
stutters. `Drains` and its proof count bytes and do not ask what they are. `DataLemmas` has the facts on prefixes that this needs. `DrainOnlyAdvances` counts with
`StepsToWire` what the timer, a handler and the kernel have to do before the next byte goes out;
by `Chain` there is always one of them while bytes are unsent. A cancelled timer counts
less than a waiting one, so `ForceFlushOut` sets nothing back. `PacketsStayWhole` and
`OneSenderInCipherOrder` rest on what `Encrypt` hands out: a position that no byte and no other
sender has (`Whole`), and, if nobody else can encrypt before the `Write`, one above all
that was written (`CipherOrder`); both are claimed of the wire while `~garbled`.

*SocketRead.* `NothingLost` and `ProcessedInOrder` are inductive only with what the parser
knows about the bytes in front of it. `Coming` joins the unread part of the buffer, the bytes a
read brought, the kernel's and the peer's; on an open socket that is the stream from the next
frame on, whose first `FrameSize` bytes are that frame (`StreamSplits`), so a header can only
be the next frame's and a whole frame can be cut off. `Kept` has the header that
`ProcessIncomingData` decrypted and left in the buffer: it is still there, and the next frame's, so
`decrypted` is ahead of `processed` by that header and no other. `Stage` says when bytes
wait to be counted. The stream is a fold (`FlattenSeq`) over the frames, and induction over
data is out of the library's theorems' reach here, for they take a predicate as a parameter;
`DataLemmas` derives it for sets instead (`SubsetInduct`, `Induct`), from the library's theorem
that the finite subsets are well-founded, and with it what the fold makes of a first element.
`ReadNeverStalls` is what can not be taken for granted: bytes that wait in the socket's own buffer
wake nobody. It needs that the loop takes every whole frame out before it reads
again (`Going`), that a partial frame leaves room for its rest, and that a call which returns false
meets a fresh `errno`. Its two conditions are those of the code: `FramesFit` says that no frame is
larger than the buffer a socket starts with, and `socket_read_oversize` shows the stall without it;
without `AsioResetsErrno` TLC finds one too: a frame that its handler rejects does not close the
socket where an old `EBADMSG` is left, and whole frames behind it wait in the buffer.

*MapUpdate.* `Hands` says which positions of a worker have a request; a null pointer
is in a worker's hands only after the token was set. `Order` is the order of the
shutdown. `Counted` is the count, `Quiet` that it is 0 outside a tick, so that nobody
has a request then. `Places` partitions the maps of a tick into those to be scheduled,
queued, held and updated. `End` of `WorldTick` needs every map updated: at `wait()` with
count 0 the queue is empty and nobody busy, so by `Places` the maps are `updated`.
`NoLostWakeup` is the invariant of a condition variable, with a count: if any worker
sleeps, there are at least as many awake at the queue as there are requests in it. It is inductive
because `push` wakes one worker for one request, and one that takes a request is one less
to look for one less. `PoolNeverStuck` follows with `Counted`: pending is queued or in hand.
`TickOnlyAdvances` gives each map a `Phase`, from 7 (to be scheduled) to 0 (done), which no step
raises and every step of a worker that runs lowers for some map; a spurious wakeup
finds the queue empty and is not such a step.

*SqlDelay.* `DirectDurable` alone does not say why a direct statement does not end up in
someone else's transaction. `Locked` does: the connection is the delay thread's exactly while
an operation is being executed, and `InStep`: the server has a transaction open exactly
while the operation at the head of the local queue is one, and has of it what was executed. `HandOK`
says whose answer the delay thread holds, `LocalQueue` where in its loop it can have
operations. For the refinement the operations not yet executed are the local queue behind the
shared one; moving the shared queue over, waiting and failing to lock are stutters, the
last statement of a transaction is the step in which it takes effect. That nothing waits in a
circle and that the destructor's last round is the last need the order of the shutdown
(`ShutdownOrder`: the clients that are waited for, loop, last requests) and that no callback calls directly
(`NoDirectInCallbacks`). `NothingLeftBehind` is what holds when the thread object is gone, and `LostOnlyLate`
that what the destructor finds queued it takes, so that only a `Delay` of a detached thread can
still be lost. `LineOnlyAdvances` counts the steps to the end of the oldest operation: the
way round the loop to `ProcessRequests`, its statements, its answer.

*WorldSession.* `SocketOwnership` speaks of live sessions and of sockets whose threads are past
authentication; what keeps it is what it leaves out. `Matched` has the socket that *asks*
for a session: it points to that session, its thread waits or has given up, and the session
is CREATED until it has looked, so that READY tells the waiting thread that the session took
this very socket. `Answered` is the other direction: a waiting thread's socket
is its session's own or the one asked for. `Places` says that the world thread's pointers
name the account's session or none and that a session waiting to be added is another one, `Born`
that numbers not yet used carry nothing, `Players` that only the account's session has a
player, `Bounded` that logins in the queues and in flight are within the bound (a counting
argument over the queues, `LoginsGrow` and `LoginsShift`). `TimerStopped` needs one fact
more: while a login is in flight the session has no player. That is true of one login at a
time; with two, `NoStaleTimer` fails (section 6). `Orphans` counts the Player objects that the
account's session does not have. With any number of logins only a callback that finds a player adds
one; with one login in flight no callback does, by the same fact. `Attached` adds what a waiting
thread needs: the session it has looked up is still the account's, for it leaves `m_sessions` only
when it is deleted, and an offline session has let go its socket, so that who waits for it has asked
and made it CREATED. The next `Update` then makes it READY, or parts the thread's socket from it.
That is claimed while the session exists; a thread whose socket was parted ends at its test of
`IsClosed()`, or, if it is at the other test, uses a null pointer, where the model stops.
`LeaveOnlyAdvances` needs `Parting`: only the account's session goes offline, with its player's
timer running and no login in flight, and one without a socket is offline or has one that asks.

*Trade.* The invariant is `TypeOK /\ (raced \/ Orderly)`: nothing is claimed after a collision, and
`Collide` itself has to keep no more than the types. In `Orderly`, `Paired` and the types come
first (`Sound`), for every handler writes through the partner's pointer, on whatever map. `AcceptedAsSeen` is inductive with them because no handler changes an
offer without taking both acceptances back; `SpellTargetKept` because whatever changes the
slot a spell is meant for drops that spell. For the refinement a step of `Complete` is `Swap`:
a collision takes consents back or leaves them (`CollideDecides`), which `Exchange` allows at any time;
by `AcceptedAsSeen` the terms that the first to accept had seen are those that
hold now, and by `OneOwner` the items removed from both sides are apart.

*Market, types.* A restart reads its houses and boxes from the database, so what holds in memory must
hold of every row as well: `SoundImage` says it of the database, and of the image
after each transaction that a crash may leave. `SoundMail` says that a mail that can go
back, or asks for a payment, comes from a player, so that the return and the payment have a receiver.
`SoundEntry` has that a bid has a bidder and is not above the buyout (or the price of a
raise would be negative) and that a pending auction has no item; that any *other* auction
has one is `PendingHoldsNoItem` itself, and holds in memory only, for a row may be left
without its item after a crash: `LoadAuctions` leaves out such auctions.

*Market, agreement.* `WrittenThrough` says that a mail in a box has a row; the induction needs that it
has *one*, and which. `Agreed` therefore says that ids are unique among the rows and in each
box (`RowsFit`, `BoxesFit`), that no row carries the state DELETED, that a player who is offline has
no box, and `Single`: an item is in one bag, row or lot at most. The two halves need each
other: a DELETED mail that is saved destroys the item it has in memory, which
is nowhere else only because the mail is as its row says and the item is single (`GoneNowhere`);
and an item is taken out of the row that the mail in the box has, so the row must be the same.
After a crash two places may name the same item, and destroying it in one empties the other: then
a row may be short of its item (`Shorn`), and `Single` is claimed no more. The invariant
is claimed until `raced`, which handlers that meet set (`MeetingsRace`) and the sweep of a mail that a
player between two maps has. `Sound`, and so `TypeOK` and `PendingHoldsNoItem`, goes on through
both (`BidsAtOnceSound`, `CancelAtOnceSound`, `SendAtOnceSound`).
A handler is proved along its images, each related to the one before by
what it changes (`SavedOf`, `LotOf`, `SameItems`).
`BidSettled` and `CodPaid` are action properties over this invariant. Each step either ran to
its end (`Went`) or is the restart from an image (`Died`), and each image a crash may leave is
`Harmless`: it has each active bid, or its refund, and no item in a bag that was not there. For
`CodPaid` the mail in the box is its own row, and by `Single` no other row has the item, so
that whoever gets it has taken it out of that very mail. After a crash `BidSettled` is claimed of
every step but a further crash, and `CodPaid` of none.

*Market, money.* An image is worth (`Worth`) its purses, its mails, its bids and deposits, and what it
counts as burned: sums over the players, the mail ids (`Letters`, for ids are unique by
`RowsFit`) and the lots, so that a statement that touches one purse, one mail or one lot changes
one summand. `Becomes(a, b, n)` says that image `b` is worth `n` more than `a`; there is one such lemma
for each statement, and a handler is the sum of its statements. `MailSaved` is the hard
one: a saved mailbox writes many rows and burns the money of its DELETED mails, which is
what their rows had because boxes and rows agree. `Balanced` is what every step is: its
images add up to 0, or it is the restart from an image that is `Ample`, worth no less
than before. A restart drops auctions without an item, with their bids; before the first crash no
image has one that is not pending (`Whole`), which is why the first crash loses nothing and the
second may. `Books` says so of the database, and `Ledger` joins it to `Holding`. What a player
pays is what the row loses only as purse and row agree, so the sums need the agreement too.

Only model-checked: liveness (`Drains`, `FramesProcessed`, `AllExecuted`, `CallbacksRun`,
`PlayerLeaves`, `RequestAnswered`, `TickEnds`, `ShutdownEnds`), for fairness and `ENABLED` are out
of the prover's reach. The theorems named "without its
fairness" prove the rest of the argument for every size (for `PlayerLeaves` with one login in
flight at most): somebody is always there to
take a step, each such step lowers a number, and no other step raises it (or, for
`RequestAnswered` and `PlayerLeaves`, only a new connection does). What they leave to TLC is that the
steps are taken: that an action whose guard holds is enabled, and stays so until its thread runs.

## 6. What the runs found

Five runs expect a violation; `PROJECT.json` quotes the line each one contradicts.

1. `socket_write_cipher`: a header's place in the keystream and on the wire are
   decided separately (`WorldSocket.cpp:101`).
2. `socket_read_oversize`: an incomplete frame that fills the input buffer is never
   completed (`Socket.cpp:110`).
3. `world_session_kick`: kicked while offline, a session is never removed
   (`WorldSession.cpp:434`).
4. `world_session_login`: the guard against a second login tests a flag that is not
   set while the first waits for the database (`CharacterHandler.cpp:581`).
5. `map_update_packets`: the packet filter is never asked (`Map.cpp:592`).

With two logins in flight `NoStaleTimer` fails as well, a consequence of 4: the player of the
first answer is lost with its connection, the timer starts, and the second answer brings a
player in while it runs, with no `HandlePlayerReconnect` to stop it. Or, when a kick has logged
the first player out of the offline session, it brings one into a session that is offline with no
timer running: TLC finds `LeaveAdvances` violated there, so the bound of its theorem is needed.

Met while modelling, without a run of their own: a network thread uses a session
found without a lock that the world thread deletes (admitted at `World.cpp:196`); after a
failed load the player is deleted twice (`CharacterHandler.cpp:668-672`); `KickAll`
says "and save" but logs out with `Save` false; a client that reconnects to a session in the
login queue is told it is in (`WorldSession.cpp:405`); the comment "within 20 sec" at
`WorldSession.cpp:425` is 60 seconds in `ShouldDisconnect`; a partial write with more left than
was sent is moved with an overlapping `memcpy` (`Socket.cpp:275`; `OnRead` uses `memmove`), and if
that copies from the end, as an implementation may, the peer gets some bytes twice and others
never; `CommitTransactionDirect` reports a transaction as committed that was rolled back
(`Database.cpp:424-429`); a network thread that delays an operation while the server shuts down may
do so on a deleted `SqlDelayThread`; `available()` throws out of `io_service::run` on a socket
closed between the two lines (`Socket.cpp:99-107`).

In trade: where something offered can not be traded now, `HandleAcceptTradeOpcode` returns
with the acceptance standing (`TradeHandler.cpp:293`), and where the partner lacks the
money it offered, the partner's acceptance goes and one's own stays. Neither breaks a property,
for the window is unchanged. Items that are gone after the acceptance do not stop the
exchange: the rest changes hands.

Partners on two maps who cancel at once both delete both TradeData (`Player.cpp:12573-12590`), and
one who sets an item while the other cancels writes to a deleted one: `TeleportTo` does not cancel
a trade. This, and the following, is what finding 5 means for goods that are shared across maps:

- Two bids on one auction at once (`AuctionHouseMgr.cpp:1019-1033`) both refund the older bidder,
  one of them is forgotten, and the row may have the bidder of one and the price of the other.
- Two buyouts, or a buyout and a cancellation, at once both find the item and both send it.
- Two mails sent at once may get one id (`IdGenerator::Generate`, `ObjectMgr.cpp:133-142`, has no
  lock); the second `INSERT` fails, and that mail is gone with the next login of the receiver.

In the market where no two handlers meet, all within what the properties say:

- A bid on a pending auction is accepted (`AuctionHouseHandler.cpp:414`): the winner,
  who has the item already, gets the bid back, and the new bidder pays for nothing. With buyout
  such bids put off the owner's money each time.
- A crash between the transaction of `AuctionBidWinning` and the mail to the winner loses the item;
  `LoadAuctions` keeps the auction, so the owner is still paid.
- A crash between a mail of the auction house and the deletion of the auction repeats the mail after
  the restart: money or the item exists twice. An outbid bidder's refund in front of the new
  bid does the same to the money.
- After one crash no money is lost but that of a mail on its way back, which
  `HandleMailReturnToSender` deletes first (`limbo`). After two, a bid may be: the item of the auction
  exists twice, is destroyed in the other place, and `LoadAuctions` drops the
  auction, the bid with it. `CrashLosesNoMoney` is about one crash for that reason.
- Marking a mail as read brings a mail back that was deleted a moment before and not yet saved.
- A mail sent while its receiver is loading or between two maps is in the rows and
  not in the box until the next login. The sweep takes mails from such a player's rows
  that are still in the box.
- Money and the item of a mail that is not from a player are lost when it is returned to
  the sender.

## 7. What is left out

- Data races inside a single step: `EncryptSend` from two threads, the hash table of
  `m_sessions` in `FindSession`, `volatile bool m_running`.
- What becomes of a container that two threads change at once without a lock: the map of auctions
  and their items, the deque of a mailbox, `m_trade` and what it points to. `BidsAtOnce`,
  `CancelAtOnce`, `SendAtOnce` and `Collide` have what the statements leave in some order, not a broken
  tree or deque, and what follows them is not explored. Two listings at once meet in the
  counter of auction ids as two mails do in theirs.
- A crash that cuts the handlers of several maps, each between two of its transactions.
- Whether money above the cap should be lost: `ModifyMoney` cuts it off, and `Exchange` and
  `MoneyConserved` write that cut into what they ask for (`Settled`, `burned`). They
  say that nothing else is lost; that the cut itself is right they can not show.
- Weak memory: steps interleave sequentially. `IsClosed()` reads a socket member without
  a lock; the model lets it be stale by one step, not more.
- Loss of the database connection and reconnection to it.
- In trade: the branch of `moveItems` for a `CanStoreItem` that disagrees with
  `CanStoreItems` just asked, and what the spells do to the items.
- In the market: several items in one mail, mails from templates and creatures, the text
  item, the delivery delay, the cap of a mailbox and the 8 bits of `mails_count`, the
  32 bits of `cost + money`; that a player may have several characters on one
  account; the other auction houses and deposits by item. The
  sweep reads synchronously and may miss writes still queued; its statements are its own
  transactions in the order of the code. An item that a client names to
  `HandleMailTakeItem` is assumed to be one of that mail's.
- The rest of the world behind `LogoutPlayer`, `HandlePlayerLogin` and the opcode handlers.
- Components marked `not_modelled` in `PROJECT.json`, each with its reason: content and
  geometry out of TLC's reach, or part of the plan.

## 8. The plan

Done, in this order: sockets (with proofs), asynchronous database, sessions, map
update pool (with proofs), trade (with proofs), mail and auction house with crashes,
proofs of the asynchronous database, of the sessions, of the market with its money and of the
socket's read half, proofs of what the liveness of sockets, database, sessions and map updates rests
on. Next, in this order:

1. `GroupLoot`: votes against timeouts and logouts.
2. `BattleGroundQueue`: invitations against their remove event.
3. `LoginQueue`, several accounts beside `WorldSession`.
