# TheroLogicServer: a verification development

The repository is the logic server of a mobile game: one process and one thread,
an epoll loop in front of MySQL. Players build machines, upgrade them and
collect coin; the hall server in front of it multiplexes its players over one
connection. This directory holds TLA+ models of its core, the TLC
configurations that check them and proofs of their main properties that tlapm
checks. Paths below are relative to `src/`.

## 1. Inventory

| Component | State | Operations | What is hard about it | Model |
|---|---|---|---|---|
| Send ring, `GameLib/LoopBuffer` | buffer, read and write pointer | `Put`, `Get`, `Peek`, `Erase`, `Reset`, counts | full against empty, three ways to put, wrap in every read | `LoopBuffer` |
| Event loop, `GameLib/TcpServer`, `TcpHandler`, `SocketHandler` | descriptor table, epoll interest, count of turns, ring, `m_bfull` | accept, read, write, close, the turn of the timers | events of a batch that are stale when worked off, edges, a flag that is never reset | `EventLoop` |
| Hall connection, `Server/CentHandler`, `CentServer` | parser, ring, `m_bfull`, reconnect timer | connect, close, reconnect, parse, send | everything but the socket survives a broken connection | `HallLink` |
| Packet parser, `GameLib/PacketParser` | bytes so far, status, declared length | `ParseProxyPacket`, `reset` | packets cut anywhere, silence after an error | `PacketParser` |
| Packets, `GameLib/PacketBase.h`, `EncryptDecrypt` | body, position, check code, "is encrypted" | begin, write, end, encrypt in place, decrypt, read | one packet sent to many, fields that do not fit | `Packet` |
| Timers, `GameLib/timer.c`, `mtimer.c`, `TimerEvent` | wheels of slots, a pool of cells | start, stop, run | wheels behind the clock, a timer started or stopped from a callback, cells used again | `TimerWheel` |
| Proxied sessions, `Server/CentServer`, `PlayerMgr`, logon in `GameServer` | `m_proxyList`, map of players, `m_proxyId` | logon, logout, request, hall disconnect | one `CPlayer` shared by two logons and deleted by the first to close; whose proxy an answer goes to | `ProxySession` |
| Machines of a player, `Server/Player` | machines, collection records, wallet, two timers | `ProcessMechineRequire` every 10 s, `ProcessMechineWriteDB` every 300 s | races of timers and requests; memory against tables; two places that raise a level | `PlayerMachines` |
| Accounts and registration, `herosystem/RegistSystem`, `GameServer`, `DBOperator` | four tables that lead to an account | login by phone, name, Facebook; register; password; bind | statements that commit one by one and can fail; the same fact in two tables | `Accounts` |
| Friends, `GameServer`, `DBOperator` | `MemberShip` | accept, delete, list by pages | two rows per friendship, no key | `Friends` |
| Game requests, `Server/GameServer` | configuration tables, no state of its own | `Handle_*` per command | guards differ between handlers that look alike | in the above, partly |
| Database calls, `Server/DBOperator` | the MySQL tables | one method per statement | false when no row changes; a column written and another one read | in the above, partly |
| Messages, `GameServer`, `DBOperator` | `UserMessageTable` | send, ask for a friendship, set a state, delete, list by pages | the list is read anew for each page while others send and the reader deletes | `Messages` |
| Base, `GameServer`, `DBOperator` | `UserBaseTable`, wallet, width in memory | load at the logon, enlarge | an UPDATE whose values are shifted by one column; two statements per purchase | `Base` |
| Place of goods, resource machines | rows | requests | see section 6 | not modelled |
| Configuration, tasks, push, pools, logging, vendored code | | | not part of the game's logic | not modelled |

Interaction: the event loop reads bytes into a parser; a complete packet becomes
a request of the player whom the connection (or the proxy id of the hall
connection) stands for; the handler changes the `CPlayer`, calls the database and
puts an answer into the send ring, which the event loop drains. Timers call the
`CPlayer` from the same thread. So requests and timer callbacks interleave but
never overlap; what can come between two statements of a handler is only the
failure of a database call or the death of the process.

What makes each part correct: the ring loses, repeats and reorders no byte and
never overruns; a player's memory and his rows agree in everything that is not
marked as unsaved, what is marked gets written, levels do not fall, nothing is
had without being paid for, upgrades end; a session reaches its own player only,
and one that is still there; a connection that has bytes to send is watched for
writing; a packet is delivered once, whole, however the stream was cut; a timer
fires once after its time and never after it was stopped.

## 2. Modules

| Module | What it is |
|---|---|
| `ByteQueue` | abstract: a queue of bytes bounded by Size, with the answers a caller gets |
| `LoopBuffer`, `MCLoopBuffer` | the ring; `ImplementsByteQueue` is the refinement |
| `LoopBufferProof` | its type invariant, its bound and the refinement, proved |
| `EventLoop`, `MCEventLoop` | the loop and the connections of clients |
| `EventLoopProof` | its types and its three safety properties, proved |
| `PacketParser` | the parser, over bytes that know which packet they are from |
| `HallLink`, `MCHallLink` | extends `PacketParser`: one handler for one connection to the hall after the other |
| `HallLinkProof` | types, packets and messages whole, what waits is watched for, proved |
| `Packet`, `MCPacket` | writing, encrypting, sending, decrypting and reading a packet |
| `PacketProof` | its types, that what is written is read and what is altered refused, proved |
| `Alarms` | abstract: timers that ring once, not before their time and in order |
| `TimerWheel`, `MCTimerWheel` | the timers; `ImplementsAlarms` is the refinement |
| `TimerWheelProof` | its types, its two invariants and the refinement, proved |
| `ProxySession`, `MCProxySession` | the players of the hall connection |
| `ProxySessionProof` | its types and its three invariants, proved |
| `PlayerMachines`, `MCPlayerMachines` | one player: memory, tables, requests, timers, time, outages, crashes |
| `PlayerMachinesProof` | wallet, inductive invariant, types, levels, payment, rows of what is not marked, proved |
| `Accounts` | the four tables, the handlers that write them, failing statements |
| `Friends`, `MCMembers` | extends `Accounts`: friendships and the pages of the list |
| `Messages`, `MCMessages` | extends `Friends`: messages, and an app that reads them page after page |
| `Base`, `MCBase` | the rows of `UserBaseTable`, what the UPDATE does to them, and the wallet |
| `FriendsProof` | what is proved of `Accounts`, `Friends`, `Messages` and `Base`, the components whose state is rows |

How they fit together: a socket's bytes go through `PacketParser`, composed with
the connection in `HallLink`; what is sent goes through a ring, which `HallLink`
and `EventLoop` use as the queue that `LoopBuffer` is shown to implement; a
complete packet is a `Request` or a logon of `ProxySession`; a player it reaches is
one `PlayerMachines`; `Accounts` says which account a logon is for; every timer
above is one of `TimerWheel`, used through what `Alarms` promises.

A definition whose comment begins "A wrong ..." is no part of a model: it is a
plausible slip in the definition below it, with which TLC refutes one of the
properties. It shows that the property depends on the code being as it is.

### LoopBuffer

A pointer is its distance from `hptr_`; `tptr_` is `Size + 1`. Both pointers may
stand at `tptr_` and wrap only at their next use, as in the code. `Put` is split
as in the code: fits before the end, wraps, fits in the gap. A caller puts only
what `FreeCount` allows (`TcpHandler.cpp:126`) and erases any length, as
`handle_output` does with what `send` returned. `result` is what the last call
returned and copied out, so that the refinement speaks about the answers, too.

### PlayerMachines

`mech`, `instr`, `rec` and `wallet` are the members of `CPlayer`; `mechRow`,
`instrRow`, `recRow` and `account` are the rows. One action per handler
(`Buy`, `UpInstructor`, `UpMachine`, `SpeedInstructor`, `SpeedMachine`,
`ComforInstructor`, `ComforMachine`, `CollectSpeed`, `CollectCoin`), `Logon` and
`Logout`, one per timer (`Check`, `WriteDB`), and `Pass` for a second. Each action
has the code's order of calls: its disjuncts are the points where a call fails or
the process dies (`Trouble`), counted in `faults`. A failure before anything has
changed is a stutter and has no disjunct.

What the code really does is kept: an UPDATE writes `endtimer` and the loads read
`endtime` (`Updated`, `LoadedItem`); an UPDATE that changes no row is reported as a
failure (`Changes`); `isDirty` is cleared by the UPDATE and set again by
`ChangeUserMechine_By_Pid`; timer and confirmation both raise the level; the price
of speeding up is computed from `now - endtime`; a record that was just inserted
is read back as zeros and is not found again by its machine.

Abstractions: an end time is relative to now and stops at `-Late`, which is also
the stored 0; `Late > MoneyTime * MaxMoney` makes what has stopped there cost more
than anybody has. One price and duration per table instead of one per level. The
machine type in a request is that of the machine named. The player level asked for
by some handlers is met. The queries of a logon succeed. A call that is executed
and reported as failed (a lost answer) is not modelled. `WriteDB` may run at any
time while the player is online, not only every 300 s. An uninitialised record is
any element of `Garbage`; a status other than 0 and 2 is treated as 1, as the
code does. Records with the id 0, which no machine has, are left out. `MaxCoin`
and `MaxMoney` stop credits; integer overflow is not modelled. A second logon that
shares the `CPlayer` is in `ProxySession`.

### ProxySession

`m_proxyList` and `m_players` (the map of `PlayerMgr`) hold pointers; `heap` says
which `CPlayer` lives, or lived, at an address. One action per packet of the hall
that matters to sessions: the three logons (`HandleProxyLogin`), `HandleProxyLogout`,
everything else (`Request`, `SetProxyNone`), and the connection's `OnConnect` and
`OnDisconnect`. `ProcessClose` is `CGameServer::ProcessClose`: `OnLogout` takes the
user out of the map, then the `CPlayer` is deleted, whoever else points to it.

A freed cell keeps its contents until it is allocated again; using it yields what
is left there, which is one outcome of an undefined read, or `Crash`, which is
the other. The walk over a map that is erased from under the iterator
(`PlayerMgr.cpp:21`) is treated alike. `session` and `clean` are history: whom the
hall has logged on where, and whether it has ever logged a user on at two proxies,
or at proxy 0.

### HallLink and PacketParser

`PacketParser` takes what one `recv` returned and is stepped once per turn of the
loop in `ParseProxyPacket`. A byte knows its packet, that packet's length and its
place, so that a mixture of two packets can be told from a whole one: what such a
mixture declares as its length is any number, and whether its check code fits is
left open. `HallLink` adds the socket: `HandleRead` with as many `recv`s as it
takes, `HandleOutput` with as much as `send` takes, answers of handlers
(`Process`), what a player's timer sends (`PlayerTimer`), `Break`, `handle_close` and
`Reconnect`. What survives a connection survives it here: parser, ring and
`m_bfull`. What the hall makes of the units it receives is judged by an
automaton (`Hears`). `fresh` records how a connection began.

A `recv` of exactly 23 bytes that begin with `<p` is taken for a request of a Flash
player, also in the middle of a packet (`CentHandler.cpp:53`): `PolicyRequest` takes
these bytes out of the stream, sends `s_policystr` or not, and fails, so that the loop
closes the link. What packets hold is not modelled; any `PolicyLen` bytes may look so,
unless they begin in the length. `PacketsWhole` says that nothing else fails the
reading, and that what was delivered before is whole.

### EventLoop

`turn` is where the loop is: before `epoll_wait`, in the timers, or in the batch.
A batch is any sequence of one event per ready descriptor. An event carries the
`m_fd_index` of its handler, as `epoll_event.data` does, and `ForItsHandler` is the
comparison that keeps a stale one away from the next owner of the descriptor. The
listening socket is edge-triggered (`edge`, `pending`, `refused`). A handler is
watched either for reading or for writing. A close frees the descriptor at once.

### TimerWheel

`timer_jiffies` is the tick the wheels do next, `jiffies` up to where this call of
`run_stimer_list` goes. A cell is in the pool, in a slot, or on the work list.
`Turn` does one tick with its cascades; `Ring` calls one callback; what the
callback starts or stops follows as `StartTimer` and `StopTimer`, which may come
between any two rings. `m_bHaveStart` stays set after `StopTimer`, as in the code.
The wheels have `TVR_SIZE` and `TVN_SIZE` slots, and a slot of a coarser wheel is as
wide as a turn of the next finer one (`Width`). `deadline` of `Alarms` is the
`expires` of the cell that a timer owns (`Deadline`).

### Packet

A field is written block by block; a block that does not fit is dropped whole,
which for a string may happen after its length has been written. Encryption is
by two byte maps that are inverses, with a check code that makes the sum of the
plain bytes zero. The packet object is encrypted in place, once (`m_isCheckCode`).

### Accounts and Friends

A handler is a sequence of statements: `Cost(n, done)` is the number of failures or
crashes it takes that of n statements exactly those in `done` had their effect, so
that each handler is one action over every way it can be cut short. `Blind` is a
SELECT whose failure is taken for an empty result. A row is a record of the
columns that lead to an account; rows are never deleted by this server.

Environment: clients send their own name when they accept or delete a friend
(`RowsOf(regist, me) # {}`); deleting who is no friend changes nothing and is left
out. A registered name may also be the nickname of a phone account, which is not
checked anywhere: then `GetUSerGid` finds two rows and the registered user cannot
log on any more. That takes no failure. `StrayLoginsCostAFailure` is about every
registered user with his own password: he gets into the account that was made for
him; while a phone account has his nickname he gets into none, and never into the
phone's. Each user for whom it is otherwise has cost a failure, as when the writing of
his nickname fails and a phone takes the name.

The order of a friend list is that of its rows (`FriendRows`), by rank: the entry
with k - 1 entries before it is the k-th.

### Messages

`userMessage` and `lastId` are the table and its AUTO_INCREMENT, so that ids tell the
order of arrival; MySQL itself is not restarted. `MessageList` is the result of the
SELECT, which takes every state, sorted by `myfunction`. `ChangeMessageState` sets
the state of all that a user has from one sender, or deletes them when asked for
state 0, whether they have been listed or not. `AddFriendMessage` is refused for
friends; `SendMessage` is not. `reading` is external: an app asks for page one,
then for the next page until one is empty, and may start over at any time; it keeps
what it was shown, what was there at its first page, and how much was deleted since.
A failed SELECT ends the process, since the rows of a null result are counted.
An app never asks for a page below one, which the code would not refuse.

### Base

`UpdateUserBase` passes ten values for nine places. `Shifted` is what that does to a
row, and the condition of `Updated` is the new height where the user was meant.
`Checked` is `CheckUserBase` when nothing fails: for a user without a row it makes one in
two statements and then reads the result of its SELECT, which they have cleared
(`NoBase`). `Unchecked` are the ways it is cut short. `LoadBase` is the part of `OnLogon`
that ends an enlargement which is over; `BuyEnlarge` writes the base, then the
account, then the copy in memory. Abstractions: one currency, one price and one
duration; the level that a size asks for is met; `GetUnixTime` returns an element of
`Times`. A logon of a user who is online loads his data again, as in the code.

## 3. Runs

| Run | Shows | States |
|---|---|---|
| `ring` | `TypeOK`, `NeverOverfull`, `ImplementsByteQueue`, for a ring for three bytes over two symbols | all blocks up to four bytes |
| `machines` | the instructor and one machine with everything that can happen to it: `MachinesInv`, `CleanRowsSaved`, `LevelsNeverFall`, `UpgradesArePaid`, `DirtyWritten`, `UpgradeCompletes` | 161,590 |
| `sessions` | `RegisteredAlive`, `SessionsOwn`, `NoOrphan` | 50,804 |
| `hallLink` | `TypeOK`, `PacketsWhole`, `StreamToHall`, `WatchedForWriting`, `PacketsProcessed`, `Reconnects` | 177,099 |
| `eventLoop` | `KeptIsWatched`, `PendingHasEdge`, `ClosedForAReason`, `SilentAndOverfullEnd` | 82,256 |
| `timerWheel` | `NonePassed`, `CellsOwned`, `ImplementsAlarms` | 83,283 |
| `members` | `StrayLoginsCostAFailure`, `PasswordsAgree`, `AmbiguityCostsAFailure`, `FriendsMutual`, `PagesCover` | 196,542 |
| `messages` | `ShownInOrder`, `MissedAreCounted` | 742,539 |
| `base` | `MoneyIsTheAccount`, `RowsAreCounted`, `PaidIsWritten` | 17,655 |
| `packets` | `ReadsWhatWasWritten`, `CheckCodeTells` | 50,823 |
| `timerReachesUser`, `enlargementArrives` | each refutes a statement of the source, see section 5 | |

Every module has a type invariant. The runs check it for `LoopBuffer`, `HallLink`
and, within `MachinesInv`, `PlayerMachines`, where it bounds something (pointers,
what the parser keeps, levels); those of the other modules are proved for every
instance and have no run.

### Bounds

- `ring`: four cells: a block can be as long as the ring, shorter and longer, and
  both pointers reach every cell and the position past the last one.
- `machines`: one machine, two levels beyond which upgrades can still push it by
  one, an instructor of one level, times of one or two seconds with a check every
  two, so that ends fall on and between checks, and one outage or crash,
  anywhere. A machine touches no other machine; the proofs are for any set of
  them. Coin and money are just enough to afford each request and to be refused;
  collections bring in more, so that a player can ask for upgrades for ever.
- `sessions`: two users, the proxy ids 0, which is none, 1 and 2, three addresses:
  a dangling pointer, its cell used again, and a third player. Symmetric in users
  and addresses. The proofs are for any numbers.
- `hallLink`: a header of three bytes, two of them the length; packets of three
  and four bytes, received at most three at a time, so that a packet may end
  within, at and after a `recv`; messages of two units and a ring for three, so
  that one can be half sent and the next not fit; two packets per connection and
  one break. A policy request is two units long, less than a packet, so that it can
  be taken out of the middle of one, at its end and across two. With two breaks the
  third connection begins as the second did.
- `eventLoop`: three connections for two descriptors: one waits while both are
  taken, and a descriptor is used again while an event of its last owner is still
  in the batch. A ring of one unit: one answer is kept, two do not fit. Timers in
  every second busy turn (the code: tenth).
- `timerWheel`: two timers, two cells, three wheels of two slots (the code: five of
  256 and 64), delays to eight and a clock to twelve: the coarsest wheel turns one
  and a half times, its slots are shared by cells of different turns.
- `members`: two names, two passwords, one phone, one Facebook id, three accounts,
  two failures: two rows that contradict each other, each in its own way, and a
  failure left to break what was repaired. Pages of two entries.
- `messages`: two users, one of whom reads and deletes, three messages on pages of
  two: a message can move from the second page to the first, unseen, and one that
  arrives can make a page longer that was asked for already; one failure, which may
  add a second row of a friendship or end the process between two pages.
- `base`: users 1 and 9, with 9 the height that belongs to width 8, so that the
  UPDATE does reach a row, that of 9, and rows of nobody; money for three purchases,
  two failures. The shifted values reach every column that is read again: status 1,
  and an end that is over, occur.
- `packets`: bytes of two bits, two of them to an integer, four fields in nine
  bytes: a field fits, fits but for its last part, or does not fit at all.

Deadlock is checked except where a bound of the model ends a run: `hallLink`
(packets and breaks), `timerWheel` (the clock), `members` and
`messages` (accounts, messages and failures).

### Fairness

Assumed only for liveness:

- `PlayerMachines`: `Pass`, because the clock runs; `Check` and `WriteDB`, because both
  timers are started at the logon, start themselves again (`Player.cpp:150-169`)
  and the event loop runs what is due. Nothing is assumed of requests, logons or
  logouts: a player may stay silent or never stop asking. `UpgradeCompletes` therefore
  has an alternative: each request for the next level of the instructor puts the end
  of his upgrade off (`GameServer.cpp:1750`) and coin from collections pays for it, so
  a player can put it off for ever, and the run contains such behaviours. Whoever
  stops asking gets it. `DirtyWritten` holds because an UPDATE clears
  `isDirty` before it looks at the number of rows.
- `HallLink`: the loop goes on, so a step of the parser, a hangup, a close of an
  overfull handler and a reconnection do not wait for ever (weak). Reading and
  draining the ring are strong: timers of players may put in messages between any
  two events, but they are seconds apart and cannot keep a readable socket from
  being read, nor fill the ring as fast as a hall that reads empties it.
- `EventLoop`: the loop runs for ever; time passes; now and then `epoll_wait` reports
  every descriptor that is ready, because clients read what is sent to them in
  the end. Nothing is assumed of what clients send, or that a turn is ever idle:
  `SilentAndOverfullEnd` holds in a loop that is never without an event.

## 4. Proofs

Checked by tlapm for every value of the constants that meets the named
assumptions. No bound of the runs is used.

- `LoopBufferProof`: `PointersStayInside` (`Spec => []TypeOK`),
  `RingNeverOverfull`, and `RingIsByteQueue`: with the cells between the pointers,
  read round the end, as the queue, every call of the ring is the call of
  `ByteQueue` with the same answer. `TypeOK` is inductive; one step per call and
  way to put, each on lemmas about the contents as a sequence.
- `EventLoopProof`: `LoopTypes`, `WhatIsKeptIsWatched`, `EdgesAreNotLost` and
  `NobodyIsClosedForAnother`. The invariant (`LoopInv`) adds to the types
  that connections are numbered in the order they were accepted and nothing there or
  in the batch has a number above `m_fd_index` (`Numbered`), which is what makes
  `ForItsHandler` tell a stale event from one for the next owner of the descriptor;
  that a hangup still in the batch for a handler that is there speaks of a client
  that has gone (`HangupsMeanGone`); and that the timer of a connection runs until
  its first message only (`TimerUntilHeard`).
- `HallLinkProof`: for any packets, messages, ring and reads, `LinkTypesHold`,
  `PacketsArriveWhole`, `TheHallHearsMessages` and `WhatWaitsIsWatchedFor`. The
  first rests on what status and declared length say about the bytes so far
  (`LinkInv`); the second on the bytes so far, what is still in `data` and what is
  on the wire being one unbroken stretch (`Whole`), as long as the parser began the
  connection empty and no piece of it was taken for a policy request, after which
  only what was delivered before still counts (`Given`); the third on the ring
  holding whole messages, the first of them perhaps begun, which the hall is ready
  to hear (`Messages`), unit after unit by an induction on how many are sent.
- `TimerWheelProof`: for wheels of any sizes and any cells, timers and delays,
  `WheelTypes`, `NoneIsPassed`, `CellsHaveOwners` and `WheelsImplementAlarms`. The
  inductive invariant says where a cell may lie (`InPlace`): in the finest wheel,
  where the hand comes by at its expiry and within this turn; in a coarser one,
  where the slot is moved down no later than that. `WidthDivides` is the lemma on
  cascades: a coarser hand moves just when the finer one has come round.
- `PacketProof`: for any base, byte maps of which one undoes the other, room and
  fields (the length of a string is a number that an int can hold and not the -1
  of a failed read), `PacketTypes`, `WhatIsWrittenIsRead` and `AlteredIsRefused`. The
  invariant: the packet is encrypted just when it says so and its check code then
  belongs to it (`Sealed`), and there are places at which the fields before the
  first that did not fit lie one after the other in the plain body, the receiver
  standing where the next one begins (`LaidOut`). `SumsDiffer` is an induction along
  the bytes; that `MapRecv` confuses no two bytes is by counting, since it reaches
  every byte.
- `PlayerMachinesProof` (prices and the check period positive, at least one level
  in each table, bounds that contain the start, `None` unlike every record):
  `WalletCoherent`, a part of `MachinesInv`, is inductive by itself. The others need all
  of `MachinesInv`: an upgrade
  under way leaves room for the level the timer adds and one more for the
  confirmation (`RoomToRise`, without which the levels have no bound); an upgrade
  in memory is in its row (`UpgradeInRow`, without which a late write would start
  one that nobody paid for in that step); no row is ahead of the memory
  (`RowsBehind`, without which a late write could lower a level); nothing is in
  memory offline (`OfflineEmpty`). One lemma per action; `Check`, whose effect
  depends on which calls fail, is first reduced to lemmas on `Advanced`,
  `RowAdvanced` and the collection operators. From the invariant follow `TypeOK`,
  `LevelsNeverFall` and `UpgradesArePaid`; `CleanRowsSaved` is then shown for every
  action on top of it.
- `ProxySessionProof`: for any users, proxy ids and addresses, `SessionTypes`,
  `RegisteredPlayersLive`, `SessionsAreOwn` and `NoCPlayerIsOrphan`. The inductive
  invariant joins the types; that there is no entry for proxy 0; that who is
  registered is alive, at an address of his own (true whatever the hall does,
  because a `CPlayer` is deleted only after its user has left the map); and, while
  the hall has behaved (`clean`), the one-to-one correspondence of sessions,
  entries and living players, from which the last two follow.
- `FriendsProof`, for any names, accounts and number of failures: `FriendsTypes`,
  `LoginsLeadHome`, `FriendsAreMutual`, `PasswordsStayTogether` and
  `OneRowUnlessBlind`. The last four count what is wrong: for each kind there is a set
  (the names that are not straight, the pairs of whom one is more of a friend than the
  other, the names whose two passwords differ, the keys with two rows) that is finite
  and not larger than the number of failures, because an action adds one element at
  most, and none when every statement of it succeeds. A name is straight (`Straight`)
  when it has one registration at most, whose account has the nickname, and every
  other account with that nickname is a phone's; with `Homes`, that these accounts are
  there and no phone shares one with a registration, the login of a straight name
  lands where it should (`StraightLogins`).
- `FriendsProof`, lists, for any users and pages of any size: `PagesCoverAnyList`: a
  list of any length cut into pages of any size. `EveryFriendIsSeen` (`PagesCover`)
  adds that the list is the rows: these are finitely many, as long as rows are added
  one by one, ranks in a finite order without ties are one-to-one and leave no
  number out, and the pages joined are the list, by an induction on how many are
  joined.
- `FriendsProof`, messages, for any names, readers, flags and number of messages:
  `MessagesTypes`, `MessagesInOrder` and `FewAreMissed`. The invariant of a reading
  (`ReadInv`): what is listed behind the pages asked for is newer than everything
  shown, because arrivals go to the end and deletions only move entries forward; and
  of what was there at the first page and still is but was not shown, no more than
  `removed` lies before the place that comes next. `MoveUp` counts that a
  deletion of n messages moves an entry by n places at most.
- `FriendsProof`, base, for any users, sizes, heights, prices and times: `BaseTypes`,
  `MoneyAgrees`, `RowsTakeFailures` and `NobodyPaysForNothing`. No action does more to
  the table than append one row and then update rows (`BaseSteps`), so that rows are
  only counted up (`BaseInv`), whatever values the columns hold by then.

Only model-checked:

- the liveness properties `UpgradeCompletes`, `DirtyWritten`, `PacketsProcessed`,
  `Reconnects` and `SilentAndOverfullEnd`, which are beyond this prover: it has no
  rules for fairness and ENABLED;
- the runs of section 5, which refute.

## 5. Where the code differs from what it says

Refuted by a run:

| Run | The source says | What happens |
|---|---|---|
| `timerReachesUser` | `Player.cpp:179` "complete the upgrade, send on our own account" | what a timer sends carries the proxy id of the last packet handled |
| `enlargementArrives` | `GameServer.cpp:2116` "user buy enlarge success enlarging" | the UPDATE (`DBOperator.cpp:1039`) has ten values for nine places: each goes to the next column, and the row changed is that of the user whose number is the new height; the buyer pays whenever any row changes, and has no base that is enlarging |

Read in the source while modelling, and kept in the models where they cover it:

| Comment | What happens |
|---|---|
| `GameServer.cpp:1802` "update it in the database" | the end time of an upgrade is written to a column nobody reads; after a logon the next check ends the upgrade |
| `CentServer.cpp:262` "CentServer OnDisConnect , reconnect in 3s" | ring and `m_bfull` of the old connection are kept; the registration comes behind half a message, or does not fit and is dropped while the link stays up |
| `DBOperator.cpp:786` "have a record now" | the result that is read next was cleared by INSERT and UPDATE: a new user's base is 0 wide until his next logon |
| `DBOperator.cpp:1844` "get the unread messages only" | messages in every state are listed; `MissedAreCounted` is about the unread ones and leaves open whether others belong there |
| `Player.cpp:39` "update the data at exit" | only the timers are stopped, unsaved changes are lost |
| `GameServer.cpp:1798` "raise only on completion" | timer and confirmation raise the level, each |
| `GameServer.cpp:1884` "stop collecting" | collecting coin starts it again |
| `GameServer.cpp:1513` "take the money" | before the end of an upgrade the price is negative; the status request (`:1685`) shows 0 instead |
| `GameServer.cpp:1836` "may not exceed the instructor's level" | a machine of the same level is upgraded past it |
| `Player.cpp:231, 262` "under construction ... finished" | the status kept in memory is not the one the timer looks for |
| `Player.cpp:374` "2 - can be collected" | coin is credited in every status |
| `GameServer.cpp:1027` "put into the store" | only the row changes; the next UPDATE of the machine writes its old place back |
| `DBOperator.cpp:1647` and others | a result is used before it is tested for null |

## 6. Not modelled

Two thirds of the repository are vendored (jsoncpp, tinyxml, MySQL headers) or are
wrappers, containers and logging without state of the game; the share of lines
that the models stand for is accordingly small.

- Resource machines: their UPDATEs (`DBOperator.cpp:969, 1013`) have a comma before
  WHERE and always fail, so production never starts and the later states cannot
  be reached; the INSERT of a record (`:695`) leaves out its owner. A model would
  have no behaviour to check.
- The place of goods (turn, move, store) and selling: rows that nothing else
  depends on; selling asks for columns under another spelling than the loads do
  and is refused. The place is in the hazards.
- Messages: a page index below one, which reads before the first message
  (`GameServer.cpp:705`); messages of the system, which are only read; the push
  notification that goes with a message.
- `Handle_User_ChangeMail` has the shape of `ChangePassWord`;
  `Handle_User_Change_Header_Type` is one UPDATE of every account of a nickname;
  `FindPassWord` only reads and sends mail.
- Handlers that only read tables or configuration and answer; `CalcLevel`
  (`Player.cpp:102`), `slowtimer.c`, `stimer_mod`, `mem_pool`, `CAsyncTask`, `CFightTask`,
  `CMessageSystem` and most of `LuckySystem`, `StoreSystem` and `RankingSystem`, which
  nothing calls; the monitor connection, whose start is commented out; the Windows
  loop, which is not built.
- Configuration loading, asynchronous tasks (mail), push notifications, wrappers of
  MySQL, Redis and sockets, logging, containers, vendored code.

## 7. What could follow

1. `Place`: where a machine stands, in memory and in its row, with the write-back
   of `WriteDB`.
2. The request for a friendship (`AddFriendMessage`) and its acceptance, between which
   the code has no link.

A new module would come with its theorems: every safety property that a passing run
checks has one now.
