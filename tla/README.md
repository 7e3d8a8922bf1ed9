# A TLA+ model of stmsrvemu's connection managers

stmsrvemu emulates the servers Steam had between 2002 and 2011. This directory holds TLA+
modules for the parts of it where the concurrency is: the *connection manager* (CM) that every
Steam3 client keeps a session with, from the datagram that arrives to the chat room or the
purchase it changes, and the game server list of the *master server* beside it. TLC checks the modules on small instances; TLAPS
proves the most important properties for every value of the constants.

Paths below are relative to `src/emulator/`; `PROJECT.json` maps each definition to its lines.

## 1. The system

### Inventory

| Component | State | Operations | Hard because |
|---|---|---|---|
| UDP receive path (`steam3/cmserver_udp.py`, `utilities/networkhandler.py`, `ClientManager/client.py`) | per `Client`: connection id, `last_recvd_sequence`, `pending_encryption_request`, session key; per server: `connectionid_count` | challenge, Connect, Data, ChannelEncryptResponse, Datagram, Disconnect | every datagram is run by some thread of a shared pool; the network loses, repeats, reorders; ports are reused |
| UDP send path (`cmserver_udp.py:sendReply`) | `sequence_number`, `send_lock`, `sequence_lock` | replies, lists of replies, splitting, handshake answers | lists reenter the lock, single replies leave it before the packets go out, handshake answers take no lock |
| Client registry (`ClientManager/manager.py`) | `clients_by_ip_port`, `clientsByAccountID`, `clients_by_connid` | add or update, update list, remove, look-ups, sweep for stale clients | three dictionaries for one truth; servers share it; clients reconnect, log in again, fall silent |
| Job contexts (`JobManager/client_job_registry.py`, `job_context.py`, `cm_packet_utils.py`, `cmserver_base.py`) | active context, bounded stack, contexts by job id; thread-local header; flags on the `Client` | request, reply, complete, fail, clear | "active" means the last request received, and several workers serve one client |
| Split packets (`networkhandler.py`) | `packet_buffer` | append, complete, join | a dictionary shared by the pool without a lock |
| Chat rooms (`ChatroomManager/manager.py`, `Handlers/chat.py`) | rooms: members, bans, pending invitations, owner, flags; manager: rooms, `offline_invites` | create, join, invite, kick, ban, lock, transfer, close, send, login, disconnect | room lock, manager lock and an unlocked dictionary; account IDs and Steam IDs side by side |
| Challenge handshake (`messages/SNetMsgBase.py`) | current and previous challenge | hand out, validate, rotate | rotation without a lock |
| Asynchronous jobs (`JobManager/jobmgr.py`, `job.py`, `server_job.py`) | waiting jobs and their deadlines | start, wait, route, time out | answer against timeout |
| Lobbies, P2P sessions | rooms with metadata; sessions between two clients | create, join, relay, end | built on chat rooms and the registry |
| Purchases and licences (`Handlers/purchase.py`, `utilities/database/purchase_db.py`, `cmdb.py`) | transaction and licence rows; the database session of each thread | start, complete, cancel, acknowledge, activate a key, list | the session of a thread outlives its requests, and what it reads is as old as its transaction; test and update in separate calls |
| Master server list (`servers/masterserver.py`, `managers/masterlistmanager.py`) | list of entries with time stamps, index by address | heartbeat, shutdown, query; clean-up once a minute | the list is replaced under a lock, but extended and indexed without it |
| Friends, clans, guest passes | database rows | one request, a few calls | test and update in separate calls |
| Statistics, items, news, cloud files, app info | files, rows, who was told what | request and answer | uploads in progress; keys that collide |
| Directory and content server lists (`servers/managers/`) | lists with indexes and time stamps | register, query, expire | a clean-up thread against the handlers |
| Auth, content, tracker, configuration and other Steam2 servers | sockets, files, blobs | request and answer | little shared state |
| Start-up, configuration, administration, web | threads, settings | — | orchestration |

### How they interact

One thread per socket reads datagrams (`UDPNetworkHandlerCM.run`) and submits each to a thread
pool. A worker puts split packets together, then runs `CMServerUDP.handle_client`: handshake
packets create or change a `Client` and the registry; data packets pass the sequence window
(`update_client_sequence`) and reach `handle_CMPacket`, which files a job context, identifies
the client in the registry and runs one handler. The handler answers through `sendReply`
(directly, or by returning packets), may push messages to *other* clients through the registry,
and may change rooms, lobbies or the database, through a session that belongs to the thread
and not to the request. TCP servers have a thread per connection and share
everything above `handle_CMPacket`. Heartbeats, once a minute, sweep the registry for clients
that fell silent. The master server has a pool of its own and shares nothing with the CMs but code.

### What makes each part correct

* Receive path: a packet is handed on at most once per connection; acknowledgements never run
  ahead of the client; the key exchange is started.
* Send path: numbers are unique and without gaps, a split message has consecutive ones, lists
  are not interleaved, the lock is always given back.
* Registry: the three dictionaries agree; an account has one client; who falls silent is
  removed, who does not stays.
* Jobs: a reply carries the job id of its request; contexts are released.
* Split packets: a message is handled once, whole, in order, and not left behind.
* Purchases: a completed transaction has its licence and no licence comes without one; a refusal
  is true; nobody settles a transaction twice.
* Master server list: what is silent goes, within the limit and under each of its addresses; what
  is not, stays; an address is not listed over and over.
* Chat rooms: nobody gets past a ban; an invitation admits once; owner's permissions are the
  owner's; who is invited learns of it; who disconnects leaves.

## 2. The modules

| Module | Models | State and actions |
|---|---|---|
| `SequenceFilter` | what the receive path promises about sequence numbers | `highest`, `accepted`, `delivered`; `Open`, `Accept`, `Dispatch` |
| `CMConnection` | `handle_client` in the pool's workers, for one remote endpoint | `Client` fields, `pc` of each worker, the network `net`; one action per step between which another thread can be scheduled. Implements `SequenceFilter` under the mapping `Filter == INSTANCE SequenceFilter WITH highest <- recvd, accepted <- accepted, delivered <- dispatched` |
| `CMSend` | `sendReply`, `_send_packets_sync` | counter, reentrant lock, the wire; lists, splits, exceptions, reconnects, handshake answers |
| `ClientSessions` | what the registry promises: one set of sessions, of which each address and each account has one, and that end for three reasons | `connections`, `sessions`, `heard`; `Connect`, `Login`, `Heartbeat`, `FallSilent`, `Expire` |
| `ClientManager` | the registry and the handlers that change it | the three dictionaries, Client fields, one action per call of the manager. Implements `ClientSessions`, over UDP and one handler at a time: the sessions are the Clients filed under an address, logged in when they are filed under their account (`CurrentSessions`) |
| `JobRegistry` | requests in workers, contexts, the choice of `targetJobID` | per client registry, per worker thread-local header, replies |
| `MessageDelivery` | what the pool promises about split messages: whole, at most once, in order from a sender that waits | `sent`, `delivered`; `SendMessage`, `Deliver` |
| `SplitReassembly` | `handle_split_packet` | `packet_buffer`, statement by statement. Implements `MessageDelivery`: a message is sent with its last packet and delivered when it is handed to `handle_client` (`Delivery`) |
| `Chatroom` | rooms, invitations, logins, disconnects | per room state under its lock, `offline_invites` statement by statement |
| `PurchaseTransactions` | the purchases of one account in the workers, and the database under them | committed rows `db`, the view `snap` that each thread's session reads, program counters; a request is a query, a decision and a commit, in that many steps |
| `MasterServerList` | heartbeats, shutdowns and the clean-up thread | `servers`, `index`, `lock`, the entries with their `age`; a step for each place where another thread can come in |
| `MC…` | TLC instances | constants and symmetry |
| `…Proofs` | theorems of every module but the three abstract ones | |

What the modules have in common:

* A handler is a worker (or thread) with a program counter. A method that holds a lock from
  start to end is one step; where the code reads something and uses it later without a lock,
  there are two.
* Data is abstract: a packet is its kind, number and origin; a reply is the number of packets it
  takes; a user stands for his Steam ID and account ID, except where the code confuses the two.
* A *faulty variant* of an action stands before it: a plausible bug in the code it models. Each
  property of a passing run is shown to fail when the action is replaced by one.

What each leaves out on purpose:

* `CMConnection`: encryption is which key is installed, not what is encrypted with it. Challenges are
  a module of their own (planned). UDP Disconnect is in `ClientManager`.
* `CMSend`: packets are on the wire once they are handed to the socket.
* `ClientManager`: the manager's queue of status updates, which nothing fills; database errors.
* `JobRegistry`: `cleanup_expired`, which nothing calls.
* `SplitReassembly`: repeated packets; two clients behind one IP address.
* `PurchaseTransactions`: one account; prices, payment and the guest passes that go with a licence;
  the date that an acknowledgement sets. The database is MariaDB's InnoDB as it was up to 11.6.1 by
  default: a write goes to the committed row also when the view is older.
* `MasterServerList`: challenges (any heartbeat may also be one that is refused, that is not sent), the old
  `packet_heartbeat`, queries.
* `Chatroom`: messages, voice, muting (no caller), moderation flags, lobbies, clan rooms and the
  chat action `inviteChat`. `send_pending_invites_to_user` is one step once it has taken the list.

## 3. What the runs check

Passing runs:

| Run | Instance | Shows |
|---|---|---|
| `sequences` | 2 workers, 2 Clients, numbers to 3, tolerance 1, one attempt whose Connect may be repeated | `AtMostOnce`, `AcknowledgesOnlySent`, the refinement `ImplementsFilter`, and `EncryptRequestIsSent` under fairness |
| `sending` | 2 threads, 3 calls, 2 Clients, one of them in the handshake; lists of single, empty and split replies | `NumbersAreUnique`, `NoNumberIsLost`, `ListsDoNotInterleave`, `SplitIsContiguous`, and `EveryCallEnds` under fairness |
| `registry` | 1 thread, a UDP and a TCP address, 3 Clients, 2 accounts | `AccountsReachable`, `OnlyConnectionsAreCounted`, `EveryConnectionIsCounted` |
| `silent_users` | 1 thread, 2 UDP addresses, 3 Clients, 2 accounts | `OneClientPerAccount`, `SweepSparesTheLiving`, the refinement `ImplementsSessions`, and `SilentUsersAreRemoved` under fairness |
| `contexts` | 3 workers, 3 requests, a client with several requests at once and one that waits; a stack of 1 | `ContextsHaveOnePlace`, `RegistryDrains`, `RepliesReachTheirJob` |
| `reassembly` | 3 workers, 2 senders of 2 messages of 2 packets | the refinement `ImplementsDelivery` (which has `HandledOnce` and `AssembledInOrder` in it), `MessagesAreWhole`; for the sender whose packets come one at a time `NothingIsStuck` |
| `chatrooms` | 3 users, 2 workers, one room for two members, one login and one invitation at a time | `BannedStayOut`, `InvitationsAreSpent`, `OwnersPermissions`, `InvitesAreTold` |
| `purchases` | 2 workers, 2 transactions for one subscription, one of them a gift; broken connections, errors in every write, key activations | `OneOutcomePerWorker`, `CompletedIsGranted`, `RefusalsAreTrue` |
| `master_list` | 2 workers and the clean-up thread, one address, 3 entries in use at once | `StaleEntriesGo`, `DuplicatesAreBounded`, and `SilentServersExpire` under fairness |

All but `silent_users` have `TypeOK` (that run has the module of `registry`). Deadlock is checked in
`master_list`, where time can always pass. It is not in the others: they are bounded and stop when
their bounds are used up, and a server without clients may stop too.

Why the bounds are enough:

* Two workers give every race between a test and its use; three are needed only where a third
  can come between two others (contexts on a stack, a list created twice).
* `Tolerance = 1` and `MaxSeq = 3` give a number in order, one ahead within the tolerance, one
  too far ahead, and one overtaken. A repeated Connect gives a second Client that meets the first
  one's packets; several attempts are covered by the theorems.
* A stack of 1 makes `_context_stack` (10 in the code) overflow with three requests.
* Two transactions for one subscription give an account that buys what it is about to have; a
  third adds no step that the two do not have. With two workers one's view is older than what the
  other commits.
* One address is where heartbeats race: duplicates, an index cleared between test and use, a list
  replaced under an append. `Limit = 1` stands for the 15 minutes: an entry is new, old enough to be kept, or too old.
  Three entries are one per worker and one that the clean-up thread is about to drop; four give the
  same results in more time.
* A room of two members with three users is full, and has somebody left to invite, kick or ban.
* `Tolerance`, `StackLength`, `MaxMembers` are parameters of the program made small;
  `MaxConn`, `MaxAttempt`, `MaxSeq`, `MaxClient`, `MaxCall`, `MaxRequest`, `MaxMessage`, `MaxRoom`,
  `MaxLogin`, `MaxInvite`, `MaxLicence`, `MaxEntry` and the set `Transaction` bound what is unbounded in it.

Restrictions that matter, and are not only bounds:

* `registry`, `silent_users`: one thread, so one handler at a time. With two, a sweep can take a
  client that reconnected in between, and a login can leave two clients of one account.
  `silent_users` has no TCP connection: a displaced client that is still connected over TCP may log off, and
  `remove_client` then takes its successor's account entry, with one thread too. The next login to the
  account does not find whom to displace, and a sweep may take it for the one that fell silent. `EveryConnectionIsCounted` holds for
  all threads (theorem `ConnectionsAreCounted`).
* `HeaderNames = FALSE`: a first request does not carry an account ID yet. Otherwise
  `update_list` files the connection under the account before the login displaces the old one.
* `Relogin = FALSE`: a connection logs in to one account. Otherwise it stays filed under both.
* `MaxLogin = 1`: with two logins within one invitation, both lists the handler was about to append
  to can be taken and the invitation is lost. `InvitesAreTold` says so (`logins[u] = 1`).
* `NothingIsStuck`, and that messages and their parts come in order (`ImplementsDelivery`), are claimed of
  paced senders. The others lose and mix
  up packets as in section 6.

Runs in which TLC finds a claim of the repository violated (the findings):

| Run | The claim | What happens |
|---|---|---|
| `wire_order` | "packets are sent in the exact order their sequence numbers were assigned" (`cmserver_udp.py:727`) | single replies go out after `send_lock` was given back |
| `stale_ownership` | `owns_subscription` "queries the database directly to get the current ownership state" (`ClientManager/client.py:726`) | the thread's session is in a transaction that an earlier request opened, and reads the licences as of then; the purchase goes on for what the account has |
| `lan_entries` | a heartbeat is there to "update or create a server instance" (`masterserver.py:120`) | for a game server on the emulator's network the second half of the handler refreshes the entry of the first half; the entry under the local address grows old and is dropped while the server goes on sending |

## 4. Fairness

* `CMConnection!FairSpec`: a worker runs its handler to the end (`HandlerStep`, weak); datagrams of
  the remote client are submitted to a first-in first-out queue and so come to a worker if it
  keeps sending them (`ReceiveTraffic`, strong, since a worker may be busy in between); a client that has heard its
  Accept keeps sending heartbeats (`SendDatagram`, weak), which is what the handshake relies on.
* `CMSend!FairSpec`: a thread runs its handler to the end, nothing about who gets a contended
  lock. The calls are bounded, so nobody is starved.
* `ClientManager!FairSpec`: handlers run to their end; one client (`Steady`) keeps sending heartbeats
  and every so often one of them is the first in a minute, which starts the sweep. Nothing
  else in the code starts one.
* `MasterServerList!FairSpec`: handlers run to their end, the clean-up thread, when it has slept its
  minute, gets the lock, and time passes (all weak: a silent server's entries are what is left when
  heartbeats no longer keep the lock busy). Nothing is assumed of the game servers.

## 5. What is proved

For any number of workers, users, connections, packets and rooms, from the `…Assumption` each module
names (bounds are natural numbers; constants that stand for "none" are not members of the
sets; there is a client; a split message has at least two packets and a stack of contexts room for one;
the master server's pool has finitely many workers):

| Module | Theorem | Property |
|---|---|---|
| `CMConnectionProofs` | `TypeCorrect`, `DispatchedAtMostOnce`, `OnlySentIsAcknowledged`, `RefinesFilter` | `TypeOK`, `AtMostOnce`, `AcknowledgesOnlySent`, `ImplementsFilter` |
| `CMSendProofs` | `TypeCorrect`, `UniqueNumbers`, `NoGaps`, `ListsStayTogether`, `SplitsStayTogether` | `TypeOK`, `NumbersAreUnique`, `NoNumberIsLost`, `ListsDoNotInterleave`, `SplitIsContiguous` |
| `ClientManagerProofs` | `TypeCorrect`, `ConnectionsAreCounted` | `TypeOK`, and with one server `EveryConnectionIsCounted` |
| | `AccountsLeadToClients`, `TheDeadAreNotCounted`, `AccountsAreExclusive`, `TheLivingAreSpared`, `RegistryKeepsSessions` | for handlers that run one at a time `AccountsReachable`, `OnlyConnectionsAreCounted`; over UDP also `OneClientPerAccount`, `SweepSparesTheLiving`, `ImplementsSessions` |
| `JobRegistryProofs` | `TypeCorrect`, `ContextsPlaced`, `RegistriesDrain`, `RepliesRouted` | `TypeOK`, `ContextsHaveOnePlace`, `RegistryDrains`, `RepliesReachTheirJob` |
| `SplitReassemblyProofs` | `TypeCorrect`, `EachHandledOnce`, `OnlyWholeMessages`, `PacedInOrder`, `PacedNotStuck`, `PoolDelivers` | `TypeOK`, `HandledOnce`, `MessagesAreWhole`, `AssembledInOrder`, `NothingIsStuck`, `ImplementsDelivery` |
| `ChatroomProofs` | `TypeCorrect`, `BannedAreOut`, `InvitationsSpent`, `OwnersAlone`, `InvitationsArrive` | `TypeOK`, `BannedStayOut`, `InvitationsAreSpent`, `OwnersPermissions`, `InvitesAreTold` |
| `PurchaseTransactionsProofs` | `TypeCorrect`, `DecidedOncePerWorker`, `CompletionGrants`, `RefusalsAreRight`, `ViewsAreOldOnly` | `TypeOK`, `OneOutcomePerWorker`, `CompletedIsGranted`, `RefusalsAreTrue`; the last is about views themselves |
| `MasterServerListProofs` | `TypeCorrect`, `CleanUpsLeaveNoStale`, `DuplicatesBounded` | `TypeOK`, `StaleEntriesGo`, `DuplicatesAreBounded` |

The inductive invariants:

* `CMConnection`. At-most-once is not inductive: that two workers do not hold the same number
  follows from where the numbers come from. `IInv` adds what a worker in the middle of a
  handler holds (`WorkerHolds`: a Client that exists, a packet of the right kind), that a Client with a
  number was opened (`Opened`), that no accepted number is above the last received and only accepted ones were
  dispatched (`Filtered`), that what is about to be dispatched was accepted (`Held`) and is held by one worker
  and not dispatched yet (`HeldOnce`). `update_client_sequence` accepts only numbers above all
  accepted ones, which is the step that matters. `AtMostOnce` itself, that the
  sequence of numbers dispatched repeats none, is then kept because only `Dispatch` extends it. The refinement maps every step of `CMConnection` to
  one of `SequenceFilter` or a stutter under `IInv`. For the acknowledgements every packet in the
  network and in a worker's hands was sent by some attempt (`FromNetwork`).
* `CMSend`. What is true of numbers is stated of packets *in flight*, numbered and waiting in a
  thread or sent: their numbers are those handed out and no more (`HandedOut`), none is
  missing (`NoneMissing`) and no two are the same (`Apart`). Numbering takes a number above all of them, and
  sending moves a packet from one place to the other. Whoever is inside `with send_lock` is registered as its
  holder (`Mutex`), so two are not at one Client; what a thread with a list has on the wire
  belongs to its call (`Calls`, `Own`). While a message is being split, the numbers it has taken are `first` up
  to the counter (`Chunked`) and all other messages end before (`Older`); otherwise all end with the
  counter (`Ended`). Handshake answers, which take numbers without the lock, are why this is said only of
  Clients outside `Shaking`.
* `ClientManager`. `EveryConnectionIsCounted` needs that a registered Client is filed at its own
  address (`AtOwnAddress`), that the only server numbers its Clients without repetition (`Numbered`), and
  what a thread in the middle of a handler holds (`HandlerHolds`, `Placed`). The assumption of one server
  is needed: with two the property fails (section 6).
* The other five theorems about `ClientManager` assume `OneAtATime`: one thread, one server, `HeaderNames` and
  `Relogin` false, the restrictions of section 3. `remove_client` deletes whatever is filed under the keys of a
  Client, so what matters is that nobody else is at the address of a Client that a handler has in hand, or that
  has an open TCP connection (`Undisturbed`, `Alone`); it may no longer be registered itself. An entry that is not
  deleted then still leads to a registered Client (`Keeps`, `RemoveKeeps`, `AddKeeps`). A Client has an account
  only once it has logged in (`Names`), and what a handler relies on holds at each of its steps (`Handling`). One
  Client per account needs that who is logged in and registered is filed under its account
  (`Filed`), which the logoff of a displaced TCP client breaks, so the last theorems assume `TcpAddr = {}`;
  for the sweep nobody takes the account of a Client it has yet to visit (`Swept`).
  The refinement of `ClientSessions` under the same assumptions needs that who is about to log in is registered
  (`Present`). Only a Connect, the last step of a login, the removal by account and a heartbeat change the
  sessions; for the first three, the addresses whose sessions the call replaces are named, and the others
  are shown to be as they were (`Replaced`). Over TCP it does not hold: the logoff of a displaced client takes
  its successor's account entry (section 3), which `ClientSessions` has no step for.
* `JobRegistry`. `complete_context` and `fail_context` end whatever context is active, not that of their
  request, so which contexts are left depends on the order of the workers. How many there are does not:
  never more than workers that have made one for the client (`Counted`), and when there is no active
  context the stack is empty. A worker that ends takes one of each away, so that none is left with the last
  worker. A context that is filed under its job id is the active one or on the stack unless the full
  stack dropped it (`NothingDropped`); that takes more distinct requests than the stack has room for, plus
  the active one and the new one, which is where the bound in `RegistryDrains` comes from. That places
  are not taken twice needs that a request is in one worker (`OneWorkerEach`) and has no context before
  `create_context` (`NotYet`). A client that waits for its replies has one request in the workers
  (`Alone`); the active context is then its request's, or none after a disconnect, and the two fallbacks of
  `CMResponse` are its request's too (`OwnHeader`). At its next request the registry has drained.
* `SplitReassembly`. A packet is in one place: in flight, in the hands of a worker that has not
  stored it, or once in the list of its message (`OnePlace`). A list with as many packets as its message
  therefore has all of them (a pigeonhole argument on the set of the parts), and no worker is left
  that could empty it, or start it again once it is joined (`JoinsAreWhole`, `Done`). Of senders that
  do not wait nothing more holds, since a worker that found no list may replace the one that another worker
  has made since. A paced sender has one packet under way (`Alone`), and its lists are in order
  (`InOrder`). The refinement needs besides that a paced sender has sent nothing of a later
  message than the packet that is under way belongs to (`Latest`): no later message can have been handled when
  an earlier one is joined. The step that delivers is `Join`; every
  other step but the sending of a last packet is a stutter. That a whole list arranges the parts of its
  message was shown for `OnlyWholeMessages` already (`WholeIsArranged` restates it).
* `Chatroom`. The four room properties carry each other: an entry keeps the ban property
  because the *owner*, whom a ban does not stop, is never banned, which in turn holds because only
  members become owners and no member is banned. Besides, a room that is not created yet is
  empty (`Fresh`), and a worker in the middle of a handler has a room that was created and the user its
  next step is about (`Busy`). `InvitesAreTold` needs to know where an invitation is that was not sent yet
  (`OnTheWay`). As long as the user's first login has not taken his list (`Ready`), it is in the list or in a
  handler that has yet to file it, and no handler sends before it has filed (`FiledFirst`). After that it is in a
  handler that will send it: one that was about to file it finds the list gone (a KeyError) or appends to
  the list that was taken, and goes on to `_send_invite_to_user` in both cases. There is one handler of a first
  login (`FirstLogin`), so nothing takes the list twice; that is where a second login breaks the argument.
* `PurchaseTransactions`. The properties follow from what a view is: a part of the committed rows
  (`ViewsArePartial`, since rows are never taken back), which has every outcome that its own worker
  committed (`SettledIsSeen`, since the commit ends the view), and these are in the rows (`SettledIsDone`).
  A worker that sets out to settle a transaction has read that it is open, in a view that has its own
  outcomes. The licences are numbered by their count, for which the rows must be finite.
* `MasterServerList`. A list is filtered under the lock and assigned a step later, so what is true of `servers`
  must be true of every list that a thread is about to assign. Nobody else assigns in between: who is about to
  has the lock (`Locked`). Meanwhile an entry can change: a heartbeat makes it younger, and time does not
  pass while a thread is at work (`Keeps`); and an entry that anybody refers to is not reused for another address
  (`InUseAreNamed`), although nobody may have it on the list any more. So a list the clean-up thread
  filtered stays young until it is assigned, and after that until the next minute, also in the lists that
  shutdowns make of it (`YoungInv`). For the duplicates, the entries of an address and the heartbeats
  about to append one are together no more than workers (`CountInv`): a heartbeat that is to append found none, so at
  that moment only heartbeats count. What it did not find in `servers` is in no list that is about to be assigned
  either, which has nothing that `servers` does not have. `Only` filters without recursion, by the rank of each element among those kept; that it
  keeps these elements, and as many of each address, is a bijection between places (`OnlyTakes`, `OnlyCounts`).

Only model-checked: liveness (`EncryptRequestIsSent`, `EveryCallEnds`, `SilentUsersAreRemoved`,
`SilentServersExpire`), which like `ENABLED` is out of the provers' reach. Every other property of a passing
run is a theorem. No module of this directory has a recursive operator of its own, and nothing that
would need induction over data is stated as a theorem.

## 6. Seen without a run

While modelling, the code was found to do the following, which no text of the repository
denies, or which the models leave out:

* Two Connect packets at once: `connectionid_count` is read for the Accept, read again for the Client
  and bumped, without a lock, so that a Client gets an id no Accept announced, although the id in the
  Accept is the "Connection ID to assign" (`Handlers/connection.py:216`). `AssignedIdIsAnnounced` says what should
  be; `MCCMConnectionId.cfg` has TLC refute it.
* Each server starts counting connection ids at 1024, and the registry is shared, so that ids collide and
  `clients_by_connid` does not hold "every live connection" (`cmserver_base.py:246`):
  `EveryConnectionIsCounted` with two servers, `MCClientManagerCount.cfg`.
* With two requests of one client in the workers, the active context is that of the last one received, and the
  reply to the other carries its job id, against "our response MUST have targetJobID=X"
  (`cm_packet_utils.py:591`): `AllRepliesReachTheirJob`, `MCJobRegistryReplies.cfg`.
* A disconnect brings a `SteamID` object to a dictionary keyed by integers; the user is not removed "from
  all chatrooms" (`ChatroomManager/manager.py:958`): `DisconnectLeavesRooms`, `MCChatroomDisconnect.cfg`.
* A packet within the tolerance moves `last_recvd_sequence` past the ones it overtook; they are then
  dropped as duplicates and acknowledged.
* A packet of an earlier connection from the same port counts as the acknowledgement of the
  new Accept, and may be decrypted with the key of another attempt.
* `sendReply` looks the Client up before it waits for the lock and sends to a Client that was replaced
  meanwhile.
* A UDP Disconnect logs the user off and leaves the Client registered: no caller passes the flag
  that removes it.
* Half-open connections (no heartbeat or no login yet) are never swept.
* `get_current_user_count` and the app info tracker are keyed by connection ids, which collide between
  servers.
* Completing a request completes the *active* context, which may be another request's. When a client
  has more requests in workers than the stack holds, a context is dropped and stays filed
  under its job id until the client disconnects.
* Two workers can both find no list for a split message; one list replaces the other, and the
  message is lost. A repeated packet has the same effect. Chunks are joined in the order they
  were appended. The key has no port, so two clients behind one address mix their packets. What
  is incomplete is never removed.
* An invitation sent with a new room is filed under the account ID and looked for under the Steam
  ID: it admits nobody to a locked room and reaches nobody who is off line.
* `get_pending_invites` is asked with a Steam ID for what is stored by room, so invitations in
  the database are never read.
* The owner of a new room is refused when the room is full before he enters, although a comment
  says he is always allowed.
* The chat action `inviteChat` invites twice; if the second fails, the invitation is pending and was
  never sent.
* A broadcast iterates over the members without the room's lock.
* A clan's room is created with `EType.Clan`, which does not exist; the exception is swallowed.
* `send_queue` and its thread serve nobody; a Client that is replaced keeps its thread.
* The transaction that records a key activation is left open (`purchase.py:807`), and a request to complete it
  grants a second licence for the same subscription.
* `handle_AckPurchaseReceipt` says that it tests the transaction; `acknowledge_receipt` tests only that
  it is there.
* When the connection of a session breaks inside a transaction, `get_transaction` swallows the error and
  answers "not found" until some writer of the thread rolls back (`purchase_db.py:270-279`).
* Two workers that read a transaction as open before either commits both settle it: completed
  twice it grants two licences, completed and cancelled it is both. `OneOutcomePerWorker` is what remains true.
* A shutdown that clears the index between the clean-up thread's test for a key and its use ends that
  thread with a `KeyError` (`masterlistmanager.py:73`); nothing is cleaned up from then on.
* An entry appended while the list is being replaced goes to the list that is dropped.
* The shutdown of a game server on the emulator's network removes its local address only.
* The heartbeat of a content server does not refresh the time stamp that its clean-up looks at
  (`contentlistserver.py:430`).
* `GuestPassManager` compares `SteamID` objects, which define no equality, and so refuses every pass.

## 7. Plan

Done: the connection manager from the datagram to the request (`CMConnection`, `CMSend`,
`SplitReassembly`), what it keeps about clients and requests (`ClientManager`, `JobRegistry`), two
of the subsystems above it (`Chatroom`, `PurchaseTransactions`) and the first of the server lists
(`MasterServerList`). Next, in this order:

1. Sending and broadcasting chat messages in `Chatroom` (members that change during the
   iteration), and the action `inviteChat`.
2. `Challenge`: hand out, validate, rotate; composed with Connect. Abstract specification: a challenge is
   good for at least one interval.
3. Directory and content server lists; abstract specification: the list without an index.
4. `P2PSession` on top of `ClientManager`.
5. Cloud uploads, the app info tracker, the tracker servers.

Worth proving next: abstract specifications of the chat rooms (a room as sets that handlers change in one
step) and of the purchases (transactions that are settled once), refined by `Chatroom` and
`PurchaseTransactions`.

Not modelled, and why:

* `JobManager` (`jobmgr.py`, `job.py`, `server_job.py`): nothing in the program starts a job with it.
* Lobbies: `lobby_manager` creates its lobbies without the chat room manager, so that their rooms never
  have members and there is nothing to interleave.
* Guest passes: every request is refused before it reaches the database (section 6).
* Friends, clans, statistics, news, items: requests that read or write one row, with the database in
  charge of what happens at once.
* Authentication, content, tracker and the other Steam2 servers: a connection each, files and blobs, no
  shared state to speak of.
* Start-up, configuration, administration, web pages: orchestration, input and output.

## 8. Running it

    tlc -config MCCMConnection.cfg MCCMConnection.tla     # a run of PROJECT.json
    tlapm ChatroomProofs.tla                              # a module of proofs

The longest runs take about two minutes with two workers; all proofs together a few minutes.
