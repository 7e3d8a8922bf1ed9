--------------------------- MODULE ClientManager ---------------------------
(***************************************************************************)
(* The registry of connected clients shared by the connection manager      *)
(* servers: steam3/ClientManager/manager.py, with the handlers that change *)
(* it: connecting over UDP and TCP, identification by the first request    *)
(* and login (cmserver_base.py, Handlers/authentication.py), logoff and    *)
(* UDP disconnect (client.py:logoff_User), heartbeats and the sweep for    *)
(* stale clients (Handlers/system.py).                                     *)
(*                                                                         *)
(* Every method of the manager holds its lock and is one step; a handler   *)
(* is a thread that calls several of them.  The fields the registry does   *)
(* not look at (client_state, friends, keys) are left out.  One address    *)
(* belongs to one transport, and connection ids are read and bumped in one *)
(* step here: the race between the two is in CMConnection.                 *)
(***************************************************************************)
EXTENDS Naturals

CONSTANTS
    Thread,        \* threads that run handlers
    Addr,          \* (ip, port) pairs
    TcpAddr,       \* those used by TCP connections
    Server,        \* CM servers, each with its own connectionid_count
    MaxClient,     \* bound: Client objects created
    MaxAccount,    \* accounts are 1..MaxAccount; 0 stands for None and for id 0
    HeaderNames,   \* a client's first request may already carry its account id
    Relogin,       \* a connection may log in to a second account
    Steady,        \* the address whose client keeps sending heartbeats
    NoAddr         \* ip_port of a Client not created yet

ASSUME ClientManagerAssumption ==
    /\ TcpAddr \subseteq Addr
    /\ Steady \in Addr
    /\ MaxClient \in Nat
    /\ MaxAccount \in Nat
    /\ HeaderNames \in BOOLEAN
    /\ Relogin \in BOOLEAN
    /\ NoAddr \notin Addr

Client == 1..MaxClient
Account == 1..MaxAccount
ConnectionId == 1..MaxClient

VARIABLES
    \* the manager; 0 where a dictionary has no entry
    clients_by_ip_port,
    clientsByAccountID,
    clients_by_connid,
    \* the servers and the Client objects
    connectionid_count,    \* connection ids handed out, per server
    created,               \* Client objects created
    ip_port,
    connectionid,
    accountID,
    identified,            \* steamID is set
    username,              \* username is set, by login_User
    socket,                \* TCP connections that are still open
    last_recvd_heartbeat,  \* "none", "recent" or "old", i.e. more than 5 minutes
    \* the threads
    pc,
    cli,                   \* client_obj of the handler
    snapshot,              \* clients a sweep has yet to visit
    exclude                \* account the sweep leaves out

managerVars == <<clients_by_ip_port, clientsByAccountID, clients_by_connid>>
fieldVars == <<ip_port, connectionid>>
createdVars == <<connectionid_count, created, fieldVars, socket>>
identityVars == <<accountID, identified, username>>
sweepVars == <<snapshot, exclude>>
vars == <<managerVars, createdVars, identityVars, last_recvd_heartbeat, pc, cli,
          sweepVars>>

Label == {"idle", "identify", "list", "request", "login", "add", "logoff", "remove",
          "sweep", "expire", "evict"}

Init ==
    /\ clients_by_ip_port = [a \in Addr |-> 0]
    /\ clientsByAccountID = [x \in 0..MaxAccount |-> 0]
    /\ clients_by_connid = [i \in ConnectionId |-> 0]
    /\ connectionid_count = [s \in Server |-> 0]
    /\ created = 0
    /\ ip_port = [c \in Client |-> NoAddr]
    /\ connectionid = [c \in Client |-> 0]
    /\ accountID = [c \in Client |-> 0]
    /\ identified = [c \in Client |-> FALSE]
    /\ username = [c \in Client |-> FALSE]
    /\ socket = {}
    /\ last_recvd_heartbeat = [c \in Client |-> "none"]
    /\ pc = [t \in Thread |-> "idle"]
    /\ cli = [t \in Thread |-> 0]
    /\ snapshot = [t \in Thread |-> {}]
    /\ exclude = [t \in Thread |-> 0]

-----------------------------------------------------------------------------
(* The methods of the manager.                                             *)

\* The map without the entry under the Client's key; a key of 0 is None.
Without(map, key, c) == IF c = 0 \/ key[c] = 0 THEN map ELSE [map EXCEPT ![key[c]] = 0]

WithoutAddress(c) == IF c = 0 THEN clients_by_ip_port
                     ELSE [clients_by_ip_port EXCEPT ![ip_port[c]] = 0]

\* The other Client at the address; the faulty variant does not look.
NoneAtAddress(c, addr) == 0

OldAtAddress(c, addr) ==
    IF clients_by_ip_port[addr] = c THEN 0 ELSE clients_by_ip_port[addr]

\* The other Client of the account; the faulty variant does not look.
NoneOfAccount(c, account, accounts) == 0

OldOfAccount(c, account, accounts) ==
    IF account = 0 \/ accounts[account] = c THEN 0 ELSE accounts[account]

\* add_or_update_client: first the old Client of the address goes, then the old
\* Client of the account, then the new one takes its place in all dictionaries.
AddOrUpdate(c, addr, id, account) ==
    LET atAddr == OldAtAddress(c, addr)
        accounts == Without(clientsByAccountID, accountID, atAddr)
        connids == Without(clients_by_connid, connectionid, atAddr)
        ofAccount == OldOfAccount(c, account, accounts)
    IN  /\ clients_by_ip_port' = [WithoutAddress(ofAccount) EXCEPT ![addr] = c]
        /\ clients_by_connid' = [Without(connids, connectionid, ofAccount) EXCEPT ![id] = c]
        /\ clientsByAccountID' = IF account = 0 THEN accounts
                                 ELSE [accounts EXCEPT ![account] = c]

\* Faulty variant: the address keeps its entry.
RemoveKeepingAddress(c) ==
    /\ clientsByAccountID' = Without(clientsByAccountID, accountID, c)
    /\ clients_by_connid' = Without(clients_by_connid, connectionid, c)
    /\ UNCHANGED clients_by_ip_port

\* remove_client deletes whatever is filed under the keys of the Client; 0 has none.
RemoveClient(c) ==
    /\ clientsByAccountID' = Without(clientsByAccountID, accountID, c)
    /\ clients_by_connid' = Without(clients_by_connid, connectionid, c)
    /\ clients_by_ip_port' = WithoutAddress(c)

-----------------------------------------------------------------------------
(* Connecting.                                                             *)

Create(a, id) ==
    LET c == created + 1
    IN  /\ created < MaxClient
        /\ \E t \in Thread : pc[t] = "idle"
        /\ \A d \in socket : ip_port[d] # a
        /\ created' = c
        /\ ip_port' = [ip_port EXCEPT ![c] = a]
        /\ connectionid' = [connectionid EXCEPT ![c] = id]
        /\ socket' = IF a \in TcpAddr THEN socket \union {c} ELSE socket
        /\ AddOrUpdate(c, a, id, 0)
        /\ UNCHANGED <<identityVars, last_recvd_heartbeat, pc, cli, sweepVars>>

\* Faulty variant: the count is bumped when the id is read and once more.
ConnectBumpingTwice(s, a) ==
    /\ Create(a, connectionid_count[s] + 1)
    /\ connectionid_count' = [connectionid_count EXCEPT ![s] = @ + 2]

Connect(s, a) ==
    /\ Create(a, connectionid_count[s] + 1)
    /\ connectionid_count' = [connectionid_count EXCEPT ![s] = @ + 1]

\* A TCP connection ends; the registry is not told.
Close(c) ==
    /\ c \in socket
    /\ socket' = socket \ {c}
    /\ UNCHANGED <<managerVars, connectionid_count, created, fieldVars, identityVars,
                   last_recvd_heartbeat, pc, cli, sweepVars>>

-----------------------------------------------------------------------------
(* Handlers.                                                               *)

Goto(t, label) == pc' = [pc EXCEPT ![t] = label]

Begin(t, c, label) ==
    /\ pc[t] = "idle"
    /\ Goto(t, label)
    /\ cli' = [cli EXCEPT ![t] = c]

Finish(t) == Goto(t, "idle") /\ cli' = [cli EXCEPT ![t] = 0]

ViaTcp(c) == ip_port[c] \in TcpAddr

\* A UDP handler looks its Client up, a TCP connection keeps its own.
Reaches(c) == IF ViaTcp(c) THEN c \in socket ELSE clients_by_ip_port[ip_port[c]] = c

\* A data packet: handle_CMPacket.
Request(t) ==
    /\ \E c \in 1..created :
          Reaches(c) /\ Begin(t, c, IF identified[c] THEN "request" ELSE "identify")
    /\ UNCHANGED <<managerVars, createdVars, identityVars, last_recvd_heartbeat,
                   sweepVars>>

\* The header of the first request names the Client.
Identify(t) ==
    /\ pc[t] = "identify"
    /\ \E x \in IF HeaderNames THEN 0..MaxAccount ELSE {0} :
          accountID' = [accountID EXCEPT ![cli[t]] = x]
    /\ identified' = [identified EXCEPT ![cli[t]] = TRUE]
    /\ Goto(t, "list")
    /\ UNCHANGED <<managerVars, createdVars, username, last_recvd_heartbeat, cli,
                   sweepVars>>

\* update_list files the Client under its account, 0 included, over whoever is there.
UpdateList(t) ==
    /\ pc[t] = "list"
    /\ clientsByAccountID' = [clientsByAccountID EXCEPT ![accountID[cli[t]]] = cli[t]]
    /\ Goto(t, "request")
    /\ UNCHANGED <<clients_by_ip_port, clients_by_connid, createdVars, identityVars,
                   last_recvd_heartbeat, cli, sweepVars>>

\* The handler of the request: a login, a logoff, or one that leaves the registry alone.
HandleRequest(t) ==
    /\ pc[t] = "request"
    /\ \/ Goto(t, "login") /\ UNCHANGED cli
       \/ Goto(t, "logoff") /\ UNCHANGED cli
       \/ Finish(t)
    /\ UNCHANGED <<managerVars, createdVars, identityVars, last_recvd_heartbeat,
                   sweepVars>>

\* login_User after the credentials were accepted.
LoginUser(t) ==
    /\ pc[t] = "login"
    /\ \E x \in Account :
          /\ (accountID[cli[t]] # 0 /\ ~Relogin) => x = accountID[cli[t]]
          /\ accountID' = [accountID EXCEPT ![cli[t]] = x]
    /\ username' = [username EXCEPT ![cli[t]] = TRUE]
    /\ Goto(t, "add")
    /\ UNCHANGED <<managerVars, createdVars, identified, last_recvd_heartbeat, cli,
                   sweepVars>>

AddLoggedIn(t) ==
    /\ pc[t] = "add"
    /\ AddOrUpdate(cli[t], ip_port[cli[t]], connectionid[cli[t]], accountID[cli[t]])
    /\ Finish(t)
    /\ UNCHANGED <<createdVars, identityVars, last_recvd_heartbeat, sweepVars>>

\* A UDP Disconnect packet: a client in a game leaves the game, another is logged off.
Disconnect(t) ==
    /\ \E a \in Addr \ TcpAddr :
          /\ clients_by_ip_port[a] # 0
          /\ Begin(t, clients_by_ip_port[a], "logoff")
    /\ UNCHANGED <<managerVars, createdVars, identityVars, last_recvd_heartbeat,
                   sweepVars>>

\* logoff_User removes a TCP client only: no caller passes udpDisconnect.
LogoffUser(t) ==
    /\ pc[t] = "logoff"
    /\ IF ViaTcp(cli[t]) THEN Goto(t, "remove") /\ UNCHANGED cli ELSE Finish(t)
    /\ UNCHANGED <<managerVars, createdVars, identityVars, last_recvd_heartbeat,
                   sweepVars>>

RemoveLoggedOff(t) ==
    /\ pc[t] = "remove"
    /\ RemoveClient(cli[t])
    /\ Finish(t)
    /\ UNCHANGED <<createdVars, identityVars, last_recvd_heartbeat, sweepVars>>

-----------------------------------------------------------------------------
(* Heartbeats and the sweep.                                               *)

\* handle_Heartbeat, for a datagram or over TCP for a request of a Client that is
\* identified; once a minute it goes on to check_and_remove_stale_clients.
Heartbeat(t, c) ==
    /\ Reaches(c)
    /\ ViaTcp(c) => identified[c]
    /\ last_recvd_heartbeat' = [last_recvd_heartbeat EXCEPT ![c] = "recent"]
    /\ \/ /\ Begin(t, c, "sweep")
          /\ snapshot' = [snapshot EXCEPT ![t] =
                              {clients_by_ip_port[a] : a \in Addr} \ {0}]
          /\ exclude' = [exclude EXCEPT ![t] = accountID[c]]
       \/ /\ pc[t] = "idle"
          /\ UNCHANGED <<pc, cli, sweepVars>>
    /\ UNCHANGED <<managerVars, createdVars, identityVars>>

\* Five minutes pass without a heartbeat.
GrowOld(c) ==
    /\ last_recvd_heartbeat[c] = "recent"
    /\ last_recvd_heartbeat' = [last_recvd_heartbeat EXCEPT ![c] = "old"]
    /\ UNCHANGED <<managerVars, createdVars, identityVars, pc, cli, sweepVars>>

\* Faulty variant: a client that once sent a heartbeat counts as stale.
SparedUnlessSeen(t, c) ==
    \/ exclude[t] # 0 /\ accountID[c] = exclude[t]
    \/ last_recvd_heartbeat[c] = "none"
    \/ ~username[c]

Spared(t, c) ==
    \/ exclude[t] # 0 /\ accountID[c] = exclude[t]
    \/ last_recvd_heartbeat[c] # "old"
    \/ ~username[c]

\* The next Client of the snapshot; the timestamp is checked here and not again.
SweepClient(t) ==
    /\ pc[t] = "sweep"
    /\ \/ /\ snapshot[t] = {}
          /\ Finish(t)
          /\ exclude' = [exclude EXCEPT ![t] = 0]
          /\ UNCHANGED snapshot
       \/ \E c \in snapshot[t] :
             /\ snapshot' = [snapshot EXCEPT ![t] = @ \ {c}]
             /\ IF Spared(t, c)
                THEN UNCHANGED <<pc, cli>>
                ELSE Goto(t, "expire") /\ cli' = [cli EXCEPT ![t] = c]
             /\ UNCHANGED exclude
    /\ UNCHANGED <<managerVars, createdVars, identityVars, last_recvd_heartbeat>>

\* logoff_User of the stale Client, which removes a TCP client.
ExpireClient(t) ==
    /\ pc[t] = "expire"
    /\ IF ViaTcp(cli[t]) THEN RemoveClient(cli[t]) ELSE UNCHANGED managerVars
    /\ Goto(t, "evict")
    /\ UNCHANGED <<createdVars, identityVars, last_recvd_heartbeat, cli, sweepVars>>

\* remove_client(AccountID(client.accountID)): whoever has the account now.
EvictAccount(t) ==
    /\ pc[t] = "evict"
    /\ RemoveClient(clientsByAccountID[accountID[cli[t]]])
    /\ Goto(t, "sweep")
    /\ UNCHANGED <<createdVars, identityVars, last_recvd_heartbeat, cli, sweepVars>>

HandlerStep(t) ==
    \/ Identify(t)
    \/ UpdateList(t)
    \/ HandleRequest(t)
    \/ LoginUser(t)
    \/ AddLoggedIn(t)
    \/ LogoffUser(t)
    \/ RemoveLoggedOff(t)
    \/ SweepClient(t)
    \/ ExpireClient(t)
    \/ EvictAccount(t)

Next ==
    \/ \E s \in Server, a \in Addr : Connect(s, a)
    \/ \E c \in Client : Close(c) \/ GrowOld(c)
    \/ \E t \in Thread :
          \/ Request(t)
          \/ Disconnect(t)
          \/ \E c \in 1..created : Heartbeat(t, c)
          \/ HandlerStep(t)

Spec == Init /\ [][Next]_vars

(* Handlers run to their end.  The client at Steady keeps sending           *)
(* heartbeats and now and then one of them is the first in a minute.        *)
FairSpec ==
    /\ Spec
    /\ \A t \in Thread : WF_vars(HandlerStep(t))
    /\ SF_vars(\E t \in Thread, c \in Client :
                   clients_by_ip_port[Steady] = c /\ Heartbeat(t, c) /\ pc'[t] = "sweep")

\* A Client is logged in to its account once it is filed under it.
LoggedInAs(c) == IF clientsByAccountID[accountID[c]] = c THEN accountID[c] ELSE 0

SessionAt(a) ==
    LET c == clients_by_ip_port[a]
    IN  [address |-> a, client |-> c, account |-> LoggedInAs(c)]

CurrentSessions == {SessionAt(a) : a \in {b \in Addr : clients_by_ip_port[b] # 0}}

Registry == INSTANCE ClientSessions WITH
                connections <- created,
                sessions <- CurrentSessions,
                heard <- last_recvd_heartbeat

-----------------------------------------------------------------------------
(* Properties.                                                             *)

TypeOK ==
    /\ clients_by_ip_port \in [Addr -> 0..created]
    /\ clientsByAccountID \in [0..MaxAccount -> 0..created]
    /\ clients_by_connid \in [ConnectionId -> 0..created]
    /\ connectionid_count \in [Server -> 0..created]
    /\ created \in 0..MaxClient
    /\ ip_port \in [Client -> Addr \union {NoAddr}]
    /\ connectionid \in [Client -> 0..created]
    /\ accountID \in [Client -> 0..MaxAccount]
    /\ identified \in [Client -> BOOLEAN]
    /\ username \in [Client -> BOOLEAN]
    /\ socket \subseteq 1..created
    /\ last_recvd_heartbeat \in [Client -> {"none", "recent", "old"}]
    /\ pc \in [Thread -> Label]
    /\ cli \in [Thread -> 0..created]
    /\ snapshot \in [Thread -> SUBSET (1..created)]
    /\ exclude \in [Thread -> 0..MaxAccount]

Registered(c) == ip_port[c] \in Addr /\ clients_by_ip_port[ip_port[c]] = c

(* What is sent to an account reaches it: the Client filed under an account *)
(* is the one of its address, or sendReply would drop the message as stale, *)
(* and is logged in to that account.                                        *)
AccountsReachable ==
    \A x \in Account : LET c == clientsByAccountID[x]
                       IN  c # 0 => Registered(c) /\ accountID[c] = x

(* Every connection is counted: get_current_user_count relies on "holds     *)
(* every live connection in clients_by_connid" (cmserver_base.py).          *)
EveryConnectionIsCounted ==
    \A a \in Addr : LET c == clients_by_ip_port[a]
                    IN  c # 0 => clients_by_connid[connectionid[c]] = c

(* The dead are not counted.                                                *)
OnlyConnectionsAreCounted ==
    \A i \in ConnectionId : LET c == clients_by_connid[i]
                            IN  c # 0 => Registered(c)

(* An account has one registered Client once its login is through: "If this *)
(* user (by accountID) already exists, remove the old entry" (manager.py).  *)
OneClientPerAccount ==
    \A c, d \in Client :
        (/\ c # d /\ username[c] /\ username[d]
         /\ accountID[c] = accountID[d]
         /\ Registered(c) /\ Registered(d))
        => \E t \in Thread : pc[t] = "add" /\ cli[t] \in {c, d}

(* A user who fell silent is removed from the registry as long as somebody  *)
(* else's heartbeats drive the sweep (check_and_remove_stale_clients).      *)
Silent(c) == Registered(c) /\ last_recvd_heartbeat[c] = "old"

OthersSweep(c) ==
    \E d \in Client \ {c} :
        clients_by_ip_port[Steady] = d /\ accountID[d] # accountID[c]

SilentUsersAreRemoved ==
    \A c \in Client :
        (Silent(c) /\ username[c]) ~> ~(Silent(c) /\ OthersSweep(c))

(* While handlers run one at a time the sweep, which removes whoever is     *)
(* filed under the stale Client's account, takes nobody from the registry   *)
(* who sent a heartbeat lately: the second look at the timestamp is meant   *)
(* to "handle race with renew_heartbeat" (check_and_remove_stale_clients).  *)
SweepSparesTheLiving ==
    \A t \in Thread : pc[t] = "evict" =>
        LET c == clientsByAccountID[accountID[cli[t]]]
        IN  c # 0 => last_recvd_heartbeat[c] = "old"

(* The registry implements one set of sessions: what handlers do to its     *)
(* dictionaries one call after another adds up to clients that connect, log *)
(* in and are removed for the reasons ClientSessions has, while handlers    *)
(* run one at a time and nobody is connected over TCP.                      *)
ImplementsSessions == Registry!Spec
=============================================================================
