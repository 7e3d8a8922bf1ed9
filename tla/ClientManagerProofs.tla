------------------------ MODULE ClientManagerProofs ------------------------
(***************************************************************************)
(* Theorems about ClientManager: first for any number of threads, clients, *)
(* accounts and addresses, whatever the clients' headers name; then for    *)
(* handlers that run one at a time (OneAtATime), what the registry holds   *)
(* between handlers, which is what its methods are written for.            *)
(*                                                                         *)
(* While a handler runs alone, no new Client takes the address of one that *)
(* it has in hand, so that remove_client, which deletes whatever is filed  *)
(* under the keys of a Client, deletes that Client (Undisturbed).  Who has *)
(* an account has logged in (Names), and is filed under it if nobody can   *)
(* log off in the name of a Client that was displaced, which takes a TCP   *)
(* connection (Filed).  The dictionaries are then views of one set of      *)
(* sessions, and each step of a handler changes that as ClientSessions     *)
(* has it or not at all (RegistryKeepsSessions).                           *)
(***************************************************************************)
EXTENDS ClientManager, TLAPS

-----------------------------------------------------------------------------
(* The inductive invariant.                                                *)

\* A busy handler holds a Client that exists.
HandlerHolds == \A t \in Thread : pc[t] # "idle" => cli[t] \in 1..created

\* A Client is filed under its own address or under none.
AtOwnAddress ==
    \A a \in Addr : clients_by_ip_port[a] # 0 => ip_port[clients_by_ip_port[a]] = a

\* Clients have an address and an id.
Placed == \A c \in 1..created : ip_port[c] \in Addr /\ connectionid[c] \in 1..created

\* The ids are those that were handed out, each once.
Numbered ==
    /\ \A c \in 1..created, s \in Server : connectionid[c] <= connectionid_count[s]
    /\ \A c, d \in 1..created : c # d => connectionid[c] # connectionid[d]

TInv == TypeOK /\ HandlerHolds /\ Placed

IInv == TInv /\ AtOwnAddress /\ Numbered /\ EveryConnectionIsCounted

-----------------------------------------------------------------------------
(* The methods of the manager: what they leave under each key.             *)

LEMMA WithoutType ==
    ASSUME NEW K, NEW V, 0 \in V, NEW map \in [K -> V], NEW key, NEW c
    PROVE  Without(map, key, c) \in [K -> V]
  BY DEF Without

LEMMA RemoveKeepsTypes ==
    ASSUME TypeOK, NEW c \in 0..created, RemoveClient(c)
    PROVE  /\ clients_by_ip_port' \in [Addr -> 0..created]
           /\ clientsByAccountID' \in [0..MaxAccount -> 0..created]
           /\ clients_by_connid' \in [ConnectionId -> 0..created]
  <1>1. 0 \in 0..created
    BY ClientManagerAssumption DEF TypeOK
  <1>2. /\ clients_by_ip_port \in [Addr -> 0..created]
        /\ clientsByAccountID \in [0..MaxAccount -> 0..created]
        /\ clients_by_connid \in [ConnectionId -> 0..created]
    BY DEF TypeOK
  <1>3. /\ clientsByAccountID' \in [0..MaxAccount -> 0..created]
        /\ clients_by_connid' \in [ConnectionId -> 0..created]
    BY <1>1, <1>2, WithoutType DEF RemoveClient
  <1>4. clients_by_ip_port' \in [Addr -> 0..created]
    BY <1>1, <1>2 DEF RemoveClient, WithoutAddress
  <1>. QED
    BY <1>3, <1>4

LEMMA AddKeepsTypes ==
    ASSUME TypeOK, NEW n \in Nat, created <= n, NEW c \in 1..n,
           NEW addr \in Addr, NEW id \in ConnectionId, NEW account \in 0..MaxAccount,
           AddOrUpdate(c, addr, id, account)
    PROVE  /\ clients_by_ip_port' \in [Addr -> 0..n]
           /\ clientsByAccountID' \in [0..MaxAccount -> 0..n]
           /\ clients_by_connid' \in [ConnectionId -> 0..n]
  <1>1. 0 \in 0..n /\ c \in 0..n /\ created \in Nat /\ 0..created \subseteq 0..n
    BY ClientManagerAssumption DEF TypeOK
  <1>2. /\ clients_by_ip_port \in [Addr -> 0..n]
        /\ clientsByAccountID \in [0..MaxAccount -> 0..n]
        /\ clients_by_connid \in [ConnectionId -> 0..n]
    BY <1>1 DEF TypeOK
  <1>. DEFINE atAddr == OldAtAddress(c, addr)
              accounts == Without(clientsByAccountID, accountID, atAddr)
              connids == Without(clients_by_connid, connectionid, atAddr)
              ofAccount == OldOfAccount(c, account, accounts)
  <1>3. accounts \in [0..MaxAccount -> 0..n] /\ connids \in [ConnectionId -> 0..n]
    BY <1>1, <1>2, WithoutType
  <1>4. Without(connids, connectionid, ofAccount) \in [ConnectionId -> 0..n]
    BY <1>1, <1>3, WithoutType
  <1>5. WithoutAddress(ofAccount) \in [Addr -> 0..n]
    BY <1>1, <1>2 DEF WithoutAddress
  <1>6. /\ clients_by_ip_port' = [WithoutAddress(ofAccount) EXCEPT ![addr] = c]
        /\ clients_by_connid' = [Without(connids, connectionid, ofAccount) EXCEPT ![id] = c]
        /\ clientsByAccountID' = IF account = 0 THEN accounts
                                 ELSE [accounts EXCEPT ![account] = c]
    BY DEF AddOrUpdate
  <1>. HIDE DEF accounts, connids, ofAccount
  <1>. QED
    BY <1>1, <1>3, <1>4, <1>5, <1>6

\* remove_client clears the address and the id of one Client.
LEMMA RemoveClears ==
    ASSUME TypeOK, Placed, NEW c \in 0..created, RemoveClient(c)
    PROVE  /\ \A a \in Addr : clients_by_ip_port'[a] \in {0, clients_by_ip_port[a]}
           /\ \A i \in ConnectionId :
                 \/ clients_by_connid'[i] = clients_by_connid[i]
                 \/ /\ c # 0 /\ connectionid[c] = i
                    /\ clients_by_ip_port'[ip_port[c]] = 0
  <1>1. /\ clients_by_ip_port \in [Addr -> 0..created]
        /\ clients_by_connid \in [ConnectionId -> 0..created]
        /\ c # 0 => ip_port[c] \in Addr
    BY DEF TypeOK, Placed
  <1>. QED
    BY <1>1 DEF RemoveClient, Without, WithoutAddress

\* add_or_update_client clears the id of a Client only with its address.
LEMMA AddClears ==
    ASSUME TypeOK, AtOwnAddress, Placed, NEW c \in Client,
           NEW addr \in Addr, NEW id \in ConnectionId, NEW account \in 0..MaxAccount,
           AddOrUpdate(c, addr, id, account)
    PROVE  /\ clients_by_ip_port'[addr] = c
           /\ clients_by_connid'[id] = c
           /\ \A a \in Addr \ {addr} :
                 clients_by_ip_port'[a] \in {0, clients_by_ip_port[a]}
           /\ \A i \in ConnectionId \ {id} :
                 \/ clients_by_connid'[i] = clients_by_connid[i]
                 \/ \E d \in 1..created :
                       /\ connectionid[d] = i
                       /\ clients_by_ip_port'[ip_port[d]] # d
  <1>. DEFINE atAddr == OldAtAddress(c, addr)
              accounts == Without(clientsByAccountID, accountID, atAddr)
              connids == Without(clients_by_connid, connectionid, atAddr)
              ofAccount == OldOfAccount(c, account, accounts)
  <1>0. /\ created \in Nat /\ 0 \in 0..created
        /\ clients_by_ip_port \in [Addr -> 0..created]
        /\ clientsByAccountID \in [0..MaxAccount -> 0..created]
        /\ clients_by_connid \in [ConnectionId -> 0..created]
        /\ \A d \in 1..created : ip_port[d] \in Addr
    BY ClientManagerAssumption, SMTT(30) DEF TypeOK, Placed
  <1>1. atAddr \in 0..created /\ (atAddr # 0 => atAddr # c /\ ip_port[atAddr] = addr)
    BY <1>0 DEF AtOwnAddress, OldAtAddress, Client
  <1>2. accounts \in [0..MaxAccount -> 0..created]
    BY <1>0, WithoutType
  <1>3. ofAccount \in 0..created /\ (ofAccount # 0 => ofAccount # c)
    <2>. HIDE DEF accounts
    <2>. QED
      BY <1>0, <1>2 DEF OldOfAccount
  <1>4. /\ clients_by_ip_port' = [WithoutAddress(ofAccount) EXCEPT ![addr] = c]
        /\ clients_by_connid' = [Without(connids, connectionid, ofAccount) EXCEPT ![id] = c]
    BY DEF AddOrUpdate
  <1>. HIDE DEF atAddr, accounts, ofAccount
  <1>5. /\ clients_by_ip_port'[addr] = c
        /\ \A a \in Addr \ {addr} : clients_by_ip_port'[a] \in {0, clients_by_ip_port[a]}
        /\ ofAccount # 0 => clients_by_ip_port'[ip_port[ofAccount]] # ofAccount
    BY <1>0, <1>3, <1>4 DEF WithoutAddress, Client
  <1>6. /\ clients_by_connid'[id] = c
        /\ \A i \in ConnectionId \ {id} :
              \/ clients_by_connid'[i] = clients_by_connid[i]
              \/ atAddr # 0 /\ connectionid[atAddr] = i
              \/ ofAccount # 0 /\ connectionid[ofAccount] = i
    BY <1>0, <1>1, <1>3, <1>4 DEF Without
  <1>7. atAddr # 0 => clients_by_ip_port'[ip_port[atAddr]] # atAddr
    BY <1>1, <1>5
  <1>8. (atAddr # 0 => atAddr \in 1..created) /\ (ofAccount # 0 => ofAccount \in 1..created)
    BY <1>0, <1>1, <1>3
  <1>. QED
    BY <1>5, <1>6, <1>7, <1>8

-----------------------------------------------------------------------------
(* Type correctness.                                                       *)

LEMMA InitTInv == Init => TInv
  BY ClientManagerAssumption DEF Init, TInv, TypeOK, HandlerHolds, Placed, Client, Label

LEMMA Counts ==
    ASSUME TypeOK
    PROVE  /\ created \in Nat /\ MaxClient \in Nat /\ created <= MaxClient
           /\ \A c \in 1..created : c \in Client /\ accountID[c] \in 0..MaxAccount
  BY ClientManagerAssumption DEF TypeOK, Client

LEMMA ConnectTyped ==
    ASSUME TInv, NEW s \in Server, NEW a \in Addr, Connect(s, a)
    PROVE  TInv'
  <1>. DEFINE id == connectionid_count[s] + 1
  <1>0. /\ created \in Nat /\ MaxClient \in Nat /\ MaxAccount \in Nat
        /\ connectionid_count \in [Server -> 0..created]
        /\ ip_port \in [Client -> Addr \union {NoAddr}]
        /\ connectionid \in [Client -> 0..created]
        /\ socket \subseteq 1..created
    BY Counts, ClientManagerAssumption DEF TInv, TypeOK
  <1>1. /\ created < MaxClient /\ created' = created + 1
        /\ AddOrUpdate(created + 1, a, id, 0)
    BY DEF Connect, Create
  <1>2. /\ created + 1 \in Nat /\ created <= created + 1
        /\ created + 1 \in 1..(created + 1) /\ created + 1 \in Client
        /\ id \in 1..(created + 1) /\ id \in ConnectionId /\ 0 \in 0..MaxAccount
    BY <1>0, <1>1 DEF Client, ConnectionId
  <1>3. /\ clients_by_ip_port' \in [Addr -> 0..created']
        /\ clientsByAccountID' \in [0..MaxAccount -> 0..created']
        /\ clients_by_connid' \in [ConnectionId -> 0..created']
    <2>. HIDE DEF id
    <2>. QED
      BY <1>1, <1>2, AddKeepsTypes DEF TInv
  <1>4. /\ connectionid_count' \in [Server -> 0..created']
        /\ created' \in 0..MaxClient
        /\ ip_port' \in [Client -> Addr \union {NoAddr}]
        /\ connectionid' \in [Client -> 0..created']
        /\ socket' \subseteq 1..created'
    <2>1. /\ connectionid_count' = [connectionid_count EXCEPT ![s] = id]
          /\ ip_port' = [ip_port EXCEPT ![created + 1] = a]
          /\ connectionid' = [connectionid EXCEPT ![created + 1] = id]
          /\ socket' \subseteq socket \union {created + 1}
      BY DEF Connect, Create
    <2>. HIDE DEF id
    <2>2. connectionid_count' \in [Server -> 0..created'] /\ created' \in 0..MaxClient
      BY <1>0, <1>1, <1>2, <2>1
    <2>3. ip_port' \in [Client -> Addr \union {NoAddr}]
      BY <1>0, <2>1
    <2>4. connectionid' \in [Client -> 0..created'] /\ socket' \subseteq 1..created'
      BY <1>0, <1>1, <1>2, <2>1
    <2>. QED
      BY <2>2, <2>3, <2>4
  <1>5. /\ UNCHANGED <<identityVars, last_recvd_heartbeat, pc, cli, sweepVars>>
        /\ 0..created \subseteq 0..created' /\ 1..created \subseteq 1..created'
    BY <1>0, <1>1 DEF Connect, Create
  <1>6. cli' \in [Thread -> 0..created'] /\ snapshot' \in [Thread -> SUBSET (1..created')]
    BY <1>5 DEF TInv, TypeOK, sweepVars
  <1>7. TypeOK'
    BY <1>3, <1>4, <1>5, <1>6 DEF TInv, TypeOK, identityVars, sweepVars
  <1>8. HandlerHolds'
    BY <1>5 DEF TInv, HandlerHolds
  <1>9. Placed'
    <2>1. /\ ip_port' = [ip_port EXCEPT ![created + 1] = a]
          /\ connectionid' = [connectionid EXCEPT ![created + 1] = id]
      BY DEF Connect, Create
    <2>. HIDE DEF id
    <2>. QED
      BY <1>0, <1>1, <1>2, <2>1 DEF TInv, Placed, Client
  <1>. QED
    BY <1>7, <1>8, <1>9 DEF TInv

\* Of a handler's step it is enough to look at what it changes.
LEMMA HandlerTyped ==
    ASSUME TInv, NEW t \in Thread,
           \/ Request(t) \/ Disconnect(t) \/ HandlerStep(t)
           \/ \E c \in 1..created : Heartbeat(t, c)
    PROVE  TInv' /\ UNCHANGED createdVars
  <1>. DEFINE ThreadTyped ==
                 /\ pc' \in [Thread -> Label]
                 /\ cli' \in [Thread -> 0..created]
                 /\ snapshot' \in [Thread -> SUBSET (1..created)]
                 /\ exclude' \in [Thread -> 0..MaxAccount]
              IdentityTyped ==
                 /\ accountID' \in [Client -> 0..MaxAccount]
                 /\ identified' \in [Client -> BOOLEAN]
                 /\ username' \in [Client -> BOOLEAN]
                 /\ last_recvd_heartbeat' \in [Client -> {"none", "recent", "old"}]
              ManagerTyped ==
                 /\ clients_by_ip_port' \in [Addr -> 0..created]
                 /\ clientsByAccountID' \in [0..MaxAccount -> 0..created]
                 /\ clients_by_connid' \in [ConnectionId -> 0..created]
  <1>a. ASSUME UNCHANGED managerVars PROVE ManagerTyped
    BY <1>a DEF TInv, TypeOK, managerVars
  <1>b. ASSUME UNCHANGED <<identityVars, last_recvd_heartbeat>> PROVE IdentityTyped
    BY <1>b DEF TInv, TypeOK, identityVars
  <1>c. ASSUME UNCHANGED createdVars, ManagerTyped, IdentityTyped, ThreadTyped PROVE TypeOK' /\ Placed'
    BY <1>c DEF TInv, TypeOK, Placed, createdVars, fieldVars
  <1>d. /\ created \in Nat /\ 1..created \subseteq Client /\ 1..created \subseteq 0..created
        /\ 0 \in 0..created /\ 0 \in 0..MaxAccount
        /\ pc \in [Thread -> Label] /\ cli \in [Thread -> 0..created]
        /\ snapshot \in [Thread -> SUBSET (1..created)]
        /\ exclude \in [Thread -> 0..MaxAccount]
        /\ accountID \in [Client -> 0..MaxAccount]
    <2>1. /\ created \in Nat /\ created <= MaxClient /\ MaxAccount \in Nat
          /\ MaxClient \in Nat
      BY Counts, ClientManagerAssumption DEF TInv
    <2>2. 1..created \subseteq Client
      BY <2>1 DEF Client
    <2>. QED
      BY <2>1, <2>2, SMTT(30) DEF TInv, TypeOK
  <1>e. pc[t] # "idle" => cli[t] \in 1..created
    BY DEF TInv, HandlerHolds
  <1>1. CASE Request(t)
    <2>1. PICK c \in 1..created :
              Begin(t, c, IF identified[c] THEN "request" ELSE "identify")
      BY <1>1 DEF Request
    <2>2. UNCHANGED <<managerVars, createdVars, identityVars, last_recvd_heartbeat, sweepVars>>
      BY <1>1 DEF Request
    <2>3. ThreadTyped
      BY <1>d, <2>1, <2>2 DEF Begin, Goto, Label, sweepVars
    <2>4. HandlerHolds'
      BY <1>d, <2>1, <2>2 DEF TInv, HandlerHolds, Begin, Goto, createdVars
    <2>. QED
      BY <1>a, <1>b, <1>c, <2>2, <2>3, <2>4 DEF TInv
  <1>2. CASE Disconnect(t)
    <2>1. PICK a \in Addr \ TcpAddr : clients_by_ip_port[a] # 0
                                      /\ Begin(t, clients_by_ip_port[a], "logoff")
      BY <1>2 DEF Disconnect
    <2>2. UNCHANGED <<managerVars, createdVars, identityVars, last_recvd_heartbeat, sweepVars>>
      BY <1>2 DEF Disconnect
    <2>3. clients_by_ip_port[a] \in 1..created
      BY <1>d, <2>1 DEF TInv, TypeOK
    <2>4. ThreadTyped
      BY <1>d, <2>1, <2>2, <2>3 DEF Begin, Goto, Label, sweepVars
    <2>5. HandlerHolds'
      BY <1>d, <2>1, <2>2, <2>3 DEF TInv, HandlerHolds, Begin, Goto, createdVars
    <2>. QED
      BY <1>a, <1>b, <1>c, <2>2, <2>4, <2>5 DEF TInv
  <1>3. ASSUME NEW c \in 1..created, Heartbeat(t, c) PROVE TInv' /\ UNCHANGED createdVars
    <2>1. UNCHANGED <<managerVars, createdVars, identityVars>>
      BY <1>3 DEF Heartbeat
    <2>2. IdentityTyped
      BY <1>3, <2>1 DEF Heartbeat, TInv, TypeOK, identityVars
    <2>3. ThreadTyped /\ HandlerHolds'
      <3>1. CASE UNCHANGED <<pc, cli, sweepVars>>
        BY <1>d, <2>1, <3>1 DEF TInv, HandlerHolds, createdVars, sweepVars
      <3>2. CASE /\ Begin(t, c, "sweep")
                 /\ snapshot' = [snapshot EXCEPT ![t] =
                                     {clients_by_ip_port[a] : a \in Addr} \ {0}]
                 /\ exclude' = [exclude EXCEPT ![t] = accountID[c]]
        <4>1. {clients_by_ip_port[a] : a \in Addr} \ {0} \subseteq 1..created
          BY <1>d DEF TInv, TypeOK
        <4>2. ThreadTyped
          BY <1>d, <3>2, <4>1 DEF Begin, Goto, Label
        <4>3. HandlerHolds'
          BY <1>d, <2>1, <3>2 DEF TInv, HandlerHolds, Begin, Goto, createdVars
        <4>. QED
          BY <4>2, <4>3
      <3>. QED
        BY <1>3, <3>1, <3>2 DEF Heartbeat
    <2>. QED
      BY <1>a, <1>c, <2>1, <2>2, <2>3 DEF TInv
  <1>4. CASE Identify(t)
    <2>1. UNCHANGED <<managerVars, createdVars, username, last_recvd_heartbeat, cli, sweepVars>>
      BY <1>4 DEF Identify
    <2>2. IdentityTyped
      <3>1. PICK x \in 0..MaxAccount : accountID' = [accountID EXCEPT ![cli[t]] = x]
        BY <1>4, <1>d DEF Identify
      <3>2. identified' = [identified EXCEPT ![cli[t]] = TRUE]
        BY <1>4 DEF Identify
      <3>. QED
        BY <1>d, <2>1, <3>1, <3>2 DEF TInv, TypeOK
    <2>3. ThreadTyped /\ HandlerHolds'
      BY <1>4, <1>d, <1>e, <2>1 DEF Identify, TInv, HandlerHolds, Goto, Label, createdVars, sweepVars
    <2>. QED
      BY <1>a, <1>c, <2>1, <2>2, <2>3 DEF TInv
  <1>5. CASE UpdateList(t)
    <2>1. UNCHANGED <<createdVars, identityVars, last_recvd_heartbeat, cli, sweepVars>>
      BY <1>5 DEF UpdateList
    <2>2. ManagerTyped
      BY <1>5, <1>d DEF UpdateList, TInv, TypeOK
    <2>3. ThreadTyped /\ HandlerHolds'
      BY <1>5, <1>d, <1>e, <2>1 DEF UpdateList, TInv, HandlerHolds, Goto, Label, createdVars, sweepVars
    <2>. QED
      BY <1>b, <1>c, <2>1, <2>2, <2>3 DEF TInv
  <1>6. CASE HandleRequest(t)
    <2>1. UNCHANGED <<managerVars, createdVars, identityVars, last_recvd_heartbeat, sweepVars>>
      BY <1>6 DEF HandleRequest
    <2>2. ThreadTyped /\ HandlerHolds'
      BY <1>6, <1>d, <1>e, <2>1
         DEF HandleRequest, Finish, TInv, HandlerHolds, Goto, Label, createdVars, sweepVars
    <2>. QED
      BY <1>a, <1>b, <1>c, <2>1, <2>2 DEF TInv
  <1>7. CASE LoginUser(t)
    <2>1. UNCHANGED <<managerVars, createdVars, identified, last_recvd_heartbeat, cli, sweepVars>>
      BY <1>7 DEF LoginUser
    <2>2. IdentityTyped
      <3>1. PICK x \in Account : accountID' = [accountID EXCEPT ![cli[t]] = x]
        BY <1>7 DEF LoginUser
      <3>2. username' = [username EXCEPT ![cli[t]] = TRUE]
        BY <1>7 DEF LoginUser
      <3>3. x \in 0..MaxAccount
        BY ClientManagerAssumption DEF Account
      <3>. QED
        BY <1>d, <2>1, <3>1, <3>2, <3>3 DEF TInv, TypeOK
    <2>3. ThreadTyped /\ HandlerHolds'
      BY <1>7, <1>d, <1>e, <2>1 DEF LoginUser, TInv, HandlerHolds, Goto, Label, createdVars, sweepVars
    <2>. QED
      BY <1>a, <1>c, <2>1, <2>2, <2>3 DEF TInv
  <1>8. CASE AddLoggedIn(t)
    <2>1. UNCHANGED <<createdVars, identityVars, last_recvd_heartbeat, sweepVars>>
      BY <1>8 DEF AddLoggedIn
    <2>2. ManagerTyped
      <3>1. /\ cli[t] \in 1..created /\ accountID[cli[t]] \in 0..MaxAccount
            /\ ip_port[cli[t]] \in Addr /\ connectionid[cli[t]] \in ConnectionId
        <4>1. cli[t] \in 1..created
          BY <1>8, <1>e DEF AddLoggedIn
        <4>. QED
          BY <1>d, <4>1, Counts DEF TInv, Placed, ConnectionId
      <3>2. AddOrUpdate(cli[t], ip_port[cli[t]], connectionid[cli[t]], accountID[cli[t]])
        BY <1>8 DEF AddLoggedIn
      <3>. QED
        BY <1>d, <3>1, <3>2, AddKeepsTypes, SMTT(30) DEF TInv
    <2>3. ThreadTyped /\ HandlerHolds'
      BY <1>8, <1>d, <2>1
         DEF AddLoggedIn, Finish, TInv, HandlerHolds, Goto, Label, createdVars, sweepVars
    <2>. QED
      BY <1>b, <1>c, <2>1, <2>2, <2>3 DEF TInv
  <1>9. CASE LogoffUser(t)
    <2>1. UNCHANGED <<managerVars, createdVars, identityVars, last_recvd_heartbeat, sweepVars>>
      BY <1>9 DEF LogoffUser
    <2>2. ThreadTyped /\ HandlerHolds'
      BY <1>9, <1>d, <1>e, <2>1
         DEF LogoffUser, Finish, TInv, HandlerHolds, Goto, Label, createdVars, sweepVars
    <2>. QED
      BY <1>a, <1>b, <1>c, <2>1, <2>2 DEF TInv
  <1>10. CASE RemoveLoggedOff(t)
    <2>1. UNCHANGED <<createdVars, identityVars, last_recvd_heartbeat, sweepVars>>
      BY <1>10 DEF RemoveLoggedOff
    <2>2. ManagerTyped
      BY <1>10, <1>d, RemoveKeepsTypes DEF RemoveLoggedOff, TInv
    <2>3. ThreadTyped /\ HandlerHolds'
      BY <1>10, <1>d, <2>1
         DEF RemoveLoggedOff, Finish, TInv, HandlerHolds, Goto, Label, createdVars, sweepVars
    <2>. QED
      BY <1>b, <1>c, <2>1, <2>2, <2>3 DEF TInv
  <1>11. CASE SweepClient(t)
    <2>1. UNCHANGED <<managerVars, createdVars, identityVars, last_recvd_heartbeat>>
      BY <1>11 DEF SweepClient
    <2>2. ThreadTyped /\ HandlerHolds'
      <3>1. CASE /\ Finish(t) /\ exclude' = [exclude EXCEPT ![t] = 0] /\ UNCHANGED snapshot
        BY <3>1, <1>d, <2>1 DEF Finish, TInv, HandlerHolds, Goto, Label, createdVars
      <3>2. ASSUME NEW c \in snapshot[t],
                   snapshot' = [snapshot EXCEPT ![t] = @ \ {c}],
                   UNCHANGED exclude,
                   \/ UNCHANGED <<pc, cli>>
                   \/ Goto(t, "expire") /\ cli' = [cli EXCEPT ![t] = c]
            PROVE  ThreadTyped /\ HandlerHolds'
        <4>1. c \in 1..created
          BY <1>d
        <4>. QED
          BY <3>2, <4>1, <1>d, <2>1 DEF TInv, HandlerHolds, Goto, Label, createdVars
      <3>. QED
        BY <1>11, <3>1, <3>2 DEF SweepClient
    <2>. QED
      BY <1>a, <1>b, <1>c, <2>1, <2>2 DEF TInv
  <1>12. CASE ExpireClient(t)
    <2>1. UNCHANGED <<createdVars, identityVars, last_recvd_heartbeat, cli, sweepVars>>
      BY <1>12 DEF ExpireClient
    <2>2. ManagerTyped
      BY <1>12, <1>a, <1>d, RemoveKeepsTypes DEF ExpireClient, TInv
    <2>3. ThreadTyped /\ HandlerHolds'
      BY <1>12, <1>d, <1>e, <2>1
         DEF ExpireClient, TInv, HandlerHolds, Goto, Label, createdVars, sweepVars
    <2>. QED
      BY <1>b, <1>c, <2>1, <2>2, <2>3 DEF TInv
  <1>13. CASE EvictAccount(t)
    <2>1. UNCHANGED <<createdVars, identityVars, last_recvd_heartbeat, cli, sweepVars>>
      BY <1>13 DEF EvictAccount
    <2>2. clientsByAccountID[accountID[cli[t]]] \in 0..created
      BY <1>13, <1>d, <1>e DEF EvictAccount, TInv, TypeOK
    <2>3. ManagerTyped
      BY <1>13, <2>2, RemoveKeepsTypes DEF EvictAccount, TInv
    <2>4. ThreadTyped /\ HandlerHolds'
      BY <1>13, <1>d, <1>e, <2>1
         DEF EvictAccount, TInv, HandlerHolds, Goto, Label, createdVars, sweepVars
    <2>. QED
      BY <1>b, <1>c, <2>1, <2>3, <2>4 DEF TInv
  <1>. QED
    BY <1>1, <1>2, <1>3, <1>4, <1>5, <1>6, <1>7, <1>8, <1>9, <1>10, <1>11, <1>12, <1>13
       DEF HandlerStep

LEMMA TInductive == TInv /\ [Next]_vars => TInv'
  <1>. SUFFICES ASSUME TInv, [Next]_vars
                PROVE  TInv'
    OBVIOUS
  <1>1. ASSUME NEW s \in Server, NEW a \in Addr, Connect(s, a) PROVE TInv'
    BY <1>1, ConnectTyped
  <1>2. ASSUME NEW c \in Client, Close(c) \/ GrowOld(c) PROVE TInv'
    <2>1. /\ UNCHANGED <<managerVars, connectionid_count, created, fieldVars, identityVars,
                         pc, cli, sweepVars>>
          /\ socket' \subseteq socket
          /\ last_recvd_heartbeat' \in [Client -> {"none", "recent", "old"}]
      BY <1>2 DEF Close, GrowOld, createdVars, TInv, TypeOK
    <2>. QED
      BY <2>1 DEF TInv, TypeOK, HandlerHolds, Placed, managerVars, fieldVars, identityVars,
                  sweepVars
  <1>3. ASSUME NEW t \in Thread,
               \/ Request(t) \/ Disconnect(t) \/ HandlerStep(t)
               \/ \E c \in 1..created : Heartbeat(t, c)
        PROVE  TInv'
    BY <1>3, HandlerTyped
  <1>4. CASE UNCHANGED vars
    BY <1>4 DEF TInv, TypeOK, HandlerHolds, Placed, vars, managerVars, createdVars,
                fieldVars, identityVars, sweepVars
  <1>. QED
    BY <1>1, <1>2, <1>3, <1>4 DEF Next

(* The dictionaries hold Client objects that exist, and every handler works on *)
(* one, whatever the interleaving.                                             *)
THEOREM TypeCorrect == Spec => []TypeOK
  <1>1. TInv => TypeOK
    BY DEF TInv
  <1>. QED
    BY <1>1, InitTInv, TInductive, PTL DEF Spec

-----------------------------------------------------------------------------
(* Every connection is counted, as long as one server hands out the ids.   *)

OneServer == \A r, s \in Server : r = s

LEMMA InitIInv == Init => IInv
  BY InitTInv
     DEF Init, IInv, TInv, TypeOK, AtOwnAddress, Numbered, EveryConnectionIsCounted

\* A step that does not create a Client keeps ids; it files nobody under a new
\* address and clears the id of a Client only with its address.
LEMMA StepCounted ==
    ASSUME IInv, TInv', UNCHANGED <<connectionid_count, created, fieldVars>>,
           \A a \in Addr :
              \/ clients_by_ip_port'[a] \in {0, clients_by_ip_port[a]}
              \/ /\ clients_by_ip_port'[a] \in 1..created
                 /\ ip_port[clients_by_ip_port'[a]] = a
                 /\ clients_by_connid'[connectionid[clients_by_ip_port'[a]]]
                        = clients_by_ip_port'[a],
           \A i \in ConnectionId :
              \/ clients_by_connid'[i] = clients_by_connid[i]
              \/ \E d \in 1..created :
                    /\ connectionid[d] = i
                    /\ \/ clients_by_ip_port'[ip_port[d]] # d
                       \/ clients_by_connid'[i] = d
    PROVE  IInv'
  <1>1. /\ created \in Nat /\ created <= MaxClient
        /\ clients_by_ip_port \in [Addr -> 0..created]
        /\ \A c \in 1..created : ip_port[c] \in Addr /\ connectionid[c] \in ConnectionId
    <2>1. created \in Nat /\ created <= MaxClient /\ MaxClient \in Nat
      BY Counts DEF IInv, TInv
    <2>. QED
      BY <2>1, SMTT(30) DEF IInv, TInv, TypeOK, Placed, ConnectionId
  <1>2. /\ ip_port' = ip_port /\ connectionid' = connectionid
        /\ created' = created /\ connectionid_count' = connectionid_count
    BY DEF fieldVars
  <1>3. AtOwnAddress' /\ Numbered'
    BY <1>1, <1>2 DEF IInv, AtOwnAddress, Numbered
  <1>4. ASSUME NEW a \in Addr, clients_by_ip_port'[a] # 0
        PROVE  clients_by_connid'[connectionid[clients_by_ip_port'[a]]]
                   = clients_by_ip_port'[a]
    <2>. DEFINE c == clients_by_ip_port'[a]
    <2>1. CASE c # clients_by_ip_port[a]
      BY <1>4, <2>1
    <2>2. CASE c = clients_by_ip_port[a]
      <3>1. /\ c \in 1..created /\ ip_port[c] = a
            /\ clients_by_connid[connectionid[c]] = c
        BY <1>1, <1>4, <2>2 DEF IInv, AtOwnAddress, EveryConnectionIsCounted
      <3>2. ASSUME NEW d \in 1..created, connectionid[d] = connectionid[c] PROVE d = c
        BY <3>1, <3>2 DEF IInv, Numbered
      <3>. QED
        BY <1>1, <3>1, <3>2
    <2>. QED
      BY <2>1, <2>2
  <1>. QED
    BY <1>2, <1>3, <1>4 DEF IInv, EveryConnectionIsCounted

LEMMA ConnectCounted ==
    ASSUME OneServer, IInv, TInv', NEW s \in Server, NEW a \in Addr, Connect(s, a)
    PROVE  IInv'
  <1>. DEFINE c == created + 1
              id == connectionid_count[s] + 1
  <1>1. /\ created \in Nat /\ created < MaxClient /\ MaxClient \in Nat /\ created' = c
        /\ AddOrUpdate(c, a, id, 0)
        /\ ip_port' = [ip_port EXCEPT ![c] = a]
        /\ connectionid' = [connectionid EXCEPT ![c] = id]
        /\ connectionid_count' = [connectionid_count EXCEPT ![s] = id]
    BY Counts DEF IInv, TInv, Connect, Create
  <1>2. /\ connectionid_count \in [Server -> 0..created]
        /\ ip_port \in [Client -> Addr \union {NoAddr}]
        /\ connectionid \in [Client -> 0..created]
        /\ clients_by_ip_port \in [Addr -> 0..created]
        /\ \A d \in 1..created : ip_port[d] \in Addr /\ connectionid[d] \in 1..created
        /\ 0 \in 0..MaxAccount
    BY ClientManagerAssumption DEF IInv, TInv, TypeOK, Placed
  <1>3. /\ c \in Client /\ c \notin 1..created /\ c # 0 /\ id \in ConnectionId
        /\ 1..c = 1..created \union {c} /\ 1..created \subseteq Client
    BY <1>1, <1>2 DEF Client, ConnectionId
  <1>4. /\ clients_by_ip_port'[a] = c
        /\ clients_by_connid'[id] = c
        /\ \A b \in Addr \ {a} :
              clients_by_ip_port'[b] \in {0, clients_by_ip_port[b]}
        /\ \A i \in ConnectionId \ {id} :
              \/ clients_by_connid'[i] = clients_by_connid[i]
              \/ \E d \in 1..created :
                    /\ connectionid[d] = i
                    /\ clients_by_ip_port'[ip_port[d]] # d
    <2>. HIDE DEF c, id
    <2>. QED
      BY <1>1, <1>2, <1>3, AddClears DEF IInv, TInv
  <1>5. /\ ip_port'[c] = a /\ connectionid'[c] = id
        /\ \A d \in 1..created : ip_port'[d] = ip_port[d]
                                 /\ connectionid'[d] = connectionid[d]
    BY <1>1, <1>2, <1>3
  <1>6. \A d \in 1..created : connectionid[d] < id
    BY <1>2 DEF IInv, Numbered
  <1>7. Numbered'
    <2>1. \A r \in Server : r = s
      BY DEF OneServer
    <2>2. connectionid_count'[s] = id /\ id \in Nat
      BY <1>1, <1>2
    <2>. HIDE DEF c, id
    <2>3. ASSUME NEW d \in 1..c, NEW r \in Server
          PROVE  connectionid'[d] <= connectionid_count'[r]
      BY <1>2, <1>3, <1>5, <1>6, <2>1, <2>2
    <2>4. ASSUME NEW d \in 1..c, NEW e \in 1..c, d # e
          PROVE  connectionid'[d] # connectionid'[e]
      BY <1>2, <1>3, <1>5, <1>6, <2>2, <2>4 DEF IInv, Numbered
    <2>. QED
      BY <1>1, <2>3, <2>4 DEF Numbered
  <1>8. ASSUME NEW b \in Addr, clients_by_ip_port'[b] # 0
        PROVE  /\ ip_port'[clients_by_ip_port'[b]] = b
               /\ clients_by_connid'[connectionid'[clients_by_ip_port'[b]]]
                      = clients_by_ip_port'[b]
    <2>. HIDE DEF c, id
    <2>1. CASE b = a
      BY <1>4, <1>5, <2>1
    <2>2. CASE b # a
      <3>1. clients_by_ip_port'[b] = clients_by_ip_port[b]
        BY <1>4, <1>8, <2>2
      <3>. DEFINE d == clients_by_ip_port[b]
      <3>2. d \in 1..created /\ ip_port[d] = b /\ clients_by_connid[connectionid[d]] = d
        BY <1>1, <1>2, <1>8, <3>1 DEF IInv, AtOwnAddress, EveryConnectionIsCounted
      <3>3. connectionid[d] \in ConnectionId \ {id}
        BY <1>1, <1>2, <1>6, <3>2 DEF ConnectionId
      <3>4. ASSUME NEW e \in 1..created, connectionid[e] = connectionid[d] PROVE e = d
        BY <3>2, <3>4 DEF IInv, Numbered
      <3>5. clients_by_connid'[connectionid[d]] = d
        BY <1>4, <3>1, <3>2, <3>3, <3>4
      <3>. QED
        BY <1>5, <3>1, <3>2, <3>5
    <2>. QED
      BY <2>1, <2>2
  <1>. QED
    BY <1>7, <1>8 DEF IInv, AtOwnAddress, EveryConnectionIsCounted

\* The registry after remove_client.
LEMMA RemoveCounted ==
    ASSUME IInv, TInv', UNCHANGED <<connectionid_count, created, fieldVars>>,
           NEW c \in 0..created, RemoveClient(c)
    PROVE  IInv'
  <1>1. /\ \A a \in Addr : clients_by_ip_port'[a] \in {0, clients_by_ip_port[a]}
        /\ \A i \in ConnectionId :
              \/ clients_by_connid'[i] = clients_by_connid[i]
              \/ /\ c # 0 /\ connectionid[c] = i
                 /\ clients_by_ip_port'[ip_port[c]] = 0
    BY RemoveClears DEF IInv, TInv
  <1>2. c # 0 => c \in 1..created
    BY Counts DEF IInv, TInv
  <1>3. \A i \in ConnectionId :
              \/ clients_by_connid'[i] = clients_by_connid[i]
              \/ \E d \in 1..created :
                    /\ connectionid[d] = i
                    /\ \/ clients_by_ip_port'[ip_port[d]] # d
                       \/ clients_by_connid'[i] = d
    BY <1>1, <1>2
  <1>. QED
    BY <1>1, <1>3, StepCounted

\* The registry as it was, or with another account entry.
LEMMA UntouchedCounted ==
    ASSUME IInv, TInv', UNCHANGED <<connectionid_count, created, fieldVars>>,
           UNCHANGED <<clients_by_ip_port, clients_by_connid>>
    PROVE  IInv'
  BY StepCounted

LEMMA AddCounted ==
    ASSUME IInv, TInv', NEW t \in Thread, AddLoggedIn(t)
    PROVE  IInv'
  <1>. DEFINE c == cli[t]
  <1>1. /\ UNCHANGED <<connectionid_count, created, fieldVars>>
        /\ AddOrUpdate(c, ip_port[c], connectionid[c], accountID[c])
        /\ c \in 1..created
    BY DEF AddLoggedIn, createdVars, IInv, TInv, HandlerHolds
  <1>2. /\ c \in Client /\ ip_port[c] \in Addr /\ connectionid[c] \in ConnectionId
        /\ accountID[c] \in 0..MaxAccount
    <2>1. /\ created \in Nat /\ MaxClient \in Nat /\ created <= MaxClient
          /\ c \in Client /\ accountID[c] \in 0..MaxAccount
      BY <1>1, Counts DEF IInv, TInv
    <2>. QED
      BY <1>1, <2>1 DEF IInv, TInv, Placed, ConnectionId
  <1>. HIDE DEF c
  <1>3. /\ clients_by_ip_port'[ip_port[c]] = c
        /\ clients_by_connid'[connectionid[c]] = c
        /\ \A a \in Addr \ {ip_port[c]} :
              clients_by_ip_port'[a] \in {0, clients_by_ip_port[a]}
        /\ \A i \in ConnectionId \ {connectionid[c]} :
              \/ clients_by_connid'[i] = clients_by_connid[i]
              \/ \E d \in 1..created :
                    /\ connectionid[d] = i
                    /\ clients_by_ip_port'[ip_port[d]] # d
    BY <1>1, <1>2, AddClears DEF IInv, TInv
  <1>4. \A a \in Addr :
              \/ clients_by_ip_port'[a] \in {0, clients_by_ip_port[a]}
              \/ /\ clients_by_ip_port'[a] \in 1..created
                 /\ ip_port[clients_by_ip_port'[a]] = a
                 /\ clients_by_connid'[connectionid[clients_by_ip_port'[a]]]
                        = clients_by_ip_port'[a]
    BY <1>1, <1>3
  <1>5. \A i \in ConnectionId :
              \/ clients_by_connid'[i] = clients_by_connid[i]
              \/ \E d \in 1..created :
                    /\ connectionid[d] = i
                    /\ \/ clients_by_ip_port'[ip_port[d]] # d
                       \/ clients_by_connid'[i] = d
    BY <1>1, <1>3
  <1>. QED
    BY <1>1, <1>4, <1>5, StepCounted

LEMMA Inductive == OneServer /\ IInv /\ [Next]_vars => IInv'
  <1>. SUFFICES ASSUME OneServer, IInv, [Next]_vars
                PROVE  IInv'
    OBVIOUS
  <1>0. TInv'
    BY TInductive DEF IInv
  <1>1. ASSUME NEW s \in Server, NEW a \in Addr, Connect(s, a) PROVE IInv'
    BY <1>0, <1>1, ConnectCounted
  <1>2. ASSUME NEW c \in Client, Close(c) \/ GrowOld(c) PROVE IInv'
    BY <1>0, <1>2, UntouchedCounted
       DEF Close, GrowOld, createdVars, managerVars
  <1>3. ASSUME NEW t \in Thread,
               \/ Request(t) \/ Disconnect(t) \/ Identify(t) \/ UpdateList(t)
               \/ HandleRequest(t) \/ LoginUser(t) \/ LogoffUser(t) \/ SweepClient(t)
               \/ \E c \in 1..created : Heartbeat(t, c)
        PROVE  IInv'
    BY <1>0, <1>3, UntouchedCounted
       DEF Request, Disconnect, Identify, UpdateList, HandleRequest, LoginUser,
           LogoffUser, SweepClient, Heartbeat, createdVars, managerVars
  <1>4. ASSUME NEW t \in Thread, AddLoggedIn(t) PROVE IInv'
    BY <1>0, <1>4, AddCounted
  <1>5. ASSUME NEW t \in Thread, RemoveLoggedOff(t) \/ ExpireClient(t) PROVE IInv'
    <2>1. cli[t] \in 0..created /\ UNCHANGED <<connectionid_count, created, fieldVars>>
      BY <1>5 DEF IInv, TInv, TypeOK, RemoveLoggedOff, ExpireClient, createdVars
    <2>2. RemoveClient(cli[t]) \/ UNCHANGED managerVars
      BY <1>5 DEF RemoveLoggedOff, ExpireClient
    <2>. QED
      BY <1>0, <2>1, <2>2, RemoveCounted, UntouchedCounted DEF managerVars
  <1>6. ASSUME NEW t \in Thread, EvictAccount(t) PROVE IInv'
    <2>. DEFINE c == clientsByAccountID[accountID[cli[t]]]
    <2>1. RemoveClient(c) /\ UNCHANGED <<connectionid_count, created, fieldVars>>
      BY <1>6 DEF EvictAccount, createdVars
    <2>2. cli[t] \in Client
      BY <1>6, Counts DEF EvictAccount, IInv, TInv, HandlerHolds
    <2>3. c \in 0..created
      BY <2>2 DEF IInv, TInv, TypeOK
    <2>. HIDE DEF c
    <2>. QED
      BY <1>0, <2>1, <2>3, RemoveCounted
  <1>7. CASE UNCHANGED vars
    BY <1>0, <1>7, UntouchedCounted DEF vars, createdVars, managerVars
  <1>. QED
    BY <1>1, <1>2, <1>3, <1>4, <1>5, <1>6, <1>7 DEF Next, HandlerStep

(* With one server handing out connection ids, every registered connection is  *)
(* found under its id, so get_current_user_count misses none, whatever the     *)
(* interleaving of logins, logoffs, reconnects and sweeps.                     *)
THEOREM ConnectionsAreCounted == OneServer => (Spec => []EveryConnectionIsCounted)
  <1>1. IInv => EveryConnectionIsCounted
    BY DEF IInv
  <1>. SUFFICES ASSUME OneServer PROVE Spec => []EveryConnectionIsCounted
    OBVIOUS
  <1>2. IInv /\ [Next]_vars => IInv'
    BY Inductive
  <1>. QED
    BY <1>1, <1>2, InitIInv, PTL DEF Spec

-----------------------------------------------------------------------------
(* Handlers that run one at a time.                                        *)

\* One handler at a time and one server; a connection logs in to one account, which
\* it does not name before.
OneAtATime ==
    /\ \A t, u \in Thread : t = u
    /\ OneServer
    /\ HeaderNames = FALSE
    /\ Relogin = FALSE

Names ==
    \A c \in Client : /\ accountID[c] # 0 <=> username[c]
                      /\ username[c] => identified[c]

Handling ==
    \A t \in Thread :
        /\ pc[t] = "identify" => ~identified[cli[t]]
        /\ pc[t] = "list" => accountID[cli[t]] = 0
        /\ pc[t] \in {"list", "request", "login", "add"} => identified[cli[t]]
        /\ pc[t] \in {"add", "expire", "evict"} => username[cli[t]]
        /\ pc[t] \notin {"sweep", "expire", "evict"} => snapshot[t] = {}

InHand(c) == \E t \in Thread : pc[t] # "idle" /\ (c = cli[t] \/ c \in snapshot[t])

\* Nobody else is at the address of the Client.
Alone(c) ==
    /\ clients_by_ip_port[ip_port[c]] \in {0, c}
    /\ \A d \in socket : ip_port[d] = ip_port[c] => d = c

Undisturbed ==
    /\ \A d \in socket : ip_port[d] \in TcpAddr
    /\ \A c \in 1..created : c \in socket \/ InHand(c) => Alone(c)

KeyedById ==
    \A i \in ConnectionId : clients_by_connid[i] # 0 => connectionid[clients_by_connid[i]] = i

SInv ==
    /\ IInv
    /\ Names
    /\ Handling
    /\ Undisturbed
    /\ KeyedById
    /\ AccountsReachable
    /\ OnlyConnectionsAreCounted

\* A logged-in Client that is registered is the one of its account, but for the login
\* that is about to file it.
Filed ==
    \A c \in 1..created :
        Registered(c) /\ username[c] =>
            \/ clientsByAccountID[accountID[c]] = c
            \/ \E t \in Thread : pc[t] = "add" /\ cli[t] = c

\* During a sweep nobody takes the account of a Client it has yet to visit.
Visiting(t) ==
    CASE pc[t] = "sweep" -> snapshot[t]
      [] pc[t] \in {"expire", "evict"} -> snapshot[t] \union {cli[t]}
      [] OTHER -> {}

Swept ==
    \A t \in Thread :
        /\ \A c \in Visiting(t) :
              username[c] => clientsByAccountID[accountID[c]] \in {0, c}
        /\ pc[t] \in {"expire", "evict"} => last_recvd_heartbeat[cli[t]] = "old"

\* Who has logged in exists, and over UDP nobody logs off for good.
Logins ==
    /\ \A c \in Client : username[c] => c \in 1..created
    /\ \A t \in Thread : pc[t] # "remove"

UInv == SInv /\ Filed /\ Swept /\ Logins

-----------------------------------------------------------------------------
(* The methods of the manager.                                             *)

LEMMA Typed ==
    ASSUME TInv
    PROVE  /\ created \in Nat /\ MaxClient \in Nat /\ MaxAccount \in Nat
           /\ clients_by_ip_port \in [Addr -> 0..created]
           /\ clientsByAccountID \in [0..MaxAccount -> 0..created]
           /\ clients_by_connid \in [ConnectionId -> 0..created]
           /\ \A c \in 1..created : /\ c \in Client /\ c # 0
                                    /\ ip_port[c] \in Addr
                                    /\ connectionid[c] \in ConnectionId /\ connectionid[c] # 0
                                    /\ accountID[c] \in 0..MaxAccount
           /\ \A c \in 0..created : c = 0 \/ c \in 1..created
  <1>1. created \in Nat /\ MaxClient \in Nat /\ MaxAccount \in Nat /\ created <= MaxClient
    BY Counts, ClientManagerAssumption DEF TInv
  <1>2. \A c \in 1..created : /\ c \in Client /\ c # 0 /\ accountID[c] \in 0..MaxAccount
                              /\ ip_port[c] \in Addr /\ connectionid[c] \in 1..created
    BY <1>1, Counts DEF TInv, Placed
  <1>3. \A i \in 1..created : i \in ConnectionId /\ i # 0
    BY <1>1 DEF ConnectionId
  <1>4. \A c \in 0..created : c = 0 \/ c \in 1..created
    BY <1>1
  <1> QED  BY <1>1, <1>2, <1>3, <1>4 DEF TInv, TypeOK

\* What is kept of an entry: it stays as it was, for a Client that is at its address.
Keeps(map, map2, K) ==
    \A k \in K : map2[k] # 0 =>
        map2[k] = map[k] /\ clients_by_ip_port'[ip_port[map[k]]] = map[k]

\* remove_client of a Client with nobody else at its address.
LEMMA RemoveKeeps ==
    ASSUME SInv, NEW c \in 0..created, RemoveClient(c),
           c # 0 => clients_by_ip_port[ip_port[c]] \in {0, c}
    PROVE  /\ \A a \in Addr : clients_by_ip_port'[a] \in {0, clients_by_ip_port[a]}
           /\ \A x \in 0..MaxAccount : clientsByAccountID'[x] \in {0, clientsByAccountID[x]}
           /\ Keeps(clientsByAccountID, clientsByAccountID', Account)
           /\ Keeps(clients_by_connid, clients_by_connid', ConnectionId)
  <1>1. TInv
    BY DEF SInv, IInv
  <1>2. CASE c = 0
    BY <1>1, <1>2, Typed
       DEF RemoveClient, Without, WithoutAddress, Keeps, SInv, AccountsReachable,
           OnlyConnectionsAreCounted, Registered, Account
  <1>3. CASE c # 0
    <2>1. c \in 1..created
      BY <1>1, <1>3, Typed
    <2>2. /\ clients_by_ip_port' = [clients_by_ip_port EXCEPT ![ip_port[c]] = 0]
          /\ clientsByAccountID' = IF accountID[c] = 0 THEN clientsByAccountID
                                   ELSE [clientsByAccountID EXCEPT ![accountID[c]] = 0]
          /\ clients_by_connid' = [clients_by_connid EXCEPT ![connectionid[c]] = 0]
      BY <1>1, <1>3, <2>1, Typed DEF RemoveClient, Without, WithoutAddress
    <2>3. \A a \in Addr : clients_by_ip_port'[a] = IF a = ip_port[c] THEN 0
                                                  ELSE clients_by_ip_port[a]
      BY <1>1, <2>2, Typed
    <2>4. \A x \in 0..MaxAccount :
              clientsByAccountID'[x] = IF x = accountID[c] /\ x # 0 THEN 0
                                       ELSE clientsByAccountID[x]
      BY <1>1, <2>1, <2>2, Typed
    <2>5. \A i \in ConnectionId :
              clients_by_connid'[i] = IF i = connectionid[c] THEN 0 ELSE clients_by_connid[i]
      BY <1>1, <2>2, Typed
    <2>6. ASSUME NEW d \in 1..created, d # c, Registered(d)
          PROVE  clients_by_ip_port'[ip_port[d]] = d
      BY <1>1, <1>3, <2>3, <2>6, Typed DEF Registered
    <2>7. Keeps(clientsByAccountID, clientsByAccountID', Account)
      <3> SUFFICES ASSUME NEW x \in Account, clientsByAccountID'[x] # 0
                   PROVE  /\ clientsByAccountID'[x] = clientsByAccountID[x]
                          /\ clients_by_ip_port'[ip_port[clientsByAccountID[x]]]
                                 = clientsByAccountID[x]
        BY DEF Keeps
      <3>1. x \in 0..MaxAccount /\ x # 0
        BY <1>1, Typed DEF Account
      <3>2. clientsByAccountID'[x] = clientsByAccountID[x] /\ x # accountID[c]
        BY <2>4, <3>1
      <3> DEFINE d == clientsByAccountID[x]
      <3>3. d \in 1..created
        BY <1>1, <3>1, <3>2, Typed
      <3>4. Registered(d) /\ accountID[d] = x
        BY <3>2 DEF SInv, AccountsReachable
      <3> HIDE DEF d
      <3>5. clients_by_ip_port'[ip_port[d]] = d
        BY <2>6, <3>2, <3>3, <3>4
      <3> QED  BY <3>2, <3>5 DEF d
    <2>8. Keeps(clients_by_connid, clients_by_connid', ConnectionId)
      <3> SUFFICES ASSUME NEW i \in ConnectionId, clients_by_connid'[i] # 0
                   PROVE  /\ clients_by_connid'[i] = clients_by_connid[i]
                          /\ clients_by_ip_port'[ip_port[clients_by_connid[i]]]
                                 = clients_by_connid[i]
        BY DEF Keeps
      <3>2. clients_by_connid'[i] = clients_by_connid[i] /\ i # connectionid[c]
        BY <2>5
      <3> DEFINE d == clients_by_connid[i]
      <3>3. d \in 1..created
        BY <1>1, <3>2, Typed
      <3>4. Registered(d) /\ connectionid[d] = i
        BY <3>2 DEF SInv, OnlyConnectionsAreCounted, KeyedById
      <3> HIDE DEF d
      <3>5. clients_by_ip_port'[ip_port[d]] = d
        BY <2>6, <3>2, <3>3, <3>4
      <3> QED  BY <3>2, <3>5 DEF d
    <2> QED  BY <2>3, <2>4, <2>7, <2>8
  <1> QED  BY <1>2, <1>3

\* add_or_update_client of a Client that is filed under no other key.
FiledOnlyAs(c, account, id) ==
    /\ \A x \in Account : clientsByAccountID[x] = c => x = account
    /\ \A i \in ConnectionId : clients_by_connid[i] = c => i = id

LEMMA AddKeeps ==
    ASSUME SInv, NEW c \in Client, NEW addr \in Addr, NEW id \in ConnectionId,
           NEW account \in 0..MaxAccount, AddOrUpdate(c, addr, id, account),
           FiledOnlyAs(c, account, id)
    PROVE  /\ clients_by_ip_port'[addr] = c
           /\ \A a \in Addr \ {addr} : clients_by_ip_port'[a] \in {0, clients_by_ip_port[a]}
           /\ account # 0 => clientsByAccountID'[account] = c
           /\ Keeps(clientsByAccountID, clientsByAccountID', Account \ {account})
           /\ clients_by_connid'[id] = c
           /\ Keeps(clients_by_connid, clients_by_connid', ConnectionId \ {id})
  <1>1. TInv /\ c # 0 /\ \A x \in Account : x \in 0..MaxAccount /\ x # 0
    BY ClientManagerAssumption DEF SInv, IInv, Client, Account
  <1>2. PICK o : o = OldAtAddress(c, addr)
    OBVIOUS
  <1>3. PICK accounts : accounts = Without(clientsByAccountID, accountID, o)
    OBVIOUS
  <1>4. PICK p : p = OldOfAccount(c, account, accounts)
    OBVIOUS
  <1>5. /\ clients_by_ip_port' = [WithoutAddress(p) EXCEPT ![addr] = c]
        /\ clients_by_connid' =
              [Without(Without(clients_by_connid, connectionid, o), connectionid, p)
                  EXCEPT ![id] = c]
        /\ clientsByAccountID' = IF account = 0 THEN accounts
                                 ELSE [accounts EXCEPT ![account] = c]
    BY <1>2, <1>3, <1>4 DEF AddOrUpdate
  <1>6. /\ o \in 0..created /\ o # c
        /\ clients_by_ip_port[addr] \in {c, o}
        /\ o # 0 => o \in 1..created /\ ip_port[o] = addr
    BY <1>1, <1>2, Typed DEF OldAtAddress, SInv, IInv, AtOwnAddress
  <1>7. /\ accounts \in [0..MaxAccount -> 0..created]
        /\ \A x \in Account : accounts[x] # 0 =>
              /\ accounts[x] = clientsByAccountID[x]
              /\ accounts[x] \in 1..created
              /\ accounts[x] # o
    <2>1. accounts \in [0..MaxAccount -> 0..created]
      <3>1. 0 \in 0..created
        BY <1>1, Typed
      <3> QED  BY <1>1, <1>3, <3>1, Typed, WithoutType
    <2>2. ASSUME NEW x \in Account, accounts[x] # 0
          PROVE  accounts[x] = clientsByAccountID[x]
      BY <1>1, <1>3, <2>2, Typed DEF Without
    <2>3. ASSUME NEW x \in Account, accounts[x] # 0
          PROVE  accounts[x] # o
      <3>1. x \in 0..MaxAccount /\ x # 0 /\ accounts[x] = clientsByAccountID[x]
        BY <1>1, <2>2, <2>3
      <3>2. accountID[clientsByAccountID[x]] = x
        BY <2>3, <3>1 DEF SInv, AccountsReachable
      <3>3. o # 0 /\ accountID[o] = x => accounts[x] = 0
        BY <1>1, <1>3, <3>1, Typed DEF Without
      <3> QED  BY <2>3, <3>1, <3>2, <3>3
    <2>4. \A x \in Account : accounts[x] # 0 => accounts[x] \in 1..created
      BY <1>1, <2>1, Typed
    <2> QED  BY <2>1, <2>2, <2>3, <2>4
  <1>8. /\ p \in 0..created /\ p # c
        /\ p # 0 => /\ p \in 1..created /\ p # o
                    /\ account # 0 /\ accountID[p] = account /\ Registered(p)
    <2>1. CASE account = 0
      BY <1>1, <1>4, <2>1, Typed DEF OldOfAccount
    <2>2. CASE account # 0 /\ accounts[account] \in {0, c}
      BY <1>1, <1>4, <2>2, Typed DEF OldOfAccount
    <2>3. CASE account # 0 /\ accounts[account] \notin {0, c}
      <3>1. p = accounts[account]
        BY <1>4, <2>3 DEF OldOfAccount
      <3>2. account \in Account
        BY <1>1, <2>3, Typed DEF Account
      <3>3. p = clientsByAccountID[account] /\ p \in 1..created /\ p # o /\ p # 0
        BY <1>7, <2>3, <3>1, <3>2
      <3>4. Registered(p) /\ accountID[p] = account
        BY <3>2, <3>3 DEF SInv, AccountsReachable
      <3> QED  BY <1>1, <2>3, <3>1, <3>3, <3>4, Typed
    <2> QED  BY <2>1, <2>2, <2>3
  <1>9. /\ clients_by_ip_port'[addr] = c
        /\ \A a \in Addr \ {addr} :
              clients_by_ip_port'[a] = IF p # 0 /\ ip_port[p] = a THEN 0
                                       ELSE clients_by_ip_port[a]
    BY <1>1, <1>5, <1>8, Typed DEF WithoutAddress
  <1>10. ASSUME NEW d \in 1..created, d # c, d # o, d # p, Registered(d)
         PROVE  clients_by_ip_port'[ip_port[d]] = d
    <2>1. ip_port[d] \in Addr /\ clients_by_ip_port[ip_port[d]] = d
      BY <1>10 DEF Registered
    <2>2. ip_port[d] # addr
      BY <1>6, <1>10, <2>1
    <2>3. p # 0 => ip_port[p] # ip_port[d]
      BY <1>8, <1>10, <2>1 DEF Registered
    <2> QED  BY <1>9, <2>1, <2>2, <2>3
  <1>11. account # 0 => clientsByAccountID'[account] = c
    BY <1>5, <1>7
  <1>12. Keeps(clientsByAccountID, clientsByAccountID', Account \ {account})
    <2> SUFFICES ASSUME NEW x \in Account, x # account, clientsByAccountID'[x] # 0
                 PROVE  /\ clientsByAccountID'[x] = clientsByAccountID[x]
                        /\ clients_by_ip_port'[ip_port[clientsByAccountID[x]]]
                               = clientsByAccountID[x]
      BY DEF Keeps
    <2>1. clientsByAccountID'[x] = accounts[x]
      BY <1>1, <1>5, <1>7
    <2>2. PICK d : d = clientsByAccountID[x]
      OBVIOUS
    <2>3. accounts[x] = d /\ d \in 1..created /\ d # o /\ d # 0
      BY <1>7, <2>1, <2>2
    <2>4. Registered(d) /\ accountID[d] = x
      BY <2>2, <2>3 DEF SInv, AccountsReachable
    <2>5. d # c /\ d # p
      BY <1>8, <2>2, <2>3, <2>4 DEF FiledOnlyAs
    <2>6. clients_by_ip_port'[ip_port[d]] = d
      BY <1>10, <2>3, <2>4, <2>5
    <2> QED  BY <2>1, <2>2, <2>3, <2>6
  <1>13. /\ clients_by_connid'[id] = c
         /\ \A i \in ConnectionId \ {id} :
               clients_by_connid'[i] = IF \/ o # 0 /\ connectionid[o] = i
                                          \/ p # 0 /\ connectionid[p] = i
                                       THEN 0 ELSE clients_by_connid[i]
    BY <1>1, <1>5, <1>6, <1>8, Typed DEF Without
  <1>14. Keeps(clients_by_connid, clients_by_connid', ConnectionId \ {id})
    <2> SUFFICES ASSUME NEW i \in ConnectionId, i # id, clients_by_connid'[i] # 0
                 PROVE  /\ clients_by_connid'[i] = clients_by_connid[i]
                        /\ clients_by_ip_port'[ip_port[clients_by_connid[i]]]
                               = clients_by_connid[i]
      BY DEF Keeps
    <2>1. PICK d : d = clients_by_connid[i]
      OBVIOUS
    <2>2. /\ clients_by_connid'[i] = d /\ d # 0
          /\ o # 0 => connectionid[o] # i
          /\ p # 0 => connectionid[p] # i
      BY <1>13, <2>1
    <2>3. d \in 1..created
      BY <1>1, <2>1, <2>2, Typed
    <2>4. Registered(d) /\ connectionid[d] = i
      BY <2>1, <2>2 DEF SInv, OnlyConnectionsAreCounted, KeyedById
    <2>5. d # c /\ d # o /\ d # p
      BY <2>1, <2>2, <2>4 DEF FiledOnlyAs
    <2>6. clients_by_ip_port'[ip_port[d]] = d
      BY <1>10, <2>3, <2>4, <2>5
    <2> QED  BY <2>1, <2>2, <2>6
  <1>15. \A a \in Addr \ {addr} : clients_by_ip_port'[a] \in {0, clients_by_ip_port[a]}
    BY <1>9
  <1> QED  BY <1>9, <1>11, <1>12, <1>13, <1>14, <1>15

-----------------------------------------------------------------------------
(* The handlers.                                                           *)

\* A Client that a handler reaches, or that is registered, is alone at its address.
LEMMA RegisteredAlone ==
    ASSUME TInv, Undisturbed, NEW c \in 1..created, Registered(c)
    PROVE  Alone(c)
  <1>1. ASSUME NEW d \in socket, ip_port[d] = ip_port[c]
        PROVE  d = c
    <2>1. d \in 1..created
      BY DEF TInv, TypeOK
    <2>2. clients_by_ip_port[ip_port[d]] \in {0, d}
      BY <2>1 DEF Undisturbed, Alone
    <2> QED  BY <1>1, <2>2, Typed DEF Registered
  <1> QED  BY <1>1 DEF Registered, Alone

LEMMA ReachedAlone ==
    ASSUME TInv, Undisturbed, NEW c \in 1..created, Reaches(c)
    PROVE  Alone(c)
  <1>1. CASE ViaTcp(c)
    BY <1>1 DEF Reaches, Undisturbed
  <1>2. CASE ~ ViaTcp(c)
    BY <1>2, Typed, RegisteredAlone DEF Reaches, Registered
  <1> QED  BY <1>1, <1>2

\* What a handler does besides changing the registry.
Book ==
    /\ Names'
    /\ Handling'
    /\ UNCHANGED <<created, fieldVars>> /\ socket' \subseteq socket
    /\ \A c \in 1..created : accountID[c] # 0 => accountID'[c] = accountID[c]
    /\ \A c \in 1..created : InHand(c)' => InHand(c) \/ Alone(c)

LEMMA BeginBook ==
    ASSUME OneAtATime, SInv, NEW t \in Thread, NEW c \in 1..created, Alone(c),
           NEW label, Begin(t, c, label),
           label \in {"request", "identify", "logoff", "sweep"},
           label = "request" => identified[c], label = "identify" => ~identified[c],
           label # "sweep" => UNCHANGED snapshot,
           \A d \in snapshot'[t] : d \in 1..created => Alone(d),
           UNCHANGED <<createdVars, identityVars>>
    PROVE  Book
  <1>1. \A u \in Thread : u = t
    BY DEF OneAtATime
  <1>2. TInv /\ pc[t] = "idle" /\ snapshot[t] = {}
    BY DEF SInv, IInv, Handling, Begin
  <1>3. pc'[t] = label /\ cli'[t] = c
    BY <1>2 DEF Begin, Goto, TInv, TypeOK
  <1>4. Names'
    BY DEF SInv, Names, identityVars
  <1>5. Handling'
    BY <1>1, <1>2, <1>3 DEF Handling, identityVars
  <1>6. \A d \in 1..created : InHand(d)' => Alone(d)
    BY <1>1, <1>3 DEF InHand
  <1> QED  BY <1>4, <1>5, <1>6 DEF Book, createdVars, identityVars

LEMMA RequestBook ==
    ASSUME OneAtATime, SInv, NEW t \in Thread, Request(t)
    PROVE  Book
  <1>1. PICK c \in 1..created :
            /\ Reaches(c)
            /\ Begin(t, c, IF identified[c] THEN "request" ELSE "identify")
    BY DEF Request
  <1>2. PICK label : label = IF identified[c] THEN "request" ELSE "identify"
    OBVIOUS
  <1>3. TInv /\ Undisturbed /\ snapshot[t] = {}
    BY <1>1 DEF SInv, IInv, Handling, Begin
  <1>4. Alone(c)
    BY <1>1, <1>3, ReachedAlone
  <1>5. UNCHANGED <<createdVars, identityVars, sweepVars>> /\ UNCHANGED snapshot
    BY DEF Request, sweepVars
  <1>6. Begin(t, c, label)
    BY <1>1, <1>2
  <1>7. /\ label \in {"request", "identify", "logoff", "sweep"} /\ label # "sweep"
        /\ label = "request" => identified[c]
        /\ label = "identify" => ~identified[c]
    BY <1>2
  <1> QED  BY <1>3, <1>4, <1>5, <1>6, <1>7, BeginBook

LEMMA DisconnectBook ==
    ASSUME OneAtATime, SInv, NEW t \in Thread, Disconnect(t)
    PROVE  Book
  <1>1. PICK a \in Addr \ TcpAddr : /\ clients_by_ip_port[a] # 0
                                   /\ Begin(t, clients_by_ip_port[a], "logoff")
    BY DEF Disconnect
  <1>2. PICK c : c = clients_by_ip_port[a]
    OBVIOUS
  <1>3. TInv /\ Undisturbed /\ snapshot[t] = {}
    BY <1>1 DEF SInv, IInv, Handling, Begin
  <1>4. c \in 1..created
    BY <1>1, <1>2, <1>3, Typed
  <1>5. Registered(c)
    BY <1>1, <1>2 DEF SInv, IInv, AtOwnAddress, Registered
  <1>6. Alone(c)
    BY <1>3, <1>4, <1>5, RegisteredAlone
  <1>7. UNCHANGED <<createdVars, identityVars, sweepVars>> /\ UNCHANGED snapshot
    BY DEF Disconnect, sweepVars
  <1>8. Begin(t, c, "logoff")
    BY <1>1, <1>2
  <1> QED  BY <1>3, <1>4, <1>6, <1>7, <1>8, BeginBook

LEMMA HeartbeatBook ==
    ASSUME OneAtATime, SInv, NEW t \in Thread, NEW c \in 1..created, Heartbeat(t, c)
    PROVE  Book
  <1>1. TInv /\ Undisturbed /\ UNCHANGED <<createdVars, identityVars>>
    BY DEF SInv, IInv, Heartbeat
  <1>2. Alone(c)
    BY <1>1, ReachedAlone DEF Heartbeat
  <1>3. CASE /\ Begin(t, c, "sweep")
             /\ snapshot' = [snapshot EXCEPT ![t] = {clients_by_ip_port[a] : a \in Addr} \ {0}]
    <2>1. snapshot'[t] = {clients_by_ip_port[a] : a \in Addr} \ {0}
      BY <1>1, <1>3 DEF TInv, TypeOK
    <2>2. ASSUME NEW d \in snapshot'[t], d \in 1..created
          PROVE  Alone(d)
      <3>1. Registered(d)
        BY <2>1, <2>2 DEF SInv, IInv, AtOwnAddress, Registered
      <3> QED  BY <1>1, <2>2, <3>1, RegisteredAlone
    <2> QED  BY <1>1, <1>2, <1>3, <2>2, BeginBook
  <1>4. CASE UNCHANGED <<pc, cli, sweepVars>>
    <2>1. Names'
      BY <1>1 DEF SInv, Names, identityVars
    <2>2. Handling'
      BY <1>1, <1>4 DEF SInv, Handling, identityVars, sweepVars
    <2>3. \A d \in 1..created : InHand(d)' => InHand(d)
      BY <1>4 DEF InHand, sweepVars
    <2> QED  BY <1>1, <2>1, <2>2, <2>3 DEF Book, createdVars, identityVars
  <1> QED  BY <1>3, <1>4 DEF Heartbeat


\* A step of a handler that goes on, or comes to its end.
LEMMA GoOnBook ==
    ASSUME OneAtATime, SInv, NEW t \in Thread, pc[t] # "idle",
           NEW label, Goto(t, label),
           \/ UNCHANGED cli
           \/ label = "idle"
           \/ label = "expire" /\ \E c \in snapshot[t] : cli' = [cli EXCEPT ![t] = c],
           snapshot'[t] \subseteq snapshot[t],
           UNCHANGED <<created, fieldVars, socket>>, Names',
           label \notin {"sweep", "expire", "evict"} => snapshot'[t] = {},
           label # "identify",
           label \in {"list", "request", "login", "add"} => identified'[cli'[t]],
           label \in {"add", "expire", "evict"} => username'[cli'[t]],
           label = "list" => accountID'[cli'[t]] = 0,
           \A c \in 1..created : accountID[c] # 0 => accountID'[c] = accountID[c]
    PROVE  Book
  <1>1. \A u \in Thread : u = t
    BY DEF OneAtATime
  <1>2. TInv
    BY DEF SInv, IInv
  <1>3. pc'[t] = label
    BY <1>2 DEF Goto, TInv, TypeOK
  <1>4. Handling'
    BY <1>1, <1>3 DEF Handling
  <1>5. ASSUME NEW c \in 1..created, InHand(c)'
        PROVE  InHand(c)
    <2>1. label # "idle" /\ (c = cli'[t] \/ c \in snapshot'[t])
      BY <1>1, <1>3, <1>5 DEF InHand
    <2>2. CASE UNCHANGED cli \/ c \in snapshot'[t]
      BY <2>1, <2>2 DEF InHand
    <2>3. CASE c = cli'[t] /\ \E d \in snapshot[t] : cli' = [cli EXCEPT ![t] = d]
      <3>1. c \in snapshot[t]
        BY <1>2, <2>3 DEF TInv, TypeOK
      <3> QED  BY <3>1 DEF InHand
    <2> QED  BY <2>1, <2>2, <2>3
  <1> QED  BY <1>4, <1>5 DEF Book

\* The Client and the snapshot of a handler under way.
LEMMA UnderWay ==
    ASSUME SInv, NEW t \in Thread, pc[t] # "idle"
    PROVE  /\ TInv
           /\ cli[t] \in 1..created /\ cli[t] \in Client
           /\ Alone(cli[t])
           /\ pc[t] \notin {"sweep", "expire", "evict"} => snapshot[t] = {}
  <1>1. TInv /\ cli[t] \in 1..created
    BY DEF SInv, IInv, TInv, HandlerHolds
  <1>2. Alone(cli[t])
    BY <1>1 DEF SInv, Undisturbed, InHand
  <1> QED  BY <1>1, <1>2, Typed DEF SInv, Handling

LEMMA IdentifyBook ==
    ASSUME OneAtATime, SInv, NEW t \in Thread, Identify(t)
    PROVE  Book /\ UNCHANGED managerVars
  <1>1. /\ pc[t] = "identify" /\ Goto(t, "list")
        /\ UNCHANGED <<managerVars, createdVars, username, cli, sweepVars>>
    BY DEF Identify
  <1>2. PICK c : c = cli[t]
    OBVIOUS
  <1>3. TInv /\ c \in 1..created /\ c \in Client /\ snapshot[t] = {}
    BY <1>1, <1>2, UnderWay
  <1>4. /\ accountID' = [accountID EXCEPT ![c] = 0]
        /\ identified' = [identified EXCEPT ![c] = TRUE]
    BY <1>2 DEF Identify, OneAtATime
  <1>5. accountID[c] = 0
    BY <1>1, <1>2, <1>3 DEF SInv, Names, Handling
  <1>6. /\ accountID'[c] = 0 /\ identified'[c] /\ \A d \in Client : accountID'[d] = accountID[d]
        /\ \A d \in Client : identified[d] => identified'[d]
    BY <1>3, <1>4, <1>5 DEF TInv, TypeOK
  <1>7. Names'
    BY <1>1, <1>6 DEF SInv, Names
  <1>8. cli'[t] = c /\ snapshot'[t] = {} /\ UNCHANGED cli
    BY <1>1, <1>2, <1>3 DEF sweepVars
  <1>9. UNCHANGED <<created, fieldVars, socket>>
    BY <1>1 DEF createdVars
  <1>10. \A d \in 1..created : accountID'[d] = accountID[d]
    BY <1>3, <1>6, Typed
  <1> QED  BY <1>1, <1>6, <1>7, <1>8, <1>9, <1>10, GoOnBook

LEMMA UpdateListBook ==
    ASSUME OneAtATime, SInv, NEW t \in Thread, UpdateList(t)
    PROVE  /\ Book
           /\ UNCHANGED <<clients_by_ip_port, clients_by_connid>>
           /\ \A x \in Account : clientsByAccountID'[x] = clientsByAccountID[x]
  <1>1. /\ pc[t] = "list" /\ Goto(t, "request")
        /\ UNCHANGED <<clients_by_ip_port, clients_by_connid, createdVars, identityVars,
                       cli, sweepVars>>
        /\ clientsByAccountID' = [clientsByAccountID EXCEPT ![accountID[cli[t]]] = cli[t]]
    BY DEF UpdateList
  <1>2. TInv /\ snapshot[t] = {} /\ identified[cli[t]] /\ accountID[cli[t]] = 0
    BY <1>1, UnderWay DEF SInv, Handling
  <1>3. \A x \in Account : clientsByAccountID'[x] = clientsByAccountID[x]
    BY <1>1, <1>2, Typed DEF Account
  <1>4. Names' /\ identified'[cli'[t]] /\ snapshot'[t] = {} /\ UNCHANGED cli
    BY <1>1, <1>2 DEF SInv, Names, identityVars, sweepVars
  <1>5. /\ UNCHANGED <<created, fieldVars, socket>>
        /\ \A c \in 1..created : accountID'[c] = accountID[c]
    BY <1>1 DEF createdVars, identityVars
  <1>6. Book
    BY <1>1, <1>2, <1>4, <1>5, GoOnBook
  <1> QED  BY <1>1, <1>3, <1>6

LEMMA RequestedBook ==
    ASSUME OneAtATime, SInv, NEW t \in Thread, HandleRequest(t) \/ LogoffUser(t)
    PROVE  Book /\ UNCHANGED managerVars
  <1>1. PICK label \in {"login", "logoff", "idle", "remove"} :
            /\ Goto(t, label) /\ (UNCHANGED cli \/ label = "idle")
            /\ label = "login" => pc[t] = "request" /\ UNCHANGED cli
    BY DEF HandleRequest, LogoffUser, Finish
  <1>2. /\ pc[t] \in {"request", "logoff"}
        /\ UNCHANGED <<managerVars, createdVars, identityVars, sweepVars>>
    BY DEF HandleRequest, LogoffUser
  <1>3. TInv /\ snapshot[t] = {} /\ (pc[t] = "request" => identified[cli[t]])
    BY <1>2, UnderWay DEF SInv, Handling
  <1>4. Names' /\ snapshot'[t] = {}
    BY <1>2, <1>3 DEF SInv, Names, identityVars, sweepVars
  <1>5. /\ UNCHANGED <<created, fieldVars, socket>>
        /\ \A c \in 1..created : accountID'[c] = accountID[c]
        /\ label = "login" => identified'[cli'[t]]
    BY <1>1, <1>2, <1>3 DEF createdVars, identityVars
  <1> QED  BY <1>1, <1>2, <1>3, <1>4, <1>5, GoOnBook

LEMMA LoginBook ==
    ASSUME OneAtATime, SInv, NEW t \in Thread, LoginUser(t)
    PROVE  Book /\ UNCHANGED managerVars
  <1>1. /\ pc[t] = "login" /\ Goto(t, "add")
        /\ UNCHANGED <<managerVars, createdVars, identified, cli, sweepVars>>
    BY DEF LoginUser
  <1>2. PICK c : c = cli[t]
    OBVIOUS
  <1>3. TInv /\ c \in 1..created /\ c \in Client /\ snapshot[t] = {} /\ identified[c]
    BY <1>1, <1>2, UnderWay DEF SInv, Handling
  <1>4. PICK x \in Account : /\ accountID[c] # 0 => x = accountID[c]
                             /\ accountID' = [accountID EXCEPT ![c] = x]
    BY <1>2 DEF LoginUser, OneAtATime
  <1>5. username' = [username EXCEPT ![c] = TRUE]
    BY <1>2 DEF LoginUser
  <1>6. x # 0
    BY <1>3, Typed DEF Account
  <1>7. /\ accountID'[c] # 0 /\ username'[c] /\ identified'[c]
        /\ accountID[c] # 0 => accountID'[c] = accountID[c]
        /\ \A d \in Client \ {c} : accountID'[d] = accountID[d] /\ username'[d] = username[d]
    BY <1>1, <1>3, <1>4, <1>5, <1>6 DEF TInv, TypeOK
  <1>8. Names'
    BY <1>1, <1>7 DEF SInv, Names
  <1>9. /\ UNCHANGED <<created, fieldVars, socket, cli>> /\ cli'[t] = c /\ snapshot'[t] = {}
        /\ \A d \in 1..created : accountID[d] # 0 => accountID'[d] = accountID[d]
    BY <1>1, <1>2, <1>3, <1>7, Typed DEF createdVars, sweepVars
  <1> QED  BY <1>1, <1>7, <1>8, <1>9, GoOnBook

LEMMA EndBook ==
    ASSUME OneAtATime, SInv, NEW t \in Thread, AddLoggedIn(t) \/ RemoveLoggedOff(t)
    PROVE  Book
  <1>1. /\ pc[t] \in {"add", "remove"} /\ Goto(t, "idle")
        /\ UNCHANGED <<createdVars, identityVars, sweepVars>>
    BY DEF AddLoggedIn, RemoveLoggedOff, Finish
  <1>2. TInv /\ snapshot[t] = {}
    BY <1>1, UnderWay
  <1>3. Names' /\ snapshot'[t] = {}
    BY <1>1, <1>2 DEF SInv, Names, identityVars, sweepVars
  <1>4. /\ UNCHANGED <<created, fieldVars, socket>>
        /\ \A c \in 1..created : accountID'[c] = accountID[c]
    BY <1>1 DEF createdVars, identityVars
  <1> QED  BY <1>1, <1>3, <1>4, GoOnBook

LEMMA SweepBook ==
    ASSUME OneAtATime, SInv, NEW t \in Thread, SweepClient(t)
    PROVE  Book /\ UNCHANGED managerVars
  <1>1. pc[t] = "sweep" /\ UNCHANGED <<managerVars, createdVars, identityVars>>
    BY DEF SweepClient
  <1>2. TInv
    BY <1>1, UnderWay
  <1>3. Names' /\ UNCHANGED <<created, fieldVars, socket>>
        /\ \A c \in 1..created : accountID'[c] = accountID[c]
    BY <1>1 DEF SInv, Names, identityVars, createdVars
  <1>4. CASE snapshot[t] = {} /\ Finish(t) /\ UNCHANGED snapshot
    <2>1. Goto(t, "idle") /\ snapshot'[t] = {}
      BY <1>4 DEF Finish
    <2> QED  BY <1>1, <1>3, <2>1, GoOnBook
  <1>5. ASSUME NEW c \in snapshot[t], snapshot' = [snapshot EXCEPT ![t] = @ \ {c}],
               IF Spared(t, c) THEN UNCHANGED <<pc, cli>>
               ELSE Goto(t, "expire") /\ cli' = [cli EXCEPT ![t] = c]
        PROVE  Book
    <2>1. snapshot'[t] \subseteq snapshot[t]
      BY <1>2, <1>5 DEF TInv, TypeOK
    <2>2. CASE Spared(t, c)
      <3>1. Goto(t, "sweep") /\ UNCHANGED cli
        BY <1>1, <1>2, <1>5, <2>2 DEF Goto, TInv, TypeOK
      <3> QED  BY <1>1, <1>3, <2>1, <3>1, GoOnBook
    <2>3. CASE ~ Spared(t, c)
      <3>1. Goto(t, "expire") /\ cli' = [cli EXCEPT ![t] = c] /\ username[c]
        BY <1>5, <2>3 DEF Spared
      <3>2. cli'[t] = c
        BY <1>2, <3>1 DEF TInv, TypeOK
      <3>3. username'[cli'[t]]
        BY <1>1, <3>1, <3>2 DEF identityVars
      <3> QED  BY <1>1, <1>3, <2>1, <3>1, <3>3, GoOnBook
    <2> QED  BY <2>2, <2>3
  <1> QED  BY <1>1, <1>4, <1>5 DEF SweepClient

LEMMA ExpireBook ==
    ASSUME OneAtATime, SInv, NEW t \in Thread, ExpireClient(t) \/ EvictAccount(t)
    PROVE  Book
  <1>1. PICK label \in {"evict", "sweep"} : Goto(t, label)
    BY DEF ExpireClient, EvictAccount
  <1>2. /\ pc[t] \in {"expire", "evict"}
        /\ UNCHANGED <<createdVars, identityVars, cli, sweepVars>>
    BY DEF ExpireClient, EvictAccount
  <1>3. username[cli[t]]
    BY <1>2 DEF SInv, Handling
  <1>4. /\ Names' /\ UNCHANGED <<created, fieldVars, socket>> /\ snapshot' = snapshot
        /\ \A c \in 1..created : accountID'[c] = accountID[c]
        /\ username'[cli'[t]]
    BY <1>2, <1>3 DEF SInv, Names, identityVars, createdVars, sweepVars
  <1> QED  BY <1>1, <1>2, <1>4, GoOnBook

-----------------------------------------------------------------------------
(* The registry between two steps.                                         *)

AccountRight(x) ==
    LET c == clientsByAccountID[x] IN c # 0 => Registered(c) /\ accountID[c] = x

IdRight(i) ==
    LET c == clients_by_connid[i] IN c # 0 => Registered(c) /\ connectionid[c] = i

\* An entry that is kept is still right.
LEMMA EntriesKept ==
    ASSUME SInv,
           NEW A \in SUBSET Account, Keeps(clientsByAccountID, clientsByAccountID', A),
           NEW I \in SUBSET ConnectionId, Keeps(clients_by_connid, clients_by_connid', I),
           \A c \in 1..created : /\ ip_port'[c] = ip_port[c]
                                 /\ connectionid'[c] = connectionid[c]
                                 /\ accountID[c] # 0 => accountID'[c] = accountID[c]
    PROVE  /\ \A x \in A : AccountRight(x)'
           /\ \A i \in I : IdRight(i)'
  <1>1. TInv
    BY DEF SInv, IInv
  <1>2. ASSUME NEW d \in 1..created, clients_by_ip_port'[ip_port[d]] = d
        PROVE  Registered(d)'
    BY <1>1, <1>2, Typed DEF Registered
  <1>3. ASSUME NEW x \in A, clientsByAccountID'[x] # 0
        PROVE  AccountRight(x)'
    <2>1. PICK d : d = clientsByAccountID[x]
      OBVIOUS
    <2>2. clientsByAccountID'[x] = d /\ clients_by_ip_port'[ip_port[d]] = d /\ d # 0
      BY <1>3, <2>1 DEF Keeps
    <2>3. x \in 0..MaxAccount /\ x # 0
      BY <1>1, Typed DEF Account
    <2>4. d \in 1..created
      BY <1>1, <2>1, <2>2, <2>3, Typed
    <2>5. accountID[d] = x
      BY <2>1, <2>2 DEF SInv, AccountsReachable
    <2>6. Registered(d)' /\ accountID'[d] = x
      BY <1>2, <2>2, <2>3, <2>4, <2>5
    <2> QED  BY <2>2, <2>6 DEF AccountRight
  <1>4. ASSUME NEW i \in I, clients_by_connid'[i] # 0
        PROVE  IdRight(i)'
    <2>1. PICK d : d = clients_by_connid[i]
      OBVIOUS
    <2>2. clients_by_connid'[i] = d /\ clients_by_ip_port'[ip_port[d]] = d /\ d # 0
      BY <1>4, <2>1 DEF Keeps
    <2>3. d \in 1..created
      BY <1>1, <2>1, <2>2, Typed
    <2>4. connectionid[d] = i
      BY <2>1, <2>2 DEF SInv, KeyedById
    <2>5. Registered(d)' /\ connectionid'[d] = i
      BY <1>2, <2>2, <2>3, <2>4
    <2> QED  BY <2>2, <2>5 DEF IdRight
  <1> QED  BY <1>3, <1>4 DEF AccountRight, IdRight

\* Where nobody is filed anew nothing is lost.
LEMMA AllKept ==
    ASSUME SInv, UNCHANGED <<clients_by_ip_port, clients_by_connid>>,
           \A x \in Account : clientsByAccountID'[x] = clientsByAccountID[x]
    PROVE  /\ \A a \in Addr : clients_by_ip_port'[a] \in {0, clients_by_ip_port[a]}
           /\ Keeps(clientsByAccountID, clientsByAccountID', Account)
           /\ Keeps(clients_by_connid, clients_by_connid', ConnectionId)
  BY DEF Keeps, SInv, AccountsReachable, OnlyConnectionsAreCounted, Registered

\* What a handler leaves behind.
LEMMA StepSInv ==
    ASSUME SInv, IInv', Book,
           \/ \A a \in Addr : clients_by_ip_port'[a] \in {0, clients_by_ip_port[a]}
           \/ /\ \A c \in 1..created : ~ InHand(c)'
              /\ \E d \in 1..created :
                    /\ Alone(d)
                    /\ clients_by_ip_port'[ip_port[d]] = d
                    /\ \A a \in Addr \ {ip_port[d]} :
                          clients_by_ip_port'[a] \in {0, clients_by_ip_port[a]},
           \A x \in Account : AccountRight(x)',
           \A i \in ConnectionId : IdRight(i)'
    PROVE  SInv'
  <1>1. /\ TInv /\ UNCHANGED <<created, ip_port>>
        /\ socket' \subseteq socket /\ socket \subseteq 1..created
    BY DEF SInv, IInv, Book, fieldVars, TInv, TypeOK
  <1>2. ASSUME NEW c \in 1..created, c \in socket' \/ InHand(c)'
        PROVE  Alone(c)'
    <2>1. Alone(c)
      BY <1>1, <1>2 DEF Book, SInv, Undisturbed
    <2>2. \A d \in socket' : ip_port'[d] = ip_port'[c] => d = c
      BY <1>1, <2>1 DEF Alone
    <2>3. CASE \A a \in Addr : clients_by_ip_port'[a] \in {0, clients_by_ip_port[a]}
      BY <1>1, <2>1, <2>2, <2>3, Typed DEF Alone
    <2>4. ASSUME NEW d \in 1..created, Alone(d), c \in socket',
                 clients_by_ip_port'[ip_port[d]] = d,
                 \A a \in Addr \ {ip_port[d]} :
                    clients_by_ip_port'[a] \in {0, clients_by_ip_port[a]}
          PROVE  Alone(c)'
      <3>1. ip_port[c] = ip_port[d] => c = d
        BY <1>1, <2>4 DEF Alone
      <3>2. clients_by_ip_port'[ip_port[c]] \in {0, c}
        BY <1>1, <2>1, <2>4, <3>1, Typed DEF Alone
      <3> QED  BY <1>1, <2>2, <3>2 DEF Alone
    <2> QED  BY <1>2, <2>3, <2>4
  <1>3. Undisturbed'
    BY <1>1, <1>2 DEF SInv, Undisturbed
  <1>4. KeyedById' /\ AccountsReachable' /\ OnlyConnectionsAreCounted'
    BY DEF AccountRight, IdRight, KeyedById, AccountsReachable, OnlyConnectionsAreCounted
  <1> QED  BY <1>3, <1>4 DEF SInv, Book

\* A handler that files nobody anew.
LEMMA QuietSInv ==
    ASSUME SInv, IInv', Book,
           \A a \in Addr : clients_by_ip_port'[a] \in {0, clients_by_ip_port[a]},
           Keeps(clientsByAccountID, clientsByAccountID', Account),
           Keeps(clients_by_connid, clients_by_connid', ConnectionId)
    PROVE  SInv'
  <1>1. \A c \in 1..created : /\ ip_port'[c] = ip_port[c]
                              /\ connectionid'[c] = connectionid[c]
                              /\ accountID[c] # 0 => accountID'[c] = accountID[c]
    BY DEF Book, fieldVars
  <1>2. /\ \A x \in Account : AccountRight(x)'
        /\ \A i \in ConnectionId : IdRight(i)'
    BY <1>1, EntriesKept
  <1> QED  BY <1>2, StepSInv

LEMMA ConnectSInv ==
    ASSUME OneAtATime, SInv, IInv', NEW s \in Server, NEW a \in Addr, Connect(s, a)
    PROVE  SInv'
  <1>1. PICK c : c = created + 1
    OBVIOUS
  <1>2. PICK id : id = connectionid_count[s] + 1
    OBVIOUS
  <1>3. /\ created < MaxClient /\ created' = c
        /\ \E t \in Thread : pc[t] = "idle"
        /\ \A d \in socket : ip_port[d] # a
        /\ ip_port' = [ip_port EXCEPT ![c] = a]
        /\ connectionid' = [connectionid EXCEPT ![c] = id]
        /\ socket' = IF a \in TcpAddr THEN socket \union {c} ELSE socket
        /\ AddOrUpdate(c, a, id, 0)
        /\ UNCHANGED <<identityVars, last_recvd_heartbeat, pc, cli, sweepVars>>
    BY <1>1, <1>2 DEF Connect, Create
  <1>4. \A t \in Thread : pc[t] = "idle"
    BY <1>3 DEF OneAtATime
  <1>5. TInv
    BY DEF SInv, IInv
  <1>6. /\ created \in Nat /\ c \in Client /\ c \notin 1..created /\ 1..c = 1..created \union {c}
        /\ socket \subseteq 1..created
    <2>1. created \in Nat /\ MaxClient \in Nat
      BY <1>5, Typed
    <2>2. socket \subseteq 1..created
      BY <1>5 DEF TInv, TypeOK
    <2> QED  BY <1>1, <1>3, <2>1, <2>2 DEF Client
  <1>7. /\ ip_port'[c] = a /\ connectionid'[c] = id
        /\ \A d \in 1..created : ip_port'[d] = ip_port[d] /\ connectionid'[d] = connectionid[d]
    <2>1. \A d \in 1..created : d \in Client /\ d # c
      BY <1>5, <1>6, Typed
    <2> QED  BY <1>3, <1>5, <1>6, <2>1 DEF TInv, TypeOK
  <1>8. id \in ConnectionId
    <2>1. connectionid_count[s] \in 0..created
      BY <1>5 DEF TInv, TypeOK
    <2> QED  BY <1>2, <1>3, <1>5, <2>1, Typed DEF ConnectionId
  <1>9. FiledOnlyAs(c, 0, id)
    <2>1. c \notin 0..created
      BY <1>1, <1>6
    <2>2. \A x \in Account : x \in 0..MaxAccount
      BY <1>5, Typed DEF Account
    <2> QED  BY <1>5, <2>1, <2>2, Typed DEF FiledOnlyAs
  <1>10. /\ clients_by_ip_port'[a] = c
         /\ \A b \in Addr \ {a} : clients_by_ip_port'[b] \in {0, clients_by_ip_port[b]}
         /\ Keeps(clientsByAccountID, clientsByAccountID', Account \ {0})
         /\ clients_by_connid'[id] = c
         /\ Keeps(clients_by_connid, clients_by_connid', ConnectionId \ {id})
    <2>1. 0 \in 0..MaxAccount
      BY <1>5, Typed
    <2> QED  BY <1>3, <1>6, <1>8, <1>9, <2>1, AddKeeps
  <1>11. Names' /\ Handling'
    BY <1>3 DEF SInv, Names, Handling, identityVars, sweepVars
  <1>12. /\ \A x \in Account : AccountRight(x)'
         /\ \A i \in ConnectionId : IdRight(i)'
    <2>1. \A d \in 1..created : /\ ip_port'[d] = ip_port[d]
                                /\ connectionid'[d] = connectionid[d]
                                /\ accountID'[d] = accountID[d]
      BY <1>3, <1>7 DEF identityVars
    <2>2. /\ \A x \in Account \ {0} : AccountRight(x)'
          /\ \A i \in ConnectionId \ {id} : IdRight(i)'
      BY <1>10, <2>1, EntriesKept
    <2>3. Account \ {0} = Account
      BY <1>5, Typed DEF Account
    <2>4. IdRight(id)'
      BY <1>7, <1>10 DEF IdRight, Registered
    <2> QED  BY <2>2, <2>3, <2>4
  <1>13. ASSUME NEW d \in 1..c, d \in socket' \/ InHand(d)'
         PROVE  Alone(d)'
    <2>1. d \in socket'
      BY <1>3, <1>4, <1>13 DEF InHand
    <2>2. CASE d = c
      BY <1>3, <1>6, <1>7, <1>10, <2>2 DEF Alone
    <2>3. CASE d # c
      <3>1. d \in socket /\ d \in 1..created
        BY <1>3, <1>6, <2>1, <2>3
      <3>2. Alone(d) /\ ip_port[d] # a /\ ip_port[d] \in Addr
        BY <1>3, <1>5, <3>1, Typed DEF SInv, Undisturbed
      <3>3. clients_by_ip_port'[ip_port'[d]] \in {0, d}
        BY <1>7, <1>10, <3>1, <3>2 DEF Alone
      <3>4. \A e \in socket' : ip_port'[e] = ip_port'[d] => e = d
        BY <1>3, <1>6, <1>7, <3>1, <3>2 DEF Alone
      <3> QED  BY <3>3, <3>4 DEF Alone
    <2> QED  BY <2>2, <2>3
  <1>14. Undisturbed'
    <2>1. \A d \in socket' : ip_port'[d] \in TcpAddr
      BY <1>3, <1>6, <1>7 DEF SInv, Undisturbed
    <2> QED  BY <1>3, <1>13, <2>1 DEF Undisturbed
  <1> QED  BY <1>11, <1>12, <1>14
           DEF SInv, AccountRight, IdRight, KeyedById, AccountsReachable,
               OnlyConnectionsAreCounted

LEMMA CloseSInv ==
    ASSUME SInv, IInv', NEW c \in Client, Close(c) \/ GrowOld(c)
    PROVE  SInv'
  <1>1. /\ UNCHANGED <<managerVars, created, fieldVars, identityVars, pc, cli, sweepVars>>
        /\ socket' \subseteq socket
    BY DEF Close, GrowOld, createdVars
  <1>2. Names' /\ Handling' /\ \A d \in 1..created : InHand(d)' => InHand(d)
    BY <1>1 DEF SInv, Names, Handling, InHand, identityVars, sweepVars
  <1>3. Book
    BY <1>1, <1>2 DEF Book, identityVars
  <1> QED  BY <1>1, <1>3, AllKept, QuietSInv DEF managerVars

LEMMA AddSInv ==
    ASSUME OneAtATime, SInv, IInv', NEW t \in Thread, AddLoggedIn(t)
    PROVE  SInv'
  <1>1. PICK c : c = cli[t]
    OBVIOUS
  <1>2. PICK account, addr, id :
            account = accountID[c] /\ addr = ip_port[c] /\ id = connectionid[c]
    OBVIOUS
  <1>3. /\ pc[t] = "add" /\ Finish(t)
        /\ AddOrUpdate(c, addr, id, account)
        /\ UNCHANGED <<createdVars, identityVars>>
    BY <1>1, <1>2 DEF AddLoggedIn
  <1>4. TInv /\ c \in 1..created /\ c \in Client /\ Alone(c) /\ username[c]
    BY <1>1, <1>3, UnderWay DEF SInv, Handling
  <1>5. /\ account \in Account /\ account # 0 /\ account \in 0..MaxAccount
        /\ addr \in Addr /\ id \in ConnectionId
    BY <1>2, <1>4, Typed DEF SInv, Names, Account
  <1>6. FiledOnlyAs(c, account, id)
    BY <1>2, <1>4, Typed DEF SInv, AccountsReachable, KeyedById, FiledOnlyAs
  <1>7. /\ clients_by_ip_port'[addr] = c
        /\ \A a \in Addr \ {addr} : clients_by_ip_port'[a] \in {0, clients_by_ip_port[a]}
        /\ clientsByAccountID'[account] = c
        /\ Keeps(clientsByAccountID, clientsByAccountID', Account \ {account})
        /\ clients_by_connid'[id] = c
        /\ Keeps(clients_by_connid, clients_by_connid', ConnectionId \ {id})
    <2>1. AddOrUpdate(c, addr, id, account) /\ c \in Client /\ account # 0
      BY <1>3, <1>4, <1>5
    <2>2. addr \in Addr /\ id \in ConnectionId /\ account \in 0..MaxAccount
      BY <1>5
    <2>3. /\ clients_by_ip_port'[addr] = c
          /\ \A a \in Addr \ {addr} : clients_by_ip_port'[a] \in {0, clients_by_ip_port[a]}
          /\ account # 0 => clientsByAccountID'[account] = c
          /\ Keeps(clientsByAccountID, clientsByAccountID', Account \ {account})
          /\ clients_by_connid'[id] = c
          /\ Keeps(clients_by_connid, clients_by_connid', ConnectionId \ {id})
      BY <1>6, <2>1, <2>2, AddKeeps
    <2> QED  BY <2>1, <2>3
  <1>8. Book /\ UNCHANGED <<ip_port, connectionid, accountID>>
    BY <1>3, EndBook DEF createdVars, fieldVars, identityVars
  <1>9. /\ \A x \in Account \ {account} : AccountRight(x)'
        /\ \A i \in ConnectionId \ {id} : IdRight(i)'
    BY <1>7, <1>8, EntriesKept
  <1>10. Registered(c)'
    BY <1>2, <1>5, <1>7, <1>8 DEF Registered
  <1>11. AccountRight(account)' /\ IdRight(id)'
    BY <1>2, <1>7, <1>8, <1>10 DEF AccountRight, IdRight
  <1>12. \A d \in 1..created : ~ InHand(d)'
    <2>1. \A u \in Thread : pc'[u] = "idle"
      BY <1>3, <1>4 DEF OneAtATime, Finish, Goto, TInv, TypeOK
    <2> QED  BY <2>1 DEF InHand
  <1>13. /\ \A x \in Account : AccountRight(x)'
         /\ \A i \in ConnectionId : IdRight(i)'
    BY <1>8, <1>9, <1>11
  <1> QED  BY <1>2, <1>4, <1>7, <1>8, <1>12, <1>13, StepSInv

LEMMA RemoveSInv ==
    ASSUME OneAtATime, SInv, IInv', NEW t \in Thread,
           RemoveLoggedOff(t) \/ ExpireClient(t) \/ EvictAccount(t)
    PROVE  SInv'
  <1>1. Book
    BY EndBook, ExpireBook
  <1>2. PICK c : c = cli[t]
    OBVIOUS
  <1>3. TInv /\ c \in 1..created /\ c \in 0..created /\ c # 0 /\ Alone(c)
    BY <1>2, UnderWay, Typed DEF RemoveLoggedOff, ExpireClient, EvictAccount
  <1>4. CASE UNCHANGED managerVars
    BY <1>1, <1>4, AllKept, QuietSInv DEF managerVars
  <1>5. CASE RemoveClient(c)
    <2>1. clients_by_ip_port[ip_port[c]] \in {0, c}
      BY <1>3 DEF Alone
    <2> QED  BY <1>1, <1>3, <1>5, <2>1, RemoveKeeps, QuietSInv
  <1>6. CASE EvictAccount(t)
    <2>1. PICK x : x = accountID[c]
      OBVIOUS
    <2>2. PICK e : e = clientsByAccountID[x]
      OBVIOUS
    <2>3. RemoveClient(e) /\ username[c]
      BY <1>2, <1>6, <2>1, <2>2 DEF EvictAccount, SInv, Handling
    <2>4. x \in Account /\ x \in 0..MaxAccount
      BY <1>3, <2>1, <2>3, Typed DEF SInv, Names, Account
    <2>5. e \in 0..created
      BY <1>3, <2>2, <2>4, Typed
    <2>6. e # 0 => clients_by_ip_port[ip_port[e]] = e
      BY <2>2, <2>4 DEF SInv, AccountsReachable, Registered
    <2> QED  BY <1>1, <2>3, <2>5, <2>6, RemoveKeeps, QuietSInv
  <1> QED  BY <1>2, <1>4, <1>5, <1>6 DEF RemoveLoggedOff, ExpireClient

LEMMA HandlerSInv ==
    ASSUME OneAtATime, SInv, IInv', NEW t \in Thread,
           \/ Request(t) \/ Disconnect(t) \/ HandlerStep(t)
           \/ \E c \in 1..created : Heartbeat(t, c)
    PROVE  SInv'
  <1>1. ASSUME Book, UNCHANGED <<clients_by_ip_port, clients_by_connid>>,
               \A x \in Account : clientsByAccountID'[x] = clientsByAccountID[x]
        PROVE  SInv'
    BY <1>1, AllKept, QuietSInv
  <1>2. CASE Request(t)
    BY <1>1, <1>2, RequestBook DEF Request, managerVars
  <1>3. CASE Disconnect(t)
    BY <1>1, <1>3, DisconnectBook DEF Disconnect, managerVars
  <1>4. ASSUME NEW c \in 1..created, Heartbeat(t, c) PROVE SInv'
    BY <1>1, <1>4, HeartbeatBook DEF Heartbeat, managerVars
  <1>5. CASE Identify(t)
    BY <1>1, <1>5, IdentifyBook DEF managerVars
  <1>6. CASE UpdateList(t)
    BY <1>1, <1>6, UpdateListBook
  <1>7. CASE HandleRequest(t) \/ LogoffUser(t)
    BY <1>1, <1>7, RequestedBook DEF managerVars
  <1>8. CASE LoginUser(t)
    BY <1>1, <1>8, LoginBook DEF managerVars
  <1>9. CASE AddLoggedIn(t)
    BY <1>9, AddSInv
  <1>10. CASE SweepClient(t)
    BY <1>1, <1>10, SweepBook DEF managerVars
  <1>11. CASE RemoveLoggedOff(t) \/ ExpireClient(t) \/ EvictAccount(t)
    BY <1>11, RemoveSInv
  <1> QED
    BY <1>2, <1>3, <1>4, <1>5, <1>6, <1>7, <1>8, <1>9, <1>10, <1>11 DEF HandlerStep

LEMMA InitSInv == Init => SInv
  <1> SUFFICES ASSUME Init
               PROVE  SInv
    OBVIOUS
  <1>1. Names /\ Handling /\ Undisturbed
    BY DEF Init, Names, Handling, Undisturbed, InHand, Client
  <1>2. KeyedById /\ AccountsReachable /\ OnlyConnectionsAreCounted
    <2>1. \A x \in Account : x \in 0..MaxAccount
      BY ClientManagerAssumption DEF Account
    <2> QED  BY <2>1 DEF Init, KeyedById, AccountsReachable, OnlyConnectionsAreCounted
  <1> QED  BY <1>1, <1>2, InitIInv DEF SInv

LEMMA SInductive == OneAtATime /\ SInv /\ [Next]_vars => SInv'
  <1> SUFFICES ASSUME OneAtATime, SInv, [Next]_vars
               PROVE  SInv'
    OBVIOUS
  <1>1. IInv'
    BY Inductive DEF SInv, OneAtATime
  <1>2. ASSUME NEW s \in Server, NEW a \in Addr, Connect(s, a) PROVE SInv'
    BY <1>1, <1>2, ConnectSInv
  <1>3. ASSUME NEW c \in Client, Close(c) \/ GrowOld(c) PROVE SInv'
    BY <1>1, <1>3, CloseSInv
  <1>4. ASSUME NEW t \in Thread,
               \/ Request(t) \/ Disconnect(t) \/ HandlerStep(t)
               \/ \E c \in 1..created : Heartbeat(t, c)
        PROVE  SInv'
    BY <1>1, <1>4, HandlerSInv
  <1>5. CASE UNCHANGED vars
    <2>1. UNCHANGED <<managerVars, createdVars, identityVars, pc, cli, sweepVars>>
      BY <1>5 DEF vars
    <2>2. Names' /\ Handling' /\ \A d \in 1..created : InHand(d)' => InHand(d)
      BY <2>1 DEF SInv, Names, Handling, InHand, identityVars, sweepVars
    <2>3. Book
      BY <2>1, <2>2 DEF Book, identityVars, createdVars
    <2> QED  BY <1>1, <2>1, <2>3, AllKept, QuietSInv DEF managerVars
  <1> QED  BY <1>2, <1>3, <1>4, <1>5 DEF Next

-----------------------------------------------------------------------------
(* The theorems for any mix of transports.                                 *)

\* While handlers run one at a time, whoever clientsByAccountID holds for an account
\* is registered and logged in to it: add_or_update_client, remove_client, the logoff
\* of a displaced Client and the sweep leave no stale entry between them.
THEOREM AccountsLeadToClients == OneAtATime => (Spec => []AccountsReachable)
  <1> SUFFICES ASSUME OneAtATime PROVE Spec => []AccountsReachable
    OBVIOUS
  <1>1. SInv => AccountsReachable
    BY DEF SInv
  <1>2. SInv /\ [Next]_vars => SInv'
    BY SInductive
  <1> QED  BY <1>1, <1>2, InitSInv, PTL DEF Spec

\* While handlers run one at a time, clients_by_connid holds registered Clients only, so
\* that get_current_user_count does not count the dead.
THEOREM TheDeadAreNotCounted == OneAtATime => (Spec => []OnlyConnectionsAreCounted)
  <1> SUFFICES ASSUME OneAtATime PROVE Spec => []OnlyConnectionsAreCounted
    OBVIOUS
  <1>1. SInv => OnlyConnectionsAreCounted
    BY DEF SInv
  <1>2. SInv /\ [Next]_vars => SInv'
    BY SInductive
  <1> QED  BY <1>1, <1>2, InitSInv, PTL DEF Spec

-----------------------------------------------------------------------------
(* One Client per account, over UDP.                                       *)

\* Only the thread's own handler matters.
LEMMA Single ==
    ASSUME OneAtATime, TInv, NEW t \in Thread, NEW label, Goto(t, label)
    PROVE  (\A u \in Thread : u = t) /\ pc'[t] = label
  BY DEF OneAtATime, Goto, TInv, TypeOK

\* Who has logged in has an account.
LEMMA HasAccount ==
    ASSUME SInv, NEW c \in 1..created, username[c]
    PROVE  accountID[c] \in Account /\ accountID[c] # 0
  <1>1. c \in Client /\ accountID[c] \in 0..MaxAccount /\ MaxAccount \in Nat
    BY Typed DEF SInv, IInv
  <1>2. accountID[c] # 0
    BY <1>1 DEF SInv, Names
  <1> QED  BY <1>1, <1>2 DEF Account

\* Who stays registered stays filed.
LEMMA StaysFiled ==
    ASSUME SInv, Filed, UNCHANGED created,
           \A c \in 1..created : /\ Registered(c)' => Registered(c)
                                 /\ accountID'[c] = accountID[c]
                                 /\ username'[c] = username[c],
           \A c \in 1..created :
              Registered(c)' /\ username[c] /\ clientsByAccountID[accountID[c]] = c
                  => clientsByAccountID'[accountID[c]] = c,
           \A t \in Thread : pc[t] # "add"
    PROVE  Filed'
  BY DEF Filed

\* A step of a handler that does not sweep.
LEMMA PlainStep ==
    ASSUME OneAtATime, UInv, NEW t \in Thread, pc[t] # "add",
           NEW label, Goto(t, label), label \notin {"remove", "sweep", "expire", "evict"},
           UNCHANGED <<clients_by_ip_port, created, ip_port>>,
           \A c \in Client : accountID'[c] = accountID[c] /\ username'[c] = username[c],
           \A x \in Account : clientsByAccountID'[x] = clientsByAccountID[x]
    PROVE  Filed' /\ Swept' /\ Logins'
  <1>1. TInv /\ SInv /\ Filed
    BY DEF UInv, SInv, IInv
  <1>2. (\A u \in Thread : u = t) /\ pc'[t] = label
    BY <1>1, Single
  <1>3. \A c \in 1..created : c \in Client /\ (Registered(c)' => Registered(c))
    BY <1>1, Typed DEF Registered
  <1>4. \A c \in 1..created : username[c] =>
            clientsByAccountID'[accountID[c]] = clientsByAccountID[accountID[c]]
    BY <1>1, HasAccount
  <1>5. Filed'
    BY <1>1, <1>2, <1>3, <1>4, StaysFiled
  <1>6. Swept'
    BY <1>2 DEF Swept, Visiting
  <1>7. Logins'
    BY <1>2 DEF UInv, Logins
  <1> QED  BY <1>5, <1>6, <1>7

LEMMA PlainSteps ==
    ASSUME OneAtATime, TcpAddr = {}, UInv, NEW t \in Thread,
           \/ Request(t) \/ Disconnect(t)
           \/ Identify(t) \/ UpdateList(t) \/ HandleRequest(t) \/ LogoffUser(t)
    PROVE  Filed' /\ Swept' /\ Logins'
  <1>1. SInv
    BY DEF UInv
  <1>2. CASE Request(t)
    <2>1. PICK label \in {"request", "identify"} : Goto(t, label) /\ pc[t] = "idle"
      BY <1>2 DEF Request, Begin
    <2> QED  BY <1>2, <2>1, PlainStep
             DEF Request, managerVars, createdVars, fieldVars, identityVars
  <1>3. CASE Disconnect(t)
    <2>1. Goto(t, "logoff") /\ pc[t] = "idle"
      BY <1>3 DEF Disconnect, Begin
    <2> QED  BY <1>3, <2>1, PlainStep
             DEF Disconnect, managerVars, createdVars, fieldVars, identityVars
  <1>4. CASE Identify(t)
    <2>1. /\ pc[t] = "identify" /\ Goto(t, "list")
          /\ UNCHANGED <<managerVars, createdVars, username>>
      BY <1>4 DEF Identify
    <2>2. accountID[cli[t]] = 0 /\ accountID' = [accountID EXCEPT ![cli[t]] = 0]
      <3>1. cli[t] \in Client
        BY <1>1, <2>1, UnderWay
      <3>2. accountID[cli[t]] = 0
        BY <1>1, <2>1, <3>1 DEF SInv, Names, Handling
      <3> QED  BY <1>4, <3>2 DEF Identify, OneAtATime
    <2>3. \A c \in Client : accountID'[c] = accountID[c] /\ username'[c] = username[c]
      BY <1>1, <2>1, <2>2 DEF SInv, IInv, TInv, TypeOK
    <2> QED  BY <2>1, <2>3, PlainStep DEF managerVars, createdVars, fieldVars
  <1>5. CASE UpdateList(t)
    <2>1. pc[t] = "list" /\ Goto(t, "request") /\ UNCHANGED <<createdVars, identityVars>>
      BY <1>5 DEF UpdateList
    <2> QED
      BY <1>1, <1>5, <2>1, UpdateListBook, PlainStep DEF createdVars, fieldVars, identityVars
  <1>6. CASE HandleRequest(t) \/ LogoffUser(t)
    <2>1. UNCHANGED <<managerVars, createdVars, identityVars>> /\ pc[t] \in {"request", "logoff"}
      BY <1>6 DEF HandleRequest, LogoffUser
    <2>2. ~ ViaTcp(cli[t])
      BY DEF ViaTcp
    <2>3. PICK label \in {"login", "logoff", "idle"} : Goto(t, label)
      BY <1>6, <2>2 DEF HandleRequest, LogoffUser, Finish
    <2> QED  BY <2>1, <2>3, PlainStep DEF managerVars, createdVars, fieldVars, identityVars
  <1> QED  BY <1>2, <1>3, <1>4, <1>5, <1>6

LEMMA LoginStep ==
    ASSUME OneAtATime, UInv, NEW t \in Thread, LoginUser(t)
    PROVE  Filed' /\ Swept' /\ Logins'
  <1>1. /\ pc[t] = "login" /\ Goto(t, "add")
        /\ UNCHANGED <<managerVars, createdVars, cli>>
    BY DEF LoginUser
  <1>2. PICK c : c = cli[t]
    OBVIOUS
  <1>3. SInv /\ TInv /\ c \in 1..created /\ c \in Client
    BY <1>1, <1>2, UnderWay DEF UInv
  <1>4. (\A u \in Thread : u = t) /\ pc'[t] = "add"
    BY <1>1, <1>3, Single
  <1>5. \A d \in Client \ {c} : accountID'[d] = accountID[d] /\ username'[d] = username[d]
    <2>1. PICK x : accountID' = [accountID EXCEPT ![c] = x]
      BY <1>2 DEF LoginUser
    <2>2. username' = [username EXCEPT ![c] = TRUE]
      BY <1>2 DEF LoginUser
    <2> QED  BY <1>3, <2>1, <2>2 DEF TInv, TypeOK
  <1>6. \A d \in 1..created : d \in Client /\ (Registered(d)' <=> Registered(d))
    BY <1>1, <1>3, Typed DEF Registered, managerVars, createdVars, fieldVars
  <1>7. Filed'
    <2> SUFFICES ASSUME NEW d \in 1..created, d # c, Registered(d)', username'[d]
                 PROVE  clientsByAccountID'[accountID'[d]] = d
      BY <1>1, <1>2, <1>4 DEF Filed, createdVars
    <2>1. Registered(d) /\ username[d] /\ accountID'[d] = accountID[d]
      BY <1>5, <1>6
    <2>2. clientsByAccountID[accountID[d]] = d
      BY <1>1, <1>4, <2>1 DEF UInv, Filed
    <2> QED  BY <1>1, <2>1, <2>2 DEF managerVars
  <1>8. Swept'
    BY <1>4 DEF Swept, Visiting
  <1>9. Logins'
    BY <1>1, <1>3, <1>4, <1>5 DEF UInv, Logins, createdVars
  <1> QED  BY <1>7, <1>8, <1>9

\* The login displaces whoever had the account.
LEMMA AddStep ==
    ASSUME OneAtATime, UInv, NEW t \in Thread, AddLoggedIn(t)
    PROVE  Filed' /\ Swept' /\ Logins'
  <1>1. PICK c : c = cli[t]
    OBVIOUS
  <1>2. PICK x, addr, id : x = accountID[c] /\ addr = ip_port[c] /\ id = connectionid[c]
    OBVIOUS
  <1>3. /\ pc[t] = "add" /\ Goto(t, "idle")
        /\ AddOrUpdate(c, addr, id, x)
        /\ UNCHANGED <<createdVars, identityVars>>
    BY <1>1, <1>2 DEF AddLoggedIn, Finish
  <1>4. SInv /\ TInv /\ c \in 1..created /\ c \in Client /\ c # 0 /\ Alone(c) /\ username[c]
    BY <1>1, <1>3, UnderWay, Typed DEF UInv, SInv, Handling
  <1>5. (\A u \in Thread : u = t) /\ pc'[t] = "idle"
    BY <1>3, <1>4, Single
  <1>6. x \in Account /\ x # 0 /\ x \in 0..MaxAccount /\ addr \in Addr
    BY <1>2, <1>4, HasAccount, Typed
  <1>7. OldAtAddress(c, addr) = 0
    BY <1>2, <1>4 DEF OldAtAddress, Alone
  <1>8. PICK p : p = OldOfAccount(c, x, clientsByAccountID)
    OBVIOUS
  <1>9. /\ clients_by_ip_port' = [WithoutAddress(p) EXCEPT ![addr] = c]
        /\ clientsByAccountID' = [clientsByAccountID EXCEPT ![x] = c]
    <2>1. Without(clientsByAccountID, accountID, 0) = clientsByAccountID
      BY DEF Without
    <2> QED  BY <1>3, <1>6, <1>7, <1>8, <2>1 DEF AddOrUpdate
  <1>10. /\ p \in {0, clientsByAccountID[x]}
         /\ (clientsByAccountID[x] \notin {0, c} => p = clientsByAccountID[x])
    BY <1>6, <1>8 DEF OldOfAccount
  <1>11. Filed'
    <2> SUFFICES ASSUME NEW d \in 1..created, d # c, Registered(d)', username[d]
                 PROVE  clientsByAccountID'[accountID[d]] = d
      BY <1>2, <1>3, <1>4, <1>6, <1>9, Typed DEF Filed, createdVars, identityVars
    <2>1. ip_port[d] \in Addr /\ clients_by_ip_port'[ip_port[d]] = d
      BY <1>3, <1>4, Typed DEF Registered, createdVars, fieldVars
    <2>2. ip_port[d] # addr /\ clients_by_ip_port[ip_port[d]] = d
          /\ (p # 0 => ip_port[p] # ip_port[d])
      <3>1. d # 0
        BY <1>4, Typed
      <3>2. clients_by_ip_port \in [Addr -> 0..created]
        BY <1>4, Typed
      <3> QED  BY <1>6, <1>9, <2>1, <3>1, <3>2 DEF WithoutAddress
    <2>3. Registered(d) /\ d # p /\ d # 0
      BY <1>4, <2>1, <2>2, Typed DEF Registered
    <2>4. clientsByAccountID[accountID[d]] = d
      BY <1>1, <1>5, <2>3 DEF UInv, Filed
    <2>5. accountID[d] # x
      BY <1>10, <2>3, <2>4
    <2>6. accountID[d] \in 0..MaxAccount
      BY <1>4, Typed
    <2> QED  BY <1>4, <1>6, <1>9, <2>4, <2>5, <2>6, Typed
  <1>12. Swept'
    BY <1>5 DEF Swept, Visiting
  <1>13. Logins'
    BY <1>3, <1>5 DEF UInv, Logins, createdVars, identityVars
  <1> QED  BY <1>11, <1>12, <1>13

\* A new Client has not logged in, and whom it displaces had the account alone.
LEMMA ConnectStep ==
    ASSUME OneAtATime, UInv, NEW s \in Server, NEW a \in Addr, Connect(s, a)
    PROVE  Filed' /\ Swept' /\ Logins'
  <1>1. PICK c, id : c = created + 1 /\ id = connectionid_count[s] + 1
    OBVIOUS
  <1>2. /\ created < MaxClient /\ created' = c
        /\ \E t \in Thread : pc[t] = "idle"
        /\ ip_port' = [ip_port EXCEPT ![c] = a]
        /\ AddOrUpdate(c, a, id, 0)
        /\ UNCHANGED <<identityVars, pc, cli>>
    BY <1>1 DEF Connect, Create
  <1>3. \A t \in Thread : pc[t] = "idle"
    BY <1>2 DEF OneAtATime
  <1>4. SInv /\ TInv
    BY DEF UInv, SInv, IInv
  <1>5. /\ c \in Client /\ c # 0 /\ c \notin 0..created /\ 1..c = 1..created \union {c}
        /\ 0 \in 0..MaxAccount
    <2>1. created \in Nat /\ MaxClient \in Nat /\ MaxAccount \in Nat
      BY <1>4, Typed
    <2> QED  BY <1>1, <1>2, <2>1 DEF Client
  <1>6. ~ username[c]
    BY <1>5, <1>4, Typed DEF UInv, Logins
  <1>7. PICK o : o = OldAtAddress(c, a)
    OBVIOUS
  <1>8. o = clients_by_ip_port[a] /\ o \in 0..created
    BY <1>4, <1>5, <1>7, Typed DEF OldAtAddress
  <1>9. /\ clientsByAccountID' = Without(clientsByAccountID, accountID, o)
        /\ clients_by_ip_port' = [clients_by_ip_port EXCEPT ![a] = c]
    <2>1. \A m : OldOfAccount(c, 0, m) = 0
      BY DEF OldOfAccount
    <2>2. WithoutAddress(0) = clients_by_ip_port
      BY DEF WithoutAddress
    <2> QED  BY <1>2, <1>7, <2>1, <2>2 DEF AddOrUpdate
  <1>10. ASSUME NEW d \in 1..created, Registered(d)', username[d]
         PROVE  clientsByAccountID'[accountID[d]] = d
    <2>1. ip_port'[d] = ip_port[d] /\ ip_port[d] \in Addr /\ d # c /\ d # 0 /\ d \in Client
      <3>1. d \in Client /\ ip_port[d] \in Addr /\ d # 0 /\ d \in 0..created
        BY <1>4, Typed
      <3>2. d # c
        BY <1>5, <3>1
      <3> QED  BY <1>2, <1>4, <3>1, <3>2 DEF TInv, TypeOK
    <2>2. ip_port[d] # a /\ Registered(d)
      BY <1>4, <1>9, <1>10, <2>1, Typed DEF Registered
    <2>3. d # o
      BY <1>4, <1>8, <2>1, <2>2 DEF Registered, SInv, IInv, AtOwnAddress
    <2>4. clientsByAccountID[accountID[d]] = d
      BY <1>3, <1>10, <2>2 DEF UInv, Filed
    <2>5. o # 0 /\ accountID[o] # 0 => accountID[o] # accountID[d]
      <3> SUFFICES ASSUME o # 0, accountID[o] # 0
                   PROVE  accountID[o] # accountID[d]
        OBVIOUS
      <3>1. o \in 1..created /\ o \in Client
        BY <1>4, <1>8, Typed
      <3>2. Registered(o) /\ username[o]
        BY <1>4, <1>8, <3>1 DEF SInv, IInv, AtOwnAddress, Names, Registered
      <3>3. clientsByAccountID[accountID[o]] = o
        BY <1>3, <3>1, <3>2 DEF UInv, Filed
      <3> QED  BY <2>3, <2>4, <3>3
    <2>6. accountID[d] \in 0..MaxAccount
      BY <1>4, Typed
    <2> QED  BY <1>4, <1>9, <2>4, <2>5, <2>6, Typed DEF Without
  <1>11. Filed'
    BY <1>2, <1>5, <1>6, <1>10 DEF Filed, identityVars
  <1>12. Swept'
    BY <1>2, <1>3 DEF Swept, Visiting
  <1>13. Logins'
    BY <1>2, <1>5 DEF UInv, Logins, identityVars
  <1> QED  BY <1>11, <1>12, <1>13

\* Time passes.
LEMMA GrowOldStep ==
    ASSUME OneAtATime, TcpAddr = {}, UInv, NEW c \in Client, Close(c) \/ GrowOld(c)
    PROVE  Filed' /\ Swept' /\ Logins'
  <1>1. GrowOld(c)
    BY DEF Close, UInv, SInv, Undisturbed
  <1>2. /\ UNCHANGED <<managerVars, created, ip_port, identityVars, pc, cli, snapshot>>
        /\ last_recvd_heartbeat' = [last_recvd_heartbeat EXCEPT ![c] = "old"]
    BY <1>1 DEF GrowOld, createdVars, fieldVars, sweepVars
  <1>3. TInv
    BY DEF UInv, SInv, IInv
  <1>4. \A d \in Client : last_recvd_heartbeat[d] = "old" => last_recvd_heartbeat'[d] = "old"
    BY <1>2, <1>3 DEF TInv, TypeOK
  <1>5. \A t \in Thread : pc[t] # "idle" => cli[t] \in Client
    BY UnderWay DEF UInv
  <1>6. Filed'
    BY <1>2 DEF UInv, Filed, Registered, managerVars, identityVars
  <1>7. \A t \in Thread : Visiting(t)' = Visiting(t)
    BY <1>2 DEF Visiting
  <1>8. Swept'
    BY <1>2, <1>4, <1>5, <1>7 DEF UInv, Swept, managerVars, identityVars
  <1>9. Logins'
    BY <1>2 DEF UInv, Logins, identityVars
  <1> QED  BY <1>6, <1>8, <1>9

\* A sweep begins with Clients that are registered.
LEMMA HeartbeatStep ==
    ASSUME OneAtATime, UInv, NEW t \in Thread, NEW c \in 1..created, Heartbeat(t, c)
    PROVE  Filed' /\ Swept' /\ Logins'
  <1>1. SInv /\ TInv /\ pc[t] = "idle" /\ \A u \in Thread : u = t
    BY DEF UInv, SInv, IInv, Heartbeat, Begin, OneAtATime
  <1>2. UNCHANGED <<managerVars, created, ip_port, identityVars>>
    BY DEF Heartbeat, createdVars, fieldVars
  <1>3. pc'[t] \in {"idle", "sweep"}
    BY <1>1 DEF Heartbeat, Begin, Goto, TInv, TypeOK
  <1>4. Filed'
    BY <1>1, <1>2, StaysFiled DEF UInv, Registered, managerVars, identityVars
  <1>5. Logins'
    BY <1>1, <1>2, <1>3 DEF UInv, Logins, identityVars
  <1>6. Swept'
    <2> SUFFICES ASSUME pc'[t] = "sweep", NEW d \in snapshot'[t], username[d]
                 PROVE  clientsByAccountID[accountID[d]] = d
      BY <1>1, <1>2, <1>3 DEF Swept, Visiting, managerVars, identityVars
    <2>1. snapshot' = [snapshot EXCEPT ![t] = {clients_by_ip_port[a] : a \in Addr} \ {0}]
      BY <1>1 DEF Heartbeat, Begin
    <2>2. snapshot'[t] = {clients_by_ip_port[a] : a \in Addr} \ {0}
      BY <1>1, <2>1 DEF TInv, TypeOK
    <2>3. PICK a \in Addr : d = clients_by_ip_port[a] /\ d # 0
      BY <2>2
    <2>4. d \in 1..created
      BY <1>1, <2>3, Typed
    <2>5. Registered(d)
      BY <1>1, <2>3 DEF SInv, IInv, AtOwnAddress, Registered
    <2> QED  BY <1>1, <2>4, <2>5 DEF UInv, Filed
  <1> QED  BY <1>4, <1>5, <1>6

\* The sweep goes through its snapshot, and stops at who has been silent.
LEMMA SweepStep ==
    ASSUME OneAtATime, UInv, NEW t \in Thread, SweepClient(t)
    PROVE  Filed' /\ Swept' /\ Logins'
  <1>1. SInv /\ TInv /\ pc[t] = "sweep" /\ \A u \in Thread : u = t
    BY DEF UInv, SInv, IInv, SweepClient, OneAtATime
  <1>2. UNCHANGED <<managerVars, created, ip_port, identityVars, last_recvd_heartbeat>>
    BY DEF SweepClient, createdVars, fieldVars
  <1>3. pc'[t] \in {"idle", "sweep", "expire"}
    BY <1>1 DEF SweepClient, Finish, Goto, TInv, TypeOK
  <1>4. Filed'
    BY <1>1, <1>2, StaysFiled DEF UInv, Registered, managerVars, identityVars
  <1>5. Logins'
    BY <1>1, <1>2, <1>3 DEF UInv, Logins, identityVars
  <1>6. /\ Visiting(t)' \subseteq Visiting(t)
        /\ pc'[t] = "expire" => last_recvd_heartbeat[cli'[t]] = "old"
    <2>1. Visiting(t) = snapshot[t]
      BY <1>1 DEF Visiting
    <2>2. CASE Finish(t) /\ UNCHANGED snapshot
      <3>1. pc'[t] = "idle"
        BY <1>1, <2>2 DEF Finish, Goto, TInv, TypeOK
      <3> QED  BY <3>1 DEF Visiting
    <2>3. ASSUME NEW c \in snapshot[t], snapshot' = [snapshot EXCEPT ![t] = @ \ {c}],
                 IF Spared(t, c) THEN UNCHANGED <<pc, cli>>
                 ELSE Goto(t, "expire") /\ cli' = [cli EXCEPT ![t] = c]
          PROVE  /\ Visiting(t)' \subseteq Visiting(t)
                 /\ pc'[t] = "expire" => last_recvd_heartbeat[cli'[t]] = "old"
      <3>1. snapshot'[t] = snapshot[t] \ {c}
        BY <1>1, <2>3 DEF TInv, TypeOK
      <3>2. CASE Spared(t, c)
        BY <1>1, <2>1, <2>3, <3>1, <3>2 DEF Visiting
      <3>3. CASE ~ Spared(t, c)
        <4>1. pc'[t] = "expire" /\ cli'[t] = c
          BY <1>1, <2>3, <3>3 DEF Goto, TInv, TypeOK
        <4>2. last_recvd_heartbeat[c] = "old"
          BY <3>3 DEF Spared
        <4>3. Visiting(t)' = (snapshot[t] \ {c}) \union {c}
          BY <3>1, <4>1 DEF Visiting
        <4> QED  BY <2>1, <2>3, <4>1, <4>2, <4>3
      <3> QED  BY <3>2, <3>3
    <2> QED  BY <2>2, <2>3 DEF SweepClient
  <1>7. Swept'
    BY <1>1, <1>2, <1>3, <1>6 DEF UInv, Swept, managerVars, identityVars
  <1> QED  BY <1>4, <1>5, <1>7

\* The stale Client goes, or nobody.
LEMMA EvictStep ==
    ASSUME OneAtATime, TcpAddr = {}, UInv, NEW t \in Thread,
           RemoveLoggedOff(t) \/ ExpireClient(t) \/ EvictAccount(t)
    PROVE  Filed' /\ Swept' /\ Logins'
  <1>1. /\ ExpireClient(t) \/ EvictAccount(t)
        /\ \A u \in Thread : u = t
    BY DEF UInv, Logins, RemoveLoggedOff, OneAtATime
  <1>2. PICK c : c = cli[t]
    OBVIOUS
  <1>3. /\ pc[t] \in {"expire", "evict"}
        /\ UNCHANGED <<created, ip_port, identityVars, last_recvd_heartbeat, cli, snapshot>>
    BY <1>1 DEF ExpireClient, EvictAccount, createdVars, fieldVars, sweepVars
  <1>4. SInv /\ TInv /\ c \in 1..created /\ username[c]
    BY <1>2, <1>3, UnderWay DEF UInv, SInv, Handling
  <1>5. pc'[t] \in {"evict", "sweep"} /\ (pc'[t] = "evict" => ExpireClient(t))
    BY <1>1, <1>4 DEF ExpireClient, EvictAccount, Goto, TInv, TypeOK
  <1>6. Visiting(t)' \subseteq Visiting(t) /\ (pc'[t] = "evict" => last_recvd_heartbeat[c] = "old")
    BY <1>2, <1>3, <1>5 DEF UInv, Swept, Visiting
  <1>7. PICK x, e : x = accountID[c] /\ e = clientsByAccountID[x]
    OBVIOUS
  <1>8. x \in Account /\ x \in 0..MaxAccount /\ e \in 0..created
    BY <1>4, <1>7, HasAccount, Typed DEF Account
  <1>9. /\ \A d \in 1..created : Registered(d)' => Registered(d)
        /\ \A d \in 1..created :
              Registered(d)' /\ username[d] /\ clientsByAccountID[accountID[d]] = d
                  => clientsByAccountID'[accountID[d]] = d
        /\ \A y \in Account : clientsByAccountID'[y] \in {0, clientsByAccountID[y]}
    <2>1. CASE ExpireClient(t)
      <3>1. UNCHANGED managerVars
        BY <2>1 DEF ExpireClient, ViaTcp
      <3> QED  BY <1>3, <3>1 DEF Registered, managerVars
    <2>2. CASE EvictAccount(t) /\ e = 0
      <3>1. RemoveClient(0)
        BY <1>2, <1>7, <2>2 DEF EvictAccount
      <3> QED  BY <1>3, <3>1 DEF RemoveClient, Without, WithoutAddress, Registered
    <2>3. CASE EvictAccount(t) /\ e # 0
      <3>1. RemoveClient(e)
        BY <1>2, <1>7, <2>3 DEF EvictAccount
      <3>2. e \in 1..created /\ Registered(e) /\ accountID[e] = x /\ x # 0
        BY <1>4, <1>7, <1>8, <2>3, HasAccount, Typed DEF SInv, AccountsReachable
      <3>3. /\ clientsByAccountID' = [clientsByAccountID EXCEPT ![x] = 0]
            /\ clients_by_ip_port' = [clients_by_ip_port EXCEPT ![ip_port[e]] = 0]
        BY <2>3, <3>1, <3>2 DEF RemoveClient, Without, WithoutAddress
      <3>4. ASSUME NEW d \in 1..created, Registered(d)'
            PROVE  Registered(d) /\ d # e
        BY <1>3, <1>4, <3>3, <3>4, Typed DEF Registered
      <3>5. ASSUME NEW d \in 1..created, Registered(d)', username[d],
                   clientsByAccountID[accountID[d]] = d
            PROVE  clientsByAccountID'[accountID[d]] = d
        <4>1. d # e /\ accountID[d] \in 0..MaxAccount
          BY <1>4, <3>4, <3>5, Typed
        <4>2. accountID[d] # x
          BY <1>7, <3>5, <4>1
        <4> QED  BY <1>4, <3>3, <3>5, <4>1, <4>2, Typed
      <3>6. \A y \in Account : clientsByAccountID'[y] \in {0, clientsByAccountID[y]}
        <4>1. \A y \in Account : y \in 0..MaxAccount
          BY <1>4, Typed DEF Account
        <4> QED  BY <1>4, <3>3, <4>1, Typed
      <3> QED  BY <3>4, <3>5, <3>6
    <2> QED  BY <1>1, <2>1, <2>2, <2>3
  <1>10. Filed'
    BY <1>1, <1>3, <1>4, <1>9, StaysFiled DEF UInv, identityVars
  <1>11. Swept'
    <2>1. Visiting(t) \subseteq 1..created
      BY <1>2, <1>3, <1>4 DEF Visiting, TInv, TypeOK
    <2>2. \A d \in Visiting(t) : username[d] => accountID[d] \in Account
      BY <1>4, <2>1, HasAccount
    <2> QED  BY <1>1, <1>2, <1>3, <1>5, <1>6, <1>9, <2>2 DEF UInv, Swept, identityVars
  <1>12. Logins'
    BY <1>1, <1>3, <1>5 DEF UInv, Logins, identityVars
  <1> QED  BY <1>10, <1>11, <1>12

-----------------------------------------------------------------------------
(* The theorems without TCP.                                               *)

LEMMA InitUInv == Init => UInv
  <1> SUFFICES ASSUME Init
               PROVE  UInv
    OBVIOUS
  <1>1. Filed /\ Logins
    BY ClientManagerAssumption DEF Init, Filed, Logins
  <1>2. Swept
    BY DEF Init, Swept, Visiting
  <1> QED  BY <1>1, <1>2, InitSInv DEF UInv

LEMMA UInductive == OneAtATime /\ TcpAddr = {} /\ UInv /\ [Next]_vars => UInv'
  <1> SUFFICES ASSUME OneAtATime, TcpAddr = {}, UInv, [Next]_vars
               PROVE  UInv'
    OBVIOUS
  <1>1. SInv'
    BY SInductive DEF UInv
  <1>2. ASSUME NEW s \in Server, NEW a \in Addr, Connect(s, a) PROVE UInv'
    BY <1>1, <1>2, ConnectStep DEF UInv
  <1>3. ASSUME NEW c \in Client, Close(c) \/ GrowOld(c) PROVE UInv'
    BY <1>1, <1>3, GrowOldStep DEF UInv
  <1>4. ASSUME NEW t \in Thread, NEW c \in 1..created, Heartbeat(t, c) PROVE UInv'
    BY <1>1, <1>4, HeartbeatStep DEF UInv
  <1>5. ASSUME NEW t \in Thread, Request(t) \/ Disconnect(t) \/ HandlerStep(t) PROVE UInv'
    <2>1. CASE \/ Request(t) \/ Disconnect(t)
               \/ Identify(t) \/ UpdateList(t) \/ HandleRequest(t) \/ LogoffUser(t)
      BY <1>1, <2>1, PlainSteps DEF UInv
    <2>2. CASE LoginUser(t)
      BY <1>1, <2>2, LoginStep DEF UInv
    <2>3. CASE AddLoggedIn(t)
      BY <1>1, <2>3, AddStep DEF UInv
    <2>4. CASE SweepClient(t)
      BY <1>1, <2>4, SweepStep DEF UInv
    <2>5. CASE RemoveLoggedOff(t) \/ ExpireClient(t) \/ EvictAccount(t)
      BY <1>1, <2>5, EvictStep DEF UInv
    <2> QED  BY <1>5, <2>1, <2>2, <2>3, <2>4, <2>5 DEF HandlerStep
  <1>6. CASE UNCHANGED vars
    <2>1. UNCHANGED <<managerVars, created, ip_port, identityVars, last_recvd_heartbeat,
                      pc, cli, snapshot>>
      BY <1>6 DEF vars, createdVars, fieldVars, sweepVars
    <2>2. Filed' /\ Logins'
      BY <2>1 DEF UInv, Filed, Logins, Registered, managerVars, identityVars
    <2>3. \A t \in Thread : Visiting(t)' = Visiting(t)
      BY <2>1 DEF Visiting
    <2>4. Swept'
      BY <2>1, <2>3 DEF UInv, Swept, managerVars, identityVars
    <2> QED  BY <1>1, <2>2, <2>4 DEF UInv
  <1> QED  BY <1>2, <1>3, <1>4, <1>5, <1>6 DEF Next

\* While handlers run one at a time and nobody is connected over TCP, add_or_update_client
\* leaves an account one registered Client once its login is through.
THEOREM AccountsAreExclusive ==
    OneAtATime /\ TcpAddr = {} => (Spec => []OneClientPerAccount)
  <1> SUFFICES ASSUME OneAtATime, TcpAddr = {} PROVE Spec => []OneClientPerAccount
    OBVIOUS
  <1>1. UInv => OneClientPerAccount
    BY DEF UInv, Filed, Logins, OneClientPerAccount
  <1>2. UInv /\ [Next]_vars => UInv'
    BY UInductive
  <1> QED  BY <1>1, <1>2, InitUInv, PTL DEF Spec

\* While handlers run one at a time and nobody is connected over TCP, the sweep, which
\* removes whoever has the account of a stale Client, takes nobody who sent a
\* heartbeat within five minutes.
THEOREM TheLivingAreSpared ==
    OneAtATime /\ TcpAddr = {} => (Spec => []SweepSparesTheLiving)
  <1> SUFFICES ASSUME OneAtATime, TcpAddr = {} PROVE Spec => []SweepSparesTheLiving
    OBVIOUS
  <1>1. UInv => SweepSparesTheLiving
    BY DEF UInv, SInv, Handling, Swept, Visiting, SweepSparesTheLiving
  <1>2. UInv /\ [Next]_vars => UInv'
    BY UInductive
  <1> QED  BY <1>1, <1>2, InitUInv, PTL DEF Spec
-----------------------------------------------------------------------------
(* Over UDP the registry implements one set of sessions.                   *)

\* Who is about to log in is registered until then.
Present ==
    \A t \in Thread :
        pc[t] \in {"identify", "list", "request", "login", "add"} => Registered(cli[t])

RInv == UInv /\ Present

\* Nobody is at the start.
LEMMA InitPresent == Init => Present
  BY DEF Init, Present

\* Nobody connects or leaves while a handler runs, but for the sweep's own doing.
LEMMA NextPresent ==
    ASSUME OneAtATime, TcpAddr = {}, UInv, Present, [Next]_vars
    PROVE  Present'
  <1>1. SInv /\ TInv
    BY DEF UInv, SInv, IInv
  <1>2. ASSUME NEW s \in Server, NEW a \in Addr, Connect(s, a) PROVE Present'
    <2>1. \A t \in Thread : pc'[t] = "idle"
      BY <1>2 DEF Connect, Create, OneAtATime
    <2> QED  BY <2>1 DEF Present
  <1>3. ASSUME UNCHANGED <<managerVars, ip_port, pc, cli>> PROVE Present'
    BY <1>3 DEF Present, Registered, managerVars
  <1>4. ASSUME NEW c \in Client, Close(c) \/ GrowOld(c) PROVE Present'
    <2>1. UNCHANGED <<managerVars, ip_port, pc, cli>>
      BY <1>4 DEF Close, GrowOld, createdVars, fieldVars
    <2> QED  BY <1>3, <2>1
  <1>5. ASSUME NEW t \in Thread, NEW label, Goto(t, label),
               label \notin {"identify", "list", "request", "login", "add"}
        PROVE  Present'
    <2>1. (\A u \in Thread : u = t) /\ pc'[t] = label
      BY <1>1, <1>5, Single
    <2> QED  BY <1>5, <2>1 DEF Present
  <1>6. ASSUME NEW t \in Thread, NEW c \in 1..created, Heartbeat(t, c) PROVE Present'
    <2>1. CASE Goto(t, "sweep")
      BY <1>5, <2>1
    <2>2. CASE ~ Goto(t, "sweep")
      <3>1. UNCHANGED <<managerVars, ip_port, pc, cli>>
        BY <1>6, <2>2 DEF Heartbeat, Begin, createdVars, fieldVars
      <3> QED  BY <1>3, <3>1
    <2> QED  BY <2>1, <2>2
  <1>7. ASSUME NEW t \in Thread, Request(t) PROVE Present'
    <2>1. PICK c \in 1..created : Reaches(c) /\ cli' = [cli EXCEPT ![t] = c]
      BY <1>7 DEF Request, Begin
    <2>2. Registered(c)
      BY <1>1, <2>1, Typed DEF Reaches, ViaTcp, Registered
    <2>3. cli'[t] = c /\ Registered(c)'
      BY <1>1, <1>7, <2>1, <2>2
         DEF Request, Registered, TInv, TypeOK, managerVars, createdVars, fieldVars
    <2> QED  BY <2>3 DEF Present, OneAtATime
  <1>8. ASSUME NEW t \in Thread, Identify(t) \/ UpdateList(t) \/ LoginUser(t) \/ HandleRequest(t)
        PROVE  Present'
    <2>1. /\ pc[t] \in {"identify", "list", "request", "login"}
          /\ UNCHANGED <<clients_by_ip_port, ip_port>>
      BY <1>8 DEF Identify, UpdateList, LoginUser, HandleRequest, managerVars, createdVars,
                  fieldVars
    <2>2. UNCHANGED cli \/ Goto(t, "idle")
      BY <1>8 DEF Identify, UpdateList, LoginUser, HandleRequest, Finish
    <2>3. CASE UNCHANGED cli
      <3>1. Registered(cli[t])'
        BY <2>1, <2>3 DEF Present, Registered
      <3> QED  BY <3>1 DEF Present, OneAtATime
    <2> QED  BY <1>5, <2>2, <2>3
  <1>9. ASSUME NEW t \in Thread,
               \/ Disconnect(t) \/ AddLoggedIn(t) \/ LogoffUser(t) \/ RemoveLoggedOff(t)
               \/ SweepClient(t) \/ ExpireClient(t) \/ EvictAccount(t)
        PROVE  Present'
    <2>1. CASE SweepClient(t)
      <3>1. CASE Goto(t, "idle") \/ Goto(t, "expire")
        BY <1>5, <3>1
      <3>2. CASE ~ (Goto(t, "idle") \/ Goto(t, "expire"))
        <4>1. UNCHANGED <<managerVars, createdVars, pc, cli>>
          BY <2>1, <3>2 DEF SweepClient, Finish
        <4> QED  BY <1>3, <4>1 DEF createdVars, fieldVars
      <3> QED  BY <3>1, <3>2
    <2>2. CASE ~ SweepClient(t)
      <3>1. \/ Goto(t, "idle") \/ Goto(t, "logoff") \/ Goto(t, "remove")
            \/ Goto(t, "evict") \/ Goto(t, "sweep")
        BY <1>9, <2>2 DEF Disconnect, AddLoggedIn, LogoffUser, RemoveLoggedOff, ExpireClient,
                          EvictAccount, Begin, Finish
      <3> QED  BY <1>5, <3>1
    <2> QED  BY <2>1, <2>2
  <1>10. CASE UNCHANGED vars
    BY <1>3, <1>10 DEF vars, createdVars, fieldVars
  <1> QED  BY <1>2, <1>4, <1>6, <1>7, <1>8, <1>9, <1>10 DEF Next, HandlerStep

\* The invariant of the refinement.
LEMMA RInductive == OneAtATime /\ TcpAddr = {} /\ RInv /\ [Next]_vars => RInv'
  BY UInductive, NextPresent DEF RInv

\* Who is registered has a session, and nobody else.
LEMMA SessionOf ==
    ASSUME UInv, NEW c \in 1..created, Registered(c)
    PROVE  /\ SessionAt(ip_port[c]) \in CurrentSessions
           /\ SessionAt(ip_port[c]).client = c
           /\ SessionAt(ip_port[c]).address = ip_port[c]
           /\ SessionAt(ip_port[c]).account = LoggedInAs(c)
  <1>1. ip_port[c] \in Addr /\ clients_by_ip_port[ip_port[c]] = c /\ c # 0
    BY Typed DEF Registered, UInv, SInv, IInv
  <1> QED  BY <1>1 DEF SessionAt, CurrentSessions

\* The Clients at the addresses exist, each at its own.
LEMMA AtAddresses ==
    ASSUME UInv, NEW a \in Addr, clients_by_ip_port[a] # 0
    PROVE  /\ clients_by_ip_port[a] \in 1..created
           /\ ip_port[clients_by_ip_port[a]] = a
           /\ Registered(clients_by_ip_port[a])
  <1>1. TInv /\ AtOwnAddress
    BY DEF UInv, SInv, IInv
  <1>2. clients_by_ip_port[a] \in 1..created
    BY <1>1, Typed
  <1> QED  BY <1>1, <1>2 DEF AtOwnAddress, Registered

\* Only the sessions at some addresses change.
LEMMA Replaced ==
    ASSUME NEW G \in SUBSET Addr,
           \A b \in Addr \ G : /\ clients_by_ip_port'[b] = clients_by_ip_port[b]
                               /\ clients_by_ip_port[b] # 0 => SessionAt(b)' = SessionAt(b)
    PROVE  CurrentSessions' =
              {s \in CurrentSessions : s.address \notin G}
                  \union {SessionAt(b)' : b \in {g \in G : clients_by_ip_port'[g] # 0}}
  <1> DEFINE old == {s \in CurrentSessions : s.address \notin G}
             new == {SessionAt(b)' : b \in {g \in G : clients_by_ip_port'[g] # 0}}
  <1>1. ASSUME NEW s \in CurrentSessions'
        PROVE  s \in old \union new
    <2>1. PICK b \in Addr : clients_by_ip_port'[b] # 0 /\ s = SessionAt(b)'
      BY <1>1 DEF CurrentSessions
    <2>2. CASE b \in G
      BY <2>1, <2>2
    <2>3. CASE b \notin G
      <3>1. clients_by_ip_port[b] # 0 /\ s = SessionAt(b)
        BY <2>1, <2>3
      <3>2. SessionAt(b).address = b
        BY DEF SessionAt
      <3> QED  BY <2>3, <3>1, <3>2 DEF CurrentSessions
    <2> QED  BY <2>2, <2>3
  <1>2. ASSUME NEW s \in old
        PROVE  s \in CurrentSessions'
    <2>1. PICK b \in Addr : clients_by_ip_port[b] # 0 /\ s = SessionAt(b)
      BY <1>2 DEF CurrentSessions
    <2>2. b \notin G
      BY <1>2, <2>1 DEF SessionAt
    <2>3. clients_by_ip_port'[b] # 0 /\ s = SessionAt(b)'
      BY <2>1, <2>2
    <2> QED  BY <2>3 DEF CurrentSessions
  <1>3. ASSUME NEW s \in new
        PROVE  s \in CurrentSessions'
    BY <1>3 DEF CurrentSessions
  <1> HIDE DEF old, new
  <1>4. CurrentSessions' = old \union new
    BY <1>1, <1>2, <1>3
  <1> QED  BY <1>4 DEF old, new

\* None does.
LEMMA NoneReplaced ==
    ASSUME \A b \in Addr : /\ clients_by_ip_port'[b] = clients_by_ip_port[b]
                           /\ clients_by_ip_port[b] # 0 =>
                                 LoggedInAs(clients_by_ip_port[b])'
                                     = LoggedInAs(clients_by_ip_port[b])
    PROVE  CurrentSessions' = CurrentSessions
  <1>1. \A b \in Addr : clients_by_ip_port[b] # 0 => SessionAt(b)' = SessionAt(b)
    BY DEF SessionAt
  <1>2. /\ {s \in CurrentSessions : s.address \notin {}} = CurrentSessions
        /\ {SessionAt(b)' : b \in {g \in {} : clients_by_ip_port'[g] # 0}} = {}
    OBVIOUS
  <1>3. CurrentSessions' =
              {s \in CurrentSessions : s.address \notin {}}
                  \union {SessionAt(b)' : b \in {g \in {} : clients_by_ip_port'[g] # 0}}
    BY <1>1, Replaced
  <1> QED  BY <1>2, <1>3

\* A step that leaves the sessions alone.
LEMMA QuietRefines ==
    ASSUME UNCHANGED <<clients_by_ip_port, created, last_recvd_heartbeat>>,
           \A b \in Addr : clients_by_ip_port[b] # 0 =>
               LoggedInAs(clients_by_ip_port[b])' = LoggedInAs(clients_by_ip_port[b])
    PROVE  UNCHANGED Registry!sessionVars
  <1>1. CurrentSessions' = CurrentSessions
    BY NoneReplaced
  <1> QED  BY <1>1 DEF Registry!sessionVars

\* In particular one that neither changes the registry nor logs anybody in.
LEMMA StandsStill ==
    ASSUME UNCHANGED <<managerVars, created, accountID, last_recvd_heartbeat>>
    PROVE  UNCHANGED Registry!sessionVars
  <1>1. \A c : LoggedInAs(c)' = LoggedInAs(c)
    BY DEF LoggedInAs, managerVars
  <1> QED  BY <1>1, QuietRefines DEF managerVars

\* The first request, from its header on until its handler.
LEMMA FirstRequestRefines ==
    ASSUME OneAtATime, RInv, NEW t \in Thread, Identify(t) \/ UpdateList(t)
    PROVE  UNCHANGED Registry!sessionVars
  <1>1. SInv /\ TInv
    BY DEF RInv, UInv, SInv, IInv
  <1>2. CASE Identify(t)
    <2>1. /\ pc[t] = "identify"
          /\ UNCHANGED <<managerVars, createdVars, last_recvd_heartbeat>>
      BY <1>2 DEF Identify
    <2>2. cli[t] \in Client
      BY <1>1, <2>1, UnderWay
    <2>3. accountID[cli[t]] = 0
      BY <1>1, <2>1, <2>2 DEF SInv, Names, Handling
    <2>4. accountID' = [accountID EXCEPT ![cli[t]] = 0]
      BY <1>2 DEF Identify, OneAtATime
    <2>5. accountID' = accountID
      BY <1>1, <2>2, <2>3, <2>4 DEF TInv, TypeOK
    <2> QED  BY <2>1, <2>5, StandsStill DEF createdVars
  <1>3. CASE UpdateList(t)
    <2>1. /\ UNCHANGED <<clients_by_ip_port, created, accountID, last_recvd_heartbeat>>
          /\ \A x \in Account : clientsByAccountID'[x] = clientsByAccountID[x]
      BY <1>1, <1>3, UpdateListBook DEF UpdateList, createdVars, identityVars
    <2>2. ASSUME NEW b \in Addr, clients_by_ip_port[b] # 0
          PROVE  LoggedInAs(clients_by_ip_port[b])' = LoggedInAs(clients_by_ip_port[b])
      <3>1. PICK c : c = clients_by_ip_port[b]
        OBVIOUS
      <3>2. accountID[c] = 0 \/ accountID[c] \in Account
        BY <1>1, <2>2, <3>1, Typed DEF Account
      <3> QED  BY <2>1, <3>1, <3>2 DEF LoggedInAs
    <2> QED  BY <2>1, <2>2, QuietRefines
  <1> QED  BY <1>2, <1>3

\* login_User names the account of a Client that is not filed under it yet.
LEMMA LoginUserRefines ==
    ASSUME OneAtATime, RInv, NEW t \in Thread, LoginUser(t)
    PROVE  UNCHANGED Registry!sessionVars
  <1>1. SInv /\ TInv
    BY DEF RInv, UInv, SInv, IInv
  <1>2. PICK c : c = cli[t]
    OBVIOUS
  <1>3. /\ c \in Client /\ c # 0
        /\ UNCHANGED <<managerVars, created, last_recvd_heartbeat>>
    <2>1. c \in 1..created
      BY <1>1, <1>2, UnderWay DEF LoginUser
    <2> QED  BY <1>1, <2>1, Typed DEF LoginUser, createdVars
  <1>4. PICK x \in Account : /\ accountID[c] # 0 => x = accountID[c]
                             /\ accountID' = [accountID EXCEPT ![c] = x]
    BY <1>2 DEF LoginUser, OneAtATime
  <1>5. \A d \in Client \ {c} : accountID'[d] = accountID[d]
    BY <1>1, <1>4 DEF TInv, TypeOK
  <1>6. accountID'[c] = x /\ x # 0
    <2>1. MaxAccount \in Nat
      BY <1>1, Typed
    <2> QED  BY <1>1, <1>3, <1>4, <2>1 DEF TInv, TypeOK, Account
  <1>7. LoggedInAs(c)' = LoggedInAs(c)
    <2>1. CASE accountID[c] = 0
      <3>1. clientsByAccountID[x] # c
        BY <1>1, <1>3, <1>4, <1>6, <2>1 DEF SInv, AccountsReachable
      <3> QED  BY <1>3, <1>6, <2>1, <3>1 DEF LoggedInAs, managerVars
    <2>2. CASE accountID[c] # 0
      BY <1>3, <1>4, <1>6, <2>2 DEF LoggedInAs, managerVars
    <2> QED  BY <2>1, <2>2
  <1>8. ASSUME NEW b \in Addr, clients_by_ip_port[b] # 0
        PROVE  LoggedInAs(clients_by_ip_port[b])' = LoggedInAs(clients_by_ip_port[b])
    <2>1. PICK d : d = clients_by_ip_port[b]
      OBVIOUS
    <2>2. d \in Client /\ clients_by_ip_port'[b] = d
      BY <1>1, <1>3, <1>8, <2>1, Typed DEF managerVars
    <2>3. LoggedInAs(d)' = LoggedInAs(d)
      BY <1>3, <1>5, <1>7, <2>2 DEF LoggedInAs, managerVars
    <2> QED  BY <2>1, <2>2, <2>3 DEF LoggedInAs
  <1> QED  BY <1>3, <1>8, QuietRefines DEF managerVars

\* A new session replaces the one at its address.
LEMMA ConnectRefines ==
    ASSUME OneAtATime, RInv, NEW s \in Server, NEW a \in Addr, Connect(s, a)
    PROVE  Registry!Connect(a)
  <1>1. PICK c, o : c = created + 1 /\ o = clients_by_ip_port[a]
    OBVIOUS
  <1>2. /\ created < MaxClient /\ created' = c
        /\ \A t \in Thread : pc[t] = "idle"
        /\ AddOrUpdate(c, a, connectionid_count[s] + 1, 0)
        /\ UNCHANGED <<identityVars, last_recvd_heartbeat>>
    BY <1>1 DEF Connect, Create, OneAtATime
  <1>3. SInv /\ TInv /\ UInv
    BY DEF RInv, UInv, SInv, IInv
  <1>4. c \in Client /\ c # 0 /\ c \notin 0..created
    <2>1. created \in Nat /\ MaxClient \in Nat
      BY <1>3, Typed
    <2> QED  BY <1>1, <1>2, <2>1 DEF Client
  <1>5. OldAtAddress(c, a) = o
    BY <1>1, <1>3, <1>4, Typed DEF OldAtAddress
  <1>6. /\ clientsByAccountID' = Without(clientsByAccountID, accountID, o)
        /\ clients_by_ip_port' = [clients_by_ip_port EXCEPT ![a] = c]
    <2>1. \A m : OldOfAccount(c, 0, m) = 0
      BY DEF OldOfAccount
    <2>2. WithoutAddress(0) = clients_by_ip_port
      BY DEF WithoutAddress
    <2> QED  BY <1>2, <1>5, <2>1, <2>2 DEF AddOrUpdate
  <1>7. \A b \in Addr : clients_by_ip_port'[b] = IF b = a THEN c ELSE clients_by_ip_port[b]
    BY <1>3, <1>6, Typed
  <1>8. SessionAt(a)' = [address |-> a, client |-> c, account |-> 0]
    <2>1. accountID[c] = 0
      <3>1. ~ username[c]
        BY <1>3, <1>4, Typed DEF UInv, Logins
      <3> QED  BY <1>3, <1>4, <3>1 DEF SInv, Names
    <2>2. LoggedInAs(c)' = 0
      BY <1>2, <2>1 DEF LoggedInAs, identityVars
    <2> QED  BY <1>7, <2>2 DEF SessionAt, LoggedInAs
  <1>9. ASSUME NEW b \in Addr \ {a}, clients_by_ip_port[b] # 0
        PROVE  SessionAt(b)' = SessionAt(b)
    <2>1. PICK d : d = clients_by_ip_port[b]
      OBVIOUS
    <2>2. /\ d \in 1..created /\ ip_port[d] = b /\ d # 0 /\ d # o
          /\ accountID[d] \in 0..MaxAccount
      BY <1>1, <1>3, <1>9, <2>1, AtAddresses, Typed
    <2>3. clientsByAccountID'[accountID[d]] = d <=> clientsByAccountID[accountID[d]] = d
      <3>1. CASE o = 0 \/ accountID[o] = 0
        BY <1>6, <3>1 DEF Without
      <3>2. CASE o # 0 /\ accountID[o] # 0
        <4>1. o \in 1..created /\ Registered(o) /\ o \in Client
          BY <1>1, <1>3, <3>2, AtAddresses, Typed
        <4>2. username[o]
          BY <1>3, <3>2, <4>1 DEF SInv, Names
        <4>3. clientsByAccountID[accountID[o]] = o
          BY <1>2, <1>3, <4>1, <4>2 DEF UInv, Filed
        <4>4. clientsByAccountID' = [clientsByAccountID EXCEPT ![accountID[o]] = 0]
          BY <1>6, <3>2 DEF Without
        <4>5. clientsByAccountID'[accountID[d]] =
                  IF accountID[d] = accountID[o] THEN 0 ELSE clientsByAccountID[accountID[d]]
          BY <1>3, <2>2, <4>4, Typed
        <4> QED  BY <2>2, <4>3, <4>5
      <3> QED  BY <3>1, <3>2
    <2>4. LoggedInAs(d)' = LoggedInAs(d)
      BY <1>2, <2>3 DEF LoggedInAs, identityVars
    <2>5. clients_by_ip_port'[b] = d
      BY <1>7, <1>9, <2>1
    <2> QED  BY <2>1, <2>4, <2>5 DEF SessionAt, LoggedInAs
  <1>10. CurrentSessions' =
              {r \in CurrentSessions : r.address # a}
                  \union {[address |-> a, client |-> c, account |-> 0]}
    <2>1. CurrentSessions' =
              {r \in CurrentSessions : r.address \notin {a}}
                  \union {SessionAt(b)' : b \in {g \in {a} : clients_by_ip_port'[g] # 0}}
      BY <1>7, <1>9, Replaced
    <2>2. {g \in {a} : clients_by_ip_port'[g] # 0} = {a}
      BY <1>4, <1>7
    <2>3. {SessionAt(b)' : b \in {a}} = {[address |-> a, client |-> c, account |-> 0]}
      BY <1>8
    <2>4. {r \in CurrentSessions : r.address \notin {a}} = {r \in CurrentSessions : r.address # a}
      OBVIOUS
    <2> QED  BY <2>1, <2>2, <2>3, <2>4
  <1> QED  BY <1>1, <1>2, <1>4, <1>10 DEF Registry!Connect

\* Filing a Client that has logged in gives its session the account, and ends the one
\* that had it.
LEMMA AddRefines ==
    ASSUME OneAtATime, RInv, NEW t \in Thread, AddLoggedIn(t)
    PROVE  \E s \in CurrentSessions : \E x \in Account : Registry!Login(s, x)
  <1>1. PICK c, x, addr : c = cli[t] /\ x = accountID[c] /\ addr = ip_port[c]
    OBVIOUS
  <1>2. /\ pc[t] = "add"
        /\ AddOrUpdate(c, addr, connectionid[c], x)
        /\ UNCHANGED <<createdVars, identityVars, last_recvd_heartbeat>>
    BY <1>1 DEF AddLoggedIn
  <1>3. SInv /\ TInv /\ UInv
    BY DEF RInv, UInv, SInv, IInv
  <1>4. /\ c \in 1..created /\ c \in Client /\ c # 0 /\ username[c]
        /\ Registered(c) /\ addr \in Addr /\ clients_by_ip_port[addr] = c
    <2>1. c \in 1..created /\ c \in Client /\ c # 0 /\ username[c]
      BY <1>1, <1>2, <1>3, UnderWay, Typed DEF SInv, Handling
    <2>2. Registered(c)
      BY <1>1, <1>2 DEF RInv, Present
    <2> QED  BY <1>1, <2>1, <2>2 DEF Registered
  <1>5. x \in Account /\ x # 0 /\ x \in 0..MaxAccount
    BY <1>1, <1>3, <1>4, HasAccount, Typed
  <1>6. PICK p : p = OldOfAccount(c, x, clientsByAccountID)
    OBVIOUS
  <1>7. /\ clients_by_ip_port' = [WithoutAddress(p) EXCEPT ![addr] = c]
        /\ clientsByAccountID' = [clientsByAccountID EXCEPT ![x] = c]
    <2>1. OldAtAddress(c, addr) = 0
      BY <1>4 DEF OldAtAddress
    <2>2. Without(clientsByAccountID, accountID, 0) = clientsByAccountID
      BY DEF Without
    <2> QED  BY <1>2, <1>5, <1>6, <2>1, <2>2 DEF AddOrUpdate
  <1>8. p = IF clientsByAccountID[x] = c THEN 0 ELSE clientsByAccountID[x]
    BY <1>5, <1>6 DEF OldOfAccount
  <1>9. /\ p \in 0..created
        /\ p # 0 => /\ p \in 1..created /\ Registered(p) /\ accountID[p] = x
                    /\ ip_port[p] \in Addr /\ ip_port[p] # addr
                    /\ clients_by_ip_port[ip_port[p]] = p
    <2>1. p \in 0..created
      BY <1>3, <1>5, <1>8, Typed
    <2>2. ASSUME p # 0 PROVE p \in 1..created /\ Registered(p) /\ accountID[p] = x
      BY <1>3, <1>5, <1>8, <2>1, <2>2, Typed DEF SInv, AccountsReachable
    <2> QED  BY <1>4, <1>8, <2>1, <2>2 DEF Registered
  <1>10. \A b \in Addr : clients_by_ip_port'[b] =
              IF b = addr THEN c
              ELSE IF p # 0 /\ b = ip_port[p] THEN 0 ELSE clients_by_ip_port[b]
    BY <1>3, <1>4, <1>7, <1>9, Typed DEF WithoutAddress
  <1>11. \A y \in 0..MaxAccount : clientsByAccountID'[y] =
              IF y = x THEN c ELSE clientsByAccountID[y]
    BY <1>3, <1>7, Typed
  <1> DEFINE s == SessionAt(addr)
             G == {b \in Addr : /\ clients_by_ip_port[b] # 0
                                /\ b = addr \/ LoggedInAs(clients_by_ip_port[b]) = x}
  <1>12. /\ s \in CurrentSessions /\ s.client = c /\ s.address = addr /\ s.account \in {0, x}
         /\ s = [address |-> addr, client |-> c, account |-> s.account]
    BY <1>1, <1>3, <1>4, SessionOf DEF LoggedInAs, SessionAt
  <1>13. SessionAt(addr)' = [s EXCEPT !.account = x]
    <2>1. LoggedInAs(c)' = x
      BY <1>1, <1>2, <1>5, <1>11 DEF LoggedInAs, identityVars
    <2>2. SessionAt(addr)' = [address |-> addr, client |-> c, account |-> x]
      BY <1>4, <1>10, <2>1 DEF SessionAt, LoggedInAs
    <2> QED  BY <1>12, <2>2 DEF SessionAt
  <1>14. ASSUME NEW b \in Addr, clients_by_ip_port[b] # 0,
                NEW d, d = clients_by_ip_port[b]
         PROVE  /\ d \in 1..created /\ d # 0 /\ ip_port[d] = b
                /\ accountID[d] \in 0..MaxAccount
                /\ LoggedInAs(d) = x <=> clientsByAccountID[x] = d
    <2>1. d \in 1..created /\ d # 0 /\ ip_port[d] = b /\ accountID[d] \in 0..MaxAccount
      BY <1>3, <1>14, AtAddresses, Typed
    <2>2. clientsByAccountID[x] = d => accountID[d] = x
      BY <1>3, <1>5, <2>1 DEF SInv, AccountsReachable
    <2> QED  BY <1>5, <2>1, <2>2 DEF LoggedInAs
  <1>15. ASSUME NEW b \in Addr, b \notin G
         PROVE  /\ clients_by_ip_port'[b] = clients_by_ip_port[b]
                /\ clients_by_ip_port[b] # 0 => SessionAt(b)' = SessionAt(b)
    <2>1. b # addr
      BY <1>4, <1>15
    <2>2. p # 0 => b # ip_port[p]
      <3> SUFFICES ASSUME p # 0, b = ip_port[p] PROVE FALSE
        OBVIOUS
      <3>1. clients_by_ip_port[b] = p /\ clientsByAccountID[x] = p
        BY <1>8, <1>9
      <3> QED  BY <1>14, <1>15, <3>1
    <2>3. clients_by_ip_port'[b] = clients_by_ip_port[b]
      BY <1>10, <2>1, <2>2
    <2>4. ASSUME clients_by_ip_port[b] # 0
          PROVE  SessionAt(b)' = SessionAt(b)
      <3>1. PICK d : d = clients_by_ip_port[b]
        OBVIOUS
      <3>2. /\ d # 0 /\ ip_port[d] = b /\ accountID[d] \in 0..MaxAccount
            /\ clientsByAccountID[x] # d /\ d # c
        BY <1>1, <1>14, <1>15, <2>1, <2>4, <3>1
      <3>3. clientsByAccountID'[accountID[d]] = d <=> clientsByAccountID[accountID[d]] = d
        BY <1>11, <3>2
      <3>4. LoggedInAs(d)' = LoggedInAs(d)
        BY <1>2, <3>3 DEF LoggedInAs, identityVars
      <3> QED  BY <2>3, <3>1, <3>4 DEF SessionAt, LoggedInAs
    <2> QED  BY <2>3, <2>4
  <1>16. {g \in G : clients_by_ip_port'[g] # 0} = {addr}
    <2>1. addr \in G /\ clients_by_ip_port'[addr] # 0
      BY <1>4, <1>10
    <2>2. ASSUME NEW b \in G, b # addr PROVE clients_by_ip_port'[b] = 0
      <3>1. PICK d : d = clients_by_ip_port[b]
        OBVIOUS
      <3>2. clientsByAccountID[x] = d /\ d # 0 /\ ip_port[d] = b
        BY <1>14, <2>2, <3>1
      <3>3. p = d
        BY <1>1, <1>8, <2>2, <3>2
      <3> QED  BY <1>10, <2>2, <3>2, <3>3
    <2> QED  BY <2>1, <2>2
  <1>17. \A r \in CurrentSessions : r.address \notin G <=> r # s /\ r.account # x
    <2> SUFFICES ASSUME NEW r \in CurrentSessions
                 PROVE  r.address \in G <=> r = s \/ r.account = x
      OBVIOUS
    <2>1. PICK b \in Addr : clients_by_ip_port[b] # 0 /\ r = SessionAt(b)
      BY DEF CurrentSessions
    <2>2. r.address = b /\ r.account = LoggedInAs(clients_by_ip_port[b])
      BY <2>1 DEF SessionAt
    <2>3. r = s <=> b = addr
      BY <1>12, <2>1, <2>2
    <2> QED  BY <2>1, <2>2, <2>3
  <1>18. CurrentSessions' =
              {r \in CurrentSessions : r # s /\ r.account # x} \union {[s EXCEPT !.account = x]}
    <2> HIDE DEF G, s
    <2>0. G \in SUBSET Addr
      BY DEF G
    <2>1. CurrentSessions' =
              {r \in CurrentSessions : r.address \notin G}
                  \union {SessionAt(b)' : b \in {g \in G : clients_by_ip_port'[g] # 0}}
      BY <1>15, <2>0, Replaced
    <2>2. {SessionAt(b)' : b \in {addr}} = {[s EXCEPT !.account = x]}
      BY <1>13
    <2>3. {r \in CurrentSessions : r.address \notin G} =
              {r \in CurrentSessions : r # s /\ r.account # x}
      BY <1>17
    <2> QED  BY <1>16, <2>1, <2>2, <2>3
  <1> HIDE DEF s, G
  <1>19. Registry!Login(s, x)
    BY <1>2, <1>12, <1>18 DEF Registry!Login, createdVars
  <1> QED  BY <1>5, <1>12, <1>19

\* The sweep ends the session of the Client it found silent, if it still has one.
LEMMA EvictRefines ==
    ASSUME OneAtATime, RInv, NEW t \in Thread, EvictAccount(t)
    PROVE  \/ \E s \in CurrentSessions : Registry!Expire(s)
           \/ UNCHANGED Registry!sessionVars
  <1>1. PICK x, e : x = accountID[cli[t]] /\ e = clientsByAccountID[x]
    OBVIOUS
  <1>2. /\ pc[t] = "evict" /\ RemoveClient(e)
        /\ UNCHANGED <<createdVars, identityVars, last_recvd_heartbeat>>
    BY <1>1 DEF EvictAccount
  <1>3. SInv /\ TInv /\ UInv
    BY DEF RInv, UInv, SInv, IInv
  <1>4. /\ x \in Account /\ x # 0 /\ x \in 0..MaxAccount /\ e \in 0..created
        /\ e # 0 => last_recvd_heartbeat[e] = "old"
    <2>1. cli[t] \in 1..created /\ username[cli[t]]
      BY <1>2, <1>3, UnderWay DEF SInv, Handling
    <2>2. e \in {0, cli[t]} /\ last_recvd_heartbeat[cli[t]] = "old"
      BY <1>1, <1>2, <1>3, <2>1 DEF UInv, Swept, Visiting
    <2> QED  BY <1>1, <1>3, <2>1, <2>2, HasAccount, Typed
  <1>5. CASE e = 0
    <2>1. UNCHANGED managerVars
      BY <1>2, <1>5 DEF RemoveClient, Without, WithoutAddress, managerVars
    <2> QED  BY <1>2, <2>1, StandsStill DEF createdVars, identityVars
  <1>6. CASE e # 0
    <2> DEFINE s == SessionAt(ip_port[e])
    <2>1. e \in 1..created /\ Registered(e) /\ accountID[e] = x /\ ip_port[e] \in Addr
      BY <1>1, <1>3, <1>4, <1>6, Typed DEF SInv, AccountsReachable
    <2>2. /\ clientsByAccountID' = [clientsByAccountID EXCEPT ![x] = 0]
          /\ clients_by_ip_port' = [clients_by_ip_port EXCEPT ![ip_port[e]] = 0]
      BY <1>2, <1>4, <1>6, <2>1 DEF RemoveClient, Without, WithoutAddress
    <2>3. /\ \A b \in Addr : clients_by_ip_port'[b] =
                                IF b = ip_port[e] THEN 0 ELSE clients_by_ip_port[b]
          /\ \A y \in 0..MaxAccount : clientsByAccountID'[y] =
                                IF y = x THEN 0 ELSE clientsByAccountID[y]
      BY <1>3, <2>2, Typed
    <2>4. /\ s \in CurrentSessions /\ s.client = e /\ s.address = ip_port[e]
          /\ s.account = x
      BY <1>1, <1>3, <2>1, SessionOf DEF LoggedInAs
    <2>5. ASSUME NEW b \in Addr \ {ip_port[e]}, clients_by_ip_port[b] # 0
          PROVE  SessionAt(b)' = SessionAt(b)
      <3>1. PICK d : d = clients_by_ip_port[b]
        OBVIOUS
      <3>2. d # 0 /\ d # e /\ accountID[d] \in 0..MaxAccount
        BY <1>3, <2>5, <3>1, AtAddresses, Typed
      <3>3. clientsByAccountID'[accountID[d]] = d <=> clientsByAccountID[accountID[d]] = d
        BY <1>1, <2>3, <3>2
      <3>4. LoggedInAs(d)' = LoggedInAs(d)
        BY <1>2, <3>3 DEF LoggedInAs, identityVars
      <3> QED  BY <2>3, <2>5, <3>1, <3>4 DEF SessionAt, LoggedInAs
    <2>6. CurrentSessions' = CurrentSessions \ {s}
      <3>1. CurrentSessions' =
                {r \in CurrentSessions : r.address \notin {ip_port[e]}}
                    \union {SessionAt(b)' : b \in {g \in {ip_port[e]} : clients_by_ip_port'[g] # 0}}
        BY <2>1, <2>3, <2>5, Replaced
      <3>2. {g \in {ip_port[e]} : clients_by_ip_port'[g] # 0} = {}
        BY <2>1, <2>3
      <3>3. {SessionAt(b)' : b \in {}} = {}
        OBVIOUS
      <3>4. \A r \in CurrentSessions : r.address = ip_port[e] <=> r = s
        <4> SUFFICES ASSUME NEW r \in CurrentSessions, r.address = ip_port[e]
                     PROVE  r = s
          BY <2>4
        <4>1. PICK b \in Addr : r = SessionAt(b)
          BY DEF CurrentSessions
        <4> QED  BY <4>1 DEF SessionAt
      <3> HIDE DEF s
      <3> QED  BY <3>1, <3>2, <3>3, <3>4
    <2> HIDE DEF s
    <2>7. Registry!Expire(s)
      BY <1>2, <1>4, <1>6, <2>4, <2>6 DEF Registry!Expire, createdVars
    <2> QED  BY <2>4, <2>7
  <1> QED  BY <1>5, <1>6

\* A heartbeat is one of a session.
LEMMA HeartbeatRefines ==
    ASSUME TcpAddr = {}, RInv, NEW t \in Thread, NEW c \in 1..created, Heartbeat(t, c)
    PROVE  \E s \in CurrentSessions : Registry!Heartbeat(s)
  <1>1. SInv /\ TInv /\ UInv
    BY DEF RInv, UInv, SInv, IInv
  <1>2. Registered(c)
    BY <1>1, Typed DEF Heartbeat, Reaches, ViaTcp, Registered
  <1>3. /\ UNCHANGED <<managerVars, created, accountID>>
        /\ last_recvd_heartbeat' = [last_recvd_heartbeat EXCEPT ![c] = "recent"]
    BY DEF Heartbeat, createdVars, identityVars
  <1>4. CurrentSessions' = CurrentSessions
    <2>1. \A d : LoggedInAs(d)' = LoggedInAs(d)
      BY <1>3 DEF LoggedInAs, managerVars
    <2> QED  BY <1>3, <2>1, NoneReplaced DEF managerVars
  <1>5. Registry!Heartbeat(SessionAt(ip_port[c]))
    BY <1>1, <1>2, <1>3, <1>4, SessionOf DEF Registry!Heartbeat
  <1> QED  BY <1>1, <1>2, <1>5, SessionOf

\* Every step is one of the sessions or leaves them alone.
LEMMA RegistryStepRefines ==
    ASSUME OneAtATime, TcpAddr = {}, RInv, [Next]_vars
    PROVE  [Registry!Next]_(Registry!sessionVars)
  <1>1. ASSUME NEW s \in Server, NEW a \in Addr, Connect(s, a)
        PROVE  [Registry!Next]_(Registry!sessionVars)
    BY <1>1, ConnectRefines DEF Registry!Next
  <1>2. ASSUME NEW c \in Client, Close(c) \/ GrowOld(c)
        PROVE  [Registry!Next]_(Registry!sessionVars)
    <2>1. CASE Close(c)
      BY <2>1, StandsStill DEF Close, identityVars
    <2>2. CASE GrowOld(c)
      <3>1. \A d : LoggedInAs(d)' = LoggedInAs(d)
        BY <2>2 DEF GrowOld, LoggedInAs, managerVars, identityVars
      <3>2. CurrentSessions' = CurrentSessions
        BY <2>2, <3>1, NoneReplaced DEF GrowOld, managerVars
      <3>3. Registry!FallSilent(c)
        BY <2>2, <3>2 DEF GrowOld, Registry!FallSilent, createdVars
      <3> QED  BY <3>3 DEF Registry!Next
    <2> QED  BY <1>2, <2>1, <2>2
  <1>3. ASSUME NEW t \in Thread, NEW c \in 1..created, Heartbeat(t, c)
        PROVE  [Registry!Next]_(Registry!sessionVars)
    BY <1>3, HeartbeatRefines DEF Registry!Next
  <1>4. ASSUME NEW t \in Thread, AddLoggedIn(t)
        PROVE  [Registry!Next]_(Registry!sessionVars)
    BY <1>4, AddRefines DEF Registry!Next
  <1>5. ASSUME NEW t \in Thread, EvictAccount(t)
        PROVE  [Registry!Next]_(Registry!sessionVars)
    BY <1>5, EvictRefines DEF Registry!Next
  <1>6. ASSUME NEW t \in Thread, Identify(t) \/ UpdateList(t) \/ LoginUser(t)
        PROVE  [Registry!Next]_(Registry!sessionVars)
    BY <1>6, FirstRequestRefines, LoginUserRefines
  <1>7. ASSUME NEW t \in Thread,
               \/ Request(t) \/ Disconnect(t) \/ HandleRequest(t) \/ LogoffUser(t)
               \/ RemoveLoggedOff(t) \/ SweepClient(t) \/ ExpireClient(t)
        PROVE  [Registry!Next]_(Registry!sessionVars)
    <2>1. ~ RemoveLoggedOff(t)
      BY DEF RemoveLoggedOff, RInv, UInv, Logins
    <2>2. UNCHANGED <<managerVars, created, accountID, last_recvd_heartbeat>>
      BY <1>7, <2>1
         DEF Request, Disconnect, HandleRequest, LogoffUser, SweepClient, ExpireClient, ViaTcp,
             createdVars, identityVars
    <2> QED  BY <2>2, StandsStill
  <1>8. CASE UNCHANGED vars
    BY <1>8, StandsStill DEF vars, createdVars, identityVars
  <1> QED  BY <1>1, <1>2, <1>3, <1>4, <1>5, <1>6, <1>7, <1>8 DEF Next, HandlerStep

\* While handlers run one at a time and nobody is connected over TCP, every behaviour of
\* the registry is one of ClientSessions (ImplementsSessions of ClientManager): the calls
\* of add_or_update_client, update_list and remove_client add up to a set of sessions
\* with one at each address and for each account, which end for no other reason than a
\* new connection, a new login or five minutes of silence.
THEOREM RegistryKeepsSessions ==
    OneAtATime /\ TcpAddr = {} => (Spec => ImplementsSessions)
  <1> SUFFICES ASSUME OneAtATime, TcpAddr = {} PROVE Spec => ImplementsSessions
    OBVIOUS
  <1>1. Init => RInv /\ Registry!Init
    <2>1. Init => CurrentSessions = {}
      BY DEF Init, CurrentSessions
    <2> QED  BY <2>1, InitUInv, InitPresent DEF Init, RInv, Registry!Init
  <1>2. RInv /\ [Next]_vars => RInv'
    BY RInductive
  <1>3. RInv /\ [Next]_vars => [Registry!Next]_(Registry!sessionVars)
    BY RegistryStepRefines
  <1> QED  BY <1>1, <1>2, <1>3, PTL DEF Spec, ImplementsSessions, Registry!Spec
=============================================================================
