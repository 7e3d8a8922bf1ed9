---------------------------- MODULE CMConnection ----------------------------
(***************************************************************************)
(* The receive path of the UDP connection manager for one remote endpoint  *)
(* (ip, port): steam3/cmserver_udp.py:handle_client, run for every         *)
(* datagram by some thread of the pool of utilities/networkhandler.py, on  *)
(* the Client objects of steam3/ClientManager/client.py.                   *)
(*                                                                         *)
(* A worker takes one datagram and runs the handler in the steps between   *)
(* which another thread can be scheduled; a method that holds a lock is    *)
(* one step.  The network loses, repeats and reorders: net is the set of   *)
(* datagrams ever sent, each of which may be taken never, once or several  *)
(* times, in any order.  The remote                                        *)
(* Steam client is external: it may start a new connection from the same   *)
(* port, which is an `attempt', while packets of the previous one are      *)
(* still under way.                                                        *)
(***************************************************************************)
EXTENDS Naturals, Sequences, Functions

CONSTANTS
    Worker,      \* threads of the pool
    MaxConn,     \* bound: Client objects created
    MaxAttempt,  \* bound: connection attempts of the remote client
    MaxSeq,      \* bound: highest data sequence number the client uses
    Tolerance,   \* numbers ahead of the expected one still accepted (9 in the code)
    Encrypted,   \* is_encrypted of the server: port 27017 TRUE, port 27014 FALSE
    NoPacket     \* value of an idle worker's packet

ASSUME CMConnectionAssumption ==
    /\ MaxConn \in Nat
    /\ MaxAttempt \in Nat
    /\ MaxSeq \in Nat
    /\ Tolerance \in Nat
    /\ Encrypted \in BOOLEAN

Conn == 1..MaxConn
Attempt == 1..MaxAttempt

ConnectPacket == [kind : {"Connect"}, attempt : Attempt, seq : {0}]
DataPacket == [kind : {"Data", "EncryptResponse"}, attempt : Attempt, seq : 2..MaxSeq]
HeartbeatPacket == [kind : {"Datagram"}, attempt : Attempt, seq : {0}]
Packet == ConnectPacket \union DataPacket \union HeartbeatPacket

Label == {"idle", "publish", "bump", "queue", "check", "clear", "encryptRequest",
          "installKey", "sequence", "ackDuplicate", "dispatch"}

VARIABLES
    \* the remote client and the network (external)
    attempt,             \* connection attempts begun
    sent,                \* highest sequence number used per attempt; 0 before its Accept is heard
    net,                 \* datagrams sent to the server
    accepts,             \* Accept packets sent: the attempt answered and the id it announces
    \* the server
    connectionid_count,  \* next connection id to hand out
    created,             \* Client objects created so far
    registered,          \* clients_by_ip_port of this endpoint, 0 when there is none
    connectionid,        \* Client.connectionid
    origin,              \* attempt whose Connect created the Client (history)
    recvd,               \* Client.last_recvd_sequence
    pending,             \* Client.pending_encryption_request
    requested,           \* Clients a ChannelEncryptRequest was sent for (history)
    keyed,               \* Client.symmetric_key: the attempt that sent it, 0 for None
    accepted,            \* numbers update_client_sequence advanced to (history)
    dispatched,          \* numbers handed to handle_CMPacket, in order (history)
    \* the workers
    pc,                  \* next step of the handler
    pkt,                 \* the datagram in hand
    cli                  \* the Client it was looked up for, 0 for None

endpointVars == <<attempt, sent, net, accepts>>
clientVars == <<connectionid, origin, recvd, pending, requested, keyed, accepted,
                dispatched>>
serverVars == <<connectionid_count, created, registered>>
workerVars == <<pc, pkt, cli>>
vars == <<endpointVars, serverVars, clientVars, workerVars>>

Init ==
    /\ attempt = 0
    /\ sent = [a \in Attempt |-> 0]
    /\ net = {}
    /\ accepts = {}
    /\ connectionid_count = 1
    /\ created = 0
    /\ registered = 0
    /\ connectionid = [c \in Conn |-> 0]
    /\ origin = [c \in Conn |-> 0]
    /\ recvd = [c \in Conn |-> 0]
    /\ pending = [c \in Conn |-> FALSE]
    /\ requested = {}
    /\ keyed = [c \in Conn |-> 0]
    /\ accepted = [c \in Conn |-> {}]
    /\ dispatched = [c \in Conn |-> <<>>]
    /\ pc = [w \in Worker |-> "idle"]
    /\ pkt = [w \in Worker |-> NoPacket]
    /\ cli = [w \in Worker |-> 0]

-----------------------------------------------------------------------------
(* The remote client.                                                      *)

StartAttempt ==
    /\ attempt < MaxAttempt
    /\ attempt' = attempt + 1
    /\ net' = net \union {[kind |-> "Connect", attempt |-> attempt + 1, seq |-> 0]}
    /\ UNCHANGED <<sent, accepts, serverVars, clientVars, workerVars>>

\* Its Connect carried sequence number 1 or 2, which validate_connect_request allows.
HearAccept ==
    /\ attempt > 0
    /\ sent[attempt] = 0
    /\ \E m \in accepts : m.attempt = attempt
    /\ \E s \in {1, 2} : sent' = [sent EXCEPT ![attempt] = s]
    /\ UNCHANGED <<attempt, net, accepts, serverVars, clientVars, workerVars>>

SendData(kind) ==
    /\ attempt > 0
    /\ sent[attempt] \in 1..(MaxSeq - 1)
    /\ sent' = [sent EXCEPT ![attempt] = @ + 1]
    /\ net' = net \union {[kind |-> kind, attempt |-> attempt, seq |-> sent[attempt] + 1]}
    /\ UNCHANGED <<attempt, accepts, serverVars, clientVars, workerVars>>

SendDatagram ==
    /\ attempt > 0
    /\ sent[attempt] > 0
    /\ net' = net \union {[kind |-> "Datagram", attempt |-> attempt, seq |-> 0]}
    /\ UNCHANGED <<attempt, sent, accepts, serverVars, clientVars, workerVars>>

\* A session key is sent once, in answer to a ChannelEncryptRequest.
SendEncryptResponse ==
    /\ \A p \in net : p.attempt = attempt => p.kind # "EncryptResponse"
    /\ \E c \in requested : origin[c] = attempt
    /\ SendData("EncryptResponse")

RemoteClient ==
    \/ StartAttempt
    \/ HearAccept
    \/ SendData("Data")
    \/ SendEncryptResponse
    \/ SendDatagram

-----------------------------------------------------------------------------
(* A worker of the pool: UDPNetworkHandlerCM.process_packet.               *)

Take(w, p, label, c) ==
    /\ pc[w] = "idle"
    /\ pc' = [pc EXCEPT ![w] = label]
    /\ pkt' = [pkt EXCEPT ![w] = p]
    /\ cli' = [cli EXCEPT ![w] = c]

Goto(w, label) == pc' = [pc EXCEPT ![w] = label] /\ UNCHANGED <<pkt, cli>>

Finish(w) ==
    /\ pc' = [pc EXCEPT ![w] = "idle"]
    /\ pkt' = [pkt EXCEPT ![w] = NoPacket]
    /\ cli' = [cli EXCEPT ![w] = 0]

\* Connect: the Accept goes out before the Client object exists.
ReceiveConnect(w) ==
    /\ created < MaxConn
    /\ \E p \in net :
          /\ p.kind = "Connect"
          /\ Take(w, p, "publish", 0)
          /\ accepts' = accepts \union
                            {[attempt |-> p.attempt, id |-> connectionid_count]}
    /\ UNCHANGED <<attempt, sent, net, serverVars, clientVars>>

\* Client(...), initialize_after_handshake() and add_or_update_client(), which
\* replaces whatever Client this endpoint had.
PublishClient(w) ==
    /\ pc[w] = "publish"
    /\ created < MaxConn
    /\ created' = created + 1
    /\ registered' = created + 1
    /\ connectionid' = [connectionid EXCEPT ![created + 1] = connectionid_count]
    /\ origin' = [origin EXCEPT ![created + 1] = pkt[w].attempt]
    /\ recvd' = [recvd EXCEPT ![created + 1] = 1]
    /\ pc' = [pc EXCEPT ![w] = "bump"]
    /\ cli' = [cli EXCEPT ![w] = created + 1]
    /\ UNCHANGED <<endpointVars, connectionid_count, pending, requested, keyed,
                   accepted, dispatched, pkt>>

BumpConnectionId(w) ==
    /\ pc[w] = "bump"
    /\ connectionid_count' = connectionid_count + 1
    /\ IF Encrypted THEN Goto(w, "queue") ELSE Finish(w)
    /\ UNCHANGED <<endpointVars, created, registered, clientVars>>

QueueEncryption(w) ==
    /\ pc[w] = "queue"
    /\ pending' = [pending EXCEPT ![cli[w]] = TRUE]
    /\ Finish(w)
    /\ UNCHANGED <<endpointVars, serverVars, connectionid, origin, recvd, requested,
                   keyed, accepted, dispatched>>

\* Data and heartbeats: get_client_by_identifier(address).  Without a Client the
\* handler has no effect (a heartbeat returns, a data packet is an unknown command).
ReceiveTraffic(w) ==
    /\ registered # 0
    /\ \E p \in net : p.kind # "Connect" /\ Take(w, p, "check", registered)
    /\ UNCHANGED <<endpointVars, serverVars, clientVars>>

\* pending_encryption_request is read here and cleared in a later step.  A
\* heartbeat without a queued request is only answered (handle_Heartbeat, whose
\* sequence number 0 never moves last_recvd_sequence).
CheckPending(w) ==
    /\ pc[w] = "check"
    /\ \/ pending[cli[w]] /\ Goto(w, "clear")
       \/ ~pending[cli[w]] /\ pkt[w].kind = "Data" /\ Goto(w, "sequence")
       \/ ~pending[cli[w]] /\ pkt[w].kind = "EncryptResponse" /\ Goto(w, "installKey")
       \/ ~pending[cli[w]] /\ pkt[w].kind = "Datagram" /\ Finish(w)
    /\ UNCHANGED <<endpointVars, serverVars, clientVars>>

\* Faulty variant: the queued request is dropped instead of sent.
ClearAndForget(w) ==
    /\ pc[w] = "clear"
    /\ pending' = [pending EXCEPT ![cli[w]] = FALSE]
    /\ Finish(w)
    /\ UNCHANGED <<endpointVars, serverVars, connectionid, origin, recvd, requested,
                   keyed, accepted, dispatched>>

ClearPending(w) ==
    /\ pc[w] = "clear"
    /\ pending' = [pending EXCEPT ![cli[w]] = FALSE]
    /\ Goto(w, "encryptRequest")
    /\ UNCHANGED <<endpointVars, serverVars, connectionid, origin, recvd, requested,
                   keyed, accepted, dispatched>>

\* Faulty variant: the last number received counts as new.
InWindowInclusive(c, s) == s >= recvd[c] /\ s <= recvd[c] + 1 + Tolerance

\* update_client_sequence returns TRUE exactly for these numbers.
InWindow(c, s) == s > recvd[c] /\ s <= recvd[c] + 1 + Tolerance

\* Faulty variant: the next expected number is recorded as received.
RecordExpected(c, s) ==
    IF InWindow(c, s)
    THEN /\ recvd' = [recvd EXCEPT ![c] = s + 1]
         /\ accepted' = [accepted EXCEPT ![c] = @ \union {s}]
    ELSE UNCHANGED <<recvd, accepted>>

UpdateClientSequence(c, s) ==
    IF InWindow(c, s)
    THEN /\ recvd' = [recvd EXCEPT ![c] = s]
         /\ accepted' = [accepted EXCEPT ![c] = @ \union {s}]
    ELSE UNCHANGED <<recvd, accepted>>

\* The data packet that releases the request counts as received but is not
\* dispatched; a heartbeat, with its number 0, moves nothing.
SendEncryptRequest(w) ==
    /\ pc[w] = "encryptRequest"
    /\ requested' = requested \union {cli[w]}
    /\ UpdateClientSequence(cli[w], pkt[w].seq)
    /\ Finish(w)
    /\ UNCHANGED <<endpointVars, serverVars, connectionid, origin, pending, keyed,
                   dispatched>>

\* Faulty variant: the key is filed under the packet's sequence number.
KeyBySequence(w) ==
    /\ pc[w] = "installKey"
    /\ keyed' = [keyed EXCEPT ![cli[w]] = pkt[w].seq]
    /\ UpdateClientSequence(cli[w], pkt[w].seq)
    /\ Finish(w)
    /\ UNCHANGED <<endpointVars, serverVars, connectionid, origin, pending,
                   requested, dispatched>>

\* ChannelEncryptResponse: the verdict of update_client_sequence is ignored.
InstallKey(w) ==
    /\ pc[w] = "installKey"
    /\ keyed' = [keyed EXCEPT ![cli[w]] = pkt[w].attempt]
    /\ UpdateClientSequence(cli[w], pkt[w].seq)
    /\ Finish(w)
    /\ UNCHANGED <<endpointVars, serverVars, connectionid, origin, pending,
                   requested, dispatched>>

ValidateSequence(w) ==
    /\ pc[w] = "sequence"
    /\ UpdateClientSequence(cli[w], pkt[w].seq)
    /\ Goto(w, IF InWindow(cli[w], pkt[w].seq) THEN "dispatch" ELSE "ackDuplicate")
    /\ UNCHANGED <<endpointVars, serverVars, connectionid, origin, pending, requested,
                   keyed, dispatched>>

\* send_ack_for_duplicate: a bare acknowledgement, no server state changes.
AckDuplicate(w) ==
    /\ pc[w] = "ackDuplicate"
    /\ Finish(w)
    /\ UNCHANGED <<endpointVars, serverVars, clientVars>>

\* The entry into handle_CMPacket.
Dispatch(w) ==
    /\ pc[w] = "dispatch"
    /\ dispatched' = [dispatched EXCEPT ![cli[w]] = Append(@, pkt[w].seq)]
    /\ Finish(w)
    /\ UNCHANGED <<endpointVars, serverVars, connectionid, origin, recvd, pending,
                   requested, keyed, accepted>>

HandlerStep(w) ==
    \/ PublishClient(w)
    \/ BumpConnectionId(w)
    \/ QueueEncryption(w)
    \/ CheckPending(w)
    \/ ClearPending(w)
    \/ SendEncryptRequest(w)
    \/ InstallKey(w)
    \/ ValidateSequence(w)
    \/ AckDuplicate(w)
    \/ Dispatch(w)

Next ==
    \/ RemoteClient
    \/ \E w \in Worker : ReceiveConnect(w) \/ ReceiveTraffic(w) \/ HandlerStep(w)

Spec == Init /\ [][Next]_vars

(* Every submitted datagram is run by the pool, whose queue is first in     *)
(* first out, and a worker runs its handler to the end; the remote client   *)
(* keeps sending heartbeats once it has heard its Accept.                   *)
FairSpec ==
    /\ Spec
    /\ WF_vars(SendDatagram)
    /\ \A w \in Worker : WF_vars(HandlerStep(w)) /\ SF_vars(ReceiveTraffic(w))

-----------------------------------------------------------------------------
(* Properties.                                                             *)

TypeOK ==
    /\ attempt \in 0..MaxAttempt
    /\ sent \in [Attempt -> Nat]
    /\ net \subseteq Packet
    /\ accepts \subseteq [attempt : Attempt, id : Nat]
    /\ connectionid_count \in Nat
    /\ created \in 0..MaxConn
    /\ registered \in 0..created
    /\ connectionid \in [Conn -> Nat]
    /\ origin \in [Conn -> 0..MaxAttempt]
    /\ recvd \in [Conn -> Nat]
    /\ pending \in [Conn -> BOOLEAN]
    /\ requested \subseteq Conn
    /\ keyed \in [Conn -> 0..MaxAttempt]
    /\ accepted \in [Conn -> SUBSET Nat]
    /\ dispatched \in [Conn -> Seq(Nat)]
    /\ pc \in [Worker -> Label]
    /\ pkt \in [Worker -> Packet \union {NoPacket}]
    /\ cli \in [Worker -> 0..MaxConn]

(* No data packet is handed to handle_CMPacket twice on one Client, however *)
(* often the network repeats the packet and however the pool interleaves    *)
(* (update_client_sequence runs under the Client's lock, the hand-over does *)
(* not).                                                                    *)
AtMostOnce == \A c \in Conn : IsInjective(dispatched[c])

(* What the server acknowledges (last_recv_seq of its replies is           *)
(* last_recvd_sequence) never runs ahead of what the remote client has     *)
(* sent, although the server jumps over gaps.                              *)
AcknowledgesOnlySent ==
    \A c \in Conn : recvd[c] <= 1 \/ \E a \in Attempt : recvd[c] <= sent[a]

(* The refinement mapping: the filter's highest number is the one that     *)
(* update_client_sequence keeps, and delivered means handed to             *)
(* handle_CMPacket.                                                        *)
Filter == INSTANCE SequenceFilter WITH highest <- recvd, accepted <- accepted,
                                       delivered <- dispatched

(* The receive path implements the sequence filter: per Client the         *)
(* accepted numbers grow within the tolerance and each is dispatched at    *)
(* most once.                                                              *)
ImplementsFilter == Filter!Spec

(* A Client whose ChannelEncryptRequest is queued gets it sent, if the     *)
(* remote client that connected goes on sending heartbeats and neither     *)
(* reconnects nor is replaced.                                             *)
Waiting(c) ==
    /\ registered = c
    /\ pending[c]
    /\ origin[c] = attempt
    /\ sent[attempt] > 0

EncryptRequestIsSent ==
    \A c \in Conn :
        Waiting(c) ~> (c \in requested \/ registered # c \/ attempt # origin[c])

(* A claim of the code's comments that the handlers do not keep.          *)

(* connection.py: the id in the Accept is the "Connection ID to assign",   *)
(* so every Client has an id that some Accept announced.                   *)
AssignedIdIsAnnounced ==
    \A c \in 1..created : \E m \in accepts : m.id = connectionid[c]
=============================================================================
