------------------------- MODULE CMConnectionProofs -------------------------
(***************************************************************************)
(* Proofs about CMConnection: for any number of workers, Client objects,   *)
(* attempts and sequence numbers and for any tolerance.                    *)
(***************************************************************************)
EXTENDS CMConnection, TLAPS

-----------------------------------------------------------------------------
(* The inductive invariant.                                                *)

\* A busy worker holds a packet, and past the lookup a Client that exists.
WorkerHolds ==
    \A w \in Worker :
        /\ pc[w] # "idle" => pkt[w] \in Packet
        /\ pc[w] \notin {"idle", "publish"} => cli[w] \in 1..created

\* Exactly the Clients that were created have been through the handshake.
Opened ==
    \A c \in Conn : IF c <= created THEN recvd[c] >= 1 ELSE recvd[c] = 0

\* last_recvd_sequence bounds what was accepted, which bounds what was dispatched.
Filtered ==
    \A c \in Conn :
        /\ Range(dispatched[c]) \subseteq accepted[c]
        /\ \A s \in accepted[c] : s <= recvd[c]

\* A worker about to dispatch holds an accepted number nobody has dispatched.
Held ==
    \A w \in Worker :
        pc[w] = "dispatch" => pkt[w].seq \in accepted[cli[w]] \ Range(dispatched[cli[w]])

\* No two workers are about to dispatch the same number.
HeldOnce ==
    \A v, w \in Worker :
        (v # w /\ pc[v] = "dispatch" /\ pc[w] = "dispatch" /\ cli[v] = cli[w])
            => pkt[v].seq # pkt[w].seq

IInv == TypeOK /\ WorkerHolds /\ Opened /\ Filtered /\ Held /\ HeldOnce

-----------------------------------------------------------------------------
(* The packets and the two ways a handler leaves a step.                   *)

LEMMA PacketFields ==
    ASSUME NEW p \in Packet
    PROVE  p.attempt \in Attempt /\ p.seq \in Nat
  BY CMConnectionAssumption
     DEF Packet, ConnectPacket, DataPacket, HeartbeatPacket, Attempt

LEMMA NewPackets ==
    ASSUME NEW a \in Attempt
    PROVE  /\ [kind |-> "Connect", attempt |-> a, seq |-> 0] \in Packet
           /\ [kind |-> "Datagram", attempt |-> a, seq |-> 0] \in Packet
           /\ \A k \in {"Data", "EncryptResponse"}, s \in 2..MaxSeq :
                  [kind |-> k, attempt |-> a, seq |-> s] \in Packet
  BY DEF Packet, ConnectPacket, DataPacket, HeartbeatPacket

\* What one more number does to the numbers dispatched.
LEMMA AppendNumber ==
    ASSUME NEW q \in Seq(Nat), NEW s \in Nat
    PROVE  /\ Append(q, s) \in Seq(Nat)
           /\ Range(Append(q, s)) = Range(q) \union {s}
           /\ (IsInjective(q) /\ s \notin Range(q)) => IsInjective(Append(q, s))
  <1> DEFINE r == Append(q, s)
  <1>1. /\ r \in Seq(Nat) /\ Len(q) \in Nat /\ Len(r) = Len(q) + 1
        /\ DOMAIN q = 1..Len(q) /\ DOMAIN r = 1..(Len(q) + 1)
        /\ \A i \in 1..Len(q) : r[i] = q[i]
        /\ r[Len(q) + 1] = s
    OBVIOUS
  <1> HIDE DEF r
  <1>2. Range(r) = Range(q) \union {s}
    BY <1>1, SMTT(30) DEF Range
  <1>3. ASSUME IsInjective(q), s \notin Range(q), NEW i \in DOMAIN r, NEW j \in DOMAIN r,
               r[i] = r[j]
        PROVE  i = j
    <2>1. \A k \in 1..Len(q) : q[k] # s
      BY <1>1, <1>3 DEF Range
    <2>2. \A k, l \in 1..Len(q) : q[k] = q[l] => k = l
      BY <1>1, <1>3 DEF IsInjective
    <2>. QED
      BY SMTT(30), <1>1, <1>3, <2>1, <2>2
  <1>. QED
    BY <1>1, <1>2, <1>3 DEF r, IsInjective

LEMMA InitIInv == Init => IInv
  <1> SUFFICES ASSUME Init PROVE IInv
    OBVIOUS
  <1>1. TypeOK
    BY CMConnectionAssumption DEF Init, TypeOK, Conn, Attempt, Label
  <1>2. Filtered
    BY DEF Init, Filtered, Range
  <1>. QED
    BY <1>1, <1>2, CMConnectionAssumption
       DEF Init, IInv, WorkerHolds, Opened, Held, HeldOnce, Conn

\* What the remote client does leaves the server and the workers alone.
LEMMA RemoteClientKeeps ==
    ASSUME TypeOK, RemoteClient
    PROVE  TypeOK' /\ UNCHANGED <<serverVars, clientVars, workerVars>>
  <1>1. CASE StartAttempt
    <2>1. attempt + 1 \in Attempt /\ attempt' \in 0..MaxAttempt
      BY <1>1, CMConnectionAssumption DEF StartAttempt, TypeOK, Attempt
    <2>2. net' \subseteq Packet
      BY <1>1, <2>1, NewPackets DEF StartAttempt, TypeOK
    <2>. QED
      BY <1>1, <2>1, <2>2 DEF StartAttempt, TypeOK, serverVars, clientVars, workerVars
  <1>2. CASE HearAccept
    <2>1. sent' \in [Attempt -> Nat]
      BY <1>2, CMConnectionAssumption DEF HearAccept, TypeOK, Attempt
    <2>. QED
      BY <1>2, <2>1 DEF HearAccept, TypeOK, serverVars, clientVars, workerVars
  <1>3. ASSUME NEW k \in {"Data", "EncryptResponse"}, SendData(k)
        PROVE  TypeOK' /\ UNCHANGED <<serverVars, clientVars, workerVars>>
    <2>1. attempt \in Attempt /\ sent[attempt] + 1 \in 2..MaxSeq
      BY <1>3, CMConnectionAssumption DEF SendData, TypeOK, Attempt
    <2>2. net' \subseteq Packet
      <3>1. [kind |-> k, attempt |-> attempt, seq |-> sent[attempt] + 1] \in Packet
        BY <1>3, <2>1, NewPackets
      <3>2. net' = net \union {[kind |-> k, attempt |-> attempt, seq |-> sent[attempt] + 1]}
        BY <1>3 DEF SendData
      <3>. QED
        BY <3>1, <3>2 DEF TypeOK
    <2>3. sent' \in [Attempt -> Nat]
      BY <1>3, <2>1 DEF SendData, TypeOK
    <2>. QED
      BY <1>3, <2>2, <2>3 DEF SendData, TypeOK, serverVars, clientVars, workerVars
  <1>4. CASE SendDatagram
    <2>1. attempt \in Attempt
      BY <1>4, CMConnectionAssumption DEF SendDatagram, TypeOK, Attempt
    <2>2. net' \subseteq Packet
      BY <1>4, <2>1, NewPackets DEF SendDatagram, TypeOK
    <2>. QED
      BY <1>4, <2>2 DEF SendDatagram, TypeOK, serverVars, clientVars, workerVars
  <1>. QED
    BY <1>1, <1>2, <1>3, <1>4 DEF RemoteClient, SendEncryptResponse

-----------------------------------------------------------------------------
(* Receiving a packet.                                                     *)

LEMMA ReceiveConnectKeeps ==
    ASSUME IInv, NEW w \in Worker, ReceiveConnect(w)
    PROVE  IInv'
  <1> USE DEF IInv
  <1>1. PICK p \in net : Take(w, p, "publish", 0) /\ p.kind = "Connect"
                         /\ accepts' = accepts \union
                               {[attempt |-> p.attempt, id |-> connectionid_count]}
    BY DEF ReceiveConnect
  <1>2. p \in Packet /\ p.attempt \in Attempt
    BY PacketFields DEF TypeOK
  <1>3. TypeOK'
    <2>1. accepts' \subseteq [attempt : Attempt, id : Nat]
      BY <1>1, <1>2 DEF TypeOK
    <2>2. /\ pc' \in [Worker -> Label]
          /\ pkt' \in [Worker -> Packet \union {NoPacket}]
          /\ cli' \in [Worker -> 0..MaxConn]
      BY <1>1, <1>2, CMConnectionAssumption DEF Take, TypeOK, Label
    <2>. QED
      BY <2>1, <2>2 DEF ReceiveConnect, TypeOK, serverVars, clientVars
  <1>4. WorkerHolds'
    BY <1>1, <1>2 DEF ReceiveConnect, Take, WorkerHolds, TypeOK, serverVars
  <1>5. Opened' /\ Filtered'
    BY DEF ReceiveConnect, Opened, Filtered, serverVars, clientVars
  <1>6. Held' /\ HeldOnce'
    BY <1>1 DEF ReceiveConnect, Take, Held, HeldOnce, TypeOK, clientVars
  <1>. QED
    BY <1>3, <1>4, <1>5, <1>6

LEMMA ReceiveTrafficKeeps ==
    ASSUME IInv, NEW w \in Worker, ReceiveTraffic(w)
    PROVE  IInv'
  <1> USE DEF IInv
  <1>1. PICK p \in net : Take(w, p, "check", registered)
    BY DEF ReceiveTraffic
  <1>2. p \in Packet /\ registered \in 1..created /\ registered \in 0..MaxConn
    BY CMConnectionAssumption DEF TypeOK, ReceiveTraffic
  <1>3. TypeOK'
    <2>1. /\ pc' \in [Worker -> Label]
          /\ pkt' \in [Worker -> Packet \union {NoPacket}]
          /\ cli' \in [Worker -> 0..MaxConn]
      BY <1>1, <1>2 DEF Take, TypeOK, Label
    <2>. QED
      BY <2>1 DEF ReceiveTraffic, TypeOK, endpointVars, serverVars, clientVars
  <1>4. WorkerHolds'
    BY <1>1, <1>2 DEF ReceiveTraffic, Take, WorkerHolds, TypeOK, serverVars
  <1>5. Opened' /\ Filtered'
    BY DEF ReceiveTraffic, Opened, Filtered, serverVars, clientVars
  <1>6. Held' /\ HeldOnce'
    BY <1>1 DEF ReceiveTraffic, Take, Held, HeldOnce, TypeOK, clientVars
  <1>. QED
    BY <1>3, <1>4, <1>5, <1>6

-----------------------------------------------------------------------------
(* The steps of a handler.                                                 *)

LEMMA PublishClientKeeps ==
    ASSUME IInv, NEW w \in Worker, PublishClient(w)
    PROVE  IInv'
  <1> USE DEF IInv
  <1>1. /\ created + 1 \in Conn /\ created + 1 \in 0..MaxConn /\ created \in Nat
        /\ pkt[w].attempt \in Attempt /\ Attempt \subseteq 0..MaxAttempt
        /\ pkt[w] \in Packet
    <2>1. pkt[w] \in Packet /\ pkt[w].attempt \in Attempt
      BY PacketFields DEF PublishClient, WorkerHolds
    <2>2. created \in 0..MaxConn /\ created < MaxConn
      BY DEF PublishClient, TypeOK
    <2>. QED
      BY <2>1, <2>2, CMConnectionAssumption DEF Conn, Attempt
  <1>2. TypeOK'
    <2>1. created' \in 0..MaxConn /\ registered' \in 0..created'
      BY <1>1 DEF PublishClient
    <2>2. connectionid' \in [Conn -> Nat] /\ recvd' \in [Conn -> Nat]
      BY <1>1 DEF PublishClient, TypeOK
    <2>3. origin' \in [Conn -> 0..MaxAttempt]
      BY <1>1 DEF PublishClient, TypeOK
    <2>4. pc' \in [Worker -> Label] /\ cli' \in [Worker -> 0..MaxConn]
      BY <1>1 DEF PublishClient, TypeOK, Label
    <2>. QED
      BY <2>1, <2>2, <2>3, <2>4 DEF PublishClient, TypeOK, endpointVars
  <1>3. WorkerHolds'
    BY <1>1 DEF PublishClient, WorkerHolds, TypeOK
  <1>4. Opened'
    BY <1>1 DEF PublishClient, Opened, TypeOK, Conn
  <1>5. Filtered'
    <2>1. recvd[created + 1] = 0
      BY <1>1 DEF Opened
    <2>2. \A c \in Conn : recvd'[c] >= recvd[c]
      BY <1>1, <2>1, SMTT(30) DEF PublishClient, TypeOK
    <2>. QED
      BY <2>2 DEF PublishClient, Filtered, TypeOK
  <1>6. \A v \in Worker : pc'[v] = "dispatch" =>
            v # w /\ pc[v] = "dispatch" /\ cli'[v] = cli[v]
    BY DEF PublishClient, TypeOK
  <1>7. Held' /\ HeldOnce'
    BY <1>6 DEF PublishClient, Held, HeldOnce
  <1>. QED
    BY <1>2, <1>3, <1>4, <1>5, <1>7

\* Where Goto and Finish leave the workers.
LEMMA GotoLeaves ==
    ASSUME TypeOK, NEW w \in Worker, NEW label \in Label, Goto(w, label)
    PROVE  /\ pc' \in [Worker -> Label]
           /\ pkt' \in [Worker -> Packet \union {NoPacket}]
           /\ cli' \in [Worker -> 0..MaxConn]
           /\ pc'[w] = label /\ pkt'[w] = pkt[w] /\ cli'[w] = cli[w]
           /\ \A v \in Worker \ {w} :
                  pc'[v] = pc[v] /\ pkt'[v] = pkt[v] /\ cli'[v] = cli[v]
  BY DEF Goto, TypeOK

LEMMA FinishLeaves ==
    ASSUME TypeOK, NEW w \in Worker, Finish(w)
    PROVE  /\ pc' \in [Worker -> Label]
           /\ pkt' \in [Worker -> Packet \union {NoPacket}]
           /\ cli' \in [Worker -> 0..MaxConn]
           /\ pc'[w] = "idle"
           /\ \A v \in Worker \ {w} :
                  pc'[v] = pc[v] /\ pkt'[v] = pkt[v] /\ cli'[v] = cli[v]
  BY CMConnectionAssumption DEF Finish, TypeOK, Label

\* A step that leaves the filter alone and does not reach the dispatcher.
LEMMA QuietStepKeeps ==
    ASSUME IInv, TypeOK', NEW w \in Worker,
           UNCHANGED <<created, recvd, accepted, dispatched>>,
           pc'[w] # "dispatch",
           pc'[w] = "idle" \/ (/\ pc[w] \notin {"idle", "publish"}
                               /\ pkt'[w] = pkt[w] /\ cli'[w] = cli[w]),
           \A v \in Worker \ {w} :
               pc'[v] = pc[v] /\ pkt'[v] = pkt[v] /\ cli'[v] = cli[v]
    PROVE  IInv'
  <1>1. WorkerHolds'
    BY DEF IInv, WorkerHolds
  <1>2. Opened' /\ Filtered'
    BY DEF IInv, Opened, Filtered
  <1>3. Held' /\ HeldOnce'
    BY DEF IInv, Held, HeldOnce
  <1>. QED
    BY <1>1, <1>2, <1>3 DEF IInv

\* A worker past the lookup works on a Client and a number that exist.
LEMMA InHand ==
    ASSUME IInv, NEW w \in Worker, pc[w] \notin {"idle", "publish"}
    PROVE  /\ cli[w] \in Conn /\ cli[w] \in 1..created
           /\ pkt[w] \in Packet /\ pkt[w].seq \in Nat /\ pkt[w].attempt \in 0..MaxAttempt
  <1>1. pkt[w] \in Packet /\ cli[w] \in 1..created /\ created \in 0..MaxConn
    BY DEF IInv, TypeOK, WorkerHolds
  <1>2. pkt[w].seq \in Nat /\ pkt[w].attempt \in 0..MaxAttempt
    BY <1>1, PacketFields, CMConnectionAssumption DEF Attempt
  <1>. QED
    BY <1>1, <1>2, CMConnectionAssumption DEF Conn

LEMMA BumpConnectionIdKeeps ==
    ASSUME IInv, NEW w \in Worker, BumpConnectionId(w)
    PROVE  IInv'
  <1>1. TypeOK /\ (Goto(w, "queue") \/ Finish(w)) /\ "queue" \in Label
    BY DEF BumpConnectionId, IInv, Label
  <1>2. TypeOK'
    <2>1. /\ pc' \in [Worker -> Label]
          /\ pkt' \in [Worker -> Packet \union {NoPacket}]
          /\ cli' \in [Worker -> 0..MaxConn]
      BY <1>1, GotoLeaves, FinishLeaves
    <2>. QED
      BY <1>1, <2>1 DEF BumpConnectionId, TypeOK, endpointVars, clientVars
  <1>. QED
    BY <1>1, <1>2, GotoLeaves, FinishLeaves, QuietStepKeeps
       DEF BumpConnectionId, clientVars

LEMMA QueueEncryptionKeeps ==
    ASSUME IInv, NEW w \in Worker, QueueEncryption(w)
    PROVE  IInv'
  <1>1. TypeOK /\ Finish(w)
    BY DEF QueueEncryption, IInv
  <1>2. TypeOK'
    BY <1>1, FinishLeaves DEF QueueEncryption, TypeOK, endpointVars, serverVars
  <1>. QED
    BY <1>1, <1>2, FinishLeaves, QuietStepKeeps DEF QueueEncryption, serverVars

LEMMA CheckPendingKeeps ==
    ASSUME IInv, NEW w \in Worker, CheckPending(w)
    PROVE  IInv'
  <1>1. /\ TypeOK
        /\ \/ \E label \in {"clear", "sequence", "installKey"} : Goto(w, label)
           \/ Finish(w)
    BY DEF CheckPending, IInv
  <1>2. {"clear", "sequence", "installKey"} \subseteq Label
    BY DEF Label
  <1>3. TypeOK'
    BY <1>1, <1>2, GotoLeaves, FinishLeaves
       DEF CheckPending, TypeOK, endpointVars, serverVars, clientVars
  <1>. QED
    BY <1>1, <1>2, <1>3, GotoLeaves, FinishLeaves, QuietStepKeeps
       DEF CheckPending, serverVars, clientVars

LEMMA ClearPendingKeeps ==
    ASSUME IInv, NEW w \in Worker, ClearPending(w)
    PROVE  IInv'
  <1>1. TypeOK /\ Goto(w, "encryptRequest") /\ "encryptRequest" \in Label
    BY DEF ClearPending, IInv, Label
  <1>2. TypeOK'
    BY <1>1, GotoLeaves DEF ClearPending, TypeOK, endpointVars, serverVars
  <1>. QED
    BY <1>1, <1>2, GotoLeaves, QuietStepKeeps DEF ClearPending, serverVars

LEMMA AckDuplicateKeeps ==
    ASSUME IInv, NEW w \in Worker, AckDuplicate(w)
    PROVE  IInv'
  <1>1. TypeOK /\ Finish(w)
    BY DEF AckDuplicate, IInv
  <1>2. TypeOK'
    BY <1>1, FinishLeaves DEF AckDuplicate, TypeOK, endpointVars, serverVars, clientVars
  <1>. QED
    BY <1>1, <1>2, FinishLeaves, QuietStepKeeps DEF AckDuplicate, serverVars, clientVars

-----------------------------------------------------------------------------
(* The steps that move the filter.                                         *)

LEMMA UpdateKeeps ==
    ASSUME IInv, NEW c \in 1..created, NEW s \in Nat, UpdateClientSequence(c, s),
           UNCHANGED <<created, dispatched>>
    PROVE  /\ recvd' \in [Conn -> Nat] /\ accepted' \in [Conn -> SUBSET Nat]
           /\ Opened' /\ Filtered'
           /\ \A d \in Conn : accepted[d] \subseteq accepted'[d]
  <1>1. c \in Conn /\ recvd[c] \in Nat
    BY CMConnectionAssumption DEF IInv, TypeOK, Conn
  <1>2. CASE InWindow(c, s)
    <2>1. /\ recvd' = [recvd EXCEPT ![c] = s]
          /\ accepted' = [accepted EXCEPT ![c] = @ \union {s}]
          /\ s > recvd[c]
      BY <1>2 DEF UpdateClientSequence, InWindow
    <2>2. recvd' \in [Conn -> Nat] /\ accepted' \in [Conn -> SUBSET Nat]
      BY <1>1, <2>1 DEF IInv, TypeOK
    <2>3. Opened'
      BY <1>1, <2>1, SMTT(30) DEF IInv, TypeOK, Opened
    <2>4. Filtered'
      <3>1. \A d \in Conn : d # c => recvd'[d] = recvd[d] /\ accepted'[d] = accepted[d]
        BY <2>1 DEF IInv, TypeOK
      <3>2. recvd'[c] = s /\ accepted'[c] = accepted[c] \union {s}
        BY <1>1, <2>1 DEF IInv, TypeOK
      <3>3. \A t \in accepted'[c] : t <= recvd'[c]
        <4>1. \A t \in accepted[c] : t \in Nat /\ t <= recvd[c]
          BY <1>1 DEF IInv, TypeOK, Filtered
        <4>. QED
          BY <1>1, <2>1, <3>2, <4>1
      <3>. QED
        BY <3>1, <3>2, <3>3 DEF IInv, Filtered
    <2>. QED
      BY <1>1, <2>1, <2>2, <2>3, <2>4 DEF IInv, TypeOK
  <1>3. CASE ~InWindow(c, s)
    BY <1>3 DEF UpdateClientSequence, IInv, TypeOK, Opened, Filtered
  <1>. QED
    BY <1>2, <1>3

\* A step that moves the filter and then stops short of the dispatcher.
LEMMA UpdateAndFinishKeeps ==
    ASSUME IInv, TypeOK', NEW w \in Worker, pc[w] \notin {"idle", "publish"},
           UpdateClientSequence(cli[w], pkt[w].seq), Finish(w),
           UNCHANGED <<created, dispatched>>
    PROVE  IInv'
  <1>1. /\ Opened' /\ Filtered'
        /\ \A d \in Conn : accepted[d] \subseteq accepted'[d]
    BY InHand, UpdateKeeps
  <1>2. /\ pc'[w] = "idle"
        /\ \A v \in Worker \ {w} :
               pc'[v] = pc[v] /\ pkt'[v] = pkt[v] /\ cli'[v] = cli[v]
    BY FinishLeaves DEF IInv
  <1>3. WorkerHolds'
    BY <1>2 DEF IInv, WorkerHolds
  <1>4. \A v \in Worker : pc[v] = "dispatch" => cli[v] \in Conn
    BY InHand
  <1>5. Held' /\ HeldOnce'
    BY <1>1, <1>2, <1>4 DEF IInv, Held, HeldOnce
  <1>. QED
    BY <1>1, <1>3, <1>5 DEF IInv

LEMMA SendEncryptRequestKeeps ==
    ASSUME IInv, NEW w \in Worker, SendEncryptRequest(w)
    PROVE  IInv'
  <1>1. pc[w] \notin {"idle", "publish"} /\ Finish(w) /\ UNCHANGED <<created, dispatched>>
    BY DEF SendEncryptRequest, serverVars
  <1>2. recvd' \in [Conn -> Nat] /\ accepted' \in [Conn -> SUBSET Nat]
    BY <1>1, InHand, UpdateKeeps DEF SendEncryptRequest
  <1>3. requested' \subseteq Conn
    BY <1>1, InHand DEF SendEncryptRequest, IInv, TypeOK
  <1>4. TypeOK'
    BY <1>1, <1>2, <1>3, FinishLeaves
       DEF SendEncryptRequest, IInv, TypeOK, endpointVars, serverVars
  <1>. QED
    BY <1>1, <1>4, UpdateAndFinishKeeps DEF SendEncryptRequest

LEMMA InstallKeyKeeps ==
    ASSUME IInv, NEW w \in Worker, InstallKey(w)
    PROVE  IInv'
  <1>1. pc[w] \notin {"idle", "publish"} /\ Finish(w) /\ UNCHANGED <<created, dispatched>>
    BY DEF InstallKey, serverVars
  <1>2. recvd' \in [Conn -> Nat] /\ accepted' \in [Conn -> SUBSET Nat]
    BY <1>1, InHand, UpdateKeeps DEF InstallKey
  <1>3. keyed' \in [Conn -> 0..MaxAttempt]
    BY <1>1, InHand DEF InstallKey, IInv, TypeOK
  <1>4. TypeOK'
    BY <1>1, <1>2, <1>3, FinishLeaves
       DEF InstallKey, IInv, TypeOK, endpointVars, serverVars
  <1>. QED
    BY <1>1, <1>4, UpdateAndFinishKeeps DEF InstallKey

\* An accepted number is above everything accepted before, so nobody holds it.
LEMMA ValidateSequenceKeeps ==
    ASSUME IInv, NEW w \in Worker, ValidateSequence(w)
    PROVE  IInv'
  <1> DEFINE c == cli[w]
             s == pkt[w].seq
             label == IF InWindow(c, s) THEN "dispatch" ELSE "ackDuplicate"
  <1>1. /\ pc[w] \notin {"idle", "publish"} /\ UpdateClientSequence(c, s)
        /\ Goto(w, label) /\ label \in Label /\ TypeOK
        /\ UNCHANGED <<created, dispatched>>
    BY DEF ValidateSequence, serverVars, Label, IInv
  <1>2. c \in Conn /\ c \in 1..created /\ s \in Nat /\ pkt[w] \in Packet
    BY <1>1, InHand
  <1> HIDE DEF c, s, label
  <1>3. /\ recvd' \in [Conn -> Nat] /\ accepted' \in [Conn -> SUBSET Nat]
        /\ Opened' /\ Filtered'
        /\ \A d \in Conn : accepted[d] \subseteq accepted'[d]
    BY <1>1, <1>2, UpdateKeeps
  <1>4. /\ pc' \in [Worker -> Label]
        /\ pkt' \in [Worker -> Packet \union {NoPacket}]
        /\ cli' \in [Worker -> 0..MaxConn]
        /\ pc'[w] = label /\ pkt'[w] = pkt[w] /\ cli'[w] = cli[w]
        /\ \A v \in Worker \ {w} :
               pc'[v] = pc[v] /\ pkt'[v] = pkt[v] /\ cli'[v] = cli[v]
    BY <1>1, GotoLeaves
  <1>5. TypeOK'
    BY <1>1, <1>3, <1>4 DEF ValidateSequence, TypeOK, endpointVars, serverVars
  <1>6. WorkerHolds'
    BY <1>1, <1>2, <1>4 DEF IInv, WorkerHolds, c
  <1>7. \A v \in Worker : pc[v] = "dispatch" =>
            cli[v] \in Conn /\ pkt[v].seq \in accepted[cli[v]] \ Range(dispatched[cli[v]])
    BY InHand DEF IInv, Held
  <1>8. CASE InWindow(c, s)
    <2>1. s \notin accepted[c] /\ s \in accepted'[c] /\ s \notin Range(dispatched[c])
      <3>1. s > recvd[c] /\ accepted'[c] = accepted[c] \union {s} /\ recvd[c] \in Nat
        BY <1>1, <1>2, <1>8 DEF UpdateClientSequence, InWindow, TypeOK
      <3>2. \A t \in accepted[c] : t <= recvd[c]
        BY <1>2 DEF IInv, Filtered
      <3>. QED
        BY <1>2, <3>1, <3>2 DEF IInv, Filtered
    <2>2. Held'
      <3>1. ASSUME NEW v \in Worker, pc'[v] = "dispatch"
            PROVE  pkt'[v].seq \in accepted'[cli'[v]] \ Range(dispatched'[cli'[v]])
        <4>1. CASE v = w
          BY <4>1, <1>1, <1>4, <2>1 DEF c, s
        <4>2. CASE v # w
          BY <4>2, <3>1, <1>1, <1>3, <1>4, <1>7
        <4>. QED
          BY <4>1, <4>2
      <3>. QED
        BY <3>1 DEF Held
    <2>3. \A v \in Worker \ {w} :
              pc[v] = "dispatch" /\ cli[v] = c => pkt[v].seq # s
      BY <1>7, <2>1
    <2>4. HeldOnce'
      <3>1. ASSUME NEW v \in Worker, NEW u \in Worker, v # u,
                   pc'[v] = "dispatch", pc'[u] = "dispatch", cli'[v] = cli'[u]
            PROVE  pkt'[v].seq # pkt'[u].seq
        <4>1. CASE v = w
          BY <3>1, <4>1, <1>4, <2>3 DEF c, s
        <4>2. CASE u = w
          BY <3>1, <4>2, <1>4, <2>3 DEF c, s
        <4>3. CASE v # w /\ u # w
          BY <3>1, <4>3, <1>4 DEF IInv, HeldOnce
        <4>. QED
          BY <4>1, <4>2, <4>3
      <3>. QED
        BY <3>1 DEF HeldOnce
    <2>. QED
      BY <1>3, <1>5, <1>6, <2>2, <2>4 DEF IInv
  <1>9. CASE ~InWindow(c, s)
    <2>1. \A v \in Worker : pc'[v] = "dispatch" =>
              v # w /\ pc[v] = "dispatch" /\ pkt'[v] = pkt[v] /\ cli'[v] = cli[v]
      BY <1>4, <1>9 DEF label
    <2>2. Held'
      BY <1>1, <1>3, <1>7, <2>1 DEF Held
    <2>3. HeldOnce'
      BY <2>1 DEF IInv, HeldOnce
    <2>. QED
      BY <1>3, <1>5, <1>6, <2>2, <2>3 DEF IInv
  <1>. QED
    BY <1>8, <1>9

LEMMA DispatchKeeps ==
    ASSUME IInv, NEW w \in Worker, Dispatch(w)
    PROVE  IInv'
  <1>1. /\ pc[w] = "dispatch" /\ Finish(w) /\ TypeOK
        /\ UNCHANGED <<created, recvd, accepted>>
    BY DEF Dispatch, serverVars, IInv
  <1>2. cli[w] \in Conn /\ pkt[w].seq \in Nat
    BY <1>1, InHand
  <1>3. /\ dispatched \in [Conn -> Seq(Nat)]
        /\ dispatched' = [dispatched EXCEPT ![cli[w]] = Append(@, pkt[w].seq)]
    BY DEF Dispatch, IInv, TypeOK
  <1>4. TypeOK'
    <2>1. dispatched' \in [Conn -> Seq(Nat)]
      BY <1>2, <1>3
    <2>. QED
      BY <1>1, <2>1, FinishLeaves DEF Dispatch, TypeOK, endpointVars, serverVars
  <1>5. /\ pc'[w] = "idle"
        /\ \A v \in Worker \ {w} :
               pc'[v] = pc[v] /\ pkt'[v] = pkt[v] /\ cli'[v] = cli[v]
    BY <1>1, FinishLeaves
  <1>6. WorkerHolds'
    BY <1>1, <1>5 DEF IInv, WorkerHolds
  <1>7. /\ Range(dispatched'[cli[w]]) = Range(dispatched[cli[w]]) \union {pkt[w].seq}
        /\ \A d \in Conn : d # cli[w] => dispatched'[d] = dispatched[d]
    <2>1. /\ dispatched'[cli[w]] = Append(dispatched[cli[w]], pkt[w].seq)
          /\ dispatched[cli[w]] \in Seq(Nat)
      BY <1>2, <1>3
    <2>2. Range(Append(dispatched[cli[w]], pkt[w].seq))
              = Range(dispatched[cli[w]]) \union {pkt[w].seq}
      BY <1>2, <2>1, AppendNumber
    <2>. QED
      BY <1>2, <1>3, <2>1, <2>2
  <1>8. Opened' /\ Filtered'
    <2>1. pkt[w].seq \in accepted[cli[w]]
      BY <1>1 DEF IInv, Held
    <2>. QED
      BY <1>1, <1>2, <1>7, <2>1 DEF IInv, Opened, Filtered
  <1>9. Held'
    <2>1. \A v \in Worker : pc'[v] = "dispatch" =>
              v # w /\ pc[v] = "dispatch" /\ cli[v] \in Conn
      BY <1>5, InHand
    <2>2. ASSUME NEW v \in Worker, pc'[v] = "dispatch"
          PROVE  pkt[v].seq \in accepted[cli[v]] \ Range(dispatched'[cli[v]])
      <3>1. pkt[v].seq \in accepted[cli[v]] \ Range(dispatched[cli[v]])
        BY <2>1, <2>2 DEF IInv, Held
      <3>2. cli[v] = cli[w] => pkt[v].seq # pkt[w].seq
        BY <1>1, <2>1, <2>2 DEF IInv, HeldOnce
      <3>. QED
        BY <1>7, <2>1, <2>2, <3>1, <3>2
    <2>. QED
      BY <1>1, <1>5, <2>1, <2>2 DEF Held
  <1>10. HeldOnce'
    BY <1>5 DEF IInv, HeldOnce
  <1>. QED
    BY <1>4, <1>6, <1>8, <1>9, <1>10 DEF IInv

-----------------------------------------------------------------------------
(* The theorems.                                                           *)

LEMMA NextKeepsIInv == IInv /\ [Next]_vars => IInv'
  <1> SUFFICES ASSUME IInv, [Next]_vars PROVE IInv'
    OBVIOUS
  <1>1. CASE RemoteClient
    BY <1>1, RemoteClientKeeps
       DEF IInv, WorkerHolds, Opened, Filtered, Held, HeldOnce, serverVars, clientVars,
           workerVars
  <1>2. ASSUME NEW w \in Worker, ReceiveConnect(w) \/ ReceiveTraffic(w)
        PROVE  IInv'
    BY <1>2, ReceiveConnectKeeps, ReceiveTrafficKeeps
  <1>3. ASSUME NEW w \in Worker, HandlerStep(w)
        PROVE  IInv'
    BY <1>3, PublishClientKeeps, BumpConnectionIdKeeps, QueueEncryptionKeeps,
       CheckPendingKeeps, ClearPendingKeeps, SendEncryptRequestKeeps, InstallKeyKeeps,
       ValidateSequenceKeeps, AckDuplicateKeeps, DispatchKeeps DEF HandlerStep
  <1>4. CASE UNCHANGED vars
    BY <1>4 DEF vars, endpointVars, serverVars, clientVars, workerVars, IInv, TypeOK,
                WorkerHolds, Opened, Filtered, Held, HeldOnce
  <1>. QED
    BY <1>1, <1>2, <1>3, <1>4 DEF Next

LEMMA Inductive == Spec => []IInv
  BY InitIInv, NextKeepsIInv, PTL DEF Spec

(* The variables keep their types: in particular pending_encryption_request *)
(* stays a flag and no worker steps on a Client that does not exist.        *)
THEOREM TypeCorrect == Spec => []TypeOK
  <1>1. IInv => TypeOK
    BY DEF IInv
  <1>. QED
    BY <1>1, Inductive, PTL

\* Only Dispatch touches the numbers dispatched, and the one it adds is new.
LEMMA NextKeepsAtMostOnce == IInv /\ AtMostOnce /\ [Next]_vars => AtMostOnce'
  <1> SUFFICES ASSUME IInv, AtMostOnce, [Next]_vars PROVE AtMostOnce'
    OBVIOUS
  <1>1. ASSUME NEW w \in Worker, Dispatch(w)
        PROVE  AtMostOnce'
    <2> DEFINE c == cli[w]
               s == pkt[w].seq
    <2>1. c \in Conn /\ s \in accepted[c] \ Range(dispatched[c])
      BY <1>1, InHand DEF Dispatch, IInv, Held
    <2>2. /\ dispatched \in [Conn -> Seq(Nat)] /\ s \in Nat
          /\ dispatched' = [dispatched EXCEPT ![c] = Append(@, s)]
      BY <1>1, <2>1 DEF Dispatch, IInv, TypeOK
    <2> HIDE DEF c, s
    <2>3. IsInjective(dispatched'[c])
      BY <2>1, <2>2, AppendNumber DEF AtMostOnce
    <2>4. \A d \in Conn : d # c => dispatched'[d] = dispatched[d]
      BY <2>2
    <2>. QED
      BY <2>3, <2>4 DEF AtMostOnce
  <1>2. ASSUME \A w \in Worker : ~Dispatch(w)
        PROVE  UNCHANGED dispatched
    <2>1. CASE RemoteClient
      BY <2>1, RemoteClientKeeps DEF IInv, clientVars
    <2>2. ASSUME NEW w \in Worker,
                 ReceiveConnect(w) \/ ReceiveTraffic(w) \/ HandlerStep(w)
          PROVE  UNCHANGED dispatched
      BY <2>2, <1>2 DEF ReceiveConnect, ReceiveTraffic, HandlerStep, PublishClient,
         BumpConnectionId, QueueEncryption, CheckPending, ClearPending,
         SendEncryptRequest, InstallKey, ValidateSequence, AckDuplicate, clientVars
    <2>. QED
      BY <2>1, <2>2 DEF Next, vars, clientVars
  <1>. QED
    BY <1>1, <1>2 DEF AtMostOnce

(* update_client_sequence under the Client's lock is enough for handle_client *)
(* to dispatch no sequence number twice, with any number of pool threads and  *)
(* any repetition and reordering by the network.                              *)
THEOREM DispatchedAtMostOnce == Spec => []AtMostOnce
  <1>1. Init => AtMostOnce
    BY DEF Init, AtMostOnce, IsInjective
  <1>. QED
    BY <1>1, Inductive, NextKeepsAtMostOnce, PTL DEF Spec

-----------------------------------------------------------------------------
(* The server acknowledges nothing that was not sent.                      *)

\* No packet is numbered beyond what its attempt has sent, and a busy worker's
\* packet came from the network.
FromNetwork ==
    /\ \A p \in net : p.seq <= sent[p.attempt]
    /\ \A w \in Worker : pc[w] # "idle" => pkt[w] \in net

SInv == IInv /\ FromNetwork /\ AcknowledgesOnlySent

LEMMA InitSInv == Init => SInv
  <1>1. Init => FromNetwork /\ AcknowledgesOnlySent
    BY DEF Init, FromNetwork, AcknowledgesOnlySent
  <1>. QED
    BY <1>1, InitIInv DEF SInv

\* The remote client only ever sends more.
LEMMA SentGrows ==
    ASSUME TypeOK, RemoteClient
    PROVE  /\ \A a \in Attempt : sent'[a] >= sent[a]
           /\ net \subseteq net'
           /\ \A p \in net' \ net : p.attempt \in Attempt /\ p.seq <= sent'[p.attempt]
  <1>1. CASE StartAttempt
    BY <1>1, CMConnectionAssumption DEF StartAttempt, TypeOK, Attempt
  <1>2. CASE HearAccept
    BY <1>2, CMConnectionAssumption DEF HearAccept, TypeOK, Attempt
  <1>3. ASSUME NEW k \in {"Data", "EncryptResponse"}, SendData(k)
        PROVE  /\ \A a \in Attempt : sent'[a] >= sent[a]
               /\ net \subseteq net'
               /\ \A p \in net' \ net : p.attempt \in Attempt /\ p.seq <= sent'[p.attempt]
    <2>1. attempt \in Attempt /\ sent[attempt] \in Nat
      BY <1>3, CMConnectionAssumption DEF SendData, TypeOK, Attempt
    <2>2. sent' = [sent EXCEPT ![attempt] = @ + 1]
      BY <1>3 DEF SendData
    <2>3. \A a \in Attempt : sent'[a] >= sent[a]
      BY <2>1, <2>2 DEF TypeOK
    <2>4. sent'[attempt] = sent[attempt] + 1
      BY <2>1, <2>2 DEF TypeOK
    <2>. QED
      BY <1>3, <2>1, <2>3, <2>4 DEF SendData
  <1>4. CASE SendDatagram
    BY <1>4, CMConnectionAssumption DEF SendDatagram, TypeOK, Attempt
  <1>. QED
    BY <1>1, <1>2, <1>3, <1>4 DEF RemoteClient, SendEncryptResponse

LEMMA RemoteClientKeepsSInv ==
    ASSUME SInv, IInv', RemoteClient
    PROVE  SInv'
  <1>1. TypeOK /\ TypeOK' /\ \A p \in net : p.attempt \in Attempt /\ p.seq \in Nat
    BY PacketFields DEF SInv, IInv, TypeOK
  <1>2. UNCHANGED <<recvd, pc, pkt>>
    BY <1>1, RemoteClientKeeps DEF clientVars, workerVars
  <1>3. /\ \A a \in Attempt : sent'[a] >= sent[a] /\ sent[a] \in Nat /\ sent'[a] \in Nat
        /\ net \subseteq net'
        /\ \A p \in net' \ net : p.attempt \in Attempt /\ p.seq <= sent'[p.attempt]
    BY <1>1, SentGrows DEF TypeOK
  <1>4. \A p \in net' : p.seq <= sent'[p.attempt]
    BY <1>1, <1>3 DEF SInv, FromNetwork
  <1>5. FromNetwork'
    BY <1>2, <1>3, <1>4 DEF SInv, FromNetwork
  <1>6. AcknowledgesOnlySent'
    <2>1. \A c \in Conn : recvd[c] \in Nat
      BY <1>1 DEF TypeOK
    <2>. QED
      BY <1>2, <1>3, <2>1 DEF SInv, AcknowledgesOnlySent
  <1>. QED
    BY <1>5, <1>6 DEF SInv

\* The workers take packets from the network, send nothing on behalf of the client,
\* and raise last_recvd_sequence only to the number of the packet in hand.
LEMMA WorkerSteps ==
    ASSUME SInv, NEW w \in Worker,
           ReceiveConnect(w) \/ ReceiveTraffic(w) \/ HandlerStep(w)
    PROVE  /\ UNCHANGED <<sent, net>>
           /\ \A v \in Worker : pc'[v] # "idle" => pkt'[v] \in net
           /\ \A c \in Conn : \/ recvd'[c] = recvd[c]
                              \/ recvd'[c] = 1
                              \/ pc[w] # "idle" /\ recvd'[c] = pkt[w].seq
  <1>1. TypeOK /\ \A v \in Worker : pc[v] # "idle" => pkt[v] \in net
    BY DEF SInv, IInv, FromNetwork
  <1>2. CASE ReceiveConnect(w)
    BY <1>1, <1>2 DEF ReceiveConnect, Take, TypeOK, clientVars
  <1>3. CASE ReceiveTraffic(w)
    BY <1>1, <1>3 DEF ReceiveTraffic, Take, TypeOK, endpointVars, clientVars
  <1>4. CASE PublishClient(w)
    BY <1>1, <1>4 DEF PublishClient, TypeOK, endpointVars
  <1>5. CASE BumpConnectionId(w) \/ QueueEncryption(w) \/ CheckPending(w)
             \/ ClearPending(w) \/ AckDuplicate(w) \/ Dispatch(w)
    <2>1. pc[w] # "idle" /\ UNCHANGED <<sent, net, recvd>>
      BY <1>5 DEF BumpConnectionId, QueueEncryption, CheckPending, ClearPending,
                  AckDuplicate, Dispatch, endpointVars, clientVars
    <2>2. Finish(w) \/ \E label \in Label : Goto(w, label)
      BY <1>5 DEF BumpConnectionId, QueueEncryption, CheckPending, ClearPending,
                  AckDuplicate, Dispatch, Label
    <2>. QED
      BY <1>1, <2>1, <2>2, GotoLeaves, FinishLeaves
  <1>6. CASE SendEncryptRequest(w) \/ InstallKey(w) \/ ValidateSequence(w)
    <2>1. /\ pc[w] # "idle" /\ UNCHANGED <<sent, net>>
          /\ UpdateClientSequence(cli[w], pkt[w].seq)
      BY <1>6 DEF SendEncryptRequest, InstallKey, ValidateSequence, endpointVars
    <2>2. Finish(w) \/ \E label \in Label : Goto(w, label)
      BY <1>6 DEF SendEncryptRequest, InstallKey, ValidateSequence, Label
    <2>3. \A c \in Conn : recvd'[c] = recvd[c] \/ recvd'[c] = pkt[w].seq
      BY <1>1, <2>1 DEF UpdateClientSequence, TypeOK
    <2>. QED
      BY <1>1, <2>1, <2>2, <2>3, GotoLeaves, FinishLeaves
  <1>. QED
    BY <1>2, <1>3, <1>4, <1>5, <1>6 DEF HandlerStep

LEMMA NextKeepsSInv == SInv /\ [Next]_vars => SInv'
  <1> SUFFICES ASSUME SInv, [Next]_vars PROVE SInv'
    OBVIOUS
  <1>1. IInv'
    BY NextKeepsIInv DEF SInv
  <1>2. CASE RemoteClient
    BY <1>1, <1>2, RemoteClientKeepsSInv
  <1>3. ASSUME NEW w \in Worker,
               ReceiveConnect(w) \/ ReceiveTraffic(w) \/ HandlerStep(w)
        PROVE  SInv'
    <2>1. FromNetwork'
      BY <1>3, WorkerSteps DEF SInv, FromNetwork
    <2>2. pc[w] # "idle" =>
              \E a \in Attempt : pkt[w].seq <= sent[a]
      BY PacketFields DEF SInv, FromNetwork, IInv, TypeOK
    <2>3. AcknowledgesOnlySent'
      BY <1>3, <2>2, WorkerSteps DEF SInv, AcknowledgesOnlySent
    <2>. QED
      BY <1>1, <2>1, <2>3 DEF SInv
  <1>4. CASE UNCHANGED vars
    BY <1>1, <1>4 DEF vars, endpointVars, clientVars, workerVars, SInv, FromNetwork,
                      AcknowledgesOnlySent
  <1>. QED
    BY <1>2, <1>3, <1>4 DEF Next

(* last_recvd_sequence, which every reply acknowledges, never passes what the *)
(* remote client has sent in some attempt: jumping over gaps within the       *)
(* tolerance acknowledges lost packets but never packets of the future.       *)
THEOREM OnlySentIsAcknowledged == Spec => []AcknowledgesOnlySent
  <1>1. SInv => AcknowledgesOnlySent
    BY DEF SInv
  <1>. QED
    BY <1>1, InitSInv, NextKeepsSInv, PTL DEF Spec

-----------------------------------------------------------------------------
(* Refinement of the sequence filter.                                      *)

\* update_client_sequence accepts a number or leaves the filter alone.
LEMMA UpdateRefines ==
    ASSUME IInv, NEW c \in 1..created, NEW s \in Nat, UpdateClientSequence(c, s),
           UNCHANGED dispatched
    PROVE  [Filter!Next]_(Filter!filterVars)
  <1>1. c \in Conn /\ recvd[c] \in Nat /\ recvd[c] >= 1
    BY CMConnectionAssumption DEF IInv, TypeOK, Opened, Conn
  <1>2. CASE InWindow(c, s)
    <2>1. Filter!Accept(c, s)
      BY <1>1, <1>2 DEF UpdateClientSequence, InWindow, Filter!Accept
    <2>2. s \in (recvd[c] + 1) .. (recvd[c] + 1 + Tolerance)
      BY <1>1, <1>2, CMConnectionAssumption DEF InWindow
    <2>. QED
      BY <1>1, <2>1, <2>2 DEF Filter!Next
  <1>3. CASE ~InWindow(c, s)
    BY <1>3 DEF UpdateClientSequence, Filter!filterVars
  <1>. QED
    BY <1>2, <1>3

LEMMA StepRefines == IInv /\ [Next]_vars => [Filter!Next]_(Filter!filterVars)
  <1> SUFFICES ASSUME IInv, [Next]_vars PROVE [Filter!Next]_(Filter!filterVars)
    OBVIOUS
  <1>1. CASE RemoteClient
    BY <1>1, RemoteClientKeeps DEF IInv, clientVars, Filter!filterVars
  <1>2. ASSUME NEW w \in Worker, ReceiveConnect(w) \/ ReceiveTraffic(w)
        PROVE  [Filter!Next]_(Filter!filterVars)
    BY <1>2 DEF ReceiveConnect, ReceiveTraffic, clientVars, Filter!filterVars
  <1>3. ASSUME NEW w \in Worker, PublishClient(w)
        PROVE  [Filter!Next]_(Filter!filterVars)
    <2>1. created + 1 \in Conn /\ recvd[created + 1] = 0
      BY <1>3, CMConnectionAssumption DEF PublishClient, IInv, TypeOK, Opened, Conn
    <2>2. Filter!Open(created + 1)
      BY <1>3, <2>1 DEF PublishClient, Filter!Open
    <2>. QED
      BY <2>1, <2>2 DEF Filter!Next
  <1>4. ASSUME NEW w \in Worker,
               BumpConnectionId(w) \/ QueueEncryption(w) \/ CheckPending(w)
               \/ ClearPending(w) \/ AckDuplicate(w)
        PROVE  [Filter!Next]_(Filter!filterVars)
    BY <1>4 DEF BumpConnectionId, QueueEncryption, CheckPending, ClearPending,
                AckDuplicate, clientVars, Filter!filterVars
  <1>5. ASSUME NEW w \in Worker,
               SendEncryptRequest(w) \/ InstallKey(w) \/ ValidateSequence(w)
        PROVE  [Filter!Next]_(Filter!filterVars)
    <2>1. /\ pc[w] \notin {"idle", "publish"} /\ UNCHANGED dispatched
          /\ UpdateClientSequence(cli[w], pkt[w].seq)
      BY <1>5 DEF SendEncryptRequest, InstallKey, ValidateSequence
    <2>. QED
      BY <2>1, InHand, UpdateRefines
  <1>6. ASSUME NEW w \in Worker, Dispatch(w)
        PROVE  [Filter!Next]_(Filter!filterVars)
    <2>1. cli[w] \in Conn /\ pkt[w].seq \in accepted[cli[w]] \ Range(dispatched[cli[w]])
      BY <1>6, InHand DEF Dispatch, IInv, Held
    <2>2. Filter!Dispatch(cli[w], pkt[w].seq)
      BY <1>6, <2>1 DEF Dispatch, Filter!Dispatch, Range, Filter!Range
    <2>. QED
      BY <2>1, <2>2 DEF Filter!Next
  <1>7. CASE UNCHANGED vars
    BY <1>7 DEF vars, clientVars, Filter!filterVars
  <1>. QED
    BY <1>1, <1>2, <1>3, <1>4, <1>5, <1>6, <1>7 DEF Next, HandlerStep

(* The handlers of the worker pool implement the sequence filter: whatever the *)
(* interleaving, every step of handle_client is a step of the filter or leaves *)
(* its numbers alone.                                                          *)
THEOREM RefinesFilter == Spec => ImplementsFilter
  <1>1. Init => Filter!Init
    BY DEF Init, Filter!Init
  <1>. QED
    BY <1>1, Inductive, StepRefines, PTL DEF Spec, ImplementsFilter, Filter!Spec
=============================================================================
