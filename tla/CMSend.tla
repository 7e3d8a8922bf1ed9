------------------------------- MODULE CMSend -------------------------------
(***************************************************************************)
(* The send path of the UDP connection manager for one remote endpoint:    *)
(* steam3/cmserver_udp.py:sendReply and _send_packets_sync, with the       *)
(* send_lock and the sequence counter of steam3/ClientManager/client.py.   *)
(*                                                                         *)
(* Any thread of the pool may reply to any Client it once looked up, also  *)
(* after the endpoint has reconnected and has a new Client.  A reply is    *)
(* the number of packets it takes: 0 for a reply without data, 1, or more  *)
(* when the encrypted message exceeds max_data_size.  send_lock is         *)
(* reentrant; a thread that sends a list of replies holds it from the      *)
(* first to the last, a thread that sends one gives it back before the     *)
(* packets go out.  Handshake answers (ChannelEncryptRequest,              *)
(* ChannelEncryptResult, Disconnect) take a number without send_lock.      *)
(***************************************************************************)
EXTENDS Naturals, Sequences

CONSTANTS
    Thread,         \* threads that send
    MaxClient,      \* bound: Client objects of the endpoint
    MaxCall,        \* bound: calls that send
    MaxChunk,       \* most packets one reply is split into
    ReplyList,      \* response_packet_list arguments: sequences over 0..MaxChunk
    Shaking,        \* Clients that get handshake answers while replies go to them
    NoThread        \* holder of a free lock

ASSUME CMSendAssumption ==
    /\ MaxClient \in Nat \ {0}
    /\ MaxCall \in Nat
    /\ MaxChunk \in Nat \ {0}
    /\ ReplyList \subseteq Seq(0..MaxChunk) \ {<<>>}
    /\ Shaking \subseteq 1..MaxClient
    /\ NoThread \notin Thread

Client == 1..MaxClient

VARIABLES
    created,          \* Client objects created for this endpoint
    registered,       \* the one Client_Manager knows, 0 for none
    sequence_number,  \* Client.sequence_number
    send_lock,        \* the thread that holds Client.send_lock
    calls,            \* calls made so far
    wire,             \* packets handed to the socket, in order
    pc,               \* next step of the thread
    cli,              \* the Client it sends to, 0 when idle
    call,             \* its call
    batch,            \* the call has several replies
    todo,             \* replies not yet prepared
    left,             \* chunks of the current reply not yet numbered
    first,            \* seq_of_first_pkt of the current reply
    ready             \* packets numbered and not yet sent

clientVars == <<created, registered>>
taskVars == <<cli, call, batch>>
replyVars == <<todo, left, first, ready>>
vars == <<clientVars, sequence_number, send_lock, calls, wire, pc, taskVars, replyVars>>

Label == {"idle", "check", "lock", "reply", "chunk", "send"}

Packet == [cli : Client, seq : Nat, first : Nat, cnt : 1..MaxChunk, call : 1..MaxCall,
           batch : BOOLEAN]

Init ==
    /\ created = 1
    /\ registered = 1
    /\ sequence_number = [c \in Client |-> 2]
    /\ send_lock = [c \in Client |-> NoThread]
    /\ calls = 0
    /\ wire = <<>>
    /\ pc = [t \in Thread |-> "idle"]
    /\ cli = [t \in Thread |-> 0]
    /\ call = [t \in Thread |-> 0]
    /\ batch = [t \in Thread |-> FALSE]
    /\ todo = [t \in Thread |-> <<>>]
    /\ left = [t \in Thread |-> 0]
    /\ first = [t \in Thread |-> 0]
    /\ ready = [t \in Thread |-> <<>>]

-----------------------------------------------------------------------------
Goto(t, label) == pc' = [pc EXCEPT ![t] = label]

\* A new handshake from the same port: add_or_update_client replaces the Client.
Reconnect ==
    /\ created < MaxClient
    /\ created' = created + 1
    /\ registered' = created + 1
    /\ UNCHANGED <<sequence_number, send_lock, calls, wire, pc, taskVars, replyVars>>

\* remove_client or the sweep of check_and_remove_stale_clients.
Forget ==
    /\ registered # 0
    /\ registered' = 0
    /\ UNCHANGED <<created, sequence_number, send_lock, calls, wire, pc, taskVars,
                   replyVars>>

Begin(t, c, isBatch) ==
    /\ pc[t] = "idle"
    /\ calls < MaxCall
    /\ calls' = calls + 1
    /\ cli' = [cli EXCEPT ![t] = c]
    /\ call' = [call EXCEPT ![t] = calls + 1]
    /\ batch' = [batch EXCEPT ![t] = isBatch]

\* sendReply(client_obj, response_packet_list).
SendReply(t) ==
    /\ \E c \in 1..created, replies \in ReplyList :
          /\ Begin(t, c, Len(replies) > 1)
          /\ todo' = [todo EXCEPT ![t] = replies]
    /\ Goto(t, "check")
    /\ UNCHANGED <<clientVars, sequence_number, send_lock, wire, left, first, ready>>

Finish(t) ==
    /\ Goto(t, "idle")
    /\ cli' = [cli EXCEPT ![t] = 0]
    /\ call' = [call EXCEPT ![t] = 0]
    /\ batch' = [batch EXCEPT ![t] = FALSE]

\* The Client is looked up once, before the lock is taken.
CheckCurrent(t) ==
    /\ pc[t] = "check"
    /\ IF registered = cli[t]
       THEN Goto(t, "lock") /\ UNCHANGED <<taskVars, todo>>
       ELSE Finish(t) /\ todo' = [todo EXCEPT ![t] = <<>>]
    /\ UNCHANGED <<clientVars, sequence_number, send_lock, calls, wire, left, first,
                   ready>>

\* Faulty variant: the lock is not exclusive.
AcquireAnyway(t) ==
    /\ pc[t] = "lock"
    /\ send_lock' = [send_lock EXCEPT ![cli[t]] = t]
    /\ Goto(t, "reply")
    /\ UNCHANGED <<clientVars, sequence_number, calls, wire, taskVars, replyVars>>

AcquireLock(t) ==
    /\ pc[t] = "lock"
    /\ send_lock[cli[t]] = NoThread
    /\ send_lock' = [send_lock EXCEPT ![cli[t]] = t]
    /\ Goto(t, "reply")
    /\ UNCHANGED <<clientVars, sequence_number, calls, wire, taskVars, replyVars>>

Release(t) == send_lock' = [send_lock EXCEPT ![cli[t]] = NoThread]

\* Faulty variant: the packets of a list go out after the lock is given back.
ReleaseEarly(t) == Release(t)

\* The lock is given back unless the reply is one of a list.
ReleaseUnlessBatch(t) ==
    IF batch[t] THEN UNCHANGED send_lock ELSE Release(t)

\* get_next_sequence_number for the next packet of the current reply.
Number(t, seqOfFirst, cnt) ==
    /\ sequence_number' = [sequence_number EXCEPT ![cli[t]] = @ + 1]
    /\ ready' = [ready EXCEPT ![t] = Append(@,
                    [cli |-> cli[t], seq |-> sequence_number[cli[t]] + 1,
                     first |-> seqOfFirst, cnt |-> cnt, call |-> call[t],
                     batch |-> batch[t]])]

Current(t) == Head(todo[t])

\* A list of which every reply is sent.
EndBatch(t) ==
    /\ pc[t] = "reply"
    /\ todo[t] = <<>>
    /\ Release(t)
    /\ Finish(t)
    /\ UNCHANGED <<clientVars, sequence_number, calls, wire, replyVars>>

\* A reply of a list, for which sendReply is entered again: the Client is looked
\* up again and a stale one gets nothing.  A reply without data sends nothing.
SkipReply(t) ==
    /\ pc[t] = "reply"
    /\ todo[t] # <<>>
    /\ Current(t) = 0 \/ (batch[t] /\ registered # cli[t])
    /\ todo' = [todo EXCEPT ![t] = Tail(@)]
    /\ IF batch[t]
       THEN UNCHANGED <<send_lock, pc, taskVars>>
       ELSE Release(t) /\ Finish(t)
    /\ UNCHANGED <<clientVars, sequence_number, calls, wire, left, first, ready>>

Prepares(t) ==
    /\ pc[t] = "reply"
    /\ todo[t] # <<>>
    /\ Current(t) > 0
    /\ batch[t] => registered = cli[t]

PrepareSingle(t) ==
    /\ Prepares(t)
    /\ Current(t) = 1
    /\ Number(t, sequence_number[cli[t]] + 1, 1)
    /\ todo' = [todo EXCEPT ![t] = Tail(@)]
    /\ ReleaseUnlessBatch(t)
    /\ Goto(t, "send")
    /\ UNCHANGED <<clientVars, calls, wire, taskVars, left, first>>

\* Faulty variant: a full last chunk is counted twice.
PrepareExtraChunk(t) ==
    /\ Prepares(t)
    /\ Current(t) > 1
    /\ first' = [first EXCEPT ![t] = sequence_number[cli[t]] + 1]
    /\ left' = [left EXCEPT ![t] = Current(t) + 1]
    /\ Goto(t, "chunk")
    /\ UNCHANGED <<clientVars, sequence_number, send_lock, calls, wire, taskVars, todo,
                   ready>>

\* seq_of_first_pkt is read here, without sequence_lock, and the numbers are taken
\* one by one afterwards.
PrepareSplit(t) ==
    /\ Prepares(t)
    /\ Current(t) > 1
    /\ first' = [first EXCEPT ![t] = sequence_number[cli[t]] + 1]
    /\ left' = [left EXCEPT ![t] = Current(t)]
    /\ Goto(t, "chunk")
    /\ UNCHANGED <<clientVars, sequence_number, send_lock, calls, wire, taskVars, todo,
                   ready>>

\* Faulty variant: the chunks are numbered from seq_of_first_pkt on.
CountFromFirst(t) ==
    /\ pc[t] = "chunk"
    /\ ready' = [ready EXCEPT ![t] = Append(@,
                    [cli |-> cli[t], seq |-> first[t] + Len(@), first |-> first[t],
                     cnt |-> Current(t), call |-> call[t], batch |-> batch[t]])]
    /\ sequence_number' = [sequence_number EXCEPT ![cli[t]] = @ + 1]
    /\ left' = [left EXCEPT ![t] = @ - 1]
    /\ IF left[t] > 1
       THEN UNCHANGED <<todo, pc, send_lock>>
       ELSE /\ todo' = [todo EXCEPT ![t] = Tail(@)]
            /\ Goto(t, "send")
            /\ ReleaseUnlessBatch(t)
    /\ UNCHANGED <<clientVars, calls, wire, taskVars, first>>

NumberChunk(t) ==
    /\ pc[t] = "chunk"
    /\ Number(t, first[t], Current(t))
    /\ left' = [left EXCEPT ![t] = @ - 1]
    /\ IF left[t] > 1
       THEN UNCHANGED <<todo, pc, send_lock>>
       ELSE /\ todo' = [todo EXCEPT ![t] = Tail(@)]
            /\ Goto(t, "send")
            /\ ReleaseUnlessBatch(t)
    /\ UNCHANGED <<clientVars, calls, wire, taskVars, first>>

\* Faulty variant: the exception leaves the lock held and a number taken.
FailHolding(t) ==
    /\ Prepares(t)
    /\ Finish(t)
    /\ sequence_number' = [sequence_number EXCEPT ![cli[t]] = @ + 1]
    /\ todo' = [todo EXCEPT ![t] = <<>>]
    /\ UNCHANGED <<clientVars, send_lock, calls, wire, left, first, ready>>

\* Serialising or encrypting the reply raises (the Client has no session key yet):
\* the exception leaves every `with send_lock' and the rest of a list is not sent.
FailToPrepare(t) ==
    /\ Prepares(t)
    /\ Release(t)
    /\ Finish(t)
    /\ todo' = [todo EXCEPT ![t] = <<>>]
    /\ UNCHANGED <<clientVars, sequence_number, calls, wire, left, first, ready>>

\* _send_packets_sync: one sendto per packet.
SendPacket(t) ==
    /\ pc[t] = "send"
    /\ wire' = Append(wire, Head(ready[t]))
    /\ ready' = [ready EXCEPT ![t] = Tail(@)]
    /\ IF Len(ready[t]) > 1
       THEN UNCHANGED <<pc, taskVars>>
       ELSE IF batch[t] THEN Goto(t, "reply") /\ UNCHANGED taskVars ELSE Finish(t)
    /\ UNCHANGED <<clientVars, sequence_number, send_lock, calls, todo, left, first>>

\* A handshake answer: the number is taken here and the packet sent later.
AnswerHandshake(t) ==
    /\ \E c \in Shaking \intersect 1..created :
          /\ Begin(t, c, FALSE)
          /\ sequence_number' = [sequence_number EXCEPT ![c] = @ + 1]
          /\ ready' = [ready EXCEPT ![t] =
                <<[cli |-> c, seq |-> sequence_number[c] + 1,
                   first |-> sequence_number[c] + 1, cnt |-> 1, call |-> calls + 1,
                   batch |-> FALSE]>>]
    /\ Goto(t, "send")
    /\ UNCHANGED <<clientVars, send_lock, wire, todo, left, first>>

SendStep(t) ==
    \/ CheckCurrent(t)
    \/ AcquireLock(t)
    \/ EndBatch(t)
    \/ SkipReply(t)
    \/ PrepareSingle(t)
    \/ PrepareSplit(t)
    \/ NumberChunk(t)
    \/ FailToPrepare(t)
    \/ SendPacket(t)

Next ==
    \/ Reconnect
    \/ Forget
    \/ \E t \in Thread : SendReply(t) \/ AnswerHandshake(t) \/ SendStep(t)

Spec == Init /\ [][Next]_vars

(* A thread of the pool runs its handler to the end; who gets a contended  *)
(* lock is left open.                                                      *)
FairSpec == Spec /\ \A t \in Thread : WF_vars(SendStep(t))

-----------------------------------------------------------------------------
(* Properties.                                                             *)

TypeOK ==
    /\ created \in Client
    /\ registered \in {0, created}
    /\ sequence_number \in [Client -> Nat]
    /\ send_lock \in [Client -> Thread \union {NoThread}]
    /\ calls \in 0..MaxCall
    /\ wire \in Seq(Packet)
    /\ pc \in [Thread -> Label]
    /\ cli \in [Thread -> 0..MaxClient]
    /\ call \in [Thread -> 0..MaxCall]
    /\ batch \in [Thread -> BOOLEAN]
    /\ todo \in [Thread -> Seq(0..MaxChunk)]
    /\ left \in [Thread -> 0..MaxChunk]
    /\ first \in [Thread -> Nat]
    /\ ready \in [Thread -> Seq(Packet)]

Sent(c) == {i \in DOMAIN wire : wire[i].cli = c}

(* No two packets of a connection carry the same sequence number: the      *)
(* counter is the only source of numbers although handshake answers bypass *)
(* send_lock (get_next_sequence_number).                                   *)
NumbersAreUnique ==
    \A c \in Client : \A i, j \in Sent(c) : wire[i].seq = wire[j].seq => i = j

(* When nobody is sending, the numbers on the wire have no gap: no early   *)
(* return or exception of sendReply takes a number and drops the packet,   *)
(* which the remote client would wait for.                                 *)
NoNumberIsLost ==
    (\A t \in Thread : pc[t] = "idle") =>
        \A c \in Client : {wire[i].seq : i \in Sent(c)} = 3..sequence_number[c]

(* The packets of two lists of replies to one Client do not interleave:    *)
(* the outer send_lock is kept while the inner calls send.                 *)
ListsDoNotInterleave ==
    \A c \in Client : \A i, j, k \in Sent(c) :
        (i < j /\ j < k /\ wire[j].batch /\ wire[i].call = wire[k].call /\ wire[i].batch)
            => wire[j].call = wire[i].call

(* Once the handshake is over, the numbers seq_of_first_pkt ..             *)
(* seq_of_first_pkt + split_pkt_cnt - 1 belong to the chunks of that       *)
(* message alone, which is what reassembly by seq_of_first_pkt relies on,  *)
(* although sendReply reads the counter before it takes the numbers.       *)
SplitIsContiguous ==
    \A c \in Client \ Shaking : \A i, j \in Sent(c) :
        LET p == wire[i]
            q == wire[j]
            range == p.first .. (p.first + p.cnt - 1)
        IN  /\ p.seq \in range
            /\ q.seq \in range => q.first = p.first /\ q.cnt = p.cnt /\ q.call = p.call

(* Every call comes to its end (the calls are bounded): send_lock is given *)
(* back on every path out of sendReply, also when a reply raises, and its  *)
(* holder waits for no other lock.                                         *)
EveryCallEnds == <>[](\A t \in Thread : pc[t] = "idle")

(* A claim of the code's comments that the handlers do not keep.           *)

(* cmserver_udp.py, _send_packets_sync: "packets are sent in the exact     *)
(* order their sequence numbers were assigned".                            *)
WireInOrder ==
    \A c \in Client : \A i, j \in Sent(c) : i < j => wire[i].seq < wire[j].seq
=============================================================================
