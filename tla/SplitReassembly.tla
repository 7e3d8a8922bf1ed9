-------------------------- MODULE SplitReassembly --------------------------
(***************************************************************************)
(* Putting split packets of clients together again: process_packet and     *)
(* handle_split_packet of UDPNetworkHandlerCM (utilities/networkhandler.py) *)
(* in the workers of the pool, which share packet_buffer without a lock.   *)
(*                                                                         *)
(* A message is split into Parts packets that carry the number of the      *)
(* first one.  What the joining worker compares of sizes depends only on   *)
(* how many of the packets it holds are last ones, when those are shorter. *)
(* A sender is the one client behind its IP address; the network loses and *)
(* reorders its packets.                                                   *)
(***************************************************************************)
EXTENDS Naturals, Sequences, FiniteSets

CONSTANTS
    Sender,        \* remote clients
    MaxMessage,    \* bound: messages of a sender, which have different numbers
    Parts,         \* packets of a message
    Worker,        \* threads of the pool
    LastShorter,   \* the last packet of a message is shorter than the others
    Paced          \* senders of which each packet is done with before the next comes

ASSUME SplitReassemblyAssumption ==
    /\ MaxMessage \in Nat
    /\ Parts \in Nat \ {0, 1}
    /\ LastShorter \in BOOLEAN
    /\ Paced \subseteq Sender

Packet == [sender : Sender, message : 1..MaxMessage, part : 1..Parts]
Key == Sender \X (1..MaxMessage)

VARIABLES
    next,            \* the packet each sender sends next
    net,             \* packets in flight, in the order they were sent
    packet_buffer,   \* the lists under the keys that are in the dictionary
    pc,
    pkt,             \* packet of each worker
    received,        \* packets workers are done with
    handled          \* for handle_client: per message, the packets it was joined of

vars == <<next, net, packet_buffer, pc, pkt, received, handled>>

NoPacket == [sender |-> "none", message |-> 0, part |-> 0]
Label == {"idle", "check", "create", "append", "test", "join"}

Init ==
    /\ next = [s \in Sender |-> [sender |-> s, message |-> 1, part |-> 1]]
    /\ net = <<>>
    /\ packet_buffer = [k \in {} |-> <<>>]
    /\ pc = [w \in Worker |-> "idle"]
    /\ pkt = [w \in Worker |-> NoPacket]
    /\ received = {}
    /\ handled = [s \in Sender |-> [m \in 1..MaxMessage |-> <<>>]]

-----------------------------------------------------------------------------
(* The senders and the network.                                            *)

\* A packet of the sender is in flight or in a worker's hands.
Underway(s) ==
    \/ \E i \in DOMAIN net : net[i].sender = s
    \/ \E w \in Worker : pkt[w].sender = s

Send(s) ==
    LET p == next[s]
    IN  /\ p.message <= MaxMessage
        /\ s \in Paced => ~Underway(s)
        /\ net' = Append(net, p)
        /\ next' = [next EXCEPT ![s] =
                        IF p.part < Parts THEN [p EXCEPT !.part = @ + 1]
                        ELSE [p EXCEPT !.message = @ + 1, !.part = 1]]
        /\ UNCHANGED <<packet_buffer, pc, pkt, received, handled>>

Without(seq, i) == SubSeq(seq, 1, i - 1) \o SubSeq(seq, i + 1, Len(seq))

Lose ==
    /\ \E i \in DOMAIN net : net' = Without(net, i)
    /\ UNCHANGED <<next, packet_buffer, pc, pkt, received, handled>>

\* The main loop submits a packet to the pool; an idle worker takes it.
Submit(w) ==
    /\ pc[w] = "idle"
    /\ \E i \in DOMAIN net :
          /\ pkt' = [pkt EXCEPT ![w] = net[i]]
          /\ net' = Without(net, i)
    /\ pc' = [pc EXCEPT ![w] = "check"]
    /\ UNCHANGED <<next, packet_buffer, received, handled>>

-----------------------------------------------------------------------------
(* handle_split_packet.                                                    *)

\* Faulty variant: the packet's own number instead of the first one's.
KeyBySequence(p) ==
    <<p.sender, p.message * Parts + p.part>>

\* Faulty variant: the address alone.
KeyByAddress(p) == <<p.sender, 1>>

KeyOf(p) == <<p.sender, p.message>>

Goto(w, label) == pc' = [pc EXCEPT ![w] = label]

\* An exception ends the worker's task as well: the future keeps it.
Finish(w) ==
    /\ Goto(w, "idle")
    /\ received' = received \union {pkt[w]}
    /\ pkt' = [pkt EXCEPT ![w] = NoPacket]

\* Faulty variant: a list that is there is replaced.
CheckNothing(w) ==
    /\ pc[w] = "check"
    /\ Goto(w, "create")
    /\ UNCHANGED <<next, net, packet_buffer, pkt, received, handled>>

Check(w) ==
    /\ pc[w] = "check"
    /\ Goto(w, IF KeyOf(pkt[w]) \in DOMAIN packet_buffer THEN "append" ELSE "create")
    /\ UNCHANGED <<next, net, packet_buffer, pkt, received, handled>>

Create(w) ==
    /\ pc[w] = "create"
    /\ packet_buffer' = [k \in DOMAIN packet_buffer \union {KeyOf(pkt[w])} |->
                            IF k = KeyOf(pkt[w]) THEN <<>> ELSE packet_buffer[k]]
    /\ Goto(w, "append")
    /\ UNCHANGED <<next, net, pkt, received, handled>>

\* A KeyError when the list has been joined in the meantime.
AppendPacket(w) ==
    /\ pc[w] = "append"
    /\ IF KeyOf(pkt[w]) \in DOMAIN packet_buffer
       THEN /\ packet_buffer' = [packet_buffer EXCEPT ![KeyOf(pkt[w])] = Append(@, pkt[w])]
            /\ Goto(w, "test")
            /\ UNCHANGED <<pkt, received>>
       ELSE Finish(w) /\ UNCHANGED packet_buffer
    /\ UNCHANGED <<next, net, handled>>

\* As many packets as the header says, of the message's length together.
Complete(list) ==
    /\ Len(list) = Parts
    /\ LastShorter => Cardinality({i \in DOMAIN list : list[i].part = Parts}) = 1

Test(w) ==
    /\ pc[w] = "test"
    /\ IF KeyOf(pkt[w]) \in DOMAIN packet_buffer /\ Complete(packet_buffer[KeyOf(pkt[w])])
       THEN Goto(w, "join") /\ UNCHANGED <<pkt, received>>
       ELSE Finish(w)
    /\ UNCHANGED <<next, net, packet_buffer, handled>>

WithoutKey(key) == [k \in DOMAIN packet_buffer \ {key} |-> packet_buffer[k]]

Handle(p, list) ==
    handled' = [handled EXCEPT ![p.sender][p.message] = Append(@, list)]

\* Faulty variant: the list is joined and handed on, and stays.
JoinKeeping(w) ==
    /\ pc[w] = "join"
    /\ IF KeyOf(pkt[w]) \in DOMAIN packet_buffer
       THEN Handle(pkt[w], packet_buffer[KeyOf(pkt[w])])
       ELSE UNCHANGED handled
    /\ Finish(w)
    /\ UNCHANGED <<next, net, packet_buffer>>

\* The list is joined in the order it has, then deleted, then handled; whoever
\* comes second gets a KeyError instead.
Join(w) ==
    /\ pc[w] = "join"
    /\ IF KeyOf(pkt[w]) \in DOMAIN packet_buffer
       THEN /\ Handle(pkt[w], packet_buffer[KeyOf(pkt[w])])
            /\ packet_buffer' = WithoutKey(KeyOf(pkt[w]))
       ELSE UNCHANGED <<packet_buffer, handled>>
    /\ Finish(w)
    /\ UNCHANGED <<next, net>>

Next ==
    \/ \E s \in Sender : Send(s)
    \/ Lose
    \/ \E w \in Worker :
          \/ Submit(w)
          \/ Check(w)
          \/ Create(w)
          \/ AppendPacket(w)
          \/ Test(w)
          \/ Join(w)

Spec == Init /\ [][Next]_vars

\* A message is sent with its last packet, and delivered when it is handed to handle_client.
Delivery == INSTANCE MessageDelivery WITH
                Waiting <- Paced,
                sent <- [s \in Sender |-> next[s].message - 1],
                delivered <- handled

-----------------------------------------------------------------------------
(* Properties.                                                             *)

TypeOK ==
    /\ next \in [Sender -> [sender : Sender, message : 1..(MaxMessage + 1),
                            part : 1..Parts]]
    /\ net \in Seq(Packet)
    /\ DOMAIN packet_buffer \subseteq Key
    /\ \A k \in DOMAIN packet_buffer : packet_buffer[k] \in Seq(Packet)
    /\ pc \in [Worker -> Label]
    /\ pkt \in [Worker -> Packet \union {NoPacket}]
    /\ received \subseteq Packet
    /\ handled \in [Sender -> [1..MaxMessage -> Seq(Seq(Packet))]]

(* A message whose packets are not duplicated reaches handle_client at most *)
(* once, although several workers may find it complete: the entry is        *)
(* deleted before the message is handled.                                   *)
HandledOnce == \A s \in Sender, m \in 1..MaxMessage : Len(handled[s][m]) <= 1

(* The pool implements the delivery of whole messages, whatever the workers *)
(* do to each other's lists: an incomplete list is never handed on, a list  *)
(* is not handed on again by the worker that comes second, and a sender     *)
(* that waits has its messages delivered in the order it sent them.         *)
ImplementsDelivery == Delivery!Spec

(* What reaches handle_client is a whole message: each of its packets once, *)
(* and none of another message, whatever the workers and the network do.    *)
MessagesAreWhole ==
    \A s \in Sender, m \in 1..MaxMessage : \A n \in DOMAIN handled[s][m] :
        LET list == handled[s][m][n]
        IN  /\ Len(list) = Parts
            /\ {list[i] : i \in DOMAIN list} =
                   {[sender |-> s, message |-> m, part |-> i] : i \in 1..Parts}

(* The packets of a paced sender are joined in their order, although the    *)
(* code does not look at it, while other senders use the buffer.            *)
AssembledInOrder ==
    \A s \in Paced, m \in 1..MaxMessage : \A n \in DOMAIN handled[s][m] :
        handled[s][m][n] = [i \in 1..Parts |-> [sender |-> s, message |-> m, part |-> i]]

(* A message of a paced sender all of whose packets were taken in has       *)
(* reached handle_client: none stays behind in packet_buffer, which nothing *)
(* ever clears.                                                             *)
NothingIsStuck ==
    \A s \in Paced, m \in 1..MaxMessage :
        (\A i \in 1..Parts : [sender |-> s, message |-> m, part |-> i] \in received)
            => handled[s][m] # <<>>
=============================================================================
