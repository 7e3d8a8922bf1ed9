-------------------------- MODULE MessageDelivery --------------------------
(***************************************************************************)
(* What handle_client may expect of the split messages that reach it from  *)
(* the pool: a message comes only when its sender has sent all of it, at   *)
(* most once, and whole.  Its parts may be in any order, and messages may  *)
(* overtake each other or be lost, except that from a sender that waits    *)
(* for each packet to be done with both come in order.                     *)
(***************************************************************************)
EXTENDS Naturals, Sequences

CONSTANTS Sender,       \* remote clients
          MaxMessage,   \* bound: messages of a sender
          Parts,        \* parts of a message
          Waiting       \* senders that wait

VARIABLES sent,         \* how many messages each sender has sent
          delivered     \* what each message came as, in which order of its parts

deliveryVars == <<sent, delivered>>

Piece(s, m, i) == [sender |-> s, message |-> m, part |-> i]

\* The parts of a message in their order, and in any order.
InOrder(s, m) == [i \in 1..Parts |-> Piece(s, m, i)]

Arrangements(s, m) ==
    {list \in [1..Parts -> {Piece(s, m, i) : i \in 1..Parts}] :
        \A i, j \in 1..Parts : list[i] = list[j] => i = j}

Init ==
    /\ sent = [s \in Sender |-> 0]
    /\ delivered = [s \in Sender |-> [m \in 1..MaxMessage |-> <<>>]]

SendMessage(s) ==
    /\ sent[s] < MaxMessage
    /\ sent' = [sent EXCEPT ![s] = @ + 1]
    /\ UNCHANGED delivered

Deliver(s, m, list) ==
    /\ m <= sent[s]
    /\ delivered[s][m] = <<>>
    /\ s \in Waiting => /\ list = InOrder(s, m)
                        /\ \A n \in 1..MaxMessage : n > m => delivered[s][n] = <<>>
    /\ delivered' = [delivered EXCEPT ![s][m] = <<list>>]
    /\ UNCHANGED sent

Next ==
    \E s \in Sender :
        \/ SendMessage(s)
        \/ \E m \in 1..MaxMessage : \E list \in Arrangements(s, m) : Deliver(s, m, list)

Spec == Init /\ [][Next]_deliveryVars
=============================================================================
