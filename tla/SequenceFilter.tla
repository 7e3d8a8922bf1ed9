--------------------------- MODULE SequenceFilter ---------------------------
(***************************************************************************)
(* What the receive path of one UDP endpoint of the connection manager     *)
(* promises about client sequence numbers, whatever the interleaving of    *)
(* the worker pool and whatever the network loses, repeats or reorders:    *)
(* the numbers a connection accepts only grow, never by more than the      *)
(* tolerance allows, and an accepted number is handed to the message       *)
(* dispatcher at most once.                                                *)
(***************************************************************************)
EXTENDS Naturals, Sequences, Functions

CONSTANTS Conn,       \* Client objects
          Tolerance   \* how far ahead of the expected number is still accepted

VARIABLES highest,    \* highest number accepted; 0 while the connection is closed
          accepted,   \* every number accepted
          delivered   \* the numbers handed to the dispatcher, in order

filterVars == <<highest, accepted, delivered>>

Init ==
    /\ highest = [c \in Conn |-> 0]
    /\ accepted = [c \in Conn |-> {}]
    /\ delivered = [c \in Conn |-> <<>>]

\* The handshake leaves the connection with one client number already consumed.
Open(c) ==
    /\ highest[c] = 0
    /\ highest' = [highest EXCEPT ![c] = 1]
    /\ UNCHANGED <<accepted, delivered>>

Accept(c, s) ==
    /\ highest[c] > 0
    /\ s > highest[c]
    /\ s <= highest[c] + 1 + Tolerance
    /\ highest' = [highest EXCEPT ![c] = s]
    /\ accepted' = [accepted EXCEPT ![c] = @ \union {s}]
    /\ UNCHANGED delivered

Dispatch(c, s) ==
    /\ s \in accepted[c] \ Range(delivered[c])
    /\ delivered' = [delivered EXCEPT ![c] = Append(@, s)]
    /\ UNCHANGED <<highest, accepted>>

\* A number is accepted within the tolerance, and only accepted ones are delivered.
Next ==
    \E c \in Conn :
        \/ Open(c)
        \/ \E s \in (highest[c] + 1) .. (highest[c] + 1 + Tolerance) : Accept(c, s)
        \/ \E s \in accepted[c] : Dispatch(c, s)

Spec == Init /\ [][Next]_filterVars
=============================================================================
