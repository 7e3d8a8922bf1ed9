-------------------------- MODULE ClientSessions --------------------------
(***************************************************************************)
(* What the handlers may expect of the registry: that its dictionaries are *)
(* views of one set of sessions, with at most one at each address and for  *)
(* each account.  A session begins when a client connects.  It ends when a *)
(* client connects from the same address or another one logs in to its     *)
(* account, or when a user who logged in has been silent for too long, and *)
(* not for any other reason.  Who is gone does not come back: connecting   *)
(* again makes a new client.                                               *)
(***************************************************************************)
EXTENDS Naturals

CONSTANTS Addr,      \* where clients connect from
          Client,    \* clients, numbered from 1 as they connect
          Account    \* accounts, none of which is 0

VARIABLES connections,   \* how many clients have connected so far
          sessions,      \* who is there, and as whom
          heard          \* "none", "recent" or "old": the last heartbeat of each client

sessionVars == <<connections, sessions, heard>>

Init ==
    /\ connections = 0
    /\ sessions = {}
    /\ heard = [c \in Client |-> "none"]

Connect(a) ==
    LET new == [address |-> a, client |-> connections + 1, account |-> 0]
    IN  /\ new.client \in Client
        /\ connections' = new.client
        /\ sessions' = {s \in sessions : s.address # a} \union {new}
        /\ UNCHANGED heard

Login(s, x) ==
    /\ s.account \in {0, x}
    /\ sessions' = {r \in sessions : r # s /\ r.account # x} \union {[s EXCEPT !.account = x]}
    /\ UNCHANGED <<connections, heard>>

Heartbeat(s) ==
    /\ heard' = [heard EXCEPT ![s.client] = "recent"]
    /\ UNCHANGED <<connections, sessions>>

FallSilent(c) ==
    /\ heard[c] = "recent"
    /\ heard' = [heard EXCEPT ![c] = "old"]
    /\ UNCHANGED <<connections, sessions>>

Expire(s) ==
    /\ s.account # 0
    /\ heard[s.client] = "old"
    /\ sessions' = sessions \ {s}
    /\ UNCHANGED <<connections, heard>>

Next ==
    \/ \E a \in Addr : Connect(a)
    \/ \E c \in Client : FallSilent(c)
    \/ \E s \in sessions : \/ Heartbeat(s)
                           \/ Expire(s)
                           \/ \E x \in Account : Login(s, x)

Spec == Init /\ [][Next]_sessionVars
=============================================================================
