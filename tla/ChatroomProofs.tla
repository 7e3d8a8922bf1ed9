--------------------------- MODULE ChatroomProofs ---------------------------
(***************************************************************************)
(* Theorems about Chatroom, for any number of users, workers and rooms.    *)
(*                                                                         *)
(* The types need that a worker in the middle of a handler has a room that *)
(* was created, and the user its next step is about (Busy), and that only  *)
(* created rooms are listed.  What is true of bans, invitations and the    *)
(* owner needs besides that a room that is not created yet is empty        *)
(* (Fresh).  That invitations are told needs where one is until it is sent *)
(* (OnTheWay): before the user's first login has taken his list, in it or  *)
(* in a handler that will file it; after that in a handler that will send  *)
(* it.                                                                     *)
(***************************************************************************)
EXTENDS Chatroom, TLAPS

Inviting == Locking \union {"send", "persist_again", "look_again", "append_again",
                            "popped_again"}

Busy ==
    \A w \in Worker :
        /\ pc[w] \in {"enter", "pending"} => user[w] \in User
        /\ pc[w] \in Inviting \union {"enter", "tell", "remove"} => room[w] \in Created
        /\ pc[w] \in Inviting => target[w] \in User

TInv == TypeOK /\ chatrooms \subseteq Created /\ Busy

Fresh ==
    \A r \in Room : r >= next_chat_id =>
        /\ permissions[r] = [u \in User |-> "none"]
        /\ banned_users[r] = {}
        /\ pending_invites[r] = {}

RInv == Fresh /\ BannedStayOut /\ InvitationsAreSpent /\ OwnersPermissions

IInv == TInv /\ RInv

-----------------------------------------------------------------------------
(* Types.                                                                  *)

\* The types hold at the start.
LEMMA InitTInv == Init => TInv
  BY ChatroomAssumption
     DEF Init, TInv, TypeOK, Busy, Label, Locking, Inviting, Room

\* Created rooms are rooms.
LEMMA CreatedRooms ==
    ASSUME TypeOK
    PROVE  /\ Created \subseteq Room
           /\ next_chat_id \in Nat
  BY ChatroomAssumption DEF TypeOK, Created, Room

\* A worker is done.
LEMMA FinishTypes ==
    ASSUME TInv, NEW w \in Worker, Finish(w), UNCHANGED next_chat_id
    PROVE  /\ pc' \in [Worker -> Label]
           /\ user' \in [Worker -> User \union {NoUser}]
           /\ target' \in [Worker -> User \union {NoUser}]
           /\ room' \in [Worker -> 0..MaxRoom]
           /\ Busy'
  BY ChatroomAssumption
     DEF Finish, Goto, TInv, TypeOK, Busy, Label, Inviting, Locking, Created

\* The end of _persist_invite, in any of its steps.
LEMMA ResumeTypes ==
    ASSUME TInv, NEW w \in Worker, pc[w] \in Inviting, Resume(w), UNCHANGED next_chat_id
    PROVE  /\ pc' \in [Worker -> Label]
           /\ user' \in [Worker -> User \union {NoUser}]
           /\ target' \in [Worker -> User \union {NoUser}]
           /\ room' \in [Worker -> 0..MaxRoom]
           /\ Busy'
  <1>1. CASE pc[w] \in Locking
    BY <1>1 DEF Resume, Goto, TInv, TypeOK, Busy, Label, Inviting, Created
  <1>2. CASE pc[w] \notin Locking
    BY <1>2, FinishTypes DEF Resume
  <1> QED  BY <1>1, <1>2

\* A worker starts on a handler.
LEMMA BeginTypes ==
    ASSUME TInv, NEW w \in Worker, NEW label \in Label \ {"idle"}, NEW u \in User,
           NEW t \in User \union {NoUser}, NEW r \in 0..MaxRoom,
           Begin(w, label, u, t, r),
           next_chat_id' \in Nat, next_chat_id' >= next_chat_id,
           label # "pending" => r \in Created',
           label \in Inviting => t \in User
    PROVE  /\ pc' \in [Worker -> Label]
           /\ user' \in [Worker -> User \union {NoUser}]
           /\ target' \in [Worker -> User \union {NoUser}]
           /\ room' \in [Worker -> 0..MaxRoom]
           /\ Busy'
  <1>1. Created \subseteq Created'
    BY CreatedRooms DEF TInv, Created
  <1> QED
    BY <1>1 DEF Begin, Goto, TInv, TypeOK, Busy, Label, Inviting, Locking

\* The step to another label of the same handler.
LEMMA GotoTypes ==
    ASSUME TInv, NEW w \in Worker, NEW label \in Inviting \union {"tell"}, Goto(w, label),
           pc[w] \in Inviting \union {"enter"}, label \in Inviting => pc[w] \in Inviting,
           UNCHANGED <<user, target, room, next_chat_id>>
    PROVE  /\ pc' \in [Worker -> Label]
           /\ user' \in [Worker -> User \union {NoUser}]
           /\ target' \in [Worker -> User \union {NoUser}]
           /\ room' \in [Worker -> 0..MaxRoom]
           /\ Busy'
  BY DEF Goto, TInv, TypeOK, Busy, Label, Inviting, Locking, Created

\* Entering keeps the types of the room.
LEMMA EnterTypes ==
    ASSUME TypeOK, NEW r \in Room, NEW u \in User, Enter(r, u)
    PROVE  /\ permissions' \in [Room -> [User -> {"none", "member", "owner"}]]
           /\ pending_invites' \in [Room -> SUBSET User]
           /\ UNCHANGED <<owner_id, banned_users, locked, unjoinable>>
  <1>1. CASE u \notin Members(r) /\ Admits(r, u)
    <2> DEFINE p == IF u = owner_id[r] THEN "owner" ELSE "member"
               row == [permissions[r] EXCEPT ![u] = p]
    <2>1. /\ permissions' = [permissions EXCEPT ![r] = row]
          /\ pending_invites' = [pending_invites EXCEPT ![r] = @ \ {u}]
      BY <1>1 DEF Enter
    <2>2. row \in [User -> {"none", "member", "owner"}]
      BY DEF TypeOK
    <2> QED  BY <2>1, <2>2 DEF Enter, TypeOK
  <1>2. CASE ~(u \notin Members(r) /\ Admits(r, u))
    BY <1>2 DEF Enter, TypeOK
  <1> QED  BY <1>1, <1>2

\* Every step keeps the types.
LEMMA NextTInv ==
    ASSUME TInv, [Next]_vars
    PROVE  TInv'
<1> DEFINE Workers ==
        /\ pc \in [Worker -> Label]
        /\ user \in [Worker -> User \union {NoUser}]
        /\ target \in [Worker -> User \union {NoUser}]
        /\ room \in [Worker -> 0..MaxRoom]
        /\ Busy
<1> USE DEF TInv
<1>a. /\ next_chat_id \in 1..(MaxRoom + 1)
      /\ Created \subseteq Room /\ next_chat_id \in Nat /\ Room \subseteq 0..MaxRoom
  BY CreatedRooms, ChatroomAssumption DEF TypeOK, Room
<1>b. ASSUME NEW w \in Worker, NEW label \in Label \ {"idle"}, NEW u \in User,
             NEW t \in User \union {NoUser}, NEW r \in Created,
             Begin(w, label, u, t, r), UNCHANGED next_chat_id,
             label \in Inviting => t \in User
      PROVE  Workers'
  <2>1. r \in Created' /\ r \in 0..MaxRoom /\ next_chat_id' \in Nat /\ next_chat_id' >= next_chat_id
    BY <1>a, <1>b DEF Created
  <2> QED  BY <2>1, <1>b, BeginTypes
<1>c. ASSUME NEW w \in Worker, Finish(w), UNCHANGED next_chat_id
      PROVE  Workers'
  BY <1>c, FinishTypes
<1>d. ASSUME NEW w \in Worker, pc[w] \in Inviting, Resume(w), UNCHANGED next_chat_id
      PROVE  Workers'
  BY <1>d, ResumeTypes
<1>e. ASSUME NEW w \in Worker, NEW label \in Inviting \union {"tell"}, Goto(w, label),
             pc[w] \in Inviting \union {"enter"}, label \in Inviting => pc[w] \in Inviting,
             UNCHANGED <<user, target, room, next_chat_id>>
      PROVE  Workers'
  BY <1>e, GotoTypes
<1>f. ASSUME UNCHANGED <<next_chat_id, workerVars>>
      PROVE  Workers'
  BY <1>f DEF workerVars, TypeOK, Busy, Created
<1>1. ASSUME NEW w \in Worker, NEW u \in User, NEW t \in User \union {NoUser},
             NEW lock \in BOOLEAN, Create(w, u, t, lock)
      PROVE  TInv'
  <2>1. /\ next_chat_id \in Room
        /\ next_chat_id' = next_chat_id + 1
        /\ next_chat_id' \in 1..(MaxRoom + 1)
    BY <1>1, ChatroomAssumption DEF Create, TypeOK, Room
  <2>2. Begin(w, "enter", u, t, next_chat_id)
    BY <1>1 DEF Create
  <2>3. next_chat_id \in Created' /\ "enter" \in Label \ {"idle"} /\ "enter" \notin Inviting
    BY <2>1 DEF Created, Room, Label, Inviting, Locking
  <2>4. /\ Created \subseteq Created'
        /\ next_chat_id' \in Nat /\ next_chat_id' >= next_chat_id /\ next_chat_id \in 0..MaxRoom
    BY <2>1, <1>a DEF Created
  <2>5. Workers'
    BY <2>2, <2>3, <2>4, BeginTypes
  <2> QED
    BY <1>1, <2>1, <2>3, <2>4, <2>5 DEF Create, TypeOK, clientVars
<1>2. ASSUME NEW w \in Worker, NEW u \in User, NEW r \in chatrooms, Close(w, u, r)
      PROVE  TInv'
  <2>1. Workers'
    BY <1>2, <1>b DEF Close, managerVars, Label, Inviting, Locking
  <2> QED  BY <1>2, <2>1 DEF Close, TypeOK, managerVars, roomVars, clientVars, Created
<1>3. ASSUME NEW w \in Worker, NEW u \in User, NEW r \in chatrooms, NEW t \in User,
             Invite(w, u, r, t)
      PROVE  TInv'
  <2>1. Workers'
    BY <1>3, <1>b DEF Invite, managerVars, Label, Inviting, Locking
  <2>2. /\ untold' \subseteq User \X Room
        /\ pending_invites' \in [Room -> SUBSET User]
    BY <1>3, <1>a DEF Invite, TypeOK
  <2> QED  BY <1>3, <2>1, <2>2 DEF Invite, TypeOK, managerVars, Created
<1>4. ASSUME NEW w \in Worker, NEW u \in User, Login(w, u)
      PROVE  TInv'
  <2>1. /\ Begin(w, "pending", u, NoUser, 0)
        /\ UNCHANGED <<next_chat_id, chatrooms>>
        /\ 0 \in 0..MaxRoom /\ next_chat_id' >= next_chat_id /\ next_chat_id' \in Nat
    BY <1>4, <1>a, ChatroomAssumption DEF Login, managerVars
  <2>2. "pending" \in Label \ {"idle"} /\ "pending" \notin Inviting
    BY DEF Label, Inviting, Locking
  <2>3. Workers'
    BY <2>1, <2>2, BeginTypes
  <2>4. /\ online' \subseteq User
        /\ logins' \in [User -> 0..MaxLogin]
    BY <1>4, ChatroomAssumption DEF Login, TypeOK
  <2> QED  BY <1>4, <2>3, <2>4 DEF Login, TypeOK, managerVars, roomVars, Created
<1>5. ASSUME NEW w \in Worker, EnterCreated(w)
      PROVE  TInv'
  <2>1. room[w] \in Created /\ user[w] \in User /\ pc[w] = "enter"
    BY <1>5 DEF EnterCreated, Busy
  <2>2. Enter(room[w], user[w]) /\ UNCHANGED <<managerVars, clientVars>>
    BY <1>5 DEF EnterCreated
  <2>3. Workers'
    <3>1. CASE target[w] # NoUser /\ permissions'[room[w]][user[w]] # "none"
      BY <1>5, <3>1, <2>1, <2>2, <1>e DEF EnterCreated, managerVars, Inviting, Locking
    <3>2. CASE ~(target[w] # NoUser /\ permissions'[room[w]][user[w]] # "none")
      BY <1>5, <3>2, <2>2, <1>c DEF EnterCreated, managerVars
    <3> QED  BY <3>1, <3>2
  <2>4. /\ permissions' \in [Room -> [User -> {"none", "member", "owner"}]]
        /\ pending_invites' \in [Room -> SUBSET User]
        /\ UNCHANGED <<owner_id, banned_users, locked, unjoinable>>
    BY <2>1, <2>2, <1>a, EnterTypes
  <2> QED  BY <2>2, <2>3, <2>4 DEF TypeOK, managerVars, clientVars, Created
<1>6. ASSUME NEW w \in Worker, TellCreated(w)
      PROVE  TInv'
  <2>1. Workers'
    BY <1>6, <1>c DEF TellCreated, managerVars
  <2>2. untold' \subseteq User \X Room
    BY <1>6 DEF TellCreated, TypeOK
  <2> QED  BY <1>6, <2>1, <2>2 DEF TellCreated, TypeOK, managerVars, roomVars, Created
<1>7. ASSUME NEW w \in Worker, RemoveChatroom(w)
      PROVE  TInv'
  <2>1. Workers'
    BY <1>7, <1>c DEF RemoveChatroom
  <2> QED  BY <1>7, <2>1 DEF RemoveChatroom, TypeOK, roomVars, clientVars, Created
<1>8. ASSUME NEW w \in Worker, Persist(w)
      PROVE  TInv'
  <2>1. target[w] \in User /\ pc[w] \in Inviting
    BY <1>8 DEF Persist, Busy, Inviting, Locking
  <2>2. Workers'
    BY <1>8, <2>1, <1>e DEF Persist, Inviting, Locking
  <2>3. /\ DOMAIN offline_invites' \subseteq User
        /\ \A u \in DOMAIN offline_invites' : offline_invites'[u] \subseteq Room
    BY <1>8, <2>1 DEF Persist, TypeOK
  <2> QED  BY <1>8, <2>2, <2>3 DEF Persist, TypeOK, roomVars, clientVars, Created
<1>9. ASSUME NEW w \in Worker, Look(w)
      PROVE  TInv'
  <2>1. pc[w] \in Inviting
    BY <1>9 DEF Look, Inviting, Locking
  <2>2. Workers'
    <3>1. CASE Resume(w)
      BY <1>9, <3>1, <2>1, <1>d DEF Look, managerVars
    <3>2. CASE ~Resume(w)
      BY <1>9, <3>2, <2>1, <1>e DEF Look, managerVars, Inviting, Locking
    <3> QED  BY <3>1, <3>2
  <2> QED  BY <1>9, <2>2 DEF Look, TypeOK, managerVars, roomVars, clientVars, Created
<1>10. ASSUME NEW w \in Worker, AppendInvite(w)
       PROVE  TInv'
  <2>1. pc[w] \in Inviting /\ room[w] \in Room
    BY <1>10, <1>a DEF AppendInvite, Busy, Inviting, Locking
  <2>2. Workers'
    BY <1>10, <2>1, <1>d DEF AppendInvite
  <2>3. /\ DOMAIN offline_invites' \subseteq User
        /\ \A u \in DOMAIN offline_invites' : offline_invites'[u] \subseteq Room
    BY <1>10, <2>1 DEF AppendInvite, TypeOK
  <2> QED  BY <1>10, <2>2, <2>3 DEF AppendInvite, TypeOK, roomVars, clientVars, Created
<1>11. ASSUME NEW w \in Worker, AppendToPopped(w)
       PROVE  TInv'
  <2>1. pc[w] \in Inviting
    BY <1>11 DEF AppendToPopped, Inviting, Locking
  <2>2. Workers'
    BY <1>11, <2>1, <1>d DEF AppendToPopped, managerVars
  <2>3. untold' \subseteq User \X Room
    BY <1>11 DEF AppendToPopped, TypeOK
  <2> QED  BY <1>11, <2>2, <2>3 DEF AppendToPopped, TypeOK, managerVars, roomVars, Created
<1>12. ASSUME NEW w \in Worker, SendInvite(w)
       PROVE  TInv'
  <2>1. pc[w] \in Inviting /\ UNCHANGED <<next_chat_id>>
    BY <1>12 DEF SendInvite, Inviting, managerVars
  <2>2. Workers' /\ untold' \subseteq User \X Room
    <3>1. CASE target[w] \in online
      BY <1>12, <3>1, <2>1, <1>c DEF SendInvite, TypeOK
    <3>2. CASE target[w] \notin online
      BY <1>12, <3>2, <2>1, <1>e DEF SendInvite, TypeOK, Inviting
    <3> QED  BY <3>1, <3>2
  <2> QED  BY <1>12, <2>2 DEF SendInvite, TypeOK, managerVars, roomVars, Created
<1>13. ASSUME NEW w \in Worker, SendPendingInvites(w)
       PROVE  TInv'
  <2>1. pc[w] = "pending" /\ user[w] \in User
    BY <1>13 DEF SendPendingInvites, Busy
  <2>2. /\ pc' = [x \in Worker |-> IF x = w THEN "idle" ELSE Popped(x, user[w])]
        /\ user' = [user EXCEPT ![w] = NoUser]
        /\ UNCHANGED <<next_chat_id, target, room>>
    BY <1>13 DEF SendPendingInvites
  <2>3. ASSUME NEW x \in Worker, x # w
        PROVE  /\ pc'[x] \in Label
               /\ pc'[x] = pc[x] \/ (pc[x] \in Inviting /\ pc'[x] \in Inviting)
               /\ user'[x] = user[x]
    <3>1. pc'[x] = Popped(x, user[w]) /\ user'[x] = user[x] /\ pc[x] \in Label
      BY <2>2, <2>3 DEF TypeOK
    <3>2. {"append", "append_again", "popped", "popped_again"} \subseteq Inviting \intersect Label
      BY DEF Inviting, Locking, Label
    <3> QED  BY <3>1, <3>2 DEF Popped
  <2>4. pc' \in [Worker -> Label]
    BY <2>2, <2>3 DEF Label, TypeOK
  <2>5. Busy'
    <3> SUFFICES ASSUME NEW x \in Worker
                 PROVE  /\ pc'[x] \in {"enter", "pending"} => user'[x] \in User
                        /\ pc'[x] \in Inviting \union {"enter", "tell", "remove"}
                              => room'[x] \in Created'
                        /\ pc'[x] \in Inviting => target'[x] \in User
      BY DEF Busy
    <3>1. CASE x = w
      BY <2>2, <3>1 DEF Inviting, Locking
    <3>2. CASE x # w
      <4>1. {"enter", "pending"} \intersect Inviting = {}
        BY DEF Inviting, Locking
      <4> QED  BY <2>2, <2>3, <3>2, <4>1 DEF Busy, Created
    <3> QED  BY <3>1, <3>2
  <2>6. /\ DOMAIN offline_invites' \subseteq User
        /\ \A u \in DOMAIN offline_invites' : offline_invites'[u] \subseteq Room
        /\ untold' \subseteq User \X Room
    <3> DEFINE u == user[w]
               list == IF u \in DOMAIN offline_invites THEN offline_invites[u] ELSE {}
               pending == list \intersect chatrooms
               others == DOMAIN offline_invites \ {u}
    <3>1. pending \subseteq Room
      BY DEF TypeOK
    <3>2. CASE u \in online \/ pending = {}
      BY <1>13, <2>1, <3>1, <3>2 DEF SendPendingInvites, TypeOK
    <3>3. CASE ~(u \in online \/ pending = {})
      BY <1>13, <2>1, <3>1, <3>3 DEF SendPendingInvites, TypeOK
    <3> QED  BY <3>2, <3>3
  <2>7. user' \in [Worker -> User \union {NoUser}]
    BY <2>2 DEF TypeOK
  <2> QED
    BY <1>13, <2>2, <2>4, <2>5, <2>6, <2>7 DEF SendPendingInvites, TypeOK, roomVars, Created
<1>14. ASSUME NEW u \in User, Disconnect(u)
       PROVE  TInv'
  <2>1. Workers'
    BY <1>14, <1>f DEF Disconnect, managerVars
  <2> QED  BY <1>14, <2>1 DEF Disconnect, TypeOK, managerVars, roomVars, Created
<1>15. ASSUME NEW u \in User, NEW r \in Created, Join(u, r)
       PROVE  TInv'
  <2>1. Workers'
    BY <1>15, <1>f DEF Join, managerVars
  <2>2. /\ permissions' \in [Room -> [User -> {"none", "member", "owner"}]]
        /\ pending_invites' \in [Room -> SUBSET User]
        /\ UNCHANGED <<owner_id, banned_users, locked, unjoinable>>
    BY <1>15, <1>a, EnterTypes DEF Join
  <2> QED  BY <1>15, <2>1, <2>2 DEF Join, TypeOK, managerVars, clientVars, Created
<1>16. ASSUME NEW u \in User, NEW r \in Created, NEW t \in User,
              Kick(u, r, t) \/ Ban(u, r, t) \/ UnBan(u, r, t) \/ SetOwner(u, r, t)
       PROVE  TInv'
  <2>1. UNCHANGED <<managerVars, clientVars, workerVars, locked, unjoinable>>
    BY <1>16 DEF Kick, Ban, UnBan, SetOwner
  <2>2. Workers'
    BY <2>1, <1>f DEF managerVars
  <2>3. /\ owner_id' \in [Room -> User \union {NoUser}]
        /\ banned_users' \in [Room -> SUBSET User]
        /\ pending_invites' \in [Room -> SUBSET User]
    BY <1>16, <1>a DEF Kick, Ban, UnBan, SetOwner, TypeOK
  <2>4. permissions' \in [Room -> [User -> {"none", "member", "owner"}]]
    <3>1. CASE Kick(u, r, t) \/ Ban(u, r, t)
      <4> DEFINE row == [permissions[r] EXCEPT ![t] = "none"]
      <4>1. permissions' = [permissions EXCEPT ![r] = row]
        BY <3>1 DEF Kick, Ban
      <4>2. row \in [User -> {"none", "member", "owner"}]
        BY <1>a DEF TypeOK
      <4> QED  BY <4>1, <4>2 DEF TypeOK
    <3>2. CASE UnBan(u, r, t)
      BY <3>2 DEF UnBan, TypeOK
    <3>3. CASE SetOwner(u, r, t)
      <4> DEFINE row == [permissions[r] EXCEPT ![u] = "member", ![t] = "owner"]
      <4>1. permissions' = [permissions EXCEPT ![r] = row]
        BY <3>3 DEF SetOwner
      <4>2. row \in [User -> {"none", "member", "owner"}]
        BY <1>a DEF TypeOK
      <4> QED  BY <4>1, <4>2 DEF TypeOK
    <3> QED  BY <1>16, <3>1, <3>2, <3>3
  <2> QED  BY <2>1, <2>2, <2>3, <2>4 DEF TypeOK, managerVars, clientVars, Created
<1>17. ASSUME NEW u \in User, NEW r \in Created, NEW b \in BOOLEAN,
              SetLocked(u, r, b) \/ SetJoinable(u, r, b)
       PROVE  TInv'
  <2>1. /\ UNCHANGED <<managerVars, clientVars, workerVars, owner_id, permissions,
                       banned_users, pending_invites>>
        /\ locked' \in [Room -> BOOLEAN] /\ unjoinable' \in [Room -> BOOLEAN]
    BY <1>17 DEF SetLocked, SetJoinable, TypeOK
  <2>2. Workers'
    BY <2>1, <1>f DEF managerVars
  <2> QED  BY <2>1, <2>2 DEF TypeOK, managerVars, clientVars, Created
<1>18. CASE UNCHANGED vars
  BY <1>18 DEF vars, managerVars, roomVars, clientVars, workerVars, TypeOK, Busy, Created
<1> HIDE DEF TInv
<1> QED
  BY <1>1, <1>2, <1>3, <1>4, <1>5, <1>6, <1>7, <1>8, <1>9, <1>10, <1>11, <1>12, <1>13,
     <1>14, <1>15, <1>16, <1>17, <1>18 DEF Next

(* The types of Chatroom hold always.                                       *)
THEOREM TypeCorrect == Spec => []TypeOK
<1>1. TInv /\ [Next]_vars => TInv'
  BY NextTInv
<1>2. TInv => TypeOK
  BY DEF TInv
<1> QED  BY InitTInv, <1>1, <1>2, PTL DEF Spec

-----------------------------------------------------------------------------
(* Bans, invitations and the owner.                                        *)

\* Before a room is created nobody is in it.
LEMMA InitRInv == Init => RInv
  BY DEF Init, RInv, Fresh, BannedStayOut, InvitationsAreSpent, OwnersPermissions, Members

\* What leaves the rooms alone leaves RInv.
LEMMA RoomsUnchanged ==
    ASSUME RInv, UNCHANGED <<next_chat_id, roomVars>>
    PROVE  RInv'
  BY DEF RInv, Fresh, BannedStayOut, InvitationsAreSpent, OwnersPermissions, Members, roomVars

\* Entering, by the creator or by who joins.
LEMMA EnterRInv ==
    ASSUME TypeOK, RInv, NEW r \in Created, NEW u \in User, Enter(r, u),
           UNCHANGED next_chat_id
    PROVE  RInv'
<1>1. r \in Room /\ ~(r >= next_chat_id)
  BY CreatedRooms DEF Created
<1>2. CASE u \notin Members(r) /\ Admits(r, u)
  <2> DEFINE p == IF u = owner_id[r] THEN "owner" ELSE "member"
             row == [permissions[r] EXCEPT ![u] = p]
  <2>1. /\ permissions' = [permissions EXCEPT ![r] = row]
        /\ pending_invites' = [pending_invites EXCEPT ![r] = @ \ {u}]
        /\ UNCHANGED <<owner_id, banned_users, locked, unjoinable, next_chat_id>>
    BY <1>2 DEF Enter
  <2>2. u \notin banned_users[r]
    BY <1>1, <1>2 DEF Admits, RInv, BannedStayOut
  <2>3. /\ \A s \in Room \ {r} : permissions'[s] = permissions[s]
        /\ \A v \in User \ {u} : permissions'[r][v] = permissions[r][v]
        /\ permissions'[r][u] = p
    BY <2>1, <1>1 DEF TypeOK
  <2>4. /\ \A s \in Room \ {r} : pending_invites'[s] = pending_invites[s]
        /\ pending_invites'[r] = pending_invites[r] \ {u}
    BY <2>1, <1>1 DEF TypeOK
  <2>5. Fresh'
    BY <1>1, <2>1, <2>3, <2>4 DEF RInv, Fresh
  <2>6. BannedStayOut'
    BY <1>1, <2>1, <2>2, <2>3, <2>4 DEF RInv, BannedStayOut, Members
  <2>7. InvitationsAreSpent'
    BY <1>1, <2>3, <2>4 DEF RInv, InvitationsAreSpent, Members
  <2>8. OwnersPermissions'
    BY <1>1, <2>1, <2>3 DEF RInv, OwnersPermissions, Members
  <2> QED  BY <2>5, <2>6, <2>7, <2>8 DEF RInv
<1>3. CASE ~(u \notin Members(r) /\ Admits(r, u))
  BY <1>3, RoomsUnchanged DEF Enter, roomVars
<1> QED  BY <1>2, <1>3

\* Only the creation, the entries and the actions of members touch a room.
LEMMA NextRInv ==
    ASSUME TInv, RInv, [Next]_vars
    PROVE  RInv'
<1>a. TypeOK
  BY DEF TInv
<1>b. \A r \in Created : r \in Room /\ ~(r >= next_chat_id)
  BY <1>a, CreatedRooms DEF Created
<1>1. ASSUME NEW w \in Worker, NEW u \in User, NEW t \in User \union {NoUser},
             NEW lock \in BOOLEAN, Create(w, u, t, lock)
      PROVE  RInv'
  <2> DEFINE r == next_chat_id
  <2>1. /\ r \in Room /\ r \in Nat /\ next_chat_id' = r + 1
        /\ owner_id' = [owner_id EXCEPT ![r] = u]
        /\ UNCHANGED <<permissions, banned_users, pending_invites>>
    BY <1>1, <1>a, CreatedRooms DEF Create
  <2>2. /\ \A v \in User : permissions[r][v] = "none"
        /\ banned_users[r] = {} /\ pending_invites[r] = {}
    BY <2>1 DEF RInv, Fresh
  <2>3. /\ \A s \in Room \ {r} : owner_id'[s] = owner_id[s]
        /\ owner_id'[r] = u
    BY <2>1, <1>a DEF TypeOK
  <2>4. Fresh'
    BY <2>1, ChatroomAssumption DEF RInv, Fresh, Room
  <2>5. BannedStayOut'
    BY <2>1, <2>2, <2>3 DEF RInv, BannedStayOut, Members
  <2>6. InvitationsAreSpent'
    BY <2>1 DEF RInv, InvitationsAreSpent, Members
  <2>7. OwnersPermissions'
    BY <2>1, <2>2, <2>3 DEF RInv, OwnersPermissions, Members
  <2> QED  BY <2>4, <2>5, <2>6, <2>7 DEF RInv
<1>2. ASSUME NEW w \in Worker, EnterCreated(w)
      PROVE  RInv'
  <2>1. room[w] \in Created /\ user[w] \in User
    BY <1>2 DEF EnterCreated, TInv, Busy
  <2> QED  BY <1>2, <1>a, <2>1, EnterRInv DEF EnterCreated, managerVars
<1>3. ASSUME NEW u \in User, NEW r \in Created, Join(u, r)
      PROVE  RInv'
  BY <1>3, <1>a, EnterRInv DEF Join, managerVars
<1>4. ASSUME NEW u \in User, NEW r \in Created, NEW t \in User, Kick(u, r, t)
      PROVE  RInv'
  <2> DEFINE row == [permissions[r] EXCEPT ![t] = "none"]
  <2>1. /\ permissions' = [permissions EXCEPT ![r] = row]
        /\ UNCHANGED <<next_chat_id, owner_id, banned_users, pending_invites>>
    BY <1>4 DEF Kick, managerVars
  <2>2. /\ \A s \in Room \ {r} : permissions'[s] = permissions[s]
        /\ \A v \in User \ {t} : permissions'[r][v] = permissions[r][v]
        /\ permissions'[r][t] = "none"
    BY <2>1, <1>a, <1>b DEF TypeOK
  <2> QED
    BY <1>b, <2>1, <2>2
       DEF RInv, Fresh, BannedStayOut, InvitationsAreSpent, OwnersPermissions, Members
<1>5. ASSUME NEW u \in User, NEW r \in Created, NEW t \in User, Ban(u, r, t)
      PROVE  RInv'
  <2> DEFINE row == [permissions[r] EXCEPT ![t] = "none"]
  <2>1. /\ permissions' = [permissions EXCEPT ![r] = row]
        /\ banned_users' = [banned_users EXCEPT ![r] = @ \union {t}]
        /\ pending_invites' = [pending_invites EXCEPT ![r] = @ \ {t}]
        /\ t # owner_id[r]
        /\ UNCHANGED <<next_chat_id, owner_id>>
    BY <1>5 DEF Ban, managerVars
  <2>2. /\ \A s \in Room \ {r} : permissions'[s] = permissions[s]
        /\ \A v \in User \ {t} : permissions'[r][v] = permissions[r][v]
        /\ permissions'[r][t] = "none"
    BY <2>1, <1>a, <1>b DEF TypeOK
  <2>3. /\ \A s \in Room \ {r} : /\ banned_users'[s] = banned_users[s]
                                  /\ pending_invites'[s] = pending_invites[s]
        /\ banned_users'[r] = banned_users[r] \union {t}
        /\ pending_invites'[r] = pending_invites[r] \ {t}
    BY <2>1, <1>a, <1>b DEF TypeOK
  <2>4. Fresh'
    BY <1>b, <2>1, <2>2, <2>3 DEF RInv, Fresh
  <2>5. BannedStayOut'
    BY <1>b, <2>1, <2>2, <2>3 DEF RInv, BannedStayOut, Members
  <2>6. InvitationsAreSpent'
    BY <1>b, <2>2, <2>3 DEF RInv, InvitationsAreSpent, Members
  <2>7. OwnersPermissions'
    BY <1>b, <2>1, <2>2 DEF RInv, OwnersPermissions, Members
  <2> QED  BY <2>4, <2>5, <2>6, <2>7 DEF RInv
<1>6. ASSUME NEW u \in User, NEW r \in Created, NEW t \in User, UnBan(u, r, t)
      PROVE  RInv'
  <2>1. /\ UNCHANGED <<next_chat_id, owner_id, permissions, pending_invites>>
        /\ \A s \in Room \ {r} : banned_users'[s] = banned_users[s]
        /\ banned_users'[r] = banned_users[r] \ {t}
    BY <1>6, <1>a, <1>b DEF UnBan, managerVars, TypeOK
  <2> QED
    BY <1>b, <2>1
       DEF RInv, Fresh, BannedStayOut, InvitationsAreSpent, OwnersPermissions, Members
<1>7. ASSUME NEW u \in User, NEW r \in Created, NEW t \in User, SetOwner(u, r, t)
      PROVE  RInv'
  <2> DEFINE row == [permissions[r] EXCEPT ![u] = "member", ![t] = "owner"]
  <2>1. /\ permissions' = [permissions EXCEPT ![r] = row]
        /\ owner_id' = [owner_id EXCEPT ![r] = t]
        /\ u = owner_id[r] /\ u \in Members(r) /\ t \in Members(r)
        /\ UNCHANGED <<next_chat_id, banned_users, pending_invites>>
    BY <1>7 DEF SetOwner, Actor, managerVars
  <2>2. /\ \A s \in Room \ {r} : /\ permissions'[s] = permissions[s]
                                  /\ owner_id'[s] = owner_id[s]
        /\ \A v \in User \ {u, t} : permissions'[r][v] = permissions[r][v]
        /\ u # t => permissions'[r][u] = "member"
        /\ permissions'[r][t] = "owner"
        /\ owner_id'[r] = t
    BY <2>1, <1>a, <1>b DEF TypeOK
  <2>3. Fresh'
    BY <1>b, <2>1, <2>2 DEF RInv, Fresh
  <2>4. \A s \in Room : Members(s)' = Members(s)
    <3>1. /\ Members(r) \subseteq User /\ permissions[r][u] # "none" /\ permissions[r][t] # "none"
      BY <2>1 DEF Members
    <3>2. \A v \in User : permissions'[r][v] # "none" <=> permissions[r][v] # "none"
      BY <2>2, <3>1
    <3> QED  BY <2>2, <3>2 DEF Members
  <2>5. BannedStayOut' /\ InvitationsAreSpent'
    <3> SUFFICES ASSUME NEW s \in Room
                 PROVE  /\ banned_users'[s] \intersect
                           (Members(s)' \union pending_invites'[s] \union {owner_id'[s]}) = {}
                        /\ pending_invites'[s] \intersect Members(s)' = {}
      BY DEF BannedStayOut, InvitationsAreSpent
    <3>1. /\ banned_users[s] \intersect (Members(s) \union pending_invites[s]) = {}
          /\ pending_invites[s] \intersect Members(s) = {}
          /\ banned_users[s] \intersect {owner_id[s]} = {}
      BY DEF RInv, BannedStayOut, InvitationsAreSpent
    <3>2. owner_id'[s] \in Members(s) \/ owner_id'[s] = owner_id[s]
      BY <2>1, <2>2
    <3> QED  BY <2>1, <2>4, <3>1, <3>2
  <2>6. OwnersPermissions'
    <3> SUFFICES ASSUME NEW s \in Room, NEW v \in Members(s)
                 PROVE  permissions'[s][v] = "owner" <=> owner_id'[s] = v
      BY <2>4 DEF OwnersPermissions
    <3>1. v \in User /\ (permissions[s][v] = "owner" <=> owner_id[s] = v)
      BY DEF RInv, OwnersPermissions, Members
    <3>2. CASE s # r
      BY <2>2, <3>1, <3>2
    <3>3. CASE s = r
      <4>1. CASE v \in {u, t}
        BY <2>2, <3>3, <4>1
      <4>2. CASE v \notin {u, t}
        BY <2>1, <2>2, <3>1, <3>3, <4>2
      <4> QED  BY <4>1, <4>2
    <3> QED  BY <3>2, <3>3
  <2> QED  BY <2>3, <2>5, <2>6 DEF RInv
<1>8. ASSUME NEW w \in Worker, NEW u \in User, NEW r \in chatrooms, NEW t \in User,
             Invite(w, u, r, t)
      PROVE  RInv'
  <2>1. r \in Created
    BY DEF TInv
  <2>2. /\ UNCHANGED <<next_chat_id, owner_id, permissions, banned_users>>
        /\ t \notin banned_users[r] \union Members(r)
        /\ \A s \in Room \ {r} : pending_invites'[s] = pending_invites[s]
        /\ pending_invites'[r] = pending_invites[r] \union {t}
    BY <1>8, <2>1, <1>a, <1>b DEF Invite, MayInvite, managerVars, TypeOK
  <2> QED
    BY <1>b, <2>1, <2>2
       DEF RInv, Fresh, BannedStayOut, InvitationsAreSpent, OwnersPermissions, Members
<1>9. ASSUME NEW u \in User, NEW r \in Created, NEW b \in BOOLEAN,
             SetLocked(u, r, b) \/ SetJoinable(u, r, b)
      PROVE  RInv'
  BY <1>9 DEF SetLocked, SetJoinable, managerVars,
              RInv, Fresh, BannedStayOut, InvitationsAreSpent, OwnersPermissions, Members
<1>10. ASSUME NEW w \in Worker, NEW u \in User,
              (\E r \in chatrooms : Close(w, u, r)) \/ Login(w, u)
       PROVE  RInv'
  BY <1>10, RoomsUnchanged DEF Close, Login, managerVars
<1>11. ASSUME NEW w \in Worker,
              \/ TellCreated(w) \/ RemoveChatroom(w) \/ Persist(w) \/ Look(w)
              \/ AppendInvite(w) \/ AppendToPopped(w) \/ SendInvite(w)
              \/ SendPendingInvites(w)
       PROVE  RInv'
  BY <1>11, RoomsUnchanged
     DEF TellCreated, RemoveChatroom, Persist, Look, AppendInvite, AppendToPopped,
         SendInvite, SendPendingInvites, managerVars
<1>12. ASSUME NEW u \in User, Disconnect(u)
       PROVE  RInv'
  BY <1>12, RoomsUnchanged DEF Disconnect, managerVars
<1>13. CASE UNCHANGED vars
  BY <1>13, RoomsUnchanged DEF vars, managerVars
<1> QED
  BY <1>1, <1>2, <1>3, <1>4, <1>5, <1>6, <1>7, <1>8, <1>9, <1>10, <1>11, <1>12, <1>13
     DEF Next

\* The inductive invariant holds always.
LEMMA IInvInductive == Spec => []IInv
<1>1. Init => IInv
  BY InitTInv, InitRInv DEF IInv
<1>2. IInv /\ [Next]_vars => IInv'
  BY NextTInv, NextRInv DEF IInv
<1> QED  BY <1>1, <1>2, PTL DEF Spec

(* Nobody gets past a ban, whatever the order of bans, invitations, entries *)
(* and transfers of the room.                                               *)
THEOREM BannedAreOut == Spec => []BannedStayOut
  <1>1. IInv => BannedStayOut
    BY DEF IInv, RInv
  <1> QED  BY IInvInductive, <1>1, PTL

(* No member has an invitation left to come back with.                      *)
THEOREM InvitationsSpent == Spec => []InvitationsAreSpent
  <1>1. IInv => InvitationsAreSpent
    BY DEF IInv, RInv
  <1> QED  BY IInvInductive, <1>1, PTL

(* The permissions of an owner are with the owner of the room alone.        *)
THEOREM OwnersAlone == Spec => []OwnersPermissions
  <1>1. IInv => OwnersPermissions
    BY DEF IInv, RInv
  <1> QED  BY IInvInductive, <1>1, PTL
-----------------------------------------------------------------------------
(* Invitations reach who logs in.                                          *)

\* The user's first login has not taken his list yet.
Ready(u) ==
    \/ logins[u] = 0
    \/ logins[u] = 1 /\ \E w \in Worker : pc[w] = "pending" /\ user[w] = u

Filed(u, r) == u \in DOMAIN offline_invites /\ r \in offline_invites[u]

\* A handler has the invitation and is at one of the labels.
Brings(w, u, r, labels) == target[w] = u /\ room[w] = r /\ pc[w] \in labels

Unfiled == {"persist", "look", "append"}
Undecided == Unfiled \union {"popped", "send"}

\* Of the first login there is one handler.
FirstLogin ==
    /\ \A u \in online : logins[u] >= 1
    /\ \A w \in Worker : pc[w] = "pending" => logins[user[w]] >= 1
    /\ \A w, x \in Worker :
          pc[w] = "pending" /\ pc[x] = "pending" /\ user[w] = user[x] /\ logins[user[w]] = 1
              => w = x

\* As long as the list was not taken, an invitation is in it before it is sent.
FiledBefore(w) ==
    pc[w] \in Inviting /\ Ready(target[w]) =>
        /\ pc[w] \notin {"popped", "popped_again", "append_again"}
        /\ pc[w] \in {"look", "append"} => target[w] \in DOMAIN offline_invites
        /\ pc[w] \in {"send", "persist_again", "look_again"} => Filed(target[w], room[w])

FiledFirst == \A w \in Worker : FiledBefore(w)

\* What has not been sent is in the list or in a handler that will file or send it.
OnTheWay ==
    \A u \in User, r \in Room : <<u, r>> \in untold =>
        /\ r \in Created
        /\ Ready(u) => Filed(u, r) \/ \E w \in Worker : Brings(w, u, r, Unfiled)
        /\ r \in chatrooms /\ ~ Ready(u) /\ logins[u] = 1 /\ u \in online
              => \E w \in Worker : Brings(w, u, r, Undecided)

DInv == TInv /\ FirstLogin /\ FiledFirst /\ OnTheWay

\* Nobody is invited at the start.
LEMMA InitDelivery == Init => FirstLogin /\ FiledFirst /\ OnTheWay
  BY DEF Init, FirstLogin, FiledFirst, FiledBefore, OnTheWay, Inviting, Locking

\* A worker that serves another handler.
OthersStay(w) ==
    \A x \in Worker \ {w} : /\ pc'[x] = pc[x] /\ user'[x] = user[x]
                            /\ target'[x] = target[x] /\ room'[x] = room[x]

\* What neither invites nor logs in takes no invitation away.
LEMMA Aside ==
    ASSUME DInv, NEW w \in Worker, OthersStay(w),
           pc[w] \notin Inviting \union {"pending"}, pc'[w] \notin Inviting \union {"pending"},
           UNCHANGED <<offline_invites, online, logins>>, untold' \subseteq untold,
           Created \subseteq Created', chatrooms' \intersect Created \subseteq chatrooms
    PROVE  FirstLogin' /\ FiledFirst' /\ OnTheWay'
<1>1. \A u : Ready(u)' <=> Ready(u)
  BY DEF OthersStay, Ready
<1>2. \A u, r : Filed(u, r)' <=> Filed(u, r)
  BY DEF Filed
<1>3. Undecided \subseteq Inviting /\ Unfiled \subseteq Inviting
  BY DEF Undecided, Unfiled, Inviting, Locking
<1>4. FirstLogin'
  BY DEF DInv, FirstLogin, OthersStay
<1>5. FiledFirst'
  <2>1. ASSUME NEW x \in Worker, pc'[x] \in Inviting
        PROVE  FiledBefore(x)'
    <3>1. pc'[x] = pc[x] /\ target'[x] = target[x] /\ room'[x] = room[x]
      BY <2>1 DEF OthersStay
    <3>2. Ready(target[x])' => Ready(target[x])
      BY <1>1, <3>1 DEF Ready
    <3> QED  BY <3>1, <3>2 DEF DInv, FiledFirst, FiledBefore, Filed
  <2> QED  BY <2>1 DEF FiledFirst, FiledBefore
<1>6. \A x \in Worker, u \in User, r \in Room :
          /\ Brings(x, u, r, Unfiled) => Brings(x, u, r, Unfiled)'
          /\ Brings(x, u, r, Undecided) => Brings(x, u, r, Undecided)'
  BY <1>3 DEF Brings, OthersStay
<1>7. OnTheWay'
  BY <1>1, <1>2, <1>6 DEF DInv, OnTheWay
<1> QED  BY <1>4, <1>5, <1>7

\* A handler of an invitation goes on: it files or sends what it stops bringing.
LEMMA Advance ==
    ASSUME DInv, NEW w \in Worker, OthersStay(w), NEW u \in User, NEW r \in Room,
           pc[w] \in Inviting, target[w] = u, room[w] = r,
           pc'[w] \in Inviting \union {"idle"},
           pc'[w] \in Inviting => target'[w] = u /\ room'[w] = r,
           UNCHANGED <<online, logins, chatrooms, next_chat_id>>, untold' \subseteq untold,
           \A v, s : Filed(v, s) => Filed(v, s)',
           DOMAIN offline_invites \subseteq DOMAIN offline_invites',
           Ready(u) =>
               /\ pc'[w] \notin {"popped", "popped_again", "append_again"}
               /\ pc'[w] \in {"look", "append"} => u \in DOMAIN offline_invites'
               /\ pc'[w] \in {"send", "persist_again", "look_again"} => Filed(u, r)'
               /\ pc[w] \in Unfiled => pc'[w] \in Unfiled \/ Filed(u, r)',
           ~ Ready(u) /\ u \in online /\ pc[w] \in Undecided =>
               pc'[w] \in Undecided \/ <<u, r>> \notin untold'
    PROVE  FirstLogin' /\ FiledFirst' /\ OnTheWay'
<1>1. "pending" \notin Inviting /\ Undecided \subseteq Inviting /\ Unfiled \subseteq Inviting
  BY DEF Undecided, Unfiled, Inviting, Locking
<1>2. \A v : Ready(v)' <=> Ready(v)
  BY <1>1 DEF OthersStay, Ready
<1>3. FirstLogin'
  BY <1>1 DEF DInv, FirstLogin, OthersStay
<1>4. FiledFirst'
  <2>1. ASSUME NEW x \in Worker, x # w
        PROVE  FiledBefore(x)'
    <3>1. pc'[x] = pc[x] /\ target'[x] = target[x] /\ room'[x] = room[x]
      BY <2>1 DEF OthersStay
    <3>2. FiledBefore(x)
      BY DEF DInv, FiledFirst
    <3>3. Filed(target[x], room[x]) => room'[x] \in offline_invites'[target'[x]]
                                       /\ target'[x] \in DOMAIN offline_invites'
      BY <3>1 DEF Filed
    <3>4. Ready(target[x])' => Ready(target[x])
      BY <1>2, <3>1 DEF Ready
    <3> QED  BY <3>1, <3>2, <3>3, <3>4 DEF FiledBefore, Filed
  <2>2. FiledBefore(w)'
    <3>1. Ready(target[w])' /\ pc'[w] \in Inviting => Ready(u)
      BY <1>2 DEF Ready
    <3> QED  BY <3>1 DEF FiledBefore, Filed
  <2> QED  BY <2>1, <2>2 DEF FiledFirst
<1>5. OnTheWay'
  <2> SUFFICES ASSUME NEW v \in User, NEW s \in Room, <<v, s>> \in untold'
               PROVE  /\ s \in Created'
                      /\ Ready(v) => Filed(v, s)' \/ \E x \in Worker : Brings(x, v, s, Unfiled)'
                      /\ s \in chatrooms /\ ~ Ready(v) /\ logins[v] = 1 /\ v \in online
                            => \E x \in Worker : Brings(x, v, s, Undecided)'
    BY <1>2 DEF OnTheWay
  <2>1. s \in Created'
    BY DEF DInv, OnTheWay, Created
  <2>2. ASSUME NEW x \in Worker, x # w, NEW labels, Brings(x, v, s, labels)
        PROVE  Brings(x, v, s, labels)'
    BY <2>2 DEF Brings, OthersStay
  <2>3. ASSUME Ready(v)
        PROVE  Filed(v, s)' \/ \E x \in Worker : Brings(x, v, s, Unfiled)'
    <3>1. CASE Filed(v, s)
      BY <3>1
    <3>2. ASSUME NEW x \in Worker, Brings(x, v, s, Unfiled)
          PROVE  Filed(v, s)' \/ \E y \in Worker : Brings(y, v, s, Unfiled)'
      <4>1. CASE x # w
        BY <2>2, <3>2, <4>1
      <4>2. CASE x = w
        BY <1>1, <2>3, <3>2, <4>2 DEF Brings
      <4> QED  BY <4>1, <4>2
    <3> QED  BY <2>3, <3>1, <3>2 DEF DInv, OnTheWay
  <2>4. ASSUME s \in chatrooms, ~ Ready(v), logins[v] = 1, v \in online
        PROVE  \E x \in Worker : Brings(x, v, s, Undecided)'
    <3>1. PICK x \in Worker : Brings(x, v, s, Undecided)
      BY <2>4 DEF DInv, OnTheWay
    <3>2. CASE x # w
      BY <2>2, <3>1, <3>2
    <3>3. CASE x = w
      BY <1>1, <2>4, <3>1, <3>3 DEF Brings
    <3> QED  BY <3>2, <3>3
  <2> QED  BY <2>1, <2>3, <2>4
<1> QED  BY <1>3, <1>4, <1>5

\* Handlers of rooms.
LEMMA RoomsDelivery ==
    ASSUME DInv, NEW w \in Worker,
           \/ \E u \in User, t \in User \union {NoUser}, lock \in BOOLEAN :
                 Create(w, u, t, lock)
           \/ \E u \in User, r \in chatrooms : Close(w, u, r)
           \/ EnterCreated(w) \/ TellCreated(w) \/ RemoveChatroom(w)
    PROVE  FirstLogin' /\ FiledFirst' /\ OnTheWay'
<1>1. /\ TypeOK /\ next_chat_id \in Nat /\ chatrooms \subseteq Created
  BY CreatedRooms DEF DInv, TInv
<1>2. OthersStay(w) /\ pc[w] \in {"idle", "enter", "tell", "remove"}
  BY <1>1
     DEF OthersStay, TypeOK, Create, Close, EnterCreated, TellCreated, RemoveChatroom, Begin,
         Finish, Goto
<1>3. pc'[w] \in {"idle", "enter", "tell", "remove"}
  BY <1>1
     DEF TypeOK, Create, Close, EnterCreated, TellCreated, RemoveChatroom, Begin, Finish, Goto
<1>4. /\ UNCHANGED <<offline_invites, online, logins>>
      /\ untold' \subseteq untold
  BY DEF Create, Close, EnterCreated, TellCreated, RemoveChatroom, managerVars, clientVars
<1>5. next_chat_id' \in {next_chat_id, next_chat_id + 1}
  BY DEF Create, Close, EnterCreated, TellCreated, RemoveChatroom, managerVars
<1>6. chatrooms' \subseteq chatrooms \union {next_chat_id}
  BY DEF Create, Close, EnterCreated, TellCreated, RemoveChatroom, managerVars
<1>7. Created \subseteq Created' /\ next_chat_id \notin Created
  <2>1. next_chat_id \notin Created
    BY <1>1 DEF Created
  <2>2. \A m, n \in Nat : m <= n => 1..(m - 1) \subseteq 1..(n - 1)
    OBVIOUS
  <2>3. next_chat_id' \in Nat /\ next_chat_id <= next_chat_id'
    BY <1>1, <1>5
  <2> QED  BY <1>1, <2>1, <2>2, <2>3 DEF Created
<1>8. {"idle", "enter", "tell", "remove"} \intersect (Inviting \union {"pending"}) = {}
  BY DEF Inviting, Locking
<1> QED  BY <1>2, <1>3, <1>4, <1>6, <1>7, <1>8, Aside

\* A new invitation is with its handler.
LEMMA InviteDelivery ==
    ASSUME DInv, NEW w \in Worker, NEW u \in User, NEW r \in chatrooms, NEW t \in User,
           Invite(w, u, r, t)
    PROVE  FirstLogin' /\ FiledFirst' /\ OnTheWay'
<1>1. /\ TypeOK /\ r \in Created /\ r \in Room
      /\ UNCHANGED <<next_chat_id, chatrooms, offline_invites, online, logins>>
  BY CreatedRooms DEF DInv, TInv, Invite, managerVars
<1>2. /\ pc[w] = "idle" /\ pc'[w] = "persist" /\ target'[w] = t /\ room'[w] = r
      /\ OthersStay(w)
  BY <1>1 DEF TypeOK, Invite, Begin, Goto, OthersStay
<1>3. untold' = untold \union {<<t, r>>}
  BY DEF Invite
<1>4. \A v : Ready(v)' <=> Ready(v)
  BY <1>1, <1>2 DEF Ready, OthersStay
<1>5. FirstLogin'
  BY <1>1, <1>2 DEF DInv, FirstLogin, OthersStay
<1>6. FiledFirst'
  <2>1. ASSUME NEW x \in Worker, x # w
        PROVE  FiledBefore(x)'
    <3>1. pc'[x] = pc[x] /\ target'[x] = target[x] /\ room'[x] = room[x]
      BY <1>2, <2>1 DEF OthersStay
    <3>2. Ready(target[x])' => Ready(target[x])
      BY <1>4, <3>1 DEF Ready
    <3> QED  BY <1>1, <3>1, <3>2 DEF DInv, FiledFirst, FiledBefore, Filed
  <2>2. FiledBefore(w)'
    BY <1>2 DEF FiledBefore
  <2> QED  BY <2>1, <2>2 DEF FiledFirst
<1>7. ASSUME NEW x \in Worker, NEW v, NEW s, NEW labels, "idle" \notin labels,
             Brings(x, v, s, labels)
      PROVE  Brings(x, v, s, labels)'
  BY <1>2, <1>7 DEF Brings, OthersStay
<1>8. "idle" \notin Unfiled /\ "idle" \notin Undecided
  BY DEF Unfiled, Undecided
<1>9. OnTheWay'
  <2> SUFFICES ASSUME NEW v \in User, NEW s \in Room, <<v, s>> \in untold'
               PROVE  /\ s \in Created'
                      /\ Ready(v) => Filed(v, s)' \/ \E x \in Worker : Brings(x, v, s, Unfiled)'
                      /\ s \in chatrooms /\ ~ Ready(v) /\ logins[v] = 1 /\ v \in online
                            => \E x \in Worker : Brings(x, v, s, Undecided)'
    BY <1>1, <1>4 DEF OnTheWay
  <2>1. CASE <<v, s>> = <<t, r>>
    <3>1. Brings(w, v, s, Unfiled)' /\ Brings(w, v, s, Undecided)' /\ s \in Created'
      BY <1>1, <1>2, <2>1 DEF Brings, Unfiled, Undecided, Created
    <3> QED  BY <3>1
  <2>2. CASE <<v, s>> \in untold
    <3>1. s \in Created' /\ (Filed(v, s) => Filed(v, s)')
      BY <1>1, <2>2 DEF DInv, OnTheWay, Filed, Created
    <3> QED  BY <1>7, <1>8, <2>2, <3>1 DEF DInv, OnTheWay
  <2> QED  BY <1>3, <2>1, <2>2
<1> QED  BY <1>5, <1>6, <1>9

\* The steps of _persist_invite and _send_invite_to_user.
LEMMA PersistDelivery ==
    ASSUME DInv, NEW w \in Worker,
           Persist(w) \/ Look(w) \/ AppendInvite(w) \/ AppendToPopped(w) \/ SendInvite(w)
    PROVE  FirstLogin' /\ FiledFirst' /\ OnTheWay'
<1>1. TypeOK /\ pc[w] \in Inviting
  BY DEF DInv, TInv, Persist, Look, AppendInvite, AppendToPopped, SendInvite, Inviting, Locking
<1>2. PICK u, r : u = target[w] /\ r = room[w]
  OBVIOUS
<1>3. u \in User /\ r \in Created /\ r \in Room
  BY <1>1, <1>2, CreatedRooms DEF DInv, TInv, Busy
<1>4. Finish(w) \/ (Goto(w, pc'[w]) /\ UNCHANGED <<user, target, room>>)
  BY <1>1
     DEF Persist, Look, AppendInvite, AppendToPopped, SendInvite, Resume, Goto, TypeOK
<1>5. OthersStay(w)
  BY <1>1, <1>4 DEF OthersStay, Finish, Goto, TypeOK
<1>6. /\ UNCHANGED <<online, logins, chatrooms, next_chat_id>>
      /\ untold' \subseteq untold
  BY DEF Persist, Look, AppendInvite, AppendToPopped, SendInvite, managerVars, clientVars
<1>7. /\ \A v, s : Filed(v, s) => Filed(v, s)'
      /\ DOMAIN offline_invites \subseteq DOMAIN offline_invites'
  <2>1. CASE Persist(w)
    BY <2>1 DEF Persist, Filed
  <2>2. CASE AppendInvite(w)
    BY <2>2 DEF AppendInvite, Filed
  <2>3. CASE Look(w) \/ AppendToPopped(w) \/ SendInvite(w)
    BY <2>3 DEF Look, AppendToPopped, SendInvite, managerVars, Filed
  <2> QED  BY <2>1, <2>2, <2>3
<1>8. Ready(u) => /\ pc[w] \notin {"popped", "popped_again", "append_again"}
                  /\ pc[w] \in {"look", "append"} => u \in DOMAIN offline_invites
                  /\ pc[w] \in {"send", "persist_again", "look_again"} => Filed(u, r)
  <2>1. FiledBefore(w)
    BY DEF DInv, FiledFirst
  <2> QED  BY <1>1, <1>2, <2>1 DEF FiledBefore
<1>i. \A p : /\ p \in {"persist", "look", "append", "popped", "send", "persist_again",
                      "look_again", "append_again", "popped_again"} => p \in Inviting
             /\ p = "idle" => p \notin Inviting
  BY DEF Inviting, Locking
<1> DEFINE Kept == pc'[w] = "idle" \/ (pc'[w] \in Inviting /\ target'[w] = u /\ room'[w] = r)
           Labels ==
               /\ pc'[w] \notin {"popped", "popped_again", "append_again"}
               /\ pc'[w] \in {"look", "append"} => u \in DOMAIN offline_invites'
               /\ pc'[w] \in {"send", "persist_again", "look_again"} => Filed(u, r)'
               /\ pc[w] \in Unfiled => pc'[w] \in Unfiled \/ Filed(u, r)'
           Sent == pc[w] \in Undecided => pc'[w] \in Undecided \/ <<u, r>> \notin untold'
<1>9. ASSUME Finish(w)
      PROVE  pc'[w] = "idle"
  BY <1>1, <1>9 DEF Finish, Goto, TypeOK
<1>10. ASSUME NEW label, Goto(w, label)
       PROVE  pc'[w] = label
  BY <1>1, <1>10 DEF Goto, TypeOK
<1>11. Filed(u, r) => Filed(u, r)'
  BY <1>7
<1>12. ASSUME Persist(w)
       PROVE  Kept /\ (Ready(u) => Labels) /\ Sent
  <2>1. /\ UNCHANGED <<target, room>>
        /\ \/ pc[w] = "persist" /\ pc'[w] = "look"
           \/ pc[w] = "persist_again" /\ pc'[w] = "look_again"
    BY <1>10, <1>12 DEF Persist
  <2>2. u \in DOMAIN offline_invites'
    BY <1>2, <1>12 DEF Persist
  <2>3. Kept
    BY <1>2, <1>i, <2>1
  <2>4. Ready(u) => Labels
    BY <1>8, <1>11, <2>1, <2>2 DEF Unfiled
  <2>5. Sent
    BY <2>1 DEF Undecided, Unfiled
  <2> QED  BY <2>3, <2>4, <2>5
<1>13. ASSUME Look(w)
       PROVE  Kept /\ (Ready(u) => Labels) /\ Sent
  <2>0. pc[w] \in {"look", "look_again"} /\ UNCHANGED offline_invites
    BY <1>13 DEF Look, managerVars
  <2>1. CASE u \in DOMAIN offline_invites /\ r \notin offline_invites[u]
    <3>1. /\ UNCHANGED <<target, room>>
          /\ \/ pc[w] = "look" /\ pc'[w] = "append"
             \/ pc[w] = "look_again" /\ pc'[w] = "append_again"
      BY <1>2, <1>10, <1>13, <2>1 DEF Look
    <3>2. Kept
      BY <1>2, <1>i, <3>1
    <3>3. Ready(u) => Labels
      BY <1>8, <2>0, <2>1, <3>1 DEF Unfiled, Filed
    <3>4. Sent
      BY <3>1 DEF Undecided, Unfiled
    <3> QED  BY <3>2, <3>3, <3>4
  <2>2. CASE ~(u \in DOMAIN offline_invites /\ r \notin offline_invites[u])
    <3>1. Resume(w)
      BY <1>2, <1>13, <2>2 DEF Look
    <3>2. \/ pc[w] = "look" /\ pc'[w] = "send" /\ UNCHANGED <<target, room>>
          \/ pc[w] = "look_again" /\ pc'[w] = "idle"
      BY <1>9, <1>10, <2>0, <3>1 DEF Resume, Locking
    <3>3. Kept
      BY <1>2, <1>i, <3>2
    <3>4. Ready(u) => Labels
      BY <1>8, <2>0, <2>2, <3>2 DEF Unfiled, Filed
    <3>5. Sent
      BY <3>2 DEF Undecided, Unfiled
    <3> QED  BY <3>3, <3>4, <3>5
  <2> QED  BY <2>1, <2>2
<1>14. ASSUME AppendInvite(w)
       PROVE  Kept /\ (Ready(u) => Labels) /\ Sent
  <2>1. /\ pc[w] \in {"append", "append_again"} /\ Resume(w)
        /\ offline_invites' = [offline_invites EXCEPT ![u] = @ \union {r}]
    BY <1>2, <1>14 DEF AppendInvite
  <2>2. \/ pc[w] = "append" /\ pc'[w] = "send" /\ UNCHANGED <<target, room>>
        \/ pc[w] = "append_again" /\ pc'[w] = "idle"
    BY <1>9, <1>10, <2>1 DEF Resume, Locking
  <2>3. u \in DOMAIN offline_invites => Filed(u, r)'
    BY <2>1 DEF Filed
  <2>4. Kept
    BY <1>2, <1>i, <2>2
  <2>5. Ready(u) => Labels
    BY <1>8, <2>2, <2>3 DEF Unfiled
  <2>6. Sent
    BY <2>2 DEF Undecided, Unfiled
  <2> QED  BY <2>4, <2>5, <2>6
<1>15. ASSUME AppendToPopped(w)
       PROVE  Kept /\ (Ready(u) => Labels) /\ Sent
  <2>1. pc[w] \in {"popped", "popped_again"} /\ Resume(w)
    BY <1>15 DEF AppendToPopped
  <2>2. \/ pc[w] = "popped" /\ pc'[w] = "send" /\ UNCHANGED <<target, room>>
        \/ pc[w] = "popped_again" /\ pc'[w] = "idle"
    BY <1>9, <1>10, <2>1 DEF Resume, Locking
  <2>3. Kept
    BY <1>2, <1>i, <2>2
  <2>4. Ready(u) => Labels
    BY <1>8, <2>1
  <2>5. Sent
    BY <2>2 DEF Undecided, Unfiled
  <2> QED  BY <2>3, <2>4, <2>5
<1>16. ASSUME SendInvite(w)
       PROVE  Kept /\ (Ready(u) => Labels) /\ (u \in online => Sent)
  <2>1. pc[w] = "send"
    BY <1>16 DEF SendInvite
  <2>2. CASE u \in online
    <3>1. <<u, r>> \notin untold' /\ pc'[w] = "idle"
      BY <1>2, <1>9, <1>16, <2>2 DEF SendInvite
    <3>2. Ready(u) => Labels
      BY <1>8, <1>11, <2>1, <3>1 DEF Unfiled
    <3> QED  BY <3>1, <3>2
  <2>3. CASE u \notin online
    <3>1. pc'[w] = "persist_again" /\ UNCHANGED <<target, room>>
      BY <1>2, <1>10, <1>16, <2>3 DEF SendInvite
    <3>2. Kept
      BY <1>2, <1>i, <3>1
    <3>3. Ready(u) => Labels
      BY <1>8, <1>11, <2>1, <3>1 DEF Unfiled
    <3> QED  BY <2>3, <3>2, <3>3
  <2> QED  BY <2>2, <2>3
<1>17. Kept /\ (Ready(u) => Labels) /\ (u \in online => Sent)
  <2>1. CASE Persist(w) \/ Look(w) \/ AppendInvite(w) \/ AppendToPopped(w)
    BY <1>12, <1>13, <1>14, <1>15, <2>1
  <2>2. CASE SendInvite(w)
    BY <1>16, <2>2
  <2> QED  BY <2>1, <2>2
<1> QED  BY <1>1, <1>2, <1>3, <1>5, <1>6, <1>7, <1>i, <1>17, Advance

\* Rooms are entered and managed.
LEMMA StillDelivery ==
    ASSUME DInv, UNCHANGED <<managerVars, clientVars, workerVars>>
    PROVE  FirstLogin' /\ FiledFirst' /\ OnTheWay'
  BY DEF managerVars, clientVars, workerVars, DInv, FirstLogin, FiledFirst, FiledBefore, OnTheWay,
         Ready, Filed, Brings, Created

\* A user goes off line.
LEMMA DisconnectDelivery ==
    ASSUME DInv, NEW u \in User, Disconnect(u)
    PROVE  FirstLogin' /\ FiledFirst' /\ OnTheWay'
<1>1. /\ UNCHANGED <<managerVars, logins, untold, workerVars>>
      /\ online' \subseteq online
  BY DEF Disconnect
<1>2. FirstLogin' /\ FiledFirst'
  BY <1>1
     DEF managerVars, workerVars, DInv, FirstLogin, FiledFirst, FiledBefore, Ready, Filed
<1>3. OnTheWay'
  BY <1>1 DEF managerVars, workerVars, DInv, OnTheWay, Ready, Filed, Brings, Created
<1> QED  BY <1>2, <1>3

\* A first login will take the list; of who logs in again nothing is claimed any more.
LEMMA LoginDelivery ==
    ASSUME DInv, NEW w \in Worker, NEW u \in User, Login(w, u)
    PROVE  FirstLogin' /\ FiledFirst' /\ OnTheWay'
<1>1. /\ TypeOK /\ online' = online \union {u} /\ logins' = [logins EXCEPT ![u] = @ + 1]
      /\ UNCHANGED <<offline_invites, chatrooms, next_chat_id, untold>>
  BY DEF DInv, TInv, Login, managerVars
<1>2. pc[w] = "idle" /\ pc'[w] = "pending" /\ user'[w] = u /\ OthersStay(w)
  BY <1>1 DEF TypeOK, Login, Begin, Goto, OthersStay
<1>3. /\ logins[u] \in Nat /\ logins'[u] = logins[u] + 1
      /\ \A v \in User \ {u} : logins'[v] = logins[v]
  BY <1>1, ChatroomAssumption DEF TypeOK
<1>4. \A v \in User \ {u} : Ready(v)' <=> Ready(v)
  BY <1>2, <1>3 DEF Ready, OthersStay
<1>5. /\ Ready(u)' <=> logins[u] = 0
      /\ Ready(u)' => Ready(u)
  <2>1. Ready(u)' <=> logins'[u] = 1
    BY <1>2, <1>3 DEF Ready
  <2> QED  BY <1>3, <2>1 DEF Ready
<1>6. FirstLogin'
  <2>1. \A v \in online' : logins'[v] >= 1
    BY <1>1, <1>3 DEF DInv, FirstLogin, TypeOK
  <2>2. ASSUME NEW x \in Worker, pc'[x] = "pending"
        PROVE  logins'[user'[x]] >= 1
    <3>1. CASE x = w
      BY <1>2, <1>3, <3>1
    <3>2. CASE x # w
      <4>1. pc[x] = "pending" /\ user'[x] = user[x]
        BY <1>2, <2>2, <3>2 DEF OthersStay
      <4>2. user[x] \in User /\ logins[user[x]] >= 1
        BY <4>1 DEF DInv, TInv, Busy, FirstLogin
      <4>3. CASE user[x] = u
        BY <1>3, <4>1, <4>2, <4>3
      <4>4. CASE user[x] # u
        BY <1>3, <4>1, <4>2, <4>4
      <4> QED  BY <4>3, <4>4
    <3> QED  BY <3>1, <3>2
  <2>3. ASSUME NEW x \in Worker, NEW y \in Worker, pc'[x] = "pending", pc'[y] = "pending",
               user'[x] = user'[y], logins'[user'[x]] = 1
        PROVE  x = y
    <3>1. \A z \in Worker \ {w} : pc'[z] = "pending" =>
              pc[z] = "pending" /\ user'[z] = user[z] /\ user[z] \in User
                /\ logins[user[z]] >= 1
      BY <1>2 DEF OthersStay, DInv, TInv, Busy, FirstLogin
    <3>2. CASE user'[x] = u
      <4>1. logins[u] = 0
        BY <1>3, <2>3, <3>2
      <4>2. \A z \in Worker \ {w} : pc'[z] = "pending" => user'[z] # u
        BY <3>1, <4>1
      <4> QED  BY <2>3, <3>2, <4>2
    <3>3. CASE user'[x] # u
      <4>1. x # w /\ y # w
        BY <1>2, <2>3, <3>3
      <4>2. user[x] = user[y] /\ logins[user[x]] = 1 /\ pc[x] = "pending" /\ pc[y] = "pending"
        BY <1>3, <2>3, <3>1, <3>3, <4>1
      <4> QED  BY <4>2 DEF DInv, FirstLogin
    <3> QED  BY <3>2, <3>3
  <2> QED  BY <2>1, <2>2, <2>3 DEF FirstLogin
<1>7. FiledFirst'
  <2>1. ASSUME NEW x \in Worker, x # w, pc'[x] \in Inviting
        PROVE  FiledBefore(x)'
    <3>1. pc'[x] = pc[x] /\ target'[x] = target[x] /\ room'[x] = room[x]
      BY <1>2, <2>1 DEF OthersStay
    <3>2. target[x] \in User
      BY <2>1, <3>1 DEF DInv, TInv, Busy
    <3>3. Ready(target[x])' => Ready(target[x])
      BY <1>4, <1>5, <3>1, <3>2 DEF Ready
    <3> QED  BY <1>1, <3>1, <3>3 DEF DInv, FiledFirst, FiledBefore, Filed
  <2>2. pc'[w] \notin Inviting
    BY <1>2 DEF Inviting, Locking
  <2> QED  BY <2>1, <2>2 DEF FiledFirst, FiledBefore
<1>8. "idle" \notin Unfiled /\ "idle" \notin Undecided
  BY DEF Unfiled, Undecided
<1>9. ASSUME NEW x \in Worker, NEW v, NEW s, NEW labels, "idle" \notin labels,
             Brings(x, v, s, labels)
      PROVE  Brings(x, v, s, labels)'
  BY <1>2, <1>9 DEF Brings, OthersStay
<1>10. OnTheWay'
  <2> SUFFICES ASSUME NEW v \in User, NEW s \in Room, <<v, s>> \in untold
               PROVE  /\ s \in Created
                      /\ Ready(v)' => Filed(v, s) \/ \E x \in Worker : Brings(x, v, s, Unfiled)'
                      /\ s \in chatrooms /\ ~ Ready(v)' /\ logins'[v] = 1 /\ v \in online'
                            => \E x \in Worker : Brings(x, v, s, Undecided)'
    BY <1>1 DEF OnTheWay, Filed, Created
  <2>1. CASE v = u
    <3>1. ~ (~ Ready(v)' /\ logins'[v] = 1)
      BY <1>3, <1>5, <2>1
    <3>2. Ready(v)' => Ready(v)
      BY <1>5, <2>1
    <3> QED  BY <1>8, <1>9, <3>1, <3>2 DEF DInv, OnTheWay
  <2>2. CASE v # u
    <3>1. (Ready(v)' <=> Ready(v)) /\ logins'[v] = logins[v] /\ (v \in online' => v \in online)
      BY <1>1, <1>3, <1>4, <2>2
    <3> QED  BY <1>8, <1>9, <3>1 DEF DInv, OnTheWay
  <2> QED  BY <2>1, <2>2
<1> QED  BY <1>6, <1>7, <1>10

\* The login has taken the list: what was in it is sent, and the handlers that were about
\* to add to it will do so to the list in its hands.
LEMMA PendingDelivery ==
    ASSUME DInv, NEW w \in Worker, SendPendingInvites(w)
    PROVE  FirstLogin' /\ FiledFirst' /\ OnTheWay'
<1>0. PICK u : u = user[w]
  OBVIOUS
<1> DEFINE list == IF u \in DOMAIN offline_invites THEN offline_invites[u] ELSE {}
           pending == list \intersect chatrooms
<1>1. /\ TypeOK /\ pc[w] = "pending" /\ u \in User /\ logins[u] >= 1
      /\ UNCHANGED <<chatrooms, next_chat_id, online, logins, target, room>>
  BY <1>0 DEF DInv, TInv, Busy, FirstLogin, SendPendingInvites
<1>2. /\ pc'[w] = "idle"
      /\ \A x \in Worker \ {w} : pc'[x] = Popped(x, u) /\ user'[x] = user[x]
  BY <1>0, <1>1 DEF SendPendingInvites, TypeOK
<1>3. /\ \A v \in User \ {u} : \A s : Filed(v, s) => Filed(v, s)'
      /\ \A v \in User \ {u} : v \in DOMAIN offline_invites => v \in DOMAIN offline_invites'
  <2>1. CASE u \in online \/ pending = {}
    BY <1>0, <2>1 DEF SendPendingInvites, Filed
  <2>2. CASE ~(u \in online \/ pending = {})
    BY <1>0, <2>2 DEF SendPendingInvites, Filed
  <2> QED  BY <2>1, <2>2
<1>4. /\ untold' \subseteq untold
      /\ u \in online => \A s \in chatrooms : Filed(u, s) => <<u, s>> \notin untold'
  BY <1>0 DEF SendPendingInvites, Filed
<1>5. \A x \in Worker \ {w} :
          /\ pc'[x] = "pending" <=> pc[x] = "pending"
          /\ target[x] # u => pc'[x] = pc[x]
          /\ pc[x] \in Unfiled => pc'[x] \in Undecided
  BY <1>2 DEF Popped, Unfiled, Undecided
<1>6. \A v \in User \ {u} : Ready(v)' <=> Ready(v)
  BY <1>0, <1>1, <1>2, <1>5 DEF Ready
<1>7. ~ Ready(u)'
  <2>1. ASSUME logins[u] = 1, NEW x \in Worker, pc'[x] = "pending", user'[x] = u
        PROVE  FALSE
    <3>1. x # w
      BY <1>2, <2>1
    <3>2. pc[x] = "pending" /\ user[x] = u
      BY <1>2, <1>5, <2>1, <3>1
    <3> QED  BY <1>0, <1>1, <2>1, <3>1, <3>2 DEF DInv, FirstLogin
  <2>2. ~ \E x \in Worker : logins[u] = 1 /\ pc'[x] = "pending" /\ user'[x] = u
    BY <2>1
  <2>3. logins'[u] # 0 /\ logins'[u] = logins[u]
    BY <1>1 DEF TypeOK
  <2> QED  BY <2>2, <2>3 DEF Ready
<1>8. FirstLogin'
  <2>1. \A x \in Worker : pc'[x] = "pending" => x # w /\ pc[x] = "pending" /\ user'[x] = user[x]
    BY <1>2, <1>5
  <2> QED  BY <1>1, <2>1 DEF DInv, FirstLogin
<1>9. FiledFirst'
  <2>1. ASSUME NEW x \in Worker, pc'[x] \in Inviting, Ready(target[x])'
        PROVE  FiledBefore(x)'
    <3>1. x # w
      BY <1>2, <2>1 DEF Inviting, Locking
    <3>2. target[x] \in User
      <4>1. pc[x] \in Inviting
        BY <1>2, <2>1, <3>1 DEF Popped, Inviting, Locking
      <4> QED  BY <4>1 DEF DInv, TInv, Busy
    <3>3. target[x] # u
      BY <1>1, <1>7, <2>1 DEF Ready
    <3>4. pc'[x] = pc[x] /\ target'[x] = target[x] /\ room'[x] = room[x]
      BY <1>1, <1>5, <3>1, <3>3
    <3>5. FiledBefore(x) /\ Ready(target[x])
      BY <1>1, <1>6, <2>1, <3>2, <3>3 DEF DInv, FiledFirst, Ready
    <3>6. (Filed(target[x], room[x]) => Filed(target[x], room[x])')
          /\ (target[x] \in DOMAIN offline_invites => target[x] \in DOMAIN offline_invites')
      BY <1>1, <1>3, <3>2, <3>3 DEF Filed
    <3> QED  BY <1>1, <3>4, <3>5, <3>6 DEF FiledBefore, Filed
  <2> QED  BY <2>1 DEF FiledFirst, FiledBefore
<1>10. OnTheWay'
  <2> SUFFICES ASSUME NEW v \in User, NEW s \in Room, <<v, s>> \in untold'
               PROVE  /\ s \in Created
                      /\ Ready(v)' => Filed(v, s)' \/ \E x \in Worker : Brings(x, v, s, Unfiled)'
                      /\ s \in chatrooms /\ ~ Ready(v)' /\ logins[v] = 1 /\ v \in online
                            => \E x \in Worker : Brings(x, v, s, Undecided)'
    BY <1>1 DEF OnTheWay, Created
  <2>1. /\ <<v, s>> \in untold /\ s \in Created
        /\ Ready(v) => Filed(v, s) \/ \E x \in Worker : Brings(x, v, s, Unfiled)
        /\ s \in chatrooms /\ ~ Ready(v) /\ logins[v] = 1 /\ v \in online
              => \E x \in Worker : Brings(x, v, s, Undecided)
    BY <1>4 DEF DInv, OnTheWay
  <2>2. "pending" \notin Unfiled /\ "pending" \notin Undecided
    BY DEF Unfiled, Undecided
  <2>3. CASE v = u
    <3>1. ~ Ready(v)'
      BY <1>7, <2>3 DEF Ready
    <3>2. ASSUME s \in chatrooms, logins[v] = 1, v \in online
          PROVE  \E x \in Worker : Brings(x, v, s, Undecided)'
      <4>1. Ready(v)
        BY <1>0, <1>1, <2>3, <3>2 DEF Ready
      <4>2. ~ Filed(v, s)
        BY <1>4, <2>3, <3>2
      <4>3. PICK x \in Worker : Brings(x, v, s, Unfiled)
        BY <2>1, <4>1, <4>2
      <4>4. x # w
        BY <1>1, <2>2, <4>3 DEF Brings
      <4> QED  BY <1>1, <1>5, <4>3, <4>4 DEF Brings
    <3> QED  BY <2>1, <3>1, <3>2
  <2>4. CASE v # u
    <3>1. ASSUME NEW x \in Worker, NEW labels, "pending" \notin labels, Brings(x, v, s, labels)
          PROVE  Brings(x, v, s, labels)'
      <4>1. x # w
        BY <1>1, <3>1 DEF Brings
      <4> QED  BY <1>1, <1>5, <2>4, <3>1, <4>1 DEF Brings
    <3>2. (Ready(v)' <=> Ready(v)) /\ (Filed(v, s) => Filed(v, s)')
      BY <1>3, <1>6, <2>4
    <3> QED  BY <2>1, <2>2, <3>1, <3>2
  <2> QED  BY <2>3, <2>4
<1> QED  BY <1>8, <1>9, <1>10

\* Every step keeps the invariant of the invitations.
LEMMA NextDInv ==
    ASSUME DInv, [Next]_vars
    PROVE  DInv'
<1>1. TInv'
  BY NextTInv DEF DInv
<1>2. ASSUME NEW w \in Worker, NEW u \in User, NEW t \in (User \ {u}) \union {NoUser},
             NEW lock \in BOOLEAN, Create(w, u, t, lock)
      PROVE  FirstLogin' /\ FiledFirst' /\ OnTheWay'
  BY <1>2, RoomsDelivery
<1>3. ASSUME NEW w \in Worker, NEW u \in User, NEW r \in chatrooms, Close(w, u, r)
      PROVE  FirstLogin' /\ FiledFirst' /\ OnTheWay'
  BY <1>3, RoomsDelivery
<1>4. ASSUME NEW w \in Worker, EnterCreated(w) \/ TellCreated(w) \/ RemoveChatroom(w)
      PROVE  FirstLogin' /\ FiledFirst' /\ OnTheWay'
  BY <1>4, RoomsDelivery
<1>5. ASSUME NEW u \in User, NEW r \in Created,
             \/ Join(u, r)
             \/ \E t \in User : Kick(u, r, t) \/ Ban(u, r, t) \/ UnBan(u, r, t)
                                   \/ SetOwner(u, r, t)
             \/ \E b \in BOOLEAN : SetLocked(u, r, b) \/ SetJoinable(u, r, b)
      PROVE  FirstLogin' /\ FiledFirst' /\ OnTheWay'
  BY <1>5, StillDelivery DEF Join, Kick, Ban, UnBan, SetOwner, SetLocked, SetJoinable
<1>6. ASSUME UNCHANGED vars
      PROVE  FirstLogin' /\ FiledFirst' /\ OnTheWay'
  <2>1. UNCHANGED <<managerVars, clientVars, workerVars>>
    BY <1>6 DEF vars
  <2> QED  BY <2>1, StillDelivery
<1>7. ASSUME Next
      PROVE  FirstLogin' /\ FiledFirst' /\ OnTheWay'
  <2>1. CASE \E w \in Worker, u \in User :
                \/ \E t \in (User \ {u}) \union {NoUser}, lock \in BOOLEAN :
                      Create(w, u, t, lock)
                \/ \E r \in chatrooms : Close(w, u, r)
                \/ \E r \in chatrooms, t \in User : Invite(w, u, r, t)
                \/ Login(w, u)
    BY <1>2, <1>3, <2>1, InviteDelivery, LoginDelivery
  <2>2. CASE \E w \in Worker :
                \/ EnterCreated(w) \/ TellCreated(w) \/ RemoveChatroom(w)
                \/ Persist(w) \/ Look(w) \/ AppendInvite(w)
                \/ AppendToPopped(w) \/ SendInvite(w)
                \/ SendPendingInvites(w)
    BY <1>4, <2>2, PersistDelivery, PendingDelivery
  <2>3. CASE \E u \in User :
                \/ Disconnect(u)
                \/ \E r \in Created :
                      \/ Join(u, r)
                      \/ \E t \in User : Kick(u, r, t) \/ Ban(u, r, t) \/ UnBan(u, r, t)
                                            \/ SetOwner(u, r, t)
                      \/ \E b \in BOOLEAN : SetLocked(u, r, b) \/ SetJoinable(u, r, b)
    BY <1>5, <2>3, DisconnectDelivery
  <2> QED  BY <1>7, <2>1, <2>2, <2>3 DEF Next
<1> QED  BY <1>1, <1>6, <1>7 DEF DInv

\* Nobody is left out when the handlers are done.
LEMMA NothingOnTheWay ==
    ASSUME DInv
    PROVE  InvitesAreTold
<1> SUFFICES ASSUME NEW u \in online, logins[u] = 1,
                    \A w \in Worker : u \notin {user[w], target[w]},
                    NEW r \in chatrooms, <<u, r>> \in untold
             PROVE  FALSE
  BY DEF InvitesAreTold
<1>1. u \in User /\ r \in Room
  BY DEF DInv, TInv, TypeOK
<1>2. ~ Ready(u)
  BY DEF Ready
<1>3. \E w \in Worker : Brings(w, u, r, Undecided)
  BY <1>1, <1>2 DEF DInv, OnTheWay
<1> QED  BY <1>3 DEF Brings

(* InvitesAreTold for any number of users and workers: whoever logs in once *)
(* while he is invited learns of it, whatever the order of the unlocked     *)
(* reads and writes of offline_invites in _persist_invite and               *)
(* send_pending_invites_to_user.                                            *)
THEOREM InvitationsArrive == Spec => []InvitesAreTold
<1>1. Init => DInv
  BY InitTInv, InitDelivery DEF DInv
<1>2. DInv /\ [Next]_vars => DInv'
  BY NextDInv
<1>3. DInv => InvitesAreTold
  BY NothingOnTheWay
<1> QED  BY <1>1, <1>2, <1>3, PTL DEF Spec
=============================================================================
