------------------------------ MODULE Chatroom ------------------------------
(***************************************************************************)
(* Chat rooms: Managers/ChatroomManager/manager.py and the handlers of     *)
(* Handlers/chat.py in the workers of the pool, with the logins and        *)
(* disconnects they meet.                                                  *)
(*                                                                         *)
(* Every operation on a room holds the room's lock and is one step.        *)
(* Between two of a handler other workers come in, and at the places where *)
(* offline_invites, which no lock protects, is read and written.  A room   *)
(* that was removed stays in the hands of the handlers that had looked it  *)
(* up, so the operations are defined on every room there ever was.         *)
(*                                                                         *)
(* A user stands for his 64-bit Steam ID and his account ID alike, but     *)
(* where the code files something under the account ID and looks for the   *)
(* Steam ID, nothing is found.  The flags invisible and moderated, voice   *)
(* and muting (which nothing calls) change nothing that is read here.      *)
(* Left out is the chat action inviteChat, which does what a ChatInvite    *)
(* message does after a first _do_invite of its own.                       *)
(***************************************************************************)
EXTENDS Naturals, FiniteSets

CONSTANTS
    User,
    Worker,              \* threads of the pool
    MaxRoom,             \* bound: rooms ever created
    MaxMembers,          \* max_members of every room
    MaxLogin,            \* bound: logins of a user
    MaxInvite,           \* bound: invitations in the workers at once
    MemberPermission,    \* what member_permission allows
    NoUser

ASSUME ChatroomAssumption ==
    /\ MaxRoom \in Nat
    /\ MaxMembers \in Nat \ {0}
    /\ MaxLogin \in Nat
    /\ MaxInvite \in Nat
    /\ MemberPermission \subseteq {"invite", "kick", "ban", "changeAccess", "close"}
    /\ NoUser \notin User

Room == 1..MaxRoom

VARIABLES
    \* ChatroomManager
    next_chat_id,
    chatrooms,            \* the rooms that are listed
    offline_invites,      \* for the users that are keys, the rooms of their list
    \* the rooms
    owner_id,
    permissions,          \* of each member; "none" for who is no member
    banned_users,
    pending_invites,
    locked,
    unjoinable,
    \* clients
    online,               \* clientsByAccountID
    logins,
    untold,               \* history: invitations that have not been sent yet
    \* the workers
    pc,
    user,                 \* the client a worker serves
    target,               \* whom he invites
    room

managerVars == <<next_chat_id, chatrooms, offline_invites>>
roomVars == <<owner_id, permissions, banned_users, pending_invites, locked, unjoinable>>
clientVars == <<online, logins, untold>>
workerVars == <<pc, user, target, room>>
vars == <<managerVars, roomVars, clientVars, workerVars>>

\* The labels of _persist_invite within _do_invite, which holds the room's lock.
Locking == {"persist", "look", "append", "popped"}
Label == Locking \union {"idle", "enter", "tell", "remove", "send", "pending",
                         "persist_again", "look_again", "append_again", "popped_again"}

Init ==
    /\ next_chat_id = 1
    /\ chatrooms = {}
    /\ offline_invites = [u \in {} |-> {}]
    /\ owner_id = [r \in Room |-> NoUser]
    /\ permissions = [r \in Room |-> [u \in User |-> "none"]]
    /\ banned_users = [r \in Room |-> {}]
    /\ pending_invites = [r \in Room |-> {}]
    /\ locked = [r \in Room |-> FALSE]
    /\ unjoinable = [r \in Room |-> FALSE]
    /\ online = {}
    /\ logins = [u \in User |-> 0]
    /\ untold = {}
    /\ pc = [w \in Worker |-> "idle"]
    /\ user = [w \in Worker |-> NoUser]
    /\ target = [w \in Worker |-> NoUser]
    /\ room = [w \in Worker |-> 0]

Goto(w, label) == pc' = [pc EXCEPT ![w] = label]

Finish(w) ==
    /\ Goto(w, "idle")
    /\ user' = [user EXCEPT ![w] = NoUser]
    /\ target' = [target EXCEPT ![w] = NoUser]
    /\ room' = [room EXCEPT ![w] = 0]

Begin(w, label, u, t, r) ==
    /\ pc[w] = "idle"
    /\ Goto(w, label)
    /\ user' = [user EXCEPT ![w] = u]
    /\ target' = [target EXCEPT ![w] = t]
    /\ room' = [room EXCEPT ![w] = r]

Created == 1..(next_chat_id - 1)
Members(r) == {u \in User : permissions[r][u] # "none"}

Unlocked(r) == \A w \in Worker : room[w] = r => pc[w] \notin Locking

-----------------------------------------------------------------------------
(* Entering.                                                               *)

\* Faulty variant: a chat id is left out.
CreateSkippingId(w, u, t, lock) ==
    LET r == next_chat_id
    IN  /\ u \in online /\ r \in Room
        /\ Begin(w, "enter", u, t, r)
        /\ next_chat_id' = r + 2
        /\ chatrooms' = chatrooms \union {r}
        /\ owner_id' = [owner_id EXCEPT ![r] = u]
        /\ locked' = [locked EXCEPT ![r] = lock]
        /\ UNCHANGED <<offline_invites, permissions, banned_users, pending_invites,
                       unjoinable, clientVars>>

\* handle_ClientCreateChat up to register_chatroom.  An invitation that comes with it
\* is filed under the account ID, in the room and in offline_invites.
Create(w, u, t, lock) ==
    LET r == next_chat_id
    IN  /\ u \in online /\ r \in Room
        /\ Begin(w, "enter", u, t, r)
        /\ next_chat_id' = r + 1
        /\ chatrooms' = chatrooms \union {r}
        /\ owner_id' = [owner_id EXCEPT ![r] = u]
        /\ locked' = [locked EXCEPT ![r] = lock]
        /\ UNCHANGED <<offline_invites, permissions, banned_users, pending_invites,
                       unjoinable, clientVars>>

\* The checks of enter_chatroom; the owner passes all but that of the room's size.
Admits(r, u) ==
    /\ u \in banned_users[r] => u = owner_id[r]
    /\ Cardinality(Members(r)) < MaxMembers
    /\ u # owner_id[r] => ~unjoinable[r] /\ (locked[r] => u \in pending_invites[r])

\* Faulty variant: the invitation stays.
EnterKeepingInvitation(r, u) ==
    /\ Unlocked(r)
    /\ IF u \notin Members(r) /\ Admits(r, u)
       THEN permissions' = [permissions EXCEPT ![r] = [@ EXCEPT ![u] =
                                IF u = owner_id[r] THEN "owner" ELSE "member"]]
       ELSE UNCHANGED permissions
    /\ UNCHANGED <<owner_id, banned_users, pending_invites, locked, unjoinable>>

\* enter_chatroom
Enter(r, u) ==
    /\ Unlocked(r)
    /\ IF u \notin Members(r) /\ Admits(r, u)
       THEN /\ permissions' = [permissions EXCEPT ![r] = [@ EXCEPT ![u] =
                                   IF u = owner_id[r] THEN "owner" ELSE "member"]]
            /\ pending_invites' = [pending_invites EXCEPT ![r] = @ \ {u}]
       ELSE UNCHANGED <<permissions, pending_invites>>
    /\ UNCHANGED <<owner_id, banned_users, locked, unjoinable>>

\* The creator enters; if he gets in, the invitation is sent.
EnterCreated(w) ==
    /\ pc[w] = "enter"
    /\ Enter(room[w], user[w])
    /\ IF target[w] # NoUser /\ permissions'[room[w]][user[w]] # "none"
       THEN Goto(w, "tell") /\ UNCHANGED <<user, target, room>>
       ELSE Finish(w)
    /\ UNCHANGED <<managerVars, clientVars>>

\* _send_invite_to_user with the account ID: for who is off line it is filed under the
\* account ID again, where no login looks.
TellCreated(w) ==
    /\ pc[w] = "tell"
    /\ untold' = IF target[w] \in online THEN untold \ {<<target[w], room[w]>>} ELSE untold
    /\ Finish(w)
    /\ UNCHANGED <<managerVars, roomVars, online, logins>>

\* handle_ClientJoinChat
Join(u, r) ==
    /\ u \in online
    /\ u \notin Members(r)
    /\ Enter(r, u)
    /\ UNCHANGED <<managerVars, clientVars, workerVars>>

-----------------------------------------------------------------------------
(* handle_ClientChatAction and perform_action, for a member of the room.   *)

Permits(r, u, permission) ==
    CASE permissions[r][u] = "owner" -> TRUE
      [] permissions[r][u] = "member" -> permission \in MemberPermission
      [] OTHER -> FALSE

Actor(u, r) == u \in online /\ u \in Members(r) /\ Unlocked(r)

Kick(u, r, t) ==
    /\ Actor(u, r) /\ Permits(r, u, "kick")
    /\ t \in Members(r) \ {u, owner_id[r]}
    /\ permissions' = [permissions EXCEPT ![r] = [@ EXCEPT ![t] = "none"]]
    /\ UNCHANGED <<managerVars, owner_id, banned_users, pending_invites, locked,
                   unjoinable, clientVars, workerVars>>

\* Faulty variant: an invitation of the banned user is still good.
BanKeepingInvitation(u, r, t) ==
    /\ Actor(u, r) /\ Permits(r, u, "ban")
    /\ t \notin banned_users[r] \union {u, owner_id[r]}
    /\ banned_users' = [banned_users EXCEPT ![r] = @ \union {t}]
    /\ permissions' = [permissions EXCEPT ![r] = [@ EXCEPT ![t] = "none"]]
    /\ UNCHANGED <<managerVars, owner_id, pending_invites, locked, unjoinable,
                   clientVars, workerVars>>

Ban(u, r, t) ==
    /\ Actor(u, r) /\ Permits(r, u, "ban")
    /\ t \notin banned_users[r] \union {u, owner_id[r]}
    /\ banned_users' = [banned_users EXCEPT ![r] = @ \union {t}]
    /\ permissions' = [permissions EXCEPT ![r] = [@ EXCEPT ![t] = "none"]]
    /\ pending_invites' = [pending_invites EXCEPT ![r] = @ \ {t}]
    /\ UNCHANGED <<managerVars, owner_id, locked, unjoinable, clientVars, workerVars>>

UnBan(u, r, t) ==
    /\ Actor(u, r) /\ Permits(r, u, "ban")
    /\ t \in banned_users[r]
    /\ banned_users' = [banned_users EXCEPT ![r] = @ \ {t}]
    /\ UNCHANGED <<managerVars, owner_id, permissions, pending_invites, locked,
                   unjoinable, clientVars, workerVars>>

MayChangeAccess(u, r) ==
    Actor(u, r) /\ (u = owner_id[r] \/ Permits(r, u, "changeAccess"))

\* lockChat and unlockChat
SetLocked(u, r, lock) ==
    /\ MayChangeAccess(u, r)
    /\ locked' = [locked EXCEPT ![r] = lock]
    /\ UNCHANGED <<managerVars, owner_id, permissions, banned_users, pending_invites,
                   unjoinable, clientVars, workerVars>>

\* setJoinable and setUnjoinable
SetJoinable(u, r, joinable) ==
    /\ MayChangeAccess(u, r)
    /\ unjoinable' = [unjoinable EXCEPT ![r] = ~joinable]
    /\ UNCHANGED <<managerVars, owner_id, permissions, banned_users, pending_invites,
                   locked, clientVars, workerVars>>

\* Faulty variant: the permissions are left as they are.
SetOwnerOnly(u, r, t) ==
    /\ Actor(u, r) /\ u = owner_id[r]
    /\ t \in Members(r)
    /\ owner_id' = [owner_id EXCEPT ![r] = t]
    /\ UNCHANGED <<managerVars, permissions, banned_users, pending_invites, locked,
                   unjoinable, clientVars, workerVars>>

SetOwner(u, r, t) ==
    /\ Actor(u, r) /\ u = owner_id[r]
    /\ t \in Members(r)
    /\ owner_id' = [owner_id EXCEPT ![r] = t]
    /\ permissions' = [permissions EXCEPT ![r] = [@ EXCEPT ![u] = "member", ![t] = "owner"]]
    /\ UNCHANGED <<managerVars, banned_users, pending_invites, locked, unjoinable,
                   clientVars, workerVars>>

\* closeChat: the room's permission first, then the manager's list.
Close(w, u, r) ==
    /\ Actor(u, r) /\ (u = owner_id[r] \/ Permits(r, u, "close"))
    /\ Begin(w, "remove", u, NoUser, r)
    /\ UNCHANGED <<managerVars, roomVars, clientVars>>

RemoveChatroom(w) ==
    /\ pc[w] = "remove"
    /\ chatrooms' = chatrooms \ {room[w]}
    /\ Finish(w)
    /\ UNCHANGED <<next_chat_id, offline_invites, roomVars, clientVars>>

-----------------------------------------------------------------------------
(* handle_ClientChatInvite and invite_user_to_chatroom.                    *)

MayInvite(u, r, t) ==
    /\ Actor(u, r) /\ Permits(r, u, "invite")
    /\ t \notin banned_users[r] \union Members(r)
    /\ Cardinality(Members(r)) < MaxMembers
    /\ Cardinality({w \in Worker : target[w] # NoUser}) < MaxInvite

\* Faulty variant: only an invitation that cannot be sent is kept.
InviteWithoutPersisting(w, u, r, t) ==
    /\ r \in chatrooms /\ MayInvite(u, r, t)
    /\ pending_invites' = [pending_invites EXCEPT ![r] = @ \union {t}]
    /\ untold' = untold \union {<<t, r>>}
    /\ Begin(w, "send", u, t, r)
    /\ UNCHANGED <<managerVars, owner_id, permissions, banned_users, locked,
                   unjoinable, online, logins>>

\* _do_invite up to _persist_invite
Invite(w, u, r, t) ==
    /\ r \in chatrooms /\ MayInvite(u, r, t)
    /\ pending_invites' = [pending_invites EXCEPT ![r] = @ \union {t}]
    /\ untold' = untold \union {<<t, r>>}
    /\ Begin(w, "persist", u, t, r)
    /\ UNCHANGED <<managerVars, owner_id, permissions, banned_users, locked,
                   unjoinable, online, logins>>

\* After _persist_invite: the first time the invitation is sent, also if a KeyError
\* ended it; the second time the handler is at its end.
Resume(w) ==
    IF pc[w] \in Locking THEN Goto(w, "send") /\ UNCHANGED <<user, target, room>>
    ELSE Finish(w)

\* A list for the user, if there is none.
Persist(w) ==
    /\ pc[w] \in {"persist", "persist_again"}
    /\ offline_invites' = IF target[w] \in DOMAIN offline_invites THEN offline_invites
                          ELSE [u \in DOMAIN offline_invites \union {target[w]} |->
                                   IF u = target[w] THEN {} ELSE offline_invites[u]]
    /\ Goto(w, IF pc[w] = "persist" THEN "look" ELSE "look_again")
    /\ UNCHANGED <<next_chat_id, chatrooms, roomVars, clientVars, user, target, room>>

\* A KeyError if the list was taken in the meantime; nothing to do if the room is in it.
Look(w) ==
    /\ pc[w] \in {"look", "look_again"}
    /\ IF target[w] \in DOMAIN offline_invites /\ room[w] \notin offline_invites[target[w]]
       THEN /\ Goto(w, IF pc[w] = "look" THEN "append" ELSE "append_again")
            /\ UNCHANGED <<user, target, room>>
       ELSE Resume(w)
    /\ UNCHANGED <<managerVars, roomVars, clientVars>>

AppendInvite(w) ==
    /\ pc[w] \in {"append", "append_again"}
    /\ offline_invites' = [offline_invites EXCEPT ![target[w]] = @ \union {room[w]}]
    /\ Resume(w)
    /\ UNCHANGED <<next_chat_id, chatrooms, roomVars, clientVars>>

\* The list was taken by a login, which may be past its end already.
AppendToPopped(w) ==
    /\ pc[w] \in {"popped", "popped_again"}
    /\ untold' \in {untold, untold \ {<<target[w], room[w]>>}}
    /\ Resume(w)
    /\ UNCHANGED <<managerVars, roomVars, online, logins>>

\* _send_invite_to_user
SendInvite(w) ==
    /\ pc[w] = "send"
    /\ IF target[w] \in online
       THEN untold' = untold \ {<<target[w], room[w]>>} /\ Finish(w)
       ELSE Goto(w, "persist_again") /\ UNCHANGED <<untold, user, target, room>>
    /\ UNCHANGED <<managerVars, roomVars, online, logins>>

-----------------------------------------------------------------------------
(* Logins and disconnects.                                                 *)

Login(w, u) ==
    /\ u \notin online /\ logins[u] < MaxLogin
    /\ online' = online \union {u}
    /\ logins' = [logins EXCEPT ![u] = @ + 1]
    /\ Begin(w, "pending", u, NoUser, 0)
    /\ UNCHANGED <<managerVars, roomVars, untold>>

\* Who was about to append to the list the login takes has it in his hands.
Popped(x, u) ==
    IF target[x] = u /\ pc[x] = "append" THEN "popped"
    ELSE IF target[x] = u /\ pc[x] = "append_again" THEN "popped_again"
    ELSE pc[x]

\* send_pending_invites_to_user; for who has gone already the invitations are filed again.
SendPendingInvites(w) ==
    LET u == user[w]
        list == IF u \in DOMAIN offline_invites THEN offline_invites[u] ELSE {}
        pending == list \intersect chatrooms
        others == DOMAIN offline_invites \ {u}
    IN  /\ pc[w] = "pending"
        /\ IF u \in online \/ pending = {}
           THEN /\ untold' = untold \ {<<u, r>> : r \in pending}
                /\ offline_invites' = [v \in others |-> offline_invites[v]]
           ELSE /\ offline_invites' = [v \in others \union {u} |->
                                          IF v = u THEN pending ELSE offline_invites[v]]
                /\ UNCHANGED untold
        /\ pc' = [x \in Worker |-> IF x = w THEN "idle" ELSE Popped(x, u)]
        /\ user' = [user EXCEPT ![w] = NoUser]
        /\ UNCHANGED <<next_chat_id, chatrooms, roomVars, online, logins,
                       target, room>>

\* remove_client.  handle_client_disconnect looks for the client's SteamID object among
\* the numbers that are the keys of members, and finds it in no room.
Disconnect(u) ==
    /\ u \in online
    /\ online' = online \ {u}
    /\ UNCHANGED <<managerVars, roomVars, logins, untold, workerVars>>

Next ==
    \/ \E w \in Worker, u \in User :
          \/ \E t \in (User \ {u}) \union {NoUser}, lock \in BOOLEAN : Create(w, u, t, lock)
          \/ \E r \in chatrooms : Close(w, u, r)
          \/ \E r \in chatrooms, t \in User : Invite(w, u, r, t)
          \/ Login(w, u)
    \/ \E w \in Worker :
          \/ EnterCreated(w)
          \/ TellCreated(w)
          \/ RemoveChatroom(w)
          \/ Persist(w)
          \/ Look(w)
          \/ AppendInvite(w)
          \/ AppendToPopped(w)
          \/ SendInvite(w)
          \/ SendPendingInvites(w)
    \/ \E u \in User :
          \/ Disconnect(u)
          \/ \E r \in Created :
                \/ Join(u, r)
                \/ \E t \in User : Kick(u, r, t) \/ Ban(u, r, t) \/ UnBan(u, r, t)
                                      \/ SetOwner(u, r, t)
                \/ \E b \in BOOLEAN : SetLocked(u, r, b) \/ SetJoinable(u, r, b)

Spec == Init /\ [][Next]_vars

-----------------------------------------------------------------------------
(* Properties.                                                             *)

TypeOK ==
    /\ next_chat_id \in 1..(MaxRoom + 1)
    /\ chatrooms \subseteq Room
    /\ DOMAIN offline_invites \subseteq User
    /\ \A u \in DOMAIN offline_invites : offline_invites[u] \subseteq Room
    /\ owner_id \in [Room -> User \union {NoUser}]
    /\ permissions \in [Room -> [User -> {"none", "member", "owner"}]]
    /\ banned_users \in [Room -> SUBSET User]
    /\ pending_invites \in [Room -> SUBSET User]
    /\ locked \in [Room -> BOOLEAN]
    /\ unjoinable \in [Room -> BOOLEAN]
    /\ online \subseteq User
    /\ logins \in [User -> 0..MaxLogin]
    /\ untold \subseteq User \X Room
    /\ pc \in [Worker -> Label]
    /\ user \in [Worker -> User \union {NoUser}]
    /\ target \in [Worker -> User \union {NoUser}]
    /\ room \in [Worker -> 0..MaxRoom]

(* Who is banned from a room is neither in it nor invited to it nor its     *)
(* owner, whom no ban keeps out: no order of bans, invitations, entries and *)
(* changes of the owner lets somebody past a ban.                           *)
BannedStayOut ==
    \A r \in Room : banned_users[r] \intersect
        (Members(r) \union pending_invites[r] \union {owner_id[r]}) = {}

(* An invitation admits once: a member has none left, so that a member who  *)
(* is kicked from a locked room needs a new one.                            *)
InvitationsAreSpent == \A r \in Room : pending_invites[r] \intersect Members(r) = {}

(* The permissions of an owner are with the owner alone, through every      *)
(* transfer of the room (set_owner) and every way of entering it.           *)
OwnersPermissions ==
    \A r \in Room : \A u \in Members(r) : permissions[r][u] = "owner" <=> owner_id[r] = u

(* A user invited by a member, before he logs in, while he does or after,   *)
(* learns of it: when no handler is busy with him any more and he is on     *)
(* line, every invitation to a listed room has been sent, although          *)
(* offline_invites is read and written without a lock.  Of a user who logs  *)
(* in twice while one invitation is handled this is not claimed: his two    *)
(* logins can take both lists the handler is about to append to.            *)
InvitesAreTold ==
    \A u \in online :
        /\ logins[u] = 1
        /\ \A w \in Worker : u \notin {user[w], target[w]}
        => \A r \in chatrooms : <<u, r>> \notin untold

(* A claim of the code's comments that does not hold.                       *)

(* handle_client_disconnect: "remove from all chatrooms and notify          *)
(* members".                                                                *)
DisconnectLeavesRooms ==
    [][\A u \in online \ online' : \A r \in chatrooms : permissions'[r][u] = "none"]_vars
=============================================================================
