-------------------------- MODULE MasterServerList --------------------------
(***************************************************************************)
(* The list of game servers of the master server: the handlers of          *)
(* servers/masterserver.py on MasterServerManager of                       *)
(* servers/managers/masterlistmanager.py, and its cleanup thread.          *)
(*                                                                         *)
(* Datagrams are handled by a pool of workers.  The list is replaced as a  *)
(* whole under the lock, by the cleanup thread and by a shutdown; a        *)
(* heartbeat appends to it, and everybody but the cleanup thread rebuilds  *)
(* or extends the index, without the lock.  Entries are objects: a         *)
(* heartbeat refreshes one that it looked up before.                       *)
(*                                                                         *)
(* A game server behind the emulator's own router is listed twice, under   *)
(* its local address and under the public one.                             *)
(***************************************************************************)
EXTENDS Naturals, Sequences, FiniteSets, SequencesExt

CONSTANTS
    Worker,         \* workers of the pool
    Cleaner,        \* the cleanup thread
    Host,           \* game servers, by the address they send from
    Address,        \* addresses that can be listed
    PublicAs,       \* the address that a game server is listed under
    Limit,          \* minutes without a heartbeat that an entry survives
    MaxEntry,       \* bound: entries in use at once
    None            \* no object, no address

Entry == 1..MaxEntry
Thread == Worker \cup {Cleaner}

ASSUME MasterAssumption ==
    /\ IsFiniteSet(Worker)
    /\ Cleaner \notin Worker
    /\ Host \subseteq Address
    /\ PublicAs \in [Host -> Address]
    /\ Limit \in Nat \ {0}
    /\ MaxEntry \in Nat
    /\ None \notin Address \cup Entry \cup Thread

VARIABLES
    address,    \* Server.address of each object, None when it is not in use
    age,        \* minutes since Server.time
    servers,    \* self.servers
    index,      \* self.indexes['address']: the entries filed under an address,
                \*   {None} where the address is no key
    lock,       \* the thread that holds self.lock, or None
    up,         \* game servers that run
    due,        \* the cleanup thread has slept its minute
    pc,         \* next step of the thread
    left,       \* addresses that its heartbeat still has to deal with
    server,     \* the local variable server of packet_heartbeat2
    old,        \* self.servers was replaced while it was about to append
    gone,       \* servers_to_remove of its shutdown
    kept,       \* the list it is about to assign
    todo,       \* the entries it still has to file
    missing     \* the address was no key when it looked

listVars == <<servers, index, lock>>
localVars == <<left, server, old, gone, kept, todo, missing>>
vars == <<address, age, listVars, up, due, pc, localVars>>

NoKey == {None}

Label == {"idle", "lookup", "refresh", "append", "filter", "assign", "clear", "check",
          "file", "dead"}

Init ==
    /\ address = [e \in Entry |-> None]
    /\ age = [e \in Entry |-> 0]
    /\ servers = <<>>
    /\ index = [a \in Address |-> NoKey]
    /\ lock = None
    /\ up = Host
    /\ due = FALSE
    /\ pc = [t \in Thread |-> "idle"]
    /\ left = [t \in Thread |-> <<>>]
    /\ server = [t \in Thread |-> None]
    /\ old = [t \in Thread |-> FALSE]
    /\ gone = [t \in Thread |-> {}]
    /\ kept = [t \in Thread |-> <<>>]
    /\ todo = [t \in Thread |-> <<>>]
    /\ missing = [t \in Thread |-> FALSE]

-----------------------------------------------------------------------------
Goto(t, label) == pc' = [pc EXCEPT ![t] = label]

\* The elements of a list that are in a set, in their order: SelectSeq without recursion,
\* by the number of such elements up to each.
Places(list, S) == {i \in DOMAIN list : list[i] \in S}

Only(list, S) ==
    LET Nth(n) == CHOOSE i \in Places(list, S) :
                      Cardinality({j \in Places(list, S) : j <= i}) = n
    IN  [n \in 1..Cardinality(Places(list, S)) |-> list[Nth(n)]]

\* The entries listed under an address, the first one first.
Named(a) == {e \in Entry : address[e] = a}
At(a) == Only(servers, Named(a))

InUse(e) ==
    \/ e \in ToSet(servers)
    \/ \E a \in Address : e \in index[a]
    \/ \E t \in Thread : \/ e = server[t]
                        \/ e \in gone[t] \cup ToSet(kept[t]) \cup ToSet(todo[t])

\* An object nobody refers to any more is garbage, and its number free.
Objects(addresses, ages) ==
    /\ address' = [e \in Entry |-> IF InUse(e)' THEN addresses[e] ELSE None]
    /\ age' = [e \in Entry |-> IF InUse(e)' THEN ages[e] ELSE 0]

SameObjects == Objects(address, age)

\* A worker is done with an address: the heartbeat goes on to the next one, a
\* shutdown has none.
Done(w) ==
    LET rest == IF left[w] = <<>> THEN <<>> ELSE Tail(left[w])
    IN  /\ left' = [left EXCEPT ![w] = rest]
        /\ server' = [server EXCEPT ![w] = IF rest = <<>> THEN None ELSE @]
        /\ Goto(w, IF rest = <<>> THEN "idle" ELSE "lookup")

-----------------------------------------------------------------------------
\* packet_heartbeat2 with a valid challenge: a server on the emulator's network is
\* registered under the public address first and under its own then.
Heartbeat(w, h) ==
    /\ pc[w] = "idle"
    /\ h \in up
    /\ left' = [left EXCEPT ![w] = IF PublicAs[h] = h THEN <<h>> ELSE <<PublicAs[h], h>>]
    /\ Goto(w, "lookup")
    /\ UNCHANGED <<address, age, listVars, up, due, server, old, gone, kept, todo, missing>>

\* is_server_in_list goes through the list itself; the index would be faster.
FindInIndex(a) == SetToSeq(index[a] \ NoKey)
Find(a) == At(a)

\* Only the first lookup binds what it finds to the variable that is refreshed.
Found(w, a) == IF server[w] = None THEN Head(Find(a)) ELSE server[w]

\* The entry that is there, or a new object.
Lookup(w) ==
    /\ pc[w] = "lookup"
    /\ lock = None
    /\ LET a == Head(left[w]) IN
          IF Find(a) # <<>>
            THEN /\ server' = [server EXCEPT ![w] = Found(w, a)]
                 /\ Goto(w, "refresh")
                 /\ UNCHANGED <<address, age>>
            ELSE /\ \E e \in Entry :
                       /\ ~ InUse(e)
                       /\ \A f \in 1..(e - 1) : InUse(f)
                       /\ server' = [server EXCEPT ![w] = e]
                       /\ address' = [address EXCEPT ![e] = a]
                       /\ age' = [age EXCEPT ![e] = 0]
                 /\ Goto(w, "append")
    /\ old' = [old EXCEPT ![w] = FALSE]
    /\ UNCHANGED <<listVars, up, due, left, gone, kept, todo, missing>>

\* server.time = now, on an entry that may have left the list since.
Refresh(w) ==
    /\ pc[w] = "refresh"
    /\ Done(w)
    /\ UNCHANGED <<listVars, up, due, old, gone, kept, todo, missing>>
    /\ Objects(address, [age EXCEPT ![server[w]] = 0])

\* add_server: self.servers is loaded and then appended to.  If it was replaced in
\* between the entry goes to the list that was dropped.
AppendEntry(w) ==
    /\ pc[w] = "append"
    /\ \/ servers' = Append(servers, server[w])
       \/ old[w] /\ UNCHANGED servers
    /\ old' = [old EXCEPT ![w] = FALSE]
    /\ todo' = [todo EXCEPT ![w] = <<server[w]>>]
    /\ Goto(w, "check")
    /\ UNCHANGED <<address, age, index, lock, up, due, left, server, gone, kept, missing>>

-----------------------------------------------------------------------------
\* packet_shutdown: the entries filed under the sender's own address.
Shutdown(w, h) ==
    /\ pc[w] = "idle"
    /\ h \in up
    /\ up' = up \ {h}
    /\ gone' = [gone EXCEPT ![w] = index[h] \ NoKey]
    /\ Goto(w, "filter")
    /\ UNCHANGED <<address, age, listVars, due, left, server, old, kept, todo, missing>>

FilterTo(t, list) ==
    /\ kept' = [kept EXCEPT ![t] = list]
    /\ Goto(t, "assign")
    /\ UNCHANGED <<servers, index, up, due, left, server, old, todo, missing>>

\* remove_server_by_address filters and assigns under the lock: without it the list of
\* the cleanup thread would be overwritten.
FilterUnlocked(w) ==
    /\ pc[w] = "filter"
    /\ UNCHANGED lock
    /\ gone' = [gone EXCEPT ![w] = {}]
    /\ FilterTo(w, Only(servers, Entry \ gone[w]))
    /\ SameObjects

Filter(w) ==
    /\ pc[w] = "filter"
    /\ lock = None
    /\ lock' = w
    /\ gone' = [gone EXCEPT ![w] = {}]
    /\ FilterTo(w, Only(servers, Entry \ gone[w]))
    /\ SameObjects

\* _cleanup_old_servers wakes up, takes the lock and filters.
Survivors == {e \in Entry : age[e] <= Limit}

CleanUp ==
    /\ pc[Cleaner] = "idle"
    /\ due
    /\ lock = None
    /\ lock' = Cleaner
    /\ FilterTo(Cleaner, Only(servers, Survivors))
    /\ UNCHANGED gone
    /\ SameObjects

\* Only the cleanup thread keeps the lock while it rebuilds the index.
LockAfterForgotten(t) == lock
LockAfter(t) == IF t = Cleaner THEN lock ELSE None

Assign(t) ==
    /\ pc[t] = "assign"
    /\ servers' = kept[t]
    /\ kept' = [kept EXCEPT ![t] = <<>>]
    /\ old' = [w \in Thread |-> pc[w] = "append"]
    /\ lock' = LockAfter(t)
    /\ Goto(t, "clear")
    /\ UNCHANGED <<index, up, due, left, server, gone, todo, missing>>
    /\ SameObjects

\* The cleanup thread goes back to sleep, a worker is done.
Rest(t) ==
    IF t = Cleaner
      THEN /\ lock' = None
           /\ due' = FALSE
           /\ Goto(t, "idle")
           /\ UNCHANGED <<left, server>>
      ELSE /\ Done(t)
           /\ UNCHANGED <<lock, due>>

Clear(t) ==
    /\ pc[t] = "clear"
    /\ index' = [a \in Address |-> NoKey]
    /\ todo' = [todo EXCEPT ![t] = servers]
    /\ IF servers = <<>> THEN Rest(t)
                         ELSE Goto(t, "check") /\ UNCHANGED <<lock, due, left, server>>
    /\ UNCHANGED <<servers, up, old, gone, kept, missing>>
    /\ SameObjects

\* _add_to_index looks whether the address is a key ...
Check(t) ==
    /\ pc[t] = "check"
    /\ missing' = [missing EXCEPT ![t] = index[address[Head(todo[t])]] = NoKey]
    /\ Goto(t, "file")
    /\ UNCHANGED <<address, age, listVars, up, due, left, server, old, gone, kept, todo>>

\* ... and if it was not starts a new list for it, whatever it is by now.
FiledBlindly(t, a) == index[a] \cup {Head(todo[t])}
Filed(t, a) == IF missing[t] THEN {Head(todo[t])} ELSE index[a] \cup {Head(todo[t])}

File(t) ==
    LET a == address[Head(todo[t])]
    IN  /\ pc[t] = "file"
        /\ missing[t] \/ index[a] # NoKey
        /\ index' = [index EXCEPT ![a] = Filed(t, a)]
        /\ todo' = [todo EXCEPT ![t] = Tail(@)]
        /\ missing' = [missing EXCEPT ![t] = FALSE]
        /\ IF Tail(todo[t]) = <<>>
              THEN Rest(t)
              ELSE Goto(t, "check") /\ UNCHANGED <<lock, due, left, server>>
        /\ UNCHANGED <<servers, up, old, gone, kept>>
        /\ SameObjects

\* The key was there and another thread cleared the index: a KeyError, which ends a
\* worker's request and, uncaught, the cleanup thread.
KeyError(t) ==
    /\ pc[t] = "file"
    /\ ~ missing[t]
    /\ index[address[Head(todo[t])]] = NoKey
    /\ todo' = [todo EXCEPT ![t] = <<>>]
    /\ left' = [left EXCEPT ![t] = <<>>]
    /\ server' = [server EXCEPT ![t] = None]
    /\ lock' = IF t = Cleaner THEN None ELSE lock
    /\ due' = (due /\ t # Cleaner)
    /\ Goto(t, IF t = Cleaner THEN "dead" ELSE "idle")
    /\ UNCHANGED <<servers, index, up, old, gone, kept, missing>>
    /\ SameObjects

-----------------------------------------------------------------------------
\* A game server stops without a word, or starts.
Stop(h) ==
    /\ h \in up
    /\ up' = up \ {h}
    /\ UNCHANGED <<address, age, listVars, due, pc, localVars>>

Start(h) ==
    /\ h \notin up
    /\ up' = up \cup {h}
    /\ UNCHANGED <<address, age, listVars, due, pc, localVars>>

\* A minute passes.  No handler takes as long, and the cleanup thread, while there is
\* one, works once in each.
Tick ==
    /\ ~ due
    /\ \A t \in Thread : pc[t] \in {"idle", "dead"}
    /\ due' = (pc[Cleaner] = "idle")
    /\ age' = [e \in Entry |-> IF address[e] # None /\ age[e] <= Limit THEN age[e] + 1
                                                                       ELSE age[e]]
    /\ UNCHANGED <<address, listVars, up, pc, localVars>>

HandleStep(w) == Lookup(w) \/ Refresh(w) \/ AppendEntry(w) \/ Filter(w)

RebuildStep(t) == Assign(t) \/ Clear(t) \/ Check(t) \/ File(t) \/ KeyError(t)

Next ==
    \/ \E w \in Worker, h \in Host : Heartbeat(w, h) \/ Shutdown(w, h)
    \/ \E w \in Worker : HandleStep(w)
    \/ \E t \in Thread : RebuildStep(t)
    \/ CleanUp
    \/ \E h \in Host : Stop(h) \/ Start(h)
    \/ Tick

Spec == Init /\ [][Next]_vars

\* Handlers end, the cleanup thread works when it wakes up, and time passes.  A lock
\* that others take again and again need not be had, nor does time pass while they do.
Fairness ==
    /\ \A w \in Worker : WF_vars(HandleStep(w))
    /\ \A t \in Thread : WF_vars(RebuildStep(t))
    /\ WF_vars(CleanUp)
    /\ WF_vars(Tick)

FairSpec == Spec /\ Fairness

-----------------------------------------------------------------------------
\* The objects, the list, the index and the threads have their types.
TypeOK ==
    /\ address \in [Entry -> Address \cup {None}]
    /\ age \in [Entry -> 0..(Limit + 1)]
    /\ servers \in Seq(Entry)
    /\ index \in [Address -> {NoKey} \cup SUBSET Entry]
    /\ lock \in Thread \cup {None}
    /\ up \subseteq Host
    /\ due \in BOOLEAN
    /\ pc \in [Thread -> Label]
    /\ left \in [Thread -> Seq(Address)]
    /\ server \in [Thread -> Entry \cup {None}]
    /\ old \in [Thread -> BOOLEAN]
    /\ gone \in [Thread -> SUBSET Entry]
    /\ kept \in [Thread -> Seq(Entry)]
    /\ todo \in [Thread -> Seq(Entry)]
    /\ missing \in [Thread -> BOOLEAN]

\* Once the cleanup thread has worked, nothing on the list is older than the limit,
\* whatever shutdowns replaced the list and heartbeats extended it meanwhile.
StaleEntriesGo ==
    pc[Cleaner] = "idle" /\ ~ due => \A e \in ToSet(servers) : age[e] <= Limit

\* Heartbeats that look up an address at the same time register it several times, but
\* never more often than there are workers.
DuplicatesAreBounded ==
    \A a \in Address : Len(At(a)) <= Cardinality(Worker)

\* A game server that stays silent leaves the list under all of its addresses, unless
\* the cleanup thread has died.
Listed(h) == At(h) # <<>> \/ At(PublicAs[h]) # <<>>

SilentServersExpire ==
    \A h \in Host : \/ []<>(h \in up)
                     \/ <>(pc[Cleaner] = "dead")
                     \/ <>[] ~ Listed(h)

\* "Update or create a server instance": a heartbeat that finds the address it deals
\* with on the list makes the entry new.
HeartbeatsRefresh ==
    [][\A w \in Worker :
          pc[w] = "refresh" /\ pc'[w] # "refresh" /\ At(Head(left[w])) # <<>>
             => \E e \in ToSet(At(Head(left[w]))) : age'[e] = 0]_vars
=============================================================================
