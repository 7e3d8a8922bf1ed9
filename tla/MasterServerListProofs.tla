---------------------- MODULE MasterServerListProofs ----------------------
(***************************************************************************)
(* Theorems about MasterServerList, for any workers, game servers and      *)
(* addresses.                                                              *)
(*                                                                         *)
(* The list is filtered under the lock and assigned later, so every list   *)
(* that a thread is about to assign has the properties of the list itself. *)
(* That works because nobody else assigns in between (Locked), and an      *)
(* entry in use keeps its address (InUseAreNamed) and gets younger except  *)
(* when time passes, which it does when no thread is at work.              *)
(***************************************************************************)
EXTENDS MasterServerList, FiniteSetTheorems, SequenceTheorems, TLAPS

Rebuilding == {"clear", "check", "file"}

\* Where a thread is, and what it has in hand there.
HasInHand ==
    /\ pc[Cleaner] \in {"idle", "assign", "dead"} \union Rebuilding
    /\ \A t \in Thread :
          /\ pc[t] \in {"lookup", "refresh", "append"} => left[t] # <<>>
          /\ pc[t] \in {"refresh", "append"} => server[t] \in Entry
          /\ pc[t] = "append" => address[server[t]] = Head(left[t])
          /\ pc[t] \in {"check", "file"} => todo[t] # <<>>

\* What anybody refers to has an address.
InUseAreNamed == \A e \in Entry : InUse(e) => address[e] \in Address

TInv == TypeOK /\ HasInHand /\ InUseAreNamed

\* Who is about to assign the list holds the lock, the cleanup thread until it sleeps.
Locked ==
    /\ lock = Cleaner <=> pc[Cleaner] \in {"assign"} \union Rebuilding
    /\ \A w \in Worker : lock = w <=> pc[w] = "assign"

Young(list) == \A i \in DOMAIN list : age[list[i]] <= Limit

\* The cleanup thread has worked.
CleanedUp ==
    \/ pc[Cleaner] = "idle" /\ ~ due
    \/ pc[Cleaner] \in Rebuilding

YoungInv ==
    /\ CleanedUp => Young(servers)
    /\ pc[Cleaner] = "assign" => Young(kept[Cleaner])
    /\ CleanedUp => \A w \in Worker : pc[w] = "assign" => Young(kept[w])
    /\ \A w \in Worker : pc[w] = "append" => age[server[w]] <= Limit

\* The entries of a list that are for an address.
Count(list, a) == Cardinality(Places(list, Named(a)))

\* Who will add one.
Adding(a) == {w \in Worker : pc[w] = "append" /\ Head(left[w]) = a}

Bounded(list) ==
    \A a \in Address : Count(list, a) + Cardinality(Adding(a)) <= Cardinality(Worker)

CountInv ==
    /\ Bounded(servers)
    /\ \A t \in Thread : pc[t] = "assign" =>
          Bounded(kept[t]) /\ ToSet(kept[t]) \subseteq ToSet(servers)

IInv == TInv /\ Locked /\ YoungInv /\ CountInv

-----------------------------------------------------------------------------
(* Filtering a list.                                                       *)

\* The places of a list are finitely many.
LEMMA PlacesAreFinite ==
    ASSUME NEW E, NEW list \in Seq(E), NEW S
    PROVE  /\ IsFiniteSet(Places(list, S))
           /\ Places(list, S) \subseteq 1..Len(list)
           /\ Cardinality(Places(list, S)) \in Nat
<1>1. Places(list, S) \subseteq 1..Len(list) /\ Len(list) \in Nat
  BY LenProperties DEF Places
<1>2. IsFiniteSet(1..Len(list))
  BY <1>1, FS_Interval
<1> QED  BY <1>1, <1>2, FS_Subset, FS_CardinalityType

\* Of finitely many numbers there is an nth.
LEMMA EveryRank ==
    ASSUME NEW I, I \subseteq Nat, IsFiniteSet(I), NEW n \in 1..Cardinality(I)
    PROVE  \E i \in I : Cardinality({j \in I : j <= i}) = n
<1> DEFINE UpTo(i) == {j \in I : j <= i}
           rank == [i \in I |-> Cardinality(UpTo(i))]
           N == Cardinality(I)
<1>1. N \in Nat
  BY FS_CardinalityType
<1>2. ASSUME NEW i \in I
      PROVE  /\ IsFiniteSet(UpTo(i))
             /\ Cardinality(UpTo(i)) \in 1..N
  <2>1. UpTo(i) \in SUBSET I /\ i \in UpTo(i)
    OBVIOUS
  <2>2. IsFiniteSet(UpTo(i)) /\ Cardinality(UpTo(i)) <= N
    BY <2>1, FS_Subset
  <2>3. Cardinality(UpTo(i)) \in Nat /\ Cardinality(UpTo(i)) # 0
    BY <2>1, <2>2, FS_CardinalityType, FS_EmptySet
  <2> QED  BY <1>1, <2>2, <2>3
<1>3. rank \in [I -> 1..N]
  BY <1>2
<1>4. ASSUME NEW i \in I, NEW k \in I, i < k
      PROVE  rank[i] # rank[k]
  <2>0. i \in Nat /\ k \in Nat /\ \A j \in I : j \in Nat
    OBVIOUS
  <2>1. UpTo(i) \in SUBSET UpTo(k) /\ k \in UpTo(k) /\ k \notin UpTo(i)
    <3>1. \A j \in Nat : j <= i => j <= k
      BY <1>4, <2>0
    <3>2. k <= k /\ ~(k <= i)
      BY <1>4, <2>0
    <3> QED  BY <2>0, <3>1, <3>2
  <2>2. Cardinality(UpTo(i)) # Cardinality(UpTo(k))
    BY <1>2, <2>1, FS_Subset
  <2> QED  BY <2>2
<1>5. \A i, k \in I : rank[i] = rank[k] => i = k
  <2>1. ASSUME NEW i \in I, NEW k \in I, rank[i] = rank[k]
        PROVE  i = k
    <3>1. i \in Nat /\ k \in Nat
      OBVIOUS
    <3>2. ~(i < k) /\ ~(k < i)
      BY <1>4, <2>1
    <3> QED  BY <3>1, <3>2
  <2> QED  BY <2>1
<1> HIDE DEF rank
<1>6. rank \in Injection(I, 1..N)
  BY <1>3, <1>5 DEF Injection, IsInjective
<1>7. IsFiniteSet(1..N) /\ Cardinality(1..N) = N
  BY <1>1, FS_Interval
<1>8. rank \in Surjection(I, 1..N)
  BY <1>6, <1>7, FS_Injection
<1>9. PICK i \in I : rank[i] = n
  BY <1>8 DEF Surjection
<1> QED  BY <1>9 DEF rank

\* A filtered list has the elements at the places that stay, one for each place.
LEMMA OnlyTakes ==
    ASSUME NEW E, NEW list \in Seq(E), NEW S
    PROVE  \E place \in Bijection(1..Cardinality(Places(list, S)), Places(list, S)) :
              Only(list, S) = [n \in 1..Cardinality(Places(list, S)) |-> list[place[n]]]
<1> DEFINE P == Places(list, S)
           N == Cardinality(P)
           Rank(i) == Cardinality({j \in P : j <= i})
           Nth(n) == CHOOSE i \in P : Rank(i) = n
           place == [n \in 1..N |-> Nth(n)]
<1>1. IsFiniteSet(P) /\ P \subseteq Nat /\ N \in Nat
  BY PlacesAreFinite, LenProperties
<1>2. ASSUME NEW n \in 1..N
      PROVE  Nth(n) \in P /\ Rank(Nth(n)) = n
  <2>1. \E i \in P : Rank(i) = n
    BY <1>1, EveryRank
  <2> QED  BY <2>1
<1>3. place \in [1..N -> P]
  BY <1>2
<1>4. \A m, n \in 1..N : place[m] = place[n] => m = n
  <2>1. ASSUME NEW m \in 1..N, NEW n \in 1..N, place[m] = place[n]
        PROVE  m = n
    <3>1. Rank(Nth(m)) = m /\ Rank(Nth(n)) = n
      BY <1>2
    <3>2. Nth(m) = Nth(n)
      BY <2>1
    <3> QED  BY <3>1, <3>2
  <2> QED  BY <2>1
<1>5. Only(list, S) = [n \in 1..N |-> list[place[n]]]
  BY DEF Only
<1> HIDE DEF place
<1>6. place \in Injection(1..N, P)
  BY <1>3, <1>4 DEF Injection, IsInjective
<1>7. Cardinality(1..N) = N
  BY <1>1, FS_Interval
<1>8. place \in Surjection(1..N, P)
  BY <1>1, <1>6, <1>7, FS_Injection
<1> QED  BY <1>5, <1>6, <1>8 DEF Bijection

\* It is a list of the elements that stay.
LEMMA OnlyProperties ==
    ASSUME NEW E, NEW list \in Seq(E), NEW S
    PROVE  /\ Only(list, S) \in Seq(E)
           /\ Len(Only(list, S)) = Cardinality(Places(list, S))
           /\ \A i \in DOMAIN Only(list, S) :
                 Only(list, S)[i] \in S /\ \E j \in DOMAIN list : Only(list, S)[i] = list[j]
           /\ ToSet(Only(list, S)) \subseteq ToSet(list)
<1> DEFINE P == Places(list, S)
           N == Cardinality(P)
<1>1. PICK place \in Bijection(1..N, P) : Only(list, S) = [n \in 1..N |-> list[place[n]]]
  BY OnlyTakes
<1>2. N \in Nat /\ P \subseteq 1..Len(list)
  BY PlacesAreFinite
<1>3. \A n \in 1..N : place[n] \in P
  BY DEF Bijection, Injection
<1>4. DOMAIN Only(list, S) = 1..N
  BY <1>1
<1>5. \A n \in 1..N : /\ Only(list, S)[n] = list[place[n]]
                      /\ place[n] \in DOMAIN list
                      /\ list[place[n]] \in S
  BY <1>1, <1>3 DEF Places
<1>6. \A n \in 1..N : Only(list, S)[n] \in E
  BY <1>5, <1>3, <1>2, ElementOfSeq
<1>7. Only(list, S) \in Seq(E) /\ Len(Only(list, S)) = N
  <2>1. Only(list, S) = [n \in 1..N |-> Only(list, S)[n]]
    BY <1>1
  <2>2. Only(list, S) \in [1..N -> E]
    BY <2>1, <1>6
  <2>3. Only(list, S) \in Seq(E)
    BY <1>2, <2>2, SeqDef
  <2>4. Len(Only(list, S)) \in Nat /\ 1..Len(Only(list, S)) = 1..N
    BY <1>4, <2>3, LenProperties
  <2> QED  BY <1>2, <2>3, <2>4
<1> QED  BY <1>4, <1>5, <1>7 DEF ToSet

\* Filtering adds to the number of no kind of elements.
LEMMA OnlyCounts ==
    ASSUME NEW E, NEW list \in Seq(E), NEW S, NEW T
    PROVE  Cardinality(Places(Only(list, S), T)) <= Cardinality(Places(list, T))
<1> DEFINE P == Places(list, S)
           N == Cardinality(P)
           Q == Places(Only(list, S), T)
<1>1. PICK place \in Bijection(1..N, P) : Only(list, S) = [n \in 1..N |-> list[place[n]]]
  BY OnlyTakes
<1>2. \A m, n \in 1..N : /\ place[n] \in P
                         /\ place[m] = place[n] => m = n
  BY DEF Bijection, Injection, IsInjective
<1>3. Q \subseteq 1..N /\ \A n \in Q : place[n] \in Places(list, T)
  BY <1>1, <1>2 DEF Places
<1> DEFINE there == [n \in Q |-> place[n]]
<1>4. there \in Injection(Q, Places(list, T))
  BY <1>2, <1>3 DEF Injection, IsInjective
<1>5. IsFiniteSet(Places(list, T))
  BY PlacesAreFinite
<1> HIDE DEF there
<1> QED  BY <1>4, <1>5, FS_Injection

-----------------------------------------------------------------------------
(* Types.                                                                  *)

\* The types hold at the start.
LEMMA InitTInv == Init => TInv
<1> SUFFICES ASSUME Init
             PROVE  TInv
  OBVIOUS
<1>1. TypeOK
  <2>1. 0 \in 0..(Limit + 1) /\ <<>> \in Seq(Entry) /\ <<>> \in Seq(Address)
    BY MasterAssumption, EmptySeq
  <2>2. address \in [Entry -> Address \union {None}] /\ age \in [Entry -> 0..(Limit + 1)]
    BY <2>1 DEF Init
  <2>3. /\ servers \in Seq(Entry) /\ index \in [Address -> {NoKey} \union SUBSET Entry]
        /\ lock \in Thread \union {None} /\ up \subseteq Host /\ due \in BOOLEAN
    BY <2>1 DEF Init
  <2>4. /\ pc \in [Thread -> Label] /\ left \in [Thread -> Seq(Address)]
        /\ server \in [Thread -> Entry \union {None}] /\ old \in [Thread -> BOOLEAN]
    BY <2>1 DEF Init, Label
  <2>5. /\ gone \in [Thread -> SUBSET Entry] /\ kept \in [Thread -> Seq(Entry)]
        /\ todo \in [Thread -> Seq(Entry)] /\ missing \in [Thread -> BOOLEAN]
    BY <2>1 DEF Init
  <2> QED  BY <2>2, <2>3, <2>4, <2>5 DEF TypeOK
<1>2. HasInHand
  BY DEF Init, HasInHand, Thread
<1>3. \A e \in Entry : ~ InUse(e)
  BY MasterAssumption DEF Init, InUse, ToSet, NoKey
<1> QED  BY <1>1, <1>2, <1>3 DEF TInv, InUseAreNamed

\* What is referred to keeps its address, as long as nothing else is referred to.
LEMMA ObjectsKept ==
    ASSUME TInv, NEW ages \in [Entry -> 0..(Limit + 1)], Objects(address, ages),
           \A e \in Entry : InUse(e)' => InUse(e)
    PROVE  /\ address' \in [Entry -> Address \union {None}]
           /\ age' \in [Entry -> 0..(Limit + 1)]
           /\ InUseAreNamed'
           /\ \A e \in Entry : /\ InUse(e)' => address'[e] = address[e]
                               /\ age'[e] <= ages[e]
<1>1. \A e \in Entry : /\ address'[e] = IF InUse(e)' THEN address[e] ELSE None
                       /\ age'[e] = IF InUse(e)' THEN ages[e] ELSE 0
  BY DEF Objects
<1>2. 0 \in 0..(Limit + 1) /\ \A e \in Entry : ages[e] \in 0..(Limit + 1) /\ 0 <= ages[e]
  BY MasterAssumption
<1>3. age' \in [Entry -> 0..(Limit + 1)] /\ \A e \in Entry : age'[e] <= ages[e]
  <2>1. age' = [e \in Entry |-> IF InUse(e)' THEN ages[e] ELSE 0]
    BY DEF Objects
  <2> QED  BY <1>2, <2>1
<1>4. address' \in [Entry -> Address \union {None}]
  <2>1. address' = [e \in Entry |-> IF InUse(e)' THEN address[e] ELSE None]
    BY DEF Objects
  <2> QED  BY <2>1 DEF TInv, TypeOK
<1>5. InUseAreNamed'
  BY <1>1 DEF TInv, InUseAreNamed
<1> QED  BY <1>1, <1>3, <1>4, <1>5

\* What the other threads have in hand is not touched.
LEMMA HandsKept ==
    ASSUME TInv, NEW t \in Thread,
           \A u \in Thread \ {t} : /\ pc'[u] = pc[u] /\ left'[u] = left[u]
                                   /\ server'[u] = server[u] /\ todo'[u] = todo[u],
           \A e \in Entry : InUse(e) /\ InUse(e)' => address'[e] = address[e],
           t = Cleaner => pc'[t] \in {"idle", "assign", "dead"} \union Rebuilding,
           pc'[t] \in {"lookup", "refresh", "append"} => left'[t] # <<>>,
           pc'[t] \in {"refresh", "append"} => server'[t] \in Entry,
           pc'[t] = "append" => address'[server'[t]] = Head(left'[t]),
           pc'[t] \in {"check", "file"} => todo'[t] # <<>>
    PROVE  HasInHand'
<1>1. ASSUME NEW u \in Thread \ {t}, pc[u] = "append"
      PROVE  address'[server'[u]] = Head(left'[u])
  <2>1. server[u] \in Entry /\ InUse(server[u]) /\ InUse(server[u])'
    BY <1>1 DEF TInv, HasInHand, InUse
  <2> QED  BY <1>1, <2>1 DEF TInv, HasInHand
<1>2. ASSUME NEW u \in Thread
      PROVE  /\ pc'[u] \in {"lookup", "refresh", "append"} => left'[u] # <<>>
             /\ pc'[u] \in {"refresh", "append"} => server'[u] \in Entry
             /\ pc'[u] = "append" => address'[server'[u]] = Head(left'[u])
             /\ pc'[u] \in {"check", "file"} => todo'[u] # <<>>
  <2>1. CASE u = t
    BY <2>1
  <2>2. CASE u # t
    <3>1. /\ pc'[u] = pc[u] /\ left'[u] = left[u]
          /\ server'[u] = server[u] /\ todo'[u] = todo[u]
      BY <2>2
    <3>2. /\ pc[u] \in {"lookup", "refresh", "append"} => left[u] # <<>>
          /\ pc[u] \in {"refresh", "append"} => server[u] \in Entry
          /\ pc[u] \in {"check", "file"} => todo[u] # <<>>
      BY DEF TInv, HasInHand
    <3> QED  BY <1>1, <2>2, <3>1, <3>2
  <2> QED  BY <2>1, <2>2
<1>3. pc'[Cleaner] \in {"idle", "assign", "dead"} \union Rebuilding
  <2>1. CASE t # Cleaner
    BY <2>1 DEF TInv, HasInHand, Thread
  <2> QED  BY <2>1
<1> QED  BY <1>2, <1>3 DEF HasInHand

\* A worker is done with an address.
LEMMA DoneTypes ==
    ASSUME TInv, NEW w \in Worker, Done(w)
    PROVE  /\ pc' \in [Thread -> Label]
           /\ left' \in [Thread -> Seq(Address)]
           /\ server' \in [Thread -> Entry \union {None}]
           /\ \A u \in Thread \ {w} : pc'[u] = pc[u] /\ left'[u] = left[u] /\ server'[u] = server[u]
           /\ pc'[w] \in {"idle", "lookup"}
           /\ pc'[w] = "lookup" => left'[w] # <<>>
           /\ server'[w] \in {server[w], None}
<1>1. w \in Thread /\ left[w] \in Seq(Address)
  BY DEF Thread, TInv, TypeOK
<1> DEFINE rest == IF left[w] = <<>> THEN <<>> ELSE Tail(left[w])
<1>2. rest \in Seq(Address)
  BY <1>1, EmptySeq, HeadTailProperties
<1>3. /\ left' = [left EXCEPT ![w] = rest]
      /\ server' = [server EXCEPT ![w] = IF rest = <<>> THEN None ELSE @]
      /\ pc' = [pc EXCEPT ![w] = IF rest = <<>> THEN "idle" ELSE "lookup"]
  BY DEF Done, Goto
<1> HIDE DEF rest
<1> QED  BY <1>1, <1>2, <1>3 DEF TInv, TypeOK, Label

\* A thread comes to rest.
LEMMA RestTypes ==
    ASSUME TInv, NEW t \in Thread, Rest(t)
    PROVE  /\ pc' \in [Thread -> Label]
           /\ left' \in [Thread -> Seq(Address)]
           /\ server' \in [Thread -> Entry \union {None}]
           /\ lock' \in Thread \union {None} /\ due' \in BOOLEAN
           /\ \A u \in Thread \ {t} : pc'[u] = pc[u] /\ left'[u] = left[u] /\ server'[u] = server[u]
           /\ pc'[t] \in {"idle", "lookup"}
           /\ pc'[t] = "lookup" => left'[t] # <<>>
           /\ t = Cleaner => pc'[t] = "idle"
           /\ server'[t] \in {server[t], None}
<1>1. CASE t = Cleaner
  BY <1>1 DEF Rest, Goto, TInv, TypeOK, Label
<1>2. CASE t # Cleaner
  <2>1. t \in Worker /\ Done(t) /\ UNCHANGED <<lock, due>>
    BY <1>2 DEF Rest, Thread
  <2> QED  BY <1>2, <2>1, DoneTypes DEF TInv, TypeOK
<1> QED  BY <1>1, <1>2

\* What is referred to was so before, is for the same address and no older.
Steady ==
    \A e \in Entry : InUse(e)' => InUse(e) /\ address'[e] = address[e] /\ age'[e] <= age[e]

\* Who is at work is a thread, and a worker is not the cleanup thread.
LEMMA Threads ==
    /\ Cleaner \in Thread /\ Worker \subseteq Thread /\ Cleaner \notin Worker
    /\ \A t \in Thread : t = Cleaner \/ t \in Worker
    /\ None \notin Thread /\ None \notin Entry /\ None \notin Address
BY MasterAssumption DEF Thread

\* A heartbeat arrives.
LEMMA HeartbeatTypes ==
    ASSUME TInv, NEW w \in Worker, NEW h \in Host, Heartbeat(w, h)
    PROVE  TInv' /\ Steady
<1>1. w \in Thread /\ w # Cleaner
  BY Threads
<1>2. /\ left'[w] # <<>> /\ pc'[w] = "lookup"
      /\ left' \in [Thread -> Seq(Address)]
  <2>1. h \in Address /\ PublicAs[h] \in Address
    BY MasterAssumption
  <2> DEFINE todeal == IF PublicAs[h] = h THEN <<h>> ELSE <<PublicAs[h], h>>
  <2>2. todeal \in Seq(Address) /\ todeal # <<>>
    BY <2>1
  <2>3. left' = [left EXCEPT ![w] = todeal] /\ pc' = [pc EXCEPT ![w] = "lookup"]
    BY DEF Heartbeat, Goto
  <2> HIDE DEF todeal
  <2> QED  BY <1>1, <2>2, <2>3 DEF TInv, TypeOK
<1>3. \A e \in Entry : InUse(e)' <=> InUse(e)
  BY DEF Heartbeat, InUse, listVars
<1>4. Steady
  BY <1>3 DEF Heartbeat, Steady, TInv, TypeOK
<1>5. HasInHand'
  BY <1>1, <1>2, <1>4, HandsKept DEF Heartbeat, Goto, TInv, TypeOK
<1>6. TypeOK'
  BY <1>1, <1>2 DEF Heartbeat, Goto, TInv, TypeOK, listVars, Label
<1> QED  BY <1>3, <1>4, <1>5, <1>6 DEF Heartbeat, TInv, InUseAreNamed

\* A shutdown arrives.
LEMMA ShutdownTypes ==
    ASSUME TInv, NEW w \in Worker, NEW h \in Host, Shutdown(w, h)
    PROVE  TInv' /\ Steady
<1>1. w \in Thread /\ w # Cleaner /\ h \in Address
  BY Threads, MasterAssumption
<1>2. gone'[w] \subseteq Entry /\ gone' \in [Thread -> SUBSET Entry]
  <2>1. index[h] \ NoKey \in SUBSET Entry
    BY <1>1 DEF TInv, TypeOK, NoKey
  <2> QED  BY <1>1, <2>1 DEF Shutdown, TInv, TypeOK
<1>3. \A e \in Entry : InUse(e)' => InUse(e)
  <2>1. gone' = [gone EXCEPT ![w] = index[h] \ NoKey]
    BY DEF Shutdown
  <2>2. \A t \in Thread : gone'[t] \subseteq gone[t] \union index[h]
    BY <2>1 DEF TInv, TypeOK
  <2> QED  BY <1>1, <2>2 DEF Shutdown, InUse, listVars
<1>4. Steady
  BY <1>3 DEF Shutdown, Steady, TInv, TypeOK
<1>5. HasInHand'
  BY <1>1, <1>4, HandsKept DEF Shutdown, Goto, TInv, TypeOK, Rebuilding
<1>6. TypeOK'
  BY <1>1, <1>2 DEF Shutdown, Goto, TInv, TypeOK, listVars, Label
<1> QED  BY <1>3, <1>4, <1>5, <1>6 DEF Shutdown, TInv, InUseAreNamed

\* The entry is refreshed.
LEMMA RefreshTypes ==
    ASSUME TInv, NEW w \in Worker, Refresh(w)
    PROVE  TInv' /\ Steady /\ \A e \in Entry : InUse(e)' /\ e = server[w] => age'[e] = 0
<1>1. w \in Thread /\ w # Cleaner /\ server[w] \in Entry
  BY Threads DEF Refresh, TInv, HasInHand
<1> DEFINE ages == [age EXCEPT ![server[w]] = 0]
<1>2. ages \in [Entry -> 0..(Limit + 1)] /\ \A e \in Entry : ages[e] <= age[e]
  <2>1. 0 \in 0..(Limit + 1) /\ age \in [Entry -> 0..(Limit + 1)]
    BY MasterAssumption DEF TInv, TypeOK
  <2>2. \A e \in Entry : 0 <= age[e] /\ age[e] <= age[e]
    BY <2>1, MasterAssumption
  <2> QED  BY <2>1, <2>2
<1>3. Objects(address, ages) /\ ages[server[w]] = 0 /\ Done(w)
  BY <1>1 DEF Refresh, TInv, TypeOK
<1> HIDE DEF ages
<1>4. \A e \in Entry : InUse(e)' => InUse(e)
  <2>1. \A t \in Thread : server'[t] = server[t] \/ server'[t] = None
    BY <1>3, DoneTypes
  <2> QED  BY <2>1, Threads DEF Refresh, InUse, listVars
<1>5. /\ address' \in [Entry -> Address \union {None}]
      /\ age' \in [Entry -> 0..(Limit + 1)]
      /\ InUseAreNamed'
      /\ \A e \in Entry : /\ InUse(e)' => address'[e] = address[e]
                          /\ age'[e] <= ages[e]
  BY <1>2, <1>3, <1>4, ObjectsKept
<1>6. Steady
  <2>1. \A e \in Entry : age'[e] \in Nat /\ ages[e] \in Nat /\ age[e] \in Nat
    BY <1>2, <1>5, MasterAssumption DEF TInv, TypeOK
  <2> QED  BY <1>2, <1>4, <1>5, <2>1 DEF Steady
<1>7. HasInHand'
  BY <1>1, <1>3, <1>5, DoneTypes, HandsKept DEF Refresh
<1>8. TypeOK'
  BY <1>3, <1>5, DoneTypes DEF Refresh, TInv, TypeOK, listVars
<1>9. \A e \in Entry : InUse(e)' /\ e = server[w] => age'[e] = 0
  BY <1>1, <1>3 DEF Objects
<1> QED  BY <1>5, <1>6, <1>7, <1>8, <1>9 DEF TInv

\* The entry is appended.
LEMMA AppendEntryTypes ==
    ASSUME TInv, NEW w \in Worker, AppendEntry(w)
    PROVE  TInv' /\ Steady
<1>1. w \in Thread /\ w # Cleaner /\ server[w] \in Entry /\ InUse(server[w])
  BY Threads DEF AppendEntry, TInv, HasInHand, InUse
<1>2. /\ servers' \in Seq(Entry)
      /\ \A e \in Entry : e \in ToSet(servers') => e \in ToSet(servers) \/ e = server[w]
  <2>1. CASE servers' = Append(servers, server[w])
    BY <1>1, <2>1, AppendProperties DEF TInv, TypeOK, ToSet
  <2>2. CASE UNCHANGED servers
    BY <2>2 DEF TInv, TypeOK
  <2> QED  BY <2>1, <2>2 DEF AppendEntry
<1>3. /\ todo' \in [Thread -> Seq(Entry)] /\ todo'[w] # <<>>
      /\ \A t \in Thread, e \in Entry : e \in ToSet(todo'[t]) =>
            e \in ToSet(todo[t]) \/ e = server[w]
  <2>1. todo' = [todo EXCEPT ![w] = <<server[w]>>]
    BY DEF AppendEntry
  <2>2. <<server[w]>> \in Seq(Entry) /\ ToSet(<<server[w]>>) = {server[w]}
    BY <1>1 DEF ToSet
  <2> QED  BY <1>1, <2>1, <2>2 DEF TInv, TypeOK
<1>4. \A e \in Entry : InUse(e)' => InUse(e)
  BY <1>1, <1>2, <1>3 DEF AppendEntry, InUse
<1>5. Steady
  BY <1>4 DEF AppendEntry, Steady, TInv, TypeOK
<1>6. HasInHand'
  BY <1>1, <1>3, <1>5, HandsKept DEF AppendEntry, Goto, TInv, TypeOK
<1>7. TypeOK'
  BY <1>1, <1>2, <1>3 DEF AppendEntry, Goto, TInv, TypeOK, Label
<1> QED  BY <1>4, <1>5, <1>6, <1>7 DEF AppendEntry, TInv, InUseAreNamed

\* A list is filtered, to be assigned later.
LEMMA FilterToTypes ==
    ASSUME TInv, NEW t \in Thread, NEW S, FilterTo(t, Only(servers, S)), SameObjects,
           gone' \in [Thread -> SUBSET Entry], \A u \in Thread : gone'[u] \subseteq gone[u],
           lock' \in Thread \union {None}
    PROVE  TInv' /\ Steady
<1>1. /\ Only(servers, S) \in Seq(Entry)
      /\ ToSet(Only(servers, S)) \subseteq ToSet(servers)
  BY OnlyProperties DEF TInv, TypeOK
<1>2. /\ kept' \in [Thread -> Seq(Entry)]
      /\ \A u \in Thread : ToSet(kept'[u]) \subseteq ToSet(kept[u]) \union ToSet(servers)
  <2>1. kept' = [kept EXCEPT ![t] = Only(servers, S)]
    BY DEF FilterTo
  <2> QED  BY <1>1, <2>1 DEF TInv, TypeOK
<1>3. \A e \in Entry : InUse(e)' => InUse(e)
  BY <1>2 DEF FilterTo, InUse
<1>4. Objects(address, age) /\ age \in [Entry -> 0..(Limit + 1)]
  BY DEF SameObjects, TInv, TypeOK
<1>5. /\ address' \in [Entry -> Address \union {None}]
      /\ age' \in [Entry -> 0..(Limit + 1)]
      /\ InUseAreNamed'
      /\ \A e \in Entry : /\ InUse(e)' => address'[e] = address[e]
                          /\ age'[e] <= age[e]
  BY <1>3, <1>4, ObjectsKept
<1>6. Steady
  BY <1>3, <1>5 DEF Steady
<1>7. HasInHand'
  BY <1>5, HandsKept DEF FilterTo, Goto, TInv, TypeOK, Rebuilding
<1>8. TypeOK'
  BY <1>2, <1>5 DEF FilterTo, Goto, TInv, TypeOK, Label
<1> QED  BY <1>5, <1>6, <1>7, <1>8 DEF TInv

\* A shutdown filters the list.
LEMMA FilterTypes ==
    ASSUME TInv, NEW w \in Worker, Filter(w)
    PROVE  TInv' /\ Steady
<1>1. w \in Thread
  BY Threads
<1>2. gone' = [gone EXCEPT ![w] = {}]
  BY DEF Filter
<1>3. gone' \in [Thread -> SUBSET Entry] /\ \A u \in Thread : gone'[u] \subseteq gone[u]
  BY <1>2 DEF TInv, TypeOK
<1> QED  BY <1>1, <1>3, FilterToTypes DEF Filter

\* The cleanup thread filters the list.
LEMMA CleanUpTypes ==
    ASSUME TInv, CleanUp
    PROVE  TInv' /\ Steady
<1>1. gone' \in [Thread -> SUBSET Entry] /\ \A u \in Thread : gone'[u] \subseteq gone[u]
  BY DEF CleanUp, TInv, TypeOK
<1> QED  BY <1>1, Threads, FilterToTypes DEF CleanUp

\* The list is replaced.
LEMMA AssignTypes ==
    ASSUME TInv, NEW t \in Thread, Assign(t)
    PROVE  TInv' /\ Steady
<1>1. /\ kept' \in [Thread -> Seq(Entry)]
      /\ \A u \in Thread : ToSet(kept'[u]) \subseteq ToSet(kept[u])
  <2>1. kept' = [kept EXCEPT ![t] = <<>>] /\ <<>> \in Seq(Entry) /\ ToSet(<<>>) = {}
    BY EmptySeq DEF Assign, ToSet
  <2> QED  BY <2>1 DEF TInv, TypeOK
<1>2. \A e \in Entry : InUse(e)' => InUse(e)
  BY <1>1 DEF Assign, InUse
<1>3. Objects(address, age) /\ age \in [Entry -> 0..(Limit + 1)]
  BY DEF Assign, SameObjects, TInv, TypeOK
<1>4. /\ address' \in [Entry -> Address \union {None}]
      /\ age' \in [Entry -> 0..(Limit + 1)]
      /\ InUseAreNamed'
      /\ \A e \in Entry : /\ InUse(e)' => address'[e] = address[e]
                          /\ age'[e] <= age[e]
  BY <1>2, <1>3, ObjectsKept
<1>5. Steady
  BY <1>2, <1>4 DEF Steady
<1>6. HasInHand'
  BY <1>4, HandsKept DEF Assign, Goto, TInv, TypeOK, Rebuilding
<1>7. lock' \in Thread \union {None} /\ old' \in [Thread -> BOOLEAN] /\ servers' \in Seq(Entry)
  BY DEF Assign, LockAfter, TInv, TypeOK
<1>8. TypeOK'
  BY <1>1, <1>4, <1>7 DEF Assign, Goto, TInv, TypeOK, Label
<1> QED  BY <1>4, <1>5, <1>6, <1>8 DEF TInv

\* The index is emptied.
LEMMA ClearTypes ==
    ASSUME TInv, NEW t \in Thread, Clear(t)
    PROVE  TInv' /\ Steady
<1>1. /\ todo' \in [Thread -> Seq(Entry)]
      /\ todo'[t] = servers
      /\ \A u \in Thread : ToSet(todo'[u]) \subseteq ToSet(todo[u]) \union ToSet(servers)
  BY DEF Clear, TInv, TypeOK
<1>2. /\ pc' \in [Thread -> Label]
      /\ left' \in [Thread -> Seq(Address)]
      /\ server' \in [Thread -> Entry \union {None}]
      /\ lock' \in Thread \union {None} /\ due' \in BOOLEAN
      /\ \A u \in Thread \ {t} : pc'[u] = pc[u] /\ left'[u] = left[u] /\ server'[u] = server[u]
      /\ pc'[t] \in {"idle", "lookup", "check"}
      /\ pc'[t] = "lookup" => left'[t] # <<>>
      /\ t = Cleaner => pc'[t] \in {"idle", "check"}
      /\ pc'[t] = "check" => servers # <<>>
      /\ server'[t] \in {server[t], None}
  <2>1. CASE servers = <<>>
    BY <2>1, RestTypes DEF Clear
  <2>2. CASE servers # <<>>
    BY <2>2 DEF Clear, Goto, TInv, TypeOK, Label
  <2> QED  BY <2>1, <2>2
<1>3. index' \in [Address -> {NoKey} \union SUBSET Entry] /\ \A a \in Address : index'[a] = {None}
  BY DEF Clear, NoKey
<1>4. \A e \in Entry : InUse(e)' => InUse(e)
  <2>1. \A u \in Thread : server'[u] = server[u] \/ server'[u] = None
    BY <1>2
  <2> QED  BY <1>1, <1>3, <2>1, Threads DEF Clear, InUse
<1>5. Objects(address, age) /\ age \in [Entry -> 0..(Limit + 1)]
  BY DEF Clear, SameObjects, TInv, TypeOK
<1>6. /\ address' \in [Entry -> Address \union {None}]
      /\ age' \in [Entry -> 0..(Limit + 1)]
      /\ InUseAreNamed'
      /\ \A e \in Entry : /\ InUse(e)' => address'[e] = address[e]
                          /\ age'[e] <= age[e]
  BY <1>4, <1>5, ObjectsKept
<1>7. Steady
  BY <1>4, <1>6 DEF Steady
<1>8. HasInHand'
  BY <1>1, <1>2, <1>6, HandsKept DEF Clear, TInv, TypeOK, Rebuilding
<1>9. TypeOK'
  BY <1>1, <1>2, <1>3, <1>6 DEF Clear, TInv, TypeOK
<1> QED  BY <1>6, <1>7, <1>8, <1>9 DEF TInv

\* The index is looked at.
LEMMA CheckTypes ==
    ASSUME TInv, NEW t \in Thread, Check(t)
    PROVE  TInv' /\ Steady
<1>1. missing' \in [Thread -> BOOLEAN]
  BY DEF Check, TInv, TypeOK
<1>2. \A e \in Entry : InUse(e)' <=> InUse(e)
  BY DEF Check, InUse, listVars
<1>3. Steady
  BY <1>2, MasterAssumption DEF Check, Steady, TInv, TypeOK
<1>4. HasInHand'
  <2>1. todo[t] # <<>>
    BY DEF Check, TInv, HasInHand
  <2> QED  BY <1>3, <2>1, HandsKept DEF Check, Goto, TInv, TypeOK, Rebuilding
<1>5. TypeOK'
  BY <1>1 DEF Check, Goto, TInv, TypeOK, listVars, Label
<1> QED  BY <1>2, <1>3, <1>4, <1>5 DEF Check, TInv, InUseAreNamed

\* An entry is filed.
LEMMA FileTypes ==
    ASSUME TInv, NEW t \in Thread, File(t)
    PROVE  TInv' /\ Steady
<1> DEFINE first == Head(todo[t])
           rest == Tail(todo[t])
<1>1. /\ todo[t] \in Seq(Entry) /\ first \in Entry /\ rest \in Seq(Entry)
      /\ first \in ToSet(todo[t]) /\ ToSet(rest) \subseteq ToSet(todo[t])
      /\ InUse(first) /\ address[first] \in Address
  <2>1. todo[t] \in Seq(Entry) /\ todo[t] # <<>>
    BY DEF File, TInv, TypeOK, HasInHand
  <2>2. /\ first \in Entry /\ rest \in Seq(Entry)
        /\ first \in ToSet(todo[t]) /\ ToSet(rest) \subseteq ToSet(todo[t])
    BY <2>1, HeadTailProperties, LenProperties, EmptySeq DEF ToSet
  <2> QED  BY <2>1, <2>2 DEF InUse, TInv, InUseAreNamed
<1>2. /\ todo' = [todo EXCEPT ![t] = rest]
      /\ index' = [index EXCEPT ![address[first]] = Filed(t, address[first])]
      /\ missing' = [missing EXCEPT ![t] = FALSE]
      /\ IF rest = <<>> THEN Rest(t) ELSE Goto(t, "check") /\ UNCHANGED <<lock, due, left, server>>
      /\ UNCHANGED <<servers, up, old, gone, kept>>
      /\ SameObjects
      /\ pc[t] = "file"
  BY DEF File
<1>3. /\ Filed(t, address[first]) \in SUBSET Entry
      /\ Filed(t, address[first]) \subseteq index[address[first]] \union {first}
  <2>1. missing[t] \/ index[address[first]] \in SUBSET Entry
    BY <1>1 DEF File, TInv, TypeOK
  <2> QED  BY <1>1, <2>1 DEF Filed
<1> HIDE DEF first, rest
<1>4. /\ todo' \in [Thread -> Seq(Entry)]
      /\ todo'[t] = rest
      /\ \A u \in Thread : ToSet(todo'[u]) \subseteq ToSet(todo[u])
  BY <1>1, <1>2 DEF TInv, TypeOK
<1>5. /\ pc' \in [Thread -> Label]
      /\ left' \in [Thread -> Seq(Address)]
      /\ server' \in [Thread -> Entry \union {None}]
      /\ lock' \in Thread \union {None} /\ due' \in BOOLEAN
      /\ \A u \in Thread \ {t} : pc'[u] = pc[u] /\ left'[u] = left[u] /\ server'[u] = server[u]
      /\ pc'[t] \in {"idle", "lookup", "check"}
      /\ pc'[t] = "lookup" => left'[t] # <<>>
      /\ t = Cleaner => pc'[t] \in {"idle", "check"}
      /\ pc'[t] = "check" => rest # <<>>
      /\ server'[t] \in {server[t], None}
  <2>1. CASE rest = <<>>
    BY <1>2, <2>1, RestTypes
  <2>2. CASE rest # <<>>
    BY <1>2, <2>2 DEF Goto, TInv, TypeOK, Label
  <2> QED  BY <2>1, <2>2
<1>6. /\ index' \in [Address -> {NoKey} \union SUBSET Entry]
      /\ \A a \in Address : index'[a] \subseteq index[a] \union {first}
  BY <1>1, <1>2, <1>3 DEF TInv, TypeOK
<1>7. \A e \in Entry : InUse(e)' => InUse(e)
  <2>1. \A u \in Thread : server'[u] = server[u] \/ server'[u] = None
    BY <1>5
  <2> QED  BY <1>1, <1>2, <1>4, <1>6, <2>1, Threads DEF InUse
<1>8. Objects(address, age) /\ age \in [Entry -> 0..(Limit + 1)]
  BY <1>2 DEF SameObjects, TInv, TypeOK
<1>9. /\ address' \in [Entry -> Address \union {None}]
      /\ age' \in [Entry -> 0..(Limit + 1)]
      /\ InUseAreNamed'
      /\ \A e \in Entry : /\ InUse(e)' => address'[e] = address[e]
                          /\ age'[e] <= age[e]
  BY <1>7, <1>8, ObjectsKept
<1>10. Steady
  BY <1>7, <1>9 DEF Steady
<1>11. HasInHand'
  BY <1>2, <1>4, <1>5, <1>9, HandsKept DEF TInv, TypeOK, Rebuilding
<1>12. missing' \in [Thread -> BOOLEAN]
  BY <1>2 DEF TInv, TypeOK
<1>13. TypeOK'
  BY <1>2, <1>4, <1>5, <1>6, <1>9, <1>12 DEF TInv, TypeOK
<1> QED  BY <1>9, <1>10, <1>11, <1>13 DEF TInv

\* The key that was there is gone.
LEMMA KeyErrorTypes ==
    ASSUME TInv, NEW t \in Thread, KeyError(t)
    PROVE  TInv' /\ Steady
<1>1. <<>> \in Seq(Entry) /\ <<>> \in Seq(Address) /\ ToSet(<<>>) = {}
  BY EmptySeq DEF ToSet
<1>2. /\ todo' = [todo EXCEPT ![t] = <<>>] /\ left' = [left EXCEPT ![t] = <<>>]
      /\ server' = [server EXCEPT ![t] = None]
      /\ pc' = [pc EXCEPT ![t] = IF t = Cleaner THEN "dead" ELSE "idle"]
  BY DEF KeyError, Goto
<1>3. /\ todo' \in [Thread -> Seq(Entry)] /\ left' \in [Thread -> Seq(Address)]
      /\ server' \in [Thread -> Entry \union {None}] /\ pc' \in [Thread -> Label]
      /\ lock' \in Thread \union {None} /\ due' \in BOOLEAN
  BY <1>1, <1>2 DEF KeyError, TInv, TypeOK, Label
<1>4. \A e \in Entry : InUse(e)' => InUse(e)
  <2>1. \A u \in Thread : ToSet(todo'[u]) \subseteq ToSet(todo[u])
    BY <1>1, <1>2 DEF TInv, TypeOK
  <2>2. \A u \in Thread : server'[u] = server[u] \/ server'[u] = None
    BY <1>2 DEF TInv, TypeOK
  <2> QED  BY <2>1, <2>2, Threads DEF KeyError, InUse
<1>5. Objects(address, age) /\ age \in [Entry -> 0..(Limit + 1)]
  BY DEF KeyError, SameObjects, TInv, TypeOK
<1>6. /\ address' \in [Entry -> Address \union {None}]
      /\ age' \in [Entry -> 0..(Limit + 1)]
      /\ InUseAreNamed'
      /\ \A e \in Entry : /\ InUse(e)' => address'[e] = address[e]
                          /\ age'[e] <= age[e]
  BY <1>4, <1>5, ObjectsKept
<1>7. Steady
  BY <1>4, <1>6 DEF Steady
<1>8. HasInHand'
  BY <1>2, <1>6, HandsKept DEF TInv, TypeOK
<1>9. TypeOK'
  BY <1>3, <1>6 DEF KeyError, TInv, TypeOK
<1> QED  BY <1>6, <1>7, <1>8, <1>9 DEF TInv

\* The first entry listed under an address is on the list.
LEMMA FoundIsListed ==
    ASSUME TypeOK, NEW a, Find(a) # <<>>
    PROVE  /\ Head(Find(a)) \in Entry /\ Head(Find(a)) \in ToSet(servers)
           /\ Find(a) \in Seq(Entry)
<1>1. Find(a) \in Seq(Entry) /\ ToSet(Find(a)) \subseteq ToSet(servers)
  BY OnlyProperties DEF Find, At, TypeOK
<1>2. Head(Find(a)) \in Entry /\ Head(Find(a)) = Find(a)[1] /\ 1 \in DOMAIN Find(a)
  BY <1>1, HeadTailProperties, LenProperties, EmptySeq
<1> QED  BY <1>1, <1>2 DEF ToSet

\* An entry is found.
LEMMA LookupFindsTypes ==
    ASSUME TInv, NEW w \in Worker, Lookup(w), Find(Head(left[w])) # <<>>
    PROVE  TInv' /\ Steady
<1> DEFINE a == Head(left[w])
<1>1. w \in Thread /\ w # Cleaner
  BY Threads
<1>2. Found(w, a) \in Entry /\ InUse(Found(w, a))
  <2>1. CASE server[w] = None
    BY <2>1, FoundIsListed DEF Found, InUse, TInv
  <2>2. CASE server[w] # None
    BY <1>1, <2>2 DEF Found, InUse, TInv, TypeOK
  <2> QED  BY <2>1, <2>2
<1>3. /\ server' = [server EXCEPT ![w] = Found(w, a)]
      /\ pc' = [pc EXCEPT ![w] = "refresh"]
      /\ old' = [old EXCEPT ![w] = FALSE]
      /\ UNCHANGED <<address, age, listVars, up, due, left, gone, kept, todo, missing>>
  BY DEF Lookup, Goto
<1> HIDE DEF a
<1>4. /\ server' \in [Thread -> Entry \union {None}]
      /\ server'[w] = Found(w, a)
      /\ \A u \in Thread \ {w} : server'[u] = server[u]
  BY <1>1, <1>2, <1>3 DEF TInv, TypeOK
<1>5. \A e \in Entry : InUse(e)' => InUse(e)
  BY <1>2, <1>3, <1>4 DEF InUse, listVars
<1>6. Steady
  BY <1>3, <1>5, MasterAssumption DEF Steady, TInv, TypeOK
<1>7. HasInHand'
  <2>1. left[w] # <<>>
    BY <1>1 DEF Lookup, TInv, HasInHand
  <2> QED  BY <1>1, <1>2, <1>3, <1>4, <1>6, <2>1, HandsKept DEF TInv, TypeOK
<1>8. TypeOK'
  BY <1>3, <1>4 DEF TInv, TypeOK, listVars, Label
<1> QED  BY <1>3, <1>5, <1>6, <1>7, <1>8 DEF TInv, InUseAreNamed

\* An entry is created.
LEMMA LookupCreatesTypes ==
    ASSUME TInv, NEW w \in Worker, Lookup(w), Find(Head(left[w])) = <<>>
    PROVE  /\ TInv'
           /\ \A e \in Entry : InUse(e) => address'[e] = address[e] /\ age'[e] = age[e]
           /\ age'[server'[w]] = 0 /\ pc'[w] = "append"
<1> DEFINE a == Head(left[w])
<1>1. w \in Thread /\ w # Cleaner
  BY Threads
<1>2. PICK new \in Entry : /\ ~ InUse(new)
                           /\ server' = [server EXCEPT ![w] = new]
                           /\ address' = [address EXCEPT ![new] = a]
                           /\ age' = [age EXCEPT ![new] = 0]
  BY DEF Lookup
<1>3. left[w] # <<>> /\ a \in Address
  BY <1>1, HeadTailProperties, EmptySeq DEF Lookup, TInv, TypeOK, HasInHand
<1>4. /\ pc' = [pc EXCEPT ![w] = "append"]
      /\ old' = [old EXCEPT ![w] = FALSE]
      /\ UNCHANGED <<listVars, up, due, left, gone, kept, todo, missing>>
  BY DEF Lookup, Goto
<1> HIDE DEF a
<1>5. /\ server' \in [Thread -> Entry \union {None}]
      /\ server'[w] = new
      /\ \A u \in Thread \ {w} : server'[u] = server[u]
  BY <1>1, <1>2 DEF TInv, TypeOK
<1>6. \A e \in Entry : InUse(e)' => InUse(e) \/ e = new
  BY <1>4, <1>5 DEF InUse, listVars
<1>7. /\ address' \in [Entry -> Address \union {None}] /\ address'[new] = a
      /\ \A e \in Entry : e # new => address'[e] = address[e]
  BY <1>2, <1>3 DEF TInv, TypeOK
<1>8. /\ age' \in [Entry -> 0..(Limit + 1)] /\ age'[new] = 0
      /\ \A e \in Entry : e # new => age'[e] = age[e]
  <2>1. 0 \in 0..(Limit + 1)
    BY MasterAssumption
  <2> QED  BY <1>2, <2>1 DEF TInv, TypeOK
<1>9. InUseAreNamed'
  BY <1>3, <1>6, <1>7 DEF TInv, InUseAreNamed
<1>10. HasInHand'
  <2>1. left'[w] = left[w] /\ a = Head(left'[w])
    BY <1>4 DEF a
  <2>2. \A e \in Entry : InUse(e) => address'[e] = address[e]
    BY <1>2, <1>7
  <2> QED  BY <1>1, <1>3, <1>4, <1>5, <1>7, <2>1, <2>2, HandsKept DEF TInv, TypeOK
<1>11. TypeOK'
  BY <1>4, <1>5, <1>7, <1>8 DEF TInv, TypeOK, listVars, Label
<1>12. pc'[w] = "append"
  BY <1>1, <1>4 DEF TInv, TypeOK
<1> QED  BY <1>2, <1>5, <1>7, <1>8, <1>9, <1>10, <1>11, <1>12 DEF TInv

\* Game servers come and go, and nothing else.
LEMMA StopStartTypes ==
    ASSUME TInv, NEW h \in Host, Stop(h) \/ Start(h)
    PROVE  TInv' /\ Steady
<1>1. UNCHANGED <<address, age, listVars, due, pc, localVars>> /\ up' \subseteq Host
  BY DEF Stop, Start, TInv, TypeOK
<1>2. \A e \in Entry : InUse(e)' <=> InUse(e)
  BY <1>1 DEF InUse, listVars, localVars
<1>3. Steady
  BY <1>1, <1>2, MasterAssumption DEF Steady, TInv, TypeOK
<1>4. HasInHand'
  BY <1>1 DEF TInv, HasInHand, localVars
<1>5. TypeOK'
  BY <1>1 DEF TInv, TypeOK, listVars, localVars
<1> QED  BY <1>1, <1>2, <1>3, <1>4, <1>5 DEF TInv, InUseAreNamed

\* A minute passes.
LEMMA TickTypes ==
    ASSUME TInv, Tick
    PROVE  TInv'
<1>1. /\ age' \in [Entry -> 0..(Limit + 1)]
      /\ due' \in BOOLEAN
      /\ UNCHANGED <<address, listVars, up, pc, localVars>>
  <2>1. age' = [e \in Entry |-> IF address[e] # None /\ age[e] <= Limit THEN age[e] + 1
                                                                       ELSE age[e]]
    BY DEF Tick
  <2>2. \A e \in Entry : age[e] \in 0..(Limit + 1)
    BY DEF TInv, TypeOK
  <2>3. \A e \in Entry : age[e] <= Limit => age[e] + 1 \in 0..(Limit + 1)
    BY <2>2, MasterAssumption
  <2> QED  BY <2>1, <2>2, <2>3 DEF Tick
<1>2. \A e \in Entry : InUse(e)' <=> InUse(e)
  BY <1>1 DEF InUse, listVars, localVars
<1>3. HasInHand'
  BY <1>1 DEF TInv, HasInHand, localVars
<1>4. TypeOK'
  BY <1>1 DEF TInv, TypeOK, listVars, localVars
<1> QED  BY <1>1, <1>2, <1>3, <1>4 DEF TInv, InUseAreNamed

\* Nothing changes.
LEMMA StutterTypes ==
    ASSUME TInv, UNCHANGED vars
    PROVE  TInv' /\ Steady
<1>1. UNCHANGED <<address, age, listVars, up, due, pc, localVars>>
  BY DEF vars
<1>2. \A e \in Entry : InUse(e)' <=> InUse(e)
  BY <1>1 DEF InUse, listVars, localVars
<1>3. Steady
  BY <1>1, <1>2, MasterAssumption DEF Steady, TInv, TypeOK
<1>4. HasInHand' /\ TypeOK'
  BY <1>1 DEF TInv, HasInHand, TypeOK, listVars, localVars
<1> QED  BY <1>1, <1>2, <1>3, <1>4 DEF TInv, InUseAreNamed

\* Every step of a rebuild.
LEMMA RebuildTypes ==
    ASSUME TInv, NEW t \in Thread, RebuildStep(t)
    PROVE  TInv' /\ Steady
BY AssignTypes, ClearTypes, CheckTypes, FileTypes, KeyErrorTypes DEF RebuildStep

\* The types are kept.
LEMMA NextTInv == TInv /\ [Next]_vars => TInv'
<1> SUFFICES ASSUME TInv, [Next]_vars
             PROVE  TInv'
  OBVIOUS
<1>1. CASE \E w \in Worker, h \in Host : Heartbeat(w, h) \/ Shutdown(w, h)
  BY <1>1, HeartbeatTypes, ShutdownTypes
<1>2. CASE \E w \in Worker : HandleStep(w)
  BY <1>2, LookupFindsTypes, LookupCreatesTypes, RefreshTypes, AppendEntryTypes, FilterTypes
     DEF HandleStep
<1>3. CASE \E t \in Thread : RebuildStep(t)
  BY <1>3, RebuildTypes
<1>4. CASE CleanUp
  BY <1>4, CleanUpTypes
<1>5. CASE \E h \in Host : Stop(h) \/ Start(h)
  BY <1>5, StopStartTypes
<1>6. CASE Tick
  BY <1>6, TickTypes
<1>7. CASE UNCHANGED vars
  BY <1>7, StutterTypes
<1> QED  BY <1>1, <1>2, <1>3, <1>4, <1>5, <1>6, <1>7 DEF Next

-----------------------------------------------------------------------------
(* The lock.                                                               *)

\* A worker that neither comes to the assignment nor from it leaves the lock alone.
LEMMA LockLeftAlone ==
    ASSUME Locked, NEW w \in Worker, pc[w] # "assign", pc'[w] # "assign", lock' = lock,
           \A u \in Thread \ {w} : pc'[u] = pc[u]
    PROVE  Locked'
<1>1. pc'[Cleaner] = pc[Cleaner]
  BY Threads
<1>2. ASSUME NEW u \in Worker
      PROVE  lock' = u <=> pc'[u] = "assign"
  <2>1. CASE u = w
    BY <2>1 DEF Locked
  <2>2. CASE u # w
    BY <2>2, Threads DEF Locked
  <2> QED  BY <2>1, <2>2
<1> QED  BY <1>1, <1>2 DEF Locked

\* Who filters takes the lock.
LEMMA LockTaken ==
    ASSUME TInv, Locked, NEW t \in Thread, lock = None, lock' = t, Goto(t, "assign")
    PROVE  Locked'
<1>1. /\ pc'[t] = "assign"
      /\ \A u \in Thread \ {t} : pc'[u] = pc[u]
  BY DEF Goto, TInv, TypeOK
<1>2. /\ pc[Cleaner] \notin {"assign"} \union Rebuilding
      /\ \A w \in Worker : pc[w] # "assign"
  BY Threads DEF Locked
<1> QED  BY <1>1, <1>2, Threads DEF Locked

\* The cleanup thread keeps the lock until it sleeps, a worker until it has assigned.
LEMMA RebuildLocked ==
    ASSUME TInv, Locked, NEW t \in Thread, RebuildStep(t)
    PROVE  Locked'
<1>1. \A u \in Thread \ {t} : pc'[u] = pc[u]
  <2>1. CASE Assign(t) \/ Check(t) \/ KeyError(t)
    BY <2>1 DEF Assign, Check, KeyError, Goto, TInv, TypeOK
  <2>2. CASE Clear(t)
    BY <2>2, RestTypes DEF Clear, Goto, TInv, TypeOK
  <2>3. CASE File(t)
    BY <2>3, RestTypes DEF File, Goto, TInv, TypeOK
  <2> QED  BY <2>1, <2>2, <2>3 DEF RebuildStep
<1>2. CASE t = Cleaner
  <2>1. lock = Cleaner /\ \A w \in Worker : pc'[w] = pc[w] /\ pc[w] # "assign"
    BY <1>1, <1>2, Threads
       DEF RebuildStep, Assign, Clear, Check, File, KeyError, Locked, Rebuilding
  <2>2. \/ lock' = Cleaner /\ pc'[Cleaner] \in Rebuilding
        \/ lock' = None /\ pc'[Cleaner] \in {"idle", "dead"}
    <3>1. CASE Assign(t) \/ Check(t) \/ KeyError(t)
      BY <1>2, <2>1, <3>1
         DEF Assign, Check, KeyError, LockAfter, Goto, TInv, TypeOK, listVars, Rebuilding
    <3>2. CASE Clear(t)
      BY <1>2, <2>1, <3>2 DEF Clear, Rest, Goto, TInv, TypeOK, Rebuilding
    <3>3. CASE File(t)
      BY <1>2, <2>1, <3>3 DEF File, Rest, Goto, TInv, TypeOK, Rebuilding
    <3> QED  BY <3>1, <3>2, <3>3 DEF RebuildStep
  <2> QED  BY <2>1, <2>2, Threads DEF Locked, Rebuilding
<1>3. CASE t # Cleaner
  <2>1. t \in Worker /\ pc'[Cleaner] = pc[Cleaner]
    BY <1>1, <1>3, Threads
  <2>2. CASE Assign(t)
    <3>1. lock = t /\ lock' = None /\ pc'[t] = "clear"
      BY <1>3, <2>1, <2>2 DEF Assign, LockAfter, Goto, Locked, TInv, TypeOK
    <3>2. \A w \in Worker : pc'[w] # "assign"
      BY <1>1, <3>1, Threads DEF Locked
    <3> QED  BY <1>3, <2>1, <3>1, <3>2, Threads DEF Locked
  <2>3. CASE ~ Assign(t)
    <3>1. pc[t] # "assign"
      BY <2>3 DEF RebuildStep, Clear, Check, File, KeyError
    <3>2. pc'[t] # "assign" /\ lock' = lock
      <4>1. CASE Check(t) \/ KeyError(t)
        BY <1>3, <4>1 DEF Check, KeyError, Goto, TInv, TypeOK, listVars
      <4>2. CASE Clear(t)
        BY <1>3, <4>2, RestTypes DEF Clear, Rest, Goto, TInv, TypeOK
      <4>3. CASE File(t)
        BY <1>3, <4>3, RestTypes DEF File, Rest, Goto, TInv, TypeOK
      <4> QED  BY <2>3, <4>1, <4>2, <4>3 DEF RebuildStep
    <3> QED  BY <1>1, <2>1, <3>1, <3>2, LockLeftAlone
  <2> QED  BY <2>2, <2>3
<1> QED  BY <1>2, <1>3

\* The lock is held by whoever is about to assign.
LEMMA NextLocked == TInv /\ Locked /\ [Next]_vars => Locked'
<1> SUFFICES ASSUME TInv, Locked, [Next]_vars
             PROVE  Locked'
  OBVIOUS
<1>1. ASSUME NEW w \in Worker, NEW h \in Host, Heartbeat(w, h) \/ Shutdown(w, h)
      PROVE  Locked'
  <2>1. /\ pc[w] # "assign" /\ pc'[w] # "assign" /\ lock' = lock
        /\ \A u \in Thread \ {w} : pc'[u] = pc[u]
    BY <1>1, Threads DEF Heartbeat, Shutdown, Goto, TInv, TypeOK, listVars
  <2> QED  BY <2>1, LockLeftAlone
<1>2. ASSUME NEW w \in Worker, Lookup(w) \/ Refresh(w) \/ AppendEntry(w)
      PROVE  Locked'
  <2>1. pc[w] # "assign" /\ lock' = lock
    BY <1>2 DEF Lookup, Refresh, AppendEntry, listVars
  <2>2. pc'[w] # "assign" /\ \A u \in Thread \ {w} : pc'[u] = pc[u]
    <3>1. CASE Lookup(w)
      BY <3>1, Threads DEF Lookup, Goto, TInv, TypeOK
    <3>2. CASE Refresh(w)
      BY <3>2, DoneTypes DEF Refresh
    <3>3. CASE AppendEntry(w)
      BY <3>3, Threads DEF AppendEntry, Goto, TInv, TypeOK
    <3> QED  BY <1>2, <3>1, <3>2, <3>3
  <2> QED  BY <2>1, <2>2, LockLeftAlone
<1>3. ASSUME NEW w \in Worker, Filter(w)
      PROVE  Locked'
  BY <1>3, LockTaken, Threads DEF Filter, FilterTo
<1>4. CASE \E t \in Thread : RebuildStep(t)
  BY <1>4, RebuildLocked
<1>5. CASE CleanUp
  BY <1>5, LockTaken, Threads DEF CleanUp, FilterTo
<1>6. CASE \/ \E h \in Host : Stop(h) \/ Start(h)
           \/ Tick
           \/ UNCHANGED vars
  <2>1. lock' = lock /\ pc' = pc
    BY <1>6 DEF Stop, Start, Tick, vars, listVars
  <2> QED  BY <2>1 DEF Locked
<1> QED  BY <1>1, <1>2, <1>3, <1>4, <1>5, <1>6 DEF Next, HandleStep

\* Nobody else assigns meanwhile.
LEMMA OneAssigns ==
    ASSUME Locked, NEW t \in Thread, pc[t] = "assign"
    PROVE  \A u \in Thread : pc[u] = "assign" => u = t
BY Threads DEF Locked, Rebuilding

-----------------------------------------------------------------------------
(* What is on the list is young once the cleanup thread has worked.        *)

\* What stays referred to is for the same address and no older.
Keeps ==
    \A e \in Entry : InUse(e) /\ InUse(e)' => address'[e] = address[e] /\ age'[e] <= age[e]

\* Ages are numbers.
LEMMA Ages ==
    ASSUME TypeOK
    PROVE  Limit \in Nat /\ \A e \in Entry : age[e] \in Nat
BY MasterAssumption DEF TypeOK

\* A list of entries that stay in use stays young.
LEMMA ListStaysYoung ==
    ASSUME TInv, TInv', Keeps, NEW list \in Seq(Entry),
           \A e \in ToSet(list) : InUse(e) /\ InUse(e)',
           \A i \in DOMAIN list : age[list[i]] <= Limit
    PROVE  \A i \in DOMAIN list : age'[list[i]] <= Limit
<1>1. ASSUME NEW i \in DOMAIN list
      PROVE  age'[list[i]] <= Limit
  <2>1. list[i] \in Entry /\ list[i] \in ToSet(list)
    BY ElementOfSeq, LenProperties DEF ToSet
  <2>2. age'[list[i]] <= age[list[i]] /\ age[list[i]] <= Limit
    BY <2>1 DEF Keeps
  <2>3. age[list[i]] \in Nat /\ age'[list[i]] \in Nat /\ Limit \in Nat
    BY <2>1, MasterAssumption DEF TInv, TypeOK
  <2> QED  BY <2>2, <2>3
<1> QED  BY <1>1

\* The lists and who is about to assign them stay, and an entry about to be appended is
\* new or was so before.
LEMMA YoungKept ==
    ASSUME TInv, TInv', YoungInv, Keeps, servers' = servers, CleanedUp' => CleanedUp,
           \A t \in Thread : pc'[t] = "assign" => pc[t] = "assign" /\ kept'[t] = kept[t],
           \A w \in Worker : pc'[w] = "append" =>
              \/ pc[w] = "append" /\ server'[w] = server[w]
              \/ age'[server'[w]] <= Limit
    PROVE  YoungInv'
<1>1. CleanedUp' => Young(servers)'
  <2>1. \A e \in ToSet(servers) : InUse(e) /\ InUse(e)'
    BY DEF InUse
  <2> QED  BY <2>1, ListStaysYoung DEF YoungInv, Young, TInv, TypeOK
<1>2. ASSUME NEW t \in Thread, pc'[t] = "assign", Young(kept[t])
      PROVE  Young(kept[t])'
  <2>1. kept'[t] = kept[t] /\ kept[t] \in Seq(Entry)
    BY <1>2 DEF TInv, TypeOK
  <2>2. \A e \in ToSet(kept[t]) : InUse(e) /\ InUse(e)'
    BY <2>1 DEF InUse
  <2> QED  BY <1>2, <2>1, <2>2, ListStaysYoung DEF Young
<1>3. ASSUME NEW w \in Worker, pc'[w] = "append"
      PROVE  age'[server'[w]] <= Limit
  <2>1. CASE pc[w] = "append" /\ server'[w] = server[w]
    <3>1. server[w] \in Entry /\ InUse(server[w]) /\ InUse(server[w])'
      BY <2>1, Threads DEF TInv, HasInHand, InUse
    <3>2. age'[server[w]] <= age[server[w]] /\ age[server[w]] <= Limit
      BY <2>1, <3>1 DEF Keeps, YoungInv
    <3>3. age[server[w]] \in Nat /\ age'[server[w]] \in Nat /\ Limit \in Nat
      BY <3>1, MasterAssumption DEF TInv, TypeOK
    <3> QED  BY <2>1, <3>2, <3>3
  <2> QED  BY <1>3, <2>1
<1>4. pc'[Cleaner] = "assign" => Young(kept[Cleaner])'
  BY <1>2, Threads DEF YoungInv
<1>5. CleanedUp' => \A w \in Worker : pc'[w] = "assign" => Young(kept[w])'
  BY <1>2, Threads DEF YoungInv
<1> QED  BY <1>1, <1>3, <1>4, <1>5 DEF YoungInv

\* A heartbeat appends an entry.
LEMMA AppendEntryYoung ==
    ASSUME TInv, TInv', YoungInv, Steady, NEW w \in Worker, AppendEntry(w)
    PROVE  YoungInv'
<1>1. /\ w \in Thread /\ server[w] \in Entry /\ age[server[w]] <= Limit
      /\ pc' = [pc EXCEPT ![w] = "check"] /\ UNCHANGED <<age, due, server, kept>>
      /\ servers' = servers \/ servers' = Append(servers, server[w])
  BY Threads DEF AppendEntry, Goto, YoungInv, TInv, HasInHand
<1>2. /\ \A t \in Thread : pc'[t] \in {"assign", "append"} => pc'[t] = pc[t]
      /\ pc'[Cleaner] = pc[Cleaner]
  BY <1>1, Threads DEF TInv, TypeOK
<1>3. CleanedUp' <=> CleanedUp
  BY <1>1, <1>2 DEF CleanedUp
<1>4. CleanedUp => Young(servers)'
  <2>1. CASE servers' = servers
    BY <1>1, <2>1 DEF YoungInv, Young
  <2>2. CASE servers' = Append(servers, server[w])
    BY <1>1, <2>2, AppendProperties DEF YoungInv, Young, TInv, TypeOK
  <2> QED  BY <1>1, <2>1, <2>2
<1>5. \A t \in Thread : Young(kept[t])' <=> Young(kept[t])
  BY <1>1 DEF Young
<1> QED  BY <1>1, <1>2, <1>3, <1>4, <1>5, Threads DEF YoungInv

\* The list is filtered, by the cleanup thread for the young ones.
LEMMA FilterToYoung ==
    ASSUME TInv, TInv', YoungInv, Keeps, NEW t \in Thread, NEW S, due' = due,
           FilterTo(t, Only(servers, S)), pc[t] # "assign",
           t = Cleaner => \A e \in S : age[e] <= Limit
    PROVE  YoungInv'
<1>1. /\ kept' = [kept EXCEPT ![t] = Only(servers, S)]
      /\ pc' = [pc EXCEPT ![t] = "assign"] /\ servers' = servers /\ server' = server
  BY DEF FilterTo, Goto
<1>2. /\ kept'[t] = Only(servers, S) /\ pc'[t] = "assign"
      /\ \A u \in Thread \ {t} : kept'[u] = kept[u] /\ pc'[u] = pc[u]
  BY <1>1 DEF TInv, TypeOK
<1>3. /\ Only(servers, S) \in Seq(Entry)
      /\ ToSet(Only(servers, S)) \subseteq ToSet(servers)
      /\ \A i \in DOMAIN Only(servers, S) :
            Only(servers, S)[i] \in S /\ \E j \in DOMAIN servers : Only(servers, S)[i] = servers[j]
  <2>1. servers \in Seq(Entry)
    BY DEF TInv, TypeOK
  <2> QED  BY <2>1, OnlyProperties
<1>4. CleanedUp' => CleanedUp
  BY <1>1, <1>2, Threads DEF CleanedUp, Rebuilding
<1>5. ASSUME NEW list \in Seq(Entry), Young(list), \A e \in ToSet(list) : InUse(e) /\ InUse(e)'
      PROVE  \A i \in DOMAIN list : age'[list[i]] <= Limit
  BY <1>5, ListStaysYoung DEF Young
<1>6. \A e \in ToSet(servers) : InUse(e) /\ InUse(e)'
  BY <1>1 DEF InUse
<1>7. CleanedUp' => Young(servers)'
  BY <1>1, <1>4, <1>5, <1>6 DEF YoungInv, Young, TInv, TypeOK
<1>8. Young(Only(servers, S)) => Young(kept[t])'
  BY <1>2, <1>3, <1>5, <1>6 DEF Young
<1>9. ASSUME NEW u \in Thread \ {t}, pc[u] = "assign", Young(kept[u])
      PROVE  Young(kept[u])'
  <2>1. kept'[u] = kept[u] /\ kept[u] \in Seq(Entry)
    BY <1>2 DEF TInv, TypeOK
  <2>2. \A e \in ToSet(kept[u]) : InUse(e) /\ InUse(e)'
    BY <2>1 DEF InUse
  <2> QED  BY <1>5, <1>9, <2>1, <2>2 DEF Young
<1>10. pc'[Cleaner] = "assign" => Young(kept[Cleaner])'
  <2>1. CASE t = Cleaner
    BY <1>3, <1>8, <2>1 DEF Young
  <2>2. CASE t # Cleaner
    BY <1>2, <1>9, <2>2, Threads DEF YoungInv
  <2> QED  BY <2>1, <2>2
<1>11. ASSUME NEW w \in Worker, CleanedUp', pc'[w] = "assign"
       PROVE  Young(kept[w])'
  <2>1. CASE w = t
    BY <1>3, <1>4, <1>8, <1>11, <2>1 DEF YoungInv, Young
  <2>2. CASE w # t
    BY <1>2, <1>4, <1>9, <1>11, <2>2, Threads DEF YoungInv
  <2> QED  BY <2>1, <2>2
<1>12. ASSUME NEW w \in Worker, pc'[w] = "append"
       PROVE  age'[server'[w]] <= Limit
  <2>1. pc[w] = "append" /\ server'[w] = server[w] /\ w \in Thread
    BY <1>1, <1>2, <1>12, Threads
  <2>2. server[w] \in Entry /\ InUse(server[w]) /\ InUse(server[w])'
    BY <2>1 DEF TInv, HasInHand, InUse
  <2>3. age'[server[w]] <= age[server[w]] /\ age[server[w]] <= Limit
    BY <2>1, <2>2 DEF Keeps, YoungInv
  <2>4. age[server[w]] \in Nat /\ age'[server[w]] \in Nat /\ Limit \in Nat
    BY <2>2, MasterAssumption DEF TInv, TypeOK
  <2> QED  BY <2>1, <2>3, <2>4
<1> QED  BY <1>7, <1>10, <1>11, <1>12 DEF YoungInv

\* The list is replaced by a young one.
LEMMA AssignYoung ==
    ASSUME TInv, TInv', Locked, YoungInv, Keeps, NEW t \in Thread, Assign(t)
    PROVE  YoungInv'
<1>1. /\ pc[t] = "assign" /\ servers' = kept[t] /\ due' = due /\ server' = server
      /\ pc' = [pc EXCEPT ![t] = "clear"]
  BY DEF Assign, Goto
<1>2. /\ pc'[t] = "clear" /\ \A u \in Thread \ {t} : pc'[u] = pc[u]
      /\ \A u \in Thread : pc'[u] # "assign"
  BY <1>1, OneAssigns DEF TInv, TypeOK
<1>3. CleanedUp' => CleanedUp \/ t = Cleaner
  BY <1>1, <1>2 DEF CleanedUp
<1>4. CleanedUp' => Young(kept[t])
  BY <1>1, <1>3, Threads DEF YoungInv
<1>5. CleanedUp' => Young(servers)'
  <2>1. kept[t] \in Seq(Entry) /\ \A e \in ToSet(kept[t]) : InUse(e) /\ InUse(e)'
    BY <1>1 DEF InUse, TInv, TypeOK
  <2> QED  BY <1>1, <1>4, <2>1, ListStaysYoung DEF Young
<1>6. ASSUME NEW w \in Worker, pc'[w] = "append"
      PROVE  age'[server'[w]] <= Limit
  <2>1. pc[w] = "append" /\ server'[w] = server[w] /\ w \in Thread
    BY <1>1, <1>2, <1>6, Threads
  <2>2. server[w] \in Entry /\ InUse(server[w]) /\ InUse(server[w])'
    BY <2>1 DEF TInv, HasInHand, InUse
  <2>3. age'[server[w]] <= age[server[w]] /\ age[server[w]] <= Limit
    BY <2>1, <2>2 DEF Keeps, YoungInv
  <2>4. age[server[w]] \in Nat /\ age'[server[w]] \in Nat /\ Limit \in Nat
    BY <2>2, MasterAssumption DEF TInv, TypeOK
  <2> QED  BY <2>1, <2>3, <2>4
<1> QED  BY <1>2, <1>5, <1>6, Threads DEF YoungInv

\* The other steps of a rebuild touch no list of entries.
LEMMA RebuildYoung ==
    ASSUME TInv, TInv', Locked, YoungInv, Keeps, NEW t \in Thread, RebuildStep(t)
    PROVE  YoungInv'
<1>1. CASE Assign(t)
  BY <1>1, AssignYoung
<1>2. CASE ~ Assign(t)
  <2>1. pc[t] \in Rebuilding /\ servers' = servers /\ kept' = kept
    BY <1>2 DEF RebuildStep, Clear, Check, File, KeyError, listVars, Rebuilding
  <2>2. /\ pc'[t] \notin {"assign", "append"}
        /\ \A u \in Thread \ {t} : pc'[u] = pc[u] /\ server'[u] = server[u]
        /\ t # Cleaner => due' = due
    <3>1. CASE Check(t)
      BY <3>1 DEF Check, Goto, TInv, TypeOK
    <3>2. CASE KeyError(t)
      BY <3>2 DEF KeyError, Goto, TInv, TypeOK
    <3>3. CASE Clear(t) \/ File(t)
      <4>1. \/ Rest(t)
            \/ Goto(t, "check") /\ UNCHANGED <<lock, due, left, server>>
        BY <3>3 DEF Clear, File
      <4>2. CASE Rest(t)
        BY <4>2, RestTypes DEF Rest
      <4>3. CASE Goto(t, "check") /\ UNCHANGED <<lock, due, left, server>>
        BY <4>3 DEF Goto, TInv, TypeOK
      <4> QED  BY <4>1, <4>2, <4>3
    <3> QED  BY <1>2, <3>1, <3>2, <3>3 DEF RebuildStep
  <2>3. CleanedUp' => CleanedUp
    <3>1. CASE t = Cleaner
      BY <2>1, <3>1 DEF CleanedUp
    <3>2. CASE t # Cleaner
      BY <2>2, <3>2, Threads DEF CleanedUp
    <3> QED  BY <3>1, <3>2
  <2>4. /\ \A u \in Thread : pc'[u] = "assign" => pc[u] = "assign" /\ kept'[u] = kept[u]
        /\ \A w \in Worker : pc'[w] = "append" => pc[w] = "append" /\ server'[w] = server[w]
    BY <2>1, <2>2, Threads
  <2> QED  BY <2>1, <2>3, <2>4, YoungKept
<1> QED  BY <1>1, <1>2

\* Nothing on the list is old once the cleanup thread has worked, nor in a list that
\* replaces it.
LEMMA NextYoung ==
    TInv /\ TInv' /\ Locked /\ YoungInv /\ [Next]_vars => YoungInv'
<1> SUFFICES ASSUME TInv, TInv', Locked, YoungInv, [Next]_vars
             PROVE  YoungInv'
  OBVIOUS
<1>0. Steady => Keeps
  BY DEF Steady, Keeps
<1>1. ASSUME NEW w \in Worker, NEW h \in Host, Heartbeat(w, h) \/ Shutdown(w, h)
      PROVE  YoungInv'
  <2>1. Keeps
    BY <1>0, <1>1, HeartbeatTypes, ShutdownTypes
  <2>2. /\ servers' = servers /\ kept' = kept /\ server' = server /\ due' = due
        /\ pc'[w] \in {"lookup", "filter"} /\ \A u \in Thread \ {w} : pc'[u] = pc[u]
    BY <1>1, Threads DEF Heartbeat, Shutdown, Goto, TInv, TypeOK, listVars
  <2>3. CleanedUp' => CleanedUp
    BY <2>2, Threads DEF CleanedUp
  <2>4. \A u \in Thread : pc'[u] \in {"assign", "append"} => pc'[u] = pc[u]
    BY <2>2
  <2> QED  BY <2>1, <2>2, <2>3, <2>4, YoungKept, Threads
<1>2. ASSUME NEW w \in Worker, Lookup(w)
      PROVE  YoungInv'
  <2>1. Keeps
    <3>1. CASE Find(Head(left[w])) # <<>>
      BY <1>0, <1>2, <3>1, LookupFindsTypes
    <3>2. CASE Find(Head(left[w])) = <<>>
      <4>1. \A e \in Entry : InUse(e) => address'[e] = address[e] /\ age'[e] = age[e]
        BY <1>2, <3>2, LookupCreatesTypes
      <4> QED  BY <4>1, Ages DEF Keeps, TInv
    <3> QED  BY <3>1, <3>2
  <2>2. servers' = servers /\ kept' = kept /\ due' = due
    BY <1>2 DEF Lookup, listVars
  <2>3. \A u \in Thread \ {w} : pc'[u] = pc[u] /\ server'[u] = server[u]
    BY <1>2 DEF Lookup, Goto, TInv, TypeOK
  <2>4. \/ pc'[w] = "refresh"
        \/ pc'[w] = "append" /\ age'[server'[w]] = 0
    <3>1. CASE Find(Head(left[w])) # <<>>
      <4>1. pc' = [pc EXCEPT ![w] = "refresh"]
        BY <1>2, <3>1 DEF Lookup, Goto
      <4>2. pc'[w] = "refresh"
        BY <4>1, Threads DEF TInv, TypeOK
      <4> QED  BY <4>2
    <3>2. CASE Find(Head(left[w])) = <<>>
      BY <1>2, <3>2, LookupCreatesTypes
    <3> QED  BY <3>1, <3>2
  <2>5. CleanedUp' => CleanedUp
    BY <2>2, <2>3, Threads DEF CleanedUp
  <2>6. 0 <= Limit
    BY MasterAssumption
  <2>7. \A u \in Thread : pc'[u] = "assign" => pc[u] = "assign"
    BY <2>3, <2>4
  <2>8. \A u \in Worker : pc'[u] = "append" =>
           \/ pc[u] = "append" /\ server'[u] = server[u]
           \/ age'[server'[u]] <= Limit
    BY <2>3, <2>4, <2>6, Threads
  <2> QED  BY <2>1, <2>2, <2>5, <2>7, <2>8, YoungKept
<1>3. ASSUME NEW w \in Worker, Refresh(w)
      PROVE  YoungInv'
  <2>1. Keeps
    BY <1>0, <1>3, RefreshTypes
  <2>2. servers' = servers /\ kept' = kept /\ due' = due
    BY <1>3 DEF Refresh, listVars
  <2>3. /\ pc'[w] \in {"idle", "lookup"}
        /\ \A u \in Thread \ {w} : pc'[u] = pc[u] /\ server'[u] = server[u]
    BY <1>3, DoneTypes DEF Refresh
  <2>4. CleanedUp' => CleanedUp
    BY <2>2, <2>3, Threads DEF CleanedUp
  <2>5. \A u \in Thread : pc'[u] \in {"assign", "append"} =>
           pc'[u] = pc[u] /\ server'[u] = server[u]
    BY <2>3
  <2> QED  BY <2>1, <2>2, <2>4, <2>5, YoungKept, Threads
<1>4. ASSUME NEW w \in Worker, AppendEntry(w)
      PROVE  YoungInv'
  BY <1>4, AppendEntryTypes, AppendEntryYoung
<1>5. ASSUME NEW w \in Worker, Filter(w)
      PROVE  YoungInv'
  <2>1. Keeps /\ w \in Thread /\ w # Cleaner
    BY <1>0, <1>5, FilterTypes, Threads
  <2>2. /\ FilterTo(w, Only(servers, Entry \ gone[w])) /\ due' = due
        /\ pc[w] # "assign"
    BY <1>5 DEF Filter, FilterTo
  <2> QED  BY <2>1, <2>2, FilterToYoung
<1>6. CASE CleanUp
  <2>1. Keeps
    BY <1>0, <1>6, CleanUpTypes
  <2>2. /\ FilterTo(Cleaner, Only(servers, Survivors)) /\ due' = due
        /\ pc[Cleaner] # "assign" /\ \A e \in Survivors : age[e] <= Limit
    BY <1>6 DEF CleanUp, FilterTo, Survivors
  <2> QED  BY <2>1, <2>2, FilterToYoung, Threads
<1>7. CASE \E t \in Thread : RebuildStep(t)
  BY <1>0, <1>7, RebuildTypes, RebuildYoung
<1>8. ASSUME NEW h \in Host, Stop(h) \/ Start(h)
      PROVE  YoungInv'
  <2>1. Keeps
    BY <1>0, <1>8, StopStartTypes
  <2>2. UNCHANGED <<servers, kept, due, pc, server>>
    BY <1>8 DEF Stop, Start, listVars, localVars
  <2> QED  BY <2>1, <2>2, YoungKept DEF CleanedUp
<1>9. CASE Tick
  <2>1. /\ \A t \in Thread : pc'[t] \in {"idle", "dead"}
        /\ due' = (pc'[Cleaner] = "idle")
    BY <1>9 DEF Tick, localVars
  <2> QED  BY <2>1, Threads DEF YoungInv, CleanedUp, Rebuilding
<1>10. CASE UNCHANGED vars
  <2>1. Keeps
    BY <1>0, <1>10, StutterTypes
  <2>2. UNCHANGED <<servers, kept, due, pc, server>>
    BY <1>10 DEF vars, listVars, localVars
  <2> QED  BY <2>1, <2>2, YoungKept DEF CleanedUp
<1> QED  BY <1>1, <1>2, <1>3, <1>4, <1>5, <1>6, <1>7, <1>8, <1>9, <1>10
         DEF Next, HandleStep

\* Nothing is listed or about to be assigned at the start.
LEMMA InitYoung == Init => Locked /\ YoungInv
<1> SUFFICES ASSUME Init
             PROVE  Locked /\ YoungInv
  OBVIOUS
<1>1. pc = [t \in Thread |-> "idle"] /\ lock = None /\ servers = <<>>
  BY DEF Init
<1>2. Locked
  BY <1>1, Threads DEF Locked, Rebuilding
<1>3. Young(servers)
  BY <1>1 DEF Young
<1>4. YoungInv
  BY <1>1, <1>3, Threads DEF YoungInv
<1> QED  BY <1>2, <1>4

-----------------------------------------------------------------------------
(* How often an address is listed.                                         *)

\* Nobody adds an entry twice at once.
LEMMA AddingIsFinite ==
    ASSUME NEW a
    PROVE  /\ IsFiniteSet(Worker) /\ IsFiniteSet(Adding(a))
           /\ Cardinality(Adding(a)) \in Nat /\ Cardinality(Worker) \in Nat
           /\ Cardinality(Adding(a)) <= Cardinality(Worker)
<1>1. Adding(a) \in SUBSET Worker
  BY DEF Adding
<1> QED  BY <1>1, MasterAssumption, FS_Subset, FS_CardinalityType

\* A list of entries that stay in use counts the same.
LEMMA SamePlaces ==
    ASSUME Keeps, NEW list \in Seq(Entry), NEW a,
           \A e \in ToSet(list) : InUse(e) /\ InUse(e)'
    PROVE  Places(list, Named(a)') = Places(list, Named(a))
<1>1. ASSUME NEW i \in DOMAIN list
      PROVE  list[i] \in Entry /\ address'[list[i]] = address[list[i]]
  <2>1. list[i] \in Entry /\ list[i] \in ToSet(list)
    BY ElementOfSeq, LenProperties DEF ToSet
  <2> QED  BY <2>1 DEF Keeps
<1> QED  BY <1>1 DEF Places, Named

\* A list stays bounded while its entries stay in use and nobody else comes to add one.
LEMMA BoundedKept ==
    ASSUME TInv, Keeps, NEW list \in Seq(Entry), Bounded(list),
           \A e \in ToSet(list) : InUse(e) /\ InUse(e)',
           NEW S, NEW a \in Address, Adding(a)' \subseteq Adding(a)
    PROVE  /\ Cardinality(Places(list, Named(a)')) + Cardinality(Adding(a)')
                 <= Cardinality(Worker)
           /\ Cardinality(Places(Only(list, S), Named(a)')) + Cardinality(Adding(a)')
                 <= Cardinality(Worker)
<1>1. Places(list, Named(a)') = Places(list, Named(a))
  BY SamePlaces
<1>2. /\ Cardinality(Places(list, Named(a))) \in Nat
      /\ Cardinality(Places(Only(list, S), Named(a)')) \in Nat
      /\ Cardinality(Places(Only(list, S), Named(a)')) <= Cardinality(Places(list, Named(a)'))
  BY PlacesAreFinite, OnlyProperties, OnlyCounts
<1>3. Cardinality(Places(list, Named(a))) + Cardinality(Adding(a)) <= Cardinality(Worker)
  BY DEF Bounded, Count
<1>4. Cardinality(Adding(a)') \in Nat /\ Cardinality(Adding(a)') <= Cardinality(Adding(a))
  BY AddingIsFinite, FS_Subset, FS_CardinalityType
<1> QED  BY <1>1, <1>2, <1>3, <1>4, AddingIsFinite

\* The lists stay, and nobody comes to add an entry.
LEMMA CountKept ==
    ASSUME TInv, CountInv, Keeps, servers' = servers,
           \A t \in Thread : pc'[t] = "assign" => pc[t] = "assign" /\ kept'[t] = kept[t],
           \A w \in Worker : pc'[w] = "append" => pc[w] = "append" /\ left'[w] = left[w]
    PROVE  CountInv'
<1>1. \A a \in Address : Adding(a)' \subseteq Adding(a)
  BY DEF Adding
<1>2. Bounded(servers)'
  <2>1. servers \in Seq(Entry) /\ \A e \in ToSet(servers) : InUse(e) /\ InUse(e)'
    BY DEF InUse, TInv, TypeOK
  <2>2. \A a \in Address :
           Cardinality(Places(servers, Named(a)')) + Cardinality(Adding(a)') <= Cardinality(Worker)
    BY <1>1, <2>1, BoundedKept DEF CountInv
  <2> QED  BY <2>2 DEF Bounded, Count
<1>3. ASSUME NEW t \in Thread, pc'[t] = "assign"
      PROVE  Bounded(kept[t])' /\ ToSet(kept'[t]) \subseteq ToSet(servers')
  <2>1. pc[t] = "assign" /\ kept'[t] = kept[t]
    BY <1>3
  <2>2. kept[t] \in Seq(Entry) /\ \A e \in ToSet(kept[t]) : InUse(e) /\ InUse(e)'
    BY <2>1 DEF InUse, TInv, TypeOK
  <2>3. \A a \in Address :
           Cardinality(Places(kept[t], Named(a)')) + Cardinality(Adding(a)') <= Cardinality(Worker)
    BY <1>1, <2>1, <2>2, BoundedKept DEF CountInv
  <2>4. Bounded(kept[t])'
    BY <2>1, <2>3 DEF Bounded, Count
  <2> QED  BY <2>1, <2>4 DEF CountInv
<1> QED  BY <1>2, <1>3 DEF CountInv

\* A worker that finds no entry for an address comes to add the first.
LEMMA LookupCounts ==
    ASSUME TInv, CountInv, NEW w \in Worker, Lookup(w), Find(Head(left[w])) = <<>>
    PROVE  CountInv'
<1> DEFINE mine == Head(left[w])
<1>1. /\ \A e \in Entry : InUse(e) => address'[e] = address[e]
      /\ TInv'
  BY LookupCreatesTypes
<1>2. /\ UNCHANGED <<servers, left, kept>> /\ pc' = [pc EXCEPT ![w] = "append"]
  BY DEF Lookup, Goto, listVars
<1>3. /\ pc'[w] = "append" /\ \A u \in Thread \ {w} : pc'[u] = pc[u]
  BY <1>2, Threads DEF TInv, TypeOK
<1>4. \A i \in DOMAIN servers : address[servers[i]] # mine
  <2>1. servers \in Seq(Entry)
    BY DEF TInv, TypeOK
  <2>2. Len(Only(servers, Named(mine))) = Cardinality(Places(servers, Named(mine)))
    BY <2>1, OnlyProperties
  <2>3. Only(servers, Named(mine)) = <<>>
    BY DEF Find, At
  <2>4. Places(servers, Named(mine)) = {}
    BY <2>1, <2>2, <2>3, PlacesAreFinite, FS_EmptySet
  <2>5. \A i \in DOMAIN servers : servers[i] \in Entry
    BY <2>1, ElementOfSeq, LenProperties
  <2> QED  BY <2>4, <2>5 DEF Places, Named
<1>5. ASSUME NEW list \in Seq(Entry), Bounded(list), ToSet(list) \subseteq ToSet(servers),
             NEW a \in Address
      PROVE  Cardinality(Places(list, Named(a)')) + Cardinality(Adding(a)') <= Cardinality(Worker)
  <2>1. \A i \in DOMAIN list : list[i] \in Entry /\ list[i] \in ToSet(list)
    BY ElementOfSeq, LenProperties DEF ToSet
  <2>2. \A i \in DOMAIN list : address'[list[i]] = address[list[i]] /\ address[list[i]] # mine
    <3>1. \A i \in DOMAIN list : InUse(list[i])
      BY <1>5, <2>1 DEF InUse
    <3>2. \A i \in DOMAIN list : \E k \in DOMAIN servers : list[i] = servers[k]
      BY <1>5, <2>1 DEF ToSet
    <3> QED  BY <1>1, <1>4, <2>1, <3>1, <3>2
  <2>3. CASE a = mine
    <3>1. Places(list, Named(a)') = {}
      BY <2>2, <2>3 DEF Places, Named
    <3>2. Adding(a)' \in SUBSET Worker
      BY DEF Adding
    <3> QED  BY <3>1, <3>2, AddingIsFinite, FS_Subset, FS_EmptySet, FS_CardinalityType
  <2>4. CASE a # mine
    <3>1. Places(list, Named(a)') = Places(list, Named(a))
      BY <2>1, <2>2 DEF Places, Named
    <3>2. Adding(a)' = Adding(a)
      <4>1. \A u \in Worker : pc'[u] = "append" /\ Head(left'[u]) = a
                                 <=> pc[u] = "append" /\ Head(left[u]) = a
        <5>1. pc[w] # "append"
          BY DEF Lookup
        <5> QED  BY <1>2, <1>3, <2>4, <5>1, Threads
      <4> QED  BY <4>1 DEF Adding
    <3> QED  BY <1>5, <3>1, <3>2 DEF Bounded, Count
  <2> QED  BY <2>3, <2>4
<1> HIDE DEF mine
<1>6. Bounded(servers)'
  BY <1>2, <1>5 DEF CountInv, TInv, TypeOK, Bounded, Count
<1>7. ASSUME NEW t \in Thread, pc'[t] = "assign"
      PROVE  Bounded(kept[t])' /\ ToSet(kept'[t]) \subseteq ToSet(servers')
  <2>1. pc[t] = "assign" /\ kept'[t] = kept[t] /\ kept[t] \in Seq(Entry)
    BY <1>2, <1>3, <1>7 DEF TInv, TypeOK
  <2> QED  BY <1>2, <1>5, <2>1 DEF CountInv, Bounded, Count
<1> QED  BY <1>6, <1>7 DEF CountInv

\* An appended entry was about to be added.
LEMMA AppendEntryCounts ==
    ASSUME TInv, CountInv, Keeps, NEW w \in Worker, AppendEntry(w)
    PROVE  CountInv'
<1> DEFINE new == server[w]
           mine == Head(left[w])
<1>1. /\ w \in Thread /\ new \in Entry /\ address[new] = mine /\ pc[w] = "append"
      /\ pc' = [pc EXCEPT ![w] = "check"] /\ UNCHANGED <<address, left, kept>>
      /\ servers' = servers \/ servers' = Append(servers, new)
  BY Threads DEF AppendEntry, Goto, TInv, HasInHand
<1>2. pc'[w] = "check" /\ \A u \in Thread \ {w} : pc'[u] = pc[u]
  BY <1>1 DEF TInv, TypeOK
<1> HIDE DEF new, mine
<1>3. ASSUME NEW a
      PROVE  Adding(a)' \subseteq Adding(a) /\ Named(a)' = Named(a)
  BY <1>1, <1>2, Threads DEF Adding, Named
<1>4. ASSUME NEW list \in Seq(Entry), Bounded(list), NEW a \in Address
      PROVE  Cardinality(Places(list, Named(a)')) + Cardinality(Adding(a)') <= Cardinality(Worker)
  <2>1. Cardinality(Adding(a)') \in Nat /\ Cardinality(Adding(a)') <= Cardinality(Adding(a))
    BY <1>3, AddingIsFinite, FS_Subset, FS_CardinalityType
  <2>2. Cardinality(Places(list, Named(a))) \in Nat
    BY PlacesAreFinite
  <2>3. Cardinality(Places(list, Named(a))) + Cardinality(Adding(a)) <= Cardinality(Worker)
    BY <1>4 DEF Bounded, Count
  <2> QED  BY <1>3, <2>1, <2>2, <2>3, AddingIsFinite
<1>5. ASSUME servers' = Append(servers, new), NEW a \in Address
      PROVE  Cardinality(Places(servers', Named(a)')) + Cardinality(Adding(a)')
                <= Cardinality(Worker)
  <2>1. /\ servers \in Seq(Entry) /\ servers' \in Seq(Entry)
        /\ Len(servers') = Len(servers) + 1 /\ Len(servers) \in Nat
        /\ servers'[Len(servers) + 1] = new
        /\ \A i \in 1..Len(servers) : servers'[i] = servers[i]
        /\ DOMAIN servers = 1..Len(servers) /\ DOMAIN servers' = 1..(Len(servers) + 1)
    BY <1>1, <1>5, AppendProperties, LenProperties DEF TInv, TypeOK
  <2>2. CASE a = mine
    <3>1. Places(servers', Named(a)') = Places(servers, Named(a)) \union {Len(servers) + 1}
      BY <1>1, <1>3, <2>1, <2>2 DEF Places, Named
    <3>2. /\ Len(servers) + 1 \notin Places(servers, Named(a))
          /\ IsFiniteSet(Places(servers, Named(a)))
          /\ Cardinality(Places(servers, Named(a))) \in Nat
      <4>1. /\ Places(servers, Named(a)) \subseteq 1..Len(servers)
            /\ IsFiniteSet(Places(servers, Named(a)))
            /\ Cardinality(Places(servers, Named(a))) \in Nat
        BY <2>1, PlacesAreFinite
      <4>2. Len(servers) + 1 \notin 1..Len(servers)
        BY <2>1
      <4> QED  BY <4>1, <4>2
    <3>3. Cardinality(Places(servers', Named(a)')) = Cardinality(Places(servers, Named(a))) + 1
      BY <3>1, <3>2, FS_AddElement
    <3>4. w \in Adding(a) /\ Adding(a)' = Adding(a) \ {w}
      BY <1>1, <1>2, <2>2, Threads DEF Adding, mine
    <3>5. Cardinality(Adding(a)') = Cardinality(Adding(a)) - 1
      BY <3>4, AddingIsFinite, FS_RemoveElement
    <3>6. Cardinality(Places(servers, Named(a))) + Cardinality(Adding(a)) <= Cardinality(Worker)
      BY DEF CountInv, Bounded, Count
    <3> QED  BY <3>2, <3>3, <3>5, <3>6, AddingIsFinite
  <2>3. CASE a # mine
    <3>1. Places(servers', Named(a)') = Places(servers, Named(a)')
      BY <1>1, <1>3, <2>1, <2>3 DEF Places, Named
    <3> QED  BY <1>4, <2>1, <3>1 DEF CountInv
  <2> QED  BY <2>2, <2>3
<1>6. Bounded(servers)'
  <2>1. CASE servers' = servers
    BY <1>4, <2>1 DEF CountInv, TInv, TypeOK, Bounded, Count
  <2>2. CASE servers' = Append(servers, new)
    BY <1>5, <2>2 DEF Bounded, Count
  <2> QED  BY <1>1, <2>1, <2>2
<1>7. ASSUME NEW t \in Thread, pc'[t] = "assign"
      PROVE  Bounded(kept[t])' /\ ToSet(kept'[t]) \subseteq ToSet(servers')
  <2>1. pc[t] = "assign" /\ kept'[t] = kept[t] /\ kept[t] \in Seq(Entry)
    BY <1>1, <1>2, <1>7 DEF TInv, TypeOK
  <2>2. Bounded(kept[t])'
    BY <1>4, <2>1 DEF CountInv, Bounded, Count
  <2>3. ToSet(servers) \subseteq ToSet(servers')
    <3>1. CASE servers' = servers
      BY <3>1
    <3>2. CASE servers' = Append(servers, new)
      <4>1. servers \in Seq(Entry) /\ new \in Entry
        BY <1>1 DEF TInv, TypeOK
      <4> QED  BY <3>2, <4>1, AppendProperties, LenProperties DEF ToSet
    <3> QED  BY <1>1, <3>1, <3>2
  <2> QED  BY <2>1, <2>2, <2>3 DEF CountInv
<1> QED  BY <1>6, <1>7 DEF CountInv

\* A filtered list counts no more.
LEMMA FilterToCounts ==
    ASSUME TInv, CountInv, Keeps, NEW t \in Thread, NEW S, FilterTo(t, Only(servers, S))
    PROVE  CountInv'
<1>1. /\ kept' = [kept EXCEPT ![t] = Only(servers, S)]
      /\ pc' = [pc EXCEPT ![t] = "assign"] /\ UNCHANGED <<servers, left>>
  BY DEF FilterTo, Goto
<1>2. /\ kept'[t] = Only(servers, S) /\ pc'[t] = "assign"
      /\ \A u \in Thread \ {t} : kept'[u] = kept[u] /\ pc'[u] = pc[u]
  BY <1>1 DEF TInv, TypeOK
<1>3. \A a \in Address : Adding(a)' \subseteq Adding(a)
  BY <1>1, <1>2, Threads DEF Adding
<1>4. servers \in Seq(Entry) /\ \A e \in ToSet(servers) : InUse(e) /\ InUse(e)'
  BY <1>1 DEF InUse, TInv, TypeOK
<1>5. \A a \in Address :
         /\ Cardinality(Places(servers, Named(a)')) + Cardinality(Adding(a)')
               <= Cardinality(Worker)
         /\ Cardinality(Places(Only(servers, S), Named(a)')) + Cardinality(Adding(a)')
               <= Cardinality(Worker)
  BY <1>3, <1>4, BoundedKept DEF CountInv
<1>6. Bounded(servers)'
  BY <1>1, <1>5 DEF Bounded, Count
<1>7. Bounded(kept[t])' /\ ToSet(kept'[t]) \subseteq ToSet(servers')
  <2>1. ToSet(Only(servers, S)) \subseteq ToSet(servers)
    BY <1>4, OnlyProperties
  <2> QED  BY <1>1, <1>2, <1>5, <2>1 DEF Bounded, Count
<1>8. ASSUME NEW u \in Thread \ {t}, pc'[u] = "assign"
      PROVE  Bounded(kept[u])' /\ ToSet(kept'[u]) \subseteq ToSet(servers')
  <2>1. pc[u] = "assign" /\ kept'[u] = kept[u] /\ kept[u] \in Seq(Entry)
    BY <1>2, <1>8 DEF TInv, TypeOK
  <2>2. \A e \in ToSet(kept[u]) : InUse(e) /\ InUse(e)'
    BY <2>1 DEF InUse
  <2>3. \A a \in Address :
           Cardinality(Places(kept[u], Named(a)')) + Cardinality(Adding(a)') <= Cardinality(Worker)
    BY <1>3, <2>1, <2>2, BoundedKept DEF CountInv
  <2>4. Bounded(kept[u])'
    BY <2>1, <2>3 DEF Bounded, Count
  <2> QED  BY <1>1, <2>1, <2>4 DEF CountInv
<1> QED  BY <1>6, <1>7, <1>8 DEF CountInv

\* The list is replaced by a bounded one, and nobody else has one to assign.
LEMMA AssignCounts ==
    ASSUME TInv, Locked, CountInv, Keeps, NEW t \in Thread, Assign(t)
    PROVE  CountInv'
<1>1. /\ pc[t] = "assign" /\ servers' = kept[t] /\ left' = left
      /\ pc' = [pc EXCEPT ![t] = "clear"]
  BY DEF Assign, Goto
<1>2. /\ pc'[t] = "clear" /\ \A u \in Thread \ {t} : pc'[u] = pc[u]
      /\ \A u \in Thread : pc'[u] # "assign"
  BY <1>1, OneAssigns DEF TInv, TypeOK
<1>3. \A a \in Address : Adding(a)' \subseteq Adding(a)
  BY <1>1, <1>2, Threads DEF Adding
<1>4. kept[t] \in Seq(Entry) /\ \A e \in ToSet(kept[t]) : InUse(e) /\ InUse(e)'
  BY <1>1 DEF InUse, TInv, TypeOK
<1>5. \A a \in Address :
         Cardinality(Places(kept[t], Named(a)')) + Cardinality(Adding(a)') <= Cardinality(Worker)
  BY <1>1, <1>3, <1>4, BoundedKept DEF CountInv
<1>6. Bounded(servers)'
  BY <1>1, <1>5 DEF Bounded, Count
<1> QED  BY <1>2, <1>6 DEF CountInv

\* The other steps of a rebuild touch no list of entries.
LEMMA RebuildCounts ==
    ASSUME TInv, Locked, CountInv, Keeps, NEW t \in Thread, RebuildStep(t)
    PROVE  CountInv'
<1>1. CASE Assign(t)
  BY <1>1, AssignCounts
<1>2. CASE ~ Assign(t)
  <2>1. servers' = servers /\ kept' = kept
    BY <1>2 DEF RebuildStep, Clear, Check, File, KeyError, listVars
  <2>2. /\ pc'[t] \notin {"assign", "append"}
        /\ \A u \in Thread \ {t} : pc'[u] = pc[u] /\ left'[u] = left[u]
    <3>1. CASE Check(t)
      BY <3>1 DEF Check, Goto, TInv, TypeOK
    <3>2. CASE KeyError(t)
      BY <3>2 DEF KeyError, Goto, TInv, TypeOK
    <3>3. CASE Clear(t) \/ File(t)
      <4>1. \/ Rest(t)
            \/ Goto(t, "check") /\ UNCHANGED <<lock, due, left, server>>
        BY <3>3 DEF Clear, File
      <4>2. CASE Rest(t)
        BY <4>2, RestTypes
      <4>3. CASE Goto(t, "check") /\ UNCHANGED <<lock, due, left, server>>
        BY <4>3 DEF Goto, TInv, TypeOK
      <4> QED  BY <4>1, <4>2, <4>3
    <3> QED  BY <1>2, <3>1, <3>2, <3>3 DEF RebuildStep
  <2>3. /\ \A u \in Thread : pc'[u] = "assign" => pc[u] = "assign" /\ kept'[u] = kept[u]
        /\ \A w \in Worker : pc'[w] = "append" => pc[w] = "append" /\ left'[w] = left[w]
    BY <2>1, <2>2, Threads
  <2> QED  BY <2>1, <2>3, CountKept
<1> QED  BY <1>1, <1>2

\* A minute passes while nobody is at work.
LEMMA TickCounts ==
    ASSUME TInv, CountInv, Tick
    PROVE  CountInv'
<1>1. /\ \A t \in Thread : pc[t] \in {"idle", "dead"}
      /\ pc' = pc /\ UNCHANGED <<address, servers, left>>
  BY DEF Tick, listVars, localVars
<1>2. \A a \in Address : Adding(a)' = Adding(a) /\ Named(a)' = Named(a)
  BY <1>1 DEF Adding, Named
<1>3. Bounded(servers)'
  BY <1>1, <1>2 DEF CountInv, Bounded, Count
<1> QED  BY <1>1, <1>3 DEF CountInv

\* What is listed for an address, and what will be, comes from different workers.
LEMMA NextCount ==
    TInv /\ Locked /\ CountInv /\ [Next]_vars => CountInv'
<1> SUFFICES ASSUME TInv, Locked, CountInv, [Next]_vars
             PROVE  CountInv'
  OBVIOUS
<1>0. Steady => Keeps
  BY DEF Steady, Keeps
<1>1. ASSUME NEW w \in Worker, NEW h \in Host, Heartbeat(w, h) \/ Shutdown(w, h)
      PROVE  CountInv'
  <2>1. Keeps
    BY <1>0, <1>1, HeartbeatTypes, ShutdownTypes
  <2>2. servers' = servers /\ kept' = kept
    BY <1>1 DEF Heartbeat, Shutdown, listVars
  <2>3. /\ pc'[w] \in {"lookup", "filter"}
        /\ \A u \in Thread \ {w} : pc'[u] = pc[u] /\ left'[u] = left[u]
    BY <1>1, Threads DEF Heartbeat, Shutdown, Goto, TInv, TypeOK
  <2>4. /\ \A u \in Thread : pc'[u] = "assign" => pc[u] = "assign"
        /\ \A u \in Worker : pc'[u] = "append" => pc[u] = "append" /\ left'[u] = left[u]
    BY <2>3, Threads
  <2> QED  BY <2>1, <2>2, <2>4, CountKept
<1>2. ASSUME NEW w \in Worker, Lookup(w)
      PROVE  CountInv'
  <2>1. CASE Find(Head(left[w])) = <<>>
    BY <1>2, <2>1, LookupCounts
  <2>2. CASE Find(Head(left[w])) # <<>>
    <3>1. Keeps
      BY <1>0, <1>2, <2>2, LookupFindsTypes
    <3>2. /\ servers' = servers /\ kept' = kept /\ left' = left
          /\ pc' = [pc EXCEPT ![w] = "refresh"]
      BY <1>2, <2>2 DEF Lookup, Goto, listVars
    <3>3. \A u \in Thread : pc'[u] \in {"assign", "append"} => pc'[u] = pc[u]
      BY <3>2 DEF TInv, TypeOK
    <3> QED  BY <3>1, <3>2, <3>3, CountKept, Threads
  <2> QED  BY <2>1, <2>2
<1>3. ASSUME NEW w \in Worker, Refresh(w)
      PROVE  CountInv'
  <2>1. Keeps
    BY <1>0, <1>3, RefreshTypes
  <2>2. servers' = servers /\ kept' = kept
    BY <1>3 DEF Refresh, listVars
  <2>3. /\ pc'[w] \in {"idle", "lookup"}
        /\ \A u \in Thread \ {w} : pc'[u] = pc[u] /\ left'[u] = left[u]
    BY <1>3, DoneTypes DEF Refresh
  <2>4. /\ \A u \in Thread : pc'[u] = "assign" => pc[u] = "assign"
        /\ \A u \in Worker : pc'[u] = "append" => pc[u] = "append" /\ left'[u] = left[u]
    BY <2>3, Threads
  <2> QED  BY <2>1, <2>2, <2>4, CountKept
<1>4. ASSUME NEW w \in Worker, AppendEntry(w)
      PROVE  CountInv'
  BY <1>0, <1>4, AppendEntryTypes, AppendEntryCounts
<1>5. ASSUME NEW w \in Worker, Filter(w)
      PROVE  CountInv'
  BY <1>0, <1>5, FilterTypes, FilterToCounts, Threads DEF Filter
<1>6. CASE CleanUp
  BY <1>0, <1>6, CleanUpTypes, FilterToCounts, Threads DEF CleanUp
<1>7. CASE \E t \in Thread : RebuildStep(t)
  BY <1>0, <1>7, RebuildTypes, RebuildCounts
<1>8. CASE (\E h \in Host : Stop(h) \/ Start(h)) \/ UNCHANGED vars
  <2>1. Keeps
    BY <1>0, <1>8, StopStartTypes, StutterTypes
  <2>2. UNCHANGED <<servers, kept, pc, left>>
    BY <1>8 DEF Stop, Start, vars, listVars, localVars
  <2> QED  BY <2>1, <2>2, CountKept
<1>9. CASE Tick
  BY <1>9, TickCounts
<1> QED  BY <1>1, <1>2, <1>3, <1>4, <1>5, <1>6, <1>7, <1>8, <1>9 DEF Next, HandleStep

\* Nothing is listed at the start.
LEMMA InitCount == Init => CountInv
<1> SUFFICES ASSUME Init
             PROVE  CountInv
  OBVIOUS
<1>1. servers = <<>> /\ pc = [t \in Thread |-> "idle"]
  BY DEF Init
<1>2. ASSUME NEW a \in Address
      PROVE  Count(servers, a) + Cardinality(Adding(a)) <= Cardinality(Worker)
  <2>1. Places(servers, Named(a)) = {} /\ Adding(a) = {}
    BY <1>1, Threads DEF Places, Adding
  <2> QED  BY <2>1, FS_EmptySet, AddingIsFinite DEF Count
<1>3. \A t \in Thread : pc[t] # "assign"
  BY <1>1
<1> QED  BY <1>2, <1>3 DEF CountInv, Bounded

-----------------------------------------------------------------------------
(* The theorems.                                                           *)

\* The invariant holds at the start and in every step.
LEMMA Inductive ==
    /\ Init => IInv
    /\ IInv /\ [Next]_vars => IInv'
BY InitTInv, InitYoung, InitCount, NextTInv, NextLocked, NextYoung, NextCount DEF IInv

\* The objects, the list, the index and the threads keep their types: every list that is
\* filtered, assigned or filed holds entries that have an address.
THEOREM TypeCorrect == Spec => []TypeOK
<1>1. IInv => TypeOK
  BY DEF IInv, TInv
<1> QED  BY <1>1, Inductive, PTL DEF Spec

\* Shutdowns replace the list and heartbeats extend it at any time, and still nothing on
\* it is older than the limit when the cleanup thread has worked.
THEOREM CleanUpsLeaveNoStale == Spec => []StaleEntriesGo
<1>1. IInv => StaleEntriesGo
  BY DEF IInv, StaleEntriesGo, YoungInv, CleanedUp, Young, ToSet
<1> QED  BY <1>1, Inductive, PTL DEF Spec

\* Heartbeats look up and append without the lock, and still no address is listed more
\* often than there are workers to do so.
THEOREM DuplicatesBounded == Spec => []DuplicatesAreBounded
<1>1. IInv => DuplicatesAreBounded
  <2> SUFFICES ASSUME TInv, CountInv, NEW a \in Address
               PROVE  Len(At(a)) <= Cardinality(Worker)
    BY DEF IInv, DuplicatesAreBounded
  <2>1. Len(At(a)) = Count(servers, a) /\ Count(servers, a) \in Nat
    BY OnlyProperties, PlacesAreFinite DEF At, Count, TInv, TypeOK
  <2>2. Count(servers, a) + Cardinality(Adding(a)) <= Cardinality(Worker)
    BY DEF CountInv, Bounded
  <2> QED  BY <2>1, <2>2, AddingIsFinite
<1> QED  BY <1>1, Inductive, PTL DEF Spec
=============================================================================
