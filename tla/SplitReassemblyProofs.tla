----------------------- MODULE SplitReassemblyProofs -----------------------
(***************************************************************************)
(* Theorems about SplitReassembly, for any number of senders, messages,    *)
(* parts and workers.                                                      *)
(*                                                                         *)
(* A packet is in one place at a time: in flight, in the hands of a worker *)
(* that has not stored it, or once in the list of its message (OnePlace).  *)
(* A list of Parts packets therefore has all of its message, and no worker *)
(* is left that could empty it, or start it again once it is joined.       *)
(* Nothing more holds of the senders that do not wait: a worker that finds *)
(* no list may still replace the one another worker has created since.     *)
(* A paced sender has one packet under way (Alone), so that does not       *)
(* happen to it and its lists are in order (InOrder).                      *)
(***************************************************************************)
EXTENDS SplitReassembly, FiniteSetTheorems, SequenceTheorems, TLAPS

\* A worker has taken the packet in and not stored it yet.
Held(w) == pc[w] \in {"check", "create", "append"}

In(p, list) == \E i \in DOMAIN list : list[i] = p

\* The packet is not in a list yet.
Loose(p) == In(p, net) \/ \E w \in Worker : Held(w) /\ pkt[w] = p

Buffered(p) == KeyOf(p) \in DOMAIN packet_buffer /\ In(p, packet_buffer[KeyOf(p)])

Sent(p) ==
    LET n == next[p.sender]
    IN  p.message < n.message \/ (p.message = n.message /\ p.part < n.part)

Distinct(list) == \A i, j \in DOMAIN list : list[i] = list[j] => i = j

PartsOf(k) == {[sender |-> k[1], message |-> k[2], part |-> i] : i \in 1..Parts}

\* All of a message and nothing else.
Whole(list, k) ==
    /\ Len(list) = Parts
    /\ {list[i] : i \in DOMAIN list} = PartsOf(k)

Busy == \A w \in Worker : pc[w] # "idle" => pkt[w] \in Packet

OwnPackets == \A s \in Sender : next[s].sender = s

TInv == TypeOK /\ Busy /\ OwnPackets

Lists ==
    \A k \in DOMAIN packet_buffer :
        /\ Distinct(packet_buffer[k])
        /\ \A i \in DOMAIN packet_buffer[k] : KeyOf(packet_buffer[k][i]) = k

OnePlace ==
    /\ Distinct(net)
    /\ \A w \in Worker : Held(w) => ~ In(pkt[w], net)
    /\ \A w, v \in Worker : Held(w) /\ Held(v) /\ pkt[w] = pkt[v] => w = v
    /\ \A p \in Packet : Loose(p) => ~ Buffered(p)

NoneFromTheFuture == \A p \in Packet : Loose(p) \/ Buffered(p) => Sent(p)

\* What a worker found complete is so still, or was handled.
JoinIsWhole(w) ==
    pc[w] = "join" =>
        IF KeyOf(pkt[w]) \in DOMAIN packet_buffer
        THEN Whole(packet_buffer[KeyOf(pkt[w])], KeyOf(pkt[w]))
        ELSE handled[pkt[w].sender][pkt[w].message] # <<>>

JoinsAreWhole == \A w \in Worker : JoinIsWhole(w)

\* A message that was handled is whole, and nothing of it is or will be about.
Done ==
    \A k \in Key : handled[k[1]][k[2]] # <<>> =>
        /\ Len(handled[k[1]][k[2]]) = 1
        /\ Whole(handled[k[1]][k[2]][1], k)
        /\ k \notin DOMAIN packet_buffer
        /\ \A p \in PartsOf(k) : Sent(p) /\ ~ Loose(p)

WInv == Lists /\ OnePlace /\ NoneFromTheFuture /\ JoinsAreWhole /\ Done

\* One packet of a paced sender is under way.
Alone ==
    \A s \in Paced :
        /\ \A p, q \in Packet :
              In(p, net) /\ In(q, net) /\ p.sender = s /\ q.sender = s => p = q
        /\ \A w, v \in Worker : pc[w] # "idle" /\ pc[v] # "idle"
                                    /\ pkt[w].sender = s /\ pkt[v].sender = s => w = v
        /\ \A w \in Worker, p \in Packet :
              pc[w] # "idle" /\ pkt[w].sender = s /\ p.sender = s => ~ In(p, net)

\* What a worker with a packet of a paced sender finds in the buffer.
Undisturbed ==
    \A w \in Worker : pc[w] # "idle" /\ pkt[w].sender \in Paced =>
        /\ Sent(pkt[w])
        /\ pkt[w] \notin received
        /\ pc[w] = "create" => KeyOf(pkt[w]) \notin DOMAIN packet_buffer
        /\ pc[w] \in {"append", "join"} => KeyOf(pkt[w]) \in DOMAIN packet_buffer
        /\ pc[w] = "test" => Buffered(pkt[w])

\* The parts of a list grow by at least one from each packet to the next.
Ascending(list) ==
    \A i, j \in DOMAIN list : /\ list[i].part >= i
                              /\ i <= j => list[j].part - j >= list[i].part - i

InOrder ==
    \A s \in Paced, m \in 1..MaxMessage : <<s, m>> \in DOMAIN packet_buffer =>
        /\ Ascending(packet_buffer[<<s, m>>])
        /\ \A p \in Packet : Loose(p) /\ KeyOf(p) = <<s, m>> =>
              \A i \in DOMAIN packet_buffer[<<s, m>>] :
                  packet_buffer[<<s, m>>][i].part < p.part

\* What a worker is done with was kept.
Kept ==
    \A p \in received : p.sender \in Paced =>
        /\ Sent(p)
        /\ ~ In(p, net)
        /\ Buffered(p) \/ handled[p.sender][p.message] # <<>>

\* A complete list of a paced sender has a worker that will join it.
Attended ==
    \A s \in Paced, m \in 1..MaxMessage :
        (\A p \in PartsOf(<<s, m>>) : Buffered(p)) =>
            \E w \in Worker : pc[w] \in {"test", "join"} /\ KeyOf(pkt[w]) = <<s, m>>

PInv == Alone /\ Undisturbed /\ InOrder /\ AssembledInOrder /\ Kept /\ Attended

IInv == TInv /\ WInv /\ PInv

-----------------------------------------------------------------------------
(* Lists of packets.                                                       *)

\* What one packet less does to a list.
LEMMA WithoutPlaces ==
    ASSUME NEW q \in Seq(Packet), Distinct(q), NEW i \in DOMAIN q
    PROVE  /\ Without(q, i) \in Seq(Packet)
           /\ Distinct(Without(q, i))
           /\ \A p : In(p, Without(q, i)) <=> In(p, q) /\ p # q[i]
  <1> DEFINE n == Len(q)
             r == Without(q, i)
             From(j) == IF j < i THEN j ELSE j + 1
  <1>1. n \in Nat /\ DOMAIN q = 1..n /\ i \in 1..n
    OBVIOUS
  <1> DEFINE a == SubSeq(q, 1, i - 1)
             b == SubSeq(q, i + 1, n)
  <1>a. a \in Seq(Packet) /\ Len(a) = i - 1
    BY <1>1
  <1>b. b \in Seq(Packet) /\ Len(b) = n - i
    BY <1>1
  <1>c. \A j \in 1..(i - 1) : a[j] = q[j]
    BY <1>1
  <1>d. \A j \in 1..(n - i) : b[j] = q[i + j]
    BY <1>1
  <1>e. r = a \o b
    BY DEF Without
  <1> HIDE DEF n, r, a, b
  <1>2. r \in Seq(Packet) /\ Len(r) = n - 1
    <2>1. a \o b \in Seq(Packet) /\ Len(a \o b) = Len(a) + Len(b)
      BY <1>a, <1>b, ConcatProperties
    <2> QED  BY <1>1, <1>a, <1>b, <1>e, <2>1
  <1>f. \A j \in 1..(i - 1) : r[j] = a[j]
    BY <1>1, <1>a, <1>b, <1>e, ConcatProperties
  <1>g. \A j \in 1..(n - i) : r[(i - 1) + j] = b[j]
    BY <1>1, <1>a, <1>b, <1>e, ConcatProperties, SMTT(30)
  <1>3. \A j \in 1..(n - 1) : r[j] = q[From(j)]
    <2> TAKE j \in 1..(n - 1)
    <2>1. CASE j < i
      <3>1. j \in 1..(i - 1) /\ From(j) = j
        BY <1>1, <2>1
      <3> QED  BY <1>c, <1>f, <3>1
    <2>2. CASE j >= i
      <3> DEFINE m == j - (i - 1)
      <3>1. m \in 1..(n - i) /\ From(j) = i + m /\ j = (i - 1) + m
        BY <1>1, <2>2
      <3> HIDE DEF m
      <3>2. r[(i - 1) + m] = b[m] /\ b[m] = q[i + m]
        BY <1>d, <1>g, <3>1
      <3> QED  BY <3>1, <3>2
    <2> QED  BY <1>1, <2>1, <2>2
  <1>4. DOMAIN r = 1..(n - 1)
    BY <1>1, <1>2
  <1>5. \A j, k \in 1..(n - 1) : From(j) \in 1..n /\ From(j) # i /\ (From(j) = From(k) => j = k)
    BY <1>1
  <1>6. \A j \in 1..n : j # i => \E k \in 1..(n - 1) : From(k) = j
    <2> TAKE j \in 1..n
    <2>1. CASE j < i
      <3>1. j \in 1..(n - 1) /\ From(j) = j
        BY <1>1, <2>1
      <3> QED  BY <3>1
    <2>2. CASE j > i
      <3>1. j - 1 \in 1..(n - 1) /\ From(j - 1) = j
        BY <1>1, <2>2
      <3> QED  BY <3>1
    <2> QED  BY <1>1, <2>1, <2>2
  <1> HIDE DEF From
  <1>7. Distinct(r)
    BY <1>1, <1>3, <1>4, <1>5 DEF Distinct
  <1>8. \A p : In(p, r) <=> In(p, q) /\ p # q[i]
    <2> TAKE p
    <2>1. In(p, r) => In(p, q) /\ p # q[i]
      BY <1>1, <1>3, <1>4, <1>5 DEF In, Distinct
    <2>2. ASSUME In(p, q), p # q[i]
          PROVE  In(p, r)
      <3>1. PICK j \in 1..n : q[j] = p /\ j # i
        BY <1>1, <2>2 DEF In
      <3>2. PICK k \in 1..(n - 1) : From(k) = j
        BY <1>6, <3>1
      <3> QED  BY <1>3, <1>4, <3>1, <3>2 DEF In
    <2> QED  BY <2>1, <2>2
  <1> QED  BY <1>2, <1>7, <1>8 DEF r

\* What one packet more does to a list.
LEMMA AppendPlaces ==
    ASSUME NEW q \in Seq(Packet), NEW e \in Packet
    PROVE  /\ Append(q, e) \in Seq(Packet)
           /\ DOMAIN Append(q, e) = 1..(Len(q) + 1)
           /\ DOMAIN q = 1..Len(q)
           /\ \A i \in 1..Len(q) : Append(q, e)[i] = q[i]
           /\ Append(q, e)[Len(q) + 1] = e
           /\ \A p : In(p, Append(q, e)) <=> In(p, q) \/ p = e
           /\ Distinct(q) /\ ~ In(e, q) => Distinct(Append(q, e))
  <1> DEFINE n == Len(q)
             r == Append(q, e)
  <1>1. /\ n \in Nat
        /\ r \in Seq(Packet)
        /\ DOMAIN r = 1..(n + 1)
        /\ DOMAIN q = 1..n
        /\ \A i \in 1..n : r[i] = q[i]
        /\ r[n + 1] = e
    OBVIOUS
  <1> HIDE DEF n, r
  <1>2. \A i \in 1..(n + 1) : i \in 1..n \/ i = n + 1
    BY <1>1
  <1>3. \A i \in 1..n : i \in 1..(n + 1)
    BY <1>1
  <1>4. n + 1 \in 1..(n + 1)
    BY <1>1
  <1>5. \A p : In(p, r) <=> In(p, q) \/ p = e
    BY <1>1, <1>2, <1>3, <1>4 DEF In
  <1>6. Distinct(q) /\ ~ In(e, q) => Distinct(r)
    BY <1>1, <1>2 DEF Distinct, In
  <1> QED  BY <1>1, <1>5, <1>6 DEF n, r

\* A message has Parts packets.
LEMMA PartsAreCounted ==
    ASSUME NEW k \in Key
    PROVE  /\ IsFiniteSet(PartsOf(k))
           /\ Cardinality(PartsOf(k)) = Parts
           /\ \A p \in PartsOf(k) : p \in Packet /\ KeyOf(p) = k
           /\ \A p \in Packet : KeyOf(p) = k => p \in PartsOf(k)
  <1> DEFINE f == [i \in 1..Parts |-> [sender |-> k[1], message |-> k[2], part |-> i]]
  <1>1. Parts \in Nat
    BY SplitReassemblyAssumption
  <1>2. f \in Bijection(1..Parts, PartsOf(k))
    <2>1. f \in [1..Parts -> PartsOf(k)]
      BY DEF PartsOf
    <2>2. \A i, j \in 1..Parts : f[i] = f[j] => i = j
      <3> TAKE i, j \in 1..Parts
      <3>1. f[i].part = i /\ f[j].part = j
        OBVIOUS
      <3> QED  BY <3>1
    <2>3. \A p \in PartsOf(k) : \E i \in 1..Parts : f[i] = p
      BY DEF PartsOf
    <2> QED  BY <2>1, <2>2, <2>3 DEF Bijection, Injection, Surjection, IsInjective
  <1>3. IsFiniteSet(1..Parts)
    BY <1>1, FS_Interval
  <1>4. ExistsBijection(1..Parts, PartsOf(k))
    BY <1>2 DEF ExistsBijection
  <1>5. IsFiniteSet(PartsOf(k)) /\ Cardinality(PartsOf(k)) = Parts
    BY <1>1, <1>3, <1>4, FS_Bijection, FS_CountingElements
  <1>6. \A p \in PartsOf(k) : p \in Packet /\ KeyOf(p) = k
    BY DEF PartsOf, Packet, KeyOf, Key
  <1>7. \A p \in Packet : KeyOf(p) = k => p \in PartsOf(k)
    BY DEF PartsOf, Packet, KeyOf, Key
  <1> QED  BY <1>5, <1>6, <1>7

\* Parts different packets of a message are all it has.
LEMMA FullIsWhole ==
    ASSUME NEW k \in Key, NEW q \in Seq(Packet), Distinct(q), Len(q) = Parts,
           \A i \in DOMAIN q : KeyOf(q[i]) = k
    PROVE  Whole(q, k)
  <1>1. Parts \in Nat /\ DOMAIN q = 1..Parts
    BY SplitReassemblyAssumption
  <1>2. \A i \in 1..Parts : q[i] \in PartsOf(k)
    BY <1>1, PartsAreCounted
  <1>3. q \in Injection(1..Parts, PartsOf(k))
    BY <1>1, <1>2 DEF Injection, IsInjective, Distinct
  <1>4. Cardinality(1..Parts) = Parts
    BY <1>1, FS_Interval
  <1>5. q \in Surjection(1..Parts, PartsOf(k))
    BY <1>3, <1>4, PartsAreCounted, FS_Injection
  <1>6. {q[i] : i \in DOMAIN q} = PartsOf(k)
    BY <1>1, <1>2, <1>5 DEF Surjection
  <1> QED  BY <1>6 DEF Whole

\* A list of the different packets of a message that has all of them is complete.
LEMMA WholeIsComplete ==
    ASSUME NEW k \in Key, NEW q \in Seq(Packet), Distinct(q),
           \A i \in DOMAIN q : KeyOf(q[i]) = k,
           \A p \in PartsOf(k) : In(p, q)
    PROVE  Complete(q)
  <1> DEFINE n == Len(q)
             last == [sender |-> k[1], message |-> k[2], part |-> Parts]
             L == {i \in DOMAIN q : q[i].part = Parts}
  <1>1. n \in Nat /\ DOMAIN q = 1..n
    OBVIOUS
  <1>2. \A i \in 1..n : q[i] \in PartsOf(k)
    BY <1>1, PartsAreCounted
  <1>3. q \in Bijection(1..n, PartsOf(k))
    BY <1>1, <1>2 DEF Bijection, Injection, Surjection, IsInjective, Distinct, In
  <1>4. Len(q) = Parts
    BY <1>1, <1>3, PartsAreCounted, FS_CountingElements DEF ExistsBijection
  <1>5. last \in PartsOf(k)
    BY SplitReassemblyAssumption DEF PartsOf
  <1>6. PICK i \in DOMAIN q : q[i] = last
    BY <1>5 DEF In
  <1>7. \A p \in PartsOf(k) : p.part = Parts => p = last
    BY DEF PartsOf
  <1>8. L = {i}
    BY <1>1, <1>2, <1>6, <1>7 DEF Distinct
  <1>9. Cardinality(L) = 1
    BY <1>8, FS_Singleton
  <1> QED  BY <1>4, <1>9 DEF Complete

\* A whole list has every packet of its message.
LEMMA WholeHasAll ==
    ASSUME NEW k \in Key, NEW q, Whole(q, k), NEW p \in PartsOf(k)
    PROVE  In(p, q)
  BY DEF Whole, In

-----------------------------------------------------------------------------
(* Types.                                                                  *)

\* The types hold at the start.
LEMMA InitTInv == Init => TInv
  <1> SUFFICES ASSUME Init PROVE TInv
    OBVIOUS
  <1>1. 1 \in 1..(MaxMessage + 1) /\ 1 \in 1..Parts
    BY SplitReassemblyAssumption
  <1>2. next \in [Sender -> [sender : Sender, message : 1..(MaxMessage + 1), part : 1..Parts]]
    BY <1>1 DEF Init
  <1>3. net \in Seq(Packet) /\ <<>> \in Seq(Seq(Packet))
    BY DEF Init
  <1> QED  BY <1>2, <1>3 DEF Init, TInv, TypeOK, Busy, OwnPackets, Label

\* A packet that a worker is busy with.
LEMMA BusyPacket ==
    ASSUME TInv, NEW w \in Worker, pc[w] # "idle"
    PROVE  pkt[w] \in Packet /\ KeyOf(pkt[w]) \in Key
  BY DEF TInv, Busy, KeyOf, Key, Packet

\* A worker that is done is idle again.
LEMMA FinishTypes ==
    ASSUME TInv, NEW w \in Worker, pc[w] # "idle", Finish(w)
    PROVE  /\ pc' \in [Worker -> Label] /\ pc'[w] = "idle"
           /\ pkt' \in [Worker -> Packet \union {NoPacket}] /\ pkt'[w] = NoPacket
           /\ received' \subseteq Packet
           /\ received' = received \union {pkt[w]}
           /\ \A v \in Worker \ {w} : pc'[v] = pc[v] /\ pkt'[v] = pkt[v]
           /\ Busy'
  BY BusyPacket DEF Finish, Goto, TInv, TypeOK, Label, Busy

\* A worker that goes on keeps its packet.
LEMMA GotoTypes ==
    ASSUME TInv, NEW w \in Worker, pc[w] # "idle", NEW label \in Label, Goto(w, label), pkt' = pkt
    PROVE  /\ pc' \in [Worker -> Label] /\ pc'[w] = label
           /\ \A v \in Worker \ {w} : pc'[v] = pc[v]
           /\ Busy'
  BY DEF Goto, TInv, TypeOK, Busy

\* No step takes the types away.
LEMMA NextTInv == TInv /\ [Next]_vars => TInv'
  <1> SUFFICES ASSUME TInv, [Next]_vars PROVE TInv'
    OBVIOUS
  <1> USE DEF Label
  <1>1. ASSUME NEW s \in Sender, Send(s)
        PROVE  TInv'
    <2>1. next[s] \in Packet
      BY <1>1, SplitReassemblyAssumption DEF Send, TInv, TypeOK, Packet
    <2>2. net' \in Seq(Packet)
      BY <1>1, <2>1, AppendPlaces DEF Send, TInv, TypeOK
    <2>3. next' \in [Sender -> [sender : Sender, message : 1..(MaxMessage + 1), part : 1..Parts]]
      <3> DEFINE n == IF next[s].part < Parts THEN [next[s] EXCEPT !.part = @ + 1]
                      ELSE [next[s] EXCEPT !.message = @ + 1, !.part = 1]
      <3>1. n \in [sender : Sender, message : 1..(MaxMessage + 1), part : 1..Parts]
        <4>1. /\ next[s].sender \in Sender
              /\ next[s].message \in 1..MaxMessage
              /\ next[s].part \in 1..Parts
              /\ next[s] = [sender |-> next[s].sender, message |-> next[s].message,
                            part |-> next[s].part]
          BY <1>1, SplitReassemblyAssumption DEF Send, TInv, TypeOK
        <4>2. CASE next[s].part < Parts
          BY <4>1, <4>2, SplitReassemblyAssumption
        <4>3. CASE ~ next[s].part < Parts
          <5>1. n = [sender |-> next[s].sender, message |-> next[s].message + 1, part |-> 1]
            BY <4>1, <4>3
          <5>2. next[s].message + 1 \in 1..(MaxMessage + 1) /\ 1 \in 1..Parts
            BY <4>1, SplitReassemblyAssumption
          <5> QED  BY <4>1, <5>1, <5>2
        <4> QED  BY <4>2, <4>3
      <3>2. next' = [next EXCEPT ![s] = n]
        BY <1>1 DEF Send
      <3> HIDE DEF n
      <3> QED  BY <3>1, <3>2 DEF TInv, TypeOK
    <2>4. OwnPackets'
      BY <1>1 DEF Send, TInv, TypeOK, OwnPackets
    <2> QED  BY <1>1, <2>2, <2>3, <2>4 DEF Send, TInv, TypeOK, Busy
  <1>2. CASE Lose
    <2>1. net' \in Seq(Packet)
      BY <1>2 DEF Lose, Without, TInv, TypeOK
    <2> QED  BY <1>2, <2>1 DEF Lose, TInv, TypeOK, Busy, OwnPackets
  <1>3. ASSUME NEW w \in Worker, Submit(w)
        PROVE  TInv'
    <2>1. PICK i \in DOMAIN net : pkt' = [pkt EXCEPT ![w] = net[i]] /\ net' = Without(net, i)
      BY <1>3 DEF Submit
    <2>2. net[i] \in Packet /\ net' \in Seq(Packet)
      BY <2>1 DEF Without, TInv, TypeOK
    <2> QED  BY <1>3, <2>1, <2>2 DEF Submit, TInv, TypeOK, Busy, OwnPackets
  <1>4. ASSUME NEW w \in Worker, Check(w)
        PROVE  TInv'
    BY <1>4, GotoTypes DEF Check, TInv, TypeOK, OwnPackets
  <1>5. ASSUME NEW w \in Worker, Create(w)
        PROVE  TInv'
    <2>1. /\ DOMAIN packet_buffer' \subseteq Key
          /\ \A k \in DOMAIN packet_buffer' : packet_buffer'[k] \in Seq(Packet)
      BY <1>5, BusyPacket DEF Create, TInv, TypeOK
    <2> QED  BY <1>5, <2>1, GotoTypes DEF Create, TInv, TypeOK, OwnPackets
  <1>6. ASSUME NEW w \in Worker, AppendPacket(w)
        PROVE  TInv'
    <2>1. CASE KeyOf(pkt[w]) \in DOMAIN packet_buffer
      <3> DEFINE k == KeyOf(pkt[w])
                 list == Append(packet_buffer[k], pkt[w])
      <3>1. packet_buffer' = [packet_buffer EXCEPT ![k] = list] /\ k \in DOMAIN packet_buffer
        BY <1>6, <2>1 DEF AppendPacket
      <3>2. packet_buffer[k] \in Seq(Packet) /\ pkt[w] \in Packet
        BY <1>6, <2>1, BusyPacket DEF AppendPacket, TInv, TypeOK
      <3>3. list \in Seq(Packet)
        BY <3>2
      <3> HIDE DEF k, list
      <3>4. /\ DOMAIN packet_buffer' \subseteq Key
            /\ \A l \in DOMAIN packet_buffer' : packet_buffer'[l] \in Seq(Packet)
        BY <3>1, <3>3 DEF TInv, TypeOK
      <3> QED  BY <1>6, <2>1, <3>4, GotoTypes DEF AppendPacket, TInv, TypeOK, OwnPackets
    <2>2. CASE KeyOf(pkt[w]) \notin DOMAIN packet_buffer
      BY <1>6, <2>2, FinishTypes DEF AppendPacket, TInv, TypeOK, OwnPackets
    <2> QED  BY <2>1, <2>2
  <1>7. ASSUME NEW w \in Worker, Test(w)
        PROVE  TInv'
    <2>1. CASE UNCHANGED pkt /\ Goto(w, "join") /\ UNCHANGED received
      BY <1>7, <2>1, GotoTypes DEF Test, TInv, TypeOK, OwnPackets
    <2>2. CASE Finish(w)
      BY <1>7, <2>2, FinishTypes DEF Test, TInv, TypeOK, OwnPackets
    <2> QED  BY <1>7, <2>1, <2>2 DEF Test
  <1>8. ASSUME NEW w \in Worker, Join(w)
        PROVE  TInv'
    <2> DEFINE p == pkt[w]
    <2>1. p \in Packet /\ p.sender \in Sender /\ p.message \in 1..MaxMessage
      BY <1>8, BusyPacket DEF Join, Packet
    <2>2. CASE KeyOf(p) \in DOMAIN packet_buffer
      <3> DEFINE lists == Append(handled[p.sender][p.message], packet_buffer[KeyOf(p)])
                 row == [handled[p.sender] EXCEPT ![p.message] = lists]
      <3>1. /\ handled[p.sender][p.message] \in Seq(Seq(Packet))
            /\ packet_buffer[KeyOf(p)] \in Seq(Packet)
            /\ handled[p.sender] \in [1..MaxMessage -> Seq(Seq(Packet))]
        <4> HIDE DEF p
        <4> QED  BY <2>1, <2>2 DEF TInv, TypeOK
      <3>2. handled' \in [Sender -> [1..MaxMessage -> Seq(Seq(Packet))]]
        <4>1. lists \in Seq(Seq(Packet))
          BY <3>1
        <4>2. handled' = [handled EXCEPT ![p.sender] = row]
          BY <1>8, <2>2 DEF Join, Handle
        <4> HIDE DEF lists, p
        <4>3. row \in [1..MaxMessage -> Seq(Seq(Packet))]
          BY <3>1, <4>1
        <4> HIDE DEF row
        <4> QED  BY <4>2, <4>3 DEF TInv, TypeOK
      <3>3. /\ DOMAIN packet_buffer' \subseteq Key
            /\ \A k \in DOMAIN packet_buffer' : packet_buffer'[k] \in Seq(Packet)
        BY <1>8, <2>2 DEF Join, WithoutKey, TInv, TypeOK
      <3> QED  BY <1>8, <3>2, <3>3, FinishTypes DEF Join, TInv, TypeOK, OwnPackets
    <2>3. CASE KeyOf(p) \notin DOMAIN packet_buffer
      BY <1>8, <2>3, FinishTypes DEF Join, TInv, TypeOK, OwnPackets
    <2> QED  BY <2>2, <2>3
  <1>9. CASE UNCHANGED vars
    BY <1>9 DEF vars, TInv, TypeOK, Busy, OwnPackets
  <1> QED  BY <1>1, <1>2, <1>3, <1>4, <1>5, <1>6, <1>7, <1>8, <1>9 DEF Next

(* The variables keep their types (TypeOK of SplitReassembly): whatever a  *)
(* worker finds in packet_buffer when it comes to it.                      *)
THEOREM TypeCorrect == Spec => []TypeOK
  <1>1. TInv => TypeOK
    BY DEF TInv
  <1> QED  BY InitTInv, NextTInv, <1>1, PTL DEF Spec

-----------------------------------------------------------------------------
(* Whole messages.                                                         *)

\* The step of a worker that has a packet.
HandlerStep(w) == Check(w) \/ Create(w) \/ AppendPacket(w) \/ Test(w) \/ Join(w)

\* The places of packets that are not in a list, after a step.
LooseApart ==
    /\ Distinct(net)
    /\ \A w \in Worker : Held(w) => ~ In(pkt[w], net)
    /\ \A w, v \in Worker : Held(w) /\ Held(v) /\ pkt[w] = pkt[v] => w = v

\* A handler takes no packet up.
LEMMA HandlerHolds ==
    ASSUME TInv, NEW w \in Worker, HandlerStep(w)
    PROVE  /\ net' = net /\ next' = next
           /\ \A v \in Worker : Held(v)' => Held(v) /\ pkt'[v] = pkt[v]
           /\ \A v \in Worker \ {w} : pc'[v] = pc[v] /\ pkt'[v] = pkt[v]
           /\ pc'[w] # "idle" => pkt'[w] = pkt[w] /\ received' = received
           /\ pc'[w] = "idle" => received' = received \union {pkt[w]}
           /\ pc[w] # "idle"
  <1>1. net' = net /\ next' = next /\ pc[w] # "idle"
    BY DEF HandlerStep, Check, Create, AppendPacket, Test, Join
  <1>2. CASE Check(w)
    BY <1>1, <1>2 DEF Check, Goto, Held, TInv, TypeOK
  <1>3. CASE Create(w)
    BY <1>1, <1>3 DEF Create, Goto, Held, TInv, TypeOK
  <1>4. CASE AppendPacket(w)
    BY <1>1, <1>4 DEF AppendPacket, Goto, Finish, Held, TInv, TypeOK
  <1>5. CASE Test(w)
    BY <1>1, <1>5 DEF Test, Goto, Finish, Held, TInv, TypeOK
  <1>6. CASE Join(w)
    BY <1>1, <1>6 DEF Join, Goto, Finish, Held, TInv, TypeOK
  <1> QED  BY <1>2, <1>3, <1>4, <1>5, <1>6 DEF HandlerStep

\* With that, packets only leave the places outside the lists.
LEMMA HandlerApart ==
    ASSUME TInv, OnePlace, NEW w \in Worker, HandlerStep(w)
    PROVE  /\ LooseApart'
           /\ \A p : Loose(p)' => Loose(p)
  <1>1. /\ net' = net
        /\ \A v \in Worker : Held(v)' => Held(v) /\ pkt'[v] = pkt[v]
    BY HandlerHolds
  <1>2. LooseApart'
    BY <1>1 DEF OnePlace, LooseApart, Distinct, In
  <1>3. \A p : Loose(p)' => Loose(p)
    BY <1>1 DEF Loose, In
  <1> QED  BY <1>2, <1>3

\* What leaves or empties places breaks nothing.
LEMMA LessKeepsWInv ==
    ASSUME WInv, next' = next, handled' = handled, LooseApart',
           \A p \in Packet : Loose(p)' => Loose(p),
           \A p \in Packet : Buffered(p)' => Buffered(p),
           Lists', JoinsAreWhole',
           \A k \in Key : handled[k[1]][k[2]] # <<>> => k \notin DOMAIN packet_buffer'
    PROVE  WInv'
  <1>1. OnePlace'
    BY DEF WInv, OnePlace, LooseApart
  <1>2. \A p : Sent(p)' <=> Sent(p)
    BY DEF Sent
  <1>3. NoneFromTheFuture'
    BY <1>2 DEF WInv, NoneFromTheFuture
  <1>4. Done'
    BY <1>2, PartsAreCounted DEF WInv, Done
  <1> QED  BY <1>1, <1>3, <1>4 DEF WInv

\* It holds at the start.
LEMMA InitWInv == Init => WInv
  BY DEF Init, WInv, Lists, OnePlace, NoneFromTheFuture, JoinsAreWhole, JoinIsWhole, Done, Distinct, In,
         Loose, Buffered, Held, Key

\* A new packet has no place yet.
LEMMA SendPlaces ==
    ASSUME TInv, NEW s \in Sender, Send(s), NEW p, p = next[s]
    PROVE  /\ p \in Packet /\ ~ Sent(p) /\ Sent(p)'
           /\ UNCHANGED <<packet_buffer, pc, pkt, received, handled>>
           /\ net' = Append(net, p)
           /\ \A q : In(q, net)' <=> In(q, net) \/ q = p
           /\ \A q : Loose(q)' <=> Loose(q) \/ q = p
           /\ \A q \in Packet : Sent(q) => Sent(q)'
           /\ \A q \in Packet : Buffered(q)' <=> Buffered(q)
  <1>1. p \in Packet
    BY SplitReassemblyAssumption DEF Send, TInv, TypeOK, Packet
  <1>2. UNCHANGED <<packet_buffer, pc, pkt, received, handled>> /\ net' = Append(net, p)
    BY DEF Send
  <1>3. \A q : In(q, net)' <=> In(q, net) \/ q = p
    BY <1>1, <1>2, AppendPlaces DEF TInv, TypeOK
  <1>4. \A q : Loose(q)' <=> Loose(q) \/ q = p
    BY <1>2, <1>3 DEF Loose, Held
  <1>5. \A q \in Packet : Buffered(q)' <=> Buffered(q)
    BY <1>2 DEF Buffered, In
  <1>6. /\ p.sender \in Sender /\ p.message \in 1..MaxMessage /\ p.part \in 1..Parts
        /\ p = [sender |-> p.sender, message |-> p.message, part |-> p.part]
    BY <1>1 DEF Packet
  <1>7. next' = [next EXCEPT ![s] = IF p.part < Parts THEN [p EXCEPT !.part = @ + 1]
                                    ELSE [p EXCEPT !.message = @ + 1, !.part = 1]]
    BY DEF Send
  <1>8. /\ \A u \in Sender \ {s} : next'[u] = next[u]
        /\ \/ p.part < Parts /\ next'[s].message = p.message /\ next'[s].part = p.part + 1
           \/ ~ p.part < Parts /\ next'[s].message = p.message + 1 /\ next'[s].part = 1
    BY <1>6, <1>7 DEF TInv, TypeOK
  <1>9. MaxMessage \in Nat /\ Parts \in Nat
    BY SplitReassemblyAssumption
  <1>10. \A q \in Packet : q.sender \in Sender /\ q.message \in Nat /\ q.part \in 1..Parts
    BY <1>9 DEF Packet
  <1>s. p.sender = s
    BY DEF TInv, OwnPackets
  <1>11. ~ Sent(p)
    BY <1>6, <1>9, <1>s DEF Sent
  <1>12. Sent(p)'
    BY <1>6, <1>8, <1>9, <1>s DEF Sent
  <1>13. \A q \in Packet : Sent(q) => Sent(q)'
    <2> TAKE q \in Packet
    <2>2. CASE q.sender = s
      BY <1>6, <1>8, <1>9, <1>10, <2>2 DEF Sent
    <2>3. CASE q.sender # s
      BY <1>8, <1>10, <2>3 DEF Sent
    <2> QED  BY <2>2, <2>3
  <1> QED  BY <1>1, <1>2, <1>3, <1>4, <1>5, <1>11, <1>12, <1>13

LEMMA SendWInv ==
    ASSUME TInv, WInv, NEW s \in Sender, Send(s)
    PROVE  WInv'
  <1>0. PICK p : p = next[s]
    OBVIOUS
  <1>1. /\ p \in Packet /\ ~ Sent(p) /\ Sent(p)'
        /\ UNCHANGED <<packet_buffer, pc, pkt, handled>>
        /\ net' = Append(net, p)
        /\ \A q : In(q, net)' <=> In(q, net) \/ q = p
        /\ \A q : Loose(q)' <=> Loose(q) \/ q = p
        /\ \A q \in Packet : Sent(q) => Sent(q)'
        /\ \A q \in Packet : Buffered(q)' <=> Buffered(q)
    BY <1>0, SendPlaces
  <1>2. ~ Loose(p) /\ ~ Buffered(p)
    BY <1>1 DEF WInv, NoneFromTheFuture
  <1>3. Lists' /\ JoinsAreWhole'
    BY <1>1 DEF WInv, Lists, JoinsAreWhole, JoinIsWhole
  <1>4. Distinct(net')
    BY <1>1, <1>2, AppendPlaces DEF TInv, TypeOK, WInv, OnePlace, Loose
  <1>5. \A w \in Worker : Held(w)' => Held(w) /\ pkt'[w] = pkt[w] /\ pkt[w] # p
    BY <1>1, <1>2 DEF Held, Loose
  <1>6. OnePlace'
    BY <1>1, <1>2, <1>4, <1>5 DEF WInv, OnePlace
  <1>7. NoneFromTheFuture'
    BY <1>1 DEF WInv, NoneFromTheFuture
  <1>8. Done'
    BY <1>1, PartsAreCounted DEF WInv, Done
  <1> QED  BY <1>3, <1>6, <1>7, <1>8 DEF WInv

LEMMA LoseWInv ==
    ASSUME TInv, WInv, Lose
    PROVE  WInv'
  <1>1. PICK i \in DOMAIN net : net' = Without(net, i)
    BY DEF Lose
  <1>2. UNCHANGED <<next, packet_buffer, pc, pkt, handled>>
    BY DEF Lose
  <1>3. Distinct(net') /\ \A p : In(p, net)' => In(p, net)
    BY <1>1, WithoutPlaces DEF TInv, TypeOK, WInv, OnePlace
  <1>4. LooseApart'
    BY <1>2, <1>3 DEF WInv, OnePlace, LooseApart, Held
  <1>5. \A p : Loose(p)' => Loose(p)
    BY <1>2, <1>3 DEF Loose, Held
  <1>6. \A p : Buffered(p)' => Buffered(p)
    BY <1>2 DEF Buffered, In
  <1>7. Lists' /\ JoinsAreWhole'
    BY <1>2 DEF WInv, Lists, JoinsAreWhole, JoinIsWhole
  <1>8. \A k \in Key : handled[k[1]][k[2]] # <<>> => k \notin DOMAIN packet_buffer'
    BY <1>2 DEF WInv, Done
  <1> QED  BY <1>2, <1>4, <1>5, <1>6, <1>7, <1>8, LessKeepsWInv

\* The packet goes from the network to an idle worker.
LEMMA SubmitPlaces ==
    ASSUME TInv, Distinct(net), NEW w \in Worker, Submit(w)
    PROVE  /\ pkt'[w] \in Packet /\ In(pkt'[w], net)
           /\ pc[w] = "idle" /\ pc'[w] = "check"
           /\ UNCHANGED <<next, packet_buffer, received, handled>>
           /\ \A v \in Worker \ {w} : pc'[v] = pc[v] /\ pkt'[v] = pkt[v]
           /\ Distinct(net')
           /\ \A p : In(p, net)' <=> In(p, net) /\ p # pkt'[w]
           /\ \A p : Loose(p)' => Loose(p)
  <1>1. PICK i \in DOMAIN net : pkt' = [pkt EXCEPT ![w] = net[i]] /\ net' = Without(net, i)
    BY DEF Submit
  <1>2. net[i] \in Packet /\ pkt'[w] = net[i] /\ In(net[i], net)
    BY <1>1 DEF TInv, TypeOK, In
  <1>3. /\ pc[w] = "idle" /\ pc'[w] = "check"
        /\ UNCHANGED <<next, packet_buffer, received, handled>>
        /\ \A v \in Worker \ {w} : pc'[v] = pc[v] /\ pkt'[v] = pkt[v]
    BY <1>1 DEF Submit, TInv, TypeOK
  <1>4. Distinct(net') /\ \A p : In(p, net)' <=> In(p, net) /\ p # pkt'[w]
    BY <1>1, <1>2, WithoutPlaces DEF TInv, TypeOK
  <1>5. \A p : Loose(p)' => Loose(p)
    BY <1>2, <1>3, <1>4 DEF Loose, Held
  <1> QED  BY <1>2, <1>3, <1>4, <1>5

LEMMA SubmitWInv ==
    ASSUME TInv, WInv, NEW w \in Worker, Submit(w)
    PROVE  WInv'
  <1>1. /\ pkt'[w] \in Packet /\ In(pkt'[w], net)
        /\ pc[w] = "idle" /\ pc'[w] = "check"
        /\ UNCHANGED <<next, packet_buffer, handled>>
        /\ \A v \in Worker \ {w} : pc'[v] = pc[v] /\ pkt'[v] = pkt[v]
        /\ Distinct(net')
        /\ \A p : In(p, net)' <=> In(p, net) /\ p # pkt'[w]
        /\ \A p : Loose(p)' => Loose(p)
    BY SubmitPlaces DEF WInv, OnePlace
  <1>2. \A v \in Worker : Held(v)' /\ v # w => Held(v) /\ pkt'[v] = pkt[v]
    BY <1>1 DEF Held
  <1>3. LooseApart'
    BY <1>1, <1>2 DEF WInv, OnePlace, LooseApart
  <1>4. \A p : Buffered(p)' => Buffered(p)
    BY <1>1 DEF Buffered, In
  <1>5. Lists' /\ JoinsAreWhole'
    BY <1>1 DEF WInv, Lists, JoinsAreWhole, JoinIsWhole
  <1>6. \A k \in Key : handled[k[1]][k[2]] # <<>> => k \notin DOMAIN packet_buffer'
    BY <1>1 DEF WInv, Done
  <1> QED  BY <1>1, <1>3, <1>4, <1>5, <1>6, LessKeepsWInv

LEMMA CheckWInv ==
    ASSUME TInv, WInv, NEW w \in Worker, Check(w)
    PROVE  WInv'
  <1>1. UNCHANGED <<next, packet_buffer, pkt, handled>> /\ \A v \in Worker : pc'[v] # "join" \/ pc[v] = "join"
    BY DEF Check, Goto, TInv, TypeOK
  <1>2. LooseApart' /\ \A p : Loose(p)' => Loose(p)
    BY HandlerApart DEF HandlerStep, WInv
  <1>3. \A p : Buffered(p)' => Buffered(p)
    BY <1>1 DEF Buffered, In
  <1>4. Lists' /\ JoinsAreWhole'
    BY <1>1 DEF WInv, Lists, JoinsAreWhole, JoinIsWhole
  <1>5. \A k \in Key : handled[k[1]][k[2]] # <<>> => k \notin DOMAIN packet_buffer'
    BY <1>1 DEF WInv, Done
  <1> QED  BY <1>1, <1>2, <1>3, <1>4, <1>5, LessKeepsWInv

\* A message of which a worker still has a packet was not handled.
LEMMA HeldIsNotDone ==
    ASSUME TInv, WInv, NEW w \in Worker, Held(w), NEW k \in Key, handled[k[1]][k[2]] # <<>>
    PROVE  KeyOf(pkt[w]) # k
  <1>1. pc[w] # "idle"
    BY DEF Held
  <1>2. pkt[w] \in Packet /\ Loose(pkt[w])
    BY <1>1, BusyPacket DEF Loose
  <1> QED  BY <1>2, PartsAreCounted DEF WInv, Done

\* A worker that still has a packet of a message shows that no list of it is whole.
LEMMA HeldIsMissing ==
    ASSUME TInv, WInv, NEW w \in Worker, Held(w), NEW v \in Worker, pc[v] = "join"
    PROVE  KeyOf(pkt[v]) # KeyOf(pkt[w])
  <1>1. pc[w] # "idle"
    BY DEF Held
  <1>2. pkt[w] \in Packet /\ pkt[v] \in Packet /\ KeyOf(pkt[w]) \in Key /\ KeyOf(pkt[v]) \in Key
    BY <1>1, BusyPacket
  <1>3. ~ Buffered(pkt[w])
    BY <1>2 DEF WInv, OnePlace, Loose
  <1>4. ASSUME KeyOf(pkt[v]) = KeyOf(pkt[w]), KeyOf(pkt[v]) \in DOMAIN packet_buffer
        PROVE  FALSE
    <2>1. Whole(packet_buffer[KeyOf(pkt[w])], KeyOf(pkt[w]))
      BY <1>4 DEF WInv, JoinsAreWhole, JoinIsWhole
    <2>2. pkt[w] \in PartsOf(KeyOf(pkt[w]))
      BY <1>2, PartsAreCounted
    <2> QED  BY <1>2, <1>3, <1>4, <2>1, <2>2, WholeHasAll DEF Buffered
  <1>5. ASSUME KeyOf(pkt[v]) = KeyOf(pkt[w]), KeyOf(pkt[v]) \notin DOMAIN packet_buffer
        PROVE  FALSE
    <2>1. handled[pkt[v].sender][pkt[v].message] # <<>>
      BY <1>5 DEF WInv, JoinsAreWhole, JoinIsWhole
    <2>2. KeyOf(pkt[v])[1] = pkt[v].sender /\ KeyOf(pkt[v])[2] = pkt[v].message
      BY DEF KeyOf
    <2> QED  BY <1>2, <1>5, <2>1, <2>2, HeldIsNotDone
  <1> QED  BY <1>4, <1>5

\* The list that is created may replace another, but not a complete one.
LEMMA CreateWInv ==
    ASSUME TInv, WInv, NEW w \in Worker, Create(w)
    PROVE  WInv'
  <1> DEFINE k == KeyOf(pkt[w])
  <1>1. /\ UNCHANGED <<next, pkt, handled>>
        /\ DOMAIN packet_buffer' = DOMAIN packet_buffer \union {k}
        /\ packet_buffer'[k] = <<>>
        /\ \A l \in DOMAIN packet_buffer \ {k} : packet_buffer'[l] = packet_buffer[l]
        /\ \A v \in Worker : pc'[v] # "join" \/ pc[v] = "join"
    BY DEF Create, Goto, TInv, TypeOK
  <1>2. Held(w)
    BY DEF Create, Held
  <1> HIDE DEF k
  <1>3. LooseApart' /\ \A p : Loose(p)' => Loose(p)
    BY HandlerApart DEF HandlerStep, WInv
  <1>4. \A p : Buffered(p)' => Buffered(p)
    BY <1>1 DEF Buffered, In
  <1>5. Lists'
    BY <1>1 DEF WInv, Lists, Distinct
  <1>6. JoinsAreWhole'
    <2> SUFFICES ASSUME NEW v \in Worker, pc'[v] = "join"
                 PROVE  JoinIsWhole(v)'
      BY DEF JoinsAreWhole, JoinIsWhole
    <2>1. pc[v] = "join"
      BY <1>1
    <2>2. k # KeyOf(pkt[v])
      BY <1>2, <2>1, HeldIsMissing DEF k
    <2> QED  BY <1>1, <2>1, <2>2 DEF WInv, JoinsAreWhole, JoinIsWhole
  <1>7. \A l \in Key : handled[l[1]][l[2]] # <<>> => l \notin DOMAIN packet_buffer'
    BY <1>1, <1>2, HeldIsNotDone DEF WInv, Done, k
  <1> QED  BY <1>1, <1>3, <1>4, <1>5, <1>6, <1>7, LessKeepsWInv

\* The packet goes from the worker to the list.
LEMMA AppendMoves ==
    ASSUME TInv, WInv, NEW w \in Worker, AppendPacket(w), NEW k, k = KeyOf(pkt[w]),
           k \in DOMAIN packet_buffer, NEW p, p = pkt[w]
    PROVE  /\ p \in Packet /\ k \in Key /\ KeyOf(p) = k
           /\ packet_buffer[k] \in Seq(Packet)
           /\ DOMAIN packet_buffer' = DOMAIN packet_buffer
           /\ packet_buffer'[k] = Append(packet_buffer[k], p)
           /\ \A l \in DOMAIN packet_buffer \ {k} : packet_buffer'[l] = packet_buffer[l]
           /\ pc[w] = "append" /\ pc'[w] = "test" /\ Held(w) /\ ~ Held(w)'
           /\ \A v \in Worker \ {w} : pc'[v] = pc[v]
           /\ UNCHANGED <<next, net, pkt, received, handled>>
           /\ Loose(p) /\ ~ Buffered(p) /\ ~ Loose(p)'
           /\ \A q : Loose(q)' => Loose(q)
           /\ \A q \in Packet : Buffered(q)' <=> Buffered(q) \/ q = p
  <1>1. /\ packet_buffer' = [packet_buffer EXCEPT ![k] = Append(@, p)]
        /\ UNCHANGED <<next, net, pkt, received, handled>>
        /\ pc[w] = "append" /\ pc'[w] = "test"
        /\ \A v \in Worker \ {w} : pc'[v] = pc[v]
    BY DEF AppendPacket, Goto, TInv, TypeOK
  <1>2. p \in Packet /\ k \in Key /\ KeyOf(p) = k /\ packet_buffer[k] \in Seq(Packet)
    BY <1>1, BusyPacket DEF TInv, TypeOK
  <1>3. /\ DOMAIN packet_buffer' = DOMAIN packet_buffer
        /\ packet_buffer'[k] = Append(packet_buffer[k], p)
        /\ \A l \in DOMAIN packet_buffer \ {k} : packet_buffer'[l] = packet_buffer[l]
    BY <1>1
  <1>4. Held(w) /\ ~ Held(w)' /\ \A v \in Worker : Held(v)' => Held(v) /\ v # w
    BY <1>1 DEF Held
  <1>5. Loose(p) /\ ~ Buffered(p)
    BY <1>2, <1>4 DEF Loose, WInv, OnePlace
  <1>6. ~ Loose(p)' /\ \A q : Loose(q)' => Loose(q)
    <2>1. \A q : Loose(q)' => In(q, net) \/ \E v \in Worker : Held(v) /\ v # w /\ pkt[v] = q
      BY <1>1, <1>4 DEF Loose, In
    <2> QED  BY <1>4, <2>1 DEF Loose, WInv, OnePlace
  <1>7. \A q : In(q, packet_buffer'[k]) <=> In(q, packet_buffer[k]) \/ q = p
    BY <1>2, <1>3, AppendPlaces
  <1>8. ASSUME NEW q \in Packet
        PROVE  Buffered(q)' <=> Buffered(q) \/ q = p
    <2>1. Buffered(q)' <=> KeyOf(q) \in DOMAIN packet_buffer' /\ In(q, packet_buffer'[KeyOf(q)])
      BY DEF Buffered, In, KeyOf
    <2>2. CASE KeyOf(q) = k
      BY <1>3, <1>7, <2>1, <2>2 DEF Buffered
    <2>3. CASE KeyOf(q) # k
      BY <1>2, <1>3, <2>1, <2>3 DEF Buffered
    <2> QED  BY <2>2, <2>3
  <1> QED  BY <1>1, <1>2, <1>3, <1>4, <1>5, <1>6, <1>8

LEMMA AppendWInv ==
    ASSUME TInv, WInv, NEW w \in Worker, AppendPacket(w)
    PROVE  WInv'
  <1>0. PICK k, p : k = KeyOf(pkt[w]) /\ p = pkt[w]
    OBVIOUS
  <1>1. LooseApart' /\ \A q : Loose(q)' => Loose(q)
    BY HandlerApart DEF HandlerStep, WInv
  <1>2. CASE k \in DOMAIN packet_buffer
    <2>1. /\ p \in Packet /\ k \in Key /\ KeyOf(p) = k
          /\ packet_buffer[k] \in Seq(Packet)
          /\ DOMAIN packet_buffer' = DOMAIN packet_buffer
          /\ packet_buffer'[k] = Append(packet_buffer[k], p)
          /\ \A l \in DOMAIN packet_buffer \ {k} : packet_buffer'[l] = packet_buffer[l]
          /\ pc'[w] = "test" /\ Held(w)
          /\ \A v \in Worker \ {w} : pc'[v] = pc[v]
          /\ UNCHANGED <<next, net, pkt, received, handled>>
          /\ Loose(p) /\ ~ Buffered(p) /\ ~ Loose(p)'
          /\ \A q \in Packet : Buffered(q)' <=> Buffered(q) \/ q = p
      BY <1>0, <1>2, AppendMoves
    <2>2. Lists'
      <3>1. /\ Distinct(packet_buffer'[k])
            /\ \A i \in DOMAIN packet_buffer'[k] : KeyOf(packet_buffer'[k][i]) = k
        <4> DEFINE q == packet_buffer[k]
        <4>1. Distinct(q) /\ ~ In(p, q) /\ \A i \in DOMAIN q : KeyOf(q[i]) = k
          BY <1>2, <2>1 DEF WInv, Lists, Buffered
        <4>2. q \in Seq(Packet) /\ packet_buffer'[k] = Append(q, p)
          BY <2>1
        <4> HIDE DEF q
        <4>3. \A i \in 1..(Len(q) + 1) : i \in 1..Len(q) \/ i = Len(q) + 1
          BY <4>2
        <4> QED  BY <2>1, <4>1, <4>2, <4>3, AppendPlaces
      <3>2. ASSUME NEW l \in DOMAIN packet_buffer \ {k}
            PROVE  /\ Distinct(packet_buffer'[l])
                   /\ \A i \in DOMAIN packet_buffer'[l] : KeyOf(packet_buffer'[l][i]) = l
        BY <2>1 DEF WInv, Lists
      <3> QED  BY <2>1, <3>1, <3>2 DEF Lists
    <2>3. OnePlace'
      BY <1>1, <2>1 DEF WInv, OnePlace, LooseApart
    <2>4. \A q : Sent(q)' <=> Sent(q)
      BY <2>1 DEF Sent
    <2>5. NoneFromTheFuture'
      BY <1>1, <2>1, <2>4 DEF WInv, NoneFromTheFuture
    <2>6. JoinsAreWhole'
      <3> SUFFICES ASSUME NEW v \in Worker, pc'[v] = "join"
                   PROVE  JoinIsWhole(v)'
        BY DEF JoinsAreWhole, JoinIsWhole
      <3>1. pc[v] = "join"
        BY <2>1
      <3>2. k # KeyOf(pkt[v])
        BY <1>0, <2>1, <3>1, HeldIsMissing
      <3> QED  BY <2>1, <3>1, <3>2 DEF WInv, JoinsAreWhole, JoinIsWhole
    <2>7. Done'
      BY <1>1, <2>1, <2>4, PartsAreCounted DEF WInv, Done
    <2> QED  BY <2>2, <2>3, <2>5, <2>6, <2>7 DEF WInv
  <1>3. CASE k \notin DOMAIN packet_buffer
    <2>1. UNCHANGED <<next, packet_buffer, handled>>
      BY <1>0, <1>3 DEF AppendPacket
    <2>2. \A v \in Worker : pc'[v] = "join" => pc[v] = "join" /\ pkt'[v] = pkt[v]
      BY <1>0, <1>3 DEF AppendPacket, Finish, Goto, TInv, TypeOK
    <2>3. \A q : Buffered(q)' => Buffered(q)
      BY <2>1 DEF Buffered, In
    <2>4. Lists' /\ JoinsAreWhole'
      BY <2>1, <2>2 DEF WInv, Lists, JoinsAreWhole, JoinIsWhole
    <2>5. \A l \in Key : handled[l[1]][l[2]] # <<>> => l \notin DOMAIN packet_buffer'
      BY <2>1 DEF WInv, Done
    <2> QED  BY <1>1, <2>1, <2>3, <2>4, <2>5, LessKeepsWInv
  <1> QED  BY <1>2, <1>3

\* A complete list is the whole message.
LEMMA CompleteIsWhole ==
    ASSUME TInv, WInv, NEW k \in DOMAIN packet_buffer, Complete(packet_buffer[k])
    PROVE  Whole(packet_buffer[k], k)
  BY FullIsWhole DEF TInv, TypeOK, WInv, Lists, Complete

LEMMA TestWInv ==
    ASSUME TInv, WInv, NEW w \in Worker, Test(w)
    PROVE  WInv'
  <1>1. UNCHANGED <<next, net, packet_buffer, handled>>
    BY DEF Test
  <1>2. LooseApart' /\ \A q : Loose(q)' => Loose(q)
    BY HandlerApart DEF HandlerStep, WInv
  <1>3. \A q : Buffered(q)' => Buffered(q)
    BY <1>1 DEF Buffered, In
  <1>4. JoinsAreWhole'
    <2> SUFFICES ASSUME NEW v \in Worker, pc'[v] = "join"
                 PROVE  JoinIsWhole(v)'
      BY DEF JoinsAreWhole, JoinIsWhole
    <2>1. CASE v # w
      <3>1. pc[v] = "join" /\ pkt'[v] = pkt[v]
        BY <2>1, HandlerHolds DEF HandlerStep
      <3> QED  BY <1>1, <3>1 DEF WInv, JoinsAreWhole, JoinIsWhole
    <2>2. CASE v = w
      <3>1. pkt'[w] = pkt[w] /\ KeyOf(pkt[w]) \in DOMAIN packet_buffer
                /\ Complete(packet_buffer[KeyOf(pkt[w])])
        BY <2>2 DEF Test, Finish, Goto, TInv, TypeOK
      <3>2. Whole(packet_buffer[KeyOf(pkt[w])], KeyOf(pkt[w]))
        BY <3>1, CompleteIsWhole
      <3> QED  BY <1>1, <2>2, <3>1, <3>2 DEF JoinIsWhole
    <2> QED  BY <2>1, <2>2
  <1>5. Lists'
    BY <1>1 DEF WInv, Lists
  <1>6. \A l \in Key : handled[l[1]][l[2]] # <<>> => l \notin DOMAIN packet_buffer'
    BY <1>1 DEF WInv, Done
  <1> QED  BY <1>1, <1>2, <1>3, <1>4, <1>5, <1>6, LessKeepsWInv

\* The list of the worker's message goes to handle_client.
Joined(w, k) ==
    /\ k \in Key /\ pc[w] = "join"
    /\ Whole(packet_buffer[k], k)
    /\ handled[k[1]][k[2]] = <<>>
    /\ handled'[k[1]][k[2]] # <<>> /\ Len(handled'[k[1]][k[2]]) = 1
    /\ handled'[k[1]][k[2]][1] = packet_buffer[k]
    /\ \A l \in Key \ {k} : handled'[l[1]][l[2]] = handled[l[1]][l[2]]
    /\ DOMAIN packet_buffer' = DOMAIN packet_buffer \ {k}
    /\ \A l \in DOMAIN packet_buffer' : packet_buffer'[l] = packet_buffer[l]
    /\ \A v \in Worker \ {w} : pc'[v] = pc[v] /\ pkt'[v] = pkt[v]
    /\ pc'[w] = "idle"
    /\ \A q : Buffered(q)' <=> Buffered(q) /\ KeyOf(q) # k
    /\ UNCHANGED <<next, net>>

LEMMA JoinMoves ==
    ASSUME TInv, WInv, NEW w \in Worker, Join(w), NEW k, k = KeyOf(pkt[w]),
           k \in DOMAIN packet_buffer
    PROVE  Joined(w, k)
  <1>1. /\ pc[w] = "join" /\ pc'[w] = "idle"
        /\ \A v \in Worker \ {w} : pc'[v] = pc[v] /\ pkt'[v] = pkt[v]
        /\ packet_buffer' = WithoutKey(k)
        /\ Handle(pkt[w], packet_buffer[k])
        /\ UNCHANGED <<next, net>>
    BY DEF Join, Finish, Goto, TInv, TypeOK
  <1>2. /\ pkt[w] \in Packet /\ k \in Key
        /\ k[1] = pkt[w].sender /\ k[1] \in Sender
        /\ k[2] = pkt[w].message /\ k[2] \in 1..MaxMessage
    BY <1>1, BusyPacket DEF KeyOf, Packet
  <1>3. Whole(packet_buffer[k], k) /\ handled[k[1]][k[2]] = <<>>
    BY <1>1, <1>2 DEF WInv, JoinsAreWhole, JoinIsWhole, Done
  <1>4. /\ DOMAIN packet_buffer' = DOMAIN packet_buffer \ {k}
        /\ \A l \in DOMAIN packet_buffer' : packet_buffer'[l] = packet_buffer[l]
    BY <1>1 DEF WithoutKey
  <1>5. \A q : Buffered(q)' <=> Buffered(q) /\ KeyOf(q) # k
    BY <1>4 DEF Buffered, In
  <1>6. handled' = [handled EXCEPT ![k[1]][k[2]] = Append(@, packet_buffer[k])]
    BY <1>1, <1>2 DEF Handle
  <1>7. /\ handled'[k[1]][k[2]] # <<>> /\ Len(handled'[k[1]][k[2]]) = 1
        /\ handled'[k[1]][k[2]][1] = packet_buffer[k]
    <2> DEFINE list == Append(<<>>, packet_buffer[k])
    <2>1. handled'[k[1]][k[2]] = list
      BY <1>2, <1>3, <1>6 DEF TInv, TypeOK
    <2>2. packet_buffer[k] \in Seq(Packet)
      BY DEF TInv, TypeOK
    <2>3. list # <<>> /\ Len(list) = 1 /\ list[1] = packet_buffer[k]
      BY <2>2
    <2> QED  BY <2>1, <2>3
  <1>8. ASSUME NEW l \in Key \ {k}
        PROVE  handled'[l[1]][l[2]] = handled[l[1]][l[2]]
    <2>1. l[1] \in Sender /\ l[2] \in 1..MaxMessage /\ (l[1] # k[1] \/ l[2] # k[2])
      BY <1>2 DEF Key
    <2> QED  BY <1>2, <1>6, <2>1 DEF TInv, TypeOK
  <1> QED  BY <1>1, <1>2, <1>3, <1>4, <1>5, <1>7, <1>8 DEF Joined

LEMMA JoinWInv ==
    ASSUME TInv, WInv, NEW w \in Worker, Join(w)
    PROVE  WInv'
  <1>0. PICK k : k = KeyOf(pkt[w])
    OBVIOUS
  <1>1. LooseApart' /\ \A q : Loose(q)' => Loose(q)
    BY HandlerApart DEF HandlerStep, WInv
  <1>2. CASE k \in DOMAIN packet_buffer
    <2>1. /\ k \in Key
          /\ Whole(packet_buffer[k], k)
          /\ handled'[k[1]][k[2]] # <<>> /\ Len(handled'[k[1]][k[2]]) = 1
          /\ handled'[k[1]][k[2]][1] = packet_buffer[k]
          /\ \A l \in Key \ {k} : handled'[l[1]][l[2]] = handled[l[1]][l[2]]
          /\ DOMAIN packet_buffer' = DOMAIN packet_buffer \ {k}
          /\ \A l \in DOMAIN packet_buffer' : packet_buffer'[l] = packet_buffer[l]
          /\ \A v \in Worker \ {w} : pc'[v] = pc[v] /\ pkt'[v] = pkt[v]
          /\ pc'[w] = "idle"
          /\ \A q : Buffered(q)' <=> Buffered(q) /\ KeyOf(q) # k
          /\ UNCHANGED <<next, net>>
      <3>1. Joined(w, k)
        BY <1>0, <1>2, JoinMoves
      <3> QED  BY <3>1 DEF Joined
    <2>2. Lists'
      BY <2>1 DEF WInv, Lists
    <2>3. OnePlace'
      BY <1>1, <2>1 DEF WInv, OnePlace, LooseApart
    <2>4. \A q : Sent(q)' <=> Sent(q)
      BY <2>1 DEF Sent
    <2>5. NoneFromTheFuture'
      BY <1>1, <2>1, <2>4 DEF WInv, NoneFromTheFuture
    <2>6. JoinsAreWhole'
      <3> SUFFICES ASSUME NEW v \in Worker, pc'[v] = "join"
                   PROVE  JoinIsWhole(v)'
        BY DEF JoinsAreWhole, JoinIsWhole
      <3> DEFINE l == KeyOf(pkt[v])
      <3>1. pc[v] = "join" /\ pkt'[v] = pkt[v]
        BY <2>1
      <3>2. l \in Key /\ l[1] = pkt[v].sender /\ l[2] = pkt[v].message
        BY <3>1, BusyPacket DEF KeyOf
      <3>3. IF l \in DOMAIN packet_buffer THEN Whole(packet_buffer[l], l)
            ELSE handled[l[1]][l[2]] # <<>>
        BY <3>1, <3>2 DEF WInv, JoinsAreWhole, JoinIsWhole
      <3>4. IF l \in DOMAIN packet_buffer' THEN Whole(packet_buffer'[l], l)
            ELSE handled'[l[1]][l[2]] # <<>>
        <4> HIDE DEF l
        <4>1. CASE l = k
          BY <2>1, <4>1
        <4>2. CASE l # k
          BY <2>1, <3>2, <3>3, <4>2
        <4> QED  BY <4>1, <4>2
      <3> QED  BY <3>1, <3>2, <3>4 DEF JoinIsWhole
    <2>7. Done'
      <3> SUFFICES ASSUME NEW l \in Key, handled'[l[1]][l[2]] # <<>>
                   PROVE  /\ Len(handled'[l[1]][l[2]]) = 1
                          /\ Whole(handled'[l[1]][l[2]][1], l)
                          /\ l \notin DOMAIN packet_buffer'
                          /\ \A p \in PartsOf(l) : Sent(p)' /\ ~ Loose(p)'
        BY DEF Done
      <3>1. CASE l = k
        <4>1. \A p \in PartsOf(k) : p \in Packet /\ Buffered(p)
          BY <1>2, <2>1, PartsAreCounted, WholeHasAll DEF Buffered
        <4>2. \A p \in PartsOf(k) : Sent(p) /\ ~ Loose(p)
          BY <4>1 DEF WInv, NoneFromTheFuture, OnePlace
        <4> QED  BY <1>1, <2>1, <2>4, <3>1, <4>2
      <3>2. CASE l # k
        BY <1>1, <2>1, <2>4, <3>2 DEF WInv, Done
      <3> QED  BY <3>1, <3>2
    <2> QED  BY <2>2, <2>3, <2>5, <2>6, <2>7 DEF WInv
  <1>3. CASE k \notin DOMAIN packet_buffer
    <2>1. UNCHANGED <<next, packet_buffer, handled>>
      BY <1>0, <1>3 DEF Join
    <2>2. \A v \in Worker : pc'[v] = "join" => pc[v] = "join" /\ pkt'[v] = pkt[v]
      BY <1>0, <1>3 DEF Join, Finish, Goto, TInv, TypeOK
    <2>3. \A q : Buffered(q)' => Buffered(q)
      BY <2>1 DEF Buffered, In
    <2>4. Lists' /\ JoinsAreWhole'
      BY <2>1, <2>2 DEF WInv, Lists, JoinsAreWhole, JoinIsWhole
    <2>5. \A l \in Key : handled[l[1]][l[2]] # <<>> => l \notin DOMAIN packet_buffer'
      BY <2>1 DEF WInv, Done
    <2> QED  BY <1>1, <2>1, <2>3, <2>4, <2>5, LessKeepsWInv
  <1> QED  BY <1>2, <1>3

\* No step breaks it.
LEMMA NextWInv == TInv /\ WInv /\ [Next]_vars => WInv'
  <1> SUFFICES ASSUME TInv, WInv, [Next]_vars PROVE WInv'
    OBVIOUS
  <1>1. ASSUME NEW s \in Sender, Send(s) PROVE WInv'
    BY <1>1, SendWInv
  <1>2. CASE Lose
    BY <1>2, LoseWInv
  <1>3. ASSUME NEW w \in Worker, Submit(w) PROVE WInv'
    BY <1>3, SubmitWInv
  <1>4. ASSUME NEW w \in Worker, Check(w) PROVE WInv'
    BY <1>4, CheckWInv
  <1>5. ASSUME NEW w \in Worker, Create(w) PROVE WInv'
    BY <1>5, CreateWInv
  <1>6. ASSUME NEW w \in Worker, AppendPacket(w) PROVE WInv'
    BY <1>6, AppendWInv
  <1>7. ASSUME NEW w \in Worker, Test(w) PROVE WInv'
    BY <1>7, TestWInv
  <1>8. ASSUME NEW w \in Worker, Join(w) PROVE WInv'
    BY <1>8, JoinWInv
  <1>9. CASE UNCHANGED vars
    <2>1. /\ next' = next /\ net' = net /\ packet_buffer' = packet_buffer /\ pc' = pc
          /\ pkt' = pkt /\ received' = received /\ handled' = handled
      BY <1>9 DEF vars
    <2>2. LooseApart'
      BY <2>1 DEF WInv, OnePlace, LooseApart, Held
    <2>3. \A p : Loose(p)' => Loose(p)
      BY <2>1 DEF Loose, Held
    <2>4. \A p : Buffered(p)' => Buffered(p)
      BY <2>1 DEF Buffered, In
    <2>5. Lists' /\ JoinsAreWhole'
      BY <2>1 DEF WInv, Lists, JoinsAreWhole, JoinIsWhole
    <2>6. \A l \in Key : handled[l[1]][l[2]] # <<>> => l \notin DOMAIN packet_buffer'
      BY <2>1 DEF WInv, Done
    <2> QED  BY <2>1, <2>2, <2>3, <2>4, <2>5, <2>6, LessKeepsWInv
  <1> QED  BY <1>1, <1>2, <1>3, <1>4, <1>5, <1>6, <1>7, <1>8, <1>9 DEF Next

\* It gives the two properties.
LEMMA DoneHandlesWhole ==
    ASSUME TInv, WInv
    PROVE  HandledOnce /\ MessagesAreWhole
  <1> SUFFICES ASSUME NEW s \in Sender, NEW m \in 1..MaxMessage
               PROVE  /\ Len(handled[s][m]) <= 1
                      /\ \A n \in DOMAIN handled[s][m] : Whole(handled[s][m][n], <<s, m>>)
    BY DEF HandledOnce, MessagesAreWhole, Whole, PartsOf
  <1>1. handled[s][m] \in Seq(Seq(Packet)) /\ <<s, m>> \in Key
    BY DEF TInv, TypeOK, Key
  <1>2. CASE handled[s][m] = <<>>
    BY <1>1, <1>2
  <1>3. CASE handled[s][m] # <<>>
    <2>1. Len(handled[s][m]) = 1 /\ Whole(handled[s][m][1], <<s, m>>)
      BY <1>1, <1>3 DEF WInv, Done
    <2>2. \A n \in DOMAIN handled[s][m] : n = 1
      BY <1>1, <2>1
    <2> QED  BY <2>1, <2>2
  <1> QED  BY <1>2, <1>3

(* A message is handled at most once (HandledOnce of SplitReassembly),     *)
(* although several workers may find its list complete: the first one      *)
(* deletes it, and nothing of the message is left to start it again.       *)
THEOREM EachHandledOnce == Spec => []HandledOnce
  <1>1. Init => TInv /\ WInv
    BY InitTInv, InitWInv
  <1>2. TInv /\ WInv /\ [Next]_vars => (TInv /\ WInv)'
    BY NextTInv, NextWInv
  <1>3. TInv /\ WInv => HandledOnce
    BY DoneHandlesWhole
  <1> QED  BY <1>1, <1>2, <1>3, PTL DEF Spec

(* What reaches handle_client has each packet of its message once and none *)
(* of another (MessagesAreWhole of SplitReassembly), with a buffer that is *)
(* shared without a lock and a test that only counts.                      *)
THEOREM OnlyWholeMessages == Spec => []MessagesAreWhole
  <1>1. Init => TInv /\ WInv
    BY InitTInv, InitWInv
  <1>2. TInv /\ WInv /\ [Next]_vars => (TInv /\ WInv)'
    BY NextTInv, NextWInv
  <1>3. TInv /\ WInv => MessagesAreWhole
    BY DoneHandlesWhole
  <1> QED  BY <1>1, <1>2, <1>3, PTL DEF Spec

-----------------------------------------------------------------------------
(* Paced senders.                                                          *)

\* A sender's packets are of no other sender's messages.
LEMMA KeysOfSenders ==
    \A p, q : KeyOf(p) = KeyOf(q) => p.sender = q.sender /\ p.message = q.message
  BY DEF KeyOf

\* Two workers do not share a paced sender.
LEMMA OtherSenders ==
    ASSUME PInv, NEW w \in Worker, NEW v \in Worker, w # v, pc[w] # "idle", pc[v] # "idle",
           pkt[v].sender \in Paced
    PROVE  pkt[v].sender # pkt[w].sender /\ KeyOf(pkt[v]) # KeyOf(pkt[w])
  <1>1. pkt[v].sender # pkt[w].sender
    BY DEF PInv, Alone
  <1> QED  BY <1>1, KeysOfSenders

\* A handler takes nothing up, so a paced sender stays alone.
LEMMA HandlerAlone ==
    ASSUME TInv, PInv, NEW w \in Worker, HandlerStep(w)
    PROVE  Alone'
  <1>1. /\ net' = net
        /\ \A v \in Worker : pc'[v] # "idle" => pc[v] # "idle" /\ pkt'[v] = pkt[v]
    BY HandlerHolds
  <1> QED  BY <1>1 DEF PInv, Alone, In

\* The order of the lists does not change with the packets outside them.
LEMMA SameListsInOrder ==
    ASSUME PInv, packet_buffer' = packet_buffer, \A p \in Packet : Loose(p)' => Loose(p)
    PROVE  InOrder' /\ \A p : Buffered(p)' <=> Buffered(p)
  <1>1. InOrder'
    BY DEF PInv, InOrder
  <1>2. \A p : Buffered(p)' <=> Buffered(p)
    BY DEF Buffered, In
  <1> QED  BY <1>1, <1>2

\* The packets of a message, of which there is one at least.
LEMMA PartOf ==
    ASSUME NEW s \in Sender, NEW m \in 1..MaxMessage
    PROVE  /\ <<s, m>> \in Key
           /\ \A p \in PartsOf(<<s, m>>) : /\ p \in Packet /\ KeyOf(p) = <<s, m>>
                                           /\ p.sender = s /\ p.message = m
           /\ \E p : p \in PartsOf(<<s, m>>)
  <1>1. <<s, m>> \in Key
    BY DEF Key
  <1>2. \A p \in PartsOf(<<s, m>>) : p \in Packet /\ KeyOf(p) = <<s, m>>
    BY <1>1, PartsAreCounted
  <1>3. \A p \in PartsOf(<<s, m>>) : p.sender = s /\ p.message = m
    BY DEF PartsOf
  <1>4. 1 \in 1..Parts
    BY SplitReassemblyAssumption
  <1>5. [sender |-> s, message |-> m, part |-> 1] \in PartsOf(<<s, m>>)
    BY <1>4 DEF PartsOf
  <1> QED  BY <1>1, <1>2, <1>3, <1>5

\* It holds at the start.
LEMMA InitPInv == Init => PInv
  <1> SUFFICES ASSUME Init PROVE PInv
    OBVIOUS
  <1>1. Alone /\ Undisturbed /\ InOrder /\ AssembledInOrder /\ Kept
    BY SplitReassemblyAssumption
       DEF Init, Alone, Undisturbed, InOrder, AssembledInOrder, Kept, In
  <1>2. \A p : ~ Buffered(p)
    BY DEF Init, Buffered
  <1>3. Attended
    BY <1>2, PartOf, SplitReassemblyAssumption DEF Attended
  <1> QED  BY <1>1, <1>3 DEF PInv

LEMMA SendPInv ==
    ASSUME TInv, WInv, PInv, NEW s \in Sender, Send(s)
    PROVE  PInv'
  <1>0. PICK p : p = next[s]
    OBVIOUS
  <1>1. /\ p \in Packet /\ ~ Sent(p) /\ Sent(p)'
        /\ UNCHANGED <<packet_buffer, pc, pkt, received, handled>>
        /\ \A q : In(q, net)' <=> In(q, net) \/ q = p
        /\ \A q : Loose(q)' <=> Loose(q) \/ q = p
        /\ \A q \in Packet : Sent(q) => Sent(q)'
        /\ \A q \in Packet : Buffered(q)' <=> Buffered(q)
    BY <1>0, SendPlaces
  <1>2. p.sender = s
    BY <1>0 DEF TInv, OwnPackets
  <1>3. s \in Paced => /\ \A q : In(q, net) => q.sender # s
                       /\ \A w \in Worker : pkt[w].sender # s
    BY DEF Send, Underway, In
  <1>4. \A q : In(q, net') <=> In(q, net) \/ q = p
    BY <1>1 DEF In
  <1>5. Alone'
    BY <1>1, <1>2, <1>3, <1>4 DEF PInv, Alone
  <1>6. Undisturbed'
    BY <1>1, BusyPacket DEF PInv, Undisturbed
  <1>7. InOrder'
    <2> SUFFICES ASSUME NEW u \in Paced, NEW m \in 1..MaxMessage, <<u, m>> \in DOMAIN packet_buffer
                 PROVE  /\ Ascending(packet_buffer[<<u, m>>])
                        /\ \A q \in Packet : Loose(q)' /\ KeyOf(q) = <<u, m>> =>
                              \A i \in DOMAIN packet_buffer[<<u, m>>] :
                                  packet_buffer[<<u, m>>][i].part < q.part
      BY <1>1 DEF InOrder
    <2>1. ASSUME KeyOf(p) = <<u, m>>, NEW i \in DOMAIN packet_buffer[<<u, m>>]
          PROVE  packet_buffer[<<u, m>>][i].part < p.part
      <3> DEFINE q == packet_buffer[<<u, m>>][i]
      <3>a. q \in Packet
        BY <2>1 DEF TInv, TypeOK
      <3>b. KeyOf(q) = <<u, m>>
        BY <2>1 DEF WInv, Lists
      <3>1. q \in Packet /\ KeyOf(q) = <<u, m>> /\ Buffered(q)
        BY <2>1, <3>a, <3>b DEF Buffered, In
      <3> HIDE DEF q
      <3>2. Sent(q) /\ q.sender = p.sender /\ q.message = p.message
        BY <2>1, <3>1, KeysOfSenders DEF WInv, NoneFromTheFuture
      <3>3. q.part < p.part
        BY <1>0, <1>1, <1>2, <3>1, <3>2, SplitReassemblyAssumption DEF Sent, Packet
      <3> QED  BY <3>3 DEF q
    <2> QED  BY <1>1, <2>1 DEF PInv, InOrder
  <1>8. Kept'
    BY <1>1, <1>4 DEF PInv, Kept, TInv, TypeOK
  <1>9. AssembledInOrder'
    BY <1>1 DEF PInv, AssembledInOrder
  <1>10. Attended'
    BY <1>1, PartOf, SplitReassemblyAssumption DEF PInv, Attended
  <1> QED  BY <1>5, <1>6, <1>7, <1>8, <1>9, <1>10 DEF PInv

LEMMA LosePInv ==
    ASSUME TInv, WInv, PInv, Lose
    PROVE  PInv'
  <1>1. PICK i \in DOMAIN net : net' = Without(net, i)
    BY DEF Lose
  <1>2. UNCHANGED <<next, packet_buffer, pc, pkt, received, handled>>
    BY DEF Lose
  <1>3. \A p : In(p, net') => In(p, net)
    BY <1>1, WithoutPlaces DEF TInv, TypeOK, WInv, OnePlace
  <1>4. \A p : Loose(p)' => Loose(p)
    BY <1>2, <1>3 DEF Loose, Held, In
  <1>5. InOrder' /\ \A p : Buffered(p)' <=> Buffered(p)
    BY <1>2, <1>4, SameListsInOrder
  <1>6. \A p : Sent(p)' <=> Sent(p)
    BY <1>2 DEF Sent
  <1>7. Alone'
    BY <1>2, <1>3 DEF PInv, Alone
  <1>8. Undisturbed'
    BY <1>2, <1>5, <1>6 DEF PInv, Undisturbed
  <1>9. Kept'
    BY <1>2, <1>3, <1>5, <1>6 DEF PInv, Kept
  <1>10. AssembledInOrder' /\ Attended'
    BY <1>2, <1>5 DEF PInv, AssembledInOrder, Attended
  <1> QED  BY <1>5, <1>7, <1>8, <1>9, <1>10 DEF PInv

LEMMA SubmitPInv ==
    ASSUME TInv, WInv, PInv, NEW w \in Worker, Submit(w)
    PROVE  PInv'
  <1>0. PICK p : p = pkt'[w]
    OBVIOUS
  <1>1. /\ p \in Packet /\ In(p, net)
        /\ pc[w] = "idle" /\ pc'[w] = "check"
        /\ UNCHANGED <<next, packet_buffer, received, handled>>
        /\ \A v \in Worker \ {w} : pc'[v] = pc[v] /\ pkt'[v] = pkt[v]
        /\ \A q : In(q, net)' <=> In(q, net) /\ q # p
        /\ \A q : Loose(q)' => Loose(q)
    BY <1>0, SubmitPlaces DEF WInv, OnePlace
  <1>2. \A q : In(q, net') <=> In(q, net) /\ q # p
    BY <1>1 DEF In
  <1>3. InOrder' /\ \A q : Buffered(q)' <=> Buffered(q)
    BY <1>1, SameListsInOrder
  <1>4. \A q : Sent(q)' <=> Sent(q)
    BY <1>1 DEF Sent
  <1>5. Alone'
    <2> SUFFICES ASSUME NEW s \in Paced
                 PROVE  /\ \A q, r \in Packet :
                              In(q, net') /\ In(r, net') /\ q.sender = s /\ r.sender = s => q = r
                        /\ \A u, v \in Worker : pc'[u] # "idle" /\ pc'[v] # "idle"
                               /\ pkt'[u].sender = s /\ pkt'[v].sender = s => u = v
                        /\ \A v \in Worker, q \in Packet :
                              pc'[v] # "idle" /\ pkt'[v].sender = s /\ q.sender = s => ~ In(q, net')
      BY DEF Alone
    <2>1. \A q, r \in Packet : In(q, net) /\ In(r, net) /\ q.sender = s /\ r.sender = s => q = r
      BY DEF PInv, Alone
    <2>2. \A u, v \in Worker : pc[u] # "idle" /\ pc[v] # "idle"
              /\ pkt[u].sender = s /\ pkt[v].sender = s => u = v
      BY DEF PInv, Alone
    <2>3. \A v \in Worker, q \in Packet :
              pc[v] # "idle" /\ pkt[v].sender = s /\ q.sender = s => ~ In(q, net)
      BY DEF PInv, Alone
    <2> QED  BY <1>0, <1>1, <1>2, <2>1, <2>2, <2>3
  <1>6. Undisturbed'
    <2>1. Sent(p)
      BY <1>1 DEF WInv, NoneFromTheFuture, Loose
    <2>2. p.sender \in Paced => p \notin received
      BY <1>1 DEF PInv, Kept
    <2> SUFFICES ASSUME NEW v \in Worker, pc'[v] # "idle", pkt'[v].sender \in Paced
                 PROVE  /\ Sent(pkt'[v])
                        /\ pkt'[v] \notin received
                        /\ pc'[v] = "create" => KeyOf(pkt'[v]) \notin DOMAIN packet_buffer
                        /\ pc'[v] \in {"append", "join"} => KeyOf(pkt'[v]) \in DOMAIN packet_buffer
                        /\ pc'[v] = "test" => Buffered(pkt'[v])
      BY <1>1 DEF Undisturbed, Sent, Buffered, In
    <2>3. CASE v = w
      BY <1>0, <1>1, <2>1, <2>2, <2>3
    <2>4. CASE v # w
      BY <1>1, <2>4 DEF PInv, Undisturbed
    <2> QED  BY <2>3, <2>4
  <1>7. Kept'
    BY <1>1, <1>2, <1>3, <1>4 DEF PInv, Kept
  <1>8. AssembledInOrder'
    BY <1>1 DEF PInv, AssembledInOrder
  <1>9. Attended'
    <2> SUFFICES ASSUME NEW s \in Paced, NEW m \in 1..MaxMessage,
                        \A q \in PartsOf(<<s, m>>) : Buffered(q)
                 PROVE  \E v \in Worker : pc'[v] \in {"test", "join"} /\ KeyOf(pkt'[v]) = <<s, m>>
      BY <1>3 DEF Attended
    <2>1. PICK v \in Worker : pc[v] \in {"test", "join"} /\ KeyOf(pkt[v]) = <<s, m>>
      BY DEF PInv, Attended
    <2> QED  BY <1>1, <2>1
  <1> QED  BY <1>3, <1>5, <1>6, <1>7, <1>8, <1>9 DEF PInv

LEMMA CheckPInv ==
    ASSUME TInv, WInv, PInv, NEW w \in Worker, Check(w)
    PROVE  PInv'
  <1>1. /\ UNCHANGED <<next, net, packet_buffer, pkt, received, handled>>
        /\ pc[w] = "check"
        /\ \/ pc'[w] = "append" /\ KeyOf(pkt[w]) \in DOMAIN packet_buffer
           \/ pc'[w] = "create" /\ KeyOf(pkt[w]) \notin DOMAIN packet_buffer
        /\ \A v \in Worker \ {w} : pc'[v] = pc[v]
    BY DEF Check, Goto, TInv, TypeOK
  <1>2. Alone' /\ \A q : Loose(q)' => Loose(q)
    BY HandlerAlone, HandlerApart DEF HandlerStep, WInv
  <1>3. InOrder' /\ \A q : Buffered(q)' <=> Buffered(q)
    BY <1>1, <1>2, SameListsInOrder
  <1>4. \A q : Sent(q)' <=> Sent(q)
    BY <1>1 DEF Sent
  <1>5. Undisturbed'
    BY <1>1, <1>3, <1>4 DEF PInv, Undisturbed
  <1>6. Kept'
    BY <1>1, <1>3, <1>4 DEF PInv, Kept
  <1>7. AssembledInOrder'
    BY <1>1 DEF PInv, AssembledInOrder
  <1>8. Attended'
    <2> SUFFICES ASSUME NEW s \in Paced, NEW m \in 1..MaxMessage,
                        \A q \in PartsOf(<<s, m>>) : Buffered(q)
                 PROVE  \E v \in Worker : pc'[v] \in {"test", "join"} /\ KeyOf(pkt'[v]) = <<s, m>>
      BY <1>3 DEF Attended
    <2>1. PICK v \in Worker : pc[v] \in {"test", "join"} /\ KeyOf(pkt[v]) = <<s, m>>
      BY DEF PInv, Attended
    <2> QED  BY <1>1, <2>1
  <1> QED  BY <1>2, <1>3, <1>5, <1>6, <1>7, <1>8 DEF PInv

LEMMA CreatePInv ==
    ASSUME TInv, WInv, PInv, NEW w \in Worker, Create(w)
    PROVE  PInv'
  <1>0. PICK k : k = KeyOf(pkt[w])
    OBVIOUS
  <1>1. /\ UNCHANGED <<next, net, pkt, received, handled>>
        /\ DOMAIN packet_buffer' = DOMAIN packet_buffer \union {k}
        /\ packet_buffer'[k] = <<>>
        /\ \A l \in DOMAIN packet_buffer \ {k} : packet_buffer'[l] = packet_buffer[l]
        /\ pc[w] = "create" /\ pc'[w] = "append"
        /\ \A v \in Worker \ {w} : pc'[v] = pc[v]
    BY <1>0 DEF Create, Goto, TInv, TypeOK
  <1>2. Alone' /\ \A q : Loose(q)' => Loose(q)
    BY HandlerAlone, HandlerApart DEF HandlerStep, WInv
  <1>3. \A q : Buffered(q)' <=> Buffered(q) /\ KeyOf(q) # k
    BY <1>1 DEF Buffered, In
  <1>4. \A q : Sent(q)' <=> Sent(q)
    BY <1>1 DEF Sent
  <1>5. ASSUME NEW q, KeyOf(q) = k, q.sender \in Paced
        PROVE  ~ Buffered(q)
    <2>1. pkt[w].sender \in Paced
      BY <1>0, <1>5, KeysOfSenders
    <2> QED  BY <1>0, <1>1, <1>5, <2>1 DEF PInv, Undisturbed, Buffered
  <1>6. Undisturbed'
    <2> SUFFICES ASSUME NEW v \in Worker, pc'[v] # "idle", pkt[v].sender \in Paced
                 PROVE  /\ Sent(pkt[v])
                        /\ pkt[v] \notin received
                        /\ pc'[v] = "create" => KeyOf(pkt[v]) \notin DOMAIN packet_buffer'
                        /\ pc'[v] \in {"append", "join"} => KeyOf(pkt[v]) \in DOMAIN packet_buffer'
                        /\ pc'[v] = "test" => Buffered(pkt[v]) /\ KeyOf(pkt[v]) # k
      BY <1>1, <1>3, <1>4 DEF Undisturbed
    <2>1. CASE v = w
      BY <1>0, <1>1, <2>1 DEF PInv, Undisturbed
    <2>2. CASE v # w
      <3>1. KeyOf(pkt[v]) # k /\ pc[v] = pc'[v]
        BY <1>0, <1>1, <2>2, OtherSenders
      <3> QED  BY <1>1, <3>1 DEF PInv, Undisturbed
    <2> QED  BY <2>1, <2>2
  <1>7. InOrder'
    <2> SUFFICES ASSUME NEW s \in Paced, NEW m \in 1..MaxMessage,
                        <<s, m>> \in DOMAIN packet_buffer'
                 PROVE  /\ Ascending(packet_buffer'[<<s, m>>])
                        /\ \A p \in Packet : Loose(p) /\ KeyOf(p) = <<s, m>> =>
                              \A i \in DOMAIN packet_buffer'[<<s, m>>] :
                                  packet_buffer'[<<s, m>>][i].part < p.part
      BY <1>2 DEF InOrder
    <2>1. CASE <<s, m>> = k
      BY <1>1, <2>1 DEF Ascending
    <2>2. CASE <<s, m>> # k
      BY <1>1, <2>2 DEF PInv, InOrder
    <2> QED  BY <2>1, <2>2
  <1>8. Kept'
    BY <1>1, <1>3, <1>4, <1>5 DEF PInv, Kept, In
  <1>9. AssembledInOrder'
    BY <1>1 DEF PInv, AssembledInOrder
  <1>10. Attended'
    <2> SUFFICES ASSUME NEW s \in Paced, NEW m \in 1..MaxMessage,
                        \A q \in PartsOf(<<s, m>>) : Buffered(q)
                 PROVE  \E v \in Worker : pc'[v] \in {"test", "join"} /\ KeyOf(pkt'[v]) = <<s, m>>
      BY <1>3 DEF Attended
    <2>1. PICK v \in Worker : pc[v] \in {"test", "join"} /\ KeyOf(pkt[v]) = <<s, m>>
      BY DEF PInv, Attended
    <2> QED  BY <1>1, <2>1
  <1> QED  BY <1>2, <1>6, <1>7, <1>8, <1>9, <1>10 DEF PInv

\* A packet of a higher part keeps a list ascending.
LEMMA AppendAscending ==
    ASSUME NEW q \in Seq(Packet), Ascending(q), NEW p \in Packet,
           \A i \in DOMAIN q : q[i].part < p.part
    PROVE  Ascending(Append(q, p))
  <1> DEFINE n == Len(q)
             r == Append(q, p)
  <1>1. /\ n \in Nat /\ DOMAIN q = 1..n /\ DOMAIN r = 1..(n + 1)
        /\ \A i \in 1..n : r[i] = q[i]
        /\ r[n + 1] = p
    BY AppendPlaces
  <1>2. p.part \in Nat /\ p.part >= 1 /\ \A i \in 1..n : q[i].part \in Nat
    <2>1. \A e \in Packet : e.part \in Nat /\ e.part >= 1
      BY SplitReassemblyAssumption DEF Packet
    <2>2. \A i \in 1..n : q[i] \in Packet
      BY <1>1
    <2> QED  BY <2>1, <2>2
  <1> HIDE DEF n, r
  <1>3. /\ p.part >= n + 1
        /\ \A i \in 1..n : p.part - (n + 1) >= q[i].part - i
    <2>1. CASE n = 0
      BY <1>2, <2>1
    <2>2. CASE n # 0
      <3>1. n \in 1..n /\ q[n].part >= n /\ q[n].part < p.part
        BY <1>1, <2>2 DEF Ascending
      <3>2. \A i \in 1..n : q[n].part - n >= q[i].part - i
        BY <1>1, <3>1 DEF Ascending
      <3>3. p.part - (n + 1) >= q[n].part - n
        BY <1>1, <1>2, <3>1
      <3> QED  BY <1>1, <1>2, <3>1, <3>2, <3>3
    <2> QED  BY <2>1, <2>2
  <1> SUFFICES ASSUME NEW i \in 1..(n + 1), NEW j \in 1..(n + 1)
               PROVE  r[i].part >= i /\ (i <= j => r[j].part - j >= r[i].part - i)
    BY <1>1 DEF Ascending, r
  <1>4. CASE i \in 1..n /\ j \in 1..n
    BY <1>1, <1>4 DEF Ascending
  <1>5. CASE i \in 1..n /\ j = n + 1
    BY <1>1, <1>3, <1>5 DEF Ascending
  <1>6. CASE i = n + 1
    BY <1>1, <1>2, <1>3, <1>6
  <1> QED  BY <1>1, <1>4, <1>5, <1>6

LEMMA AppendPInv ==
    ASSUME TInv, WInv, PInv, NEW w \in Worker, AppendPacket(w)
    PROVE  PInv'
  <1>0. PICK k, p : k = KeyOf(pkt[w]) /\ p = pkt[w]
    OBVIOUS
  <1>1. Alone' /\ \A q : Loose(q)' => Loose(q)
    BY HandlerAlone, HandlerApart DEF HandlerStep, WInv
  <1>2. CASE k \in DOMAIN packet_buffer
    <2>1. /\ p \in Packet /\ k \in Key /\ KeyOf(p) = k
          /\ packet_buffer[k] \in Seq(Packet)
          /\ DOMAIN packet_buffer' = DOMAIN packet_buffer
          /\ packet_buffer'[k] = Append(packet_buffer[k], p)
          /\ \A l \in DOMAIN packet_buffer \ {k} : packet_buffer'[l] = packet_buffer[l]
          /\ pc[w] = "append" /\ pc'[w] = "test" /\ Held(w) /\ ~ Held(w)'
          /\ \A v \in Worker \ {w} : pc'[v] = pc[v]
          /\ UNCHANGED <<next, net, pkt, received, handled>>
          /\ Loose(p) /\ ~ Loose(p)'
          /\ \A q \in Packet : Buffered(q)' <=> Buffered(q) \/ q = p
      BY <1>0, <1>2, AppendMoves
    <2>2. \A q : Sent(q)' <=> Sent(q)
      BY <2>1 DEF Sent
    <2>3. Undisturbed'
      <3> SUFFICES ASSUME NEW v \in Worker, pc'[v] # "idle", pkt[v].sender \in Paced
                   PROVE  /\ Sent(pkt[v])
                          /\ pkt[v] \notin received
                          /\ pc'[v] = "create" => KeyOf(pkt[v]) \notin DOMAIN packet_buffer
                          /\ pc'[v] \in {"append", "join"} => KeyOf(pkt[v]) \in DOMAIN packet_buffer
                          /\ pc'[v] = "test" => Buffered(pkt[v])'
        BY <2>1, <2>2 DEF Undisturbed
      <3>1. CASE v = w
        BY <1>0, <2>1, <3>1 DEF PInv, Undisturbed
      <3>2. CASE v # w
        <4>1. pc[v] = pc'[v] /\ pkt[v] \in Packet
          BY <2>1, <3>2, BusyPacket
        <4> QED  BY <2>1, <4>1 DEF PInv, Undisturbed
      <3> QED  BY <3>1, <3>2
    <2>4. InOrder'
      <3> SUFFICES ASSUME NEW s \in Paced, NEW m \in 1..MaxMessage,
                          <<s, m>> \in DOMAIN packet_buffer
                   PROVE  /\ Ascending(packet_buffer'[<<s, m>>])
                          /\ \A q \in Packet : Loose(q)' /\ KeyOf(q) = <<s, m>> =>
                                \A i \in DOMAIN packet_buffer'[<<s, m>>] :
                                    packet_buffer'[<<s, m>>][i].part < q.part
        BY <2>1 DEF InOrder
      <3>1. CASE <<s, m>> = k
        <4>1. Ascending(packet_buffer[k]) /\ \A i \in DOMAIN packet_buffer[k] : packet_buffer[k][i].part < p.part
          BY <1>2, <2>1, <3>1 DEF PInv, InOrder
        <4>2. Ascending(packet_buffer'[k])
          BY <2>1, <4>1, AppendAscending
        <4>3. p.sender = s
          BY <2>1, <3>1 DEF KeyOf
        <4>4. ASSUME NEW q \in Packet, Loose(q)', KeyOf(q) = k
              PROVE  FALSE
          <5>1. q.sender = s
            BY <3>1, <4>4 DEF KeyOf
          <5>2. ~ In(q, net)
            BY <1>0, <2>1, <4>3, <5>1 DEF PInv, Alone
          <5>3. PICK v \in Worker : Held(v)' /\ pkt[v] = q
            BY <2>1, <4>4, <5>2 DEF Loose, In
          <5>4. v # w /\ pc[v] # "idle"
            BY <2>1, <5>3 DEF Held
          <5> QED  BY <1>0, <2>1, <4>3, <5>1, <5>3, <5>4 DEF PInv, Alone
        <4> QED  BY <3>1, <4>2, <4>4
      <3>2. CASE <<s, m>> # k
        BY <1>1, <2>1, <3>2 DEF PInv, InOrder
      <3> QED  BY <3>1, <3>2
    <2>5. Kept'
      BY <2>1, <2>2 DEF PInv, Kept, In, TInv, TypeOK
    <2>6. AssembledInOrder'
      BY <2>1 DEF PInv, AssembledInOrder
    <2>7. Attended'
      <3> SUFFICES ASSUME NEW s \in Paced, NEW m \in 1..MaxMessage,
                          \A q \in PartsOf(<<s, m>>) : Buffered(q)'
                   PROVE  \E v \in Worker : pc'[v] \in {"test", "join"} /\ KeyOf(pkt'[v]) = <<s, m>>
        BY DEF Attended
      <3>1. CASE <<s, m>> = k
        BY <1>0, <2>1, <3>1
      <3>2. CASE <<s, m>> # k
        <4>1. \A q \in PartsOf(<<s, m>>) : q \in Packet /\ q # p
          BY <2>1, <3>2, PartOf, SplitReassemblyAssumption
        <4>2. \A q \in PartsOf(<<s, m>>) : Buffered(q)
          BY <2>1, <4>1
        <4>3. PICK v \in Worker : pc[v] \in {"test", "join"} /\ KeyOf(pkt[v]) = <<s, m>>
          BY <4>2 DEF PInv, Attended
        <4> QED  BY <2>1, <4>3
      <3> QED  BY <3>1, <3>2
    <2> QED  BY <1>1, <2>3, <2>4, <2>5, <2>6, <2>7 DEF PInv
  <1>3. CASE k \notin DOMAIN packet_buffer
    <2>1. /\ UNCHANGED <<next, net, packet_buffer, handled>>
          /\ pc[w] = "append" /\ pc'[w] = "idle"
          /\ received' = received \union {p}
          /\ \A v \in Worker \ {w} : pc'[v] = pc[v] /\ pkt'[v] = pkt[v]
      BY <1>0, <1>3 DEF AppendPacket, Finish, Goto, TInv, TypeOK
    <2>2. InOrder' /\ \A q : Buffered(q)' <=> Buffered(q)
      BY <1>1, <2>1, SameListsInOrder
    <2>3. \A q : Sent(q)' <=> Sent(q)
      BY <2>1 DEF Sent
    <2>4. p.sender \notin Paced
      BY <1>0, <1>3, <2>1 DEF PInv, Undisturbed
    <2>5. Undisturbed'
      BY <2>1, <2>2, <2>3, <2>4 DEF PInv, Undisturbed
    <2>6. Kept'
      BY <2>1, <2>2, <2>3, <2>4 DEF PInv, Kept, In
    <2>7. AssembledInOrder'
      BY <2>1 DEF PInv, AssembledInOrder
    <2>8. Attended'
      <3> SUFFICES ASSUME NEW s \in Paced, NEW m \in 1..MaxMessage,
                          \A q \in PartsOf(<<s, m>>) : Buffered(q)
                   PROVE  \E v \in Worker : pc'[v] \in {"test", "join"} /\ KeyOf(pkt'[v]) = <<s, m>>
        BY <2>2 DEF Attended
      <3>1. PICK v \in Worker : pc[v] \in {"test", "join"} /\ KeyOf(pkt[v]) = <<s, m>>
        BY DEF PInv, Attended
      <3> QED  BY <2>1, <3>1
    <2> QED  BY <1>1, <2>2, <2>5, <2>6, <2>7, <2>8 DEF PInv
  <1> QED  BY <1>2, <1>3

\* A worker that is done with a packet of a paced sender leaves no other behind.
LEMMA FinishReceived ==
    ASSUME TInv, PInv, NEW w \in Worker, HandlerStep(w), pc'[w] = "idle",
           NEW v \in Worker, pc'[v] # "idle", pkt[v].sender \in Paced, pkt[v] \notin received
    PROVE  pkt[v] \notin received'
  <1>1. v # w /\ pc[v] # "idle" /\ pc[w] # "idle" /\ received' = received \union {pkt[w]}
    BY HandlerHolds
  <1> QED  BY <1>1, OtherSenders

LEMMA TestPInv ==
    ASSUME TInv, WInv, PInv, NEW w \in Worker, Test(w)
    PROVE  PInv'
  <1>0. PICK p : p = pkt[w]
    OBVIOUS
  <1>1. /\ UNCHANGED <<next, net, packet_buffer, handled>>
        /\ pc[w] = "test"
        /\ \A v \in Worker \ {w} : pc'[v] = pc[v] /\ pkt'[v] = pkt[v]
        /\ \/ /\ pc'[w] = "join" /\ pkt'[w] = p /\ received' = received
              /\ KeyOf(p) \in DOMAIN packet_buffer
           \/ /\ pc'[w] = "idle" /\ received' = received \union {p}
              /\ ~ (KeyOf(p) \in DOMAIN packet_buffer /\ Complete(packet_buffer[KeyOf(p)]))
    BY <1>0 DEF Test, Finish, Goto, TInv, TypeOK
  <1>2. Alone' /\ \A q : Loose(q)' => Loose(q)
    BY HandlerAlone, HandlerApart DEF HandlerStep, WInv
  <1>3. InOrder' /\ \A q : Buffered(q)' <=> Buffered(q)
    BY <1>1, <1>2, SameListsInOrder
  <1>4. \A q : Sent(q)' <=> Sent(q)
    BY <1>1 DEF Sent
  <1>5. p \in Packet /\ KeyOf(p) \in Key
    BY <1>0, <1>1, BusyPacket
  <1>6. p.sender \in Paced => Sent(p) /\ ~ In(p, net) /\ Buffered(p) /\ p \notin received
    BY <1>0, <1>1, <1>5 DEF PInv, Undisturbed, Alone
  <1>7. Undisturbed'
    <2> SUFFICES ASSUME NEW v \in Worker, pc'[v] # "idle", pkt'[v].sender \in Paced
                 PROVE  /\ Sent(pkt'[v])
                        /\ pkt'[v] \notin received'
                        /\ pc'[v] = "create" => KeyOf(pkt'[v]) \notin DOMAIN packet_buffer
                        /\ pc'[v] \in {"append", "join"} => KeyOf(pkt'[v]) \in DOMAIN packet_buffer
                        /\ pc'[v] = "test" => Buffered(pkt'[v])
      BY <1>1, <1>3, <1>4 DEF Undisturbed, Sent, Buffered, In
    <2>1. CASE v = w
      BY <1>1, <1>6, <2>1
    <2>2. CASE v # w
      <3>1. pc[v] = pc'[v] /\ pkt'[v] = pkt[v]
        BY <1>1, <2>2
      <3>2. pkt[v] \notin received
        BY <3>1 DEF PInv, Undisturbed
      <3>3. pkt[v] \notin received'
        BY <1>1, <3>1, <3>2, FinishReceived DEF HandlerStep
      <3> QED  BY <3>1, <3>3 DEF PInv, Undisturbed
    <2> QED  BY <2>1, <2>2
  <1>8. Kept'
    BY <1>1, <1>3, <1>4, <1>6 DEF PInv, Kept, In
  <1>9. AssembledInOrder'
    BY <1>1 DEF PInv, AssembledInOrder
  <1>10. Attended'
    <2> SUFFICES ASSUME NEW s \in Paced, NEW m \in 1..MaxMessage,
                        \A q \in PartsOf(<<s, m>>) : Buffered(q)
                 PROVE  \E v \in Worker : pc'[v] \in {"test", "join"} /\ KeyOf(pkt'[v]) = <<s, m>>
      BY <1>3 DEF Attended
    <2>1. PICK v \in Worker : pc[v] \in {"test", "join"} /\ KeyOf(pkt[v]) = <<s, m>>
      BY DEF PInv, Attended
    <2>2. CASE v # w
      BY <1>1, <2>1, <2>2
    <2>3. CASE v = w
      <3> DEFINE k == KeyOf(p)
      <3>1. k = <<s, m>> /\ k \in Key
        BY <1>0, <1>5, <2>1, <2>3
      <3>2. \A q \in PartsOf(k) : KeyOf(q) = k /\ Buffered(q)
        BY <3>1, PartsAreCounted
      <3>3. k \in DOMAIN packet_buffer /\ \A q \in PartsOf(k) : In(q, packet_buffer[k])
        BY <3>1, <3>2, PartOf, SplitReassemblyAssumption DEF Buffered
      <3> HIDE DEF k
      <3>4. Complete(packet_buffer[k])
        BY <3>1, <3>3, WholeIsComplete DEF TInv, TypeOK, WInv, Lists
      <3>5. pc'[w] = "join" /\ pkt'[w] = p
        BY <1>1, <3>3, <3>4 DEF k
      <3> QED  BY <3>1, <3>5 DEF k
    <2> QED  BY <2>2, <2>3
  <1> QED  BY <1>2, <1>3, <1>7, <1>8, <1>9, <1>10 DEF PInv

\* An ascending list of a whole message is in the order of its parts.
LEMMA AscendingIsOrdered ==
    ASSUME NEW k \in Key, NEW q \in Seq(Packet), Ascending(q), Whole(q, k)
    PROVE  q = [i \in 1..Parts |-> [sender |-> k[1], message |-> k[2], part |-> i]]
  <1>1. Parts \in Nat /\ Parts \in 1..Parts /\ DOMAIN q = 1..Parts
    BY SplitReassemblyAssumption DEF Whole
  <1>2. \A i \in 1..Parts : q[i] \in PartsOf(k)
    BY <1>1 DEF Whole
  <1>3. \A i \in 1..Parts : /\ q[i].part \in 1..Parts
                            /\ q[i] = [sender |-> k[1], message |-> k[2], part |-> q[i].part]
    BY <1>2 DEF PartsOf
  <1>4. \A i \in 1..Parts : /\ q[i].part >= i
                            /\ q[Parts].part - Parts >= q[i].part - i
    BY <1>1 DEF Ascending
  <1>5. \A i \in 1..Parts : q[i].part = i
    BY <1>1, <1>3, <1>4
  <1> QED  BY <1>1, <1>3, <1>5

LEMMA JoinPInv ==
    ASSUME TInv, WInv, PInv, NEW w \in Worker, Join(w)
    PROVE  PInv'
  <1>0. PICK k, p : k = KeyOf(pkt[w]) /\ p = pkt[w]
    OBVIOUS
  <1>1. Alone' /\ \A q : Loose(q)' => Loose(q)
    BY HandlerAlone, HandlerApart DEF HandlerStep, WInv
  <1>2. /\ pc[w] = "join" /\ pc'[w] = "idle" /\ received' = received \union {p}
        /\ \A v \in Worker \ {w} : pc'[v] = pc[v] /\ pkt'[v] = pkt[v]
        /\ UNCHANGED <<next, net>>
    BY <1>0 DEF Join, Finish, Goto, TInv, TypeOK
  <1>3. \A q : Sent(q)' <=> Sent(q)
    BY <1>2 DEF Sent
  <1>4. p \in Packet /\ k \in Key /\ KeyOf(p) = k /\ k[1] = p.sender /\ k[2] = p.message
    BY <1>0, <1>2, BusyPacket DEF KeyOf
  <1>5. p.sender \in Paced => Sent(p) /\ ~ In(p, net) /\ k \in DOMAIN packet_buffer
    BY <1>0, <1>2, <1>4 DEF PInv, Undisturbed, Alone
  <1>6. CASE k \in DOMAIN packet_buffer
    <2>1. Joined(w, k)
      BY <1>0, <1>6, JoinMoves
    <2>2. \A q : Buffered(q)' <=> Buffered(q) /\ KeyOf(q) # k
      BY <2>1 DEF Joined
    <2>3. /\ DOMAIN packet_buffer' = DOMAIN packet_buffer \ {k}
          /\ \A l \in DOMAIN packet_buffer' : packet_buffer'[l] = packet_buffer[l]
      BY <2>1 DEF Joined
    <2>4. /\ handled'[k[1]][k[2]] # <<>> /\ Len(handled'[k[1]][k[2]]) = 1
          /\ handled'[k[1]][k[2]][1] = packet_buffer[k]
          /\ \A l \in Key \ {k} : handled'[l[1]][l[2]] = handled[l[1]][l[2]]
      BY <2>1 DEF Joined
    <2>5. Undisturbed'
      <3> SUFFICES ASSUME NEW v \in Worker, pc'[v] # "idle", pkt'[v].sender \in Paced
                   PROVE  /\ Sent(pkt'[v])
                          /\ pkt'[v] \notin received'
                          /\ pc'[v] = "create" => KeyOf(pkt'[v]) \notin DOMAIN packet_buffer'
                          /\ pc'[v] \in {"append", "join"} => KeyOf(pkt'[v]) \in DOMAIN packet_buffer'
                          /\ pc'[v] = "test" => Buffered(pkt'[v]) /\ KeyOf(pkt'[v]) # k
        <4>1. \A v \in Worker : Buffered(pkt[v])' <=> Buffered(pkt'[v]) /\ KeyOf(pkt'[v]) # k
          BY <2>3 DEF Buffered, In
        <4>2. \A v \in Worker : Sent(pkt[v])' <=> Sent(pkt'[v])
          BY <1>2 DEF Sent
        <4> QED  BY <4>1, <4>2 DEF Undisturbed
      <3>1. v # w /\ pc[v] = pc'[v] /\ pkt'[v] = pkt[v]
        BY <1>2
      <3>2. KeyOf(pkt[v]) # k
        BY <1>0, <1>2, <3>1, OtherSenders
      <3>3. pkt[v] \notin received
        BY <3>1 DEF PInv, Undisturbed
      <3>4. pkt[v] \notin received'
        BY <1>2, <3>1, <3>3, FinishReceived DEF HandlerStep
      <3> QED  BY <2>3, <3>1, <3>2, <3>4 DEF PInv, Undisturbed
    <2>6. InOrder'
      BY <1>1, <2>3 DEF PInv, InOrder
    <2>7. Kept'
      <3> SUFFICES ASSUME NEW q \in received', q.sender \in Paced
                   PROVE  /\ Sent(q)
                          /\ ~ In(q, net)
                          /\ (Buffered(q) /\ KeyOf(q) # k) \/ handled'[q.sender][q.message] # <<>>
        BY <1>2, <1>3, <2>2 DEF Kept, In
      <3>1. CASE q = p
        BY <1>4, <1>5, <2>4, <3>1
      <3>2. CASE q \in received
        <4>1. /\ Sent(q) /\ ~ In(q, net)
              /\ Buffered(q) \/ handled[q.sender][q.message] # <<>>
          BY <3>2 DEF PInv, Kept
        <4> DEFINE l == KeyOf(q)
        <4>2. l \in Key /\ l[1] = q.sender /\ l[2] = q.message
          BY <3>2 DEF KeyOf, Key, Packet, TInv, TypeOK
        <4> HIDE DEF l
        <4>3. l # k => handled'[l[1]][l[2]] = handled[l[1]][l[2]]
          BY <2>4, <4>2
        <4> QED  BY <2>4, <4>1, <4>2, <4>3 DEF l
      <3> QED  BY <1>2, <3>1, <3>2
    <2>8. AssembledInOrder'
      <3> SUFFICES ASSUME NEW s \in Paced, NEW m \in 1..MaxMessage, NEW n \in DOMAIN handled'[s][m]
                   PROVE  handled'[s][m][n] =
                              [i \in 1..Parts |-> [sender |-> s, message |-> m, part |-> i]]
        BY DEF AssembledInOrder
      <3> DEFINE l == <<s, m>>
      <3>1. l \in Key /\ l[1] = s /\ l[2] = m
        BY PartOf, SplitReassemblyAssumption
      <3> HIDE DEF l
      <3>2. CASE l # k
        <4>1. handled'[s][m] = handled[s][m]
          BY <2>4, <3>1, <3>2
        <4>2. \A i \in DOMAIN handled[s][m] : handled[s][m][i] =
                  [j \in 1..Parts |-> [sender |-> s, message |-> m, part |-> j]]
          BY DEF PInv, AssembledInOrder
        <4> QED  BY <4>1, <4>2
      <3>3. CASE l = k
        <4>1. handled'[s][m] = handled'[k[1]][k[2]] /\ k = <<s, m>>
          BY <3>1, <3>3 DEF l
        <4>2. handled'[s][m] \in Seq(Seq(Packet))
          BY NextTInv, <3>1, SplitReassemblyAssumption DEF Next, TInv, TypeOK
        <4>3. n = 1 /\ handled'[s][m][n] = packet_buffer[k]
          BY <2>4, <4>1, <4>2
        <4>4. packet_buffer[k] \in Seq(Packet) /\ Ascending(packet_buffer[k])
          BY <1>6, <4>1 DEF TInv, TypeOK, PInv, InOrder
        <4>5. Whole(packet_buffer[k], k)
          BY <2>1 DEF Joined
        <4>6. packet_buffer[k] = [i \in 1..Parts |-> [sender |-> k[1], message |-> k[2], part |-> i]]
          BY <1>4, <4>4, <4>5, AscendingIsOrdered
        <4> QED  BY <3>1, <3>3, <4>3, <4>6
      <3> QED  BY <3>2, <3>3
    <2>9. Attended'
      <3> SUFFICES ASSUME NEW s \in Paced, NEW m \in 1..MaxMessage,
                          \A q \in PartsOf(<<s, m>>) : Buffered(q) /\ KeyOf(q) # k
                   PROVE  \E v \in Worker : pc'[v] \in {"test", "join"} /\ KeyOf(pkt'[v]) = <<s, m>>
        BY <2>2 DEF Attended
      <3>1. <<s, m>> # k
        BY PartOf, SplitReassemblyAssumption
      <3>2. PICK v \in Worker : pc[v] \in {"test", "join"} /\ KeyOf(pkt[v]) = <<s, m>>
        BY DEF PInv, Attended
      <3> QED  BY <1>0, <1>2, <3>1, <3>2
    <2> QED  BY <1>1, <2>5, <2>6, <2>7, <2>8, <2>9 DEF PInv
  <1>7. CASE k \notin DOMAIN packet_buffer
    <2>1. UNCHANGED <<packet_buffer, handled>>
      BY <1>0, <1>7 DEF Join
    <2>2. InOrder' /\ \A q : Buffered(q)' <=> Buffered(q)
      BY <1>1, <2>1, SameListsInOrder
    <2>3. p.sender \notin Paced
      BY <1>5, <1>7
    <2>4. Undisturbed'
      BY <1>2, <1>3, <2>1, <2>2, <2>3 DEF PInv, Undisturbed
    <2>5. Kept'
      BY <1>2, <1>3, <2>1, <2>2, <2>3 DEF PInv, Kept, In
    <2>6. AssembledInOrder'
      BY <2>1 DEF PInv, AssembledInOrder
    <2>7. Attended'
      <3> SUFFICES ASSUME NEW s \in Paced, NEW m \in 1..MaxMessage,
                          \A q \in PartsOf(<<s, m>>) : Buffered(q)
                   PROVE  \E v \in Worker : pc'[v] \in {"test", "join"} /\ KeyOf(pkt'[v]) = <<s, m>>
        BY <2>2 DEF Attended
      <3>1. PICK v \in Worker : pc[v] \in {"test", "join"} /\ KeyOf(pkt[v]) = <<s, m>>
        BY DEF PInv, Attended
      <3>2. v # w
        BY <1>0, <1>7, <2>3, <3>1 DEF KeyOf
      <3> QED  BY <1>2, <3>1, <3>2
    <2> QED  BY <1>1, <2>2, <2>4, <2>5, <2>6, <2>7 DEF PInv
  <1> QED  BY <1>6, <1>7

\* No step breaks it.
LEMMA NextPInv == TInv /\ WInv /\ PInv /\ [Next]_vars => PInv'
  <1> SUFFICES ASSUME TInv, WInv, PInv, [Next]_vars PROVE PInv'
    OBVIOUS
  <1>1. ASSUME NEW s \in Sender, Send(s) PROVE PInv'
    BY <1>1, SendPInv
  <1>2. CASE Lose
    BY <1>2, LosePInv
  <1>3. ASSUME NEW w \in Worker, Submit(w) PROVE PInv'
    BY <1>3, SubmitPInv
  <1>4. ASSUME NEW w \in Worker, Check(w) PROVE PInv'
    BY <1>4, CheckPInv
  <1>5. ASSUME NEW w \in Worker, Create(w) PROVE PInv'
    BY <1>5, CreatePInv
  <1>6. ASSUME NEW w \in Worker, AppendPacket(w) PROVE PInv'
    BY <1>6, AppendPInv
  <1>7. ASSUME NEW w \in Worker, Test(w) PROVE PInv'
    BY <1>7, TestPInv
  <1>8. ASSUME NEW w \in Worker, Join(w) PROVE PInv'
    BY <1>8, JoinPInv
  <1>9. CASE UNCHANGED vars
    <2>1. /\ next' = next /\ net' = net /\ packet_buffer' = packet_buffer /\ pc' = pc
          /\ pkt' = pkt /\ received' = received /\ handled' = handled
      BY <1>9 DEF vars
    <2>2. \A p : Loose(p)' => Loose(p)
      BY <2>1 DEF Loose, Held, In
    <2>3. InOrder' /\ \A p : Buffered(p)' <=> Buffered(p)
      BY <2>1, <2>2, SameListsInOrder
    <2>4. \A p : Sent(p)' <=> Sent(p)
      BY <2>1 DEF Sent
    <2>5. Alone' /\ Kept'
      BY <2>1, <2>3, <2>4 DEF PInv, Alone, Kept, In
    <2>6. Undisturbed'
      BY <2>1, <2>3, <2>4 DEF PInv, Undisturbed
    <2>7. AssembledInOrder' /\ Attended'
      BY <2>1, <2>3 DEF PInv, AssembledInOrder, Attended
    <2> QED  BY <2>3, <2>5, <2>6, <2>7 DEF PInv
  <1> QED  BY <1>1, <1>2, <1>3, <1>4, <1>5, <1>6, <1>7, <1>8, <1>9 DEF Next

\* Nothing that was taken in is left over.
LEMMA AttendedIsNotStuck ==
    ASSUME TInv, PInv
    PROVE  NothingIsStuck
  <1> SUFFICES ASSUME NEW s \in Paced, NEW m \in 1..MaxMessage,
                      \A i \in 1..Parts : [sender |-> s, message |-> m, part |-> i] \in received,
                      handled[s][m] = <<>>
               PROVE  FALSE
    BY DEF NothingIsStuck
  <1>1. \A p \in PartsOf(<<s, m>>) : p \in received
    BY DEF PartsOf
  <1>2. \A p \in PartsOf(<<s, m>>) : Buffered(p)
    BY <1>1, PartOf, SplitReassemblyAssumption DEF PInv, Kept
  <1>3. PICK w \in Worker : pc[w] \in {"test", "join"} /\ KeyOf(pkt[w]) = <<s, m>>
    BY <1>2 DEF PInv, Attended
  <1>4. pkt[w] \in PartsOf(<<s, m>>) /\ pkt[w].sender = s
    BY <1>3, BusyPacket, PartsAreCounted, PartOf, SplitReassemblyAssumption
  <1>5. pkt[w] \notin received
    BY <1>3, <1>4 DEF PInv, Undisturbed
  <1> QED  BY <1>1, <1>4, <1>5

\* The invariant of the theorems about paced senders.
LEMMA IInvIsInductive ==
    /\ Init => IInv
    /\ IInv /\ [Next]_vars => IInv'
  BY InitTInv, InitWInv, InitPInv, NextTInv, NextWInv, NextPInv DEF IInv

(* The packets of a paced sender are joined in the order of their parts    *)
(* (AssembledInOrder of SplitReassembly), which the code never looks at.   *)
THEOREM PacedInOrder == Spec => []AssembledInOrder
  <1>1. IInv => AssembledInOrder
    BY DEF IInv, PInv
  <1> QED  BY IInvIsInductive, <1>1, PTL DEF Spec

(* A message of a paced sender all of whose packets were taken in has      *)
(* reached handle_client (NothingIsStuck of SplitReassembly): no worker    *)
(* replaces the list of another, and the last one to store a packet finds  *)
(* the list complete.                                                      *)
THEOREM PacedNotStuck == Spec => []NothingIsStuck
  <1>1. IInv => NothingIsStuck
    BY AttendedIsNotStuck DEF IInv
  <1> QED  BY IInvIsInductive, <1>1, PTL DEF Spec
-----------------------------------------------------------------------------
(* The pool implements MessageDelivery.                                    *)

\* The packet is in flight or in a worker's hands.
About(p) == In(p, net) \/ \E w \in Worker : pc[w] # "idle" /\ pkt[w] = p

\* A paced sender has sent nothing of a later message than what is under way.
Latest ==
    \A p, q \in Packet :
        p.sender \in Paced /\ About(p) /\ q.sender = p.sender /\ Sent(q) => q.message <= p.message

\* It holds at the start.
LEMMA InitLatest == Init => Latest
  BY DEF Init, Latest, About, In

\* A paced sender sends when nothing else is under way, and others do not matter.
LEMMA SendLatest ==
    ASSUME TInv, Latest, NEW s \in Sender, Send(s)
    PROVE  Latest'
  <1> DEFINE n == next[s]
  <1>1. /\ n \in Packet /\ n.sender = s
        /\ \A q : In(q, net)' <=> In(q, net) \/ q = n
        /\ UNCHANGED <<pc, pkt>>
    BY SendPlaces DEF TInv, OwnPackets
  <1>2. \A q : About(q)' <=> About(q) \/ q = n
    BY <1>1 DEF About
  <1>3. s \in Paced => \A q : About(q) => q.sender # s
    BY DEF Send, Underway, About, In
  <1>4. next' = [next EXCEPT ![s] = IF n.part < Parts THEN [n EXCEPT !.part = @ + 1]
                                    ELSE [n EXCEPT !.message = @ + 1, !.part = 1]]
    BY DEF Send
  <1>5. \A u \in Sender \ {s} : next'[u] = next[u]
    BY <1>4 DEF TInv, TypeOK
  <1>6. /\ next'[s].message \in {n.message, n.message + 1}
        /\ next'[s].message = n.message + 1 => next'[s].part = 1
    BY <1>1, <1>4 DEF TInv, TypeOK, Packet
  <1> HIDE DEF n
  <1> SUFFICES ASSUME NEW p \in Packet, NEW q \in Packet, p.sender \in Paced, About(p)',
                      q.sender = p.sender, Sent(q)'
               PROVE  q.message <= p.message
    BY DEF Latest
  <1>7. CASE p.sender # s
    <2>1. About(p) /\ q.sender \in Sender \ {s}
      BY <1>1, <1>2, <1>7, SplitReassemblyAssumption
    <2>2. Sent(q)
      BY <1>5, <2>1 DEF Sent
    <2> QED  BY <2>1, <2>2 DEF Latest
  <1>8. CASE p.sender = s
    <2>1. p = n
      BY <1>2, <1>3, <1>8
    <2>2. /\ n.message \in Nat /\ q.message \in Nat /\ q.part \in Nat /\ q.part >= 1
      BY <1>1 DEF Packet
    <2>3. q.message < next'[s].message \/ (q.message = next'[s].message /\ q.part < next'[s].part)
      BY <1>8 DEF Sent
    <2> QED  BY <1>6, <2>1, <2>2, <2>3
  <1> QED  BY <1>7, <1>8

\* Nothing comes to be under way otherwise.
LEMMA LatestKept ==
    ASSUME Latest, next' = next, \A p \in Packet : About(p)' => About(p)
    PROVE  Latest'
  <1>1. \A q : Sent(q)' <=> Sent(q)
    BY DEF Sent
  <1> QED  BY <1>1 DEF Latest

\* No step breaks it.
LEMMA NextLatest == TInv /\ WInv /\ Latest /\ [Next]_vars => Latest'
  <1> SUFFICES ASSUME TInv, WInv, Latest, [Next]_vars PROVE Latest'
    OBVIOUS
  <1>1. ASSUME NEW s \in Sender, Send(s) PROVE Latest'
    BY <1>1, SendLatest
  <1>2. CASE Lose
    <2>1. PICK i \in DOMAIN net : net' = Without(net, i)
      BY <1>2 DEF Lose
    <2>2. \A p : In(p, net') => In(p, net)
      BY <2>1, WithoutPlaces DEF TInv, TypeOK, WInv, OnePlace
    <2>3. UNCHANGED <<next, pc, pkt>>
      BY <1>2 DEF Lose
    <2>4. \A p : About(p)' => About(p)
      BY <2>2, <2>3 DEF About, In
    <2> QED  BY <2>3, <2>4, LatestKept
  <1>3. ASSUME NEW w \in Worker, Submit(w) PROVE Latest'
    <2> DEFINE taken == pkt'[w]
    <2>1. /\ In(taken, net) /\ UNCHANGED next
          /\ \A v \in Worker \ {w} : pc'[v] = pc[v] /\ pkt'[v] = pkt[v]
          /\ \A q : In(q, net)' <=> In(q, net) /\ q # taken
      BY <1>3, SubmitPlaces DEF WInv, OnePlace
    <2>2. \A p : About(p)' => About(p)
      BY <2>1 DEF About
    <2> QED  BY <2>1, <2>2, LatestKept
  <1>4. ASSUME NEW w \in Worker, HandlerStep(w) PROVE Latest'
    <2>1. /\ net' = net /\ next' = next
          /\ \A v \in Worker : pc'[v] # "idle" => pc[v] # "idle" /\ pkt'[v] = pkt[v]
      BY <1>4, HandlerHolds
    <2>2. \A p : About(p)' => About(p)
      BY <2>1 DEF About, In
    <2> QED  BY <2>1, <2>2, LatestKept
  <1>5. CASE UNCHANGED vars
    <2>1. UNCHANGED <<next, net, pc, pkt>>
      BY <1>5 DEF vars
    <2> QED  BY <2>1, LatestKept DEF About, In
  <1> QED  BY <1>1, <1>2, <1>3, <1>4, <1>5 DEF Next, HandlerStep

RInv == IInv /\ Latest

\* The invariant of the refinement.
LEMMA RInvIsInductive ==
    /\ Init => RInv
    /\ RInv /\ [Next]_vars => RInv'
  BY IInvIsInductive, InitLatest, NextLatest DEF RInv, IInv

\* A whole list of different packets is an arrangement of its message.
LEMMA WholeIsArranged ==
    ASSUME NEW s, NEW m, NEW list \in Seq(Packet), Distinct(list), Whole(list, <<s, m>>)
    PROVE  list \in Delivery!Arrangements(s, m)
  <1>1. Parts \in Nat /\ DOMAIN list = 1..Parts
    BY SplitReassemblyAssumption DEF Whole
  <1>2. list = [i \in 1..Parts |-> list[i]]
    BY <1>1
  <1>3. \A i \in 1..Parts : list[i] \in {Delivery!Piece(s, m, j) : j \in 1..Parts}
    BY <1>1 DEF Whole, PartsOf, Delivery!Piece
  <1>4. list \in [1..Parts -> {Delivery!Piece(s, m, i) : i \in 1..Parts}]
    BY <1>2, <1>3
  <1> QED  BY <1>1, <1>4 DEF Delivery!Arrangements, Distinct

\* A packet is sent: a message is, with its last one.
LEMMA SendRefines ==
    ASSUME RInv, NEW s \in Sender, Send(s)
    PROVE  [Delivery!Next]_(Delivery!deliveryVars)
  <1> DEFINE n == next[s]
  <1>1. /\ n.message \in 1..(MaxMessage + 1) /\ n.message <= MaxMessage
        /\ next' = [next EXCEPT ![s] = IF n.part < Parts THEN [n EXCEPT !.part = @ + 1]
                                       ELSE [n EXCEPT !.message = @ + 1, !.part = 1]]
        /\ handled' = handled
    BY DEF Send, RInv, IInv, TInv, TypeOK
  <1>2. \A u \in Sender \ {s} : next'[u] = next[u]
    BY <1>1 DEF RInv, IInv, TInv, TypeOK
  <1>3. CASE n.part < Parts
    <2>1. next'[s].message = n.message
      BY <1>1, <1>3 DEF RInv, IInv, TInv, TypeOK
    <2>2. \A u \in Sender : next'[u].message = next[u].message
      BY <1>2, <2>1
    <2> QED  BY <1>1, <2>2 DEF Delivery!deliveryVars
  <1>4. CASE ~(n.part < Parts)
    <2>1. next'[s].message = n.message + 1
      BY <1>1, <1>4 DEF RInv, IInv, TInv, TypeOK
    <2>2. n.message - 1 < MaxMessage /\ n.message + 1 - 1 = n.message - 1 + 1
      BY <1>1, SplitReassemblyAssumption
    <2>3. [u \in Sender |-> next'[u].message - 1] =
              [[u \in Sender |-> next[u].message - 1] EXCEPT ![s] = @ + 1]
      <3> DEFINE f == [u \in Sender |-> next[u].message - 1]
      <3>1. ASSUME NEW u \in Sender
            PROVE  next'[u].message - 1 = IF u = s THEN f[s] + 1 ELSE f[u]
        <4>1. f[s] = next[s].message - 1 /\ f[u] = next[u].message - 1
          OBVIOUS
        <4>2. u # s => next'[u].message = next[u].message
          BY <1>2
        <4> HIDE DEF f
        <4>3. next'[s].message - 1 = f[s] + 1
          <5>1. n.message \in Nat /\ f[s] = n.message - 1
            BY <1>1, <4>1, SplitReassemblyAssumption
          <5> QED  BY <2>1, <5>1
        <4> QED  BY <4>1, <4>2, <4>3
      <3>2. [f EXCEPT ![s] = @ + 1] = [u \in Sender |-> IF u = s THEN f[s] + 1 ELSE f[u]]
        OBVIOUS
      <3> HIDE DEF f
      <3>3. [u \in Sender |-> next'[u].message - 1] = [f EXCEPT ![s] = @ + 1]
        BY <3>1, <3>2
      <3> QED  BY <3>3 DEF f
    <2>4. Delivery!SendMessage(s)
      BY <1>1, <2>2, <2>3 DEF Delivery!SendMessage
    <2> QED  BY <2>4 DEF Delivery!Next
  <1> QED  BY <1>3, <1>4

\* A worker that finds its list joins and delivers a message that was sent, whole and for
\* the first time; for a paced sender nothing later was delivered.
LEMMA JoinRefines ==
    ASSUME RInv, RInv', NEW w \in Worker, Join(w)
    PROVE  [Delivery!Next]_(Delivery!deliveryVars)
  <1>0. PICK p, s, m, k : p = pkt[w] /\ s = p.sender /\ m = p.message /\ k = <<s, m>>
    OBVIOUS
  <1>1. /\ pc[w] = "join" /\ next' = next /\ p \in Packet
        /\ s \in Sender /\ m \in 1..MaxMessage /\ k \in Key /\ k = KeyOf(p)
    <2>1. pc[w] = "join" /\ next' = next
      BY DEF Join
    <2>2. pkt[w] \in Packet
      BY <2>1, BusyPacket DEF RInv, IInv
    <2> QED  BY <1>0, <2>1, <2>2 DEF KeyOf, Packet, Key
  <1>2. CASE k \in DOMAIN packet_buffer
    <2> DEFINE list == packet_buffer[k]
    <2>1. /\ Whole(list, k) /\ handled[s][m] = <<>>
          /\ list \in Seq(Packet) /\ Distinct(list)
      <3>1. list \in Seq(Packet) /\ Distinct(list)
        BY <1>2 DEF RInv, IInv, TInv, TypeOK, WInv, Lists
      <3>2. Whole(list, k)
        BY <1>0, <1>1, <1>2 DEF RInv, IInv, WInv, JoinsAreWhole, JoinIsWhole
      <3>3. k[1] = s /\ k[2] = m
        BY <1>0
      <3>4. handled[s][m] = <<>>
        BY <1>1, <1>2, <3>3 DEF RInv, IInv, WInv, Done
      <3> QED  BY <3>1, <3>2, <3>4
    <2>2. \A q \in PartsOf(k) : q \in Packet /\ Sent(q)
      BY <1>1, <1>2, <2>1, PartsAreCounted, WholeHasAll
         DEF Buffered, RInv, IInv, WInv, NoneFromTheFuture
    <2>3. m <= next[s].message - 1
      <3>1. Parts \in Nat /\ Parts \in 1..Parts
        BY SplitReassemblyAssumption
      <3> DEFINE last == [sender |-> s, message |-> m, part |-> Parts]
      <3>2. Sent(last)
        BY <1>0, <2>2, <3>1 DEF PartsOf
      <3>3. m < next[s].message \/ (m = next[s].message /\ Parts < next[s].part)
        BY <3>2 DEF Sent
      <3>4. next[s].message \in Nat /\ next[s].part \in Nat /\ next[s].part <= Parts
        BY <1>1, <3>1, SplitReassemblyAssumption DEF RInv, IInv, TInv, TypeOK
      <3> QED  BY <1>1, <3>1, <3>3, <3>4
    <2>4. ASSUME s \in Paced, NEW n \in 1..MaxMessage, n > m
          PROVE  handled[s][n] = <<>>
      <3>1. SUFFICES ASSUME handled[s][n] # <<>> PROVE FALSE
        OBVIOUS
      <3>2. PICK q : q \in PartsOf(<<s, n>>)
        BY <1>1, PartOf
      <3>3. <<s, n>> \in Key /\ q \in Packet /\ q.sender = s /\ q.message = n
        BY <1>1, <3>2, PartOf
      <3>4. Sent(q)
        BY <3>1, <3>2, <3>3 DEF RInv, IInv, WInv, Done
      <3>5. About(p)
        BY <1>0, <1>1 DEF About
      <3>6. n <= m
        BY <1>0, <1>1, <2>4, <3>3, <3>4, <3>5 DEF RInv, Latest
      <3> QED  BY <1>1, <2>4, <3>6
    <2>5. handled' = [handled EXCEPT ![s][m] = <<list>>]
      <3>1. handled' = [handled EXCEPT ![s][m] = Append(@, list)]
        BY <1>0, <1>1, <1>2 DEF Join, Handle
      <3>2. Append(<<>>, list) = <<list>>
        BY <2>1
      <3> QED  BY <2>1, <3>1, <3>2
    <2>6. s \in Paced => list = Delivery!InOrder(s, m)
      <3>1. handled'[s][m] = <<list>>
        BY <1>1, <2>5 DEF RInv, IInv, TInv, TypeOK
      <3>2. 1 \in DOMAIN handled'[s][m] /\ handled'[s][m][1] = list
        BY <3>1
      <3>3. AssembledInOrder'
        BY DEF RInv, IInv, PInv
      <3>4. s \in Paced =>
               handled'[s][m][1] = [i \in 1..Parts |-> [sender |-> s, message |-> m, part |-> i]]
        BY <1>1, <3>2, <3>3 DEF AssembledInOrder
      <3> QED  BY <3>2, <3>4 DEF Delivery!InOrder, Delivery!Piece
    <2>7. list \in Delivery!Arrangements(s, m)
      BY <1>0, <2>1, WholeIsArranged
    <2> HIDE DEF list
    <2>8. Delivery!Deliver(s, m, list)
      BY <1>1, <2>1, <2>3, <2>4, <2>5, <2>6 DEF Delivery!Deliver
    <2> QED  BY <1>1, <2>7, <2>8 DEF Delivery!Next
  <1>3. CASE k \notin DOMAIN packet_buffer
    BY <1>0, <1>1, <1>3 DEF Join, Delivery!deliveryVars
  <1> QED  BY <1>2, <1>3

\* Every step is one of the delivery or leaves it alone.
LEMMA StepRefines == RInv /\ RInv' /\ [Next]_vars => [Delivery!Next]_(Delivery!deliveryVars)
  <1> SUFFICES ASSUME RInv, RInv', [Next]_vars
               PROVE  [Delivery!Next]_(Delivery!deliveryVars)
    OBVIOUS
  <1>1. ASSUME NEW s \in Sender, Send(s)
        PROVE  [Delivery!Next]_(Delivery!deliveryVars)
    BY <1>1, SendRefines
  <1>2. ASSUME NEW w \in Worker, Join(w)
        PROVE  [Delivery!Next]_(Delivery!deliveryVars)
    BY <1>2, JoinRefines
  <1>3. ASSUME \/ Lose \/ UNCHANGED vars
               \/ \E w \in Worker : \/ Submit(w) \/ Check(w) \/ Create(w)
                                    \/ AppendPacket(w) \/ Test(w)
        PROVE  [Delivery!Next]_(Delivery!deliveryVars)
    <2>1. UNCHANGED <<next, handled>>
      BY <1>3 DEF Lose, Submit, Check, Create, AppendPacket, Test, vars
    <2> QED  BY <2>1 DEF Delivery!deliveryVars
  <1> QED  BY <1>1, <1>2, <1>3 DEF Next

(* The pool implements the delivery of whole messages (ImplementsDelivery  *)
(* of SplitReassembly): whatever lists the workers create, replace and     *)
(* join, what handle_client gets was sent, is whole and comes once, and    *)
(* from a sender that waits in the order it was sent.                      *)
THEOREM PoolDelivers == Spec => ImplementsDelivery
  <1>1. Init => Delivery!Init
    <2>1. Init => [s \in Sender |-> next[s].message - 1] = [s \in Sender |-> 0]
      BY DEF Init
    <2> QED  BY <2>1 DEF Init, Delivery!Init
  <1> QED  BY <1>1, RInvIsInductive, StepRefines, PTL
           DEF Spec, ImplementsDelivery, Delivery!Spec
=============================================================================
