------------------------- MODULE JobRegistryProofs -------------------------
(***************************************************************************)
(* Theorems about JobRegistry, for any clients, workers and number of      *)
(* requests.                                                               *)
(*                                                                         *)
(* complete_context and fail_context end whatever context is active, not   *)
(* that of their request, so which contexts are left depends on the order  *)
(* of the workers.  How many there are does not: never more than requests  *)
(* of the client in the workers that have made theirs (Counted), and every *)
(* context that was not dropped by the full stack is the active one or on  *)
(* the stack (NothingDropped).  That is why the registry drains.  With one *)
(* request at a time the active context is the request's, or none after a  *)
(* disconnect, and the fallbacks of CMResponse are the request's too       *)
(* (OwnHeader).                                                            *)
(***************************************************************************)
EXTENDS JobRegistry, FiniteSetTheorems, SequenceTheorems, TLAPS

Busy == \A w \in Worker : pc[w] # "idle" => request[w] \in 1..received

TInv == TypeOK /\ Busy

Elements(stack) == {stack[i] : i \in DOMAIN stack}

Distinct(stack) == \A i, j \in DOMAIN stack : stack[i] = stack[j] => i = j

\* A request is in one worker.
OneWorkerEach ==
    \A w, v \in Worker :
        pc[w] # "idle" /\ pc[v] # "idle" /\ request[w] = request[v] => w = v

\* A request has no context before create_context.
NotYet ==
    /\ \A r \in Request : r > received => state[r] = "none"
    /\ \A w \in Worker : pc[w] = "create" => state[request[w]] = "none"

Placed ==
    \A c \in Client :
        /\ Distinct(context_stack[c])
        /\ active_context[c] \notin Stacked(c)
        /\ \A r \in Stacked(c) \union ({active_context[c]} \ {None}) :
              client_obj[r] = c /\ state[r] = "created"

Filed ==
    \A c \in Client : \A r \in contexts_by_source[c] :
        client_obj[r] = c /\ state[r] = "created"

CInv == OneWorkerEach /\ NotYet /\ Placed /\ Filed

\* The workers that have made a context for a request of the client.
Holding(c) ==
    {w \in Worker : /\ pc[w] \notin {"idle", "create"}
                    /\ Of(w) = c
                    /\ c \in Extended}

Contexts(c) == Len(context_stack[c]) + (IF active_context[c] = None THEN 0 ELSE 1)

Counted ==
    \A c \in Client :
        /\ IsFiniteSet(Holding(c))
        /\ Contexts(c) <= Cardinality(Holding(c))
        /\ active_context[c] = None => context_stack[c] = <<>>

Steps == \A w \in Worker : pc[w] \in {"create", "cache"} => Of(w) \in Extended

Requests(c) == {r \in 1..received : client_obj[r] = c}

NothingDropped ==
    \A c \in Client : Cardinality(Requests(c)) <= StackLength + 1 =>
        contexts_by_source[c] \subseteq Stacked(c) \union {active_context[c]}

DInv == Counted /\ Steps /\ NothingDropped

\* A client that waits for its replies has one request in the workers.
Alone ==
    \A w, v \in Worker :
        pc[w] # "idle" /\ pc[v] # "idle" /\ Of(w) = Of(v) /\ Of(w) \notin Concurrent => w = v

\* What CMResponse finds for such a client.
OwnHeader(w) ==
    LET c == Of(w)
        r == request[w]
    IN  /\ context_stack[c] = <<>>
        /\ IF c \in Extended
           THEN IF pc[w] = "create" THEN active_context[c] = None
                ELSE /\ is_newPacketType[c]
                     /\ active_context[c] \in {None, r}
                     /\ extended_msg[w] = r
                     /\ pc[w] # "cache" => last_request_source_job_id[c] = sourceJobID[r]
           ELSE ~ is_newPacketType[c] /\ active_context[c] = None /\ sourceJobID[r] = None

OwnHeaders == \A w \in Worker : pc[w] # "idle" /\ Of(w) \notin Concurrent => OwnHeader(w)

RInv == Alone /\ OwnHeaders /\ RepliesReachTheirJob

IInv == TInv /\ CInv /\ DInv /\ RInv

-----------------------------------------------------------------------------
(* Stacks.                                                                 *)

\* What pushing does to a stack.
LEMMA PushPlaces ==
    ASSUME NEW q \in Seq(Request), Len(q) <= StackLength, NEW r \in Request
    PROVE  /\ Push(q, r) \in Seq(Request)
           /\ Len(Push(q, r)) <= StackLength
           /\ Len(Push(q, r)) <= Len(q) + 1
           /\ Elements(Push(q, r)) \subseteq Elements(q) \union {r}
           /\ Len(q) < StackLength => Elements(Push(q, r)) = Elements(q) \union {r}
           /\ Distinct(q) /\ r \notin Elements(q) => Distinct(Push(q, r))
  <1> DEFINE n == Len(q)
             a == Append(q, r)
             p == Push(q, r)
  <1>1. /\ n \in Nat /\ StackLength \in Nat /\ StackLength >= 1
        /\ a \in Seq(Request) /\ Len(a) = n + 1
        /\ DOMAIN a = 1..(n + 1) /\ DOMAIN q = 1..n
        /\ \A i \in 1..n : a[i] = q[i]
        /\ a[n + 1] = r
    BY JobRegistryAssumption
  <1>2. p = IF n + 1 > StackLength THEN Tail(a) ELSE a
    BY <1>1 DEF Push
  <1>3. /\ Tail(a) \in Seq(Request) /\ Len(Tail(a)) = n
        /\ DOMAIN Tail(a) = 1..n
        /\ \A i \in 1..n : Tail(a)[i] = a[i + 1]
    BY <1>1
  <1> HIDE DEF n, a, p
  <1>4. /\ Elements(a) = Elements(q) \union {r}
        /\ Distinct(q) /\ r \notin Elements(q) => Distinct(a)
    <2>1. \A i \in 1..(n + 1) : i \in 1..n \/ i = n + 1
      BY <1>1
    <2>2. n + 1 \in 1..(n + 1) /\ \A i \in 1..n : i \in 1..(n + 1)
      BY <1>1
    <2> QED  BY <1>1, <2>1, <2>2 DEF Elements, Distinct
  <1>5. /\ Elements(Tail(a)) \subseteq Elements(a)
        /\ Distinct(a) => Distinct(Tail(a))
    <2>1. \A i \in 1..n : i + 1 \in 1..(n + 1)
      BY <1>1
    <2>2. \A i, j \in 1..n : i + 1 = j + 1 => i = j
      BY <1>1
    <2> QED  BY <1>1, <1>3, <2>1, <2>2 DEF Elements, Distinct
  <1>6. CASE n + 1 > StackLength
    <2>1. p = Tail(a) /\ ~ n < StackLength
      BY <1>1, <1>2, <1>6
    <2>2. Len(p) <= StackLength /\ Len(p) <= n + 1
      BY <1>1, <1>3, <2>1 DEF n
    <2> QED  BY <1>3, <1>4, <1>5, <2>1, <2>2 DEF n, p
  <1>7. CASE ~ n + 1 > StackLength
    <2>1. p = a
      BY <1>2, <1>7
    <2>2. Len(p) <= StackLength /\ Len(p) <= n + 1
      BY <1>1, <1>7, <2>1
    <2> QED  BY <1>1, <1>4, <2>1, <2>2 DEF n, p
  <1> QED  BY <1>6, <1>7

\* What popping does to a stack.
LEMMA PopPlaces ==
    ASSUME NEW q \in Seq(Request), q # <<>>
    PROVE  LET p == SubSeq(q, 1, Len(q) - 1)
               last == q[Len(q)]
           IN  /\ p \in Seq(Request) /\ Len(p) = Len(q) - 1
               /\ last \in Request /\ last \in Elements(q)
               /\ Elements(q) = Elements(p) \union {last}
               /\ Distinct(q) => Distinct(p) /\ last \notin Elements(p)
  <1> DEFINE n == Len(q)
             p == SubSeq(q, 1, n - 1)
             last == q[n]
  <1>1. n \in Nat /\ n >= 1 /\ DOMAIN q = 1..n /\ n \in 1..n
    BY EmptySeq, LenProperties
  <1>2. /\ p \in Seq(Request) /\ Len(p) = n - 1 /\ DOMAIN p = 1..(n - 1)
        /\ \A i \in 1..(n - 1) : p[i] = q[i]
    BY <1>1
  <1>3. last \in Request
    BY <1>1
  <1> HIDE DEF n, p
  <1>4. \A i \in 1..n : i \in 1..(n - 1) \/ i = n
    BY <1>1
  <1>5. \A i \in 1..(n - 1) : i \in 1..n /\ i # n
    BY <1>1
  <1>6. Elements(q) = Elements(p) \union {last} /\ last \in Elements(q)
    BY <1>1, <1>2, <1>4, <1>5 DEF Elements
  <1>7. Distinct(q) => Distinct(p) /\ last \notin Elements(p)
    BY <1>1, <1>2, <1>4, <1>5 DEF Elements, Distinct
  <1> QED  BY <1>2, <1>3, <1>6, <1>7 DEF n, p

\* An empty stack has nothing.
LEMMA EmptyStack == Elements(<<>>) = {} /\ Distinct(<<>>) /\ <<>> \in Seq(Request)
  BY DEF Elements, Distinct

-----------------------------------------------------------------------------
(* Types.                                                                  *)

\* What a worker is busy with.
LEMMA BusyRequest ==
    ASSUME TInv, NEW w \in Worker, pc[w] # "idle"
    PROVE  /\ request[w] \in Request /\ request[w] \in 1..received
           /\ Of(w) \in Client
           /\ request[w] # None
           /\ sourceJobID[request[w]] \in {None, request[w]}
  <1>1. request[w] \in 1..received /\ received \in 0..MaxRequest /\ MaxRequest \in Nat
    BY JobRegistryAssumption DEF TInv, TypeOK, Busy
  <1>2. request[w] \in Request /\ request[w] # None
    BY <1>1 DEF Request, None
  <1> QED  BY <1>1, <1>2 DEF TInv, TypeOK, Of

\* The job id of a reply is a request's or none.
LEMMA TargetJobIDType ==
    ASSUME TInv, NEW w \in Worker, NEW c \in Client
    PROVE  LET a == JobOf(active_context[c])
               b == JobOf(extended_msg[w])
               l == last_request_source_job_id[c]
           IN  /\ TargetJobID(w, c) = IF a # None THEN a ELSE IF b # None THEN b ELSE l
               /\ TargetJobID(w, c) \in Request \union {None}
  <1> DEFINE a == JobOf(active_context[c])
             b == JobOf(extended_msg[w])
             l == last_request_source_job_id[c]
             d == <<a, b, l>>
             i == CHOOSE i \in 1..3 : d[i] # None /\ \A j \in 1..(i - 1) : d[j] = None
  <1>1. a \in Request \union {None} /\ b \in Request \union {None} /\ l \in Request \union {None}
    BY DEF TInv, TypeOK, JobOf
  <1>2. d[1] = a /\ d[2] = b /\ d[3] = l
    OBVIOUS
  <1>3. TargetJobID(w, c) = IF \E k \in 1..3 : d[k] # None THEN d[i] ELSE None
    BY DEF TargetJobID
  <1> HIDE DEF d
  <1>4. \A k \in 1..3 : k = 1 \/ k = 2 \/ k = 3
    OBVIOUS
  <1>5. 1 \in 1..3 /\ 2 \in 1..3 /\ 3 \in 1..3 /\ 1..(1 - 1) = {} /\ 1..(2 - 1) = {1} /\ 1..(3 - 1) = {1, 2}
    OBVIOUS
  <1>6. CASE a # None
    <2>1. i \in 1..3 /\ d[i] # None /\ \A j \in 1..(i - 1) : d[j] = None
      <3>1. \E k \in 1..3 : d[k] # None /\ \A j \in 1..(k - 1) : d[j] = None
        BY <1>2, <1>5, <1>6
      <3> QED  BY <3>1
    <2>2. i = 1
      BY <1>2, <1>6, <2>1
    <2> HIDE DEF i
    <2> QED  BY <1>1, <1>2, <1>3, <1>5, <1>6, <2>2
  <1>7. CASE a = None /\ b # None
    <2>1. i \in 1..3 /\ d[i] # None /\ \A j \in 1..(i - 1) : d[j] = None
      <3>1. \E k \in 1..3 : d[k] # None /\ \A j \in 1..(k - 1) : d[j] = None
        BY <1>2, <1>5, <1>7
      <3> QED  BY <3>1
    <2>2. i = 2
      BY <1>2, <1>7, <2>1
    <2> HIDE DEF i
    <2> QED  BY <1>1, <1>2, <1>3, <1>5, <1>7, <2>2
  <1>8. CASE a = None /\ b = None /\ l # None
    <2>1. i \in 1..3 /\ d[i] # None /\ \A j \in 1..(i - 1) : d[j] = None
      <3>1. \E k \in 1..3 : d[k] # None /\ \A j \in 1..(k - 1) : d[j] = None
        BY <1>2, <1>5, <1>8
      <3> QED  BY <3>1
    <2>2. i = 3
      BY <1>2, <1>8, <2>1
    <2> HIDE DEF i
    <2> QED  BY <1>1, <1>2, <1>3, <1>5, <1>8, <2>2
  <1>9. CASE a = None /\ b = None /\ l = None
    BY <1>2, <1>3, <1>4, <1>9
  <1> QED  BY <1>6, <1>7, <1>8, <1>9

\* A reply is a message.
LEMMA ReplyType ==
    ASSUME TInv, NEW w \in Worker, pc[w] # "idle", NEW c \in Client
    PROVE  {CMResponse(w, c)} \subseteq Message
  <1>1. TargetJobID(w, c) \in Request \union {None}
    BY TargetJobIDType
  <1>2. is_newPacketType[c] \in BOOLEAN /\ request[w] \in Request
    BY BusyRequest DEF TInv, TypeOK
  <1> QED  BY <1>1, <1>2 DEF CMResponse, Message

\* The types hold at the start.
LEMMA InitTInv == Init => TInv
  <1> SUFFICES ASSUME Init PROVE TInv
    OBVIOUS
  <1>1. (CHOOSE c \in Client : TRUE) \in Client
    BY JobRegistryAssumption
  <1>2. client_obj \in [Request -> Client]
    BY <1>1 DEF Init
  <1>3. 0 \in 0..MaxRequest
    BY JobRegistryAssumption
  <1>4. \A c \in Client : Len(context_stack[c]) <= StackLength
    BY JobRegistryAssumption DEF Init
  <1> QED  BY <1>2, <1>3, <1>4 DEF Init, TInv, TypeOK, Busy, Label, State

\* The end of a context.
LEMMA PopTypes ==
    ASSUME TypeOK, NEW c \in Client, active_context[c] # None, NEW outcome \in State,
           PopContext(c, outcome)
    PROVE  /\ state' \in [Request -> State]
           /\ active_context' \in [Client -> Request \union {None}]
           /\ context_stack' \in [Client -> Seq(Request)]
           /\ \A d \in Client : Len(context_stack'[d]) <= StackLength
           /\ contexts_by_source' \in [Client -> SUBSET Request]
  <1>1. /\ state' \in [Request -> State]
        /\ contexts_by_source' \in [Client -> SUBSET Request]
    BY DEF PopContext, TypeOK
  <1> DEFINE q == context_stack[c]
  <1>2. q \in Seq(Request) /\ Len(q) <= StackLength
    BY DEF TypeOK
  <1>3. CASE q = <<>>
    <2>1. active_context' = [active_context EXCEPT ![c] = None] /\ context_stack' = context_stack
      BY <1>3 DEF PopContext
    <2> QED  BY <1>1, <2>1 DEF TypeOK
  <1>4. CASE q # <<>>
    <2> DEFINE p == SubSeq(q, 1, Len(q) - 1)
    <2>1. /\ active_context' = [active_context EXCEPT ![c] = q[Len(q)]]
          /\ context_stack' = [context_stack EXCEPT ![c] = p]
      BY <1>4 DEF PopContext
    <2>2. p \in Seq(Request) /\ Len(p) = Len(q) - 1 /\ q[Len(q)] \in Request
      BY <1>2, <1>4, PopPlaces
    <2>3. Len(p) <= StackLength
      BY <1>2, <2>2, JobRegistryAssumption
    <2> HIDE DEF p, q
    <2> QED  BY <1>1, <2>1, <2>2, <2>3 DEF TypeOK
  <1> QED  BY <1>3, <1>4

\* The end of a request.
LEMMA EndTInv ==
    ASSUME TInv, NEW w \in Worker, pc[w] # "idle", NEW outcome \in State, End(w, outcome)
    PROVE  TInv'
  <1>1. Of(w) \in Client
    BY BusyRequest
  <1>2. /\ UNCHANGED <<requestVars, is_newPacketType, last_request_source_job_id, extended_msg>>
        /\ pc' = [pc EXCEPT ![w] = "idle"]
        /\ request' = [request EXCEPT ![w] = None]
        /\ sent' = {}
    BY DEF End, Goto
  <1>3. /\ state' \in [Request -> State]
        /\ active_context' \in [Client -> Request \union {None}]
        /\ context_stack' \in [Client -> Seq(Request)]
        /\ \A d \in Client : Len(context_stack'[d]) <= StackLength
        /\ contexts_by_source' \in [Client -> SUBSET Request]
    <2>1. CASE active_context[Of(w)] = None
      BY <2>1 DEF End, registryVars, TInv, TypeOK
    <2>2. CASE active_context[Of(w)] # None
      BY <1>1, <2>2, PopTypes DEF End, TInv
    <2> QED  BY <2>1, <2>2
  <1>4. TypeOK'
    BY <1>2, <1>3 DEF requestVars, TInv, TypeOK, Label
  <1>5. Busy'
    BY <1>2 DEF requestVars, TInv, TypeOK, Busy
  <1> QED  BY <1>4, <1>5 DEF TInv

LEMMA ReceiveTInv ==
    ASSUME TInv, NEW w \in Worker, NEW c \in Client, Receive(w, c)
    PROVE  TInv'
  <1> DEFINE r == received + 1
  <1>1. r \in Request /\ r \in 0..MaxRequest /\ received \in Nat
    BY JobRegistryAssumption DEF Receive, TInv, TypeOK, Request
  <1>2. PICK job \in {None, r} : sourceJobID' = [sourceJobID EXCEPT ![r] = job]
    BY DEF Receive
  <1>3. /\ received' = r
        /\ client_obj' = [client_obj EXCEPT ![r] = c]
        /\ request' = [request EXCEPT ![w] = r]
        /\ is_newPacketType' = [is_newPacketType EXCEPT ![c] = FALSE]
        /\ pc' = [pc EXCEPT ![w] = IF c \in Extended THEN "create" ELSE "handle"]
        /\ sent' = {}
        /\ UNCHANGED <<last_request_source_job_id, registryVars, extended_msg>>
    BY DEF Receive, Goto
  <1> HIDE DEF r
  <1>4. Busy'
    <2>1. r \in 1..received' /\ \A i \in 1..received : i \in 1..received'
      BY <1>1, <1>3 DEF r
    <2> QED  BY <1>3, <2>1 DEF TInv, TypeOK, Busy
  <1>5. TypeOK'
    BY <1>1, <1>2, <1>3 DEF registryVars, TInv, TypeOK, Label
  <1> QED  BY <1>4, <1>5 DEF TInv

LEMMA CreateTInv ==
    ASSUME TInv, NEW w \in Worker, CreateContext(w)
    PROVE  TInv'
  <1> DEFINE c == Of(w)
             r == request[w]
  <1>1. pc[w] # "idle"
    BY DEF CreateContext
  <1>2. c \in Client /\ r \in Request
    BY <1>1, BusyRequest
  <1>3. /\ is_newPacketType' = [is_newPacketType EXCEPT ![c] = TRUE]
        /\ extended_msg' = [extended_msg EXCEPT ![w] = r]
        /\ state' = [state EXCEPT ![r] = "created"]
        /\ active_context' = [active_context EXCEPT ![c] = r]
        /\ contexts_by_source' = [contexts_by_source EXCEPT ![c] =
                                      IF sourceJobID[r] = None THEN @ ELSE @ \union {r}]
        /\ pc' = [pc EXCEPT ![w] = "cache"]
        /\ sent' = {}
        /\ UNCHANGED <<requestVars, last_request_source_job_id, request>>
    BY DEF CreateContext, Goto
  <1>4. /\ context_stack' \in [Client -> Seq(Request)]
        /\ \A d \in Client : Len(context_stack'[d]) <= StackLength
    <2>1. CASE active_context[c] = None
      BY <2>1 DEF CreateContext, TInv, TypeOK
    <2>2. CASE active_context[c] # None
      <3> DEFINE q == Push(context_stack[c], active_context[c])
      <3>1. context_stack' = [context_stack EXCEPT ![c] = q]
        BY <2>2 DEF CreateContext
      <3>2. q \in Seq(Request) /\ Len(q) <= StackLength
        BY <1>2, <2>2, PushPlaces DEF TInv, TypeOK
      <3> HIDE DEF q
      <3> QED  BY <3>1, <3>2 DEF TInv, TypeOK
    <2> QED  BY <2>1, <2>2
  <1>5. contexts_by_source' \in [Client -> SUBSET Request]
    BY <1>2, <1>3 DEF TInv, TypeOK
  <1>6. Busy'
    BY <1>1, <1>3 DEF requestVars, TInv, TypeOK, Busy
  <1>7. TypeOK'
    BY <1>2, <1>3, <1>4, <1>5 DEF requestVars, TInv, TypeOK, Label, State
  <1> QED  BY <1>6, <1>7 DEF TInv

\* No step takes the types away.
LEMMA NextTInv == TInv /\ [Next]_vars => TInv'
  <1> SUFFICES ASSUME TInv, [Next]_vars PROVE TInv'
    OBVIOUS
  <1>1. ASSUME NEW w \in Worker, NEW c \in Client, Receive(w, c) PROVE TInv'
    BY <1>1, ReceiveTInv
  <1>2. ASSUME NEW w \in Worker, NEW c \in Client, PushTo(w, c) PROVE TInv'
    BY <1>2, ReplyType DEF PushTo, requestVars, registryVars, TInv, TypeOK, Busy
  <1>3. ASSUME NEW w \in Worker, CreateContext(w) PROVE TInv'
    BY <1>3, CreateTInv
  <1>4. ASSUME NEW w \in Worker, CacheJobId(w) PROVE TInv'
    <2>1. Of(w) \in Client /\ sourceJobID[request[w]] \in Request \union {None}
      BY <1>4, BusyRequest DEF CacheJobId
    <2> QED  BY <1>4, <2>1 DEF CacheJobId, Goto, requestVars, registryVars, TInv, TypeOK, Busy, Label
  <1>5. ASSUME NEW w \in Worker, Return(w) PROVE TInv'
    <2>1. sent' \subseteq Message
      BY <1>5, BusyRequest, ReplyType DEF Return
    <2> QED  BY <1>5, <2>1 DEF Return, Goto, requestVars, registryVars, TInv, TypeOK, Busy, Label
  <1>6. ASSUME NEW w \in Worker, Raise(w) PROVE TInv'
    BY <1>6 DEF Raise, Goto, requestVars, registryVars, TInv, TypeOK, Busy, Label
  <1>7. ASSUME NEW w \in Worker, Complete(w) PROVE TInv'
    BY <1>7, EndTInv DEF Complete, State
  <1>8. ASSUME NEW w \in Worker, Fail(w) PROVE TInv'
    BY <1>8, EndTInv DEF Fail, State
  <1>9. ASSUME NEW c \in Client, ClearAll(c) PROVE TInv'
    <2>1. state' \in [Request -> State]
      BY <1>9 DEF ClearAll, TInv, TypeOK, State
    <2>2. /\ context_stack' \in [Client -> Seq(Request)]
          /\ \A d \in Client : Len(context_stack'[d]) <= StackLength
      BY <1>9, EmptyStack, JobRegistryAssumption DEF ClearAll, TInv, TypeOK
    <2> QED  BY <1>9, <2>1, <2>2 DEF ClearAll, requestVars, TInv, TypeOK, Busy
  <1>10. CASE UNCHANGED vars
    BY <1>10 DEF vars, requestVars, registryVars, TInv, TypeOK, Busy
  <1> QED  BY <1>1, <1>2, <1>3, <1>4, <1>5, <1>6, <1>7, <1>8, <1>9, <1>10 DEF Next

(* The variables keep their types (TypeOK of JobRegistry): a job id in a   *)
(* reply is one a request carried.                                         *)
THEOREM TypeCorrect == Spec => []TypeOK
  <1>1. TInv => TypeOK
    BY DEF TInv
  <1> QED  BY InitTInv, NextTInv, <1>1, PTL DEF Spec

-----------------------------------------------------------------------------
(* Contexts.                                                               *)

LEMMA StackedElements == \A c : Stacked(c) = Elements(context_stack[c])
  BY DEF Stacked, Elements

\* It holds at the start.
LEMMA InitCInv == Init => CInv
  BY EmptyStack, StackedElements
     DEF Init, CInv, OneWorkerEach, NotYet, Placed, Filed, Elements, Distinct

\* Steps that leave the registries and the requests alone.
Aside ==
    /\ UNCHANGED <<requestVars, registryVars, request>>
    /\ \A w \in Worker : /\ pc'[w] = "idle" <=> pc[w] = "idle"
                         /\ pc'[w] = "create" <=> pc[w] = "create"
                         /\ pc'[w] = "cache" => pc[w] = "cache"

LEMMA StepsAside ==
    ASSUME TInv, NEW w \in Worker,
           CacheJobId(w) \/ Return(w) \/ Raise(w) \/ \E c \in Client : PushTo(w, c)
    PROVE  Aside
  <1>1. CASE CacheJobId(w)
    BY <1>1 DEF CacheJobId, Goto, Aside, TInv, TypeOK
  <1>2. CASE Return(w)
    BY <1>2 DEF Return, Goto, Aside, TInv, TypeOK
  <1>3. CASE Raise(w)
    BY <1>3 DEF Raise, Goto, Aside, TInv, TypeOK
  <1>4. CASE \E c \in Client : PushTo(w, c)
    BY <1>4 DEF PushTo, Aside
  <1> QED  BY <1>1, <1>2, <1>3, <1>4

LEMMA StutterAside == UNCHANGED vars => Aside
  BY DEF vars, Aside

LEMMA AsideCInv ==
    ASSUME CInv, Aside
    PROVE  CInv'
  BY DEF CInv, Aside, requestVars, registryVars, OneWorkerEach, NotYet, Placed, Filed,
         Stacked, Distinct

LEMMA ReceiveCInv ==
    ASSUME TInv, CInv, NEW w \in Worker, NEW c \in Client, Receive(w, c)
    PROVE  CInv'
  <1>0. PICK r : r = received + 1
    OBVIOUS
  <1>1. /\ r \in Request /\ received \in Nat /\ received' = r /\ r > received
        /\ \A i \in 1..received : i # r
        /\ \A i \in Request : i > r => i > received
    BY <1>0, JobRegistryAssumption DEF Receive, TInv, TypeOK, Request
  <1>2. /\ request' = [request EXCEPT ![w] = r]
        /\ client_obj' = [client_obj EXCEPT ![r] = c]
        /\ pc[w] = "idle" /\ pc'[w] # "idle"
        /\ \A v \in Worker \ {w} : pc'[v] = pc[v]
        /\ UNCHANGED <<active_context, context_stack, contexts_by_source, state>>
    BY <1>0 DEF Receive, Goto, registryVars, TInv, TypeOK
  <1>3. request'[w] = r /\ \A v \in Worker \ {w} : request'[v] = request[v]
    BY <1>2 DEF TInv, TypeOK
  <1>4. state[r] = "none"
    BY <1>1 DEF CInv, NotYet
  <1>5. \A i \in Request \ {r} : client_obj'[i] = client_obj[i]
    BY <1>2 DEF TInv, TypeOK
  <1>6. OneWorkerEach'
    BY <1>1, <1>2, <1>3 DEF CInv, OneWorkerEach, TInv, Busy
  <1>7. NotYet'
    BY <1>1, <1>2, <1>3, <1>4 DEF CInv, NotYet
  <1>8. Placed'
    <2> SUFFICES ASSUME NEW d \in Client
                 PROVE  /\ Distinct(context_stack[d])
                        /\ active_context[d] \notin Stacked(d)
                        /\ \A i \in Stacked(d) \union ({active_context[d]} \ {None}) :
                              client_obj'[i] = d /\ state[i] = "created"
      BY <1>2 DEF Placed, Stacked
    <2>1. \A i \in Stacked(d) \union ({active_context[d]} \ {None}) :
              i \in Request /\ client_obj[i] = d /\ state[i] = "created"
      BY DEF CInv, Placed, TInv, TypeOK, Stacked
    <2> QED  BY <1>4, <1>5, <2>1 DEF CInv, Placed
  <1>9. Filed'
    <2> SUFFICES ASSUME NEW d \in Client, NEW i \in contexts_by_source[d]
                 PROVE  client_obj'[i] = d /\ state[i] = "created"
      BY <1>2 DEF Filed
    <2>1. i \in Request /\ client_obj[i] = d /\ state[i] = "created"
      BY DEF CInv, Filed, TInv, TypeOK
    <2> QED  BY <1>4, <1>5, <2>1
  <1> QED  BY <1>6, <1>7, <1>8, <1>9 DEF CInv

\* What create_context does to the registry of its client.
LEMMA CreateMoves ==
    ASSUME TInv, CInv, NEW w \in Worker, CreateContext(w), NEW c, c = Of(w), NEW r, r = request[w]
    PROVE  /\ c \in Client /\ r \in Request /\ r \in 1..received /\ client_obj[r] = c /\ r # None
           /\ pc[w] = "create" /\ pc'[w] = "cache"
           /\ \A v \in Worker \ {w} : pc'[v] = pc[v]
           /\ UNCHANGED <<received, client_obj, sourceJobID, request>>
           /\ state[r] = "none" /\ state'[r] = "created"
           /\ \A i \in Request \ {r} : state'[i] = state[i]
           /\ active_context'[c] = r
           /\ contexts_by_source'[c] \subseteq contexts_by_source[c] \union {r}
           /\ \A d \in Client \ {c} : /\ active_context'[d] = active_context[d]
                                      /\ context_stack'[d] = context_stack[d]
                                      /\ contexts_by_source'[d] = contexts_by_source[d]
           /\ context_stack'[c] = IF active_context[c] = None THEN context_stack[c]
                                  ELSE Push(context_stack[c], active_context[c])
  <1>1. pc[w] = "create" /\ pc'[w] = "cache" /\ \A v \in Worker \ {w} : pc'[v] = pc[v]
    BY DEF CreateContext, Goto, TInv, TypeOK
  <1>2. /\ c \in Client /\ r \in Request /\ r \in 1..received /\ client_obj[r] = c /\ r # None
    BY <1>1, BusyRequest DEF Of
  <1>3. /\ UNCHANGED <<received, client_obj, sourceJobID, request>>
        /\ state' = [state EXCEPT ![r] = "created"]
        /\ active_context' = [active_context EXCEPT ![c] = r]
        /\ contexts_by_source' = [contexts_by_source EXCEPT ![c] =
                                      IF sourceJobID[r] = None THEN @ ELSE @ \union {r}]
    BY DEF CreateContext, requestVars
  <1>4. state[r] = "none"
    BY <1>1 DEF CInv, NotYet
  <1>5. /\ context_stack'[c] = IF active_context[c] = None THEN context_stack[c]
                               ELSE Push(context_stack[c], active_context[c])
        /\ \A d \in Client \ {c} : context_stack'[d] = context_stack[d]
    BY <1>2 DEF CreateContext, TInv, TypeOK
  <1> QED  BY <1>1, <1>2, <1>3, <1>4, <1>5 DEF TInv, TypeOK

LEMMA CreateCInv ==
    ASSUME TInv, CInv, NEW w \in Worker, CreateContext(w)
    PROVE  CInv'
  <1>0. PICK c, r : c = Of(w) /\ r = request[w]
    OBVIOUS
  <1>1. /\ c \in Client /\ r \in Request /\ r \in 1..received /\ client_obj[r] = c /\ r # None
        /\ pc[w] = "create" /\ pc'[w] = "cache"
        /\ \A v \in Worker \ {w} : pc'[v] = pc[v]
        /\ UNCHANGED <<received, client_obj, sourceJobID, request>>
        /\ state[r] = "none" /\ state'[r] = "created"
        /\ \A i \in Request \ {r} : state'[i] = state[i]
        /\ active_context'[c] = r
        /\ contexts_by_source'[c] \subseteq contexts_by_source[c] \union {r}
        /\ \A d \in Client \ {c} : /\ active_context'[d] = active_context[d]
                                   /\ context_stack'[d] = context_stack[d]
                                   /\ contexts_by_source'[d] = contexts_by_source[d]
        /\ context_stack'[c] = IF active_context[c] = None THEN context_stack[c]
                               ELSE Push(context_stack[c], active_context[c])
    BY <1>0, CreateMoves
  <1>2. OneWorkerEach'
    BY <1>1 DEF CInv, OneWorkerEach
  <1>3. NotYet'
    <2>1. \A i \in Request : i > received => i # r
      BY <1>1, JobRegistryAssumption DEF TInv, TypeOK
    <2>2. \A v \in Worker : pc'[v] = "create" => pc[v] = "create" /\ request[v] # r /\ request[v] \in Request
      BY <1>0, <1>1, BusyRequest DEF CInv, OneWorkerEach
    <2>3. \A i \in Request : i > received' => state'[i] = "none"
      BY <1>1, <2>1 DEF CInv, NotYet
    <2>4. ASSUME NEW v \in Worker, pc'[v] = "create"
          PROVE  state'[request'[v]] = "none"
      <3>1. state[request[v]] = "none"
        BY <2>2, <2>4 DEF CInv, NotYet
      <3>2. request'[v] = request[v]
        BY <1>1
      <3>3. state'[request[v]] = state[request[v]]
        BY <1>1, <2>2, <2>4
      <3> QED  BY <3>1, <3>2, <3>3
    <2> QED  BY <2>3, <2>4 DEF NotYet
  <1>4. ASSUME NEW d \in Client
        PROVE  \A i \in Elements(context_stack[d]) \union ({active_context[d]} \ {None}) :
                   /\ i \in Request /\ i # r
                   /\ client_obj[i] = d /\ state[i] = "created" /\ state'[i] = "created"
    <2>1. \A i \in Elements(context_stack[d]) \union ({active_context[d]} \ {None}) : i \in Request
      BY DEF TInv, TypeOK, Elements
    <2>2. \A i \in Elements(context_stack[d]) \union ({active_context[d]} \ {None}) :
              client_obj[i] = d /\ state[i] = "created"
      BY StackedElements DEF CInv, Placed
    <2> QED  BY <1>1, <2>1, <2>2
  <1>5. Placed'
    <2> SUFFICES ASSUME NEW d \in Client
                 PROVE  /\ Distinct(context_stack'[d])
                        /\ active_context'[d] \notin Elements(context_stack'[d])
                        /\ \A i \in Elements(context_stack'[d]) \union ({active_context'[d]} \ {None}) :
                              client_obj[i] = d /\ state'[i] = "created"
      BY <1>1 DEF Placed, Stacked, Elements
    <2>1. Distinct(context_stack[d]) /\ active_context[d] \notin Elements(context_stack[d])
      BY StackedElements DEF CInv, Placed
    <2>2. CASE d # c
      BY <1>1, <1>4, <2>1, <2>2
    <2>3. CASE d = c
      <3> DEFINE q == context_stack[c]
                 p == context_stack'[c]
      <3>1. q \in Seq(Request) /\ Len(q) <= StackLength
        BY <1>1 DEF TInv, TypeOK
      <3>2. Distinct(p) /\ Elements(p) \subseteq Elements(q) \union ({active_context[c]} \ {None})
        <4>1. CASE active_context[c] = None
          BY <1>1, <2>1, <2>3, <4>1
        <4>2. CASE active_context[c] # None
          <5>1. active_context[c] \in Request
            BY <1>1, <4>2 DEF TInv, TypeOK
          <5>2. p = Push(q, active_context[c])
            BY <1>1, <4>2
          <5> HIDE DEF p, q
          <5> QED  BY <2>1, <2>3, <3>1, <4>2, <5>1, <5>2, PushPlaces DEF q
        <4> QED  BY <4>1, <4>2
      <3> HIDE DEF p
      <3> QED  BY <1>1, <1>4, <2>3, <3>2 DEF p
    <2> QED  BY <2>2, <2>3
  <1>6. Filed'
    <2> SUFFICES ASSUME NEW d \in Client, NEW i \in contexts_by_source'[d]
                 PROVE  client_obj[i] = d /\ state'[i] = "created"
      BY <1>1 DEF Filed
    <2>1. \A j \in contexts_by_source[d] : j \in Request /\ client_obj[j] = d /\ state[j] = "created"
      BY DEF CInv, Filed, TInv, TypeOK
    <2>2. i \in contexts_by_source[d] \/ (i = r /\ d = c)
      BY <1>1
    <2>3. CASE i \in contexts_by_source[d]
      <3>1. i # r /\ i \in Request
        BY <1>1, <2>1, <2>3
      <3> QED  BY <1>1, <2>1, <2>3, <3>1
    <2>4. CASE i = r /\ d = c
      BY <1>1, <2>4
    <2> QED  BY <2>2, <2>3, <2>4
  <1> QED  BY <1>2, <1>3, <1>5, <1>6 DEF CInv

\* What the end of a context does to its registry.
LEMMA PopMoves ==
    ASSUME TInv, CInv, NEW c \in Client, NEW r, r = active_context[c], r # None, NEW outcome,
           PopContext(c, outcome)
    PROVE  /\ r \in Request /\ client_obj[r] = c /\ r \notin Elements(context_stack[c])
           /\ state'[r] = outcome
           /\ \A i \in Request \ {r} : state'[i] = state[i]
           /\ contexts_by_source'[c] = contexts_by_source[c] \ {r}
           /\ \A d \in Client \ {c} : /\ active_context'[d] = active_context[d]
                                      /\ context_stack'[d] = context_stack[d]
                                      /\ contexts_by_source'[d] = contexts_by_source[d]
           /\ context_stack'[c] \in Seq(Request) /\ Distinct(context_stack'[c])
           /\ \/ /\ context_stack[c] = <<>> /\ context_stack'[c] = <<>>
                 /\ active_context'[c] = None
              \/ /\ context_stack[c] # <<>>
                 /\ Len(context_stack'[c]) = Len(context_stack[c]) - 1
                 /\ active_context'[c] \in Request /\ active_context'[c] # None
                 /\ active_context'[c] \notin Elements(context_stack'[c])
                 /\ Elements(context_stack[c]) = Elements(context_stack'[c]) \union {active_context'[c]}
  <1> DEFINE q == context_stack[c]
  <1>1. r \in Request /\ q \in Seq(Request)
    BY DEF TInv, TypeOK
  <1>2. client_obj[r] = c /\ r \notin Elements(q) /\ Distinct(q)
    BY StackedElements DEF CInv, Placed
  <1>3. /\ state' = [state EXCEPT ![r] = outcome]
        /\ contexts_by_source' = [contexts_by_source EXCEPT ![c] = @ \ {r}]
    BY DEF PopContext
  <1>4. CASE q = <<>>
    <2>1. active_context' = [active_context EXCEPT ![c] = None] /\ context_stack' = context_stack
      BY <1>4 DEF PopContext
    <2> QED  BY <1>1, <1>2, <1>3, <1>4, <2>1 DEF TInv, TypeOK
  <1>5. CASE q # <<>>
    <2> DEFINE p == SubSeq(q, 1, Len(q) - 1)
               last == q[Len(q)]
    <2>1. /\ active_context' = [active_context EXCEPT ![c] = last]
          /\ context_stack' = [context_stack EXCEPT ![c] = p]
      BY <1>5 DEF PopContext
    <2>2. /\ p \in Seq(Request) /\ Len(p) = Len(q) - 1 /\ last \in Request
          /\ Elements(q) = Elements(p) \union {last}
          /\ Distinct(p) /\ last \notin Elements(p)
      BY <1>1, <1>2, <1>5, PopPlaces
    <2>3. last # None
      BY <2>2 DEF Request, None
    <2> HIDE DEF p, last
    <2>4. active_context'[c] = last /\ context_stack'[c] = p
      BY <2>1 DEF TInv, TypeOK
    <2>5. \A d \in Client \ {c} : /\ active_context'[d] = active_context[d]
                                  /\ context_stack'[d] = context_stack[d]
      BY <2>1 DEF TInv, TypeOK
    <2> QED  BY <1>1, <1>2, <1>3, <1>5, <2>2, <2>3, <2>4, <2>5 DEF TInv, TypeOK
  <1> QED  BY <1>4, <1>5

LEMMA PopPlacedFiled ==
    ASSUME TInv, CInv, NEW c \in Client, active_context[c] # None, NEW outcome, outcome # "created",
           PopContext(c, outcome), client_obj' = client_obj
    PROVE  Placed' /\ Filed'
  <1>0. PICK r : r = active_context[c]
    OBVIOUS
  <1>1. /\ r \in Request /\ client_obj[r] = c /\ r \notin Elements(context_stack[c])
        /\ \A i \in Request \ {r} : state'[i] = state[i]
        /\ contexts_by_source'[c] = contexts_by_source[c] \ {r}
        /\ \A d \in Client \ {c} : /\ active_context'[d] = active_context[d]
                                   /\ context_stack'[d] = context_stack[d]
                                   /\ contexts_by_source'[d] = contexts_by_source[d]
    BY <1>0, PopMoves
  <1>2. /\ Distinct(context_stack'[c])
        /\ active_context'[c] \notin Elements(context_stack'[c])
        /\ Elements(context_stack'[c]) \union ({active_context'[c]} \ {None})
               \subseteq Elements(context_stack[c])
    <2>1. CASE context_stack[c] = <<>> /\ active_context'[c] = None /\ context_stack'[c] = <<>>
      BY <2>1, EmptyStack
    <2>2. CASE ~ (context_stack[c] = <<>> /\ active_context'[c] = None /\ context_stack'[c] = <<>>)
      BY <1>0, <2>2, PopMoves
    <2> QED  BY <2>1, <2>2
  <1>3. \A d \in Client :
            /\ Distinct(context_stack[d])
            /\ active_context[d] \notin Elements(context_stack[d])
            /\ \A i \in Elements(context_stack[d]) \union ({active_context[d]} \ {None}) :
                   i \in Request /\ client_obj[i] = d /\ state[i] = "created"
    <2> TAKE d \in Client
    <2>1. \A i \in Elements(context_stack[d]) \union ({active_context[d]} \ {None}) : i \in Request
      BY DEF TInv, TypeOK, Elements
    <2> QED  BY <2>1, StackedElements DEF CInv, Placed
  <1>4. Placed'
    <2> SUFFICES ASSUME NEW d \in Client
                 PROVE  /\ Distinct(context_stack'[d])
                        /\ active_context'[d] \notin Elements(context_stack'[d])
                        /\ \A i \in Elements(context_stack'[d]) \union ({active_context'[d]} \ {None}) :
                              client_obj[i] = d /\ state'[i] = "created"
      BY DEF Placed, Stacked, Elements
    <2>1. CASE d # c
      BY <1>1, <1>3, <2>1
    <2>2. CASE d = c
      BY <1>1, <1>2, <1>3, <2>2
    <2> QED  BY <2>1, <2>2
  <1>5. Filed'
    <2> SUFFICES ASSUME NEW d \in Client, NEW i \in contexts_by_source'[d]
                 PROVE  client_obj[i] = d /\ state'[i] = "created"
      BY DEF Filed
    <2>1. \A j \in contexts_by_source[d] : j \in Request /\ client_obj[j] = d /\ state[j] = "created"
      BY DEF CInv, Filed, TInv, TypeOK
    <2>2. CASE d # c
      BY <1>1, <2>1, <2>2
    <2>3. CASE d = c
      BY <1>1, <2>1, <2>3
    <2> QED  BY <2>2, <2>3
  <1> QED  BY <1>4, <1>5

\* The end of a request, whatever context it ends.
LEMMA EndMoves ==
    ASSUME TInv, CInv, NEW w \in Worker, pc[w] \in {"complete", "fail"}, NEW outcome, End(w, outcome)
    PROVE  /\ Of(w) \in Client
           /\ pc'[w] = "idle"
           /\ \A v \in Worker \ {w} : pc'[v] = pc[v] /\ request'[v] = request[v]
           /\ UNCHANGED <<received, client_obj, sourceJobID, is_newPacketType,
                          last_request_source_job_id, extended_msg>>
           /\ sent' = {}
           /\ IF active_context[Of(w)] = None
              THEN UNCHANGED <<active_context, context_stack, contexts_by_source, state>>
              ELSE PopContext(Of(w), outcome)
  BY BusyRequest DEF End, Goto, requestVars, registryVars, TInv, TypeOK

LEMMA EndCInv ==
    ASSUME TInv, CInv, NEW w \in Worker, pc[w] \in {"complete", "fail"}, NEW outcome,
           outcome # "created", outcome # "none", End(w, outcome)
    PROVE  CInv'
  <1>0. PICK c : c = Of(w)
    OBVIOUS
  <1>1. /\ c \in Client
        /\ pc'[w] = "idle"
        /\ \A v \in Worker \ {w} : pc'[v] = pc[v] /\ request'[v] = request[v]
        /\ UNCHANGED <<received, client_obj, sourceJobID>>
        /\ IF active_context[c] = None
           THEN UNCHANGED <<active_context, context_stack, contexts_by_source, state>>
           ELSE PopContext(c, outcome)
    BY <1>0, EndMoves
  <1>2. OneWorkerEach'
    BY <1>1 DEF CInv, OneWorkerEach
  <1>3. CASE active_context[c] = None
    <2>1. NotYet' /\ Filed'
      BY <1>1, <1>3 DEF CInv, NotYet, Filed
    <2>2. Placed'
      BY <1>1, <1>3 DEF CInv, Placed, Stacked, Distinct
    <2> QED  BY <1>2, <2>1, <2>2 DEF CInv
  <1>4. CASE active_context[c] # None
    <2>1. Placed' /\ Filed'
      BY <1>1, <1>4, PopPlacedFiled
    <2>2. PICK r : r = active_context[c]
      OBVIOUS
    <2>3. r \in Request /\ \A i \in Request \ {r} : state'[i] = state[i]
      BY <1>1, <1>4, <2>2, PopMoves
    <2>4. state[r] = "created"
      BY <1>1, <1>4, <2>2 DEF CInv, Placed
    <2>5. NotYet'
      <3>1. \A v \in Worker : pc'[v] = "create" =>
                pc[v] = "create" /\ request'[v] = request[v] /\ request[v] \in Request
        BY <1>1, BusyRequest
      <3> QED  BY <1>1, <2>3, <2>4, <3>1 DEF CInv, NotYet
    <2> QED  BY <1>2, <2>1, <2>5 DEF CInv
  <1> QED  BY <1>3, <1>4

LEMMA ClearCInv ==
    ASSUME TInv, CInv, NEW c \in Client, ClearAll(c)
    PROVE  CInv'
  <1> DEFINE Gone == contexts_by_source[c] \union {active_context[c]}
  <1>1. /\ active_context[c] # None
        /\ \A i \in Request : state'[i] = IF i \in Gone THEN "failed" ELSE state[i]
        /\ contexts_by_source' = [contexts_by_source EXCEPT ![c] = {}]
        /\ context_stack' = [context_stack EXCEPT ![c] = <<>>]
        /\ active_context' = [active_context EXCEPT ![c] = None]
        /\ UNCHANGED <<received, client_obj, sourceJobID, pc, request>>
    BY DEF ClearAll, requestVars
  <1>2. \A i \in Gone : i \in Request /\ client_obj[i] = c /\ state[i] = "created"
    BY <1>1 DEF CInv, Placed, Filed, TInv, TypeOK
  <1> HIDE DEF Gone
  <1>3. OneWorkerEach'
    BY <1>1 DEF CInv, OneWorkerEach
  <1>4. NotYet'
    <2>1. \A w \in Worker : pc[w] = "create" => request[w] \in Request
      BY BusyRequest
    <2> QED  BY <1>1, <1>2, <2>1 DEF CInv, NotYet
  <1>5. \A d \in Client \ {c} : /\ active_context'[d] = active_context[d]
                                /\ context_stack'[d] = context_stack[d]
                                /\ contexts_by_source'[d] = contexts_by_source[d]
    BY <1>1 DEF TInv, TypeOK
  <1>6. active_context'[c] = None /\ context_stack'[c] = <<>> /\ contexts_by_source'[c] = {}
    BY <1>1 DEF TInv, TypeOK
  <1>7. \A d \in Client \ {c} : \A i \in Request : client_obj[i] = d => state'[i] = state[i]
    BY <1>1, <1>2
  <1>8. Placed'
    <2> SUFFICES ASSUME NEW d \in Client
                 PROVE  /\ Distinct(context_stack'[d])
                        /\ active_context'[d] \notin Elements(context_stack'[d])
                        /\ \A i \in Elements(context_stack'[d]) \union ({active_context'[d]} \ {None}) :
                              client_obj[i] = d /\ state'[i] = "created"
      BY <1>1 DEF Placed, Stacked, Elements
    <2>1. CASE d = c
      BY <1>6, <2>1, EmptyStack
    <2>2. CASE d # c
      <3>1. \A i \in Elements(context_stack[d]) \union ({active_context[d]} \ {None}) : i \in Request
        BY DEF TInv, TypeOK, Elements
      <3> QED  BY <1>5, <1>7, <2>2, <3>1, StackedElements DEF CInv, Placed
    <2> QED  BY <2>1, <2>2
  <1>9. Filed'
    <2> SUFFICES ASSUME NEW d \in Client, NEW i \in contexts_by_source'[d]
                 PROVE  client_obj[i] = d /\ state'[i] = "created"
      BY <1>1 DEF Filed
    <2>1. d # c
      BY <1>6
    <2> QED  BY <1>5, <1>7, <2>1 DEF CInv, Filed, TInv, TypeOK
  <1> QED  BY <1>3, <1>4, <1>8, <1>9 DEF CInv

\* No step breaks it.
LEMMA NextCInv == TInv /\ CInv /\ [Next]_vars => CInv'
  <1> SUFFICES ASSUME TInv, CInv, [Next]_vars PROVE CInv'
    OBVIOUS
  <1>1. ASSUME NEW w \in Worker, NEW c \in Client, Receive(w, c) PROVE CInv'
    BY <1>1, ReceiveCInv
  <1>2. ASSUME NEW w \in Worker, NEW c \in Client, PushTo(w, c) PROVE CInv'
    BY <1>2, StepsAside, AsideCInv
  <1>3. ASSUME NEW w \in Worker, CreateContext(w) PROVE CInv'
    BY <1>3, CreateCInv
  <1>4. ASSUME NEW w \in Worker, CacheJobId(w) \/ Return(w) \/ Raise(w) PROVE CInv'
    BY <1>4, StepsAside, AsideCInv
  <1>5. ASSUME NEW w \in Worker, Complete(w) PROVE CInv'
    BY <1>5, EndCInv DEF Complete
  <1>6. ASSUME NEW w \in Worker, Fail(w) PROVE CInv'
    BY <1>6, EndCInv DEF Fail
  <1>7. ASSUME NEW c \in Client, ClearAll(c) PROVE CInv'
    BY <1>7, ClearCInv
  <1>8. CASE UNCHANGED vars
    BY <1>8, StutterAside, AsideCInv
  <1> QED  BY <1>1, <1>2, <1>3, <1>4, <1>5, <1>6, <1>7, <1>8 DEF Next

\* It gives the property.
LEMMA PlacedOnce ==
    ASSUME TInv, CInv
    PROVE  ContextsHaveOnePlace
  <1> SUFFICES ASSUME NEW c \in Client
               PROVE  Cardinality(Stacked(c)) = Len(context_stack[c])
    BY DEF CInv, Placed, ContextsHaveOnePlace
  <1> DEFINE q == context_stack[c]
             n == Len(q)
  <1>1. q \in Seq(Request) /\ n \in Nat /\ DOMAIN q = 1..n
    BY DEF TInv, TypeOK
  <1>2. Distinct(q)
    BY DEF CInv, Placed
  <1>3. q \in Bijection(1..n, Stacked(c))
    BY <1>1, <1>2 DEF Bijection, Injection, Surjection, IsInjective, Distinct, Stacked
  <1> QED  BY <1>1, <1>3, FS_CountingElements DEF ExistsBijection

(* A context is the active one or once on the stack, of its own client's   *)
(* registry and not at its end (ContextsHaveOnePlace of JobRegistry), in   *)
(* any order of create_context, complete_context and fail_context.         *)
THEOREM ContextsPlaced == Spec => []ContextsHaveOnePlace
  <1>1. Init => TInv /\ CInv
    BY InitTInv, InitCInv
  <1>2. TInv /\ CInv /\ [Next]_vars => (TInv /\ CInv)'
    BY NextTInv, NextCInv
  <1>3. TInv /\ CInv => ContextsHaveOnePlace
    BY PlacedOnce
  <1> QED  BY <1>1, <1>2, <1>3, PTL DEF Spec

-----------------------------------------------------------------------------
(* Draining.                                                               *)

\* What a client's part of the invariant rests on.
SameFor(d) ==
    /\ Holding(d)' = Holding(d)
    /\ active_context'[d] = active_context[d]
    /\ context_stack'[d] = context_stack[d]

CountedFor(d) ==
    /\ IsFiniteSet(Holding(d))
    /\ Contexts(d) <= Cardinality(Holding(d))
    /\ active_context[d] = None => context_stack[d] = <<>>

\* It holds at the start.
LEMMA InitDInv == Init => DInv
  <1> SUFFICES ASSUME Init PROVE DInv
    OBVIOUS
  <1>1. \A c \in Client : Holding(c) = {}
    BY DEF Init, Holding
  <1>2. Counted
    <2>1. IsFiniteSet({}) /\ Cardinality({}) = 0 /\ Len(<<>>) = 0
      BY FS_EmptySet
    <2>2. \A c \in Client : Contexts(c) = 0 /\ active_context[c] = None /\ context_stack[c] = <<>>
      BY <2>1 DEF Init, Contexts
    <2> SUFFICES ASSUME NEW c \in Client PROVE CountedFor(c)
      BY DEF Counted, CountedFor
    <2>3. Cardinality(Holding(c)) = 0 /\ IsFiniteSet(Holding(c))
      BY <1>1, <2>1
    <2>4. Contexts(c) <= Cardinality(Holding(c))
      BY <2>2, <2>3
    <2> QED  BY <2>2, <2>3, <2>4 DEF CountedFor
  <1>3. Steps /\ NothingDropped
    BY DEF Init, Steps, NothingDropped
  <1> QED  BY <1>2, <1>3 DEF DInv

LEMMA SameCounted ==
    ASSUME NEW d \in Client, CountedFor(d), SameFor(d)
    PROVE  CountedFor(d)'
  <1>1. Contexts(d)' = Contexts(d)
    BY DEF SameFor, Contexts
  <1> QED  BY <1>1 DEF SameFor, CountedFor

LEMMA RequestsFinite ==
    ASSUME NEW n \in Nat, NEW S, S \subseteq 1..n
    PROVE  IsFiniteSet(S) /\ Cardinality(S) \in Nat
  <1>1. IsFiniteSet(1..n)
    BY FS_Interval
  <1>2. IsFiniteSet(S)
    BY <1>1, FS_Subset
  <1> QED  BY <1>2, FS_CardinalityType

LEMMA AsideDInv ==
    ASSUME TInv, DInv, Aside
    PROVE  DInv'
  <1>1. \A w \in Worker : Of(w)' = Of(w)
    BY DEF Aside, requestVars, Of
  <1>2. \A c \in Client : SameFor(c)
    BY <1>1 DEF Aside, registryVars, Holding, SameFor
  <1>3. Counted'
    BY <1>2, SameCounted DEF DInv, Counted, CountedFor
  <1>4. Steps'
    BY <1>1 DEF DInv, Steps, Aside
  <1>5. NothingDropped'
    BY DEF DInv, NothingDropped, Requests, Stacked, Aside, requestVars, registryVars
  <1> QED  BY <1>3, <1>4, <1>5 DEF DInv

\* The other workers' requests when one is received.
LEMMA ReceiveMoves ==
    ASSUME TInv, NEW w \in Worker, NEW c \in Client, Receive(w, c), NEW r, r = received + 1
    PROVE  /\ r \in Request /\ r # None /\ r \notin 1..received /\ received' = r
           /\ 1..received' = (1..received) \union {r}
           /\ pc[w] = "idle" /\ pc'[w] = IF c \in Extended THEN "create" ELSE "handle"
           /\ c \notin Concurrent => Quiet(c)
           /\ request'[w] = r /\ Of(w)' = c
           /\ \A v \in Worker \ {w} :
                 /\ pc'[v] = pc[v] /\ request'[v] = request[v]
                 /\ pc[v] # "idle" => /\ Of(v)' = Of(v)
                                      /\ sourceJobID'[request[v]] = sourceJobID[request[v]]
           /\ client_obj'[r] = c
           /\ sourceJobID'[r] \in IF c \in Extended THEN {None, r} ELSE {None}
           /\ \A i \in Request \ {r} : client_obj'[i] = client_obj[i]
           /\ is_newPacketType' = [is_newPacketType EXCEPT ![c] = FALSE]
           /\ UNCHANGED <<last_request_source_job_id, active_context, context_stack,
                          contexts_by_source, state, extended_msg>>
           /\ sent' = {}
  <1>1. r \in Request /\ r # None /\ r \notin 1..received
    BY JobRegistryAssumption DEF Receive, TInv, TypeOK, Request, None
  <1>2. 1..(received + 1) = (1..received) \union {r}
    BY JobRegistryAssumption DEF TInv, TypeOK
  <1>3. /\ received' = r
        /\ client_obj' = [client_obj EXCEPT ![r] = c]
        /\ request' = [request EXCEPT ![w] = r]
        /\ pc[w] = "idle"
        /\ pc' = [pc EXCEPT ![w] = IF c \in Extended THEN "create" ELSE "handle"]
        /\ c \notin Concurrent => Quiet(c)
        /\ is_newPacketType' = [is_newPacketType EXCEPT ![c] = FALSE]
        /\ sent' = {}
        /\ UNCHANGED <<last_request_source_job_id, active_context, context_stack,
                       contexts_by_source, state, extended_msg>>
    BY DEF Receive, Goto, registryVars
  <1>4. PICK job : /\ job \in IF c \in Extended THEN {None, r} ELSE {None}
                   /\ sourceJobID' = [sourceJobID EXCEPT ![r] = job]
    BY DEF Receive
  <1>5. /\ client_obj'[r] = c /\ \A i \in Request \ {r} : client_obj'[i] = client_obj[i]
        /\ sourceJobID'[r] = job /\ \A i \in Request \ {r} : sourceJobID'[i] = sourceJobID[i]
        /\ request'[w] = r /\ \A v \in Worker \ {w} : request'[v] = request[v]
        /\ pc'[w] = IF c \in Extended THEN "create" ELSE "handle"
        /\ \A v \in Worker \ {w} : pc'[v] = pc[v]
    BY <1>1, <1>3, <1>4 DEF TInv, TypeOK
  <1>6. \A v \in Worker \ {w} : pc[v] # "idle" => request[v] \in Request /\ request[v] # r
    BY <1>1, BusyRequest
  <1> QED  BY <1>1, <1>2, <1>3, <1>4, <1>5, <1>6 DEF Of

LEMMA ReceiveDInv ==
    ASSUME TInv, CInv, DInv, TInv', NEW w \in Worker, NEW c \in Client, Receive(w, c)
    PROVE  DInv'
  <1>0. PICK r : r = received + 1
    OBVIOUS
  <1>1. /\ r \in Request /\ r \notin 1..received
        /\ 1..received' = (1..received) \union {r}
        /\ pc[w] = "idle" /\ pc'[w] = IF c \in Extended THEN "create" ELSE "handle"
        /\ Of(w)' = c
        /\ \A v \in Worker \ {w} : /\ pc'[v] = pc[v]
                                   /\ pc[v] # "idle" => Of(v)' = Of(v)
        /\ \A i \in Request \ {r} : client_obj'[i] = client_obj[i]
        /\ UNCHANGED <<active_context, context_stack, contexts_by_source>>
    <2> USE <1>0, ReceiveMoves
    <2>1. /\ r \in Request /\ r \notin 1..received
          /\ 1..received' = (1..received) \union {r}
          /\ pc[w] = "idle" /\ pc'[w] = IF c \in Extended THEN "create" ELSE "handle"
          /\ Of(w)' = c
      OBVIOUS
    <2>2. \A v \in Worker \ {w} : /\ pc'[v] = pc[v]
                                   /\ pc[v] # "idle" => Of(v)' = Of(v)
      OBVIOUS
    <2>3. /\ \A i \in Request \ {r} : client_obj'[i] = client_obj[i]
          /\ UNCHANGED <<active_context, context_stack, contexts_by_source>>
      OBVIOUS
    <2> QED  BY <2>1, <2>2, <2>3
  <1>2. \A d \in Client : Holding(d)' = Holding(d)
    <2> SUFFICES ASSUME NEW d \in Client, NEW v \in Worker
                 PROVE  v \in Holding(d)' <=> v \in Holding(d)
      BY DEF Holding
    <2>1. CASE v = w
      BY <1>1, <2>1 DEF Holding
    <2>2. CASE v # w
      BY <1>1, <2>2 DEF Holding
    <2> QED  BY <2>1, <2>2
  <1>3. Counted'
    BY <1>1, <1>2, SameCounted DEF DInv, Counted, CountedFor, SameFor
  <1>4. Steps'
    BY <1>1 DEF DInv, Steps
  <1>5. received \in Nat /\ received' \in Nat
    BY JobRegistryAssumption DEF TInv, TypeOK
  <1>6. \A d \in Client : Cardinality(Requests(d)) <= Cardinality(Requests(d)')
    <2> TAKE d \in Client
    <2>1. Requests(d) \subseteq Requests(d)'
      <3>1. 1..received \subseteq Request
        BY JobRegistryAssumption DEF TInv, TypeOK, Request
      <3> QED  BY <1>1, <3>1 DEF Requests
    <2>2. IsFiniteSet(Requests(d)')
      <3>1. Requests(d)' \subseteq 1..received'
        BY DEF Requests
      <3> QED  BY <1>5, <3>1, RequestsFinite
    <2> QED  BY <2>1, <2>2, FS_Subset
  <1>7. \A d \in Client : Cardinality(Requests(d)) \in Nat /\ Cardinality(Requests(d)') \in Nat
    <2> TAKE d \in Client
    <2>1. Requests(d)' \subseteq 1..received' /\ Requests(d) \subseteq 1..received
      BY DEF Requests
    <2> QED  BY <1>5, <2>1, RequestsFinite
  <1>8. NothingDropped'
    <2> SUFFICES ASSUME NEW d \in Client, Cardinality(Requests(d)') <= StackLength + 1
                 PROVE  contexts_by_source'[d] \subseteq Stacked(d)' \union {active_context'[d]}
      BY DEF NothingDropped
    <2>1. Cardinality(Requests(d)) <= StackLength + 1
      BY <1>6, <1>7, JobRegistryAssumption
    <2>2. Stacked(d)' = Stacked(d)
      BY <1>1 DEF Stacked
    <2> QED  BY <1>1, <2>1, <2>2 DEF DInv, NothingDropped
  <1> QED  BY <1>3, <1>4, <1>8 DEF DInv

\* A client's stack is full only after more requests than it has room for.
LEMMA NotFull ==
    ASSUME TInv, CInv, NEW c \in Client, NEW a \in Request, a = active_context[c], a # None,
           NEW r \in 1..received, client_obj[r] = c, state[r] = "none",
           Cardinality(Requests(c)) <= StackLength + 1
    PROVE  Len(context_stack[c]) < StackLength
  <1>1. Stacked(c) \subseteq Request
    BY DEF Stacked, TInv, TypeOK
  <1>2. a \notin Stacked(c) /\ \A i \in Stacked(c) \union {a} : client_obj[i] = c /\ state[i] = "created"
    BY DEF CInv, Placed
  <1>3. \A i \in Request : state[i] = "created" => i \in 1..received
    BY JobRegistryAssumption DEF CInv, NotYet, TInv, TypeOK, Request
  <1>4. r \notin Stacked(c) \union {a}
    BY <1>2
  <1> DEFINE S == Stacked(c) \union {a}
             T == S \union {r}
  <1>5. T \subseteq Requests(c)
    BY <1>1, <1>2, <1>3 DEF Requests
  <1>6. received \in Nat /\ StackLength \in Nat
    BY JobRegistryAssumption DEF TInv, TypeOK
  <1>7. IsFiniteSet(Requests(c)) /\ Cardinality(Requests(c)) \in Nat
    <2>1. Requests(c) \subseteq 1..received
      BY DEF Requests
    <2> QED  BY <1>6, <2>1, RequestsFinite
  <1>8. IsFiniteSet(T) /\ Cardinality(T) <= Cardinality(Requests(c))
    BY <1>5, <1>7, FS_Subset
  <1>9. IsFiniteSet(S) /\ IsFiniteSet(Stacked(c))
    BY <1>8, FS_Subset
  <1> HIDE DEF S, T
  <1>10. Cardinality(T) = Cardinality(S) + 1
    BY <1>4, <1>9, FS_AddElement DEF S, T
  <1>11. Cardinality(S) = Cardinality(Stacked(c)) + 1
    BY <1>2, <1>9, FS_AddElement DEF S
  <1>12. Cardinality(Stacked(c)) = Len(context_stack[c])
    BY PlacedOnce DEF ContextsHaveOnePlace
  <1>13. Len(context_stack[c]) \in Nat
    BY DEF TInv, TypeOK
  <1> QED  BY <1>6, <1>7, <1>8, <1>10, <1>11, <1>12, <1>13

\* A context that is made takes one more worker; the stack only drops one when
\* the client has had too many requests.
LEMMA CreateDInv ==
    ASSUME TInv, CInv, DInv, NEW w \in Worker, CreateContext(w)
    PROVE  DInv'
  <1>0. PICK c, r, a : c = Of(w) /\ r = request[w] /\ a = active_context[c]
    OBVIOUS
  <1>1. /\ c \in Client /\ r \in Request /\ r \in 1..received /\ client_obj[r] = c /\ r # None
        /\ pc[w] = "create" /\ pc'[w] = "cache"
        /\ \A v \in Worker \ {w} : pc'[v] = pc[v]
        /\ UNCHANGED <<received, client_obj, sourceJobID, request>>
        /\ state[r] = "none"
        /\ active_context'[c] = r
        /\ contexts_by_source'[c] \subseteq contexts_by_source[c] \union {r}
        /\ \A d \in Client \ {c} : /\ active_context'[d] = active_context[d]
                                   /\ context_stack'[d] = context_stack[d]
                                   /\ contexts_by_source'[d] = contexts_by_source[d]
        /\ context_stack'[c] = IF a = None THEN context_stack[c] ELSE Push(context_stack[c], a)
    BY <1>0, CreateMoves
  <1>2. c \in Extended
    BY <1>0, <1>1 DEF DInv, Steps
  <1>3. \A v \in Worker : Of(v)' = Of(v)
    BY <1>1 DEF Of
  <1>4. w \notin Holding(c) /\ Holding(c)' = Holding(c) \union {w}
    BY <1>0, <1>1, <1>2, <1>3 DEF Holding
  <1>5. \A d \in Client \ {c} : SameFor(d)
    BY <1>0, <1>1, <1>3 DEF Holding, SameFor
  <1>6. a \in Request \union {None} /\ context_stack[c] \in Seq(Request)
        /\ Len(context_stack[c]) \in Nat /\ Len(context_stack[c]) <= StackLength
    BY <1>0, <1>1 DEF TInv, TypeOK
  <1>7. CountedFor(c)'
    <2>1. CountedFor(c)
      BY <1>1 DEF DInv, Counted, CountedFor
    <2>2. /\ IsFiniteSet(Holding(c)')
          /\ Cardinality(Holding(c)') = Cardinality(Holding(c)) + 1
          /\ Cardinality(Holding(c)) \in Nat
      BY <1>4, <2>1, FS_AddElement, FS_CardinalityType DEF CountedFor
    <2>3. Contexts(c)' = Len(context_stack'[c]) + 1
      BY <1>1 DEF Contexts
    <2>4. Contexts(c)' <= Cardinality(Holding(c)')
      <3>1. CASE a = None
        <4>1. Contexts(c) = Len(context_stack[c])
          BY <1>0, <1>6, <3>1 DEF Contexts
        <4>2. Contexts(c)' = Len(context_stack[c]) + 1
          BY <1>1, <2>3, <3>1
        <4> QED  BY <1>6, <2>1, <2>2, <4>1, <4>2 DEF CountedFor
      <3>2. CASE a # None
        <4>1. Contexts(c) = Len(context_stack[c]) + 1
          BY <1>0, <3>2 DEF Contexts
        <4>2. Contexts(c)' = Len(Push(context_stack[c], a)) + 1
          BY <1>1, <2>3, <3>2
        <4>3. /\ Len(Push(context_stack[c], a)) <= Len(context_stack[c]) + 1
              /\ Len(Push(context_stack[c], a)) \in Nat
          BY <1>6, <3>2, PushPlaces
        <4> QED  BY <1>6, <2>1, <2>2, <4>1, <4>2, <4>3 DEF CountedFor
      <3> QED  BY <3>1, <3>2
    <2> QED  BY <1>1, <2>2, <2>4 DEF CountedFor
  <1>8. Counted'
    BY <1>5, <1>7, SameCounted DEF DInv, Counted, CountedFor
  <1>9. Steps'
    BY <1>0, <1>1, <1>2, <1>3 DEF DInv, Steps
  <1>10. \A d \in Client : Requests(d)' = Requests(d)
    BY <1>1 DEF Requests
  <1>11. NothingDropped'
    <2> SUFFICES ASSUME NEW d \in Client, Cardinality(Requests(d)) <= StackLength + 1
                 PROVE  contexts_by_source'[d] \subseteq
                            Elements(context_stack'[d]) \union {active_context'[d]}
      BY <1>10 DEF NothingDropped, Stacked, Elements
    <2>1. contexts_by_source[d] \subseteq Elements(context_stack[d]) \union {active_context[d]}
      BY StackedElements DEF DInv, NothingDropped
    <2>2. CASE d # c
      BY <1>1, <2>1, <2>2
    <2>3. CASE d = c /\ a = None
      <3>1. None \notin contexts_by_source[c]
        BY <1>1 DEF TInv, TypeOK, Request, None
      <3> QED  BY <1>0, <1>1, <2>1, <2>3, <3>1
    <2>4. CASE d = c /\ a # None
      <3>1. Len(context_stack[c]) < StackLength
        BY <1>0, <1>1, <1>6, <2>4, NotFull
      <3>2. Elements(context_stack'[c]) = Elements(context_stack[c]) \union {a}
        <4>1. context_stack'[c] = Push(context_stack[c], a)
          BY <1>1, <2>4
        <4> QED  BY <1>6, <2>4, <3>1, <4>1, PushPlaces
      <3> QED  BY <1>0, <1>1, <2>1, <2>4, <3>2
    <2> QED  BY <2>2, <2>3, <2>4
  <1> QED  BY <1>8, <1>9, <1>11 DEF DInv

LEMMA EndDInv ==
    ASSUME TInv, CInv, DInv, NEW w \in Worker, pc[w] \in {"complete", "fail"}, NEW outcome,
           End(w, outcome)
    PROVE  DInv'
  <1>0. PICK c : c = Of(w)
    OBVIOUS
  <1>1. /\ c \in Client
        /\ pc'[w] = "idle"
        /\ \A v \in Worker \ {w} : pc'[v] = pc[v] /\ request'[v] = request[v]
        /\ UNCHANGED <<received, client_obj, sourceJobID>>
        /\ IF active_context[c] = None
           THEN UNCHANGED <<active_context, context_stack, contexts_by_source, state>>
           ELSE PopContext(c, outcome)
    BY <1>0, EndMoves
  <1>2. \A v \in Worker \ {w} : Of(v)' = Of(v)
    BY <1>1 DEF Of
  <1>3. Holding(c)' = Holding(c) \ {w} /\ (c \in Extended <=> w \in Holding(c))
    BY <1>0, <1>1, <1>2 DEF Holding
  <1>4. \A d \in Client \ {c} : Holding(d)' = Holding(d)
    BY <1>0, <1>1, <1>2 DEF Holding
  <1>5. Steps'
    BY <1>1, <1>2 DEF DInv, Steps
  <1>6. \A d \in Client : Requests(d)' = Requests(d)
    BY <1>1 DEF Requests
  <1>7. CountedFor(c)
    BY <1>1 DEF DInv, Counted, CountedFor
  <1>8. /\ IsFiniteSet(Holding(c)')
        /\ Cardinality(Holding(c)) \in Nat /\ Cardinality(Holding(c)') \in Nat
        /\ w \in Holding(c) => Cardinality(Holding(c)') = Cardinality(Holding(c)) - 1
    BY <1>3, <1>7, FS_RemoveElement, FS_CardinalityType DEF CountedFor
  <1>9. CASE active_context[c] = None
    <2>1. UNCHANGED <<active_context, context_stack, contexts_by_source, state>>
      BY <1>1, <1>9
    <2>2. Contexts(c)' = 0
      <3>1. context_stack'[c] = <<>> /\ active_context'[c] = None
        BY <1>7, <1>9, <2>1 DEF CountedFor
      <3>2. Len(<<>>) = 0
        OBVIOUS
      <3> QED  BY <3>1, <3>2 DEF Contexts
    <2>3. CountedFor(c)'
      BY <1>7, <1>8, <2>1, <2>2 DEF CountedFor
    <2>4. Counted'
      BY <1>4, <2>1, <2>3, SameCounted DEF DInv, Counted, CountedFor, SameFor
    <2>5. NothingDropped'
      BY <1>6, <2>1 DEF DInv, NothingDropped, Stacked
    <2> QED  BY <1>5, <2>4, <2>5 DEF DInv
  <1>10. CASE active_context[c] # None
    <2>0. PICK a : a = active_context[c]
      OBVIOUS
    <2>1. /\ contexts_by_source'[c] = contexts_by_source[c] \ {a}
          /\ \A d \in Client \ {c} : /\ active_context'[d] = active_context[d]
                                     /\ context_stack'[d] = context_stack[d]
                                     /\ contexts_by_source'[d] = contexts_by_source[d]
          /\ \/ /\ context_stack[c] = <<>> /\ context_stack'[c] = <<>>
                /\ active_context'[c] = None
             \/ /\ context_stack[c] # <<>>
                /\ Len(context_stack'[c]) = Len(context_stack[c]) - 1
                /\ active_context'[c] # None
                /\ Elements(context_stack[c]) = Elements(context_stack'[c]) \union {active_context'[c]}
      BY <1>1, <1>10, <2>0, PopMoves
    <2>2. Len(context_stack[c]) \in Nat /\ Len(<<>>) = 0
      BY <1>1 DEF TInv, TypeOK
    <2>3. Contexts(c) = Len(context_stack[c]) + 1
      BY <1>10 DEF Contexts
    <2>4. Contexts(c)' = Len(context_stack[c])
      <3>1. CASE context_stack'[c] = <<>> /\ active_context'[c] = None /\ context_stack[c] = <<>>
        BY <2>2, <3>1 DEF Contexts
      <3>2. CASE /\ Len(context_stack'[c]) = Len(context_stack[c]) - 1
                 /\ active_context'[c] # None
        BY <2>2, <3>2 DEF Contexts
      <3> QED  BY <2>1, <3>1, <3>2
    <2>5. w \in Holding(c)
      <3>1. Cardinality(Holding(c)) # 0
        BY <1>7, <1>8, <2>2, <2>3 DEF CountedFor
      <3>2. Holding(c) # {}
        BY <3>1, FS_EmptySet
      <3> QED  BY <1>3, <3>2 DEF Holding
    <2>6. CountedFor(c)'
      <3>1. Contexts(c)' <= Cardinality(Holding(c)')
        BY <1>7, <1>8, <2>2, <2>3, <2>4, <2>5 DEF CountedFor
      <3> QED  BY <1>8, <2>1, <3>1 DEF CountedFor
    <2>7. Counted'
      BY <1>4, <2>1, <2>6, SameCounted DEF DInv, Counted, CountedFor, SameFor
    <2>8. NothingDropped'
      <3> SUFFICES ASSUME NEW d \in Client, Cardinality(Requests(d)) <= StackLength + 1
                   PROVE  contexts_by_source'[d] \subseteq
                              Elements(context_stack'[d]) \union {active_context'[d]}
        BY <1>6 DEF NothingDropped, Stacked, Elements
      <3>1. contexts_by_source[d] \subseteq Elements(context_stack[d]) \union {active_context[d]}
        BY StackedElements DEF DInv, NothingDropped
      <3>2. CASE d # c
        BY <2>1, <3>1, <3>2
      <3>3. CASE d = c
        BY <2>0, <2>1, <3>1, <3>3, EmptyStack
      <3> QED  BY <3>2, <3>3
    <2> QED  BY <1>5, <2>7, <2>8 DEF DInv
  <1> QED  BY <1>9, <1>10

LEMMA ClearDInv ==
    ASSUME TInv, DInv, NEW c \in Client, ClearAll(c)
    PROVE  DInv'
  <1>1. /\ contexts_by_source' = [contexts_by_source EXCEPT ![c] = {}]
        /\ context_stack' = [context_stack EXCEPT ![c] = <<>>]
        /\ active_context' = [active_context EXCEPT ![c] = None]
        /\ UNCHANGED <<received, client_obj, pc, request>>
    BY DEF ClearAll, requestVars
  <1>2. /\ active_context'[c] = None /\ context_stack'[c] = <<>> /\ contexts_by_source'[c] = {}
        /\ \A d \in Client \ {c} : /\ active_context'[d] = active_context[d]
                                   /\ context_stack'[d] = context_stack[d]
                                   /\ contexts_by_source'[d] = contexts_by_source[d]
    BY <1>1 DEF TInv, TypeOK
  <1>3. /\ \A w \in Worker : Of(w)' = Of(w)
        /\ \A d : Requests(d)' = Requests(d)
    BY <1>1 DEF Of, Requests
  <1>4. \A d : Holding(d)' = Holding(d)
    BY <1>1, <1>3 DEF Holding
  <1>5. CountedFor(c)'
    <2>1. Contexts(c)' = 0
      <3>1. Len(<<>>) = 0
        OBVIOUS
      <3> QED  BY <1>2, <3>1 DEF Contexts
    <2>2. IsFiniteSet(Holding(c)')
      BY <1>4 DEF DInv, Counted
    <2>3. Contexts(c)' <= Cardinality(Holding(c)')
      BY <2>1, <2>2, FS_CardinalityType
    <2> QED  BY <1>2, <2>2, <2>3 DEF CountedFor
  <1>6. Counted'
    BY <1>2, <1>4, <1>5, SameCounted DEF DInv, Counted, CountedFor, SameFor
  <1>7. Steps'
    BY <1>1, <1>3 DEF DInv, Steps
  <1>8. NothingDropped'
    BY <1>2, <1>3 DEF DInv, NothingDropped, Stacked
  <1> QED  BY <1>6, <1>7, <1>8 DEF DInv

\* No step breaks it.
LEMMA NextDInv == TInv /\ CInv /\ DInv /\ TInv' /\ [Next]_vars => DInv'
  <1> SUFFICES ASSUME TInv, CInv, DInv, TInv', [Next]_vars PROVE DInv'
    OBVIOUS
  <1>1. ASSUME NEW w \in Worker, NEW c \in Client, Receive(w, c) PROVE DInv'
    BY <1>1, ReceiveDInv
  <1>2. ASSUME NEW w \in Worker, NEW c \in Client, PushTo(w, c) PROVE DInv'
    BY <1>2, StepsAside, AsideDInv
  <1>3. ASSUME NEW w \in Worker, CreateContext(w) PROVE DInv'
    BY <1>3, CreateDInv
  <1>4. ASSUME NEW w \in Worker, CacheJobId(w) \/ Return(w) \/ Raise(w) PROVE DInv'
    BY <1>4, StepsAside, AsideDInv
  <1>5. ASSUME NEW w \in Worker, Complete(w) PROVE DInv'
    BY <1>5, EndDInv DEF Complete
  <1>6. ASSUME NEW w \in Worker, Fail(w) PROVE DInv'
    BY <1>6, EndDInv DEF Fail
  <1>7. ASSUME NEW c \in Client, ClearAll(c) PROVE DInv'
    BY <1>7, ClearDInv
  <1>8. CASE UNCHANGED vars
    BY <1>8, StutterAside, AsideDInv
  <1> QED  BY <1>1, <1>2, <1>3, <1>4, <1>5, <1>6, <1>7, <1>8 DEF Next

\* It gives the property.
LEMMA QuietEmpty ==
    ASSUME TInv, DInv, NEW c \in Client, Quiet(c)
    PROVE  active_context[c] = None /\ context_stack[c] = <<>>
  <1>1. Holding(c) = {}
    BY DEF Quiet, Holding
  <1>2. Contexts(c) <= 0
    BY <1>1, FS_EmptySet DEF DInv, Counted
  <1>3. Len(context_stack[c]) \in Nat
    BY DEF TInv, TypeOK
  <1>4. ASSUME active_context[c] # None
        PROVE  FALSE
    <2>1. Contexts(c) = Len(context_stack[c]) + 1
      BY <1>4 DEF Contexts
    <2> QED  BY <1>2, <1>3, <2>1
  <1> QED  BY <1>4 DEF DInv, Counted

LEMMA Drained ==
    ASSUME TInv, CInv, DInv
    PROVE  RegistryDrains
  <1> SUFFICES ASSUME NEW c \in Client, Quiet(c)
               PROVE  IF Cardinality(Requests(c)) <= StackLength + 1
                      THEN contexts_by_source[c] = {}
                      ELSE \A r \in contexts_by_source[c] : state[r] = "created"
    BY QuietEmpty DEF RegistryDrains, Requests
  <1>1. CASE Cardinality(Requests(c)) <= StackLength + 1
    <2>1. Stacked(c) = {} /\ active_context[c] = None
      BY QuietEmpty, EmptyStack, StackedElements
    <2>2. None \notin contexts_by_source[c]
      BY DEF TInv, TypeOK, Request, None
    <2>3. contexts_by_source[c] \subseteq Stacked(c) \union {active_context[c]}
      BY <1>1 DEF DInv, NothingDropped
    <2> QED  BY <1>1, <2>1, <2>2, <2>3
  <1>2. CASE ~ Cardinality(Requests(c)) <= StackLength + 1
    BY <1>2 DEF CInv, Filed
  <1> QED  BY <1>1, <1>2

(* A registry whose client has no request in a worker is empty, up to the  *)
(* contexts a full stack dropped (RegistryDrains of JobRegistry), whatever *)
(* the order of completions, failures and disconnects.                     *)
THEOREM RegistriesDrain == Spec => []RegistryDrains
  <1>1. Init => TInv /\ CInv /\ DInv
    BY InitTInv, InitCInv, InitDInv
  <1>2. TInv /\ CInv /\ DInv /\ [Next]_vars => (TInv /\ CInv /\ DInv)'
    BY NextTInv, NextCInv, NextDInv
  <1>3. TInv /\ CInv /\ DInv => RegistryDrains
    BY Drained
  <1> QED  BY <1>1, <1>2, <1>3, PTL DEF Spec

-----------------------------------------------------------------------------
(* Replies.                                                                *)

LEMMA InitRInv == Init => RInv
  BY DEF Init, RInv, Alone, OwnHeaders, RepliesReachTheirJob

\* What CMResponse finds stays the same.
SameHeader(v) ==
    /\ pc'[v] = pc[v] /\ request'[v] = request[v] /\ Of(v)' = Of(v)
    /\ sourceJobID'[request[v]] = sourceJobID[request[v]]
    /\ extended_msg'[v] = extended_msg[v]
    /\ is_newPacketType'[Of(v)] = is_newPacketType[Of(v)]
    /\ last_request_source_job_id'[Of(v)] = last_request_source_job_id[Of(v)]
    /\ active_context'[Of(v)] = active_context[Of(v)]
    /\ context_stack'[Of(v)] = context_stack[Of(v)]

LEMMA SameOwnHeader ==
    ASSUME NEW v, OwnHeader(v), SameHeader(v)
    PROVE  OwnHeader(v)'
  BY DEF OwnHeader, SameHeader

\* Nobody else works for a client that waits for its replies.
LEMMA OthersAside ==
    ASSUME Alone, NEW w \in Worker, pc[w] # "idle", NEW v \in Worker \ {w}, pc[v] # "idle",
           Of(v) \notin Concurrent
    PROVE  Of(v) # Of(w)
  BY DEF Alone

\* A step in which a worker only goes on keeps them apart.
LEMMA GoOnAlone ==
    ASSUME Alone, NEW w \in Worker, pc[w] # "idle",
           \A v \in Worker : Of(v)' = Of(v), \A v \in Worker \ {w} : pc'[v] = pc[v]
    PROVE  Alone'
  BY DEF Alone

LEMMA ReceiveRInv ==
    ASSUME TInv, DInv, RInv, NEW w \in Worker, NEW c \in Client, Receive(w, c)
    PROVE  RInv'
  <1>0. PICK r : r = received + 1
    OBVIOUS
  <1>1. /\ pc[w] = "idle" /\ pc'[w] = IF c \in Extended THEN "create" ELSE "handle"
        /\ c \notin Concurrent => Quiet(c)
        /\ request'[w] = r /\ Of(w)' = c
        /\ \A v \in Worker \ {w} :
              /\ pc'[v] = pc[v] /\ request'[v] = request[v]
              /\ pc[v] # "idle" => /\ Of(v)' = Of(v)
                                   /\ sourceJobID'[request[v]] = sourceJobID[request[v]]
        /\ sourceJobID'[r] \in IF c \in Extended THEN {None, r} ELSE {None}
        /\ is_newPacketType' = [is_newPacketType EXCEPT ![c] = FALSE]
        /\ UNCHANGED <<last_request_source_job_id, active_context, context_stack, extended_msg>>
        /\ sent' = {}
    BY <1>0, ReceiveMoves
  <1>2. \A v \in Worker \ {w} : pc[v] # "idle" /\ Of(v) \notin Concurrent =>
            Of(v) # c /\ Of(v) \in Client
    BY <1>1, BusyRequest DEF Quiet
  <1>3. Alone'
    <2> SUFFICES ASSUME NEW u \in Worker, NEW v \in Worker, pc'[u] # "idle", pc'[v] # "idle",
                        Of(u)' = Of(v)', Of(u)' \notin Concurrent
                 PROVE  u = v
      BY DEF Alone
    <2>1. CASE u # w /\ v # w
      BY <1>1, <2>1 DEF RInv, Alone
    <2>2. CASE u = w \/ v = w
      BY <1>1, <1>2, <2>2
    <2> QED  BY <2>1, <2>2
  <1>4. OwnHeaders'
    <2> SUFFICES ASSUME NEW v \in Worker, pc'[v] # "idle", Of(v)' \notin Concurrent
                 PROVE  OwnHeader(v)'
      BY DEF OwnHeaders
    <2>1. CASE v = w
      <3>1. active_context[c] = None /\ context_stack[c] = <<>>
        BY <1>1, <2>1, QuietEmpty
      <3>2. is_newPacketType'[c] = FALSE
        BY <1>1 DEF TInv, TypeOK
      <3> QED  BY <1>1, <2>1, <3>1, <3>2 DEF OwnHeader
    <2>2. CASE v # w
      <3>1. Of(v) # c /\ Of(v) \in Client /\ OwnHeader(v)
        BY <1>1, <1>2, <2>2 DEF RInv, OwnHeaders
      <3>2. is_newPacketType'[Of(v)] = is_newPacketType[Of(v)]
        BY <1>1, <3>1 DEF TInv, TypeOK
      <3>3. SameHeader(v)
        BY <1>1, <2>2, <3>2 DEF SameHeader
      <3> QED  BY <3>1, <3>3, SameOwnHeader
    <2> QED  BY <2>1, <2>2
  <1>5. RepliesReachTheirJob'
    BY <1>1 DEF RepliesReachTheirJob
  <1> QED  BY <1>3, <1>4, <1>5 DEF RInv

LEMMA CreateRInv ==
    ASSUME TInv, CInv, DInv, RInv, NEW w \in Worker, CreateContext(w)
    PROVE  RInv'
  <1>0. PICK c, r : c = Of(w) /\ r = request[w]
    OBVIOUS
  <1>1. /\ c \in Client
        /\ pc[w] = "create" /\ pc'[w] = "cache"
        /\ \A v \in Worker \ {w} : pc'[v] = pc[v]
        /\ UNCHANGED <<received, client_obj, sourceJobID, request>>
        /\ active_context'[c] = r
        /\ \A d \in Client \ {c} : /\ active_context'[d] = active_context[d]
                                   /\ context_stack'[d] = context_stack[d]
        /\ context_stack'[c] = IF active_context[c] = None THEN context_stack[c]
                               ELSE Push(context_stack[c], active_context[c])
    BY <1>0, CreateMoves
  <1>2. /\ extended_msg'[w] = r /\ \A v \in Worker \ {w} : extended_msg'[v] = extended_msg[v]
        /\ is_newPacketType'[c] = TRUE
        /\ \A d \in Client \ {c} : is_newPacketType'[d] = is_newPacketType[d]
        /\ last_request_source_job_id' = last_request_source_job_id
        /\ sent' = {}
    BY <1>0, <1>1 DEF CreateContext, TInv, TypeOK
  <1>3. c \in Extended
    BY <1>0, <1>1 DEF DInv, Steps
  <1>4. \A v \in Worker : Of(v)' = Of(v)
    BY <1>1 DEF Of
  <1>5. Alone'
    BY <1>1, <1>4, GoOnAlone DEF RInv
  <1>6. OwnHeaders'
    <2> SUFFICES ASSUME NEW v \in Worker, pc'[v] # "idle", Of(v) \notin Concurrent
                 PROVE  OwnHeader(v)'
      BY <1>4 DEF OwnHeaders
    <2>1. CASE v = w
      <3>1. context_stack[c] = <<>> /\ active_context[c] = None
        BY <1>0, <1>1, <1>3, <2>1 DEF RInv, OwnHeaders, OwnHeader
      <3>2. Of(v)' = c /\ request'[v] = r /\ pc'[v] = "cache" /\ extended_msg'[v] = r
            /\ context_stack'[c] = <<>>
        BY <1>0, <1>1, <1>2, <1>4, <2>1, <3>1
      <3> QED  BY <1>1, <1>2, <1>3, <3>2 DEF OwnHeader
    <2>2. CASE v # w
      <3>1. Of(v) # c /\ Of(v) \in Client /\ OwnHeader(v)
        BY <1>0, <1>1, <2>2, BusyRequest, OthersAside DEF RInv, OwnHeaders
      <3>2. SameHeader(v)
        BY <1>1, <1>2, <1>4, <2>2, <3>1 DEF SameHeader
      <3> QED  BY <3>1, <3>2, SameOwnHeader
    <2> QED  BY <2>1, <2>2
  <1>7. RepliesReachTheirJob'
    BY <1>2 DEF RepliesReachTheirJob
  <1> QED  BY <1>5, <1>6, <1>7 DEF RInv

LEMMA CacheRInv ==
    ASSUME TInv, DInv, RInv, NEW w \in Worker, CacheJobId(w)
    PROVE  RInv'
  <1>0. PICK c, r : c = Of(w) /\ r = request[w]
    OBVIOUS
  <1>1. /\ pc[w] = "cache" /\ pc' = [pc EXCEPT ![w] = "handle"]
        /\ last_request_source_job_id' =
              [last_request_source_job_id EXCEPT ![c] = sourceJobID[r]]
        /\ UNCHANGED <<client_obj, sourceJobID, request, is_newPacketType, active_context,
                       context_stack, extended_msg>>
        /\ sent' = {}
    BY <1>0 DEF CacheJobId, Goto, requestVars, registryVars
  <1>2. c \in Client
    BY <1>0, <1>1, BusyRequest
  <1>3. /\ pc'[w] = "handle" /\ \A v \in Worker \ {w} : pc'[v] = pc[v]
        /\ last_request_source_job_id'[c] = sourceJobID[r]
        /\ \A d \in Client \ {c} : last_request_source_job_id'[d] = last_request_source_job_id[d]
    BY <1>1, <1>2 DEF TInv, TypeOK
  <1>4. \A v \in Worker : Of(v)' = Of(v)
    BY <1>1 DEF Of
  <1>5. Alone'
    BY <1>1, <1>3, <1>4, GoOnAlone DEF RInv
  <1>6. OwnHeaders'
    <2> SUFFICES ASSUME NEW v \in Worker, pc'[v] # "idle", Of(v) \notin Concurrent
                 PROVE  OwnHeader(v)'
      BY <1>4 DEF OwnHeaders
    <2>1. CASE v = w
      <3>1. OwnHeader(w) /\ c \in Extended
        BY <1>0, <1>1, <2>1 DEF RInv, OwnHeaders, DInv, Steps
      <3>2. Of(w)' = c /\ request'[w] = r
        BY <1>0, <1>1, <1>4
      <3> QED  BY <1>0, <1>1, <1>3, <2>1, <3>1, <3>2 DEF OwnHeader
    <2>2. CASE v # w
      <3>1. Of(v) # c /\ Of(v) \in Client /\ OwnHeader(v)
        BY <1>0, <1>1, <1>3, <2>2, BusyRequest, OthersAside DEF RInv, OwnHeaders
      <3>2. SameHeader(v)
        BY <1>1, <1>3, <1>4, <2>2, <3>1 DEF SameHeader
      <3> QED  BY <3>1, <3>2, SameOwnHeader
    <2> QED  BY <2>1, <2>2
  <1>7. RepliesReachTheirJob'
    BY <1>1 DEF RepliesReachTheirJob
  <1> QED  BY <1>5, <1>6, <1>7 DEF RInv

\* What CMResponse chooses for a client that waits for its replies.
LEMMA ReplyRouted ==
    ASSUME TInv, RInv, NEW w \in Worker, pc[w] = "handle", Of(w) \notin Concurrent
    PROVE  Routed(CMResponse(w, Of(w)))
  <1>0. PICK c, r, m : c = Of(w) /\ r = request[w] /\ m = CMResponse(w, c)
    OBVIOUS
  <1>1. /\ m.request = r /\ m.to = c /\ m.extended = is_newPacketType[c]
        /\ m.targetJobID = IF is_newPacketType[c] THEN TargetJobID(w, c) ELSE None
        /\ client_obj[r] = c
    BY <1>0 DEF CMResponse, Of
  <1>2. OwnHeader(w) /\ c \in Client /\ r # None
    BY <1>0, BusyRequest DEF RInv, OwnHeaders
  <1>3. CASE c \in Extended
    <2>1. /\ is_newPacketType[c] /\ active_context[c] \in {None, r}
          /\ extended_msg[w] = r /\ last_request_source_job_id[c] = sourceJobID[r]
      BY <1>0, <1>2, <1>3 DEF OwnHeader
    <2>2. /\ JobOf(active_context[c]) \in {None, sourceJobID[r]}
          /\ JobOf(extended_msg[w]) = sourceJobID[r]
      BY <1>2, <2>1 DEF JobOf
    <2>3. TargetJobID(w, c) = sourceJobID[r]
      BY <1>2, <2>1, <2>2, TargetJobIDType
    <2>4. is_newPacketType[c] = TRUE
      BY <1>2, <2>1 DEF TInv, TypeOK
    <2> QED  BY <1>0, <1>1, <1>3, <2>3, <2>4 DEF Routed
  <1>4. CASE c \notin Extended
    <2>1. is_newPacketType[c] = FALSE /\ sourceJobID[r] = None
      BY <1>0, <1>2, <1>4 DEF OwnHeader, TInv, TypeOK
    <2>2. m.targetJobID = sourceJobID[r] /\ m.extended = FALSE
      BY <1>1, <2>1
    <2>3. FALSE = (c \in Extended)
      BY <1>4
    <2>4. m.extended = (c \in Extended)
      BY <2>2, <2>3
    <2> QED  BY <1>0, <1>1, <2>2, <2>4 DEF Routed
  <1> QED  BY <1>3, <1>4

LEMMA HandleRInv ==
    ASSUME TInv, RInv, NEW w \in Worker,
           Return(w) \/ Raise(w) \/ \E c \in Client : PushTo(w, c)
    PROVE  RInv'
  <1>1. /\ pc[w] = "handle" /\ pc'[w] \in {"handle", "complete", "fail"}
        /\ \A v \in Worker \ {w} : pc'[v] = pc[v]
        /\ UNCHANGED <<client_obj, sourceJobID, request, is_newPacketType,
                       last_request_source_job_id, active_context, context_stack, extended_msg>>
    BY DEF Return, Raise, PushTo, Goto, requestVars, registryVars, TInv, TypeOK
  <1>2. \A v \in Worker : Of(v)' = Of(v)
    BY <1>1 DEF Of
  <1>3. Alone'
    BY <1>1, <1>2, GoOnAlone DEF RInv
  <1>4. OwnHeaders'
    <2> SUFFICES ASSUME NEW v \in Worker, pc'[v] # "idle", Of(v) \notin Concurrent
                 PROVE  OwnHeader(v)'
      BY <1>2 DEF OwnHeaders
    <2>1. OwnHeader(v) /\ (pc'[v] = pc[v] \/ v = w)
      BY <1>1 DEF RInv, OwnHeaders
    <2>2. CASE v = w
      BY <1>1, <1>2, <2>1, <2>2 DEF OwnHeader
    <2>3. CASE v # w
      <3>1. SameHeader(v)
        BY <1>1, <1>2, <2>3 DEF SameHeader
      <3> QED  BY <2>1, <3>1, SameOwnHeader
    <2> QED  BY <2>2, <2>3
  <1>5. RepliesReachTheirJob'
    <2> SUFFICES ASSUME NEW m \in sent', client_obj[m.request] \notin Concurrent
                 PROVE  Routed(m)
      BY <1>1 DEF RepliesReachTheirJob, Routed
    <2>1. m = CMResponse(w, Of(w)) \/ \E c \in Client : c # Of(w) /\ m = CMResponse(w, c)
      BY DEF Return, Raise, PushTo
    <2>2. CASE m = CMResponse(w, Of(w))
      <3>1. client_obj[m.request] = Of(w)
        BY <2>2 DEF CMResponse, Of
      <3> QED  BY <1>1, <2>2, <3>1, ReplyRouted
    <2>3. CASE \E c \in Client : c # Of(w) /\ m = CMResponse(w, c)
      <3>1. m.to # client_obj[m.request]
        BY <2>3 DEF CMResponse, Of
      <3> QED  BY <3>1 DEF Routed
    <2> QED  BY <2>1, <2>2, <2>3
  <1> QED  BY <1>3, <1>4, <1>5 DEF RInv

LEMMA EndRInv ==
    ASSUME TInv, CInv, RInv, NEW w \in Worker, pc[w] \in {"complete", "fail"}, NEW outcome,
           End(w, outcome)
    PROVE  RInv'
  <1>0. PICK c : c = Of(w)
    OBVIOUS
  <1>1. /\ c \in Client
        /\ pc'[w] = "idle"
        /\ \A v \in Worker \ {w} : pc'[v] = pc[v] /\ request'[v] = request[v]
        /\ UNCHANGED <<received, client_obj, sourceJobID, is_newPacketType,
                       last_request_source_job_id, extended_msg>>
        /\ sent' = {}
        /\ IF active_context[c] = None
           THEN UNCHANGED <<active_context, context_stack, contexts_by_source, state>>
           ELSE PopContext(c, outcome)
    BY <1>0, EndMoves
  <1>2. \A v \in Worker \ {w} : Of(v)' = Of(v)
    BY <1>1 DEF Of
  <1>3. \A d \in Client \ {c} : /\ active_context'[d] = active_context[d]
                                /\ context_stack'[d] = context_stack[d]
    <2>1. CASE active_context[c] = None
      BY <1>1, <2>1
    <2>2. CASE active_context[c] # None
      <3>1. PICK r : r = active_context[c]
        OBVIOUS
      <3> QED  BY <1>1, <2>2, <3>1, PopMoves
    <2> QED  BY <2>1, <2>2
  <1>4. Alone'
    BY <1>1, <1>2 DEF RInv, Alone
  <1>5. OwnHeaders'
    <2> SUFFICES ASSUME NEW v \in Worker, pc'[v] # "idle", Of(v)' \notin Concurrent
                 PROVE  OwnHeader(v)'
      BY DEF OwnHeaders
    <2>1. v # w
      BY <1>1
    <2>2. Of(v) # c /\ Of(v) \in Client /\ OwnHeader(v)
      BY <1>0, <1>1, <1>2, <2>1, BusyRequest, OthersAside DEF RInv, OwnHeaders
    <2>3. SameHeader(v)
      BY <1>1, <1>2, <1>3, <2>1, <2>2 DEF SameHeader
    <2> QED  BY <2>2, <2>3, SameOwnHeader
  <1>6. RepliesReachTheirJob'
    BY <1>1 DEF RepliesReachTheirJob
  <1> QED  BY <1>4, <1>5, <1>6 DEF RInv

LEMMA ClearRInv ==
    ASSUME TInv, RInv, NEW c \in Client, ClearAll(c)
    PROVE  RInv'
  <1>1. /\ context_stack' = [context_stack EXCEPT ![c] = <<>>]
        /\ active_context' = [active_context EXCEPT ![c] = None]
        /\ UNCHANGED <<client_obj, sourceJobID, is_newPacketType,
                       last_request_source_job_id, pc, request, extended_msg>>
        /\ sent' = {}
    BY DEF ClearAll, requestVars
  <1>2. \A v \in Worker : Of(v)' = Of(v)
    BY <1>1 DEF Of
  <1>3. \A d \in Client : \/ d = c /\ active_context'[d] = None /\ context_stack'[d] = <<>>
                          \/ /\ active_context'[d] = active_context[d]
                             /\ context_stack'[d] = context_stack[d]
    BY <1>1 DEF TInv, TypeOK
  <1>4. Alone'
    BY <1>1, <1>2 DEF RInv, Alone
  <1>5. OwnHeaders'
    <2> SUFFICES ASSUME NEW v \in Worker, pc[v] # "idle", Of(v) \notin Concurrent
                 PROVE  OwnHeader(v)'
      BY <1>1, <1>2 DEF OwnHeaders
    <2>1. OwnHeader(v) /\ Of(v) \in Client
      BY BusyRequest DEF RInv, OwnHeaders
    <2> QED  BY <1>1, <1>2, <1>3, <2>1 DEF OwnHeader
  <1>6. RepliesReachTheirJob'
    BY <1>1 DEF RepliesReachTheirJob
  <1> QED  BY <1>4, <1>5, <1>6 DEF RInv

\* No step breaks it.
LEMMA NextRInv == TInv /\ CInv /\ DInv /\ RInv /\ [Next]_vars => RInv'
  <1> SUFFICES ASSUME TInv, CInv, DInv, RInv, [Next]_vars PROVE RInv'
    OBVIOUS
  <1>1. ASSUME NEW w \in Worker, NEW c \in Client, Receive(w, c) PROVE RInv'
    BY <1>1, ReceiveRInv
  <1>2. ASSUME NEW w \in Worker, CreateContext(w) PROVE RInv'
    BY <1>2, CreateRInv
  <1>3. ASSUME NEW w \in Worker, CacheJobId(w) PROVE RInv'
    BY <1>3, CacheRInv
  <1>4. ASSUME NEW w \in Worker, Return(w) \/ Raise(w) \/ \E c \in Client : PushTo(w, c)
        PROVE  RInv'
    BY <1>4, HandleRInv
  <1>5. ASSUME NEW w \in Worker, Complete(w) PROVE RInv'
    BY <1>5, EndRInv DEF Complete
  <1>6. ASSUME NEW w \in Worker, Fail(w) PROVE RInv'
    BY <1>6, EndRInv DEF Fail
  <1>7. ASSUME NEW c \in Client, ClearAll(c) PROVE RInv'
    BY <1>7, ClearRInv
  <1>8. CASE UNCHANGED vars
    <2>1. Alone' /\ RepliesReachTheirJob'
      BY <1>8 DEF vars, requestVars, RInv, Alone, Of, RepliesReachTheirJob, Routed
    <2>2. OwnHeaders'
      BY <1>8 DEF vars, requestVars, registryVars, RInv, OwnHeaders, OwnHeader, Of
    <2> QED  BY <2>1, <2>2 DEF RInv
  <1> QED  BY <1>1, <1>2, <1>3, <1>4, <1>5, <1>6, <1>7, <1>8 DEF Next

(* The replies to a client that waits for each before its next request     *)
(* carry the job id of the request and the header of the client's version  *)
(* (RepliesReachTheirJob of JobRegistry), for any other clients and any    *)
(* workers, a disconnect in between included.                              *)
THEOREM RepliesRouted == Spec => []RepliesReachTheirJob
  <1>1. Init => IInv
    BY InitTInv, InitCInv, InitDInv, InitRInv DEF IInv
  <1>2. IInv /\ [Next]_vars => IInv'
    BY NextTInv, NextCInv, NextDInv, NextRInv DEF IInv
  <1>3. IInv => RepliesReachTheirJob
    BY DEF IInv, RInv
  <1> QED  BY <1>1, <1>2, <1>3, PTL DEF Spec
=============================================================================
