---------------------------- MODULE JobRegistry ----------------------------
(***************************************************************************)
(* How a reply finds the job of its request: the per-client registry of    *)
(* job contexts (JobManager/client_job_registry.py, job_context.py), the   *)
(* path of a request through the pool's workers (cmserver_base.py:         *)
(* handle_CMPacket and _run_handler) and the choice of a reply's           *)
(* targetJobID (cm_packet_utils.py: CMResponse).                           *)
(*                                                                         *)
(* Each registry method holds the registry's lock and is one step, as is   *)
(* building a reply; the other steps are the places where another worker   *)
(* may come in between.  A job id is the number of the request that        *)
(* carries it, 0 stands for -1 and None.  cleanup_expired has no caller.   *)
(***************************************************************************)
EXTENDS Naturals, Sequences, FiniteSets

CONSTANTS
    Client,
    Extended,     \* clients whose version sends extended headers, with job ids
    Concurrent,   \* clients with several requests in the workers at once
    Worker,       \* threads of the pool
    MaxRequest,   \* bound: requests received
    StackLength   \* maxlen of _context_stack, 10 in the code

ASSUME JobRegistryAssumption ==
    /\ Client # {}
    /\ Extended \subseteq Client
    /\ Concurrent \subseteq Client
    /\ MaxRequest \in Nat
    /\ StackLength \in Nat \ {0}

Request == 1..MaxRequest
None == 0

VARIABLES
    \* the requests; a request with an extended header has one context
    received,                     \* requests received so far
    client_obj,                   \* the client of each
    sourceJobID,                  \* the request's number, or None
    state,                        \* of its JobContext
    \* the Client objects and their registries
    is_newPacketType,
    last_request_source_job_id,
    active_context,
    context_stack,
    contexts_by_source,           \* by job id, which is the request's number
    \* the workers
    pc,
    request,
    extended_msg,                 \* thread_local_data.extended_msg
    sent                          \* the reply or push built by the last step, if any

requestVars == <<received, client_obj, sourceJobID>>
registryVars == <<active_context, context_stack, contexts_by_source, state>>
vars == <<requestVars, is_newPacketType, last_request_source_job_id, registryVars,
          pc, request, extended_msg, sent>>

Label == {"idle", "create", "cache", "handle", "complete", "fail"}
State == {"none", "created", "completed", "failed"}
Message == [request : Request, to : Client, extended : BOOLEAN,
            targetJobID : Request \union {None}]

Init ==
    /\ received = 0
    /\ client_obj = [r \in Request |-> CHOOSE c \in Client : TRUE]
    /\ sourceJobID = [r \in Request |-> None]
    /\ state = [r \in Request |-> "none"]
    /\ is_newPacketType = [c \in Client |-> FALSE]
    /\ last_request_source_job_id = [c \in Client |-> None]
    /\ active_context = [c \in Client |-> None]
    /\ context_stack = [c \in Client |-> <<>>]
    /\ contexts_by_source = [c \in Client |-> {}]
    /\ pc = [w \in Worker |-> "idle"]
    /\ request = [w \in Worker |-> None]
    /\ extended_msg = [w \in Worker |-> None]
    /\ sent = {}

Goto(w, label) == pc' = [pc EXCEPT ![w] = label]

\* The client of the request a worker handles.
Of(w) == client_obj[request[w]]

\* No request of the client is in a worker.
Quiet(c) == \A w \in Worker : pc[w] # "idle" => Of(w) # c

-----------------------------------------------------------------------------
(* handle_CMPacket.                                                        *)

\* A request arrives; until its header is parsed the client counts as deprecated.
Receive(w, c) ==
    LET r == received + 1
    IN  /\ received < MaxRequest
        /\ pc[w] = "idle"
        /\ c \notin Concurrent => Quiet(c)
        /\ received' = r
        /\ client_obj' = [client_obj EXCEPT ![r] = c]
        /\ \E job \in IF c \in Extended THEN {None, r} ELSE {None} :
              sourceJobID' = [sourceJobID EXCEPT ![r] = job]
        /\ request' = [request EXCEPT ![w] = r]
        /\ is_newPacketType' = [is_newPacketType EXCEPT ![c] = FALSE]
        /\ Goto(w, IF c \in Extended THEN "create" ELSE "handle")
        /\ sent' = {}
        /\ UNCHANGED <<last_request_source_job_id, registryVars, extended_msg>>

\* A full deque drops its oldest element.
Push(stack, r) ==
    LET pushed == Append(stack, r)
    IN  IF Len(pushed) > StackLength THEN Tail(pushed) ELSE pushed

\* Faulty variant: the active context is pushed also when there is none.
CreateContextPushingNone(w) ==
    LET c == Of(w)
        r == request[w]
    IN  /\ pc[w] = "create"
        /\ is_newPacketType' = [is_newPacketType EXCEPT ![c] = TRUE]
        /\ extended_msg' = [extended_msg EXCEPT ![w] = r]
        /\ state' = [state EXCEPT ![r] = "created"]
        /\ context_stack' = [context_stack EXCEPT ![c] = Push(@, active_context[c])]
        /\ active_context' = [active_context EXCEPT ![c] = r]
        /\ contexts_by_source' = [contexts_by_source EXCEPT ![c] =
                                      IF sourceJobID[r] = None THEN @ ELSE @ \union {r}]
        /\ Goto(w, "cache")
        /\ sent' = {}
        /\ UNCHANGED <<requestVars, last_request_source_job_id, request>>

\* create_context
CreateContext(w) ==
    LET c == Of(w)
        r == request[w]
    IN  /\ pc[w] = "create"
        /\ is_newPacketType' = [is_newPacketType EXCEPT ![c] = TRUE]
        /\ extended_msg' = [extended_msg EXCEPT ![w] = r]
        /\ state' = [state EXCEPT ![r] = "created"]
        /\ context_stack' = IF active_context[c] = None THEN context_stack
                            ELSE [context_stack EXCEPT ![c] = Push(@, active_context[c])]
        /\ active_context' = [active_context EXCEPT ![c] = r]
        /\ contexts_by_source' = [contexts_by_source EXCEPT ![c] =
                                      IF sourceJobID[r] = None THEN @ ELSE @ \union {r}]
        /\ Goto(w, "cache")
        /\ sent' = {}
        /\ UNCHANGED <<requestVars, last_request_source_job_id, request>>

\* Faulty variant: a request without a job id leaves the old one in place.
CacheJobIdOnly(w) ==
    /\ pc[w] = "cache"
    /\ last_request_source_job_id' =
          IF sourceJobID[request[w]] = None THEN last_request_source_job_id
          ELSE [last_request_source_job_id EXCEPT ![Of(w)] = sourceJobID[request[w]]]
    /\ Goto(w, "handle")
    /\ sent' = {}
    /\ UNCHANGED <<requestVars, is_newPacketType, registryVars, request, extended_msg>>

CacheJobId(w) ==
    /\ pc[w] = "cache"
    /\ last_request_source_job_id' =
          [last_request_source_job_id EXCEPT ![Of(w)] = sourceJobID[request[w]]]
    /\ Goto(w, "handle")
    /\ sent' = {}
    /\ UNCHANGED <<requestVars, is_newPacketType, registryVars, request, extended_msg>>

-----------------------------------------------------------------------------
(* The handler.                                                            *)

JobOf(r) == IF r = None THEN None ELSE sourceJobID[r]

\* CMResponse: the active context of the receiver, then the header the worker
\* saw last, then the receiver's last request.
TargetJobID(w, c) ==
    LET candidates == <<JobOf(active_context[c]), JobOf(extended_msg[w]),
                        last_request_source_job_id[c]>>
    IN  IF \E i \in 1..3 : candidates[i] # None
        THEN candidates[CHOOSE i \in 1..3 :
                            /\ candidates[i] # None
                            /\ \A j \in 1..(i - 1) : candidates[j] = None]
        ELSE None

CMResponse(w, c) ==
    [request |-> request[w], to |-> c, extended |-> is_newPacketType[c],
     targetJobID |-> IF is_newPacketType[c] THEN TargetJobID(w, c) ELSE None]

\* A message to another client: a chat message, a status update.
PushTo(w, c) ==
    /\ pc[w] = "handle"
    /\ c # Of(w)
    /\ sent' = {CMResponse(w, c)}
    /\ UNCHANGED <<requestVars, is_newPacketType, last_request_source_job_id,
                   registryVars, pc, request, extended_msg>>

\* The handler returns with a reply, or with -1 for none.
Return(w) ==
    /\ pc[w] = "handle"
    /\ \/ sent' = {CMResponse(w, Of(w))}
       \/ sent' = {}
    /\ Goto(w, "complete")
    /\ UNCHANGED <<requestVars, is_newPacketType, last_request_source_job_id,
                   registryVars, request, extended_msg>>

Raise(w) ==
    /\ pc[w] = "handle"
    /\ Goto(w, "fail")
    /\ sent' = {}
    /\ UNCHANGED <<requestVars, is_newPacketType, last_request_source_job_id,
                   registryVars, request, extended_msg>>

-----------------------------------------------------------------------------
(* The end of a request.                                                   *)

\* Faulty variant: the context that becomes active stays on the stack.
PeekContext(c, outcome) ==
    LET r == active_context[c]
        stack == context_stack[c]
    IN  /\ state' = [state EXCEPT ![r] = outcome]
        /\ contexts_by_source' = [contexts_by_source EXCEPT ![c] = @ \ {r}]
        /\ active_context' = [active_context EXCEPT ![c] =
                                  IF stack = <<>> THEN None ELSE stack[Len(stack)]]
        /\ UNCHANGED context_stack

\* Faulty variant: the context stays registered under its job id.
PopKeepingSource(c, outcome) ==
    LET r == active_context[c]
        stack == context_stack[c]
    IN  /\ state' = [state EXCEPT ![r] = outcome]
        /\ UNCHANGED contexts_by_source
        /\ IF stack = <<>>
           THEN /\ active_context' = [active_context EXCEPT ![c] = None]
                /\ UNCHANGED context_stack
           ELSE /\ active_context' = [active_context EXCEPT ![c] = stack[Len(stack)]]
                /\ context_stack' = [context_stack EXCEPT ![c] =
                                         SubSeq(stack, 1, Len(stack) - 1)]

\* The active context ends and the last one on the stack becomes active again.
PopContext(c, outcome) ==
    LET r == active_context[c]
        stack == context_stack[c]
    IN  /\ state' = [state EXCEPT ![r] = outcome]
        /\ contexts_by_source' = [contexts_by_source EXCEPT ![c] = @ \ {r}]
        /\ IF stack = <<>>
           THEN /\ active_context' = [active_context EXCEPT ![c] = None]
                /\ UNCHANGED context_stack
           ELSE /\ active_context' = [active_context EXCEPT ![c] = stack[Len(stack)]]
                /\ context_stack' = [context_stack EXCEPT ![c] =
                                         SubSeq(stack, 1, Len(stack) - 1)]

\* complete_context and fail_context without an argument: whatever is active.
End(w, outcome) ==
    /\ IF active_context[Of(w)] = None THEN UNCHANGED registryVars
       ELSE PopContext(Of(w), outcome)
    /\ Goto(w, "idle")
    /\ request' = [request EXCEPT ![w] = None]
    /\ sent' = {}
    /\ UNCHANGED <<requestVars, is_newPacketType, last_request_source_job_id,
                   extended_msg>>

Complete(w) == pc[w] = "complete" /\ End(w, "completed")

Fail(w) == pc[w] = "fail" /\ End(w, "failed")

\* clear_all, by logoff_User: on request, on disconnect or by the stale sweep.
ClearAll(c) ==
    /\ active_context[c] # None
    /\ state' = [r \in Request |->
                    IF r \in contexts_by_source[c] \union {active_context[c]}
                    THEN "failed" ELSE state[r]]
    /\ contexts_by_source' = [contexts_by_source EXCEPT ![c] = {}]
    /\ context_stack' = [context_stack EXCEPT ![c] = <<>>]
    /\ active_context' = [active_context EXCEPT ![c] = None]
    /\ sent' = {}
    /\ UNCHANGED <<requestVars, is_newPacketType, last_request_source_job_id, pc,
                   request, extended_msg>>

Next ==
    \/ \E w \in Worker :
          \/ \E c \in Client : Receive(w, c) \/ PushTo(w, c)
          \/ CreateContext(w)
          \/ CacheJobId(w)
          \/ Return(w)
          \/ Raise(w)
          \/ Complete(w)
          \/ Fail(w)
    \/ \E c \in Client : ClearAll(c)

Spec == Init /\ [][Next]_vars

-----------------------------------------------------------------------------
(* Properties.                                                             *)

TypeOK ==
    /\ received \in 0..MaxRequest
    /\ client_obj \in [Request -> Client]
    /\ sourceJobID \in [Request -> Request \union {None}]
    /\ \A r \in Request : sourceJobID[r] \in {None, r}
    /\ state \in [Request -> State]
    /\ is_newPacketType \in [Client -> BOOLEAN]
    /\ last_request_source_job_id \in [Client -> Request \union {None}]
    /\ active_context \in [Client -> Request \union {None}]
    /\ context_stack \in [Client -> Seq(Request)]
    /\ \A c \in Client : Len(context_stack[c]) <= StackLength
    /\ contexts_by_source \in [Client -> SUBSET Request]
    /\ pc \in [Worker -> Label]
    /\ request \in [Worker -> Request \union {None}]
    /\ extended_msg \in [Worker -> Request \union {None}]
    /\ sent \subseteq Message

\* Every context of the client that the registry may still make active.
Stacked(c) == {context_stack[c][i] : i \in DOMAIN context_stack[c]}

(* A context has one place: it is the active one or once on the stack, in   *)
(* the registry of its client and not at its end yet.  (complete_context,   *)
(* fail_context and create_context on the same registry, in any order.)     *)
ContextsHaveOnePlace ==
    \A c \in Client :
        /\ Cardinality(Stacked(c)) = Len(context_stack[c])
        /\ active_context[c] \notin Stacked(c)
        /\ \A r \in Stacked(c) \union ({active_context[c]} \ {None}) :
              client_obj[r] = c /\ state[r] = "created"

(* A registry whose client has no request in a worker is empty: no order of *)
(* completions, failures and disconnects leaves a context behind that would *)
(* route a later message, or that is never released.  Of a client that has  *)
(* had more requests than the stack can take only this is claimed: what is  *)
(* left are contexts the full stack dropped, which stay filed under their   *)
(* job ids until the client disconnects.                                    *)
RegistryDrains ==
    \A c \in Client : Quiet(c) =>
        /\ active_context[c] = None
        /\ context_stack[c] = <<>>
        /\ IF Cardinality({r \in 1..received : client_obj[r] = c}) <= StackLength + 1
           THEN contexts_by_source[c] = {}
           ELSE \A r \in contexts_by_source[c] : state[r] = "created"

\* A reply has the job id of its request, or none if the request had none, and
\* the header of the client's version.
Routed(m) ==
    LET c == client_obj[m.request]
    IN  m.to = c => /\ m.targetJobID = sourceJobID[m.request]
                    /\ m.extended = (c \in Extended)

(* The replies to a client that waits for each before its next request      *)
(* reach their job, whatever the workers do for other clients meanwhile and *)
(* although thread_local_data and the Client keep the last request's header *)
(* (the fallbacks of CMResponse).                                           *)
RepliesReachTheirJob == \A m \in sent : client_obj[m.request] \notin Concurrent => Routed(m)

(* A claim of the code's comments that does not hold.                       *)

(* CMResponse: "When a client sends a request with sourceJobID=X, our       *)
(* response MUST have targetJobID=X"; the registry: "correct behavior even  *)
(* with concurrent handlers".                                               *)
AllRepliesReachTheirJob == \A m \in sent : Routed(m)
=============================================================================
