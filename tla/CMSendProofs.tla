---------------------------- MODULE CMSendProofs ----------------------------
(***************************************************************************)
(* Theorems about CMSend, for any number of threads, Clients, calls and    *)
(* chunks.                                                                 *)
(*                                                                         *)
(* A packet is numbered into ready[t] and moved from there to the wire;    *)
(* what is true of numbers is stated of the packets in both places.        *)
(***************************************************************************)
EXTENDS CMSend, SequenceTheorems, TLAPS

\* A thread in the middle of a call has a Client, a call and, where its next step
\* takes them, a reply and packets.
BusyThread(t) ==
    /\ pc[t] # "idle" => cli[t] \in Client /\ call[t] \in 1..MaxCall
    /\ pc[t] = "chunk" => todo[t] # <<>> /\ left[t] \in 1..Head(todo[t])
    /\ pc[t] \notin {"chunk", "send"} => ready[t] = <<>>
    /\ pc[t] = "send" => ready[t] # <<>>

Busy == \A t \in Thread : BusyThread(t)

TInv == TypeOK /\ Busy

-----------------------------------------------------------------------------
(* Types.                                                                  *)

\* The types hold at the start.
LEMMA InitTInv == Init => TInv
  BY CMSendAssumption DEF Init, TInv, TypeOK, Busy, BusyThread, Label, Client

\* Appending a packet to those that are ready.
LEMMA AppendTypes ==
    ASSUME NEW S, NEW s \in Seq(S), NEW e \in S
    PROVE  /\ Append(s, e) \in Seq(S)
           /\ Append(s, e) # <<>>
           /\ DOMAIN s = 1..Len(s)
           /\ Len(s) \in Nat
           /\ DOMAIN Append(s, e) = 1..(Len(s) + 1)
           /\ Append(s, e)[Len(s) + 1] = e
           /\ \A i \in 1..Len(s) : Append(s, e)[i] = s[i]
  OBVIOUS

\* Taking the first packet or reply.
LEMMA TailTypes ==
    ASSUME NEW S, NEW s \in Seq(S), s # <<>>
    PROVE  /\ Head(s) \in S
           /\ Head(s) = s[1]
           /\ Tail(s) \in Seq(S)
           /\ DOMAIN s = 1..Len(s)
           /\ Len(s) \in Nat \ {0}
           /\ DOMAIN Tail(s) = 1..(Len(s) - 1)
           /\ Len(s) > 1 => Tail(s) # <<>>
           /\ Len(s) = 1 => Tail(s) = <<>>
           /\ \A i \in 1..(Len(s) - 1) : Tail(s)[i] = s[i + 1]
  <1>1. Len(s) \in Nat \ {0} /\ DOMAIN s = 1..Len(s)
    BY EmptySeq, LenProperties
  <1>2. /\ Head(s) \in S
        /\ Tail(s) \in Seq(S)
        /\ Len(Tail(s)) = Len(s) - 1
        /\ \A i \in 1..Len(Tail(s)) : Tail(s)[i] = s[i + 1]
    BY HeadTailProperties
  <1>3. DOMAIN Tail(s) = 1..(Len(s) - 1)
    BY <1>2, LenProperties
  <1>4. Len(s) > 1 => Tail(s) # <<>>
    <2>1. Len(s) > 1 => Len(Tail(s)) # 0
      BY <1>1, <1>2
    <2>2. Len(<<>>) = 0
      OBVIOUS
    <2> QED  BY <2>1, <2>2, Zenon
  <1>5. Len(s) = 1 => Tail(s) = <<>>
    <2>1. Tail(s) # <<>> => Len(Tail(s)) \in Nat \ {0}
      BY <1>2, EmptySeq
    <2> QED  BY <1>2, <2>1
  <1>6. Head(s) = s[1]
    OBVIOUS
  <1> QED  BY <1>1, <1>2, <1>3, <1>4, <1>5, <1>6

\* The reply that a thread works on.
LEMMA CurrentTypes ==
    ASSUME TInv, NEW t \in Thread, todo[t] # <<>>
    PROVE  /\ Current(t) \in 0..MaxChunk
           /\ Tail(todo[t]) \in Seq(0..MaxChunk)
  BY TailTypes DEF TInv, TypeOK, Current

\* A numbered packet has its type.
LEMMA NumberTypes ==
    ASSUME TInv, NEW t \in Thread, pc[t] # "idle",
           NEW f \in Nat, NEW cnt \in 1..MaxChunk, Number(t, f, cnt)
    PROVE  /\ sequence_number' \in [Client -> Nat]
           /\ ready' \in [Thread -> Seq(Packet)]
           /\ ready'[t] # <<>>
           /\ \A u \in Thread \ {t} : ready'[u] = ready[u]
  <1> DEFINE p == [cli |-> cli[t], seq |-> sequence_number[cli[t]] + 1, first |-> f,
                   cnt |-> cnt, call |-> call[t], batch |-> batch[t]]
  <1>1. p \in Packet
    BY DEF TInv, TypeOK, Busy, BusyThread, Packet
  <1>2. ready' = [ready EXCEPT ![t] = Append(@, p)]
    BY DEF Number
  <1> HIDE DEF p
  <1>3. Append(ready[t], p) \in Seq(Packet) /\ Append(ready[t], p) # <<>>
    <2>1. ready[t] \in Seq(Packet)
      BY DEF TInv, TypeOK
    <2> QED  BY <1>1, <2>1, AppendTypes
  <1>4. sequence_number' \in [Client -> Nat]
    BY SMTT(30) DEF Number, TInv, TypeOK, Busy, BusyThread
  <1> QED  BY <1>2, <1>3, <1>4 DEF TInv, TypeOK

\* A thread that gives its Client's lock back.
LEMMA ReleaseTypes ==
    ASSUME TInv, NEW t \in Thread,
           Release(t) \/ ReleaseUnlessBatch(t) \/ UNCHANGED send_lock
    PROVE  send_lock' \in [Client -> Thread \union {NoThread}]
  BY DEF TInv, TypeOK, Release, ReleaseUnlessBatch

\* A thread that is done.
LEMMA FinishTypes ==
    ASSUME TInv, NEW t \in Thread, Finish(t)
    PROVE  /\ pc' \in [Thread -> Label]
           /\ cli' \in [Thread -> 0..MaxClient]
           /\ call' \in [Thread -> 0..MaxCall]
           /\ batch' \in [Thread -> BOOLEAN]
           /\ pc'[t] = "idle"
           /\ \A u \in Thread \ {t} : /\ pc'[u] = pc[u]
                                      /\ cli'[u] = cli[u]
                                      /\ call'[u] = call[u]
                                      /\ batch'[u] = batch[u]
  BY CMSendAssumption DEF TInv, TypeOK, Finish, Goto, Label

\* A thread that starts on a call.
LEMMA BeginTypes ==
    ASSUME TInv, NEW t \in Thread, NEW c \in Client, NEW b \in BOOLEAN,
           Begin(t, c, b), NEW label \in Label, Goto(t, label)
    PROVE  /\ pc' \in [Thread -> Label]
           /\ cli' \in [Thread -> 0..MaxClient]
           /\ call' \in [Thread -> 0..MaxCall]
           /\ batch' \in [Thread -> BOOLEAN]
           /\ calls' \in 0..MaxCall
           /\ pc[t] = "idle"
           /\ pc'[t] = label
           /\ cli'[t] = c
           /\ call'[t] = calls + 1
           /\ call'[t] \in 1..MaxCall
           /\ batch'[t] = b
           /\ \A u \in Thread \ {t} : /\ pc'[u] = pc[u]
                                      /\ cli'[u] = cli[u]
                                      /\ call'[u] = call[u]
                                      /\ batch'[u] = batch[u]
  <1>1. calls + 1 \in 1..MaxCall
    BY CMSendAssumption DEF TInv, TypeOK, Begin
  <1> QED
    BY <1>1, CMSendAssumption, SMTT(30) DEF TInv, TypeOK, Begin, Goto, Client

\* A step of one thread leaves the others alone.
Others(t) ==
    \A u \in Thread \ {t} : /\ pc'[u] = pc[u]
                            /\ cli'[u] = cli[u]
                            /\ call'[u] = call[u]
                            /\ batch'[u] = batch[u]
                            /\ todo'[u] = todo[u]
                            /\ left'[u] = left[u]
                            /\ first'[u] = first[u]
                            /\ ready'[u] = ready[u]

LEMMA BusyStep ==
    ASSUME TInv, NEW t \in Thread, TypeOK', BusyThread(t)', Others(t)
    PROVE  TInv'
  BY DEF TInv, Busy, BusyThread, Others

\* The endpoint reconnects or is forgotten.
LEMMA EndpointTInv ==
    ASSUME TInv, Reconnect \/ Forget
    PROVE  TInv'
  <1>1. created' \in Client /\ registered' \in {0, created'}
    BY CMSendAssumption DEF Reconnect, Forget, TInv, TypeOK, Client
  <1>2. UNCHANGED <<sequence_number, send_lock, calls, wire, pc, taskVars, replyVars>>
    BY DEF Reconnect, Forget
  <1> QED
    BY <1>1, <1>2 DEF taskVars, replyVars, TInv, TypeOK, Busy, BusyThread

\* A call starts.
LEMMA SendReplyTInv ==
    ASSUME TInv, NEW t \in Thread, SendReply(t)
    PROVE  TInv' /\ Others(t)
  <1>1. PICK c \in 1..created, replies \in ReplyList :
           /\ Begin(t, c, Len(replies) > 1)
           /\ todo' = [todo EXCEPT ![t] = replies]
    BY DEF SendReply
  <1>2. c \in Client /\ replies \in Seq(0..MaxChunk)
    BY CMSendAssumption DEF TInv, TypeOK, Client
  <1> DEFINE b == Len(replies) > 1
  <1>3. b \in BOOLEAN /\ Begin(t, c, b) /\ "check" \in Label /\ Goto(t, "check")
    BY <1>1 DEF SendReply, Label
  <1> HIDE DEF b
  <1>4. todo' \in [Thread -> Seq(0..MaxChunk)]
    BY <1>1, <1>2 DEF TInv, TypeOK
  <1>5. TypeOK'
    <2>1. /\ pc' \in [Thread -> Label]
          /\ cli' \in [Thread -> 0..MaxClient]
          /\ call' \in [Thread -> 0..MaxCall]
          /\ batch' \in [Thread -> BOOLEAN]
          /\ calls' \in 0..MaxCall
      BY <1>2, <1>3, BeginTypes
    <2> QED  BY <1>4, <2>1 DEF SendReply, clientVars, TInv, TypeOK
  <1>6. BusyThread(t)'
    BY <1>2, <1>3, BeginTypes DEF SendReply, TInv, Busy, BusyThread
  <1>7. Others(t)
    <2>1. \A u \in Thread \ {t} : /\ pc'[u] = pc[u]
                                   /\ cli'[u] = cli[u]
                                   /\ call'[u] = call[u]
                                   /\ batch'[u] = batch[u]
      BY <1>2, <1>3, BeginTypes
    <2>2. \A u \in Thread \ {t} : todo'[u] = todo[u]
      BY <1>1 DEF TInv, TypeOK
    <2> QED  BY <2>1, <2>2 DEF SendReply, Others
  <1> QED  BY <1>5, <1>6, <1>7, BusyStep

\* A handshake answer is numbered.
Answered(t, c) ==
    /\ Begin(t, c, FALSE)
    /\ sequence_number' = [sequence_number EXCEPT ![c] = @ + 1]
    /\ ready' = [ready EXCEPT ![t] =
          <<[cli |-> c, seq |-> sequence_number[c] + 1,
             first |-> sequence_number[c] + 1, cnt |-> 1, call |-> calls + 1,
             batch |-> FALSE]>>]

LEMMA AnswerTInv ==
    ASSUME TInv, NEW t \in Thread, AnswerHandshake(t)
    PROVE  TInv' /\ Others(t)
  <1>1. PICK c \in Shaking \intersect 1..created : Answered(t, c)
    BY DEF AnswerHandshake, Answered
  <1> DEFINE p == [cli |-> c, seq |-> sequence_number[c] + 1,
                   first |-> sequence_number[c] + 1, cnt |-> 1, call |-> calls + 1,
                   batch |-> FALSE]
  <1>2. c \in Client /\ FALSE \in BOOLEAN /\ "send" \in Label /\ Goto(t, "send")
    BY CMSendAssumption DEF AnswerHandshake, Label, TInv, TypeOK, Client
  <1>3. Begin(t, c, FALSE)
    BY <1>1 DEF Answered
  <1>4. calls + 1 \in 1..MaxCall
    BY <1>2, <1>3, CMSendAssumption DEF Begin, TInv, TypeOK
  <1>5. p \in Packet
    BY <1>2, <1>4, CMSendAssumption DEF Packet, TInv, TypeOK
  <1>6. ready' = [ready EXCEPT ![t] = <<p>>]
    BY <1>1 DEF Answered
  <1> HIDE DEF p
  <1>7. <<p>> \in Seq(Packet) /\ <<p>> # <<>>
    BY <1>5
  <1>8. ready' \in [Thread -> Seq(Packet)] /\ sequence_number' \in [Client -> Nat]
    <2>1. sequence_number' \in [Client -> Nat]
      BY <1>1, <1>2 DEF TInv, TypeOK, Answered
    <2> QED  BY <1>6, <1>7, <2>1 DEF TInv, TypeOK
  <1>9. TypeOK'
    BY <1>2, <1>3, <1>8, BeginTypes DEF AnswerHandshake, clientVars, TInv, TypeOK
  <1>10. ready'[t] = <<p>>
    BY <1>6 DEF TInv, TypeOK
  <1>11. BusyThread(t)'
    BY <1>2, <1>3, <1>7, <1>10, BeginTypes DEF BusyThread
  <1>12. Others(t)
    <2>1. todo' = todo /\ left' = left /\ first' = first
      BY DEF AnswerHandshake
    <2>2. \A u \in Thread \ {t} : ready'[u] = ready[u]
      BY <1>6 DEF TInv, TypeOK
    <2>3. \A u \in Thread \ {t} : /\ pc'[u] = pc[u]
                                   /\ cli'[u] = cli[u]
                                   /\ call'[u] = call[u]
                                   /\ batch'[u] = batch[u]
      BY <1>2, <1>3, BeginTypes
    <2> QED  BY <2>1, <2>2, <2>3 DEF Others
  <1> QED  BY <1>9, <1>11, <1>12, BusyStep

\* The Client is looked up.
LEMMA CheckTInv ==
    ASSUME TInv, NEW t \in Thread, CheckCurrent(t)
    PROVE  TInv' /\ Others(t)
  <1>1. todo' \in [Thread -> Seq(0..MaxChunk)]
    <2>1. CASE todo' = [todo EXCEPT ![t] = <<>>]
      BY <2>1 DEF TInv, TypeOK
    <2> QED  BY <2>1 DEF CheckCurrent, TInv, TypeOK
  <1>2. CASE registered = cli[t]
    <2>1. TypeOK'
      BY <1>1, <1>2 DEF CheckCurrent, Goto, Label, clientVars, taskVars, TInv, TypeOK
    <2>2. BusyThread(t)' /\ Others(t)
      BY <1>2 DEF CheckCurrent, Goto, taskVars, TInv, TypeOK, Busy, BusyThread, Others
    <2> QED  BY <2>1, <2>2, BusyStep
  <1>3. CASE registered # cli[t]
    <2>1. TypeOK'
      BY <1>1, <1>3, FinishTypes DEF CheckCurrent, clientVars, TInv, TypeOK
    <2>2. BusyThread(t)' /\ Others(t)
      BY <1>3, FinishTypes DEF CheckCurrent, TInv, TypeOK, Busy, BusyThread, Others
    <2> QED  BY <2>1, <2>2, BusyStep
  <1> QED  BY <1>2, <1>3

\* The lock is taken.
LEMMA AcquireTInv ==
    ASSUME TInv, NEW t \in Thread, AcquireLock(t)
    PROVE  TInv' /\ Others(t)
  <1>1. TypeOK'
    BY DEF AcquireLock, Goto, Label, clientVars, taskVars, replyVars, TInv, TypeOK
  <1>2. BusyThread(t)' /\ Others(t)
    BY DEF AcquireLock, Goto, taskVars, replyVars, TInv, TypeOK, Busy, BusyThread, Others
  <1> QED  BY <1>1, <1>2, BusyStep

\* A list is done.
LEMMA EndBatchTInv ==
    ASSUME TInv, NEW t \in Thread, EndBatch(t)
    PROVE  TInv' /\ Others(t)
  <1>1. TypeOK'
    BY FinishTypes, ReleaseTypes DEF EndBatch, clientVars, replyVars, TInv, TypeOK
  <1>2. BusyThread(t)' /\ Others(t)
    BY FinishTypes DEF EndBatch, replyVars, TInv, TypeOK, Busy, BusyThread, Others
  <1> QED  BY <1>1, <1>2, BusyStep

\* A reply is passed over.
LEMMA SkipTInv ==
    ASSUME TInv, NEW t \in Thread, SkipReply(t)
    PROVE  TInv' /\ Others(t)
  <1>1. todo' \in [Thread -> Seq(0..MaxChunk)]
    BY CurrentTypes DEF SkipReply, TInv, TypeOK
  <1>2. CASE batch[t]
    <2>1. TypeOK'
      BY <1>1, <1>2 DEF SkipReply, clientVars, taskVars, TInv, TypeOK
    <2>2. BusyThread(t)' /\ Others(t)
      BY <1>2 DEF SkipReply, taskVars, TInv, TypeOK, Busy, BusyThread, Others
    <2> QED  BY <2>1, <2>2, BusyStep
  <1>3. CASE ~ batch[t]
    <2>1. TypeOK'
      BY <1>1, <1>3, FinishTypes, ReleaseTypes DEF SkipReply, clientVars, TInv, TypeOK
    <2>2. BusyThread(t)' /\ Others(t)
      BY <1>3, FinishTypes DEF SkipReply, TInv, TypeOK, Busy, BusyThread, Others
    <2> QED  BY <2>1, <2>2, BusyStep
  <1> QED  BY <1>2, <1>3

\* A reply is numbered as one packet.
LEMMA SingleTInv ==
    ASSUME TInv, NEW t \in Thread, PrepareSingle(t)
    PROVE  TInv' /\ Others(t)
  <1>1. todo' \in [Thread -> Seq(0..MaxChunk)]
    BY CurrentTypes DEF PrepareSingle, Prepares, TInv, TypeOK
  <1>2. pc[t] = "reply" /\ cli[t] \in Client
    BY DEF PrepareSingle, Prepares, TInv, Busy, BusyThread
  <1>3. sequence_number[cli[t]] + 1 \in Nat /\ 1 \in 1..MaxChunk
    BY <1>2, CMSendAssumption DEF TInv, TypeOK
  <1>4. /\ sequence_number' \in [Client -> Nat]
        /\ ready' \in [Thread -> Seq(Packet)]
        /\ ready'[t] # <<>>
        /\ \A u \in Thread \ {t} : ready'[u] = ready[u]
    BY <1>2, <1>3, NumberTypes DEF PrepareSingle
  <1>5. send_lock' \in [Client -> Thread \union {NoThread}]
    BY ReleaseTypes DEF PrepareSingle
  <1>6. TypeOK'
    BY <1>1, <1>4, <1>5 DEF PrepareSingle, Goto, Label, clientVars, taskVars, TInv, TypeOK
  <1>7. BusyThread(t)'
    BY <1>2, <1>4 DEF PrepareSingle, Goto, taskVars, TInv, TypeOK, Busy, BusyThread
  <1>8. Others(t)
    BY <1>4 DEF PrepareSingle, Goto, taskVars, TInv, TypeOK, Others
  <1> QED  BY <1>6, <1>7, <1>8, BusyStep

\* A reply is to be split.
LEMMA SplitTInv ==
    ASSUME TInv, NEW t \in Thread, PrepareSplit(t)
    PROVE  TInv' /\ Others(t)
  <1>1. /\ pc[t] = "reply"
        /\ cli[t] \in Client
        /\ todo[t] # <<>>
        /\ Current(t) \in 1..MaxChunk
    BY CurrentTypes, CMSendAssumption DEF PrepareSplit, Prepares, TInv, Busy, BusyThread
  <1>2. first' \in [Thread -> Nat] /\ left' \in [Thread -> 0..MaxChunk]
    <2>1. sequence_number[cli[t]] + 1 \in Nat
      BY <1>1 DEF TInv, TypeOK
    <2>2. first' \in [Thread -> Nat]
      BY <2>1 DEF PrepareSplit, TInv, TypeOK
    <2>3. Current(t) \in 0..MaxChunk
      BY <1>1, CMSendAssumption
    <2> QED  BY <2>2, <2>3 DEF PrepareSplit, TInv, TypeOK
  <1>3. TypeOK'
    BY <1>2 DEF PrepareSplit, Goto, Label, clientVars, taskVars, TInv, TypeOK
  <1>4. BusyThread(t)'
    BY <1>1 DEF PrepareSplit, Goto, taskVars, TInv, TypeOK, Busy, BusyThread, Current
  <1>5. Others(t)
    BY DEF PrepareSplit, Goto, taskVars, TInv, TypeOK, Others
  <1> QED  BY <1>3, <1>4, <1>5, BusyStep

\* A chunk is numbered.
LEMMA ChunkTInv ==
    ASSUME TInv, NEW t \in Thread, NumberChunk(t)
    PROVE  TInv' /\ Others(t)
  <1>1. /\ pc[t] = "chunk"
        /\ cli[t] \in Client
        /\ todo[t] # <<>>
        /\ left[t] \in 1..Current(t)
    BY DEF NumberChunk, TInv, Busy, BusyThread, Current
  <1>2. Current(t) \in 1..MaxChunk /\ Tail(todo[t]) \in Seq(0..MaxChunk)
    BY <1>1, CurrentTypes, CMSendAssumption
  <1>3. /\ sequence_number' \in [Client -> Nat]
        /\ ready' \in [Thread -> Seq(Packet)]
        /\ ready'[t] # <<>>
        /\ \A u \in Thread \ {t} : ready'[u] = ready[u]
    BY <1>1, <1>2, NumberTypes DEF NumberChunk, TInv, TypeOK
  <1>4. left' \in [Thread -> 0..MaxChunk] /\ left'[t] = left[t] - 1
    BY <1>1, <1>2, CMSendAssumption, SMTT(30) DEF NumberChunk, TInv, TypeOK
  <1>5. CASE left[t] > 1
    <2>1. UNCHANGED <<todo, pc, send_lock, taskVars>>
      BY <1>5 DEF NumberChunk
    <2>2. TypeOK'
      BY <1>3, <1>4, <2>1 DEF NumberChunk, clientVars, taskVars, TInv, TypeOK
    <2>3. left'[t] \in 1..Head(todo'[t])
      BY <1>1, <1>2, <1>4, <1>5, <2>1 DEF Current
    <2>4. BusyThread(t)'
      BY <1>1, <1>3, <2>1, <2>3 DEF taskVars, TInv, TypeOK, Busy, BusyThread
    <2>5. Others(t)
      BY <1>3, <2>1 DEF NumberChunk, taskVars, TInv, TypeOK, Others
    <2> QED  BY <2>2, <2>4, <2>5, BusyStep
  <1>6. CASE ~ left[t] > 1
    <2>1. todo' = [todo EXCEPT ![t] = Tail(@)] /\ Goto(t, "send") /\ UNCHANGED taskVars
      BY <1>6 DEF NumberChunk
    <2>2. todo' \in [Thread -> Seq(0..MaxChunk)]
      BY <1>2, <2>1 DEF TInv, TypeOK
    <2>3. send_lock' \in [Client -> Thread \union {NoThread}]
      BY <1>6, ReleaseTypes DEF NumberChunk
    <2>4. TypeOK'
      BY <1>3, <1>4, <2>1, <2>2, <2>3
         DEF NumberChunk, Goto, Label, clientVars, taskVars, TInv, TypeOK
    <2>5. BusyThread(t)'
      BY <1>1, <1>3, <2>1 DEF Goto, taskVars, TInv, TypeOK, Busy, BusyThread
    <2>6. Others(t)
      BY <1>3, <2>1 DEF NumberChunk, Goto, taskVars, TInv, TypeOK, Others
    <2> QED  BY <2>4, <2>5, <2>6, BusyStep
  <1> QED  BY <1>5, <1>6

\* A reply cannot be prepared.
LEMMA FailTInv ==
    ASSUME TInv, NEW t \in Thread, FailToPrepare(t)
    PROVE  TInv' /\ Others(t)
  <1>1. todo' \in [Thread -> Seq(0..MaxChunk)] /\ pc[t] = "reply"
    BY DEF FailToPrepare, Prepares, TInv, TypeOK
  <1>2. TypeOK'
    BY <1>1, FinishTypes, ReleaseTypes DEF FailToPrepare, clientVars, TInv, TypeOK
  <1>3. BusyThread(t)' /\ Others(t)
    BY <1>1, FinishTypes DEF FailToPrepare, TInv, TypeOK, Busy, BusyThread, Others
  <1> QED  BY <1>2, <1>3, BusyStep

\* A packet goes to the socket.
LEMMA SendTInv ==
    ASSUME TInv, NEW t \in Thread, SendPacket(t)
    PROVE  TInv' /\ Others(t)
  <1>1. ready[t] # <<>> /\ ready[t] \in Seq(Packet) /\ pc[t] = "send"
    BY DEF SendPacket, TInv, TypeOK, Busy, BusyThread
  <1>2. /\ Head(ready[t]) \in Packet
        /\ Tail(ready[t]) \in Seq(Packet)
        /\ Len(ready[t]) \in Nat \ {0}
        /\ Len(ready[t]) > 1 => Tail(ready[t]) # <<>>
        /\ Len(ready[t]) = 1 => Tail(ready[t]) = <<>>
    BY <1>1, TailTypes
  <1>3. wire' \in Seq(Packet) /\ ready' \in [Thread -> Seq(Packet)]
    BY <1>2, AppendTypes DEF SendPacket, TInv, TypeOK
  <1>4. ready'[t] = Tail(ready[t]) /\ \A u \in Thread \ {t} : ready'[u] = ready[u]
    BY DEF SendPacket, TInv, TypeOK
  <1>5. CASE Len(ready[t]) > 1
    <2>1. TypeOK'
      BY <1>3, <1>5 DEF SendPacket, clientVars, taskVars, TInv, TypeOK
    <2>2. BusyThread(t)' /\ Others(t)
      BY <1>1, <1>2, <1>4, <1>5
         DEF SendPacket, taskVars, TInv, TypeOK, Busy, BusyThread, Others
    <2> QED  BY <2>1, <2>2, BusyStep
  <1>6. CASE Len(ready[t]) = 1 /\ batch[t]
    <2>1. TypeOK'
      BY <1>3, <1>6 DEF SendPacket, Goto, Label, clientVars, taskVars, TInv, TypeOK
    <2>2. BusyThread(t)' /\ Others(t)
      BY <1>1, <1>2, <1>4, <1>6
         DEF SendPacket, Goto, taskVars, TInv, TypeOK, Busy, BusyThread, Others
    <2> QED  BY <2>1, <2>2, BusyStep
  <1>7. CASE Len(ready[t]) = 1 /\ ~ batch[t]
    <2>1. Finish(t)
      BY <1>7 DEF SendPacket
    <2>2. TypeOK'
      BY <1>3, <2>1, FinishTypes DEF SendPacket, clientVars, TInv, TypeOK
    <2>3. BusyThread(t)' /\ Others(t)
      BY <1>2, <1>4, <1>7, <2>1, FinishTypes DEF SendPacket, TInv, TypeOK, BusyThread, Others
    <2> QED  BY <2>2, <2>3, BusyStep
  <1>8. Len(ready[t]) > 1 \/ Len(ready[t]) = 1
    <2>1. \A n \in Nat \ {0} : n > 1 \/ n = 1
      OBVIOUS
    <2> QED  BY <1>2, <2>1
  <1> QED  BY <1>5, <1>6, <1>7, <1>8

\* Every step keeps the types.
LEMMA StepTInv == TInv /\ [Next]_vars => TInv'
  <1> SUFFICES ASSUME TInv, [Next]_vars
               PROVE  TInv'
    OBVIOUS
  <1>1. CASE UNCHANGED vars
    BY <1>1 DEF vars, clientVars, taskVars, replyVars, TInv, TypeOK, Busy, BusyThread
  <1>2. CASE Reconnect \/ Forget
    BY <1>2, EndpointTInv
  <1>3. ASSUME NEW t \in Thread, SendReply(t) \/ AnswerHandshake(t) \/ SendStep(t)
        PROVE  TInv'
    BY <1>3, SendReplyTInv, AnswerTInv, CheckTInv, AcquireTInv, EndBatchTInv, SkipTInv,
       SingleTInv, SplitTInv, ChunkTInv, FailTInv, SendTInv DEF SendStep
  <1> QED  BY <1>1, <1>2, <1>3 DEF Next

\* The variables of CMSend keep their types, for any number of threads and Clients.
THEOREM TypeCorrect == Spec => []TypeOK
  <1>1. TInv => TypeOK
    BY DEF TInv
  <1> QED  BY <1>1, InitTInv, StepTInv, PTL DEF Spec

-----------------------------------------------------------------------------
(* Numbers.                                                                *)

\* The packet is numbered and waits to be sent, or was sent.
InFlight(p) ==
    \/ \E i \in DOMAIN wire : wire[i] = p
    \/ \E t \in Thread : \E i \in DOMAIN ready[t] : ready[t][i] = p

\* The step numbers the packet.
Numbered(t, p) ==
    /\ p \in Packet
    /\ p.seq = sequence_number[p.cli] + 1
    /\ p.cli = cli'[t] /\ p.call = call'[t] /\ p.batch = batch'[t]
    /\ sequence_number' = [sequence_number EXCEPT ![p.cli] = @ + 1]
    /\ ready' = [ready EXCEPT ![t] = Append(@, p)]
    /\ wire' = wire

\* The step numbers nothing and sends nothing.
Silent == UNCHANGED <<sequence_number, ready, wire>>

\* A numbering step takes the next number for a packet of the thread's call.
LEMMA NumberIsNumbered ==
    ASSUME TInv, NEW t \in Thread, pc[t] # "idle",
           NEW f \in Nat, NEW cnt \in 1..MaxChunk, Number(t, f, cnt),
           UNCHANGED <<taskVars, wire>>
    PROVE  \E p : Numbered(t, p) /\ p.first = f /\ p.cnt = cnt
  <1> DEFINE p == [cli |-> cli[t], seq |-> sequence_number[cli[t]] + 1, first |-> f,
                   cnt |-> cnt, call |-> call[t], batch |-> batch[t]]
  <1>1. p \in Packet
    BY DEF TInv, TypeOK, Busy, BusyThread, Packet
  <1>2. /\ ready' = [ready EXCEPT ![t] = Append(@, p)]
        /\ sequence_number' = [sequence_number EXCEPT ![cli[t]] = @ + 1]
    BY DEF Number
  <1>3. /\ p.cli = cli[t] /\ p.seq = sequence_number[cli[t]] + 1
        /\ p.call = call[t] /\ p.batch = batch[t] /\ p.first = f /\ p.cnt = cnt
    OBVIOUS
  <1> HIDE DEF p
  <1> QED  BY <1>1, <1>2, <1>3 DEF Numbered, taskVars

\* So does a handshake answer.
LEMMA AnswerIsNumbered ==
    ASSUME TInv, NEW t \in Thread, AnswerHandshake(t)
    PROVE  \E p : Numbered(t, p) /\ p.cli \in Shaking
  <1>1. PICK c \in Shaking \intersect 1..created : Answered(t, c)
    BY DEF AnswerHandshake, Answered
  <1> DEFINE p == [cli |-> c, seq |-> sequence_number[c] + 1,
                   first |-> sequence_number[c] + 1, cnt |-> 1, call |-> calls + 1,
                   batch |-> FALSE]
  <1>2. c \in Client /\ FALSE \in BOOLEAN /\ "send" \in Label /\ Goto(t, "send")
    BY CMSendAssumption DEF AnswerHandshake, Label, TInv, TypeOK, Client
  <1>3. Begin(t, c, FALSE)
    BY <1>1 DEF Answered
  <1>4. /\ calls + 1 \in 1..MaxCall
        /\ cli'[t] = c /\ call'[t] = calls + 1 /\ batch'[t] = FALSE
        /\ pc[t] = "idle"
    BY <1>2, <1>3, BeginTypes
  <1>5. p \in Packet
    BY <1>2, <1>4, CMSendAssumption DEF Packet, TInv, TypeOK
  <1>6. ready' = [ready EXCEPT ![t] = <<p>>]
    BY <1>1 DEF Answered
  <1>7. p.cli = c /\ p.seq = sequence_number[c] + 1 /\ p.call = calls + 1 /\ p.batch = FALSE
    OBVIOUS
  <1> HIDE DEF p
  <1>8. ready[t] = <<>>
    BY <1>4 DEF TInv, Busy, BusyThread
  <1>9. Append(<<>>, p) = <<p>>
    OBVIOUS
  <1>10. ready' = [ready EXCEPT ![t] = Append(@, p)]
    BY <1>6, <1>8, <1>9
  <1>11. wire' = wire /\ sequence_number' = [sequence_number EXCEPT ![p.cli] = @ + 1]
    BY <1>1, <1>7 DEF AnswerHandshake, Answered
  <1> QED  BY <1>4, <1>5, <1>7, <1>10, <1>11 DEF Numbered

\* A single packet is its own first.
LEMMA SingleIsNumbered ==
    ASSUME TInv, NEW t \in Thread, PrepareSingle(t)
    PROVE  \E p : Numbered(t, p) /\ p.first = p.seq /\ p.cnt = 1
  <1>1. pc[t] = "reply" /\ cli[t] \in Client
    BY DEF PrepareSingle, Prepares, TInv, Busy, BusyThread
  <1>2. sequence_number[cli[t]] + 1 \in Nat /\ 1 \in 1..MaxChunk
    BY <1>1, CMSendAssumption DEF TInv, TypeOK
  <1>3. UNCHANGED <<taskVars, wire>> /\ Number(t, sequence_number[cli[t]] + 1, 1)
    BY DEF PrepareSingle
  <1>4. PICK p : Numbered(t, p) /\ p.first = sequence_number[cli[t]] + 1 /\ p.cnt = 1
    BY <1>1, <1>2, <1>3, NumberIsNumbered
  <1>5. p.first = p.seq
    BY <1>3, <1>4 DEF Numbered, taskVars
  <1> QED  BY <1>4, <1>5

\* A chunk belongs to the current reply.
LEMMA ChunkIsNumbered ==
    ASSUME TInv, NEW t \in Thread, NumberChunk(t)
    PROVE  \E p : Numbered(t, p) /\ p.first = first[t] /\ p.cnt = Current(t)
  <1>1. pc[t] = "chunk" /\ todo[t] # <<>> /\ left[t] \in 1..Current(t)
    BY DEF NumberChunk, TInv, Busy, BusyThread, Current
  <1>2. Current(t) \in 1..MaxChunk
    BY <1>1, CurrentTypes, CMSendAssumption
  <1>3. first[t] \in Nat /\ UNCHANGED <<taskVars, wire>> /\ Number(t, first[t], Current(t))
    BY DEF NumberChunk, TInv, TypeOK
  <1> QED  BY <1>1, <1>2, <1>3, NumberIsNumbered

\* A step numbers one packet, sends one, or does neither.
LEMMA Shapes ==
    ASSUME TInv, [Next]_vars
    PROVE  \/ Silent
           \/ \E t \in Thread : SendPacket(t)
           \/ \E t \in Thread : \E p : Numbered(t, p)
  <1>1. CASE UNCHANGED vars
    BY <1>1 DEF vars, replyVars, Silent
  <1>2. CASE Reconnect \/ Forget
    BY <1>2 DEF Reconnect, Forget, replyVars, Silent
  <1>3. ASSUME NEW t \in Thread, SendReply(t) \/ AnswerHandshake(t) \/ SendStep(t)
        PROVE  Silent \/ SendPacket(t) \/ \E p : Numbered(t, p)
    <2>1. CASE SendReply(t)
      BY <2>1 DEF SendReply, Silent
    <2>2. CASE AnswerHandshake(t)
      BY <2>2, AnswerIsNumbered
    <2>3. CASE PrepareSingle(t)
      BY <2>3, SingleIsNumbered
    <2>4. CASE NumberChunk(t)
      BY <2>4, ChunkIsNumbered
    <2>5. CASE CheckCurrent(t) \/ AcquireLock(t) \/ EndBatch(t) \/ SkipReply(t)
      BY <2>5 DEF CheckCurrent, AcquireLock, EndBatch, SkipReply, replyVars, Silent
    <2>6. CASE PrepareSplit(t) \/ FailToPrepare(t)
      BY <2>6 DEF PrepareSplit, FailToPrepare, Silent
    <2> QED  BY <1>3, <2>1, <2>2, <2>3, <2>4, <2>5, <2>6 DEF SendStep
  <1> QED  BY <1>1, <1>2, <1>3 DEF Next

\* What a numbering step changes.
LEMMA NumberedPlaces ==
    ASSUME TInv, NEW t \in Thread, NEW p, Numbered(t, p)
    PROVE  /\ Len(ready[t]) \in Nat
           /\ DOMAIN ready[t] = 1..Len(ready[t])
           /\ DOMAIN ready'[t] = 1..(Len(ready[t]) + 1)
           /\ ready'[t][Len(ready[t]) + 1] = p
           /\ \A i \in 1..Len(ready[t]) : ready'[t][i] = ready[t][i]
           /\ \A u \in Thread \ {t} : ready'[u] = ready[u]
           /\ \A q : InFlight(q)' <=> InFlight(q) \/ q = p
  <1>1. ready[t] \in Seq(Packet) /\ p \in Packet
    BY DEF TInv, TypeOK, Numbered
  <1>2. ready'[t] = Append(ready[t], p) /\ \A u \in Thread \ {t} : ready'[u] = ready[u]
    BY DEF TInv, TypeOK, Numbered
  <1>3. /\ Len(ready[t]) \in Nat
        /\ DOMAIN ready[t] = 1..Len(ready[t])
        /\ DOMAIN ready'[t] = 1..(Len(ready[t]) + 1)
        /\ ready'[t][Len(ready[t]) + 1] = p
        /\ \A i \in 1..Len(ready[t]) : ready'[t][i] = ready[t][i]
    BY <1>1, <1>2, AppendTypes
  <1>4. wire' = wire
    BY DEF Numbered
  <1>5. ASSUME NEW q
        PROVE  InFlight(q)' <=> InFlight(q) \/ q = p
    <2>1. (\E i \in DOMAIN ready'[t] : ready'[t][i] = q)
             <=> (\E i \in DOMAIN ready[t] : ready[t][i] = q) \/ q = p
      BY SMTT(30), <1>3
    <2> QED  BY <1>2, <1>4, <2>1 DEF InFlight
  <1> QED  BY <1>2, <1>3, <1>5

\* What a sending step changes.
LEMMA SentPlaces ==
    ASSUME TInv, NEW t \in Thread, SendPacket(t)
    PROVE  /\ Len(ready[t]) \in Nat \ {0}
           /\ DOMAIN ready[t] = 1..Len(ready[t])
           /\ DOMAIN ready'[t] = 1..(Len(ready[t]) - 1)
           /\ \A i \in 1..(Len(ready[t]) - 1) : ready'[t][i] = ready[t][i + 1]
           /\ \A u \in Thread \ {t} : ready'[u] = ready[u]
           /\ Len(wire) \in Nat
           /\ DOMAIN wire = 1..Len(wire)
           /\ DOMAIN wire' = 1..(Len(wire) + 1)
           /\ wire'[Len(wire) + 1] = ready[t][1]
           /\ \A i \in 1..Len(wire) : wire'[i] = wire[i]
           /\ \A q : InFlight(q)' <=> InFlight(q)
  <1>1. ready[t] # <<>> /\ ready[t] \in Seq(Packet) /\ wire \in Seq(Packet)
    BY DEF SendPacket, TInv, TypeOK, Busy, BusyThread
  <1>2. ready'[t] = Tail(ready[t]) /\ \A u \in Thread \ {t} : ready'[u] = ready[u]
    BY DEF TInv, TypeOK, SendPacket
  <1>3. /\ Len(ready[t]) \in Nat \ {0}
        /\ DOMAIN ready[t] = 1..Len(ready[t])
        /\ DOMAIN ready'[t] = 1..(Len(ready[t]) - 1)
        /\ \A i \in 1..(Len(ready[t]) - 1) : ready'[t][i] = ready[t][i + 1]
        /\ Head(ready[t]) = ready[t][1]
        /\ ready[t][1] \in Packet
    BY <1>1, <1>2, TailTypes
  <1>4. wire' = Append(wire, ready[t][1])
    BY <1>3 DEF SendPacket
  <1>5. /\ Len(wire) \in Nat
        /\ DOMAIN wire = 1..Len(wire)
        /\ DOMAIN wire' = 1..(Len(wire) + 1)
        /\ wire'[Len(wire) + 1] = ready[t][1]
        /\ \A i \in 1..Len(wire) : wire'[i] = wire[i]
    BY <1>1, <1>3, <1>4, AppendTypes
  <1>6. ASSUME NEW q
        PROVE  InFlight(q)' <=> InFlight(q)
    <2>1. (\E i \in DOMAIN wire' : wire'[i] = q)
             <=> (\E i \in DOMAIN wire : wire[i] = q) \/ q = ready[t][1]
      BY <1>5
    <2>2. (\E i \in DOMAIN ready[t] : ready[t][i] = q)
             <=> (\E i \in DOMAIN ready'[t] : ready'[t][i] = q) \/ q = ready[t][1]
      <3>1. ASSUME NEW i \in DOMAIN ready[t], i # 1
            PROVE  i - 1 \in DOMAIN ready'[t] /\ ready'[t][i - 1] = ready[t][i]
        BY <1>3, <3>1
      <3>2. ASSUME NEW i \in DOMAIN ready'[t]
            PROVE  i + 1 \in DOMAIN ready[t] /\ ready'[t][i] = ready[t][i + 1]
        BY <1>3
      <3>3. 1 \in DOMAIN ready[t]
        BY <1>3
      <3> QED  BY <3>1, <3>2, <3>3
    <2> QED  BY <1>2, <2>1, <2>2 DEF InFlight
  <1> QED  BY <1>2, <1>3, <1>5, <1>6

\* Two packets of one Client with one number.
Same(p, q) == p.cli = q.cli /\ p.seq = q.seq

\* No two packets, in whichever place, have the same number.
Apart ==
    /\ \A i, j \in DOMAIN wire : Same(wire[i], wire[j]) => i = j
    /\ \A t \in Thread : \A i, j \in DOMAIN ready[t] : Same(ready[t][i], ready[t][j]) => i = j
    /\ \A t, u \in Thread : \A i \in DOMAIN ready[t], j \in DOMAIN ready[u] :
          Same(ready[t][i], ready[u][j]) => t = u
    /\ \A t \in Thread : \A i \in DOMAIN ready[t], j \in DOMAIN wire : ~ Same(ready[t][i], wire[j])

\* The packets in flight have the numbers handed out.
HandedOut ==
    /\ \A c \in Client : sequence_number[c] >= 2
    /\ \A p : InFlight(p) => /\ p \in Packet
                             /\ 3 <= p.seq
                             /\ p.seq <= sequence_number[p.cli]

\* No number handed out has no packet.
NoneMissing ==
    \A c \in Client : \A n \in 3..sequence_number[c] :
        \E p : InFlight(p) /\ p.cli = c /\ p.seq = n

NInv == Apart /\ HandedOut /\ NoneMissing

\* There are no packets at the start.
LEMMA InitNInv == Init => NInv
  <1> SUFFICES ASSUME Init
               PROVE  NInv
    OBVIOUS
  <1>1. \A p : ~ InFlight(p)
    BY DEF Init, InFlight
  <1>2. HandedOut /\ NoneMissing
    BY <1>1 DEF Init, HandedOut, NoneMissing
  <1>3. Apart
    BY DEF Init, Apart
  <1> QED  BY <1>2, <1>3 DEF NInv

\* A step that neither numbers nor sends changes nothing.
LEMMA SilentNInv ==
    ASSUME NInv, Silent
    PROVE  NInv'
  <1>1. \A p : InFlight(p)' <=> InFlight(p)
    BY DEF Silent, InFlight
  <1>2. Apart'
    BY DEF Silent, NInv, Apart
  <1>3. HandedOut' /\ NoneMissing'
    BY <1>1 DEF Silent, NInv, HandedOut, NoneMissing
  <1> QED  BY <1>2, <1>3 DEF NInv

\* A packet that is sent keeps its number.
LEMMA SendNInv ==
    ASSUME TInv, NInv, NEW t \in Thread, SendPacket(t)
    PROVE  NInv'
  <1> DEFINE n == Len(ready[t])
             m == Len(wire)
  <1>1. /\ n \in Nat \ {0}
        /\ DOMAIN ready[t] = 1..n
        /\ DOMAIN ready'[t] = 1..(n - 1)
        /\ \A i \in 1..(n - 1) : ready'[t][i] = ready[t][i + 1]
        /\ \A u \in Thread \ {t} : ready'[u] = ready[u]
        /\ m \in Nat
        /\ DOMAIN wire = 1..m
        /\ DOMAIN wire' = 1..(m + 1)
        /\ wire'[m + 1] = ready[t][1]
        /\ \A i \in 1..m : wire'[i] = wire[i]
        /\ \A q : InFlight(q)' <=> InFlight(q)
    BY SentPlaces
  <1> HIDE DEF n, m
  <1>2. sequence_number' = sequence_number
    BY DEF SendPacket
  <1>3. HandedOut' /\ NoneMissing'
    BY <1>1, <1>2 DEF NInv, HandedOut, NoneMissing
  <1>4. ASSUME NEW i \in DOMAIN ready'[t]
        PROVE  i + 1 \in DOMAIN ready[t] /\ ready'[t][i] = ready[t][i + 1] /\ i + 1 # 1
    BY <1>1
  <1>5. 1 \in DOMAIN ready[t]
    BY <1>1
  <1>6. \A i, j \in DOMAIN wire' : Same(wire'[i], wire'[j]) => i = j
    <2> SUFFICES ASSUME NEW i \in DOMAIN wire', NEW j \in DOMAIN wire', Same(wire'[i], wire'[j])
                 PROVE  i = j
      OBVIOUS
    <2>1. CASE i \in 1..m /\ j \in 1..m
      BY <1>1, <2>1 DEF NInv, Apart
    <2>2. CASE i = m + 1 /\ j \in 1..m
      BY <1>1, <1>5, <2>2 DEF NInv, Apart
    <2>3. CASE i \in 1..m /\ j = m + 1
      <3>1. Same(ready[t][1], wire[i])
        BY <1>1, <2>3 DEF Same
      <3> QED  BY <1>1, <1>5, <2>3, <3>1 DEF NInv, Apart
    <2> QED  BY <1>1, <2>1, <2>2, <2>3
  <1>7. \A u \in Thread : \A i, j \in DOMAIN ready'[u] : Same(ready'[u][i], ready'[u][j]) => i = j
    <2>1. \A i, j \in DOMAIN ready'[t] : Same(ready'[t][i], ready'[t][j]) => i + 1 = j + 1
      BY <1>4 DEF NInv, Apart
    <2>2. \A i, j \in DOMAIN ready'[t] : i + 1 = j + 1 => i = j
      BY <1>1
    <2>3. ASSUME NEW u \in Thread \ {t}
          PROVE  \A i, j \in DOMAIN ready'[u] : Same(ready'[u][i], ready'[u][j]) => i = j
      <3>1. ready'[u] = ready[u]
        BY <1>1
      <3> QED  BY <3>1 DEF NInv, Apart
    <2> QED  BY <2>1, <2>2, <2>3
  <1>8. \A u, v \in Thread : \A i \in DOMAIN ready'[u], j \in DOMAIN ready'[v] :
           Same(ready'[u][i], ready'[v][j]) => u = v
    <2>1. \A u \in Thread : \A i \in DOMAIN ready'[u] :
             \E k \in DOMAIN ready[u] : ready'[u][i] = ready[u][k]
      <3>1. ASSUME NEW u \in Thread \ {t}
            PROVE  ready'[u] = ready[u]
        BY <1>1
      <3> QED  BY <1>4, <3>1
    <2> QED  BY <2>1 DEF NInv, Apart
  <1>9. \A u \in Thread : \A i \in DOMAIN ready'[u], j \in DOMAIN wire' :
           ~ Same(ready'[u][i], wire'[j])
    <2> SUFFICES ASSUME NEW u \in Thread, NEW i \in DOMAIN ready'[u], NEW j \in DOMAIN wire',
                        Same(ready'[u][i], wire'[j])
                 PROVE  FALSE
      OBVIOUS
    <2>1. PICK k \in DOMAIN ready[u] : ready'[u][i] = ready[u][k] /\ (u = t => k # 1)
      <3>1. CASE u = t
        BY <1>4, <3>1
      <3>2. CASE u # t
        <4>1. ready'[u] = ready[u]
          BY <1>1, <3>2
        <4> QED  BY <3>2, <4>1
      <3> QED  BY <3>1, <3>2
    <2>2. CASE j \in 1..m
      BY <1>1, <2>1, <2>2 DEF NInv, Apart
    <2>3. CASE j = m + 1
      BY <1>1, <1>5, <2>1, <2>3 DEF NInv, Apart
    <2> QED  BY <1>1, <2>2, <2>3
  <1>10. Apart'
    BY <1>6, <1>7, <1>8, <1>9 DEF Apart
  <1> QED  BY <1>3, <1>10 DEF NInv

\* The next number is one that no packet has.
LEMMA NumberNInv ==
    ASSUME TInv, NInv, NEW t \in Thread, NEW p, Numbered(t, p)
    PROVE  NInv'
  <1> DEFINE n == Len(ready[t])
  <1>1. /\ n \in Nat
        /\ DOMAIN ready[t] = 1..n
        /\ DOMAIN ready'[t] = 1..(n + 1)
        /\ ready'[t][n + 1] = p
        /\ \A i \in 1..n : ready'[t][i] = ready[t][i]
        /\ \A u \in Thread \ {t} : ready'[u] = ready[u]
        /\ \A q : InFlight(q)' <=> InFlight(q) \/ q = p
    BY NumberedPlaces
  <1> HIDE DEF n
  <1>2. /\ p \in Packet /\ p.cli \in Client /\ p.seq \in Nat
        /\ wire' = wire
        /\ p.seq = sequence_number[p.cli] + 1
        /\ \A c \in Client : sequence_number[c] \in Nat
        /\ sequence_number'[p.cli] = p.seq
        /\ \A c \in Client \ {p.cli} : sequence_number'[c] = sequence_number[c]
    BY DEF Numbered, Packet, TInv, TypeOK
  <1>3. ASSUME NEW q, InFlight(q)
        PROVE  ~ Same(p, q) /\ ~ Same(q, p)
    <2>1. q \in Packet /\ q.cli \in Client /\ q.seq \in Nat /\ q.seq <= sequence_number[q.cli]
      BY <1>3 DEF NInv, HandedOut, Packet
    <2> QED  BY <1>2, <2>1 DEF Same
  <1>4. HandedOut'
    <2>1. \A c \in Client : sequence_number'[c] >= 2
      BY <1>2 DEF NInv, HandedOut
    <2>2. ASSUME NEW q, InFlight(q)'
          PROVE  q \in Packet /\ 3 <= q.seq /\ q.seq <= sequence_number'[q.cli]
      <3>1. CASE q = p
        BY <1>2, <3>1 DEF NInv, HandedOut
      <3>2. CASE InFlight(q)
        <4>1. q \in Packet /\ q.cli \in Client /\ q.seq \in Nat /\ 3 <= q.seq
              /\ q.seq <= sequence_number[q.cli]
          BY <3>2 DEF NInv, HandedOut, Packet
        <4> QED  BY <1>2, <4>1
      <3> QED  BY <1>1, <2>2, <3>1, <3>2
    <2> QED  BY <2>1, <2>2 DEF HandedOut
  <1>5. NoneMissing'
    <2> SUFFICES ASSUME NEW c \in Client, NEW k \in 3..sequence_number'[c]
                 PROVE  \E q : InFlight(q)' /\ q.cli = c /\ q.seq = k
      BY DEF NoneMissing
    <2>1. CASE k \in 3..sequence_number[c]
      BY <1>1, <2>1 DEF NInv, NoneMissing
    <2>2. CASE k \notin 3..sequence_number[c]
      <3>1. c = p.cli /\ k = p.seq
        BY <1>2, <2>2
      <3> QED  BY <1>1, <3>1
    <2> QED  BY <2>1, <2>2
  <1>6. \A u \in Thread : \A i \in DOMAIN ready[u] : InFlight(ready[u][i])
    BY DEF InFlight
  <1>7. \A i \in DOMAIN wire : InFlight(wire[i])
    BY DEF InFlight
  <1>8. \A u \in Thread : \A i \in DOMAIN ready'[u] :
           \/ i \in DOMAIN ready[u] /\ ready'[u][i] = ready[u][i]
           \/ u = t /\ i = n + 1 /\ ready'[u][i] = p
    BY <1>1
  <1>9. Apart'
    <2>1. \A i, j \in DOMAIN wire' : Same(wire'[i], wire'[j]) => i = j
      BY <1>2 DEF NInv, Apart
    <2>2. \A u \in Thread : \A i, j \in DOMAIN ready'[u] :
             Same(ready'[u][i], ready'[u][j]) => i = j
      BY <1>3, <1>6, <1>8 DEF NInv, Apart
    <2>3. \A u, v \in Thread : \A i \in DOMAIN ready'[u], j \in DOMAIN ready'[v] :
             Same(ready'[u][i], ready'[v][j]) => u = v
      BY <1>3, <1>6, <1>8 DEF NInv, Apart
    <2>4. \A u \in Thread : \A i \in DOMAIN ready'[u], j \in DOMAIN wire' :
             ~ Same(ready'[u][i], wire'[j])
      BY <1>2, <1>3, <1>7, <1>8 DEF NInv, Apart
    <2> QED  BY <2>1, <2>2, <2>3, <2>4 DEF Apart
  <1> QED  BY <1>4, <1>5, <1>9 DEF NInv

\* Every step keeps them.
LEMMA StepNInv == TInv /\ NInv /\ [Next]_vars => NInv'
  BY Shapes, SilentNInv, SendNInv, NumberNInv

\* No two packets of a connection carry the same sequence number, whoever sends them
\* and whether or not he holds send_lock (get_next_sequence_number).
THEOREM UniqueNumbers == Spec => []NumbersAreUnique
  <1>1. NInv => NumbersAreUnique
    BY DEF NInv, Apart, Same, NumbersAreUnique, Sent
  <1> QED  BY <1>1, InitTInv, StepTInv, InitNInv, StepNInv, PTL DEF Spec

\* When nobody is sending, the numbers on the wire have no gap, whatever failed.
THEOREM NoGaps == Spec => []NoNumberIsLost
  <1>1. TInv /\ NInv => NoNumberIsLost
    <2> SUFFICES ASSUME TInv, NInv, \A t \in Thread : pc[t] = "idle", NEW c \in Client
                 PROVE  {wire[i].seq : i \in Sent(c)} = 3..sequence_number[c]
      BY DEF NoNumberIsLost
    <2>1. \A t \in Thread : ready[t] = <<>>
      BY DEF TInv, Busy, BusyThread
    <2>2. \A p : InFlight(p) <=> \E i \in DOMAIN wire : wire[i] = p
      BY <2>1 DEF InFlight
    <2>3. ASSUME NEW i \in Sent(c)
          PROVE  wire[i].seq \in 3..sequence_number[c]
      <3>1. wire[i].cli = c /\ InFlight(wire[i])
        BY <2>2 DEF Sent
      <3>2. /\ wire[i] \in Packet
            /\ 3 <= wire[i].seq
            /\ wire[i].seq <= sequence_number[c]
        BY <3>1 DEF NInv, HandedOut
      <3>3. wire[i].seq \in Nat /\ sequence_number[c] \in Nat
        BY <3>2 DEF Packet, TInv, TypeOK
      <3> QED  BY <3>2, <3>3
    <2>4. ASSUME NEW n \in 3..sequence_number[c]
          PROVE  \E i \in Sent(c) : wire[i].seq = n
      BY <2>2 DEF Sent, NInv, NoneMissing
    <2> QED  BY <2>3, <2>4
  <1> QED  BY <1>1, InitTInv, StepTInv, InitNInv, StepNInv, PTL DEF Spec

-----------------------------------------------------------------------------
(* The lock.                                                               *)

\* The thread is inside `with send_lock'.
Holds(t) == pc[t] \in {"reply", "chunk"} \/ (pc[t] = "send" /\ batch[t])

Mutex == \A t \in Thread : Holds(t) => send_lock[cli[t]] = t

\* What a thread of a call in progress goes on with.
Continues(t) == cli'[t] = cli[t] /\ call'[t] = call[t] /\ batch'[t] = batch[t]

\* A thread keeps the lock, has just taken it, gives it back or has nothing to do with it.
LockStep(t) ==
    \/ UNCHANGED send_lock /\ (Holds(t)' => Holds(t) /\ Continues(t))
    \/ AcquireLock(t)
    \/ Holds(t) /\ Release(t) /\ ~ Holds(t)'

LEMMA SingleLockStep ==
    ASSUME TInv, NEW t \in Thread, PrepareSingle(t)
    PROVE  LockStep(t)
  <1>1. Holds(t) /\ UNCHANGED taskVars /\ pc'[t] = "send"
    BY DEF PrepareSingle, Prepares, Holds, Goto, TInv, TypeOK
  <1>2. CASE batch[t]
    BY <1>1, <1>2 DEF PrepareSingle, ReleaseUnlessBatch, LockStep, Continues, taskVars
  <1>3. CASE ~ batch[t]
    BY <1>1, <1>3 DEF PrepareSingle, ReleaseUnlessBatch, LockStep, Holds, taskVars
  <1> QED  BY <1>2, <1>3

LEMMA ChunkLockStep ==
    ASSUME TInv, NEW t \in Thread, NumberChunk(t)
    PROVE  LockStep(t)
  <1>1. Holds(t) /\ UNCHANGED taskVars
    BY DEF NumberChunk, Holds
  <1>2. CASE left[t] > 1
    BY <1>1, <1>2 DEF NumberChunk, LockStep, Continues, Holds, taskVars
  <1>3. CASE ~ left[t] > 1 /\ batch[t]
    BY <1>1, <1>3 DEF NumberChunk, ReleaseUnlessBatch, LockStep, Continues, taskVars
  <1>4. CASE ~ left[t] > 1 /\ ~ batch[t]
    <2>1. pc'[t] = "send" /\ ~ batch'[t]
      BY <1>1, <1>4 DEF NumberChunk, Goto, taskVars, TInv, TypeOK
    <2>2. Release(t)
      BY <1>4 DEF NumberChunk, ReleaseUnlessBatch
    <2> QED  BY <1>1, <2>1, <2>2 DEF LockStep, Holds
  <1> QED  BY <1>2, <1>3, <1>4

LEMMA LockSteps ==
    ASSUME TInv, NEW t \in Thread, SendReply(t) \/ AnswerHandshake(t) \/ SendStep(t)
    PROVE  LockStep(t)
  <1>1. CASE SendReply(t)
    <2>1. pc'[t] = "check" /\ UNCHANGED send_lock
      BY <1>1 DEF SendReply, Goto, TInv, TypeOK
    <2> QED  BY <2>1 DEF LockStep, Holds
  <1>2. CASE AnswerHandshake(t)
    <2>1. PICK c \in Shaking \intersect 1..created : Answered(t, c)
      BY <1>2 DEF AnswerHandshake, Answered
    <2>2. pc'[t] = "send" /\ batch'[t] = FALSE /\ UNCHANGED send_lock
      BY <1>2, <2>1 DEF AnswerHandshake, Answered, Begin, Goto, TInv, TypeOK
    <2> QED  BY <2>2 DEF LockStep, Holds
  <1>3. CASE CheckCurrent(t)
    <2>1. UNCHANGED send_lock /\ pc'[t] \in {"lock", "idle"}
      BY <1>3 DEF CheckCurrent, Finish, Goto, TInv, TypeOK
    <2> QED  BY <2>1 DEF LockStep, Holds
  <1>4. CASE AcquireLock(t)
    BY <1>4 DEF LockStep
  <1>5. CASE EndBatch(t) \/ FailToPrepare(t)
    <2>1. Release(t) /\ pc[t] = "reply" /\ pc'[t] = "idle"
      BY <1>5 DEF EndBatch, FailToPrepare, Prepares, Finish, Goto, TInv, TypeOK
    <2> QED  BY <2>1 DEF LockStep, Holds
  <1>6. CASE SkipReply(t)
    <2>1. CASE batch[t]
      BY <1>6, <2>1 DEF SkipReply, LockStep, Holds, Continues, taskVars
    <2>2. CASE ~ batch[t]
      <3>1. Release(t) /\ pc[t] = "reply" /\ pc'[t] = "idle"
        BY <1>6, <2>2 DEF SkipReply, Finish, Goto, TInv, TypeOK
      <3> QED  BY <3>1 DEF LockStep, Holds
    <2> QED  BY <2>1, <2>2
  <1>7. CASE PrepareSplit(t)
    BY <1>7 DEF PrepareSplit, Prepares, LockStep, Holds, Continues, taskVars
  <1>8. CASE SendPacket(t)
    <2>1. CASE Len(ready[t]) > 1
      BY <1>8, <2>1 DEF SendPacket, LockStep, Holds, Continues, taskVars
    <2>2. CASE ~ Len(ready[t]) > 1 /\ batch[t]
      BY <1>8, <2>2 DEF SendPacket, LockStep, Holds, Continues, taskVars
    <2>3. CASE ~ Len(ready[t]) > 1 /\ ~ batch[t]
      <3>1. UNCHANGED send_lock /\ pc'[t] = "idle"
        BY <1>8, <2>3 DEF SendPacket, Finish, Goto, TInv, TypeOK
      <3> QED  BY <3>1 DEF LockStep, Holds
    <2> QED  BY <2>1, <2>2, <2>3
  <1> QED
    BY <1>1, <1>2, <1>3, <1>4, <1>5, <1>6, <1>7, <1>8, SingleLockStep, ChunkLockStep
       DEF SendStep

\* A step of one thread leaves the others' calls alone, and they keep the lock.
LEMMA OtherThreads ==
    ASSUME TInv, NEW t \in Thread, SendReply(t) \/ AnswerHandshake(t) \/ SendStep(t)
    PROVE  Others(t)
  BY SendReplyTInv, AnswerTInv, CheckTInv, AcquireTInv, EndBatchTInv, SkipTInv,
     SingleTInv, SplitTInv, ChunkTInv, FailTInv, SendTInv DEF SendStep

LEMMA MutexStep ==
    ASSUME TInv, Mutex, NEW t \in Thread, Others(t), LockStep(t)
    PROVE  Mutex'
  <1>1. ASSUME NEW u \in Thread \ {t}
        PROVE  /\ Holds(u)' <=> Holds(u)
               /\ cli'[u] = cli[u]
    BY DEF Others, Holds
  <1>2. \A u \in Thread : Holds(u) => cli[u] \in Client
    BY DEF TInv, Busy, BusyThread, Holds
  <1>3. CASE UNCHANGED send_lock /\ (Holds(t)' => Holds(t) /\ Continues(t))
    BY <1>1, <1>3 DEF Mutex, Continues
  <1>4. CASE AcquireLock(t)
    <2>1. /\ cli[t] \in Client
          /\ cli'[t] = cli[t]
          /\ send_lock[cli[t]] = NoThread
          /\ send_lock' = [send_lock EXCEPT ![cli[t]] = t]
      BY <1>4 DEF AcquireLock, taskVars, TInv, Busy, BusyThread
    <2>2. ASSUME NEW u \in Thread \ {t}, Holds(u)
          PROVE  send_lock'[cli[u]] = u
      BY <1>2, <2>1, <2>2, CMSendAssumption DEF Mutex, TInv, TypeOK
    <2>3. send_lock'[cli'[t]] = t
      BY <2>1 DEF TInv, TypeOK
    <2> QED  BY <1>1, <2>2, <2>3 DEF Mutex
  <1>5. CASE Holds(t) /\ Release(t) /\ ~ Holds(t)'
    <2>1. ASSUME NEW u \in Thread \ {t}, Holds(u)
          PROVE  send_lock'[cli[u]] = u
      BY <1>2, <1>5, <2>1 DEF Mutex, Release, TInv, TypeOK
    <2> QED  BY <1>1, <1>5, <2>1 DEF Mutex
  <1> QED  BY <1>3, <1>4, <1>5 DEF LockStep

LEMMA StepMutex == TInv /\ Mutex /\ [Next]_vars => Mutex'
  <1> SUFFICES ASSUME TInv, Mutex, [Next]_vars
               PROVE  Mutex'
    OBVIOUS
  <1>1. CASE UNCHANGED vars \/ Reconnect \/ Forget
    BY <1>1 DEF vars, Reconnect, Forget, taskVars, Mutex, Holds
  <1>2. ASSUME NEW t \in Thread, SendReply(t) \/ AnswerHandshake(t) \/ SendStep(t)
        PROVE  Mutex'
    BY <1>2, LockSteps, OtherThreads, MutexStep
  <1> QED  BY <1>1, <1>2 DEF Next

LEMMA InitMutex == Init => Mutex
  BY DEF Init, Mutex, Holds

\* Two threads that hold the lock of one Client are one.
LEMMA OneHolder ==
    ASSUME Mutex, NEW t \in Thread, NEW u \in Thread, Holds(t), Holds(u), cli[t] = cli[u]
    PROVE  t = u
  BY DEF Mutex

-----------------------------------------------------------------------------
(* Lists of replies.                                                       *)

\* A packet of the thread's call.
Of(t, p) == p.cli = cli[t] /\ p.call = call[t] /\ p.batch = batch[t]

\* Calls are told apart, packets belong to the call they were made for, and a call has
\* no packet on the wire before it has the lock.
Calls ==
    /\ \A t, u \in Thread :
          pc[t] # "idle" /\ pc[u] # "idle" /\ call[t] = call[u] => t = u
    /\ \A t \in Thread : pc[t] # "idle" => call[t] <= calls
    /\ \A i \in DOMAIN wire : wire[i].call <= calls
    /\ \A t \in Thread : \A i \in DOMAIN ready[t] : Of(t, ready[t][i])
    /\ \A t \in Thread : \A i \in DOMAIN wire :
          pc[t] # "idle" /\ wire[i].call = call[t]
             => Of(t, wire[i]) /\ pc[t] \notin {"check", "lock"}

\* A call starts, goes on or ends.
CallStep(t) ==
    \/ /\ pc[t] = "idle"
       /\ calls' = calls + 1
       /\ call'[t] = calls + 1
       /\ wire' = wire
    \/ /\ pc[t] # "idle"
       /\ calls' = calls
       /\ pc'[t] = "idle" \/ Continues(t)
       /\ pc'[t] \in {"check", "lock"} => pc[t] \in {"check", "lock"}
       /\ wire' = wire \/ SendPacket(t)

LEMMA CallSteps ==
    ASSUME TInv, NEW t \in Thread, SendReply(t) \/ AnswerHandshake(t) \/ SendStep(t)
    PROVE  CallStep(t)
  <1>1. CASE SendReply(t)
    <2>1. pc[t] = "idle" /\ calls' = calls + 1 /\ call'[t] = calls + 1 /\ wire' = wire
      BY <1>1 DEF SendReply, Begin, TInv, TypeOK
    <2> QED  BY <2>1 DEF CallStep
  <1>2. CASE AnswerHandshake(t)
    <2>1. pc[t] = "idle" /\ calls' = calls + 1 /\ call'[t] = calls + 1 /\ wire' = wire
      BY <1>2 DEF AnswerHandshake, Begin, TInv, TypeOK
    <2> QED  BY <2>1 DEF CallStep
  <1>3. CASE CheckCurrent(t)
    <2>1. pc[t] = "check" /\ calls' = calls /\ wire' = wire
      BY <1>3 DEF CheckCurrent
    <2>2. pc'[t] = "idle" \/ Continues(t)
      BY <1>3 DEF CheckCurrent, Finish, Goto, taskVars, Continues, TInv, TypeOK
    <2> QED  BY <2>1, <2>2 DEF CallStep
  <1>4. CASE AcquireLock(t)
    <2>1. pc[t] = "lock" /\ calls' = calls /\ wire' = wire /\ Continues(t)
      BY <1>4 DEF AcquireLock, taskVars, Continues
    <2> QED  BY <2>1 DEF CallStep
  <1>5. CASE EndBatch(t) \/ FailToPrepare(t)
    <2>1. pc[t] = "reply" /\ calls' = calls /\ wire' = wire /\ pc'[t] = "idle"
      BY <1>5 DEF EndBatch, FailToPrepare, Prepares, Finish, Goto, TInv, TypeOK
    <2> QED  BY <2>1 DEF CallStep
  <1>6. CASE SkipReply(t)
    <2>1. pc[t] = "reply" /\ calls' = calls /\ wire' = wire
      BY <1>6 DEF SkipReply
    <2>2. pc'[t] = "idle" \/ Continues(t)
      BY <1>6 DEF SkipReply, Finish, Goto, taskVars, Continues, TInv, TypeOK
    <2>3. pc'[t] \in {"idle", "reply"}
      BY <1>6 DEF SkipReply, Finish, Goto, TInv, TypeOK
    <2> QED  BY <2>1, <2>2, <2>3 DEF CallStep
  <1>7. CASE PrepareSingle(t) \/ PrepareSplit(t)
    <2>1. /\ pc[t] = "reply" /\ calls' = calls /\ wire' = wire /\ Continues(t)
          /\ pc'[t] \in {"send", "chunk"}
      BY <1>7 DEF PrepareSingle, PrepareSplit, Prepares, Goto, taskVars, Continues, TInv, TypeOK
    <2> QED  BY <2>1 DEF CallStep
  <1>8. CASE NumberChunk(t)
    <2>1. pc[t] = "chunk" /\ calls' = calls /\ wire' = wire /\ Continues(t)
      BY <1>8 DEF NumberChunk, taskVars, Continues
    <2>2. pc'[t] \in {"send", "chunk"}
      BY <1>8 DEF NumberChunk, Goto, TInv, TypeOK
    <2> QED  BY <2>1, <2>2 DEF CallStep
  <1>9. CASE SendPacket(t)
    <2>1. pc[t] = "send" /\ calls' = calls
      BY <1>9 DEF SendPacket
    <2>2. pc'[t] = "idle" \/ Continues(t)
      BY <1>9 DEF SendPacket, Finish, Goto, taskVars, Continues, TInv, TypeOK
    <2>3. pc'[t] \in {"send", "reply", "idle"}
      BY <1>9 DEF SendPacket, Finish, Goto, TInv, TypeOK
    <2> QED  BY <1>9, <2>1, <2>2, <2>3 DEF CallStep
  <1> QED
    BY <1>1, <1>2, <1>3, <1>4, <1>5, <1>6, <1>7, <1>8, <1>9 DEF SendStep

\* What is ready was ready before or is numbered in the step.
LEMMA ReadyStep ==
    ASSUME TInv, NEW t \in Thread, SendReply(t) \/ AnswerHandshake(t) \/ SendStep(t),
           NEW i \in DOMAIN ready'[t]
    PROVE  \/ \E j \in DOMAIN ready[t] : ready'[t][i] = ready[t][j]
           \/ \E p : ready'[t][i] = p /\ p.cli = cli'[t] /\ p.call = call'[t] /\ p.batch = batch'[t]
  <1>1. CASE Silent
    BY <1>1 DEF Silent
  <1>2. CASE SendPacket(t)
    BY <1>2, SentPlaces
  <1>3. ASSUME NEW p, Numbered(t, p)
        PROVE  \/ \E j \in DOMAIN ready[t] : ready'[t][i] = ready[t][j]
               \/ ready'[t][i] = p
    BY <1>3, NumberedPlaces
  <1>4. Silent \/ SendPacket(t) \/ \E p : Numbered(t, p)
    <2>1. CASE SendReply(t)
      BY <2>1 DEF SendReply, Silent
    <2>2. CASE CheckCurrent(t) \/ AcquireLock(t) \/ EndBatch(t) \/ SkipReply(t)
      BY <2>2 DEF CheckCurrent, AcquireLock, EndBatch, SkipReply, replyVars, Silent
    <2>3. CASE PrepareSplit(t) \/ FailToPrepare(t)
      BY <2>3 DEF PrepareSplit, FailToPrepare, Silent
    <2> QED
      BY <2>1, <2>2, <2>3, AnswerIsNumbered, SingleIsNumbered, ChunkIsNumbered DEF SendStep
  <1> QED  BY <1>1, <1>2, <1>3, <1>4 DEF Numbered

\* What is on the wire was there before or is the first packet that was ready.
LEMMA WireStep ==
    ASSUME TInv, NEW t \in Thread, wire' = wire \/ SendPacket(t), NEW i \in DOMAIN wire'
    PROVE  \/ i \in DOMAIN wire /\ wire'[i] = wire[i]
           \/ /\ SendPacket(t)
              /\ i = Len(wire) + 1
              /\ 1 \in DOMAIN ready[t]
              /\ wire'[i] = ready[t][1]
  BY SentPlaces

LEMMA CallsStep ==
    ASSUME TInv, TInv', Calls, NEW t \in Thread,
           SendReply(t) \/ AnswerHandshake(t) \/ SendStep(t)
    PROVE  Calls'
  <1>1. Others(t) /\ CallStep(t)
    BY OtherThreads, CallSteps
  <1>2. calls \in Nat /\ calls' \in Nat /\ calls <= calls'
    BY <1>1, CMSendAssumption DEF CallStep, TInv, TypeOK
  <1>3. \A u \in Thread : call[u] \in Nat /\ call'[u] \in Nat
    BY CMSendAssumption DEF TInv, TypeOK
  <1>4. \A i \in DOMAIN wire : wire[i].call \in Nat
    <2>1. \A p \in Packet : p.call \in Nat
      BY CMSendAssumption DEF Packet
    <2>2. \A i \in DOMAIN wire : wire[i] \in Packet
      <3>1. wire \in Seq(Packet)
        BY DEF TInv, TypeOK
      <3> QED  BY <3>1, LenProperties
    <2> QED  BY <2>1, <2>2
  <1>5. wire' = wire \/ SendPacket(t)
    BY <1>1 DEF CallStep
  <1>6. ASSUME NEW i \in DOMAIN wire'
        PROVE  \/ i \in DOMAIN wire /\ wire'[i] = wire[i]
               \/ pc[t] # "idle" /\ wire'[i].call = call[t] /\ Of(t, wire'[i]) /\ SendPacket(t)
    <2>1. CASE i \in DOMAIN wire /\ wire'[i] = wire[i]
      BY <2>1
    <2>2. CASE SendPacket(t) /\ 1 \in DOMAIN ready[t] /\ wire'[i] = ready[t][1]
      <3>1. Of(t, wire'[i])
        BY <2>2 DEF Calls
      <3>2. pc[t] = "send"
        BY <2>2 DEF SendPacket
      <3> QED  BY <2>2, <3>1, <3>2 DEF Of
    <2> QED  BY <1>5, <2>1, <2>2, WireStep
  <1>7. CASE /\ pc[t] = "idle"
             /\ calls' = calls + 1
             /\ call'[t] = calls + 1
             /\ wire' = wire
    <2>1. \A u \in Thread \ {t} : pc[u] # "idle" => call[u] # call'[t]
      BY <1>2, <1>3, <1>7 DEF Calls
    <2>2. \A i \in DOMAIN wire : wire[i].call # call'[t]
      BY <1>2, <1>4, <1>7 DEF Calls
    <2>3. \A u, v \in Thread :
             pc'[u] # "idle" /\ pc'[v] # "idle" /\ call'[u] = call'[v] => u = v
      BY <1>1, <2>1 DEF Others, Calls
    <2>4. \A u \in Thread : pc'[u] # "idle" => call'[u] <= calls'
      BY <1>1, <1>2, <1>3, <1>7 DEF Others, Calls
    <2>5. \A i \in DOMAIN wire' : wire'[i].call <= calls'
      BY <1>2, <1>4, <1>7 DEF Calls
    <2>6. \A u \in Thread : \A i \in DOMAIN ready'[u] : Of(u, ready[u][i])'
      <3>1. ASSUME NEW i \in DOMAIN ready'[t]
            PROVE  Of(t, ready[t][i])'
        <4>1. DOMAIN ready[t] = {}
          BY <1>7 DEF TInv, Busy, BusyThread
        <4> QED  BY <4>1, ReadyStep DEF Of
      <3>2. ASSUME NEW u \in Thread \ {t}, NEW i \in DOMAIN ready'[u]
            PROVE  Of(u, ready[u][i])'
        BY <1>1 DEF Others, Calls, Of
      <3> QED  BY <3>1, <3>2
    <2>7. \A u \in Thread : \A i \in DOMAIN wire' :
             pc'[u] # "idle" /\ wire'[i].call = call'[u]
                => Of(u, wire[i])' /\ pc'[u] \notin {"check", "lock"}
      BY <1>1, <1>7, <2>2 DEF Others, Calls, Of
    <2> QED  BY <2>3, <2>4, <2>5, <2>6, <2>7 DEF Calls
  <1>8. CASE /\ pc[t] # "idle"
             /\ calls' = calls
             /\ pc'[t] = "idle" \/ Continues(t)
             /\ pc'[t] \in {"check", "lock"} => pc[t] \in {"check", "lock"}
    <2>1. \A u, v \in Thread :
             pc'[u] # "idle" /\ pc'[v] # "idle" /\ call'[u] = call'[v] => u = v
      BY <1>1, <1>8 DEF Others, Calls, Continues
    <2>2. \A u \in Thread : pc'[u] # "idle" => call'[u] <= calls'
      BY <1>1, <1>8 DEF Others, Calls, Continues
    <2>3. \A i \in DOMAIN wire' : wire'[i].call <= calls'
      BY <1>6, <1>8 DEF Calls
    <2>4. \A u \in Thread : \A i \in DOMAIN ready'[u] : Of(u, ready[u][i])'
      <3>1. ASSUME NEW i \in DOMAIN ready'[t]
            PROVE  Of(t, ready[t][i])'
        <4>1. CASE pc'[t] = "idle"
          BY <4>1 DEF TInv, Busy, BusyThread
        <4>2. CASE Continues(t)
          BY <4>2, ReadyStep DEF Of, Continues, Calls
        <4> QED  BY <1>8, <4>1, <4>2
      <3>2. ASSUME NEW u \in Thread \ {t}, NEW i \in DOMAIN ready'[u]
            PROVE  Of(u, ready[u][i])'
        BY <1>1 DEF Others, Calls, Of
      <3> QED  BY <3>1, <3>2
    <2>5. ASSUME NEW u \in Thread, NEW i \in DOMAIN wire', pc'[u] # "idle",
                 wire'[i].call = call'[u]
          PROVE  Of(u, wire[i])' /\ pc'[u] \notin {"check", "lock"}
      <3>1. /\ pc[u] # "idle" /\ call'[u] = call[u] /\ cli'[u] = cli[u] /\ batch'[u] = batch[u]
            /\ pc'[u] \in {"check", "lock"} => pc[u] \in {"check", "lock"}
        BY <1>1, <1>8, <2>5 DEF Others, Continues
      <3>2. CASE i \in DOMAIN wire /\ wire'[i] = wire[i]
        BY <2>5, <3>1, <3>2 DEF Calls, Of
      <3>3. CASE pc[t] # "idle" /\ wire'[i].call = call[t] /\ Of(t, wire'[i]) /\ SendPacket(t)
        <4>1. u = t
          BY <2>5, <3>1, <3>3 DEF Calls
        <4>2. pc[t] = "send"
          BY <3>3 DEF SendPacket
        <4> QED  BY <3>1, <3>3, <4>1, <4>2 DEF Of
      <3> QED  BY <1>6, <3>2, <3>3
    <2> QED  BY <2>1, <2>2, <2>3, <2>4, <2>5 DEF Calls
  <1> QED  BY <1>1, <1>7, <1>8 DEF CallStep

\* Since a thread with a list has the lock, only its packets were sent of lists.
Own ==
    \A t \in Thread : Holds(t) /\ batch[t] =>
        \A i, j \in Sent(cli[t]) :
            i < j /\ wire[i].call = call[t] /\ wire[j].batch => wire[j].call = call[t]

LInv == Mutex /\ Calls /\ Own /\ ListsDoNotInterleave

LEMMA InitLInv == Init => LInv
  BY InitMutex DEF Init, LInv, Calls, Own, Holds, ListsDoNotInterleave, Sent

\* A thread that has a list has had it, or takes the lock now.
LEMMA HoldsAList ==
    ASSUME TInv, NEW t \in Thread, LockStep(t), Holds(t)', batch'[t]
    PROVE  Continues(t) /\ (Holds(t) \/ pc[t] = "lock")
  BY DEF LockStep, AcquireLock, Continues, taskVars

LEMMA QuietLists ==
    ASSUME TInv, LInv, NEW t \in Thread, Others(t), LockStep(t), wire' = wire
    PROVE  Own' /\ ListsDoNotInterleave'
  <1>1. ListsDoNotInterleave'
    BY DEF LInv, ListsDoNotInterleave, Sent
  <1>2. ASSUME NEW u \in Thread, Holds(u)', batch'[u],
               NEW i \in Sent(cli[u])', NEW j \in Sent(cli[u])',
               i < j, wire'[i].call = call'[u], wire'[j].batch
        PROVE  wire'[j].call = call'[u]
    <2>1. CASE u # t
      <3>1. Holds(u) /\ batch[u] /\ cli'[u] = cli[u] /\ call'[u] = call[u]
        BY <1>2, <2>1 DEF Others, Holds
      <3> QED  BY <1>2, <3>1 DEF LInv, Own, Sent
    <2>2. CASE u = t
      <3>1. Continues(t) /\ (Holds(t) \/ pc[t] = "lock") /\ batch[t]
        BY <1>2, <2>2, HoldsAList DEF Continues
      <3>2. pc[t] # "lock"
        BY <1>2, <2>2, <3>1 DEF LInv, Calls, Continues, Sent
      <3> QED  BY <1>2, <2>2, <3>1, <3>2 DEF LInv, Own, Sent, Continues
    <2> QED  BY <2>1, <2>2
  <1> QED  BY <1>1, <1>2 DEF Own

LEMMA SendLists ==
    ASSUME TInv, LInv, NEW t \in Thread, Others(t), LockStep(t), SendPacket(t)
    PROVE  Own' /\ ListsDoNotInterleave'
  <1> DEFINE m == Len(wire)
  <1>1. /\ m \in Nat
        /\ DOMAIN wire = 1..m
        /\ DOMAIN wire' = 1..(m + 1)
        /\ \A i \in 1..m : wire'[i] = wire[i]
        /\ Of(t, wire'[m + 1])
    <2>1. 1 \in DOMAIN ready[t]
      BY SentPlaces
    <2> QED  BY <2>1, SentPlaces DEF LInv, Calls
  <1> HIDE DEF m
  <1>2. pc[t] = "send"
    BY DEF SendPacket
  <1>3. \A c : Sent(c)' = Sent(c) \cup (IF c = cli[t] THEN {m + 1} ELSE {})
    BY <1>1 DEF Sent, Of
  <1>4. \A c : Sent(c) \subseteq 1..m /\ \A i \in Sent(c) : wire'[i] = wire[i]
    BY <1>1 DEF Sent
  <1>5. \A i \in 1..m : ~ m + 1 < i
    BY <1>1
  <1>6. ASSUME NEW u \in Thread, Holds(u)', batch'[u],
               NEW i \in Sent(cli[u])', NEW j \in Sent(cli[u])',
               i < j, wire'[i].call = call'[u], wire'[j].batch
        PROVE  wire'[j].call = call'[u]
    <2>1. Holds(u) /\ batch[u] /\ cli'[u] = cli[u] /\ call'[u] = call[u]
      BY <1>2, <1>6, HoldsAList DEF Others, Holds, Continues
    <2>2. i \in Sent(cli[u]) /\ (j \in Sent(cli[u]) \/ (j = m + 1 /\ cli[u] = cli[t]))
      BY <1>1, <1>3, <1>4, <1>5, <1>6, <2>1
    <2>3. CASE j \in Sent(cli[u])
      BY <1>4, <1>6, <2>1, <2>2, <2>3 DEF LInv, Own
    <2>4. CASE j = m + 1 /\ cli[u] = cli[t]
      <3>1. batch[t]
        BY <1>1, <1>6, <2>4 DEF Of
      <3>2. u = t
        BY <1>2, <2>1, <2>4, <3>1, OneHolder DEF Holds, LInv
      <3> QED  BY <1>1, <2>1, <2>4, <3>2 DEF Of
    <2> QED  BY <2>2, <2>3, <2>4
  <1>7. ASSUME NEW c \in Client, NEW i \in Sent(c)', NEW j \in Sent(c)', NEW k \in Sent(c)',
               i < j, j < k, wire'[j].batch, wire'[i].call = wire'[k].call, wire'[i].batch
        PROVE  wire'[j].call = wire'[i].call
    <2>1. i \in Sent(c) /\ j \in Sent(c) /\ (k \in Sent(c) \/ (k = m + 1 /\ c = cli[t]))
      BY <1>1, <1>3, <1>4, <1>5, <1>7
    <2>2. CASE k \in Sent(c)
      BY <1>4, <1>7, <2>1, <2>2 DEF LInv, ListsDoNotInterleave
    <2>3. CASE k = m + 1 /\ c = cli[t]
      <3>1. wire[i].call = call[t] /\ i \in DOMAIN wire
        BY <1>1, <1>4, <1>7, <2>1, <2>3 DEF Of
      <3>2. Of(t, wire[i])
        BY <1>2, <3>1 DEF LInv, Calls
      <3>3. batch[t] /\ Holds(t)
        BY <1>2, <1>4, <1>7, <2>1, <3>2 DEF Of, Holds
      <3>4. wire[j].call = call[t]
        BY <1>4, <1>7, <2>1, <2>3, <3>1, <3>3 DEF LInv, Own
      <3> QED  BY <1>4, <2>1, <3>1, <3>4
    <2> QED  BY <2>1, <2>2, <2>3
  <1> QED  BY <1>6, <1>7 DEF Own, ListsDoNotInterleave

LEMMA StepLInv == TInv /\ TInv' /\ LInv /\ [Next]_vars => LInv'
  <1> SUFFICES ASSUME TInv, TInv', LInv, [Next]_vars
               PROVE  LInv'
    OBVIOUS
  <1>1. Mutex'
    BY StepMutex DEF LInv
  <1>2. CASE UNCHANGED vars \/ Reconnect \/ Forget
    <2>1. UNCHANGED <<calls, wire, pc, cli, call, batch, ready>>
      BY <1>2 DEF vars, Reconnect, Forget, taskVars, replyVars
    <2>2. Calls'
      BY <2>1 DEF LInv, Calls, Of
    <2>3. Own' /\ ListsDoNotInterleave'
      BY <2>1 DEF LInv, Own, Holds, ListsDoNotInterleave, Sent
    <2> QED  BY <1>1, <2>2, <2>3 DEF LInv
  <1>3. ASSUME NEW t \in Thread, SendReply(t) \/ AnswerHandshake(t) \/ SendStep(t)
        PROVE  LInv'
    <2>1. Others(t) /\ LockStep(t) /\ CallStep(t)
      BY <1>3, OtherThreads, LockSteps, CallSteps
    <2>2. wire' = wire \/ SendPacket(t)
      BY <2>1 DEF CallStep
    <2>3. Calls'
      BY <1>3, CallsStep DEF LInv
    <2>4. Own' /\ ListsDoNotInterleave'
      BY <2>1, <2>2, QuietLists, SendLists
    <2> QED  BY <1>1, <2>3, <2>4 DEF LInv
  <1> QED  BY <1>2, <1>3 DEF Next

\* Between two packets of one list no packet of another list goes out on the same
\* connection: the lock is held from the first reply to the last (sendReply).
THEOREM ListsStayTogether == Spec => []ListsDoNotInterleave
  <1>1. LInv => ListsDoNotInterleave
    BY DEF LInv
  <1> QED  BY <1>1, InitTInv, StepTInv, InitLInv, StepLInv, PTL DEF Spec

-----------------------------------------------------------------------------
(* Split messages.                                                         *)

\* The number of the last packet of the message that the packet belongs to.
LastOf(p) == p.first + p.cnt - 1

\* A packet of the message that the thread is numbering.
OfCurrent(t, p) == p.first = first[t] /\ p.cnt = Current(t) /\ p.call = call[t]

\* A Client for which nobody bypasses the lock.
Settled(c) == c \notin Shaking

\* The numbers of a message are in its range.
Ranged == \A p : InFlight(p) /\ Settled(p.cli) => p.first <= p.seq /\ p.seq <= LastOf(p)

\* A message whose chunks are being numbered has taken the numbers from first on.
Chunked ==
    \A t \in Thread : pc[t] = "chunk" /\ Settled(cli[t]) =>
        sequence_number[cli[t]] + left[t] = first[t] + Current(t) - 1

\* Meanwhile the other messages end before it; when no message is being numbered they
\* end with the numbers taken.
Older ==
    \A t \in Thread : pc[t] = "chunk" /\ Settled(cli[t]) =>
        \A p : InFlight(p) /\ p.cli = cli[t] => LastOf(p) < first[t] \/ OfCurrent(t, p)

Ended ==
    \A p : InFlight(p) /\ Settled(p.cli) =>
        \/ LastOf(p) <= sequence_number[p.cli]
        \/ \E t \in Thread : pc[t] = "chunk" /\ cli[t] = p.cli

\* The numbers in the range of a message are those of its packets.
OneMessage ==
    \A p, q :
        (InFlight(p) /\ InFlight(q) /\ p.cli = q.cli /\ Settled(p.cli)
            /\ p.first <= q.seq /\ q.seq <= LastOf(p))
        => q.first = p.first /\ q.cnt = p.cnt /\ q.call = p.call

SInv == Ranged /\ Chunked /\ Older /\ Ended /\ OneMessage

LEMMA InitSInv == Init => SInv
  <1> SUFFICES ASSUME Init
               PROVE  SInv
    OBVIOUS
  <1>1. \A p : ~ InFlight(p)
    BY DEF Init, InFlight
  <1>2. Ranged /\ Ended /\ OneMessage
    BY <1>1 DEF Ranged, Ended, OneMessage
  <1>3. Chunked /\ Older
    BY DEF Init, Chunked, Older
  <1> QED  BY <1>2, <1>3 DEF SInv

\* Packets in flight have integers for numbers.
LEMMA PacketNumbers ==
    ASSUME TInv, NInv, NEW p, InFlight(p)
    PROVE  /\ p.cli \in Client /\ p.seq \in Nat /\ p.first \in Nat /\ p.cnt \in Nat \ {0}
           /\ LastOf(p) \in Int
           /\ p.seq <= sequence_number[p.cli]
           /\ sequence_number[p.cli] \in Nat
  <1>1. p \in Packet /\ p.seq <= sequence_number[p.cli]
    BY DEF NInv, HandedOut
  <1>2. p.cli \in Client /\ p.seq \in Nat /\ p.first \in Nat /\ p.cnt \in Nat \ {0}
    BY <1>1, CMSendAssumption DEF Packet
  <1> QED  BY <1>1, <1>2 DEF LastOf, TInv, TypeOK

\* A message is being numbered as before.
SameChunks ==
    \A t \in Thread :
        /\ pc'[t] = "chunk" <=> pc[t] = "chunk"
        /\ pc[t] = "chunk" => /\ cli'[t] = cli[t]
                              /\ call'[t] = call[t]
                              /\ first'[t] = first[t]
                              /\ left'[t] = left[t]
                              /\ todo'[t] = todo[t]

\* A step that numbers nothing and starts on no split message.
LEMMA QuietSInv ==
    ASSUME SInv, SameChunks, sequence_number' = sequence_number,
           \A p : InFlight(p)' <=> InFlight(p)
    PROVE  SInv'
  <1>1. Ranged' /\ OneMessage'
    BY DEF SInv, Ranged, OneMessage
  <1>2. Chunked'
    BY DEF SInv, SameChunks, Chunked, Current
  <1>3. Older'
    BY DEF SInv, SameChunks, Older, OfCurrent, Current
  <1>4. Ended'
    BY DEF SInv, SameChunks, Ended
  <1> QED  BY <1>1, <1>2, <1>3, <1>4 DEF SInv

\* A message is to be split: all others have ended.
LEMMA SplitSInv ==
    ASSUME TInv, TInv', NInv, Mutex, SInv, NEW t \in Thread, PrepareSplit(t)
    PROVE  SInv'
  <1> DEFINE c == cli[t]
             s == sequence_number[c]
  <1>1. /\ Holds(t) /\ c \in Client /\ s \in Nat /\ Current(t) \in Nat
        /\ pc'[t] = "chunk" /\ cli'[t] = c /\ first'[t] = s + 1 /\ left'[t] = Current(t)
        /\ Current(t)' = Current(t)
        /\ sequence_number' = sequence_number
    <2>1. Holds(t) /\ c \in Client /\ todo[t] # <<>>
      BY DEF PrepareSplit, Prepares, Holds, TInv, Busy, BusyThread
    <2>2. Current(t) \in Nat
      BY <2>1, CurrentTypes, CMSendAssumption
    <2>3. s \in Nat
      BY <2>1 DEF TInv, TypeOK
    <2> QED
      BY <2>1, <2>2, <2>3 DEF PrepareSplit, Goto, taskVars, Current, TInv, TypeOK
  <1>2. Others(t)
    BY SplitTInv
  <1>3. \A p : InFlight(p)' <=> InFlight(p)
    BY DEF PrepareSplit, InFlight
  <1>4. ~ \E u \in Thread : pc[u] = "chunk" /\ cli[u] = c
    <2> SUFFICES ASSUME NEW u \in Thread, pc[u] = "chunk", cli[u] = c
                 PROVE  FALSE
      OBVIOUS
    <2>1. u = t
      BY <1>1, OneHolder DEF Holds
    <2> QED  BY <2>1 DEF PrepareSplit, Prepares
  <1> HIDE DEF c, s
  <1>5. Ranged' /\ OneMessage'
    BY <1>3 DEF SInv, Ranged, OneMessage
  <1>6. Chunked'
    <2>1. ASSUME NEW u \in Thread \ {t}, pc'[u] = "chunk", Settled(cli'[u])
          PROVE  sequence_number'[cli'[u]] + left'[u] = first'[u] + Current(u)' - 1
      BY <1>1, <1>2, <2>1 DEF Others, SInv, Chunked, Current
    <2>2. sequence_number'[cli'[t]] + left'[t] = first'[t] + Current(t)' - 1
      BY <1>1 DEF c, s
    <2> QED  BY <2>1, <2>2 DEF Chunked
  <1>7. Older'
    <2>1. ASSUME NEW u \in Thread \ {t}, pc'[u] = "chunk", Settled(cli'[u]),
                 NEW p, InFlight(p), p.cli = cli'[u]
          PROVE  LastOf(p) < first'[u] \/ OfCurrent(u, p)'
      BY <1>2, <2>1 DEF Others, SInv, Older, OfCurrent, Current
    <2>2. ASSUME Settled(c), NEW p, InFlight(p), p.cli = c
          PROVE  LastOf(p) < first'[t]
      <3>1. LastOf(p) <= s
        BY <1>4, <2>2 DEF SInv, Ended, s
      <3>2. LastOf(p) \in Int
        BY <2>2, PacketNumbers
      <3> QED  BY <1>1, <3>1, <3>2
    <2> QED  BY <1>1, <1>3, <2>1, <2>2 DEF Older, LastOf
  <1>8. Ended'
    <2> SUFFICES ASSUME NEW p, InFlight(p), Settled(p.cli)
                 PROVE  \/ LastOf(p) <= sequence_number'[p.cli]
                        \/ \E u \in Thread : pc'[u] = "chunk" /\ cli'[u] = p.cli
      BY <1>3 DEF Ended, LastOf, Settled
    <2>1. CASE p.cli = c
      BY <1>1, <2>1
    <2>2. CASE p.cli # c
      <3>1. ASSUME NEW u \in Thread, pc[u] = "chunk", cli[u] = p.cli
            PROVE  pc'[u] = "chunk" /\ cli'[u] = p.cli
        BY <1>2, <2>2, <3>1 DEF Others, c
      <3> QED  BY <1>1, <3>1 DEF SInv, Ended
    <2> QED  BY <2>1, <2>2
  <1> QED  BY <1>5, <1>6, <1>7, <1>8 DEF SInv

\* A handshake answer is on a Client of which nothing is said.
LEMMA AnswerSInv ==
    ASSUME TInv, NInv, SInv, NEW t \in Thread, AnswerHandshake(t)
    PROVE  SInv'
  <1>1. PICK p : Numbered(t, p) /\ p.cli \in Shaking
    BY AnswerIsNumbered
  <1>2. \A q : InFlight(q)' <=> InFlight(q) \/ q = p
    BY <1>1, NumberedPlaces
  <1>3. \A c \in Client : Settled(c) => sequence_number'[c] = sequence_number[c]
    BY <1>1 DEF Numbered, Settled, TInv, TypeOK
  <1>4. Others(t) /\ pc[t] = "idle" /\ pc'[t] = "send"
    BY AnswerTInv DEF AnswerHandshake, Begin, Goto, TInv, TypeOK
  <1>5. ~ Settled(p.cli)
    BY <1>1 DEF Settled
  <1>6. \A q : InFlight(q) => q.cli \in Client
    BY PacketNumbers
  <1>7. \A u \in Thread : pc[u] = "chunk" => cli[u] \in Client
    BY DEF TInv, Busy, BusyThread
  <1>8. Ranged' /\ OneMessage'
    BY <1>2, <1>5 DEF SInv, Ranged, OneMessage
  <1>9. Chunked'
    BY <1>3, <1>4, <1>7 DEF Others, SInv, Chunked, Current
  <1>10. Older'
    BY <1>2, <1>4, <1>5 DEF Others, SInv, Older, OfCurrent, Current
  <1>11. Ended'
    BY <1>2, <1>3, <1>4, <1>5, <1>6 DEF Others, SInv, Ended
  <1> QED  BY <1>8, <1>9, <1>10, <1>11 DEF SInv

\* Two threads do not number packets of one Client at a time.
LEMMA NumberingAlone ==
    ASSUME Mutex, NEW t \in Thread, pc[t] \in {"reply", "chunk"},
           NEW u \in Thread, pc[u] = "chunk", cli[u] = cli[t]
    PROVE  u = t
  BY OneHolder DEF Holds

\* A single packet is a message of its own, which nobody else's range holds.
LEMMA SingleSInv ==
    ASSUME TInv, NInv, Mutex, SInv, NEW t \in Thread, PrepareSingle(t)
    PROVE  SInv'
  <1>1. PICK p : Numbered(t, p) /\ p.first = p.seq /\ p.cnt = 1
    BY SingleIsNumbered
  <1> DEFINE c == cli[t]
             s == sequence_number[c]
  <1>2. pc[t] = "reply" /\ c \in Client /\ s \in Nat
    BY DEF PrepareSingle, Prepares, TInv, TypeOK, Busy, BusyThread
  <1>3. /\ p.cli = c /\ p.seq = s + 1 /\ p.first = s + 1 /\ LastOf(p) = s + 1
        /\ sequence_number'[c] = s + 1
        /\ \A d \in Client \ {c} : sequence_number'[d] = sequence_number[d]
    <2>1. UNCHANGED taskVars
      BY DEF PrepareSingle
    <2> QED  BY <1>1, <1>2, <2>1 DEF Numbered, LastOf, taskVars, TInv, TypeOK
  <1>4. \A q : InFlight(q)' <=> InFlight(q) \/ q = p
    BY <1>1, NumberedPlaces
  <1>5. Others(t) /\ pc'[t] = "send"
    BY SingleTInv DEF PrepareSingle, Goto, TInv, TypeOK
  <1>6. \A u \in Thread : pc[u] = "chunk" => cli[u] # c /\ cli[u] \in Client /\ u # t
    BY <1>2, NumberingAlone DEF TInv, Busy, BusyThread
  <1> HIDE DEF c, s
  <1>7. ASSUME NEW q, InFlight(q)
        PROVE  /\ q.cli \in Client /\ q.seq \in Nat /\ LastOf(q) \in Int
               /\ q.cli = c => q.seq <= s
               /\ q.cli = c /\ Settled(c) => LastOf(q) <= s
    BY <1>6, <1>7, PacketNumbers DEF SInv, Ended, s
  <1>8. Ranged'
    BY <1>2, <1>3, <1>4 DEF SInv, Ranged, LastOf
  <1>9. OneMessage'
    <2> SUFFICES ASSUME NEW q, NEW r, InFlight(q) \/ q = p, InFlight(r) \/ r = p,
                        q.cli = r.cli, Settled(q.cli), q.first <= r.seq, r.seq <= LastOf(q)
                 PROVE  r.first = q.first /\ r.cnt = q.cnt /\ r.call = q.call
      BY <1>4 DEF OneMessage, LastOf, Settled
    <2>1. CASE InFlight(q) /\ InFlight(r)
      BY <2>1 DEF SInv, OneMessage
    <2>2. CASE InFlight(q) /\ r = p
      BY <1>2, <1>3, <1>7, <2>2
    <2>3. CASE q = p /\ InFlight(r)
      BY <1>2, <1>3, <1>7, <2>3
    <2>4. CASE q = p /\ r = p
      BY <2>4
    <2> QED  BY <2>1, <2>2, <2>3, <2>4
  <1>10. Chunked'
    BY <1>3, <1>5, <1>6 DEF Others, SInv, Chunked, Current
  <1>11. Older'
    <2> SUFFICES ASSUME NEW u \in Thread, pc'[u] = "chunk", Settled(cli'[u]),
                        NEW q, InFlight(q) \/ q = p, q.cli = cli'[u]
                 PROVE  LastOf(q) < first'[u] \/ OfCurrent(u, q)'
      BY <1>4 DEF Older, LastOf
    <2>1. u # t /\ pc[u] = "chunk" /\ cli'[u] = cli[u] /\ cli[u] # c
      BY <1>5, <1>6 DEF Others
    <2> QED  BY <1>3, <1>5, <2>1 DEF Others, SInv, Older, OfCurrent, Current
  <1>12. Ended'
    <2> SUFFICES ASSUME NEW q, InFlight(q) \/ q = p, Settled(q.cli)
                 PROVE  \/ LastOf(q) <= sequence_number'[q.cli]
                        \/ \E u \in Thread : pc'[u] = "chunk" /\ cli'[u] = q.cli
      BY <1>4 DEF Ended, LastOf
    <2>1. CASE q.cli = c
      BY <1>2, <1>3, <1>7, <2>1
    <2>2. CASE q.cli # c
      BY <1>3, <1>5, <1>6, <1>7, <2>2 DEF Others, SInv, Ended
    <2> QED  BY <2>1, <2>2
  <1> QED  BY <1>8, <1>9, <1>10, <1>11, <1>12 DEF SInv

\* A chunk takes the next number of its message's range.
LEMMA ChunkSInv ==
    ASSUME TInv, NInv, Mutex, Calls, SInv, NEW t \in Thread, NumberChunk(t)
    PROVE  SInv'
  <1>1. PICK p : Numbered(t, p) /\ p.first = first[t] /\ p.cnt = Current(t)
    BY ChunkIsNumbered
  <1> DEFINE c == cli[t]
             s == sequence_number[c]
             f == first[t]
             k == Current(t)
             l == left[t]
  <1>2. /\ pc[t] = "chunk" /\ c \in Client /\ s \in Nat /\ f \in Nat
        /\ k \in Nat /\ l \in 1..k
    <2>1. pc[t] = "chunk" /\ c \in Client /\ todo[t] # <<>> /\ l \in 1..k
      BY DEF NumberChunk, TInv, Busy, BusyThread, Current
    <2>2. k \in Nat
      BY <2>1, CurrentTypes, CMSendAssumption
    <2> QED  BY <2>1, <2>2 DEF TInv, TypeOK
  <1>3. /\ p.cli = c /\ p.seq = s + 1 /\ p.first = f /\ p.cnt = k /\ LastOf(p) = f + k - 1
        /\ p.call = call[t]
        /\ sequence_number'[c] = s + 1
        /\ \A d \in Client \ {c} : sequence_number'[d] = sequence_number[d]
    <2>1. UNCHANGED taskVars
      BY DEF NumberChunk
    <2> QED  BY <1>1, <1>2, <2>1 DEF Numbered, LastOf, taskVars, TInv, TypeOK
  <1>4. \A q : InFlight(q)' <=> InFlight(q) \/ q = p
    BY <1>1, NumberedPlaces
  <1>5. Others(t) /\ cli'[t] = c /\ first'[t] = f /\ call'[t] = call[t] /\ left'[t] = l - 1
    BY <1>2, ChunkTInv DEF NumberChunk, taskVars, TInv, TypeOK
  <1>6. IF l > 1 THEN pc'[t] = "chunk" /\ todo'[t] = todo[t] ELSE pc'[t] = "send"
    <2>1. CASE l > 1
      BY <1>2, <2>1 DEF NumberChunk
    <2>2. CASE ~ l > 1
      BY <2>2 DEF NumberChunk, Goto, TInv, TypeOK
    <2> QED  BY <2>1, <2>2
  <1>7. \A u \in Thread \ {t} : pc[u] = "chunk" => cli[u] # c /\ cli[u] \in Client
    BY <1>2, NumberingAlone DEF TInv, Busy, BusyThread
  <1>8. Settled(c) => s + l = f + k - 1
    BY <1>2 DEF SInv, Chunked
  <1>9. ASSUME NEW q, InFlight(q)
        PROVE  /\ q.cli \in Client /\ q.seq \in Nat /\ q.first \in Nat /\ LastOf(q) \in Int
               /\ q.cli = c => q.seq <= s
               /\ q.cli = c /\ Settled(c) =>
                     \/ LastOf(q) < f
                     \/ q.first = f /\ q.cnt = k /\ q.call = call[t] /\ LastOf(q) = f + k - 1
    BY <1>2, <1>9, PacketNumbers DEF SInv, Older, OfCurrent, LastOf
  <1> HIDE DEF c, s, f, k, l
  <1>10. Ranged'
    <2> SUFFICES ASSUME NEW q, InFlight(q) \/ q = p, Settled(q.cli)
                 PROVE  q.first <= q.seq /\ q.seq <= LastOf(q)
      BY <1>4 DEF Ranged, LastOf, Settled
    <2>1. CASE InFlight(q)
      BY <2>1 DEF SInv, Ranged
    <2>2. CASE q = p
      BY <1>2, <1>3, <1>8, <2>2
    <2> QED  BY <2>1, <2>2
  <1>11. OneMessage'
    <2> SUFFICES ASSUME NEW q, NEW r, InFlight(q) \/ q = p, InFlight(r) \/ r = p,
                        q.cli = r.cli, Settled(q.cli), q.first <= r.seq, r.seq <= LastOf(q)
                 PROVE  r.first = q.first /\ r.cnt = q.cnt /\ r.call = q.call
      BY <1>4 DEF OneMessage, LastOf, Settled
    <2>1. CASE InFlight(q) /\ InFlight(r)
      BY <2>1 DEF SInv, OneMessage
    <2>2. CASE InFlight(q) /\ r = p
      <3>1. ~ LastOf(q) < f
        BY <1>2, <1>3, <1>8, <1>9, <2>2
      <3> QED  BY <1>3, <1>9, <2>2, <3>1
    <2>3. CASE q = p /\ InFlight(r)
      <3>1. r.first <= r.seq /\ r.seq <= LastOf(r)
        BY <2>3 DEF SInv, Ranged
      <3>2. ~ LastOf(r) < f
        BY <1>2, <1>3, <1>9, <2>3, <3>1
      <3> QED  BY <1>3, <1>9, <2>3, <3>2
    <2>4. CASE q = p /\ r = p
      BY <2>4
    <2> QED  BY <2>1, <2>2, <2>3, <2>4
  <1>12. Chunked'
    <2>1. ASSUME NEW u \in Thread \ {t}, pc'[u] = "chunk", Settled(cli'[u])
          PROVE  sequence_number'[cli'[u]] + left'[u] = first'[u] + Current(u)' - 1
      BY <1>3, <1>5, <1>7, <2>1 DEF Others, SInv, Chunked, Current
    <2>2. ASSUME pc'[t] = "chunk", Settled(c)
          PROVE  sequence_number'[c] + left'[t] = first'[t] + Current(t)' - 1
      <3>1. Current(t)' = k
        BY <1>6, <2>2 DEF Current, k
      <3>2. sequence_number'[c] + left'[t] = (s + 1) + (l - 1)
        BY <1>3, <1>5
      <3> QED  BY <1>2, <1>5, <1>8, <2>2, <3>1, <3>2
    <2> QED  BY <1>5, <2>1, <2>2 DEF Chunked, Settled
  <1>13. Older'
    <2>1. ASSUME NEW u \in Thread \ {t}, pc'[u] = "chunk", Settled(cli'[u]),
                 NEW q, InFlight(q) \/ q = p, q.cli = cli'[u]
          PROVE  LastOf(q) < first'[u] \/ OfCurrent(u, q)'
      <3>1. pc[u] = "chunk" /\ cli'[u] = cli[u] /\ cli[u] # c
        BY <1>5, <1>7, <2>1 DEF Others
      <3> QED  BY <1>3, <1>5, <2>1, <3>1 DEF Others, SInv, Older, OfCurrent, Current
    <2>2. ASSUME pc'[t] = "chunk", Settled(c), NEW q, InFlight(q) \/ q = p, q.cli = c
          PROVE  LastOf(q) < first'[t] \/ OfCurrent(t, q)'
      <3>1. Current(t)' = k
        BY <1>6, <2>2 DEF Current, k
      <3>2. LastOf(q) < f \/ (q.first = f /\ q.cnt = k /\ q.call = call[t])
        BY <1>3, <1>9, <2>2
      <3> QED  BY <1>5, <3>1, <3>2 DEF OfCurrent
    <2> QED  BY <1>4, <1>5, <2>1, <2>2 DEF Older, LastOf, Settled
  <1>14. Ended'
    <2> SUFFICES ASSUME NEW q, InFlight(q) \/ q = p, Settled(q.cli)
                 PROVE  \/ LastOf(q) <= sequence_number'[q.cli]
                        \/ \E u \in Thread : pc'[u] = "chunk" /\ cli'[u] = q.cli
      BY <1>4 DEF Ended, LastOf, Settled
    <2>1. CASE q.cli = c /\ l > 1
      BY <1>5, <1>6, <2>1
    <2>2. CASE q.cli = c /\ ~ l > 1
      <3>1. s + 1 = f + k - 1
        BY <1>2, <1>8, <2>2
      <3>2. LastOf(q) < f \/ LastOf(q) = f + k - 1
        BY <1>3, <1>9, <2>2
      <3>3. LastOf(q) \in Int
        BY <1>2, <1>3, <1>9
      <3> QED  BY <1>2, <1>3, <2>2, <3>1, <3>2, <3>3
    <2>3. CASE q.cli # c
      <3>1. InFlight(q)
        BY <1>3, <2>3
      <3>2. ASSUME NEW u \in Thread, pc[u] = "chunk", cli[u] = q.cli
            PROVE  pc'[u] = "chunk" /\ cli'[u] = q.cli
        BY <1>5, <2>3, <3>2 DEF Others, c
      <3> QED  BY <1>3, <1>9, <2>3, <3>1, <3>2 DEF SInv, Ended
    <2> QED  BY <2>1, <2>2, <2>3
  <1> QED  BY <1>10, <1>11, <1>12, <1>13, <1>14 DEF SInv

\* No other step touches the packets' numbers or the thread that numbers chunks.
LEMMA OtherSInv ==
    ASSUME TInv, SInv, NEW t \in Thread,
           \/ SendReply(t) \/ CheckCurrent(t) \/ AcquireLock(t) \/ EndBatch(t)
           \/ SkipReply(t) \/ FailToPrepare(t) \/ SendPacket(t)
    PROVE  SInv'
  <1>1. Others(t)
    BY OtherThreads DEF SendStep
  <1>2. pc[t] # "chunk" /\ pc'[t] # "chunk"
    BY DEF SendReply, Begin, CheckCurrent, AcquireLock, EndBatch, SkipReply, FailToPrepare,
           Prepares, SendPacket, Finish, Goto, TInv, TypeOK
  <1>3. SameChunks
    BY <1>1, <1>2 DEF Others, SameChunks
  <1>4. sequence_number' = sequence_number
    BY DEF SendReply, CheckCurrent, AcquireLock, EndBatch, SkipReply, FailToPrepare, SendPacket
  <1>5. \A p : InFlight(p)' <=> InFlight(p)
    <2>1. CASE SendPacket(t)
      BY <2>1, SentPlaces
    <2>2. CASE ~ SendPacket(t)
      <3>1. UNCHANGED <<wire, ready>>
        BY <2>2 DEF SendReply, CheckCurrent, AcquireLock, EndBatch, SkipReply, FailToPrepare,
                    replyVars
      <3> QED  BY <3>1 DEF InFlight
    <2> QED  BY <2>1, <2>2
  <1> QED  BY <1>3, <1>4, <1>5, QuietSInv

LEMMA StepSInv == TInv /\ TInv' /\ NInv /\ LInv /\ SInv /\ [Next]_vars => SInv'
  <1> SUFFICES ASSUME TInv, TInv', NInv, LInv, SInv, [Next]_vars
               PROVE  SInv'
    OBVIOUS
  <1>1. CASE UNCHANGED vars \/ Reconnect \/ Forget
    <2>1. UNCHANGED <<sequence_number, wire, pc, cli, call, todo, left, first, ready>>
      BY <1>1 DEF vars, Reconnect, Forget, taskVars, replyVars
    <2>2. SameChunks /\ \A p : InFlight(p)' <=> InFlight(p)
      BY <2>1 DEF SameChunks, InFlight
    <2> QED  BY <2>1, <2>2, QuietSInv
  <1>2. ASSUME NEW t \in Thread, SendReply(t) \/ AnswerHandshake(t) \/ SendStep(t)
        PROVE  SInv'
    BY <1>2, AnswerSInv, SingleSInv, SplitSInv, ChunkSInv, OtherSInv DEF SendStep, LInv
  <1> QED  BY <1>1, <1>2 DEF Next

\* On a Client whose handshake is over, the numbers from seq_of_first_pkt on belong to
\* the chunks of that message alone, which reassembly relies on: sendReply reads the
\* counter before it takes the numbers, but not without the lock.
THEOREM SplitsStayTogether == Spec => []SplitIsContiguous
  <1>1. TInv /\ NInv /\ SInv => SplitIsContiguous
    <2> SUFFICES ASSUME TInv, NInv, SInv, NEW c \in Client \ Shaking,
                        NEW i \in Sent(c), NEW j \in Sent(c)
                 PROVE  LET p == wire[i]
                            q == wire[j]
                            range == p.first .. (p.first + p.cnt - 1)
                        IN  /\ p.seq \in range
                            /\ q.seq \in range =>
                                  q.first = p.first /\ q.cnt = p.cnt /\ q.call = p.call
      BY DEF SplitIsContiguous
    <2>1. InFlight(wire[i]) /\ InFlight(wire[j]) /\ wire[i].cli = c /\ wire[j].cli = c
      BY DEF InFlight, Sent
    <2>2. Settled(c)
      BY DEF Settled
    <2>3. /\ wire[i].first \in Nat /\ wire[i].seq \in Nat /\ wire[j].seq \in Nat
          /\ wire[i].first + wire[i].cnt - 1 \in Int
      BY <2>1, PacketNumbers DEF LastOf
    <2>4. wire[i].first <= wire[i].seq /\ wire[i].seq <= wire[i].first + wire[i].cnt - 1
      BY <2>1, <2>2 DEF SInv, Ranged, LastOf
    <2>5. wire[i].first <= wire[j].seq /\ wire[j].seq <= wire[i].first + wire[i].cnt - 1
             => /\ wire[j].first = wire[i].first
                /\ wire[j].cnt = wire[i].cnt
                /\ wire[j].call = wire[i].call
      BY <2>1, <2>2 DEF SInv, OneMessage, LastOf
    <2> QED  BY <2>3, <2>4, <2>5
  <1> QED
    BY <1>1, InitTInv, StepTInv, InitNInv, StepNInv, InitLInv, StepLInv, InitSInv, StepSInv,
       PTL DEF Spec
=============================================================================
