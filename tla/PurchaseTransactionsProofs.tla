--------------------- MODULE PurchaseTransactionsProofs ---------------------
(***************************************************************************)
(* Theorems about PurchaseTransactions, for any number of workers and      *)
(* transactions.                                                           *)
(*                                                                         *)
(* What a worker reads may be old, but only ever too little: the rows are  *)
(* never taken back, so every view is a part of them (ViewsArePartial),    *)
(* which is why a refusal is true.  A worker does not decide twice because *)
(* what it settled is in every view it opened since (SettledIsSeen).       *)
(***************************************************************************)
EXTENDS PurchaseTransactions, FiniteSetTheorems, TLAPS

\* A handler that is not at rest names a transaction.
Busy == \A w \in Worker : pc[w] # "idle" => task[w] \in Transaction

TInv == TypeOK /\ IsFiniteSet(db.licences) /\ Busy

Part(view) ==
    /\ view.made \subseteq db.made
    /\ view.completed \subseteq db.completed
    /\ view.cancelled \subseteq db.cancelled
    /\ view.licences \subseteq db.licences

ViewsArePartial == \A w \in Worker : snap[w] \in Database => Part(snap[w])

SettledIsDone == \A w \in Worker : settled[w] \subseteq db.completed \cup db.cancelled

SettledIsSeen ==
    \A w \in Worker :
        snap[w] \in Database => settled[w] \subseteq snap[w].completed \cup snap[w].cancelled

VInv == ViewsArePartial /\ SettledIsDone /\ SettledIsSeen

IInv == TInv /\ VInv /\ OneOutcomePerWorker /\ CompletedIsGranted /\ RefusalsAreTrue

-----------------------------------------------------------------------------
(* Types.                                                                  *)

\* The types hold at the start.
LEMMA InitTInv == Init => TInv
  <1> SUFFICES ASSUME Init PROVE TInv
    OBVIOUS
  <1>1. IsFiniteSet(db.licences)
    BY FS_EmptySet DEF Init, Empty
  <1>2. QED
    BY <1>1 DEF Init, Empty, TInv, TypeOK, Busy, Database, Label

\* A view that is not closed or lost is a database.
LEMMA ViewType ==
    ASSUME TypeOK, NEW w \in Worker
    PROVE  /\ View(w) \in Database \cup {Lost}
           /\ View(w) # Lost => View(w) \in Database
  BY SessionAssumption DEF TypeOK, View

\* A query and the end of a transaction leave a session with a type.
LEMMA SessionTypes ==
    ASSUME TypeOK, NEW w \in Worker, ReadBy(w) \/ EndOf(w)
    PROVE  snap' \in [Worker -> Database \cup {Closed, Lost}]
  BY ViewType DEF TypeOK, ReadBy, EndOf

\* The handler goes on with its transaction.
LEMMA ProceedTypes ==
    ASSUME TInv, NEW w \in Worker, NEW t \in Transaction, NEW label \in Label,
           Proceed(w, t, label)
    PROVE  /\ pc' \in [Worker -> Label]
           /\ task' \in [Worker -> Transaction \cup {NoTask}]
           /\ Busy'
  BY DEF Proceed, Goto, TInv, TypeOK, Busy

\* The handler is done.
LEMMA FinishTypes ==
    ASSUME TInv, NEW w \in Worker, Finish(w)
    PROVE  /\ pc' \in [Worker -> Label]
           /\ task' \in [Worker -> Transaction \cup {NoTask}]
           /\ Busy'
  BY DEF Finish, Proceed, Goto, TInv, TypeOK, Busy, Label

\* The request is refused.
LEMMA RefuseTypes ==
    ASSUME TInv, NEW w \in Worker, NEW t \in Transaction, NEW why, Refuse(w, t, why)
    PROVE  /\ pc' \in [Worker -> Label]
           /\ task' \in [Worker -> Transaction \cup {NoTask}]
           /\ Busy'
  <1>1. CASE why \in Outcome
    BY <1>1, ProceedTypes DEF Refuse, Label
  <1>2. CASE why \notin Outcome
    BY <1>2, FinishTypes DEF Refuse
  <1>3. QED
    BY <1>1, <1>2

\* A new licence gets a number within the bound.
LEMMA LicenceType ==
    ASSUME TInv, NEW t \in Transaction, NEW cause \in {"purchase", "key"},
           Cardinality(db.licences) < MaxLicence
    PROVE  NewLicence(t, cause) \in Licence
  <1>1. Cardinality(db.licences) \in Nat
    BY FS_CardinalityType DEF TInv
  <1>2. QED
    BY <1>1, PurchaseAssumption DEF NewLicence, Licence

\* Licences stay finitely many.
LEMMA FiniteLicences ==
    ASSUME TInv, NEW S, NEW l, S \subseteq {l}
    PROVE  IsFiniteSet(db.licences \cup S)
  <1>1. CASE S = {}
    BY <1>1 DEF TInv
  <1>2. CASE S = {l}
    BY <1>2, FS_AddElement DEF TInv
  <1>3. QED
    BY <1>1, <1>2

\* The requests: they read, and start a handler or refuse.
LEMMA RequestTypes ==
    ASSUME TInv, NEW w \in Worker, NEW t \in Transaction, Request(w, t)
    PROVE  TInv'
  <1>1. CASE InitPurchase(w, t)
    <2>1. /\ pc' \in [Worker -> Label]
          /\ task' \in [Worker -> Transaction \cup {NoTask}]
          /\ Busy'
      <3>1. Refuse(w, t, "owned") \/ Proceed(w, t, "creating")
        BY <1>1 DEF InitPurchase
      <3>2. "creating" \in Label
        BY DEF Label
      <3>3. QED
        BY <3>1, <3>2, RefuseTypes, ProceedTypes
    <2>2. QED
      BY <1>1, <2>1, SessionTypes DEF InitPurchase, TInv, TypeOK
  <1>2. ASSUME NEW next \in {"completing", "cancelling"}, Validate(w, t, next)
        PROVE  TInv'
    <2>1. next \in Label
      BY DEF Label
    <2>2. Proceed(w, t, next) \/ Refuse(w, t, Verdict(w, t))
      BY <1>2 DEF Validate
    <2>3. /\ pc' \in [Worker -> Label]
          /\ task' \in [Worker -> Transaction \cup {NoTask}]
          /\ Busy'
      BY <2>1, <2>2, RefuseTypes, ProceedTypes
    <2>4. QED
      BY <1>2, <2>3, SessionTypes DEF Validate, TInv, TypeOK
  <1>3. CASE CancelLicense(w, t)
    <2>1. Proceed(w, t, "cancelling") \/ Finish(w)
      BY <1>3 DEF CancelLicense
    <2>2. "cancelling" \in Label
      BY DEF Label
    <2>3. /\ pc' \in [Worker -> Label]
          /\ task' \in [Worker -> Transaction \cup {NoTask}]
          /\ Busy'
      BY <2>1, <2>2, FinishTypes, ProceedTypes
    <2>4. QED
      BY <1>3, <2>3, SessionTypes DEF CancelLicense, TInv, TypeOK
  <1>4. CASE AckPurchaseReceipt(w, t)
    <2>1. /\ Proceed(w, t, "listing")
          /\ ReadBy(w) \/ EndOf(w)
      BY <1>4 DEF AckPurchaseReceipt
    <2>2. "listing" \in Label
      BY DEF Label
    <2>3. /\ pc' \in [Worker -> Label]
          /\ task' \in [Worker -> Transaction \cup {NoTask}]
          /\ Busy'
      BY <2>1, <2>2, ProceedTypes
    <2>4. QED
      BY <1>4, <2>1, <2>3, SessionTypes DEF AckPurchaseReceipt, TInv, TypeOK
  <1>5. CASE RegisterKey(w, t)
    <2>1. /\ ReadBy(w) \/ EndOf(w)
          /\ Refuse(w, t, "owned") \/ Proceed(w, t, "granting")
      BY <1>5 DEF RegisterKey
    <2>2. "granting" \in Label
      BY DEF Label
    <2>3. /\ pc' \in [Worker -> Label]
          /\ task' \in [Worker -> Transaction \cup {NoTask}]
          /\ Busy'
      BY <2>1, <2>2, RefuseTypes, ProceedTypes
    <2>4. QED
      BY <1>5, <2>1, <2>3, SessionTypes DEF RegisterKey, TInv, TypeOK
  <1>6. QED
    BY <1>1, <1>2, <1>3, <1>4, <1>5 DEF Request, CompletePurchase, CancelPurchase

\* The steps that grant a licence.
LEMMA GrantTypes ==
    ASSUME TInv, NEW w \in Worker, Complete(w) \/ GrantKey(w)
    PROVE  TInv'
  <1>1. /\ task[w] \in Transaction
        /\ Cardinality(db.licences) < MaxLicence
        /\ EndOf(w)
    BY DEF Complete, GrantKey, TInv, Busy
  <1>2. /\ "listing" \in Label
        /\ "recording" \in Label
    BY DEF Label
  <1>3. CASE Complete(w)
    <2> DEFINE new == {NewLicence(t, "purchase") : t \in {task[w]} \ Gift}
    <2>1. new \subseteq {NewLicence(task[w], "purchase")}
      OBVIOUS
    <2>2. new \subseteq Licence /\ IsFiniteSet(db.licences \cup new)
      BY <1>1, <2>1, LicenceType, FiniteLicences
    <2> HIDE DEF new
    <2>3. db' = [db EXCEPT !.completed = @ \cup {task[w]}, !.licences = @ \cup new]
      BY <1>3 DEF Complete, new
    <2>4. db' \in Database /\ IsFiniteSet(db'.licences)
      BY <1>1, <2>2, <2>3 DEF TInv, TypeOK, Database
    <2>5. settled' \in [Worker -> SUBSET Transaction]
      BY <1>1, <1>3 DEF Complete, TInv, TypeOK
    <2>6. QED
      BY <1>1, <1>2, <1>3, <2>4, <2>5, ProceedTypes, SessionTypes
         DEF Complete, TInv, TypeOK
  <1>4. CASE GrantKey(w)
    <2> DEFINE new == {NewLicence(task[w], "key")}
    <2>1. new \subseteq Licence /\ IsFiniteSet(db.licences \cup new)
      BY <1>1, LicenceType, FiniteLicences
    <2> HIDE DEF new
    <2>2. db' = [db EXCEPT !.licences = @ \cup new]
      BY <1>4 DEF GrantKey, new
    <2>3. db' \in Database /\ IsFiniteSet(db'.licences)
      BY <1>1, <2>1, <2>2 DEF TInv, TypeOK, Database
    <2>4. QED
      BY <1>1, <1>2, <1>4, <2>3, ProceedTypes, SessionTypes DEF GrantKey, TInv, TypeOK
  <1>5. QED
    BY <1>3, <1>4

\* The other steps of the handlers.
LEMMA StepTypes ==
    ASSUME TInv, NEW w \in Worker, Step(w)
    PROVE  TInv'
  <1> USE DEF Label
  <1>1. pc[w] # "idle" => task[w] \in Transaction
    BY DEF TInv, Busy
  <1>2. CASE Create(w) \/ Cancel(w)
    <2>1. task[w] \in Transaction /\ EndOf(w) /\ Finish(w)
      BY <1>1, <1>2 DEF Create, Cancel
    <2>2. /\ db' \in Database
          /\ db'.licences = db.licences
          /\ settled' \in [Worker -> SUBSET Transaction]
      BY <1>2, <2>1 DEF Create, Cancel, TInv, TypeOK, Database
    <2>3. QED
      BY <1>2, <2>1, <2>2, FinishTypes, SessionTypes DEF Create, Cancel, TInv, TypeOK
  <1>3. CASE RecordKey(w)
    <2>1. task[w] \in Transaction /\ EndOf(w) /\ Proceed(w, task[w], "listing")
      BY <1>1, <1>3 DEF RecordKey
    <2>2. db' \in Database /\ db'.licences = db.licences
      BY <1>3, <2>1 DEF RecordKey, TInv, TypeOK, Database
    <2>3. QED
      BY <1>3, <2>1, <2>2, ProceedTypes, SessionTypes DEF RecordKey, TInv, TypeOK
  <1>4. CASE Fail(w)
    <2>1. task[w] \in Transaction /\ EndOf(w)
      BY <1>1, <1>4 DEF Fail, Fails
    <2>2. Proceed(w, task[w], "listing") \/ Finish(w)
      BY <1>4 DEF Fail, AfterFailure
    <2>3. /\ pc' \in [Worker -> Label]
          /\ task' \in [Worker -> Transaction \cup {NoTask}]
          /\ Busy'
      BY <2>1, <2>2, ProceedTypes, FinishTypes
    <2>4. QED
      BY <1>4, <2>1, <2>3, SessionTypes DEF Fail, TInv, TypeOK
  <1>5. CASE CancelNothing(w) \/ ListLicences(w) \/ Answer(w)
    BY <1>5, FinishTypes, SessionTypes
       DEF CancelNothing, ListLicences, Answer, TInv, TypeOK
  <1>6. QED
    BY <1>2, <1>3, <1>4, <1>5, GrantTypes DEF Step

\* Every step keeps the types.
LEMMA StepTInv == TInv /\ [Next]_vars => TInv'
  <1> SUFFICES ASSUME TInv, [Next]_vars PROVE TInv'
    OBVIOUS
  <1>1. ASSUME NEW w \in Worker, ReadOnly(w) \/ OtherRequest(w) \/ ConnectionLost(w)
        PROVE  TInv'
    BY <1>1, SessionTypes DEF ReadOnly, OtherRequest, ConnectionLost, TInv, TypeOK, Busy
  <1>2. ASSUME NEW t \in Transaction, Expire(t)
        PROVE  TInv'
    BY <1>2 DEF Expire, TInv, TypeOK, Busy
  <1>3. CASE UNCHANGED vars
    BY <1>3 DEF vars, TInv, TypeOK, Busy
  <1>4. QED
    BY <1>1, <1>2, <1>3, RequestTypes, StepTypes DEF Next

-----------------------------------------------------------------------------
(* What a step may do to the rows, the views and the other workers.        *)

Grown ==
    /\ db.made \subseteq db'.made
    /\ db.completed \subseteq db'.completed
    /\ db.cancelled \subseteq db'.cancelled
    /\ db.licences \subseteq db'.licences

\* A view stays, ends, breaks, or is opened on the rows.
Moves(w) == snap'[w] \in {snap[w], Closed, Lost, db}

\* What is settled is done, and by a commit of the worker.
Settles(w) ==
    \/ settled'[w] = settled[w]
    \/ /\ settled'[w] = settled[w] \cup {task[w]}
       /\ task[w] \in db'.completed \cup db'.cancelled
       /\ snap'[w] = Closed

OthersKeepOn(w) ==
    \A v \in Worker \ {w} : /\ pc'[v] = pc[v]
                            /\ task'[v] = task[v]
                            /\ settled'[v] = settled[v]

\* Only the worker's own session moves.
LEMMA SessionMoves ==
    ASSUME TypeOK, NEW w \in Worker, ReadBy(w) \/ EndOf(w)
    PROVE  \A v \in Worker : Moves(v)
  BY DEF TypeOK, ReadBy, EndOf, View, Moves

\* Only the worker's own handler goes on.
LEMMA ProceedFrame ==
    ASSUME TypeOK, NEW w \in Worker, NEW t, NEW label, Proceed(w, t, label)
    PROVE  /\ pc'[w] = label
           /\ task'[w] = t
           /\ \A v \in Worker \ {w} : pc'[v] = pc[v] /\ task'[v] = task[v]
  BY DEF TypeOK, Proceed, Goto

\* Requests change no row.
LEMMA RequestFrame ==
    ASSUME TypeOK, NEW w \in Worker, NEW t \in Transaction, Request(w, t)
    PROVE  /\ UNCHANGED <<db, settled>>
           /\ ReadBy(w) \/ EndOf(w)
           /\ OthersKeepOn(w)
  <1> USE DEF Request, InitPurchase, CompletePurchase, CancelPurchase, Validate,
              CancelLicense, AckPurchaseReceipt, RegisterKey
  <1>1. UNCHANGED <<db, settled>> /\ (ReadBy(w) \/ EndOf(w))
    OBVIOUS
  <1>2. \E s, label : Proceed(w, s, label)
    BY DEF Refuse, Finish
  <1>3. QED
    BY <1>1, <1>2, ProceedFrame DEF OthersKeepOn

\* A handler never goes from one of its steps to a decision or a refusal.
LEMMA StepFrame ==
    ASSUME TypeOK, NEW w \in Worker, Step(w)
    PROVE  /\ pc'[w] \in {"idle", "listing", "recording"}
           /\ OthersKeepOn(w)
           /\ \A v \in Worker : Moves(v)
  <1> USE DEF Step, Create, Complete, Cancel, CancelNothing, Fail, AfterFailure,
              ListLicences, Answer, GrantKey, RecordKey
  <1>1. \E s : \E label \in {"idle", "listing", "recording"} : Proceed(w, s, label)
    BY DEF Finish
  <1>2. /\ pc'[w] \in {"idle", "listing", "recording"}
        /\ \A v \in Worker \ {w} : pc'[v] = pc[v] /\ task'[v] = task[v]
    BY <1>1, ProceedFrame
  <1>3. \A v \in Worker \ {w} : settled'[v] = settled[v]
    BY DEF TypeOK
  <1>4. \A v \in Worker : Moves(v)
    <2>1. CASE ReadBy(w) \/ EndOf(w)
      BY <2>1, SessionMoves
    <2>2. CASE UNCHANGED snap
      BY <2>2 DEF Moves
    <2>3. QED
      BY <2>1, <2>2
  <1>5. QED
    BY <1>2, <1>3, <1>4 DEF OthersKeepOn

\* A step adds rows and settles what it has written.
LEMMA StepWrites ==
    ASSUME TInv, NEW w \in Worker, Step(w)
    PROVE  Grown /\ \A v \in Worker : Settles(v)
  <1> USE DEF TInv, TypeOK, Database, Grown, Settles
  <1>1. CASE Create(w) \/ RecordKey(w)
    BY <1>1 DEF Create, RecordKey
  <1>2. CASE Complete(w)
    <2>1. Grown
      BY <1>2 DEF Complete
    <2>2. task[w] \in db'.completed /\ snap'[w] = Closed
      BY <1>2 DEF Complete, EndOf
    <2>3. /\ settled'[w] = settled[w] \cup {task[w]}
          /\ \A v \in Worker \ {w} : settled'[v] = settled[v]
      BY <1>2 DEF Complete
    <2>4. QED
      BY <2>1, <2>2, <2>3
  <1>3. CASE Cancel(w)
    <2>1. Grown
      BY <1>3 DEF Cancel
    <2>2. task[w] \in db'.cancelled /\ snap'[w] = Closed
      BY <1>3 DEF Cancel, EndOf
    <2>3. /\ settled'[w] = settled[w] \cup {task[w]}
          /\ \A v \in Worker \ {w} : settled'[v] = settled[v]
      BY <1>3 DEF Cancel
    <2>4. QED
      BY <2>1, <2>2, <2>3
  <1>4. CASE GrantKey(w)
    BY <1>4 DEF GrantKey
  <1>5. CASE CancelNothing(w) \/ Fail(w) \/ ListLicences(w) \/ Answer(w)
    BY <1>5 DEF CancelNothing, Fail, ListLicences, Answer
  <1>6. QED
    BY <1>1, <1>2, <1>3, <1>4, <1>5 DEF Step

\* The steps of no handler.
LEMMA QuietFrame ==
    ASSUME TInv,
           \/ \E w \in Worker : ReadOnly(w) \/ OtherRequest(w) \/ ConnectionLost(w)
           \/ \E t \in Transaction : Expire(t)
           \/ UNCHANGED vars
    PROVE  /\ UNCHANGED <<db, pc, task, settled>>
           /\ \A v \in Worker : Moves(v)
  <1>1. ASSUME NEW w \in Worker, ReadOnly(w) \/ OtherRequest(w)
        PROVE  /\ UNCHANGED <<db, pc, task, settled>>
               /\ \A v \in Worker : Moves(v)
    BY <1>1, SessionMoves DEF ReadOnly, OtherRequest, TInv
  <1>2. ASSUME NEW w \in Worker, ConnectionLost(w)
        PROVE  /\ UNCHANGED <<db, pc, task, settled>>
               /\ \A v \in Worker : Moves(v)
    BY <1>2 DEF ConnectionLost, Moves, TInv, TypeOK
  <1>3. QED
    BY <1>1, <1>2 DEF Expire, vars, Moves

\* Every step adds rows, moves sessions and settles in this way.
LEMMA NextFrame ==
    ASSUME TInv, [Next]_vars
    PROVE  /\ Grown
           /\ \A v \in Worker : Moves(v) /\ Settles(v)
  <1>1. ASSUME NEW w \in Worker, NEW t \in Transaction, Request(w, t)
        PROVE  Grown /\ \A v \in Worker : Moves(v) /\ Settles(v)
    BY <1>1, RequestFrame, SessionMoves DEF TInv, Grown, Settles
  <1>2. ASSUME NEW w \in Worker, Step(w)
        PROVE  Grown /\ \A v \in Worker : Moves(v) /\ Settles(v)
    BY <1>2, StepFrame, StepWrites DEF TInv
  <1>3. ASSUME \/ \E w \in Worker : ReadOnly(w) \/ OtherRequest(w) \/ ConnectionLost(w)
               \/ \E t \in Transaction : Expire(t)
               \/ UNCHANGED vars
        PROVE  Grown /\ \A v \in Worker : Moves(v) /\ Settles(v)
    BY <1>3, QuietFrame DEF Grown, Settles
  <1>4. QED
    BY <1>1, <1>2, <1>3 DEF Next

-----------------------------------------------------------------------------
(* Views.                                                                  *)

\* At the start nothing is settled and no view is open.
LEMMA InitVInv == Init => VInv
  BY SessionAssumption
     DEF Init, VInv, ViewsArePartial, SettledIsDone, SettledIsSeen

\* The views stay parts of the rows, and show a worker what it settled: the commit
\* that settled it closed the view, and the next one is opened on the rows.
LEMMA StepVInv ==
    ASSUME TInv, VInv, [Next]_vars
    PROVE  VInv'
  <1>1. /\ Grown
        /\ \A v \in Worker : Moves(v) /\ Settles(v)
    BY NextFrame
  <1>2. ViewsArePartial'
    <2> SUFFICES ASSUME NEW w \in Worker, snap'[w] \in Database
                 PROVE  Part(snap[w])'
      BY DEF ViewsArePartial
    <2>1. snap'[w] = db \/ snap'[w] = snap[w]
      BY <1>1, SessionAssumption DEF Moves
    <2>2. QED
      BY <1>1, <2>1 DEF Grown, Part, VInv, ViewsArePartial
  <1>3. SettledIsDone'
    <2> SUFFICES ASSUME NEW w \in Worker
                 PROVE  settled'[w] \subseteq db'.completed \cup db'.cancelled
      BY DEF SettledIsDone
    <2>1. settled[w] \subseteq db'.completed \cup db'.cancelled
      BY <1>1 DEF Grown, VInv, SettledIsDone
    <2>2. QED
      BY <1>1, <2>1 DEF Settles
  <1>4. SettledIsSeen'
    <2> SUFFICES ASSUME NEW w \in Worker, snap'[w] \in Database
                 PROVE  settled'[w] \subseteq snap'[w].completed \cup snap'[w].cancelled
      BY DEF SettledIsSeen
    <2>1. snap'[w] = db \/ snap'[w] = snap[w]
      BY <1>1, SessionAssumption DEF Moves
    <2>2. settled'[w] = settled[w]
      BY <1>1, SessionAssumption DEF Settles
    <2>3. QED
      BY <2>1, <2>2 DEF VInv, SettledIsDone, SettledIsSeen
  <1>5. QED
    BY <1>2, <1>3, <1>4 DEF VInv

\* What a worker reads is there, and shows what it settled.
LEMMA ViewFacts ==
    ASSUME TInv, VInv, NEW w \in Worker, View(w) # Lost
    PROVE  /\ Part(View(w))
           /\ settled[w] \subseteq View(w).completed \cup View(w).cancelled
  <1>1. View(w) = db \/ (View(w) = snap[w] /\ snap[w] \in Database)
    BY ViewType DEF TInv, View
  <1>2. CASE View(w) = db
    BY <1>2 DEF Part, VInv, SettledIsDone
  <1>3. CASE View(w) = snap[w] /\ snap[w] \in Database
    BY <1>3 DEF VInv, ViewsArePartial, SettledIsSeen
  <1>4. QED
    BY <1>1, <1>2, <1>3

-----------------------------------------------------------------------------
(* One outcome for each worker.                                            *)

\* A request that sets out to decide found the transaction open.
LEMMA DecidesOpen ==
    ASSUME TInv, NEW w \in Worker, NEW t \in Transaction, Request(w, t),
           pc'[w] \in {"completing", "cancelling"}
    PROVE  /\ task'[w] = t
           /\ View(w) # Lost
           /\ t \notin View(w).completed \cup View(w).cancelled
  <1>1. (CompletePurchase(w, t) \/ CancelPurchase(w, t)) =>
            Verdict(w, t) = "valid" /\ task'[w] = t
    <2> SUFFICES ASSUME NEW next, Validate(w, t, next)
                 PROVE  Verdict(w, t) = "valid" /\ task'[w] = t
      BY DEF CompletePurchase, CancelPurchase
    <2>1. CASE Verdict(w, t) = "valid"
      BY <2>1, ProceedFrame DEF Validate, TInv
    <2>2. CASE Verdict(w, t) # "valid"
      <3>1. Refuse(w, t, Verdict(w, t))
        BY <2>2 DEF Validate
      <3>2. \E s : \E label \in Outcome \cup {"idle"} : Proceed(w, s, label)
        BY <3>1 DEF Refuse, Finish
      <3>3. QED
        BY <3>2, ProceedFrame DEF Outcome, TInv
    <2>3. QED
      BY <2>1, <2>2
  <1>2. CancelLicense(w, t) => Verdict(w, t) \in {"valid", "expired"} /\ task'[w] = t
    BY ProceedFrame DEF CancelLicense, Finish, TInv
  <1>3. CompletePurchase(w, t) \/ CancelPurchase(w, t) \/ CancelLicense(w, t)
    <2>1. ASSUME InitPurchase(w, t) \/ AckPurchaseReceipt(w, t) \/ RegisterKey(w, t)
          PROVE  FALSE
      <3>1. \E s : \E label \in Outcome \cup {"idle", "creating", "listing", "granting"} :
                Proceed(w, s, label)
        BY <2>1 DEF InitPurchase, AckPurchaseReceipt, RegisterKey, Refuse, Finish, Outcome
      <3>2. QED
        BY <3>1, ProceedFrame DEF Outcome, TInv
    <2>2. QED
      BY <2>1 DEF Request
  <1>4. Verdict(w, t) \in {"valid", "expired"}
            => View(w) # Lost /\ t \notin View(w).completed \cup View(w).cancelled
    BY DEF Verdict
  <1>5. QED
    BY <1>1, <1>2, <1>3, <1>4

LEMMA StepOneOutcome ==
    ASSUME TInv, VInv, OneOutcomePerWorker, [Next]_vars
    PROVE  OneOutcomePerWorker'
  <1>1. ASSUME NEW w \in Worker, NEW t \in Transaction, Request(w, t)
        PROVE  OneOutcomePerWorker'
    <2>1. /\ UNCHANGED settled
          /\ OthersKeepOn(w)
      BY <1>1, RequestFrame DEF TInv
    <2>2. pc'[w] \in {"completing", "cancelling"} => task'[w] \notin settled'[w]
      BY <1>1, <2>1, DecidesOpen, ViewFacts
    <2>3. QED
      BY <2>1, <2>2 DEF OthersKeepOn, OneOutcomePerWorker
  <1>2. ASSUME NEW w \in Worker, Step(w)
        PROVE  OneOutcomePerWorker'
    BY <1>2, StepFrame DEF TInv, OthersKeepOn, OneOutcomePerWorker
  <1>3. ASSUME \/ \E w \in Worker : ReadOnly(w) \/ OtherRequest(w) \/ ConnectionLost(w)
               \/ \E t \in Transaction : Expire(t)
               \/ UNCHANGED vars
        PROVE  OneOutcomePerWorker'
    BY <1>3, QuietFrame DEF OneOutcomePerWorker
  <1>4. QED
    BY <1>1, <1>2, <1>3 DEF Next

-----------------------------------------------------------------------------
(* Completed transactions and their licences.                              *)

LEMMA StepGranted ==
    ASSUME TInv, CompletedIsGranted, [Next]_vars
    PROVE  CompletedIsGranted'
  <1>1. ASSUME db'.completed = db.completed, db'.licences = db.licences
        PROVE  CompletedIsGranted'
    BY <1>1 DEF CompletedIsGranted
  <1>2. ASSUME NEW w \in Worker, Complete(w)
        PROVE  CompletedIsGranted'
    <2> DEFINE t == task[w]
               new == {NewLicence(s, "purchase") : s \in {t} \ Gift}
    <2>1. /\ db'.completed = db.completed \cup {t}
          /\ db'.licences = db.licences \cup new
      BY <1>2 DEF Complete, TInv, TypeOK, Database
    <2>2. ASSUME t \notin Gift
          PROVE  \E l \in new : l.of = t /\ l.cause = "purchase"
      <3>1. NewLicence(t, "purchase") \in new
        BY <2>2
      <3>2. NewLicence(t, "purchase").of = t /\ NewLicence(t, "purchase").cause = "purchase"
        BY DEF NewLicence
      <3>3. QED
        BY <3>1, <3>2
    <2>3. \A l \in new : l.of \in {t} \ Gift
      BY DEF NewLicence
    <2> HIDE DEF t, new
    <2>4. ASSUME NEW s \in db'.completed \ Gift
          PROVE  \E l \in db'.licences : l.of = s /\ l.cause = "purchase"
      <3>1. CASE s = t
        BY <2>1, <2>2, <2>4, <3>1
      <3>2. CASE s \in db.completed
        BY <2>1, <2>4, <3>2 DEF CompletedIsGranted
      <3>3. QED
        BY <2>1, <2>4, <3>1, <3>2
    <2>5. ASSUME NEW l \in db'.licences, l.cause = "purchase"
          PROVE  l.of \in db'.completed \ Gift
      BY <2>1, <2>3, <2>5 DEF CompletedIsGranted
    <2>6. QED
      BY <2>4, <2>5 DEF CompletedIsGranted
  <1>3. ASSUME NEW w \in Worker, GrantKey(w)
        PROVE  CompletedIsGranted'
    <2> DEFINE new == NewLicence(task[w], "key")
    <2>1. /\ db'.completed = db.completed
          /\ db'.licences = db.licences \cup {new}
      BY <1>3 DEF GrantKey, TInv, TypeOK, Database
    <2>2. new.cause = "key"
      BY DEF NewLicence
    <2> HIDE DEF new
    <2>3. QED
      BY <2>1, <2>2 DEF CompletedIsGranted
  <1>4. ASSUME NEW w \in Worker, Create(w) \/ Cancel(w) \/ RecordKey(w)
        PROVE  CompletedIsGranted'
    BY <1>1, <1>4 DEF Create, Cancel, RecordKey, TInv, TypeOK, Database
  <1>5. ASSUME NEW w \in Worker,
               CancelNothing(w) \/ Fail(w) \/ ListLicences(w) \/ Answer(w)
        PROVE  CompletedIsGranted'
    BY <1>1, <1>5 DEF CancelNothing, Fail, ListLicences, Answer
  <1>6. ASSUME NEW w \in Worker, NEW t \in Transaction, Request(w, t)
        PROVE  CompletedIsGranted'
    BY <1>1, <1>6, RequestFrame DEF TInv
  <1>7. ASSUME \/ \E w \in Worker : ReadOnly(w) \/ OtherRequest(w) \/ ConnectionLost(w)
               \/ \E t \in Transaction : Expire(t)
               \/ UNCHANGED vars
        PROVE  CompletedIsGranted'
    BY <1>1, <1>7, QuietFrame
  <1>8. QED
    BY <1>2, <1>3, <1>4, <1>5, <1>6, <1>7 DEF Next, Step

-----------------------------------------------------------------------------
(* Refusals.                                                               *)

\* A request that is refused with an outcome read that outcome.
LEMMA RefusesAsRead ==
    ASSUME TInv, NEW w \in Worker, NEW t \in Transaction, Request(w, t),
           pc'[w] \in Outcome
    PROVE  /\ task'[w] = t
           /\ pc'[w] = "completed" => View(w) # Lost /\ t \in View(w).completed
           /\ pc'[w] = "cancelled" => View(w) # Lost /\ t \in View(w).cancelled
           /\ pc'[w] = "owned" => \/ Owned(db, PackageOf[t])
                                  \/ View(w) # Lost /\ Owned(View(w), PackageOf[t])
  <1> USE DEF TInv, Outcome
  <1>1. ASSUME NEW why, Refuse(w, t, why)
        PROVE  pc'[w] = why /\ task'[w] = t
    <2>1. CASE why \in Outcome
      BY <1>1, <2>1, ProceedFrame DEF Refuse
    <2>2. CASE why \notin Outcome
      BY <1>1, <2>2, ProceedFrame DEF Refuse, Finish
    <2>3. QED
      BY <2>1, <2>2
  <1>2. \A label : Proceed(w, t, label) => pc'[w] = label
    BY ProceedFrame
  <1>3. Finish(w) => pc'[w] = "idle"
    BY ProceedFrame DEF Finish
  <1>4. ASSUME CompletePurchase(w, t) \/ CancelPurchase(w, t)
        PROVE  Refuse(w, t, Verdict(w, t))
    BY <1>2, <1>4 DEF CompletePurchase, CancelPurchase, Validate
  <1>5. /\ Verdict(w, t) = "completed" => View(w) # Lost /\ t \in View(w).completed
        /\ Verdict(w, t) = "cancelled" => View(w) # Lost /\ t \in View(w).cancelled
        /\ Verdict(w, t) # "owned"
    BY DEF Verdict
  <1>6. CASE CompletePurchase(w, t) \/ CancelPurchase(w, t)
    BY <1>1, <1>4, <1>5, <1>6
  <1>7. CASE CancelLicense(w, t) \/ AckPurchaseReceipt(w, t)
    BY <1>2, <1>3, <1>7 DEF CancelLicense, AckPurchaseReceipt
  <1>8. CASE InitPurchase(w, t)
    <2>1. /\ Refuse(w, t, "owned")
          /\ \/ Owned(db, PackageOf[t])
             \/ View(w) # Lost /\ Owned(View(w), PackageOf[t])
      BY <1>2, <1>8 DEF InitPurchase
    <2>2. QED
      BY <1>1, <2>1
  <1>9. CASE RegisterKey(w, t)
    <2>1. /\ Refuse(w, t, "owned")
          /\ View(w) # Lost /\ Owned(View(w), PackageOf[t])
      BY <1>2, <1>9 DEF RegisterKey
    <2>2. QED
      BY <1>1, <2>1
  <1>10. QED
    BY <1>6, <1>7, <1>8, <1>9 DEF Request

LEMMA StepRefusals ==
    ASSUME TInv, VInv, RefusalsAreTrue, [Next]_vars
    PROVE  RefusalsAreTrue'
  <1>1. /\ db.completed \subseteq db'.completed
        /\ db.cancelled \subseteq db'.cancelled
        /\ \A package : Owned(db, package) => Owned(db', package)
    BY NextFrame DEF Grown, Owned
  <1>2. ASSUME NEW w \in Worker, NEW t \in Transaction, Request(w, t)
        PROVE  RefusalsAreTrue'
    <2>1. UNCHANGED db /\ OthersKeepOn(w)
      BY <1>2, RequestFrame DEF TInv
    <2>2. View(w) # Lost => /\ View(w).completed \subseteq db.completed
                            /\ View(w).cancelled \subseteq db.cancelled
                            /\ \A package : Owned(View(w), package) => Owned(db, package)
      BY ViewFacts DEF Part, Owned
    <2>3. /\ pc'[w] = "completed" => task'[w] \in db'.completed
          /\ pc'[w] = "cancelled" => task'[w] \in db'.cancelled
          /\ pc'[w] = "owned" => Owned(db', PackageOf[task'[w]])
      BY <1>2, <2>1, <2>2, RefusesAsRead DEF Outcome
    <2>4. QED
      BY <1>1, <2>1, <2>3 DEF OthersKeepOn, RefusalsAreTrue
  <1>3. ASSUME NEW w \in Worker, Step(w)
        PROVE  RefusalsAreTrue'
    BY <1>1, <1>3, StepFrame DEF TInv, OthersKeepOn, RefusalsAreTrue
  <1>4. ASSUME \/ \E w \in Worker : ReadOnly(w) \/ OtherRequest(w) \/ ConnectionLost(w)
               \/ \E t \in Transaction : Expire(t)
               \/ UNCHANGED vars
        PROVE  RefusalsAreTrue'
    BY <1>1, <1>4, QuietFrame DEF RefusalsAreTrue
  <1>5. QED
    BY <1>2, <1>3, <1>4 DEF Next

-----------------------------------------------------------------------------
(* The theorems.                                                           *)

\* The inductive invariant.
LEMMA Inductive == Spec => []IInv
  <1>1. Init => IInv
    <2>1. Init => OneOutcomePerWorker /\ RefusalsAreTrue
      BY DEF Init, OneOutcomePerWorker, RefusalsAreTrue
    <2>2. Init => CompletedIsGranted
      BY DEF Init, Empty, CompletedIsGranted
    <2>3. QED
      BY <2>1, <2>2, InitTInv, InitVInv DEF IInv
  <1>2. IInv /\ [Next]_vars => IInv'
    BY StepTInv, StepVInv, StepOneOutcome, StepGranted, StepRefusals DEF IInv
  <1>3. QED
    BY <1>1, <1>2, PTL DEF Spec

\* The rows, sessions and handlers have their types, whatever requests interleave on
\* whatever workers.
THEOREM TypeCorrect == Spec => []TypeOK
  <1>1. IInv => TypeOK
    BY DEF IInv, TInv
  <1>2. QED
    BY <1>1, Inductive, PTL

\* No worker decides a transaction twice, so a transaction of a server with n workers is
\* completed and cancelled at most n times.
THEOREM DecidedOncePerWorker == Spec => []OneOutcomePerWorker
  <1>1. IInv => OneOutcomePerWorker
    BY DEF IInv
  <1>2. QED
    BY <1>1, Inductive, PTL

\* The commit of complete_transaction is all or nothing, in both directions.
THEOREM CompletionGrants == Spec => []CompletedIsGranted
  <1>1. IInv => CompletedIsGranted
    BY DEF IInv
  <1>2. QED
    BY <1>1, Inductive, PTL

\* Reading at REPEATABLE READ in sessions that are never closed makes views old, but a
\* refusal that rests on one is true of the rows.
THEOREM RefusalsAreRight == Spec => []RefusalsAreTrue
  <1>1. IInv => RefusalsAreTrue
    BY DEF IInv
  <1>2. QED
    BY <1>1, Inductive, PTL

\* A view is never ahead of the rows, and shows a worker what it settled itself.
THEOREM ViewsAreOldOnly == Spec => [](ViewsArePartial /\ SettledIsSeen)
  <1>1. IInv => ViewsArePartial /\ SettledIsSeen
    BY DEF IInv, VInv
  <1>2. QED
    BY <1>1, Inductive, PTL
=============================================================================
