------------------------ MODULE PurchaseTransactions ------------------------
(***************************************************************************)
(* The purchases of one account: the handlers of                           *)
(* steam3/Handlers/purchase.py on the tables that                          *)
(* utilities/database/purchase_db.py keeps.                                *)
(*                                                                         *)
(* PurchaseDatabase works on a scoped_session, that is one session for     *)
(* every worker thread, which nobody closes.  The database reads at        *)
(* REPEATABLE READ: the first query after a commit or rollback of the      *)
(* thread opens a view of the committed rows, and every later query of     *)
(* that thread, in this request or in the next, reads that view until the  *)
(* thread commits or rolls back again.  A write goes to the committed      *)
(* rows, column by column, and is not refused when they have changed.      *)
(* A request is handled by whichever worker took its packet, and the       *)
(* requests of one account may be with several workers at once.            *)
(***************************************************************************)
EXTENDS Naturals, FiniteSets

CONSTANTS
    Worker,         \* threads that handle packets
    Transaction,    \* bound: transactions created in a behaviour
    Package,        \* subscriptions on offer
    PackageOf,      \* the subscription a transaction is for
    Gift,           \* transactions with a GifteeAccountID
    MaxLicence,     \* bound: licence rows
    Closed,         \* a session that has no transaction with the database
    Lost,           \* a session whose connection broke inside one
    NoTask          \* the transaction of a worker that has handled none

ASSUME PurchaseAssumption ==
    /\ PackageOf \in [Transaction -> Package]
    /\ Gift \subseteq Transaction
    /\ MaxLicence \in Nat
    /\ NoTask \notin Transaction

VARIABLES
    db,         \* the committed rows
    snap,       \* what the worker's session reads: Closed, Lost or a view
    expired,    \* transactions created more than 24 hours ago
    pc,         \* next step of the worker's handler
    task,       \* the transaction its request named, NoTask when idle
    settled     \* history: transactions the worker completed or cancelled

vars == <<db, snap, expired, pc, task, settled>>

\* A licence and the transaction that it was granted with.
Licence == [id : 1..MaxLicence, of : Transaction, cause : {"purchase", "key"}]

Database == [made : SUBSET Transaction, completed : SUBSET Transaction,
             cancelled : SUBSET Transaction, licences : SUBSET Licence]

ASSUME SessionAssumption == Closed # Lost /\ {Closed, Lost} \cap Database = {}

Empty == [made |-> {}, completed |-> {}, cancelled |-> {}, licences |-> {}]

\* A request is refused with the outcome that the worker read.
Outcome == {"completed", "cancelled", "owned"}

Label == {"idle", "creating", "completing", "cancelling", "granting", "recording",
          "listing"} \cup Outcome

Init ==
    /\ db = Empty
    /\ snap = [w \in Worker |-> Closed]
    /\ expired = {}
    /\ pc = [w \in Worker |-> "idle"]
    /\ task = [w \in Worker |-> NoTask]
    /\ settled = [w \in Worker |-> {}]

-----------------------------------------------------------------------------
Goto(w, label) == pc' = [pc EXCEPT ![w] = label]

\* What a query of the worker reads.
View(w) == IF snap[w] = Closed THEN db ELSE snap[w]

\* A query: the first one opens the view.
ReadBy(w) == snap' = [snap EXCEPT ![w] = View(w)]

\* The end of the session's transaction, by commit or rollback.
EndOf(w) == snap' = [snap EXCEPT ![w] = Closed]

Owned(view, package) == \E l \in view.licences : PackageOf[l.of] = package

\* A transaction number is drawn from the clock and a counter: nobody else has it.
Fresh(t) == t \notin db.made /\ \A v \in Worker : task[v] # t

Proceed(w, t, label) ==
    /\ Goto(w, label)
    /\ task' = [task EXCEPT ![w] = t]

Finish(w) == Proceed(w, NoTask, "idle")

\* Only the refusals that name an outcome are told apart.
RefuseAsIs(w, t, why) == Proceed(w, t, why)

Refuse(w, t, why) == IF why \in Outcome THEN Proceed(w, t, why) ELSE Finish(w)

-----------------------------------------------------------------------------
\* handle_InitPurchase as far as owns_subscription.  On a broken connection the
\* lists read at login answer instead; unless they hold the subscription, the query
\* for the tax rate then raises and the request is never answered.
InitPurchase(w, t) ==
    /\ pc[w] = "idle"
    /\ Fresh(t)
    /\ \/ /\ View(w) # Lost
          /\ IF Owned(View(w), PackageOf[t]) THEN Refuse(w, t, "owned")
                                             ELSE Proceed(w, t, "creating")
       \/ /\ View(w) = Lost
          /\ Owned(db, PackageOf[t])
          /\ Refuse(w, t, "owned")
    /\ ReadBy(w)
    /\ UNCHANGED <<db, expired, settled>>

\* create_transaction commits the new row, and the entries for the address and the
\* payment before it ended any earlier transaction of the session.
Create(w) ==
    /\ pc[w] = "creating"
    /\ db' = [db EXCEPT !.made = @ \cup {task[w]}]
    /\ EndOf(w)
    /\ Finish(w)
    /\ UNCHANGED <<expired, settled>>

\* Requests that only read: handle_GetFinalPrice, handle_GetPurchaseReceipts,
\* handle_ClientGetLicenses.  They leave the view open.
ReadOnly(w) ==
    /\ pc[w] = "idle"
    /\ snap[w] = Closed
    /\ ReadBy(w)
    /\ UNCHANGED <<db, expired, pc, task, settled>>

-----------------------------------------------------------------------------
\* validate_transaction's answer, in the order of its tests.
VerdictBlindToCompletion(w, t) ==
    IF View(w) = Lost \/ t \notin View(w).made THEN "not found"
    ELSE IF t \in View(w).cancelled THEN "cancelled"
    ELSE IF t \in expired THEN "expired"
    ELSE "valid"

VerdictByAge(w, t) ==
    IF View(w) = Lost \/ t \notin View(w).made THEN "not found"
    ELSE IF t \in View(w).completed \cup expired THEN "completed"
    ELSE IF t \in View(w).cancelled THEN "cancelled"
    ELSE "valid"

Verdict(w, t) ==
    IF View(w) = Lost \/ t \notin View(w).made THEN "not found"
    ELSE IF t \in View(w).completed THEN "completed"
    ELSE IF t \in View(w).cancelled THEN "cancelled"
    ELSE IF t \in expired THEN "expired"
    ELSE "valid"

\* The first half of handle_CompletePurchase and handle_CancelPurchase.
Validate(w, t, next) ==
    /\ pc[w] = "idle"
    /\ ReadBy(w)
    /\ IF Verdict(w, t) = "valid" THEN Proceed(w, t, next)
                                  ELSE Refuse(w, t, Verdict(w, t))
    /\ UNCHANGED <<db, expired, settled>>

CompletePurchase(w, t) == Validate(w, t, "completing")
CancelPurchase(w, t) == Validate(w, t, "cancelling")

\* handle_CancelLicense goes to cancel_transaction at once, which makes the tests of
\* validate_transaction but the one for age.
CancelLicense(w, t) ==
    /\ pc[w] = "idle"
    /\ ReadBy(w)
    /\ IF Verdict(w, t) \in {"valid", "expired"} THEN Proceed(w, t, "cancelling")
                                                 ELSE Finish(w)
    /\ UNCHANGED <<db, expired, settled>>

-----------------------------------------------------------------------------
\* The rows that a completion inserts: a licence unless it is a gift.  (The guest
\* passes are inserted with it and are not told apart.)
NewLicence(t, cause) == [id |-> Cardinality(db.licences) + 1, of |-> t, cause |-> cause]

\* complete_transaction reads the same view as the validation did, and does not look
\* at the dates again.  One commit writes everything and ends the view.
CompleteInOldView(w) ==
    /\ pc[w] = "completing"
    /\ View(w) # Lost
    /\ Cardinality(db.licences) < MaxLicence
    /\ db' = [db EXCEPT !.completed = @ \cup {task[w]},
                        !.licences = @ \cup {NewLicence(t, "purchase") :
                                                t \in {task[w]} \ Gift}]
    /\ settled' = [settled EXCEPT ![w] = @ \cup {task[w]}]
    /\ Proceed(w, task[w], "listing")
    /\ UNCHANGED <<snap, expired>>

Complete(w) ==
    /\ pc[w] = "completing"
    /\ View(w) # Lost
    /\ Cardinality(db.licences) < MaxLicence
    /\ db' = [db EXCEPT !.completed = @ \cup {task[w]},
                        !.licences = @ \cup {NewLicence(t, "purchase") :
                                                t \in {task[w]} \ Gift}]
    /\ settled' = [settled EXCEPT ![w] = @ \cup {task[w]}]
    /\ EndOf(w)
    /\ Proceed(w, task[w], "listing")
    /\ UNCHANGED expired

\* cancel_transaction's tests saw the view that the validation saw.
Cancel(w) ==
    /\ pc[w] = "cancelling"
    /\ View(w) # Lost
    /\ db' = [db EXCEPT !.cancelled = @ \cup {task[w]}]
    /\ settled' = [settled EXCEPT ![w] = @ \cup {task[w]}]
    /\ EndOf(w)
    /\ Finish(w)
    /\ UNCHANGED expired

\* cancel_transaction on a broken connection: get_transaction swallows the error and
\* finds nothing, so nothing is rolled back.
CancelNothing(w) ==
    /\ pc[w] = "cancelling"
    /\ View(w) = Lost
    /\ Finish(w)
    /\ UNCHANGED <<db, snap, expired, settled>>

\* An error in a call that writes: all of it is rolled back.  Only the record of a key
\* is not missed, the licence is there.
Fails(w) == pc[w] \in {"creating", "completing", "cancelling", "granting", "recording"}

AfterFailure(w) ==
    IF pc[w] = "recording" THEN Proceed(w, task[w], "listing") ELSE Finish(w)

FailHalfway(w) ==
    /\ Fails(w)
    /\ db' = IF pc[w] = "completing" THEN [db EXCEPT !.completed = @ \cup {task[w]}] ELSE db
    /\ EndOf(w)
    /\ AfterFailure(w)
    /\ UNCHANGED <<expired, settled>>

Fail(w) ==
    /\ Fails(w)
    /\ EndOf(w)
    /\ AfterFailure(w)
    /\ UNCHANGED <<db, expired, settled>>

\* The transaction's details and the licence list of the response.
ListLicences(w) ==
    /\ pc[w] = "listing"
    /\ ReadBy(w)
    /\ Finish(w)
    /\ UNCHANGED <<db, expired, settled>>

\* The response that names the outcome goes out.
Answer(w) ==
    /\ pc[w] \in Outcome
    /\ Finish(w)
    /\ UNCHANGED <<db, snap, expired, settled>>

\* handle_AckPurchaseReceipt: acknowledge_receipt tests nothing but that the row is
\* there and commits a date that nothing here reads; if it is not there, the query
\* for the log rolls a broken session back.  Then comes the licence list.
AckPurchaseReceipt(w, t) ==
    /\ pc[w] = "idle"
    /\ IF View(w) = Lost \/ t \in View(w).made THEN EndOf(w) ELSE ReadBy(w)
    /\ Proceed(w, t, "listing")
    /\ UNCHANGED <<db, expired, settled>>

-----------------------------------------------------------------------------
\* handle_RegisterKey as far as user_has_subscription, which rolls back and answers
\* no when its query fails.
RegisterKey(w, t) ==
    /\ pc[w] = "idle"
    /\ Fresh(t)
    /\ IF View(w) = Lost
         THEN EndOf(w) /\ Proceed(w, t, "granting")
         ELSE /\ ReadBy(w)
              /\ IF Owned(View(w), PackageOf[t]) THEN Refuse(w, t, "owned")
                                                 ELSE Proceed(w, t, "granting")
    /\ UNCHANGED <<db, expired, settled>>

\* create_cdkey_license, in a transaction of its own.
GrantKey(w) ==
    /\ pc[w] = "granting"
    /\ Cardinality(db.licences) < MaxLicence
    /\ db' = [db EXCEPT !.licences = @ \cup {NewLicence(task[w], "key")}]
    /\ EndOf(w)
    /\ Proceed(w, task[w], "recording")
    /\ UNCHANGED <<expired, settled>>

\* The record of the activation is a transaction that nothing completes.
RecordKey(w) ==
    /\ pc[w] = "recording"
    /\ db' = [db EXCEPT !.made = @ \cup {task[w]}]
    /\ EndOf(w)
    /\ Proceed(w, task[w], "listing")
    /\ UNCHANGED <<expired, settled>>

-----------------------------------------------------------------------------
\* Another handler of the thread commits or rolls back the session it shares.
OtherRequest(w) ==
    /\ pc[w] = "idle"
    /\ snap[w] # Closed
    /\ EndOf(w)
    /\ UNCHANGED <<db, expired, pc, task, settled>>

\* The connection of a session breaks while its view is open.
ConnectionLost(w) ==
    /\ snap[w] \notin {Closed, Lost}
    /\ snap' = [snap EXCEPT ![w] = Lost]
    /\ UNCHANGED <<db, expired, pc, task, settled>>

\* 24 hours pass.
Expire(t) ==
    /\ t \in db.made \ expired
    /\ expired' = expired \cup {t}
    /\ UNCHANGED <<db, snap, pc, task, settled>>

Request(w, t) ==
    \/ InitPurchase(w, t)
    \/ CompletePurchase(w, t)
    \/ CancelPurchase(w, t)
    \/ CancelLicense(w, t)
    \/ AckPurchaseReceipt(w, t)
    \/ RegisterKey(w, t)

Step(w) ==
    \/ Create(w)
    \/ Complete(w)
    \/ Cancel(w)
    \/ CancelNothing(w)
    \/ Fail(w)
    \/ ListLicences(w)
    \/ Answer(w)
    \/ GrantKey(w)
    \/ RecordKey(w)

Next ==
    \/ \E w \in Worker :
          \/ \E t \in Transaction : Request(w, t)
          \/ Step(w)
          \/ ReadOnly(w)
          \/ OtherRequest(w)
          \/ ConnectionLost(w)
    \/ \E t \in Transaction : Expire(t)

Spec == Init /\ [][Next]_vars

-----------------------------------------------------------------------------
\* The tables, the sessions and the handlers have their types.
TypeOK ==
    /\ db \in Database
    /\ snap \in [Worker -> Database \cup {Closed, Lost}]
    /\ expired \subseteq Transaction
    /\ pc \in [Worker -> Label]
    /\ task \in [Worker -> Transaction \cup {NoTask}]
    /\ settled \in [Worker -> SUBSET Transaction]

\* A worker never sets out to complete or cancel a transaction that it completed or
\* cancelled before: its own commit ended the view in which the transaction was open.
\* So a transaction is completed, cancelled or both at most once for each worker,
\* and on a server with one worker it has one outcome and one licence.
OneOutcomePerWorker ==
    \A w \in Worker :
        pc[w] \in {"completing", "cancelling"} => task[w] \notin settled[w]

\* complete_transaction is all or nothing: a completed transaction that is no gift has
\* the licence that was bought with it, and no licence of that kind exists without the
\* completed transaction, whatever fails between the steps and whoever completes or
\* cancels the same transaction at the same time.
CompletedIsGranted ==
    /\ \A t \in db.completed \ Gift :
          \E l \in db.licences : l.of = t /\ l.cause = "purchase"
    /\ \A l \in db.licences : l.cause = "purchase" => l.of \in db.completed \ Gift

\* A refusal that names an outcome names one that happened.  A view may be older than
\* the rows, so a worker may let through what should be refused, never the reverse.
RefusalsAreTrue ==
    \A w \in Worker :
        /\ pc[w] = "completed" => task[w] \in db.completed
        /\ pc[w] = "cancelled" => task[w] \in db.cancelled
        /\ pc[w] = "owned" => Owned(db, PackageOf[task[w]])

\* owns_subscription tells the current ownership (client.py:726): a purchase that the
\* database connection can answer goes on only if the account has no licence for it.
OwnershipIsCurrent ==
    [][\A w \in Worker :
          pc[w] = "idle" /\ pc'[w] = "creating" => ~ Owned(db, PackageOf[task'[w]])]_vars
=============================================================================
