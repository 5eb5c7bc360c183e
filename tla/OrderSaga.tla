----------------------------- MODULE OrderSaga ------------------------------
(***************************************************************************)
(* create_order of order-service: the saga that takes the items of one     *)
(* order from product-service and pays them at payment-service, one        *)
(* coroutine per order, every await a point where the others move.         *)
(*                                                                         *)
(* The two services are here as their databases and the one transaction    *)
(* each request runs.  Between them and the saga is HTTP: a request that   *)
(* was sent is executed at any later moment or lost, its reply may be late *)
(* or lost, and the caller stops waiting when its timeout strikes - an     *)
(* abandoned request can still be executed.                                *)
(*                                                                         *)
(* The ledger taken/given counts what product-service did for each item;   *)
(* the program has no such record, the properties are about it.            *)
(***************************************************************************)
EXTENDS Integers, Sequences, FiniteSets, Functions

CONSTANTS
  Orders,      \* POST /orders requests
  Products,
  Items,       \* payload.items: order -> sequence of [product, qty]
  InitStock,   \* stock of each product before the first order
  MaxRetry,    \* max_optimistic_retry
  Faults       \* what may go wrong around the saga, a subset of FaultKinds

FaultKinds ==
  { "crash",       \* the order-service process, or one request of it, dies
    "network",     \* requests and replies are lost or outlive the timeout
    "error",       \* a service answers 5xx
    "stale",       \* GET /products answers from a cache that is behind
    "admin",       \* products are switched off and on
    "nats" }       \* there is no NATS connection

ASSUME OrderSagaAssumption ==
  /\ Items \in [Orders -> Seq([product : Products, qty : Nat \ {0}])]
  /\ \A o \in Orders :
       /\ Items[o] # <<>>
       /\ \A i, j \in DOMAIN Items[o] :
            Items[o][i].product = Items[o][j].product => i = j
  /\ InitStock \in [Products -> Nat]
  /\ MaxRetry \in Nat \ {0}
  /\ Faults \subseteq FaultKinds

VARIABLES
  \* the coroutine create_order of each order
  pc,          \* where it is suspended
  item,        \* position in items, or in deducted_items when undoing
  held,        \* len(deducted_items), which is a prefix of the items
  seen,        \* version last read for each item
  attempt,     \* attempt of deduct_stock
  undone,      \* rollback_success
  exc,         \* code and HTTP status of the exception being handled
  reply,       \* the response that has arrived, or "none"
  answer,      \* HTTP status sent to the client, 0 before that
  \* the databases, and the network between the services
  rows,        \* orders table
  stock, version, active,   \* products table
  taken, given,             \* ledger: times an item was deducted, restored
  payment,     \* payments table: order -> "none", "APPROVED", "REJECTED"
  net,         \* requests sent and neither executed nor lost
  published    \* orders whose order.completed event was handed to NATS

control   == <<pc, item>>
buying    == <<held, seen, attempt>>
failing   == <<undone, exc>>
coroutine == <<control, buying, failing, reply, answer>>
products  == <<stock, version, active, taken, given>>
outside   == <<products, payment, net, published>>
vars      == <<coroutine, rows, outside>>

L == INSTANCE OrderLifecycle

\* What the two services promise; ProductStore and Payment implement it.
Goods == INSTANCE StockAccounts WITH Recounted <- {}
Money == INSTANCE PaymentRecord WITH status <- payment

\* OrderEvents, before anyone listens: an order is in the hands of a
\* coroutine from its INSERT to its answer, for ever if that has died.
Events == INSTANCE OrderEvents WITH
  Foreign <- {}, None <- "nothing",
  running <- {o \in Orders : rows[o] # L!NoRow /\ pc[o] # "done"},
  link <- "open", wire <- published,
  stage <- "connect", client <- "none", subscribed <- FALSE,
  unclosed <- FALSE, inbox <- <<>>, handling <- "nothing",
  outcome <- [o \in Orders |-> "none"], taken <- [o \in Orders |-> 0]

-----------------------------------------------------------------------------
Steps == {"lookup", "create", "deduct", "deducting", "reread",
          "stockDeducted", "paymentRequested", "pay", "paying", "completed",
          "publish", "flag", "restore", "restoring", "done", "dead"}

\* REFUSED is the 404 of a missing product and the 402 of a rejected payment,
\* ERROR any 5xx.
Codes == {"none", "ok", "VERSION_CONFLICT", "INSUFFICIENT_STOCK", "REFUSED",
          "ERROR"}

\* TIMEOUT stands for the four codes an unanswered call can raise.
Exception == [code : L!Reason, status : Nat]

Idx(o)        == DOMAIN Items[o]
Product(o, i) == Items[o][i].product
Qty(o, i)     == Items[o][i].qty

Goto(o, step)   == pc' = [pc EXCEPT ![o] = step]
ToItem(o, i)    == item' = [item EXCEPT ![o] = i]
Replied(o, msg) == reply' = [reply EXCEPT ![o] = msg]
Commit(o, row)      == rows' = [rows EXCEPT ![o] = row]
Answered(o, status) == answer' = [answer EXCEPT ![o] = status]

\* A deduction whose UPDATE matched no row lives on as its own diagnosis.
Request == [kind : {"deduct", "diagnose", "restore", "pay"}, order : Orders,
            item : Nat, version : Nat]

Awaiting(kind) == IF kind = "restore" THEN "restoring"
                  ELSE IF kind = "pay" THEN "paying" ELSE "deducting"

Send(o, k, i, v) ==
  /\ net' = net \cup {[kind |-> k, order |-> o, item |-> i, version |-> v]}
  /\ Goto(o, Awaiting(k))

\* An executed request is answered: the reply reaches the caller if that is
\* still waiting for it.
Answer(r, msg) ==
  /\ net' = net \ {r}
  /\ IF pc[r.order] = Awaiting(r.kind) /\ r.item \in {0, item[r.order]}
     THEN Replied(r.order, msg)
     ELSE UNCHANGED reply

\* The caller of an awaited request takes its response ...
Receives(o, k, msg) ==
  pc[o] = Awaiting(k) /\ reply[o] = msg /\ Replied(o, "none")

\* ... or gives up on it: httpx raises TimeoutException, or RequestError when
\* the connection breaks, and nobody knows what became of the request.
TimesOut(o, k) ==
  "network" \in Faults /\ pc[o] = Awaiting(k) /\ Replied(o, "none")

-----------------------------------------------------------------------------
(***************************************************************************)
(* Slips: plausible mistakes in the definitions below, each the body of    *)
(* one of them with a guard, a reset or a commit gone wrong.               *)
(***************************************************************************)
\* Matches without the stock condition, and with > for >=.
MatchesAnyStock(r) ==
  LET p == Product(r.order, r.item) IN active[p] /\ version[p] = r.version

MatchesAboveStock(r) ==
  /\ MatchesAnyStock(r)
  /\ stock[Product(r.order, r.item)] > Qty(r.order, r.item)

\* Reread that keeps the old version.
RereadForgets(o) ==
  /\ pc[o] = "reread"
  /\ attempt' = [attempt EXCEPT ![o] = @ + 1]
  /\ Goto(o, "deduct")
  /\ UNCHANGED <<item, held, seen, failing, reply, answer, rows, outside>>

\* CommitStockDeducted that goes on without the commit of step 5.
PayAtOnce(o) ==
  /\ pc[o] = "stockDeducted"
  /\ Commit(o, [rows[o] EXCEPT !.status = "STOCK_DEDUCTED",
                               !.saga = "STOCK_DEDUCTED",
                               !.stock_deducted = TRUE])
  /\ Goto(o, "pay")
  /\ UNCHANGED <<item, buying, failing, reply, answer, outside>>

\* PaymentApproved that does not look at the status, and one that announces
\* the order before its commit.
AnyAnswerApproves(o) ==
  /\ \E msg \in Codes \ {"none"} : Receives(o, "pay", msg)
  /\ Goto(o, "completed")
  /\ UNCHANGED <<item, buying, failing, answer, rows, outside>>

AnnounceEarly(o) ==
  /\ Receives(o, "pay", "ok")
  /\ Goto(o, "completed")
  /\ published' = published \cup {o}
  /\ UNCHANGED <<item, buying, failing, answer, rows, products, payment, net>>

\* PaymentFails that takes a timeout for a rejection.
TimeoutIsRejection(o) ==
  /\ TimesOut(o, "pay")
  /\ exc' = [exc EXCEPT ![o] = [code |-> "PAYMENT_REJECTED", status |-> 402]]
  /\ ToItem(o, 1)
  /\ Goto(o, "flag")
  /\ UNCHANGED <<buying, undone, answer, rows, outside>>

\* PaymentFails that tries again after a timeout.
TimeoutIsRetried(o) ==
  /\ TimesOut(o, "pay")
  /\ Goto(o, "pay")
  /\ UNCHANGED <<item, buying, failing, answer, rows, outside>>

\* CommitRollbackNeeded without its commit.
RestoreAtOnce(o) ==
  /\ pc[o] = "flag"
  /\ Goto(o, "restore")
  /\ UNCHANGED <<item, buying, failing, reply, answer, rows, outside>>

\* SendRestore that undoes all items of the order.
RestoreEveryItem(o) ==
  /\ pc[o] = "restore"
  /\ item[o] <= Len(Items[o])
  /\ Send(o, "restore", item[o], 0)
  /\ UNCHANGED <<item, buying, failing, reply, answer, rows, products,
                 payment, published>>

\* RestoreReturns that ignores the result, and one that repeats a failure.
RestoreAlwaysFine(o) ==
  /\ \/ \E msg \in Codes \ {"none"} : Receives(o, "restore", msg)
     \/ TimesOut(o, "restore")
  /\ ToItem(o, item[o] + 1)
  /\ Goto(o, "restore")
  /\ UNCHANGED <<buying, failing, answer, rows, outside>>

RestoreRepeats(o) ==
  /\ \/ Receives(o, "restore", "ok") /\ ToItem(o, item[o] + 1)
     \/ Receives(o, "restore", "ERROR") /\ UNCHANGED item
     \/ TimesOut(o, "restore") /\ UNCHANGED item
  /\ Goto(o, "restore")
  /\ UNCHANGED <<buying, failing, answer, rows, outside>>

-----------------------------------------------------------------------------
Init ==
  /\ pc = [o \in Orders |-> "lookup"]
  /\ item = [o \in Orders |-> 1]
  /\ held = [o \in Orders |-> 0]
  /\ seen = [o \in Orders |-> [i \in Idx(o) |-> 0]]
  /\ attempt = [o \in Orders |-> 1]
  /\ undone = [o \in Orders |-> TRUE]
  /\ exc = [o \in Orders |-> [code |-> "none", status |-> 0]]
  /\ reply = [o \in Orders |-> "none"]
  /\ answer = [o \in Orders |-> 0]
  /\ L!Init
  /\ stock = InitStock
  /\ version = [p \in Products |-> 1]
  /\ active = [p \in Products |-> TRUE]
  /\ taken = [o \in Orders |-> [i \in Idx(o) |-> 0]]
  /\ given = taken
  /\ payment = [o \in Orders |-> "none"]
  /\ net = {}
  /\ published = {}

(***************************************************************************)
(* Reading a product.  product-service shows active products only, through *)
(* a cache that can still hold an earlier version.                         *)
(***************************************************************************)
Readable(p) ==
  (IF active[p] THEN {version[p]} ELSE {})
    \cup (IF "stale" \in Faults THEN 1 .. version[p] ELSE {})

Unreadable(p) == ~active[p] \/ Faults \cap {"network", "error"} # {}

Reads(o) ==
  \E v \in Readable(Product(o, item[o])) :
     seen' = [seen EXCEPT ![o][item[o]] = v]

\* Step 1 of create_order, one item at a time.
LookUp(o) ==
  /\ pc[o] = "lookup"
  /\ Reads(o)
  /\ \/ /\ item[o] < Len(Items[o])
        /\ ToItem(o, item[o] + 1)
        /\ UNCHANGED pc
     \/ /\ item[o] = Len(Items[o])
        /\ ToItem(o, 1)
        /\ Goto(o, "create")
  /\ UNCHANGED <<held, attempt, failing, reply, answer, rows, outside>>

\* Refused before anything is stored.
LookUpFails(o) ==
  /\ pc[o] = "lookup"
  /\ \/ ~active[Product(o, item[o])] /\ Answered(o, 404)
     \/ "error" \in Faults /\ Answered(o, 500)
     \/ "network" \in Faults /\ Answered(o, 504)
  /\ Goto(o, "done")
  /\ UNCHANGED <<item, buying, failing, reply, rows, outside>>

\* Step 2: the order and its items are committed.
CreateOrder(o) ==
  /\ pc[o] = "create"
  /\ Commit(o, L!NewRow)
  /\ Goto(o, "deduct")
  /\ UNCHANGED <<item, buying, failing, reply, answer, outside>>

(***************************************************************************)
(* Step 3: the items are deducted one after the other, each with the       *)
(* version read for it; a version conflict rereads the version and tries   *)
(* again.                                                                  *)
(***************************************************************************)
SendDeduct(o) ==
  /\ pc[o] = "deduct"
  /\ Send(o, "deduct", item[o], seen[o][item[o]])
  /\ UNCHANGED <<item, buying, failing, reply, answer, rows, products,
                 payment, published>>

Deducted(o) ==
  /\ Receives(o, "deduct", "ok")
  /\ held' = [held EXCEPT ![o] = @ + 1]
  /\ attempt' = [attempt EXCEPT ![o] = 1]
  /\ \/ /\ item[o] < Len(Items[o])
        /\ ToItem(o, item[o] + 1)
        /\ Goto(o, "deduct")
     \/ /\ item[o] = Len(Items[o])
        /\ Goto(o, "stockDeducted")
        /\ UNCHANGED item
  /\ UNCHANGED <<seen, failing, answer, rows, outside>>

DeductConflicts(o) ==
  /\ Receives(o, "deduct", "VERSION_CONFLICT")
  /\ attempt[o] < MaxRetry
  /\ Goto(o, "reread")
  /\ UNCHANGED <<item, buying, failing, answer, rows, outside>>

Reread(o) ==
  /\ pc[o] = "reread"
  /\ Reads(o)
  /\ attempt' = [attempt EXCEPT ![o] = @ + 1]
  /\ Goto(o, "deduct")
  /\ UNCHANGED <<item, held, failing, reply, answer, rows, outside>>

\* An exception turns the saga around, to restore what deducted_items holds.
Raises(o, code, status, step) ==
  /\ exc' = [exc EXCEPT ![o] = [code |-> code, status |-> status]]
  /\ undone' = [undone EXCEPT ![o] = TRUE]
  /\ ToItem(o, 1)
  /\ Goto(o, step)

DeductFails(o) ==
  /\ \/ /\ Receives(o, "deduct", "INSUFFICIENT_STOCK")
        /\ Raises(o, "INSUFFICIENT_STOCK", 409, "restore")
     \/ /\ Receives(o, "deduct", "REFUSED")
        /\ Raises(o, "STOCK_DEDUCT_ERROR", 404, "restore")
     \/ /\ Receives(o, "deduct", "ERROR")
        /\ Raises(o, "STOCK_DEDUCT_ERROR", 500, "restore")
     \/ /\ Receives(o, "deduct", "VERSION_CONFLICT")
        /\ attempt[o] = MaxRetry
        /\ Raises(o, "ORDER_STOCK_CONFLICT", 409, "restore")
     \/ /\ pc[o] = "reread"
        /\ Unreadable(Product(o, item[o]))
        /\ Raises(o, "PRODUCT_SERVICE_ERROR", 503, "restore")
        /\ UNCHANGED reply
     \/ /\ TimesOut(o, "deduct")
        /\ Raises(o, "TIMEOUT", 504, "restore")
  /\ UNCHANGED <<buying, answer, rows, outside>>

(***************************************************************************)
(* Steps 4 to 6: the deduction is recorded, then the payment request, then *)
(* the payment is asked for; an approved one completes the order and is    *)
(* announced.                                                              *)
(***************************************************************************)
CommitStockDeducted(o) ==
  /\ pc[o] = "stockDeducted"
  /\ Commit(o, [rows[o] EXCEPT !.status = "STOCK_DEDUCTED",
                               !.saga = "STOCK_DEDUCTED",
                               !.stock_deducted = TRUE])
  /\ Goto(o, "paymentRequested")
  /\ UNCHANGED <<item, buying, failing, reply, answer, outside>>

CommitPaymentRequested(o) ==
  /\ pc[o] = "paymentRequested"
  /\ Commit(o, [rows[o] EXCEPT !.status = "PAYMENT_REQUESTED",
                               !.saga = "PAYMENT_REQUESTED"])
  /\ Goto(o, "pay")
  /\ UNCHANGED <<item, buying, failing, reply, answer, outside>>

SendPayment(o) ==
  /\ pc[o] = "pay"
  /\ Send(o, "pay", 0, 0)
  /\ UNCHANGED <<item, buying, failing, reply, answer, rows, products,
                 payment, published>>

PaymentApproved(o) ==
  /\ Receives(o, "pay", "ok")
  /\ Goto(o, "completed")
  /\ UNCHANGED <<item, buying, failing, answer, rows, outside>>

\* An answer without a code of its own counts as PAYMENT_REJECTED too.
PaymentFails(o) ==
  /\ \/ /\ Receives(o, "pay", "REFUSED")
        /\ Raises(o, "PAYMENT_REJECTED", 402, "flag")
     \/ /\ Receives(o, "pay", "ERROR")
        /\ Raises(o, "PAYMENT_REJECTED", 502, "flag")
     \/ /\ TimesOut(o, "pay")
        /\ Raises(o, "TIMEOUT", 504, "flag")
  /\ UNCHANGED <<buying, answer, rows, outside>>

CommitCompleted(o) ==
  /\ pc[o] = "completed"
  /\ Commit(o, [rows[o] EXCEPT !.status = "COMPLETED",
                               !.saga = "COMPLETED",
                               !.paid = TRUE])
  /\ Goto(o, "publish")
  /\ UNCHANGED <<item, buying, failing, reply, answer, outside>>

\* Best effort: without a connection the event is dropped, the order stays.
\* The row is read once more for the answer, which can fail behind it all.
Publish(o) ==
  /\ pc[o] = "publish"
  /\ \/ published' = published \cup {o}
     \/ "nats" \in Faults /\ UNCHANGED published
  /\ \/ Answered(o, 201)
     \/ "crash" \in Faults /\ Answered(o, 500)
  /\ Goto(o, "done")
  /\ UNCHANGED <<item, buying, failing, reply, rows, products, payment, net>>

(***************************************************************************)
(* Compensation.  A failed payment is recorded before the first restore;   *)
(* a failed deduction goes straight to it.                                 *)
(***************************************************************************)
CommitRollbackNeeded(o) ==
  /\ pc[o] = "flag"
  /\ Commit(o, [rows[o] EXCEPT !.saga = "STOCK_ROLLBACK_NEEDED",
                               !.reason = exc[o].code])
  /\ Goto(o, "restore")
  /\ UNCHANGED <<item, buying, failing, reply, answer, outside>>

SendRestore(o) ==
  /\ pc[o] = "restore"
  /\ item[o] <= held[o]
  /\ Send(o, "restore", item[o], 0)
  /\ UNCHANGED <<item, buying, failing, reply, answer, rows, products,
                 payment, published>>

\* Only a 200 counts as restored; failures are swallowed and never retried.
RestoreReturns(o) ==
  /\ \/ Receives(o, "restore", "ok") /\ UNCHANGED undone
     \/ /\ \/ Receives(o, "restore", "REFUSED")
           \/ Receives(o, "restore", "ERROR")
           \/ TimesOut(o, "restore")
        /\ undone' = [undone EXCEPT ![o] = FALSE]
  /\ ToItem(o, item[o] + 1)
  /\ Goto(o, "restore")
  /\ UNCHANGED <<buying, exc, answer, rows, outside>>

CommitFailed(o) ==
  /\ pc[o] = "restore"
  /\ item[o] > held[o]
  /\ Commit(o, [rows[o] EXCEPT !.status = "FAILED",
                               !.saga = IF undone[o] THEN "STOCK_ROLLED_BACK"
                                         ELSE "STOCK_ROLLBACK_NEEDED",
                               !.reason = exc[o].code])
  /\ Answered(o, exc[o].status)
  /\ Goto(o, "done")
  /\ UNCHANGED <<item, buying, failing, reply, outside>>

(***************************************************************************)
(* The coroutine is gone and the row is what was last committed: one       *)
(* request died of a database error, or the process with all its requests. *)
(* Nothing resumes an order.                                               *)
(***************************************************************************)
\* A commit is to come, or the last one went through and its acknowledgement
\* or the refresh behind it fails.  That of FAILED counts as acknowledged:
\* otherwise only the answer would be another one, 500.
OnDatabase(o) ==
  \/ pc[o] \in {"create", "stockDeducted", "paymentRequested", "pay",
                "completed", "publish", "flag"}
  \/ pc[o] = "deduct" /\ item[o] = 1 /\ attempt[o] = 1
  \/ /\ pc[o] = "restore"
     /\ item[o] > held[o] \/ (item[o] = 1 /\ rows[o].stock_deducted)

RequestDies(o) ==
  /\ "crash" \in Faults
  /\ OnDatabase(o)
  /\ Goto(o, "dead")
  /\ UNCHANGED <<item, buying, failing, reply, answer, rows, outside>>

\* A request still at its first look-up has left no trace: it counts as
\* arriving after the restart.
Running(o) == /\ pc[o] \notin {"done", "dead"}
              /\ pc[o] # "lookup" \/ item[o] > 1

Crash ==
  /\ "crash" \in Faults
  /\ pc' = [o \in Orders |-> IF Running(o) THEN "dead" ELSE pc[o]]
  /\ reply' = [o \in Orders |-> "none"]
  /\ UNCHANGED <<item, buying, failing, answer, rows, outside>>

-----------------------------------------------------------------------------
(***************************************************************************)
(* product-service: one conditional UPDATE per request.  When that matches *)
(* no row, a SELECT looks for the reason - in the row as it is by then.    *)
(* A 5xx says nothing of the row: the transaction may have failed, or its  *)
(* commit went through and only the acknowledgement was lost.              *)
(***************************************************************************)
Matches(r) ==
  LET p == Product(r.order, r.item)
  IN  active[p] /\ version[p] = r.version /\ stock[p] >= Qty(r.order, r.item)

ServeDeduct(r) ==
  /\ r.kind = "deduct"
  /\ LET p == Product(r.order, r.item) IN
     \/ /\ Matches(r)
        /\ stock' = [stock EXCEPT ![p] = @ - Qty(r.order, r.item)]
        /\ version' = [version EXCEPT ![p] = @ + 1]
        /\ taken' = [taken EXCEPT ![r.order][r.item] = @ + 1]
        /\ \/ Answer(r, "ok")
           \/ "error" \in Faults /\ Answer(r, "ERROR")
     \/ /\ ~Matches(r)
        /\ net' = (net \ {r}) \cup {[r EXCEPT !.kind = "diagnose"]}
        /\ UNCHANGED <<reply, stock, version, taken>>
     \/ /\ "error" \in Faults
        /\ Answer(r, "ERROR")
        /\ UNCHANGED <<stock, version, taken>>
  /\ UNCHANGED <<control, buying, failing, answer, rows, active, given,
                 payment, published>>

Diagnose(r) ==
  /\ r.kind = "diagnose"
  /\ LET p == Product(r.order, r.item)
     IN  Answer(r, CASE ~active[p] -> "REFUSED"
                     [] active[p] /\ version[p] # r.version -> "VERSION_CONFLICT"
                     [] OTHER -> "INSUFFICIENT_STOCK")
  /\ UNCHANGED <<control, buying, failing, answer, rows, products, payment,
                 published>>

\* A product that is switched off takes nothing back.
ServeRestore(r) ==
  /\ r.kind = "restore"
  /\ LET p == Product(r.order, r.item) IN
     \/ /\ active[p]
        /\ stock' = [stock EXCEPT ![p] = @ + Qty(r.order, r.item)]
        /\ version' = [version EXCEPT ![p] = @ + 1]
        /\ given' = [given EXCEPT ![r.order][r.item] = @ + 1]
        /\ \/ Answer(r, "ok")
           \/ "error" \in Faults /\ Answer(r, "ERROR")
     \/ /\ ~active[p]
        /\ Answer(r, "REFUSED")
        /\ UNCHANGED <<stock, version, given>>
     \/ /\ "error" \in Faults
        /\ Answer(r, "ERROR")
        /\ UNCHANGED <<stock, version, given>>
  /\ UNCHANGED <<control, buying, failing, answer, rows, active, taken,
                 payment, published>>

AdminSetsActive(p) ==
  /\ "admin" \in Faults
  /\ active' = [active EXCEPT ![p] = ~@]
  /\ UNCHANGED <<coroutine, rows, stock, version, taken, given, payment,
                 net, published>>

(***************************************************************************)
(* payment-service: one payment per order, approved or rejected as the     *)
(* simulated PG decides.  Again a 5xx can come before its commit or after. *)
(***************************************************************************)
ServePayment(r) ==
  /\ r.kind = "pay"
  /\ \/ /\ payment' = [payment EXCEPT ![r.order] = "APPROVED"]
        /\ Answer(r, "ok")
     \/ /\ payment' = [payment EXCEPT ![r.order] = "REJECTED"]
        /\ Answer(r, "REFUSED")
     \/ /\ "error" \in Faults
        /\ \/ UNCHANGED payment
           \/ \E decision \in {"APPROVED", "REJECTED"} :
                payment' = [payment EXCEPT ![r.order] = decision]
        /\ Answer(r, "ERROR")
  /\ UNCHANGED <<control, buying, failing, answer, rows, products, published>>

LoseRequest(r) ==
  /\ "network" \in Faults
  /\ net' = net \ {r}
  /\ UNCHANGED <<coroutine, rows, products, payment, published>>

-----------------------------------------------------------------------------
Saga(o) ==
  \/ LookUp(o) \/ LookUpFails(o) \/ CreateOrder(o)
  \/ SendDeduct(o) \/ Deducted(o) \/ DeductConflicts(o) \/ Reread(o)
  \/ DeductFails(o)
  \/ CommitStockDeducted(o) \/ CommitPaymentRequested(o)
  \/ SendPayment(o) \/ PaymentApproved(o) \/ PaymentFails(o)
  \/ CommitCompleted(o) \/ Publish(o)
  \/ CommitRollbackNeeded(o) \/ SendRestore(o) \/ RestoreReturns(o)
  \/ CommitFailed(o)

Serve(r) == \/ ServeDeduct(r) \/ Diagnose(r)
            \/ ServeRestore(r) \/ ServePayment(r)

Next ==
  \/ \E o \in Orders : Saga(o) \/ RequestDies(o)
  \/ Crash
  \/ \E r \in net : Serve(r) \/ LoseRequest(r)
  \/ \E p \in Products : AdminSetsActive(p)

\* The event loop resumes every coroutine whose await is over, httpx bounds
\* every await, and a service answers the requests that reach it.
Spec == /\ Init /\ [][Next]_vars
        /\ \A o \in Orders : WF_vars(Saga(o))
        /\ WF_vars(\E r \in net : Serve(r))
-----------------------------------------------------------------------------
(* Properties                                                              *)

CoOK ==
  /\ pc \in [Orders -> Steps]
  /\ item \in [Orders -> Nat \ {0}]
  /\ held \in [Orders -> Nat]
  /\ DOMAIN seen = Orders /\ \A o \in Orders : seen[o] \in [Idx(o) -> Nat]
  /\ attempt \in [Orders -> Nat \ {0}]
  /\ undone \in [Orders -> BOOLEAN]
  /\ exc \in [Orders -> Exception]
  /\ reply \in [Orders -> Codes]
  /\ answer \in [Orders -> Nat]

RowsOK == rows \in [Orders -> L!Row \cup {L!NoRow}]

ProductsOK ==
  /\ stock \in [Products -> Nat]
  /\ version \in [Products -> Nat \ {0}]
  /\ active \in [Products -> BOOLEAN]

LedgerOK ==
  /\ DOMAIN taken = Orders /\ \A o \in Orders : taken[o] \in [Idx(o) -> Nat]
  /\ DOMAIN given = Orders /\ \A o \in Orders : given[o] \in [Idx(o) -> Nat]

NetOK ==
  /\ net \subseteq Request
  /\ \A r \in net : r.kind # "pay" => r.item \in Idx(r.order)

TypeOK ==
  /\ CoOK /\ RowsOK /\ ProductsOK /\ LedgerOK /\ NetOK
  /\ payment \in [Orders -> {"none", "APPROVED", "REJECTED"}]
  /\ published \subseteq Orders

\* No item is deducted twice, and nothing is restored that was not deducted:
\* whatever is late, lost or retried, compensation creates no stock.
StockNeverCreated ==
  \A o \in Orders : \A i \in Idx(o) : given[o][i] <= taken[o][i]
                                      /\ taken[o][i] <= 1

HasStatus(o, status) == rows[o] # L!NoRow /\ rows[o].status = status
Completed(o) == HasStatus(o, "COMPLETED")
Failed(o)    == HasStatus(o, "FAILED")
RolledBack(o) == Failed(o) /\ rows[o].saga = "STOCK_ROLLED_BACK"

Kept(o) == {i \in Idx(o) : taken[o][i] > given[o][i]}

\* A COMPLETED order has its money taken and every item deducted and kept.
CompletedIsPaidAndKept ==
  \A o \in Orders : Completed(o) => /\ payment[o] = "APPROVED"
                                    /\ rows[o].paid
                                    /\ Kept(o) = Idx(o)

\* Behind STOCK_ROLLED_BACK every item is given back but one at most: the one
\* of a deduction without an answer, or with a 5xx, which the saga took for
\* not done.  A row that was reserved is rolled back completely.
RolledBackIsReleased ==
  \A o \in Orders : RolledBack(o) =>
     /\ Cardinality(Kept(o)) <= 1
     /\ Kept(o) # {} => /\ rows[o].reason \in {"TIMEOUT", "STOCK_DEDUCT_ERROR"}
                        /\ ~rows[o].stock_deducted

\* Once stock_deducted is committed, no restore is sent before the row says
\* STOCK_ROLLBACK_NEEDED.
FlaggedBeforeRestore ==
  \A o \in Orders :
     /\ rows[o] # L!NoRow /\ rows[o].stock_deducted
     /\ \/ \E r \in net : r.kind = "restore" /\ r.order = o
        \/ \E i \in Idx(o) : given[o][i] > 0
     => rows[o].saga \in {"STOCK_ROLLBACK_NEEDED", "STOCK_ROLLED_BACK"}

\* A client that is told its order failed for a reason of its own (4xx) is
\* not charged, and never will be: only a 5xx leaves that open.
RefusedIsNotCharged ==
  \A o \in Orders :
     answer[o] \in 400 .. 499 =>
        /\ payment[o] # "APPROVED"
        /\ ~ \E r \in net : r.kind = "pay" /\ r.order = o

\* order.completed is announced for committed COMPLETED orders only.
AnnouncedIsCompleted == \A o \in published : Completed(o)

\* The items of all orders, and what the orders of S ask of a product.
Lines == UNION {{o} \X Idx(o) : o \in Orders}
LinesOf(p) == {x \in Lines : Product(x[1], x[2]) = p}
Wanted == [x \in Lines |-> Qty(x[1], x[2])]

Demand(S, p) == SumFunctionOnSet(Wanted, {x \in LinesOf(p) : x[1] \in S})

\* The completed orders together never hold more than there was.
NoOversell ==
  \A p \in Products : Demand({o \in Orders : Completed(o)}, p) <= InitStock[p]

\* What n conflicts in a row say of a product: each attempt has read a version
\* later than the last, so it was changed n times - but from a cache that is
\* behind they all can have read the same version, outdated by one change.
Changes(n) == IF "stale" \in Faults THEN 1 ELSE n

\* An order gives up on conflicts only when others really changed its product,
\* MaxRetry times if the rereads see the current version.
ConflictMeansContention ==
  \A o \in Orders : exc[o].code = "ORDER_STOCK_CONFLICT" =>
     version[Product(o, held[o] + 1)] > Changes(MaxRetry)

\* An order is only told that stock is insufficient for an item that cannot
\* be had by everyone who asks for it.
SoldOutMeansScarce ==
  \A o \in Orders : exc[o].code = "INSUFFICIENT_STOCK" =>
     LET p == Product(o, held[o] + 1)
     IN  Demand(Orders, p) > InitStock[p]

\* Every order ends with an answer, and with no row or a final one.
EveryOrderSettles ==
  \A o \in Orders : <>(/\ answer[o] > 0
                       /\ rows[o] = L!NoRow \/ Completed(o) \/ Failed(o))

\* What the saga asks of the two services, late and abandoned requests
\* included, is within what they promise: no stock below zero or without a
\* version, no second decision on a payment.
PromisesKept == Goods!Spec /\ Money!Spec

\* A row lives as OrderLifecycle says: no commit of the saga skips a step.
Lifecycle == L!Spec

\* Of all that OrderEvents allows, the saga does what a coroutine does: it
\* commits its row along the life of OrderLifecycle, and hands its one event
\* to NATS as its last step, behind the commit of COMPLETED.
ProducesEvents ==
  /\ Events!Init
  /\ [][\E o \in Orders :
          pc'[o] # pc[o] /\ (Events!Commit(o) \/ Events!Publish(o))]_(Events!vars)

-----------------------------------------------------------------------------
(* Statements of the repository that the code does not keep.               *)

\* models.py, on saga_status and stock_deducted: after a failure the row
\* alone tells what is to be recovered.
RecoverableFromRow ==
  \A o \in Orders : pc[o] = "dead" /\ Kept(o) # {} =>
     rows[o].stock_deducted \/ rows[o].saga = "STOCK_ROLLBACK_NEEDED"

\* ERD_structure.md, on SagaStatus: STOCK_ROLLED_BACK says that the stock has
\* been rolled back.  models.py has an order whose deduction failed end as
\* FAILED instead, which would say nothing of the sort.
RolledBackIsComplete == \A o \in Orders : RolledBack(o) => Kept(o) = {}

\* models.py, on OrderStatus: an order that leaves PAYMENT_REQUESTED as
\* FAILED is one whose payment failed.
FailedIsNotCharged == \A o \in Orders : Failed(o) => payment[o] # "APPROVED"

=============================================================================
