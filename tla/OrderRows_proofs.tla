-------------------------- MODULE OrderRows_proofs --------------------------
(***************************************************************************)
(* What an order's row and its answer tell: that the saga implements       *)
(* OrderLifecycle, flags an order before it restores its stock, asks for   *)
(* one payment and charges nobody it refuses, means COMPLETED and          *)
(* STOCK_ROLLED_BACK when it writes them, and oversells nothing.           *)
(*                                                                         *)
(* The invariants tie the row, the payment and the ledger of an order to   *)
(* the place its coroutine has reached; where the coroutine is gone they   *)
(* say what the row says, since only the coroutine writes the row.         *)
(***************************************************************************)
EXTENDS OrderSaga_proofs

Fresh(R)    == /\ R.status = "PENDING" /\ R.saga = "STARTED"
               /\ R.reason = "none" /\ ~R.stock_deducted
Reserved(R) == /\ R.status = "STOCK_DEDUCTED" /\ R.saga = "STOCK_DEDUCTED"
               /\ R.reason = "none"
Asked(R)    == /\ R.status = "PAYMENT_REQUESTED" /\ R.saga = "PAYMENT_REQUESTED"
               /\ R.reason = "none"
Flagged(R, code) == /\ R.status = "PAYMENT_REQUESTED"
                    /\ R.saga = "STOCK_ROLLBACK_NEEDED" /\ R.reason = code

Agrees(o) ==
  /\ pc[o] \in {"lookup", "create"} => rows[o] = L!NoRow
  /\ pc[o] \in {"deduct", "deducting", "reread", "stockDeducted"}
       => Fresh(rows[o])
  /\ pc[o] = "paymentRequested" => Reserved(rows[o])
  /\ pc[o] \in {"pay", "paying", "completed", "flag"} => Asked(rows[o])
  /\ pc[o] \in {"restore", "restoring"}
       => Fresh(rows[o]) \/ Flagged(rows[o], exc[o].code)
  /\ pc[o] \in {"flag", "restore", "restoring"} => exc[o].code # "none"

RowsAgree == \A o \in Orders : Agrees(o)

LEMMA InitRowsAgree == Init => RowsAgree
BY DEF Init, L!Init, RowsAgree, Agrees

LEMMA RowTyped ==
  ASSUME Placed
  PROVE  /\ pc \in [Orders -> Steps] /\ exc \in [Orders -> Exception]
         /\ rows \in [Orders -> L!Row \cup {L!NoRow}]
         /\ \A o \in Orders :
              pc[o] \notin {"lookup", "create", "done", "dead"}
                => rows[o] \in L!Row
BY DEF Placed, TypeOK, CoOK, RowsOK, RowPresent

(* The steps between two commits.                                          *)
LEMMA RowStays ==
  ASSUME Placed, RowsAgree,
         \/ \E o \in Orders :
              \/ LookUp(o) \/ LookUpFails(o) \/ SendDeduct(o) \/ Deducted(o)
              \/ DeductConflicts(o) \/ Reread(o) \/ DeductFails(o)
              \/ SendPayment(o) \/ PaymentApproved(o) \/ PaymentFails(o)
              \/ Publish(o) \/ SendRestore(o) \/ RestoreReturns(o)
              \/ RequestDies(o)
         \/ Crash
         \/ \E r \in net : Serve(r) \/ LoseRequest(r)
         \/ \E p \in Products : AdminSetsActive(p)
         \/ UNCHANGED vars
  PROVE  rows' = rows /\ RowsAgree'
<1>1. CASE \E o \in Orders : LookUp(o) \/ LookUpFails(o) \/ SendDeduct(o)
                             \/ Deducted(o) \/ DeductConflicts(o) \/ Reread(o)
  BY <1>1, RowTyped DEF LookUp, LookUpFails, SendDeduct, Send, Awaiting,
     Deducted, DeductConflicts, Reread, Receives, Goto, failing, RowsAgree,
     Agrees
<1>2. CASE \E o \in Orders : SendPayment(o) \/ PaymentApproved(o) \/ Publish(o)
                             \/ SendRestore(o) \/ RestoreReturns(o)
                             \/ RequestDies(o)
  BY <1>2, RowTyped DEF SendPayment, Send, Awaiting, PaymentApproved, Publish,
     SendRestore, RestoreReturns, RequestDies, Receives, TimesOut, Goto,
     failing, RowsAgree, Agrees
<1>3. CASE \E o \in Orders : DeductFails(o) \/ PaymentFails(o)
  BY <1>3, RowTyped DEF DeductFails, PaymentFails, Raises, Receives, TimesOut,
     Awaiting, Goto, RowsAgree, Agrees
<1>4. CASE Crash
  BY <1>4, RowTyped DEF Crash, failing, RowsAgree, Agrees
<1>5. CASE \/ \E r \in net : Serve(r) \/ LoseRequest(r)
           \/ \E p \in Products : AdminSetsActive(p)
           \/ UNCHANGED vars
  <2>1. UNCHANGED <<pc, exc, rows>>
    BY <1>5 DEF Serve, ServeDeduct, Diagnose, ServeRestore, ServePayment,
       LoseRequest, AdminSetsActive, vars, coroutine, control, failing
  <2> QED
    BY <2>1 DEF RowsAgree, Agrees
<1> QED
  BY <1>1, <1>2, <1>3, <1>4, <1>5

(***************************************************************************)
(* The six commits: each is the step of OrderLifecycle it should be.       *)
(***************************************************************************)
LEMMA CommitsAreSteps ==
  ASSUME Placed, RowsAgree, NEW o \in Orders
  PROVE  /\ CreateOrder(o) => L!Place(o)
         /\ CommitStockDeducted(o) => L!Reserve(o)
         /\ CommitPaymentRequested(o) => L!RequestPayment(o)
         /\ CommitCompleted(o) => L!Complete(o)
         /\ CommitRollbackNeeded(o) => L!NeedRollback(o)
         /\ CommitFailed(o) => L!Fail(o)
<1>1. Agrees(o) /\ exc[o].code \in L!Reason
  BY RowTyped DEF RowsAgree, Exception
<1>2. CreateOrder(o) => L!Place(o)
  BY <1>1 DEF CreateOrder, Commit, Agrees, L!Place
<1>3. pc[o] \notin {"lookup", "create", "done", "dead"} => rows[o] # L!NoRow
  BY DEF Placed, RowPresent
<1>4. CommitStockDeducted(o) => L!Reserve(o)
  BY <1>1, <1>3 DEF CommitStockDeducted, Commit, Agrees, Fresh, L!Reserve, L!At
<1>5. CommitPaymentRequested(o) => L!RequestPayment(o)
  BY <1>1, <1>3 DEF CommitPaymentRequested, Commit, Agrees, Reserved,
     L!RequestPayment, L!At
<1>6. CommitCompleted(o) => L!Complete(o)
  BY <1>1, <1>3 DEF CommitCompleted, Commit, Agrees, Asked, L!Complete, L!At
<1>7. CommitRollbackNeeded(o) => L!NeedRollback(o)
  BY <1>1, <1>3 DEF CommitRollbackNeeded, Commit, Agrees, Asked,
     L!NeedRollback, L!At
<1>8. CommitFailed(o) => L!Fail(o)
  BY <1>1, <1>3 DEF CommitFailed, Commit, Agrees, Fresh, Flagged, L!Fail, L!At
<1> QED
  BY <1>2, <1>4, <1>5, <1>6, <1>7, <1>8

LEMMA Written ==
  ASSUME Placed, NEW o \in Orders, NEW R, Commit(o, R)
  PROVE  rows'[o] = R /\ \A q \in Orders \ {o} : rows'[q] = rows[q]
BY RowTyped DEF Commit

LEMMA CommitsAgree ==
  ASSUME Placed, RowsAgree, NEW o \in Orders,
         \/ CreateOrder(o) \/ CommitStockDeducted(o)
         \/ CommitPaymentRequested(o) \/ CommitCompleted(o)
         \/ CommitRollbackNeeded(o) \/ CommitFailed(o)
  PROVE  RowsAgree'
<1>1. \A q \in Orders \ {o} : Agrees(q)'
  <2>1. \A q \in Orders \ {o} : pc'[q] = pc[q] /\ exc' = exc
    BY RowTyped DEF CreateOrder, CommitStockDeducted, CommitPaymentRequested,
       CommitCompleted, CommitRollbackNeeded, CommitFailed, Goto, failing
  <2>2. \A q \in Orders \ {o} : rows'[q] = rows[q]
    BY RowTyped DEF CreateOrder, CommitStockDeducted, CommitPaymentRequested,
       CommitCompleted, CommitRollbackNeeded, CommitFailed, Commit
  <2> QED
    BY <2>1, <2>2 DEF RowsAgree, Agrees
<1>2. Agrees(o) /\ (pc[o] \notin {"lookup", "create", "done", "dead"}
                      => rows[o] \in L!Row)
  BY RowTyped DEF RowsAgree
<1>3. CASE CreateOrder(o)
  <2>1. pc'[o] = "deduct" /\ rows'[o] = L!NewRow
    BY <1>3, RowTyped, Written DEF CreateOrder, Goto
  <2>2. Fresh(L!NewRow)
    BY DEF Fresh, L!NewRow
  <2> QED
    BY <1>1, <2>1, <2>2 DEF RowsAgree, Agrees
<1>4. CASE CommitStockDeducted(o)
  <2>1. pc'[o] = "paymentRequested"
        /\ rows'[o] = [rows[o] EXCEPT !.status = "STOCK_DEDUCTED",
                                      !.saga = "STOCK_DEDUCTED",
                                      !.stock_deducted = TRUE]
    BY <1>4, RowTyped, Written DEF CommitStockDeducted, Goto
  <2>2. rows[o] \in L!Row /\ rows[o].reason = "none"
    BY <1>2, <1>4 DEF CommitStockDeducted, Agrees, Fresh
  <2>3. Reserved(rows'[o])
    BY <2>1, <2>2, Zenon DEF Reserved, L!Row
  <2> QED
    BY <1>1, <2>1, <2>3 DEF RowsAgree, Agrees
<1>5. CASE CommitPaymentRequested(o)
  <2>1. pc'[o] = "pay"
        /\ rows'[o] = [rows[o] EXCEPT !.status = "PAYMENT_REQUESTED",
                                      !.saga = "PAYMENT_REQUESTED"]
    BY <1>5, RowTyped, Written DEF CommitPaymentRequested, Goto
  <2>2. rows[o] \in L!Row /\ rows[o].reason = "none"
    BY <1>2, <1>5 DEF CommitPaymentRequested, Agrees, Reserved
  <2>3. Asked(rows'[o])
    BY <2>1, <2>2, Zenon DEF Asked, L!Row
  <2> QED
    BY <1>1, <2>1, <2>3 DEF RowsAgree, Agrees
<1>6. CASE CommitRollbackNeeded(o)
  <2>1. pc'[o] = "restore" /\ exc' = exc
        /\ rows'[o] = [rows[o] EXCEPT !.saga = "STOCK_ROLLBACK_NEEDED",
                                      !.reason = exc[o].code]
    BY <1>6, RowTyped, Written DEF CommitRollbackNeeded, Goto, failing
  <2>2. /\ rows[o] \in L!Row /\ rows[o].status = "PAYMENT_REQUESTED"
        /\ exc[o].code # "none"
    BY <1>2, <1>6 DEF CommitRollbackNeeded, Agrees, Asked
  <2>3. Flagged(rows'[o], exc[o].code)
    BY <2>1, <2>2, Zenon DEF Flagged, L!Row
  <2> QED
    BY <1>1, <2>1, <2>2, <2>3 DEF RowsAgree, Agrees
<1>7. CASE CommitCompleted(o) \/ CommitFailed(o)
  <2>1. pc'[o] \in {"publish", "done"}
    BY <1>7, RowTyped DEF CommitCompleted, CommitFailed, Goto
  <2> QED
    BY <1>1, <2>1 DEF RowsAgree, Agrees
<1> QED
  BY <1>3, <1>4, <1>5, <1>6, <1>7

LEMMA NextRows ==
  Placed /\ RowsAgree /\ [Next]_vars => RowsAgree' /\ [L!Next]_rows
<1> SUFFICES ASSUME Placed, RowsAgree, [Next]_vars
             PROVE  RowsAgree' /\ [L!Next]_rows
  OBVIOUS
<1>1. CASE \E o \in Orders :
             \/ CreateOrder(o) \/ CommitStockDeducted(o)
             \/ CommitPaymentRequested(o) \/ CommitCompleted(o)
             \/ CommitRollbackNeeded(o) \/ CommitFailed(o)
  BY <1>1, CommitsAgree, CommitsAreSteps DEF L!Next
<1>2. CASE rows' = rows /\ RowsAgree'
  BY <1>2
<1> QED
  BY <1>1, <1>2, RowStays DEF Next, Saga

(* Whatever crashes, is lost or answers late, create_order takes a row     *)
(* through the six commits in their order, one cause of failure per row    *)
(* and nothing behind FAILED or COMPLETED.  This is the order the code     *)
(* keeps; models.py ends a saga differently, in a status never written.    *)
THEOREM SagaImplementsLifecycle == Spec => Lifecycle
<1>1. Init => L!Init
  BY DEF Init
<1> QED
  BY <1>1, InitPlaced, NextPlaced, InitRowsAgree, NextRows, PTL
  DEF Spec, Lifecycle, L!Spec

-----------------------------------------------------------------------------
(***************************************************************************)
(* FlaggedBeforeRestore.  A row that was flagged stays flagged, so what    *)
(* matters is the row at the moment the first restore is sent.             *)
(***************************************************************************)
Undone(o) == \/ \E r \in net : r.kind = "restore" /\ r.order = o
             \/ \E i \in Idx(o) : given[o][i] > 0

LEMMA UndoneLate ==
  ASSUME Placed, StockInv, NEW o \in Orders, Undone(o) PROVE pc[o] \in Undoing
BY Typed DEF Undone, StockInv, RestoreAsked, GivenOnce, Passed, Restores

LEMMA UndoneBegins ==
  ASSUME Placed, StockInv, [Next]_vars, NEW o \in Orders, Undone(o)'
  PROVE  Undone(o) \/ SendRestore(o)
<1>1. CASE \E q \in Orders : Saga(q) \/ RequestDies(q)
  <2>1. PICK q \in Orders : Saga(q) \/ RequestDies(q)
    BY <1>1
  <2>2. CASE SendRestore(q)
    BY <2>2 DEF SendRestore, Send, products, Undone
  <2>3. CASE SendDeduct(q) \/ SendPayment(q)
    BY <2>3 DEF SendDeduct, SendPayment, Send, products, Undone
  <2>4. CASE UNCHANGED <<net, given>>
    BY <2>4 DEF Undone
  <2>5. UNCHANGED <<net, given>> \/ SendDeduct(q) \/ SendPayment(q)
        \/ SendRestore(q)
    BY <2>1 DEF Saga, RequestDies, LookUp, LookUpFails, CreateOrder, Deducted,
       DeductConflicts, Reread, DeductFails, CommitStockDeducted,
       CommitPaymentRequested, PaymentApproved, PaymentFails, CommitCompleted,
       Publish, CommitRollbackNeeded, RestoreReturns, CommitFailed, outside,
       products
  <2> QED
    BY <2>2, <2>3, <2>4, <2>5
<1>2. CASE \E r \in net : ServeRestore(r)
  <2>1. PICK r \in net : ServeRestore(r)
    BY <1>2
  <2>2. net' \subseteq net
    BY <2>1 DEF ServeRestore, Answer
  <2>3. given' = given \/ given' = [given EXCEPT ![r.order][r.item] = @ + 1]
    BY <2>1 DEF ServeRestore
  <2>4. r.kind = "restore" /\ r \in Restores
    BY <2>1 DEF ServeRestore, Restores
  <2>5. r.order # o => given'[o] = given[o]
    BY <2>3, <2>4, Typed
  <2> QED
    BY <2>2, <2>4, <2>5 DEF Undone
<1>3. CASE \E r \in net : ServeDeduct(r)
  <2>1. PICK r \in net : ServeDeduct(r)
    BY <1>3
  <2>2. given' = given
    BY <2>1 DEF ServeDeduct
  <2>3. \A s \in net' : s \in net \/ s = [r EXCEPT !.kind = "diagnose"]
    BY <2>1 DEF ServeDeduct, Answer
  <2>4. [r EXCEPT !.kind = "diagnose"].kind # "restore"
    BY <2>1, Typed DEF ServeDeduct, Deducts, Request
  <2> QED
    BY <2>2, <2>3, <2>4 DEF Undone
<1>4. CASE \/ \E r \in net : Diagnose(r) \/ ServePayment(r) \/ LoseRequest(r)
           \/ Crash \/ (\E p \in Products : AdminSetsActive(p))
           \/ UNCHANGED vars
  <2>1. net' \subseteq net /\ given' = given
    BY <1>4 DEF Diagnose, ServePayment, LoseRequest, Crash, AdminSetsActive,
       vars, Answer, outside, products
  <2> QED
    BY <2>1 DEF Undone
<1> QED
  BY <1>1, <1>2, <1>3, <1>4 DEF Next, Serve

FlagKept == \A o \in Orders :
  rows[o] # L!NoRow /\ rows[o].stock_deducted /\ Undone(o)
    => rows[o].saga \in {"STOCK_ROLLBACK_NEEDED", "STOCK_ROLLED_BACK"}

LEMMA NextFlagKept ==
  Placed /\ StockInv /\ RowsAgree /\ FlagKept /\ [Next]_vars => FlagKept'
<1> SUFFICES ASSUME Placed, StockInv, RowsAgree, FlagKept, [Next]_vars,
                    NEW o \in Orders, rows'[o] # L!NoRow,
                    rows'[o].stock_deducted, Undone(o)'
             PROVE  rows'[o].saga \in {"STOCK_ROLLBACK_NEEDED",
                                       "STOCK_ROLLED_BACK"}
  BY DEF FlagKept, Undone
<1>1. CASE rows'[o] = rows[o]
  <2>1. CASE Undone(o)
    BY <1>1, <2>1 DEF FlagKept
  <2>2. CASE SendRestore(o)
    <3>1. pc[o] = "restore"
      BY <2>2 DEF SendRestore
    <3>2. Fresh(rows[o]) \/ Flagged(rows[o], exc[o].code)
      BY <3>1 DEF RowsAgree, Agrees
    <3> QED
      BY <1>1, <3>2 DEF Fresh, Flagged
  <2> QED
    BY <2>1, <2>2, UndoneBegins
<1>2. CASE rows'[o] # rows[o]
  <2>1. \/ CreateOrder(o) \/ CommitStockDeducted(o)
        \/ CommitPaymentRequested(o) \/ CommitCompleted(o)
        \/ CommitRollbackNeeded(o) \/ CommitFailed(o)
    <3>1. PICK q \in Orders :
            \/ CreateOrder(q) \/ CommitStockDeducted(q)
            \/ CommitPaymentRequested(q) \/ CommitCompleted(q)
            \/ CommitRollbackNeeded(q) \/ CommitFailed(q)
      BY <1>2, RowStays DEF Next, Saga
    <3>2. \E R : Commit(q, R)
      BY <3>1 DEF CreateOrder, CommitStockDeducted, CommitPaymentRequested,
         CommitCompleted, CommitRollbackNeeded, CommitFailed
    <3> QED
      BY <1>2, <3>1, <3>2, Written
  <2>2. pc[o] \in Undoing
    <3>1. ~SendRestore(o)
      BY <1>2 DEF SendRestore
    <3> QED
      BY <3>1, UndoneBegins, UndoneLate
  <2>3. CommitFailed(o)
    BY <2>1, <2>2 DEF Undoing, CreateOrder, CommitStockDeducted,
       CommitPaymentRequested, CommitCompleted, CommitRollbackNeeded
  <2>4. rows[o] \in L!Row
    BY <2>3, RowTyped DEF CommitFailed
  <2> DEFINE end == IF undone[o] THEN "STOCK_ROLLED_BACK"
                    ELSE "STOCK_ROLLBACK_NEEDED"
  <2>5. rows'[o] = [rows[o] EXCEPT !.status = "FAILED", !.saga = end,
                                   !.reason = exc[o].code]
    BY <2>3, Written DEF CommitFailed
  <2>6. end \in {"STOCK_ROLLBACK_NEEDED", "STOCK_ROLLED_BACK"}
    OBVIOUS
  <2> HIDE DEF end
  <2>7. rows'[o].saga = end
    BY <2>4, <2>5, Zenon DEF L!Row
  <2> QED
    BY <2>6, <2>7
<1> QED
  BY <1>1, <1>2

(* A recovery that scans for STOCK_ROLLBACK_NEEDED misses no reserved      *)
(* order: not one restore of such an order is sent, let alone executed,    *)
(* before its row says so.                                                 *)
THEOREM FlagComesFirst == Spec => []FlaggedBeforeRestore
<1>1. Init => FlagKept
  BY DEF Init, L!Init, FlagKept
<1>2. FlagKept => FlaggedBeforeRestore
  BY DEF FlagKept, FlaggedBeforeRestore, Undone
<1> QED
  BY <1>1, <1>2, InitPlaced, NextPlaced, InitStockInv, NextStockInv,
     InitRowsAgree, NextRows, NextFlagKept, PTL DEF Spec

-----------------------------------------------------------------------------
(***************************************************************************)
(* Money.  Nothing asks for a payment before the saga does, it asks once,  *)
(* and a reply it waits for is the last word: no request is left that      *)
(* could still charge the order.                                           *)
(***************************************************************************)
Unasked == {"lookup", "create", "deduct", "deducting", "reread",
            "stockDeducted", "paymentRequested", "pay"}

Spared(o)  == Asks(o) = {} /\ payment[o] # "APPROVED"
Charged(o) == Asks(o) = {} /\ payment[o] = "APPROVED"
Blamed(o)  == exc[o].status \in 400 .. 499

Pays(o) ==
  /\ \A r \in Asks(o) : r.item = 0 /\ r.version = 0 /\ payment[o] = "none"
  /\ pc[o] \in Unasked => Asks(o) = {} /\ payment[o] = "none"
  /\ pc[o] = "paying" /\ reply[o] # "none" => Asks(o) = {}
  /\ pc[o] = "paying" /\ reply[o] = "ok" => Charged(o)
  /\ pc[o] = "paying" /\ reply[o] = "REFUSED" => Spared(o)
  /\ pc[o] \in {"completed", "publish"} => Charged(o)
  /\ pc[o] \in {"flag", "restore", "restoring"} /\ Blamed(o) => Spared(o)
  /\ answer[o] # 0 => pc[o] = "done"
  /\ answer[o] \in 400 .. 499 => Spared(o)

PaysOnce == \A o \in Orders : Pays(o)

LEMMA InitPaysOnce == Init => PaysOnce
BY DEF Init, PaysOnce, Pays, Asks, Unasked, Spared, Charged

(* An order whose part of the state stands keeps its invariant.            *)
LEMMA ApartPays ==
  ASSUME NEW q \in Orders, Pays(q), Apart(q) PROVE Pays(q)'
BY DEF Pays, Apart, Spared, Charged, Blamed

(* The order's own steps, before and after it asks for its payment.        *)
LEMMA OwnPays ==
  ASSUME Placed, StockInv, PaysOnce, NEW o \in Orders, Saga(o) \/ RequestDies(o)
  PROVE  Pays(o)'
<1>1. Pays(o) /\ payment' = payment
  BY OwnStep DEF PaysOnce
<1>2. reply[o] # "none" => pc[o] \in {"deducting", "restoring", "paying"}
  BY DEF StockInv, ReplyAwaited
<1>3. CASE SendPayment(o)
  <2>1. /\ pc[o] = "pay" /\ pc'[o] = "paying" /\ answer' = answer
        /\ reply' = reply
        /\ \A r \in Asks(o)' : r \in Asks(o) \/ (r.item = 0 /\ r.version = 0)
    BY <1>3, PayTyped DEF SendPayment, Send, Awaiting, Goto, Asks
  <2> QED
    BY <1>1, <1>2, <2>1 DEF Pays, Unasked
<1>4. CASE SendDeduct(o) \/ SendRestore(o)
  <2>1. /\ answer' = answer /\ exc' = exc /\ reply' = reply
        /\ \/ pc[o] = "deduct" /\ pc'[o] = "deducting"
           \/ pc[o] = "restore" /\ pc'[o] = "restoring"
    BY <1>4, PayTyped DEF SendDeduct, SendRestore, Send, Awaiting, Goto, failing
  <2>2. Asks(o)' = Asks(o)
    BY <1>4 DEF SendDeduct, SendRestore, Send, Asks
  <2> QED
    BY <1>1, <2>1, <2>2 DEF Pays, Unasked, Spared, Charged, Blamed
<1>5. CASE net' = net
  <2>1. Asks(o)' = Asks(o)
    BY <1>5 DEF Asks
  <2> USE <1>1, <1>2, <2>1, PayTyped DEF Pays, Unasked, Spared, Charged, Blamed
  <2>2. CASE LookUp(o) \/ CreateOrder(o) \/ Deducted(o) \/ DeductConflicts(o)
             \/ Reread(o) \/ CommitStockDeducted(o) \/ CommitPaymentRequested(o)
    <3>1. answer' = answer /\ pc[o] \in Unasked
      BY <2>2 DEF LookUp, CreateOrder, Deducted, DeductConflicts, Reread,
         CommitStockDeducted, CommitPaymentRequested, Receives, Awaiting
    <3>2. pc'[o] \in Unasked
      BY <2>2, <3>1 DEF LookUp, CreateOrder, Deducted, DeductConflicts, Reread,
         CommitStockDeducted, CommitPaymentRequested, Goto
    <3> QED
      BY <3>1, <3>2
  <2>3. CASE LookUpFails(o)
    BY <2>3 DEF LookUpFails, Answered, Goto
  <2>4. CASE DeductFails(o)
    <3>1. pc[o] \in Unasked /\ pc'[o] = "restore" /\ answer' = answer
      BY <2>4 DEF DeductFails, Raises, Receives, TimesOut, Awaiting, Goto
    <3> QED
      BY <3>1
  <2>5. CASE PaymentApproved(o)
    BY <2>5 DEF PaymentApproved, Receives, Replied, Awaiting, Goto
  <2>6. CASE PaymentFails(o)
    <3>1. /\ pc[o] = "paying" /\ pc'[o] = "flag" /\ answer' = answer
          /\ \/ reply[o] = "REFUSED" /\ exc'[o].status = 402
             \/ exc'[o].status \in {502, 504}
      BY <2>6 DEF PaymentFails, Raises, Receives, TimesOut, Awaiting, Goto
    <3> QED
      BY <3>1
  <2>7. CASE CommitCompleted(o)
    BY <2>7 DEF CommitCompleted, Goto
  <2>8. CASE Publish(o)
    BY <2>8 DEF Publish, Answered, Goto
  <2>9. CASE CommitRollbackNeeded(o) \/ RestoreReturns(o)
    BY <2>9 DEF CommitRollbackNeeded, RestoreReturns, Receives, TimesOut,
       Awaiting, Goto, failing
  <2>10. CASE CommitFailed(o)
    BY <2>10 DEF CommitFailed, Answered, Goto
  <2>11. CASE RequestDies(o)
    BY <2>11 DEF RequestDies, OnDatabase, Goto
  <2> QED
    BY <1>3, <1>4, <2>2, <2>3, <2>4, <2>5, <2>6, <2>7, <2>8, <2>9, <2>10, <2>11
    DEF Saga
<1> QED
  BY <1>3, <1>4, <1>5 DEF Saga, RequestDies, LookUp, LookUpFails, CreateOrder,
     Deducted, DeductConflicts, Reread, DeductFails, CommitStockDeducted,
     CommitPaymentRequested, PaymentApproved, PaymentFails, CommitCompleted,
     Publish, CommitRollbackNeeded, RestoreReturns, CommitFailed, outside

(* The one request of an order is executed: whoever waits learns how.      *)
LEMMA ServePaymentPays ==
  ASSUME Placed, PaysOnce, NEW r \in net, ServePayment(r) PROVE PaysOnce'
<1>1. /\ r.kind = "pay" /\ r.order \in Orders /\ r \in Asks(r.order)
      /\ net' = net \ {r}
      /\ UNCHANGED <<pc, exc, answer>>
  BY PayTyped DEF ServePayment, Answer, Asks, control, failing
<1>2. \A q \in Orders \ {r.order} : Apart(q)
  <2>1. \A q \in Orders \ {r.order} : reply'[q] = reply[q]
                                      /\ payment'[q] = payment[q]
    BY <1>1, PayTyped DEF ServePayment, Answer, Replied
  <2> QED
    BY <1>1, <2>1 DEF Apart, Asks
<1>3. Pays(r.order)'
  <2> DEFINE o == r.order
  <2>1. Pays(o)
    BY <1>1 DEF PaysOnce
  <2>2. Asks(o)' = {}
    <3>1. \A s \in Asks(o) : s = r
      <4> SUFFICES ASSUME NEW s \in Asks(o) PROVE s = r
        OBVIOUS
      <4>1. s \in Request /\ r \in Request
        BY PayTyped DEF Asks
      <4>2. s.kind = r.kind /\ s.order = r.order /\ s.item = r.item
            /\ s.version = r.version
        BY <1>1, <2>1 DEF Asks, Pays
      <4> QED
        BY <4>1, <4>2 DEF Request
    <3> QED
      BY <1>1, <3>1 DEF Asks
  <2>3. r.item = 0
    BY <1>1, <2>1 DEF Pays
  <2>4. pc[o] = "paying" =>
          \/ reply'[o] = "ok" /\ payment'[o] = "APPROVED"
          \/ reply'[o] = "REFUSED" /\ payment'[o] = "REJECTED"
          \/ reply'[o] = "ERROR"
    BY <1>1, <2>3, PayTyped DEF ServePayment, Answer, Awaiting, Replied
  <2>5. /\ pc[o] \notin Unasked /\ pc[o] \notin {"completed", "publish"}
        /\ ~(pc[o] \in {"flag", "restore", "restoring"} /\ Blamed(o))
        /\ answer[o] \notin 400 .. 499
    BY <1>1, <2>1 DEF Pays, Charged, Spared
  <2> QED
    BY <1>1, <2>1, <2>2, <2>4, <2>5 DEF Pays, Blamed, Charged, Spared
<1> QED
  BY <1>2, <1>3, ApartPays DEF PaysOnce

LEMMA NextPaysOnce ==
  Placed /\ StockInv /\ PaysOnce /\ [Next]_vars => PaysOnce'
<1> SUFFICES ASSUME Placed, StockInv, PaysOnce, [Next]_vars PROVE PaysOnce'
  OBVIOUS
<1>1. CASE \E o \in Orders : Saga(o) \/ RequestDies(o)
  <2>1. PICK o \in Orders : Saga(o) \/ RequestDies(o)
    BY <1>1
  <2>2. Pays(o)'
    BY <2>1, OwnPays
  <2>3. \A q \in Orders \ {o} : Pays(q)'
    BY <2>1, OwnStep, ApartPays DEF PaysOnce
  <2> QED
    BY <2>2, <2>3 DEF PaysOnce
<1>2. CASE Crash
  <2> SUFFICES ASSUME NEW q \in Orders PROVE Pays(q)'
    BY DEF PaysOnce
  <2>1. /\ UNCHANGED <<exc, answer, payment>>
        /\ reply'[q] = "none"
        /\ pc'[q] = pc[q] \/ (pc'[q] = "dead" /\ pc[q] # "done")
        /\ Asks(q)' = Asks(q)
    BY <1>2, PayTyped DEF Crash, Running, Asks, failing, outside
  <2>2. Pays(q)
    BY DEF PaysOnce
  <2> QED
    BY <2>1, <2>2 DEF Pays, Unasked, Spared, Charged, Blamed
<1>3. CASE \E r \in net : ServeDeduct(r) \/ Diagnose(r) \/ ServeRestore(r)
  <2>1. PICK r \in net : ServeDeduct(r) \/ Diagnose(r) \/ ServeRestore(r)
    BY <1>3
  <2>2. UNCHANGED <<pc, exc, answer, payment>>
    BY <2>1 DEF ServeDeduct, Diagnose, ServeRestore, control, failing
  <2>3. \A q \in Orders : Asks(q)' \subseteq Asks(q)
    <3>1. \A s \in net' : s \in net \/ s = [r EXCEPT !.kind = "diagnose"]
      BY <2>1 DEF ServeDeduct, Diagnose, ServeRestore, Answer
    <3>2. [r EXCEPT !.kind = "diagnose"].kind # "pay"
      BY PayTyped DEF Request
    <3> QED
      BY <3>1, <3>2 DEF Asks
  <2>4. \A q \in Orders : reply'[q] = reply[q] \/ pc[q] # "paying"
    <3>1. Awaiting(r.kind) # "paying"
      BY <2>1 DEF ServeDeduct, Diagnose, ServeRestore, Awaiting
    <3>2. UNCHANGED reply \/ \E msg \in Codes : Answer(r, msg)
      BY <2>1 DEF ServeDeduct, Diagnose, ServeRestore, Codes
    <3> QED
      BY <3>1, <3>2, PayTyped DEF Answer, Replied
  <2> QED
    BY <2>2, <2>3, <2>4 DEF PaysOnce, Pays, Spared, Charged, Blamed
<1>4. CASE \/ \E r \in net : LoseRequest(r)
           \/ \E p \in Products : AdminSetsActive(p)
           \/ UNCHANGED vars
  <2>1. \A q \in Orders : Apart(q)
    BY <1>4 DEF LoseRequest, AdminSetsActive, vars, coroutine, control, failing,
       outside, Apart, Asks
  <2> QED
    BY <2>1, ApartPays DEF PaysOnce
<1> QED
  BY <1>1, <1>2, <1>3, <1>4, ServePaymentPays DEF Next, Serve

(* A client told 4xx is not charged, then or ever: the payment request of  *)
(* its order was never sent, or was refused and is gone.                   *)
THEOREM RefusedIsFree == Spec => []RefusedIsNotCharged
<1>1. PaysOnce => RefusedIsNotCharged
  BY DEF PaysOnce, Pays, Spared, Asks, RefusedIsNotCharged
<1> QED
  BY <1>1, InitPlaced, NextPlaced, InitStockInv, NextStockInv, InitPaysOnce,
     NextPaysOnce, PTL DEF Spec

(* Only an executed payment request writes the payments table.             *)
LEMMA PaymentStands ==
  ASSUME Placed, [Next]_vars, ~ \E r \in net : ServePayment(r)
  PROVE  payment' = payment
<1>1. CASE \E q \in Orders : Saga(q) \/ RequestDies(q)
  BY <1>1, OwnStep
<1>2. CASE \/ Crash
           \/ \E r \in net : \/ ServeDeduct(r) \/ Diagnose(r) \/ ServeRestore(r)
                             \/ LoseRequest(r)
           \/ \E p \in Products : AdminSetsActive(p)
           \/ UNCHANGED vars
  BY <1>2 DEF Crash, ServeDeduct, Diagnose, ServeRestore, LoseRequest,
     AdminSetsActive, vars, outside
<1> QED
  BY <1>1, <1>2 DEF Next, Serve

LEMMA NextMoney == Placed /\ PaysOnce /\ [Next]_vars => [Money!Next]_payment
<1> SUFFICES ASSUME Placed, PaysOnce, [Next]_vars PROVE [Money!Next]_payment
  OBVIOUS
<1>1. CASE \E r \in net : ServePayment(r)
  <2>1. PICK r \in net : ServePayment(r)
    BY <1>1
  <2>2. r.order \in Orders /\ payment[r.order] = "none"
    <3>1. r \in Asks(r.order) /\ r.order \in Orders
      BY <2>1, PayTyped DEF ServePayment, Asks
    <3> QED
      BY <3>1 DEF PaysOnce, Pays
  <2>3. Money!Decide(r.order) \/ payment' = payment
    BY <2>1, <2>2 DEF ServePayment, Money!Decide
  <2> QED
    BY <2>2, <2>3 DEF Money!Next
<1>2. CASE ~ \E r \in net : ServePayment(r)
  BY <1>2, PaymentStands
<1> QED
  BY <1>1, <1>2

(* The saga and payment-service together decide a payment once: no retry,  *)
(* late answer or crash makes the saga ask for it again.                   *)
THEOREM SagaImplementsRecord == Spec => Money!Spec
<1>1. Init => Money!Init
  BY DEF Init, Money!Init
<1> QED
  BY <1>1, NextMoney, InitPlaced, NextPlaced, InitStockInv, NextStockInv,
     InitPaysOnce, NextPaysOnce, PTL DEF Spec, Money!Spec

(* What the saga makes the two services do, answered or not, stays within  *)
(* what each promises by itself: no stock below zero or changed without    *)
(* its version, and one decision per payment.                              *)
THEOREM SagaKeepsPromises == Spec => PromisesKept
BY SagaImplementsAccounts, SagaImplementsRecord DEF PromisesKept

-----------------------------------------------------------------------------
(***************************************************************************)
(* COMPLETED is final and true: from its commit on nothing charges, undoes *)
(* or rewrites the order.                                                  *)
(***************************************************************************)
Final(o) ==
  /\ pc[o] = "publish" => Completed(o)
  /\ Completed(o) => /\ pc[o] \in {"publish", "done", "dead"}
                     /\ Charged(o)
                     /\ rows[o].paid
                     /\ held[o] = Len(Items[o])
                     /\ ~Undone(o)
  /\ o \in published => Completed(o) /\ pc[o] = "done"

CompletedIsFinal == \A o \in Orders : Final(o)

LEMMA InitFinal == Init => CompletedIsFinal
BY DEF Init, L!Init, CompletedIsFinal, Final, Completed, HasStatus

(* Charged lasts: without a request nothing touches the payment.           *)
LEMMA ChargedStays ==
  ASSUME Placed, PaysOnce, [Next]_vars, NEW o \in Orders, Charged(o),
         pc[o] # "pay"
  PROVE  Charged(o)'
<1>1. CASE \E q \in Orders : Saga(q) \/ RequestDies(q)
  <2>1. PICK q \in Orders : Saga(q) \/ RequestDies(q)
    BY <1>1
  <2>2. CASE q # o
    BY <2>1, <2>2, OwnStep DEF Apart, Charged
  <2>3. CASE q = o
    <3>1. ~SendPayment(o)
      BY DEF SendPayment
    <3>2. payment' = payment
      BY <2>1, OwnStep
    <3>3. CASE SendDeduct(o) \/ SendRestore(o)
      BY <3>2, <3>3 DEF SendDeduct, SendRestore, Send, Asks, Charged
    <3>4. CASE net' = net
      BY <3>2, <3>4 DEF Asks, Charged
    <3> QED
      BY <2>1, <2>3, <3>1, <3>3, <3>4 DEF Saga, RequestDies, LookUp,
         LookUpFails, CreateOrder, Deducted, DeductConflicts, Reread,
         DeductFails, CommitStockDeducted, CommitPaymentRequested,
         PaymentApproved, PaymentFails, CommitCompleted, Publish,
         CommitRollbackNeeded, RestoreReturns, CommitFailed, outside
  <2> QED
    BY <2>2, <2>3
<1>2. CASE \E r \in net : ServeDeduct(r)
  <2>1. PICK r \in net : ServeDeduct(r)
    BY <1>2
  <2>2. \A s \in net' : s \in net \/ s = [r EXCEPT !.kind = "diagnose"]
    BY <2>1 DEF ServeDeduct, Answer
  <2>3. [r EXCEPT !.kind = "diagnose"].kind # "pay"
    BY PayTyped DEF Request
  <2> QED
    BY <2>1, <2>2, <2>3 DEF ServeDeduct, Asks, Charged
<1>3. CASE \E r \in net : ServePayment(r)
  <2>1. PICK r \in net : ServePayment(r)
    BY <1>3
  <2>2. r.order # o
    BY <2>1 DEF ServePayment, Charged, Asks
  <2>3. net' \subseteq net /\ payment'[o] = payment[o]
    BY <2>1, <2>2, PayTyped DEF ServePayment, Answer
  <2> QED
    BY <2>3 DEF Asks, Charged
<1>4. CASE \/ Crash
           \/ \E r \in net : Diagnose(r) \/ ServeRestore(r) \/ LoseRequest(r)
           \/ \E p \in Products : AdminSetsActive(p)
           \/ UNCHANGED vars
  <2>1. net' \subseteq net /\ payment' = payment
    BY <1>4 DEF Crash, Diagnose, ServeRestore, LoseRequest, AdminSetsActive,
       Answer, vars, outside
  <2> QED
    BY <2>1 DEF Asks, Charged
<1> QED
  BY <1>1, <1>2, <1>3, <1>4 DEF Next, Serve

(* A finished coroutine stays finished.                                    *)
LEMMA EndsStay ==
  ASSUME Placed, [Next]_vars, NEW o \in Orders,
         pc[o] \in {"publish", "done", "dead"}
  PROVE  /\ pc'[o] \in {"publish", "done", "dead"}
         /\ pc[o] # "publish" => pc'[o] = pc[o]
         /\ held'[o] = held[o]
         /\ ~SendRestore(o)
<1>1. CASE \E q \in Orders \ {o} : Saga(q) \/ RequestDies(q)
  <2>1. PICK q \in Orders \ {o} : Saga(q) \/ RequestDies(q)
    BY <1>1
  <2>2. pc'[o] = pc[o]
    BY <2>1, OwnStep DEF Apart
  <2>3. held'[o] = held[o]
    <3>1. held' = held \/ held' = [held EXCEPT ![q] = @ + 1]
      BY <2>1 DEF Saga, RequestDies, LookUp, LookUpFails, CreateOrder,
         SendDeduct, Deducted, DeductConflicts, Reread, DeductFails,
         CommitStockDeducted, CommitPaymentRequested, SendPayment,
         PaymentApproved, PaymentFails, CommitCompleted, Publish,
         CommitRollbackNeeded, SendRestore, RestoreReturns, CommitFailed,
         buying
    <3> QED
      BY <3>1, Typed
  <2> QED
    BY <2>2, <2>3 DEF SendRestore
<1>2. CASE Saga(o) \/ RequestDies(o)
  <2>1. Publish(o) \/ RequestDies(o)
    BY <1>2 DEF Saga, LookUp, LookUpFails, CreateOrder, SendDeduct, Deducted,
       DeductConflicts, Reread, DeductFails, CommitStockDeducted,
       CommitPaymentRequested, SendPayment, PaymentApproved, PaymentFails,
       CommitCompleted, CommitRollbackNeeded, SendRestore, RestoreReturns,
       CommitFailed, Receives, TimesOut, Awaiting
  <2> QED
    BY <2>1, Typed DEF Publish, RequestDies, OnDatabase, Goto, buying,
       SendRestore
<1>3. CASE Crash
  BY <1>3, Typed DEF Crash, Running, buying, SendRestore
<1>4. CASE \/ \E r \in net : Serve(r) \/ LoseRequest(r)
           \/ \E p \in Products : AdminSetsActive(p)
           \/ UNCHANGED vars
  BY <1>4 DEF Serve, ServeDeduct, Diagnose, ServeRestore, ServePayment,
     LoseRequest, AdminSetsActive, vars, coroutine, control, buying, SendRestore
<1> QED
  BY <1>1, <1>2, <1>3, <1>4 DEF Next

(* A row changes at a commit of its own coroutine only.                    *)
LEMMA RowChanges ==
  ASSUME Placed, RowsAgree, [Next]_vars, NEW o \in Orders, rows'[o] # rows[o]
  PROVE  \/ CreateOrder(o) \/ CommitStockDeducted(o)
         \/ CommitPaymentRequested(o) \/ CommitCompleted(o)
         \/ CommitRollbackNeeded(o) \/ CommitFailed(o)
<1>1. PICK q \in Orders :
        \/ CreateOrder(q) \/ CommitStockDeducted(q)
        \/ CommitPaymentRequested(q) \/ CommitCompleted(q)
        \/ CommitRollbackNeeded(q) \/ CommitFailed(q)
  BY RowStays DEF Next, Saga
<1>2. \E R : Commit(q, R)
  BY <1>1 DEF CreateOrder, CommitStockDeducted, CommitPaymentRequested,
     CommitCompleted, CommitRollbackNeeded, CommitFailed
<1> QED
  BY <1>1, <1>2, Written

LEMMA PublishedStands ==
  ASSUME [Next]_vars, ~ \E q \in Orders : Publish(q)
  PROVE  published' = published
<1>1. CASE \E q \in Orders : Saga(q) \/ RequestDies(q)
  BY <1>1 DEF Saga, LookUp, LookUpFails, CreateOrder, SendDeduct,
     Deducted, DeductConflicts, Reread, DeductFails, CommitStockDeducted,
     CommitPaymentRequested, SendPayment, PaymentApproved, PaymentFails,
     CommitCompleted, CommitRollbackNeeded, SendRestore, RestoreReturns,
     CommitFailed, RequestDies, outside
<1>2. CASE \/ Crash
           \/ \E r \in net : Serve(r) \/ LoseRequest(r)
           \/ \E p \in Products : AdminSetsActive(p)
           \/ UNCHANGED vars
  BY <1>2 DEF Crash, Serve, ServeDeduct, Diagnose, ServeRestore, ServePayment,
     LoseRequest, AdminSetsActive, vars, outside
<1> QED
  BY <1>1, <1>2 DEF Next

LEMMA Announces ==
  ASSUME [Next]_vars, NEW o \in published' PROVE o \in published \/ Publish(o)
BY PublishedStands DEF Publish

LEMMA PublishBegins ==
  ASSUME Placed, [Next]_vars, NEW o \in Orders, pc'[o] = "publish"
  PROVE  pc[o] = "publish" \/ CommitCompleted(o)
<1>1. CASE \E q \in Orders \ {o} : Saga(q) \/ RequestDies(q)
  BY <1>1, OwnStep DEF Apart
<1>2. CASE (Saga(o) /\ ~CommitCompleted(o)) \/ RequestDies(o)
  <2>1. pc'[o] # "publish" \/ pc' = pc
    BY <1>2, Typed DEF Saga, LookUp, LookUpFails, CreateOrder, SendDeduct, Send,
       Awaiting, Deducted, DeductConflicts, Reread, DeductFails, Raises,
       CommitStockDeducted, CommitPaymentRequested, SendPayment,
       PaymentApproved, PaymentFails, Publish, CommitRollbackNeeded,
       SendRestore, RestoreReturns, CommitFailed, RequestDies, Goto
  <2> QED
    BY <2>1
<1>3. CASE \/ Crash
           \/ \E r \in net : Serve(r) \/ LoseRequest(r)
           \/ \E p \in Products : AdminSetsActive(p)
           \/ UNCHANGED vars
  <2>1. pc'[o] = pc[o] \/ pc'[o] = "dead"
    BY <1>3 DEF Crash, Serve, ServeDeduct, Diagnose, ServeRestore, ServePayment,
       LoseRequest, AdminSetsActive, vars, coroutine, control
  <2> QED
    BY <2>1
<1> QED
  BY <1>1, <1>2, <1>3 DEF Next

(* No other commit writes COMPLETED.                                       *)
LEMMA NotCompletedElse ==
  ASSUME Placed, RowsAgree, [Next]_vars, NEW o \in Orders, ~Completed(o),
         ~CommitCompleted(o)
  PROVE  ~Completed(o)'
<1>1. CASE rows'[o] = rows[o]
  BY <1>1 DEF Completed, HasStatus
<1>2. CASE CommitFailed(o)
  <2>1. rows[o] \in L!Row
    BY <1>2, RowTyped DEF CommitFailed
  <2> DEFINE end == IF undone[o] THEN "STOCK_ROLLED_BACK"
                    ELSE "STOCK_ROLLBACK_NEEDED"
  <2>2. rows'[o] = [rows[o] EXCEPT !.status = "FAILED", !.saga = end,
                                   !.reason = exc[o].code]
    BY <1>2, Written DEF CommitFailed
  <2> HIDE DEF end
  <2>3. rows'[o].status = "FAILED"
    BY <2>1, <2>2, Zenon DEF L!Row
  <2> QED
    BY <2>3 DEF Completed, HasStatus
<1>3. CASE \/ CreateOrder(o) \/ CommitStockDeducted(o)
           \/ CommitPaymentRequested(o) \/ CommitRollbackNeeded(o)
  <2>1. pc'[o] \in {"deduct", "paymentRequested", "pay", "restore"}
    BY <1>3, RowTyped DEF CreateOrder, CommitStockDeducted,
       CommitPaymentRequested, CommitRollbackNeeded, Goto
  <2>2. Agrees(o)'
    BY <1>3, CommitsAgree DEF RowsAgree
  <2> QED
    BY <2>1, <2>2 DEF Agrees, Fresh, Reserved, Asked, Flagged, Completed,
       HasStatus
<1> QED
  BY <1>1, <1>2, <1>3, RowChanges

LEMMA CommitCompletedFinal ==
  ASSUME Placed, StockInv, PaysOnce, CompletedIsFinal, NEW o \in Orders,
         CommitCompleted(o)
  PROVE  Final(o)'
<1>1. pc[o] = "completed" /\ pc'[o] = "publish" /\ outside' = outside
      /\ held' = held
  BY Typed DEF CommitCompleted, Goto, buying
<1>2. rows[o] \in L!Row
  BY <1>1, RowTyped
<1>3. rows'[o] = [rows[o] EXCEPT !.status = "COMPLETED",
                                 !.saga = "COMPLETED", !.paid = TRUE]
  BY Written DEF CommitCompleted
<1>4. rows'[o].status = "COMPLETED" /\ rows'[o].paid
  BY <1>2, <1>3, Zenon DEF L!Row
<1>5. rows'[o] # L!NoRow
  <2>1. L!NoRow.status # "COMPLETED"
    BY DEF L!NoRow
  <2> QED
    BY <1>4, <2>1
<1>6. Charged(o)'
  BY <1>1 DEF PaysOnce, Pays, Charged, Asks, outside
<1>7. held'[o] = Len(Items[o])
  BY <1>1 DEF Placed, CursorOK, Cursor, Bought
<1>8. ~Undone(o)'
  BY <1>1, UndoneLate DEF Undone, Undoing, outside, products
<1>9. o \notin published'
  BY <1>1 DEF CompletedIsFinal, Final, outside
<1> QED
  BY <1>1, <1>4, <1>5, <1>6, <1>7, <1>8, <1>9
  DEF Final, Completed, HasStatus

LEMMA NextFinal ==
  Placed /\ StockInv /\ RowsAgree /\ PaysOnce /\ CompletedIsFinal /\ [Next]_vars
    => CompletedIsFinal'
<1> SUFFICES ASSUME Placed, StockInv, RowsAgree, PaysOnce, CompletedIsFinal,
                    [Next]_vars, NEW o \in Orders
             PROVE  Final(o)'
  BY DEF CompletedIsFinal
<1>1. Final(o)
  BY DEF CompletedIsFinal
<1>2. CASE Completed(o)
  <2>1. pc[o] \in {"publish", "done", "dead"}
    BY <1>1, <1>2 DEF Final
  <2>2. rows'[o] = rows[o]
    BY <2>1, RowChanges DEF CreateOrder, CommitStockDeducted,
       CommitPaymentRequested, CommitCompleted, CommitRollbackNeeded,
       CommitFailed
  <2>3. Charged(o)'
    BY <1>1, <1>2, <2>1, ChargedStays DEF Final
  <2>4. ~Undone(o)'
    BY <1>1, <1>2, <2>1, EndsStay, UndoneBegins DEF Final
  <2>5. Completed(o)' /\ rows'[o].paid
    BY <1>1, <1>2, <2>2 DEF Final, Completed, HasStatus
  <2>6. o \in published' => pc'[o] = "done"
    <3>1. CASE o \in published
      BY <1>1, <2>1, <3>1, EndsStay DEF Final
    <3>2. CASE Publish(o)
      BY <3>2, Typed DEF Publish, Goto
    <3> QED
      BY <3>1, <3>2, Announces
  <2> QED
    BY <1>1, <1>2, <2>1, <2>3, <2>4, <2>5, <2>6, EndsStay DEF Final
<1>3. CASE ~Completed(o)
  <2>1. CASE CommitCompleted(o)
    BY <2>1, CommitCompletedFinal
  <2>2. CASE ~CommitCompleted(o)
    <3>1. ~Completed(o)'
      BY <1>3, <2>2, NotCompletedElse
    <3>2. pc[o] # "publish" /\ o \notin published
      BY <1>1, <1>3 DEF Final
    <3>3. pc'[o] # "publish"
      BY <2>2, <3>2, PublishBegins
    <3>4. o \notin published'
      BY <3>2, Announces DEF Publish
    <3> QED
      BY <3>1, <3>3, <3>4 DEF Final
  <2> QED
    BY <2>1, <2>2
<1> QED
  BY <1>2, <1>3

(* The event reaches subscribers of committed COMPLETED orders only.       *)
THEOREM AnnouncedWasCommitted == Spec => []AnnouncedIsCompleted
<1>1. Placed /\ CompletedIsFinal => AnnouncedIsCompleted
  BY DEF Placed, TypeOK, CompletedIsFinal, Final, AnnouncedIsCompleted
<1> QED
  BY <1>1, InitPlaced, NextPlaced, InitStockInv, NextStockInv, InitRowsAgree,
     NextRows, InitPaysOnce, NextPaysOnce, InitFinal, NextFinal, PTL DEF Spec

(* A COMPLETED order is paid, and every item of it was deducted and never  *)
(* given back, whatever answers were late or lost on the way.              *)
THEOREM CompletedKeepsItsItems == Spec => []CompletedIsPaidAndKept
<1>1. Placed /\ StockInv /\ CompletedIsFinal => CompletedIsPaidAndKept
  <2> SUFFICES ASSUME Placed, StockInv, CompletedIsFinal, NEW o \in Orders,
                      Completed(o)
               PROVE  /\ payment[o] = "APPROVED"
                      /\ rows[o].paid
                      /\ Kept(o) = Idx(o)
    BY DEF CompletedIsPaidAndKept
  <2>1. Charged(o) /\ rows[o].paid /\ held[o] = Len(Items[o]) /\ ~Undone(o)
    BY DEF CompletedIsFinal, Final
  <2>2. \A i \in Idx(o) : i <= held[o]
    BY <2>1, ItemFacts
  <2>3. \A i \in Idx(o) : taken[o][i] = 1 /\ given[o][i] = 0
    BY <2>1, <2>2, Typed DEF StockInv, TakenOnce, Undone
  <2> QED
    BY <2>1, <2>3 DEF Charged, Kept
<1> QED
  BY <1>1, InitPlaced, NextPlaced, InitStockInv, NextStockInv, InitRowsAgree,
     NextRows, InitPaysOnce, NextPaysOnce, InitFinal, NextFinal, PTL DEF Spec

-----------------------------------------------------------------------------
(***************************************************************************)
(* The events.  An order is alive - in the hands of a coroutine, for       *)
(* OrderEvents - from its INSERT to its answer; one whose coroutine died   *)
(* stays so and moves no more.                                             *)
(***************************************************************************)
Alive == {o \in Orders : rows[o] # L!NoRow /\ pc[o] # "done"}

Produces == \E o \in Orders :
  pc'[o] # pc[o] /\ (Events!Commit(o) \/ Events!Publish(o))

(* OrderEvents uses OrderLifecycle on the same table.                      *)
LEMMA SameLife ==
  ASSUME NEW o
  PROVE  /\ L!Place(o) => Events!L!Place(o)
         /\ L!Reserve(o) => Events!L!Reserve(o)
         /\ L!RequestPayment(o) => Events!L!RequestPayment(o)
         /\ L!Complete(o) => Events!L!Complete(o)
         /\ L!NeedRollback(o) => Events!L!NeedRollback(o)
         /\ L!Fail(o) => Events!L!Fail(o)
<1>1. L!Place(o) => Events!L!Place(o)
  BY DEF L!Place, L!NoRow, L!NewRow, Events!L!Place, Events!L!NoRow,
     Events!L!NewRow
<1>2. L!Reserve(o) => Events!L!Reserve(o)
  BY DEF L!Reserve, L!At, L!NoRow, Events!L!Reserve, Events!L!At, Events!L!NoRow
<1>3. L!RequestPayment(o) => Events!L!RequestPayment(o)
  BY DEF L!RequestPayment, L!At, L!NoRow, Events!L!RequestPayment,
     Events!L!At, Events!L!NoRow
<1>4. L!Complete(o) => Events!L!Complete(o)
  BY DEF L!Complete, L!At, L!NoRow, Events!L!Complete, Events!L!At,
     Events!L!NoRow
<1>5. L!NeedRollback(o) => Events!L!NeedRollback(o)
  BY DEF L!NeedRollback, L!At, L!NoRow, L!Reason, Events!L!NeedRollback,
     Events!L!At, Events!L!NoRow, Events!L!Reason
<1>6. L!Fail(o) => Events!L!Fail(o)
  BY DEF L!Fail, L!At, L!NoRow, L!Reason, Events!L!Fail, Events!L!At,
     Events!L!NoRow, Events!L!Reason
<1> QED
  BY <1>1, <1>2, <1>3, <1>4, <1>5, <1>6

(* What a step of the saga must do to be one of OrderEvents.               *)
LEMMA CommitIsEvent ==
  ASSUME NEW o \in Orders, published' = published,
         \/ L!Place(o) /\ Alive' = Alive \cup {o}
         \/ /\ o \in Alive /\ Alive' = Alive
            /\ \/ L!Reserve(o) \/ L!RequestPayment(o) \/ L!Complete(o)
               \/ L!NeedRollback(o)
         \/ o \in Alive /\ L!Fail(o) /\ Alive' = Alive \ {o}
  PROVE  Events!Commit(o)
BY SameLife DEF Alive, Events!Commit, Events!service, Events!consumer

LEMMA PublishIsEvent ==
  ASSUME NEW o \in Orders, o \in Alive, Completed(o), Alive' = Alive \ {o},
         rows' = rows, published' \in {published, published \cup {o}}
  PROVE  Events!Publish(o)
BY DEF Alive, Completed, HasStatus, L!NoRow, Events!Publish, Events!Completed,
   Events!L!NoRow, Events!service, Events!consumer

LEMMA NoEvent ==
  ASSUME UNCHANGED <<rows, published>>, Alive' = Alive
  PROVE  UNCHANGED Events!vars
BY DEF Alive, Events!vars

(* The six commits, the event, and all other steps.                        *)
LEMMA SagaProduces ==
  ASSUME Placed, RowsAgree, CompletedIsFinal, NEW o \in Orders, Saga(o)
  PROVE  [Produces]_(Events!vars)
<1>1. /\ pc \in [Orders -> Steps] /\ Agrees(o) /\ Final(o)
      /\ pc[o] \notin {"lookup", "create", "done", "dead"} => rows[o] # L!NoRow
  BY RowTyped DEF RowsAgree, CompletedIsFinal, Placed, RowPresent
<1>2. CASE CreateOrder(o)
  <2>1. /\ L!Place(o) /\ published' = published
        /\ pc[o] = "create" /\ pc' = [pc EXCEPT ![o] = "deduct"]
    BY <1>2, CommitsAreSteps DEF CreateOrder, Goto, outside
  <2>2. rows'[o] # L!NoRow /\ \A q \in Orders \ {o} : rows'[q] = rows[q]
    <3>1. L!NewRow # L!NoRow
      BY DEF L!NewRow, L!NoRow
    <3> QED
      BY <2>1, <3>1, RowTyped DEF L!Place
  <2>3. Alive' = Alive \cup {o}
    BY <1>1, <2>1, <2>2 DEF Alive
  <2> QED
    BY <1>1, <2>1, <2>3, CommitIsEvent DEF Produces
<1>3. CASE \/ CommitStockDeducted(o) \/ CommitPaymentRequested(o)
           \/ CommitCompleted(o) \/ CommitRollbackNeeded(o)
  <2>1. /\ \/ L!Reserve(o) \/ L!RequestPayment(o) \/ L!Complete(o)
           \/ L!NeedRollback(o)
        /\ published' = published
        /\ pc[o] \in {"stockDeducted", "paymentRequested", "completed", "flag"}
        /\ \E step \in {"paymentRequested", "pay", "publish", "restore"} :
             step # pc[o] /\ pc' = [pc EXCEPT ![o] = step]
    BY <1>3, CommitsAreSteps DEF CommitStockDeducted, CommitPaymentRequested,
       CommitCompleted, CommitRollbackNeeded, Goto, outside
  <2>2. rows'[o] # L!NoRow /\ \A q \in Orders \ {o} : rows'[q] = rows[q]
    <3>1. \A q \in Orders \ {o} : rows'[q] = rows[q]
      BY <1>3, RowTyped DEF CommitStockDeducted, CommitPaymentRequested,
         CommitCompleted, CommitRollbackNeeded, Commit
    <3>2. Placed'
      BY <1>3, CommitStockDeductedPlaced, CommitPaymentRequestedPlaced,
         CommitCompletedPlaced, CommitRollbackNeededPlaced
    <3>3. pc'[o] \notin {"lookup", "create", "done", "dead"}
      BY <1>1, <2>1
    <3> QED
      BY <3>1, <3>2, <3>3 DEF Placed, RowPresent
  <2>3. o \in Alive /\ Alive' = Alive
    BY <1>1, <2>1, <2>2 DEF Alive
  <2> QED
    BY <1>1, <2>1, <2>3, CommitIsEvent DEF Produces
<1>4. CASE CommitFailed(o)
  <2>1. /\ L!Fail(o) /\ published' = published
        /\ pc[o] = "restore" /\ pc' = [pc EXCEPT ![o] = "done"]
    BY <1>4, CommitsAreSteps DEF CommitFailed, Goto, outside
  <2>2. \A q \in Orders \ {o} : rows'[q] = rows[q]
    BY <1>4, RowTyped DEF CommitFailed, Commit
  <2>3. o \in Alive /\ Alive' = Alive \ {o}
    BY <1>1, <2>1, <2>2 DEF Alive
  <2> QED
    BY <1>1, <2>1, <2>3, CommitIsEvent DEF Produces
<1>5. CASE Publish(o)
  <2>1. /\ rows' = rows /\ published' \in {published, published \cup {o}}
        /\ pc[o] = "publish" /\ pc' = [pc EXCEPT ![o] = "done"]
    BY <1>5 DEF Publish, Goto
  <2>2. o \in Alive /\ Alive' = Alive \ {o}
    BY <1>1, <2>1 DEF Alive
  <2> QED
    BY <1>1, <2>1, <2>2, PublishIsEvent DEF Produces, Final
<1>6. CASE \/ LookUp(o) \/ LookUpFails(o) \/ SendDeduct(o) \/ Deducted(o)
           \/ DeductConflicts(o) \/ Reread(o) \/ DeductFails(o)
           \/ SendPayment(o) \/ PaymentApproved(o) \/ PaymentFails(o)
           \/ SendRestore(o) \/ RestoreReturns(o)
  <2>1. rows' = rows /\ published' = published
    BY <1>6, RowStays DEF LookUp, LookUpFails, SendDeduct, Deducted,
       DeductConflicts, Reread, DeductFails, SendPayment, PaymentApproved,
       PaymentFails, SendRestore, RestoreReturns, outside
  <2>2. /\ pc[o] # "done"
        /\ \E step \in Steps : pc' = [pc EXCEPT ![o] = step]
                               /\ (step = "done" => pc[o] = "lookup")
    BY <1>1, <1>6 DEF LookUp, LookUpFails, SendDeduct, Send, Awaiting, Deducted,
       DeductConflicts, Reread, DeductFails, Raises, SendPayment,
       PaymentApproved, PaymentFails, SendRestore, RestoreReturns, Receives,
       TimesOut, Goto, Steps
  <2>3. Alive' = Alive
    BY <1>1, <2>1, <2>2 DEF Alive, Agrees
  <2> QED
    BY <2>1, <2>3, NoEvent
<1> QED
  BY <1>2, <1>3, <1>4, <1>5, <1>6 DEF Saga

LEMMA NextProduces ==
  Placed /\ RowsAgree /\ CompletedIsFinal /\ [Next]_vars
    => [Produces]_(Events!vars)
<1> SUFFICES ASSUME Placed, RowsAgree, CompletedIsFinal, [Next]_vars
             PROVE  [Produces]_(Events!vars)
  OBVIOUS
<1>1. CASE \/ \E o \in Orders : RequestDies(o)
           \/ Crash
           \/ \E r \in net : Serve(r) \/ LoseRequest(r)
           \/ \E p \in Products : AdminSetsActive(p)
           \/ UNCHANGED vars
  <2>1. rows' = rows /\ published' = published
    BY <1>1, RowStays DEF RequestDies, Crash, Serve, ServeDeduct, Diagnose,
       ServeRestore, ServePayment, LoseRequest, AdminSetsActive, vars, outside
  <2>2. \A q \in Orders : pc'[q] = pc[q] \/ (pc'[q] = "dead" /\ pc[q] # "done")
    BY <1>1, RowTyped DEF RequestDies, OnDatabase, Goto, Crash, Running, Serve,
       ServeDeduct, Diagnose, ServeRestore, ServePayment, LoseRequest,
       AdminSetsActive, vars, coroutine, control
  <2>3. Alive' = Alive
    BY <2>1, <2>2 DEF Alive
  <2> QED
    BY <2>1, <2>3, NoEvent
<1> QED
  BY <1>1, SagaProduces DEF Next

LEMMA InitEvents == Init => Events!Init
BY DEF Init, L!Init, L!NoRow, Events!Init, Events!L!Init, Events!L!NoRow,
   Events!Messages

(* To OrderEvents the saga is a producer it allows: whatever crashes, each *)
(* order has one coroutine that commits its row and, last of all and after *)
(* COMPLETED, hands its event to NATS.                                     *)
THEOREM SagaProducesEvents == Spec => ProducesEvents
<1>1. [Produces]_(Events!vars) =>
        [\E o \in Orders :
          pc'[o] # pc[o] /\ (Events!Commit(o) \/ Events!Publish(o))]_(Events!vars)
  BY DEF Produces
<1> QED
  BY <1>1, InitEvents, NextProduces, InitPlaced, NextPlaced, InitStockInv,
     NextStockInv, InitRowsAgree, NextRows, InitPaysOnce, NextPaysOnce,
     InitFinal, NextFinal, PTL DEF Spec, ProducesEvents

-----------------------------------------------------------------------------
(***************************************************************************)
(* Rollback.  A deduction the saga does not know of is loose: it was given *)
(* up on, or answered with a 5xx, and may have been executed or be         *)
(* executed yet.  Only these two leave one, before anything was reserved;  *)
(* all other stock of a rolled back order is returned, item by item.       *)
(***************************************************************************)
Loose(o) == \/ \E r \in Deducts : r.order = o
            \/ \E i \in Idx(o) : i > held[o] /\ taken[o][i] # 0

Returned(o, n) ==
  \A i \in Idx(o) : i < n /\ i <= held[o] => given[o][i] = 1

UndoSteps == {"restore", "restoring"}

\* Reasons for which an item may be gone without the saga knowing.
Unknown == {"TIMEOUT", "STOCK_DEDUCT_ERROR"}

Undoes(o) ==
  /\ pc[o] \in UndoSteps /\ Loose(o)
       => exc[o].code \in Unknown /\ Fresh(rows[o])
  /\ pc[o] \in UndoSteps /\ undone[o] => Returned(o, item[o])
  /\ pc[o] = "restoring" /\ reply[o] = "ok" => given[o][item[o]] = 1
  /\ pc[o] = "flag" => item[o] = 1

RolledBackWhole(o) ==
  RolledBack(o) => /\ pc[o] = "done"
                   /\ Returned(o, held[o] + 1)
                   /\ Loose(o) => /\ rows[o].reason \in Unknown
                                  /\ ~rows[o].stock_deducted

RollbackOK == \A o \in Orders : Undoes(o) /\ RolledBackWhole(o)

LEMMA InitRollbackOK == Init => RollbackOK
BY DEF Init, L!Init, RollbackOK, Undoes, UndoSteps, RolledBackWhole, RolledBack,
   Failed, HasStatus

(* What the order holds is settled then.                                  *)
LEMMA HeldStays ==
  ASSUME Placed, [Next]_vars, NEW o \in Orders, pc[o] \in Undoing
  PROVE  held'[o] = held[o]
<1>1. held' = held \/ \E q \in Orders : /\ Deducted(q)
                                        /\ held' = [held EXCEPT ![q] = @ + 1]
  <2>1. CASE \E q \in Orders : Saga(q) \/ RequestDies(q)
    BY <2>1 DEF Saga, RequestDies, LookUp, LookUpFails, CreateOrder,
       SendDeduct, Deducted, DeductConflicts, Reread, DeductFails,
       CommitStockDeducted, CommitPaymentRequested, SendPayment,
       PaymentApproved, PaymentFails, CommitCompleted, Publish,
       CommitRollbackNeeded, SendRestore, RestoreReturns, CommitFailed,
       buying
  <2>2. CASE \/ Crash
             \/ \E r \in net : Serve(r) \/ LoseRequest(r)
             \/ \E p \in Products : AdminSetsActive(p)
             \/ UNCHANGED vars
    BY <2>2 DEF Crash, Serve, ServeDeduct, Diagnose, ServeRestore,
       ServePayment, LoseRequest, AdminSetsActive, vars, coroutine, buying
  <2> QED
    BY <2>1, <2>2 DEF Next
<1>2. ~Deducted(o)
  BY DEF Deducted, Receives, Awaiting, Undoing
<1> QED
  BY <1>1, <1>2, Typed

(* From a turn round on, no deduction becomes loose that was not.          *)
LEMMA LooseBefore ==
  ASSUME Placed, StockInv, [Next]_vars, NEW o \in Orders, pc[o] \in Undoing,
         Loose(o)'
  PROVE  Loose(o) /\ held'[o] = held[o]
<1>1. held'[o] = held[o]
  BY HeldStays
<1>2. CASE \E r \in net : ServeDeduct(r)
  <2>1. PICK r \in net : ServeDeduct(r)
    BY <1>2
  <2>2. r \in Deducts
    BY <2>1 DEF ServeDeduct, Deducts
  <2>3. CASE r.order = o
    BY <1>1, <2>2, <2>3 DEF Loose
  <2>4. CASE r.order # o
    <3>1. \A s \in net' : s \in net \/ s = [r EXCEPT !.kind = "diagnose"]
      BY <2>1 DEF ServeDeduct, Answer
    <3>2. [r EXCEPT !.kind = "diagnose"].order # o
      BY <2>2, <2>4, Typed DEF Request
    <3>3. \A s \in Deducts' : s.order = o => s \in Deducts
      BY <3>1, <3>2 DEF Deducts
    <3>4. taken'[o] = taken[o]
      BY <2>1, <2>4, <2>2, Typed DEF ServeDeduct
    <3> QED
      BY <1>1, <3>3, <3>4 DEF Loose
  <2> QED
    BY <2>3, <2>4
<1>3. CASE \E q \in Orders : SendDeduct(q)
  <2>1. PICK q \in Orders : SendDeduct(q)
    BY <1>3
  <2>2. q # o
    BY <2>1 DEF SendDeduct, Undoing
  <2>3. taken' = taken
    BY <2>1 DEF SendDeduct, products
  <2>4. \A s \in Deducts' : s \in Deducts \/ s.order = q
    BY <2>1 DEF SendDeduct, Send, Deducts
  <2> QED
    BY <1>1, <2>2, <2>3, <2>4 DEF Loose
<1>4. CASE taken' = taken /\ Deducts' \subseteq Deducts
  BY <1>1, <1>4 DEF Loose
<1>5. CASE \E q \in Orders : (Saga(q) /\ ~SendDeduct(q)) \/ RequestDies(q)
  <2>1. PICK q \in Orders : (Saga(q) /\ ~SendDeduct(q)) \/ RequestDies(q)
    BY <1>5
  <2>2. CASE SendPayment(q) \/ SendRestore(q)
    BY <1>4, <2>2 DEF SendPayment, SendRestore, Send, Deducts, products
  <2>3. CASE ~SendPayment(q) /\ ~SendRestore(q)
    <3>1. outside' = outside \/ UNCHANGED <<products, net>>
      BY <2>1, <2>3 DEF Saga, RequestDies, LookUp, LookUpFails, CreateOrder,
         Deducted, DeductConflicts, Reread, DeductFails, CommitStockDeducted,
         CommitPaymentRequested, PaymentApproved, PaymentFails,
         CommitCompleted, Publish, CommitRollbackNeeded, RestoreReturns,
         CommitFailed
    <3> QED
      BY <1>4, <3>1 DEF Deducts, outside, products
  <2> QED
    BY <2>2, <2>3
<1>6. CASE \/ Crash
           \/ \E r \in net : Diagnose(r) \/ ServeRestore(r) \/ ServePayment(r)
                             \/ LoseRequest(r)
           \/ \E p \in Products : AdminSetsActive(p)
           \/ UNCHANGED vars
  <2>1. net' \subseteq net /\ taken' = taken
    BY <1>6 DEF Crash, Diagnose, ServeRestore, ServePayment, LoseRequest,
       AdminSetsActive, Answer, vars, outside, products
  <2> QED
    BY <1>4, <2>1 DEF Deducts
<1> QED
  BY <1>2, <1>3, <1>5, <1>6 DEF Next, Serve

LEMMA GivenStays ==
  ASSUME Placed, StockInv, [Next]_vars, NEW o \in Orders, NEW i \in Idx(o),
         given[o][i] = 1
  PROVE  given'[o][i] = 1
<1>1. CASE \E r \in net : ServeRestore(r)
  <2>1. PICK r \in net : ServeRestore(r)
    BY <1>1
  <2>2. r \in Restores
    BY <2>1 DEF ServeRestore, Restores
  <2>3. r.order # o \/ r.item # i
    BY <2>2 DEF StockInv, RestoreAsked
  <2> QED
    BY <2>1, <2>2, <2>3, Typed DEF ServeRestore
<1>2. CASE \E q \in Orders : Saga(q) \/ RequestDies(q)
  BY <1>2 DEF Saga, RequestDies, LookUp, LookUpFails, CreateOrder, SendDeduct,
     Deducted, DeductConflicts, Reread, DeductFails, CommitStockDeducted,
     CommitPaymentRequested, SendPayment, PaymentApproved, PaymentFails,
     CommitCompleted, Publish, CommitRollbackNeeded, SendRestore,
     RestoreReturns, CommitFailed, outside, products
<1>3. CASE \/ Crash
           \/ \E r \in net : ServeDeduct(r) \/ Diagnose(r) \/ ServePayment(r)
                             \/ LoseRequest(r)
           \/ \E p \in Products : AdminSetsActive(p)
           \/ UNCHANGED vars
  BY <1>3 DEF Crash, ServeDeduct, Diagnose, ServePayment, LoseRequest,
     AdminSetsActive, vars, outside, products
<1> QED
  BY <1>1, <1>2, <1>3 DEF Next, Serve

(* How an order comes to be undoing, or stays at it.                       *)
Rests(o) == /\ pc'[o] = pc[o] /\ item'[o] = item[o] /\ undone'[o] = undone[o]
            /\ exc'[o] = exc[o]

LEMMA UndoesBy ==
  ASSUME Placed, [Next]_vars, NEW o \in Orders,
         pc'[o] \in UndoSteps \cup {"flag"}
  PROVE  \/ SendRestore(o) \/ RestoreReturns(o)
         \/ CommitRollbackNeeded(o) \/ DeductFails(o) \/ PaymentFails(o)
         \/ Rests(o) /\ reply'[o] = reply[o]
         \/ Rests(o) /\ \E r \in net : Serve(r) /\ r.order = o
<1>1. CASE \E q \in Orders \ {o} : Saga(q) \/ RequestDies(q)
  <2>1. PICK q \in Orders \ {o} : Saga(q) \/ RequestDies(q)
    BY <1>1
  <2>2. pc'[o] = pc[o] /\ exc'[o] = exc[o] /\ reply'[o] = reply[o]
    BY <2>1, OwnStep DEF Apart
  <2>3. item'[o] = item[o] /\ undone'[o] = undone[o]
    <3>1. item \in [Orders -> Nat \ {0}] /\ undone \in [Orders -> BOOLEAN]
      BY DEF Placed, TypeOK, CoOK
    <3>2. CASE DeductFails(q) \/ PaymentFails(q) \/ RestoreReturns(q)
      BY <3>1, <3>2 DEF DeductFails, PaymentFails, RestoreReturns, Raises,
         ToItem
    <3>3. CASE UNCHANGED undone /\ (UNCHANGED item \/ \E i : ToItem(q, i))
      BY <3>1, <3>3 DEF ToItem
    <3> QED
      BY <2>1, <3>2, <3>3 DEF Saga, RequestDies, LookUp, LookUpFails,
         CreateOrder, SendDeduct, Deducted, DeductConflicts, Reread,
         CommitStockDeducted, CommitPaymentRequested, SendPayment,
         PaymentApproved, CommitCompleted, Publish, CommitRollbackNeeded,
         SendRestore, CommitFailed, failing
  <2> QED
    BY <2>2, <2>3 DEF Rests
<1>2. CASE Saga(o) \/ RequestDies(o)
  BY <1>2, Typed DEF Saga, RequestDies, LookUp, LookUpFails, CreateOrder,
     SendDeduct, Send, Awaiting, Deducted, DeductConflicts, Reread,
     CommitStockDeducted, CommitPaymentRequested, SendPayment, PaymentApproved,
     CommitCompleted, Publish, CommitFailed, Goto, UndoSteps
<1>3. CASE Crash
  BY <1>3, Typed DEF Crash, Running, UndoSteps
<1>4. CASE \E r \in net : Serve(r)
  <2>1. PICK r \in net : Serve(r)
    BY <1>4
  <2>2. Rests(o)
    BY <2>1 DEF Serve, ServeDeduct, Diagnose, ServeRestore, ServePayment,
       Rests, control, failing
  <2>3. r.order = o \/ reply'[o] = reply[o]
    BY <2>1, PayTyped DEF Serve, ServeDeduct, Diagnose, ServeRestore,
       ServePayment, Answer, Replied
  <2> QED
    BY <2>1, <2>2, <2>3
<1>5. CASE \/ \E r \in net : LoseRequest(r)
           \/ \E p \in Products : AdminSetsActive(p)
           \/ UNCHANGED vars
  BY <1>5 DEF LoseRequest, AdminSetsActive, vars, coroutine, control, failing,
     Rests
<1> QED
  BY <1>1, <1>2, <1>3, <1>4, <1>5 DEF Next

(* While rows stay, what is loose or returned stays so.                    *)
LEMMA RestsUndoes ==
  ASSUME Placed, StockInv, RowsAgree, RollbackOK, [Next]_vars, NEW o \in Orders,
         pc'[o] \in UndoSteps \cup {"flag"}, Rests(o),
         reply'[o] # reply[o] /\ pc[o] = "restoring" /\ reply'[o] = "ok"
           => given'[o][item[o]] = 1
  PROVE  Undoes(o)'
<1>1. Undoes(o)
  BY DEF RollbackOK
<1>2. rows'[o] = rows[o]
  BY RowChanges, Typed DEF Rests, CreateOrder, CommitStockDeducted,
     CommitPaymentRequested, CommitCompleted, CommitRollbackNeeded,
     CommitFailed, Goto, UndoSteps
<1>3. CASE pc[o] = "flag"
  BY <1>1, <1>3 DEF Undoes, Rests, UndoSteps
<1>4. CASE pc[o] \in UndoSteps
  <2>1. Loose(o)' => Loose(o)
    BY <1>4, LooseBefore DEF UndoSteps, Undoing
  <2>2. undone[o] => Returned(o, item[o])'
    <3>1. held'[o] = held[o]
      BY <1>4, HeldStays DEF UndoSteps, Undoing
    <3> QED
      BY <1>1, <1>4, <3>1, GivenStays DEF Undoes, Returned, Rests
  <2>3. pc[o] = "restoring" => item[o] \in Idx(o)
    <3>1. item[o] \in Nat \ {0} /\ held[o] \in Nat
      BY Typed
    <3>2. /\ held[o] <= Len(Items[o])
          /\ pc[o] = "restoring" => item[o] <= held[o]
      BY DEF Placed, CursorOK, Cursor
    <3>3. Len(Items[o]) \in Nat /\ Idx(o) = 1 .. Len(Items[o])
      BY ItemFacts
    <3> QED
      BY <3>1, <3>2, <3>3
  <2>4. pc[o] = "restoring" /\ reply'[o] = "ok" => given'[o][item[o]] = 1
    BY <1>1, <2>3, GivenStays DEF Undoes
  <2> QED
    BY <1>1, <1>2, <1>4, <2>1, <2>2, <2>4 DEF Undoes, Rests, Returned, UndoSteps
<1> QED
  BY <1>3, <1>4 DEF Rests

LEMMA RestoreAnswered ==
  ASSUME Placed, StockInv, NEW o \in Orders, NEW r \in net, Serve(r),
         r.order = o, reply'[o] # reply[o], pc[o] = "restoring",
         reply'[o] = "ok"
  PROVE  given'[o][item[o]] = 1
<1>1. /\ Awaiting(r.kind) = "restoring" /\ r.item \in {0, item[o]}
  BY PayTyped DEF Serve, ServeDeduct, Diagnose, ServeRestore, ServePayment,
     Answer, Replied
<1>2. ServeRestore(r)
  BY <1>1 DEF Serve, ServeDeduct, Diagnose, ServePayment, Awaiting
<1>3. r \in Restores
  BY <1>2 DEF ServeRestore, Restores
<1>4. r.item = item[o] /\ given[o][item[o]] = 0 /\ item[o] \in Idx(o)
  <2>1. r.item \in Idx(o) /\ given[o][r.item] = 0
    BY <1>3, Typed DEF StockInv, RestoreAsked
  <2>2. r.item # 0
    BY <2>1, ItemFacts
  <2> QED
    BY <1>1, <2>1, <2>2
<1>5. given' = [given EXCEPT ![o][item[o]] = @ + 1]
  <2>1. \A msg : Answer(r, msg) /\ msg # "ok" => reply'[o] # "ok"
    BY PayTyped DEF Answer, Replied
  <2> QED
    BY <1>2, <1>4, <2>1 DEF ServeRestore
<1> QED
  BY <1>4, <1>5, Typed

(* A failed deduction whose outcome is known leaves nothing loose.         *)
LEMMA DeductFailsUndoes ==
  ASSUME Placed, StockInv, RowsAgree, NEW o \in Orders, DeductFails(o)
  PROVE  Undoes(o)'
<1>1. /\ pc'[o] = "restore" /\ item'[o] = 1 /\ rows' = rows
      /\ pc[o] \in {"deducting", "reread"}
      /\ UNCHANGED <<net, taken, held>>
      /\ \/ exc'[o].code \in Unknown
         \/ pc[o] = "reread"
         \/ pc[o] = "deducting" /\ reply[o] \notin {"none", "ok", "ERROR"}
  BY Typed, PayTyped DEF Unknown, DeductFails, Raises, Receives, TimesOut, Awaiting,
     Goto, ToItem, outside, products, buying
<1>2. Fresh(rows[o])
  BY <1>1 DEF RowsAgree, Agrees
<1>3. Returned(o, 1)'
  BY ItemFacts DEF Returned
<1>4. exc'[o].code \notin Unknown => ~Loose(o)'
  <2> SUFFICES ASSUME \/ pc[o] = "reread"
                      \/ pc[o] = "deducting"
                         /\ reply[o] \notin {"none", "ok", "ERROR"}
               PROVE  ~Loose(o)'
    BY <1>1
  <2>1. \A r \in Deducts : r.order # o
    BY DEF StockInv, DeductAsked, Undoing
  <2>2. item[o] = held[o] + 1
    BY <1>1 DEF Placed, CursorOK, Cursor, Buying
  <2>3. \A i \in Idx(o) : i > held[o] => taken[o][i] = 0
    BY <2>2, Typed DEF StockInv, TakenOnce
  <2> QED
    BY <1>1, <2>1, <2>3 DEF Loose, Deducts
<1> QED
  BY <1>1, <1>2, <1>3, <1>4 DEF Undoes, UndoSteps

LEMMA CommitRollbackNeededUndoes ==
  ASSUME Placed, StockInv, RollbackOK, NEW o \in Orders, CommitRollbackNeeded(o)
  PROVE  Undoes(o)'
<1>1. /\ pc[o] = "flag" /\ pc'[o] = "restore" /\ item'[o] = item[o]
      /\ UNCHANGED <<net, taken, held>>
  BY Typed DEF CommitRollbackNeeded, Goto, outside, products, buying
<1>2. item[o] = 1
  BY <1>1 DEF RollbackOK, Undoes
<1>3. Returned(o, 1)'
  BY ItemFacts DEF Returned
<1>4. ~Loose(o)'
  <2>1. \A r \in Deducts : r.order # o
    BY <1>1 DEF StockInv, DeductAsked, Undoing
  <2>2. \A i \in Idx(o) : ~(i > held[o])
    BY <1>1, ItemFacts DEF Placed, CursorOK, Cursor, Bought
  <2> QED
    BY <1>1, <2>1, <2>2 DEF Loose, Deducts
<1> QED
  BY <1>1, <1>2, <1>3, <1>4 DEF Undoes, UndoSteps

LEMMA RestoringUndoes ==
  ASSUME Placed, StockInv, RollbackOK, [Next]_vars, NEW o \in Orders,
         SendRestore(o) \/ RestoreReturns(o)
  PROVE  Undoes(o)'
<1>1. Undoes(o) /\ pc[o] \in UndoSteps
  BY DEF RollbackOK, SendRestore, RestoreReturns, Receives, TimesOut, Awaiting,
     UndoSteps
<1>2. rows' = rows /\ exc' = exc /\ held' = held
  BY DEF SendRestore, RestoreReturns, failing, buying
<1>3. Loose(o)' => exc'[o].code \in Unknown /\ Fresh(rows'[o])
  BY <1>1, <1>2, LooseBefore DEF Undoes, UndoSteps, Undoing
<1>4. \A n : Returned(o, n) => Returned(o, n)'
  BY <1>2, GivenStays DEF Returned
<1>5. CASE SendRestore(o)
  <2>1. /\ pc[o] = "restore" /\ pc'[o] = "restoring" /\ item' = item
        /\ undone' = undone /\ reply'[o] = "none"
    BY <1>5, Typed DEF SendRestore, Send, Awaiting, Goto, failing, StockInv,
       ReplyAwaited
  <2> QED
    BY <1>1, <1>3, <1>4, <2>1 DEF Undoes, UndoSteps, Returned
<1>6. CASE RestoreReturns(o)
  <2>1. /\ pc[o] = "restoring" /\ pc'[o] = "restore" /\ item'[o] = item[o] + 1
        /\ undone'[o] => undone[o] /\ reply[o] = "ok"
    <3>1. undone \in [Orders -> BOOLEAN]
      BY DEF Placed, TypeOK, CoOK
    <3> QED
      BY <1>6, <3>1, Typed DEF RestoreReturns, Receives, TimesOut, Awaiting,
         ToItem, Goto
  <2>2. undone'[o] => Returned(o, item[o] + 1)
    <3> SUFFICES ASSUME undone'[o], NEW i \in Idx(o), i < item[o] + 1,
                        i <= held[o]
                 PROVE  given[o][i] = 1
      BY DEF Returned
    <3>1. item[o] \in Nat /\ i \in Nat
      BY Typed
    <3>2. i < item[o] \/ i = item[o]
      BY <3>1
    <3> QED
      BY <1>1, <2>1, <3>2 DEF Undoes, Returned
  <2> QED
    BY <1>3, <1>4, <2>1, <2>2 DEF Undoes, UndoSteps, Returned
<1> QED
  BY <1>5, <1>6

LEMMA NextUndoes ==
  ASSUME Placed, StockInv, RowsAgree, RollbackOK, [Next]_vars, NEW o \in Orders
  PROVE  Undoes(o)'
<1>1. CASE pc'[o] \notin UndoSteps \cup {"flag"}
  BY <1>1 DEF Undoes, UndoSteps
<1>2. CASE pc'[o] \in UndoSteps \cup {"flag"}
  <2>1. CASE PaymentFails(o)
    BY <2>1, Typed DEF PaymentFails, Raises, Goto, ToItem, Undoes, UndoSteps
  <2>2. CASE Rests(o) /\ reply'[o] = reply[o]
    BY <1>2, <2>2, RestsUndoes
  <2>3. CASE Rests(o) /\ \E r \in net : Serve(r) /\ r.order = o
    BY <1>2, <2>3, RestsUndoes, RestoreAnswered
  <2> QED
    BY <1>2, <2>1, <2>2, <2>3, UndoesBy, DeductFailsUndoes, RestoringUndoes,
       CommitRollbackNeededUndoes
<1> QED
  BY <1>1, <1>2

(* STOCK_ROLLED_BACK is written by CommitFailed alone, and then stays.     *)
LEMMA CommitFailedWhole ==
  ASSUME Placed, StockInv, RollbackOK, [Next]_vars, NEW o \in Orders,
         CommitFailed(o)
  PROVE  RolledBackWhole(o)'
<1>1. /\ pc[o] = "restore" /\ item[o] > held[o] /\ pc'[o] = "done"
      /\ held' = held
  BY Typed DEF CommitFailed, Goto, buying
<1>2. Undoes(o) /\ rows[o] \in L!Row
  BY <1>1, RowTyped DEF RollbackOK
<1> DEFINE end == IF undone[o] THEN "STOCK_ROLLED_BACK"
                  ELSE "STOCK_ROLLBACK_NEEDED"
<1>3. rows'[o] = [rows[o] EXCEPT !.status = "FAILED", !.saga = end,
                                 !.reason = exc[o].code]
  BY Written DEF CommitFailed
<1>4. end = "STOCK_ROLLED_BACK" => undone[o]
  OBVIOUS
<1> HIDE DEF end
<1>5. /\ rows'[o].saga = end /\ rows'[o].reason = exc[o].code
      /\ rows'[o].stock_deducted = rows[o].stock_deducted
  BY <1>2, <1>3, Zenon DEF L!Row
<1>6. RolledBack(o)' => Returned(o, held[o] + 1)
  <2> SUFFICES ASSUME RolledBack(o)', NEW i \in Idx(o), i <= held[o]
               PROVE  given[o][i] = 1
    BY DEF Returned
  <2>1. undone[o]
    BY <1>4, <1>5 DEF RolledBack
  <2>2. i < item[o]
    BY <1>1, Typed
  <2> QED
    BY <1>1, <1>2, <2>1, <2>2 DEF Undoes, UndoSteps, Returned
<1>7. Loose(o)' => rows'[o].reason \in Unknown /\ ~rows'[o].stock_deducted
  BY <1>1, <1>2, <1>5, LooseBefore DEF Undoes, UndoSteps, Undoing, Fresh
<1> QED
  BY <1>1, <1>6, <1>7, GivenStays DEF RolledBackWhole, Returned

LEMMA NextWhole ==
  ASSUME Placed, StockInv, RowsAgree, RollbackOK, [Next]_vars, NEW o \in Orders
  PROVE  RolledBackWhole(o)'
<1>1. CASE CommitFailed(o)
  BY <1>1, CommitFailedWhole
<1>2. CASE rows'[o] = rows[o]
  <2> SUFFICES ASSUME RolledBack(o) PROVE RolledBackWhole(o)'
    BY <1>2 DEF RolledBackWhole, RolledBack, Failed, HasStatus
  <2>1. RolledBackWhole(o) /\ pc[o] = "done"
    BY DEF RollbackOK, RolledBackWhole
  <2>2. pc'[o] = "done" /\ held'[o] = held[o]
    BY <2>1, EndsStay
  <2>3. Loose(o)' => Loose(o)
    BY <2>1, LooseBefore DEF Undoing
  <2> QED
    BY <1>2, <2>1, <2>2, <2>3, GivenStays DEF RolledBackWhole, Returned
<1>3. CASE CommitCompleted(o)
  <2>1. rows[o] \in L!Row
    BY <1>3, RowTyped DEF CommitCompleted
  <2>2. rows'[o] = [rows[o] EXCEPT !.status = "COMPLETED",
                                   !.saga = "COMPLETED", !.paid = TRUE]
    BY <1>3, Written DEF CommitCompleted
  <2>3. rows'[o].status = "COMPLETED"
    BY <2>1, <2>2, Zenon DEF L!Row
  <2> QED
    BY <2>3 DEF RolledBackWhole, RolledBack, Failed, HasStatus
<1>4. CASE \/ CreateOrder(o) \/ CommitStockDeducted(o)
           \/ CommitPaymentRequested(o) \/ CommitRollbackNeeded(o)
  <2>1. pc'[o] \in {"deduct", "paymentRequested", "pay", "restore"}
    BY <1>4, RowTyped DEF CreateOrder, CommitStockDeducted,
       CommitPaymentRequested, CommitRollbackNeeded, Goto
  <2>2. Agrees(o)'
    BY <1>4, CommitsAgree DEF RowsAgree
  <2> QED
    BY <2>1, <2>2 DEF Agrees, Fresh, Reserved, Asked, Flagged, RolledBackWhole,
       RolledBack, Failed, HasStatus
<1> QED
  BY <1>1, <1>2, <1>3, <1>4, RowChanges

LEMMA NextRollbackOK ==
  Placed /\ StockInv /\ RowsAgree /\ RollbackOK /\ [Next]_vars => RollbackOK'
BY NextUndoes, NextWhole DEF RollbackOK

(* How far STOCK_ROLLED_BACK can be relied on: all that such an order still *)
(* holds is the item of the one deduction whose outcome the saga never      *)
(* learned, from a timeout or a 5xx, before the order was reserved.         *)
THEOREM RolledBackKeepsNothing == Spec => []RolledBackIsReleased
<1>1. Placed /\ StockInv /\ RollbackOK => RolledBackIsReleased
  <2> SUFFICES ASSUME Placed, StockInv, RollbackOK, NEW o \in Orders,
                      RolledBack(o)
               PROVE  /\ Cardinality(Kept(o)) <= 1
                      /\ Kept(o) # {} => rows[o].reason \in Unknown
                                         /\ ~rows[o].stock_deducted
    BY DEF RolledBackIsReleased, Unknown
  <2>1. RolledBackWhole(o)
    BY DEF RollbackOK
  <2>2. \A i \in Kept(o) : i = held[o] + 1 /\ taken[o][i] # 0
    <3> SUFFICES ASSUME NEW i \in Kept(o) PROVE i = held[o] + 1 /\ taken[o][i] # 0
      OBVIOUS
    <3>1. /\ i \in Idx(o) /\ i \in Nat /\ held[o] \in Nat
          /\ taken[o][i] > given[o][i] /\ taken[o][i] \in Nat
          /\ given[o][i] \in Nat
      BY Typed DEF Kept
    <3>2. ~(i <= held[o])
      BY <2>1, <3>1 DEF RolledBackWhole, Returned, StockInv, TakenOnce
    <3>3. ~(i > held[o] + 1)
      BY <3>1 DEF StockInv, TakenOnce
    <3> QED
      BY <3>1, <3>2, <3>3
  <2>3. Kept(o) # {} => Loose(o)
    <3>1. \A i \in Kept(o) : i \in Idx(o) /\ i > held[o]
      BY <2>2, Typed DEF Kept
    <3> QED
      BY <2>2, <3>1 DEF Loose
  <2>4. Kept(o) \subseteq {held[o] + 1}
    BY <2>2
  <2>5. Cardinality(Kept(o)) <= 1
    <3>1. Kept(o) = {} \/ Kept(o) = {held[o] + 1}
      BY <2>4
    <3>2. Cardinality({}) = 0
      BY FS_EmptySet
    <3>3. Cardinality({held[o] + 1}) = 1
      BY FS_Singleton
    <3>4. Cardinality(Kept(o)) \in {0, 1}
      BY <3>1, <3>2, <3>3
    <3> QED
      BY <3>4
  <2> QED
    BY <2>1, <2>3, <2>5 DEF RolledBackWhole
<1> QED
  BY <1>1, InitPlaced, NextPlaced, InitStockInv, NextStockInv, InitRowsAgree,
     NextRows, InitRollbackOK, NextRollbackOK, PTL DEF Spec

-----------------------------------------------------------------------------
(***************************************************************************)
(* What completed orders hold was deducted and is not back, so the stock   *)
(* that is left accounts for it.                                           *)
(***************************************************************************)
LEMMA CompletedFits ==
  ASSUME Placed, StockInv, StockBalances, CompletedIsPaidAndKept,
         NEW p \in Products
  PROVE  Demand({o \in Orders : Completed(o)}, p) <= InitStock[p]
<1> DEFINE T == Marked(taken, p)
           G == Marked(given, p)
           C == {x \in LinesOf(p) : x[1] \in {o \in Orders : Completed(o)}}
<1>1. \A x \in LinesOf(p) : /\ x[1] \in Orders /\ x[2] \in Idx(x[1])
                            /\ Wanted[x] \in Nat /\ Wanted[x] \in Int
  BY LineFacts
<1>2. \A o \in Orders : \A i \in Idx(o) :
        /\ taken[o][i] \in Nat /\ given[o][i] \in Nat
        /\ given[o][i] <= taken[o][i] /\ taken[o][i] <= 1
        /\ Completed(o) => taken[o][i] > given[o][i]
  <2>1. StockNeverCreated
    BY StockIsSafe
  <2> SUFFICES ASSUME NEW o \in Orders, NEW i \in Idx(o)
               PROVE  /\ taken[o][i] \in Nat /\ given[o][i] \in Nat
                      /\ given[o][i] <= taken[o][i] /\ taken[o][i] <= 1
                      /\ Completed(o) => taken[o][i] > given[o][i]
    OBVIOUS
  <2>2. Completed(o) => i \in Kept(o)
    BY DEF CompletedIsPaidAndKept
  <2> QED
    BY <2>1, <2>2, Typed DEF StockNeverCreated, Kept
<1>3. G \subseteq T /\ C \subseteq T \ G /\ T \subseteq LinesOf(p)
  <2>1. G \subseteq T
    BY <1>1, <1>2 DEF Marked
  <2>2. \A x \in C : x \in T /\ x \notin G
    <3> SUFFICES ASSUME NEW x \in C PROVE x \in T /\ x \notin G
      OBVIOUS
    <3>1. /\ taken[x[1]][x[2]] > given[x[1]][x[2]] /\ taken[x[1]][x[2]] <= 1
          /\ taken[x[1]][x[2]] \in Nat /\ given[x[1]][x[2]] \in Nat
      BY <1>1, <1>2
    <3> QED
      BY <3>1 DEF Marked
  <2> QED
    BY <2>1, <2>2 DEF Marked
<1>4. /\ IsFiniteSet(T) /\ IsFiniteSet(G)
      /\ stock[p] = InitStock[p] - Total(T) + Total(G)
      /\ stock[p] \in Nat /\ InitStock[p] \in Nat
  BY OrderSagaAssumption DEF StockBalances, Accounts, Placed, TypeOK, ProductsOK
<1>5. Demand({o \in Orders : Completed(o)}, p) = Total(C)
  BY DEF Demand, Total
<1> HIDE DEF T, G, C
<1>6. Total(T) = Total(G) + Total(T \ G)
  <2>1. IsFiniteSet(T \ G) /\ G \cup (T \ G) = T /\ G \cap (T \ G) = {}
    BY <1>3, <1>4, FS_Subset
  <2>2. \A x \in G \cup (T \ G) : Wanted[x] \in Int
    BY <1>1, <1>3
  <2>3. SumFunctionOnSet(Wanted, G \cup (T \ G)) =
          SumFunctionOnSet(Wanted, G) + SumFunctionOnSet(Wanted, T \ G)
    BY <1>4, <2>1, <2>2, SumDisjoint
  <2> QED
    BY <2>1, <2>3 DEF Total
<1>7. Total(C) <= Total(T \ G)
  <2>1. IsFiniteSet(T \ G) /\ C \in SUBSET (T \ G)
    BY <1>3, <1>4, FS_Subset
  <2> QED
    BY <1>1, <1>3, <2>1, SumMonotone DEF Total
<1>8. /\ Total(T) \in Nat /\ Total(G) \in Nat /\ Total(T \ G) \in Nat
      /\ Total(C) \in Nat
  <2>1. IsFiniteSet(T \ G) /\ IsFiniteSet(C)
    BY <1>3, <1>4, FS_Subset
  <2>2. /\ T \in SUBSET LinesOf(p) /\ G \in SUBSET LinesOf(p)
        /\ T \ G \in SUBSET LinesOf(p) /\ C \in SUBSET LinesOf(p)
    BY <1>3
  <2> QED
    BY <1>4, <2>1, <2>2, WantedOf
<1> QED
  BY <1>4, <1>5, <1>6, <1>7, <1>8

(* However many orders race for a product, are retried, given up on or     *)
(* undone, those that end COMPLETED together never hold more of it than    *)
(* there was.                                                              *)
THEOREM NothingIsOversold == Spec => []NoOversell
<1>1. /\ Placed /\ StockInv /\ StockBalances /\ CompletedIsPaidAndKept
      => NoOversell
  BY CompletedFits DEF NoOversell
<1> QED
  BY <1>1, InitPlaced, NextPlaced, InitStockInv, NextStockInv, InitBalances,
     NextBalances, CompletedKeepsItsItems, PTL DEF Spec

=============================================================================
