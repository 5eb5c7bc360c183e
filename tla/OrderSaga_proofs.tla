-------------------------- MODULE OrderSaga_proofs --------------------------
(***************************************************************************)
(* Theorems about OrderSaga, for every set of orders and products, every   *)
(* list of items, every stock, every retry limit and every combination of  *)
(* faults: typing, and what the saga does to the products.                 *)
(***************************************************************************)
EXTENDS OrderSaga, SequenceTheorems, SumTheorems, TLAPS

(* Every order names at least one item; an item has a product, a quantity. *)
LEMMA ItemFacts ==
  ASSUME NEW o \in Orders
  PROVE  /\ Len(Items[o]) \in Nat \ {0}
         /\ Idx(o) = 1 .. Len(Items[o])
         /\ \A i \in Idx(o) : Product(o, i) \in Products
                              /\ Qty(o, i) \in Nat \ {0}
<1> DEFINE Item == [product : Products, qty : Nat \ {0}]
<1>1. Items[o] \in Seq(Item) /\ Items[o] # <<>>
  BY OrderSagaAssumption
<1>2. Len(Items[o]) \in Nat \ {0} /\ Idx(o) = 1 .. Len(Items[o])
  BY <1>1, EmptySeq, LenProperties DEF Idx
<1>3. \A i \in Idx(o) : Items[o][i] \in Item
  BY <1>1, <1>2, ElementOfSeq
<1> QED
  BY <1>2, <1>3 DEF Product, Qty

(* Each committed change of a row keeps it a row.                          *)
LEMMA RowUpdates ==
  ASSUME NEW R \in L!Row, NEW status \in L!Status, NEW saga \in L!SagaStatus,
         NEW reason \in L!Reason
  PROVE  /\ [R EXCEPT !.status = status, !.saga = saga] \in L!Row
         /\ [R EXCEPT !.status = status, !.saga = saga,
                      !.stock_deducted = TRUE] \in L!Row
         /\ [R EXCEPT !.status = status, !.saga = saga, !.paid = TRUE] \in L!Row
         /\ [R EXCEPT !.saga = saga, !.reason = reason] \in L!Row
         /\ [R EXCEPT !.status = status, !.saga = saga, !.reason = reason]
              \in L!Row
BY Zenon DEF L!Row

(***************************************************************************)
(* Typing is not inductive alone: that a commit changes a row needs the    *)
(* row to be there, that a request names an item needs the cursor to be on *)
(* one.  Placed adds both.                                                 *)
(***************************************************************************)
Buying == {"deduct", "deducting", "reread"}
Bought == {"stockDeducted", "paymentRequested", "pay", "paying", "completed",
           "publish", "flag"}

Cursor(o) ==
  /\ held[o] <= Len(Items[o])
  /\ pc[o] \in {"lookup", "create"} => item[o] \in Idx(o) /\ held[o] = 0
  /\ pc[o] = "create" => item[o] = 1
  /\ pc[o] \in Buying => item[o] \in Idx(o) /\ item[o] = held[o] + 1
  /\ pc[o] \in Bought => held[o] = Len(Items[o])
  /\ pc[o] = "restoring" => item[o] <= held[o]

CursorOK == \A o \in Orders : Cursor(o)

RowPresent ==
  \A o \in Orders : pc[o] \notin {"lookup", "create", "done", "dead"}
                       => rows[o] # L!NoRow

Placed == TypeOK /\ CursorOK /\ RowPresent

LEMMA InitPlaced == Init => Placed
<1> SUFFICES ASSUME Init PROVE Placed
  OBVIOUS
<1>1. CoOK
  BY DEF Init, CoOK, Steps, Codes, Exception, L!Reason
<1>2. RowsOK
  BY DEF Init, RowsOK, L!Init
<1>3. ProductsOK
  BY OrderSagaAssumption DEF Init, ProductsOK
<1>4. LedgerOK
  BY DEF Init, LedgerOK
<1>5. CursorOK
  BY ItemFacts DEF Init, CursorOK, Cursor, Buying, Bought
<1> QED
  BY <1>1, <1>2, <1>3, <1>4, <1>5 DEF Init, Placed, TypeOK, NetOK, RowPresent

(***************************************************************************)
(* What the building blocks of the actions do to the types.                *)
(***************************************************************************)
LEMMA StatusFacts == {201, 404, 409, 500, 503, 504, 402, 502} \subseteq Nat
OBVIOUS

LEMMA ReadsOK ==
  ASSUME CoOK, ProductsOK, NEW o \in Orders, Reads(o)
  PROVE  DOMAIN seen' = Orders /\ \A q \in Orders : seen'[q] \in [Idx(q) -> Nat]
<1>1. PICK v \in Readable(Product(o, item[o])) :
        seen' = [seen EXCEPT ![o][item[o]] = v]
  BY DEF Reads
<1>2. CASE v \in Nat
  BY <1>1, <1>2 DEF CoOK
<1>3. CASE v \notin Nat
  <2>1. Product(o, item[o]) \notin Products
    BY <1>3 DEF Readable, ProductsOK
  <2>2. item[o] \notin Idx(o)
    BY <2>1, ItemFacts
  <2> QED
    BY <1>1, <2>2 DEF CoOK
<1> QED
  BY <1>2, <1>3

LEMMA RaisesOK ==
  ASSUME CoOK, NEW o \in Orders, NEW code \in L!Reason, NEW status \in Nat,
         NEW step \in Steps, Raises(o, code, status, step)
  PROVE  /\ exc' \in [Orders -> Exception]
         /\ undone' \in [Orders -> BOOLEAN]
         /\ item' \in [Orders -> Nat \ {0}]
         /\ pc' \in [Orders -> Steps]
BY DEF CoOK, Raises, Exception, ToItem, Goto

LEMMA CommitOK ==
  ASSUME RowsOK, NEW o \in Orders, NEW R \in L!Row, Commit(o, R)
  PROVE  RowsOK' /\ rows'[o] # L!NoRow
         /\ \A q \in Orders \ {o} : rows'[q] = rows[q]
<1>1. R.status \in L!Status
  BY DEF L!Row
<1>2. L!NoRow.status \notin L!Status
  BY DEF L!NoRow, L!Status
<1>3. R # L!NoRow
  BY <1>1, <1>2
<1> QED
  BY <1>3 DEF RowsOK, Commit

LEMMA LookUpPlaced ==
  ASSUME Placed, NEW o \in Orders, LookUp(o) PROVE Placed'
<1> USE DEF Placed, TypeOK
<1>1. CoOK'
  <2>1. item' \in [Orders -> Nat \ {0}]
    <3>1. item' = [item EXCEPT ![o] = item[o] + 1] \/ item' = [item EXCEPT ![o] = 1]
      BY DEF LookUp, ToItem
    <3>2. item[o] + 1 \in Nat \ {0} /\ item \in [Orders -> Nat \ {0}]
      BY DEF CoOK
    <3> QED
      BY <3>1, <3>2
  <2>2. pc' \in [Orders -> Steps]
    BY DEF LookUp, Goto, CoOK, Steps
  <2> QED
    BY <2>1, <2>2, ReadsOK DEF LookUp, buying, failing, CoOK, Codes
<1>2. CursorOK'
  BY ItemFacts DEF LookUp, Reads, Goto, ToItem, control, buying, failing, CoOK,
     CursorOK, Cursor, Buying, Bought, Awaiting
<1>3. RowsOK' /\ RowPresent'
  BY DEF LookUp, Reads, Goto, CoOK, RowsOK, RowPresent, Awaiting
<1> QED
  BY <1>1, <1>2, <1>3 DEF LookUp, outside, products, ProductsOK, LedgerOK,
     NetOK

LEMMA LookUpFailsPlaced ==
  ASSUME Placed, NEW o \in Orders, LookUpFails(o) PROVE Placed'
<1> USE DEF Placed, TypeOK
<1>1. CoOK'
  <2>1. answer' \in [Orders -> Nat] /\ pc' \in [Orders -> Steps]
    BY StatusFacts DEF LookUpFails, Answered, Goto, CoOK, Steps
  <2> QED
    BY <2>1 DEF LookUpFails, buying, failing, CoOK
<1>2. CursorOK'
  BY ItemFacts DEF LookUpFails, Answered, Goto, ToItem, control, buying,
     failing, CoOK, CursorOK, Cursor, Buying, Bought, Awaiting
<1>3. RowsOK' /\ RowPresent'
  BY DEF LookUpFails, Answered, Goto, CoOK, RowsOK, RowPresent, Awaiting
<1> QED
  BY <1>1, <1>2, <1>3 DEF LookUpFails, outside, products, ProductsOK, LedgerOK,
     NetOK

LEMMA CreateOrderPlaced ==
  ASSUME Placed, NEW o \in Orders, CreateOrder(o) PROVE Placed'
<1> USE DEF Placed, TypeOK
<1>1. CoOK'
  BY ItemFacts, StatusFacts DEF CreateOrder, Goto, ToItem, control, buying,
     failing, CoOK, Steps, Codes, Awaiting, Exception
<1>2. CursorOK'
  BY ItemFacts DEF CreateOrder, Goto, ToItem, control, buying, failing, CoOK,
     CursorOK, Cursor, Buying, Bought, Awaiting
<1>3. RowsOK' /\ RowPresent'
  <2>1. L!NewRow \in L!Row
    BY DEF L!NewRow, L!Row, L!Status, L!SagaStatus, L!Reason
  <2> QED
    BY <2>1, CommitOK DEF CreateOrder, Goto, CoOK, RowPresent
<1> QED
  BY <1>1, <1>2, <1>3 DEF CreateOrder, outside, products, ProductsOK, LedgerOK,
     NetOK

LEMMA SendDeductPlaced ==
  ASSUME Placed, NEW o \in Orders, SendDeduct(o) PROVE Placed'
<1> USE DEF Placed, TypeOK
<1>1. CoOK'
  BY ItemFacts, StatusFacts DEF SendDeduct, Send, Goto, ToItem, control,
     buying, failing, CoOK, Steps, Codes, Awaiting, Exception
<1>2. CursorOK'
  BY ItemFacts DEF SendDeduct, Send, Goto, ToItem, control, buying, failing,
     CoOK, CursorOK, Cursor, Buying, Bought, Awaiting
<1>3. RowsOK' /\ RowPresent'
  BY DEF SendDeduct, Send, Goto, CoOK, RowsOK, RowPresent, Awaiting
<1>4. NetOK'
  BY ItemFacts DEF SendDeduct, Send, CoOK, NetOK, Request, CursorOK, Cursor,
     Buying
<1> QED
  BY <1>1, <1>2, <1>3, <1>4 DEF SendDeduct, outside, products, ProductsOK,
     LedgerOK

LEMMA DeductedPlaced ==
  ASSUME Placed, NEW o \in Orders, Deducted(o) PROVE Placed'
<1> USE DEF Placed, TypeOK
<1>1. CoOK'
  <2>1. item' \in [Orders -> Nat \ {0}]
    <3>1. item' = [item EXCEPT ![o] = item[o] + 1] \/ item' = item
      BY DEF Deducted, ToItem
    <3>2. item[o] + 1 \in Nat \ {0} /\ item \in [Orders -> Nat \ {0}]
      BY DEF CoOK
    <3> QED
      BY <3>1, <3>2
  <2>2. pc' \in [Orders -> Steps]
    BY DEF Deducted, Goto, CoOK, Steps
  <2>3. held' \in [Orders -> Nat] /\ attempt' \in [Orders -> Nat \ {0}]
    BY DEF Deducted, CoOK
  <2> QED
    BY <2>1, <2>2, <2>3 DEF Deducted, Receives, Replied, failing, CoOK, Codes
<1>2. CursorOK'
  <2>1. /\ pc[o] = "deducting" /\ item[o] = held[o] + 1
        /\ item[o] <= Len(Items[o]) /\ held[o] \in Nat /\ item[o] \in Nat
    BY ItemFacts DEF Deducted, Receives, Awaiting, CoOK, CursorOK, Cursor, Buying
  <2>2. /\ held' = [held EXCEPT ![o] = held[o] + 1]
        /\ \/ /\ item[o] < Len(Items[o])
              /\ item' = [item EXCEPT ![o] = item[o] + 1]
              /\ pc' = [pc EXCEPT ![o] = "deduct"]
           \/ /\ item[o] = Len(Items[o])
              /\ pc' = [pc EXCEPT ![o] = "stockDeducted"]
              /\ item' = item
    BY DEF Deducted, Goto, ToItem
  <2> SUFFICES ASSUME NEW q \in Orders PROVE Cursor(q)'
    BY DEF CursorOK
  <2>3. Cursor(q) /\ Idx(o) = 1 .. Len(Items[o]) /\ Len(Items[o]) \in Nat
    BY ItemFacts DEF CursorOK
  <2>4. CASE q = o
    BY <2>1, <2>2, <2>3, <2>4 DEF CoOK, Cursor, Buying, Bought
  <2>5. CASE q # o
    BY <2>2, <2>3, <2>5 DEF CoOK, Cursor
  <2> QED
    BY <2>4, <2>5
<1>3. RowsOK' /\ RowPresent'
  BY DEF Deducted, Receives, Replied, Goto, CoOK, RowsOK, RowPresent, Awaiting
<1> QED
  BY <1>1, <1>2, <1>3 DEF Deducted, outside, products, ProductsOK, LedgerOK,
     NetOK

LEMMA DeductConflictsPlaced ==
  ASSUME Placed, NEW o \in Orders, DeductConflicts(o) PROVE Placed'
<1> USE DEF Placed, TypeOK
<1>1. CoOK'
  BY ItemFacts, StatusFacts DEF DeductConflicts, Receives, Replied, Goto,
     ToItem, control, buying, failing, CoOK, Steps, Codes, Awaiting, Exception
<1>2. CursorOK'
  BY ItemFacts DEF DeductConflicts, Receives, Replied, Goto, ToItem, control,
     buying, failing, CoOK, CursorOK, Cursor, Buying, Bought, Awaiting
<1>3. RowsOK' /\ RowPresent'
  BY DEF DeductConflicts, Receives, Replied, Goto, CoOK, RowsOK, RowPresent,
     Awaiting
<1> QED
  BY <1>1, <1>2, <1>3 DEF DeductConflicts, outside, products, ProductsOK,
     LedgerOK, NetOK

LEMMA RereadPlaced ==
  ASSUME Placed, NEW o \in Orders, Reread(o) PROVE Placed'
<1> USE DEF Placed, TypeOK
<1>1. CoOK'
  BY ReadsOK, ItemFacts DEF Reread, Goto, ToItem, control, buying, failing,
     CoOK, Steps, CursorOK, Cursor, Idx
<1>2. CursorOK'
  BY ItemFacts DEF Reread, Reads, Goto, ToItem, control, buying, failing, CoOK,
     CursorOK, Cursor, Buying, Bought, Awaiting
<1>3. RowsOK' /\ RowPresent'
  BY DEF Reread, Reads, Goto, CoOK, RowsOK, RowPresent, Awaiting
<1> QED
  BY <1>1, <1>2, <1>3 DEF Reread, outside, products, ProductsOK, LedgerOK,
     NetOK

LEMMA DeductFailsPlaced ==
  ASSUME Placed, NEW o \in Orders, DeductFails(o) PROVE Placed'
<1> USE DEF Placed, TypeOK
<1>1. CoOK'
  <2>1. exc' \in [Orders -> Exception] /\ undone' \in [Orders -> BOOLEAN]
        /\ item' \in [Orders -> Nat \ {0}] /\ pc' \in [Orders -> Steps]
    BY RaisesOK, StatusFacts DEF DeductFails, L!Reason, Steps
  <2> QED
    BY <2>1 DEF DeductFails, Receives, TimesOut, Replied, buying, CoOK, Codes
<1>2. CursorOK'
  BY ItemFacts DEF DeductFails, Receives, TimesOut, Replied, Raises, Exception,
     L!Reason, Goto, ToItem, control, buying, failing, CoOK, CursorOK, Cursor,
     Buying, Bought, Awaiting
<1>3. RowsOK' /\ RowPresent'
  BY DEF DeductFails, Receives, TimesOut, Replied, Raises, Goto, CoOK, RowsOK,
     RowPresent, Awaiting
<1> QED
  BY <1>1, <1>2, <1>3 DEF DeductFails, outside, products, ProductsOK, LedgerOK,
     NetOK

LEMMA CommitStockDeductedPlaced ==
  ASSUME Placed, NEW o \in Orders, CommitStockDeducted(o) PROVE Placed'
<1> USE DEF Placed, TypeOK
<1>1. CoOK'
  BY ItemFacts, StatusFacts DEF CommitStockDeducted, Goto, ToItem, control,
     buying, failing, CoOK, Steps, Codes, Awaiting, Exception
<1>2. CursorOK'
  BY ItemFacts DEF CommitStockDeducted, Goto, ToItem, control, buying, failing,
     CoOK, CursorOK, Cursor, Buying, Bought, Awaiting
<1>3. RowsOK' /\ RowPresent'
  <2> DEFINE R == [rows[o] EXCEPT !.status = "STOCK_DEDUCTED",
                                  !.saga = "STOCK_DEDUCTED",
                                  !.stock_deducted = TRUE]
  <2>1. rows[o] \in L!Row
    BY DEF CommitStockDeducted, RowPresent, RowsOK
  <2>2. R \in L!Row
    BY <2>1, RowUpdates DEF L!Status, L!SagaStatus, L!Reason
  <2>3. Commit(o, R)
    BY DEF CommitStockDeducted
  <2> HIDE DEF R
  <2> QED
    BY <2>2, <2>3, CommitOK DEF CommitStockDeducted, Goto, CoOK, RowPresent
<1> QED
  BY <1>1, <1>2, <1>3 DEF CommitStockDeducted, outside, products, ProductsOK,
     LedgerOK, NetOK

LEMMA CommitPaymentRequestedPlaced ==
  ASSUME Placed, NEW o \in Orders, CommitPaymentRequested(o) PROVE Placed'
<1> USE DEF Placed, TypeOK
<1>1. CoOK'
  BY ItemFacts, StatusFacts DEF CommitPaymentRequested, Goto, ToItem, control,
     buying, failing, CoOK, Steps, Codes, Awaiting, Exception
<1>2. CursorOK'
  BY ItemFacts DEF CommitPaymentRequested, Goto, ToItem, control, buying,
     failing, CoOK, CursorOK, Cursor, Buying, Bought, Awaiting
<1>3. RowsOK' /\ RowPresent'
  <2> DEFINE R == [rows[o] EXCEPT !.status = "PAYMENT_REQUESTED",
                                  !.saga = "PAYMENT_REQUESTED"]
  <2>1. rows[o] \in L!Row
    BY DEF CommitPaymentRequested, RowPresent, RowsOK
  <2>2. R \in L!Row
    BY <2>1, RowUpdates DEF L!Status, L!SagaStatus, L!Reason
  <2>3. Commit(o, R)
    BY DEF CommitPaymentRequested
  <2> HIDE DEF R
  <2> QED
    BY <2>2, <2>3, CommitOK DEF CommitPaymentRequested, Goto, CoOK, RowPresent
<1> QED
  BY <1>1, <1>2, <1>3 DEF CommitPaymentRequested, outside, products,
     ProductsOK, LedgerOK, NetOK

LEMMA SendPaymentPlaced ==
  ASSUME Placed, NEW o \in Orders, SendPayment(o) PROVE Placed'
<1> USE DEF Placed, TypeOK
<1>1. CoOK'
  BY ItemFacts, StatusFacts DEF SendPayment, Send, Goto, ToItem, control,
     buying, failing, CoOK, Steps, Codes, Awaiting, Exception
<1>2. CursorOK'
  BY ItemFacts DEF SendPayment, Send, Goto, ToItem, control, buying, failing,
     CoOK, CursorOK, Cursor, Buying, Bought, Awaiting
<1>3. RowsOK' /\ RowPresent'
  BY DEF SendPayment, Send, Goto, CoOK, RowsOK, RowPresent, Awaiting
<1>4. NetOK'
  BY ItemFacts DEF SendPayment, Send, CoOK, NetOK, Request, CursorOK, Cursor,
     Buying
<1> QED
  BY <1>1, <1>2, <1>3, <1>4 DEF SendPayment, outside, products, ProductsOK,
     LedgerOK

LEMMA PaymentApprovedPlaced ==
  ASSUME Placed, NEW o \in Orders, PaymentApproved(o) PROVE Placed'
<1> USE DEF Placed, TypeOK
<1>1. CoOK'
  BY ItemFacts, StatusFacts DEF PaymentApproved, Receives, Replied, Goto,
     ToItem, control, buying, failing, CoOK, Steps, Codes, Awaiting, Exception
<1>2. CursorOK'
  BY ItemFacts DEF PaymentApproved, Receives, Replied, Goto, ToItem, control,
     buying, failing, CoOK, CursorOK, Cursor, Buying, Bought, Awaiting
<1>3. RowsOK' /\ RowPresent'
  BY DEF PaymentApproved, Receives, Replied, Goto, CoOK, RowsOK, RowPresent,
     Awaiting
<1> QED
  BY <1>1, <1>2, <1>3 DEF PaymentApproved, outside, products, ProductsOK,
     LedgerOK, NetOK

LEMMA PaymentFailsPlaced ==
  ASSUME Placed, NEW o \in Orders, PaymentFails(o) PROVE Placed'
<1> USE DEF Placed, TypeOK
<1>1. CoOK'
  <2>1. exc' \in [Orders -> Exception] /\ undone' \in [Orders -> BOOLEAN]
        /\ item' \in [Orders -> Nat \ {0}] /\ pc' \in [Orders -> Steps]
    BY RaisesOK, StatusFacts DEF PaymentFails, L!Reason, Steps
  <2> QED
    BY <2>1 DEF PaymentFails, Receives, TimesOut, Replied, buying, CoOK, Codes
<1>2. CursorOK'
  BY ItemFacts DEF PaymentFails, Receives, TimesOut, Replied, Raises,
     Exception, L!Reason, Goto, ToItem, control, buying, failing, CoOK,
     CursorOK, Cursor, Buying, Bought, Awaiting
<1>3. RowsOK' /\ RowPresent'
  BY DEF PaymentFails, Receives, TimesOut, Replied, Raises, Goto, CoOK, RowsOK,
     RowPresent, Awaiting
<1> QED
  BY <1>1, <1>2, <1>3 DEF PaymentFails, outside, products, ProductsOK,
     LedgerOK, NetOK

LEMMA CommitCompletedPlaced ==
  ASSUME Placed, NEW o \in Orders, CommitCompleted(o) PROVE Placed'
<1> USE DEF Placed, TypeOK
<1>1. CoOK'
  BY ItemFacts, StatusFacts DEF CommitCompleted, Goto, ToItem, control, buying,
     failing, CoOK, Steps, Codes, Awaiting, Exception
<1>2. CursorOK'
  BY ItemFacts DEF CommitCompleted, Goto, ToItem, control, buying, failing,
     CoOK, CursorOK, Cursor, Buying, Bought, Awaiting
<1>3. RowsOK' /\ RowPresent'
  <2> DEFINE R == [rows[o] EXCEPT !.status = "COMPLETED",
                                  !.saga = "COMPLETED",
                                  !.paid = TRUE]
  <2>1. rows[o] \in L!Row
    BY DEF CommitCompleted, RowPresent, RowsOK
  <2>2. R \in L!Row
    BY <2>1, RowUpdates DEF L!Status, L!SagaStatus, L!Reason
  <2>3. Commit(o, R)
    BY DEF CommitCompleted
  <2> HIDE DEF R
  <2> QED
    BY <2>2, <2>3, CommitOK DEF CommitCompleted, Goto, CoOK, RowPresent
<1> QED
  BY <1>1, <1>2, <1>3 DEF CommitCompleted, outside, products, ProductsOK,
     LedgerOK, NetOK

LEMMA PublishPlaced ==
  ASSUME Placed, NEW o \in Orders, Publish(o) PROVE Placed'
<1> USE DEF Placed, TypeOK
<1>1. CoOK'
  <2>1. answer' \in [Orders -> Nat]
    <3>1. answer' = [answer EXCEPT ![o] = 201]
          \/ answer' = [answer EXCEPT ![o] = 500]
      BY DEF Publish, Answered
    <3> QED
      BY <3>1 DEF CoOK
  <2> QED
    BY <2>1 DEF Publish, Goto, buying, failing, CoOK, Steps
<1>2. CursorOK'
  BY ItemFacts DEF Publish, Answered, Goto, ToItem, control, buying, failing,
     CoOK, CursorOK, Cursor, Buying, Bought, Awaiting
<1>3. RowsOK' /\ RowPresent'
  BY DEF Publish, Answered, Goto, CoOK, RowsOK, RowPresent, Awaiting
<1> QED
  BY <1>1, <1>2, <1>3 DEF Publish, outside, products, ProductsOK, LedgerOK,
     NetOK

LEMMA CommitRollbackNeededPlaced ==
  ASSUME Placed, NEW o \in Orders, CommitRollbackNeeded(o) PROVE Placed'
<1> USE DEF Placed, TypeOK
<1>1. CoOK'
  BY ItemFacts, StatusFacts DEF CommitRollbackNeeded, Goto, ToItem, control,
     buying, failing, CoOK, Steps, Codes, Awaiting, Exception
<1>2. CursorOK'
  BY ItemFacts DEF CommitRollbackNeeded, Goto, ToItem, control, buying,
     failing, CoOK, CursorOK, Cursor, Buying, Bought, Awaiting
<1>3. RowsOK' /\ RowPresent'
  <2> DEFINE R == [rows[o] EXCEPT !.saga = "STOCK_ROLLBACK_NEEDED",
                                  !.reason = exc[o].code]
  <2>1. rows[o] \in L!Row
    BY DEF CommitRollbackNeeded, RowPresent, RowsOK
  <2>2. R \in L!Row
    BY <2>1, RowUpdates DEF CoOK, Exception, L!Status, L!SagaStatus, L!Reason
  <2>3. Commit(o, R)
    BY DEF CommitRollbackNeeded
  <2> HIDE DEF R
  <2> QED
    BY <2>2, <2>3, CommitOK DEF CommitRollbackNeeded, Goto, CoOK, RowPresent
<1> QED
  BY <1>1, <1>2, <1>3 DEF CommitRollbackNeeded, outside, products, ProductsOK,
     LedgerOK, NetOK

LEMMA SendRestorePlaced ==
  ASSUME Placed, NEW o \in Orders, SendRestore(o) PROVE Placed'
<1> USE DEF Placed, TypeOK
<1>1. CoOK'
  BY ItemFacts, StatusFacts DEF SendRestore, Send, Goto, ToItem, control,
     buying, failing, CoOK, Steps, Codes, Awaiting, Exception
<1>2. CursorOK'
  BY ItemFacts DEF SendRestore, Send, Goto, ToItem, control, buying, failing,
     CoOK, CursorOK, Cursor, Buying, Bought, Awaiting
<1>3. RowsOK' /\ RowPresent'
  BY DEF SendRestore, Send, Goto, CoOK, RowsOK, RowPresent, Awaiting
<1>4. NetOK'
  <2>1. item[o] \in Idx(o)
    <3>1. item[o] \in Nat \ {0} /\ held[o] \in Nat
      BY DEF CoOK
    <3>2. item[o] <= held[o] /\ held[o] <= Len(Items[o])
      BY DEF SendRestore, CursorOK, Cursor
    <3> QED
      BY <3>1, <3>2, ItemFacts
  <2> QED
    BY <2>1 DEF SendRestore, Send, CoOK, NetOK, Request
<1> QED
  BY <1>1, <1>2, <1>3, <1>4 DEF SendRestore, outside, products, ProductsOK,
     LedgerOK

LEMMA RestoreReturnsPlaced ==
  ASSUME Placed, NEW o \in Orders, RestoreReturns(o) PROVE Placed'
<1> USE DEF Placed, TypeOK
<1>1. CoOK'
  <2>1. item' \in [Orders -> Nat \ {0}]
    BY DEF RestoreReturns, ToItem, CoOK
  <2>2. pc' \in [Orders -> Steps]
    BY DEF RestoreReturns, Goto, CoOK, Steps
  <2> QED
    BY <2>1, <2>2 DEF RestoreReturns, Receives, Replied, TimesOut, buying, failing, CoOK, Codes
<1>2. CursorOK'
  BY ItemFacts DEF RestoreReturns, Receives, TimesOut, Replied, Goto, ToItem,
     control, buying, failing, CoOK, CursorOK, Cursor, Buying, Bought, Awaiting
<1>3. RowsOK' /\ RowPresent'
  BY DEF RestoreReturns, Receives, TimesOut, Replied, Goto, CoOK, RowsOK,
     RowPresent, Awaiting
<1> QED
  BY <1>1, <1>2, <1>3 DEF RestoreReturns, outside, products, ProductsOK,
     LedgerOK, NetOK

LEMMA CommitFailedPlaced ==
  ASSUME Placed, NEW o \in Orders, CommitFailed(o) PROVE Placed'
<1> USE DEF Placed, TypeOK
<1>1. CoOK'
  BY ItemFacts, StatusFacts DEF CommitFailed, Answered, Goto, ToItem, control,
     buying, failing, CoOK, Steps, Codes, Awaiting, Exception
<1>2. CursorOK'
  BY ItemFacts DEF CommitFailed, Answered, Goto, ToItem, control, buying,
     failing, CoOK, CursorOK, Cursor, Buying, Bought, Awaiting
<1>3. RowsOK' /\ RowPresent'
  <2> DEFINE R == [rows[o] EXCEPT !.status = "FAILED",
                                  !.saga = IF undone[o] THEN "STOCK_ROLLED_BACK"
                                   ELSE "STOCK_ROLLBACK_NEEDED",
                                  !.reason = exc[o].code]
  <2>1. rows[o] \in L!Row
    BY DEF CommitFailed, RowPresent, RowsOK
  <2>2. R \in L!Row
    BY <2>1, RowUpdates DEF CoOK, Exception, L!Status, L!SagaStatus, L!Reason
  <2>3. Commit(o, R)
    BY DEF CommitFailed
  <2> HIDE DEF R
  <2> QED
    BY <2>2, <2>3, CommitOK DEF CommitFailed, Goto, CoOK, RowPresent
<1> QED
  BY <1>1, <1>2, <1>3 DEF CommitFailed, outside, products, ProductsOK,
     LedgerOK, NetOK

LEMMA RequestDiesPlaced ==
  ASSUME Placed, NEW o \in Orders, RequestDies(o) PROVE Placed'
<1> USE DEF Placed, TypeOK
<1>1. CoOK'
  BY ItemFacts, StatusFacts DEF RequestDies, OnDatabase, Goto, ToItem, control,
     buying, failing, CoOK, Steps, Codes, Awaiting, Exception
<1>2. CursorOK'
  BY ItemFacts DEF RequestDies, OnDatabase, Goto, ToItem, control, buying,
     failing, CoOK, CursorOK, Cursor, Buying, Bought, Awaiting
<1>3. RowsOK' /\ RowPresent'
  BY DEF RequestDies, OnDatabase, Goto, CoOK, RowsOK, RowPresent, Awaiting
<1> QED
  BY <1>1, <1>2, <1>3 DEF RequestDies, outside, products, ProductsOK, LedgerOK,
     NetOK

LEMMA CrashPlaced == ASSUME Placed, Crash PROVE Placed'
<1> USE DEF Placed, TypeOK
<1>1. CoOK'
  BY DEF Crash, buying, failing, CoOK, Steps, Codes
<1>2. CursorOK'
  BY DEF Crash, buying, failing, CoOK, CursorOK, Cursor, Buying, Bought
<1>3. RowsOK' /\ RowPresent'
  BY DEF Crash, CoOK, RowsOK, RowPresent
<1> QED
  BY <1>1, <1>2, <1>3 DEF Crash, outside, products, ProductsOK, LedgerOK, NetOK

(***************************************************************************)
(* The other services.  They leave the coroutines and the rows alone, but  *)
(* for a reply that arrives.                                               *)
(***************************************************************************)
Untouched == /\ UNCHANGED <<control, buying, failing, answer, rows>>
             /\ reply' \in [Orders -> Codes]

LEMMA UntouchedOK ==
  ASSUME Placed, Untouched PROVE CoOK' /\ CursorOK' /\ RowsOK' /\ RowPresent'
BY DEF Placed, TypeOK, Untouched, control, buying, failing, CoOK, CursorOK,
   Cursor, RowsOK, RowPresent

LEMMA AnswerOK ==
  ASSUME CoOK, NetOK, NEW r \in net, NEW msg \in Codes, Answer(r, msg)
  PROVE  reply' \in [Orders -> Codes] /\ NetOK'
BY DEF CoOK, NetOK, Request, Answer, Replied

LEMMA ServeDeductPlaced ==
  ASSUME Placed, NEW r \in net, ServeDeduct(r) PROVE Placed'
<1> DEFINE o == r.order
           p == Product(o, r.item)
<1>1. /\ TypeOK /\ CoOK /\ ProductsOK /\ LedgerOK /\ NetOK
  BY DEF Placed, TypeOK
<1>2. r \in Request /\ o \in Orders /\ r.item \in Idx(o)
  BY <1>1 DEF NetOK, Request, ServeDeduct
<1>3. p \in Products /\ Qty(o, r.item) \in Nat \ {0}
  BY <1>2, ItemFacts
<1>4. reply' \in [Orders -> Codes] /\ NetOK'
  <2>1. CASE \E msg \in Codes : Answer(r, msg)
    BY <1>1, <2>1, AnswerOK
  <2>2. CASE /\ net' = (net \ {r}) \cup {[r EXCEPT !.kind = "diagnose"]}
             /\ UNCHANGED reply
    <3>1. [r EXCEPT !.kind = "diagnose"] \in Request
      BY <1>2 DEF Request
    <3>2. [r EXCEPT !.kind = "diagnose"].item = r.item
          /\ [r EXCEPT !.kind = "diagnose"].order = r.order
      BY <1>2 DEF Request
    <3> QED
      BY <1>1, <1>2, <2>2, <3>1, <3>2 DEF NetOK, CoOK
  <2> QED
    BY <2>1, <2>2 DEF ServeDeduct, Codes
<1>5. ProductsOK' /\ LedgerOK'
  <2>1. CASE /\ Matches(r)
             /\ stock' = [stock EXCEPT ![p] = @ - Qty(o, r.item)]
             /\ version' = [version EXCEPT ![p] = @ + 1]
             /\ taken' = [taken EXCEPT ![o][r.item] = @ + 1]
    <3>1. stock[p] - Qty(o, r.item) \in Nat
      BY <1>1, <1>3, <2>1 DEF Matches, ProductsOK
    <3>2. version[p] + 1 \in Nat \ {0}
      BY <1>1, <1>3 DEF ProductsOK
    <3>3. taken[o][r.item] + 1 \in Nat
      BY <1>1, <1>2 DEF LedgerOK
    <3> QED
      BY <1>1, <1>2, <1>3, <2>1, <3>1, <3>2, <3>3
      DEF ServeDeduct, ProductsOK, LedgerOK
  <2>2. CASE UNCHANGED <<stock, version, taken>>
    BY <1>1, <2>2 DEF ServeDeduct, ProductsOK, LedgerOK
  <2> QED
    BY <2>1, <2>2 DEF ServeDeduct
<1>6. Untouched
  BY <1>4 DEF ServeDeduct, Untouched
<1> QED
  BY <1>1, <1>4, <1>5, <1>6, UntouchedOK DEF ServeDeduct, Placed, TypeOK

LEMMA DiagnosePlaced ==
  ASSUME Placed, NEW r \in net, Diagnose(r) PROVE Placed'
<1>1. PICK msg \in Codes : Answer(r, msg)
  BY DEF Diagnose, Codes
<1>2. reply' \in [Orders -> Codes] /\ NetOK'
  BY <1>1, AnswerOK DEF Placed, TypeOK
<1>3. Untouched
  BY <1>2 DEF Diagnose, Untouched
<1> QED
  BY <1>2, <1>3, UntouchedOK DEF Diagnose, Placed, TypeOK, products, ProductsOK,
     LedgerOK

LEMMA ServeRestorePlaced ==
  ASSUME Placed, NEW r \in net, ServeRestore(r) PROVE Placed'
<1> DEFINE o == r.order
           p == Product(o, r.item)
<1>1. /\ TypeOK /\ CoOK /\ ProductsOK /\ LedgerOK /\ NetOK
  BY DEF Placed, TypeOK
<1>2. r \in Request /\ o \in Orders /\ r.item \in Idx(o)
  BY <1>1 DEF NetOK, Request, ServeRestore
<1>3. p \in Products /\ Qty(o, r.item) \in Nat \ {0}
  BY <1>2, ItemFacts
<1>4. reply' \in [Orders -> Codes] /\ NetOK'
  <2>1. \E msg \in Codes : Answer(r, msg)
    BY DEF ServeRestore, Codes
  <2> QED
    BY <1>1, <2>1, AnswerOK
<1>5. ProductsOK' /\ LedgerOK'
  <2>1. CASE /\ stock' = [stock EXCEPT ![p] = @ + Qty(o, r.item)]
             /\ version' = [version EXCEPT ![p] = @ + 1]
             /\ given' = [given EXCEPT ![o][r.item] = @ + 1]
    <3>1. stock[p] + Qty(o, r.item) \in Nat
      BY <1>1, <1>3 DEF ProductsOK
    <3>2. version[p] + 1 \in Nat \ {0}
      BY <1>1, <1>3 DEF ProductsOK
    <3>3. given[o][r.item] + 1 \in Nat
      BY <1>1, <1>2 DEF LedgerOK
    <3> QED
      BY <1>1, <1>2, <1>3, <2>1, <3>1, <3>2, <3>3
      DEF ServeRestore, ProductsOK, LedgerOK
  <2>2. CASE UNCHANGED <<stock, version, given>>
    BY <1>1, <2>2 DEF ServeRestore, ProductsOK, LedgerOK
  <2> QED
    BY <2>1, <2>2 DEF ServeRestore
<1>6. Untouched
  BY <1>4 DEF ServeRestore, Untouched
<1> QED
  BY <1>1, <1>4, <1>5, <1>6, UntouchedOK DEF ServeRestore, Placed, TypeOK

LEMMA ServePaymentPlaced ==
  ASSUME Placed, NEW r \in net, ServePayment(r) PROVE Placed'
<1>1. \E msg \in Codes : Answer(r, msg)
  BY DEF ServePayment, Codes
<1>2. reply' \in [Orders -> Codes] /\ NetOK'
  BY <1>1, AnswerOK DEF Placed, TypeOK
<1>3. Untouched
  BY <1>2 DEF ServePayment, Untouched
<1> QED
  BY <1>2, <1>3, UntouchedOK DEF ServePayment, Placed, TypeOK, products,
     ProductsOK, LedgerOK

LEMMA AdminSetsActivePlaced ==
  ASSUME Placed, NEW p \in Products, AdminSetsActive(p) PROVE Placed'
<1>1. Untouched
  BY DEF AdminSetsActive, Untouched, coroutine, control, buying, failing,
     Placed, TypeOK, CoOK
<1> QED
  BY <1>1, UntouchedOK DEF AdminSetsActive, Placed, TypeOK, ProductsOK,
     LedgerOK, NetOK

LEMMA LoseRequestPlaced ==
  ASSUME Placed, NEW r \in net, LoseRequest(r) PROVE Placed'
<1>1. Untouched
  BY DEF LoseRequest, Untouched, coroutine, control, buying, failing, Placed,
     TypeOK, CoOK
<1> QED
  BY <1>1, UntouchedOK DEF LoseRequest, Placed, TypeOK, products, ProductsOK,
     LedgerOK, NetOK

LEMMA NextPlaced == Placed /\ [Next]_vars => Placed'
<1> SUFFICES ASSUME Placed, [Next]_vars PROVE Placed'
  OBVIOUS
<1>1. CASE \E o \in Orders : Saga(o)
  BY <1>1, LookUpPlaced, LookUpFailsPlaced, CreateOrderPlaced,
     SendDeductPlaced, DeductedPlaced, DeductConflictsPlaced, RereadPlaced,
     DeductFailsPlaced, CommitStockDeductedPlaced,
     CommitPaymentRequestedPlaced, SendPaymentPlaced, PaymentApprovedPlaced,
     PaymentFailsPlaced, CommitCompletedPlaced, PublishPlaced,
     CommitRollbackNeededPlaced, SendRestorePlaced, RestoreReturnsPlaced,
     CommitFailedPlaced DEF Saga
<1>2. CASE \E o \in Orders : RequestDies(o)
  BY <1>2, RequestDiesPlaced
<1>3. CASE Crash
  BY <1>3, CrashPlaced
<1>4. CASE \E r \in net : Serve(r) \/ LoseRequest(r)
  BY <1>4, ServeDeductPlaced, DiagnosePlaced, ServeRestorePlaced,
     ServePaymentPlaced, LoseRequestPlaced DEF Serve
<1>5. CASE \E p \in Products : AdminSetsActive(p)
  BY <1>5, AdminSetsActivePlaced
<1>6. CASE UNCHANGED vars
  BY <1>6 DEF vars, coroutine, control, buying, failing, outside, products,
     Placed, TypeOK, CoOK, CursorOK, Cursor, RowsOK, RowPresent, ProductsOK,
     LedgerOK, NetOK
<1> QED
  BY <1>1, <1>2, <1>3, <1>4, <1>5, <1>6 DEF Next

(* Every reachable state is well typed: no request, row, ledger entry or   *)
(* stock column ever leaves its domain, and no stock goes below zero.      *)
THEOREM Typing == Spec => []TypeOK
<1>1. Placed => TypeOK
  BY DEF Placed
<1> QED
  BY <1>1, InitPlaced, NextPlaced, PTL DEF Spec

-----------------------------------------------------------------------------
(***************************************************************************)
(* No order ever makes stock: the proof of StockNeverCreated, whatever is  *)
(* lost, late or executed after its caller gave up.                        *)
(*                                                                         *)
(* The invariant follows the requests.  An order has one deduction under   *)
(* way at a time, always of the first item it does not hold, and after it  *)
(* was given up on no other is sent.  Restores start once no deduction can *)
(* follow, go through the held items in order and send one request each.   *)
(***************************************************************************)
Undoing == {"restore", "restoring", "done", "dead"}

\* A reply is there for a caller that waits for it.
ReplyAwaited == \A o \in Orders :
  reply[o] # "none" => pc[o] \in {"deducting", "restoring", "paying"}

Deducts  == {r \in net : r.kind \in {"deduct", "diagnose"}}
Restores == {r \in net : r.kind = "restore"}

\* A deduction that is still in the network is unanswered and not executed.
DeductAsked == \A r \in Deducts :
  /\ pc[r.order] \in {"deducting"} \cup Undoing
  /\ pc[r.order] = "deducting" => reply[r.order] = "none"
  /\ r.item = held[r.order] + 1
  /\ taken[r.order][r.item] = 0

OneDeductAsked == \A r, s \in Deducts : r.order = s.order => r = s

\* The items held are deducted once, at most one more was without the saga
\* knowing, and while the saga goes on it knows: only behind a 5xx it does not.
TakenOnce == \A o \in Orders : \A i \in Idx(o) :
  /\ i <= held[o] => taken[o][i] = 1
  /\ i = held[o] + 1 => taken[o][i] \in {0, 1}
  /\ i > held[o] + 1 => taken[o][i] = 0
  /\ pc[o] \in {"lookup", "create", "deduct", "reread"} /\ i > held[o]
       => taken[o][i] = 0
  /\ pc[o] = "deducting" /\ i = item[o] /\ reply[o] # "ERROR"
       => taken[o][i] = (IF reply[o] = "ok" THEN 1 ELSE 0)

Passed(o, i) ==
  /\ pc[o] \in Undoing
  /\ i <= held[o]
  /\ pc[o] = "restore" => i < item[o]
  /\ pc[o] = "restoring" => i <= item[o]

RestoreAsked == \A r \in Restores :
  /\ Passed(r.order, r.item)
  /\ pc[r.order] = "restoring" /\ reply[r.order] # "none"
       => r.item < item[r.order]
  /\ r.version = 0
  /\ given[r.order][r.item] = 0

GivenOnce == \A o \in Orders : \A i \in Idx(o) :
  given[o][i] # 0 => given[o][i] = 1 /\ Passed(o, i)

StockInv == /\ ReplyAwaited /\ DeductAsked /\ OneDeductAsked /\ TakenOnce
            /\ RestoreAsked /\ GivenOnce
-----------------------------------------------------------------------------
LEMMA InitStockInv == Init => StockInv
<1> SUFFICES ASSUME Init PROVE StockInv
  OBVIOUS
<1>1. Deducts = {} /\ Restores = {}
  BY DEF Init, Deducts, Restores
<1>2. ReplyAwaited
  BY DEF Init, ReplyAwaited
<1>3. TakenOnce
  <2> SUFFICES ASSUME NEW o \in Orders, NEW i \in Idx(o)
               PROVE  taken[o][i] = 0 /\ ~(i <= held[o]) /\ pc[o] = "lookup"
    BY DEF TakenOnce
  <2>1. taken[o][i] = 0 /\ held[o] = 0 /\ pc[o] = "lookup"
    BY DEF Init
  <2>2. i \in Nat /\ i > 0
    BY ItemFacts
  <2> QED
    BY <2>1, <2>2
<1>4. GivenOnce
  BY DEF Init, GivenOnce
<1> QED
  BY <1>1, <1>2, <1>3, <1>4 DEF StockInv, DeductAsked, OneDeductAsked,
     RestoreAsked

(* The part of typing this proof needs.                                    *)
LEMMA Typed ==
  ASSUME Placed
  PROVE  /\ pc \in [Orders -> Steps] /\ item \in [Orders -> Nat \ {0}]
         /\ held \in [Orders -> Nat] /\ reply \in [Orders -> Codes]
         /\ DOMAIN taken = Orders /\ DOMAIN given = Orders
         /\ \A o \in Orders : /\ taken[o] \in [Idx(o) -> Nat]
                               /\ given[o] \in [Idx(o) -> Nat]
                               /\ \A i \in Idx(o) : i \in Nat
         /\ \A r \in Deducts \cup Restores : /\ r \in Request
                                            /\ r.order \in Orders
                                            /\ r.item \in Nat
                                            /\ r.item \in Idx(r.order)
<1>1. CoOK /\ LedgerOK /\ NetOK
  BY DEF Placed, TypeOK
<1>2. \A o \in Orders : \A i \in Idx(o) : i \in Nat
  BY ItemFacts
<1> QED
  BY <1>1, <1>2 DEF CoOK, LedgerOK, NetOK, Deducts, Restores, Request

(***************************************************************************)
(* A step that executes no request and asks for no stock keeps the         *)
(* invariant if every order stands still, goes on from one step without a  *)
(* request to another, ends, or turns round to restore what it holds.      *)
(***************************************************************************)
Silent == {"lookup", "create", "deduct", "reread"}
Later  == {"stockDeducted", "paymentRequested", "pay", "paying", "completed",
           "publish", "flag"}

Quiet == /\ UNCHANGED <<held, taken, given>>
         /\ Deducts' \subseteq Deducts
         /\ Restores' \subseteq Restores

Stands(o)   == pc'[o] = pc[o] /\ item'[o] = item[o] /\ reply'[o] = reply[o]
Advances(o) == /\ \/ pc[o] \in Silent /\ pc'[o] \in Silent
                  \/ pc[o] \in Later /\ pc'[o] \in Later
               /\ reply'[o] = "none"
Ends(o)     == pc'[o] \in {"done", "dead"} /\ reply'[o] = "none"
Turns(o)    == /\ pc[o] \notin Undoing
               /\ pc'[o] = "restore"
               /\ reply'[o] = "none"

LEMMA QuietStock ==
  ASSUME Placed, StockInv, Quiet,
         \A o \in Orders : \/ Stands(o) \/ Advances(o) \/ Ends(o) \/ Turns(o)
                           \/ pc[o] = "paying" /\ pc'[o] = "paying"
                              /\ item'[o] = item[o]
  PROVE  StockInv'
<1> USE DEF StockInv, Quiet
<1>1. ReplyAwaited'
  BY Typed DEF ReplyAwaited, Stands, Advances, Ends, Turns
<1>2. DeductAsked'
  BY Typed DEF DeductAsked, Stands, Advances, Ends, Turns, Silent, Later, Undoing
<1>3. OneDeductAsked'
  BY DEF OneDeductAsked
<1>4. TakenOnce'
  BY Typed DEF TakenOnce, Stands, Advances, Ends, Turns, Silent, Later, Undoing
<1>5. RestoreAsked'
  BY Typed DEF RestoreAsked, Passed, Stands, Advances, Ends, Turns, Silent,
     Later, Undoing
<1>6. GivenOnce'
  BY Typed DEF GivenOnce, Passed, Stands, Advances, Ends, Turns, Silent, Later,
     Undoing
<1> QED
  BY <1>1, <1>2, <1>3, <1>4, <1>5, <1>6

(* Which steps of the saga are quiet.                                      *)
LEMMA SagaQuiet ==
  ASSUME Placed, StockInv, NEW o \in Orders,
         \/ LookUp(o) \/ LookUpFails(o) \/ CreateOrder(o) \/ Reread(o)
         \/ DeductFails(o) \/ CommitStockDeducted(o)
         \/ CommitPaymentRequested(o) \/ PaymentApproved(o) \/ PaymentFails(o)
         \/ CommitCompleted(o) \/ Publish(o) \/ CommitRollbackNeeded(o)
         \/ CommitFailed(o) \/ RequestDies(o)
  PROVE  StockInv'
<1>1. Quiet
  BY DEF LookUp, LookUpFails, CreateOrder, Reread, DeductFails,
     CommitStockDeducted, CommitPaymentRequested, PaymentApproved,
     PaymentFails, CommitCompleted, Publish, CommitRollbackNeeded,
     CommitFailed, RequestDies, Quiet, Deducts, Restores, outside, products,
     buying
<1>2. \A q \in Orders \ {o} : Stands(q)
  BY Typed DEF LookUp, LookUpFails, CreateOrder, Reread, DeductFails,
     CommitStockDeducted, CommitPaymentRequested, PaymentApproved,
     PaymentFails, CommitCompleted, Publish, CommitRollbackNeeded,
     CommitFailed, RequestDies, Raises, Receives, TimesOut, Replied, Goto,
     ToItem, Stands
<1>3. Advances(o) \/ Ends(o) \/ Turns(o)
  <2>1. reply[o] = "none" \/ pc[o] \in {"deducting", "restoring", "paying"}
    BY DEF StockInv, ReplyAwaited
  <2>2. CASE LookUp(o) \/ CreateOrder(o) \/ Reread(o)
             \/ CommitStockDeducted(o) \/ CommitPaymentRequested(o)
             \/ CommitCompleted(o)
    BY <2>1, <2>2, Typed DEF LookUp, CreateOrder, Reread, CommitStockDeducted,
       CommitPaymentRequested, CommitCompleted, Goto, Advances, Silent, Later
  <2>3. CASE PaymentApproved(o) \/ PaymentFails(o)
    BY <2>3, Typed DEF PaymentApproved, PaymentFails, Receives, TimesOut,
       Raises, Replied, Goto, Awaiting, Advances, Silent, Later
  <2>4. CASE LookUpFails(o) \/ Publish(o) \/ CommitFailed(o) \/ RequestDies(o)
    BY <2>1, <2>4, Typed DEF LookUpFails, Publish, CommitFailed, RequestDies,
       OnDatabase, Goto, Ends
  <2>5. CASE DeductFails(o)
    BY <2>1, <2>5, Typed DEF DeductFails, Receives, TimesOut, Raises, Replied,
       Goto, Awaiting, Turns, Undoing
  <2>6. CASE CommitRollbackNeeded(o)
    BY <2>1, <2>6, Typed DEF CommitRollbackNeeded, Goto, Turns, Undoing
  <2> QED
    BY <2>2, <2>3, <2>4, <2>5, <2>6
<1> QED
  BY <1>1, <1>2, <1>3, QuietStock

LEMMA OutsideQuiet ==
  ASSUME Placed, StockInv,
         \/ Crash
         \/ \E o \in Orders : SendPayment(o)
         \/ \E r \in net : ServePayment(r) \/ LoseRequest(r)
         \/ \E p \in Products : AdminSetsActive(p)
         \/ UNCHANGED vars
  PROVE  StockInv'
<1>1. CASE Crash
  <2>1. Quiet
    BY <1>1 DEF Crash, Quiet, Deducts, Restores, outside, products, buying
  <2>2. \A o \in Orders : Stands(o) \/ Ends(o)
    BY <1>1, Typed DEF Crash, Running, Stands, Ends, StockInv, ReplyAwaited
  <2> QED
    BY <2>1, <2>2, QuietStock
<1>2. CASE \E o \in Orders : SendPayment(o)
  <2>1. PICK o \in Orders : SendPayment(o)
    BY <1>2
  <2>2. Quiet
    BY <2>1 DEF SendPayment, Send, Quiet, Deducts, Restores, products, buying
  <2>3. \A q \in Orders : Stands(q) \/ Advances(q)
    BY <2>1, Typed DEF SendPayment, Send, Awaiting, Goto, Stands, Advances,
       Later, StockInv, ReplyAwaited
  <2> QED
    BY <2>2, <2>3, QuietStock
<1>3. CASE \E r \in net : ServePayment(r)
  <2>1. PICK r \in net : ServePayment(r)
    BY <1>3
  <2>2. Quiet
    BY <2>1 DEF ServePayment, Answer, Quiet, Deducts, Restores, products,
       buying
  <2>3. \A q \in Orders : \/ Stands(q)
                          \/ pc[q] = "paying" /\ pc'[q] = "paying"
                             /\ item'[q] = item[q]
    BY <2>1, Typed DEF ServePayment, Answer, Replied, Awaiting, Stands, control
  <2> QED
    BY <2>2, <2>3, QuietStock
<1>4. CASE \/ \E r \in net : LoseRequest(r)
           \/ \E p \in Products : AdminSetsActive(p)
           \/ UNCHANGED vars
  <2>1. Quiet
    BY <1>4 DEF LoseRequest, AdminSetsActive, vars, Quiet, Deducts, Restores,
       outside, products, coroutine, buying
  <2>2. \A q \in Orders : Stands(q)
    BY <1>4 DEF LoseRequest, AdminSetsActive, vars, coroutine, control, Stands
  <2> QED
    BY <2>1, <2>2, QuietStock
<1> QED
  BY <1>1, <1>2, <1>3, <1>4

(***************************************************************************)
(* The steps that ask for stock, execute what was asked, and take answers. *)
(***************************************************************************)
LEMMA SendDeductStock ==
  ASSUME Placed, StockInv, NEW o \in Orders, SendDeduct(o) PROVE StockInv'
<1> DEFINE d == [kind |-> "deduct", order |-> o, item |-> item[o],
                 version |-> seen[o][item[o]]]
<1> USE DEF StockInv
<1>1. /\ pc[o] = "deduct" /\ reply[o] = "none"
      /\ item[o] = held[o] + 1 /\ item[o] \in Idx(o) /\ taken[o][item[o]] = 0
  <2>1. pc[o] = "deduct"
    BY DEF SendDeduct
  <2>2. item[o] = held[o] + 1 /\ item[o] \in Idx(o) /\ held[o] \in Nat
    BY <2>1, Typed DEF Placed, CursorOK, Cursor, Buying
  <2> QED
    BY <2>1, <2>2 DEF ReplyAwaited, TakenOnce
<1>2. /\ pc' = [pc EXCEPT ![o] = "deducting"]
      /\ UNCHANGED <<item, held, taken, given, reply>>
      /\ Deducts' = Deducts \cup {d} /\ Restores' = Restores
  BY DEF SendDeduct, Send, Awaiting, Goto, Deducts, Restores, products, buying
<1>3. \A r \in Deducts : r.order # o
  BY <1>1 DEF DeductAsked, Undoing
<1>4. d.order = o /\ d.item = item[o]
  OBVIOUS
<1> HIDE DEF d
<1>5. ReplyAwaited'
  BY <1>2, Typed DEF ReplyAwaited
<1>6. DeductAsked'
  BY <1>1, <1>2, <1>3, <1>4, Typed DEF DeductAsked
<1>7. OneDeductAsked'
  BY <1>2, <1>3, <1>4 DEF OneDeductAsked
<1>8. TakenOnce'
  BY <1>1, <1>2, Typed DEF TakenOnce
<1>9. RestoreAsked'
  BY <1>1, <1>2, Typed DEF RestoreAsked, Passed, Undoing
<1>10. GivenOnce'
  BY <1>1, <1>2, Typed DEF GivenOnce, Passed, Undoing
<1> QED
  BY <1>5, <1>6, <1>7, <1>8, <1>9, <1>10

LEMMA DeductAnsweredStock ==
  ASSUME Placed, StockInv, NEW o \in Orders, Deducted(o) \/ DeductConflicts(o)
  PROVE  StockInv'
<1> USE DEF StockInv
<1>1. /\ pc[o] = "deducting" /\ reply[o] # "none"
      /\ item[o] = held[o] + 1 /\ item[o] \in Idx(o)
  BY DEF Deducted, DeductConflicts, Receives, Awaiting, Placed, CursorOK,
     Cursor, Buying
<1>2. /\ reply' = [reply EXCEPT ![o] = "none"]
      /\ UNCHANGED <<taken, given>> /\ Deducts' = Deducts
      /\ Restores' = Restores
  BY DEF Deducted, DeductConflicts, Receives, Replied, Deducts, Restores,
     outside, products
<1>3. /\ \/ taken[o][item[o]] = 1 /\ held' = [held EXCEPT ![o] = held[o] + 1]
            /\ pc'[o] \in {"deduct", "stockDeducted"}
         \/ taken[o][item[o]] = 0 /\ held' = held /\ pc'[o] = "reread"
      /\ \A q \in Orders \ {o} : pc'[q] = pc[q] /\ item'[q] = item[q]
  BY <1>1, Typed DEF Deducted, DeductConflicts, Receives, Goto, ToItem, buying,
     TakenOnce
<1>4. \A r \in Deducts \cup Restores : r.order # o
  BY <1>1 DEF DeductAsked, RestoreAsked, Passed, Undoing
<1>5. ReplyAwaited'
  BY <1>2, <1>3, Typed DEF ReplyAwaited
<1>6. DeductAsked'
  BY <1>2, <1>3, <1>4, Typed DEF DeductAsked
<1>7. OneDeductAsked'
  BY <1>2 DEF OneDeductAsked
<1>8. TakenOnce'
  <2> SUFFICES ASSUME NEW q \in Orders, NEW i \in Idx(q)
               PROVE  /\ i <= held'[q] => taken[q][i] = 1
                      /\ i = held'[q] + 1 => taken[q][i] \in {0, 1}
                      /\ i > held'[q] + 1 => taken[q][i] = 0
                      /\ pc'[q] \in {"lookup", "create", "deduct", "reread"}
                           /\ i > held'[q] => taken[q][i] = 0
                      /\ pc'[q] = "deducting" /\ i = item'[q]
                           /\ reply'[q] # "ERROR"
                           => taken[q][i] = (IF reply'[q] = "ok" THEN 1 ELSE 0)
    BY <1>2 DEF TakenOnce
  <2>1. i \in Nat /\ held[q] \in Nat
    BY Typed
  <2>2. CASE q # o
    BY <1>2, <1>3, <2>1, <2>2, Typed DEF TakenOnce
  <2>3. CASE q = o
    <3>1. /\ i <= held[o] => taken[o][i] = 1
          /\ i > held[o] + 1 => taken[o][i] = 0
      BY <2>3 DEF TakenOnce
    <3>2. CASE taken[o][item[o]] = 1 /\ held'[o] = held[o] + 1
               /\ pc'[o] \in {"deduct", "stockDeducted"}
      BY <1>1, <2>1, <2>3, <3>1, <3>2
    <3>3. CASE taken[o][item[o]] = 0 /\ held'[o] = held[o] /\ pc'[o] = "reread"
      BY <1>1, <2>1, <2>3, <3>1, <3>3
    <3> QED
      BY <1>3, <2>3, <3>2, <3>3, Typed
  <2> QED
    BY <2>2, <2>3
<1>9. RestoreAsked'
  BY <1>2, <1>3, <1>4, Typed DEF RestoreAsked, Passed
<1>10. GivenOnce'
  BY <1>1, <1>2, <1>3, Typed DEF GivenOnce, Passed, Undoing
<1> QED
  BY <1>5, <1>6, <1>7, <1>8, <1>9, <1>10

LEMMA SendRestoreStock ==
  ASSUME Placed, StockInv, NEW o \in Orders, SendRestore(o) PROVE StockInv'
<1> DEFINE d == [kind |-> "restore", order |-> o, item |-> item[o],
                 version |-> 0]
<1> USE DEF StockInv
<1>1. /\ pc[o] = "restore" /\ reply[o] = "none" /\ item[o] <= held[o]
      /\ item[o] \in Idx(o)
  <2>1. pc[o] = "restore" /\ item[o] <= held[o]
    BY DEF SendRestore
  <2>2. item[o] \in Nat \ {0} /\ held[o] <= Len(Items[o]) /\ held[o] \in Nat
    BY Typed DEF Placed, CursorOK, Cursor
  <2> QED
    BY <2>1, <2>2, ItemFacts DEF ReplyAwaited
<1>2. /\ pc' = [pc EXCEPT ![o] = "restoring"]
      /\ UNCHANGED <<item, held, taken, given, reply>>
      /\ Restores' = Restores \cup {d} /\ Deducts' = Deducts
  BY DEF SendRestore, Send, Awaiting, Goto, Deducts, Restores, products, buying
<1>3. d.order = o /\ d.item = item[o] /\ d.version = 0
  OBVIOUS
<1> HIDE DEF d
<1>4. ReplyAwaited'
  BY <1>2, Typed DEF ReplyAwaited
<1>5. DeductAsked'
  BY <1>1, <1>2, Typed DEF DeductAsked, Undoing
<1>6. OneDeductAsked'
  BY <1>2 DEF OneDeductAsked
<1>7. TakenOnce'
  BY <1>1, <1>2, Typed DEF TakenOnce
<1>8. RestoreAsked'
  <2>1. given[o][item[o]] = 0
    BY <1>1, Typed DEF GivenOnce, Passed
  <2>2. ASSUME NEW r \in Restores
        PROVE  /\ Passed(r.order, r.item)'
               /\ pc'[r.order] = "restoring" /\ reply'[r.order] # "none"
                    => r.item < item'[r.order]
               /\ r.version = 0 /\ given[r.order][r.item] = 0
    BY <1>1, <1>2, Typed DEF RestoreAsked, Passed, Undoing
  <2>3. Passed(o, item[o])' /\ reply'[o] = "none"
    BY <1>1, <1>2, Typed DEF Passed, Undoing
  <2> QED
    BY <1>2, <1>3, <2>1, <2>2, <2>3 DEF RestoreAsked
<1>9. GivenOnce'
  BY <1>1, <1>2, Typed DEF GivenOnce, Passed, Undoing
<1> QED
  BY <1>4, <1>5, <1>6, <1>7, <1>8, <1>9

LEMMA RestoreReturnsStock ==
  ASSUME Placed, StockInv, NEW o \in Orders, RestoreReturns(o) PROVE StockInv'
<1> USE DEF StockInv
<1>1. pc[o] = "restoring"
  BY DEF RestoreReturns, Receives, TimesOut, Awaiting
<1>2. /\ pc' = [pc EXCEPT ![o] = "restore"]
      /\ item' = [item EXCEPT ![o] = item[o] + 1]
      /\ reply' = [reply EXCEPT ![o] = "none"]
      /\ UNCHANGED <<held, taken, given>>
      /\ Restores' = Restores /\ Deducts' = Deducts
  BY DEF RestoreReturns, Receives, TimesOut, Replied, Goto, ToItem, Deducts,
     Restores, outside, products, buying
<1>3. ReplyAwaited'
  BY <1>2, Typed DEF ReplyAwaited
<1>4. DeductAsked'
  BY <1>1, <1>2, Typed DEF DeductAsked, Undoing
<1>5. OneDeductAsked'
  BY <1>2 DEF OneDeductAsked
<1>6. TakenOnce'
  BY <1>1, <1>2, Typed DEF TakenOnce
<1>7. RestoreAsked'
  BY <1>1, <1>2, Typed DEF RestoreAsked, Passed, Undoing
<1>8. GivenOnce'
  BY <1>1, <1>2, Typed DEF GivenOnce, Passed, Undoing
<1> QED
  BY <1>3, <1>4, <1>5, <1>6, <1>7, <1>8

(* An answer arrives only at a caller that waits for this very item.       *)
LEMMA AnswerArrives ==
  ASSUME Placed, StockInv, NEW r \in net, NEW msg \in Codes \ {"none"},
         Answer(r, msg), UNCHANGED pc
  PROVE  /\ ReplyAwaited'
         /\ \A o \in Orders :
              reply'[o] # reply[o] =>
                 /\ o = r.order /\ pc[o] = Awaiting(r.kind) /\ reply'[o] = msg
                 /\ r.item \in {0, item[o]}
<1>1. CASE /\ pc[r.order] = Awaiting(r.kind) /\ r.item \in {0, item[r.order]}
           /\ reply' = [reply EXCEPT ![r.order] = msg]
  BY <1>1, Typed DEF StockInv, ReplyAwaited, Awaiting
<1>2. CASE UNCHANGED reply
  BY <1>2 DEF StockInv, ReplyAwaited
<1> QED
  BY <1>1, <1>2 DEF Answer, Replied

LEMMA DeductExecuted ==
  ASSUME Placed, StockInv, NEW r \in Deducts, NEW msg \in Codes \ {"none"},
         Answer(r, msg), UNCHANGED <<pc, item, held, given>>,
         NEW times \in {0, 1}, msg # "ERROR" => times = (IF msg = "ok" THEN 1 ELSE 0),
         taken' = IF times = 1 THEN [taken EXCEPT ![r.order][r.item] = @ + 1]
                  ELSE taken
  PROVE  StockInv'
<1> DEFINE o == r.order
<1> USE DEF StockInv
<1>1. /\ r \in net /\ r.kind \in {"deduct", "diagnose"} /\ o \in Orders
      /\ r.item \in Idx(o) /\ r.item = held[o] + 1 /\ taken[o][r.item] = 0
      /\ pc[o] \in {"deducting"} \cup Undoing
      /\ pc[o] = "deducting" => r.item = item[o]
  <2>1. r \in net /\ r.kind \in {"deduct", "diagnose"} /\ o \in Orders
        /\ r.item \in Idx(o)
    BY Typed DEF Deducts
  <2>2. r.item = held[o] + 1 /\ taken[o][r.item] = 0
        /\ pc[o] \in {"deducting"} \cup Undoing
    BY DEF DeductAsked
  <2>3. pc[o] = "deducting" => item[o] = held[o] + 1
    BY <2>1 DEF Placed, CursorOK, Cursor, Buying
  <2> QED
    BY <2>1, <2>2, <2>3
<1>2. /\ Deducts' = Deducts \ {r} /\ Restores' = Restores
      /\ \A s \in Deducts' : s \in Deducts /\ s.order # o
  <2>1. Deducts' = Deducts \ {r} /\ Restores' = Restores
    BY <1>1 DEF Answer, Deducts, Restores
  <2> QED
    BY <2>1 DEF OneDeductAsked
<1>3. /\ ReplyAwaited'
      /\ \A q \in Orders : reply'[q] # reply[q] =>
             q = o /\ pc[q] = "deducting" /\ reply'[q] = msg
  BY <1>1, AnswerArrives DEF Awaiting
<1>4. pc[o] = "deducting" => reply'[o] = msg
  BY <1>1, Typed DEF Answer, Replied, Awaiting
<1>5. /\ taken'[o][r.item] = times
      /\ \A q \in Orders : \A i \in Idx(q) :
           q # o \/ i # r.item => taken'[q][i] = taken[q][i]
  BY <1>1, Typed
<1> HIDE DEF o
<1>6. DeductAsked'
  <2> SUFFICES ASSUME NEW s \in Deducts, s.order # o
               PROVE  /\ pc[s.order] \in {"deducting"} \cup Undoing
                      /\ pc[s.order] = "deducting" => reply'[s.order] = "none"
                      /\ s.item = held[s.order] + 1
                      /\ taken'[s.order][s.item] = 0
    BY <1>2 DEF DeductAsked
  <2>1. s.order \in Orders /\ s.item \in Idx(s.order)
    BY Typed
  <2> QED
    BY <1>3, <1>5, <2>1 DEF DeductAsked
<1>7. OneDeductAsked'
  BY <1>2 DEF OneDeductAsked
<1>8. TakenOnce'
  <2> SUFFICES ASSUME NEW q \in Orders, NEW i \in Idx(q)
               PROVE  /\ i <= held[q] => taken'[q][i] = 1
                      /\ i = held[q] + 1 => taken'[q][i] \in {0, 1}
                      /\ i > held[q] + 1 => taken'[q][i] = 0
                      /\ pc[q] \in {"lookup", "create", "deduct", "reread"}
                           /\ i > held[q] => taken'[q][i] = 0
                      /\ pc[q] = "deducting" /\ i = item[q]
                           /\ reply'[q] # "ERROR"
                           => taken'[q][i] = (IF reply'[q] = "ok" THEN 1 ELSE 0)
    BY DEF TakenOnce
  <2>1. i \in Nat /\ held[q] \in Nat
    BY Typed
  <2>2. CASE q # o
    <3>1. taken'[q][i] = taken[q][i] /\ reply'[q] = reply[q]
      BY <1>3, <1>5, <2>2
    <3> QED
      BY <3>1 DEF TakenOnce
  <2>3. CASE q = o /\ i # r.item
    <3>1. taken'[q][i] = taken[q][i] /\ i # held[q] + 1
      BY <1>1, <1>5, <2>3
    <3>2. pc[q] = "deducting" => i # item[q]
      BY <1>1, <2>3
    <3> QED
      BY <2>1, <3>1, <3>2 DEF TakenOnce
  <2>4. CASE q = o /\ i = r.item
    <3>1. i = held[q] + 1 /\ taken'[q][i] = times
      BY <1>1, <1>5, <2>4
    <3>2. pc[q] \notin {"lookup", "create", "deduct", "reread"}
      BY <1>1, <2>4 DEF Undoing
    <3> QED
      BY <1>4, <2>1, <2>4, <3>1, <3>2
  <2> QED
    BY <2>2, <2>3, <2>4
<1>9. RestoreAsked'
  <2>1. \A s \in Restores : pc[s.order] = "restoring"
                              => reply'[s.order] = reply[s.order]
    BY <1>3, Typed
  <2> QED
    BY <1>2, <2>1, Typed DEF RestoreAsked, Passed
<1>10. GivenOnce'
  BY DEF GivenOnce, Passed
<1> QED
  BY <1>3, <1>6, <1>7, <1>8, <1>9, <1>10

LEMMA ServeDeductStock ==
  ASSUME Placed, StockInv, NEW r \in net, ServeDeduct(r) PROVE StockInv'
<1> DEFINE p == Product(r.order, r.item)
           d == [r EXCEPT !.kind = "diagnose"]
<1>1. r \in Deducts /\ UNCHANGED <<pc, item, held, given>>
  BY DEF ServeDeduct, Deducts, control, buying
<1>2. CASE taken' = [taken EXCEPT ![r.order][r.item] = @ + 1]
           /\ (Answer(r, "ok") \/ Answer(r, "ERROR"))
  <2>1. PICK msg \in {"ok", "ERROR"} : Answer(r, msg)
    BY <1>2
  <2>2. taken' = IF 1 = 1 THEN [taken EXCEPT ![r.order][r.item] = @ + 1]
                 ELSE taken
    BY <1>2
  <2> QED
    BY <1>1, <2>1, <2>2, DeductExecuted DEF Codes
<1>3. CASE UNCHANGED taken /\ Answer(r, "ERROR")
  <2>1. taken' = IF 0 = 1 THEN [taken EXCEPT ![r.order][r.item] = @ + 1]
                 ELSE taken
    BY <1>3
  <2> QED
    BY <1>1, <1>3, <2>1, DeductExecuted DEF Codes
<1>4. CASE /\ net' = (net \ {r}) \cup {d}
           /\ UNCHANGED <<reply, taken>>
  <2> USE DEF StockInv
  <2>1. d.kind = "diagnose" /\ d.order = r.order /\ d.item = r.item
    BY <1>1, Typed DEF Request
  <2>2. r \in Deducts /\ r.kind = "deduct"
    BY <1>1 DEF ServeDeduct
  <2> HIDE DEF d
  <2>3. Deducts' = (Deducts \ {r}) \cup {d} /\ Restores' = Restores
    BY <1>4, <2>1, <2>2 DEF Deducts, Restores
  <2>4. DeductAsked' /\ OneDeductAsked'
    BY <1>1, <1>4, <2>1, <2>2, <2>3 DEF DeductAsked, OneDeductAsked
  <2>5. ReplyAwaited' /\ TakenOnce' /\ RestoreAsked' /\ GivenOnce'
    BY <1>1, <1>4, <2>3 DEF ReplyAwaited, TakenOnce, RestoreAsked, GivenOnce,
       Passed
  <2> QED
    BY <2>4, <2>5
<1> QED
  BY <1>2, <1>3, <1>4 DEF ServeDeduct

LEMMA DiagnoseStock ==
  ASSUME Placed, StockInv, NEW r \in net, Diagnose(r) PROVE StockInv'
<1>1. PICK msg \in Codes \ {"none", "ok"} : Answer(r, msg)
  BY DEF Diagnose, Codes
<1>2. r \in Deducts /\ UNCHANGED <<pc, item, held, given, taken>>
  BY DEF Diagnose, Deducts, control, buying, products
<1>3. taken' = IF 0 = 1 THEN [taken EXCEPT ![r.order][r.item] = @ + 1]
               ELSE taken
  BY <1>2
<1> QED
  BY <1>1, <1>2, <1>3, DeductExecuted

LEMMA ServeRestoreStock ==
  ASSUME Placed, StockInv, NEW r \in net, ServeRestore(r) PROVE StockInv'
<1> DEFINE o == r.order
<1> USE DEF StockInv
<1>1. PICK msg \in {"ok", "REFUSED", "ERROR"} :
        /\ Answer(r, msg)
        /\ \/ given' = [given EXCEPT ![o][r.item] = @ + 1]
           \/ given' = given
  BY DEF ServeRestore
<1>2. r \in Restores /\ UNCHANGED <<pc, item, held, taken>>
  BY DEF ServeRestore, Restores, control, buying
<1>3. /\ r \in net /\ r.kind = "restore" /\ r \in Request /\ o \in Orders
      /\ r.item \in Idx(o) /\ Passed(o, r.item) /\ r.version = 0
      /\ given[o][r.item] = 0
  BY <1>2, Typed DEF Restores, RestoreAsked
<1>4. /\ Deducts' = Deducts /\ Restores' = Restores \ {r}
      /\ \A s \in Restores' : s \in Restores /\ (s.order # o \/ s.item # r.item)
  <2>1. Deducts' = Deducts /\ Restores' = Restores \ {r}
    BY <1>1, <1>3 DEF Answer, Deducts, Restores
  <2>2. \A s \in Restores : s.order = o /\ s.item = r.item => s = r
    BY <1>3, Typed DEF Restores, RestoreAsked, Request
  <2> QED
    BY <2>1, <2>2
<1>5. /\ ReplyAwaited'
      /\ \A q \in Orders : reply'[q] # reply[q] =>
             q = o /\ pc[q] = "restoring" /\ r.item = item[q]
  BY <1>1, <1>2, <1>3, AnswerArrives, ItemFacts DEF Awaiting, Codes
<1>6. /\ given'[o][r.item] \in {0, 1}
      /\ \A q \in Orders : \A i \in Idx(q) :
           q # o \/ i # r.item => given'[q][i] = given[q][i]
  BY <1>1, <1>3, Typed
<1> HIDE DEF o
<1>7. DeductAsked'
  <2>1. \A s \in Deducts : pc[s.order] = "deducting"
                             => reply'[s.order] = reply[s.order]
    BY <1>5, Typed
  <2> QED
    BY <1>2, <1>4, <2>1 DEF DeductAsked
<1>8. OneDeductAsked'
  BY <1>4 DEF OneDeductAsked
<1>9. TakenOnce'
  <2>1. \A q \in Orders : pc[q] = "deducting" => reply'[q] = reply[q]
    BY <1>5
  <2> QED
    BY <1>2, <2>1 DEF TakenOnce
<1>10. RestoreAsked'
  <2> SUFFICES ASSUME NEW s \in Restores, s.order # o \/ s.item # r.item
               PROVE  /\ Passed(s.order, s.item)
                      /\ pc[s.order] = "restoring" /\ reply'[s.order] # "none"
                           => s.item < item[s.order]
                      /\ s.version = 0
                      /\ given'[s.order][s.item] = 0
    BY <1>2, <1>4 DEF RestoreAsked, Passed
  <2>1. /\ s.order \in Orders /\ s.item \in Idx(s.order) /\ s.item \in Nat
        /\ item[s.order] \in Nat /\ r.item \in Nat
    BY <1>2, Typed
  <2>2. Passed(s.order, s.item) /\ s.version = 0 /\ given[s.order][s.item] = 0
        /\ (pc[s.order] = "restoring" /\ reply[s.order] # "none"
              => s.item < item[s.order])
    BY DEF RestoreAsked
  <2>3. given'[s.order][s.item] = 0
    BY <1>6, <2>1, <2>2
  <2>4. pc[s.order] = "restoring" /\ reply'[s.order] # "none"
          => s.item < item[s.order]
    BY <1>5, <2>1, <2>2 DEF Passed
  <2> QED
    BY <2>2, <2>3, <2>4
<1>11. GivenOnce'
  <2> SUFFICES ASSUME NEW q \in Orders, NEW i \in Idx(q), given'[q][i] # 0
               PROVE  given'[q][i] = 1 /\ Passed(q, i)
    BY <1>2 DEF GivenOnce, Passed
  <2>1. CASE q = o /\ i = r.item
    BY <1>3, <1>6, <2>1
  <2>2. CASE q # o \/ i # r.item
    BY <1>6, <2>2 DEF GivenOnce
  <2> QED
    BY <2>1, <2>2
<1> QED
  BY <1>5, <1>7, <1>8, <1>9, <1>10, <1>11

-----------------------------------------------------------------------------
LEMMA NextStockInv == Placed /\ StockInv /\ [Next]_vars => StockInv'
<1> SUFFICES ASSUME Placed, StockInv, [Next]_vars PROVE StockInv'
  OBVIOUS
<1>1. CASE \E o \in Orders : Saga(o) \/ RequestDies(o)
  BY <1>1, SagaQuiet, OutsideQuiet, SendDeductStock, DeductAnsweredStock,
     SendRestoreStock, RestoreReturnsStock DEF Saga
<1>2. CASE \E r \in net : Serve(r) \/ LoseRequest(r)
  BY <1>2, ServeDeductStock, DiagnoseStock, ServeRestoreStock, OutsideQuiet
  DEF Serve
<1>3. CASE Crash \/ (\E p \in Products : AdminSetsActive(p)) \/ UNCHANGED vars
  BY <1>3, OutsideQuiet
<1> QED
  BY <1>1, <1>2, <1>3 DEF Next

LEMMA StockIsSafe == Placed /\ StockInv => StockNeverCreated
<1> SUFFICES ASSUME Placed, StockInv, NEW o \in Orders, NEW i \in Idx(o)
             PROVE  given[o][i] <= taken[o][i] /\ taken[o][i] <= 1
  BY DEF StockNeverCreated
<1>1. i \in Nat /\ held[o] \in Nat
  BY Typed
<1>2. taken[o][i] \in {0, 1} /\ (i <= held[o] => taken[o][i] = 1)
  BY <1>1 DEF StockInv, TakenOnce
<1>3. given[o][i] = 0 \/ (given[o][i] = 1 /\ i <= held[o])
  BY DEF StockInv, GivenOnce, Passed
<1> QED
  BY <1>2, <1>3

(* Whatever is lost, late, executed after it was given up on or retried,   *)
(* no item is deducted twice for an order, and none is restored that was   *)
(* not deducted: the retries of deduct_stock and the compensation of       *)
(* create_order never make stock.                                          *)
THEOREM StockIsNeverCreated == Spec => []StockNeverCreated
BY StockIsSafe, InitPlaced, NextPlaced, InitStockInv, NextStockInv, PTL DEF Spec

-----------------------------------------------------------------------------
\* An order's payment requests.
Asks(o) == {r \in net : r.kind = "pay" /\ r.order = o}

LEMMA PayTyped ==
  ASSUME Placed
  PROVE  /\ pc \in [Orders -> Steps] /\ exc \in [Orders -> Exception]
         /\ reply \in [Orders -> Codes] /\ answer \in [Orders -> Nat]
         /\ item \in [Orders -> Nat \ {0}]
         /\ payment \in [Orders -> {"none", "APPROVED", "REJECTED"}]
         /\ \A r \in net : r \in Request /\ r.order \in Orders
BY DEF Placed, TypeOK, CoOK, NetOK, Request

(* What happens to one order leaves the others alone.                      *)
Apart(q) == /\ pc'[q] = pc[q] /\ reply'[q] = reply[q] /\ exc'[q] = exc[q]
            /\ answer'[q] = answer[q] /\ payment'[q] = payment[q]
            /\ Asks(q)' \subseteq Asks(q)

LEMMA OwnStep ==
  ASSUME Placed, NEW o \in Orders, Saga(o) \/ RequestDies(o)
  PROVE  /\ \A q \in Orders \ {o} : Apart(q)
         /\ payment' = payment
<1>1. /\ UNCHANGED payment
      /\ \A q \in Orders \ {o} :
           /\ pc'[q] = pc[q] /\ reply'[q] = reply[q]
           /\ exc'[q] = exc[q] /\ answer'[q] = answer[q]
  <2>1. CASE \/ LookUp(o) \/ LookUpFails(o) \/ CreateOrder(o) \/ SendDeduct(o)
             \/ Deducted(o) \/ DeductConflicts(o) \/ Reread(o)
             \/ CommitStockDeducted(o)
    BY <2>1, PayTyped DEF LookUp, LookUpFails, CreateOrder, SendDeduct, Send,
       Deducted, DeductConflicts, Reread, CommitStockDeducted, Receives,
       Replied, Goto, Answered, failing, outside
  <2>2. CASE DeductFails(o) \/ PaymentFails(o)
    BY <2>2, PayTyped DEF DeductFails, PaymentFails, Raises, Receives, TimesOut,
       Replied, Goto, outside
  <2>3. CASE \/ CommitPaymentRequested(o) \/ SendPayment(o)
             \/ PaymentApproved(o) \/ CommitCompleted(o) \/ Publish(o)
             \/ CommitRollbackNeeded(o) \/ SendRestore(o) \/ RestoreReturns(o)
             \/ CommitFailed(o) \/ RequestDies(o)
    BY <2>3, PayTyped DEF CommitPaymentRequested, SendPayment, Send,
       PaymentApproved, CommitCompleted, Publish, CommitRollbackNeeded,
       SendRestore, RestoreReturns, CommitFailed, RequestDies, Receives,
       TimesOut, Replied, Goto, Answered, failing, outside
  <2> QED
    BY <2>1, <2>2, <2>3 DEF Saga
<1>2. \A q \in Orders \ {o} : Asks(q)' \subseteq Asks(q)
  <2>1. CASE SendDeduct(o) \/ SendPayment(o) \/ SendRestore(o)
    BY <2>1 DEF SendDeduct, SendPayment, SendRestore, Send, Asks
  <2>2. CASE net' = net
    BY <2>2 DEF Asks
  <2> QED
    BY <2>1, <2>2 DEF Saga, RequestDies, LookUp, LookUpFails, CreateOrder,
       Deducted, DeductConflicts, Reread, DeductFails, CommitStockDeducted,
       CommitPaymentRequested, PaymentApproved, PaymentFails, CommitCompleted,
       Publish, CommitRollbackNeeded, RestoreReturns, CommitFailed, outside
<1> QED
  BY <1>1, <1>2 DEF Apart

-----------------------------------------------------------------------------
(***************************************************************************)
(* Conflicts.  A version in conflict is behind that of the product, so it  *)
(* was changed.  Where GET /products is never behind, each attempt at an   *)
(* item carries a version higher than the last, and by the last one the    *)
(* product was changed as many times.                                      *)
(***************************************************************************)
At(o, i) == version[Product(o, i)]

Tries(o) ==
  /\ pc[o] \in {"lookup", "create"} => attempt[o] = 1
  /\ pc[o] = "lookup" =>
       \A i \in Idx(o) : i < item[o] => seen[o][i] \in 1 .. At(o, i)
  /\ pc[o] \in {"create"} \cup Buying =>
       \A i \in Idx(o) : i > held[o] => seen[o][i] \in 1 .. At(o, i)
  /\ pc[o] \in Buying => Changes(attempt[o]) <= seen[o][item[o]]
  /\ pc[o] = "reread" => seen[o][item[o]] < At(o, item[o])
  /\ pc[o] = "deducting" /\ reply[o] = "VERSION_CONFLICT"
       => seen[o][item[o]] < At(o, item[o])
  /\ \A r \in Deducts : r.order = o /\ pc[o] = "deducting"
       => r.version = seen[o][item[o]]
  /\ exc[o].code = "ORDER_STOCK_CONFLICT" =>
       /\ pc[o] \in Undoing
       /\ held[o] + 1 \in Idx(o)
       /\ At(o, held[o] + 1) > Changes(MaxRetry)

AllTry == \A o \in Orders : Tries(o)

LEMMA InitAllTry == Init => AllTry
<1> SUFFICES ASSUME Init, NEW o \in Orders PROVE Tries(o)
  BY DEF AllTry
<1>1. /\ pc[o] = "lookup" /\ attempt[o] = 1 /\ item[o] = 1
      /\ exc[o].code = "none" /\ net = {}
  BY DEF Init
<1> QED
  BY <1>1, ItemFacts DEF Tries, Buying, Deducts

LEMMA ChangesFacts ==
  /\ Changes(1) = 1 /\ Changes(MaxRetry) \in Nat \ {0}
  /\ \A n \in Nat \ {0} : \A v, w \in Nat :
       Changes(n) <= v /\ v < w => Changes(n + 1) <= w
BY OrderSagaAssumption DEF Changes

LEMMA TryTyped ==
  ASSUME Placed
  PROVE  /\ pc \in [Orders -> Steps] /\ exc \in [Orders -> Exception]
         /\ item \in [Orders -> Nat \ {0}] /\ held \in [Orders -> Nat]
         /\ attempt \in [Orders -> Nat \ {0}] /\ reply \in [Orders -> Codes]
         /\ DOMAIN seen = Orders
         /\ version \in [Products -> Nat \ {0}]
         /\ \A o \in Orders : \A i \in Idx(o) :
              /\ i \in Nat \ {0} /\ seen[o][i] \in Nat
              /\ Product(o, i) \in Products /\ At(o, i) \in Nat \ {0}
         /\ \A o \in Orders : pc[o] \in Buying =>
              item[o] \in Idx(o) /\ item[o] = held[o] + 1
<1>1. CoOK /\ ProductsOK
  BY DEF Placed, TypeOK
<1>2. \A o \in Orders : \A i \in Idx(o) : i \in Nat \ {0}
                                          /\ Product(o, i) \in Products
  BY ItemFacts
<1>3. \A o \in Orders : pc[o] \in Buying =>
        item[o] \in Idx(o) /\ item[o] = held[o] + 1
  BY DEF Placed, CursorOK, Cursor
<1> QED
  BY <1>1, <1>2, <1>3 DEF CoOK, ProductsOK, At

LEMMA VersionsGrow ==
  ASSUME Placed, [Next]_vars, NEW o \in Orders, NEW i \in Idx(o)
  PROVE  At(o, i)' \in Nat /\ At(o, i)' >= At(o, i)
<1>1. /\ version \in [Products -> Nat \ {0}] /\ Product(o, i) \in Products
      /\ Product(o, i)' = Product(o, i)
  BY TryTyped DEF Product
<1>2. version' = version \/ \E p \in Products : version' = [version EXCEPT ![p] = @ + 1]
  <2>1. CASE \E q \in Orders : Saga(q) \/ RequestDies(q)
    BY <2>1 DEF Saga, RequestDies, LookUp, LookUpFails, CreateOrder,
       SendDeduct, Deducted, DeductConflicts, Reread, DeductFails,
       CommitStockDeducted, CommitPaymentRequested, SendPayment,
       PaymentApproved, PaymentFails, CommitCompleted, Publish,
       CommitRollbackNeeded, SendRestore, RestoreReturns, CommitFailed,
       outside, products
  <2>2. CASE \E r \in net : ServeDeduct(r) \/ ServeRestore(r)
    <3>1. PICK r \in net : ServeDeduct(r) \/ ServeRestore(r)
      BY <2>2
    <3>2. Product(r.order, r.item) \in Products
      <4>1. r \in Deducts \cup Restores
        BY <3>1 DEF ServeDeduct, ServeRestore, Deducts, Restores
      <4> QED
        BY <4>1, Typed, ItemFacts
    <3> QED
      BY <3>1, <3>2 DEF ServeDeduct, ServeRestore
  <2>3. CASE \/ Crash
             \/ \E r \in net : Diagnose(r) \/ ServePayment(r) \/ LoseRequest(r)
             \/ \E p \in Products : AdminSetsActive(p)
             \/ UNCHANGED vars
    BY <2>3 DEF Crash, Diagnose, ServePayment, LoseRequest, AdminSetsActive,
       vars, outside, products
  <2> QED
    BY <2>1, <2>2, <2>3 DEF Next, Serve
<1> QED
  BY <1>1, <1>2 DEF At

(* An order that did not move itself: others only raise the versions.      *)
Waits(o) ==
  /\ pc'[o] = pc[o] /\ item'[o] = item[o] /\ held'[o] = held[o]
  /\ attempt'[o] = attempt[o] /\ seen'[o] = seen[o] /\ exc'[o] = exc[o]
  /\ \/ reply'[o] = reply[o] \/ reply'[o] # "VERSION_CONFLICT"
     \/ pc[o] = "deducting" => seen[o][item[o]] < At(o, item[o])
  /\ \A r \in Deducts' : r.order = o =>
       \E s \in Deducts : s.order = o /\ s.version = r.version

LEMMA WaitsTries ==
  ASSUME Placed, AllTry, [Next]_vars, NEW o \in Orders, Waits(o)
  PROVE  Tries(o)'
<1>1. Tries(o)
  BY DEF AllTry
<1>2. \A i \in Idx(o) : /\ At(o, i)' \in Nat /\ At(o, i)' >= At(o, i)
                        /\ At(o, i) \in Nat /\ seen[o][i] \in Nat
  BY VersionsGrow, TryTyped
<1>3. pc[o] \in Buying => item[o] \in Idx(o)
  BY TryTyped
<1>4. \A r \in Deducts' : r.order = o /\ pc[o] = "deducting"
                            => r.version = seen[o][item[o]]
  BY <1>1 DEF Tries, Waits
<1>5. exc'[o].code = "ORDER_STOCK_CONFLICT" =>
        At(o, held[o] + 1)' > Changes(MaxRetry)
  BY <1>1, <1>2, ChangesFacts DEF Tries, Waits
<1>6. /\ pc[o] = "reread" => seen[o][item[o]] < At(o, item[o])'
      /\ pc[o] = "deducting" /\ reply'[o] = "VERSION_CONFLICT"
           => seen[o][item[o]] < At(o, item[o])'
  <2>1. pc[o] \in {"reread", "deducting"} => item[o] \in Idx(o)
    BY <1>3 DEF Buying
  <2>2. /\ pc[o] = "reread" => seen[o][item[o]] < At(o, item[o])
        /\ pc[o] = "deducting" /\ reply'[o] = "VERSION_CONFLICT"
             => seen[o][item[o]] < At(o, item[o])
    BY <1>1 DEF Tries, Waits
  <2>3. PICK i : i = item[o]
    OBVIOUS
  <2>4. At(o, item[o])' = At(o, i)'
    BY <2>3 DEF Waits, At
  <2>5. i \in Idx(o) => /\ At(o, i)' >= At(o, i) /\ seen[o][i] \in Nat
                        /\ At(o, i)' \in Nat /\ At(o, i) \in Nat
    BY <1>2
  <2> QED
    BY <2>1, <2>2, <2>3, <2>4, <2>5
<1>7. \A i \in Idx(o) : seen[o][i] \in 1 .. At(o, i)
                          => seen[o][i] \in 1 .. At(o, i)'
  BY <1>2
<1> QED
  BY <1>1, <1>4, <1>5, <1>6, <1>7 DEF Tries, Waits, At

LEMMA OthersWait ==
  ASSUME Placed, NEW q \in Orders, Saga(q) \/ RequestDies(q),
         NEW o \in Orders \ {q}
  PROVE  Waits(o)
<1>1. pc'[o] = pc[o] /\ exc'[o] = exc[o] /\ reply'[o] = reply[o]
  BY OwnStep DEF Apart
<1>2. /\ item'[o] = item[o] /\ held'[o] = held[o]
      /\ attempt'[o] = attempt[o] /\ seen'[o] = seen[o]
  <2>1. CASE LookUp(q) \/ Reread(q)
    <3>1. seen'[o] = seen[o]
      BY <2>1, TryTyped DEF LookUp, Reread, Reads
    <3> QED
      BY <2>1, <3>1, TryTyped DEF LookUp, Reread, ToItem
  <2>2. CASE Deducted(q)
    BY <2>2, TryTyped DEF Deducted, ToItem
  <2>3. CASE buying' = buying /\ (UNCHANGED item \/ \E i : ToItem(q, i))
    BY <2>3, TryTyped DEF buying, ToItem
  <2>4. CASE DeductFails(q) \/ PaymentFails(q) \/ RestoreReturns(q)
    BY <2>3, <2>4 DEF DeductFails, PaymentFails, RestoreReturns, Raises
  <2> QED
    BY <2>1, <2>2, <2>3, <2>4 DEF Saga, RequestDies, LookUpFails, CreateOrder,
       SendDeduct, DeductConflicts, CommitStockDeducted,
       CommitPaymentRequested, SendPayment, PaymentApproved, CommitCompleted,
       Publish, CommitRollbackNeeded, SendRestore, CommitFailed
<1>3. \A r \in Deducts' : r.order = o => r \in Deducts
  <2>1. CASE SendDeduct(q) \/ SendPayment(q) \/ SendRestore(q)
    BY <2>1 DEF SendDeduct, SendPayment, SendRestore, Send, Deducts
  <2>2. CASE net' = net
    BY <2>2 DEF Deducts
  <2> QED
    BY <2>1, <2>2 DEF Saga, RequestDies, LookUp, LookUpFails, CreateOrder,
       Deducted, DeductConflicts, Reread, DeductFails, CommitStockDeducted,
       CommitPaymentRequested, PaymentApproved, PaymentFails, CommitCompleted,
       Publish, CommitRollbackNeeded, RestoreReturns, CommitFailed, outside
<1> QED
  BY <1>1, <1>2, <1>3 DEF Waits

(* VERSION_CONFLICT is the answer to a version that is behind.             *)
LEMMA ServedWait ==
  ASSUME Placed, StockInv, AllTry, NEW r \in net, Serve(r), NEW o \in Orders
  PROVE  Waits(o)
<1>1. UNCHANGED <<pc, item, held, attempt, seen, exc>>
  BY DEF Serve, ServeDeduct, Diagnose, ServeRestore, ServePayment, control,
     buying, failing
<1>2. \A s \in Deducts' : s.order = o =>
        \E t \in Deducts : t.order = o /\ t.version = s.version
  <2>1. CASE net' \subseteq net
    BY <2>1 DEF Deducts
  <2>2. CASE ServeDeduct(r)
            /\ net' = (net \ {r}) \cup {[r EXCEPT !.kind = "diagnose"]}
    <3>1. r \in Deducts /\ r \in Request
      BY <2>2, PayTyped DEF ServeDeduct, Deducts
    <3>2. [r EXCEPT !.kind = "diagnose"].order = r.order
          /\ [r EXCEPT !.kind = "diagnose"].version = r.version
      BY <3>1 DEF Request
    <3> QED
      BY <2>2, <3>1, <3>2 DEF Deducts
  <2> QED
    BY <2>1, <2>2 DEF Serve, ServeDeduct, Diagnose, ServeRestore, ServePayment,
       Answer
<1>3. CASE ~Diagnose(r)
  <2>1. \/ UNCHANGED reply
        \/ \E msg \in {"ok", "REFUSED", "ERROR"} : Answer(r, msg)
    BY <1>3 DEF Serve, ServeDeduct, ServeRestore, ServePayment
  <2>2. reply'[o] = reply[o] \/ reply'[o] # "VERSION_CONFLICT"
    BY <2>1, PayTyped DEF Answer, Replied
  <2> QED
    BY <1>1, <1>2, <2>2 DEF Waits
<1>4. CASE Diagnose(r)
  <2>1. r \in Deducts /\ r.item \in Idx(r.order) /\ r.order \in Orders
    BY <1>4, Typed DEF Diagnose, Deducts
  <2>2. CASE reply'[o] # reply[o] /\ reply'[o] = "VERSION_CONFLICT"
                                  /\ pc[o] = "deducting"
    <3>1. r.order = o /\ r.item \in {0, item[o]}
      BY <1>4, <2>2, PayTyped DEF Diagnose, Answer, Replied
    <3>2. r.item = item[o]
      BY <2>1, <3>1, ItemFacts
    <3>3. version[Product(o, item[o])] # r.version
      <4>1. \A msg : Answer(r, msg) /\ msg # "VERSION_CONFLICT"
                       => reply'[o] # "VERSION_CONFLICT"
        BY <2>2, PayTyped DEF Answer, Replied
      <4> QED
        BY <1>4, <3>1, <3>2, <4>1, <2>2 DEF Diagnose
    <3>4. r.version = seen[o][item[o]] /\ Tries(o)
      BY <2>1, <2>2, <3>1 DEF AllTry, Tries
    <3>5. item[o] \in Idx(o) /\ item[o] > held[o]
      BY <2>2, TryTyped DEF Buying
    <3>6. seen[o][item[o]] \in 1 .. At(o, item[o])
      BY <2>2, <3>4, <3>5 DEF Tries, Buying
    <3>7. seen[o][item[o]] < At(o, item[o])
      BY <3>3, <3>4, <3>5, <3>6, TryTyped DEF At
    <3> QED
      BY <1>1, <1>2, <3>7 DEF Waits
  <2>3. CASE ~(reply'[o] # reply[o] /\ reply'[o] = "VERSION_CONFLICT"
                                    /\ pc[o] = "deducting")
    BY <1>1, <1>2, <2>3 DEF Waits
  <2> QED
    BY <2>2, <2>3
<1> QED
  BY <1>3, <1>4

(* A look-up answers with the version of the moment, or with one before it *)
(* where the cache is behind.                                              *)
LEMMA ReadsNow ==
  ASSUME Placed, NEW o \in Orders, Reads(o), item[o] \in Idx(o)
  PROVE  /\ seen'[o][item[o]] \in 1 .. At(o, item[o])
         /\ "stale" \notin Faults => seen'[o][item[o]] = At(o, item[o])
         /\ \A i \in Idx(o) \ {item[o]} : seen'[o][i] = seen[o][i]
<1>1. PICK v \in Readable(Product(o, item[o])) :
        seen' = [seen EXCEPT ![o][item[o]] = v]
  BY DEF Reads
<1>2. /\ v \in 1 .. At(o, item[o])
      /\ "stale" \notin Faults => v = At(o, item[o])
  <2>1. At(o, item[o]) \in Nat \ {0}
    BY TryTyped
  <2> QED
    BY <1>1, <2>1 DEF Readable, At
<1>3. DOMAIN seen = Orders /\ seen[o] \in [Idx(o) -> Nat]
  BY DEF Placed, TypeOK, CoOK
<1> QED
  BY <1>1, <1>2, <1>3

LEMMA BuyingTries ==
  ASSUME Placed, StockInv, AllTry, NEW o \in Orders,
         \/ LookUp(o) \/ CreateOrder(o) \/ SendDeduct(o) \/ Deducted(o)
         \/ DeductConflicts(o) \/ Reread(o) \/ DeductFails(o)
  PROVE  Tries(o)'
<1>1. Tries(o)
  BY DEF AllTry
<1>2. version' = version /\ \A i : At(o, i)' = version[Product(o, i)]
  BY DEF LookUp, CreateOrder, SendDeduct, Deducted, DeductConflicts, Reread,
     DeductFails, outside, products, At, Product
<1>3. \A i \in Idx(o) : i \in Nat \ {0} /\ seen[o][i] \in Nat
                                        /\ At(o, i) \in Nat \ {0}
  BY TryTyped
<1>4. item[o] \in Nat /\ held[o] \in Nat /\ attempt[o] \in Nat \ {0}
  BY TryTyped
<1>5. Len(Items[o]) \in Nat /\ Idx(o) = 1 .. Len(Items[o])
  BY ItemFacts
<1>6. pc[o] \notin Undoing => exc[o].code # "ORDER_STOCK_CONFLICT"
  BY <1>1 DEF Tries
<1> USE DEF At
<1>7. CASE LookUp(o)
  <2>1. /\ pc[o] = "lookup" /\ held[o] = 0 /\ item[o] \in Idx(o)
        /\ held' = held /\ attempt' = attempt /\ exc' = exc
        /\ \/ pc'[o] = "lookup" /\ item'[o] = item[o] + 1
           \/ pc'[o] = "create" /\ item[o] = Len(Items[o])
    BY <1>7, TryTyped DEF LookUp, ToItem, Goto, failing, Placed, CursorOK,
       Cursor
  <2>2. /\ seen'[o][item[o]] \in 1 .. At(o, item[o])
        /\ \A i \in Idx(o) \ {item[o]} : seen'[o][i] = seen[o][i]
    BY <1>7, <2>1, ReadsNow DEF LookUp
  <2>3. \A i \in Idx(o) : i <= item[o] => seen'[o][i] \in 1 .. At(o, i)
    <3> SUFFICES ASSUME NEW i \in Idx(o), i <= item[o]
                 PROVE  seen'[o][i] \in 1 .. At(o, i)
      OBVIOUS
    <3>1. i = item[o] \/ (i # item[o] /\ i < item[o])
      BY <1>3, <1>4
    <3> QED
      BY <1>1, <1>3, <2>1, <2>2, <3>1 DEF Tries
  <2>4. attempt'[o] = 1
    BY <1>1, <2>1 DEF Tries
  <2>5. \A i \in Idx(o) : i < item[o] + 1 => i <= item[o]
    BY <1>3, <1>4
  <2>6. item[o] = Len(Items[o]) => \A i \in Idx(o) : i <= item[o]
    BY <1>5
  <2> QED
    BY <1>2, <1>6, <2>1, <2>3, <2>4, <2>5, <2>6 DEF Tries, Buying, Undoing
<1>8. CASE CreateOrder(o)
  <2>1. /\ pc[o] = "create" /\ pc'[o] = "deduct" /\ item[o] = 1 /\ held[o] = 0
        /\ UNCHANGED <<item, held, seen, attempt, exc>>
    BY <1>8, TryTyped DEF CreateOrder, Goto, buying, failing, Placed, CursorOK,
       Cursor
  <2>2. 1 \in Idx(o)
    BY ItemFacts
  <2>3. /\ attempt[o] = 1
        /\ \A i \in Idx(o) : i > 0 => seen[o][i] \in 1 .. At(o, i)
    BY <1>1, <2>1 DEF Tries
  <2>4. Changes(1) <= seen[o][1]
    BY <1>3, <2>2, <2>3, ChangesFacts
  <2> QED
    BY <1>2, <1>6, <2>1, <2>3, <2>4 DEF Tries, Buying, Undoing
<1>9. CASE SendDeduct(o)
  <2>1. /\ pc[o] = "deduct" /\ pc'[o] = "deducting" /\ reply'[o] = "none"
        /\ UNCHANGED <<item, held, seen, attempt, exc>>
    BY <1>9, TryTyped DEF SendDeduct, Send, Awaiting, Goto, buying, failing,
       StockInv, ReplyAwaited
  <2>2. \A r \in Deducts : r.order # o
    BY <2>1 DEF StockInv, DeductAsked, Undoing
  <2>3. \A r \in Deducts' : r \in Deducts \/ r.version = seen[o][item[o]]
    BY <1>9 DEF SendDeduct, Send, Deducts
  <2> QED
    BY <1>1, <1>2, <1>6, <2>1, <2>2, <2>3 DEF Tries, Buying, Undoing
<1>10. CASE Deducted(o)
  <2>1. /\ pc[o] = "deducting" /\ item[o] \in Idx(o) /\ item[o] = held[o] + 1
        /\ held'[o] = held[o] + 1 /\ attempt'[o] = 1
        /\ UNCHANGED <<seen, exc>>
        /\ \/ /\ pc'[o] = "deduct" /\ item'[o] = item[o] + 1
              /\ item[o] < Len(Items[o])
           \/ pc'[o] = "stockDeducted"
    BY <1>10, TryTyped DEF Deducted, Receives, Awaiting, ToItem, Goto, failing,
       Buying
  <2>2. \A i \in Idx(o) : i > held[o] => seen[o][i] \in 1 .. At(o, i)
    BY <1>1, <2>1 DEF Tries, Buying
  <2>3. \A i \in Idx(o) : i > held[o] + 1 => i > held[o]
    BY <1>3, <1>4
  <2>4. item[o] < Len(Items[o]) =>
          item[o] + 1 \in Idx(o) /\ Changes(1) <= seen[o][item[o] + 1]
    <3>1. item[o] < Len(Items[o]) => item[o] + 1 \in Idx(o)
      BY <1>4, <1>5
    <3>2. item[o] + 1 > held[o]
      BY <1>4, <2>1
    <3> QED
      BY <1>3, <2>2, <3>1, <3>2, ChangesFacts
  <2> QED
    BY <1>2, <1>6, <2>1, <2>2, <2>3, <2>4 DEF Tries, Buying, Undoing
<1>11. CASE DeductConflicts(o)
  <2>1. /\ pc[o] = "deducting" /\ reply[o] = "VERSION_CONFLICT"
        /\ pc'[o] = "reread"
        /\ UNCHANGED <<item, held, seen, attempt, exc>>
    BY <1>11, TryTyped DEF DeductConflicts, Receives, Awaiting, Goto, buying,
       failing
  <2> QED
    BY <1>1, <1>2, <1>6, <2>1 DEF Tries, Buying, Undoing
<1>12. CASE Reread(o)
  <2>1. /\ pc[o] = "reread" /\ pc'[o] = "deduct" /\ item[o] \in Idx(o)
        /\ attempt'[o] = attempt[o] + 1
        /\ UNCHANGED <<item, held, exc>>
    BY <1>12, TryTyped DEF Reread, Goto, failing, Buying
  <2>2. /\ seen'[o][item[o]] \in 1 .. At(o, item[o])
        /\ "stale" \notin Faults => seen'[o][item[o]] = At(o, item[o])
        /\ \A i \in Idx(o) \ {item[o]} : seen'[o][i] = seen[o][i]
    BY <1>12, <2>1, ReadsNow DEF Reread
  <2>3. /\ Changes(attempt[o]) <= seen[o][item[o]]
        /\ seen[o][item[o]] < At(o, item[o])
        /\ \A i \in Idx(o) : i > held[o] => seen[o][i] \in 1 .. At(o, i)
    BY <1>1, <2>1 DEF Tries, Buying
  <2>4. Changes(attempt'[o]) <= seen'[o][item[o]]
    <3>1. CASE "stale" \in Faults
      BY <2>2, <3>1 DEF Changes
    <3>2. CASE "stale" \notin Faults
      BY <1>3, <1>4, <2>1, <2>2, <2>3, <3>2, ChangesFacts
    <3> QED
      BY <3>1, <3>2
  <2>5. \A i \in Idx(o) : i > held[o] => seen'[o][i] \in 1 .. At(o, i)
    BY <1>3, <2>1, <2>2, <2>3
  <2> QED
    BY <1>2, <1>6, <2>1, <2>4, <2>5 DEF Tries, Buying, Undoing
<1>13. CASE DeductFails(o)
  <2>1. /\ pc[o] \in {"deducting", "reread"} /\ pc'[o] = "restore"
        /\ held' = held
        /\ exc'[o].code = "ORDER_STOCK_CONFLICT" =>
             /\ pc[o] = "deducting" /\ reply[o] = "VERSION_CONFLICT"
             /\ attempt[o] = MaxRetry
    BY <1>13, TryTyped DEF DeductFails, Raises, Receives, TimesOut, Awaiting,
       Goto, buying
  <2>2. item[o] \in Idx(o) /\ item[o] = held[o] + 1
    BY <2>1, TryTyped DEF Buying
  <2>3. exc'[o].code = "ORDER_STOCK_CONFLICT" =>
          /\ Changes(MaxRetry) <= seen[o][item[o]]
          /\ seen[o][item[o]] < At(o, item[o])
    BY <1>1, <2>1 DEF Tries, Buying
  <2>4. exc'[o].code = "ORDER_STOCK_CONFLICT" => At(o, held[o] + 1) > Changes(MaxRetry)
    BY <1>3, <2>2, <2>3, ChangesFacts
  <2> QED
    BY <1>2, <2>1, <2>2, <2>4 DEF Tries, Buying, Undoing
<1> QED
  BY <1>7, <1>8, <1>9, <1>10, <1>11, <1>12, <1>13

LEMMA LaterTries ==
  ASSUME Placed, StockInv, AllTry, NEW o \in Orders,
         \/ LookUpFails(o) \/ CommitStockDeducted(o)
         \/ CommitPaymentRequested(o) \/ SendPayment(o) \/ PaymentApproved(o)
         \/ PaymentFails(o) \/ CommitCompleted(o) \/ Publish(o)
         \/ CommitRollbackNeeded(o) \/ SendRestore(o) \/ RestoreReturns(o)
         \/ CommitFailed(o) \/ RequestDies(o)
  PROVE  Tries(o)'
<1>1. version' = version /\ held' = held
  BY DEF LookUpFails, CommitStockDeducted, CommitPaymentRequested, SendPayment,
     PaymentApproved, PaymentFails, CommitCompleted, Publish,
     CommitRollbackNeeded, SendRestore, RestoreReturns, CommitFailed,
     RequestDies, outside, products, buying
<1>2. pc'[o] \notin {"lookup", "create"} \cup Buying
  BY TryTyped DEF LookUpFails, CommitStockDeducted, CommitPaymentRequested,
     SendPayment, Send, Awaiting, PaymentApproved, PaymentFails, Raises,
     CommitCompleted, Publish, CommitRollbackNeeded, SendRestore,
     RestoreReturns, CommitFailed, RequestDies, Goto, Buying
<1>3. \/ exc'[o] = exc[o] /\ (pc[o] \in Undoing => pc'[o] \in Undoing)
      \/ exc'[o].code # "ORDER_STOCK_CONFLICT"
  <2>1. CASE PaymentFails(o)
    BY <2>1, TryTyped DEF PaymentFails, Raises
  <2>2. CASE ~PaymentFails(o)
    <3>1. exc' = exc
      BY <2>2 DEF LookUpFails, CommitStockDeducted, CommitPaymentRequested,
         SendPayment, PaymentApproved, CommitCompleted, Publish,
         CommitRollbackNeeded, SendRestore, RestoreReturns, CommitFailed,
         RequestDies, failing
    <3>2. pc[o] \in Undoing => pc'[o] \in Undoing
      BY <2>2, TryTyped DEF LookUpFails, CommitStockDeducted,
         CommitPaymentRequested, SendPayment, Send, Awaiting, PaymentApproved,
         Receives, CommitCompleted, Publish, CommitRollbackNeeded, SendRestore,
         RestoreReturns, CommitFailed, RequestDies, Goto, Undoing
    <3> QED
      BY <3>1, <3>2
  <2> QED
    BY <2>1, <2>2
<1>4. exc[o].code = "ORDER_STOCK_CONFLICT" =>
        /\ pc[o] \in Undoing /\ held[o] + 1 \in Idx(o)
        /\ At(o, held[o] + 1) > Changes(MaxRetry)
  BY DEF AllTry, Tries
<1>5. At(o, held[o] + 1)' = At(o, held[o] + 1)
  BY <1>1 DEF At
<1> QED
  BY <1>1, <1>2, <1>3, <1>4, <1>5 DEF Tries, Buying

LEMMA NextAllTry == Placed /\ StockInv /\ AllTry /\ [Next]_vars => AllTry'
<1> SUFFICES ASSUME Placed, StockInv, AllTry, [Next]_vars, NEW o \in Orders
             PROVE  Tries(o)'
  BY DEF AllTry
<1>1. CASE Saga(o) \/ RequestDies(o)
  BY <1>1, BuyingTries, LaterTries DEF Saga
<1>2. CASE \E q \in Orders \ {o} : Saga(q) \/ RequestDies(q)
  BY <1>2, OthersWait, WaitsTries
<1>3. CASE \E r \in net : Serve(r)
  BY <1>3, ServedWait, WaitsTries
<1>4. CASE \/ \E r \in net : LoseRequest(r)
           \/ \E p \in Products : AdminSetsActive(p)
           \/ UNCHANGED vars
  <2>1. Waits(o)
    BY <1>4 DEF LoseRequest, AdminSetsActive, vars, coroutine, control, buying,
       failing, outside, Deducts, Waits
  <2> QED
    BY <2>1, WaitsTries
<1>5. CASE Crash
  <2>1. /\ UNCHANGED <<item, held, seen, attempt, exc, version, net>>
        /\ reply'[o] = "none"
        /\ pc'[o] = pc[o] \/ pc'[o] = "dead"
    BY <1>5 DEF Crash, buying, failing, outside, products
  <2> QED
    BY <2>1 DEF AllTry, Tries, Buying, Undoing, Deducts, At
<1> QED
  BY <1>1, <1>2, <1>3, <1>4, <1>5 DEF Next

(* Whatever GET /products answers, an order that gives up on conflicts lost *)
(* to others that changed its product: as often as it tried where the       *)
(* rereads see the current version, once at least where they may not.       *)
THEOREM ConflictsAreReal == Spec => []ConflictMeansContention
<1>1. Placed /\ AllTry => ConflictMeansContention
  BY DEF AllTry, Tries, ConflictMeansContention, At
<1> QED
  BY <1>1, InitPlaced, NextPlaced, InitStockInv, NextStockInv, InitAllTry,
     NextAllTry, PTL DEF Spec

-----------------------------------------------------------------------------
(***************************************************************************)
(* The stock of a product is what the ledger leaves of it: what there was, *)
(* less the items deducted, plus those restored.  Only finitely many are,  *)
(* however many orders there are.                                          *)
(***************************************************************************)
Marked(ledger, p) == {x \in LinesOf(p) : ledger[x[1]][x[2]] > 0}

Total(S) == SumFunctionOnSet(Wanted, S)

Accounts(p) ==
  /\ IsFiniteSet(Marked(taken, p)) /\ IsFiniteSet(Marked(given, p))
  /\ stock[p] = InitStock[p] - Total(Marked(taken, p)) + Total(Marked(given, p))

StockBalances == \A p \in Products : Accounts(p)

LEMMA LineFacts ==
  /\ \A o \in Orders : \A i \in Idx(o) :
       <<o, i>> \in LinesOf(Product(o, i)) /\ Wanted[<<o, i>>] = Qty(o, i)
  /\ \A p : \A x \in LinesOf(p) :
       /\ x[1] \in Orders /\ x[2] \in Idx(x[1]) /\ x = <<x[1], x[2]>>
       /\ Product(x[1], x[2]) = p /\ x \in Lines
  /\ \A x \in Lines : Wanted[x] \in Nat \ {0}
<1>1. \A x : x \in Lines <=> \E o \in Orders : x \in {o} \X Idx(o)
  BY DEF Lines
<1>2. \A x \in Lines : /\ x[1] \in Orders /\ x[2] \in Idx(x[1])
                       /\ x = <<x[1], x[2]>>
  BY <1>1
<1>3. \A o \in Orders : \A i \in Idx(o) : <<o, i>> \in Lines
  BY <1>1
<1>4. \A x \in Lines : Wanted[x] = Qty(x[1], x[2])
  BY DEF Wanted
<1>5. \A x \in Lines : Wanted[x] \in Nat \ {0}
  BY <1>2, <1>4, ItemFacts
<1> QED
  BY <1>2, <1>3, <1>4, <1>5 DEF LinesOf

LEMMA WantedOf ==
  ASSUME NEW p, NEW S \in SUBSET LinesOf(p), IsFiniteSet(S)
  PROVE  Total(S) \in Nat /\ \A x \in S : Wanted[x] \in Nat /\ Wanted[x] \in Int
<1>1. \A x \in S : Wanted[x] \in Nat /\ Wanted[x] \in Int
  BY LineFacts
<1> QED
  BY <1>1, SumType DEF Total

(* An entry made for an item adds its quantity to its product, once.       *)
LEMMA EntryCounts ==
  ASSUME NEW ledger, NEW after,
         NEW o \in Orders, NEW i \in Idx(o), ledger[o][i] = 0, after[o][i] > 0,
         \A q \in Orders : \A j \in Idx(q) :
            q # o \/ j # i => after[q][j] = ledger[q][j],
         NEW p, IsFiniteSet(Marked(ledger, p))
  PROVE  /\ IsFiniteSet(Marked(after, p))
         /\ Total(Marked(after, p)) =
              Total(Marked(ledger, p)) + (IF p = Product(o, i) THEN Qty(o, i) ELSE 0)
<1>1. \A x \in LinesOf(p) :
        x # <<o, i>> => after[x[1]][x[2]] = ledger[x[1]][x[2]]
  BY LineFacts
<1>2. CASE p = Product(o, i)
  <2> PICK x : x = <<o, i>>
    OBVIOUS
  <2>1. x \in LinesOf(p) /\ Wanted[x] = Qty(o, i) /\ Qty(o, i) \in Nat
    BY <1>2, LineFacts, ItemFacts
  <2>2. x \notin Marked(ledger, p)
    BY DEF Marked
  <2>3. Marked(after, p) = Marked(ledger, p) \cup {x}
    BY <1>1, <2>1 DEF Marked
  <2>4. Marked(ledger, p) \in SUBSET LinesOf(p)
    BY DEF Marked
  <2> PICK S : S = Marked(ledger, p)
    OBVIOUS
  <2>5. IsFiniteSet(S) /\ IsFiniteSet(S \cup {x})
    BY FS_AddElement
  <2>6. IsFiniteSet(Marked(after, p))
    BY <2>3, <2>5
  <2>7. \A y \in S : Wanted[y] \in Int
    BY <2>4, LineFacts DEF Marked
  <2>8. SumFunctionOnSet(Wanted, S \cup {x}) = Wanted[x] + SumFunctionOnSet(Wanted, S)
    BY <2>1, <2>2, <2>5, <2>7, SumAdd
  <2>9. Total(Marked(after, p)) = Qty(o, i) + Total(Marked(ledger, p))
    BY <2>1, <2>3, <2>8 DEF Total
  <2> QED
    BY <1>2, <2>1, <2>4, <2>6, <2>9, WantedOf
<1>3. CASE p # Product(o, i)
  <2>1. <<o, i>> \notin LinesOf(p)
    BY <1>3, LineFacts
  <2>2. Marked(after, p) = Marked(ledger, p)
    BY <1>1, <2>1 DEF Marked
  <2>3. Total(Marked(ledger, p)) \in Nat
    BY WantedOf DEF Marked
  <2> QED
    BY <1>3, <2>2, <2>3
<1> QED
  BY <1>2, <1>3

LEMMA InitBalances == Init => StockBalances
<1> SUFFICES ASSUME Init, NEW p \in Products PROVE Accounts(p)
  BY DEF StockBalances
<1>1. Marked(taken, p) = {} /\ Marked(given, p) = {}
  BY LineFacts DEF Init, Marked
<1>2. stock[p] = InitStock[p] /\ InitStock[p] \in Nat
  BY OrderSagaAssumption DEF Init
<1> QED
  BY <1>1, <1>2, SumEmpty, FS_EmptySet DEF Accounts, Total

(* Only executed deductions and restores touch the stock or the ledger.    *)
LEMMA StockStands ==
  ASSUME [Next]_vars,
         ~ \E r \in net : ServeDeduct(r) \/ ServeRestore(r)
  PROVE  UNCHANGED <<stock, version, taken, given>>
<1>1. CASE \E q \in Orders : Saga(q) \/ RequestDies(q)
  BY <1>1 DEF Saga, RequestDies, LookUp, LookUpFails, CreateOrder,
     SendDeduct, Deducted, DeductConflicts, Reread, DeductFails,
     CommitStockDeducted, CommitPaymentRequested, SendPayment,
     PaymentApproved, PaymentFails, CommitCompleted, Publish,
     CommitRollbackNeeded, SendRestore, RestoreReturns, CommitFailed,
     outside, products
<1>2. CASE \/ Crash
           \/ \E r \in net : Diagnose(r) \/ ServePayment(r) \/ LoseRequest(r)
           \/ \E p \in Products : AdminSetsActive(p)
           \/ UNCHANGED vars
  BY <1>2 DEF Crash, Diagnose, ServePayment, LoseRequest, AdminSetsActive,
     vars, outside, products
<1> QED
  BY <1>1, <1>2 DEF Next, Serve

LEMMA NextBalances == Placed /\ StockInv /\ StockBalances /\ [Next]_vars => StockBalances'
<1> SUFFICES ASSUME Placed, StockInv, StockBalances, [Next]_vars, NEW p \in Products
             PROVE  Accounts(p)'
  BY DEF StockBalances
<1>1. /\ Accounts(p) /\ stock \in [Products -> Nat] /\ InitStock[p] \in Nat
      /\ DOMAIN taken = Orders /\ DOMAIN given = Orders
      /\ \A o \in Orders : taken[o] \in [Idx(o) -> Nat]
      /\ \A o \in Orders : given[o] \in [Idx(o) -> Nat]
  BY Typed, OrderSagaAssumption DEF StockBalances, Placed, TypeOK, ProductsOK
<1>2. Total(Marked(taken, p)) \in Nat /\ Total(Marked(given, p)) \in Nat
  BY <1>1, WantedOf DEF Accounts, Marked
<1>3. ASSUME UNCHANGED <<stock, taken, given>> PROVE Accounts(p)'
  BY <1>1, <1>3 DEF Accounts, Marked
<1>4. ASSUME NEW r \in net, ServeDeduct(r) PROVE Accounts(p)'
  <2>1. /\ r.order \in Orders /\ r.item \in Idx(r.order)
        /\ taken[r.order][r.item] = 0 /\ Qty(r.order, r.item) \in Nat
    <3>1. r \in Deducts
      BY <1>4 DEF ServeDeduct, Deducts
    <3> QED
      BY <3>1, Typed, ItemFacts DEF StockInv, DeductAsked
  <2>2. CASE UNCHANGED <<stock, taken>>
    BY <1>3, <1>4, <2>2 DEF ServeDeduct
  <2>3. CASE /\ stock' = [stock EXCEPT ![Product(r.order, r.item)] =
                            @ - Qty(r.order, r.item)]
             /\ taken' = [taken EXCEPT ![r.order][r.item] = @ + 1]
    <3>1. given' = given
      BY <1>4 DEF ServeDeduct
    <3> PICK after : after = taken'
      OBVIOUS
    <3>4. /\ after[r.order][r.item] > 0
          /\ \A q \in Orders : \A j \in Idx(q) :
               q # r.order \/ j # r.item => after[q][j] = taken[q][j]
      BY <1>1, <2>1, <2>3
    <3>2. /\ IsFiniteSet(Marked(after, p))
          /\ Total(Marked(after, p)) = Total(Marked(taken, p))
               + (IF p = Product(r.order, r.item) THEN Qty(r.order, r.item) ELSE 0)
      BY <1>1, <2>1, <3>4, EntryCounts DEF Accounts
    <3>3. stock'[p] = stock[p] -
            (IF p = Product(r.order, r.item) THEN Qty(r.order, r.item) ELSE 0)
      BY <1>1, <2>1, <2>3
    <3> QED
      BY <1>1, <1>2, <2>1, <3>1, <3>2, <3>3 DEF Accounts
  <2> QED
    BY <1>4, <2>2, <2>3 DEF ServeDeduct
<1>5. ASSUME NEW r \in net, ServeRestore(r) PROVE Accounts(p)'
  <2>1. /\ r.order \in Orders /\ r.item \in Idx(r.order)
        /\ given[r.order][r.item] = 0 /\ Qty(r.order, r.item) \in Nat
    <3>1. r \in Restores
      BY <1>5 DEF ServeRestore, Restores
    <3> QED
      BY <3>1, Typed, ItemFacts DEF StockInv, RestoreAsked
  <2>2. CASE UNCHANGED <<stock, given>>
    BY <1>3, <1>5, <2>2 DEF ServeRestore
  <2>3. CASE /\ stock' = [stock EXCEPT ![Product(r.order, r.item)] =
                            @ + Qty(r.order, r.item)]
             /\ given' = [given EXCEPT ![r.order][r.item] = @ + 1]
    <3>1. taken' = taken
      BY <1>5 DEF ServeRestore
    <3> PICK after : after = given'
      OBVIOUS
    <3>4. /\ after[r.order][r.item] > 0
          /\ \A q \in Orders : \A j \in Idx(q) :
               q # r.order \/ j # r.item => after[q][j] = given[q][j]
      BY <1>1, <2>1, <2>3
    <3>2. /\ IsFiniteSet(Marked(after, p))
          /\ Total(Marked(after, p)) = Total(Marked(given, p))
               + (IF p = Product(r.order, r.item) THEN Qty(r.order, r.item) ELSE 0)
      BY <1>1, <2>1, <3>4, EntryCounts DEF Accounts
    <3>3. stock'[p] = stock[p] +
            (IF p = Product(r.order, r.item) THEN Qty(r.order, r.item) ELSE 0)
      BY <1>1, <2>1, <2>3
    <3> QED
      BY <1>1, <1>2, <2>1, <3>1, <3>2, <3>3 DEF Accounts
  <2> QED
    BY <1>5, <2>2, <2>3 DEF ServeRestore
<1> QED
  BY <1>3, <1>4, <1>5, StockStands

-----------------------------------------------------------------------------
(***************************************************************************)
(* product-service as the saga meets it implements StockAccounts: of all   *)
(* that may still be on its way to it, what is executed takes no more than *)
(* there is, from products on sale, and moves their version on.            *)
(***************************************************************************)
(* Only an administrator switches a product off or on.                     *)
LEMMA ActiveStands ==
  ASSUME [Next]_vars, ~ \E p \in Products : AdminSetsActive(p)
  PROVE  active' = active
<1>1. CASE \E q \in Orders : Saga(q) \/ RequestDies(q)
  BY <1>1 DEF Saga, RequestDies, LookUp, LookUpFails, CreateOrder,
     SendDeduct, Deducted, DeductConflicts, Reread, DeductFails,
     CommitStockDeducted, CommitPaymentRequested, SendPayment,
     PaymentApproved, PaymentFails, CommitCompleted, Publish,
     CommitRollbackNeeded, SendRestore, RestoreReturns, CommitFailed,
     outside, products
<1>2. CASE \/ Crash
           \/ \E r \in net : Serve(r) \/ LoseRequest(r)
           \/ UNCHANGED vars
  BY <1>2 DEF Crash, Serve, ServeDeduct, Diagnose, ServeRestore, ServePayment,
     LoseRequest, vars, outside, products
<1> QED
  BY <1>1, <1>2 DEF Next

LEMMA InitGoods == Init => Goods!Init
BY OrderSagaAssumption DEF Init, Goods!Init

LEMMA ServedGoods ==
  ASSUME Placed, NEW r \in net, ServeDeduct(r) \/ ServeRestore(r)
  PROVE  Goods!Order(Product(r.order, r.item)) \/ UNCHANGED Goods!vars
<1> DEFINE p == Product(r.order, r.item)
           q == Qty(r.order, r.item)
<1>1. p \in Products /\ q \in Nat \ {0}
  <2>1. r \in Deducts \cup Restores
    BY DEF ServeDeduct, ServeRestore, Deducts, Restores
  <2> QED
    BY <2>1, Typed, ItemFacts
<1>2. /\ stock \in [Products -> Nat] /\ version \in [Products -> Nat \ {0}]
      /\ active \in [Products -> BOOLEAN] /\ active' = active
  BY DEF Placed, TypeOK, ProductsOK, ServeDeduct, ServeRestore
<1>3. CASE UNCHANGED <<stock, version>>
  BY <1>2, <1>3 DEF Goods!vars
<1>4. CASE \E n \in Nat \ {stock[p]} :
             /\ active[p]
             /\ stock' = [stock EXCEPT ![p] = n]
             /\ version' = [version EXCEPT ![p] = @ + 1]
  BY <1>1, <1>2, <1>4 DEF Goods!Order, Goods!Others
<1>5. CASE ServeDeduct(r)
  <2>1. \/ UNCHANGED <<stock, version>>
        \/ /\ active[p] /\ stock[p] >= q
           /\ stock' = [stock EXCEPT ![p] = @ - q]
           /\ version' = [version EXCEPT ![p] = @ + 1]
    BY <1>5 DEF ServeDeduct, Matches
  <2>2. stock[p] >= q => stock[p] - q \in Nat \ {stock[p]}
    BY <1>1, <1>2
  <2> QED
    BY <1>3, <1>4, <2>1, <2>2
<1>6. CASE ServeRestore(r)
  <2>1. \/ UNCHANGED <<stock, version>>
        \/ /\ active[p]
           /\ stock' = [stock EXCEPT ![p] = @ + q]
           /\ version' = [version EXCEPT ![p] = @ + 1]
    BY <1>6 DEF ServeRestore
  <2>2. stock[p] + q \in Nat \ {stock[p]}
    BY <1>1, <1>2
  <2> QED
    BY <1>3, <1>4, <2>1, <2>2
<1> QED
  BY <1>5, <1>6

LEMMA NextGoods == Placed /\ [Next]_vars => [Goods!Next]_(Goods!vars)
<1> SUFFICES ASSUME Placed, [Next]_vars PROVE [Goods!Next]_(Goods!vars)
  OBVIOUS
<1>1. CASE \E r \in net : ServeDeduct(r) \/ ServeRestore(r)
  <2>1. PICK r \in net : ServeDeduct(r) \/ ServeRestore(r)
    BY <1>1
  <2>2. Product(r.order, r.item) \in Products
    <3>1. r \in Deducts \cup Restores
      BY <2>1 DEF ServeDeduct, ServeRestore, Deducts, Restores
    <3> QED
      BY <3>1, Typed, ItemFacts
  <2> QED
    BY <2>1, <2>2, ServedGoods DEF Goods!Next
<1>2. CASE \E p \in Products : AdminSetsActive(p)
  <2>1. PICK p \in Products : AdminSetsActive(p)
    BY <1>2
  <2>2. Goods!Edit(p)
    BY <2>1 DEF AdminSetsActive, Placed, TypeOK, ProductsOK, Goods!Edit,
       Goods!Others
  <2> QED
    BY <2>2 DEF Goods!Next
<1>3. CASE /\ ~ \E r \in net : ServeDeduct(r) \/ ServeRestore(r)
           /\ ~ \E p \in Products : AdminSetsActive(p)
  BY <1>3, StockStands, ActiveStands DEF Goods!vars
<1> QED
  BY <1>1, <1>2, <1>3

(* The saga and product-service together never do to the products what     *)
(* ProductStore's own handlers may not do.                                 *)
THEOREM SagaImplementsAccounts == Spec => Goods!Spec
BY InitGoods, NextGoods, InitPlaced, NextPlaced, PTL DEF Spec, Goods!Spec

-----------------------------------------------------------------------------
(***************************************************************************)
(* INSUFFICIENT_STOCK, where no product is switched off: the version tells *)
(* that the row did not change between the UPDATE that missed it and the   *)
(* SELECT that looks for the reason.  What then lacks is in the ledger.    *)
(***************************************************************************)
Scarce(p) == Demand(Orders, p) > InitStock[p]

Short(r) == stock[Product(r.order, r.item)] < Qty(r.order, r.item)

AllActive   == \A p \in Products : active[p]
SeenBehind  == \A o \in Orders : \A i \in Idx(o) : seen[o][i] <= At(o, i)
AskedBehind == \A r \in Deducts :
  /\ r.version <= At(r.order, r.item)
  /\ r.kind = "diagnose" /\ r.version = At(r.order, r.item) => Short(r)

Blames(o) ==
  /\ pc[o] = "deducting" /\ reply[o] = "INSUFFICIENT_STOCK"
       => Scarce(Product(o, held[o] + 1))
  /\ exc[o].code = "INSUFFICIENT_STOCK"
       => pc[o] \in Undoing /\ Scarce(Product(o, held[o] + 1))

SoldOutOK == /\ AllActive /\ SeenBehind /\ AskedBehind
             /\ \A o \in Orders : Blames(o)

LEMMA InitSoldOutOK == Init => SoldOutOK
<1> SUFFICES ASSUME Init PROVE SoldOutOK
  OBVIOUS
<1>1. AllActive /\ AskedBehind
  BY DEF Init, AllActive, AskedBehind, Deducts
<1>2. SeenBehind
  BY ItemFacts DEF Init, SeenBehind, At
<1>3. \A o \in Orders : Blames(o)
  BY DEF Init, Blames
<1> QED
  BY <1>1, <1>2, <1>3 DEF SoldOutOK

LEMMA LinesFinite == ASSUME IsFiniteSet(Orders), NEW p PROVE IsFiniteSet(LinesOf(p))
<1> DEFINE Of(o) == {o} \X Idx(o)
<1>1. IsFiniteSet({Of(o) : o \in Orders})
  <2> DEFINE f == [o \in Orders |-> Of(o)]
  <2>1. f \in Surjection(Orders, {Of(o) : o \in Orders})
    BY DEF Surjection
  <2> QED
    BY <2>1, FS_Surjection
<1>2. \A S \in {Of(o) : o \in Orders} : IsFiniteSet(S)
  <2> SUFFICES ASSUME NEW o \in Orders PROVE IsFiniteSet(Of(o))
    OBVIOUS
  <2>1. IsFiniteSet({o})
    BY FS_Singleton
  <2>2. IsFiniteSet(Idx(o))
    <3>1. Len(Items[o]) \in Int /\ 1 \in Int /\ Idx(o) = 1 .. Len(Items[o])
      BY ItemFacts
    <3> QED
      BY <3>1, FS_Interval
  <2> QED
    BY <2>1, <2>2, FS_Product
<1>3. IsFiniteSet(Lines)
  BY <1>1, <1>2, FS_UNION DEF Lines
<1> QED
  BY <1>3, FS_Subset DEF LinesOf

(* A product that lacks for an item nobody has yet lacks for good: what is *)
(* gone went to other items, or came back.                                 *)
LEMMA ShortIsScarce ==
  ASSUME IsFiniteSet(Orders), Placed, StockBalances, NEW o \in Orders, NEW i \in Idx(o),
         taken[o][i] = 0, stock[Product(o, i)] < Qty(o, i)
  PROVE  Scarce(Product(o, i))
<1> DEFINE p == Product(o, i)
           T == Marked(taken, p)
           G == Marked(given, p)
<1> PICK x : x = <<o, i>>
  OBVIOUS
<1>1. /\ p \in Products /\ Qty(o, i) \in Nat /\ stock[p] \in Nat /\ InitStock[p] \in Nat
  BY ItemFacts, OrderSagaAssumption DEF Placed, TypeOK, ProductsOK
<1>2. x \in LinesOf(p) /\ Wanted[x] = Qty(o, i) /\ x \notin T
  BY LineFacts DEF Marked
<1>3. /\ IsFiniteSet(T) /\ IsFiniteSet(G)
      /\ stock[p] = InitStock[p] - Total(T) + Total(G)
  BY <1>1 DEF StockBalances, Accounts
<1>4. T \in SUBSET LinesOf(p) /\ G \in SUBSET LinesOf(p)
  BY DEF Marked
<1>5. Total(T) \in Nat /\ Total(G) \in Nat
  BY <1>3, <1>4, WantedOf
<1>6. \A y \in LinesOf(p) : Wanted[y] \in Nat /\ Wanted[y] \in Int
  BY LineFacts
<1>7. Demand(Orders, p) = Total(LinesOf(p))
  <2>1. {y \in LinesOf(p) : y[1] \in Orders} = LinesOf(p)
    BY LineFacts
  <2> QED
    BY <2>1 DEF Demand, Total
<1> HIDE DEF p, T, G
<1>8. Total(T \cup {x}) = Qty(o, i) + Total(T)
  BY <1>2, <1>3, <1>4, <1>6, SumAdd DEF Total
<1>9. Total(T \cup {x}) <= Total(LinesOf(p)) /\ Total(LinesOf(p)) \in Nat
  <2>1. T \cup {x} \in SUBSET LinesOf(p)
    BY <1>2, <1>4
  <2> QED
    BY <1>6, <2>1, LinesFinite, SumMonotone, SumType DEF Total
<1>10. stock[p] < Qty(o, i)
  BY DEF p
<1>11. Total(LinesOf(p)) > InitStock[p]
  BY <1>1, <1>3, <1>5, <1>8, <1>9, <1>10
<1> QED
  BY <1>7, <1>11 DEF Scarce, p

LEMMA NextActive ==
  ASSUME "admin" \notin Faults, [Next]_vars PROVE active' = active
BY ActiveStands DEF AdminSetsActive

(* As long as its version stands, so does a product's stock.               *)
LEMMA StockHasVersion ==
  ASSUME Placed, [Next]_vars, NEW o \in Orders, NEW i \in Idx(o),
         At(o, i)' = At(o, i)
  PROVE  stock'[Product(o, i)] = stock[Product(o, i)]
<1> DEFINE p == Product(o, i)
<1>1. /\ p \in Products /\ version'[p] = version[p]
      /\ version \in [Products -> Nat \ {0}] /\ stock \in [Products -> Nat]
  BY ItemFacts, TryTyped DEF At, Product, Placed, TypeOK, ProductsOK
<1>2. CASE UNCHANGED stock
  BY <1>2
<1>3. CASE \E r \in net : ServeDeduct(r) \/ ServeRestore(r)
  <2>1. \/ UNCHANGED stock
        \/ \E s \in Products : \E n :
             /\ version' = [version EXCEPT ![s] = @ + 1]
             /\ stock' = [stock EXCEPT ![s] = n]
    <3>1. PICK r \in net : ServeDeduct(r) \/ ServeRestore(r)
      BY <1>3
    <3>2. Product(r.order, r.item) \in Products
      <4>1. r \in Deducts \cup Restores
        BY <3>1 DEF ServeDeduct, ServeRestore, Deducts, Restores
      <4> QED
        BY <4>1, Typed, ItemFacts
    <3> QED
      BY <3>1, <3>2 DEF ServeDeduct, ServeRestore
  <2> QED
    BY <1>1, <2>1
<1> QED
  BY <1>2, <1>3, StockStands

LEMMA NextSeenBehind ==
  ASSUME Placed, SeenBehind, [Next]_vars PROVE SeenBehind'
<1> SUFFICES ASSUME NEW o \in Orders, NEW i \in Idx(o)
             PROVE  seen'[o][i] <= At(o, i)'
  BY DEF SeenBehind
<1>1. /\ At(o, i)' \in Nat /\ At(o, i)' >= At(o, i) /\ seen[o][i] <= At(o, i)
      /\ At(o, i) \in Nat /\ seen[o][i] \in Nat
  BY VersionsGrow, TryTyped DEF SeenBehind
<1>2. ASSUME NEW q \in Orders, Reads(q) PROVE seen'[o][i] <= At(o, i)'
  <2>1. PICK v \in Readable(Product(q, item[q])) :
          seen' = [seen EXCEPT ![q][item[q]] = v]
    BY <1>2 DEF Reads
  <2>2. CASE q = o /\ item[q] = i
    <3>1. v <= At(o, i)
      BY <2>1, <2>2, <1>1 DEF Readable, At
    <3>2. v \in Nat
      BY <2>1, <2>2, <1>1 DEF Readable, At
    <3>3. seen'[o][i] = v
      BY <2>1, <2>2 DEF Placed, TypeOK, CoOK
    <3> QED
      BY <1>1, <3>1, <3>2, <3>3
  <2>3. CASE q # o \/ item[q] # i
    <3>1. seen'[o][i] = seen[o][i]
      BY <2>1, <2>3 DEF Placed, TypeOK, CoOK
    <3> QED
      BY <1>1, <3>1
  <2> QED
    BY <2>2, <2>3
<1>3. CASE UNCHANGED seen
  BY <1>1, <1>3
<1>4. CASE \E q \in Orders : Saga(q) \/ RequestDies(q)
  BY <1>2, <1>3, <1>4 DEF Saga, RequestDies, LookUp, LookUpFails, CreateOrder,
     SendDeduct, Deducted, DeductConflicts, Reread, DeductFails,
     CommitStockDeducted, CommitPaymentRequested, SendPayment,
     PaymentApproved, PaymentFails, CommitCompleted, Publish,
     CommitRollbackNeeded, SendRestore, RestoreReturns, CommitFailed, buying
<1>5. CASE \/ Crash
           \/ \E r \in net : Serve(r) \/ LoseRequest(r)
           \/ \E p \in Products : AdminSetsActive(p)
           \/ UNCHANGED vars
  BY <1>3, <1>5 DEF Crash, Serve, ServeDeduct, Diagnose, ServeRestore,
     ServePayment, LoseRequest, AdminSetsActive, vars, buying, coroutine
<1> QED
  BY <1>4, <1>5 DEF Next

(* A request in the network is one that was there, the deduction a saga    *)
(* has just sent, or the diagnosis of an UPDATE that matched no row.       *)
LEMMA DeductsCome ==
  ASSUME Placed, [Next]_vars, NEW r \in Deducts'
  PROVE  \/ r \in Deducts
         \/ \E o \in Orders : /\ SendDeduct(o) /\ r.kind = "deduct" /\ r.order = o
                              /\ r.item = item[o] /\ r.version = seen[o][item[o]]
         \/ \E s \in Deducts : /\ ~Matches(s) /\ UNCHANGED <<stock, version>>
                               /\ r.order = s.order /\ r.item = s.item
                               /\ r.version = s.version
<1>1. r \in net' /\ r.kind \in {"deduct", "diagnose"}
  BY DEF Deducts
<1>2. CASE net' \subseteq net
  BY <1>1, <1>2 DEF Deducts
<1>3. ASSUME NEW o \in Orders, SendDeduct(o) \/ SendPayment(o) \/ SendRestore(o)
      PROVE  r \in Deducts \/ /\ SendDeduct(o) /\ r.kind = "deduct" /\ r.order = o
                              /\ r.item = item[o] /\ r.version = seen[o][item[o]]
  BY <1>1, <1>3 DEF SendDeduct, SendPayment, SendRestore, Send, Deducts
<1>4. CASE \E o \in Orders : Saga(o) \/ RequestDies(o)
  BY <1>2, <1>3, <1>4 DEF Saga, RequestDies, LookUp, LookUpFails, CreateOrder,
     Deducted, DeductConflicts, Reread, DeductFails, CommitStockDeducted,
     CommitPaymentRequested, PaymentApproved, PaymentFails, CommitCompleted,
     Publish, CommitRollbackNeeded, RestoreReturns, CommitFailed, outside
<1>5. ASSUME NEW s \in net, ServeDeduct(s), ~(net' \subseteq net)
      PROVE  \/ r \in Deducts
             \/ /\ s \in Deducts /\ ~Matches(s) /\ UNCHANGED <<stock, version>>
                /\ r.order = s.order /\ r.item = s.item /\ r.version = s.version
  <2>1. /\ s \in Deducts /\ s \in Request
        /\ ~Matches(s) /\ UNCHANGED <<stock, version>>
        /\ net' = (net \ {s}) \cup {[s EXCEPT !.kind = "diagnose"]}
    BY <1>5, PayTyped DEF ServeDeduct, Answer, Deducts
  <2>2. CASE r \in net
    BY <1>1, <2>2 DEF Deducts
  <2>3. CASE r \notin net
    <3>1. r = [s EXCEPT !.kind = "diagnose"]
      BY <1>1, <2>1, <2>3
    <3> QED
      BY <2>1, <3>1 DEF Request
  <2> QED
    BY <2>2, <2>3
<1>6. CASE \E s \in net : Serve(s) \/ LoseRequest(s)
  BY <1>2, <1>5, <1>6 DEF Serve, Diagnose, ServeRestore, ServePayment, Answer,
     LoseRequest
<1>7. CASE Crash \/ (\E p \in Products : AdminSetsActive(p)) \/ UNCHANGED vars
  BY <1>2, <1>7 DEF Crash, AdminSetsActive, vars, outside
<1> QED
  BY <1>4, <1>6, <1>7 DEF Next

LEMMA NextAskedBehind ==
  ASSUME Placed, StockInv, AllActive, SeenBehind, AskedBehind, [Next]_vars
  PROVE  AskedBehind'
<1> SUFFICES ASSUME NEW r \in Deducts'
             PROVE  /\ r.version <= At(r.order, r.item)'
                    /\ r.kind = "diagnose" /\ r.version = At(r.order, r.item)'
                         => Short(r)'
  BY DEF AskedBehind
<1> DEFINE o == r.order
           i == r.item
<1>1. CASE r \in Deducts
  <2>1. /\ o \in Orders /\ i \in Idx(o) /\ r.version \in Nat
        /\ Qty(o, i) \in Nat
    BY <1>1, Typed, ItemFacts DEF Request
  <2>2. /\ r.version <= At(o, i)
        /\ r.kind = "diagnose" /\ r.version = At(o, i)
             => stock[Product(o, i)] < Qty(o, i)
    BY <1>1 DEF AskedBehind, Short
  <2>3. /\ At(o, i)' \in Nat /\ At(o, i) \in Nat /\ At(o, i)' >= At(o, i)
        /\ At(o, i)' = At(o, i) => stock'[Product(o, i)] = stock[Product(o, i)]
    BY <2>1, VersionsGrow, TryTyped, StockHasVersion
  <2> HIDE DEF o, i
  <2>4. /\ r.version <= At(o, i)'
        /\ r.kind = "diagnose" /\ r.version = At(o, i)'
             => stock'[Product(o, i)] < Qty(o, i)
    BY <2>1, <2>2, <2>3
  <2> QED
    BY <2>4 DEF Short, o, i
<1>2. CASE \E q \in Orders : /\ SendDeduct(q) /\ r.kind = "deduct" /\ r.order = q
                             /\ r.item = item[q] /\ r.version = seen[q][item[q]]
  <2>1. PICK q \in Orders : /\ SendDeduct(q) /\ r.kind = "deduct" /\ r.order = q
                            /\ r.item = item[q] /\ r.version = seen[q][item[q]]
    BY <1>2
  <2>2. item[q] \in Idx(q)
    BY <2>1, TryTyped DEF SendDeduct, Buying
  <2>3. seen[q][item[q]] <= At(q, item[q])
    BY <2>2 DEF SeenBehind
  <2>4. version' = version
    BY <2>1 DEF SendDeduct, products
  <2> QED
    BY <2>1, <2>3, <2>4 DEF At
<1>3. CASE \E s \in Deducts : /\ ~Matches(s) /\ UNCHANGED <<stock, version>>
                              /\ r.order = s.order /\ r.item = s.item
                              /\ r.version = s.version
  <2>1. PICK s \in Deducts : /\ ~Matches(s) /\ UNCHANGED <<stock, version>>
                             /\ r.order = s.order /\ r.item = s.item
                             /\ r.version = s.version
    BY <1>3
  <2>2. /\ s.order \in Orders /\ s.item \in Idx(s.order)
        /\ Product(s.order, s.item) \in Products
        /\ Qty(s.order, s.item) \in Nat
    BY Typed, ItemFacts
  <2>3. stock[Product(s.order, s.item)] \in Nat
    BY <2>2 DEF Placed, TypeOK, ProductsOK
  <2>4. s.version = At(s.order, s.item) => Short(s)
    BY <2>1, <2>2, <2>3 DEF Matches, AllActive, At, Short
  <2>5. s.version <= At(s.order, s.item)
    BY DEF AskedBehind
  <2> QED
    BY <2>1, <2>4, <2>5 DEF At, Short
<1> QED
  BY <1>1, <1>2, <1>3, DeductsCome

(* What an order was told stands while it is left alone.                   *)
LEMMA BlamesStays ==
  ASSUME NEW o \in Orders, Blames(o), held'[o] = held[o], exc'[o] = exc[o],
         pc[o] \in Undoing => pc'[o] \in Undoing,
         pc'[o] = "deducting" /\ reply'[o] = "INSUFFICIENT_STOCK"
           => Scarce(Product(o, held[o] + 1))
  PROVE  Blames(o)'
BY DEF Blames, Scarce, Demand, Product

LEMMA OwnBlames ==
  ASSUME Placed, StockInv, NEW o \in Orders, Blames(o), Saga(o) \/ RequestDies(o)
  PROVE  Blames(o)'
<1>1. pc'[o] = "deducting" => reply'[o] = "none"
  <2>1. CASE SendDeduct(o)
    BY <2>1, TryTyped DEF SendDeduct, Send, StockInv, ReplyAwaited
  <2>2. CASE ~SendDeduct(o)
    BY <2>2, TryTyped DEF Saga, RequestDies, LookUp, LookUpFails, CreateOrder,
       Deducted, DeductConflicts, Reread, DeductFails, CommitStockDeducted,
       CommitPaymentRequested, SendPayment, Send, Awaiting, PaymentApproved,
       PaymentFails, Raises, CommitCompleted, Publish, CommitRollbackNeeded,
       SendRestore, RestoreReturns, CommitFailed, Goto
  <2> QED
    BY <2>1, <2>2
<1>2. CASE \/ LookUp(o) \/ LookUpFails(o) \/ CreateOrder(o) \/ SendDeduct(o)
           \/ DeductConflicts(o) \/ Reread(o) \/ CommitStockDeducted(o)
           \/ CommitPaymentRequested(o) \/ SendPayment(o) \/ PaymentApproved(o)
           \/ CommitCompleted(o) \/ Publish(o) \/ CommitRollbackNeeded(o)
           \/ SendRestore(o) \/ RestoreReturns(o) \/ CommitFailed(o)
           \/ RequestDies(o)
  <2>1. held' = held /\ exc' = exc
    BY <1>2 DEF LookUp, LookUpFails, CreateOrder, SendDeduct, DeductConflicts,
       Reread, CommitStockDeducted, CommitPaymentRequested, SendPayment,
       PaymentApproved, CommitCompleted, Publish, CommitRollbackNeeded,
       SendRestore, RestoreReturns, CommitFailed, RequestDies, buying, failing
  <2>2. pc[o] \in Undoing => pc'[o] \in Undoing
    BY <1>2, TryTyped DEF LookUp, LookUpFails, CreateOrder, SendDeduct, Send,
       Awaiting, DeductConflicts, Reread, Receives, CommitStockDeducted,
       CommitPaymentRequested, SendPayment, PaymentApproved, CommitCompleted,
       Publish, CommitRollbackNeeded, SendRestore, RestoreReturns, CommitFailed,
       RequestDies, Goto, Undoing
  <2> QED
    BY <1>1, <2>1, <2>2, BlamesStays
<1>3. CASE Deducted(o)
  <2>1. pc[o] = "deducting" /\ exc' = exc /\ pc'[o] # "deducting"
    BY <1>3, TryTyped DEF Deducted, Receives, Awaiting, Goto, failing
  <2> QED
    BY <2>1 DEF Blames, Undoing
<1>4. CASE DeductFails(o)
  <2>1. /\ held' = held /\ pc'[o] = "restore"
        /\ exc'[o].code = "INSUFFICIENT_STOCK"
             => pc[o] = "deducting" /\ reply[o] = "INSUFFICIENT_STOCK"
    BY <1>4, TryTyped DEF DeductFails, Raises, Receives, TimesOut, Awaiting,
       Goto, buying
  <2> QED
    BY <2>1 DEF Blames, Undoing, Scarce, Demand, Product
<1>5. CASE PaymentFails(o)
  <2>1. exc'[o].code # "INSUFFICIENT_STOCK" /\ pc'[o] # "deducting"
    BY <1>5, TryTyped DEF PaymentFails, Raises, Goto
  <2> QED
    BY <2>1 DEF Blames
<1> QED
  BY <1>2, <1>3, <1>4, <1>5 DEF Saga

LEMMA ServedBlames ==
  ASSUME IsFiniteSet(Orders), Placed, StockInv, StockBalances, AllActive,
         AskedBehind, NEW r \in net, Serve(r), NEW o \in Orders, Blames(o)
  PROVE  Blames(o)'
<1>1. UNCHANGED <<pc, held, exc>>
  BY DEF Serve, ServeDeduct, Diagnose, ServeRestore, ServePayment, control,
     buying, failing
<1>2. CASE pc[o] = "deducting" /\ reply'[o] # reply[o]
           /\ reply'[o] = "INSUFFICIENT_STOCK"
  <2>8. \A msg : Answer(r, msg) => msg = "INSUFFICIENT_STOCK"
    BY <1>2, PayTyped DEF Answer, Replied
  <2>1. Diagnose(r) /\ Answer(r, "INSUFFICIENT_STOCK")
    BY <1>2, <2>8 DEF Serve, ServeDeduct, Diagnose, ServeRestore, ServePayment
  <2>2. r \in Deducts /\ r.kind = "diagnose"
    BY <2>1 DEF Diagnose, Deducts
  <2>3. o = r.order /\ r.item \in {0, item[o]}
    BY <1>2, <2>1, PayTyped DEF Answer, Replied
  <2>4. /\ r.item \in Idx(o) /\ r.item = held[o] + 1 /\ taken[o][r.item] = 0
        /\ Product(o, r.item) \in Products
    BY <2>2, <2>3, Typed, ItemFacts DEF StockInv, DeductAsked
  <2>5. version[Product(o, r.item)] = r.version
    BY <2>1, <2>3, <2>4, <2>8 DEF Diagnose, AllActive
  <2>6. stock[Product(o, r.item)] < Qty(o, r.item)
    BY <2>2, <2>3, <2>5 DEF AskedBehind, At, Short
  <2>7. Scarce(Product(o, r.item))
    BY <2>4, <2>6, ShortIsScarce
  <2> QED
    BY <1>1, <2>4, <2>7, BlamesStays
<1>3. CASE ~(pc[o] = "deducting" /\ reply'[o] # reply[o]
             /\ reply'[o] = "INSUFFICIENT_STOCK")
  <2>1. pc'[o] = "deducting" /\ reply'[o] = "INSUFFICIENT_STOCK"
          => Scarce(Product(o, held[o] + 1))
    BY <1>1, <1>3 DEF Blames
  <2> QED
    BY <1>1, <2>1, BlamesStays
<1> QED
  BY <1>2, <1>3

LEMMA NextSoldOutOK ==
  ASSUME IsFiniteSet(Orders), "admin" \notin Faults
  PROVE  Placed /\ StockInv /\ StockBalances /\ SoldOutOK /\ [Next]_vars => SoldOutOK'
<1> SUFFICES ASSUME Placed, StockInv, StockBalances, SoldOutOK, [Next]_vars
             PROVE  SoldOutOK'
  OBVIOUS
<1>1. AllActive /\ SeenBehind /\ AskedBehind /\ \A o \in Orders : Blames(o)
  BY DEF SoldOutOK
<1>2. AllActive'
  BY <1>1, NextActive DEF AllActive
<1>3. SeenBehind' /\ AskedBehind'
  BY <1>1, NextSeenBehind, NextAskedBehind
<1>4. ASSUME NEW o \in Orders PROVE Blames(o)'
  <2>1. CASE \E q \in Orders : Saga(q) \/ RequestDies(q)
    <3>1. PICK q \in Orders : Saga(q) \/ RequestDies(q)
      BY <2>1
    <3>2. CASE q = o
      BY <1>1, <3>1, <3>2, OwnBlames
    <3>3. CASE q # o
      <4>1. Waits(o)
        BY <3>1, <3>3, OthersWait
      <4>2. pc'[o] = pc[o] /\ reply'[o] = reply[o]
        BY <3>1, <3>3, OwnStep DEF Apart
      <4> QED
        BY <1>1, <4>1, <4>2, BlamesStays DEF Waits, Blames
    <3> QED
      BY <3>2, <3>3
  <2>2. CASE \E r \in net : Serve(r)
    BY <1>1, <2>2, ServedBlames
  <2>3. CASE \/ \E r \in net : LoseRequest(r)
             \/ \E p \in Products : AdminSetsActive(p)
             \/ UNCHANGED vars
    <3>1. UNCHANGED <<pc, reply, held, exc>>
      BY <2>3 DEF LoseRequest, AdminSetsActive, vars, coroutine, control,
         buying, failing
    <3> QED
      BY <1>1, <3>1, BlamesStays DEF Blames
  <2>4. CASE Crash
    <3>1. /\ UNCHANGED <<held, exc>> /\ reply'[o] = "none"
          /\ pc'[o] = pc[o] \/ pc'[o] = "dead"
      BY <2>4 DEF Crash, buying, failing
    <3> QED
      BY <1>1, <3>1, BlamesStays DEF Undoing
  <2> QED
    BY <2>1, <2>2, <2>3, <2>4 DEF Next
<1> QED
  BY <1>2, <1>3, <1>4 DEF SoldOutOK

(* Unless products are switched off and on, an order is told that stock is *)
(* insufficient only for a product of which more is asked than there was:  *)
(* no conflict, retry or late reply is ever taken for a lack of stock.     *)
THEOREM SoldOutIsReal ==
  ASSUME IsFiniteSet(Orders), "admin" \notin Faults
  PROVE  Spec => []SoldOutMeansScarce
<1>1. SoldOutOK => SoldOutMeansScarce
  BY DEF SoldOutOK, Blames, SoldOutMeansScarce, Scarce
<1> QED
  BY <1>1, InitPlaced, NextPlaced, InitStockInv, NextStockInv, InitBalances,
     NextBalances, InitSoldOutOK, NextSoldOutOK, PTL DEF Spec

=============================================================================
