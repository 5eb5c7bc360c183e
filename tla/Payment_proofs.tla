--------------------------- MODULE Payment_proofs ---------------------------
(***************************************************************************)
(* Theorems about Payment, for any number of requests for any orders.      *)
(*                                                                         *)
(* The invariant: an index entry is held only while its order has no       *)
(* committed payment, so there is one commit to decide it; from then on    *)
(* the order's payment is what its decider answers.  What is refunded only *)
(* grows, so that a refund which was full when it summed still is.         *)
(***************************************************************************)
EXTENDS Payment, SumTheorems

PayerSteps    == {"check", "flush", "decide", "refresh", "done", "dead"}
RefunderSteps == {"load", "sum", "commit", "refresh", "done", "dead"}
Answers       == {0, 201, 400, 402, 404, 409, 422}

Typed ==
  /\ pc \in [Requests -> Steps]
  /\ \A r \in Payers : pc[r] \in PayerSteps
  /\ \A f \in Refunders : pc[f] \in RefunderSteps
  /\ answer \in [Requests -> Answers]
  /\ holder \in [Orders -> Payers \cup {Nobody}]
  /\ status \in [Orders -> R!Status]

HolderDecides ==
  /\ \A r \in Payers : pc[r] = "decide" => holder[OrderOf[r]] = r
  /\ \A o \in Orders : holder[o] # Nobody =>
       /\ holder[o] \in Payers /\ OrderOf[holder[o]] = o
       /\ pc[holder[o]] = "decide"
       /\ status[o] = "none"

Decided(r) == pc[r] = "refresh" \/ answer[r] \in {201, 402}

DecidedIsRecorded ==
  \A r \in Payers :
     LET s == status[OrderOf[r]] IN
     /\ pc[r] = "refresh" \/ answer[r] = 201 => s \in {"APPROVED", "REFUNDED"}
     /\ answer[r] = 402 => s = "REJECTED"
     /\ answer[r] = 409 => s # "none"

OneDecides == \A r, s \in Payers :
  OrderOf[r] = OrderOf[s] /\ Decided(r) /\ Decided(s) => r = s

RefundsApproved == \A f \in Refunders :
  pc[f] \in {"sum", "commit"} => status[OrderOf[f]] \in {"APPROVED", "REFUNDED"}

Inv == /\ Typed /\ HolderDecides /\ DecidedIsRecorded /\ OneDecides
       /\ RefundsApproved

LEMMA Facts ==
  /\ \A r \in Requests : OrderOf[r] \in Orders
  /\ Payers \subseteq Requests /\ Refunders \subseteq Requests
  /\ Nobody \notin Payers /\ Payers \cap Refunders = {}
BY PaymentAssumption DEF Requests

LEMMA InitInv == Init => Inv
<1> SUFFICES ASSUME Init PROVE Inv
  OBVIOUS
<1> USE Facts DEF Init, R!Init
<1>1. Typed
  BY DEF Typed, Steps, PayerSteps, RefunderSteps, Answers, R!Status, Requests
<1>2. HolderDecides /\ RefundsApproved
  BY DEF HolderDecides, RefundsApproved, Requests
<1>3. DecidedIsRecorded /\ OneDecides
  BY DEF DecidedIsRecorded, OneDecides, Decided, Requests
<1> QED
  BY <1>1, <1>2, <1>3 DEF Inv

(* A step that leaves the tables and the index alone, and decides nothing. *)
LEMMA CheckDuplicateInv ==
  ASSUME Inv, NEW r \in Payers, CheckDuplicate(r) PROVE Inv'
<1> USE Facts DEF Inv, CheckDuplicate, Respond, Goto
<1>1. Typed'
  BY DEF Typed, Steps, PayerSteps, Answers
<1>2. HolderDecides' /\ RefundsApproved'
  BY DEF Typed, HolderDecides, RefundsApproved
<1>3. DecidedIsRecorded' /\ OneDecides'
  BY DEF Typed, DecidedIsRecorded, OneDecides, Decided
<1> QED
  BY <1>1, <1>2, <1>3

LEMMA FlushInv == ASSUME Inv, NEW r \in Payers, Flush(r) PROVE Inv'
<1> USE Facts DEF Inv, Flush, Respond, Goto
<1>1. Typed'
  BY DEF Typed, Steps, PayerSteps, Answers
<1>2. HolderDecides' /\ RefundsApproved'
  BY DEF Typed, HolderDecides, RefundsApproved
<1>3. DecidedIsRecorded' /\ OneDecides'
  BY DEF Typed, DecidedIsRecorded, OneDecides, Decided
<1> QED
  BY <1>1, <1>2, <1>3

LEMMA DecidesInv ==
  ASSUME Inv, NEW r \in Payers, Reject(r) \/ Approve(r)
  PROVE  Inv' /\ R!Decide(OrderOf[r])
<1> DEFINE o == OrderOf[r]
<1> USE Facts DEF Inv
<1>1. /\ o \in Orders /\ pc[r] = "decide" /\ holder[o] = r /\ status[o] = "none"
  BY DEF Reject, Approve, Decides, Typed, HolderDecides
<1>2. PICK s \in {"APPROVED", "REJECTED"} :
        /\ status' = [status EXCEPT ![o] = s]
        /\ holder' = [holder EXCEPT ![o] = Nobody]
        /\ \/ s = "APPROVED" /\ pc' = [pc EXCEPT ![r] = "refresh"]
              /\ answer' = answer
           \/ s = "REJECTED" /\ pc' = [pc EXCEPT ![r] = "done"]
              /\ answer' = [answer EXCEPT ![r] = 402]
  BY DEF Reject, Approve, Decides, Respond, Goto
<1> HIDE DEF o
<1>3. Typed'
  BY <1>1, <1>2 DEF Typed, Steps, PayerSteps, Answers, R!Status
<1>4. HolderDecides'
  <2>1. \A q \in Payers : pc'[q] = "decide" => holder'[OrderOf[q]] = q
    BY <1>1, <1>2 DEF Typed, HolderDecides
  <2>2. \A p \in Orders : holder'[p] # Nobody =>
          /\ holder'[p] \in Payers /\ OrderOf[holder'[p]] = p
          /\ pc'[holder'[p]] = "decide" /\ status'[p] = "none"
    BY <1>1, <1>2 DEF Typed, HolderDecides, o
  <2> QED
    BY <2>1, <2>2 DEF HolderDecides
<1>5. \A q \in Payers : OrderOf[q] = o /\ q # r => ~Decided(q) /\ answer[q] # 409
  BY <1>1 DEF DecidedIsRecorded, Decided
<1>6. DecidedIsRecorded'
  <2>1. ASSUME NEW q \in Payers, OrderOf[q] # o
        PROVE  /\ pc'[q] = pc[q] /\ answer'[q] = answer[q]
               /\ status'[OrderOf[q]] = status[OrderOf[q]]
    BY <1>2, <2>1 DEF Typed, o
  <2>2. ASSUME NEW q \in Payers, OrderOf[q] = o, q # r
        PROVE  /\ pc'[q] # "refresh" /\ answer'[q] \notin {201, 402, 409}
    BY <1>2, <1>5, <2>2 DEF Typed, Decided
  <2>3. answer[r] \notin {201, 402, 409}
    BY <1>1 DEF DecidedIsRecorded, o
  <2>4. /\ pc'[r] = "refresh" \/ answer'[r] = 201 => status'[o] = "APPROVED"
        /\ answer'[r] = 402 => status'[o] = "REJECTED"
        /\ answer'[r] # 409
    BY <1>1, <1>2, <2>3 DEF Typed
  <2> QED
    BY <2>1, <2>2, <2>4 DEF DecidedIsRecorded, o
<1>7. OneDecides'
  <2>1. \A q \in Payers : q # r /\ Decided(q)' => Decided(q) /\ OrderOf[q] # o
    BY <1>2, <1>5 DEF Typed, Decided
  <2> QED
    BY <2>1 DEF OneDecides, o
<1>8. RefundsApproved'
  BY <1>1, <1>2 DEF Typed, RefundsApproved
<1>9. R!Decide(o)
  BY <1>1, <1>2 DEF R!Decide
<1> QED
  BY <1>3, <1>4, <1>6, <1>7, <1>8, <1>9 DEF o

LEMMA RefreshInv == ASSUME Inv, NEW r \in Requests, Refresh(r) PROVE Inv'
<1> USE Facts DEF Inv, Refresh, Respond, Goto
<1>1. Typed'
  BY DEF Typed, Steps, PayerSteps, RefunderSteps, Answers
<1>2. HolderDecides' /\ RefundsApproved'
  BY DEF Typed, HolderDecides, RefundsApproved
<1>3. DecidedIsRecorded' /\ OneDecides'
  BY DEF Typed, DecidedIsRecorded, OneDecides, Decided
<1> QED
  BY <1>1, <1>2, <1>3

LEMMA RefundReadsInv ==
  ASSUME Inv, NEW f \in Refunders, LoadPayment(f) \/ SumRefunds(f) PROVE Inv'
<1> USE Facts DEF Inv, LoadPayment, SumRefunds, Respond, Goto
<1>1. Typed'
  BY DEF Typed, Steps, RefunderSteps, Answers
<1>2. \A r \in Payers : pc'[r] = pc[r] /\ answer'[r] = answer[r]
  BY DEF Typed
<1>3. UNCHANGED <<holder, status>>
  OBVIOUS
<1>4. HolderDecides' /\ DecidedIsRecorded' /\ OneDecides'
  BY <1>2, <1>3 DEF HolderDecides, DecidedIsRecorded, OneDecides, Decided
<1>5. RefundsApproved'
  BY DEF Typed, RefundsApproved
<1> QED
  BY <1>1, <1>4, <1>5

LEMMA CommitRefundInv ==
  ASSUME Inv, NEW f \in Refunders, CommitRefund(f)
  PROVE  Inv' /\ (R!Refund(OrderOf[f]) \/ UNCHANGED status)
<1> DEFINE o == OrderOf[f]
<1> USE Facts DEF Inv
<1>1. o \in Orders /\ pc[f] = "commit" /\ status[o] \in {"APPROVED", "REFUNDED"}
  BY DEF CommitRefund, RefundsApproved
<1>2. /\ pc' = [pc EXCEPT ![f] = "refresh"]
      /\ UNCHANGED <<answer, holder>>
      /\ status' = status \/ status' = [status EXCEPT ![o] = "REFUNDED"]
  BY DEF CommitRefund, Goto
<1> HIDE DEF o
<1>3. Typed'
  BY <1>2 DEF Typed, Steps, RefunderSteps, R!Status
<1>4. \A r \in Payers : pc'[r] = pc[r]
  BY <1>2 DEF Typed
<1>5. HolderDecides'
  BY <1>1, <1>2, <1>4 DEF Typed, HolderDecides
<1>6. DecidedIsRecorded' /\ OneDecides'
  BY <1>1, <1>2, <1>4 DEF Typed, DecidedIsRecorded, OneDecides, Decided
<1>7. RefundsApproved'
  BY <1>1, <1>2 DEF Typed, RefundsApproved
<1>8. R!Refund(o) \/ UNCHANGED status
  BY <1>1, <1>2 DEF Typed, R!Refund
<1> QED
  BY <1>3, <1>5, <1>6, <1>7, <1>8 DEF o

LEMMA DiesInv == ASSUME Inv, NEW r \in Requests, Dies(r) PROVE Inv'
<1> USE Facts DEF Inv, Dies, Goto
<1>1. Typed'
  BY DEF Typed, Steps, PayerSteps, RefunderSteps
<1>2. HolderDecides'
  BY DEF Typed, HolderDecides
<1>3. RefundsApproved'
  BY DEF Typed, RefundsApproved
<1>4. DecidedIsRecorded' /\ OneDecides'
  BY DEF Typed, DecidedIsRecorded, OneDecides, Decided
<1> QED
  BY <1>1, <1>2, <1>3, <1>4

LEMMA NextInv == Inv /\ [Next]_vars => Inv' /\ [R!Next]_status
<1> SUFFICES ASSUME Inv, [Next]_vars PROVE Inv' /\ [R!Next]_status
  OBVIOUS
<1>1. CASE \E r \in Payers : CheckDuplicate(r) \/ Flush(r)
  BY <1>1, CheckDuplicateInv, FlushInv DEF CheckDuplicate, Flush
<1>2. CASE \E r \in Payers : Reject(r) \/ Approve(r)
  BY <1>2, DecidesInv, Facts DEF R!Next
<1>3. CASE \E r \in Requests : Refresh(r) \/ Dies(r)
  BY <1>3, RefreshInv, DiesInv DEF Refresh, Dies
<1>4. CASE \E f \in Refunders : LoadPayment(f) \/ SumRefunds(f)
  BY <1>4, RefundReadsInv DEF LoadPayment, SumRefunds
<1>5. CASE \E f \in Refunders : CommitRefund(f)
  BY <1>5, CommitRefundInv, Facts DEF R!Next
<1>6. CASE UNCHANGED vars
  BY <1>6 DEF vars, Inv, Typed, HolderDecides, DecidedIsRecorded, OneDecides,
     Decided, RefundsApproved
<1> QED
  BY <1>1, <1>2, <1>3, <1>4, <1>5, <1>6, Facts DEF Next, Pay, RefundPayment

-----------------------------------------------------------------------------
(* The money that is paid back.                                            *)

\* A handler that is about to commit found no less to refund than there is.
RefundsOK ==
  /\ refunds \subseteq Refunders /\ IsFiniteSet(refunds)
  /\ refundable \in [Refunders -> Int]
  /\ \A f \in Refunders :
       /\ pc[f] \in {"load", "sum", "commit"} => f \notin refunds
       /\ pc[f] = "commit" =>
            Amount[OrderOf[f]] <= refundable[f] + Total(RefundsOf(OrderOf[f]))

MoneyInv == RefundsOK /\ RefundedIsPaidBack

LEMMA RefundsFinite ==
  ASSUME refunds \subseteq Refunders, IsFiniteSet(refunds), NEW o
  PROVE  /\ IsFiniteSet(RefundsOf(o)) /\ Total(RefundsOf(o)) \in Nat
         /\ \A f \in RefundsOf(o) : RefundAmount[f] \in Nat
<1>1. IsFiniteSet(RefundsOf(o)) /\ RefundsOf(o) \subseteq Refunders
  BY FS_Subset DEF RefundsOf
<1>2. \A f \in Refunders : RefundAmount[f] \in Nat
  BY PaymentAssumption
<1> QED
  BY <1>1, <1>2, SumType DEF Total

LEMMA InitMoney == Init => MoneyInv
<1> SUFFICES ASSUME Init PROVE MoneyInv
  OBVIOUS
<1>1. RefundsOK
  BY Facts, FS_EmptySet DEF Init, RefundsOK, Requests
<1>2. RefundedIsPaidBack
  BY DEF Init, R!Init, RefundedIsPaidBack
<1> QED
  BY <1>1, <1>2 DEF MoneyInv

LEMMA SumRefundsMoney ==
  ASSUME Inv, MoneyInv, NEW f \in Refunders, SumRefunds(f) PROVE MoneyInv'
<1> DEFINE o == OrderOf[f]
           left == Amount[o] - Total(RefundsOf(o))
<1>1. o \in Orders /\ Amount[o] \in Nat /\ Total(RefundsOf(o)) \in Nat
  BY PaymentAssumption, Facts, RefundsFinite DEF MoneyInv, RefundsOK
<1>2. /\ pc[f] = "sum"
      /\ refundable' = [refundable EXCEPT ![f] = left]
      /\ \/ pc' = [pc EXCEPT ![f] = "done"] \/ pc' = [pc EXCEPT ![f] = "commit"]
      /\ UNCHANGED <<status, refunds>>
  BY DEF SumRefunds, Respond, Goto
<1>3. \A q : RefundsOf(q)' = RefundsOf(q)
  BY <1>2 DEF RefundsOf
<1> HIDE DEF left
<1>4. left \in Int /\ Amount[o] <= left + Total(RefundsOf(o))
  BY <1>1 DEF left
<1>5. RefundsOK'
  <2>1. /\ refunds' \subseteq Refunders /\ IsFiniteSet(refunds')
        /\ refundable' \in [Refunders -> Int]
    BY <1>2, <1>4 DEF MoneyInv, RefundsOK
  <2>2. ASSUME NEW g \in Refunders
        PROVE  /\ pc'[g] \in {"load", "sum", "commit"} => g \notin refunds'
               /\ pc'[g] = "commit" =>
                    Amount[OrderOf[g]] <= refundable'[g] + Total(RefundsOf(OrderOf[g])')
    <3>1. CASE g = f
      BY <3>1, <1>2, <1>3, <1>4, Facts DEF Inv, Typed, MoneyInv, RefundsOK
    <3>2. CASE g # f
      BY <3>2, <1>2, <1>3, Facts DEF Inv, Typed, MoneyInv, RefundsOK
    <3> QED
      BY <3>1, <3>2
  <2> QED
    BY <2>1, <2>2, <1>3 DEF RefundsOK, Total
<1>6. RefundedIsPaidBack'
  BY <1>2, <1>3 DEF MoneyInv, RefundedIsPaidBack, Total
<1> QED
  BY <1>5, <1>6 DEF MoneyInv

LEMMA CommitRefundMoney ==
  ASSUME Inv, MoneyInv, NEW f \in Refunders, CommitRefund(f) PROVE MoneyInv'
<1> DEFINE o == OrderOf[f]
<1>1. /\ o \in Orders /\ RefundAmount[f] \in Nat \ {0}
      /\ \A q \in Orders : Amount[q] \in Nat
      /\ \A g \in Refunders : OrderOf[g] \in Orders
  BY PaymentAssumption, Facts
<1>2. /\ pc[f] = "commit" /\ f \notin refunds
      /\ refunds' = refunds \cup {f}
      /\ pc' = [pc EXCEPT ![f] = "refresh"]
      /\ refundable' = refundable
      /\ Amount[o] <= refundable[f] + Total(RefundsOf(o))
      /\ status' = IF RefundAmount[f] = refundable[f]
                   THEN [status EXCEPT ![o] = "REFUNDED"] ELSE status
  BY DEF CommitRefund, Goto, MoneyInv, RefundsOK
<1>3. \A q : q # o => RefundsOf(q)' = RefundsOf(q)
  BY <1>2 DEF RefundsOf
<1>4. \A q : /\ IsFiniteSet(RefundsOf(q)) /\ Total(RefundsOf(q)) \in Nat
             /\ \A g \in RefundsOf(q) : RefundAmount[g] \in Nat
  BY RefundsFinite DEF MoneyInv, RefundsOK
<1>5. Total(RefundsOf(o)') = RefundAmount[f] + Total(RefundsOf(o))
  <2>1. RefundsOf(o)' = RefundsOf(o) \cup {f} /\ f \notin RefundsOf(o)
    BY <1>2 DEF RefundsOf
  <2>2. RefundAmount[f] \in Int /\ \A g \in RefundsOf(o) : RefundAmount[g] \in Int
    BY <1>1, <1>4
  <2> QED
    BY <2>1, <2>2, <1>4, SumAdd DEF Total
<1> HIDE DEF o
<1>6. \A q : Total(RefundsOf(q)') >= Total(RefundsOf(q)) /\ Total(RefundsOf(q)') \in Nat
  <2>1. \A q : q # o => Total(RefundsOf(q)') = Total(RefundsOf(q))
    BY <1>3
  <2> QED
    BY <2>1, <1>1, <1>4, <1>5
<1>7. RefundsOK'
  <2>1. /\ refunds' \subseteq Refunders /\ IsFiniteSet(refunds')
        /\ refundable' \in [Refunders -> Int]
    BY <1>2, FS_AddElement DEF MoneyInv, RefundsOK
  <2>2. ASSUME NEW g \in Refunders
        PROVE  /\ pc'[g] \in {"load", "sum", "commit"} => g \notin refunds'
               /\ pc'[g] = "commit" =>
                    Amount[OrderOf[g]] <= refundable'[g] + Total(RefundsOf(OrderOf[g])')
    <3>1. CASE g = f
      BY <3>1, <1>2, Facts DEF Inv, Typed
    <3>2. CASE g # f
      <4>1. pc'[g] = pc[g] /\ (g \in refunds' => g \in refunds)
        BY <3>2, <1>2, Facts DEF Inv, Typed
      <4>2. pc[g] = "commit" =>
              Amount[OrderOf[g]] <= refundable[g] + Total(RefundsOf(OrderOf[g]))
        BY DEF MoneyInv, RefundsOK
      <4>3. refundable[g] \in Int /\ Amount[OrderOf[g]] \in Nat
        BY <1>1 DEF MoneyInv, RefundsOK
      <4> QED
        BY <4>1, <4>2, <4>3, <1>2, <1>4, <1>6 DEF MoneyInv, RefundsOK
    <3> QED
      BY <3>1, <3>2
  <2> QED
    BY <2>1, <2>2 DEF RefundsOK, Total
<1>8. RefundedIsPaidBack'
  <2> SUFFICES ASSUME NEW q \in Orders, status'[q] = "REFUNDED"
               PROVE  Total(RefundsOf(q)') >= Amount[q]
    BY DEF RefundedIsPaidBack, Total
  <2>1. CASE status[q] = "REFUNDED"
    <3>1. Total(RefundsOf(q)) >= Amount[q]
      BY <2>1 DEF MoneyInv, RefundedIsPaidBack
    <3> QED
      BY <3>1, <1>1, <1>4, <1>6
  <2>2. CASE status[q] # "REFUNDED"
    <3>1. q = o /\ RefundAmount[f] = refundable[f]
      BY <2>2, <1>2 DEF Inv, Typed
    <3> QED
      BY <3>1, <1>1, <1>2, <1>4, <1>5
  <2> QED
    BY <2>1, <2>2
<1> QED
  BY <1>7, <1>8 DEF MoneyInv

\* Where a refund may stand after a step of another kind.
Moves(f) == \/ pc'[f] = pc[f]
            \/ pc'[f] = "sum" /\ pc[f] = "load"
            \/ pc'[f] \notin {"load", "sum", "commit"}

\* Who decides a payment, reads one or dies moves no money.
LEMMA OthersMoney ==
  ASSUME Inv, MoneyInv, UNCHANGED <<refundable, refunds>>,
         \A f \in Refunders : Moves(f),
         \A o \in Orders : status'[o] = "REFUNDED" => status[o] = "REFUNDED"
  PROVE  MoneyInv'
<1>1. \A q : RefundsOf(q)' = RefundsOf(q)
  BY DEF RefundsOf
<1>2. RefundsOK'
  BY <1>1 DEF MoneyInv, RefundsOK, Total, Moves
<1>3. RefundedIsPaidBack'
  BY <1>1 DEF MoneyInv, RefundedIsPaidBack, Total
<1> QED
  BY <1>2, <1>3 DEF MoneyInv

LEMMA NextMoney == Inv /\ MoneyInv /\ [Next]_vars => MoneyInv'
<1> SUFFICES ASSUME Inv, MoneyInv, [Next]_vars PROVE MoneyInv'
  OBVIOUS
<1>1. ASSUME NEW r \in Payers, Pay(r) PROVE MoneyInv'
  <2>1. UNCHANGED <<refundable, refunds>>
    BY <1>1 DEF Pay, CheckDuplicate, Flush, Reject, Approve, Decides, Refresh
  <2>2. \A f \in Refunders : Moves(f)
    BY <1>1, Facts DEF Inv, Typed, Pay, CheckDuplicate, Flush, Reject, Approve, Refresh,
       Respond, Goto, Moves
  <2>3. \A o \in Orders : status'[o] = "REFUNDED" => status[o] = "REFUNDED"
    BY <1>1, Facts DEF Inv, Typed, Pay, CheckDuplicate, Flush, Reject, Approve, Decides,
       Refresh
  <2> QED
    BY <2>1, <2>2, <2>3, OthersMoney
<1>2. ASSUME NEW f \in Refunders, LoadPayment(f) \/ Refresh(f) PROVE MoneyInv'
  <2>1. UNCHANGED <<refundable, refunds, status>>
    BY <1>2 DEF LoadPayment, Refresh
  <2>2. \A g \in Refunders : Moves(g)
    BY <1>2, Facts DEF Inv, Typed, LoadPayment, Refresh, Respond, Goto, Moves
  <2>3. \A o \in Orders : status'[o] = "REFUNDED" => status[o] = "REFUNDED"
    BY <2>1
  <2> QED
    BY <2>1, <2>2, <2>3, OthersMoney
<1>3. ASSUME NEW r \in Requests, Dies(r) PROVE MoneyInv'
  <2>1. UNCHANGED <<refundable, refunds, status>>
    BY <1>3 DEF Dies
  <2>2. \A g \in Refunders : Moves(g)
    BY <1>3, Facts DEF Inv, Typed, Dies, Goto, Moves
  <2>3. \A o \in Orders : status'[o] = "REFUNDED" => status[o] = "REFUNDED"
    BY <2>1
  <2> QED
    BY <2>1, <2>2, <2>3, OthersMoney
<1>4. ASSUME UNCHANGED vars PROVE MoneyInv'
  <2>1. /\ UNCHANGED <<refundable, refunds, status>>
        /\ \A g \in Refunders : Moves(g)
    BY <1>4 DEF vars, Moves
  <2>2. \A o \in Orders : status'[o] = "REFUNDED" => status[o] = "REFUNDED"
    BY <2>1
  <2> QED
    BY <2>1, <2>2, OthersMoney
<1> QED
  BY <1>1, <1>2, <1>3, <1>4, SumRefundsMoney, CommitRefundMoney DEF Next, RefundPayment

-----------------------------------------------------------------------------
(* The variables keep their types - what is left to refund is an integer,  *)
(* however refunds run into each other - and the entry of an order is held *)
(* by the request that is deciding it.                                     *)
THEOREM Typing == Spec => []TypeOK
<1>1. Inv /\ MoneyInv => TypeOK
  <2> SUFFICES ASSUME Inv, MoneyInv PROVE TypeOK
    OBVIOUS
  <2>1. \A r \in Payers : pc[r] = "decide" <=> holder[OrderOf[r]] = r
    BY Facts DEF Inv, HolderDecides
  <2> QED
    BY <2>1 DEF Inv, Typed, MoneyInv, RefundsOK, TypeOK, Answers
<1> QED
  BY <1>1, InitInv, NextInv, InitMoney, NextMoney, PTL DEF Spec

(* A payment becomes REFUNDED only when its whole amount went back, though *)
(* other refunds commit between the sum and the commit of the last one.    *)
THEOREM RefundedWasPaidBack == Spec => []RefundedIsPaidBack
<1>1. MoneyInv => RefundedIsPaidBack
  BY DEF MoneyInv
<1> QED
  BY <1>1, InitInv, NextInv, InitMoney, NextMoney, PTL DEF Spec

(* Whatever number of requests asks to pay an order, and whoever of them   *)
(* dies half-way, at most one is told that it was decided.                 *)
THEOREM PaymentIsDecidedOnce == Spec => []DecidedOnce
<1>1. Inv => DecidedOnce
  BY DEF Inv, OneDecides, Decided, DecidedOnce
<1> QED
  BY <1>1, InitInv, NextInv, PTL DEF Spec

(* A caller's answer agrees with the payments table, then and ever after.  *)
THEOREM AnswersAreRecorded == Spec => []AnswerIsRecorded
<1>1. Inv => AnswerIsRecorded
  BY DEF Inv, DecidedIsRecorded, AnswerIsRecorded
<1> QED
  BY <1>1, InitInv, NextInv, PTL DEF Spec

(* The handlers together, seen at the payments table, implement            *)
(* PaymentRecord: one decision per order, and no refund but of an approved *)
(* payment, whatever the handlers had read before.                         *)
THEOREM PaymentImplementsRecord == Spec => Recorded
<1>1. Init => R!Init
  BY DEF Init
<1> QED
  BY <1>1, InitInv, NextInv, PTL DEF Spec, Recorded, R!Spec

=============================================================================
