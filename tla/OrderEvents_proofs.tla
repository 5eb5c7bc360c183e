------------------------- MODULE OrderEvents_proofs -------------------------
(***************************************************************************)
(* Theorems about OrderEvents, for any orders and foreign messages.        *)
(*                                                                         *)
(* The argument: an order is published by its coroutine's last step, so    *)
(* its event exists once: on the wire, in the inbox or in the callback.    *)
(***************************************************************************)
EXTENDS OrderEvents, TLAPS

RowsTyped == rows \in [Orders -> L!Row \cup {L!NoRow}]

InInbox(m) == \E i \in 1 .. Len(inbox) : inbox[i] = m

\* A row that says COMPLETED has its payment_id.
PaidFor == \A o \in Orders : Completed(o) => rows[o].paid

\* An event that is under way, or was taken, is of an order that is through.
Announced(o) == Completed(o) /\ o \notin running

OnceOnly(o) ==
  /\ o \in wire => Announced(o) /\ ~InInbox(o) /\ taken[o] = 0
  /\ InInbox(o) => Announced(o) /\ taken[o] = 0
  /\ \A i, j \in 1 .. Len(inbox) : inbox[i] = o /\ inbox[j] = o => i = j
  /\ taken[o] # 0 => Announced(o) /\ taken[o] = 1
  /\ outcome[o] # "INVALID"

\* A subscription lives on a client that lives; before it is asked for there
\* is none.
Listening ==
  /\ stage = "up" /\ Alive => subscribed \/ unclosed
  /\ stage = "connect" => client = "none"
  /\ subscribed => stage = "up" /\ Alive

Inv == TypeOK /\ PaidFor /\ Listening /\ \A o \in Orders : OnceOnly(o)

-----------------------------------------------------------------------------
LEMMA NewRowTyped == L!NewRow \in L!Row /\ L!NewRow # L!NoRow
BY DEF L!NewRow, L!Row, L!NoRow, L!Status, L!SagaStatus, L!Reason

LEMMA RowUpdates ==
  ASSUME NEW R \in L!Row, NEW status \in L!Status, NEW saga \in L!SagaStatus,
         NEW reason \in L!Reason
  PROVE  /\ [R EXCEPT !.status = status, !.saga = saga] \in L!Row
         /\ [R EXCEPT !.status = status, !.saga = saga,
                      !.stock_deducted = TRUE] \in L!Row
         /\ [R EXCEPT !.status = status, !.saga = saga, !.paid = TRUE] \in L!Row
         /\ [R EXCEPT !.saga = saga, !.reason = reason] \in L!Row
         /\ [R EXCEPT !.status = status, !.saga = saga, !.reason = reason]
              \in L!Row
BY Zenon DEF L!Row

\* A commit of an order is the one that completes it, which stores the
\* payment_id, or leaves it uncompleted.
LEMMA CommitFacts ==
  ASSUME RowsTyped, NEW o \in Orders,
         \/ L!Place(o) \/ L!Reserve(o) \/ L!RequestPayment(o) \/ L!Complete(o)
         \/ L!NeedRollback(o) \/ L!Fail(o)
  PROVE  /\ RowsTyped' /\ \A q \in Orders : q # o => rows'[q] = rows[q]
         /\ Completed(o)' => rows'[o].paid
         /\ ~Completed(o)
<1>1. CASE L!Place(o)
  BY <1>1, NewRowTyped DEF L!Place, RowsTyped, Completed, L!NewRow
<1>2. CASE L!Reserve(o)
  <2>1. rows[o] \in L!Row /\ rows[o].status = "PENDING"
    BY <1>2 DEF L!Reserve, L!At, RowsTyped
  <2> DEFINE R == [rows[o] EXCEPT !.status = "STOCK_DEDUCTED", !.saga = "STOCK_DEDUCTED",
                                  !.stock_deducted = TRUE]
  <2>2. R \in L!Row
    BY <2>1, RowUpdates DEF L!Status, L!SagaStatus, L!Reason
  <2>3. R.status = "STOCK_DEDUCTED"
    BY <2>1 DEF L!Row
  <2>4. rows' = [rows EXCEPT ![o] = R]
    BY <1>2 DEF L!Reserve
  <2> QED
    BY <2>1, <2>2, <2>3, <2>4 DEF RowsTyped, Completed
<1>3. CASE L!RequestPayment(o)
  <2>1. rows[o] \in L!Row /\ rows[o].status = "STOCK_DEDUCTED"
    BY <1>3 DEF L!RequestPayment, L!At, RowsTyped
  <2> DEFINE R == [rows[o] EXCEPT !.status = "PAYMENT_REQUESTED",
                                  !.saga = "PAYMENT_REQUESTED"]
  <2>2. R \in L!Row
    BY <2>1, RowUpdates DEF L!Status, L!SagaStatus, L!Reason
  <2>3. R.status = "PAYMENT_REQUESTED"
    BY <2>1 DEF L!Row
  <2>4. rows' = [rows EXCEPT ![o] = R]
    BY <1>3 DEF L!RequestPayment
  <2> QED
    BY <2>1, <2>2, <2>3, <2>4 DEF RowsTyped, Completed
<1>4. CASE L!Complete(o)
  <2>1. rows[o] \in L!Row /\ rows[o].status = "PAYMENT_REQUESTED"
    BY <1>4 DEF L!Complete, L!At, RowsTyped
  <2> DEFINE R == [rows[o] EXCEPT !.status = "COMPLETED", !.saga = "COMPLETED",
                                  !.paid = TRUE]
  <2>2. R \in L!Row
    BY <2>1, RowUpdates DEF L!Status, L!SagaStatus, L!Reason
  <2>3. R.paid
    BY <2>1 DEF L!Row
  <2>4. rows' = [rows EXCEPT ![o] = R]
    BY <1>4 DEF L!Complete
  <2> QED
    BY <2>1, <2>2, <2>3, <2>4 DEF RowsTyped, Completed
<1>5. CASE L!NeedRollback(o)
  <2>1. rows[o] \in L!Row /\ rows[o].status = "PAYMENT_REQUESTED"
    BY <1>5 DEF L!NeedRollback, L!At, RowsTyped
  <2>2. PICK why \in L!Reason \ {"none"} :
          rows' = [rows EXCEPT ![o] = [@ EXCEPT !.saga = "STOCK_ROLLBACK_NEEDED",
                                                !.reason = why]]
    BY <1>5 DEF L!NeedRollback
  <2> DEFINE R == [rows[o] EXCEPT !.saga = "STOCK_ROLLBACK_NEEDED", !.reason = why]
  <2>3. R \in L!Row
    BY <2>1, RowUpdates DEF L!Status, L!SagaStatus
  <2>4. R.status = "PAYMENT_REQUESTED"
    BY <2>1 DEF L!Row
  <2> QED
    BY <2>1, <2>2, <2>3, <2>4 DEF RowsTyped, Completed
<1>6. CASE L!Fail(o)
  <2>1. rows[o] \in L!Row /\ rows[o].status \in {"PENDING", "PAYMENT_REQUESTED"}
    BY <1>6 DEF L!Fail, L!At, RowsTyped
  <2>2. PICK end \in {"STOCK_ROLLED_BACK", "STOCK_ROLLBACK_NEEDED"}, why \in L!Reason :
          rows' = [rows EXCEPT ![o] = [@ EXCEPT !.status = "FAILED", !.saga = end,
                                                !.reason = why]]
    BY <1>6 DEF L!Fail
  <2> DEFINE R == [rows[o] EXCEPT !.status = "FAILED", !.saga = end, !.reason = why]
  <2>3. R \in L!Row
    BY <2>1, RowUpdates DEF L!Status, L!SagaStatus
  <2>4. R.status = "FAILED"
    BY <2>1 DEF L!Row
  <2> QED
    BY <2>1, <2>2, <2>3, <2>4 DEF RowsTyped, Completed
<1> QED
  BY <1>1, <1>2, <1>3, <1>4, <1>5, <1>6

LEMMA CommitKeeps ==
  ASSUME Inv, NEW o \in Orders, Commit(o)
  PROVE  Inv'
<1>1. /\ \/ L!Place(o) \/ L!Reserve(o) \/ L!RequestPayment(o) \/ L!Complete(o)
         \/ L!NeedRollback(o) \/ L!Fail(o)
      /\ running' \in {running, running \cup {o}, running \ {o}}
      /\ UNCHANGED <<link, wire, service, consumer>>
  BY DEF Commit
<1>2. RowsTyped
  BY DEF Inv, TypeOK, RowsTyped
<1>3. /\ RowsTyped' /\ \A q \in Orders : q # o => rows'[q] = rows[q]
      /\ Completed(o)' => rows'[o].paid
      /\ ~Completed(o)
  BY <1>1, <1>2, CommitFacts
<1>4. TypeOK'
  BY <1>1, <1>3 DEF Inv, TypeOK, RowsTyped, service, consumer
<1>5. PaidFor'
  BY <1>3 DEF Inv, PaidFor, Completed
<1>6. Listening'
  BY <1>1 DEF Inv, Listening, Alive, service
<1>7. OnceOnly(o)'
  BY <1>1, <1>3 DEF Inv, OnceOnly, Announced, InInbox, consumer
<1>8. ASSUME NEW q \in Orders, q # o
      PROVE  OnceOnly(q)'
  <2>1. (q \in running' <=> q \in running) /\ rows'[q] = rows[q]
    BY <1>1, <1>3, <1>8
  <2>2. OnceOnly(q) /\ UNCHANGED <<wire, inbox, taken, outcome>>
    BY <1>1 DEF Inv, consumer
  <2> QED
    BY <2>1, <2>2 DEF OnceOnly, Announced, InInbox, Completed
<1> QED
  BY <1>4, <1>5, <1>6, <1>7, <1>8 DEF Inv

LEMMA PublishKeeps ==
  ASSUME Inv, NEW o \in Orders, Publish(o)
  PROVE  Inv'
<1>1. /\ o \in running /\ Completed(o) /\ running' = running \ {o}
      /\ wire' \in {wire, wire \cup {o}}
      /\ UNCHANGED <<rows, link, service, consumer>>
  BY DEF Publish
<1>2. TypeOK'
  BY <1>1 DEF Inv, TypeOK, service, consumer, Messages
<1>3. PaidFor' /\ Listening'
  BY <1>1 DEF Inv, PaidFor, Listening, Alive, Completed, service
<1>4. \A q \in Orders : OnceOnly(q)'
  <2> SUFFICES ASSUME NEW q \in Orders
               PROVE  OnceOnly(q)'
    OBVIOUS
  <2>1. OnceOnly(q) /\ OnceOnly(o) /\ UNCHANGED <<inbox, taken, outcome>>
    BY <1>1 DEF Inv, consumer
  <2> QED
    BY <1>1, <2>1 DEF OnceOnly, Announced, InInbox, Completed, Inv, TypeOK
<1> QED
  BY <1>2, <1>3, <1>4 DEF Inv

\* A message leaves the wire: for the inbox, or for nowhere.
LEMMA DeliverKeeps ==
  ASSUME Inv, NEW m \in Messages, Deliver(m) \/ Lose(m)
  PROVE  Inv'
<1>1. /\ m \in wire /\ wire' = wire \ {m}
      /\ inbox' \in {inbox, Append(inbox, m)}
      /\ UNCHANGED <<producer, service, handling, outcome, taken>>
  BY DEF Deliver, Lose, consumer
<1>2. inbox \in Seq(Messages) /\ Append(inbox, m) \in Seq(Messages)
  BY DEF Inv, TypeOK
<1>3. TypeOK'
  BY <1>1, <1>2 DEF Inv, TypeOK, producer, service
<1>4. PaidFor' /\ Listening'
  BY <1>1 DEF Inv, PaidFor, Listening, Alive, Completed, producer, service
<1>5. ASSUME NEW q \in Orders
      PROVE  OnceOnly(q)'
  <2>1. OnceOnly(q) /\ UNCHANGED <<rows, running, taken, outcome>>
    BY <1>1 DEF Inv, producer
  <2>2. CASE inbox' = inbox
    BY <1>1, <2>1, <2>2 DEF OnceOnly, Announced, InInbox, Completed
  <2>3. CASE inbox' = Append(inbox, m)
    <3>1. /\ Len(inbox') = Len(inbox) + 1 /\ inbox'[Len(inbox) + 1] = m
          /\ \A i \in 1 .. Len(inbox) : inbox'[i] = inbox[i]
          /\ Len(inbox) \in Nat
      BY <1>2, <2>3
    <3>2. InInbox(q)' <=> InInbox(q) \/ q = m
      BY <3>1 DEF InInbox
    <3>3. \A i, j \in 1 .. Len(inbox') : inbox'[i] = q /\ inbox'[j] = q => i = j
      BY <1>1, <2>1, <3>1 DEF OnceOnly, InInbox
    <3> QED
      BY <1>1, <2>1, <3>2, <3>3 DEF OnceOnly, Announced, Completed
  <2> QED
    BY <1>1, <2>2, <2>3
<1> QED
  BY <1>3, <1>4, <1>5 DEF Inv

\* The subscription takes a message out of the inbox, for good.
LEMMA ReceiveKeeps ==
  ASSUME Inv, Receive
  PROVE  Inv'
<1> DEFINE m == Head(inbox)
<1>1. /\ inbox # <<>> /\ inbox' = Tail(inbox) /\ taken' = [taken EXCEPT ![m] = @ + 1]
      /\ \/ Valid(m) /\ handling' = m /\ UNCHANGED outcome
         \/ /\ ~Valid(m) /\ outcome' = [outcome EXCEPT ![m] = "INVALID"]
            /\ UNCHANGED handling
      /\ UNCHANGED <<producer, wire, service>>
  BY DEF Receive
<1>2. /\ inbox \in Seq(Messages) /\ Len(inbox) \in Nat /\ Len(inbox) > 0
      /\ m = inbox[1] /\ m \in Messages /\ inbox' \in Seq(Messages)
      /\ Len(inbox') = Len(inbox) - 1
      /\ \A i \in 1 .. Len(inbox) - 1 : inbox'[i] = inbox[i + 1]
  BY <1>1 DEF Inv, TypeOK
<1> HIDE DEF m
<1>3. TypeOK'
  <2>1. taken' \in [Messages -> Nat]
    BY <1>1, <1>2 DEF Inv, TypeOK
  <2>2. outcome' \in [Messages -> Outcomes] /\ handling' \in Orders \cup {None}
    BY <1>1, <1>2 DEF Inv, TypeOK, Outcomes, Valid
  <2> QED
    BY <1>1, <1>2, <2>1, <2>2 DEF Inv, TypeOK, producer, service
<1>4. PaidFor' /\ Listening'
  BY <1>1 DEF Inv, PaidFor, Listening, Alive, Completed, producer, service
<1>5. ASSUME NEW q \in Orders
      PROVE  OnceOnly(q)'
  <2>1. OnceOnly(q) /\ UNCHANGED <<rows, running, wire>> /\ q \in Messages
    BY <1>1 DEF Inv, producer, Messages
  <2>2. InInbox(q)' => InInbox(q)
    BY <1>2 DEF InInbox
  <2>3. \A i, j \in 1 .. Len(inbox') : inbox'[i] = q /\ inbox'[j] = q => i = j
    <3> SUFFICES ASSUME NEW i \in 1 .. Len(inbox'), NEW j \in 1 .. Len(inbox'),
                        inbox'[i] = q, inbox'[j] = q
                 PROVE  i = j
      OBVIOUS
    <3>1. /\ i + 1 \in 1 .. Len(inbox) /\ j + 1 \in 1 .. Len(inbox)
          /\ inbox[i + 1] = q /\ inbox[j + 1] = q
      BY <1>2
    <3> QED
      BY <2>1, <3>1 DEF OnceOnly
  <2>4. CASE q = m
    <3>1. InInbox(q)
      BY <1>2, <2>4 DEF InInbox
    <3>2. Valid(q)
      BY <2>1, <3>1 DEF Valid, OnceOnly, Announced, Inv, PaidFor
    <3>3. ~InInbox(q)'
      <4> SUFFICES ASSUME NEW i \in 1 .. Len(inbox'), inbox'[i] = q
                   PROVE  FALSE
        BY DEF InInbox
      <4>1. i + 1 \in 1 .. Len(inbox) /\ inbox[i + 1] = q /\ 1 \in 1 .. Len(inbox)
        BY <1>2
      <4>2. i + 1 = 1
        BY <1>2, <2>1, <2>4, <4>1 DEF OnceOnly
      <4> QED
        BY <1>2, <4>2
    <3>4. taken'[q] = taken[q] + 1 /\ outcome' = outcome
      BY <1>1, <2>1, <2>4, <3>2 DEF Inv, TypeOK
    <3> QED
      BY <1>1, <2>1, <2>3, <3>1, <3>3, <3>4 DEF OnceOnly, Announced, Completed
  <2>5. CASE q # m
    <3>1. taken'[q] = taken[q] /\ outcome'[q] = outcome[q]
      BY <1>1, <2>1, <2>5 DEF Inv, TypeOK
    <3> QED
      BY <1>1, <2>1, <2>2, <2>3, <3>1 DEF OnceOnly, Announced, Completed
  <2> QED
    BY <2>4, <2>5
<1> QED
  BY <1>3, <1>4, <1>5 DEF Inv

\* What the connections, the restarts and the end of a callback change.
LEMMA OtherKeeps ==
  ASSUME Inv,
         \/ LinkCloses \/ OrderServiceRestarts
         \/ ConnectionLost \/ Reconnects \/ ConnectionCloses
         \/ Connect \/ Subscribe \/ SubscribeFails \/ NotificationServiceRestarts
         \/ SendEnds \/ UNCHANGED vars
  PROVE  Inv'
<1>1. /\ UNCHANGED <<rows, wire, taken>> /\ running' \in {running, {}}
      /\ inbox' \in {inbox, <<>>}
  BY DEF LinkCloses, OrderServiceRestarts, ConnectionLost, Reconnects,
     ConnectionCloses, Connect, Subscribe, SubscribeFails,
     NotificationServiceRestarts, SendEnds, vars, producer, consumer,
     Unsubscribe
<1>2. /\ outcome' \in [Messages -> Outcomes]
      /\ \A q \in Orders : outcome'[q] = "INVALID" => outcome[q] = "INVALID"
  <2>1. CASE outcome' = outcome
    BY <2>1 DEF Inv, TypeOK
  <2>2. CASE SendEnds
    <3>1. PICK end \in {"sent", "SIMULATED_SEND_FAILURE", "UNEXPECTED_ERROR"} :
            outcome' = [outcome EXCEPT ![handling] = end]
      BY <2>2 DEF SendEnds
    <3>2. outcome \in [Messages -> Outcomes] /\ end \in Outcomes /\ end # "INVALID"
          /\ Orders \subseteq Messages
      BY DEF Inv, TypeOK, Outcomes, Messages
    <3> QED
      BY <3>1, <3>2
  <2> QED
    BY <2>1, <2>2 DEF LinkCloses, OrderServiceRestarts, ConnectionLost,
       Reconnects, ConnectionCloses, Connect, Subscribe, SubscribeFails,
       NotificationServiceRestarts, vars, consumer
<1>3. inbox' \in Seq(Messages)
  <2>1. inbox \in Seq(Messages) /\ <<>> \in Seq(Messages)
    BY DEF Inv, TypeOK
  <2> QED
    BY <1>1, <2>1
<1>4. TypeOK'
  BY <1>1, <1>2, <1>3
  DEF Inv, TypeOK, LinkCloses, OrderServiceRestarts, ConnectionLost,
      Reconnects, ConnectionCloses, Connect, Subscribe, SubscribeFails,
      NotificationServiceRestarts, SendEnds, vars, producer, service, consumer,
      Unsubscribe
<1>5. PaidFor'
  BY <1>1 DEF Inv, PaidFor, Completed
<1>6. Listening'
  BY DEF Inv, Listening, Alive, TypeOK, LinkCloses, OrderServiceRestarts,
     ConnectionLost, Reconnects, ConnectionCloses, Connect, Subscribe,
     SubscribeFails, NotificationServiceRestarts, SendEnds, vars, producer,
     service, consumer, Unsubscribe
<1>7. ASSUME NEW q \in Orders
      PROVE  OnceOnly(q)'
  <2>1. InInbox(q)' => InInbox(q)
    BY <1>1 DEF InInbox
  <2>2. \A i, j \in 1 .. Len(inbox') : inbox'[i] = q /\ inbox'[j] = q => i = j
    BY <1>1 DEF Inv, OnceOnly
  <2> QED
    BY <1>1, <1>2, <2>1, <2>2 DEF Inv, OnceOnly, Announced, Completed
<1> QED
  BY <1>4, <1>5, <1>6, <1>7 DEF Inv

LEMMA InitInv ==
  ASSUME Init
  PROVE  Inv
<1>1. rows = [o \in Orders |-> L!NoRow]
  BY DEF Init, L!Init
<1>2. inbox = <<>> /\ wire = Foreign
  BY DEF Init
<1>3. TypeOK
  <2>1. inbox \in Seq(Messages)
    BY <1>2
  <2>2. outcome \in [Messages -> Outcomes] /\ taken \in [Messages -> Nat]
    BY DEF Init, Outcomes
  <2>3. /\ running \subseteq Orders /\ link \in {"none", "open", "closed"}
        /\ stage \in {"connect", "subscribe", "up"}
        /\ client \in {"none", "open", "reconnecting", "closed"}
        /\ subscribed \in BOOLEAN /\ unclosed \in BOOLEAN /\ handling \in Orders \cup {None}
    BY DEF Init
  <2> QED
    BY <1>1, <1>2, <2>1, <2>2, <2>3 DEF TypeOK, Messages
<1>4. PaidFor /\ Listening
  BY <1>1 DEF Init, PaidFor, Completed, Listening, Alive
<1>5. \A q \in Orders : OnceOnly(q)
  BY <1>2, MessagesAssumption DEF Init, OnceOnly, InInbox, Messages
<1> QED
  BY <1>3, <1>4, <1>5 DEF Inv

LEMMA NextInv ==
  ASSUME Inv, [Next]_vars
  PROVE  Inv'
BY CommitKeeps, PublishKeeps, DeliverKeeps, ReceiveKeeps, OtherKeeps DEF Next

LEMMA InvHolds == Spec => []Inv
<1>1. Init => Inv
  BY InitInv
<1>2. Inv /\ [Next]_vars => Inv'
  BY NextInv
<1> QED
  BY <1>1, <1>2, PTL DEF Spec

\* Rows, messages and connections keep their types, whatever closes or
\* restarts.
THEOREM Typing == Spec => []TypeOK
<1>1. Inv => TypeOK
  BY DEF Inv
<1> QED
  BY <1>1, InvHolds, PTL

\* notification-service takes the event of an order at most once, only of an
\* order whose COMPLETED row is committed, and never finds it invalid.
THEOREM NotifiedAtMostOnce == Spec => []OneNotificationPerOrder
<1>1. Inv => OneNotificationPerOrder
  <2>1. ASSUME Inv, NEW o \in Orders
        PROVE  /\ taken[o] <= 1
               /\ taken[o] = 1 => Completed(o) /\ outcome[o] # "INVALID"
    BY <2>1 DEF Inv, OnceOnly, Announced
  <2> QED
    BY <2>1 DEF OneNotificationPerOrder
<1> QED
  BY <1>1, InvHolds, PTL

\* Through broken connections, failed starts and restarts, a running
\* notification-service that reports nats_connected has a subscription its
\* client keeps, or could not close its client after a failed subscribe; one
\* that reports false has none.  It is not said that it hears every event.
THEOREM ConnectedHasSubscription == Spec => []ConnectedIsSubscribed
<1>1. Inv => ConnectedIsSubscribed
  BY DEF Inv, Listening, ConnectedIsSubscribed, Connected
<1> QED
  BY <1>1, InvHolds, PTL
=============================================================================
