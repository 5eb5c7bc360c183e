---------------------------- MODULE OrderEvents -----------------------------
(***************************************************************************)
(* The order.completed event from order-service over NATS to               *)
(* notification-service.                                                   *)
(*                                                                         *)
(* Orders live as OrderLifecycle promises (OrderSaga implements it).  Core *)
(* NATS keeps nothing: an event that finds no subscription is gone.  A     *)
(* service makes its connection once, when it starts; if that breaks, the  *)
(* client library reconnects by itself and renews the subscription, or     *)
(* gives up and is closed for good.  Only for the receiver the time in     *)
(* between counts: what order-service publishes then is kept by its client *)
(* and sent later or lost, as anything on the wire.                        *)
(*                                                                         *)
(* There is one process of either service at a time.                       *)
(***************************************************************************)
EXTENDS Naturals, Sequences

CONSTANTS
  Orders,
  Foreign,   \* messages of other publishers that are no OrderCompletedEvent
  None       \* no message

ASSUME MessagesAssumption == /\ Orders \cap Foreign = {}
                             /\ None \notin Orders \cup Foreign

Messages == Orders \cup Foreign

VARIABLES
  rows,        \* orders table
  running,     \* orders whose coroutine in order-service is alive
  link,        \* NATS client of order-service: "none", "open", "closed"
  wire,        \* messages published and neither delivered nor lost
  stage,       \* notification-service: "connect", "subscribe", "up"
  client,      \* NATS client it holds: "none", "open", "reconnecting", "closed"
  subscribed,  \* the subscription is alive
  unclosed,    \* the client could not be closed after a failed subscribe
  inbox,       \* messages delivered to the subscription
  handling,    \* message whose callback is at simulate_notification_send
  outcome,     \* what the counters say of a message
  taken        \* how often the callback was given it

producer == <<rows, running, link>>
service  == <<stage, client, subscribed, unclosed>>
consumer == <<inbox, handling, outcome, taken>>
vars     == <<rows, running, link, wire, stage, client, subscribed, unclosed,
              inbox, handling, outcome, taken>>

L == INSTANCE OrderLifecycle

Completed(o) == rows[o] # L!NoRow /\ rows[o].status = "COMPLETED"

Outcomes == {"none", "sent", "INVALID", "SIMULATED_SEND_FAILURE",
             "UNEXPECTED_ERROR"}

\* OrderCompletedEvent accepts the payload: payment_id must be a number.
Valid(m) == m \in Orders /\ rows[m].paid

\* nc.close, and a connection given up, cancel the callback and drop what it
\* has not been given yet.
Unsubscribe == /\ subscribed' = FALSE
               /\ inbox' = <<>>
               /\ handling' = None

-----------------------------------------------------------------------------
(***************************************************************************)
(* Slips: plausible mistakes in the definitions below.                     *)
(***************************************************************************)
\* Publish that may be tried again although the first try got through.
PublishAgain(o) ==
  /\ o \in running /\ Completed(o)
  /\ wire' = IF link = "open" THEN wire \cup {o} ELSE wire
  /\ \/ running' = running \ {o}
     \/ UNCHANGED running
  /\ UNCHANGED <<rows, link, service, consumer>>

\* SubscribeFails that only logs.
SubscribeFailsOpen ==
  /\ stage = "subscribe"
  /\ stage' = "up"
  /\ UNCHANGED <<producer, wire, client, subscribed, unclosed, consumer>>

\* Receive without the return after an invalid payload, and one that leaves
\* an invalid message where it is.
ReceiveGoesOn ==
  /\ handling = None /\ inbox # <<>>
  /\ inbox' = Tail(inbox)
  /\ taken' = [taken EXCEPT ![Head(inbox)] = @ + 1]
  /\ handling' = Head(inbox)
  /\ UNCHANGED <<producer, wire, service, outcome>>

ReceiveKeepsInvalid ==
  /\ handling = None /\ inbox # <<>>
  /\ LET m == Head(inbox) IN
     \/ /\ Valid(m)
        /\ inbox' = Tail(inbox)
        /\ taken' = [taken EXCEPT ![m] = @ + 1]
        /\ handling' = m
        /\ UNCHANGED outcome
     \/ /\ ~Valid(m)
        /\ outcome' = [outcome EXCEPT ![m] = "INVALID"]
        /\ UNCHANGED <<inbox, taken, handling>>
  /\ UNCHANGED <<producer, wire, service>>

-----------------------------------------------------------------------------
Init ==
  /\ L!Init
  /\ running = {}
  /\ link \in {"none", "open"}
  /\ wire = Foreign
  /\ stage = "connect"
  /\ client = "none"
  /\ subscribed = FALSE
  /\ unclosed = FALSE
  /\ inbox = <<>>
  /\ handling = None
  /\ outcome = [m \in Messages |-> "none"]
  /\ taken = [m \in Messages |-> 0]

(***************************************************************************)
(* order-service                                                           *)
(***************************************************************************)
\* A POST /orders inserts its row, or a later commit of its saga.
Commit(o) ==
  /\ \/ L!Place(o) /\ running' = running \cup {o}
     \/ /\ o \in running
        /\ \/ L!Reserve(o) \/ L!RequestPayment(o) \/ L!Complete(o)
           \/ L!NeedRollback(o)
        /\ UNCHANGED running
     \/ /\ o \in running
        /\ L!Fail(o)
        /\ running' = running \ {o}
  /\ UNCHANGED <<link, wire, service, consumer>>

\* _publish_order_completed: no connection and exceptions are logged only.
Publish(o) ==
  /\ o \in running /\ Completed(o)
  /\ running' = running \ {o}
  /\ \/ link = "open" /\ wire' = wire \cup {o}
     \/ UNCHANGED wire
  /\ UNCHANGED <<rows, link, service, consumer>>

LinkCloses ==
  /\ link = "open"
  /\ link' = "closed"
  /\ UNCHANGED <<rows, running, wire, service, consumer>>

\* The process ends, by shutdown or crash, and lifespan connects anew or not.
OrderServiceRestarts ==
  /\ running' = {}
  /\ link' \in {"none", "open"}
  /\ UNCHANGED <<rows, wire, service, consumer>>

(***************************************************************************)
(* NATS                                                                    *)
(***************************************************************************)
Hears == subscribed /\ client = "open"

Deliver(m) ==
  /\ m \in wire
  /\ wire' = wire \ {m}
  /\ inbox' = IF Hears THEN Append(inbox, m) ELSE inbox
  /\ UNCHANGED <<producer, service, handling, outcome, taken>>

Lose(m) ==
  /\ m \in wire
  /\ wire' = wire \ {m}
  /\ UNCHANGED <<producer, service, consumer>>

\* The connection of notification-service breaks, and is there again with its
\* subscription.  The callback goes on with what it has.
ConnectionLost ==
  /\ client = "open"
  /\ client' = "reconnecting"
  /\ UNCHANGED <<producer, wire, stage, subscribed, unclosed, consumer>>

Reconnects ==
  /\ client = "reconnecting"
  /\ client' = "open"
  /\ UNCHANGED <<producer, wire, stage, subscribed, unclosed, consumer>>

\* nc.is_closed is false until the client gives up.
Alive == client \in {"open", "reconnecting"}

ConnectionCloses ==
  /\ Alive
  /\ client' = "closed"
  /\ Unsubscribe
  /\ UNCHANGED <<producer, wire, stage, unclosed, outcome, taken>>

(***************************************************************************)
(* notification-service: lifespan.  Whatever fails, the service starts and *)
(* nothing tries to subscribe again.                                       *)
(***************************************************************************)
Connect ==
  /\ stage = "connect"
  /\ \/ client' = "open" /\ stage' = "subscribe"
     \/ client' = "none" /\ stage' = "up"
  /\ UNCHANGED <<producer, wire, subscribed, unclosed, consumer>>

Subscribe ==
  /\ stage = "subscribe" /\ Alive
  /\ subscribed' = TRUE
  /\ stage' = "up"
  /\ UNCHANGED <<producer, wire, client, unclosed, consumer>>

SubscribeFails ==
  /\ stage = "subscribe"
  /\ stage' = "up"
  /\ \/ client' = "none" /\ UNCHANGED unclosed
     \/ Alive /\ unclosed' = TRUE /\ UNCHANGED client
  /\ UNCHANGED <<producer, wire, subscribed, consumer>>

\* The process ends, by shutdown or crash, and another one starts.  Shutdown
\* closes the connection without draining the subscription.
NotificationServiceRestarts ==
  /\ stage' = "connect"
  /\ client' = "none"
  /\ unclosed' = FALSE
  /\ Unsubscribe
  /\ UNCHANGED <<producer, wire, outcome, taken>>

\* nats_connected of GET /health
Connected == Alive

(***************************************************************************)
(* notification-service: handle_order_completed_message, one message after *)
(* the other, with an await in simulate_notification_send.                 *)
(***************************************************************************)
Receive ==
  /\ handling = None /\ inbox # <<>>
  /\ LET m == Head(inbox) IN
     /\ inbox' = Tail(inbox)
     /\ taken' = [taken EXCEPT ![m] = @ + 1]
     /\ \/ Valid(m) /\ handling' = m /\ UNCHANGED outcome
        \/ /\ ~Valid(m)
           /\ outcome' = [outcome EXCEPT ![m] = "INVALID"]
           /\ UNCHANGED handling
  /\ UNCHANGED <<producer, wire, service>>

SendEnds ==
  /\ handling # None
  /\ \E end \in {"sent", "SIMULATED_SEND_FAILURE", "UNEXPECTED_ERROR"} :
       outcome' = [outcome EXCEPT ![handling] = end]
  /\ handling' = None
  /\ UNCHANGED <<producer, wire, service, inbox, taken>>

Next ==
  \/ \E o \in Orders : Commit(o) \/ Publish(o)
  \/ LinkCloses \/ OrderServiceRestarts
  \/ \E m \in Messages : Deliver(m) \/ Lose(m)
  \/ ConnectionLost \/ Reconnects \/ ConnectionCloses
  \/ Connect \/ Subscribe \/ SubscribeFails \/ NotificationServiceRestarts
  \/ Receive \/ SendEnds

\* The client library gives the callback its messages, and the simulated
\* sending is a bounded sleep.
Spec == Init /\ [][Next]_vars /\ WF_vars(Receive) /\ WF_vars(SendEnds)

-----------------------------------------------------------------------------
TypeOK ==
  /\ rows \in [Orders -> L!Row \cup {L!NoRow}]
  /\ running \subseteq Orders
  /\ link \in {"none", "open", "closed"}
  /\ wire \subseteq Messages
  /\ stage \in {"connect", "subscribe", "up"}
  /\ client \in {"none", "open", "reconnecting", "closed"}
  /\ subscribed \in BOOLEAN /\ unclosed \in BOOLEAN
  /\ inbox \in Seq(Messages)
  /\ handling \in Orders \cup {None}
  /\ outcome \in [Messages -> Outcomes]
  /\ taken \in [Messages -> Nat]

\* An order is notified at most once, whatever is restarted, only after its
\* COMPLETED row is committed, and its event is one the receiver accepts.
\* That needs the old process to be gone before the new one subscribes: the
\* subscription is in no queue group, two that overlap both get the event.
OneNotificationPerOrder ==
  \A o \in Orders : /\ taken[o] <= 1
                    /\ taken[o] = 1 => Completed(o) /\ outcome[o] # "INVALID"

\* What nats_connected says of the subscription.  A running service that
\* reports true has one, which is renewed when a broken connection is there
\* again - but for the start whose subscribe and close both failed.  One that
\* reports false has none.  Whether events arrive it does not say: see
\* UnheardIsVisible.
ConnectedIsSubscribed ==
  stage = "up" => /\ Connected => subscribed \/ unclosed
                  /\ subscribed => Connected

\* What the subscription has taken in is handled to the end, messages that
\* are no event and sends that fail included, as long as it lives.
EventsAreHandled ==
  \A m \in Messages :
    (\E i \in DOMAIN inbox : inbox[i] = m) ~> outcome[m] # "none" \/ ~subscribed

-----------------------------------------------------------------------------
(* A statement of the repository that the code does not keep.              *)

\* notification-service.md, micromart_design.md: that the service does not
\* hear order.completed - its subscribe failed, or the connection is broken -
\* shows in nats_connected=false.
UnheardIsVisible ==
  [][\A o \in Orders : Deliver(o) /\ ~Hears => ~(stage = "up" /\ Connected)]_vars
=============================================================================
