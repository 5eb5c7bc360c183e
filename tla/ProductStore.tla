---------------------------- MODULE ProductStore ----------------------------
(***************************************************************************)
(* product-service: the handlers of POST /products, of GET, PUT and DELETE *)
(* /products/{id} and of the two internal stock endpoints, over the        *)
(* products table and the Redis cache in front of it.                      *)
(*                                                                         *)
(* A handler's transaction is one statement, or one SELECT and one UPDATE; *)
(* the cache is dropped by a call of its own after the commit, and filled  *)
(* by a call of its own after the SELECT.  Between these calls the other   *)
(* handlers run.  Redis may fail, which the handlers ignore, and entries   *)
(* expire.                                                                 *)
(***************************************************************************)
EXTENDS Integers, FiniteSets, Functions

CONSTANTS
  Products,
  InitStock,
  Gets, Deducts, Restores, Edits,   \* requests (DELETE is an Edit)
  Creates,        \* POST /products
  ProductOf,      \* the product of each request
  Quantity,       \* payload.quantity of a deduction or restoration
  Payload,        \* the columns an edit sets: a record of some of Columns
  None,           \* no cache entry, nothing loaded
  Faults          \* subset of {"redis", "crash"}

Requests == Gets \cup Deducts \cup Restores \cup Edits \cup Creates

\* What an administrator can set; version is not among it.
Columns == {"stock", "is_active", "price"}

Row == [stock : Nat, is_active : BOOLEAN, price : Nat, version : Nat \ {0}]

ASSUME ProductStoreAssumption ==
  /\ InitStock \in [Products -> Nat]
  /\ Gets \cap (Deducts \cup Restores \cup Edits) = {}
  /\ Deducts \cap (Restores \cup Edits) = {} /\ Restores \cap Edits = {}
  /\ Creates \cap (Gets \cup Deducts \cup Restores \cup Edits) = {}
  /\ \A c, d \in Creates : ProductOf[c] = ProductOf[d] => c = d
  /\ ProductOf \in [Requests -> Products]
  /\ Quantity \in [Deducts \cup Restores -> Nat \ {0}]
  /\ \A e \in Edits : /\ DOMAIN Payload[e] \subseteq Columns
                      /\ "stock" \in DOMAIN Payload[e] => Payload[e].stock \in Nat
                      /\ "price" \in DOMAIN Payload[e] => Payload[e].price \in Nat
                      /\ "is_active" \in DOMAIN Payload[e] =>
                           Payload[e].is_active \in BOOLEAN
  /\ None \notin Row
  /\ Faults \subseteq {"redis", "crash"}

VARIABLES
  pc,          \* where each handler is
  view,        \* the row it has read and still needs, or None
  expected,    \* expected_version of a deduction
  answer,      \* what it answered, or "none"
  listed,      \* products that have a row
  row,         \* products table (of the others: what POST will insert)
  cache,       \* Redis: the cached row and whether it expires, or None
  committed    \* deductions and restorations whose UPDATE is committed

vars == <<pc, view, expected, answer, listed, row, cache, committed>>

\* Products whose stock an edit sets.
Recounted == {ProductOf[e] : e \in {d \in Edits : "stock" \in DOMAIN Payload[d]}}

Stock == [p \in Products |-> row[p].stock]
Version == [p \in Products |-> row[p].version]
OnSale(p) == p \in listed /\ row[p].is_active

Active == [p \in Products |-> OnSale(p)]

A == INSTANCE StockAccounts WITH stock <- Stock, version <- Version,
                                 active <- Active

Goto(r, step)    == pc' = [pc EXCEPT ![r] = step]
Respond(r, code) == /\ answer' = [answer EXCEPT ![r] = code]
                    /\ Goto(r, "done")
Forget(r)        == view' = [view EXCEPT ![r] = None]

-----------------------------------------------------------------------------
(***************************************************************************)
(* Slips: plausible mistakes in the definitions below.                     *)
(***************************************************************************)
\* Fill with SET for SETEX.
FillForever(r) ==
  /\ pc[r] = "fill"
  /\ cache' = [cache EXCEPT ![ProductOf[r]] = [row |-> view[r], ttl |-> FALSE]]
  /\ Forget(r)
  /\ Respond(r, "ok")
  /\ UNCHANGED <<expected, listed, row, committed>>

\* Write that keeps the version.
WriteKeepsVersion(r, amount) ==
  /\ row' = [row EXCEPT ![ProductOf[r]].stock = @ + amount]
  /\ committed' = committed \cup {r}

\* Matches without a condition: the version, the stock.
MatchesAnyVersion(r) ==
  OnSale(ProductOf[r]) /\ row[ProductOf[r]].stock >= Quantity[r]

MatchesAnyStock(r) ==
  OnSale(ProductOf[r]) /\ row[ProductOf[r]].version = expected[r]

\* Edited that writes every column it has loaded.
EditedWhole(e) ==
  [c \in DOMAIN view[e] |->
     IF c \in DOMAIN Payload[e] THEN Payload[e][c] ELSE view[e][c]]

-----------------------------------------------------------------------------
Init ==
  /\ pc = [r \in Requests |-> IF r \in Gets THEN "cache"
                              ELSE IF r \in Deducts THEN "arrive"
                              ELSE IF r \in Restores THEN "update"
                              ELSE IF r \in Edits THEN "load" ELSE "insert"]
  /\ view = [r \in Requests |-> None]
  /\ expected = [r \in Deducts |-> 0]
  /\ answer = [r \in Requests |-> "none"]
  /\ listed = Products \ {ProductOf[c] : c \in Creates}
  /\ row = [p \in Products |-> [stock |-> InitStock[p], is_active |-> TRUE,
                                price |-> 0, version |-> 1]]
  /\ cache = [p \in Products |-> None]
  /\ committed = {}

(***************************************************************************)
(* GET: the cache, else the row if it is active, which then fills the      *)
(* cache.                                                                  *)
(***************************************************************************)
ReadCache(r) ==
  /\ pc[r] = "cache"
  /\ \/ /\ cache[ProductOf[r]] # None
        /\ Respond(r, "ok")
     \/ /\ cache[ProductOf[r]] = None \/ "redis" \in Faults
        /\ Goto(r, "select")
        /\ UNCHANGED answer
  /\ UNCHANGED <<view, expected, listed, row, cache, committed>>

Select(r) ==
  /\ pc[r] = "select"
  /\ \/ /\ OnSale(ProductOf[r])
        /\ view' = [view EXCEPT ![r] = row[ProductOf[r]]]
        /\ Goto(r, "fill")
        /\ UNCHANGED answer
     \/ /\ ~OnSale(ProductOf[r])
        /\ Respond(r, "NOT_FOUND")
        /\ UNCHANGED view
  /\ UNCHANGED <<expected, listed, row, cache, committed>>

Fill(r) ==
  /\ pc[r] = "fill"
  /\ \/ cache' = [cache EXCEPT ![ProductOf[r]] = [row |-> view[r], ttl |-> TRUE]]
     \/ "redis" \in Faults /\ UNCHANGED cache
  /\ Forget(r)
  /\ Respond(r, "ok")
  /\ UNCHANGED <<expected, listed, row, committed>>

(***************************************************************************)
(* The stock endpoints: one conditional UPDATE, committed, then the cache  *)
(* is dropped.  A deduction that matched no row looks for the reason.      *)
(***************************************************************************)
\* The caller expects a version it has read at some time.
Arrive(r) ==
  /\ pc[r] = "arrive"
  /\ ProductOf[r] \in listed
  /\ \E v \in 1 .. row[ProductOf[r]].version :
       expected' = [expected EXCEPT ![r] = v]
  /\ Goto(r, "update")
  /\ UNCHANGED <<view, answer, listed, row, cache, committed>>

Matches(r) ==
  /\ OnSale(ProductOf[r])
  /\ row[ProductOf[r]].version = expected[r]
  /\ row[ProductOf[r]].stock >= Quantity[r]

Write(r, amount) ==
  /\ row' = [row EXCEPT ![ProductOf[r]].stock = @ + amount,
                        ![ProductOf[r]].version = @ + 1]
  /\ committed' = committed \cup {r}

Deduct(r) ==
  /\ r \in Deducts /\ pc[r] = "update"
  /\ \/ Matches(r) /\ Write(r, -Quantity[r]) /\ Goto(r, "invalidate")
     \/ ~Matches(r) /\ Goto(r, "diagnose") /\ UNCHANGED <<row, committed>>
  /\ UNCHANGED <<view, expected, answer, listed, cache>>

Diagnose(r) ==
  /\ pc[r] = "diagnose"
  /\ LET p == ProductOf[r] IN
     \/ ~OnSale(p) /\ Respond(r, "NOT_FOUND")
     \/ OnSale(p) /\ row[p].version # expected[r] /\ Respond(r, "VERSION_CONFLICT")
     \/ OnSale(p) /\ row[p].version = expected[r] /\ Respond(r, "INSUFFICIENT_STOCK")
  /\ UNCHANGED <<view, expected, listed, row, cache, committed>>

Restore(r) ==
  /\ r \in Restores /\ pc[r] = "update"
  /\ \/ /\ OnSale(ProductOf[r])
        /\ Write(r, Quantity[r])
        /\ Goto(r, "invalidate")
        /\ UNCHANGED answer
     \/ /\ ~OnSale(ProductOf[r])
        /\ Respond(r, "NOT_FOUND")
        /\ UNCHANGED <<row, committed>>
  /\ UNCHANGED <<view, expected, listed, cache>>

Invalidate(r) ==
  /\ pc[r] = "invalidate"
  /\ \/ cache' = [cache EXCEPT ![ProductOf[r]] = None]
     \/ "redis" \in Faults /\ UNCHANGED cache
  /\ Respond(r, "ok")
  /\ UNCHANGED <<view, expected, listed, row, committed>>

(***************************************************************************)
(* PUT and DELETE: the row is loaded, changed in memory and committed; the *)
(* UPDATE sets the columns whose value differs from the loaded one.        *)
(***************************************************************************)
LoadRow(e) ==
  /\ pc[e] = "load"
  /\ \/ /\ ProductOf[e] \in listed
        /\ view' = [view EXCEPT ![e] = row[ProductOf[e]]]
        /\ Goto(e, "commit")
        /\ UNCHANGED answer
     \/ /\ ProductOf[e] \notin listed
        /\ Respond(e, "NOT_FOUND")
        /\ UNCHANGED view
  /\ UNCHANGED <<expected, listed, row, cache, committed>>

Edited(e) ==
  [c \in DOMAIN view[e] |->
     IF c \in DOMAIN Payload[e] /\ Payload[e][c] # view[e][c]
     THEN Payload[e][c] ELSE row[ProductOf[e]][c]]

CommitEdit(e) ==
  /\ pc[e] = "commit"
  /\ row' = [row EXCEPT ![ProductOf[e]] = Edited(e)]
  /\ Forget(e)
  /\ Goto(e, "invalidate")
  /\ UNCHANGED <<expected, answer, listed, cache, committed>>

(***************************************************************************)
(* POST: one INSERT; nothing is cached.                                    *)
(***************************************************************************)
Insert(c) ==
  /\ pc[c] = "insert"
  /\ listed' = listed \cup {ProductOf[c]}
  /\ Respond(c, "ok")
  /\ UNCHANGED <<view, expected, row, cache, committed>>

(***************************************************************************)
(* Around the handlers: entries expire, and a handler may die at any await *)
(* - before its commit, or before its call to Redis.                       *)
(***************************************************************************)
Expire(p) ==
  /\ cache[p] # None /\ cache[p].ttl
  /\ cache' = [cache EXCEPT ![p] = None]
  /\ UNCHANGED <<pc, view, expected, answer, listed, row, committed>>

Dies(r) ==
  /\ "crash" \in Faults
  /\ pc[r] \notin {"done", "dead"}
  /\ Goto(r, "dead")
  /\ UNCHANGED <<view, expected, answer, listed, row, cache, committed>>

Handle(r) == \/ ReadCache(r) \/ Select(r) \/ Fill(r)
             \/ Arrive(r) \/ Deduct(r) \/ Diagnose(r) \/ Restore(r)
             \/ Invalidate(r)
             \/ LoadRow(r) \/ CommitEdit(r) \/ Insert(r)

Next == \/ \E r \in Requests : Handle(r) \/ Dies(r)
        \/ \E p \in Products : Expire(p)

\* The event loop runs every handler, and Redis expires what has a TTL.
Spec == /\ Init /\ [][Next]_vars
        /\ \A r \in Requests : WF_vars(Handle(r))
        /\ \A p \in Products : WF_vars(Expire(p))

-----------------------------------------------------------------------------
(* Properties                                                              *)

\* The cache holds rows of products on sale only.
TypeOK ==
  /\ pc \in [Requests -> {"cache", "select", "fill", "arrive", "update",
                          "diagnose", "invalidate", "load", "commit", "insert",
                          "done", "dead"}]
  /\ view \in [Requests -> Row \cup {None}]
  /\ expected \in [Deducts -> Nat]
  /\ answer \in [Requests -> {"none", "ok", "NOT_FOUND", "VERSION_CONFLICT",
                              "INSUFFICIENT_STOCK"}]
  /\ listed \subseteq Products
  /\ row \in [Products -> Row]
  /\ \A p \in Products : cache[p] # None => /\ cache[p].row \in Row
                                            /\ cache[p].row.is_active
  /\ committed \subseteq Deducts \cup Restores

Moved(S, p) ==
  SumFunctionOnSet(Quantity, {r \in S \cap committed : ProductOf[r] = p})

\* The stock is what the committed deductions and restorations make of it:
\* none is lost to another, nor to an edit that started before it.
StockIsAccounted ==
  \A p \in Products : p \notin Recounted =>
    row[p].stock = InitStock[p] - Moved(Deducts, p) + Moved(Restores, p)

\* A version is good for one deduction: of all who have read it, one gets
\* through, and no restoration lets another one in.
VersionSpentOnce ==
  \A r, s \in Deducts \cap committed :
    ProductOf[r] = ProductOf[s] /\ expected[r] = expected[s] => r = s

\* The table keeps the promises of StockAccounts.
Accounts == A!Spec

\* When the requests are through, no stale row stays in the cache.
EventuallyFresh ==
  <>[](\A p \in Products : cache[p] = None \/ cache[p].row = row[p])

-----------------------------------------------------------------------------
(* A statement of the repository that the code does not keep.              *)

\* references/product-service.md: after an edit the next GET shows the state
\* of the database.
NextReadIsFresh ==
  (\A r \in Requests : pc[r] \in {"done", "cache"})
    => \A p \in Products : cache[p] = None \/ cache[p].row = row[p]
=============================================================================
