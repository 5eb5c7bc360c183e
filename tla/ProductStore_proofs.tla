------------------------- MODULE ProductStore_proofs ------------------------
(***************************************************************************)
(* Theorems about ProductStore, for any products, requests and faults: the *)
(* table keeps the promises of StockAccounts, a version is spent once, and *)
(* the stock is what the committed deductions and restorations make of it. *)
(***************************************************************************)
EXTENDS ProductStore, SumTheorems, TLAPS

LEMMA Facts ==
  /\ \A r \in Requests : ProductOf[r] \in Products
  /\ Gets \subseteq Requests /\ Deducts \subseteq Requests
  /\ Restores \subseteq Requests /\ Edits \subseteq Requests
  /\ Creates \subseteq Requests
  /\ \A r \in Deducts \cup Restores : Quantity[r] \in Nat \ {0}
  /\ None \notin Row
BY ProductStoreAssumption DEF Requests

(* What Write makes of a row.                                              *)
NewRow(R, s, v) == [R EXCEPT !.stock = s, !.version = v]

LEMMA MovedRow ==
  ASSUME NEW R \in Row, NEW s \in Nat, NEW v \in Nat \ {0}
  PROVE  /\ NewRow(R, s, v) \in Row
         /\ NewRow(R, s, v).stock = s
         /\ NewRow(R, s, v).version = v
         /\ NewRow(R, s, v).is_active = R.is_active
BY Zenon DEF Row, NewRow

(* Write changes one row: its stock by the amount, its version by one.     *)
LEMMA WriteRow ==
  ASSUME row \in [Products -> Row], NEW r, NEW amount \in Int,
         ProductOf[r] \in Products, row[ProductOf[r]].stock + amount \in Nat,
         Write(r, amount)
  PROVE  /\ row' \in [Products -> Row]
         /\ row'[ProductOf[r]].stock = row[ProductOf[r]].stock + amount
         /\ row'[ProductOf[r]].version = row[ProductOf[r]].version + 1
         /\ row'[ProductOf[r]].is_active = row[ProductOf[r]].is_active
         /\ \A q \in Products \ {ProductOf[r]} : row'[q] = row[q]
<1> DEFINE p == ProductOf[r]
           s == row[p].stock + amount
           v == row[p].version + 1
           R == NewRow(row[p], s, v)
<1>1. p \in Products /\ row[p] \in Row
  OBVIOUS
<1>2. row' = [row EXCEPT ![p] = R]
  BY <1>1 DEF Write, NewRow
<1>3. s \in Nat /\ v \in Nat \ {0}
  BY <1>1 DEF Row
<1> HIDE DEF s, v
<1>4. /\ R \in Row
      /\ R.stock = s /\ R.version = v /\ R.is_active = row[p].is_active
  BY <1>1, <1>3, MovedRow
<1> HIDE DEF R
<1> QED
  BY <1>1, <1>2, <1>4 DEF s, v

(* CommitEdit changes one row: never its version, its stock if asked to.   *)
LEMMA EditedRow ==
  ASSUME NEW e \in Edits, view[e] \in Row, row \in [Products -> Row]
  PROVE  LET p == ProductOf[e] IN
         /\ Edited(e) \in Row
         /\ Edited(e).version = row[p].version
         /\ \/ Edited(e).stock = row[p].stock
            \/ p \in Recounted /\ Edited(e).stock \in Nat
<1> DEFINE p == ProductOf[e]
           E == Edited(e)
           names == {"stock", "is_active", "price", "version"}
<1>1. p \in Products /\ row[p] \in Row
  BY Facts
<1>2. DOMAIN view[e] = names
  BY DEF Row
<1>3. E = [c \in names |-> IF c \in DOMAIN Payload[e] /\ Payload[e][c] # view[e][c]
                          THEN Payload[e][c] ELSE row[p][c]]
  BY <1>2 DEF Edited
<1>4. /\ DOMAIN Payload[e] \subseteq Columns
      /\ "stock" \in DOMAIN Payload[e] => Payload[e].stock \in Nat
      /\ "price" \in DOMAIN Payload[e] => Payload[e].price \in Nat
      /\ "is_active" \in DOMAIN Payload[e] => Payload[e].is_active \in BOOLEAN
  BY ProductStoreAssumption
<1>5. /\ row[p].stock \in Nat /\ row[p].version \in Nat \ {0}
      /\ row[p].is_active \in BOOLEAN /\ row[p].price \in Nat
  BY <1>1 DEF Row
<1> HIDE DEF E, p
<1>6. /\ E.stock \in Nat /\ E.price \in Nat /\ E.version = row[p].version
      /\ E.is_active \in BOOLEAN
  BY <1>3, <1>4, <1>5 DEF Columns
<1>7. E \in Row
  BY <1>3, <1>5, <1>6 DEF Row
<1>8. E.stock = row[p].stock \/ p \in Recounted
  BY <1>3 DEF Recounted, p
<1> QED
  BY <1>6, <1>7, <1>8 DEF E, p

-----------------------------------------------------------------------------
(***************************************************************************)
(* The invariant.  A deduction goes through with the version the row has   *)
(* at that moment and moves it on, so its version is a past one from then  *)
(* on: Spent.                                                              *)
(***************************************************************************)
CacheSteps  == {"cache", "select", "fill"}
DeductSteps == {"arrive", "update", "diagnose", "invalidate"}
EditSteps   == {"load", "commit", "invalidate"}
CreateSteps == {"insert"}
Ends        == {"done", "dead"}

Answers == {"none", "ok", "NOT_FOUND", "VERSION_CONFLICT", "INSUFFICIENT_STOCK"}

Entry == [row : {R \in Row : R.is_active}, ttl : BOOLEAN]

Places ==
  /\ pc \in [Requests -> CacheSteps \cup DeductSteps \cup EditSteps
                         \cup CreateSteps \cup Ends]
  /\ \A r \in Gets : pc[r] \in CacheSteps \cup Ends
  /\ \A r \in Deducts : pc[r] \in DeductSteps \cup Ends
  /\ \A r \in Restores : pc[r] \in {"update", "invalidate"} \cup Ends
  /\ \A r \in Edits : pc[r] \in EditSteps \cup Ends
  /\ \A r \in Creates : pc[r] \in CreateSteps \cup Ends

Views ==
  /\ view \in [Requests -> Row \cup {None}]
  /\ \A r \in Gets : pc[r] = "fill" => view[r] \in Row /\ view[r].is_active
  /\ \A r \in Edits : pc[r] = "commit" => view[r] \in Row

Tables ==
  /\ listed \subseteq Products
  /\ row \in [Products -> Row]
  /\ cache \in [Products -> Entry \cup {None}]
  /\ expected \in [Deducts -> Nat]
  /\ answer \in [Requests -> Answers]
  /\ committed \subseteq Deducts \cup Restores

Spent ==
  \A r \in Deducts \cap committed :
     /\ pc[r] \notin {"arrive", "update"}
     /\ expected[r] < row[ProductOf[r]].version

Inv == Places /\ Views /\ Tables /\ Spent /\ VersionSpentOnce

LEMMA Apart ==
  /\ \A r \in Gets : r \notin Deducts /\ r \notin Restores /\ r \notin Edits
  /\ \A r \in Deducts : r \notin Restores /\ r \notin Edits
  /\ \A r \in Restores : r \notin Edits
  /\ \A r \in Creates : /\ r \notin Gets /\ r \notin Deducts
                        /\ r \notin Restores /\ r \notin Edits
  /\ \A r \in Requests : \/ r \in Gets \/ r \in Deducts \/ r \in Restores
                         \/ r \in Edits \/ r \in Creates
BY ProductStoreAssumption DEF Requests

LEMMA InitInv == Init => Inv
<1> SUFFICES ASSUME Init PROVE Inv
  OBVIOUS
<1> USE Facts, Apart DEF Init
<1>1. Places
  BY DEF Places, CacheSteps, DeductSteps, EditSteps, CreateSteps, Ends
<1>2. Views
  BY DEF Views
<1>3. Tables
  <2>1. \A p \in Products : InitStock[p] \in Nat
    BY ProductStoreAssumption
  <2>2. \A p \in Products : [stock |-> InitStock[p], is_active |-> TRUE,
                            price |-> 0, version |-> 1] \in Row
    BY <2>1 DEF Row
  <2> QED
    BY <2>2 DEF Tables, Answers
<1>4. Spent /\ VersionSpentOnce
  BY DEF Spent, VersionSpentOnce
<1> QED
  BY <1>1, <1>2, <1>3, <1>4 DEF Inv

(* A step between the writes: nothing is spent.                            *)
LEMMA NothingSpent ==
  ASSUME Inv, UNCHANGED <<expected, row, committed>>,
         \A r \in Deducts : pc'[r] \in {"arrive", "update"} => pc'[r] = pc[r]
  PROVE  Spent' /\ VersionSpentOnce'
BY DEF Inv, Spent, VersionSpentOnce

LEMMA GetInv ==
  ASSUME Inv, NEW r \in Requests, ReadCache(r) \/ Select(r) \/ Fill(r)
  PROVE  Inv'
<1> USE Facts, Apart
<1>1. r \in Gets
  BY DEF Inv, Places, ReadCache, Select, Fill, DeductSteps, EditSteps, CreateSteps, Ends
<1>2. Places' /\ Spent' /\ VersionSpentOnce'
  <2>1. Places'
    BY <1>1 DEF Inv, Places, ReadCache, Select, Fill, Respond, Goto,
       CacheSteps, Ends
  <2> QED
    BY <1>1, <2>1, NothingSpent
       DEF Inv, Places, ReadCache, Select, Fill, Respond, Goto, CacheSteps
<1>3. Views'
  <2>1. row[ProductOf[r]] \in Row
    BY DEF Inv, Tables
  <2> QED
    BY <1>1, <2>1 DEF Inv, Places, Views, ReadCache, Select, Fill, Respond,
       Goto, Forget, OnSale
<1>4. Tables'
  <2>1. Fill(r) => [row |-> view[r], ttl |-> TRUE] \in Entry
    BY <1>1 DEF Inv, Views, Fill, Entry
  <2> QED
    BY <2>1 DEF Inv, Tables, ReadCache, Select, Fill, Respond, Goto, Answers
<1> QED
  BY <1>2, <1>3, <1>4 DEF Inv

LEMMA AnswerInv ==
  ASSUME Inv, NEW r \in Requests, Diagnose(r) \/ Invalidate(r) \/ Dies(r)
  PROVE  Inv'
<1> USE Facts, Apart DEF Inv
<1>1. Places'
  BY DEF Places, Diagnose, Invalidate, Dies, Respond, Goto, CacheSteps,
     DeductSteps, EditSteps, CreateSteps, Ends
<1>2. Spent' /\ VersionSpentOnce'
  BY NothingSpent DEF Places, Diagnose, Invalidate, Dies, Respond, Goto
<1>3. Views'
  BY DEF Places, Views, Diagnose, Invalidate, Dies, Respond, Goto
<1>4. Tables'
  BY DEF Tables, Diagnose, Invalidate, Dies, Respond, Goto, Answers
<1> QED
  BY <1>1, <1>2, <1>3, <1>4

LEMMA ExpireInv == ASSUME Inv, NEW p \in Products, Expire(p) PROVE Inv'
<1>1. Places' /\ Views' /\ Spent' /\ VersionSpentOnce'
  BY DEF Inv, Expire, Places, Views, Spent, VersionSpentOnce
<1>2. Tables'
  BY DEF Inv, Tables, Expire
<1> QED
  BY <1>1, <1>2 DEF Inv

LEMMA ArriveInv == ASSUME Inv, NEW r \in Requests, Arrive(r) PROVE Inv'
<1> USE Facts, Apart DEF Inv
<1>1. r \in Deducts /\ r \notin committed
  BY DEF Places, Spent, Arrive, CacheSteps, EditSteps, CreateSteps, Ends
<1>2. PICK v \in 1 .. row[ProductOf[r]].version :
        expected' = [expected EXCEPT ![r] = v]
  BY DEF Arrive
<1>3. Places' /\ Views'
  BY <1>1 DEF Places, Views, Arrive, Goto, DeductSteps, CreateSteps, Ends
<1>4. Tables'
  <2>1. v \in Nat
    BY DEF Tables, Row
  <2> QED
    BY <1>2, <2>1 DEF Tables, Arrive, Goto
<1>5. Spent' /\ VersionSpentOnce'
  BY <1>1, <1>2 DEF Places, Tables, Spent, VersionSpentOnce, Arrive, Goto
<1> QED
  BY <1>3, <1>4, <1>5

-----------------------------------------------------------------------------
(***************************************************************************)
(* The three actions that write the table, each with the step it is in     *)
(* StockAccounts.                                                          *)
(***************************************************************************)
(* A row changed alone is a step of the accounts.                          *)
LEMMA OrderStep ==
  ASSUME NEW p \in Products, OnSale(p), UNCHANGED listed,
         row'[p].stock \in Nat \ {row[p].stock},
         row'[p].version = row[p].version + 1,
         row'[p].is_active = row[p].is_active,
         \A q \in Products \ {p} : row'[q] = row[q]
  PROVE  A!Order(p)
<1>1. Active[p] /\ Active'[p] = Active[p]
  BY DEF Active, OnSale
<1>2. Stock'[p] \in Nat \ {Stock[p]} /\ Version'[p] = Version[p] + 1
  BY DEF Stock, Version
<1>3. A!Others(p)
  BY DEF A!Others, Stock, Version, Active, OnSale
<1> QED
  BY <1>1, <1>2, <1>3 DEF A!Order

LEMMA EditStep ==
  ASSUME NEW p \in Products, OnSale(p)' \in BOOLEAN,
         \/ row'[p].stock = row[p].stock
         \/ p \in Recounted /\ row'[p].stock \in Nat,
         row'[p].version = row[p].version,
         \A q \in Products \ {p} : row'[q] = row[q] /\ (q \in listed' <=> q \in listed)
  PROVE  A!Edit(p)
<1>1. Active'[p] \in BOOLEAN
  BY DEF Active
<1>2. /\ Stock'[p] = Stock[p] \/ (p \in Recounted /\ Stock'[p] \in Nat)
      /\ Version'[p] = Version[p]
  BY DEF Stock, Version
<1>3. A!Others(p)
  BY DEF A!Others, Stock, Version, Active, OnSale
<1> QED
  BY <1>1, <1>2, <1>3 DEF A!Edit

LEMMA DeductInv ==
  ASSUME Inv, NEW r \in Requests, Deduct(r)
  PROVE  Inv' /\ (A!Order(ProductOf[r]) \/ UNCHANGED <<listed, row>>)
<1> DEFINE p == ProductOf[r]
<1> USE Facts, Apart
<1>1. /\ r \in Deducts /\ r \notin committed /\ p \in Products
      /\ row \in [Products -> Row] /\ row[p] \in Row
      /\ Quantity[r] \in Nat \ {0} /\ expected[r] \in Nat
  BY DEF Inv, Spent, Tables, Deduct
<1>2. Places' /\ Views'
  BY <1>1 DEF Inv, Places, Views, Deduct, Goto, DeductSteps, CreateSteps, Ends
<1>3. CASE Matches(r) /\ Write(r, -Quantity[r]) /\ Goto(r, "invalidate")
  <2>1. /\ OnSale(p) /\ row[p].version = expected[r]
        /\ row[p].stock + (-Quantity[r]) \in Nat \ {row[p].stock}
        /\ -Quantity[r] \in Int
    BY <1>1, <1>3 DEF Matches, Row
  <2>2. /\ row' \in [Products -> Row]
        /\ row'[p].stock = row[p].stock + (-Quantity[r])
        /\ row'[p].version = row[p].version + 1
        /\ row'[p].is_active = row[p].is_active
        /\ \A q \in Products \ {p} : row'[q] = row[q]
    BY <1>1, <1>3, <2>1, WriteRow
  <2>3. /\ committed' = committed \cup {r}
        /\ UNCHANGED <<view, expected, answer, listed, cache>>
        /\ pc' = [pc EXCEPT ![r] = "invalidate"]
    BY <1>3 DEF Write, Deduct, Goto
  <2>4. \A q \in Products : /\ row[q].version \in Nat /\ row'[q].version \in Nat
                            /\ row[q].version <= row'[q].version
    BY <1>1, <2>2 DEF Row
  <2>5. Tables'
    BY <1>1, <2>2, <2>3 DEF Inv, Tables
  <2>6. Spent'
    BY <1>1, <2>1, <2>2, <2>3, <2>4 DEF Inv, Places, Tables, Spent
  <2>7. VersionSpentOnce'
    BY <1>1, <2>1, <2>3 DEF Inv, Spent, VersionSpentOnce
  <2>8. A!Order(p)
    BY <1>1, <2>1, <2>2, <2>3, OrderStep
  <2> QED
    BY <1>2, <2>5, <2>6, <2>7, <2>8 DEF Inv
<1>4. CASE ~Matches(r) /\ Goto(r, "diagnose") /\ UNCHANGED <<row, committed>>
  <2>1. Tables'
    BY <1>4 DEF Inv, Tables, Deduct
  <2>2. Spent' /\ VersionSpentOnce'
    BY <1>4, NothingSpent DEF Inv, Places, Deduct, Goto
  <2> QED
    BY <1>2, <1>4, <2>1, <2>2 DEF Inv, Deduct
<1> QED
  BY <1>3, <1>4 DEF Deduct

LEMMA RestoreInv ==
  ASSUME Inv, NEW r \in Requests, Restore(r)
  PROVE  Inv' /\ (A!Order(ProductOf[r]) \/ UNCHANGED <<listed, row>>)
<1> DEFINE p == ProductOf[r]
<1> USE Facts, Apart
<1>1. /\ r \in Restores /\ r \notin Deducts /\ p \in Products
      /\ row \in [Products -> Row] /\ row[p] \in Row
      /\ Quantity[r] \in Nat \ {0}
  BY DEF Inv, Tables, Restore
<1>2. Places' /\ Views'
  BY <1>1 DEF Inv, Places, Views, Restore, Respond, Goto, DeductSteps, CreateSteps, Ends
<1>3. CASE OnSale(p) /\ Write(r, Quantity[r]) /\ UNCHANGED answer
  <2>1. row[p].stock + Quantity[r] \in Nat \ {row[p].stock} /\ Quantity[r] \in Int
    BY <1>1 DEF Row
  <2>2. /\ row' \in [Products -> Row]
        /\ row'[p].stock = row[p].stock + Quantity[r]
        /\ row'[p].version = row[p].version + 1
        /\ row'[p].is_active = row[p].is_active
        /\ \A q \in Products \ {p} : row'[q] = row[q]
    BY <1>1, <1>3, <2>1, WriteRow
  <2>3. /\ committed' = committed \cup {r}
        /\ UNCHANGED <<view, expected, answer, listed, cache>>
        /\ \A d \in Deducts : pc'[d] = pc[d]
    BY <1>1, <1>3 DEF Write, Restore, Goto, Respond, Inv, Places
  <2>4. \A q \in Products : /\ row[q].version \in Nat /\ row'[q].version \in Nat
                            /\ row[q].version <= row'[q].version
    BY <1>1, <2>2 DEF Row
  <2>5. Tables'
    BY <1>1, <2>2, <2>3 DEF Inv, Tables
  <2>6. Spent'
    BY <1>1, <2>3, <2>4 DEF Inv, Tables, Spent
  <2>7. VersionSpentOnce'
    BY <1>1, <2>3 DEF Inv, VersionSpentOnce
  <2>8. A!Order(p)
    BY <1>1, <1>3, <2>1, <2>2, <2>3, OrderStep
  <2> QED
    BY <1>2, <2>5, <2>6, <2>7, <2>8 DEF Inv
<1>4. CASE Respond(r, "NOT_FOUND") /\ UNCHANGED <<row, committed>>
  <2>1. Tables'
    BY <1>4 DEF Inv, Tables, Restore, Respond, Answers
  <2>2. Spent' /\ VersionSpentOnce'
    BY <1>1, <1>4, NothingSpent DEF Inv, Places, Restore, Respond, Goto
  <2> QED
    BY <1>2, <1>4, <2>1, <2>2 DEF Inv, Restore
<1> QED
  BY <1>3, <1>4 DEF Restore

(* PUT and DELETE: the row is loaded, and later written but for its version. *)
LEMMA LoadInv == ASSUME Inv, NEW e \in Requests, LoadRow(e) PROVE Inv'
<1> USE Facts, Apart DEF Inv
<1>1. e \in Edits /\ row[ProductOf[e]] \in Row
  BY DEF Places, Tables, LoadRow, CacheSteps, DeductSteps, CreateSteps, Ends
<1>2. Places'
  BY <1>1 DEF Places, LoadRow, Respond, Goto, EditSteps, Ends
<1>3. Views'
  BY <1>1 DEF Places, Views, LoadRow, Respond, Goto
<1>4. Tables'
  BY DEF Tables, LoadRow, Respond, Goto, Answers
<1>5. Spent' /\ VersionSpentOnce'
  BY NothingSpent DEF Places, LoadRow, Respond, Goto
<1> QED
  BY <1>2, <1>3, <1>4, <1>5

LEMMA EditInv ==
  ASSUME Inv, NEW e \in Requests, CommitEdit(e)
  PROVE  Inv' /\ A!Edit(ProductOf[e])
<1> DEFINE p == ProductOf[e]
           E == Edited(e)
<1> USE Facts, Apart
<1>1. /\ e \in Edits /\ view[e] \in Row /\ p \in Products
      /\ row \in [Products -> Row]
  BY DEF Inv, Places, Views, Tables, CommitEdit, CacheSteps, DeductSteps, CreateSteps, Ends
<1>2. /\ E \in Row /\ E.version = row[p].version
      /\ E.stock = row[p].stock \/ (p \in Recounted /\ E.stock \in Nat)
  BY <1>1, EditedRow
<1>3. /\ row' = [row EXCEPT ![p] = E]
      /\ view' = [view EXCEPT ![e] = None]
      /\ pc' = [pc EXCEPT ![e] = "invalidate"]
      /\ UNCHANGED <<expected, answer, listed, cache, committed>>
  BY DEF CommitEdit, Forget, Goto
<1> HIDE DEF E
<1>4. /\ row' \in [Products -> Row]
      /\ row'[p] = E
      /\ \A q \in Products \ {p} : row'[q] = row[q]
  BY <1>1, <1>2, <1>3
<1>5. \A q \in Products : row'[q].version = row[q].version
  BY <1>2, <1>4
<1>6. Places'
  BY <1>1, <1>3 DEF Inv, Places, EditSteps
<1>7. Views'
  BY <1>1, <1>3 DEF Inv, Places, Views
<1>8. Tables'
  BY <1>3, <1>4 DEF Inv, Tables
<1>9. Spent' /\ VersionSpentOnce'
  BY <1>1, <1>3, <1>5 DEF Inv, Spent, VersionSpentOnce
<1>10. E.is_active \in BOOLEAN
  BY <1>2 DEF Row
<1>11. A!Edit(p)
  <2>1. OnSale(p)' \in BOOLEAN
    BY DEF OnSale
  <2> QED
    BY <1>1, <1>2, <1>3, <1>4, <2>1, EditStep
<1> QED
  BY <1>6, <1>7, <1>8, <1>9, <1>11 DEF Inv

(* POST: a product comes on sale.                                          *)
LEMMA InsertInv ==
  ASSUME Inv, NEW c \in Requests, Insert(c)
  PROVE  Inv' /\ A!Edit(ProductOf[c])
<1> USE Facts, Apart
<1>1. c \in Creates /\ ProductOf[c] \in Products
  BY DEF Inv, Places, Insert, CacheSteps, DeductSteps, EditSteps, Ends
<1>2. Places' /\ Views'
  BY <1>1 DEF Inv, Places, Views, Insert, Respond, Goto, Ends
<1>3. Tables'
  BY <1>1 DEF Inv, Tables, Insert, Respond, Goto, Answers
<1>4. Spent' /\ VersionSpentOnce'
  BY <1>1, NothingSpent DEF Inv, Places, Insert, Respond, Goto
<1>5. A!Edit(ProductOf[c])
  <2>1. OnSale(ProductOf[c])' \in BOOLEAN
    BY DEF OnSale
  <2>2. /\ listed' = listed \cup {ProductOf[c]}
        /\ UNCHANGED row
    BY DEF Insert
  <2> QED
    BY <1>1, <2>1, <2>2, EditStep
<1> QED
  BY <1>2, <1>3, <1>4, <1>5 DEF Inv

-----------------------------------------------------------------------------
(***************************************************************************)
(* The theorems.                                                           *)
(***************************************************************************)
LEMMA InitAccounts == Init => A!Init
<1> SUFFICES ASSUME Init PROVE A!Init
  OBVIOUS
<1>1. /\ Stock = [p \in Products |-> InitStock[p]]
      /\ Version = [p \in Products |-> 1]
      /\ Active \in [Products -> BOOLEAN]
  BY DEF Init, Stock, Version, Active, OnSale
<1>2. InitStock \in [Products -> Nat]
  BY ProductStoreAssumption
<1> QED
  BY <1>1, <1>2 DEF A!Init

LEMMA SameTable == UNCHANGED <<listed, row>> => UNCHANGED A!vars
BY DEF A!vars, Stock, Version, Active, OnSale

(* Every step keeps the invariant, and is a step of the accounts or none.  *)
LEMMA StepInv ==
  ASSUME Inv, [Next]_vars
  PROVE  Inv' /\ [A!Next]_(A!vars)
<1>1. ASSUME NEW r \in Requests,
             ReadCache(r) \/ Select(r) \/ Fill(r)
      PROVE  Inv' /\ UNCHANGED <<listed, row>>
  BY <1>1, GetInv DEF ReadCache, Select, Fill
<1>2. ASSUME NEW r \in Requests,
             Diagnose(r) \/ Invalidate(r) \/ Dies(r)
      PROVE  Inv' /\ UNCHANGED <<listed, row>>
  BY <1>2, AnswerInv DEF Diagnose, Invalidate, Dies
<1>3. ASSUME NEW r \in Requests, Arrive(r) \/ LoadRow(r)
      PROVE  Inv' /\ UNCHANGED <<listed, row>>
  BY <1>3, ArriveInv, LoadInv DEF Arrive, LoadRow
<1>4. ASSUME NEW p \in Products, Expire(p)
      PROVE  Inv' /\ UNCHANGED <<listed, row>>
  BY <1>4, ExpireInv DEF Expire
<1>5. ASSUME NEW r \in Requests, Deduct(r) \/ Restore(r)
      PROVE  Inv' /\ (A!Order(ProductOf[r]) \/ UNCHANGED <<listed, row>>)
  BY <1>5, DeductInv, RestoreInv
<1>6. ASSUME NEW r \in Requests, CommitEdit(r) \/ Insert(r)
      PROVE  Inv' /\ A!Edit(ProductOf[r])
  BY <1>6, EditInv, InsertInv
<1>7. ASSUME UNCHANGED vars
      PROVE  Inv' /\ UNCHANGED <<listed, row>>
  BY <1>7 DEF vars, Inv, Places, Views, Tables, Spent, VersionSpentOnce
<1>8. \A r \in Requests : ProductOf[r] \in Products
  BY Facts
<1>9. Inv' /\ (UNCHANGED <<listed, row>> \/ \E p \in Products : A!Order(p) \/ A!Edit(p))
  BY <1>1, <1>2, <1>3, <1>4, <1>5, <1>6, <1>7, <1>8 DEF Next, Handle
<1> QED
  BY <1>9, SameTable DEF A!Next

LEMMA Invariance == Spec => []Inv
<1>1. Inv /\ [Next]_vars => Inv'
  BY StepInv
<1> QED
  BY InitInv, <1>1, PTL DEF Spec

-----------------------------------------------------------------------------
(***************************************************************************)
(* The books.  A handler commits its UPDATE once, so each enters them once *)
(* with its quantity; an edit writes the stock it is asked to set, never   *)
(* the one it has loaded.  At any time only finitely many have committed.  *)
(***************************************************************************)
Balanced(p) ==
  row[p].stock = InitStock[p] - Moved(Deducts, p) + Moved(Restores, p)

Books == /\ IsFiniteSet(committed)
         /\ \A r \in committed : pc[r] # "update"
         /\ \A p \in Products : p \notin Recounted => Balanced(p)

LEMMA InitBooks == Init => Books
<1> SUFFICES ASSUME Init PROVE Books
  OBVIOUS
<1>1. \A p \in Products : Moved(Deducts, p) = 0 /\ Moved(Restores, p) = 0
  <2> SUFFICES ASSUME NEW p \in Products, NEW S PROVE Moved(S, p) = 0
    OBVIOUS
  <2>1. {r \in S \cap committed : ProductOf[r] = p} = {}
    BY DEF Init
  <2> QED
    BY <2>1, SumEmpty DEF Moved
<1>2. \A p \in Products : row[p].stock = InitStock[p] /\ InitStock[p] \in Nat
  BY ProductStoreAssumption DEF Init
<1>3. \A p \in Products : Balanced(p)
  BY <1>1, <1>2 DEF Balanced
<1>4. IsFiniteSet(committed) /\ committed = {}
  BY FS_EmptySet DEF Init
<1> QED
  BY <1>3, <1>4 DEF Books

(* What one more committed UPDATE moves, of those of one kind.             *)
LEMMA OneMoreMoved ==
  ASSUME Inv, Books, NEW S, S \subseteq Deducts \cup Restores,
         NEW r \in Deducts \cup Restores, r \notin committed,
         committed' = committed \cup {r}, NEW p \in Products
  PROVE  /\ Moved(S, p) \in Nat
         /\ Moved(S, p)' = Moved(S, p)
              + (IF r \in S /\ ProductOf[r] = p THEN Quantity[r] ELSE 0)
<1> DEFINE M == {x \in S \cap committed : ProductOf[x] = p}
           N == {x \in S \cap committed' : ProductOf[x] = p}
<1>1. /\ \A x \in M : Quantity[x] \in Nat /\ Quantity[x] \in Int
      /\ Quantity[r] \in Int
  BY Facts
<1>2. IsFiniteSet(M)
  BY FS_Subset DEF Books
<1>3. Moved(S, p) = SumFunctionOnSet(Quantity, M)
      /\ Moved(S, p)' = SumFunctionOnSet(Quantity, N)
  BY DEF Moved
<1>4. r \notin M
  OBVIOUS
<1>5. N = IF r \in S /\ ProductOf[r] = p THEN M \cup {r} ELSE M
  OBVIOUS
<1> HIDE DEF M, N
<1>6. SumFunctionOnSet(Quantity, M) \in Nat
  BY <1>1, <1>2, SumType
<1>7. SumFunctionOnSet(Quantity, M \cup {r}) = Quantity[r] + SumFunctionOnSet(Quantity, M)
  BY <1>1, <1>2, <1>4, SumAdd
<1> QED
  BY <1>1, <1>3, <1>5, <1>6, <1>7

LEMMA WriteBooks ==
  ASSUME Inv, Books, NEW r \in Requests,
         \/ r \in Deducts /\ Matches(r) /\ Write(r, -Quantity[r])
         \/ r \in Restores /\ Write(r, Quantity[r]),
         pc[r] = "update", pc' = [pc EXCEPT ![r] = "invalidate"]
  PROVE  Books'
<1> USE Facts, Apart
<1>1. /\ r \notin committed /\ committed' = committed \cup {r}
      /\ r \in Deducts \cup Restores
  BY DEF Books, Write
<1>2. IsFiniteSet(committed') /\ \A x \in committed' : pc'[x] # "update"
  <2>1. IsFiniteSet(committed')
    BY <1>1, FS_AddElement DEF Books
  <2>2. committed \subseteq Requests /\ DOMAIN pc = Requests
    BY DEF Inv, Tables, Places
  <2> QED
    BY <1>1, <2>1, <2>2 DEF Books
<1>3. ASSUME NEW p \in Products, p \notin Recounted PROVE Balanced(p)'
  <2> DEFINE d == IF r \in Deducts THEN -Quantity[r] ELSE Quantity[r]
  <2>1. /\ Moved(Deducts, p) \in Nat /\ Moved(Restores, p) \in Nat
        /\ Moved(Deducts, p)' = Moved(Deducts, p)
             + (IF r \in Deducts /\ ProductOf[r] = p THEN Quantity[r] ELSE 0)
        /\ Moved(Restores, p)' = Moved(Restores, p)
             + (IF r \in Restores /\ ProductOf[r] = p THEN Quantity[r] ELSE 0)
    BY <1>1, OneMoreMoved
  <2>2. row'[p].stock = row[p].stock + (IF ProductOf[r] = p THEN d ELSE 0)
    <3>1. /\ row \in [Products -> Row] /\ Quantity[r] \in Nat \ {0} /\ d \in Int
          /\ ProductOf[r] \in Products /\ row[ProductOf[r]] \in Row
          /\ row[ProductOf[r]].stock \in Nat /\ row[p].stock \in Nat
      BY <1>1 DEF Inv, Tables, Row
    <3>2. row[ProductOf[r]].stock + d \in Nat /\ Write(r, d)
      BY <3>1 DEF Matches
    <3> HIDE DEF d
    <3>3. /\ row'[ProductOf[r]].stock = row[ProductOf[r]].stock + d
          /\ \A q \in Products \ {ProductOf[r]} : row'[q] = row[q]
      BY <3>1, <3>2, WriteRow
    <3> QED
      BY <3>1, <3>3
  <2>3. row[p].stock = InitStock[p] - Moved(Deducts, p) + Moved(Restores, p)
    BY <1>3 DEF Books, Balanced
  <2>4. InitStock[p] \in Nat /\ Quantity[r] \in Nat
    BY <1>1, ProductStoreAssumption
  <2>5. r \in Deducts <=> r \notin Restores
    BY <1>1
  <2>6. row'[p].stock = InitStock[p] - Moved(Deducts, p)' + Moved(Restores, p)'
    BY <2>1, <2>2, <2>3, <2>4, <2>5
  <2> QED
    BY <2>6 DEF Balanced
<1> QED
  BY <1>2, <1>3 DEF Books

(* Any other step commits nothing of a deduction or restoration.           *)
LEMMA OthersBooks ==
  ASSUME Books, UNCHANGED committed,
         \A r \in committed : pc'[r] = "update" => pc[r] = "update",
         \A p \in Products : p \notin Recounted => row'[p].stock = row[p].stock
  PROVE  Books'
<1>1. \A S, p : Moved(S, p)' = Moved(S, p)
  BY DEF Moved
<1> QED
  BY <1>1 DEF Books, Balanced

LEMMA NextBooks == Inv /\ Books /\ [Next]_vars => Books'
<1> SUFFICES ASSUME Inv, Books, [Next]_vars PROVE Books'
  OBVIOUS
<1> USE Facts, Apart
<1>1. committed \subseteq Requests /\ DOMAIN pc = Requests
      /\ row \in [Products -> Row]
  BY DEF Inv, Tables, Places
<1>2. ASSUME NEW r \in Requests,
             \/ ReadCache(r) \/ Select(r) \/ Fill(r) \/ Diagnose(r)
             \/ Invalidate(r) \/ LoadRow(r) \/ Insert(r) \/ Dies(r)
      PROVE  Books'
  <2>1. UNCHANGED <<committed, row>>
    BY <1>2 DEF ReadCache, Select, Fill, Diagnose, Invalidate, LoadRow, Insert, Dies
  <2>2. \A x \in committed : pc'[x] = "update" => pc[x] = "update"
    BY <1>1, <1>2 DEF ReadCache, Select, Fill, Diagnose, Invalidate, LoadRow,
       Insert, Dies, Respond, Goto
  <2> QED
    BY <2>1, <2>2, OthersBooks
<1>3. ASSUME NEW r \in Requests, Arrive(r) PROVE Books'
  <2>1. r \in Deducts /\ r \notin committed
    BY <1>3 DEF Arrive, Inv, Places, Spent, CacheSteps, EditSteps, CreateSteps, Ends
  <2>2. UNCHANGED <<committed, row>>
    BY <1>3 DEF Arrive
  <2>3. \A x \in committed : pc'[x] = "update" => pc[x] = "update"
    BY <1>1, <1>3, <2>1 DEF Arrive, Goto
  <2> QED
    BY <2>2, <2>3, OthersBooks
<1>4. ASSUME NEW r \in Requests, Deduct(r) \/ Restore(r), UNCHANGED committed
      PROVE  Books'
  <2>1. UNCHANGED row
    BY <1>4 DEF Deduct, Restore, Write, Books
  <2>2. \A x \in committed : pc'[x] = "update" => pc[x] = "update"
    BY <1>1, <1>4 DEF Deduct, Restore, Respond, Goto
  <2> QED
    BY <1>4, <2>1, <2>2, OthersBooks
<1>5. ASSUME NEW r \in Requests, Deduct(r) \/ Restore(r), ~UNCHANGED committed
      PROVE  Books'
  BY <1>5, WriteBooks DEF Deduct, Restore, Goto
<1>6. ASSUME NEW e \in Requests, CommitEdit(e) PROVE Books'
  <2>1. e \in Edits /\ view[e] \in Row
    BY <1>6 DEF Inv, Places, Views, CommitEdit, CacheSteps, DeductSteps,
       CreateSteps, Ends
  <2>2. /\ row' = [row EXCEPT ![ProductOf[e]] = Edited(e)]
        /\ UNCHANGED committed /\ pc' = [pc EXCEPT ![e] = "invalidate"]
    BY <1>6 DEF CommitEdit, Goto
  <2>3. Edited(e).stock = row[ProductOf[e]].stock \/ ProductOf[e] \in Recounted
    BY <1>1, <2>1, EditedRow
  <2>4. \A p \in Products : p \notin Recounted => row'[p].stock = row[p].stock
    BY <1>1, <2>2, <2>3
  <2> QED
    BY <1>1, <2>2, <2>4, OthersBooks
<1>7. ASSUME UNCHANGED <<committed, row, pc>> PROVE Books'
  BY <1>7, OthersBooks
<1> QED
  BY <1>2, <1>3, <1>4, <1>5, <1>6, <1>7 DEF Next, Handle, Expire, vars

\* Every row stays a row of the table and the cache holds rows of products on
\* sale only, whatever handlers, expirations and failures interleave.
THEOREM Typing == Spec => []TypeOK
<1>1. ASSUME Inv PROVE TypeOK
  <2> USE <1>1 DEF Inv
  <2>1. pc \in [Requests -> {"cache", "select", "fill", "arrive", "update",
                            "diagnose", "invalidate", "load", "commit",
                            "insert", "done", "dead"}]
    BY DEF Places, CacheSteps, DeductSteps, EditSteps, CreateSteps, Ends
  <2>2. \A p \in Products : cache[p] # None => /\ cache[p].row \in Row
                                               /\ cache[p].row.is_active
    BY DEF Tables, Entry
  <2> QED
    BY <2>1, <2>2 DEF TypeOK, Views, Tables, Answers
<1> QED
  BY <1>1, Invariance, PTL

\* deduct_stock's conditional UPDATE lets one of all holders of a version
\* through: any number of them, with edits and restorations among them.
THEOREM VersionIsSpentOnce == Spec => []VersionSpentOnce
<1>1. Inv => VersionSpentOnce
  BY DEF Inv
<1> QED
  BY <1>1, Invariance, PTL

\* Where no edit sets the stock, it is to the piece what the committed
\* deductions and restorations make of it: an edit that has loaded the row
\* before them takes none of them back.
THEOREM StockIsToThePiece == Spec => []StockIsAccounted
<1>1. Books => StockIsAccounted
  BY DEF Books, Balanced, StockIsAccounted
<1> QED
  BY <1>1, InitInv, StepInv, InitBooks, NextBooks, PTL DEF Spec

\* The products table under the handlers implements StockAccounts: no
\* stock below zero, none of a product off sale, a version per change.
THEOREM StoreImplementsAccounts == Spec => Accounts
<1>1. Inv /\ [Next]_vars => [A!Next]_(A!vars)
  BY StepInv
<1> QED
  BY InitAccounts, <1>1, Invariance, PTL DEF Spec, Accounts, A!Spec
=============================================================================
