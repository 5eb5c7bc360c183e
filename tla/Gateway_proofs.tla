--------------------------- MODULE Gateway_proofs ---------------------------
(***************************************************************************)
(* Theorems about Gateway, for any requests, tokens, clients and limit.    *)
(*                                                                         *)
(* The argument: a request past the middleware carries the identity of a   *)
(* token that a key of user-service has verified, or none and then needs   *)
(* none; and only the holder of the refresh lock is between asking for the *)
(* key and storing it, so replies are stored in the order they were made.  *)
(***************************************************************************)
EXTENDS Gateway, TLAPS

Places == {"new", "wait", "fetch", "got", "route", "forward", "sent", "done"}
Codes  == {"", "no_token", "invalid", "expired", "jwks_error", "health", "404", "429",
           "503", "504", "upstream"}

Typed ==
  /\ pc \in [Requests -> Places] /\ answer \in [Requests -> Codes]
  /\ DOMAIN identity = Requests /\ DOMAIN received = Requests
  /\ keys \in IssuerKeys \cup {None} /\ got \in [Requests -> IssuerKeys \cup {None}]
  /\ fresh \in BOOLEAN /\ (fresh => keys # None)
  /\ issuer \in IssuerKeys
  /\ queue \in Seq(Requests)
  /\ hits \in [Clients -> 0 .. Limit]
  /\ inFlight \subseteq Requests

\* A request with identity i may be handled by a service.
Passes(r, i) ==
  \/ i = None /\ IsPublic(r)
  \/ /\ Token[r] # None /\ Token[r].key \in IssuerKeys /\ ~Token[r].expired
     /\ i = Token[r].user

Waits(r) ==
  /\ pc[r] \in {"wait", "fetch", "got"} => HasToken(r)
  /\ pc[r] \in {"fetch", "got"} =>
       HoldsLock(r) /\ (fresh => Token[r].kid = "other")
  /\ IF pc[r] = "got" THEN got[r] \in IssuerKeys ELSE got[r] = None

Goes(r) ==
  /\ pc[r] \in {"route", "forward", "sent"} => Passes(r, identity[r])
  /\ r \in inFlight => pc[r] \in {"sent", "done"} /\ Passes(r, identity[r])
  /\ received[r] # "unserved" => Passes(r, received[r])

\* The cache never has a key that is newer than a reply under way.
KeysInOrder ==
  /\ keys = "new" => issuer = "new"
  /\ \A r \in Requests : /\ got[r] = "new" => issuer = "new"
                         /\ keys = "new" => got[r] # "old"

Inv == /\ Typed /\ KeysInOrder
       /\ \A r \in Requests : Waits(r) /\ Goes(r)

-----------------------------------------------------------------------------
LEMMA Named ==
  /\ \A s \in {"new", "wait", "fetch", "got", "route", "forward", "sent", "done"} :
       s \in Places
  /\ \A c \in {"", "no_token", "invalid", "expired", "jwks_error", "health", "404", "429",
               "503", "504", "upstream"} : c \in Codes
BY DEF Places, Codes

\* One request moves, the others stay where they are.
Moves(r) ==
  /\ pc' \in [Requests -> Places] /\ answer' \in [Requests -> Codes]
  /\ DOMAIN identity' = Requests
  /\ \A q \in Requests : q # r => pc'[q] = pc[q] /\ identity'[q] = identity[q]

GoesTo(r, step) == Moves(r) /\ pc'[r] = step /\ answer' = answer
Refused(r, code) == Moves(r) /\ pc'[r] = "done" /\ answer'[r] = code

LEMMA GotoFacts ==
  ASSUME Typed, NEW r \in Requests, NEW step \in Places, Goto(r, step), UNCHANGED answer,
         DOMAIN identity' = Requests,
         \A q \in Requests : q # r => identity'[q] = identity[q]
  PROVE  GoesTo(r, step)
BY DEF Typed, Goto, GoesTo, Moves

LEMMA RespondFacts ==
  ASSUME Typed, NEW r \in Requests, NEW code \in Codes, Respond(r, code),
         DOMAIN identity' = Requests,
         \A q \in Requests : q # r => identity'[q] = identity[q]
  PROVE  Refused(r, code)
BY Named DEF Typed, Respond, Goto, Refused, Moves

LEMMA StripFacts ==
  ASSUME Typed, NEW r \in Requests, Strip(r)
  PROVE  /\ DOMAIN identity' = Requests /\ identity'[r] = None
         /\ \A q \in Requests : q # r => identity'[q] = identity[q]
BY DEF Typed, Strip

LEMMA RefuseFacts ==
  ASSUME Typed, NEW r \in Requests, NEW code \in Codes, Refuse(r, code)
  PROVE  Refused(r, code)
BY StripFacts, RespondFacts DEF Refuse

\* A token that decodes names the user for whom it was signed.
LEMMA DecodeFacts ==
  ASSUME Typed, NEW r \in Requests, NEW k \in IssuerKeys, Token[r] # None, Decode(r, k)
  PROVE  \/ Refused(r, "invalid") \/ Refused(r, "expired")
         \/ GoesTo(r, "route") /\ Passes(r, identity'[r])
<1>1. CASE Token[r].key # k /\ Refuse(r, "invalid")
  BY <1>1, Named, RefuseFacts
<1>2. CASE Token[r].key = k /\ Token[r].expired /\ Refuse(r, "expired")
  BY <1>2, Named, RefuseFacts
<1>3. CASE /\ Token[r].key = k /\ ~Token[r].expired
           /\ identity' = [identity EXCEPT ![r] = Token[r].user]
           /\ Goto(r, "route") /\ UNCHANGED answer
  <2>1. /\ DOMAIN identity' = Requests /\ identity'[r] = Token[r].user
        /\ \A q \in Requests : q # r => identity'[q] = identity[q]
    BY <1>3 DEF Typed
  <2> QED
    BY <1>3, <2>1, Named, GotoFacts DEF Passes
<1> QED
  BY <1>1, <1>2, <1>3 DEF Decode

LEMMA DecodeOrFailFacts ==
  ASSUME Typed, NEW r \in Requests, NEW k \in IssuerKeys \cup {None}, HasToken(r),
         DecodeOrFail(r, k)
  PROVE  \/ Refused(r, "invalid") \/ Refused(r, "expired")
         \/ GoesTo(r, "route") /\ Passes(r, identity'[r])
         \/ Refused(r, "jwks_error") /\ (k # None => Token[r].kid = "other")
<1>1. Token[r] # None /\ Token[r].kid \in {"none", "served", "other"}
  BY RequestsAssumption DEF HasToken, TokenType
<1>2. CASE Finds(r, k) /\ Decode(r, k)
  BY <1>1, <1>2, DecodeFacts DEF Finds
<1>3. CASE ~Finds(r, k) /\ Refuse(r, "jwks_error")
  BY <1>1, <1>3, Named, RefuseFacts DEF Finds
<1> QED
  BY <1>2, <1>3 DEF DecodeOrFail

-----------------------------------------------------------------------------
(***************************************************************************)
(* Steps that leave the cache alone                                        *)
(***************************************************************************)
LEMMA OutsideCache ==
  ASSUME Inv, NEW r \in Requests, Moves(r), UNCHANGED <<cache, issuer, upstream>>,
         hits' \in [Clients -> 0 .. Limit],
         pc[r] \notin {"fetch", "got", "done"},
         pc'[r] \notin {"wait", "fetch", "got"},
         pc'[r] \in {"route", "forward", "sent"} => Passes(r, identity'[r]),
         r \in inFlight => identity'[r] = identity[r] /\ pc'[r] \in {"sent", "done"}
  PROVE  Inv'
<1>1. Typed'
  BY DEF Inv, Typed, Moves, cache, upstream
<1>2. KeysInOrder'
  BY DEF Inv, KeysInOrder, cache
<1>3. \A q \in Requests : q # r => Waits(q)' /\ Goes(q)'
  BY DEF Inv, Waits, Goes, Moves, HoldsLock, cache, upstream
<1>4. Waits(r)'
  BY DEF Inv, Waits, cache
<1>5. Goes(r)'
  BY DEF Inv, Goes, upstream
<1> QED
  BY <1>1, <1>2, <1>3, <1>4, <1>5 DEF Inv

LEMMA ArrivalKeeps ==
  ASSUME Inv, NEW r \in Requests, Anonymous(r) \/ RefusedAtOnce(r) \/ CacheHit(r)
  PROVE  Inv'
<1>1. /\ pc[r] = "new" /\ UNCHANGED <<cache, issuer, upstream>>
      /\ hits' \in [Clients -> 0 .. Limit] /\ r \notin inFlight
  BY DEF Anonymous, RefusedAtOnce, CacheHit, Arrives, Inv, Typed, Goes
<1>2. CASE Anonymous(r)
  <2>1. GoesTo(r, "route") /\ identity'[r] = None /\ IsPublic(r)
    BY <1>2, Named, StripFacts, GotoFacts DEF Anonymous, NeedsNoToken, Inv
  <2> QED
    BY <1>1, <2>1, OutsideCache DEF GoesTo, Passes
<1>3. CASE RefusedAtOnce(r)
  <2>1. Refused(r, "no_token") \/ Refused(r, "invalid")
    BY <1>3, Named, RefuseFacts DEF RefusedAtOnce, Inv
  <2> QED
    BY <1>1, <2>1, OutsideCache DEF Refused
<1>4. CASE CacheHit(r)
  <2>1. Token[r] # None /\ keys \in IssuerKeys /\ Decode(r, keys)
    BY <1>4 DEF CacheHit, HasToken, Finds, Inv, Typed
  <2>2. \/ Refused(r, "invalid") \/ Refused(r, "expired")
        \/ GoesTo(r, "route") /\ Passes(r, identity'[r])
    BY <2>1, DecodeFacts DEF Inv
  <2> QED
    BY <1>1, <2>2, OutsideCache DEF Refused, GoesTo
<1> QED
  BY <1>2, <1>3, <1>4

LEMMA RouteKeeps ==
  ASSUME Inv, NEW r \in Requests, HealthCheck(r) \/ GatewayProxy(r) \/ Return(r) \/ GiveUp(r)
  PROVE  Inv'
<1>1. /\ pc[r] \in {"route", "forward", "sent"} /\ identity' = identity
      /\ UNCHANGED <<cache, issuer, upstream>>
  BY DEF HealthCheck, GatewayProxy, Return, GiveUp
<1>2. Passes(r, identity[r])
  BY <1>1 DEF Inv, Goes
<1>3. /\ Moves(r) /\ pc'[r] \in {"done", "forward"}
      /\ pc[r] # "route" => pc'[r] = "done"
  <2>1. \/ Goto(r, "forward") /\ UNCHANGED answer /\ pc[r] = "route"
        \/ \E code \in {"health", "429", "404", "503", "504", "upstream"} :
             Respond(r, code)
    BY DEF HealthCheck, GatewayProxy, Return, GiveUp
  <2>2. \/ GoesTo(r, "forward") /\ pc[r] = "route"
        \/ \E code \in Codes : Refused(r, code)
    BY <1>1, <2>1, Named, GotoFacts, RespondFacts DEF Inv, Typed
  <2> QED
    BY <1>1, <2>2 DEF GoesTo, Refused
<1>4. hits' \in [Clients -> 0 .. Limit]
  <2>1. CASE hits' = hits
    BY <2>1 DEF Inv, Typed
  <2>2. CASE hits[Client[r]] < Limit /\ hits' = [hits EXCEPT ![Client[r]] = @ + 1]
    <3>1. Client[r] \in Clients /\ Limit \in Nat
      BY RequestsAssumption DEF Clients
    <3> QED
      BY <2>2, <3>1 DEF Inv, Typed
  <2> QED
    BY <2>1, <2>2 DEF HealthCheck, GatewayProxy, Return, GiveUp
<1>5. r \in inFlight => pc[r] = "sent"
  BY <1>1 DEF Inv, Goes
<1> QED
  BY <1>1, <1>2, <1>3, <1>4, <1>5, OutsideCache

LEMMA UpstreamKeeps ==
  ASSUME Inv, NEW r \in Requests, Forward(r) \/ ServiceHandles(r)
  PROVE  Inv'
<1>1. CASE Forward(r)
  <2>1. GoesTo(r, "sent") /\ pc[r] = "forward"
    BY <1>1, Named, GotoFacts DEF Forward, Inv, Typed
  <2>2. /\ UNCHANGED <<identity, cache, issuer, hits, received>>
        /\ inFlight' = inFlight \cup {r}
    BY <1>1 DEF Forward
  <2>3. Typed'
    BY <2>1, <2>2 DEF GoesTo, Moves, Inv, Typed, cache
  <2>4. KeysInOrder' /\ \A q \in Requests : Waits(q)'
    BY <2>1, <2>2 DEF GoesTo, Moves, Inv, KeysInOrder, Waits, HoldsLock, cache
  <2>5. \A q \in Requests : Goes(q)'
    BY <2>1, <2>2 DEF GoesTo, Moves, Inv, Goes
  <2> QED
    BY <2>3, <2>4, <2>5 DEF Inv
<1>2. CASE ServiceHandles(r)
  <2>1. /\ UNCHANGED <<pc, answer, identity, cache, issuer, hits>> /\ r \in inFlight
        /\ inFlight' = inFlight \ {r} /\ received' = [received EXCEPT ![r] = identity[r]]
    BY <1>2 DEF ServiceHandles
  <2>2. Typed' /\ KeysInOrder' /\ \A q \in Requests : Waits(q)'
    BY <2>1 DEF Inv, Typed, KeysInOrder, Waits, HoldsLock, cache
  <2>3. \A q \in Requests : Goes(q)'
    BY <2>1 DEF Inv, Typed, Goes
  <2> QED
    BY <2>2, <2>3 DEF Inv
<1> QED
  BY <1>1, <1>2

-----------------------------------------------------------------------------
(***************************************************************************)
(* Steps on the cache: only the head of the queue is past the lock         *)
(***************************************************************************)
LEMMA OnlyHolder ==
  ASSUME Inv, NEW r \in Requests, NEW q \in Requests, HoldsLock(r),
         pc[q] \in {"fetch", "got"}
  PROVE  q = r
BY DEF Inv, Waits, HoldsLock

LEMMA CacheMissKeeps ==
  ASSUME Inv, NEW r \in Requests, CacheMiss(r)
  PROVE  Inv'
<1>1. /\ pc[r] = "new" /\ HasToken(r) /\ queue' = Append(queue, r)
      /\ UNCHANGED <<answer, keys, fresh, got, issuer, hits, upstream>>
  BY DEF CacheMiss, Arrives
<1>2. GoesTo(r, "wait") /\ identity'[r] = None
  BY Named, StripFacts, GotoFacts DEF CacheMiss, Inv
<1>3. /\ queue' \in Seq(Requests)
      /\ queue # <<>> => queue' # <<>> /\ Head(queue') = Head(queue)
  BY <1>1 DEF Inv, Typed
<1>4. Typed'
  BY <1>1, <1>2, <1>3 DEF GoesTo, Moves, Inv, Typed, upstream
<1>5. KeysInOrder'
  BY <1>1 DEF Inv, KeysInOrder
<1>6. \A q \in Requests : Waits(q)'
  BY <1>1, <1>2, <1>3 DEF GoesTo, Moves, Inv, Waits, HoldsLock
<1>7. \A q \in Requests : Goes(q)'
  BY <1>1, <1>2 DEF GoesTo, Moves, Inv, Goes, upstream
<1> QED
  BY <1>4, <1>5, <1>6, <1>7 DEF Inv

\* The holder goes on with an answer or a verified identity, and lets the
\* next one take the lock.
LEMMA ReleaseKeeps ==
  ASSUME Inv, NEW r \in Requests, HoldsLock(r), queue' = Tail(queue), Moves(r),
         pc[r] \in {"wait", "fetch", "got"},
         \/ pc'[r] = "done" \/ (pc'[r] = "route" /\ Passes(r, identity'[r])),
         got' = [got EXCEPT ![r] = None],
         keys' \in IssuerKeys \cup {None}, fresh' \in BOOLEAN,
         fresh' => keys' # None, keys' = "new" => issuer = "new",
         keys' = "new" /\ keys # "new" => pc[r] = "got",
         UNCHANGED <<issuer, hits, upstream>>
  PROVE  Inv'
<1>1. queue' \in Seq(Requests)
  BY DEF Inv, Typed, HoldsLock
<1>2. got' \in [Requests -> IssuerKeys \cup {None}] /\ got'[r] = None
      /\ \A q \in Requests : q # r => got'[q] = got[q]
  BY DEF Inv, Typed
<1>3. Typed'
  BY <1>1, <1>2 DEF Moves, Inv, Typed, upstream
<1>4. \A q \in Requests : q # r => pc[q] \notin {"fetch", "got"} /\ got[q] = None
  BY OnlyHolder DEF Inv, Waits
<1>5. KeysInOrder'
  BY <1>2, <1>4, RequestsAssumption DEF Inv, KeysInOrder, IssuerKeys
<1>6. \A q \in Requests : Waits(q)'
  BY <1>2, <1>4 DEF Moves, Inv, Waits
<1>7. r \notin inFlight
  BY DEF Inv, Goes
<1>8. \A q \in Requests : Goes(q)'
  BY <1>7 DEF Moves, Inv, Goes, upstream
<1> QED
  BY <1>3, <1>5, <1>6, <1>8 DEF Inv

LEMMA TakeLockKeeps ==
  ASSUME Inv, NEW r \in Requests, TakeLock(r)
  PROVE  Inv'
<1>1. /\ pc[r] = "wait" /\ HoldsLock(r) /\ HasToken(r) /\ got[r] = None /\ answer \in [Requests -> Codes]
      /\ UNCHANGED <<keys, fresh, got, issuer, hits, upstream>>
  BY DEF TakeLock, Inv, Waits, Typed
<1>2. CASE fresh /\ Finds(r, keys) /\ Decode(r, keys) /\ queue' = Tail(queue)
  <2>1. Token[r] # None /\ keys \in IssuerKeys
    BY <1>1, <1>2 DEF HasToken, Finds, Inv, Typed
  <2>2. \/ Refused(r, "invalid") \/ Refused(r, "expired")
        \/ GoesTo(r, "route") /\ Passes(r, identity'[r])
    BY <1>2, <2>1, DecodeFacts DEF Inv
  <2>3. /\ Moves(r)
        /\ \/ pc'[r] = "done" \/ (pc'[r] = "route" /\ Passes(r, identity'[r]))
    BY <2>2 DEF Refused, GoesTo
  <2>4. got' = [got EXCEPT ![r] = None]
    BY <1>1 DEF Inv, Typed
  <2>5. Inv'
    BY <1>1, <1>2, <2>3, <2>4, ReleaseKeeps DEF Inv, Typed, KeysInOrder
  <2> QED
    BY <2>5
<1>3. CASE ~(fresh /\ Finds(r, keys)) /\ Goto(r, "fetch") /\ UNCHANGED <<answer, identity, queue>>
  <2>1. GoesTo(r, "fetch")
    BY <1>3, Named, GotoFacts DEF Inv, Typed
  <2>2. Typed' /\ KeysInOrder'
    BY <1>1, <1>3, <2>1 DEF Inv, Typed, KeysInOrder, GoesTo, Moves, upstream
  <2>3. fresh => Token[r].kid = "other"
    BY <1>1, <1>3, RequestsAssumption DEF Inv, Typed, HasToken, Finds, TokenType
  <2>4. \A q \in Requests : Waits(q)'
    BY <1>1, <1>3, <2>1, <2>3 DEF Inv, Waits, HoldsLock, GoesTo, Moves
  <2>5. \A q \in Requests : Goes(q)'
    BY <1>1, <1>3, <2>1 DEF Inv, Goes, GoesTo, Moves, upstream
  <2> QED
    BY <2>2, <2>4, <2>5 DEF Inv
<1> QED
  BY <1>1, <1>2, <1>3 DEF TakeLock

LEMMA JwksServedKeeps ==
  ASSUME Inv, NEW r \in Requests, JwksServed(r)
  PROVE  Inv'
<1>1. /\ pc[r] = "fetch" /\ got' = [got EXCEPT ![r] = issuer]
      /\ UNCHANGED <<answer, identity, keys, fresh, queue, issuer, hits, upstream>>
  BY DEF JwksServed
<1>2. GoesTo(r, "got")
  BY <1>1, Named, GotoFacts DEF JwksServed, Inv, Typed
<1>3. issuer \in IssuerKeys /\ (keys = "new" => issuer = "new")
  BY DEF Inv, Typed, KeysInOrder
<1>4. Typed' /\ KeysInOrder'
  BY <1>1, <1>2, <1>3 DEF Inv, Typed, KeysInOrder, GoesTo, Moves, upstream
<1>5. \A q \in Requests : Waits(q)'
  BY <1>1, <1>2, <1>3 DEF Inv, Typed, Waits, HoldsLock, GoesTo, Moves
<1>6. \A q \in Requests : Goes(q)'
  BY <1>1, <1>2 DEF Inv, Goes, GoesTo, Moves, upstream
<1> QED
  BY <1>4, <1>5, <1>6 DEF Inv

LEMMA FetchFacts ==
  ASSUME Inv, NEW r \in Requests, FetchSucceeds(r) \/ FetchFails(r)
  PROVE  /\ HoldsLock(r) /\ HasToken(r) /\ pc[r] \in {"fetch", "got"}
         /\ fresh => Token[r].kid = "other"
         /\ \/ Refused(r, "invalid") \/ Refused(r, "expired")
            \/ GoesTo(r, "route") /\ Passes(r, identity'[r])
            \/ Refused(r, "jwks_error") /\ (keys # None => Token[r].kid = "other")
<1>1. /\ HoldsLock(r) /\ HasToken(r) /\ pc[r] \in {"fetch", "got"}
      /\ fresh => Token[r].kid = "other"
  BY DEF FetchSucceeds, FetchFails, Inv, Waits
<1>2. CASE FetchSucceeds(r)
  <2>1. got[r] \in IssuerKeys /\ got[r] # None /\ DecodeOrFail(r, got[r])
    BY <1>2, RequestsAssumption DEF FetchSucceeds, Inv, Waits
  <2> QED
    BY <1>1, <2>1, DecodeOrFailFacts DEF Inv
<1>3. CASE FetchFails(r)
  <2>1. keys \in IssuerKeys \cup {None} /\ DecodeOrFail(r, keys)
    BY <1>3 DEF FetchFails, Inv, Typed
  <2> QED
    BY <1>1, <2>1, DecodeOrFailFacts DEF Inv
<1> QED
  BY <1>1, <1>2, <1>3

LEMMA FetchKeeps ==
  ASSUME Inv, NEW r \in Requests, FetchSucceeds(r) \/ FetchFails(r)
  PROVE  Inv'
<1>1. /\ HoldsLock(r) /\ pc[r] \in {"fetch", "got"}
      /\ Moves(r) /\ \/ pc'[r] = "done"
                     \/ pc'[r] = "route" /\ Passes(r, identity'[r])
  BY FetchFacts DEF Refused, GoesTo
<1>2. /\ queue' = Tail(queue) /\ got' = [got EXCEPT ![r] = None]
      /\ UNCHANGED <<issuer, hits, upstream>>
  BY DEF FetchSucceeds, FetchFails
<1>3. CASE FetchSucceeds(r)
  <2>1. /\ pc[r] = "got" /\ got[r] \in IssuerKeys /\ got[r] # None
        /\ got[r] = "new" => issuer = "new"
    BY <1>3, RequestsAssumption DEF FetchSucceeds, Inv, Waits, KeysInOrder
  <2>2. keys' = got[r] /\ fresh' = TRUE
    BY <1>3 DEF FetchSucceeds
  <2> QED
    BY <1>1, <1>2, <2>1, <2>2, ReleaseKeeps
<1>4. CASE FetchFails(r)
  <2>1. UNCHANGED <<keys, fresh>>
    BY <1>4 DEF FetchFails
  <2>2. /\ keys \in IssuerKeys \cup {None} /\ fresh \in BOOLEAN /\ (fresh => keys # None)
        /\ keys = "new" => issuer = "new"
    BY DEF Inv, Typed, KeysInOrder
  <2> QED
    BY <1>1, <1>2, <2>1, <2>2, ReleaseKeeps
<1> QED
  BY <1>3, <1>4

LEMMA EnvironmentKeeps ==
  ASSUME Inv, CacheExpires \/ WindowEnds \/ Rekey \/ UNCHANGED vars
  PROVE  Inv'
<1>1. CASE CacheExpires
  <2>1. Typed' /\ KeysInOrder'
    BY <1>1 DEF CacheExpires, Inv, Typed, KeysInOrder, upstream
  <2>2. \A q \in Requests : Waits(q)' /\ Goes(q)'
    BY <1>1 DEF CacheExpires, Inv, Waits, Goes, HoldsLock, upstream
  <2> QED
    BY <2>1, <2>2 DEF Inv
<1>2. CASE WindowEnds
  <2>1. hits' \in [Clients -> 0 .. Limit]
    BY <1>2, RequestsAssumption DEF WindowEnds
  <2>2. Typed' /\ KeysInOrder'
    BY <1>2, <2>1 DEF WindowEnds, Inv, Typed, KeysInOrder, upstream, cache
  <2>3. \A q \in Requests : Waits(q)' /\ Goes(q)'
    BY <1>2 DEF WindowEnds, Inv, Waits, Goes, HoldsLock, upstream, cache
  <2> QED
    BY <2>2, <2>3 DEF Inv
<1>3. CASE Rekey
  <2>1. Typed' /\ KeysInOrder'
    BY <1>3 DEF Rekey, Inv, Typed, KeysInOrder, upstream, cache, IssuerKeys
  <2>2. \A q \in Requests : Waits(q)' /\ Goes(q)'
    BY <1>3 DEF Rekey, Inv, Waits, Goes, HoldsLock, upstream, cache
  <2> QED
    BY <2>1, <2>2 DEF Inv
<1>4. CASE UNCHANGED vars
  <2>1. Typed' /\ KeysInOrder'
    BY <1>4 DEF vars, Inv, Typed, KeysInOrder
  <2>2. \A q \in Requests : Waits(q)' /\ Goes(q)'
    BY <1>4 DEF vars, Inv, Waits, Goes, HoldsLock
  <2> QED
    BY <2>1, <2>2 DEF Inv
<1> QED
  BY <1>1, <1>2, <1>3, <1>4

-----------------------------------------------------------------------------
(***************************************************************************)
(* The invariant                                                           *)
(***************************************************************************)
LEMMA InitInv ==
  ASSUME Init
  PROVE  Inv
<1>1. Typed
  <2>1. pc \in [Requests -> Places] /\ answer \in [Requests -> Codes]
    BY Named DEF Init
  <2>2. keys \in IssuerKeys \cup {None} /\ fresh \in BOOLEAN /\ (fresh => keys # None)
    BY RequestsAssumption DEF Init, IssuerKeys
  <2>3. hits \in [Clients -> 0 .. Limit]
    <3>1. Limit \in Nat
      BY RequestsAssumption
    <3>2. hits = [c \in Clients |-> 0]
      BY DEF Init
    <3> QED
      BY <3>1, <3>2
  <2>4. DOMAIN identity = Requests /\ DOMAIN received = Requests
    BY RequestsAssumption DEF Init
  <2>5. /\ got \in [Requests -> IssuerKeys \cup {None}] /\ issuer \in IssuerKeys
        /\ queue \in Seq(Requests) /\ inFlight \subseteq Requests
    <3>1. /\ got = [r \in Requests |-> None] /\ issuer = "old"
          /\ queue = <<>> /\ inFlight = {}
      BY DEF Init
    <3> QED
      BY <3>1 DEF IssuerKeys
  <2> QED
    BY <2>1, <2>2, <2>3, <2>4, <2>5 DEF Typed
<1>2. KeysInOrder
  BY RequestsAssumption DEF Init, KeysInOrder, IssuerKeys
<1>3. \A r \in Requests : Waits(r) /\ Goes(r)
  BY RequestsAssumption DEF Init, Waits, Goes
<1> QED
  BY <1>1, <1>2, <1>3 DEF Inv

LEMMA NextInv ==
  ASSUME Inv, [Next]_vars
  PROVE  Inv'
BY ArrivalKeeps, RouteKeeps, UpstreamKeeps, CacheMissKeeps, TakeLockKeeps, JwksServedKeeps,
   FetchKeeps, EnvironmentKeeps DEF Next, Handle

LEMMA InvHolds == Spec => []Inv
<1>1. Init => Inv
  BY InitInv
<1>2. Inv /\ [Next]_vars => Inv'
  BY NextInv
<1> QED
  BY <1>1, <1>2, PTL DEF Spec

\* The gateway keeps its types; no client is counted past its limit.
THEOREM Typing == Spec => []TypeOK
<1>1. Inv => TypeOK
  BY DEF Inv, Typed, TypeOK, Places, Codes
<1> QED
  BY <1>1, InvHolds, PTL

\* A service acts only for the user named by a token that a key of
\* user-service has signed and that had not expired, whatever identity the
\* client has sent; without one it is reached on public paths only.
THEOREM OnlyVerifiedIdentities == Spec => []OnlyVerifiedGetThrough
<1>1. Inv => OnlyVerifiedGetThrough
  <2> SUFFICES ASSUME Inv, NEW r \in Requests
               PROVE  /\ received[r] \notin {"unserved", None} =>
                           /\ Token[r] # None
                           /\ Token[r].key \in IssuerKeys /\ ~Token[r].expired
                           /\ received[r] = Token[r].user
                      /\ received[r] = None => IsPublic(r)
    BY DEF OnlyVerifiedGetThrough
  <2>1. received[r] # "unserved" => Passes(r, received[r])
    BY DEF Inv, Goes
  <2>2. None # "unserved" /\ (Token[r] # None => Token[r].user # None)
    BY RequestsAssumption DEF Users
  <2> QED
    BY <2>1, <2>2 DEF Passes
<1> QED
  BY <1>1, InvHolds, PTL

\* Of the requests that queue while a key is fetched, the first one fetches:
\* the others find the cache fresh, unless they ask for another kid.
THEOREM OneRefresh == Spec => OneRefreshPerExpiry
<1> DEFINE Step == \A r \in Requests :
                     fresh /\ FetchSucceeds(r) => Token[r].kid = "other"
<1>1. Inv => Step
  BY FetchFacts
<1>2. Spec => [][Step]_vars
  BY <1>1, InvHolds, PTL DEF Spec
<1> QED
  BY <1>2 DEF OneRefreshPerExpiry

\* A reply of user-service that was slow never puts an older key back.
THEOREM KeysOnlyAdvance == Spec => NoKeyReturns
<1> DEFINE Step == keys = "new" => keys' = "new"
<1>1. Inv /\ [Next]_vars => [Step]_vars
  <2> SUFFICES ASSUME Inv, Next, keys = "new"
               PROVE  keys' = "new"
    OBVIOUS
  <2>1. ASSUME NEW r \in Requests, FetchSucceeds(r)
        PROVE  keys' = "new"
    <3>1. got[r] \in IssuerKeys /\ got[r] # "old" /\ keys' = got[r]
      BY <2>1 DEF Inv, KeysInOrder, Waits, FetchSucceeds
    <3> QED
      BY <3>1 DEF IssuerKeys
  <2>2. (\E r \in Requests : FetchSucceeds(r)) \/ keys' = keys
    BY DEF Next, Anonymous, RefusedAtOnce, CacheHit, CacheMiss, Handle, TakeLock, JwksServed,
       FetchFails, HealthCheck, GatewayProxy, Forward, Return, GiveUp, ServiceHandles,
       CacheExpires, WindowEnds, Rekey, cache
  <2> QED
    BY <2>1, <2>2
<1>2. Spec => [][Step]_vars
  BY <1>1, InvHolds, PTL DEF Spec
<1> QED
  BY <1>2 DEF NoKeyReturns

\* Every answer "no key" comes from a handler that asked for a kid the cache
\* does not have, or has met an empty cache: old keys outlive an outage.
THEOREM OutageMasked == Spec => OutageIsMasked
<1> DEFINE Step == \A r \in Requests :
                     keys # None /\ answer[r] = "" /\ answer'[r] = "jwks_error"
                     => Token[r].kid = "other"
<1>1. Inv /\ [Next]_vars => [Step]_vars
  <2> SUFFICES ASSUME Inv, Next, NEW r \in Requests, keys # None,
                      answer[r] = "", answer'[r] = "jwks_error"
               PROVE  Token[r].kid = "other"
    OBVIOUS
  <2>1. answer \in [Requests -> Codes]
    BY DEF Inv, Typed
  <2>2. \/ answer' = answer
        \/ \E q \in Requests, code \in Codes \ {"jwks_error"} : Respond(q, code)
        \/ \E q \in Requests : FetchSucceeds(q) \/ FetchFails(q)
    <3>1. ASSUME NEW q \in Requests,
                 \/ Anonymous(q) \/ RefusedAtOnce(q) \/ CacheHit(q) \/ CacheMiss(q)
                 \/ TakeLock(q) \/ JwksServed(q) \/ HealthCheck(q) \/ GatewayProxy(q)
                 \/ Forward(q) \/ Return(q) \/ GiveUp(q) \/ ServiceHandles(q)
          PROVE  \/ answer' = answer
                 \/ \E code \in Codes \ {"jwks_error"} : Respond(q, code)
      BY <3>1, Named DEF Anonymous, RefusedAtOnce, CacheHit, CacheMiss, TakeLock, JwksServed,
         HealthCheck, GatewayProxy, Forward, Return, GiveUp, ServiceHandles, Decode, Refuse
    <3>2. CASE CacheExpires \/ WindowEnds \/ Rekey
      BY <3>2 DEF CacheExpires, WindowEnds, Rekey
    <3> QED
      BY <3>1, <3>2 DEF Next, Handle
  <2>3. PICK q \in Requests : FetchSucceeds(q) \/ FetchFails(q)
    BY <2>1, <2>2 DEF Respond
  <2>4. \/ answer' = answer \/ \E code : Respond(q, code)
    BY <2>3 DEF FetchSucceeds, FetchFails, DecodeOrFail, Decode, Refuse
  <2>5. q = r
    BY <2>1, <2>4 DEF Respond
  <2> QED
    BY <2>3, <2>5, FetchFacts DEF Refused, GoesTo
<1>2. Spec => [][Step]_vars
  BY <1>1, InvHolds, PTL DEF Spec
<1> QED
  BY <1>2 DEF OutageIsMasked
=============================================================================
