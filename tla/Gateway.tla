------------------------------ MODULE Gateway -------------------------------
(***************************************************************************)
(* api-gateway: authentication, rate limit and proxy of each request, and  *)
(* the cache of user-service's public key (JWKS) that they share.          *)
(*                                                                         *)
(* The gateway is one asyncio process: a handler runs without interruption *)
(* from one await to the next.  A request that finds no usable key in the  *)
(* cache queues for the refresh lock, which asyncio grants in order, and   *)
(* fetches the key while it holds the lock.                                *)
(***************************************************************************)
EXTENDS Naturals, Sequences, FiniteSets

CONSTANTS
  Requests,
  Method, Path,   \* of a request; the path by its segments
  Token,          \* its Bearer token, or None
  Claims,         \* identity header the client itself has sent, or None
  Client,         \* address the rate limit counts by
  Limit,          \* rate_limit_per_minute
  Arrivals,       \* bound: how many of the requests arrive
  None            \* no token, no identity, no key

Users   == {Token[r].user : r \in {q \in Requests : Token[q] # None}}
Clients == {Client[r] : r \in Requests}

\* The key pair of user-service, before and after it is changed.
IssuerKeys == {"old", "new"}

TokenType == [kid : {"none", "served", "other", "garbled"},
              key : IssuerKeys \cup {"foreign"},
              expired : BOOLEAN,
              user : STRING]

ASSUME RequestsAssumption ==
  /\ IsFiniteSet(Requests)
  /\ Arrivals \in Nat /\ Limit \in Nat
  /\ None \notin Users \cup IssuerKeys \cup {"unserved"}
  /\ "unserved" \notin Users /\ DOMAIN Claims = Requests
  /\ \A r \in Requests : /\ Token[r] = None \/ Token[r] \in TokenType
                         /\ Claims[r] = None \/ Claims[r] \in STRING
                         /\ Path[r] # <<>>

VARIABLES
  pc,         \* where the handler of a request is
  answer,     \* what it answered, "" before that
  identity,   \* X-User-ID of the request as the gateway passes it on
  keys,       \* JWKSCache._keys: the key under the one kid, or None
  fresh,      \* its time to live has not run out
  queue,      \* _refresh_lock: holder first, then who waits for it
  issuer,     \* the key user-service signs with and serves
  got,        \* JWKS reply that a fetch has read and not yet stored
  hits,       \* requests counted for a client in this window
  inFlight,   \* requests sent to a service that has not handled them
  received    \* identity a service has handled a request with

cache    == <<keys, fresh, queue, got>>
upstream == <<inFlight, received>>
vars     == <<pc, answer, identity, keys, fresh, queue, issuer, got, hits,
              inFlight, received>>

Goto(r, step) == pc' = [pc EXCEPT ![r] = step]

Respond(r, code) == /\ Goto(r, "done")
                    /\ answer' = [answer EXCEPT ![r] = code]

\* AuthMiddleware removes what the client has sent before anything else.
Strip(r)        == identity' = [identity EXCEPT ![r] = None]
Refuse(r, code) == Strip(r) /\ Respond(r, code)

\* is_public_path, by the prefixes of PUBLIC_PATHS.
IsPublic(r) == \/ Path[r][1] \in {"health", "auth"}
               \/ Path[r][1] = "products" /\ Method[r] = "GET"

UsesOptionalAuth(r) == Path[r][1] = "products" /\ Method[r] = "GET"

\* get_target_url finds a service.
IsRouted(r) == Path[r][1] \in {"auth", "products", "orders"}

\* The request goes on without a token: strips have been made already.
NeedsNoToken(r) == IsPublic(r) /\ (UsesOptionalAuth(r) => Token[r] = None)

\* get_public_key finds a key: a token without kid takes the first one.
Finds(r, k) == k # None /\ Token[r].kid \in {"none", "served"}

\* jwt.decode with key k: the signature first, then the expiry.
Decode(r, k) ==
  LET t == Token[r] IN
  \/ t.key # k /\ Refuse(r, "invalid")
  \/ t.key = k /\ t.expired /\ Refuse(r, "expired")
  \/ /\ t.key = k /\ ~t.expired
     /\ identity' = [identity EXCEPT ![r] = t.user]
     /\ Goto(r, "route")
     /\ UNCHANGED answer

\* A request arrives; how many do is bounded.
Arrives(r) == /\ pc[r] = "new"
              /\ Cardinality({q \in Requests : pc[q] # "new"}) < Arrivals

\* verify_jwt when get_public_key may find no key.
DecodeOrFail(r, k) == \/ Finds(r, k) /\ Decode(r, k)
                      \/ ~Finds(r, k) /\ Refuse(r, "jwks_error")

-----------------------------------------------------------------------------
(***************************************************************************)
(* Slips: plausible mistakes in the definitions below.                     *)
(***************************************************************************)
\* HoldsLock without a lock.
NeedsNoLock(r) == queue # <<>>

\* The lock is granted in the order of the queue.
HoldsLock(r) == queue # <<>> /\ Head(queue) = r

\* Anonymous that returns before the identity headers are removed.
AnonymousUnstripped(r) ==
  /\ Arrives(r)
  /\ NeedsNoToken(r)
  /\ Goto(r, "route")
  /\ UNCHANGED <<answer, identity, cache, issuer, hits, upstream>>

\* TakeLock without the second look at the cache.
TakeLockUnchecked(r) ==
  /\ pc[r] = "wait"
  /\ HoldsLock(r)
  /\ Goto(r, "fetch")
  /\ UNCHANGED <<answer, identity, queue>>
  /\ UNCHANGED <<keys, fresh, got, issuer, hits, upstream>>

\* FetchFails that always raises, and one that leaves the lock taken.
FetchFailsLoudly(r) ==
  /\ pc[r] \in {"fetch", "got"}
  /\ got' = [got EXCEPT ![r] = None]
  /\ queue' = Tail(queue)
  /\ Refuse(r, "jwks_error")
  /\ UNCHANGED <<keys, fresh, issuer, hits, upstream>>

FetchFailsLocked(r) ==
  /\ pc[r] \in {"fetch", "got"}
  /\ got' = [got EXCEPT ![r] = None]
  /\ DecodeOrFail(r, keys)
  /\ UNCHANGED <<keys, fresh, queue, issuer, hits, upstream>>

\* GatewayProxy that lets one more through.
GatewayProxyOneMore(r) ==
  LET c == Client[r] IN
  /\ pc[r] = "route"
  /\ ~(Method[r] = "GET" /\ Path[r] = <<"health">>)
  /\ \/ hits[c] > Limit /\ Respond(r, "429") /\ UNCHANGED hits
     \/ /\ hits[c] <= Limit
        /\ hits' = [hits EXCEPT ![c] = @ + 1]
        /\ \/ ~IsRouted(r) /\ Respond(r, "404")
           \/ IsRouted(r) /\ Goto(r, "forward") /\ UNCHANGED answer
  /\ UNCHANGED <<identity, cache, issuer, upstream>>

-----------------------------------------------------------------------------
\* lifespan fetches the key before the first request; a failure is ignored.
Init ==
  /\ pc = [r \in Requests |-> "new"]
  /\ answer = [r \in Requests |-> ""]
  /\ identity = Claims
  /\ issuer = "old"
  /\ \/ keys = issuer /\ fresh = TRUE
     \/ keys = None /\ fresh = FALSE
  /\ queue = <<>>
  /\ got = [r \in Requests |-> None]
  /\ hits = [c \in Clients |-> 0]
  /\ inFlight = {}
  /\ received = [r \in Requests |-> "unserved"]

(***************************************************************************)
(* AuthMiddleware.dispatch up to its first await                           *)
(***************************************************************************)
Anonymous(r) ==
  /\ Arrives(r)
  /\ Strip(r)
  /\ NeedsNoToken(r)
  /\ Goto(r, "route")
  /\ UNCHANGED <<answer, cache, issuer, hits, upstream>>

\* No token, or one whose header cannot be read.
RefusedAtOnce(r) ==
  /\ Arrives(r)
  /\ ~NeedsNoToken(r)
  /\ \/ Token[r] = None /\ Refuse(r, "no_token")
     \/ /\ Token[r] # None /\ Token[r].kid = "garbled"
        /\ Refuse(r, "invalid")
  /\ UNCHANGED <<cache, issuer, hits, upstream>>

HasToken(r) == /\ ~NeedsNoToken(r)
               /\ Token[r] # None
               /\ Token[r].kid # "garbled"

CacheHit(r) ==
  /\ Arrives(r)
  /\ HasToken(r)
  /\ fresh /\ Finds(r, keys)
  /\ Decode(r, keys)
  /\ UNCHANGED <<cache, issuer, hits, upstream>>

CacheMiss(r) ==
  /\ Arrives(r)
  /\ HasToken(r)
  /\ ~(fresh /\ Finds(r, keys))
  /\ Strip(r)
  /\ queue' = Append(queue, r)
  /\ Goto(r, "wait")
  /\ UNCHANGED <<answer, keys, fresh, got, issuer, hits, upstream>>

(***************************************************************************)
(* JWKSCache.get_public_key under the lock, and _refresh                   *)
(***************************************************************************)
\* Another request may have refreshed the cache meanwhile.
TakeLock(r) ==
  /\ pc[r] = "wait"
  /\ HoldsLock(r)
  /\ \/ /\ fresh /\ Finds(r, keys)
        /\ Decode(r, keys)
        /\ queue' = Tail(queue)
     \/ /\ ~(fresh /\ Finds(r, keys))
        /\ Goto(r, "fetch")
        /\ UNCHANGED <<answer, identity, queue>>
  /\ UNCHANGED <<keys, fresh, got, issuer, hits, upstream>>

\* user-service answers GET /auth/jwks with the key it has now.
JwksServed(r) ==
  /\ pc[r] = "fetch"
  /\ got' = [got EXCEPT ![r] = issuer]
  /\ Goto(r, "got")
  /\ UNCHANGED <<answer, identity, keys, fresh, queue, issuer, hits, upstream>>

FetchSucceeds(r) ==
  /\ pc[r] = "got"
  /\ keys' = got[r]
  /\ fresh' = TRUE
  /\ got' = [got EXCEPT ![r] = None]
  /\ queue' = Tail(queue)
  /\ DecodeOrFail(r, got[r])
  /\ UNCHANGED <<issuer, hits, upstream>>

\* Timeout, connection error or error status: the old keys, if any, still do.
FetchFails(r) ==
  /\ pc[r] \in {"fetch", "got"}
  /\ got' = [got EXCEPT ![r] = None]
  /\ queue' = Tail(queue)
  /\ DecodeOrFail(r, keys)
  /\ UNCHANGED <<keys, fresh, issuer, hits, upstream>>

(***************************************************************************)
(* The routes, the limit on the catch-all route, and proxy_request         *)
(***************************************************************************)
HealthCheck(r) ==
  /\ pc[r] = "route"
  /\ Method[r] = "GET" /\ Path[r] = <<"health">>
  /\ Respond(r, "health")
  /\ UNCHANGED <<identity, cache, issuer, hits, upstream>>

GatewayProxy(r) ==
  LET c == Client[r] IN
  /\ pc[r] = "route"
  /\ ~(Method[r] = "GET" /\ Path[r] = <<"health">>)
  /\ \/ hits[c] = Limit /\ Respond(r, "429") /\ UNCHANGED hits
     \/ /\ hits[c] < Limit
        /\ hits' = [hits EXCEPT ![c] = @ + 1]
        /\ \/ ~IsRouted(r) /\ Respond(r, "404")
           \/ IsRouted(r) /\ Goto(r, "forward") /\ UNCHANGED answer
  /\ UNCHANGED <<identity, cache, issuer, upstream>>

Forward(r) ==
  /\ pc[r] = "forward"
  /\ inFlight' = inFlight \cup {r}
  /\ Goto(r, "sent")
  /\ UNCHANGED <<answer, identity, cache, issuer, hits, received>>

\* The service handles the request, also when nobody waits for it any more.
ServiceHandles(r) ==
  /\ r \in inFlight
  /\ inFlight' = inFlight \ {r}
  /\ received' = [received EXCEPT ![r] = identity[r]]
  /\ UNCHANGED <<pc, answer, identity, cache, issuer, hits>>

Return(r) ==
  /\ pc[r] = "sent"
  /\ received[r] # "unserved"
  /\ Respond(r, "upstream")
  /\ UNCHANGED <<identity, cache, issuer, hits, upstream>>

\* TimeoutException and RequestError, the latter also before it is sent.
GiveUp(r) ==
  /\ \/ pc[r] = "sent" /\ Respond(r, "504")
     \/ pc[r] \in {"forward", "sent"} /\ Respond(r, "503")
  /\ UNCHANGED <<identity, cache, issuer, hits, upstream>>

-----------------------------------------------------------------------------
(***************************************************************************)
(* The clock, and a new key pair in the settings of user-service           *)
(***************************************************************************)
CacheExpires ==
  /\ fresh
  /\ fresh' = FALSE
  /\ UNCHANGED <<pc, answer, identity, keys, queue, got, issuer, hits, upstream>>

WindowEnds ==
  /\ hits' = [c \in Clients |-> 0]
  /\ UNCHANGED <<pc, answer, identity, cache, issuer, upstream>>

\* get_jwks_service names every key alike.
Rekey ==
  /\ issuer = "old"
  /\ issuer' = "new"
  /\ UNCHANGED <<pc, answer, identity, cache, hits, upstream>>

Handle(r) ==
  \/ TakeLock(r) \/ JwksServed(r) \/ FetchSucceeds(r) \/ FetchFails(r)
  \/ HealthCheck(r) \/ GatewayProxy(r) \/ Forward(r) \/ Return(r) \/ GiveUp(r)

Next ==
  \/ \E r \in Requests : \/ Anonymous(r) \/ RefusedAtOnce(r)
                         \/ CacheHit(r) \/ CacheMiss(r)
                         \/ Handle(r) \/ ServiceHandles(r)
  \/ CacheExpires \/ WindowEnds \/ Rekey

\* Every wait of a handler has a timeout.
Fairness == \A r \in Requests : WF_vars(Handle(r))

Spec == Init /\ [][Next]_vars /\ Fairness

-----------------------------------------------------------------------------
TypeOK ==
  /\ pc \in [Requests -> {"new", "wait", "fetch", "got", "route", "forward",
                          "sent", "done"}]
  /\ answer \in [Requests -> {"", "no_token", "invalid", "expired", "jwks_error",
                              "health", "404", "429", "503", "504", "upstream"}]
  /\ DOMAIN identity = Requests
  /\ keys \in IssuerKeys \cup {None} /\ got \in [Requests -> IssuerKeys \cup {None}]
  /\ fresh \in BOOLEAN /\ (fresh => keys # None)
  /\ issuer \in IssuerKeys
  /\ queue \in Seq(Requests)
  /\ hits \in [Clients -> 0 .. Limit]
  /\ inFlight \subseteq Requests
  /\ DOMAIN received = Requests

\* A service sees an identity only when the gateway has read it from a token
\* that user-service signed and that had not expired, never one the client
\* has sent; and it sees a request that needs one only with an identity.
OnlyVerifiedGetThrough ==
  \A r \in Requests :
    /\ received[r] \notin {"unserved", None} =>
         /\ Token[r] # None
         /\ Token[r].key \in IssuerKeys /\ ~Token[r].expired
         /\ received[r] = Token[r].user
    /\ received[r] = None => IsPublic(r)

\* The requests that queue while a key is fetched do not fetch it again: a
\* fresh cache is replaced only for a kid that it lacks.
OneRefreshPerExpiry ==
  [][\A r \in Requests :
       fresh /\ FetchSucceeds(r) => Token[r].kid = "other"]_vars

\* A key that was replaced in the cache does not come back: of two replies
\* of user-service the later one is not overwritten by the earlier one.
NoKeyReturns == [][keys = "new" => keys' = "new"]_vars

\* Once the cache has a key, an outage of user-service refuses no token that
\* this key can check.
OutageIsMasked ==
  [][\A r \in Requests :
       keys # None /\ answer[r] = "" /\ answer'[r] = "jwks_error"
       => Token[r].kid = "other"]_vars

\* Nobody waits for the refresh lock for ever: the requests that queue behind
\* a fetch get on, also when it fails.
QueueDrains == []<>(queue = <<>>)

=============================================================================
