--------------------------- MODULE RefreshTokens ----------------------------
(***************************************************************************)
(* user-service: register, login, refresh and logout, with the refresh     *)
(* tokens in Redis.                                                        *)
(*                                                                         *)
(* Redis holds two keys for a session: the forward key of the device, with *)
(* the token, and the reverse key of the token, with the device.  A        *)
(* handler reads keys one at a time and writes them in one pipeline, and   *)
(* other handlers run between its reads and its write.  A token is named   *)
(* after the request that issues it.                                       *)
(***************************************************************************)
EXTENDS Naturals, FiniteSets

CONSTANTS
  Users,        \* one e-mail address each
  FirstAccount, \* the accounts at the start
  Devices,      \* of all users
  UserOf,       \* the user of a device (of a register: of its address)
  Opened,       \* devices with a session at the start, named like its token
  Registers, Logins, Refreshes, Logouts,   \* requests
  Arrivals,     \* bound: how many of the requests arrive
  Failing,      \* requests whose calls to Redis or PostgreSQL may fail
  Expiring,     \* tokens that get old enough to expire
  None          \* no token, no user, no request

Requests == Registers \cup Logins \cup Refreshes \cup Logouts
Tokens   == Opened \cup Logins \cup Refreshes

ASSUME RequestsAssumption ==
  /\ Registers \cap (Logins \cup Refreshes \cup Logouts) = {}
  /\ Logins \cap (Refreshes \cup Logouts) = {}
  /\ Refreshes \cap Logouts = {}
  /\ Requests \cap Devices = {}
  /\ None \notin Requests \cup Devices \cup Users

ASSUME ArrivalsAssumption == Arrivals \in Nat /\ IsFiniteSet(Requests)

ASSUME DevicesAssumption ==
  /\ UserOf \in [Devices \cup Registers -> Users]
  /\ Opened \subseteq Devices
  /\ FirstAccount \in [Users -> {"none", "active", "inactive"}]
  /\ \A d \in Opened : FirstAccount[UserOf[d]] # "none"

VARIABLES
  pc,        \* where each handler is
  answer,    \* HTTP status it answered, 0 before that
  account,   \* users table: the account of an e-mail address
  holder,    \* request whose uncommitted INSERT holds the address
  forward,   \* refresh:user:{id}:{device}
  reverse,   \* refresh:token:{token}
  target,    \* device a handler works for
  shown,     \* refresh token in the request body
  seen,      \* token a handler has read from the forward key
  left,      \* logout: whether the forward key had time left to live
  scan,      \* revoke_all: how far it is with the device keys of the user
  values     \* revoke_all: tokens it has read from them

accounts == <<account, holder>>
keys     == <<forward, reverse>>
local    == <<target, shown, seen, left, scan, values>>
vars     == <<pc, answer, account, holder, forward, reverse,
              target, shown, seen, left, scan, values>>

Live(d)    == [kind |-> "live", device |-> d]
Revoked(d) == [kind |-> "revoked", device |-> d]
NoKey      == [kind |-> "none"]

\* Tokens a client may hold: the first ones and those it was answered with.
Handed == Opened \cup {r \in Logins \cup Refreshes : answer[r] = 200}

DevicesOf(u) == {d \in Devices : UserOf[d] = u}

\* A handler starts.
Arrives(r) == /\ pc[r] = "new"
              /\ Cardinality({q \in Requests : pc[q] # "new"}) < Arrivals

Goto(r, step)    == pc' = [pc EXCEPT ![r] = step]
Respond(r, code) == /\ answer' = [answer EXCEPT ![r] = code]
                    /\ Goto(r, "done")

\* After its write a handler forgets what it has read.  The write is done also
\* when the reply of Redis is lost, and the client gets 500.
Written(r, code) == /\ \/ Respond(r, code)
                       \/ r \in Failing /\ Respond(r, 500)
                    /\ seen' = [seen EXCEPT ![r] = None]
                    /\ UNCHANGED <<accounts, target, shown, left, scan, values>>

-----------------------------------------------------------------------------
(***************************************************************************)
(* Slips: plausible mistakes in the definitions below.                     *)
(***************************************************************************)
\* InsertUser without the unique index.
InsertUserUnchecked(r) ==
  /\ pc[r] = "insert"
  /\ holder' = [holder EXCEPT ![UserOf[r]] = r]
  /\ Goto(r, "commit")
  /\ UNCHANGED <<answer, account, keys, local>>

\* StoreSession that goes on with the token it has read.
StoreKeepsToken(r) ==
  LET d == target[r] IN
  /\ pc[r] = "store"
  /\ forward' = [forward EXCEPT ![d] = IF seen[r] = None THEN r ELSE seen[r]]
  /\ reverse' = [reverse EXCEPT ![forward'[d]] = Live(d)]
  /\ Written(r, 200)

\* Verify that relies on the look-up.
VerifyNothing(r) ==
  /\ pc[r] = "verify"
  /\ Goto(r, "user")
  /\ UNCHANGED <<answer, accounts, keys, local>>

\* ReadKey without the check that the key still has a value.
ReadKeyUnchecked(r, d) ==
  /\ pc[r] = "scan"
  /\ scan[r][d] = "found"
  /\ scan' = [scan EXCEPT ![r][d] = "read"]
  /\ values' = [values EXCEPT ![r] = @ \cup {forward[d]}]
  /\ UNCHANGED <<pc, answer, accounts, keys, target, shown, seen, left>>

\* DeleteAll that leaves the forward keys to their expiry.
DeleteTokensOnly(r) ==
  /\ pc[r] = "scan"
  /\ \A d \in Devices : scan[r][d] \in {"out", "read"}
  /\ reverse' = [t \in Tokens |->
                   IF t \in values[r] THEN NoKey ELSE reverse[t]]
  /\ Respond(r, 401)
  /\ values' = [values EXCEPT ![r] = {}]
  /\ UNCHANGED <<accounts, forward, target, shown, seen, left, scan>>

\* Revoke that writes nothing when no time is left for a tombstone.
RevokeWithTimeOnly(r) ==
  LET d == target[r] IN
  /\ pc[r] = "revoke"
  /\ IF left[r] THEN /\ forward' = [forward EXCEPT ![d] = None]
                     /\ reverse' = [reverse EXCEPT ![seen[r]] = Revoked(d)]
                ELSE UNCHANGED keys
  /\ Written(r, 204)

\* Fails without the rollback of the session.
FailsWithoutRollback(r) ==
  /\ r \in Failing
  /\ pc[r] \notin {"new", "done", "dead"}
  /\ answer' = [answer EXCEPT ![r] = 500]
  /\ Goto(r, "dead")
  /\ UNCHANGED <<accounts, keys, local>>

-----------------------------------------------------------------------------
Init ==
  /\ pc = [r \in Requests |-> "new"]
  /\ answer = [r \in Requests |-> 0]
  /\ account = FirstAccount
  /\ holder = [u \in Users |-> None]
  /\ forward = [d \in Devices |-> IF d \in Opened THEN d ELSE None]
  /\ reverse = [t \in Tokens |-> IF t \in Opened THEN Live(t) ELSE NoKey]
  /\ target = [r \in Requests |-> None]
  /\ shown = [r \in Requests |-> None]
  /\ seen = [r \in Requests |-> None]
  /\ left = [r \in Logouts |-> FALSE]
  /\ scan = [r \in Refreshes |-> [d \in Devices |-> "out"]]
  /\ values = [r \in Refreshes |-> {}]

(***************************************************************************)
(* register_service: the unique index on users.email makes a second INSERT *)
(* wait for the first transaction, and fail if that commits.               *)
(***************************************************************************)
CheckEmail(r) ==
  LET u == UserOf[r] IN
  /\ Arrives(r)
  /\ \/ account[u] = "none" /\ Goto(r, "insert") /\ UNCHANGED answer
     \/ account[u] # "none" /\ Respond(r, 409)
  /\ UNCHANGED <<accounts, keys, local>>

InsertUser(r) ==
  LET u == UserOf[r] IN
  /\ pc[r] = "insert"
  /\ holder[u] = None
  /\ \/ /\ account[u] = "none"
        /\ holder' = [holder EXCEPT ![u] = r]
        /\ Goto(r, "commit")
        /\ UNCHANGED answer
     \/ /\ account[u] # "none"
        /\ Respond(r, 409)
        /\ UNCHANGED holder
  /\ UNCHANGED <<account, keys, local>>

CommitUser(r) ==
  LET u == UserOf[r] IN
  /\ pc[r] = "commit"
  /\ account' = [account EXCEPT ![u] = "active"]
  /\ holder' = [holder EXCEPT ![u] = None]
  /\ Respond(r, 201)
  /\ UNCHANGED <<keys, local>>

(***************************************************************************)
(* login_service and create_refresh_token.  A wrong password is answered   *)
(* like an unknown address.                                                *)
(***************************************************************************)
FindUser(r, d) ==
  /\ Arrives(r)
  /\ \/ Respond(r, 401)
     \/ account[UserOf[d]] = "inactive" /\ Respond(r, 403)
     \/ account[UserOf[d]] = "active" /\ Goto(r, "read") /\ UNCHANGED answer
  /\ target' = [target EXCEPT ![r] = d]
  /\ UNCHANGED <<accounts, keys, shown, seen, left, scan, values>>

\* redis.get(key) of create_refresh_token, rotate_refresh_token and
\* revoke_refresh_token.
ReadForward(r, next) ==
  /\ pc[r] = "read"
  /\ seen' = [seen EXCEPT ![r] = forward[target[r]]]
  /\ Goto(r, next)
  /\ UNCHANGED <<answer, accounts, keys, target, shown, left, scan, values>>

\* The old token is deleted, the new one stored under both keys.
StoreSession(r) ==
  LET d == target[r] IN
  /\ pc[r] = "store"
  /\ forward' = [forward EXCEPT ![d] = r]
  /\ reverse' = [t \in Tokens |-> CASE t = r       -> Live(d)
                                    [] t = seen[r] -> NoKey
                                    [] OTHER       -> reverse[t]]
  /\ Written(r, 200)

(***************************************************************************)
(* refresh_service                                                         *)
(***************************************************************************)
\* A reuse alarm: revoke_all_refresh_tokens will visit the keys of the user.
Alarm(r, u) ==
  /\ scan' = [scan EXCEPT ![r] =
                [d \in Devices |-> IF UserOf[d] = u THEN "todo" ELSE "out"]]
  /\ Goto(r, "scan")

\* get_user_id_from_refresh_token
LookUpToken(r, t) ==
  /\ Arrives(r)
  /\ t \in Handed
  /\ shown' = [shown EXCEPT ![r] = t]
  /\ \/ /\ reverse[t] = NoKey
        /\ Respond(r, 401)
        /\ UNCHANGED <<target, scan>>
     \/ /\ reverse[t].kind = "revoked"
        /\ Alarm(r, UserOf[reverse[t].device])
        /\ UNCHANGED <<answer, target>>
     \/ /\ reverse[t].kind = "live"
        /\ target' = [target EXCEPT ![r] = reverse[t].device]
        /\ Goto(r, "verify")
        /\ UNCHANGED <<answer, scan>>
  /\ UNCHANGED <<accounts, keys, seen, left, values>>

\* verify_refresh_token
Verify(r) ==
  /\ pc[r] = "verify"
  /\ \/ forward[target[r]] = shown[r] /\ Goto(r, "user") /\ UNCHANGED scan
     \/ forward[target[r]] # shown[r] /\ Alarm(r, UserOf[target[r]])
  /\ UNCHANGED <<answer, accounts, keys, target, shown, seen, left, values>>

CheckUser(r) ==
  /\ pc[r] = "user"
  /\ \/ account[UserOf[target[r]]] = "active" /\ Goto(r, "read")
        /\ UNCHANGED answer
     \/ account[UserOf[target[r]]] # "active" /\ Respond(r, 401)
  /\ UNCHANGED <<accounts, keys, local>>

\* The pipeline of rotate_refresh_token: the token it has read becomes a
\* tombstone, and the new one takes its place.
Rotate(r) ==
  LET d == target[r] IN
  /\ pc[r] = "store"
  /\ forward' = [forward EXCEPT ![d] = r]
  /\ reverse' = [t \in Tokens |-> CASE t = r       -> Live(d)
                                    [] t = seen[r] -> Revoked(d)
                                    [] OTHER       -> reverse[t]]
  /\ Written(r, 200)

(***************************************************************************)
(* revoke_all_refresh_tokens: scan_iter finds the keys that exist, and the *)
(* value of each is read on its own.                                       *)
(***************************************************************************)
FindKey(r, d) ==
  /\ pc[r] = "scan"
  /\ scan[r][d] = "todo"
  /\ scan' = [scan EXCEPT ![r][d] =
                IF forward[d] = None THEN "out" ELSE "found"]
  /\ UNCHANGED <<pc, answer, accounts, keys, target, shown, seen, left, values>>

ReadKey(r, d) ==
  /\ pc[r] = "scan"
  /\ scan[r][d] = "found"
  /\ scan' = [scan EXCEPT ![r][d] = "read"]
  /\ values' = [values EXCEPT ![r] = @ \cup ({forward[d]} \ {None})]
  /\ UNCHANGED <<pc, answer, accounts, keys, target, shown, seen, left>>

DeleteAll(r) ==
  /\ pc[r] = "scan"
  /\ \A d \in Devices : scan[r][d] \in {"out", "read"}
  /\ forward' = [d \in Devices |->
                   IF scan[r][d] = "read" THEN None ELSE forward[d]]
  /\ reverse' = [t \in Tokens |->
                   IF t \in values[r] THEN NoKey ELSE reverse[t]]
  /\ Respond(r, 401)
  /\ values' = [values EXCEPT ![r] = {}]
  /\ UNCHANGED <<accounts, target, shown, seen, left, scan>>

(***************************************************************************)
(* logout_service and revoke_refresh_token                                 *)
(***************************************************************************)
\* The access token names its user u, or is not valid.
LookUpLogout(r, t, u) ==
  /\ Arrives(r)
  /\ t \in Handed
  /\ \/ /\ Respond(r, 401)
        /\ UNCHANGED <<target, shown>>
     \/ /\ reverse[t].kind # "live"
        /\ Respond(r, 204)
        /\ shown' = [shown EXCEPT ![r] = t]
        /\ UNCHANGED target
     \/ /\ reverse[t].kind = "live" /\ UserOf[reverse[t].device] # u
        /\ Respond(r, 403)
        /\ UNCHANGED <<target, shown>>
     \/ /\ reverse[t].kind = "live" /\ UserOf[reverse[t].device] = u
        /\ shown' = [shown EXCEPT ![r] = t]
        /\ target' = [target EXCEPT ![r] = reverse[t].device]
        /\ Goto(r, "read")
        /\ UNCHANGED answer
  /\ UNCHANGED <<accounts, keys, seen, left, scan, values>>

\* redis.ttl rounds, so that a key about to expire may have no time left.
ReadTtl(r) ==
  /\ pc[r] = "ttl"
  /\ \/ /\ seen[r] = None
        /\ Respond(r, 204)
        /\ UNCHANGED left
     \/ /\ seen[r] # None
        /\ \E l \in IF forward[target[r]] = None THEN {FALSE} ELSE BOOLEAN :
             left' = [left EXCEPT ![r] = l]
        /\ Goto(r, "revoke")
        /\ UNCHANGED answer
  /\ UNCHANGED <<accounts, keys, target, shown, seen, scan, values>>

Revoke(r) ==
  LET d == target[r] IN
  /\ pc[r] = "revoke"
  /\ forward' = [forward EXCEPT ![d] = None]
  /\ reverse' = [reverse EXCEPT ![seen[r]] =
                   IF left[r] THEN Revoked(d) ELSE NoKey]
  /\ Written(r, 204)

-----------------------------------------------------------------------------
(***************************************************************************)
(* Time and failures                                                       *)
(***************************************************************************)
\* Both keys of a session are set with the same time to live.
Expire(t) ==
  /\ t \in Expiring
  /\ reverse[t] # NoKey
  /\ reverse' = [reverse EXCEPT ![t] = NoKey]
  /\ forward' = [d \in Devices |-> IF forward[d] = t THEN None ELSE forward[d]]
  /\ UNCHANGED <<pc, answer, accounts, local>>

\* No endpoint deactivates an account; is_active is set in the database.
Deactivate(u) ==
  /\ account[u] = "active"
  /\ account' = [account EXCEPT ![u] = "inactive"]
  /\ UNCHANGED <<pc, answer, holder, keys, local>>

\* A call to Redis or PostgreSQL fails: get_db rolls back, which frees the
\* address; nothing undoes what other calls have done.
Fails(r) ==
  /\ r \in Failing
  /\ pc[r] \notin {"new", "done", "dead"}
  /\ answer' = [answer EXCEPT ![r] = 500]
  /\ Goto(r, "dead")
  /\ holder' = [u \in Users |-> IF holder[u] = r THEN None ELSE holder[u]]
  /\ UNCHANGED <<account, keys, local>>

Register(r) == CheckEmail(r) \/ InsertUser(r) \/ CommitUser(r)

Login(r) == (\E d \in Devices : FindUser(r, d)) \/ ReadForward(r, "store")
            \/ StoreSession(r)

Refresh(r) ==
  \/ \E t \in Tokens : LookUpToken(r, t)
  \/ Verify(r) \/ CheckUser(r) \/ ReadForward(r, "store") \/ Rotate(r)
  \/ \E d \in Devices : FindKey(r, d) \/ ReadKey(r, d)
  \/ DeleteAll(r)

Logout(r) ==
  \/ \E t \in Tokens, u \in Users : LookUpLogout(r, t, u)
  \/ ReadForward(r, "ttl") \/ ReadTtl(r) \/ Revoke(r)

Next ==
  \/ \E r \in Registers : Register(r)
  \/ \E r \in Logins : Login(r)
  \/ \E r \in Refreshes : Refresh(r)
  \/ \E r \in Logouts : Logout(r)
  \/ \E r \in Requests : Fails(r)
  \/ \E t \in Tokens : Expire(t)
  \/ \E u \in Users : Deactivate(u)

Fairness ==
  /\ \A r \in Registers : WF_vars(pc[r] # "new" /\ Register(r))
  /\ \A r \in Logins : WF_vars(pc[r] # "new" /\ Login(r))
  /\ \A r \in Refreshes : WF_vars(pc[r] # "new" /\ Refresh(r))
  /\ \A r \in Logouts : WF_vars(pc[r] # "new" /\ Logout(r))

Spec == Init /\ [][Next]_vars /\ Fairness

-----------------------------------------------------------------------------
TypeOK ==
  /\ pc \in [Requests -> {"new", "insert", "commit", "read", "store", "verify",
                          "user", "scan", "ttl", "revoke", "done", "dead"}]
  /\ answer \in [Requests -> {0, 200, 201, 204, 401, 403, 409, 500}]
  /\ account \in [Users -> {"none", "active", "inactive"}]
  /\ holder \in [Users -> Registers \cup {None}]
  /\ forward \in [Devices -> Tokens \cup {None}]
  /\ reverse \in [Tokens -> {NoKey} \cup
                     [kind : {"live", "revoked"}, device : Devices]]
  /\ target \in [Requests -> Devices \cup {None}]
  /\ shown \in [Requests -> Tokens \cup {None}]
  /\ seen \in [Requests -> Tokens \cup {None}]
  /\ left \in [Logouts -> BOOLEAN]
  /\ scan \in [Refreshes -> [Devices -> {"out", "todo", "found", "read"}]]
  /\ values \in [Refreshes -> SUBSET Tokens]

\* The current token of a device can be looked up and leads to that device:
\* the pipelines never leave a session whose holder is told 401.
CurrentIsFound ==
  \A d \in Devices : forward[d] # None => reverse[forward[d]] = Live(d)

\* An address is registered by one request.
RegisteredOnce ==
  \A q, r \in Registers :
    answer[q] = 201 /\ answer[r] = 201 /\ UserOf[q] = UserOf[r] => q = r

\* Once a refresh is answered, no other request gets past the verification
\* with the token it was answered for; who had verified before may still.
ExchangedNeverVerifies ==
  [][\A q, r \in Refreshes :
       /\ answer[q] = 200 /\ shown'[r] = shown[q]
       /\ pc[r] \in {"new", "verify"}
       => pc'[r] \notin {"user", "read", "store"}]_vars

\* After logout the token in its body is no device's current one, whatever
\* rotated the session while the logout was looking.  A refresh that verified
\* that token before can still rotate the session.
LogoutEnds ==
  \A r \in Logouts : answer[r] = 204 => \A d \in Devices : forward[d] # shown[r]

\* The session keys implement Sessions.
Issued == Opened \cup {r \in Logins \cup Refreshes :
                         pc[r] = "done" /\ answer[r] \in {200, 500}}

S == INSTANCE Sessions WITH current <- forward, issued <- Issued

SessionsKept == S!Spec

\* A register that waits for the address another one has inserted is answered,
\* also when that one fails.
RegisterEnds ==
  \A r \in Registers : pc[r] = "insert" ~> pc[r] \in {"done", "dead"}
=============================================================================
