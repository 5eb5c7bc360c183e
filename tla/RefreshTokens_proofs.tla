------------------------ MODULE RefreshTokens_proofs ------------------------
(***************************************************************************)
(* Theorems about RefreshTokens, for any users, devices and requests.      *)
(*                                                                         *)
(* The argument: a token belongs to one device for ever, and every handler *)
(* works on the device its tokens belong to.  So a pipeline that retires a *)
(* token replaces or deletes the one forward key that may hold it, and a   *)
(* token that is not current any more never becomes current again.         *)
(***************************************************************************)
EXTENDS RefreshTokens, TLAPS

RegisterSteps == {"new", "insert", "commit"}
LoginSteps    == {"new", "read", "store"}
RefreshSteps  == {"new", "verify", "user", "read", "store", "scan"}
LogoutSteps   == {"new", "read", "ttl", "revoke"}
Ends          == {"done", "dead"}

Places == RegisterSteps \cup LoginSteps \cup RefreshSteps \cup LogoutSteps \cup Ends
Codes  == {0, 200, 201, 204, 401, 403, 409, 500}

Key == {NoKey} \cup [kind : {"live", "revoked"}, device : Devices]

Typed ==
  /\ pc \in [Requests -> Places] /\ answer \in [Requests -> Codes]
  /\ account \in [Users -> {"none", "active", "inactive"}]
  /\ holder \in [Users -> Registers \cup {None}]
  /\ forward \in [Devices -> Tokens \cup {None}]
  /\ reverse \in [Tokens -> Key]
  /\ target \in [Requests -> Devices \cup {None}]
  /\ shown \in [Requests -> Tokens \cup {None}]
  /\ seen \in [Requests -> Tokens \cup {None}]
  /\ left \in [Logouts -> BOOLEAN]
  /\ scan \in [Refreshes -> [Devices -> {"out", "todo", "found", "read"}]]
  /\ values \in [Refreshes -> SUBSET Tokens]

\* The device a token was issued for, and what is left of one replaced.
Owner(t)   == IF t \in Opened THEN t ELSE target[t]
Retired(t) == \A d \in Devices : forward[d] # t

OwnedBy(t, d) == t \in Issued /\ Owner(t) = d

KeysOwned ==
  /\ \A d \in Devices : forward[d] # None => OwnedBy(forward[d], d)
  /\ \A t \in Tokens : reverse[t] # NoKey => OwnedBy(t, reverse[t].device)

\* What is known of a request from where it is.
Steps(r) ==
  /\ r \in Registers => pc[r] \in RegisterSteps \cup Ends
  /\ r \in Logins => pc[r] \in LoginSteps \cup Ends
  /\ r \in Refreshes => pc[r] \in RefreshSteps \cup Ends
  /\ r \in Logouts => pc[r] \in LogoutSteps \cup Ends
  /\ pc[r] \notin Ends => answer[r] = 0
  /\ pc[r] = "dead" => answer[r] = 500
  /\ pc[r] = "new" => seen[r] = None

Works(r) ==
  /\ pc[r] \in {"verify", "user", "read", "store", "ttl", "revoke"}
       => target[r] \in Devices
  /\ r \in Issued \ Opened => target[r] \in Devices
  /\ seen[r] # None => OwnedBy(seen[r], target[r])
  /\ pc[r] = "revoke" => seen[r] # None

Shows(r) ==
  /\ shown[r] # None => shown[r] \in Issued
  /\ \/ r \in Refreshes /\ pc[r] \in {"verify", "user", "read", "store"}
     \/ r \in Logouts /\ pc[r] \in {"read", "ttl", "revoke"}
     => shown[r] # None /\ OwnedBy(shown[r], target[r])
  /\ \/ r \in Refreshes /\ answer[r] = 200
     \/ r \in Logouts /\ (answer[r] = 204 \/ (pc[r] = "ttl" /\ seen[r] = None))
     => shown[r] # None /\ Retired(shown[r])

Scans(r) ==
  r \in Refreshes =>
    /\ \A t \in values[r] : t \in Issued /\ scan[r][Owner(t)] = "read"
    /\ pc[r] \notin {"scan", "dead"} => values[r] = {}
    /\ \A d, e \in Devices :
         scan[r][d] # "out" /\ scan[r][e] # "out" => UserOf[d] = UserOf[e]

Known(r) == Steps(r) /\ Works(r) /\ Shows(r) /\ Scans(r)

AccountsKept ==
  /\ \A u \in Users : holder[u] # None =>
       /\ UserOf[holder[u]] = u /\ pc[holder[u]] = "commit"
       /\ account[u] = "none"
  /\ \A r \in Registers :
       /\ pc[r] = "commit" => holder[UserOf[r]] = r
       /\ answer[r] = 201 => account[UserOf[r]] # "none"
  /\ RegisteredOnce

Inv == /\ Typed /\ KeysOwned /\ CurrentIsFound
       /\ \A r \in Requests : Known(r)
       /\ AccountsKept

-----------------------------------------------------------------------------
LEMMA Facts ==
  /\ Registers \subseteq Requests /\ Logins \subseteq Requests
  /\ Refreshes \subseteq Requests /\ Logouts \subseteq Requests
  /\ \A r \in Requests : \/ r \in Registers \/ r \in Logins
                         \/ r \in Refreshes \/ r \in Logouts
  /\ \A r \in Registers : r \notin Logins /\ r \notin Refreshes /\ r \notin Logouts
  /\ \A r \in Logins : r \notin Refreshes /\ r \notin Logouts
  /\ \A r \in Refreshes : r \notin Logouts
  /\ \A r \in Requests : r # None /\ r \notin Devices /\ r \notin Opened
  /\ Opened \subseteq Devices
  /\ \A r \in Registers : UserOf[r] \in Users
  /\ \A d \in Devices : UserOf[d] \in Users
BY RequestsAssumption, DevicesAssumption DEF Requests

LEMMA KeyFacts ==
  /\ \A d : Live(d).kind = "live" /\ Live(d).device = d
  /\ \A d : Revoked(d).kind = "revoked" /\ Revoked(d).device = d
  /\ NoKey.kind = "none"
  /\ NoKey \in Key
  /\ \A d \in Devices : Live(d) \in Key /\ Revoked(d) \in Key
BY DEF Live, Revoked, NoKey, Key

LEMMA LiveOrNot ==
  ASSUME NEW k \in Key
  PROVE  k # NoKey => k.device \in Devices
BY DEF Key

-----------------------------------------------------------------------------
(***************************************************************************)
(* A step of one handler.                                                  *)
(***************************************************************************)
\* Nothing of a request changes, as far as Known speaks of it.
Same(q) == /\ pc'[q] = pc[q] /\ answer'[q] = answer[q]
           /\ target'[q] = target[q] /\ shown'[q] = shown[q]
           /\ seen'[q] = seen[q]
           /\ q \in Refreshes => scan'[q] = scan[q] /\ values'[q] = values[q]

Alone(r) == /\ pc[r] \notin Ends
            /\ \A q \in Requests : q # r => Same(q)

\* What a step leaves to the tokens that have been issued.
Keeps == /\ Issued \subseteq Issued'
         /\ \A t \in Issued : Owner(t)' = Owner(t)

LEMMA AloneKeeps ==
  ASSUME NEW r \in Requests, Alone(r)
  PROVE  Keeps
<1>1. \A q \in Logins \cup Refreshes : pc[q] = "done" => Same(q)
  BY Facts DEF Alone, Ends
<1>2. \A t \in Issued \ Opened : t \in Logins \cup Refreshes /\ pc[t] = "done"
  BY DEF Issued
<1> QED
  BY <1>1, <1>2 DEF Keeps, Issued, Owner, Same

\* What is known of a request no step of its own can spoil, if tokens that
\* have been replaced are not brought back.
LEMMA OthersKnown ==
  ASSUME NEW q \in Requests, Known(q), Same(q), Keeps,
         \A t \in Issued : Retired(t) => Retired(t)',
         q \in Issued' => q \in Issued
  PROVE  Known(q)'
<1>1. Steps(q)'
  BY DEF Known, Steps, Same
<1>2. Works(q)'
  BY DEF Known, Works, Same, OwnedBy, Keeps
<1>3. Shows(q)'
  BY DEF Known, Shows, Same, OwnedBy, Keeps
<1>4. Scans(q)'
  BY DEF Known, Scans, Same, Keeps
<1> QED
  BY <1>1, <1>2, <1>3, <1>4 DEF Known

\* A step that changes no key of Redis.
LEMMA QuietStep ==
  ASSUME Inv, NEW r \in Requests, Alone(r), UNCHANGED keys, Known(r)'
  PROVE  KeysOwned' /\ CurrentIsFound' /\ \A q \in Requests : Known(q)'
<1>1. Keeps
  BY AloneKeeps
<1>2. KeysOwned'
  <2>1. ASSUME NEW d \in Devices, forward'[d] # None
        PROVE  OwnedBy(forward[d], d)'
    BY <1>1, <2>1 DEF Inv, KeysOwned, keys, Keeps, OwnedBy
  <2>2. ASSUME NEW t \in Tokens, reverse'[t] # NoKey
        PROVE  OwnedBy(t, reverse[t].device)'
    BY <1>1, <2>2 DEF Inv, KeysOwned, keys, Keeps, OwnedBy
  <2> QED
    BY <2>1, <2>2 DEF KeysOwned, keys
<1>3. CurrentIsFound'
  BY DEF Inv, CurrentIsFound, keys, Live
<1>4. \A t \in Issued : Retired(t) => Retired(t)'
  BY DEF Retired, keys
<1>5. ASSUME NEW q \in Requests, q # r
      PROVE  Known(q)'
  <2>1. Same(q)
    BY <1>5 DEF Alone
  <2>2. q \in Issued' => q \in Issued
    BY <2>1 DEF Issued, Same
  <2> QED
    BY <1>1, <1>4, <2>1, <2>2, OthersKnown DEF Inv
<1> QED
  BY <1>2, <1>3, <1>5

\* A step of a handler that knows no accounts.
LEMMA AccountsAside ==
  ASSUME Inv, NEW r \in Requests, r \notin Registers, Alone(r), UNCHANGED accounts
  PROVE  AccountsKept'
<1>1. \A q \in Registers : pc'[q] = pc[q] /\ answer'[q] = answer[q]
  BY Facts DEF Alone, Same
<1>2. account' = account /\ holder' = holder
  BY DEF accounts
<1>3. \A u \in Users : holder[u] # None => holder[u] \in Registers
  BY DEF Inv, Typed
<1>4. RegisteredOnce'
  BY <1>1 DEF Inv, AccountsKept, RegisteredOnce
<1> QED
  BY <1>1, <1>2, <1>3, <1>4 DEF Inv, AccountsKept

\* A handler goes on to a step, or answers with a code.
Moved(r) == /\ pc' \in [Requests -> Places] /\ answer' \in [Requests -> Codes]
            /\ \A q \in Requests : q # r => pc'[q] = pc[q] /\ answer'[q] = answer[q]

WentTo(r, step)     == Moved(r) /\ pc'[r] = step /\ answer'[r] = answer[r]
AnsweredBy(r, code) == Moved(r) /\ pc'[r] = "done" /\ answer'[r] = code

LEMMA GotoFacts ==
  ASSUME Typed, NEW r \in Requests, NEW step \in Places, Goto(r, step), UNCHANGED answer
  PROVE  WentTo(r, step)
BY DEF Typed, Goto, WentTo, Moved

LEMMA RespondFacts ==
  ASSUME Typed, NEW r \in Requests, NEW code \in Codes, Respond(r, code)
  PROVE  AnsweredBy(r, code)
<1>1. "done" \in Places
  BY DEF Places, Ends
<1> QED
  BY <1>1 DEF Typed, Respond, Goto, AnsweredBy, Moved

LEMMA Named ==
  /\ \A s \in {"new", "insert", "commit", "read", "store", "verify", "user", "scan",
               "ttl", "revoke", "done", "dead"} : s \in Places
  /\ \A c \in {0, 200, 201, 204, 401, 403, 409, 500} : c \in Codes
BY DEF Places, Codes, RegisterSteps, LoginSteps, RefreshSteps, LogoutSteps, Ends

-----------------------------------------------------------------------------
(***************************************************************************)
(* register                                                                *)
(***************************************************************************)
LEMMA RegisterMoves ==
  ASSUME Inv, NEW r \in Registers, CheckEmail(r) \/ InsertUser(r) \/ CommitUser(r)
  PROVE  \/ WentTo(r, "insert") \/ WentTo(r, "commit")
         \/ AnsweredBy(r, 201) \/ AnsweredBy(r, 409)
<1>1. \/ (Goto(r, "insert") \/ Goto(r, "commit")) /\ UNCHANGED answer
      \/ Respond(r, 201) \/ Respond(r, 409)
  BY DEF CheckEmail, InsertUser, CommitUser
<1> QED
  BY <1>1, Facts, Named, GotoFacts, RespondFacts DEF Inv

LEMMA RegisterLocal ==
  ASSUME Inv, NEW r \in Registers, CheckEmail(r) \/ InsertUser(r) \/ CommitUser(r)
  PROVE  Typed' /\ Alone(r) /\ UNCHANGED keys /\ Known(r)'
<1>1. /\ r \in Requests /\ UserOf[r] \in Users
      /\ r \notin Logins /\ r \notin Refreshes /\ r \notin Logouts /\ r \notin Opened
  BY Facts
<1>2. UNCHANGED <<keys, local>> /\ pc[r] \notin Ends
  BY DEF CheckEmail, InsertUser, CommitUser, Arrives, Ends
<1>3. /\ Moved(r) /\ pc'[r] \in {"insert", "commit", "done"}
      /\ pc'[r] # "done" => answer'[r] = answer[r]
  BY RegisterMoves DEF WentTo, AnsweredBy
<1>4. account' \in [Users -> {"none", "active", "inactive"}]
  BY <1>1 DEF Inv, Typed, CheckEmail, InsertUser, CommitUser, accounts
<1>5. holder' \in [Users -> Registers \cup {None}]
  BY <1>1 DEF Inv, Typed, CheckEmail, InsertUser, CommitUser, accounts
<1>6. Typed'
  BY <1>2, <1>3, <1>4, <1>5 DEF Inv, Typed, keys, local, Moved
<1>7. Alone(r)
  BY <1>2, <1>3 DEF Alone, Same, local, Moved
<1>8. Keeps
  BY <1>1, <1>7, AloneKeeps
<1>9. Known(r)'
  <2>1. Known(r)
    BY <1>1 DEF Inv
  <2>2. Steps(r)'
    BY <1>1, <1>2, <1>3, <2>1 DEF Known, Steps, RegisterSteps, Ends, local
  <2>3. Works(r)' /\ Shows(r)'
    BY <1>1, <1>2, <1>3, <1>8, <2>1
       DEF Known, Works, Shows, Issued, local, keys, OwnedBy, Keeps
  <2> QED
    BY <1>1, <2>2, <2>3 DEF Known, Scans
<1> QED
  BY <1>2, <1>6, <1>7, <1>9

\* The address of an uncommitted INSERT has no account, so only one commits.
LEMMA RegisterAccounts ==
  ASSUME Inv, NEW r \in Registers, CheckEmail(r) \/ InsertUser(r) \/ CommitUser(r)
  PROVE  AccountsKept'
<1>1. \A q \in Registers : q \in Requests /\ UserOf[q] \in Users /\ q # None
  BY Facts
<1>2. AccountsKept /\ Typed
  BY DEF Inv
<1>3. \A u \in Users : holder[u] # None => holder[u] \in Registers
  BY <1>2 DEF Typed
<1>4. Moved(r)
  BY RegisterMoves DEF WentTo, AnsweredBy
<1>5. \A q \in Registers : q # r => pc'[q] = pc[q] /\ answer'[q] = answer[q]
  BY <1>1, <1>4 DEF Moved
<1>6. CASE CheckEmail(r)
  <2>1. UNCHANGED <<account, holder>> /\ pc[r] = "new"
    BY <1>6 DEF CheckEmail, Arrives, accounts
  <2>2. WentTo(r, "insert") \/ AnsweredBy(r, 409)
    BY <1>1, <1>2, <1>6, Named, GotoFacts, RespondFacts DEF CheckEmail
  <2>3. pc'[r] # "commit" /\ answer'[r] # 201
    BY <1>1, <2>1, <2>2 DEF WentTo, AnsweredBy, Inv, Known, Steps, Ends
  <2> QED
    BY <1>1, <1>2, <1>3, <1>5, <2>1, <2>3 DEF AccountsKept, RegisteredOnce
<1>7. CASE InsertUser(r)
  <2>1. account' = account /\ pc[r] = "insert" /\ holder[UserOf[r]] = None
    BY <1>7 DEF InsertUser
  <2>2. answer[r] # 201
    BY <1>1, <2>1 DEF Inv, Known, Steps, Ends
  <2>3. CASE account[UserOf[r]] = "none"
    <3>1. holder' = [holder EXCEPT ![UserOf[r]] = r]
      BY <1>7, <2>3 DEF InsertUser
    <3>2. WentTo(r, "commit")
      BY <1>1, <1>2, <1>7, <2>3, Named, GotoFacts DEF InsertUser
    <3>3. /\ pc'[r] = "commit" /\ answer'[r] # 201
          /\ holder'[UserOf[r]] = r
          /\ \A u \in Users : u # UserOf[r] => holder'[u] = holder[u]
      BY <1>1, <1>2, <2>2, <3>1, <3>2 DEF WentTo, Typed
    <3> QED
      BY <1>1, <1>2, <1>3, <1>5, <2>1, <2>3, <3>3 DEF AccountsKept, RegisteredOnce
  <2>4. CASE account[UserOf[r]] # "none"
    <3>1. holder' = holder
      BY <1>7, <2>4 DEF InsertUser
    <3>2. AnsweredBy(r, 409)
      BY <1>1, <1>2, <1>7, <2>4, Named, RespondFacts DEF InsertUser
    <3>3. pc'[r] = "done" /\ answer'[r] = 409
      BY <3>2 DEF AnsweredBy
    <3> QED
      BY <1>1, <1>2, <1>3, <1>5, <2>1, <3>1, <3>3 DEF AccountsKept, RegisteredOnce
  <2> QED
    BY <2>3, <2>4
<1>8. CASE CommitUser(r)
  <2>1. pc[r] = "commit" /\ holder[UserOf[r]] = r /\ account[UserOf[r]] = "none"
    BY <1>1, <1>2, <1>8 DEF CommitUser, AccountsKept
  <2>2. /\ account'[UserOf[r]] = "active" /\ holder'[UserOf[r]] = None
        /\ \A u \in Users : u # UserOf[r] => account'[u] = account[u]
                                           /\ holder'[u] = holder[u]
    BY <1>1, <1>2, <1>8 DEF CommitUser, Typed
  <2>3. AnsweredBy(r, 201)
    BY <1>1, <1>2, <1>8, Named, RespondFacts DEF CommitUser
  <2>4. pc'[r] = "done" /\ answer'[r] = 201
    BY <2>3 DEF AnsweredBy
  <2> QED
    BY <1>1, <1>2, <1>3, <1>5, <2>1, <2>2, <2>4 DEF AccountsKept, RegisteredOnce
<1> QED
  BY <1>6, <1>7, <1>8

-----------------------------------------------------------------------------
(***************************************************************************)
(* login, and the pipelines that open a session                            *)
(***************************************************************************)
LEMMA FindUserLocal ==
  ASSUME Inv, NEW r \in Logins, NEW d \in Devices, FindUser(r, d)
  PROVE  Typed' /\ Alone(r) /\ UNCHANGED <<keys, accounts>> /\ Known(r)'
<1>1. /\ r \in Requests /\ r \notin Registers /\ r \notin Refreshes /\ r \notin Logouts
      /\ d # None /\ r \notin Opened
  BY Facts, RequestsAssumption
<1>2. pc[r] = "new" /\ UNCHANGED <<keys, accounts, shown, seen, left, scan, values>>
  BY DEF FindUser, Arrives
<1>3. /\ target' \in [Requests -> Devices \cup {None}]
      /\ target'[r] = d /\ \A q \in Requests : q # r => target'[q] = target[q]
  BY <1>1 DEF Inv, Typed, FindUser
<1>4. WentTo(r, "read") \/ AnsweredBy(r, 401) \/ AnsweredBy(r, 403)
  BY <1>1, Named, GotoFacts, RespondFacts DEF FindUser, Inv
<1>5. /\ Moved(r) /\ pc'[r] \in {"read", "done"}
      /\ pc'[r] = "read" => answer'[r] = answer[r]
      /\ pc'[r] = "done" => answer'[r] \in {401, 403}
  BY <1>4 DEF WentTo, AnsweredBy
<1>6. Typed'
  BY <1>2, <1>3, <1>5 DEF Inv, Typed, accounts, keys, Moved
<1>7. Alone(r)
  BY <1>2, <1>3, <1>5 DEF Alone, Same, Moved, Ends
<1>8. Keeps
  BY <1>1, <1>7, AloneKeeps
<1>9. Known(r)'
  <2>1. Known(r)
    BY <1>1 DEF Inv
  <2>2. Steps(r)'
    BY <1>1, <1>2, <1>5, <2>1 DEF Known, Steps, LoginSteps, Ends
  <2>3. Works(r)'
    BY <1>1, <1>2, <1>3, <1>5, <2>1 DEF Known, Steps, Works
  <2>4. Shows(r)'
    BY <1>1, <1>2, <1>5, <1>8, <2>1 DEF Known, Shows, Keeps
  <2> QED
    BY <1>1, <2>2, <2>3, <2>4 DEF Known, Scans
<1> QED
  BY <1>2, <1>6, <1>7, <1>9

\* redis.get(key), of whichever handler.
LEMMA ReadForwardLocal ==
  ASSUME Inv, NEW r \in Requests, NEW next \in {"store", "ttl"}, ReadForward(r, next),
         next = "store" => r \in Logins \cup Refreshes, next = "ttl" => r \in Logouts
  PROVE  Typed' /\ Alone(r) /\ UNCHANGED <<keys, accounts>> /\ Known(r)'
<1>1. r \notin Registers /\ r \notin Opened
  BY Facts
<1>2. /\ pc[r] = "read"
      /\ UNCHANGED <<answer, keys, accounts, target, shown, left, scan, values>>
  BY DEF ReadForward
<1>3. Known(r) /\ target[r] \in Devices
  BY <1>2 DEF Inv, Known, Works
<1>4. /\ seen' \in [Requests -> Tokens \cup {None}] /\ seen'[r] = forward[target[r]]
      /\ \A q \in Requests : q # r => seen'[q] = seen[q]
  BY <1>3 DEF Inv, Typed, ReadForward
<1>5. Moved(r) /\ pc'[r] = next /\ answer'[r] = answer[r]
  BY Named, GotoFacts DEF ReadForward, WentTo, Inv
<1>6. Typed'
  BY <1>2, <1>4, <1>5 DEF Inv, Typed, accounts, keys, Moved
<1>7. Alone(r)
  BY <1>2, <1>4, <1>5 DEF Alone, Same, Moved, Ends
<1>8. Keeps
  BY <1>7, AloneKeeps
<1>9. Known(r)'
  <2>1. Steps(r)'
    BY <1>1, <1>2, <1>3, <1>5, Facts DEF Known, Steps, LoginSteps, RefreshSteps,
       LogoutSteps, Ends
  <2>2. Works(r)'
    <3>1. seen'[r] # None => OwnedBy(seen'[r], target[r])
      BY <1>3, <1>4 DEF Inv, KeysOwned
    <3>2. seen'[r] # None => OwnedBy(seen[r], target[r])'
      BY <1>2, <1>8, <3>1 DEF OwnedBy, Keeps
    <3> QED
      BY <1>1, <1>2, <1>3, <1>5, <3>2 DEF Works, Issued
  <2>3. Shows(r)'
    <3>1. next = "ttl" /\ seen'[r] = None => Retired(shown[r])'
      <4> SUFFICES ASSUME next = "ttl", seen'[r] = None, NEW d \in Devices,
                          forward[d] = shown[r]
                   PROVE  FALSE
        BY <1>2 DEF Retired, keys
      <4>1. r \in Logouts /\ shown[r] # None /\ OwnedBy(shown[r], target[r])
        BY <1>2, <1>3 DEF Known, Shows
      <4>2. OwnedBy(forward[d], d)
        BY <4>1 DEF Inv, KeysOwned
      <4> QED
        BY <1>4, <4>1, <4>2 DEF OwnedBy
    <3>2. shown'[r] = shown[r] /\ target'[r] = target[r] /\ answer'[r] = 0
      BY <1>2, <1>3 DEF Known, Steps, Ends
    <3>3. shown[r] # None => shown'[r] \in Issued'
      BY <1>3, <1>8, <3>2 DEF Known, Shows, Keeps
    <3>4. \/ r \in Refreshes /\ next = "store"
          \/ r \in Logouts
          => shown[r] # None /\ OwnedBy(shown[r], target[r])'
      BY <1>2, <1>3, <1>8, <3>2 DEF Known, Shows, OwnedBy, Keeps
    <3> QED
      BY <1>1, <1>2, <1>3, <1>5, <3>1, <3>2, <3>3, <3>4, Facts DEF Shows
  <2>4. Scans(r)'
    BY <1>2, <1>3, <1>5, <1>8 DEF Known, Scans, Keeps
  <2> QED
    BY <2>1, <2>2, <2>3, <2>4 DEF Known
<1> QED
  BY <1>2, <1>6, <1>7, <1>9

LEMMA WrittenFacts ==
  ASSUME Inv, NEW r \in Requests, NEW code \in Codes, Written(r, code)
  PROVE  /\ AnsweredBy(r, code) \/ AnsweredBy(r, 500)
         /\ seen' \in [Requests -> Tokens \cup {None}] /\ seen'[r] = None
         /\ \A q \in Requests : q # r => seen'[q] = seen[q]
         /\ UNCHANGED <<accounts, target, shown, left, scan, values>>
BY Named, RespondFacts DEF Written, Inv, Typed

\* StoreSession and Rotate: the token read becomes k, the own one current.
Opens(r, k) ==
  /\ pc[r] = "store"
  /\ forward' = [forward EXCEPT ![target[r]] = r]
  /\ reverse' = [t \in Tokens |-> CASE t = r       -> Live(target[r])
                                    [] t = seen[r] -> k
                                    [] OTHER       -> reverse[t]]
  /\ Written(r, 200)

LEMMA EveryOpening ==
  ASSUME Inv, NEW r \in Logins \cup Refreshes,
         StoreSession(r) \/ (r \in Refreshes /\ Rotate(r))
  PROVE  \E k \in {NoKey, Revoked(target[r])} : Opens(r, k)
<1>1. CASE StoreSession(r)
  <2>1. Opens(r, NoKey)
    BY <1>1 DEF StoreSession, Opens
  <2> QED
    BY <2>1
<1>2. CASE Rotate(r)
  <2>1. Opens(r, Revoked(target[r]))
    BY <1>2 DEF Rotate, Opens
  <2> QED
    BY <2>1
<1> QED
  BY <1>1, <1>2

\* The new token has never been issued; the one it replaces, and the one the
\* handler read, belong to the same device.
LEMMA Opening ==
  ASSUME Inv, NEW r \in Logins \cup Refreshes, NEW k \in {NoKey, Revoked(target[r])},
         Opens(r, k)
  PROVE  /\ Typed' /\ Alone(r) /\ UNCHANGED accounts
         /\ KeysOwned' /\ CurrentIsFound' /\ \A q \in Requests : Known(q)'
         /\ target[r] \in Devices /\ r \in Tokens \ Issued /\ Issued' = Issued \cup {r}
<1> DEFINE d == target[r]
<1>1. /\ r \in Requests /\ r \notin Registers /\ r \notin Logouts /\ r \notin Opened
      /\ r # None /\ r \in Tokens
  BY Facts DEF Tokens
<1>2. /\ pc[r] = "store" /\ Known(r) /\ d \in Devices /\ r \notin Issued
  BY <1>1 DEF Opens, Inv, Known, Works, Issued
<1>3. /\ Moved(r) /\ pc'[r] = "done" /\ answer'[r] \in {200, 500}
      /\ seen' \in [Requests -> Tokens \cup {None}] /\ seen'[r] = None
      /\ \A q \in Requests : q # r => seen'[q] = seen[q]
      /\ UNCHANGED <<accounts, target, shown, left, scan, values>>
  BY <1>1, Named, WrittenFacts DEF Opens, AnsweredBy
<1>4. /\ forward' \in [Devices -> Tokens \cup {None}] /\ forward'[d] = r
      /\ \A e \in Devices : e # d => forward'[e] = forward[e]
  BY <1>1, <1>2 DEF Opens, Inv, Typed
<1>5. seen[r] # None => OwnedBy(seen[r], d) /\ seen[r] # r
  BY <1>2 DEF Known, Works, OwnedBy
<1>6. /\ reverse' \in [Tokens -> Key] /\ reverse'[r] = Live(d)
      /\ \A t \in Tokens : t # r /\ t = seen[r] => reverse'[t] = k
      /\ \A t \in Tokens : t # r /\ t # seen[r] => reverse'[t] = reverse[t]
  <2>1. k \in Key /\ Live(d) \in Key /\ \A t \in Tokens : reverse[t] \in Key
    BY <1>2, KeyFacts DEF Inv, Typed
  <2>2. reverse' = [t \in Tokens |-> CASE t = r       -> Live(d)
                                      [] t = seen[r] -> k
                                      [] OTHER       -> reverse[t]]
    BY DEF Opens
  <2>3. reverse'[r] = Live(d)
    BY <1>1, <1>5, <2>2
  <2>4. \A t \in Tokens : t # r /\ t = seen[r] => reverse'[t] = k
    BY <2>2
  <2>5. \A t \in Tokens : t # r /\ t # seen[r] => reverse'[t] = reverse[t]
    BY <2>2
  <2>6. \A t \in Tokens : reverse'[t] \in Key
    BY <2>1, <2>3, <2>4, <2>5
  <2> QED
    BY <2>2, <2>3, <2>4, <2>5, <2>6
<1>7. Typed'
  BY <1>3, <1>4, <1>6 DEF Inv, Typed, accounts, Moved
<1>8. Alone(r)
  BY <1>2, <1>3 DEF Alone, Same, Moved, Ends
<1>9. Keeps
  BY <1>1, <1>8, AloneKeeps
<1>10. Issued' = Issued \cup {r}
  <2>1. \A q \in Logins \cup Refreshes : q # r => pc'[q] = pc[q] /\ answer'[q] = answer[q]
    BY <1>3, Facts DEF Moved
  <2> QED
    BY <1>3, <2>1 DEF Issued
<1>11. OwnedBy(r, d)'
  BY <1>1, <1>3, <1>10 DEF OwnedBy, Owner
<1>12. \A t, e : OwnedBy(t, e) => OwnedBy(t, e)'
  BY <1>9 DEF OwnedBy, Keeps
<1>13. KeysOwned'
  <2>1. ASSUME NEW e \in Devices, NEW t, t = forward'[e], t # None
        PROVE  OwnedBy(t, e)'
    <3>1. CASE e = d
      <4>1. t = r
        BY <1>4, <2>1, <3>1
      <4> QED
        BY <1>3, <1>11, <3>1, <4>1 DEF OwnedBy
    <3>2. CASE e # d
      <4>1. OwnedBy(t, e)
        BY <1>4, <2>1, <3>2 DEF Inv, KeysOwned
      <4> QED
        BY <1>12, <4>1
    <3> QED
      BY <3>1, <3>2
  <2>2. ASSUME NEW t \in Tokens, NEW e, reverse'[t] # NoKey, e = reverse'[t].device
        PROVE  OwnedBy(t, e)'
    <3>1. CASE t = r
      <4>1. e = d
        BY <1>6, <2>2, <3>1, KeyFacts
      <4> QED
        BY <1>3, <1>11, <3>1, <4>1 DEF OwnedBy
    <3>2. CASE t # r /\ t = seen[r]
      <4>1. e = d
        BY <1>6, <2>2, <3>2, KeyFacts
      <4>2. t # None
        BY RequestsAssumption, DevicesAssumption DEF Tokens, Requests
      <4>3. OwnedBy(t, e)
        BY <1>5, <3>2, <4>1, <4>2
      <4> QED
        BY <1>12, <4>3
    <3>3. CASE t # r /\ t # seen[r]
      <4>1. OwnedBy(t, e)
        BY <1>6, <2>2, <3>3 DEF Inv, KeysOwned
      <4> QED
        BY <1>12, <4>1
    <3> QED
      BY <3>1, <3>2, <3>3
  <2> QED
    BY <2>1, <2>2 DEF KeysOwned, OwnedBy, Owner
<1>14. CurrentIsFound'
  <2> SUFFICES ASSUME NEW e \in Devices, forward'[e] # None
               PROVE  reverse'[forward'[e]] = Live(e)
    BY DEF CurrentIsFound, Live
  <2>1. CASE e = d
    BY <1>4, <1>6, <2>1
  <2>2. CASE e # d
    <3>1. forward'[e] = forward[e] /\ OwnedBy(forward[e], e)
      BY <1>4, <2>2 DEF Inv, KeysOwned
    <3>2. forward[e] # seen[r] /\ forward[e] # r /\ forward[e] \in Tokens
      BY <1>2, <1>5, <2>2, <3>1 DEF OwnedBy, Inv, Typed
    <3> QED
      BY <1>6, <3>1, <3>2 DEF Inv, CurrentIsFound
  <2> QED
    BY <2>1, <2>2
<1>15. \A t \in Issued : Retired(t) => Retired(t)'
  BY <1>2, <1>4 DEF Retired
<1>16. ASSUME NEW q \in Requests, q # r
       PROVE  Known(q)'
  <2>1. Same(q) /\ Known(q)
    BY <1>8, <1>16 DEF Alone, Inv
  <2>2. q \in Issued' => q \in Issued
    BY <1>10, <1>16
  <2> QED
    BY <1>9, <1>15, <2>1, <2>2, OthersKnown
<1>17. Known(r)'
  <2>1. Steps(r)'
    BY <1>1, <1>3, Facts DEF Steps, Ends
  <2>2. Works(r)'
    BY <1>2, <1>3 DEF Works
  <2>3. Shows(r)'
    <3>1. shown'[r] = shown[r] /\ shown[r] # None => shown[r] \in Issued
      BY <1>2, <1>3 DEF Known, Shows
    <3>2. ASSUME r \in Refreshes
          PROVE  shown[r] # None /\ Retired(shown[r])'
      <4>1. shown[r] # None /\ OwnedBy(shown[r], d)
        BY <1>2, <3>2 DEF Known, Shows
      <4>2. \A e \in Devices : forward'[e] # shown[r]
        BY <1>1, <1>2, <1>4, <4>1 DEF OwnedBy, Inv, KeysOwned
      <4> QED
        BY <1>3, <4>1, <4>2 DEF Retired
    <3> QED
      BY <1>1, <1>3, <1>10, <3>1, <3>2 DEF Shows
  <2>4. Scans(r)'
    BY <1>2, <1>3, <1>9 DEF Known, Scans, Keeps
  <2> QED
    BY <2>1, <2>2, <2>3, <2>4 DEF Known
<1> QED
  BY <1>1, <1>2, <1>3, <1>7, <1>8, <1>10, <1>13, <1>14, <1>16, <1>17

-----------------------------------------------------------------------------
(***************************************************************************)
(* refresh: the look-ups and the reuse alarm                               *)
(***************************************************************************)
LEMMA HandedIsIssued ==
  ASSUME Inv
  PROVE  Handed \subseteq Issued
<1>1. \A r \in Logins \cup Refreshes : answer[r] = 200 => pc[r] = "done"
  BY Facts DEF Inv, Known, Steps, Ends
<1> QED
  BY <1>1 DEF Handed, Issued

LEMMA AlarmFacts ==
  ASSUME Inv, NEW r \in Refreshes, NEW u, Alarm(r, u)
  PROVE  /\ scan' \in [Refreshes -> [Devices -> {"out", "todo", "found", "read"}]]
         /\ \A q \in Refreshes : q # r => scan'[q] = scan[q]
         /\ \A d \in Devices : scan'[r][d] # "out" => UserOf[d] = u
BY DEF Inv, Typed, Alarm

LEMMA LookUpTokenLocal ==
  ASSUME Inv, NEW r \in Refreshes, NEW t \in Tokens, LookUpToken(r, t)
  PROVE  Typed' /\ Alone(r) /\ UNCHANGED <<keys, accounts>> /\ Known(r)'
<1>1. /\ r \in Requests /\ r \notin Registers /\ r \notin Logins /\ r \notin Logouts
      /\ r \notin Opened /\ t \in Issued /\ t # None
  BY Facts, HandedIsIssued, RequestsAssumption, DevicesAssumption
     DEF LookUpToken, Tokens, Requests
<1>2. /\ pc[r] = "new" /\ UNCHANGED <<keys, accounts, seen, left, values>> /\ Known(r)
      /\ answer[r] = 0 /\ seen[r] = None /\ values[r] = {}
  BY <1>1 DEF LookUpToken, Arrives, Inv, Known, Steps, Scans, Ends
<1>3. /\ shown' \in [Requests -> Tokens \cup {None}] /\ shown'[r] = t
      /\ \A q \in Requests : q # r => shown'[q] = shown[q]
  BY <1>1 DEF LookUpToken, Inv, Typed
<1>4. Moved(r) /\ \/ pc'[r] = "done" /\ answer'[r] = 401
                  \/ pc'[r] \in {"scan", "verify"} /\ answer'[r] = 0
  <2>1. AnsweredBy(r, 401) \/ WentTo(r, "scan") \/ WentTo(r, "verify")
    BY <1>1, Named, GotoFacts, RespondFacts DEF LookUpToken, Alarm, Inv
  <2> QED
    BY <1>2, <2>1 DEF AnsweredBy, WentTo
<1>5. /\ scan' \in [Refreshes -> [Devices -> {"out", "todo", "found", "read"}]]
      /\ \A q \in Refreshes : q # r => scan'[q] = scan[q]
      /\ \A d, e \in Devices :
           scan'[r][d] # "out" /\ scan'[r][e] # "out" => UserOf[d] = UserOf[e]
  <2>1. scan' = scan \/ \E u : Alarm(r, u)
    BY DEF LookUpToken
  <2> QED
    BY <1>2, <2>1, AlarmFacts DEF Inv, Typed, Known, Scans
<1>6. /\ target' \in [Requests -> Devices \cup {None}]
      /\ \A q \in Requests : q # r => target'[q] = target[q]
      /\ pc'[r] = "verify" => target'[r] \in Devices /\ OwnedBy(t, target'[r])
  <2>1. CASE reverse[t].kind = "live"
    <3>1. target' = [target EXCEPT ![r] = reverse[t].device]
      BY <2>1, KeyFacts DEF LookUpToken
    <3>2. reverse[t].device \in Devices /\ OwnedBy(t, reverse[t].device)
      BY <2>1, KeyFacts, LiveOrNot DEF Inv, Typed, KeysOwned
    <3> QED
      BY <1>1, <3>1, <3>2 DEF Inv, Typed
  <2>2. CASE reverse[t].kind # "live"
    <3>1. target' = target /\ (AnsweredBy(r, 401) \/ WentTo(r, "scan"))
      BY <1>1, <2>2, Named, GotoFacts, RespondFacts DEF LookUpToken, Alarm, Inv
    <3> QED
      BY <3>1 DEF Inv, Typed, AnsweredBy, WentTo
  <2> QED
    BY <2>1, <2>2
<1>7. Typed'
  BY <1>2, <1>3, <1>4, <1>5, <1>6 DEF Inv, Typed, accounts, keys, Moved
<1>8. Alone(r)
  BY <1>2, <1>3, <1>4, <1>5, <1>6 DEF Alone, Same, Moved, Ends
<1>9. Keeps
  BY <1>1, <1>8, AloneKeeps
<1>10. Known(r)'
  <2>1. Steps(r)'
    BY <1>1, <1>2, <1>4 DEF Steps, RefreshSteps, Ends
  <2>2. Works(r)'
    BY <1>1, <1>2, <1>4, <1>6 DEF Works, Issued
  <2>3. Shows(r)'
    <3>1. pc'[r] = "verify" => OwnedBy(shown[r], target[r])'
      BY <1>3, <1>6, <1>9 DEF OwnedBy, Keeps
    <3> QED
      BY <1>1, <1>3, <1>4, <1>9, <3>1 DEF Shows, Keeps
  <2>4. Scans(r)'
    BY <1>2, <1>5 DEF Scans
  <2> QED
    BY <2>1, <2>2, <2>3, <2>4 DEF Known
<1> QED
  BY <1>2, <1>7, <1>8, <1>10

LEMMA VerifyLocal ==
  ASSUME Inv, NEW r \in Refreshes, Verify(r) \/ CheckUser(r)
  PROVE  Typed' /\ Alone(r) /\ UNCHANGED <<keys, accounts>> /\ Known(r)'
<1>1. /\ r \in Requests /\ r \notin Registers /\ r \notin Logins /\ r \notin Logouts
      /\ r \notin Opened
  BY Facts
<1>2. /\ pc[r] \in {"verify", "user"} /\ Known(r) /\ values[r] = {} /\ answer[r] = 0
      /\ UNCHANGED <<keys, accounts, target, shown, seen, left, values>>
  BY <1>1 DEF Verify, CheckUser, Inv, Known, Steps, Scans, Ends, local
<1>3. Moved(r) /\ \/ pc'[r] = "done" /\ answer'[r] = 401
                  \/ pc'[r] \in {"scan", "user", "read"} /\ answer'[r] = 0
  <2>1. \/ AnsweredBy(r, 401) \/ WentTo(r, "scan") \/ WentTo(r, "user")
        \/ WentTo(r, "read")
    BY <1>1, Named, GotoFacts, RespondFacts DEF Verify, CheckUser, Alarm, Inv
  <2> QED
    BY <1>2, <2>1 DEF AnsweredBy, WentTo
<1>4. /\ scan' \in [Refreshes -> [Devices -> {"out", "todo", "found", "read"}]]
      /\ \A q \in Refreshes : q # r => scan'[q] = scan[q]
      /\ \A d, e \in Devices :
           scan'[r][d] # "out" /\ scan'[r][e] # "out" => UserOf[d] = UserOf[e]
  <2>1. scan' = scan \/ \E u : Alarm(r, u)
    BY DEF Verify, CheckUser, local
  <2> QED
    BY <1>2, <2>1, AlarmFacts DEF Inv, Typed, Known, Scans
<1>5. Typed'
  BY <1>2, <1>3, <1>4 DEF Inv, Typed, accounts, keys, Moved
<1>6. Alone(r)
  BY <1>2, <1>3, <1>4 DEF Alone, Same, Moved, Ends
<1>7. Keeps
  BY <1>1, <1>6, AloneKeeps
<1>8. Known(r)'
  <2>1. Steps(r)'
    BY <1>1, <1>3 DEF Steps, RefreshSteps, Ends
  <2>2. Works(r)'
    BY <1>1, <1>2, <1>3, <1>7 DEF Works, Issued, Known, OwnedBy, Keeps
  <2>3. Shows(r)'
    BY <1>1, <1>2, <1>3, <1>7 DEF Shows, Known, OwnedBy, Keeps
  <2>4. Scans(r)'
    BY <1>2, <1>4 DEF Scans
  <2> QED
    BY <2>1, <2>2, <2>3, <2>4 DEF Known
<1> QED
  BY <1>2, <1>5, <1>6, <1>8

\* The token read from a device's key belongs to the device.
LEMMA ScanLocal ==
  ASSUME Inv, NEW r \in Refreshes, NEW d \in Devices, FindKey(r, d) \/ ReadKey(r, d)
  PROVE  Typed' /\ Alone(r) /\ UNCHANGED <<keys, accounts>> /\ Known(r)'
<1>1. /\ r \in Requests /\ r \notin Registers /\ r \notin Logins /\ r \notin Logouts
      /\ r \notin Opened
  BY Facts
<1>2. /\ pc[r] = "scan" /\ Known(r) /\ scan[r][d] \in {"todo", "found"}
      /\ UNCHANGED <<pc, answer, keys, accounts, target, shown, seen, left>>
  BY <1>1 DEF FindKey, ReadKey, Inv
<1>3. /\ scan' \in [Refreshes -> [Devices -> {"out", "todo", "found", "read"}]]
      /\ \A q \in Refreshes : q # r => scan'[q] = scan[q]
      /\ \A e \in Devices : e # d => scan'[r][e] = scan[r][e]
  <2>1. \E s \in {"out", "found", "read"} : scan' = [scan EXCEPT ![r][d] = s]
    BY DEF FindKey, ReadKey
  <2> QED
    BY <2>1 DEF Inv, Typed
<1>4. /\ values' \in [Refreshes -> SUBSET Tokens]
      /\ \A q \in Refreshes : q # r => values'[q] = values[q]
      /\ \/ values'[r] = values[r]
         \/ /\ scan'[r][d] = "read"
            /\ values'[r] = values[r] \cup ({forward[d]} \ {None})
  <2>1. values[r] \in SUBSET Tokens /\ forward[d] \in Tokens \cup {None}
    BY DEF Inv, Typed
  <2>2. CASE FindKey(r, d)
    BY <2>2 DEF FindKey, Inv, Typed
  <2>3. CASE ReadKey(r, d)
    BY <2>1, <2>3 DEF ReadKey, Inv, Typed
  <2> QED
    BY <2>2, <2>3
<1>5. Typed'
  BY <1>2, <1>3, <1>4 DEF Inv, Typed, accounts, keys
<1>6. Alone(r)
  BY <1>2, <1>3, <1>4 DEF Alone, Same, Ends
<1>7. Keeps
  BY <1>1, <1>6, AloneKeeps
<1>8. Known(r)'
  <2>1. Steps(r)' /\ Works(r)'
    BY <1>2, <1>7 DEF Known, Steps, Works, Issued, OwnedBy, Keeps
  <2>2. Shows(r)'
    BY <1>1, <1>2, <1>7 DEF Known, Shows, OwnedBy, Keeps, Steps, Ends
  <2>3. \A t \in values'[r] : t \in Issued' /\ scan'[r][Owner(t)'] = "read"
    <3>1. ASSUME NEW t \in values[r]
          PROVE  t \in Issued /\ scan'[r][Owner(t)] = "read"
      <4>1. t \in Issued /\ scan[r][Owner(t)] = "read" /\ t \in Tokens
        BY <1>2 DEF Known, Scans, Inv, Typed
      <4>2. Owner(t) # d
        BY <1>2, <4>1
      <4>3. Owner(t) \in Devices
        BY <4>1, Facts DEF Owner, Inv, Known, Works, Tokens, Issued
      <4> QED
        BY <1>3, <4>1, <4>2, <4>3
    <3>2. forward[d] # None => OwnedBy(forward[d], d)
      BY DEF Inv, KeysOwned
    <3>3. ASSUME NEW t \in values'[r]
          PROVE  t \in Issued /\ scan'[r][Owner(t)] = "read"
      <4>1. CASE t \in values[r]
        BY <3>1, <4>1
      <4>2. CASE t \notin values[r]
        <5>1. t = forward[d] /\ t # None /\ scan'[r][d] = "read"
          BY <1>4, <3>3, <4>2
        <5> QED
          BY <3>2, <5>1 DEF OwnedBy
      <4> QED
        BY <4>1, <4>2
    <3> QED
      BY <1>7, <3>3 DEF Keeps
  <2>4. \A e \in Devices : scan'[r][e] # "out" => scan[r][e] # "out"
    BY <1>2, <1>3
  <2>5. Scans(r)'
    BY <1>2, <2>3, <2>4 DEF Known, Scans
  <2> QED
    BY <2>1, <2>2, <2>5 DEF Known
<1> QED
  BY <1>2, <1>5, <1>6, <1>8

-----------------------------------------------------------------------------
(***************************************************************************)
(* The steps that end sessions                                             *)
(***************************************************************************)
\* A step that issues nothing, ends some sessions and keeps the others.
Closes(D) ==
  /\ \A d \in Devices : forward'[d] = IF d \in D THEN None ELSE forward[d]
  /\ \A t \in Tokens : reverse'[t] # NoKey =>
       \/ reverse'[t] = reverse[t]
       \/ reverse'[t].device = Owner(t) /\ t \in Issued
  /\ \A d \in Devices \ D : forward[d] # None => reverse'[forward[d]] = reverse[forward[d]]

LEMMA Closing ==
  ASSUME Inv, NEW D \in SUBSET Devices, Closes(D), Keeps, Typed'
  PROVE  /\ KeysOwned' /\ CurrentIsFound'
         /\ \A t : t # None /\ Retired(t) => Retired(t)'
<1>1. \A t, e : OwnedBy(t, e) => OwnedBy(t, e)'
  BY DEF OwnedBy, Keeps
<1>2. KeysOwned'
  <2>1. ASSUME NEW e \in Devices, NEW t, t = forward'[e], t # None
        PROVE  OwnedBy(t, e)'
    <3>1. OwnedBy(t, e)
      BY <2>1 DEF Closes, Inv, KeysOwned
    <3> QED
      BY <1>1, <3>1
  <2>2. ASSUME NEW t \in Tokens, NEW e, reverse'[t] # NoKey, e = reverse'[t].device
        PROVE  OwnedBy(t, e)'
    <3>1. OwnedBy(t, e)
      BY <2>2 DEF Closes, Inv, KeysOwned, OwnedBy
    <3> QED
      BY <1>1, <3>1
  <2> QED
    BY <2>1, <2>2 DEF KeysOwned, OwnedBy, Owner
<1>3. CurrentIsFound'
  BY DEF CurrentIsFound, Closes, Live, Inv
<1>4. \A t : t # None /\ Retired(t) => Retired(t)'
  BY DEF Retired, Closes
<1> QED
  BY <1>2, <1>3, <1>4

LEMMA DeleteAllFacts ==
  ASSUME Inv, NEW r \in Refreshes, DeleteAll(r)
  PROVE  /\ Typed' /\ Alone(r) /\ UNCHANGED accounts /\ Known(r)' /\ r \notin Issued'
         /\ Closes({d \in Devices : scan[r][d] = "read"})
<1> DEFINE D == {d \in Devices : scan[r][d] = "read"}
<1>1. /\ r \in Requests /\ r \notin Registers /\ r \notin Logins /\ r \notin Logouts
      /\ r \notin Opened
  BY Facts
<1>2. /\ pc[r] = "scan" /\ Known(r)
      /\ UNCHANGED <<accounts, target, shown, seen, left, scan>>
  BY <1>1 DEF DeleteAll, Inv
<1>3. Moved(r) /\ pc'[r] = "done" /\ answer'[r] = 401
  BY <1>1, Named, RespondFacts DEF DeleteAll, Inv, AnsweredBy
<1>4. /\ values' \in [Refreshes -> SUBSET Tokens] /\ values'[r] = {}
      /\ \A q \in Refreshes : q # r => values'[q] = values[q]
  BY DEF DeleteAll, Inv, Typed
<1>5. /\ forward' \in [Devices -> Tokens \cup {None}]
      /\ \A d \in Devices : forward'[d] = IF d \in D THEN None ELSE forward[d]
  BY DEF DeleteAll, Inv, Typed
<1>6. /\ reverse' \in [Tokens -> Key]
      /\ \A t \in Tokens : reverse'[t] = IF t \in values[r] THEN NoKey ELSE reverse[t]
  BY KeyFacts DEF DeleteAll, Inv, Typed
<1>7. Typed'
  BY <1>2, <1>3, <1>4, <1>5, <1>6 DEF Inv, Typed, accounts, Moved
<1>8. Alone(r)
  BY <1>2, <1>3, <1>4 DEF Alone, Same, Moved, Ends
<1>9. Keeps
  BY <1>1, <1>8, AloneKeeps
<1>10. Closes(D)
  <2>1. ASSUME NEW d \in Devices \ D, forward[d] # None
        PROVE  reverse'[forward[d]] = reverse[forward[d]]
    <3>1. OwnedBy(forward[d], d) /\ forward[d] \in Tokens
      BY <2>1 DEF Inv, KeysOwned, Typed
    <3>2. forward[d] \notin values[r]
      BY <1>2, <3>1 DEF Known, Scans, OwnedBy
    <3> QED
      BY <1>6, <3>1, <3>2
  <2> HIDE DEF D
  <2> QED
    BY <1>5, <1>6, <2>1 DEF Closes
<1>11. Known(r)'
  <2>1. Steps(r)'
    BY <1>1, <1>3 DEF Steps, Ends
  <2>2. Works(r)'
    BY <1>1, <1>2, <1>3, <1>9 DEF Works, Issued, Known, OwnedBy, Keeps
  <2>3. Shows(r)'
    BY <1>1, <1>2, <1>3, <1>9 DEF Shows, Known, Keeps
  <2>4. Scans(r)'
    BY <1>2, <1>4 DEF Scans, Known
  <2> QED
    BY <2>1, <2>2, <2>3, <2>4 DEF Known
<1> QED
  BY <1>1, <1>2, <1>3, <1>7, <1>8, <1>10, <1>11 DEF Issued

LEMMA RevokeFacts ==
  ASSUME Inv, NEW r \in Logouts, Revoke(r)
  PROVE  /\ Typed' /\ Alone(r) /\ UNCHANGED accounts /\ Known(r)' /\ r \notin Issued'
         /\ target[r] \in Devices /\ Closes({target[r]})
<1> DEFINE d == target[r]
<1>1. /\ r \in Requests /\ r \notin Registers /\ r \notin Logins /\ r \notin Refreshes
      /\ r \notin Opened
  BY Facts
<1>2. /\ pc[r] = "revoke" /\ Known(r) /\ d \in Devices /\ OwnedBy(seen[r], d)
      /\ seen[r] # None /\ seen[r] \in Tokens
  BY <1>1 DEF Revoke, Inv, Known, Works, Typed
<1>3. /\ Moved(r) /\ pc'[r] = "done" /\ answer'[r] \in {204, 500}
      /\ seen' \in [Requests -> Tokens \cup {None}] /\ seen'[r] = None
      /\ \A q \in Requests : q # r => seen'[q] = seen[q]
      /\ UNCHANGED <<accounts, target, shown, left, scan, values>>
  BY <1>1, Named, WrittenFacts DEF Revoke, AnsweredBy
<1>4. /\ forward' \in [Devices -> Tokens \cup {None}] /\ forward'[d] = None
      /\ \A e \in Devices : e # d => forward'[e] = forward[e]
  BY <1>2 DEF Revoke, Inv, Typed
<1>5. /\ reverse' \in [Tokens -> Key]
      /\ reverse'[seen[r]] # NoKey => reverse'[seen[r]].device = d
      /\ \A t \in Tokens : t # seen[r] => reverse'[t] = reverse[t]
  <2>1. \E k \in {NoKey, Revoked(d)} : reverse' = [reverse EXCEPT ![seen[r]] = k]
    BY DEF Revoke
  <2>2. PICK k \in {NoKey, Revoked(d)} : reverse' = [reverse EXCEPT ![seen[r]] = k]
    BY <2>1
  <2>3. k \in Key /\ (k # NoKey => k.device = d)
    BY <1>2, KeyFacts
  <2> QED
    BY <1>2, <2>2, <2>3 DEF Inv, Typed
<1>6. Typed'
  BY <1>3, <1>4, <1>5 DEF Inv, Typed, accounts, Moved
<1>7. Alone(r)
  BY <1>2, <1>3 DEF Alone, Same, Moved, Ends
<1>8. Keeps
  BY <1>1, <1>7, AloneKeeps
<1>9. Closes({d})
  <2>1. \A t \in Tokens : reverse'[t] # NoKey =>
          \/ reverse'[t] = reverse[t]
          \/ reverse'[t].device = Owner(t) /\ t \in Issued
    BY <1>2, <1>5 DEF OwnedBy
  <2>2. ASSUME NEW e \in Devices \ {d}, forward[e] # None
        PROVE  reverse'[forward[e]] = reverse[forward[e]]
    <3>1. OwnedBy(forward[e], e) /\ forward[e] \in Tokens
      BY <2>2 DEF Inv, KeysOwned, Typed
    <3> QED
      BY <1>2, <1>5, <3>1 DEF OwnedBy
  <2> QED
    BY <1>4, <2>1, <2>2 DEF Closes
<1>10. Known(r)'
  <2>1. Steps(r)'
    BY <1>1, <1>3 DEF Steps, Ends
  <2>2. Works(r)'
    BY <1>1, <1>3 DEF Works, Issued
  <2>3. Shows(r)'
    <3>1. shown[r] # None /\ OwnedBy(shown[r], d)
      BY <1>2 DEF Known, Shows
    <3>2. Retired(shown[r])'
      <4>1. \A e \in Devices : forward'[e] # shown[r]
        BY <1>2, <1>4, <3>1 DEF OwnedBy, Inv, KeysOwned
      <4> QED
        BY <1>3, <4>1 DEF Retired
    <3> QED
      BY <1>1, <1>3, <1>8, <3>1, <3>2 DEF Shows, OwnedBy, Keeps
  <2> QED
    BY <1>1, <2>1, <2>2, <2>3 DEF Known, Scans
<1> QED
  BY <1>1, <1>2, <1>3, <1>6, <1>7, <1>9, <1>10 DEF Issued

-----------------------------------------------------------------------------
(***************************************************************************)
(* logout: the look-ups                                                    *)
(***************************************************************************)
LEMMA LookUpLogoutLocal ==
  ASSUME Inv, NEW r \in Logouts, NEW t \in Tokens, NEW u \in Users, LookUpLogout(r, t, u)
  PROVE  Typed' /\ Alone(r) /\ UNCHANGED <<keys, accounts>> /\ Known(r)'
<1>1. /\ r \in Requests /\ r \notin Registers /\ r \notin Logins /\ r \notin Refreshes
      /\ r \notin Opened /\ t \in Issued /\ t # None
  BY Facts, HandedIsIssued, RequestsAssumption, DevicesAssumption
     DEF LookUpLogout, Tokens, Requests
<1>2. /\ pc[r] = "new" /\ UNCHANGED <<keys, accounts, seen, left, scan, values>> /\ Known(r)
      /\ answer[r] = 0 /\ seen[r] = None
  BY <1>1 DEF LookUpLogout, Arrives, Inv, Known, Steps, Ends
<1>3. CASE reverse[t].kind = "live" /\ WentTo(r, "read")
           /\ shown' = [shown EXCEPT ![r] = t]
           /\ target' = [target EXCEPT ![r] = reverse[t].device]
  <2>1. reverse[t].device \in Devices /\ OwnedBy(t, reverse[t].device)
    BY <1>3, KeyFacts, LiveOrNot DEF Inv, Typed, KeysOwned
  <2>2. /\ shown' \in [Requests -> Tokens \cup {None}] /\ shown'[r] = t
        /\ target' \in [Requests -> Devices \cup {None}] /\ target'[r] = reverse[t].device
        /\ \A q \in Requests : q # r => shown'[q] = shown[q] /\ target'[q] = target[q]
    BY <1>1, <1>3, <2>1 DEF Inv, Typed
  <2>3. Moved(r) /\ pc'[r] = "read" /\ answer'[r] = 0
    BY <1>2, <1>3 DEF WentTo
  <2>4. Typed'
    BY <1>2, <2>2, <2>3 DEF Inv, Typed, accounts, keys, Moved
  <2>5. Alone(r)
    BY <1>2, <2>2, <2>3 DEF Alone, Same, Moved, Ends
  <2>6. Keeps
    BY <1>1, <2>5, AloneKeeps
  <2>7. Steps(r)' /\ Works(r)'
    BY <1>1, <1>2, <2>1, <2>2, <2>3 DEF Steps, Works, Issued, LogoutSteps, Ends
  <2>8. Shows(r)'
    BY <1>1, <2>1, <2>2, <2>3, <2>6 DEF Shows, OwnedBy, Keeps
  <2> QED
    BY <1>1, <1>2, <2>4, <2>5, <2>7, <2>8 DEF Known, Scans
<1>4. CASE /\ target' = target
           /\ \/ (AnsweredBy(r, 401) \/ AnsweredBy(r, 403)) /\ shown' = shown
              \/ /\ AnsweredBy(r, 204) /\ reverse[t].kind # "live"
                 /\ shown' = [shown EXCEPT ![r] = t]
  <2>1. /\ shown' \in [Requests -> Tokens \cup {None}]
        /\ \A q \in Requests : q # r => shown'[q] = shown[q]
        /\ shown'[r] \in {shown[r], t}
    BY <1>1, <1>4 DEF Inv, Typed
  <2>2. Moved(r) /\ pc'[r] = "done" /\ answer'[r] \in {204, 401, 403}
    BY <1>4 DEF AnsweredBy
  <2>3. Typed'
    BY <1>2, <1>4, <2>1, <2>2 DEF Inv, Typed, accounts, keys, Moved
  <2>4. Alone(r)
    BY <1>2, <1>4, <2>1, <2>2 DEF Alone, Same, Moved, Ends
  <2>5. Keeps
    BY <1>1, <2>4, AloneKeeps
  <2>6. Steps(r)' /\ Works(r)'
    BY <1>1, <1>2, <2>2 DEF Steps, Works, Issued, Ends
  <2>7. answer'[r] = 204 => shown'[r] = t /\ Retired(t)'
    <3> SUFFICES ASSUME answer'[r] = 204
                 PROVE  shown'[r] = t /\ Retired(t)'
      OBVIOUS
    <3>1. reverse[t].kind # "live" /\ shown'[r] = t
      BY <1>1, <1>4 DEF AnsweredBy, Inv, Typed
    <3>2. \A d \in Devices : forward[d] # t
      BY <1>1, <3>1, KeyFacts DEF Inv, CurrentIsFound
    <3> QED
      BY <1>2, <3>1, <3>2 DEF Retired, keys
  <2>8. Shows(r)'
    BY <1>1, <1>2, <2>1, <2>2, <2>5, <2>7 DEF Shows, Known, Keeps
  <2> QED
    BY <1>1, <1>2, <2>3, <2>4, <2>6, <2>8 DEF Known, Scans
<1> QED
  BY <1>1, <1>3, <1>4, Named, GotoFacts, RespondFacts DEF LookUpLogout, Inv

LEMMA ReadTtlLocal ==
  ASSUME Inv, NEW r \in Logouts, ReadTtl(r)
  PROVE  Typed' /\ Alone(r) /\ UNCHANGED <<keys, accounts>> /\ Known(r)'
<1>1. /\ r \in Requests /\ r \notin Registers /\ r \notin Logins /\ r \notin Refreshes
      /\ r \notin Opened
  BY Facts
<1>2. /\ pc[r] = "ttl" /\ Known(r) /\ answer[r] = 0
      /\ UNCHANGED <<keys, accounts, target, shown, seen, scan, values>>
  BY <1>1 DEF ReadTtl, Inv, Known, Steps, Ends
<1>3. left' \in [Logouts -> BOOLEAN]
  BY DEF ReadTtl, Inv, Typed
<1>4. /\ Moved(r)
      /\ \/ pc'[r] = "done" /\ answer'[r] = 204 /\ seen[r] = None
         \/ pc'[r] = "revoke" /\ answer'[r] = 0 /\ seen[r] # None
  <2>1. \/ AnsweredBy(r, 204) /\ seen[r] = None
        \/ WentTo(r, "revoke") /\ seen[r] # None
    BY <1>1, Named, GotoFacts, RespondFacts DEF ReadTtl, Inv
  <2> QED
    BY <1>2, <2>1 DEF AnsweredBy, WentTo
<1>5. Typed'
  BY <1>2, <1>3, <1>4 DEF Inv, Typed, accounts, keys, Moved
<1>6. Alone(r)
  BY <1>2, <1>4 DEF Alone, Same, Moved, Ends
<1>7. Keeps
  BY <1>1, <1>6, AloneKeeps
<1>8. Known(r)'
  <2>1. Steps(r)'
    BY <1>1, <1>4 DEF Steps, LogoutSteps, Ends
  <2>2. Works(r)'
    BY <1>1, <1>2, <1>4, <1>7 DEF Works, Issued, Known, OwnedBy, Keeps
  <2>3. Shows(r)'
    BY <1>1, <1>2, <1>4, <1>7 DEF Shows, Known, OwnedBy, Keeps, Retired, keys
  <2> QED
    BY <1>1, <2>1, <2>2, <2>3 DEF Known, Scans
<1> QED
  BY <1>2, <1>5, <1>6, <1>8

-----------------------------------------------------------------------------
(***************************************************************************)
(* Time and failures                                                       *)
(***************************************************************************)
LEMMA ExpireFacts ==
  ASSUME Inv, NEW x \in Tokens, Expire(x)
  PROVE  /\ Typed' /\ Keeps /\ Issued' = Issued /\ UNCHANGED <<pc, answer, accounts, local>>
         /\ Closes({d \in Devices : forward[d] = x})
<1> DEFINE D == {d \in Devices : forward[d] = x}
<1>1. UNCHANGED <<pc, answer, accounts, local>>
  BY DEF Expire
<1>2. /\ forward' \in [Devices -> Tokens \cup {None}]
      /\ \A d \in Devices : forward'[d] = IF d \in D THEN None ELSE forward[d]
  BY DEF Expire, Inv, Typed
<1>3. /\ reverse' \in [Tokens -> Key] /\ reverse'[x] = NoKey
      /\ \A t \in Tokens : t # x => reverse'[t] = reverse[t]
  BY KeyFacts DEF Expire, Inv, Typed
<1>4. Typed'
  BY <1>1, <1>2, <1>3 DEF Inv, Typed, accounts, local
<1>5. Keeps /\ Issued' = Issued
  BY <1>1 DEF Keeps, Issued, Owner, local
<1>6. Closes(D)
  <2>1. \A d \in Devices \ D : forward[d] # None => reverse'[forward[d]] = reverse[forward[d]]
    BY <1>3 DEF Inv, Typed
  <2> HIDE DEF D
  <2> QED
    BY <1>2, <1>3, <2>1 DEF Closes
<1> QED
  BY <1>1, <1>4, <1>5, <1>6

LEMMA FailsFacts ==
  ASSUME Inv, NEW r \in Requests, Fails(r)
  PROVE  Typed' /\ Alone(r) /\ UNCHANGED keys /\ Known(r)' /\ AccountsKept'
<1>1. /\ pc[r] \notin Ends /\ pc[r] # "new" /\ Known(r)
      /\ UNCHANGED <<account, keys, local>>
  BY DEF Fails, Inv, Ends
<1>2. Moved(r) /\ pc'[r] = "dead" /\ answer'[r] = 500
  <2>1. Goto(r, "dead") /\ answer' = [answer EXCEPT ![r] = 500]
    BY DEF Fails
  <2>2. pc' \in [Requests -> Places] /\ answer' \in [Requests -> Codes]
    BY <2>1, Named DEF Goto, Inv, Typed
  <2> QED
    BY <2>1, <2>2 DEF Goto, Inv, Typed, Moved
<1>3. /\ holder' \in [Users -> Registers \cup {None}]
      /\ \A u \in Users : holder'[u] = IF holder[u] = r THEN None ELSE holder[u]
  BY DEF Fails, Inv, Typed
<1>4. Typed'
  BY <1>1, <1>2, <1>3 DEF Inv, Typed, keys, local, Moved
<1>5. Alone(r)
  BY <1>1, <1>2 DEF Alone, Same, local, Moved
<1>6. Keeps
  BY <1>5, AloneKeeps
<1>7. Known(r)'
  <2>1. Steps(r)'
    BY <1>2 DEF Steps, Ends
  <2>2. Works(r)'
    BY <1>1, <1>2, <1>6, Facts DEF Works, Issued, Known, OwnedBy, Keeps, local
  <2>3. Shows(r)'
    BY <1>1, <1>2, <1>6 DEF Shows, Known, Keeps, local
  <2>4. Scans(r)'
    BY <1>1, <1>2, <1>6 DEF Scans, Known, Keeps, local
  <2> QED
    BY <2>1, <2>2, <2>3, <2>4 DEF Known
<1>8. AccountsKept'
  <2>1. \A q \in Registers : q \in Requests /\ UserOf[q] \in Users
    BY Facts
  <2>2. \A u \in Users : holder[u] # None => holder[u] \in Registers
    BY DEF Inv, Typed
  <2>3. \A q \in Registers : q # r => pc'[q] = pc[q] /\ answer'[q] = answer[q]
    BY <1>2, <2>1 DEF Moved
  <2>4. account' = account
    BY <1>1
  <2> QED
    BY <1>2, <1>3, <2>1, <2>2, <2>3, <2>4 DEF Inv, AccountsKept, RegisteredOnce
<1> QED
  BY <1>1, <1>4, <1>5, <1>7, <1>8

LEMMA DeactivateKeeps ==
  ASSUME Inv, NEW u \in Users, Deactivate(u)
  PROVE  Inv'
<1>1. UNCHANGED <<pc, answer, holder, keys, local>>
  BY DEF Deactivate
<1>2. /\ account' \in [Users -> {"none", "active", "inactive"}]
      /\ \A v \in Users : account'[v] = "none" <=> account[v] = "none"
  BY DEF Deactivate, Inv, Typed
<1>3. Typed'
  BY <1>1, <1>2 DEF Inv, Typed, keys, local
<1>4. Issued' = Issued /\ Keeps
  BY <1>1 DEF Issued, Keeps, Owner, local
<1>5. \A t : Retired(t) => Retired(t)'
  BY <1>1 DEF Retired, keys
<1>6. ASSUME NEW r \in Requests
      PROVE  Known(r)'
  BY <1>1, <1>4, <1>5, OthersKnown DEF Same, local, Inv
<1>7. KeysOwned' /\ CurrentIsFound'
  BY <1>1 DEF Inv, KeysOwned, CurrentIsFound, OwnedBy, Owner, Issued, keys, local, Live
<1>8. AccountsKept'
  <2>1. \A r \in Registers : UserOf[r] \in Users
    BY Facts
  <2> QED
    BY <1>1, <1>2, <2>1 DEF Inv, AccountsKept, RegisteredOnce
<1> QED
  BY <1>3, <1>6, <1>7, <1>8 DEF Inv

\* A handler that ends sessions, and no other change of its own to the keys.
LEMMA ClosingStep ==
  ASSUME Inv, NEW r \in Requests, Alone(r), Typed', Known(r)', r \notin Issued',
         NEW D \in SUBSET Devices, Closes(D)
  PROVE  KeysOwned' /\ CurrentIsFound' /\ \A q \in Requests : Known(q)'
<1>1. Keeps
  BY AloneKeeps
<1>2. KeysOwned' /\ CurrentIsFound' /\ \A t : t # None /\ Retired(t) => Retired(t)'
  BY <1>1, Closing
<1>3. None \notin Issued
  BY RequestsAssumption, DevicesAssumption DEF Issued, Requests
<1>4. ASSUME NEW q \in Requests, q # r
      PROVE  Known(q)'
  <2>1. Same(q)
    BY <1>4 DEF Alone
  <2>2. q \in Issued' => q \in Issued
    BY <2>1 DEF Issued, Same
  <2> QED
    BY <1>1, <1>2, <1>3, <2>1, <2>2, OthersKnown DEF Inv
<1> QED
  BY <1>2, <1>4

LEMMA ExpireKeeps ==
  ASSUME Inv, NEW x \in Tokens, Expire(x)
  PROVE  Inv'
<1>1. /\ Typed' /\ Keeps /\ Issued' = Issued /\ UNCHANGED <<pc, answer, accounts, local>>
      /\ Closes({d \in Devices : forward[d] = x})
  BY ExpireFacts
<1>2. KeysOwned' /\ CurrentIsFound' /\ \A t : t # None /\ Retired(t) => Retired(t)'
  <2>1. {d \in Devices : forward[d] = x} \in SUBSET Devices
    OBVIOUS
  <2> QED
    BY <1>1, <2>1, Closing
<1>3. None \notin Issued
  BY RequestsAssumption, DevicesAssumption DEF Issued, Requests
<1>4. ASSUME NEW r \in Requests
      PROVE  Known(r)'
  BY <1>1, <1>2, <1>3, OthersKnown DEF Same, local, Inv
<1>5. AccountsKept'
  BY <1>1 DEF Inv, AccountsKept, RegisteredOnce, accounts
<1> QED
  BY <1>1, <1>2, <1>4, <1>5 DEF Inv

-----------------------------------------------------------------------------
(***************************************************************************)
(* The invariant                                                           *)
(***************************************************************************)
LEMMA InitInv ==
  ASSUME Init
  PROVE  Inv
<1>1. Typed
  <2>1. pc \in [Requests -> Places] /\ answer \in [Requests -> Codes]
    BY Named DEF Init
  <2>2. forward \in [Devices -> Tokens \cup {None}] /\ reverse \in [Tokens -> Key]
    BY KeyFacts, Facts DEF Init, Tokens
  <2> QED
    BY <2>1, <2>2, DevicesAssumption DEF Init, Typed
<1>2. Issued = Opened /\ \A t \in Opened : Owner(t) = t
  BY Facts DEF Init, Issued, Owner
<1>3. KeysOwned
  <2>1. \A t \in Tokens : reverse[t] = IF t \in Opened THEN Live(t) ELSE NoKey
    BY DEF Init
  <2>2. \A d \in Devices : forward[d] = IF d \in Opened THEN d ELSE None
    BY DEF Init
  <2> QED
    BY <1>2, <2>1, <2>2, KeyFacts DEF KeysOwned, OwnedBy
<1>4. CurrentIsFound
  BY DEF Init, CurrentIsFound, Tokens
<1>5. ASSUME NEW r \in Requests
      PROVE  Known(r)
  <2>1. /\ pc[r] = "new" /\ answer[r] = 0 /\ shown[r] = None /\ seen[r] = None
        /\ r \in Refreshes => values[r] = {} /\ \A d \in Devices : scan[r][d] = "out"
    BY DEF Init
  <2>2. Steps(r) /\ Works(r) /\ Shows(r)
    BY <1>2, <2>1 DEF Steps, Works, Shows, RegisterSteps, LoginSteps, RefreshSteps,
       LogoutSteps, Ends
  <2>3. Scans(r)
    BY <2>1 DEF Scans
  <2> QED
    BY <2>2, <2>3 DEF Known
<1>6. AccountsKept
  BY Facts DEF Init, AccountsKept, RegisteredOnce
<1> QED
  BY <1>1, <1>3, <1>4, <1>5, <1>6 DEF Inv

\* What every step is, for the abstract sessions and for the requests.
LEMMA LocalStep ==
  ASSUME Inv, NEW r \in Requests, r \notin Registers,
         Typed', Alone(r), UNCHANGED <<keys, accounts>>, Known(r)'
  PROVE  Inv'
<1>1. UNCHANGED keys /\ UNCHANGED accounts
  OBVIOUS
<1>2. KeysOwned' /\ CurrentIsFound' /\ \A q \in Requests : Known(q)'
  BY <1>1, QuietStep
<1>3. AccountsKept'
  BY <1>1, AccountsAside
<1> QED
  BY <1>2, <1>3 DEF Inv

LEMMA RegisterKeeps ==
  ASSUME Inv, NEW r \in Registers, Register(r)
  PROVE  Inv' /\ UNCHANGED keys /\ Alone(r)
<1>1. Typed' /\ Alone(r) /\ UNCHANGED keys /\ Known(r)' /\ r \in Requests
  BY RegisterLocal, Facts DEF Register
<1>2. KeysOwned' /\ CurrentIsFound' /\ \A q \in Requests : Known(q)'
  BY <1>1, QuietStep
<1>3. AccountsKept'
  BY RegisterAccounts DEF Register
<1> QED
  BY <1>1, <1>2, <1>3 DEF Inv

LEMMA OpeningKeeps ==
  ASSUME Inv, NEW r \in Logins \cup Refreshes,
         StoreSession(r) \/ (r \in Refreshes /\ Rotate(r))
  PROVE  Inv'
<1>1. PICK k \in {NoKey, Revoked(target[r])} : Opens(r, k)
  BY EveryOpening
<1>2. /\ Typed' /\ Alone(r) /\ UNCHANGED accounts
      /\ KeysOwned' /\ CurrentIsFound' /\ \A q \in Requests : Known(q)'
  BY <1>1, Opening
<1>3. AccountsKept'
  BY <1>2, AccountsAside, Facts
<1> QED
  BY <1>2, <1>3 DEF Inv

LEMMA DeleteAllKeeps ==
  ASSUME Inv, NEW r \in Refreshes, DeleteAll(r)
  PROVE  Inv'
<1> DEFINE D == {d \in Devices : scan[r][d] = "read"}
<1>1. /\ Typed' /\ Alone(r) /\ UNCHANGED accounts /\ Known(r)' /\ r \notin Issued'
      /\ Closes(D)
  BY DeleteAllFacts
<1>2. r \in Requests /\ r \notin Registers /\ D \in SUBSET Devices
  BY Facts
<1> HIDE DEF D
<1>3. KeysOwned' /\ CurrentIsFound' /\ \A q \in Requests : Known(q)'
  BY <1>1, <1>2, ClosingStep
<1>4. AccountsKept'
  BY <1>1, <1>2, AccountsAside
<1> QED
  BY <1>1, <1>3, <1>4 DEF Inv

LEMMA RevokeKeeps ==
  ASSUME Inv, NEW r \in Logouts, Revoke(r)
  PROVE  Inv'
<1>1. /\ Typed' /\ Alone(r) /\ UNCHANGED accounts /\ Known(r)' /\ r \notin Issued'
      /\ target[r] \in Devices /\ Closes({target[r]})
  BY RevokeFacts
<1>2. r \in Requests /\ r \notin Registers /\ {target[r]} \in SUBSET Devices
  BY <1>1, Facts
<1>3. KeysOwned' /\ CurrentIsFound' /\ \A q \in Requests : Known(q)'
  BY <1>1, <1>2, ClosingStep
<1>4. AccountsKept'
  BY <1>1, <1>2, AccountsAside
<1> QED
  BY <1>1, <1>3, <1>4 DEF Inv

LEMMA FailsKeeps ==
  ASSUME Inv, NEW r \in Requests, Fails(r)
  PROVE  Inv'
<1>1. Typed' /\ Alone(r) /\ UNCHANGED keys /\ Known(r)' /\ AccountsKept'
  BY FailsFacts
<1>2. KeysOwned' /\ CurrentIsFound' /\ \A q \in Requests : Known(q)'
  BY <1>1, QuietStep
<1> QED
  BY <1>1, <1>2 DEF Inv

\* A look-up: the handler goes on, and nothing but its locals changes.
LooksUp(r) ==
  \/ r \in Logins /\ \/ \E d \in Devices : FindUser(r, d)
                     \/ ReadForward(r, "store")
  \/ r \in Refreshes /\ \/ \E t \in Tokens : LookUpToken(r, t)
                        \/ Verify(r) \/ CheckUser(r) \/ ReadForward(r, "store")
                        \/ \E d \in Devices : FindKey(r, d) \/ ReadKey(r, d)
  \/ r \in Logouts /\ \/ \E t \in Tokens, u \in Users : LookUpLogout(r, t, u)
                      \/ ReadForward(r, "ttl") \/ ReadTtl(r)

LEMMA LookUpKeeps ==
  ASSUME Inv, NEW r \in Requests, LooksUp(r)
  PROVE  Inv' /\ UNCHANGED keys /\ Alone(r) /\ r \notin Registers
<1> DEFINE Goal == Typed' /\ Alone(r) /\ UNCHANGED <<keys, accounts>> /\ Known(r)'
<1>1. Goal
  <2>1. ASSUME NEW next \in {"store", "ttl"}, ReadForward(r, next),
               next = "store" => r \in Logins \cup Refreshes, next = "ttl" => r \in Logouts
        PROVE  Goal
    BY <2>1, ReadForwardLocal
  <2>2. ASSUME r \in Logins \cup Refreshes, ReadForward(r, "store")
        PROVE  Goal
    BY <2>1, <2>2
  <2>3. ASSUME r \in Logouts, ReadForward(r, "ttl")
        PROVE  Goal
    BY <2>1, <2>3
  <2>4. ASSUME r \in Logins, NEW d \in Devices, FindUser(r, d)
        PROVE  Goal
    BY <2>4, FindUserLocal
  <2>5. ASSUME r \in Refreshes, NEW t \in Tokens, LookUpToken(r, t)
        PROVE  Goal
    BY <2>5, LookUpTokenLocal
  <2>6. ASSUME r \in Refreshes, Verify(r) \/ CheckUser(r)
        PROVE  Goal
    BY <2>6, VerifyLocal
  <2>7. ASSUME r \in Refreshes, NEW d \in Devices, FindKey(r, d) \/ ReadKey(r, d)
        PROVE  Goal
    BY <2>7, ScanLocal
  <2>8. ASSUME r \in Logouts, NEW t \in Tokens, NEW u \in Users, LookUpLogout(r, t, u)
        PROVE  Goal
    BY <2>8, LookUpLogoutLocal
  <2>9. ASSUME r \in Logouts, ReadTtl(r)
        PROVE  Goal
    BY <2>9, ReadTtlLocal
  <2> HIDE DEF Goal
  <2> QED
    BY <2>2, <2>3, <2>4, <2>5, <2>6, <2>7, <2>8, <2>9 DEF LooksUp
<1>2. r \notin Registers
  BY Facts DEF LooksUp
<1> QED
  BY <1>1, <1>2, LocalStep

\* Every step is one of these.
LEMMA StepKinds ==
  ASSUME Next
  PROVE  \/ \E r \in Registers : Register(r)
         \/ \E r \in Requests : LooksUp(r) \/ Fails(r)
         \/ \E r \in Logins \cup Refreshes :
              StoreSession(r) \/ (r \in Refreshes /\ Rotate(r))
         \/ \E r \in Refreshes : DeleteAll(r)
         \/ \E r \in Logouts : Revoke(r)
         \/ \E t \in Tokens : Expire(t)
         \/ \E u \in Users : Deactivate(u)
BY Facts DEF Next, Login, Refresh, Logout, LooksUp

LEMMA StutterKeeps ==
  ASSUME Inv, UNCHANGED vars
  PROVE  Inv'
BY DEF vars, Inv, Typed, KeysOwned, OwnedBy, Owner, Issued, CurrentIsFound, Live, Known, Steps,
   Works, Shows, Retired, Scans, AccountsKept, RegisteredOnce

LEMMA NextInv ==
  ASSUME Inv, [Next]_vars
  PROVE  Inv'
<1>1. CASE Next
  BY <1>1, StepKinds, RegisterKeeps, LookUpKeeps, FailsKeeps, OpeningKeeps,
     DeleteAllKeeps, RevokeKeeps, ExpireKeeps, DeactivateKeeps
<1>2. CASE UNCHANGED vars
  BY <1>2, StutterKeeps
<1> QED
  BY <1>1, <1>2

LEMMA InvHolds == Spec => []Inv
<1>1. Init => Inv
  BY InitInv
<1>2. Inv /\ [Next]_vars => Inv'
  BY NextInv
<1> QED
  BY <1>1, <1>2, PTL DEF Spec

-----------------------------------------------------------------------------
(***************************************************************************)
(* The theorems                                                            *)
(***************************************************************************)
\* Every variable keeps its type: the keys of Redis hold tokens and devices
\* as the code wrote them.
THEOREM Typing == Spec => []TypeOK
<1>1. Inv => TypeOK
  BY DEF Inv, Typed, TypeOK, Places, Codes, Key, RegisterSteps, LoginSteps, RefreshSteps,
     LogoutSteps, Ends
<1> QED
  BY <1>1, InvHolds, PTL

\* The pipelines of user-service never leave a forward key whose token cannot
\* be looked up.
THEOREM CurrentTokenIsFound == Spec => []CurrentIsFound
<1>1. Inv => CurrentIsFound
  BY DEF Inv
<1> QED
  BY <1>1, InvHolds, PTL

\* Of the registers of an address, at most one is answered 201, however their
\* checks, their INSERTs and their commits interleave.
THEOREM AddressIsRegisteredOnce == Spec => []RegisteredOnce
<1>1. Inv => RegisteredOnce
  BY DEF Inv, AccountsKept
<1> QED
  BY <1>1, InvHolds, PTL

\* A logout answered with 204 has retired the token in its body for ever.
THEOREM LogoutEndsTheSession == Spec => []LogoutEnds
<1>1. Inv => LogoutEnds
  BY Facts DEF Inv, Known, Shows, Retired, LogoutEnds
<1> QED
  BY <1>1, InvHolds, PTL

\* Whichever request steps, where the others are does not change.
LEMMA OneMoves ==
  ASSUME Inv, Next, NEW r \in Refreshes, pc'[r] # pc[r]
  PROVE  Refresh(r) \/ Fails(r)
<1>1. r \in Requests /\ r \notin Registers /\ r \notin Logins /\ r \notin Logouts
  BY Facts
<1>2. ASSUME NEW q \in Requests, Alone(q)
      PROVE  q = r
  BY <1>1, <1>2 DEF Alone, Same
<1>3. CASE \E q \in Registers : Register(q)
  BY <1>1, <1>2, <1>3, RegisterKeeps, Facts
<1>4. CASE \E q \in Requests : Fails(q)
  BY <1>2, <1>4, FailsFacts
<1>5. CASE \E q \in Logins : Login(q)
  <2>1. PICK q \in Logins : Login(q)
    BY <1>5
  <2>2. Alone(q)
    <3>1. CASE LooksUp(q)
      BY <3>1, LookUpKeeps, Facts
    <3>2. CASE StoreSession(q)
      BY <3>2, EveryOpening, Opening
    <3> QED
      BY <2>1, <3>1, <3>2 DEF Login, LooksUp
  <2> QED
    BY <1>1, <1>2, <2>2, Facts
<1>6. CASE \E q \in Refreshes : Refresh(q)
  <2>1. PICK q \in Refreshes : Refresh(q)
    BY <1>6
  <2>2. Alone(q)
    <3>1. CASE LooksUp(q)
      BY <3>1, LookUpKeeps, Facts
    <3>2. CASE Rotate(q)
      BY <3>2, EveryOpening, Opening
    <3>3. CASE DeleteAll(q)
      BY <3>3, DeleteAllFacts
    <3> QED
      BY <2>1, <3>1, <3>2, <3>3 DEF Refresh, LooksUp
  <2> QED
    BY <1>2, <2>1, <2>2, Facts
<1>7. CASE \E q \in Logouts : Logout(q)
  <2>1. PICK q \in Logouts : Logout(q)
    BY <1>7
  <2>2. Alone(q)
    <3>1. CASE LooksUp(q)
      BY <3>1, LookUpKeeps, Facts
    <3>2. CASE Revoke(q)
      BY <3>2, RevokeFacts
    <3> QED
      BY <2>1, <3>1, <3>2 DEF Logout, LooksUp
  <2> QED
    BY <1>1, <1>2, <2>2, Facts
<1>8. CASE (\E t \in Tokens : Expire(t)) \/ (\E u \in Users : Deactivate(u))
  BY <1>8 DEF Expire, Deactivate
<1> QED
  BY <1>3, <1>4, <1>5, <1>6, <1>7, <1>8 DEF Next

\* A token that has been exchanged is retired, so a later verification of it
\* finds another one, or none, in the forward key, and raises the alarm.
THEOREM ExchangedIsNeverVerified == Spec => ExchangedNeverVerifies
<1> DEFINE Step == \A q, r \in Refreshes :
                     /\ answer[q] = 200 /\ shown'[r] = shown[q]
                     /\ pc[r] \in {"new", "verify"}
                     => pc'[r] \notin {"user", "read", "store"}
<1>1. Inv /\ [Next]_vars => [Step]_vars
  <2> SUFFICES ASSUME Inv, Next, NEW q \in Refreshes, NEW r \in Refreshes,
                      answer[q] = 200, shown'[r] = shown[q],
                      pc[r] \in {"new", "verify"}, pc'[r] \in {"user", "read", "store"}
               PROVE  FALSE
    OBVIOUS
  <2>1. Refresh(r)
    <3>1. Refresh(r) \/ Fails(r)
      BY OneMoves
    <3>2. ~Fails(r)
      BY FailsFacts, Facts DEF Fails, Goto, Inv, Typed
    <3> QED
      BY <3>1, <3>2
  <2>2. Verify(r) \/ \E t \in Tokens : LookUpToken(r, t)
    BY <2>1 DEF Refresh, CheckUser, ReadForward, Rotate, FindKey, ReadKey, DeleteAll
  <2>3. CASE \E t \in Tokens : LookUpToken(r, t)
    <3>1. WentTo(r, "scan") \/ WentTo(r, "verify") \/ AnsweredBy(r, 401)
      BY <2>3, Facts, Named, GotoFacts, RespondFacts DEF LookUpToken, Alarm, Inv
    <3> QED
      BY <3>1 DEF WentTo, AnsweredBy
  <2>4. CASE Verify(r)
    <3>1. Retired(shown[q]) /\ shown'[r] = shown[r]
      BY <2>4, Facts DEF Inv, Known, Shows, Verify
    <3>2. target[r] \in Devices
      BY <2>4, Facts DEF Inv, Known, Works, Verify
    <3>3. forward[target[r]] # shown[r]
      BY <3>1, <3>2 DEF Retired
    <3>4. WentTo(r, "scan")
      BY <2>4, <3>3, Facts, Named, GotoFacts DEF Verify, Alarm, Inv
    <3> QED
      BY <3>4 DEF WentTo
  <2> QED
    BY <2>2, <2>3, <2>4
<1>2. Spec => [][Step]_vars
  BY <1>1, InvHolds, PTL DEF Spec
<1> QED
  BY <1>2 DEF ExchangedNeverVerifies

\* Only the pipelines of login and refresh issue a token.
LEMMA LookUpIssuesNothing ==
  ASSUME Inv, NEW r \in Requests, LooksUp(r) \/ Fails(r)
  PROVE  Alone(r) /\ UNCHANGED keys /\ r \notin Issued'
<1>1. Alone(r) /\ UNCHANGED keys
  BY LookUpKeeps, FailsFacts
<1>2. \/ \E step \in {"read", "store", "ttl", "verify", "user", "scan", "revoke", "dead"} :
           Goto(r, step)
      \/ \E code \in {204, 401, 403} : Respond(r, code)
      \/ UNCHANGED pc
  BY DEF LooksUp, Fails, FindUser, ReadForward, LookUpToken, Verify, CheckUser, FindKey,
     ReadKey, LookUpLogout, ReadTtl, Alarm
<1>3. \/ pc'[r] # "done"
      \/ pc'[r] = "done" /\ answer'[r] \in {204, 401, 403}
  <2>1. CASE \E step \in {"read", "store", "ttl", "verify", "user", "scan", "revoke",
                         "dead"} : Goto(r, step)
    BY <2>1 DEF Goto, Inv, Typed
  <2>2. CASE \E code \in {204, 401, 403} : Respond(r, code)
    BY <2>2, Named, RespondFacts DEF Inv, AnsweredBy
  <2>3. CASE UNCHANGED pc
    BY <1>1, <2>3 DEF Alone, Ends
  <2> QED
    BY <1>2, <2>1, <2>2, <2>3
<1> QED
  BY <1>1, <1>3, Facts DEF Issued

\* The keys of Redis implement the abstract sessions: a pipeline opens one
\* session or ends those of one user, and no other step changes any.
THEOREM SessionsAreKept == Spec => SessionsKept
<1>1. Init => S!Init
  BY Facts DEF Init, S!Init, Issued
<1>2. Inv /\ [Next]_vars => [S!Next]_<<forward, Issued>>
  <2> SUFFICES ASSUME Inv, [Next]_vars
               PROVE  S!Next \/ UNCHANGED <<forward, Issued>>
    OBVIOUS
  <2>1. ASSUME NEW r \in Requests, Alone(r), r \notin Issued'
        PROVE  Issued' = Issued
    <3>1. \A q \in Requests : q # r => pc'[q] = pc[q] /\ answer'[q] = answer[q]
      BY <2>1 DEF Alone, Same
    <3>2. pc[r] # "done" /\ r \notin Opened
      BY <2>1, Facts DEF Alone, Ends
    <3> QED
      BY <2>1, <3>1, <3>2, Facts DEF Issued
  <2>2. ASSUME NEW D \in SUBSET Devices, Closes(D), Typed', Issued' = Issued,
               \A d, e \in D : UserOf[d] = UserOf[e]
        PROVE  S!Next
    <3>1. forward' = [d \in Devices |-> IF d \in D THEN None ELSE forward[d]]
      BY <2>2 DEF Closes, Typed
    <3> QED
      BY <2>2, <3>1 DEF S!Next, S!Close
  <2>3. CASE UNCHANGED vars
    BY <2>3 DEF vars, Issued
  <2>4. ASSUME NEW r \in Registers, Register(r)
        PROVE  UNCHANGED <<forward, Issued>>
    BY <2>1, <2>4, RegisterKeeps, Facts DEF Issued, keys
  <2>5. ASSUME NEW r \in Requests, LooksUp(r) \/ Fails(r)
        PROVE  UNCHANGED <<forward, Issued>>
    BY <2>1, <2>5, LookUpIssuesNothing DEF keys
  <2>6. ASSUME NEW r \in Logins \cup Refreshes,
               StoreSession(r) \/ (r \in Refreshes /\ Rotate(r))
        PROVE  S!Next
    <3>1. PICK k \in {NoKey, Revoked(target[r])} : Opens(r, k)
      BY <2>6, EveryOpening
    <3>2. target[r] \in Devices /\ r \in Tokens \ Issued /\ Issued' = Issued \cup {r}
      BY <3>1, Opening
    <3>3. forward' = [forward EXCEPT ![target[r]] = r]
      BY <3>1 DEF Opens
    <3>4. S!Open(target[r], r)
      BY <3>2, <3>3 DEF S!Open
    <3> QED
      BY <3>2, <3>4 DEF S!Next
  <2>7. ASSUME NEW r \in Refreshes, DeleteAll(r)
        PROVE  S!Next
    <3> DEFINE D == {d \in Devices : scan[r][d] = "read"}
    <3>1. Typed' /\ Alone(r) /\ r \notin Issued' /\ Closes(D)
      BY <2>7, DeleteAllFacts
    <3>2. Issued' = Issued
      BY <2>1, <3>1, Facts
    <3>3. \A d, e \in D : UserOf[d] = UserOf[e]
      BY Facts DEF Inv, Known, Scans
    <3>4. D \in SUBSET Devices
      OBVIOUS
    <3> HIDE DEF D
    <3> QED
      BY <2>2, <3>1, <3>2, <3>3, <3>4
  <2>8. ASSUME NEW r \in Logouts, Revoke(r)
        PROVE  S!Next
    <3>1. /\ Typed' /\ Alone(r) /\ r \notin Issued' /\ target[r] \in Devices
          /\ Closes({target[r]})
      BY <2>8, RevokeFacts
    <3>2. Issued' = Issued
      BY <2>1, <3>1, Facts
    <3> QED
      BY <2>2, <3>1, <3>2
  <2>9. ASSUME NEW x \in Tokens, Expire(x)
         PROVE  S!Next
    <3> DEFINE D == {d \in Devices : forward[d] = x}
    <3>1. Typed' /\ Issued' = Issued /\ Closes(D)
      BY <2>9, ExpireFacts
    <3>2. x # None
      BY RequestsAssumption, DevicesAssumption DEF Tokens, Requests
    <3>3. \A d, e \in D : d = e
      BY <3>2 DEF Inv, KeysOwned, OwnedBy
    <3>4. D \in SUBSET Devices
      OBVIOUS
    <3> HIDE DEF D
    <3>5. \A d, e \in D : UserOf[d] = UserOf[e]
      BY <3>3
    <3> QED
      BY <2>2, <3>1, <3>4, <3>5
  <2>10. ASSUME NEW u \in Users, Deactivate(u)
         PROVE  UNCHANGED <<forward, Issued>>
    BY <2>10 DEF Deactivate, keys, Issued
  <2> QED
    BY <2>3, <2>4, <2>5, <2>6, <2>7, <2>8, <2>9, <2>10, StepKinds
<1> QED
  BY <1>1, <1>2, InvHolds, PTL DEF Spec, SessionsKept, S!Spec
=============================================================================
