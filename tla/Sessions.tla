------------------------------ MODULE Sessions ------------------------------
(***************************************************************************)
(* What user-service promises about the sessions of its users: every       *)
(* device has at most one current refresh token, a token becomes current   *)
(* once, when it is issued, and whatever ends sessions ends those of one   *)
(* user.                                                                   *)
(***************************************************************************)
CONSTANTS
  Devices,   \* of all users
  UserOf,    \* the user of a device
  Tokens,    \* every refresh token ever issued
  Opened,    \* devices with a session at the start, named like its token
  None       \* no token

VARIABLES
  current,   \* the refresh token of each device
  issued     \* tokens issued so far

Init == /\ current = [d \in Devices |-> IF d \in Opened THEN d ELSE None]
        /\ issued = Opened

Open(d, t) == /\ t \notin issued
              /\ issued' = issued \cup {t}
              /\ current' = [current EXCEPT ![d] = t]

Close(D) == /\ \A d, e \in D : UserOf[d] = UserOf[e]
            /\ current' = [d \in Devices |->
                             IF d \in D THEN None ELSE current[d]]
            /\ UNCHANGED issued

Next == \/ \E d \in Devices, t \in Tokens : Open(d, t)
        \/ \E D \in SUBSET Devices : Close(D)

Spec == Init /\ [][Next]_<<current, issued>>
=============================================================================
