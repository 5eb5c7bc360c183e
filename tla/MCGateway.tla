----------------------------- MODULE MCGateway ------------------------------
(***************************************************************************)
(* Requests of every kind, of which any three arrive: with tokens of the   *)
(* old and of the new key, of a kid nobody serves, expired, unreadable or  *)
(* absent.                                                                 *)
(***************************************************************************)
EXTENDS Gateway

CONSTANTS c1, c2

Bearer(kid, key, expired) ==
  [kid |-> kid, key |-> key, expired |-> expired, user |-> "7"]

\* method, path, token, claim of the client, client
Kind == [
  order1   |-> <<"POST", <<"orders">>, Bearer("none", "old", FALSE), None, c1>>,
  order2   |-> <<"GET", <<"orders", "1">>, Bearer("none", "new", FALSE), "9", c1>>,
  otherKid |-> <<"GET", <<"products">>, Bearer("other", "old", FALSE), None, c1>>,
  tooOld   |-> <<"GET", <<"orders">>, Bearer("served", "old", TRUE), None, c2>>,
  garbled  |-> <<"GET", <<"products", "1">>, Bearer("garbled", "foreign", FALSE), None, c2>>,
  browse   |-> <<"GET", <<"products">>, None, "9", c2>>,
  noToken  |-> <<"POST", <<"products">>, None, None, c2>>,
  logout   |-> <<"POST", <<"auth", "logout">>, Bearer("none", "old", TRUE), "9", c2>>,
  health   |-> <<"GET", <<"health">>, None, None, c2>>,
  nowhere  |-> <<"GET", <<"products-old">>, Bearer("none", "old", FALSE), None, c2>>]

MCRequests == DOMAIN Kind
MCMethod   == [r \in MCRequests |-> Kind[r][1]]
MCPath     == [r \in MCRequests |-> Kind[r][2]]
MCToken    == [r \in MCRequests |-> Kind[r][3]]
MCClaims   == [r \in MCRequests |-> Kind[r][4]]
MCClient   == [r \in MCRequests |-> Kind[r][5]]
=============================================================================
