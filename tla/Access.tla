--------------------------------- MODULE Access ---------------------------------
(***************************************************************************)
(* The limiter in front of the accounts (auth/dependencies.py).  A         *)
(* registration or login costs its socket peer one request of the auth     *)
(* policy before anything else is done for it.  A request with a token     *)
(* costs nothing here: the bookmark policy, another table of this kind     *)
(* keyed by accounts, charges it once it is authenticated.                 *)
(***************************************************************************)
EXTENDS RateLimit, Accounts

ASSUME PeerAssumption == Client \subseteq Key      \* a client is its address

accessVars == <<vars, accountVars>>

\* enforce_auth_rate_limit lets the request through, or ends it.
Attempt(c) == Allow(c) /\ Admit(c)

Refuse(c) ==
    /\ Is(c, "away")
    /\ Reject(c) \/ RejectUnseen(c)
    /\ UNCHANGED accountVars

--------------------------------------------------------------------------------
AccessInit == Init /\ AccountsInit

AccessNext ==
    \/ \E c \in Client : Attempt(c) \/ Refuse(c)
    \/ AccountStep /\ UNCHANGED vars
    \/ Tick /\ UNCHANGED accountVars

AccessSpec == AccessInit /\ [][AccessNext]_accessVars

================================================================================
