-------------------------------- MODULE MCAccess --------------------------------
(***************************************************************************)
(* Instances of Access.  Addresses are opaque digests to the limiter and   *)
(* no client differs from another, so permuting them changes nothing.      *)
(***************************************************************************)
EXTENDS Access, TLC

CONSTANTS c1, c2

Alike == Permutations(Key)

\* The seed's identity, one apart from it, and one that has its username.
SeedsOwn == <<"reader", "reader@example.test">>
Identities == {SeedsOwn, <<"writer", "writer@example.test">>,
               <<"reader", "writer@example.test">>}

================================================================================
