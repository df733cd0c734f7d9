------------------------------ MODULE MCBookmarks ------------------------------
(***************************************************************************)
(* Instances of Bookmarks.  Users, handlers and field values are only ever *)
(* compared for equality, so permuting them changes nothing.               *)
(***************************************************************************)
EXTENDS Bookmarks, TLC

CONSTANTS u1, u2, r1, r2, a, b

Alike == Permutations(User) \cup Permutations(Request) \cup Permutations(Value)

================================================================================
