------------------------ MODULE MCChatConfirmations ------------------------
(***************************************************************************)
(* ChatConfirmations for model checking: two requests, of one user or of   *)
(* two, that touch two keys.  Renaming users, keys and requests turns any  *)
(* other plan of that size into one of these, up to one bound: one of the  *)
(* requests touches at most one key.                                       *)
(***************************************************************************)
EXTENDS ChatConfirmations

CONSTANTS r1, r2, u1, k1

SmallPlans ==
  {f \in [Requests -> Request] :
     /\ f[r1].user = u1
     /\ f[r1].keys # {} => k1 \in f[r1].keys
     /\ Cardinality(f[r2].keys) <= 1
     /\ IF Cardinality(f[r1].keys) <= 1
        THEN Rank[f[r1].kind] <= Rank[f[r2].kind]
        ELSE f[r2].keys \subseteq {k1}}
=============================================================================
