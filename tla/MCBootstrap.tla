----------------------------- MODULE MCBootstrap ----------------------------
(***************************************************************************)
(* Every database a release may find: empty, left by any revision, with or *)
(* without duplicate references, or made before there were revisions.      *)
(***************************************************************************)
EXTENDS Bootstrap

Left(v) == UNION {Adds(r) \cup Pledges(r) : r \in 1 .. v}

Unversioned == (ShopTables \cup RemainingTables) \X {0}

MCHistory ==
  {[parts |-> Left(v), version |-> v, duplicates |-> FALSE] : v \in 0 .. Latest}
  \cup {[parts |-> Left(v), version |-> v, duplicates |-> TRUE] : v \in 1 .. 3}
  \cup {[parts |-> Unversioned, version |-> 0, duplicates |-> FALSE]}
=============================================================================
