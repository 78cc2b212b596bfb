---------------------------- MODULE MCNodeGateway ----------------------------
(* NodeGateway on small instances: sessions of one identity, one after the *)
(* other, or of two identities that share the report permits.              *)
EXTENDS NodeGateway, TLC

Symmetry == Permutations(Conns)
=============================================================================
