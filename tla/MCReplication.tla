--------------------------- MODULE MCReplication ---------------------------
(* Instances of Replication for TLC: workloads and constants for the .cfg files. *)
EXTENDS Replication, TLC

CONSTANTS w1, w2, n1, n2, n3, f1, d1, d2, ann, bob

Do(kind, name, id, type, file) ==
  [kind |-> kind, name |-> name, id |-> id, type |-> type, file |-> file]

Descriptors == {1}

\* Everything one user with one device and one file can do.
Mixed ==
  {Do("LOGIN", ann, d1, "T1", NoFile), Do("EXIT", ann, d1, "T1", NoFile),
   Do("UPLOAD", ann, d1, "T1", f1), Do("DELETE", ann, d1, "T1", f1)}

\* ... with two devices, and another user.
Everything ==
  Mixed \cup
  {Do("LOGIN", ann, d2, "T2", NoFile),
   Do("LOGIN", bob, d1, "T1", NoFile)}

Symmetry == Permutations(Worker) \cup Permutations(Server)
=============================================================================
