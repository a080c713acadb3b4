----------------------------- MODULE MCSessions -----------------------------
(* Instances of Sessions for TLC: values of the constants for the .cfg files. *)
EXTENDS Sessions, TLC

CONSTANTS c1, c2, c3, d1, d2, ann, bob

\* One user at every client.
SameUser == [c \in Client |-> ann]

\* The first two clients belong to one user, the third to another.
TwoUsers == [c \in Client |-> IF c = c3 THEN bob ELSE ann]

\* Every client has a user of its own.
OwnUser == [c \in Client |-> IF c = c1 THEN ann ELSE bob]

\* Every client has a user of its own, called like the client.
Eponymous == [c \in Client |-> c]

\* Clients of the same user, and device numbers, are interchangeable.
Symmetry == Permutations(Client) \cup Permutations(DeviceId)

\* ... when c3 has a user of its own, only the first two clients are.
SymmetryTwo == Permutations(Client \ {c3}) \cup Permutations(DeviceId)

Descriptors == 1 .. 3 * Cardinality(Client)
=============================================================================
