----------------------------- MODULE MCBoxSync -----------------------------
(* Instances of BoxSync for TLC. *)
EXTENDS BoxSync, TLC

CONSTANTS b1, b2, f1, f2

\* f1 is on the server and, as it was before, in the folder of b1; f2 only in b2's.
Apart == [b \in Box |-> [f \in File |->
            IF <<b, f>> \in {<<b1, f1>>, <<b2, f2>>} THEN Earlier ELSE 0]]
OnServer == [f \in File |-> IF f = f1 THEN Older ELSE 0]

\* Nothing anywhere.
NoFolders == [b \in Box |-> [f \in File |-> 0]]
NoFiles   == [f \in File |-> 0]

=============================================================================
