------------------------------ MODULE FileStore ------------------------------
(***************************************************************************)
(* What a connection of a client promises its user: the commands are       *)
(* carried out one by one, in the order they were given, each once, on the *)
(* user's directory in ./database; but a download or a second upload may   *)
(* break the connection, and then nothing is promised any more: any file   *)
(* may be overwritten or removed, and files with names nobody gave appear. *)
(* Module Transfer implements it.                                          *)
(***************************************************************************)
EXTENDS Integers, Sequences

CONSTANTS File, OtherName, MaxCommands

VARIABLES
  said,     \* the commands the user has given, in order
  applied,  \* how many of them are carried out
  files,    \* what each file holds: the number of its upload, 0 for no file
  broken,   \* whether the promise has ended
  strange   \* the names under which something else is, or is missing, since then

vars == <<said, applied, files, broken, strange>>

Command == [op    : {"upload", "download", "delete", "list", "exit"},
            file  : File,
            empty : BOOLEAN]     \* an upload of a file of no bytes

Init ==
  /\ said = <<>>
  /\ applied = 0
  /\ files = [f \in File |-> 0]
  /\ broken = FALSE
  /\ strange = {}

Say ==
  /\ Len(said) < MaxCommands
  /\ \E c \in Command : said' = Append(said, c)
  /\ UNCHANGED <<applied, files, broken, strange>>

\* What the directory holds after command n.
Effect(n) ==
  CASE said[n].op = "upload" -> [files EXCEPT ![said[n].file] = n]
    [] said[n].op = "delete" -> [files EXCEPT ![said[n].file] = 0]
    [] OTHER                 -> files

Apply ==
  /\ ~broken
  /\ applied < Len(said)
  /\ applied' = applied + 1
  /\ files' = Effect(applied + 1)
  /\ UNCHANGED <<said, broken, strange>>

\* A download, or two uploads; deletes, lists and one upload never do.
Break ==
  /\ ~broken
  /\ \E m, n \in 1 .. Len(said) :
       said[m].op = "download" \/ (m # n /\ said[m].op = "upload" /\ said[n].op = "upload")
  /\ broken' = TRUE
  /\ UNCHANGED <<said, applied, files, strange>>

Stray ==
  /\ broken
  /\ \E name \in File \cup {OtherName} : strange' = strange \cup {name}
  /\ UNCHANGED <<said, applied, files, broken>>

Next == Say \/ Apply \/ Break \/ Stray
Spec == Init /\ [][Next]_vars
=============================================================================
