----------------------------- MODULE MCDbWrite -----------------------------
(* DbWrite for model checking: clients are interchangeable, and the runs   *)
(* with a failing connection leave out the characters after it.            *)
EXTENDS DbWrite, TLC

Symmetry == Permutations(Clients)

\* Bound: once a connection has failed there are no characters, neither in the
\* file nor in a copy of the server or of a page.
BreaksWithoutCharacters ==
  broken > 0 => \A r \in {file, root} \cup {db[c] : c \in Clients} :
                  r = NoRoot \/ r.dir = {}
=============================================================================
