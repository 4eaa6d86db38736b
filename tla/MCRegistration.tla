--------------------------- MODULE MCRegistration ---------------------------
EXTENDS Registration, TLC

\* Request slots, ids of workers and phone numbers are interchangeable.
Renaming == {s @@ w @@ p : s \in Permutations(Client), w \in Permutations(Worker),
                           p \in Permutations(Phone)}
=============================================================================
