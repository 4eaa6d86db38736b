----------------------------- MODULE MCSessions -----------------------------
EXTENDS Sessions, TLC

\* The slots that serve requests are interchangeable.
AnySlot == Permutations(Client)
=============================================================================
