------------------------------ MODULE MCKeySet ------------------------------
\* Small instances of KeySet: feeds a panel can return, with and without a common link.
EXTENDS KeySet

CONSTANTS k1, k2

ChangingFeeds == {<<k1>>, <<k2>>}
TwoFeeds == {<<k1>>, <<k2, k1>>}

\* Nothing chooses one connection, or one manager, rather than another.
Interchangeable == Permutations(Procs) \cup Permutations(Mgrs)
=============================================================================
