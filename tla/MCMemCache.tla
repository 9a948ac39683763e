---------------------------- MODULE MCMemCache ----------------------------
EXTENDS MemCache

\* Keys, tags and readers are interchangeable.
Symmetry == Permutations(Keys) \cup Permutations(Tags) \cup Permutations(Readers)

\* A cache of threads with a limit of one entry, one that is the first level of a
\* cache over IP, and one in shared memory.
thread_settings  == [runs_short |-> FALSE, size_limit |-> 100, limit |-> 1, gens |-> {Nil}]
first_level      == [thread_settings EXCEPT !.limit = 0, !.gens = {7}]
process_settings == [runs_short |-> TRUE, size_limit |-> 1, limit |-> 0, gens |-> {Nil}]

AllSetups == {thread_settings, first_level, process_settings}

\* No trigger, or one that may be the key of an entry.
AtMostOne == {trigs \in SUBSET (Keys \cup Tags) : Cardinality(trigs) <= 1}
=============================================================================
