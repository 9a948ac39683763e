--------------------------- MODULE MCSessionFile ---------------------------
(* Uses of SessionFileStorage: threads, processes and contents.            *)
EXTENDS SessionFileStorage, TLC

CONSTANTS t1, t2, t3, s1

OneMutex     == [s \in Sids |-> 0]
ShortAndLong == {<<"a">>, <<"b", "b">>}

\* Two processes that lock the files, two that share the mutexes, and two that
\* lock the files where one of them has two threads.
Locked == [file_lock_ |-> TRUE, process |-> t1 :> 1 @@ t2 :> 2, calls |-> 4, crashes |-> 1]
Shared == [file_lock_ |-> FALSE, process |-> t1 :> 1 @@ t2 :> 2, calls |-> 4, crashes |-> 1]
Mixed  == [file_lock_ |-> TRUE, process |-> t1 :> 1 @@ t2 :> 1 @@ t3 :> 2, calls |-> 3, crashes |-> 0]

AllSetups == {Locked, Shared, Mixed}

InodeSymmetry == Permutations(Inodes)
=============================================================================
