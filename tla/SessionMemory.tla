--------------------------- MODULE SessionMemory ---------------------------
(***************************************************************************)
(* session_memory_storage (src/session_memory_storage.cpp): sessions in a  *)
(* map, with an index by the end of their life that every change uses to   *)
(* collect a few dead ones.  Every operation runs under mutex_ and is one  *)
(* action.  The multimap timeout_ is a sequence of [at, sid] in order.     *)
(***************************************************************************)
EXTENDS Integers, SequencesExt

CONSTANTS Sids, Values, Nil,
          Batch,        \* entries that short_gc() removes at most: 5 in the code
          MaxTime       \* bound on the clock

VARIABLES
    map_,           \* sid -> [timeout, info] or Nil
    timeout_,       \* entries [at, sid], ordered by at, oldest of equals first
    now

vars == <<map_, timeout_, now>>

Init == map_ = [s \in Sids |-> Nil] /\ timeout_ = <<>> /\ now = 0

\* multimap::insert(), behind the entries of the same time
Inserted(index, at, s) ==
    LET n == Cardinality({i \in DOMAIN index : index[i].at <= at})
    IN  InsertAt(index, n + 1, [at |-> at, sid |-> s])

\* multimap::erase() of the entry that the record of s points to
Erased(index, s) == SelectSeq(index, LAMBDA e : e.sid # s)

short_gc_Eager(map, index) ==
    LET n == Min({Batch, Cardinality({i \in DOMAIN index : index[i].at <= now})})
        dead == {index[i].sid : i \in 1..n}
    IN  /\ timeout_' = SubSeq(index, n + 1, Len(index))
        /\ map_' = [s \in Sids |-> IF s \in dead THEN Nil ELSE map[s]]

\* short_gc(), on the map and the index that the operation has left
short_gc(map, index) ==
    LET n == Min({Batch, Cardinality({i \in DOMAIN index : index[i].at < now})})
        dead == {index[i].sid : i \in 1..n}
    IN  /\ timeout_' = SubSeq(index, n + 1, Len(index))
        /\ map_' = [s \in Sids |-> IF s \in dead THEN Nil ELSE map[s]]

save_KeepsIndex(s, to, v) ==
    /\ short_gc([map_ EXCEPT ![s] = [timeout |-> to, info |-> v]],
                Inserted(timeout_, to, s))
    /\ UNCHANGED now

save(s, to, v) ==
    /\ short_gc([map_ EXCEPT ![s] = [timeout |-> to, info |-> v]],
                Inserted(Erased(timeout_, s), to, s))
    /\ UNCHANGED now

remove(s) ==
    /\ map_[s] # Nil
    /\ short_gc([map_ EXCEPT ![s] = Nil], Erased(timeout_, s))
    /\ UNCHANGED now

\* What load() returns: the record, or Nil
load(s) == IF map_[s] = Nil \/ map_[s].timeout < now THEN Nil ELSE map_[s]

Tick == now < MaxTime /\ now' = now + 1 /\ UNCHANGED <<map_, timeout_>>

Next == \/ \E s \in Sids, to \in 0..MaxTime, v \in Values : save(s, to, v)
        \/ \E s \in Sids : remove(s)
        \/ Tick

Spec == Init /\ [][Next]_vars
-----------------------------------------------------------------------------
(* Properties *)

\* The map and the index hold the same sessions with the same times, each once,
\* and the index is ordered: the iterators that they keep of each other are valid.
IndexAgrees ==
    /\ \A s \in Sids : map_[s] # Nil =>
          Cardinality({i \in DOMAIN timeout_ : timeout_[i].sid = s}) = 1
    /\ \A i \in DOMAIN timeout_ :
          /\ map_[timeout_[i].sid] # Nil
          /\ map_[timeout_[i].sid].timeout = timeout_[i].at
    /\ \A i, j \in DOMAIN timeout_ : i < j => timeout_[i].at <= timeout_[j].at

\* Collecting changes nothing that can be loaded: an operation on one session
\* changes what load() returns for this one only.
OnlyOneChanges ==
    [][now' = now => Cardinality({s \in Sids : load(s)' # load(s)}) <= 1]_vars
=============================================================================
