------------------------------ MODULE HashMap ------------------------------
(***************************************************************************)
(* cppcms::impl::details::basic_map (private/hash_map.h): one list of all  *)
(* entries in which the entries of a bucket are neighbours, and a table of *)
(* the first and the last entry of every bucket.                           *)
(*                                                                         *)
(* The list is a sequence of keys.  insert() may fail for want of memory.  *)
(***************************************************************************)
EXTENDS Integers, SequencesExt

CONSTANTS Keys,
          Hash,             \* key -> hash value
          MaxTable,         \* bound on the argument of rehash()
          Nil

VARIABLES
    list_,          \* sequence of the keys
    hash_,          \* bucket -> [first, second]; a function on 0..n-1
    size_,
    content         \* history: the keys that were inserted and not erased

vars == <<list_, hash_, size_, content>>

NoRange == [first |-> Nil, second |-> Nil]
Table(n) == [i \in 0..(n - 1) |-> NoRange]
TableSize(h) == Cardinality(DOMAIN h)

Init == list_ = <<>> /\ hash_ = Table(0) /\ size_ = 0 /\ content = {}

\* get(): the bucket of a key.  The table must not be empty.
get(h, k) == Hash[k] % TableSize(h)

Position(l, k) == CHOOSE i \in DOMAIN l : l[i] = k
After(l, k)    == LET i == Position(l, k) IN IF i = Len(l) THEN Nil ELSE l[i + 1]
Before(l, k)   == LET i == Position(l, k) IN IF i = 1 THEN Nil ELSE l[i - 1]

\* find_in_range(): the entries from first to second, or to the end of the list
Scanned(l, r) ==
    IF r.first = Nil THEN {}
    ELSE LET i == Position(l, r.first)
             ends == {j \in i..Len(l) : l[j] = r.second}
         IN  {l[j] : j \in i..(IF ends = {} THEN Len(l) ELSE Min(ends))}

find(k) == TableSize(hash_) > 0 /\ k \in Scanned(list_, hash_[get(hash_, k)])

Linked_NewFirst(m, k) ==
    LET i == get(m.hash, k)  r == m.hash[i] IN
    IF r.second = Nil
    THEN [list |-> Append(m.list, k),
          hash |-> [m.hash EXCEPT ![i] = [first |-> k, second |-> k]]]
    ELSE [list |-> InsertAt(m.list, Position(m.list, r.second) + 1, k),
          hash |-> [m.hash EXCEPT ![i] = [first |-> k, second |-> k]]]

\* The entry goes behind the last one of its bucket, or to the end of the list.
Linked(m, k) ==
    LET i == get(m.hash, k)  r == m.hash[i] IN
    IF r.second = Nil
    THEN [list |-> Append(m.list, k),
          hash |-> [m.hash EXCEPT ![i] = [first |-> k, second |-> k]]]
    ELSE [list |-> InsertAt(m.list, Position(m.list, r.second) + 1, k),
          hash |-> [m.hash EXCEPT ![i].second = k]]

\* rehash(): the entries, in their order, into a table of n buckets
Rehashed(l, n) == FoldLeft(Linked, [list |-> <<>>, hash |-> Table(n)], l)

next_size == (1 + size_) * 2

\* rehash_if_needed()
rehash_if_needed == IF size_ + 1 >= TableSize(hash_) THEN Rehashed(list_, next_size)
                    ELSE [list |-> list_, hash |-> hash_]

insert(k) ==
    LET m == rehash_if_needed
        present == k \in Scanned(m.list, m.hash[get(m.hash, k)])
        n == IF present THEN m ELSE Linked(m, k)
    IN  /\ list_' = n.list /\ hash_' = n.hash
        /\ size_' = IF present THEN size_ ELSE size_ + 1
        /\ content' = content \cup {k}

\* The table has grown, and there is no memory for the entry.
insert_fails(k) ==
    /\ ~find(k)
    /\ list_' = rehash_if_needed.list /\ hash_' = rehash_if_needed.hash
    /\ UNCHANGED <<size_, content>>

erase(k) ==
    LET i == get(hash_, k)  r == hash_[i] IN
    /\ find(k)
    /\ hash_' = [hash_ EXCEPT ![i] =
           IF r.first = r.second THEN NoRange
           ELSE IF r.first = k THEN [r EXCEPT !.first = After(list_, k)]
           ELSE IF r.second = k THEN [r EXCEPT !.second = Before(list_, k)]
           ELSE r]
    /\ list_' = Remove(list_, k)
    /\ size_' = size_ - 1
    /\ content' = content \ {k}

\* clear() empties the whole table, or only the buckets of the entries.
clear ==
    /\ hash_' = IF size_ \div 4 >= TableSize(hash_) THEN Table(TableSize(hash_))
                ELSE [i \in DOMAIN hash_ |->
                         IF \E k \in ToSet(list_) : get(hash_, k) = i THEN NoRange ELSE hash_[i]]
    /\ list_' = <<>> /\ size_' = 0 /\ content' = {}

\* mem_cache calls rehash() on a map that it has cleared; n may be 0 then.
rehash(n) ==
    /\ n > 0 \/ list_ = <<>>
    /\ list_' = Rehashed(list_, n).list /\ hash_' = Rehashed(list_, n).hash
    /\ UNCHANGED <<size_, content>>

Next == \/ \E k \in Keys : insert(k) \/ insert_fails(k) \/ erase(k)
        \/ clear
        \/ \E n \in 0..MaxTable : rehash(n)

Spec == Init /\ [][Next]_vars
-----------------------------------------------------------------------------
(* Properties *)

\* What was inserted and not erased is found, and nothing else; the list has the
\* same keys, each once.
FindsContent ==
    /\ \A k \in Keys : find(k) <=> k \in content
    /\ ToSet(list_) = content /\ IsInjective(list_)
    /\ size_ = Len(list_)
=============================================================================
