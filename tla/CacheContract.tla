--------------------------- MODULE CacheContract ---------------------------
(***************************************************************************)
(* What base_cache promises its users.  A key has at most one entry.  An   *)
(* entry may vanish at any time, but what get returns is the entry of that *)
(* moment and has not expired, and invalidating a trigger removes every    *)
(* entry that depends on it at once.                                       *)
(***************************************************************************)
EXTENDS Naturals

CONSTANTS Keys,         \* keys of entries
          Names,        \* names of triggers; every key is one
          Readers,
          Nil

VARIABLES entries,      \* key with an entry -> [data, timeout, triggers, generation]
          got,          \* reader -> entry of its last successful get, or Nil
          invalidated,  \* trigger -> number of times it was invalidated
          clock

cacheVars == <<entries, got, invalidated, clock>>

CInit == /\ entries = [k \in {} |-> Nil]
         /\ got = [r \in Readers |-> Nil]
         /\ invalidated = [n \in Names |-> 0]
         /\ clock = 0

Get(r, k) == /\ k \in DOMAIN entries
             /\ clock <= entries[k].timeout
             /\ got' = [got EXCEPT ![r] = entries[k]]
             /\ UNCHANGED <<entries, invalidated, clock>>

\* A new entry of k, which depends on k itself and on any other triggers.
Put(k) == /\ DOMAIN entries' = DOMAIN entries \cup {k}
          /\ \A j \in DOMAIN entries \ {k} : entries'[j] = entries[j]
          /\ k \in entries'[k].triggers
          /\ UNCHANGED <<got, invalidated, clock>>

Keep(S) == entries' = [k \in S |-> entries[k]]

Invalidate(n) == /\ Keep({k \in DOMAIN entries : n \notin entries[k].triggers})
                 /\ invalidated' = [invalidated EXCEPT ![n] = @ + 1]
                 /\ UNCHANGED <<got, clock>>

Lose == /\ \E S \in SUBSET DOMAIN entries : Keep(S)
        /\ UNCHANGED <<got, invalidated, clock>>

Age == /\ clock' = clock + 1
       /\ UNCHANGED <<entries, got, invalidated>>

CNext == \/ \E r \in Readers, k \in Keys : Get(r, k)
         \/ \E k \in Keys : Put(k)
         \/ \E n \in Names : Invalidate(n)
         \/ Lose
         \/ Age

CSpec == CInit /\ [][CNext]_cacheVars
=============================================================================
