------------------------------ MODULE MemCache ------------------------------
(***************************************************************************)
(* cppcms::impl::mem_cache (src/cache_storage.cpp): the in-memory cache,   *)
(* shared by threads (thread_settings) or, in shared memory, by processes  *)
(* (process_settings).                                                     *)
(*                                                                         *)
(* access_lock is a readers-writer lock.  A fetch holds it shared, in      *)
(* three steps: it finds the entry, moves it to the front of the LRU list  *)
(* under lru_mutex, and copies the entry out.  A store and a rise hold it  *)
(* exclusively, and delete entries one delete_node() at a time; writer is  *)
(* the operation that holds the lock so.  remove() and clear() are one     *)
(* step.                                                                   *)
(*                                                                         *)
(* The data of an entry is the number of the store() that brought it.      *)
(***************************************************************************)
EXTENDS Integers, SequencesExt

CONSTANTS Keys,         \* keys of entries
          Tags,         \* names of triggers that are not keys
          Readers,      \* threads that fetch
          Setups,       \* the kinds of cache: whether memory may run short, the size
                        \* above which store() gives up, the limit on entries (0:
                        \* none), the generations that callers of store() bring
          TriggerSets,  \* sets of triggers that callers of store() bring along
          Nil,
          MaxStores,    \* bound on the calls of store()
          MaxRises,     \* bound on the calls of rise()
          MaxTime       \* bound on the clock

Settings == [runs_short : BOOLEAN, size_limit : Nat, limit : Nat, gens : SUBSET (Nat \cup {Nil})]

ASSUME CacheAssumption == /\ Setups \subseteq Settings
                          /\ {MaxStores, MaxRises, MaxTime} \subseteq Nat
                          /\ TriggerSets \subseteq SUBSET (Keys \cup Tags)
                          /\ IsFiniteSet(Keys)

Names == Keys \cup Tags

VARIABLES
    Setup,          \* one of Setups
    primary,        \* key -> container
    lru,            \* keys, the last used first
    timeout,        \* the timeouts of the entries, as <<time, key>>
    triggers,       \* trigger -> keys of the entries that depend on it
    size,
    triggers_count,
    generation,
    reader,         \* reader -> what its fetch() has found, and how far it is
    got,            \* reader -> entry its last successful fetch() returned
    writer,         \* the store() or rise() that holds access_lock
    now,
    stored,         \* number of calls of store()
    rises           \* history: trigger -> number of rise() of it

indexVars == <<lru, timeout, triggers, size, triggers_count>>
vars == <<Setup, primary, indexVars, generation, reader, got, writer, now, stored, rises>>

NoFetch  == [pc |-> "idle"]
NoWriter == [op |-> "none"]
Empty    == [x \in {} |-> Nil]

Init == /\ Setup \in Setups
        /\ primary = Empty /\ lru = <<>> /\ timeout = {} /\ triggers = Empty
        /\ size = 0 /\ triggers_count = 0 /\ generation = 0
        /\ reader = [r \in Readers |-> NoFetch]
        /\ got = [r \in Readers |-> Nil]
        /\ writer = NoWriter
        /\ now = 0 /\ stored = 0
        /\ rises = [n \in Names |-> 0]

limit == Setup.limit

\* access_lock
CanRead  == writer = NoWriter
CanWrite_IgnoresReaders == writer = NoWriter

CanWrite == writer = NoWriter /\ \A r \in Readers : reader[r] = NoFetch

Erase(s, x) == RemoveAt(s, CHOOSE i \in 1..Len(s) : s[i] = x)
-----------------------------------------------------------------------------
(* fetch                                                                   *)

\* A key that is absent or expired is a miss, which changes nothing.
FetchFind(r, k) ==
    /\ CanRead
    /\ reader[r] = NoFetch
    /\ k \in DOMAIN primary
    /\ ~(primary[k].timeout < now)
    /\ reader' = [reader EXCEPT ![r] = [pc |-> "found", key |-> k]]
    /\ UNCHANGED <<primary, indexVars, generation, got, writer, now, stored, rises>>

FetchUpdateLru(r) ==
    /\ reader[r].pc = "found"
    /\ lru' = <<reader[r].key>> \o Erase(lru, reader[r].key)
    /\ reader' = [reader EXCEPT ![r].pc = "copy"]
    /\ UNCHANGED <<primary, timeout, triggers, size, triggers_count, generation, got,
                   writer, now, stored, rises>>

FetchCopy(r) ==
    /\ reader[r].pc = "copy"
    /\ got' = [got EXCEPT ![r] = primary[reader[r].key]]
    /\ reader' = [reader EXCEPT ![r] = NoFetch]
    /\ UNCHANGED <<primary, indexVars, generation, writer, now, stored, rises>>
-----------------------------------------------------------------------------
(* Deleting entries                                                        *)

delete_node_ErasesTrigger(k) ==
    /\ lru' = Erase(lru, k)
    /\ timeout' = timeout \ {<<primary[k].timeout, k>>}
    /\ LET left == [n \in DOMAIN triggers |->
                       IF n \in primary[k].triggers THEN triggers[n] \ {k} ELSE triggers[n]]
       IN  triggers' = [n \in {m \in DOMAIN triggers : m \notin primary[k].triggers} |-> left[n]]
    /\ triggers_count' = triggers_count - Cardinality(primary[k].triggers)
    /\ primary' = [j \in DOMAIN primary \ {k} |-> primary[j]]
    /\ size' = size - 1

delete_node(k) ==
    /\ lru' = Erase(lru, k)
    /\ timeout' = timeout \ {<<primary[k].timeout, k>>}
    /\ LET left == [n \in DOMAIN triggers |->
                       IF n \in primary[k].triggers THEN triggers[n] \ {k} ELSE triggers[n]]
       IN  triggers' = [n \in {m \in DOMAIN triggers : left[m] # {}} |-> left[n]]
    /\ triggers_count' = triggers_count - Cardinality(primary[k].triggers)
    /\ primary' = [j \in DOMAIN primary \ {k} |-> primary[j]]
    /\ size' = size - 1

nl_clear_ResetsGeneration ==
    /\ primary' = Empty /\ lru' = <<>> /\ timeout' = {} /\ triggers' = Empty
    /\ size' = 0 /\ triggers_count' = 0
    /\ generation' = 0

\* generation goes on: it is not reset with the rest.
nl_clear ==
    /\ primary' = Empty /\ lru' = <<>> /\ timeout' = {} /\ triggers' = Empty
    /\ size' = 0 /\ triggers_count' = 0
    /\ generation' = generation

clear == /\ CanWrite
         /\ nl_clear
         /\ UNCHANGED <<reader, got, writer, now, stored, rises>>

remove(k) == /\ CanWrite
             /\ k \in DOMAIN primary
             /\ delete_node(k)
             /\ UNCHANGED <<generation, reader, got, writer, now, stored, rises>>

\* rise() collects the entries of the trigger, then deletes them.
RiseBegin(n) ==
    /\ CanWrite
    /\ SumFunction(rises) < MaxRises
    /\ rises' = [rises EXCEPT ![n] = @ + 1]
    /\ writer' = [op |-> "rise",
                  kill |-> IF n \in DOMAIN triggers THEN triggers[n] ELSE {}]
    /\ UNCHANGED <<primary, indexVars, generation, reader, got, now, stored>>

RiseKill(k) ==
    /\ writer.op = "rise"
    /\ k \in writer.kill
    /\ delete_node(k)
    /\ writer' = [writer EXCEPT !.kill = @ \ {k}]
    /\ UNCHANGED <<generation, reader, got, now, stored, rises>>

RiseEnd ==
    /\ writer.op = "rise"
    /\ writer.kill = {}
    /\ writer' = NoWriter
    /\ UNCHANGED <<primary, indexVars, generation, reader, got, now, stored, rises>>
-----------------------------------------------------------------------------
(* store                                                                   *)

\* The lock is taken and the old entry deleted.  (Copying the data beforehand
\* may fail; then store() returns and nothing has changed.)
StoreBegin(k, trigs, time, gen) ==
    /\ CanWrite
    /\ stored < MaxStores
    /\ stored' = stored + 1
    /\ \/ k \in DOMAIN primary /\ delete_node(k)
       \/ k \notin DOMAIN primary /\ UNCHANGED <<primary, indexVars>>
    /\ writer' = IF size' > Setup.size_limit THEN NoWriter
                 ELSE [op |-> "store", key |-> k, triggers |-> trigs, timeout |-> time,
                       gen |-> gen]
    /\ UNCHANGED <<generation, reader, got, now, rises>>

OverLimit_OffByOne == size > limit /\ limit > 0

OverLimit == size >= limit /\ limit > 0

\* check_limits() prefers an expired entry to the least recently used one.
Oldest == {k \in DOMAIN primary : \A x \in timeout : primary[k].timeout <= x[1]}

EvictOne ==
    /\ writer.op = "store"
    /\ size > 0
    /\ OverLimit \/ Setup.runs_short
    /\ lru # <<>>
    /\ IF \E x \in timeout : x[1] < now
       THEN \E k \in Oldest : delete_node(k)
       ELSE delete_node(Last(lru))
    /\ UNCHANGED <<generation, reader, got, writer, now, stored, rises>>

StoreInsert_NoKeyTrigger ==
    /\ writer.op = "store"
    /\ ~(size > 0 /\ OverLimit)
    /\ LET k     == writer.key
           trigs == writer.triggers
           entry == [data |-> stored, timeout |-> writer.timeout, triggers |-> trigs,
                     generation |-> IF writer.gen = Nil THEN generation ELSE writer.gen]
       IN  /\ primary' = [j \in DOMAIN primary \cup {k} |->
                             IF j = k THEN entry ELSE primary[j]]
           /\ lru' = <<k>> \o lru
           /\ timeout' = timeout \cup {<<entry.timeout, k>>}
           /\ triggers' = [n \in DOMAIN triggers \cup trigs |->
                              (IF n \in DOMAIN triggers THEN triggers[n] ELSE {})
                              \cup (IF n \in trigs THEN {k} ELSE {})]
           /\ triggers_count' = triggers_count + Cardinality(trigs)
    /\ size' = size + 1
    /\ generation' = IF writer.gen = Nil THEN generation + 1 ELSE generation
    /\ writer' = NoWriter
    /\ UNCHANGED <<reader, got, now, stored, rises>>

\* The new entry, which has its own key for a trigger in any case.
StoreInsert ==
    /\ writer.op = "store"
    /\ ~(size > 0 /\ OverLimit)
    /\ LET k     == writer.key
           trigs == writer.triggers \cup {k}
           entry == [data |-> stored, timeout |-> writer.timeout, triggers |-> trigs,
                     generation |-> IF writer.gen = Nil THEN generation ELSE writer.gen]
       IN  /\ primary' = [j \in DOMAIN primary \cup {k} |->
                             IF j = k THEN entry ELSE primary[j]]
           /\ lru' = <<k>> \o lru
           /\ timeout' = timeout \cup {<<entry.timeout, k>>}
           /\ triggers' = [n \in DOMAIN triggers \cup trigs |->
                              (IF n \in DOMAIN triggers THEN triggers[n] ELSE {})
                              \cup (IF n \in trigs THEN {k} ELSE {})]
           /\ triggers_count' = triggers_count + Cardinality(trigs)
    /\ size' = size + 1
    /\ generation' = IF writer.gen = Nil THEN generation + 1 ELSE generation
    /\ writer' = NoWriter
    /\ UNCHANGED <<reader, got, now, stored, rises>>

\* An allocation fails on the way: everything is cleared.
StoreFails ==
    /\ writer.op = "store"
    /\ nl_clear
    /\ writer' = NoWriter
    /\ UNCHANGED <<reader, got, now, stored, rises>>

Tick == /\ now < MaxTime
        /\ now' = now + 1
        /\ UNCHANGED <<primary, indexVars, generation, reader, got, writer, stored, rises>>
-----------------------------------------------------------------------------
FetchStep(r) == \/ \E k \in Keys : FetchFind(r, k)
                \/ FetchUpdateLru(r)
                \/ FetchCopy(r)

Next == /\ \/ \E r \in Readers : FetchStep(r)
           \/ \E k \in Keys, trigs \in TriggerSets, time \in 0..MaxTime, gen \in Setup.gens :
                  StoreBegin(k, trigs, time, gen)
           \/ EvictOne \/ StoreInsert \/ StoreFails
           \/ \E n \in Names : RiseBegin(n)
           \/ \E k \in Keys : RiseKill(k)
           \/ RiseEnd
           \/ \E k \in Keys : remove(k)
           \/ clear
           \/ Tick
        /\ UNCHANGED Setup

Spec == Init /\ [][Next]_vars
-----------------------------------------------------------------------------
(* Properties *)

Entry == [data : Nat, timeout : Nat, triggers : SUBSET Names, generation : Nat]

TypeOK == /\ Setup \in Setups
          /\ DOMAIN primary \subseteq Keys
          /\ \A k \in DOMAIN primary : primary[k] \in Entry
          /\ lru \in Seq(Keys)
          /\ timeout \subseteq Nat \X Keys
          /\ DOMAIN triggers \subseteq Names
          /\ \A n \in DOMAIN triggers : triggers[n] \in SUBSET Keys
          /\ size \in Nat /\ triggers_count \in Nat /\ generation \in Nat
          /\ \A r \in Readers : reader[r] \in {NoFetch} \cup [pc : {"found", "copy"}, key : Keys]
          /\ \A r \in Readers : got[r] \in Entry \cup {Nil}
          /\ writer \in {NoWriter} \cup [op : {"rise"}, kill : SUBSET Keys]
                \cup [op : {"store"}, key : Keys, triggers : SUBSET Names, timeout : Nat,
                      gen : Nat \cup {Nil}]
          /\ now \in Nat /\ stored \in Nat
          /\ rises \in [Names -> Nat]

LruAgrees == /\ ToSet(lru) = DOMAIN primary
             /\ \A i, j \in 1..Len(lru) : lru[i] = lru[j] => i = j

TimeoutsAgree == timeout = {<<primary[k].timeout, k>> : k \in DOMAIN primary}

TriggersAgree ==
    /\ DOMAIN triggers = UNION {primary[k].triggers : k \in DOMAIN primary}
    /\ \A n \in DOMAIN triggers : triggers[n] = {k \in DOMAIN primary : n \in primary[k].triggers}

SizeAgrees == size = Cardinality(DOMAIN primary)

TriggersCountAgrees ==
    triggers_count = Cardinality({x \in Names \X DOMAIN primary : x[1] \in primary[x[2]].triggers})

\* The LRU list, the timeouts, the triggers and the two counters describe the
\* entries of primary, at every release of access_lock and in between: else a
\* delete_node() would follow an iterator that is no longer valid, or rise()
\* would miss an entry.  (The state is well typed throughout.)
IndexesAgree == /\ TypeOK
                /\ LruAgrees /\ TimeoutsAgree /\ TriggersAgree
                /\ SizeAgrees /\ TriggersCountAgrees

\* An entry that a fetch() has found stays until it has been copied, although
\* other fetches reorder the LRU list meanwhile.
FoundEntriesStay ==
    \A r \in Readers : reader[r] # NoFetch =>
        writer = NoWriter /\ reader[r].key \in DOMAIN primary

\* The cache never holds more entries than its limit.
WithinLimit == limit > 0 => size <= limit

\* A generation that the cache has chosen stands for one content, even after
\* clear(): whoever holds an entry fetched earlier may compare generations to see
\* that it is current.
GenerationIdentifiesContent ==
    \A r \in Readers, k \in DOMAIN primary :
        got[r] # Nil /\ got[r].generation = primary[k].generation /\ got[r].generation \notin Setup.gens =>
            got[r].data = primary[k].data

\* The cache keeps the contract of base_cache.  A fetch() takes effect when it
\* finds its entry, and a rise() when it has collected what it will delete.
Dying == IF writer.op = "rise" THEN writer.kill ELSE {}

Contract == INSTANCE CacheContract WITH
    entries <- [k \in DOMAIN primary \ Dying |-> primary[k]],
    got <- [r \in Readers |-> IF reader[r] = NoFetch THEN got[r] ELSE primary[reader[r].key]],
    invalidated <- rises,
    clock <- now

ImplementsContract == Contract!CSpec
=============================================================================
