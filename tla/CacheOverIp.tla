---------------------------- MODULE CacheOverIp ----------------------------
(***************************************************************************)
(* The distributed cache: cache_over_ip (src/cache_over_ip.cpp) with its   *)
(* first-level cache l1_, the client tcp_cache over tcp_connector and      *)
(* messenger (src/tcp_cache_client.cpp, src/tcp_connector.cpp,             *)
(* src/tcp_messenger.cpp), and the servers (src/tcp_cache_server.cpp).     *)
(*                                                                         *)
(* Threads belong to processes; the threads of a process share l1_, and    *)
(* every thread has a connection of its own to every server.  A call of    *)
(* the cache is a sequence of requests.  A request is sent, handled by the *)
(* server, and answered; the connection may break at any point, and        *)
(* messenger::transmit() then reconnects and sends once more.              *)
(*                                                                         *)
(* Both levels are caches in the sense of CacheContract: their operations  *)
(* are atomic, and an entry may vanish at any time (it expires or is       *)
(* evicted).  The data of an entry is the number of the call of store().   *)
(***************************************************************************)
EXTENDS Integers, FiniteSets

CONSTANTS Threads,
          Procs,        \* processes
          Keys,
          Tags,         \* triggers that are not keys
          Nil,
          Clusters,     \* the clusters to look at, see ClusterAssumption
          MaxStores     \* bound on the calls of store()

Names == Keys \cup Tags

ASSUME ClusterAssumption ==
    /\ MaxStores \in Nat
    /\ \A c \in Clusters :
          /\ c.procs \in [Threads -> Procs]      \* the process of a thread
          /\ c.l1 \subseteq Procs                \* processes with a first-level cache
          /\ c.conns \in Nat \ {0}              \* number of servers
          /\ c.hash \in [Keys -> 1..c.conns]    \* tcp_connector::hash()
          /\ c.restarts \in Nat                 \* bound on the restarts of servers

VARIABLES
    cluster,        \* one of Clusters
    l1,             \* process -> key -> entry or Nil
    server,         \* server -> key -> entry or Nil
    generation,     \* server -> generation of its next entry
    call,           \* thread -> the call it makes, Idle if none
    got,            \* outcome of the fetch() that has just returned, else Miss
    stores,         \* number of calls of store()
    restarts,       \* number of restarts
    kept,           \* history: the entries whose store() has returned
    dead            \* history: data invalidated by a rise() or clear() that returned

histVars == <<kept, dead>>
vars == <<cluster, l1, server, generation, call, got, stores, restarts, histVars>>

ProcOf  == cluster.procs
WithL1  == cluster.l1
Servers == 1..cluster.conns

Idle == [op |-> "idle"]
Miss == [data |-> Nil, served |-> Nil, forbidden |-> {}]
None == [k \in Keys |-> Nil]

Init == /\ cluster \in Clusters
        /\ l1 = [p \in Procs |-> None]
        /\ server = [s \in Servers |-> None]
        /\ generation = [s \in Servers |-> 0]
        /\ call = [t \in Threads |-> Idle]
        /\ got = Miss
        /\ stores = 0 /\ restarts = 0
        /\ kept = {} /\ dead = {}

Risen(entries, n) ==
    [k \in Keys |-> IF entries[k] # Nil /\ n \in entries[k].triggers THEN Nil ELSE entries[k]]
-----------------------------------------------------------------------------
(* The client: cache_over_ip up to its first request.                      *)

\* A call begins with a request to server s.  held is the copy of the first
\* level; past is history: data that was dead, or that this call will kill.
Start(t, s, r, held, past) ==
    call' = [call EXCEPT ![t] = [first |-> r, request |-> r, to |-> s, times |-> 0,
                                 pc |-> "sent", answer |-> Nil, held |-> held, past |-> past]]

\* fetch(): a copy of the first level is to be confirmed by its generation.
FetchBegin(t, k) ==
    LET copy == l1[ProcOf[t]][k] IN
    /\ call[t] = Idle
    /\ Start(t, cluster.hash[k],
             [op |-> "fetch", key |-> k, current_gen |-> IF copy = Nil THEN Nil ELSE copy.gen],
             copy, dead)
    /\ UNCHANGED <<l1, server, generation, stores, restarts, histVars>>

StoreBegin(t, k, trigs) ==
    /\ call[t] = Idle
    /\ stores < MaxStores
    /\ stores' = stores + 1
    /\ l1' = [l1 EXCEPT ![ProcOf[t]][k] = Nil]
    /\ Start(t, cluster.hash[k],
             [op |-> "store", key |-> k, data |-> stores', triggers |-> trigs], Nil, {})
    /\ UNCHANGED <<server, generation, restarts, histVars>>

RiseBegin(t, n) ==
    /\ call[t] = Idle
    /\ l1' = [l1 EXCEPT ![ProcOf[t]] = Risen(@, n)]
    /\ Start(t, 1, [op |-> "rise", trigger |-> n], Nil,
             {r.data : r \in {x \in kept : n \in x.triggers \cup {x.key}}})
    /\ UNCHANGED <<server, generation, stores, restarts, histVars>>

ClearBegin(t) ==
    /\ call[t] = Idle
    /\ l1' = [l1 EXCEPT ![ProcOf[t]] = None]
    /\ Start(t, 1, [op |-> "clear"], Nil, {r.data : r \in kept})
    /\ UNCHANGED <<server, generation, stores, restarts, histVars>>
-----------------------------------------------------------------------------
(* The server: session::on_data_in().                                      *)

Answer_IfPresent(s, r) ==
    LET e == server[s][r.key] IN
    IF e = Nil THEN [op |-> "no_data", served |-> Nil]
    ELSE IF r.current_gen # Nil THEN [op |-> "uptodate", served |-> e.data]
    ELSE [op |-> "data", entry |-> e, served |-> e.data]

\* The generation of the entry decides whether the data is transferred.  The
\* answer carries, as history, the data that the server had.
Answer(s, r) ==
    LET e == server[s][r.key] IN
    IF e = Nil THEN [op |-> "no_data", served |-> Nil]
    ELSE IF r.current_gen = e.gen THEN [op |-> "uptodate", served |-> e.data]
    ELSE [op |-> "data", entry |-> e, served |-> e.data]

\* The server of t's request has read it and answers.
Arrives(t, op) == call[t] # Idle /\ call[t].pc = "sent" /\ call[t].request.op = op

Answered(t, answer) == call' = [call EXCEPT ![t].pc = "answered", ![t].answer = answer]

fetch(t) ==
    /\ Arrives(t, "fetch")
    /\ Answered(t, Answer(call[t].to, call[t].request))
    /\ UNCHANGED <<server, generation>>

store_SameGeneration(t) ==
    LET s == call[t].to  r == call[t].request IN
    /\ Arrives(t, "store")
    /\ server' = [server EXCEPT ![s][r.key] =
                     [data |-> r.data, triggers |-> r.triggers \cup {r.key},
                      gen |-> IF @ = Nil THEN generation[s] ELSE @.gen]]
    /\ generation' = [generation EXCEPT ![s] = @ + 1]
    /\ Answered(t, [op |-> "done"])

store(t) ==
    LET s == call[t].to  r == call[t].request IN
    /\ Arrives(t, "store")
    /\ server' = [server EXCEPT ![s][r.key] =
                     [data |-> r.data, triggers |-> r.triggers \cup {r.key},
                      gen |-> generation[s]]]
    /\ generation' = [generation EXCEPT ![s] = @ + 1]
    /\ Answered(t, [op |-> "done"])

rise(t) ==
    /\ Arrives(t, "rise")
    /\ server' = [server EXCEPT ![call[t].to] = Risen(@, call[t].request.trigger)]
    /\ Answered(t, [op |-> "done"])
    /\ UNCHANGED generation

clear(t) ==
    /\ Arrives(t, "clear")
    /\ server' = [server EXCEPT ![call[t].to] = None]
    /\ Answered(t, [op |-> "done"])
    /\ UNCHANGED generation

\* An opcode that is no request: what a spoilt retry sends.
no_request(t) ==
    /\ Arrives(t, "reply")
    /\ Answered(t, [op |-> "error", served |-> Nil])
    /\ UNCHANGED <<server, generation>>

on_data_in(t) ==
    /\ fetch(t) \/ store(t) \/ rise(t) \/ clear(t) \/ no_request(t)
    /\ UNCHANGED <<l1, stores, restarts, histVars>>
-----------------------------------------------------------------------------
(* The client: transmit() returns with the answer.                         *)

Returns(t, op) == call[t] # Idle /\ call[t].pc = "answered" /\ call[t].first.op = op

\* tcp_cache::fetch()
Result(c) == CASE c.answer.op = "uptodate" -> "up_to_date"
               [] c.answer.op = "data"     -> "found"
               [] OTHER                    -> "not_found"

FetchReturns(t) ==
    LET c == call[t]  a == c.answer  p == ProcOf[t]  k == c.first.key
        \* tags collects the triggers of the copy and those of the answer
        tags == IF c.held = Nil THEN {} ELSE c.held.triggers
        outcome(d) == [data |-> d, served |-> a.served, forbidden |-> c.past] IN
    /\ Returns(t, "fetch")
    /\ \/ /\ Result(c) = "up_to_date"
          /\ got' = outcome(c.held.data)
          /\ UNCHANGED l1
       \/ /\ Result(c) = "found"
          /\ got' = outcome(a.entry.data)
          /\ l1' = IF p \in WithL1
                   THEN [l1 EXCEPT ![p][k] = [a.entry EXCEPT !.triggers = @ \cup tags]]
                   ELSE l1
       \/ /\ Result(c) = "not_found"
          /\ got' = Miss
          /\ l1' = IF c.held # Nil THEN [l1 EXCEPT ![p][k] = Nil] ELSE l1
    /\ call' = [call EXCEPT ![t] = Idle]
    /\ UNCHANGED <<server, generation, stores, restarts, histVars>>

StoreReturns(t) ==
    /\ Returns(t, "store")
    /\ call' = [call EXCEPT ![t] = Idle]
    /\ kept' = kept \cup {call[t].first}
    /\ UNCHANGED <<l1, server, generation, stores, restarts, dead>>

\* tcp_connector::broadcast() goes on with the next server, up to the last.
broadcast(t) ==
    LET c == call[t] IN
    /\ Returns(t, "rise") \/ Returns(t, "clear")
    /\ IF c.to < cluster.conns
       THEN /\ call' = [call EXCEPT ![t] = [c EXCEPT !.to = @ + 1, !.request = c.first,
                                            !.times = 0, !.pc = "sent", !.answer = Nil]]
            /\ UNCHANGED dead
       ELSE /\ call' = [call EXCEPT ![t] = Idle]
            /\ dead' = dead \cup c.past
    /\ UNCHANGED <<l1, server, generation, stores, restarts, kept>>

ConnectionBreaks_KeepTrying(t) ==
    LET c == call[t] IN
    /\ c # Idle
    /\ \/ call' = [call EXCEPT ![t] = Idle]
       \/ call' = [call EXCEPT ![t] = [c EXCEPT !.pc = "sent", !.answer = Nil]]
    /\ UNCHANGED <<l1, server, generation, stores, restarts, histVars>>

\* The connection breaks: the first time transmit() connects and sends again,
\* unless the server cannot be reached; the second time it throws.  Its header
\* is the request, or what has been read of the answer.
ConnectionBreaks(t) ==
    LET c == call[t]
        again(r) == call' = [call EXCEPT ![t] = [c EXCEPT !.request = r, !.times = 1,
                                                          !.pc = "sent", !.answer = Nil]] IN
    /\ c # Idle
    /\ \/ call' = [call EXCEPT ![t] = Idle]
       \/ c.times = 0 /\ again(c.request)
       \/ c.times = 0 /\ c.pc = "answered" /\ again([op |-> "reply"])
    /\ UNCHANGED <<l1, server, generation, stores, restarts, histVars>>
-----------------------------------------------------------------------------
(* Entries expire or are evicted; servers restart.                         *)

L1Loses(p, k) ==
    /\ l1[p][k] # Nil
    /\ l1' = [l1 EXCEPT ![p][k] = Nil]
    /\ UNCHANGED <<server, generation, call, stores, restarts, histVars>>

ServerLoses(s, k) ==
    /\ server[s][k] # Nil
    /\ server' = [server EXCEPT ![s][k] = Nil]
    /\ UNCHANGED <<l1, generation, call, stores, restarts, histVars>>

\* The connections to s break before: a call in flight is one that will connect
\* again.
Restart(s) ==
    /\ restarts < cluster.restarts
    /\ \A t \in Threads : call[t] # Idle /\ call[t].to = s =>
                             call[t].times = 1 /\ call[t].pc = "sent"
    /\ restarts' = restarts + 1
    /\ server' = [server EXCEPT ![s] = None]
    /\ generation' = [generation EXCEPT ![s] = 0]
    /\ UNCHANGED <<l1, call, stores, histVars>>
-----------------------------------------------------------------------------
Begin(t) == \/ \E k \in Keys : FetchBegin(t, k)
            \/ \E k \in Keys, trigs \in SUBSET Tags : StoreBegin(t, k, trigs)
            \/ \E n \in Names : RiseBegin(t, n)
            \/ ClearBegin(t)

CallStep(t) == on_data_in(t) \/ StoreReturns(t) \/ broadcast(t)

Environment == \/ \E p \in Procs, k \in Keys : L1Loses(p, k)
               \/ \E s \in Servers, k \in Keys : ServerLoses(s, k)
               \/ \E s \in Servers : Restart(s)

Next == /\ \/ \E t \in Threads : FetchReturns(t)
           \/ got' = Miss /\ \E t \in Threads : Begin(t) \/ CallStep(t) \/ ConnectionBreaks(t)
           \/ got' = Miss /\ Environment
        /\ UNCHANGED cluster

Spec == Init /\ [][Next]_vars

\* A connection that does not break delivers; nothing else is promised.
Fairness == \A t \in Threads :
    WF_vars((FetchReturns(t) \/ (got' = Miss /\ CallStep(t))) /\ UNCHANGED cluster)
-----------------------------------------------------------------------------
(* Properties *)

Entry == [data : Nat, triggers : SUBSET Names, gen : Nat]

TypeOK == /\ cluster \in Clusters
          /\ l1 \in [Procs -> [Keys -> Entry \cup {Nil}]]
          /\ server \in [Servers -> [Keys -> Entry \cup {Nil}]]
          /\ generation \in [Servers -> Nat]
          /\ \A p \in Procs \ WithL1 : l1[p] = None
          /\ \A t \in Threads : call[t] # Idle =>
                /\ call[t].first.op \in {"fetch", "store", "rise", "clear"}
                /\ call[t].request \in {call[t].first, [op |-> "reply"]}
                /\ call[t].to \in Servers /\ call[t].times \in 0..1
                /\ call[t].pc \in {"sent", "answered"}
                /\ call[t].held \in Entry \cup {Nil}
          /\ stores \in 0..MaxStores /\ restarts \in 0..cluster.restarts
          /\ dead \subseteq {r.data : r \in kept}

\* What fetch() returns is what the server had when it answered: a copy of the
\* first level that the server confirmed by its generation is the current one.
\* (The state is well typed throughout.)
FetchReturnsServerContent ==
    /\ TypeOK
    /\ got.data = got.served

\* A fetch() that begins after a rise() of a trigger (or a clear()) has
\* returned, in any process, does not return what had been stored under that
\* trigger before: neither from the server, nor from a first-level cache into
\* which a concurrent fetch put an outdated copy.
NothingInvalidatedIsReturned ==
    got.data \notin got.forbidden
=============================================================================
