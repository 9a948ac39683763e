------------------------------ MODULE Session ------------------------------
(***************************************************************************)
(* The life of a session over the requests of one browser:                 *)
(* session_interface (src/session_interface.cpp) over the session_api's    *)
(* session_sid, session_cookies and session_dual (src/session_sid.cpp,     *)
(* src/session_cookies.cpp, src/session_dual.cpp).  The storage under      *)
(* session_sid does its operations at once (SessionStore); a request does  *)
(* several of them.                                                        *)
(*                                                                         *)
(* The data of a session are a function from some keys to entries.  A      *)
(* handler may set, erase, expose and hide keys, clear the session and ask *)
(* for a new id; what it did is what data_ and reset_ are when save() is   *)
(* called.                                                                 *)
(***************************************************************************)
EXTENDS Integers, FiniteSets

CONSTANTS Requests,
          Keys,
          Sids,
          Configs,      \* the configurations to look at, see SessionAssumption
          Limit,        \* session.client_size_limit, in entries
          Blank,        \* the empty string, the value of a key that was only exposed
          Nil

Empty   == [k \in {} |-> Nil]
Forever == -1

ASSUME SessionAssumption ==
    \A c \in Configs :
        /\ c.location \in {"server", "client", "both"}     \* session.location
        /\ c.expire \in {"fixed", "renew", "browser"}      \* session.expire
        /\ c.timeout \in Nat                               \* session.timeout
        /\ Empty \in c.contents                            \* what handlers leave in data_
        /\ c.jumps \subseteq Nat /\ c.end \in Nat          \* steps and bound of the clock

VARIABLES
    config,         \* one of Configs
    store,          \* sid -> [data, until] or Nil
    cookie,         \* the browser's session cookie: [value, expires] or Nil
    exposed,        \* key -> the browser's cookie of an exposed key, or Nil
    request,        \* request -> session_interface and response
    given,          \* sids that get_new_sid() has returned
    now,
    last,           \* history: data and end of life of what was saved last, or Nil
    active          \* history: when save() was last called for a session

vars == <<config, store, cookie, exposed, request, given, now, last, active>>

Location == config.location
How      == config.expire
Timeout  == config.timeout

Idle == [pc |-> "idle"]

Init == /\ config \in Configs
        /\ store = [s \in Sids |-> Nil]
        /\ cookie = Nil
        /\ exposed = [k \in Keys |-> Nil]
        /\ request = [r \in Requests |-> Idle]
        /\ given = {} /\ now = 0
        /\ last = Nil /\ active = 0

Kept(c) == c # Nil /\ (c.expires = Forever \/ now < c.expires)

\* The browser sends a request with the cookies it has.
Send(r) ==
    /\ request[r] = Idle
    /\ request' = [request EXCEPT ![r] =
                      [pc |-> "sent",
                       cookie |-> IF Kept(cookie) THEN cookie.value ELSE Nil,
                       names |-> {k \in Keys : Kept(exposed[k])}]]
    /\ UNCHANGED <<store, cookie, exposed, given, now, last, active>>

IsId(c)   == c # Nil /\ c.kind = "I"
IsData(c) == c # Nil /\ c.kind = "C"

Found_NoExpiry(c) ==
    CASE IsId(c) /\ Location # "client"   -> store[c.sid]
      [] IsData(c) /\ Location # "server" -> [data |-> c.data, until |-> c.until]
      [] OTHER -> Nil

\* session_api::load(): what it finds, or Nil
Found(c) ==
    CASE IsId(c) /\ Location # "client" ->
            IF store[c.sid] # Nil /\ ~(store[c.sid].until < now) THEN store[c.sid] ELSE Nil
      [] IsData(c) /\ Location # "server" ->
            IF c.until < now THEN Nil ELSE [data |-> c.data, until |-> c.until]
      [] OTHER -> Nil

\* What the response does with a cookie: nothing, delete it, or set it.
Leave     == [do |-> "leave"]
Delete    == [do |-> "delete"]
SetTo(v, expires) == [do |-> "set", value |-> v, expires |-> expires]

load(r) ==
    LET q == request[r]  f == Found(q.cookie) IN
    /\ q.pc = "sent"
    /\ request' = [request EXCEPT ![r] =
          [pc |-> "running", cookie |-> q.cookie, names |-> q.names, at |-> now,
           copy |-> IF f = Nil THEN Empty ELSE f.data,
           data |-> IF f = Nil THEN Empty ELSE f.data,
           in |-> IF f = Nil THEN Nil ELSE f.until,
           reset |-> FALSE, until |-> Nil,
           out |-> IF f = Nil /\ IsData(q.cookie) THEN Delete ELSE Leave,
           outs |-> [k \in Keys |-> Leave]]]
    /\ UNCHANGED <<store, cookie, exposed, given, now, last, active>>

Handler(r, d, reset) ==
    /\ request[r].pc = "running"
    /\ request' = [request EXCEPT ![r].pc = "handled", ![r].data = d, ![r].reset = reset]
    /\ UNCHANGED <<store, cookie, exposed, given, now, last, active>>
-----------------------------------------------------------------------------
New(q) == (q.copy = Empty /\ q.data # Empty) \/ q.reset

session_age_KeepsEnd(q) == IF New(q) THEN now + Timeout ELSE q.in

session_age(q) == IF How \in {"browser", "renew"} \/ New(q) THEN now + Timeout ELSE q.in

cookie_age(q) == IF How = "browser" THEN 0
                 ELSE IF How = "renew" \/ New(q) THEN Timeout
                 ELSE q.in - now

\* session_interface::set_session_cookie(age, data, key)
set_session_cookie(age, v) ==
    IF age < 0 \/ v = Blank THEN Delete
    ELSE SetTo(v, IF age = 0 THEN Forever ELSE now + age)

\* session_interface::update_exposed(), with remove_unknown_cookies
IsExposed(d, k) == k \in DOMAIN d /\ d[k].exposed

update_exposed_OnlyNew(q, force) ==
    [k \in Keys |->
        IF IsExposed(q.data, k) /\ (force \/ ~IsExposed(q.copy, k))
        THEN set_session_cookie(cookie_age(q), q.data[k].value)
        ELSE IF ~IsExposed(q.data, k) /\ (force \/ IsExposed(q.copy, k) \/ k \in q.names)
        THEN Delete
        ELSE Leave]

update_exposed(q, force) ==
    [k \in Keys |->
        IF /\ IsExposed(q.data, k)
           /\ force \/ ~IsExposed(q.copy, k) \/ q.data[k].value # q.copy[k].value
        THEN set_session_cookie(cookie_age(q), q.data[k].value)
        ELSE IF \/ ~IsExposed(q.data, k) /\ (IsExposed(q.copy, k) \/ k \in q.names)
                \/ k \in DOMAIN q.data /\ ~IsExposed(q.data, k) /\ force
        THEN Delete
        ELSE Leave]

\* Nothing has changed, and the end of the session need not be moved.
NoSaveNeeded(q) ==
    /\ q.data = q.copy /\ ~New(q)
    /\ \/ How = "fixed"
       \/ 10 * (now + Timeout - q.in) < Timeout

OnServer(q) == \/ Location = "server"
               \/ Location = "both" /\ Cardinality(DOMAIN q.data) > Limit

GivesUpId_OnlyNew(q) == IsId(q.cookie) /\ New(q)

\* session_sid gives up the id of a new session, session_dual one whose data
\* go to the cookie.
GivesUpId(q) == IsId(q.cookie) /\ (IF OnServer(q) THEN New(q) ELSE Location = "both")

\* session_interface::save()
SaveEmpty(r) ==
    LET q == request[r] IN
    /\ q.pc = "handled" /\ q.data = Empty
    /\ store' = IF IsId(q.cookie) THEN [store EXCEPT ![q.cookie.sid] = Nil] ELSE store
    /\ request' = [request EXCEPT ![r].pc = "answer",
                      ![r].out = IF q.cookie # Nil THEN Delete ELSE @,
                      ![r].outs = update_exposed(q, TRUE)]
    /\ last' = Nil
    /\ UNCHANGED <<cookie, exposed, given, now, active>>

SaveBegins(r) ==
    LET q == request[r] IN
    /\ q.pc = "handled" /\ q.data # Empty
    /\ request' = [request EXCEPT
                      ![r].pc = IF NoSaveNeeded(q) THEN "answer"
                                ELSE IF GivesUpId(q) THEN "remove" ELSE "store",
                      ![r].until = session_age(q)]
    /\ active' = now
    /\ UNCHANGED <<store, cookie, exposed, given, now, last>>

RemoveOld(r) ==
    LET q == request[r] IN
    /\ q.pc = "remove"
    /\ store' = [store EXCEPT ![q.cookie.sid] = Nil]
    /\ request' = [request EXCEPT ![r].pc = "store"]
    /\ UNCHANGED <<cookie, exposed, given, now, last, active>>

\* The cookies are set when the storage has returned.
SaveEnds(r, v) ==
    LET q == request[r] IN
    /\ request' = [request EXCEPT ![r].pc = "answer",
                      ![r].out = set_session_cookie(cookie_age(q), v),
                      ![r].outs = update_exposed(q, q.data = q.copy /\ ~New(q))]
    /\ last' = [data |-> q.data, until |-> q.until]
    /\ UNCHANGED <<cookie, exposed, now, active>>

StoreUnder(r, s) ==
    /\ store' = [store EXCEPT ![s] = [data |-> request[r].data, until |-> request[r].until]]
    /\ given' = given \cup {s}
    /\ SaveEnds(r, [kind |-> "I", sid |-> s])

Store(r) ==
    LET q == request[r] IN
    /\ q.pc = "store" /\ OnServer(q)
    /\ IF IsId(q.cookie) /\ ~New(q)
       THEN StoreUnder(r, q.cookie.sid)
       ELSE \E s \in Sids \ given : StoreUnder(r, s)

StoreInCookie(r) ==
    LET q == request[r] IN
    /\ q.pc = "store" /\ ~OnServer(q)
    /\ SaveEnds(r, [kind |-> "C", data |-> q.data, until |-> q.until])
    /\ UNCHANGED <<store, given>>
-----------------------------------------------------------------------------
Applied(old, out) == CASE out.do = "leave"  -> old
                       [] out.do = "delete" -> Nil
                       [] out.do = "set"    -> [value |-> out.value, expires |-> out.expires]

\* The browser gets the response.
Answer(r) ==
    /\ request[r].pc = "answer"
    /\ cookie' = Applied(cookie, request[r].out)
    /\ exposed' = [k \in Keys |-> Applied(exposed[k], request[r].outs[k])]
    /\ request' = [request EXCEPT ![r] = Idle]
    /\ UNCHANGED <<store, given, now, last, active>>

\* Records whose life has ended are collected.
Collect(s) ==
    /\ store[s] # Nil /\ store[s].until < now
    /\ store' = [store EXCEPT ![s] = Nil]
    /\ UNCHANGED <<cookie, exposed, request, given, now, last, active>>

Tick == /\ \E d \in config.jumps : now + d <= config.end /\ now' = now + d
        /\ UNCHANGED <<store, cookie, exposed, request, given, last, active>>

Next == /\ \/ \E r \in Requests :
                 \/ Send(r) \/ load(r)
                 \/ \E d \in config.contents, reset \in BOOLEAN : Handler(r, d, reset)
                 \/ SaveEmpty(r) \/ SaveBegins(r) \/ RemoveOld(r)
                 \/ Store(r) \/ StoreInCookie(r)
                 \/ Answer(r)
           \/ \E s \in Sids : Collect(s)
           \/ Tick
        /\ UNCHANGED config

Spec == Init /\ [][Next]_vars
-----------------------------------------------------------------------------
(* Properties *)

TypeOK ==
    /\ \A s \in Sids : store[s] # Nil => store[s].data \in config.contents \ {Empty}
    /\ cookie # Nil => /\ IsId(cookie.value) \/ cookie.value.data \in config.contents \ {Empty}
                       /\ cookie.expires \in Int
    /\ \A r \in Requests : request[r].pc \in
          {"idle", "sent", "running", "handled", "remove", "store", "answer"}
    /\ now \in 0..config.end /\ given \subseteq Sids

Loaded(r) == request[r].pc = "running"

\* Requests of a browser that come one after the other see the session as the
\* last of them left it, until its life ends, and not after.
KeptWhileAlive ==
    \A r \in Requests : Loaded(r) =>
        /\ last # Nil /\ request[r].at < last.until => request[r].copy = last.data
        /\ last = Nil \/ request[r].at > last.until => request[r].copy = Empty

\* A session that is renewed outlives nine tenths of its timeout since it was
\* last used, and ends with its timeout: the rule that skips a renewal that
\* would gain little (session_interface.cpp:370) costs no more than that.
RenewedInTime ==
    How # "fixed" =>
    \A r \in Requests : Loaded(r) /\ last # Nil =>
        /\ 10 * (request[r].at - active) < 9 * Timeout => request[r].copy # Empty
        /\ request[r].at > active + Timeout => request[r].copy = Empty

Quiet == \A r \in Requests : request[r] = Idle

\* Between requests, the only live record of the storage is the one that the
\* browser's cookie names: an id that was given up leaves nothing behind.
\* (The state is well typed throughout.)
NoOrphans ==
    /\ TypeOK
    /\ Quiet => \A s \in Sids : store[s] # Nil /\ now < store[s].until =>
                    IsId(cookie.value) /\ cookie.value.sid = s

\* Between requests, the browser has a cookie for every exposed key of a live
\* session, with the key's value, if its cookies last as long as the browser.
ExposedIsSeen ==
    How = "browser" /\ Quiet /\ last # Nil /\ now < last.until =>
        \A k \in DOMAIN last.data : last.data[k].exposed /\ last.data[k].value # Blank =>
            Kept(exposed[k]) /\ exposed[k].value = last.data[k].value
=============================================================================
