---------------------------- MODULE SessionStore ----------------------------
(***************************************************************************)
(* What a sessions::session_storage promises (cppcms/session_storage.h): a *)
(* record per session id, which save() replaces, remove() deletes and      *)
(* load() returns until the end of its life.  A record may be deleted at   *)
(* any time after that.  A save() that is cut short, by a crash or an      *)
(* error, may lose the record; nothing else may.                           *)
(***************************************************************************)
EXTENDS Integers

CONSTANTS Clients, Sids, Nil

VARIABLES
    record,         \* sid -> [data, until] or Nil
    saving,         \* client -> sid whose save() it has begun, or Nil
    removing,       \* client -> sid that it asked to remove(), or Nil
    loaded,         \* client -> record that its load() returned, or Nil
    clock

storeVars == <<record, saving, removing, loaded, clock>>

SInit == /\ record = [s \in Sids |-> Nil]
         /\ saving = [c \in Clients |-> Nil]
         /\ removing = [c \in Clients |-> Nil]
         /\ loaded = [c \in Clients |-> Nil]
         /\ clock = 0

Expired(s) == record[s] # Nil /\ record[s].until < clock

Quiet(s) == \A c \in Clients : saving[c] # s

Replaced(s) == /\ record'[s] # Nil
               /\ record' = [record EXCEPT ![s] = record'[s]]

SaveBegins(c, s) == /\ saving[c] = Nil /\ Quiet(s)
                    /\ Replaced(s)
                    /\ saving' = [saving EXCEPT ![c] = s]
                    /\ UNCHANGED <<removing, loaded, clock>>

SaveEnds(c) == /\ saving[c] # Nil
               /\ saving' = [saving EXCEPT ![c] = Nil]
               /\ UNCHANGED <<record, removing, loaded, clock>>

\* The record is lost, unless all that matters had been written.
SaveIsCut(c) == /\ saving[c] # Nil
                /\ saving' = [saving EXCEPT ![c] = Nil]
                /\ \/ record' = [record EXCEPT ![saving[c]] = Nil]
                   \/ UNCHANGED record
                /\ UNCHANGED <<removing, loaded, clock>>

Load(c, s) == /\ Quiet(s)
              /\ loaded' = [loaded EXCEPT ![c] = IF Expired(s) THEN Nil ELSE record[s]]
              /\ \/ UNCHANGED record
                 \/ Expired(s) /\ record' = [record EXCEPT ![s] = Nil]
              /\ UNCHANGED <<saving, removing, clock>>

\* A load() that cannot get at the storage finds nothing; what was loaded is
\* forgotten.
Forget(c) == /\ loaded' = [loaded EXCEPT ![c] = Nil]
             /\ UNCHANGED <<record, saving, removing, clock>>

RemoveBegins(c, s) == /\ removing[c] = Nil
                      /\ removing' = [removing EXCEPT ![c] = s]
                      /\ UNCHANGED <<record, saving, loaded, clock>>

Remove(c) == /\ removing[c] # Nil /\ Quiet(removing[c])
             /\ record' = [record EXCEPT ![removing[c]] = Nil]
             /\ UNCHANGED <<saving, removing, loaded, clock>>

RemoveEnds(c) == /\ removing[c] # Nil
                 /\ removing' = [removing EXCEPT ![c] = Nil]
                 /\ UNCHANGED <<record, saving, loaded, clock>>

\* Records whose life has ended are collected.
Collect == /\ \E S \in SUBSET {s \in Sids : Expired(s) /\ Quiet(s)} :
                  record' = [s \in Sids |-> IF s \in S THEN Nil ELSE record[s]]
           /\ UNCHANGED <<saving, removing, loaded, clock>>

\* Some clients die, and with them the save() that they have begun.
Crash(C) == /\ saving' = [c \in Clients |-> IF c \in C THEN Nil ELSE saving[c]]
            /\ removing' = [c \in Clients |-> IF c \in C THEN Nil ELSE removing[c]]
            /\ loaded' = [c \in Clients |-> IF c \in C THEN Nil ELSE loaded[c]]
            /\ \E S \in SUBSET {s \in Sids : \E c \in C : saving[c] = s} :
                  record' = [s \in Sids |-> IF s \in S THEN Nil ELSE record[s]]
            /\ UNCHANGED clock

Age == /\ clock' = clock + 1
       /\ UNCHANGED <<record, saving, removing, loaded>>

SNext == \/ \E c \in Clients, s \in Sids :
               SaveBegins(c, s) \/ Load(c, s) \/ RemoveBegins(c, s)
         \/ \E c \in Clients :
               SaveEnds(c) \/ SaveIsCut(c) \/ Forget(c) \/ Remove(c) \/ RemoveEnds(c)
         \/ Collect
         \/ \E C \in SUBSET Clients : Crash(C)
         \/ Age

SSpec == SInit /\ [][SNext]_storeVars
=============================================================================
