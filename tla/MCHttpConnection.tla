------------------------- MODULE MCHttpConnection --------------------------
(* A client with two requests for TLC. *)
EXTENDS HttpConnection

K(head, body, ka, v11, bad) ==
    [head |-> head, body |-> body, ka |-> ka, v11 |-> v11, bad |-> bad]

\* The first request is kept alive, in either version of HTTP, with and without
\* content, or is not.  The second is kept alive, has headers that are too long,
\* or is malformed.
MCKinds == <<{K(2, 0, TRUE, TRUE, "no"), K(1, 2, TRUE, FALSE, "no"),
              K(1, 0, FALSE, TRUE, "no")},
             {K(1, 0, TRUE, TRUE, "no"), K(4, 0, TRUE, TRUE, "no"),
              K(1, 0, TRUE, TRUE, "line"), K(1, 0, TRUE, TRUE, "method")}>>

\* One request that is not kept alive.
PeerKinds == <<{K(1, 0, FALSE, TRUE, "no")}>>

=============================================================================
