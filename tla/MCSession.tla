------------------------------ MODULE MCSession ----------------------------
(* Instances of Session: what handlers leave in a session.                 *)
EXTENDS Session

CONSTANTS a, b, x, y

Entry(v, e) == [value |-> v, exposed |-> e]
With(D)     == [k \in D |-> Entry(x, FALSE)]

Single == {Empty, With({a})}
Plain  == {Empty, With({a}), With({a, b})}
Public == {Empty} \cup
          [{a} -> {Entry(x, FALSE), Entry(x, TRUE), Entry(y, TRUE), Entry(Blank, TRUE)}]
          \cup {[k \in {a, b} |-> IF k = a THEN Entry(x, TRUE) ELSE Entry(v, FALSE)] : v \in {x, y}}

\* Data move between cookie and server; sessions on the server are renewed, with
\* a clock that reaches the last tenth of the timeout; keys are exposed.
Moving  == [location |-> "both", expire |-> "fixed", timeout |-> 2, contents |-> Plain,
            jumps |-> {1}, end |-> 3]
Renewed == [location |-> "server", expire |-> "renew", timeout |-> 11, contents |-> Single,
            jumps |-> {1, 9}, end |-> 14]
Exposed == [location |-> "client", expire |-> "browser", timeout |-> 2, contents |-> Public,
            jumps |-> {1}, end |-> 4]

AllConfigs == {Moving, Renewed, Exposed}
=============================================================================
