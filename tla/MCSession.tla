----------------------------- MODULE MCSession -----------------------------
(* Instances of Session for TLC. *)
EXTENDS Session, TLC

CONSTANTS u1, u2, ann, bob, s1, s2

OneUser  == {u1}
TwoUsers == {u1, u2}
OneChar  == {ann}
TwoChars == {ann, bob}
OneConn  == {s1}
TwoConns == {s1, s2}

SameOwner  == [c \in Chars |-> u1]
OwnedApart == [c \in Chars |-> IF c = ann THEN u1 ELSE u2]

\* What each connection sends: everything but choosing the server; one plays and another
\* comes back for its character.
Play      == [s \in Conns |-> Packets \ {"server"}]
ComesBack == [s \in Conns |-> IF s = s1 THEN Packets \ {"servers", "menu", "quit"}
                              ELSE {"characters", "select", "start"}]
=============================================================================
