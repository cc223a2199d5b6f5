------------------------------ MODULE MCGateway ------------------------------
(* Small instances of Gateway for TLC. *)
EXTENDS Gateway, TLC

CONSTANTS h1, h2, h3, m1, m2, m3, c1, c2

TwoHandlers == {h1, h2}
ThreeHandlers == {h1, h2, h3}
ThreeMessages == {m1, m2, m3}
TwoChats == {c1, c2}

\* Two messages of one chat and one of another.
MCChatOf == (m1 :> c1) @@ (m2 :> c1) @@ (m3 :> c2)
=============================================================================
