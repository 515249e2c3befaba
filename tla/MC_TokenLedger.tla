--------------------------- MODULE MC_TokenLedger ---------------------------
(* Three sessions on two documents: s1 and s3 share broker b1's thread,   *)
(* s2 runs on b2's thread concurrently with them.  Two tokens so that a   *)
(* session may share its token with another or hold its own.              *)
EXTENDS TokenLedger, TLC

CONSTANTS s1, s2, s3, b1, b2, k1, k2

MCSessions == {s1, s2, s3}
MCBrokers == {b1, b2}
MCTokens == {k1, k2}
MCBrokerOf == (s1 :> b1) @@ (s2 :> b2) @@ (s3 :> b1)
=============================================================================
