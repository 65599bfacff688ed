---------------------------- MODULE MCKillSwitch ----------------------------
(* The instance of KillSwitch, and of the order manager in it, that TLC checks. *)
EXTENDS KillSwitch

CONSTANTS s1, s2, s3, m1, m2

\* Two positions share a mint and one of them has no brackets; the third lives on another
\* mint and has a stop only.
MCParams ==
  [s \in Signals |->
     CASE s = s1 -> [mint |-> m1, size |-> 2, ttl |-> 1, tp |-> 2, sl |-> NoPrice]
       [] s = s2 -> [mint |-> m1, size |-> 1, ttl |-> 1, tp |-> NoPrice, sl |-> NoPrice]
       [] s = s3 -> [mint |-> m2, size |-> 2, ttl |-> 1, tp |-> NoPrice, sl |-> 1]]
=============================================================================
