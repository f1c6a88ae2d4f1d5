---------------------------- MODULE MCBfLocalServer ----------------------------
(* Small instances of BfLocalServer for TLC.                                 *)
EXTENDS BfLocalServer

CONSTANTS c1, c2

\* qrand() without qsrand(): the k-th command has the same number in every client.
SameNumbers == [c \in Client |-> [k \in 1..Calls |-> k]]

\* A client that changes and lists, and one whose commands the kernel does not
\* answer, or the service does not wait for.
ManyKinds == [c \in Client |-> IF c = c1 THEN {"change", "list"} ELSE {"policyadd", "flush"}]
Changes == [c \in Client |-> {"change"}]
=============================================================================
