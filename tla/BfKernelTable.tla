---------------------------- MODULE BfKernelTable ----------------------------
(***************************************************************************)
(* BfKernel implements BfTable.  The table is read off the chain lists;  *)
(* two history variables remember, for each packet in a hook, the verdicts *)
(* that the tables of that time would have given.                          *)
(***************************************************************************)
EXTENDS BfKernel

VARIABLES could, late

hvars == <<vars, could, late>>

Rules == [c \in Chain |-> [i \in DOMAIN chain[c] |-> rule[chain[c][i]]]]

Asking(h) == hook[h].at \in {"next", "compare", "default"}

Table == INSTANCE BfTable WITH
  Rule <- {m.fr : m \in Msg},
  table <- Rules,
  policy <- chainPolicy,
  on <- filterOn,
  ask <- [h \in Hook |->
    [open |-> Asking(h), chain |-> hook[h].chain, packet |-> hook[h].packet,
     could |-> could[h], late |-> late[h],
     verdict |-> IF Asking(h) THEN "ACCEPT" ELSE hook[h].verdict]]

Verdicts == [h \in Hook |-> Table!Decision(Rules, chainPolicy,
                                          hook[h].chain, hook[h].packet)]

HInit == Init /\ could = [h \in Hook |-> {}] /\ late = [h \in Hook |-> {}]

HNext ==
  /\ Next
  /\ could' = [h \in Hook |->
       IF ~Asking(h)' THEN {} ELSE could[h] \cup {Verdicts'[h]}]
  /\ late' = [h \in Hook |->
       IF ~(Asking(h) /\ Asking(h)') THEN {}
       ELSE LET c == hook[h].chain IN
            IF chainPolicy'[c] # chainPolicy[c] THEN late[h] \cup {chainPolicy'[c]} ELSE late[h]]

HSpec == HInit /\ [][HNext]_hvars

\* A packet gets the verdict of a table that was in force while it was being
\* decided, whatever was added or deleted under the walk; only a change of the
\* chain's policy may also show through.  Updates in place are outside this promise.
TableSpec == Table!Spec
=============================================================================
