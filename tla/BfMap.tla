------------------------------- MODULE BfMap --------------------------------
(***************************************************************************)
(* What a user of the hash table may rely on, with no buckets, lists or    *)
(* locks: a call takes effect at once, some time between its start and its *)
(* return.  A key may have several entries; the newest is found first.     *)
(***************************************************************************)
EXTENDS Sequences

CONSTANTS Thread, Key, Entry, NoKey, NoEntry

VARIABLES
  rows, \* of each key, its entries, the newest first
  free, \* the entries in their users' hands
  req   \* the call of each thread

vars == <<rows, free, req>>

Idle == [op |-> "none", key |-> NoKey, entry |-> NoEntry, done |-> FALSE, ans |-> NoEntry]

Init ==
  /\ rows = [k \in Key |-> <<>>]
  /\ free = Entry
  /\ req = [t \in Thread |-> Idle]

Call(t, op, k, e) ==
  /\ req[t] = Idle
  /\ req' = [req EXCEPT ![t] = [Idle EXCEPT !.op = op, !.key = k, !.entry = e]]
  /\ free' = free \ {e}
  /\ UNCHANGED rows

CallInsert(t) == \E k \in Key, e \in free : Call(t, "insert", k, e)
CallOther(t) == \E k \in Key, op \in {"lookup", "del"} : Call(t, op, k, NoEntry)

Pending(t, op) == req[t].op = op /\ ~req[t].done
Answers(t, e) == req' = [req EXCEPT ![t].done = TRUE, ![t].ans = e]
First(k) == IF rows[k] = <<>> THEN NoEntry ELSE Head(rows[k])

Insert(t) ==
  /\ Pending(t, "insert")
  /\ Answers(t, NoEntry)
  /\ rows' = [rows EXCEPT ![req[t].key] = <<req[t].entry>> \o @]
  /\ UNCHANGED free

Lookup(t) ==
  /\ Pending(t, "lookup")
  /\ Answers(t, First(req[t].key))
  /\ UNCHANGED <<rows, free>>

Del(t) ==
  /\ Pending(t, "del")
  /\ Answers(t, First(req[t].key))
  /\ rows' = [rows EXCEPT ![req[t].key] = IF @ = <<>> THEN @ ELSE Tail(@)]
  /\ UNCHANGED free

\* A deleted entry is its user's again.
Return(t) ==
  /\ req[t].done
  /\ req' = [req EXCEPT ![t] = Idle]
  /\ free' = IF req[t].op = "del" /\ req[t].ans # NoEntry THEN free \cup {req[t].ans} ELSE free
  /\ UNCHANGED rows

Next ==
  \E t \in Thread :
    CallInsert(t) \/ CallOther(t) \/ Insert(t) \/ Lookup(t) \/ Del(t) \/ Return(t)

Spec == Init /\ [][Next]_vars
=============================================================================
