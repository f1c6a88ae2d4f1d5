------------------------------- MODULE BfHash -------------------------------
(***************************************************************************)
(* hash_table.h: buckets of circular doubly linked lists, written pointer  *)
(* by pointer, by threads that call the *_safe functions, which lock a     *)
(* bucket, or the plain ones under a mutex of their own, as the kernel     *)
(* module does with nl_mutex.                                              *)
(***************************************************************************)
EXTENDS Naturals, Sequences, FiniteSets

CONSTANTS
  Thread,
  Key,     \* byte strings
  Hash,    \* __hash(key) % buckets
  Bucket,
  Entry,   \* struct hash_entry, embedded in the users' records
  NoThread, NoKey, NoEntry

ASSUME HashAssumption ==
  /\ Hash \in [Key -> Bucket]
  /\ NoThread \notin Thread
  /\ NoKey \notin Key
  /\ NoEntry \notin Entry /\ IsFiniteSet(Entry)
  /\ Bucket \cap Entry = {}

\* The kernel's keys all are a struct filter_rule_base; the lookup under a bucket's
\* lock compares as many bytes as the stored key has, and no lengths.
ASSUME KeyAssumption == Key \subseteq Seq(Nat) /\ \A k, l \in Key : Len(k) = Len(l)

Node == Bucket \cup Entry \* list heads and entries

VARIABLES
  next, prev, \* list_head
  key,        \* the copy of its key that an entry has
  lock,       \* who holds hash_table.lock
  locks,      \* who holds each of bucket_locks
  outer,      \* who holds the users' mutex
  plain,      \* the users call the plain functions, under that mutex
  free,       \* entries that are their users'
  th          \* the call of each thread

vars == <<next, prev, key, lock, locks, outer, plain, free, th>>
list == <<next, prev>>
mutex == <<lock, locks, outer>>

Op == {"insert", "lookup", "del"}
Idle == [at |-> "idle", op |-> "none", key |-> NoKey, entry |-> NoEntry, pos |-> NoEntry, ans |-> NoEntry]

At(t, at) == th[t].at = at
Goes(t, at) == th' = [th EXCEPT ![t].at = at]
HeadOf(t) == Hash[th[t].key]

Init ==
  /\ plain \in BOOLEAN
  /\ next = [n \in Node |-> n] /\ prev = [n \in Node |-> n]
  /\ key = [e \in Entry |-> NoKey]
  /\ lock = NoThread /\ outer = NoThread /\ locks = [b \in Bucket |-> NoThread]
  /\ free = Entry
  /\ th = [t \in Thread |-> Idle]

-----------------------------------------------------------------------------
(* Calls.                                                                    *)

\* hash_entry_init: an entry to be inserted gets a list of its own and a copy of the key.
CallInsert(t) ==
  /\ At(t, "idle")
  /\ \E k \in Key, e \in free :
       /\ th' = [th EXCEPT ![t] = [Idle EXCEPT !.at = "hash", !.op = "insert", !.key = k, !.entry = e]]
       /\ next' = [next EXCEPT ![e] = e]
       /\ prev' = [prev EXCEPT ![e] = e]
       /\ key' = [key EXCEPT ![e] = k]
       /\ free' = free \ {e}
  /\ UNCHANGED <<mutex, plain>>

CallOther(t) ==
  /\ At(t, "idle")
  /\ \E k \in Key, op \in {"lookup", "del"} :
       th' = [th EXCEPT ![t] = [Idle EXCEPT !.at = "hash", !.op = op, !.key = k]]
  /\ UNCHANGED <<list, key, mutex, plain, free>>

\* hash_table_hash_code; the _safe one takes the lock of the table (del_key_safe
\* uses the other).
HashCode(t) ==
  /\ At(t, "hash")
  /\ IF plain \/ th[t].op = "del"
     THEN Goes(t, "lock") /\ UNCHANGED lock
     ELSE lock = NoThread /\ lock' = t /\ Goes(t, "hashed")
  /\ UNCHANGED <<list, key, locks, outer, plain, free>>

Hashed(t) ==
  /\ At(t, "hashed")
  /\ lock' = NoThread
  /\ Goes(t, "lock")
  /\ UNCHANGED <<list, key, locks, outer, plain, free>>

Inside(t) == IF th[t].op = "insert" THEN "add" ELSE "first"

\* Mutant of Lock: the bucket is not locked.
LockNothing(t) ==
  /\ At(t, "lock")
  /\ IF plain THEN outer = NoThread /\ outer' = t /\ UNCHANGED locks ELSE UNCHANGED <<outer, locks>>
  /\ Goes(t, Inside(t))
  /\ UNCHANGED <<list, key, lock, plain, free>>

\* hash_table_bucket_lock, or the users' mutex.
Lock(t) ==
  /\ At(t, "lock")
  /\ IF plain
     THEN outer = NoThread /\ outer' = t /\ UNCHANGED locks
     ELSE locks[HeadOf(t)] = NoThread /\ locks' = [locks EXCEPT ![HeadOf(t)] = t] /\ UNCHANGED outer
  /\ Goes(t, Inside(t))
  /\ UNCHANGED <<list, key, lock, plain, free>>

Unlock(t) ==
  /\ At(t, "unlock")
  /\ outer' = IF plain THEN NoThread ELSE outer
  /\ locks' = IF plain THEN locks ELSE [locks EXCEPT ![HeadOf(t)] = NoThread]
  /\ Goes(t, "return")
  /\ UNCHANGED <<list, key, lock, plain, free>>

\* An entry that was deleted is its user's, who frees it.
Return(t) ==
  LET gone == IF th[t].op = "del" /\ th[t].ans # NoEntry THEN {th[t].ans} ELSE {} IN
  /\ At(t, "return")
  /\ th' = [th EXCEPT ![t] = Idle]
  /\ free' = free \cup gone
  /\ key' = [e \in Entry |-> IF e \in gone THEN NoKey ELSE key[e]]
  /\ UNCHANGED <<list, mutex, plain>>

-----------------------------------------------------------------------------
(* list_add(e, head).                                                        *)

Step(t, from, to, node) ==
  /\ At(t, from)
  /\ th' = [th EXCEPT ![t].at = to, ![t].pos = node]
  /\ UNCHANGED <<key, mutex, plain, free>>

\* Mutant of AddBack: the old first entry still points back to the head.
AddBackNot(t) == Step(t, "add", "link", next[HeadOf(t)]) /\ UNCHANGED list

\* __list_add(new, head, head->next): next->prev = new, ...
AddBack(t) ==
  /\ Step(t, "add", "link", next[HeadOf(t)])
  /\ prev' = [prev EXCEPT ![next[HeadOf(t)]] = th[t].entry]
  /\ UNCHANGED next

\* ... new->next = next, new->prev = prev, ...
AddLink(t) ==
  /\ Step(t, "link", "publish", th[t].pos)
  /\ next' = [next EXCEPT ![th[t].entry] = th[t].pos]
  /\ prev' = [prev EXCEPT ![th[t].entry] = HeadOf(t)]

\* ... prev->next = new.
AddPublish(t) ==
  /\ Step(t, "publish", "unlock", NoEntry)
  /\ next' = [next EXCEPT ![HeadOf(t)] = th[t].entry]
  /\ UNCHANGED prev

-----------------------------------------------------------------------------
(* hash_table_lookup_key and its _safe form.                                 *)

First(t) == Step(t, "first", "look", next[HeadOf(t)]) /\ UNCHANGED list

LooksAny(t, e) == TRUE \* Mutant of Looks: the first entry of the bucket is taken.
Looks(t, e) == key[e] = th[t].key

Stay(pos) == pos \* Mutant of NextOf: the walk does not go on.
NextOf(pos) == next[pos]

Look(t) ==
  LET pos == th[t].pos IN
  /\ At(t, "look")
  /\ IF pos = HeadOf(t)
     THEN th' = [th EXCEPT ![t].pos = NoEntry, ![t].at = "unlock"]
     ELSE IF Looks(t, pos)
     THEN th' = [th EXCEPT ![t].ans = pos, ![t].pos = NoEntry, ![t].at = IF th[t].op = "del" THEN "unlink" ELSE "unlock"]
     ELSE th' = [th EXCEPT ![t].pos = NextOf(pos)]
  /\ UNCHANGED <<list, key, mutex, plain, free>>

-----------------------------------------------------------------------------
(* list_del_init(e).                                                         *)

\* next->prev = prev, ...
DelBack(t) ==
  /\ Step(t, "unlink", "skip", NoEntry)
  /\ prev' = [prev EXCEPT ![next[th[t].ans]] = prev[th[t].ans]]
  /\ UNCHANGED next

\* ... prev->next = next, ...
DelSkip(t) ==
  /\ Step(t, "skip", "clear", NoEntry)
  /\ next' = [next EXCEPT ![prev[th[t].ans]] = next[th[t].ans]]
  /\ UNCHANGED prev

\* ... INIT_LIST_HEAD.
DelClear(t) ==
  /\ Step(t, "clear", "unlock", NoEntry)
  /\ next' = [next EXCEPT ![th[t].ans] = th[t].ans]
  /\ prev' = [prev EXCEPT ![th[t].ans] = th[t].ans]

-----------------------------------------------------------------------------
Go(t) ==
  \/ HashCode(t) \/ Hashed(t) \/ Lock(t) \/ Unlock(t) \/ Return(t)
  \/ AddBack(t) \/ AddLink(t) \/ AddPublish(t)
  \/ First(t) \/ Look(t)
  \/ DelBack(t) \/ DelSkip(t) \/ DelClear(t)

Next == \E t \in Thread : CallInsert(t) \/ CallOther(t) \/ Go(t)

Spec == Init /\ [][Next]_vars

\* A thread goes on with its call, and a mutex goes in the end to whoever waits.
FairSpec ==
  /\ Spec
  /\ \A t \in Thread : WF_vars(Go(t)) /\ SF_vars(HashCode(t)) /\ SF_vars(Lock(t))

-----------------------------------------------------------------------------
(* The table as its users see it.                                            *)

Rows == UNION {[1..n -> Entry] : n \in 0..Cardinality(Entry)}

\* s is what follows b on its list, up to b again.
Place(b, s, i) == IF i \in DOMAIN s THEN s[i] ELSE b
IsList(b, s, follow) ==
  /\ \A i, j \in DOMAIN s : s[i] = s[j] => i = j
  /\ \A i \in 0..Len(s) : follow[Place(b, s, i)] = Place(b, s, i + 1)

\* The entries of a bucket from its head on, the newest first.
Chain(b, follow) == CHOOSE s \in Rows : IsList(b, s, follow)

\* r is those of s that are wanted, in their order.
IsRow(r, s, wanted) ==
  /\ {r[i] : i \in DOMAIN r} = {s[i] : i \in DOMAIN s} \cap wanted
  /\ \A i, j \in DOMAIN r : i < j => \E a, b \in DOMAIN s : a < b /\ r[i] = s[a] /\ r[j] = s[b]

RowOf(s, wanted) == CHOOSE r \in Rows : IsRow(r, s, wanted)
Row(k) == RowOf(Chain(Hash[k], next), {e \in Entry : key[e] = k})

Effective(t) == th[t].at \in {"clear", "unlock", "return"}

Seen(t) ==
  IF At(t, "idle") THEN [op |-> "none", key |-> NoKey, entry |-> NoEntry, done |-> FALSE, ans |-> NoEntry]
  ELSE [op |-> th[t].op, key |-> th[t].key, entry |-> th[t].entry, done |-> Effective(t),
        ans |-> IF Effective(t) THEN th[t].ans ELSE NoEntry]

Map == INSTANCE BfMap WITH
  rows <- [k \in Key |-> Row(k)],
  req <- [t \in Thread |-> Seen(t)]

\* Inside the lock of its bucket, or of its user.
Critical == {"add", "link", "publish", "first", "look", "unlink", "skip", "clear", "unlock"}
InBucket(t, b) == th[t].at \in Critical /\ HeadOf(t) = b

\* The bucket a node belongs to; an entry without a key belongs to itself.
Home(n) == IF n \in Bucket THEN n ELSE IF key[n] \in Key THEN Hash[key[n]] ELSE n

-----------------------------------------------------------------------------
\* A mutex is held by a thread that is inside, and by no other.
TypeOK ==
  /\ plain \in BOOLEAN
  /\ next \in [Node -> Node] /\ prev \in [Node -> Node]
  /\ key \in [Entry -> Key \cup {NoKey}]
  /\ free \subseteq Entry
  /\ th \in [Thread -> [at : Critical \cup {"idle", "hash", "hashed", "lock", "return"},
                       op : Op \cup {"none"}, key : Key \cup {NoKey}, entry : Entry \cup {NoEntry},
                       pos : Node \cup {NoEntry}, ans : Entry \cup {NoEntry}]]
  /\ lock \in Thread \cup {NoThread} /\ outer \in Thread \cup {NoThread}
  /\ locks \in [Bucket -> Thread \cup {NoThread}]
  /\ \A t \in Thread : ~At(t, "idle") => th[t].key \in Key
  /\ \A t \in Thread :
       /\ lock = t => At(t, "hashed")
       /\ outer = t => plain /\ th[t].at \in Critical
       /\ \A b \in Bucket : locks[b] = t => ~plain /\ InBucket(t, b)

\* hash_table.h:4, "thread safe functions as *_safe()", and the plain ones under their
\* users' mutex: two threads never touch the list of one bucket at a time.
Exclusive ==
  \A t, u \in Thread, b \in Bucket : InBucket(t, b) /\ InBucket(u, b) => t = u

\* While nobody is inside a bucket, whatever belongs there points forth and back to
\* nodes that belong there too, and no node points to an entry that is its user's.
ListsWhole ==
  \A n \in Node :
    (\A t \in Thread : ~InBucket(t, Home(n))) =>
      /\ prev[next[n]] = n /\ next[prev[n]] = n
      /\ Home(next[n]) = Home(n) /\ Home(prev[n]) = Home(n)
      /\ next[n] \in free => next[n] = n

\* The inductive invariant.  Entries that are on no list: those of the users, and
\* those that a thread is about to insert or has just taken off.
Mine(t) ==
  CASE th[t].op = "insert" /\ th[t].at \in {"hash", "hashed", "lock", "add", "link"} -> {th[t].entry}
    [] th[t].op = "del" /\ th[t].at \in {"unlock", "return"} -> {th[t].ans} \ {NoEntry}
    [] OTHER -> {}
Loose == free \cup UNION {Mine(t) : t \in Thread}

Hands ==
  \A t, u \in Thread : Mine(t) \cap free = {} /\ (t # u => Mine(t) \cap Mine(u) = {})

\* Whoever is inside holds the mutex.
Holds ==
  \A t \in Thread : th[t].at \in Critical => IF plain THEN outer = t ELSE locks[HeadOf(t)] = t

\* What a thread that is inside has in hand is on the list of its bucket.
Belongs(t, n) == n \in Node /\ Home(n) = HeadOf(t) /\ n \notin Loose

WorkOf(t) ==
  /\ th[t].at # "idle" => th[t].op \in Op
  /\ th[t].at \in {"hash", "hashed", "lock", "first", "look"} => th[t].ans = NoEntry
  /\ th[t].at \in {"add", "link", "publish"} => th[t].op = "insert"
  /\ th[t].at \in {"first", "look"} => th[t].op \in {"lookup", "del"}
  /\ th[t].at \in {"unlink", "skip", "clear"} => th[t].op = "del"
  /\ Mine(t) \subseteq Entry /\ \A e \in Mine(t) : key[e] = th[t].key
  /\ th[t].at = "publish" =>
       th[t].entry \in Entry /\ Belongs(t, th[t].entry) /\ key[th[t].entry] = th[t].key
  /\ th[t].at \in {"link", "publish", "look"} => Belongs(t, th[t].pos)
  /\ th[t].at \in {"unlink", "skip", "clear"} =>
       th[t].ans \in Entry /\ Belongs(t, th[t].ans) /\ key[th[t].ans] = th[t].key
Work == \A t \in Thread : WorkOf(t)

Homes == \A n \in Node : Home(next[n]) = Home(n) /\ Home(prev[n]) = Home(n)

Apart ==
  \A e \in Loose :
    /\ next[e] = e /\ prev[e] = e
    /\ \A n \in Node \ {e} :
         /\ next[n] # e
         /\ prev[n] = e => \E t \in Thread : At(t, "link") /\ th[t].entry = e /\ th[t].pos = n

\* Where the two directions disagree, between the writes of a thread.
NextBroken(t) ==
  CASE th[t].at \in {"link", "publish"} -> {HeadOf(t)}
    [] th[t].at \in {"skip", "clear"} -> {th[t].ans}
    [] OTHER -> {}
PrevBroken(t) ==
  CASE At(t, "link") -> {th[t].pos}
    [] At(t, "publish") -> {th[t].entry}
    [] At(t, "skip") -> {next[th[t].ans]}
    [] At(t, "clear") -> {th[t].ans}
    [] OTHER -> {}

Links ==
  \A n \in Node :
    /\ prev[next[n]] = n \/ \E t \in Thread : n \in NextBroken(t)
    /\ next[prev[n]] = n \/ \E t \in Thread : n \in PrevBroken(t)

HalfwayOf(t) ==
  /\ At(t, "link") => next[HeadOf(t)] = th[t].pos /\ prev[th[t].pos] = th[t].entry
  /\ At(t, "publish") =>
       /\ next[th[t].entry] = th[t].pos /\ prev[th[t].entry] = HeadOf(t)
       /\ next[HeadOf(t)] = th[t].pos /\ prev[th[t].pos] = th[t].entry
  /\ At(t, "skip") =>
       /\ next[prev[th[t].ans]] = th[t].ans
       /\ prev[next[th[t].ans]] = prev[th[t].ans]
  /\ At(t, "clear") =>
       /\ next[prev[th[t].ans]] = next[th[t].ans]
       /\ prev[next[th[t].ans]] = prev[th[t].ans]
  /\ th[t].at \in {"skip", "clear"} => (next[th[t].ans] = th[t].ans <=> prev[th[t].ans] = th[t].ans)
Halfway == \A t \in Thread : HalfwayOf(t)

IInv == TypeOK /\ Holds /\ Hands /\ Work /\ Homes /\ Apart /\ Links /\ Halfway

\* Calls take effect at once, and the newest entry of a key is found first, also when
\* keys share a bucket (line 277).
Atomic == Map!Spec

\* Every call returns: a bucket is unlocked on each way out.
CallsReturn == \A t \in Thread : At(t, "hash") ~> At(t, "idle")
=============================================================================
