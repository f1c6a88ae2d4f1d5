------------------------------- MODULE BfService -------------------------------
(***************************************************************************)
(* The life of the service (bf-service): at its start it sends the rules   *)
(* of its cache file to the kernel module, lists what is in force there    *)
(* and writes the file anew; it does the last two again when it stops.  In *)
(* between the users change the rules in the kernel, past the service, and *)
(* the machine may restart with an empty kernel module.                    *)
(*                                                                         *)
(* A listing is one step for each chain: how it walks a chain and what can *)
(* befall it on the way is BfKernel's and BfNetlink's business.            *)
(***************************************************************************)
EXTENDS Naturals, Sequences, SequencesExt

CONSTANTS
  Rule,      \* the filter rules
  Policies,  \* the two policy pseudo rules that open every listing
  ChainOf,   \* the chain of a rule or pseudo rule
  UsersAt,   \* the steps of the service at which users change rules
  CrashAt,   \* those at which it may be killed
  LossAt,    \* those at which the machine may lose its power
  Slow,      \* TRUE: a listing may take longer than its timeout
  NoSocket,  \* TRUE: the netlink socket may be refused
  Changes,   \* bound: how many changes the users make
  Starts     \* bound: how often the service is started

Chain == {"INPUT", "OUTPUT"}
Step == {"off", "sending", "listing", "saving", "running"}
Entry == Rule \cup ToSet(Policies)

ASSUME ServiceAssumption ==
  /\ Policies \in Seq(Entry) /\ Rule \cap ToSet(Policies) = {}
  /\ ChainOf \in [Entry -> Chain]
  /\ UsersAt \subseteq Step /\ CrashAt \subseteq Step \ {"off"} /\ LossAt \subseteq Step \ {"off"}
  /\ Slow \in BOOLEAN /\ NoSocket \in BOOLEAN
  /\ Changes \in Nat /\ Starts \in Nat

VARIABLES
  kernel,   \* the chains of the kernel module
  file,     \* the cache file
  at,       \* what the service is doing
  stopping, \* and whether in stop() or in started()
  linked,   \* its netlink socket is open
  cache,    \* BfRules::sRules
  todo,     \* what is still to be sent, or to be written
  list, part, \* the list being received, and the part of it that comes next
  changes, starts, \* how many there have been
  \* The rest is auxiliary: no action's guard reads it.
  saved,    \* the rules that the last save was to keep: those in force, or
            \* as many of them as a listing cut short has brought
  promised, \* what saved was when the service was started
  fresh,    \* the service came up with its socket open, and no user has changed
            \* anything since
  orderly   \* nothing has gone wrong, and no user has changed anything past the
            \* service, since it was last stopped

service == <<at, stopping, linked, cache, todo, list, part>>
vars == <<kernel, file, service, changes, starts, saved, promised, fresh, orderly>>

\* Those of the entries that are wanted, in their order.
Select(entries, wanted) ==
  LET kept[i \in 0..Len(entries)] ==
        IF i = 0 THEN <<>>
        ELSE IF entries[i] \in wanted THEN Append(kept[i - 1], entries[i]) ELSE kept[i - 1]
  IN kept[Len(entries)]

\* BfRules::getByPattern with a pattern that only names a chain.
GetByPattern(entries, c) == Select(entries, {e \in Entry : ChainOf[e] = c})

RulesOf(entries, c) == Select(entries, {r \in Rule : ChainOf[r] = c})

InForce(r) == \E c \in Chain : r \in ToSet(kernel[c])

-----------------------------------------------------------------------------
\* Mutant of ToSend: the output chain is left out.
ToSendInput == GetByPattern(file, "INPUT")

\* loadFromFile, and the order in which started() takes the rules.
ToSend == GetByPattern(file, "INPUT") \o GetByPattern(file, "OUTPUT")

\* createApplication, and started() up to sendRulesSync.
Start ==
  /\ at = "off"
  /\ starts < Starts
  /\ at' = "sending"
  /\ stopping' = FALSE
  /\ linked' = TRUE
  /\ cache' = file
  /\ todo' = ToSend
  /\ starts' = starts + 1
  /\ promised' = saved
  /\ UNCHANGED <<kernel, file, list, part, changes, saved, fresh, orderly>>

\* Without the socket nothing is sent, listed or saved; BFLocalServer::run tries
\* to open it once more.
StartWithoutSocket ==
  /\ NoSocket
  /\ at = "off"
  /\ starts < Starts
  /\ at' = "running"
  /\ linked' \in BOOLEAN
  /\ stopping' = FALSE
  /\ cache' = file
  /\ starts' = starts + 1
  /\ promised' = saved
  /\ fresh' = FALSE
  /\ orderly' = FALSE
  /\ UNCHANGED <<kernel, file, todo, list, part, changes, saved>>

\* sendRulesSync: BFControl::addRule of the next rule.  The kernel passes over a
\* policy pseudo rule and refuses a rule it has; neither ends the loop.
SendRule ==
  LET e == Head(todo) IN
  /\ at = "sending"
  /\ todo # <<>>
  /\ kernel' = IF e \in Rule /\ ~InForce(e) THEN [kernel EXCEPT ![ChainOf[e]] = Append(@, e)]
               ELSE kernel
  /\ todo' = Tail(todo)
  /\ UNCHANGED <<file, at, stopping, linked, cache, list, part, changes, starts, saved, promised, fresh, orderly>>

BeginList ==
  /\ at' = "listing"
  /\ list' = <<>>
  /\ part' = "policies"

\* getRulesSync with CHAIN_INPUT.
SendDone ==
  /\ at = "sending"
  /\ todo = <<>>
  /\ BeginList
  /\ UNCHANGED <<kernel, file, stopping, linked, cache, todo, changes, starts, saved, promised, fresh, orderly>>

\* The policies come first whatever the pattern; started() asks for the input
\* chain, stop() for all chains.
ListPart ==
  /\ at = "listing" /\ linked
  /\ \/ /\ part = "policies"
        /\ list' = Policies
        /\ part' = "input"
     \/ /\ part = "input"
        /\ list' = list \o kernel["INPUT"]
        /\ part' = "output"
     \/ /\ part = "output"
        /\ list' = IF stopping THEN list \o kernel["OUTPUT"] ELSE list
        /\ part' = "done"
  /\ UNCHANGED <<kernel, file, at, stopping, linked, cache, todo, changes, starts, saved, promised, fresh, orderly>>

\* loadFromList, and saveToFile down to the truncation of the file.
Save(rules) ==
  /\ cache' = list
  /\ file' = <<>>
  /\ todo' = list
  /\ at' = "saving"
  /\ saved' = [c \in Chain |-> IF c = "INPUT" \/ stopping THEN rules[c] ELSE saved[c]]
  /\ UNCHANGED <<kernel, stopping, linked, list, part, changes, starts, promised, fresh>>

ListDone ==
  /\ at = "listing" /\ part = "done"
  /\ Save(kernel)
  /\ orderly' = (orderly \/ stopping)

\* Nobody looks at what getRulesSync returned: what has come is saved.
Received == [c \in Chain |-> RulesOf(list, c)]
SaveReceived == Save(Received) /\ orderly' = FALSE
ListTimeout == at = "listing" /\ linked /\ part # "done" /\ Slow /\ SaveReceived
ListFails == at = "listing" /\ ~linked /\ SaveReceived

SaveRule ==
  /\ at = "saving"
  /\ todo # <<>>
  /\ file' = Append(file, Head(todo))
  /\ todo' = Tail(todo)
  /\ UNCHANGED <<kernel, at, stopping, linked, cache, list, part, changes, starts, saved, promised, fresh, orderly>>

\* Mutant of SaveDone: the last rule is never written.
SaveDoneEarly ==
  /\ at = "saving"
  /\ Len(todo) <= 1
  /\ at' = IF stopping THEN "off" ELSE "running"
  /\ fresh' = TRUE
  /\ UNCHANGED <<kernel, file, stopping, linked, cache, todo, list, part, changes, starts, saved, promised, orderly>>

SaveDone ==
  /\ at = "saving"
  /\ todo = <<>>
  /\ at' = IF stopping THEN "off" ELSE "running"
  /\ fresh' = TRUE
  /\ UNCHANGED <<kernel, file, stopping, linked, cache, todo, list, part, changes, starts, saved, promised, orderly>>

\* getRulesSync with CHAIN_ALL.
Stop ==
  /\ at = "running"
  /\ stopping' = TRUE
  /\ BeginList
  /\ UNCHANGED <<kernel, file, linked, cache, todo, changes, starts, saved, promised, fresh, orderly>>

-----------------------------------------------------------------------------
Dies ==
  /\ at' = "off"
  /\ stopping' = FALSE
  /\ linked' = FALSE
  /\ cache' = <<>> /\ todo' = <<>> /\ list' = <<>> /\ part' = "policies"

Crash ==
  /\ at \in CrashAt
  /\ Dies
  /\ orderly' = FALSE
  /\ UNCHANGED <<kernel, file, changes, starts, saved, promised, fresh>>

\* The machine restarts: the kernel module is loaded anew.
Reboot ==
  /\ at = "off" \/ at \in LossAt
  /\ Dies
  /\ kernel' = [c \in Chain |-> <<>>]
  /\ orderly' = (orderly /\ at = "off")
  /\ UNCHANGED <<file, changes, starts, saved, promised, fresh>>

User ==
  /\ at \in UsersAt
  /\ changes < Changes
  /\ changes' = changes + 1
  /\ fresh' = FALSE
  /\ orderly' = (orderly /\ at = "running")
  /\ UNCHANGED <<file, service, starts, saved, promised>>

UserAdds(r) ==
  /\ User
  /\ ~InForce(r)
  /\ kernel' = [kernel EXCEPT ![ChainOf[r]] = Append(@, r)]

UserDeletes(r) ==
  /\ User
  /\ InForce(r)
  /\ kernel' = [kernel EXCEPT ![ChainOf[r]] = Select(@, Rule \ {r})]

-----------------------------------------------------------------------------
Init ==
  /\ kernel = [c \in Chain |-> <<>>]
  /\ file = <<>>
  /\ at = "off"
  /\ stopping = FALSE
  /\ linked = FALSE
  /\ cache = <<>> /\ todo = <<>> /\ list = <<>> /\ part = "policies"
  /\ changes = 0 /\ starts = 0
  /\ saved = [c \in Chain |-> <<>>] /\ promised = [c \in Chain |-> <<>>]
  /\ fresh = TRUE /\ orderly = TRUE

Next ==
  \/ Start \/ StartWithoutSocket \/ SendRule \/ SendDone
  \/ ListPart \/ ListDone \/ ListTimeout \/ ListFails
  \/ SaveRule \/ SaveDone \/ Stop
  \/ Crash \/ Reboot
  \/ \E r \in Rule : UserAdds(r) \/ UserDeletes(r)

Spec == Init /\ [][Next]_vars

-----------------------------------------------------------------------------
(* Properties.                                                             *)

\* A service that was stopped in order and comes up again, after a restart of the
\* machine or not, finds in each chain the rules it left there, in their order:
\* whatever went wrong before it was stopped.
Restored ==
  (at = "running" /\ fresh /\ orderly) => kernel = promised

\* The input rules that were last saved are in force when the service has come
\* up, whatever was killed in between except while the file was written.
SavedInputInForce ==
  (at = "running" /\ fresh) => ToSet(promised["INPUT"]) \subseteq ToSet(kernel["INPUT"])
=============================================================================
