# TLA+ models of bf, the "Barrier" mini-firewall

bf is a packet filter for Linux: a kernel module that decides TCP and UDP packets by two
chains of rules, a service that saves the rules and offers them to local clients, and a
command and a GUI that edit them. This directory holds TLA+ modules translated from its
source, TLC configurations that check them on small instances, and proofs that TLAPS checks
for instances of every size.

To run a configuration: `tlc -config BfKernel.cfg MCBfKernel.tla`. To check the proofs:
`tlapm M.tla` for the modules whose names end in `Proofs`. `PROJECT.json` maps every definition to the lines it
models.

## 1. The system

    bfctl --------------------- netlink ---------------------------+
    GUI, other clients -- local socket -- BFLocalServer (service)  |
                                             | BFControl           |
                                             +---- netlink ------- nl_rcv_msg -- rule store -- hook_func
                                                                     |  list threads              |
                                                                     +-------- log: work_handler -+

| Part | State it keeps | Operations | Talks to |
|---|---|---|---|
| Hash table (`bf-ko/base/hash_table.h`, `list.h`) | buckets of doubly linked lists, a lock for each, one for the hash code | insert, look up, delete | the rule store, which keeps rules by key in it |
| Rule store (`bf-ko/bf_module.c`, `nl_int.c`) | `lst_fr` (all rules), `lst_fr_in`, `lst_fr_out` (chains), `map_fr` (hash table), `chain_policy`, `filter_value` | add, update, delete, flush, chain policy; RCU frees | the sender of a message, by an answer; `hook_func`, by shared lists |
| `hook_func` | none of its own | walks a chain under `rcu_read_lock`, decides, hands UDP packets to the log | rule store, log |
| Log (`add_to_skb_list`, `work_handler`) | `skb_list`, a work item, `pid_log` | queue, take one and send it | one subscriber |
| Module (`init_module`, `cleanup_module`) | the hooks, the workqueue, the netlink socket | load, unload | everything else in the kernel |
| List threads (`thread`, `list_rules`, `wfc`) | the globals `thrd_params` and `comp` | copy the request, send policies and rules, wait for `MSG_OK` every 50 | the asking process |
| `BFControl` (`bf-link/bfcontrol.cpp`, `qwaitfordone.cpp`) | `d->ruleslst`, an `ErrorReciever` and a timer for each call | one call for each message; `process()` for what arrives | the kernel, by netlink |
| `BFLocalServer` (`bf-link/bflocalserver.cpp`) | `mClientCommands`, `mReadSizes`, its sockets | connect, read, process, disconnect | `BFControl`, clients |
| `BFLocalControl` (`bf-link/bflocalcontrolprivate.cpp`) | a queue of commands, `ruleslst`, the size of a frame half read, a timer for each call | the calls of `BFControl`, over the socket; connecting again | `BFLocalServer` |
| Service (`bf-service`) | the cache `BfRules::sRules` and its file | `started()`, `stop()` | `BFControl`, the file |
| Service control (`exts/qtservice`) | the socket file, a cache of bytes for each connection | start, terminate, pause, resume, ask whether it is alive | the service's main thread, its command line |
| Signals (`bf-service/signalcatcher.cpp`) | a socket pair for each signal | catch, hand on to a slot | the service's other thread |
| `bfctl` | none | parses options into a rule, makes one call, prints what came of it | `BFControl` |

Not modelled at all, with the reasons: `BFRemoteControl` (stubs), the logger and the
configuration (I/O that nothing reads back), the GUI and test programs (what they keep is a
table for display; that the GUI's slots make calls in the event loop of other calls is in
`BfClient`), `bf_cmd.c`, `netlink_kern_thrd.c` and `netlink_socket.cpp` (not built), the
libraries under `exts/` other than `qtservice`, and of that one what is for Windows.

### What is hard in it

- *Interleaving.* A walk of `hook_func` holds no lock: the handler unlinks rules under it.
  A packet may interrupt `work_handler`; a list thread reads its request out of a global
  that the next message overwrites. In the service one thread stops what another has begun.
- *Nested event loops.* Every call of `BFControl` turns an event loop. In the service that
  loop reads other clients' commands, in the GUI it runs other slots, and calls pile up on
  one stack.
- *Answers without a name.* The kernel's answers bear no number, and responses bear a number
  that nobody compares, and that is the same in every client (`qrand()`, never seeded).
  Lateness turns into a wrong answer.
- *Pointers that outlive a call.* The list that is being filled belongs to the caller; a send
  that fails returns without taking the pointer back, and the constructor never sets it.
- *Timers.* A call may return before its answer comes, and a list thread before its `MSG_OK`.
- *Crashes and restarts.* The service may die while it sends, lists or writes; the machine
  may come up with an empty kernel module.
- *Files that outlive their owner.* The control socket's file is removed and made by
  whoever starts or ends, without asking whose it is.
- *Pieces.* A frame arrives in parts, and its connection may break between them.
- *Limits.* A receive queue that is full ends a listing; a work item is pending once.

`PROJECT.json` lists every such place ("hazards") at its line, with the properties that bear
on it or the reason why none does.

### What makes each part correct

- Rule store: its three indexes agree; an answer is true; nothing in use is freed.
- Hook: a packet gets the verdict of a table that was in force while it was decided, and
  the rules mean what was typed.
- Hash table: one thread at most changes a bucket, its list is whole whenever nobody does,
  and each call takes effect at one moment.
- Log: what fired is sent, in order, once, and freed once; unloading leaves nothing running.
- Calls: they end, and what they return is the answer to them.
- Local server: a response goes to whom it belongs and tells what became of the command.
- Service: the rules that were left are found again; one service runs and can be reached;
  a stop saves what is in force, and ends.

## 2. The modules

| Module | Models |
|---|---|
| `BfKernel` | the rule store with its handler, walks and grace periods |
| `BfTable` | the abstract specification: a table, and verdicts that some table of the time gives |
| `BfKernelTable` | the refinement of `BfTable` by `BfKernel` |
| `BfKernelProofs` | theorems about `BfKernel`: what a walk stands on, the store between two messages, and that it implements `BfTable` |
| `BfHash` | the hash table, pointer by pointer |
| `BfMap` | the abstract specification: a map from keys to entries, and calls that take effect at once |
| `BfHashProofs` | theorems about `BfHash` |
| `BfCtl` | what `bfctl` makes of a command line |
| `BfFilter` | from a command line to the rules, to what `hook_func` makes of packets, and to what `bfctl` shows |
| `BfLog` | the list of fired packets and the work item, from loading to unloading |
| `BfPacketProofs` | theorems about `BfCtl` and `BfFilter`, and about `BfLog` |
| `BfNetlink` | `BFControl` and the list threads |
| `BfNetlinkProofs` | theorems about `BfNetlink` |
| `BfLocalServer` | the service's server and its clients |
| `BfLocalServerProofs` | theorems about `BfLocalServer` |
| `BfClient` | a client of the service: its calls, its connection, its frames |
| `BfClientProofs` | theorems about `BfClient` |
| `BfService` | the service's starts and stops, and its file |
| `BfServiceProofs` | theorems about `BfService` |
| `BfDaemon` | the service as a process: command line, control socket, signals, threads |
| `BfDaemonProofs` | theorems about `BfDaemon` |
| `MC...` | the instances that TLC checks |

They do not share variables: `BfNetlink` leaves open what a change does to the rules
(`BfKernel` has it), `BfLocalServer` shortens the dialogue with the kernel (`BfNetlink` has
it), `BfService` takes a listing in one step for each chain, `BfKernel` takes the hash table
for a set of entries found by key (`BfHash` shows that it is one), `BfClient` has a server
that answers in order (`BfLocalServer` has the one that may not), `BfDaemon` has a listing
as one message with the rules and one that ends it.

A definition named "Mutant of X" is a wrong version of X: with it in X's place the property
that `PROJECT.json` pairs it with fails. The mutants are not part of any specification.

### BfKernel

`full`, `chain`, `hashed` are the three indexes; `mem` says of each object whether it is
free, in use or given to `call_rcu`; `left` is the `->next` that `list_del_rcu` leaves in an
object for the walks that stand on it. `nl_mutex` makes the handler sequential: `at` is the
step it is at, one action for each insertion, removal or assignment that a walk can see
(`AddRule` and `AddToChain` are `add_rule`; `DeleteFromIn`, `DeleteFromOut`,
`DeleteFromHash`, `DeleteFromFull` are `delete_rule`). `HookBegin`, `HookNext`, `HookMatch`,
`HookSkip`, `HookEnd`, `HookDefault` are `hook_func`: the policy of a rule is read before
the comparison, the policy of the chain after `rcu_read_unlock`. `CallRcu` notes the
read-side sections that are open, `SectionEnds` closes one, `FreeRule` is the callback.

Which packet matches which rule is the constant `Matches`. The model is sequentially
consistent: the barriers of `list_add_tail_rcu` and `rcu_dereference` are taken to work.
A `kmalloc` that fails is left out (the code does not test for it), as are the buckets of
the hash table, which are in `BfHash`. `sees` is auxiliary: of each object that has left its chain, the walks that
were under way then.

### BfTable, BfKernelTable

`BfTable` has two ordered chains, their policies, and for each packet being decided the set
of verdicts it may get: those that the tables gave since it arrived (`could`), and a policy
that was changed meanwhile (`late`), because `hook_func` reads it after its walk.
`BfKernelTable` reads the table off the chain lists and keeps the two sets as history
variables. Updates in place are outside this promise: `nl_rcv_msg` writes `off` and `policy`
one after the other, and a walk may see a rule half changed. The messages of this instance
have no updates.

### BfHash, BfMap

`next` and `prev` are the fields of `list_head`, for the heads of the buckets and for the
entries; each action is one access to memory, in the order in which `list.h` makes them:
`AddBack`, `AddLink`, `AddPublish` are `__list_add`, `DelBack`, `DelSkip`, `DelClear` are
`list_del_init`, `First` and `Look` a walk of `list_for_each`. `lock` is the lock of the
table, which the `_safe` functions hold while they compute the hash code (deletion does not),
`locks` are the buckets' locks. `plain` says that the users call the functions without `_safe` under a mutex
of their own, as `bf_module.c` does with `nl_mutex`; the module is about both kinds, but not
about a table that is used in both ways at once. Accesses under a lock are atomic each;
nothing is assumed of how they are ordered between threads but what the locks give.

`BfMap` has the entries of each key, newest first, and calls that take effect in one step
between their start and their return. The refinement reads the entries off the lists
(`Chain` is the sequence that follows a head link by link up to the head again; the row of a
key is what of it has that key, in the same order), and the step is the write that links or
unlinks an entry, or the comparison that finds it.

The comparison of `hash_table_lookup_key_safe` is of as many bytes as the stored key has
(line 323); `KeyAssumption` says that keys have one length, as `struct filter_rule_base` has.
`hash_func` is any function (`Hash`). A `kmalloc` that fails, `hash_table_finit` and the
walks over all buckets (used when nothing else runs) are left out.

### BfCtl, BfFilter

`BfCtl` is `parse_cmd_args`: a recursion over the options, each of which overwrites a part of
one rule; one operator for each kind of option. `BfFilter` runs a parsed line as
`processCommand` does, one action for each command; a command, with the kernel's part in it,
or a call of the hook is one step. `Added`, `Changed`, `Without`, `PoliciesWith`, `Sent` are
the kernel's parts, `AddRule`, `UpdateRule`, ... what `cmds.cpp` makes of them and prints.
Addresses are four bytes in the order of memory, and `Ntohl` and `Ntohs` are what a
little-endian machine makes of them. Where the kernel leaves the transport header at each
hook is taken to be what the code expects.

`given` is auxiliary: the rules and policies that the lines typed so far ask for, read
without the parser (`Asked`, `Wrong`, `RulesAfter`): the value of an option is the one that
was typed, a line with an error in it asks for nothing, and an update leaves alone what it
does not name (`Renewed`, as the help has it, `utils.cpp:267`; the code does not). `VerdictAsTyped` and
`ListingAsTyped` compare what the code does with it.

Recursion (`ParseCmdArgs`, `Select`, `WithAll`, `AddedAll`) is written with recursive
functions, and `Select` takes the set of the rules wanted in place of a test, so that the
provers can reason about both. At the end of `BfFilter` stands what the theorems suppose of
the lines and files (`WellFormedLines`, `ObeyedLines`, `UnaddressedLines`, `ListedLines`); the
instance satisfies all of it, and TLC evaluates that (`SupposedAssumption`).

### BfLog

The packets are numbered in the order in which they fired. `SkbQueueTail` and `QueueWork`
are the two halves of `add_to_skb_list`; they run on a processor in place of the handler
that runs there. `Take` and `Unlink` are the two halves of `__skb_dequeue`, which takes no
lock. The workqueue is external: a work item is pending at most once, and its `PENDING` bit
is cleared before its handler runs.

`module` is how far `init_module` or `cleanup_module` has come, one action for each of their
calls. `nf_unregister_hook` returns when the processors that were in the hooks have left
(`waits`), `DestroyWorkqueue` when no work is queued or running. Hooks run from their
registration on, so packets may come before there is a netlink socket, and until the last
hook is gone; `pid_log` is set by a message, so not before the socket is there. List threads,
which no call of `cleanup_module` waits for, are not beside it.

### BfNetlink

`inbox` is each client's receive queue, bounded by `QueueMax`: what does not fit is lost,
and ends a listing without `MSG_DONE` (`nl_send_msg` returns the error). `params` and `comp`
are the globals `thrd_params` and `comp`. A call of `BFControl` is its sending step
(`Change`, `AddPolicyRule`, `DeleteRules`, `GetRules`), the messages `process()` takes while
its loop turns, and its end by an answer or by `Timeout`. The kernel's answer to a change is
arbitrary. `SendFails` is a call whose message could not be sent: it returns at once, and of
a listing it leaves `list` at `WILD`, as the constructor does. What comes then for a list
that is `NULL` or `WILD` ends the client (`crashed`). A timer may run out at any moment while
a call waits (`Expires` says whose); no message puts it off: the signal that would is only
emitted when no list is being filled. `prompt` is auxiliary: FALSE once a timer has run out,
`deleteRules` has left an answer unread, a message of any client has come between the one
that asks for a listing and the reads of its thread, or a listing has begun beside another.

### BfLocalServer

`stack` holds the calls of `processMessage` under way, the innermost last; `again` is the
socket whose `onLocalReadyRead` is about to call itself. Only the innermost call returns
(`Return`), but `NlErr` and `NlDone` reach all of them, as the signals of `BFControl` do.
`route` is `mClientCommands`. `DestroySocket` and `Delete` are the two halves of
`destroySocket`: `deleteLater` takes effect in a loop no deeper than the one it was called
in. `up` becomes FALSE when the service uses NULL, a list that is gone or a deleted socket;
what happens then is not modelled. `DoUnsent` is a call whose message to the kernel is not
sent: a listing leaves `filling` at `WILD`. A client's own timer may run out (`Expires`), and
it may end in a call (`Killed`). `apart` is auxiliary: FALSE once a command was read while
another of the same number was under way.

### BfClient

`sock` is the connection, `asked` and `coming` what is on its way to the server and back;
`wanted` is `mSocketWantedData`, `buffer` what has come of a frame. A frame is a size and a
body of one piece or two, so that a read may find a part of it; a read that brings several
frames is several steps in a row, as `onReadyRead` calls itself. `stack` holds the calls under
way, the innermost last, for the event loop of one may run a slot that makes another
(`mainwindow.cpp:172` to 242). `Begin` is a call up to its nested loop; `BeginOff` one that
cannot write its command (`NotWritten`): without a connection it is queued, and a write that
fails leaves nothing on the connection, or the size without its body. An answer or a `Timeout` tells a call to
quit, `Return` ends the innermost one; `sendRulesSync` goes on to its next rule (`NextRule`).
`Connect` is `init()`, which connects the signals once more each time (`slots`), so that the
queue gives up as many commands as there were connections before; `Disconnect` is the end of
a connection from either side. `ruleslst` is the list that an answer is put into: that of the
call that waits, one that is gone, one that `getRulesAsync` has made, NULL, or, before the
first call, whatever the memory held (the constructor does not set it). What happens after a
use of a list that is not there is not modelled: `crash` ends the program.

`torn`, `alien`, `why` are auxiliary: whether a size or a body was taken for what it is not,
whether a call has taken an answer to another one, and what may have led to that: a timer ran
out, a command came from the queue, a call was made beside an asynchronous listing
(`overlap`) or in the loop of another call (`nested`), or a command could not be written
while answers to others were to come (`unsent`).

### BfService

`started()` is `Start`, `SendRule` for each rule of the file, `SendDone`, `ListPart` for
each part of a listing, `ListDone`, `SaveRule` for each rule written, `SaveDone`; `stop()`
is `Stop` and the same listing and saving, for both chains. `Crash` ends the service
anywhere, `Reboot` empties the kernel module as well, `ListTimeout` cuts a listing short,
`StartWithoutSocket` is a netlink socket that cannot be had. `GetByPattern` and `RulesOf`
are both `getByPattern`, of the file's entries and of a listing's rules: `Select` keeps what
is wanted, in its order. Users change the kernel's rules
past the service. `saved`, `promised`, `fresh`, `orderly` are auxiliary. Policies are not
modelled as state: the code neither saves them (`saveToFile` writes two constants) nor sends
them in a way that the kernel takes (a pseudo rule is passed over, line 106 of `nl_int.c`).

### BfDaemon

A user types a command line (`Type`); `SendCmd` connects and writes, `Answer` or `Terminate`
is `slotReady` in the service, `Hear` what the command line makes of the answer; a start that
nobody has answered goes on to `Launch` a process. `path` is who bound the socket file:
`SetPath` removes it, `Bind` makes it anew, `Unlink` removes it again at the end. `main[p]`
is a process's main thread, with a stack of calls of `stop()`, one for each `terminate` that
is being obeyed, because `stop()` asks for a listing and turns a nested event loop that reads
commands; `thread[p]` is the thread that `started()` runs in; `link[p]` is the `BFControl`
that both use, with the one list that answers are put into. `ListEnds` is the end of the wait
by `done()`, by `quit()`, or because the other thread, in which answers arrive, is gone;
`Save`, `Kill` and `Stopped` are the rest of `stop()` (a thread that does not end within a
second is terminated). When the listing cannot be sent, `stop()` goes on with an empty one
(`TerminateUnsent`, `ListUnsent` in `started()`), and so it is when there is no netlink socket
(`InitFails`). The other thread also serves local clients, whose listings use the same
`BFControl` and nest in one another (`LocalAsk`, `LocalEnds`; what clients are told is in
`BfLocalServer`). What comes for a list that is NULL or gone may end the process (`Astray`).
A signal before `SignalCatcher::init` ends the process; after it a
byte is put into a socket pair (`Signal`) and read in the other thread (`HandleSig`).
`TerminateEarly` is a stop before `started()` has made `mBfc`: the process crashes, one of
the outcomes of an uninitialised pointer.

`rival` is auxiliary: a start has been under way beside another one, or while a service came up
or went down, or there was an `-exec`, which asks nobody (`Rivals`).
`tidy` is auxiliary: the process was told to stop once, when `started()` was over and no
listing was under way, its listing was sent, and since then no local client has listed and no
SIGTERM was handled.

## 3. The runs

| Run | Checks | Instance | States |
|---|---|---|---|
| `BfKernel` | `IInv`, `HookOnLiveRule`, `HookOnItsChain`, `StoreConsistent`, `AnswerTellsEffect`, `CallReturns`, `RetiredIsFreed` | 2 rule objects, 1 processor in the hook, 1 sender, 5 keys (two of INPUT, one of OUTPUT, one of all chains, a pseudo rule), 9 messages | 192 000 |
| `BfKernelTable` | `TableSpec` | 3 objects, 1 processor, 2 keys of one chain, 7 messages | 288 000 |
| `BfHash` | `IInv`, `ListsWhole`, `Atomic`, `CallsReturn` | 2 threads, 2 entries, 3 keys, 2 of which share one of 2 buckets; with and without `_safe` | 141 000 |
| `BfFilter` | `VerdictAsTyped`, `ListingAsTyped`, `ReportIsTrue` | 19 command lines (14 right, 5 wrong) about 4 rules that overlap in protocols and ports, a file of 2 rules, 8 packets | 27 000 |
| `BfLog` | `LogInOrder`, `FreedOnce`, `UnloadQuiet`, `UnloadEnds` | 1 processor, 2 subscribers, 4 packets, one loading and unloading | 12 100 |
| `BfLogStranded` | `FiredIsTaken`, violated | the same, 3 packets | |
| `BfNetlink` | `OwnAnswer`, `FullList`, `NothingLost`, `FilledOnlyInCall`, `ThreadsEnd` | 2 clients, 2 list threads, 2 calls of 4 kinds that may fail to be sent, one client's timer, an `MSG_OK` every 2 rules, a queue of 4 | 374 000 |
| `BfLocalServer` | `RoutesToOpen`, `AnsweredInTurn`, `ServerSurvives`, `ServerComesBack` | 2 clients with 2 commands each, of the same numbers: one changes and lists and may be killed, one sends flushes and pseudo rules and may give up waiting; listings and flushes may fail to be sent | 985 000 |
| `BfLocalServerCross` | `ResponseIsTheCommands`, violated | 2 clients, 2 changes each | |
| `BfClient` | `FramesWhole`, `OwnAnswer`, `ListsSafe` | 3 calls of 4 kinds, inside each other or not, 3 connections, listings of at most 1 rule | 709 000 |
| `BfService` | `Restored`, `SavedInputInForce` | 3 rules of both chains, 3 starts, 4 changes by users | 52 000 |
| `BfDaemon` | `IInv`, `ListIsLive`, `OneService`, `StopSavesAll`, `StopGoesThrough`, `CommandsReturn`, `StopEnds` | 2 processes, 2 users, 3 command lines, signals or local listings | 271 000 |

### What the passing runs show

`BfKernel`. A rule is three insertions and four removals, and between two messages the
indexes agree (`StoreConsistent`: same rules, one for each key, chains in the order of the
additions). An answer is true at the moment the handler leaves, although an add is answered
before anything is inserted (`AnswerTellsEffect`). A walk that stands on a rule while it is
unlinked finds its way back to its chain (`HookOnItsChain`), and no rule is freed under it
(`HookOnLiveRule`). Two objects suffice for what can go wrong with one walk: the object that
it stands on leaves, and its `->next` leaves after it; an object is freed, and comes back as
a rule of the other chain. More objects, processors and keys are the theorems' business.

`BfKernelTable`. Three objects allow a rule that has left, its successor, and a rule added
in its place while one packet is decided. The packet passes one rule by and is decided by
the other or by the policy; what it gets is what some table of that time would have given.

`BfHash`. Two threads meet in one bucket at every pair of accesses, and in different ones;
two entries of one bucket, which a chain of one key or of two keys holds, give a deletion at
the head, behind another entry, and of the last one. `Atomic` is the refinement of `BfMap`:
whatever the accesses interleave, the calls take effect one after the other, and of two
entries with one key the one inserted last is found (`list_add` inserts at the front, line
267). More threads, entries and buckets are the theorems' business.

`BfFilter`. Two UDP rules overlap, with opposite policies, so their order decides; updates
switch one off and turn the other round; a file brings a rule that is there already, with
another policy, and a new one. The wrong lines lack a protocol, or name a protocol, a switch
or a chain that is none, or a policy without its second word. The lines are written as the
help writes them, the command first, and they avoid what is listed in section 4: addresses, a
flush of one chain, a listing of all chains for a protocol, an update of the switch alone or
of the target alone (which should leave the other as it was, and sets it).

`BfLog`. Four packets are enough for a list on which packets wait while others are taken and
come; a subscriber may change at any point, and the module may be unloaded at any point.
`UnloadQuiet` says that the order of `cleanup_module` is right: no hook queues work and no
handler runs when the workqueue is gone, and no handler sends when the socket is. What is
still on `skb_list` then stays there.

`BfNetlink`. The queue of 4 is exactly what the policies and an acknowledged block of rules
need, the smallest for which `NothingLost` can hold; the code's 50 and a socket's default
buffer are in the same relation. Two calls are made by one client or by two: two threads run
at once when a call has given its listing up and the next begins, or when both clients list;
a change of one client crosses the listing of the other before, between and after the reads
of its thread. `OwnAnswer`, `FullList`, `NothingLost`, and that no client follows a list that
is not there, are claimed up to the first timer that runs out or message that crosses
(`prompt`), and after that they fail, because nothing in a message says to which call it
belongs. That a list is being filled in its call and at no other time (`FilledOnlyInCall`)
holds without condition, failed sends included: what these leave behind is only dangerous
when something comes that nobody asked for.

`BfLocalServer`. With two clients calls nest two deep, which is as deep as two clients can:
a socket's `readyRead` is not emitted while its slot runs. The k-th command has the same number
in both clients, as `qrand()` gives it when nobody seeds it. So two clients that have made as
many calls collide, and two that have not do not: of a command that is read while another of
its number is under way the response may go to the client that asked later, and `RoutesToOpen`
and the order in `AnsweredInTurn` are claimed until then (`apart`); that a response bears the number of
a command of its receiver is claimed without condition. `RoutesToOpen` leaves out clients that
gave up waiting: of these a second command may wait in the buffer of a socket that is closed
in a nested loop; `onLocalReadyRead` goes on to read it, and puts the closed socket back on
its map. `ServerSurvives` names the use of a deleted socket that remains when listings do not overlap,
and what equal numbers add to it; it needs no `apart`, and listings that fail to be sent do
not break it.

`BfClient`. Three calls and three connections allow a call that is queued, a connection that
sends it, a call that takes its answer, and another connection that finds two handlers of one
signal; or a call inside a call inside a call. `FramesWhole` holds without condition: a
connection that ends resets the size that was read. `OwnAnswer` and `ListsSafe` name the five
ways in which the code goes wrong (`why`). The first answer of any command quits every call
under way that is no listing, so a call inside another takes its answer or gives it its own;
a call in sequence with others, on one connection, whose timer does not run out, has its own
answer. `ListsSafe` says that NULL is followed for the same five reasons, and that a rule is
written to a list that is gone for two of them only: a listing that found no connection and is
sent later from the queue, or one that could not be written while other answers were to come.

`BfService`. Three starts allow a session, its loss, and the recovery; two input rules allow
a file that holds one of two. A crash while the file is written is left out (`CrashAt`,
`LossAt` do not hold "saving"): `saveToFile` truncates the file before it writes, so there
is nothing to claim. `SavedInputInForce` takes a listing that was cut short at its word:
what came is what was saved.

`BfDaemon`. Two processes allow a service and its rival, three commands a start, a stop and
something that comes in between, or a start, a stop and the next start that finds the file of
the first. `OneService` says that there is one process at most, and that commands reach it
once it is in its loop. It is claimed unless starts overlapped (`rival`): between the question
"alive" and the listening socket of the answer's consequence there is time for another start.
`ListIsLive` says that the one list which `BFControl` fills, for either thread, for every
`stop()` under way and for every local client, is that of a call which waits, unless a listing
could not be sent, and that nothing is on its way before it is first set. `StopSavesAll` and
`StopGoesThrough` are claimed for a stop that nothing crosses (`tidy`), and the first not for
rivals. Beside a local client's listing they fail: whichever listing ends first takes the other's list
away, so that the stop saves a part, or the second `MSG_DONE` finds NULL and ends the process.
`CommandsReturn` and `StopEnds` (for `terminate` and for SIGTERM) hold without any condition,
also for stops that nest, come too early, cannot send, or meet a signal or a local client.

### What the violated runs show

Each of these two is one property that a line of the repository states, and that the code does
not have.

1. `BfLogStranded`. `work_handler` takes one packet for each run, and `queue_work` does
   nothing while the work item is pending: of two packets that come before the handler runs,
   one stays. (`bfcontrol.cpp:297`: a subscription to the log of the rules that fired.)
2. `BfLocalServerCross`. The kernel's answer to a nested command ends the outer one too:
   its response bears its number and the other's outcome, though the numbers of the two
   differ (`apart`). (`trx_data.h:437`: the number is
   copied into the response, to find one's way in the flow of responses.)

The models also behave as the code does in these places, for which no run claims anything:
the UDP branch compares `ntohl(saddr)` with an address that `bfctl` stored in network order,
the TCP branch 16 bits of it, and both compare `d_addr` with the packet's `saddr`
(`bf_module.c:528`, 529, 551, 552); `MSG_DONE` of a listing that was given up dereferences
NULL (`bfcontrol.cpp:38`); a listing that cannot be sent leaves `ruleslst` at a list that is
gone (`bfcontrol.cpp:130`), and `stop()` saves an empty file (`bfserviceprivate.cpp:84`); a local
client's listing takes that of `stop()` away (`bflocalserver.cpp:205`); a call made in the event
loop of another gets its answer (`mainwindow.cpp:172`); `started()` saves the input chain only, over a file that held both
(`bfserviceprivate.cpp:58`); a connection sends as many queued commands as there were
connections before it, none the first time (`bflocalcontrolprivate.cpp:60`); an error that
answers a listing does not end its wait (`bflocalcontrolprivate.cpp:86`); a call whose
connection breaks returns success when its timer runs out; two starts at once make two
services, of which one has lost its socket file (`qtservice_unix.cpp:401`); a service that
ends removes the socket file of the one that came after it; a stop before `started()` uses a
pointer that is not initialised (`bfservice.cpp:106`); SIGTERM saves nothing
(`bfserviceprivate.cpp:141`); an error in an option is forgotten
when the command comes after it (`bfctl/utils.cpp:92`); an address with a mask, which the help
allows, is passed over, and the rule is for any address (`bfctl/utils.cpp:135`); an update of the
switch alone sets the policy to DROP (`bfctl/utils.cpp:28`), though the help (`bfctl/utils.cpp:267`)
has it "turn rule on/off"; `-j` without its long form is given
no argument (`bfctl/utils.cpp:62`); `--off` stands for `--proto`, and a rule of nothing else is
reported as added (`nl_int.c:106`); a rule for all chains is stored and stands on no chain (`nl_int.c:121`, `trx_data.h:23`); a
flush ignores the chain it names (`nl_int.c:184`, `bfctl/utils.cpp:277`); a TCP rule that
fires is not logged (`bf_module.c:552`); a call that times out returns success
(`bfcontrol.cpp:238`); `restart()` is never called during a listing (`bfcontrol.cpp:118`);
two processes that list at once share `thrd_params` (`nl_int.c:208`); the numbers of all clients are
the same (`bflocalcontrolprivate.h:13`); nested listings share `ruleslst` (`bfcontrol.cpp:121`);
`mClientCommands` only shrinks when a client leaves (`bflocalserver.cpp:230`); two processors
may take the same packet off `skb_list` (`bf_module.c:421`).

### Fairness

- `BfKernel`: the handler runs to its end (it holds a mutex and sleeps nowhere), a hook
  decides its packet (it runs with a bounded walk in a softirq), RCU runs its callbacks.
  Nobody has to send a message or a packet, and the switch need not be touched. Without
  fairness of the other walks a grace period never ends, which is what RCU demands too.
- `BfHash`: a thread in a call goes on; a mutex that is free again and again goes in the end
  to whoever waits for it (strong fairness of `HashCode` and `Lock`, as Linux mutexes queue
  their waiters and ticket spinlocks do). No call has to be made.
- `BfLog`: a hook that has begun ends, workers run, and `cleanup_module` goes on once begun.
  No packet has to come and nobody has to unload.
- `BfNetlink`: kernel threads run, and a client with a call open turns its loop and hears its
  timer. No call has to be made.
- `BfLocalServer`: the service's thread reads, processes and returns, its timers run out,
  kernel threads run. Clients owe nothing.
- `BfDaemon`: the two threads of a process run, and calls of its event loops return. Users,
  signals and local clients owe nothing.

All of it is weak fairness but for the mutexes of `BfHash`. `BfService` and `BfClient`
claim no liveness.

`CHECK_DEADLOCK FALSE` stands where the instances end: calls, packets, connections, starts
and changes are bounded. `BfKernel`, `BfKernelTable`, `BfHash` and `BfFilter` never stop.

### Bounds

`Node` (live rules), `Thread` (list threads), `Entry`, `Calls`, `MaxCalls`, `MaxConn`, `MaxRules`,
`Packets`, `Changes`, `Starts`
and `QueueMax` are constants of the modules; an action whose bound is reached is not
enabled. `comp` in `BfNetlink` is bounded by the number of flagged rules.

## 4. The proofs

`BfKernelProofs` proves, for every number of rule objects, processors, clients, keys and
packets, and every set of messages:

| Theorem | Statement |
|---|---|
| `InvariantHolds` | `Spec => []IInv` |
| `TypeCorrect` | `Spec => []TypeOK` |
| `WalksAreSafe` | `Spec => []HookOnLiveRule` |
| `WalksKeepTheirChain` | `Spec => []HookOnItsChain` |

From `CellAssumption` (heads and nodes differ), `KeyAssumption` and `MsgAssumption` (the
constants have their types), `SomeAssumption` (there is a client, a key, a packet). No set
has to be finite.

*The argument.* That a walk stands on a live rule is not inductive: the rule may have left
the chain, and its `->next` is followed next. `IInv` adds what makes it so.

- `WalkInv`: a walk stands on its head, on a rule of its chain, or on a rule that left while
  the walk was under way (`sees`).
- `SeesInv`: such a rule is not freed; if it has been given to `call_rcu` the grace period
  still waits for that walk (`sees` is within `waits`); it is on no chain; and its `->next`
  is again such a place. The last part is the heart: when the rule it points to leaves in
  its turn, that one gains at least the same walks.
- `ChainInv`, `HashInv`, `FullInv`: what is on a chain is hashed and in use, and on it once;
  keys are unique; what is on the full list is in use. A rule is hence given to `call_rcu`
  only when it is on no chain, and the walks that begin later cannot reach it.
- `StepInv`: what each step of a handler has established for the next one: no rule with the
  key before an add, none on the chains when `delete_rule` reaches the full list.

Each action that changes the lists has a lemma of its own (`ChainDelKeeps`,
`DeleteFromFullKeeps`, `FlushFullKeeps`, `AddToChainKeeps`, ...); the sequence lemmas at the
top say what `RemoveAt`, `Append` and `Tail` do to elements and injectivity; `NextOnPath`
says that following `->next` stays on the path; `PathsKept` that a step which moves no rule
keeps every path. TLC checks `IInv` as an invariant of `BfKernel` as well.

Of the store between two messages it proves, from the same assumptions:

| Theorem | Statement |
|---|---|
| `IndexesAgree` | `Spec => []StoreConsistent` |
| `AnswersAreTrue` | `Spec => AnswerTellsEffect` |

*The argument.* `IInv` says that a rule on a chain is hashed and in use; what it leaves open
is that nothing is forgotten. `StoreInv` has the other directions: what is in use is on the
full list (`UsedInv`), what is hashed is on its chain, unless it is the rule that is being
added or deleted, or all are being flushed (`ChainedInv`, `Between`); a chain has its rules in
the order of the full list (`OrderInv`, in terms of `Precedes`, since a deletion moves every
place behind it); and what a handler has answered already is what its remaining steps will
make true (`AnswerInv`). Between two messages nothing is `Between`, and the indexes agree.

Of the refinement it proves, from the same assumptions:

| Theorem | Statement |
|---|---|
| `KernelImplementsTable` | without updates in place (`NoUpdates`), `HSpec => TableSpec` |

*The argument.* Every action of `BfKernel` is one of `BfTable`, or changes nothing that
`BfTable` sees: linking a rule into its chain is `AddRule`, each unlinking `RemoveRule`, and a
packet's arrival and verdict are `Ask` and `Decide`. The hard part is that the verdict of a walk
is one of `could` or `late`, though the walk has read its chain one rule at a time while
others changed it. `WalkKnown` says, of each walk, that there is a set of places (`good`), all
of which tell it the truth (`GoodAt`), and that it stands on one of them, or on one that it
has passed (`Stands`). Such a place is the head, if the policy is a verdict the walk may get;
or a rule of the chain, if none before it matches; or a rule that has left, if its own verdict
is one the walk may get and its `->next` is such a place again. `ChainDelKnown` is the
heart: when a rule that is good leaves, its verdict was that of the table an instant ago, and
what follows it in the list has none before it that matches; at the end of the chain, the
table that is left decides by its policy. `NextPlace` says that `->next` leads from where a
walk stands to such a place. With updates this would be false: a walk may find a rule in a
state that no table was in.

`BfHashProofs` proves, for every number of threads, entries and buckets, every set of keys
and every hash function:

| Theorem | Statement |
|---|---|
| `InvariantHolds` | `Spec => []IInv` |
| `TypeCorrect` | `Spec => []TypeOK` |
| `NeverTwoInside` | `Spec => []Exclusive` |
| `ListsStayWhole` | `Spec => []ListsWhole` |
| `HashImplementsMap` | `Spec => Atomic` |

From `HashAssumption` (the hash function is one into the buckets; heads and entries differ;
there are finitely many entries; the three names of nothing name nothing). `KeyAssumption` is
not used.

*The argument.* That a list is whole when nobody is inside its bucket says nothing of the
moments in between, and it is from those that the next step is taken. `IInv` describes them.

- `Holds`: who is inside a bucket holds its lock, or the users' mutex; since a lock has one
  holder, nobody else is inside (`Separate`).
- `Hands`: an entry is its users', or in one thread's hands, or on a list.
- `Work`: what a thread inside has in hand (the entry found, the place of its walk) is on the
  list of that bucket; an entry that is being inserted has its key.
- `Homes`: every link leads to a node of the same bucket. So a step in one bucket disturbs no
  other (`OtherBuckets`).
- `Apart`: an entry on no list points to itself, and nothing points to it but, between two
  writes of an insertion, its successor.
- `Links`: forth and back agree, but at the one or two nodes that a thread has half written;
  `Halfway` says what is there instead.

Each of the six writes to a list has a lemma (`AddBackKeeps`, `AddLinkKeeps`,
`AddPublishKeeps`, `DelBackKeeps`, `DelSkipKeeps`, `DelClearKeeps`); steps that write none
share `QuietStep`; `OthersWork` says that what other threads know of their own buckets stays
true.

For the refinement `AtomInv` reads the links as sequences: from every head one can walk
through entries of its bucket back to the head (`Whole`), every key has its row in that
sequence (`Rowed`), and a thread that walks stands at a place of it before which nothing has
its key, or holds the first entry that has (`Reached`). There is one such sequence at most
(`OneList`) and one row (`RowIs`), so the values that the refinement mapping chooses are
these. What an insertion and a deletion make of them are lemmas about sequences alone:
`ListPushed`, `ListWithout` for the links; `RowPushed`, `RowPassed`, `RowTail`, `RowAround`
for the row of the key and for the other keys of the bucket. Two writes change a list
(`Inserted`, `Deleted`, by way of `TakesEffect`); the others write to entries that no list
reaches (`WritesUnseen`), which `Apart` and `ClearedApart` say. A walk that comes back to the
head has passed the whole list, so that the row is empty; one that stops stands on the row's
first entry (`Looked`). Inductions along a list are over sets of places (`AllPlaces`), which
the provers can instantiate. That every walk ends is liveness and stays with TLC
(`CallsReturn`).

`BfPacketProofs` proves, for every set of command lines, files of rules and packets:

| Theorem | Statement |
|---|---|
| `ReportsAreTrue` | with `WellFormedLines`, `Spec => []ReportIsTrue` |
| `VerdictsAsTyped` | with `ObeyedLines` and `UnaddressedLines`, `Spec => []VerdictAsTyped` |
| `ListingsAsTyped` | with `ObeyedLines` and `ListedLines`, `Spec => []ListingAsTyped` |

From `LineAssumption` (a line begins with its command and has one only), `FileAssumption` and
`PacketAssumption`. The hypotheses are where the code does not do what the help says; without
any of them a theorem that rests on it is false:

- `WellFormed`: `bfctl` reports a malformed address and goes on without it (`utils.cpp:127`),
  cuts a port to 16 bits (line 154), and takes `--off` for the `--proto` that `--append` and
  `--delete` must have (line 144). A line may be wrong in every other way: an unknown chain,
  protocol, switch or policy, a missing word, no `--proto`.
- `Obeyed`: `--flush` names no chain, for the kernel flushes all (`bf_module.c:205`), and
  `--policy` comes without `--jump`, which would set the policy in its place. An `--update`
  names `--off` and `--jump` both: the help (`utils.cpp:267`) and `bfcontrol.cpp:242` have it
  change either or both, and the code sets what is not named to 0. No file has a
  rule of `policy_rule()`, which the kernel passes over.
- `Unaddressed`: no rule has an address, for `hook_func` compares both addresses with the
  source of the packet, byte by byte the other way round or cut to 16 bits
  (`bf_module.c:526`, `549`).
- `Listed`: a listing of all chains names nothing else and no listing names a zero, `NO` or
  `DROP`, which `fr_pattern` takes for any; no rule has the protocol `ALL`, which is printed
  as `NONE`.

*The argument.* The parser first. `After` is the state of `parse_cmd_args` after some of the
options, in closed form: of each kind, the last one that was given (`LastOf`). `AfterStep`
and `RefusedStep` say that one more option keeps to it, or that the help it ends in is not
left any more; `ParsedAll` is the induction over the line. Hence `Understood`: what the parser
yields is what `Asked` and `Wrong` read off the line without it.

For the reports `Own` is inductive: each rule is on the chain that it names. So a rule that is
not found on the chain named is on none.

For the other two, `Typed`: the chains have, each in its order, the rules that were typed, and
the policies are those typed (`Matches`: a chain is the selection of its rules from all).
Every command has its lemma (`MatchesAppend`, `MatchesReplaced`, `MatchesWithout`,
`MatchesAll` for a file). `OfKind` says what the keys of all rules have in common, which no
line can change (`KindKept`): no addresses for the verdicts, `TCP` or `UDP` for the
listings. The verdict then follows because two sequences with the same selection have the
same first element of it (`SelectFirst`, `SameFirst`), and the listing because what the
kernel selects by pattern and `bfctl` by chain is one selection (`SelectSelect`,
`SelectTogether`), of which `GivenMatches` and `PatternIs` say that it is the line's.

The lemmas on `Select`, and on the recursions, are inductions over a length, by sets in place of
predicates (`NatBySets`, `SeqBySets`). A recursive function is first shown to exist
(`ParseExists`, `KeepsExists`, `AddingExists`, `HavingExists`).

Of `BfLog` it proves, for every number of packets and subscribers:

| Theorem | Statement |
|---|---|
| `UnloadsQuietly` | `Spec => []UnloadQuiet`, on any number of processors |
| `OneProcessorInOrder` | on one processor, `Spec => []LogInOrder` |
| `OneProcessorFreesOnce` | on one processor, `Spec => []FreedOnce` |

That there is one processor is an assumption of the last two theorems: on two, two handlers
may take the same packet (`__skb_dequeue` locks nothing), and both properties fail.

*The argument.* For unloading, `UnloadInv`: nobody has subscribed before there is a socket;
when the last hook is gone, the processors still in one are among those that are waited for;
when the workqueue is gone, no hook and no handler runs. For the order, `OrderInv`: the
numbers on `skb_list` increase; what has been sent, or freed, precedes all that is on it; and
what the handler holds is the head of the list until it has unlinked it, and precedes the
list after that, wherever a packet has interrupted it.

`BfClientProofs` proves, for every number of calls, connections and rules, from
`ClientAssumption`:

| Theorem | Statement |
|---|---|
| `ReadsWholeFrames` | `Spec => []FramesWhole` |
| `OwnUnlessNamed` | `Spec => []OwnAnswer` |
| `ListsAreSafe` | `Spec => []ListsSafe` |

*The argument.* `StreamInv`: what is coming is whole frames but for the beginning of the
first, and that beginning is what `mSocketWantedData` and the buffer hold (`Joined`,
`Follows`). `ConnInv`: a connection that is gone leaves nothing of it. `DeadInv`: as long as
nothing was sent from the queue and every command could be written, no listing is to come
while `ruleslst` points to a list that is gone. `OneInv`: as long as none of the five reasons
has come up, there is one call at most and one command outstanding at most (`Single`), it is
that call's or an asynchronous listing (`OfTheCall`, `ListReady`), and the frame that ends its
answer is the last that comes (`LastEnds`), so that when a call returns nothing is left behind
for the next; or a server waits for the rest of a half-written command, and nothing comes any
more (`Stuck`).

`BfNetlinkProofs` proves, for every number of clients and list threads, every listing and
every size of a queue:

| Theorem | Statement |
|---|---|
| `TypeCorrect` | `Spec => []TypeOK` |
| `AnswersMatch` | `Spec => []OwnAnswer` |
| `ListingsComplete` | `Spec => []FullList` |
| `FilledInCall` | `Spec => []FilledOnlyInCall` |
| `AcksKeepPace` | if a queue has room for the policies and `AckEvery` rules (`RoomEnough`), `Spec => []NothingLost` |

From `ConstantsAssumption`. Every client may list. A list thread sends to the process that the
global `thrd_params` names when it gets to read it, so two listings that overlap may go to one
process; that is when `prompt` ends, and not a hypothesis.

*The argument.* A call returns its own answer because nothing else is in the queue when it
sends, and that is true because the call before has left nothing. `IInv` says it for each
client as long as `prompt` holds (`Dialogue`).

- `ListKept`: a list is there exactly while it is waited for.
- `OneLister`: while `prompt` holds, one client lists at a time; when nobody does, no list
  thread runs, and no `MSG_OK` is counted in `comp` (`Quiet`).
- `Worker`: the thread of a listing has its client's parameters, whether it has copied them or
  has yet to, and is to send what follows what has been sent.
- `Prefix`: what the list and the queue hold, put together, is a prefix of the listing. So
  `MSG_DONE` comes when all of it has, and the list is complete.
- `Acks`: an `MSG_OK` is asked for by the last message that was sent, and its thread waits for
  it. So there is at most one, and what is in the queue since the last one has room:
  `NothingLost`.
- `Returned`: what the last call has returned is the answer to it.

`BfLocalServerProofs` proves, for every number of clients and commands and every set of kinds
that each of them sends:

| Theorem | Statement |
|---|---|
| `RoutesLeadToOpen` | `Spec => []RoutesToOpen` |
| `ServedInTurn` | `Spec => []AnsweredInTurn` |
| `ServiceSurvives` | if one client lists, `Spec => ServerSurvives` |

From `ClientAssumption`. The numbers are any that the clients may give, the same in every
client among them; what holds only while the numbers of the commands under way tell them apart
says so itself (`apart`). `OneLister` is supposed in the last theorem: one client lists, and
the service's timer does not run out in a listing. Two listings that overlap share `ruleslst`,
and a list that was given up is still filled. `ServerSurvives` claims nothing for those (its
comment says so). The instance of `BfLocalServer.cfg` satisfies it.

*The argument.* `IInv` relates the three places a command passes through: the buffer of its
socket, the stack of calls, and what has been answered.

- `OneFrame`: a client has one call on the stack at most, and none when its buffer is read on.
- `TurnOf`: while they are apart, the numbers of what was answered, is on the stack and is in
  the buffer follow each other. That gives the order, for a call deep in the stack ends after those above it, but
  those are of other clients.
- `Owned`, `HeardOf`: a number leads to a client that has given it, whoever else has; so a
  client hears only numbers of its own. `Routed`, `RoutesOf`: while they are apart, the number
  of a call leads to its client, if anywhere, and a client whose socket is open is found by it.
- `WaitsOf`: a client that waits has one command under way at most, in the buffer, on the
  stack, or as a response; a client that gives up has no number left that leads to it.
- `Filling`, for the listings: the list that is filled is that of a call on the stack which
  still waits; the kernel has one list thread at most and sends one end.

Each action has a lemma; `ReturnStart` names the client and the response of a call that ends,
and says who gets it.

`BfDaemonProofs` proves, for every number of processes, users, commands and signals:

| Theorem | Statement |
|---|---|
| `InvariantHolds` | `Spec => []IInv` |
| `NeverTwo` | `Spec => []OneService` |
| `ListStaysLive` | `Spec => []ListIsLive` |
| `RulesSaved` | `Spec => []StopSavesAll` |
| `StopIsNotCut` | `Spec => StopGoesThrough` |

From `DaemonAssumption`: commands are those that exist, and what `link` may name beside users
("nobody", "thread", "local", "unset", "gone") are no users. That a stop is crossed by nothing
(`tidy`), and for `RulesSaved` that there are no rivals, is part of the properties, not supposed.

*The argument.* `IInv` has the types and three parts. `Rivals`: a start beside another one, or
beside a service that comes or goes, is remembered in `rival`. `Alone`: without that, a start
that goes on to a process finds none, one process is up at most, and the socket file is its
own or is free for it to bind. `Threads`: what has ended runs nothing. `ListIsLive` is
inductive on top of the types: a stop that begins above the frame that is listing, or an
answer that arrives in the other thread, leaves that frame where it is (`FramesStay`,
`TopReplaced`, `LiveBy`), and nothing can be on its way before `started()` has made the
`BFControl` (`Fresh`). A send that fails leaves "gone", which it says nothing about. For the stops, `Stops` follows one call of `stop()` through its
stages (`Listing`, `Saving`, `Joining`, `Leaving`), as long as nothing has come between
(`tidy`), and says that the other thread is told to end by a stop that is not over, or after
which all ends (`Quit`). Saving once leaves all in the file until another process saves, and
that makes it a rival (`OthersRules`).

`BfServiceProofs` proves, for every set of rules and policies, every number of starts and of
changes, and every choice of the steps at which the service is killed or the power fails:

| Theorem | Statement |
|---|---|
| `StopIsRestored` | with `QuietListing`, `Spec => []Restored` |
| `SavedComesIntoForce` | with `QuietStart`, `Spec => []SavedInputInForce` |

From `ServiceAssumption` (each entry has a chain; policies are no rules). `QuietListing`:
users change nothing while the service lists the rules. Without it a rule may go between the
input and the output part of one listing, and no moment had what was saved. `QuietStart`:
users change nothing while the service comes up, and it is not killed while it writes. Without
it a user may delete what was just sent, and a file that was truncated holds a part. The code
guards against neither, so nothing is claimed there; the instance that TLC checks satisfies
both, and all other moments of a crash remain.

*The argument.* `ServiceInv` has the types; `ChainsInv`: what is in force, saved or promised on
a chain are rules of that chain, once each; `ListInv`: of each chain that has been listed
the list has what is in force; `WriteInv`: what is written, and then what is still to be written,
is the list. `RestoreInv` follows an orderly stop: the file has, chain by chain, what was
saved; while it is sent, what is in force and then what is still to be sent is what was
promised, or all of that is in force already (the machine did not restart, and the kernel
passes over what it has). `KeepInv` does the same for the input rules alone and for elements
instead of order, which is what survives a listing cut short. The lemmas on `Select` (of an
`Append`, of a concatenation, of a `Tail`; that what is selected is in order, once each, and
from the set) are inductions over the length of a sequence. The library's induction theorems
take an operator; `LeastNatural`, `NatBySets` and `SeqBySets` say the same of sets, which the
provers can instantiate, and follow from the least element of a set of natural numbers.

Model-checked only: liveness (out of the prover's reach). Every invariant and every action
property that a passing run checks is stated by a theorem. Of the log on two processors nothing
is claimed.

## 5. The plan

Done, in this order: `BfKernel` and its invariant; `BfTable` and the refinement;
`BfKernelProofs`; `BfNetlink`; `BfLocalServer`; `BfService`; `BfLog`; `BfCtl` and `BfFilter`;
`BfDaemon`; `BfClient`; `BfHash`, `BfMap` and `BfHashProofs`; the unloading in `BfLog`;
`BfDaemonProofs`, the theorems about `BfLog`, `BfClientProofs`, the refinement in
`BfKernelProofs`; `BfNetlinkProofs`, `BfLocalServerProofs`, the stops of `BfDaemonProofs`;
`BfServiceProofs`; the theorems about `BfCtl` and `BfFilter` in `BfPacketProofs`.

Left: the list threads' walks beside the handler (they take no lock and no read-side section,
so every claim about them fails, and the code makes none); the server's side of frames in
parts, which is the client's over again; the GUI's table.

Of the properties that the passing runs check, only liveness has no theorem.
