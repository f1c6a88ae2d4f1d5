-------------------------------- MODULE BfLog --------------------------------
(***************************************************************************)
(* The log of the rules that fired (bf-ko/bf_module.c), from init_module   *)
(* to cleanup_module.  hook_func puts a packet on skb_list and queues the  *)
(* one work item; work_handler takes one packet off and sends it to the    *)
(* process that subscribed last.                                           *)
(*                                                                         *)
(* The hook runs in softirq context: it may interrupt a handler anywhere.  *)
(* skb_queue_tail takes the list's lock, __skb_dequeue takes none.  The    *)
(* workqueue is the one of the kernels this code builds on (they still     *)
(* have INIT_RCU_HEAD): a worker for each processor, and a work item that  *)
(* is pending at most once, but may run on one processor while it is       *)
(* queued, and begins to run, on another.                                  *)
(***************************************************************************)
EXTENDS Naturals, Sequences, SequencesExt

CONSTANTS
  Cpu,
  Process, \* the processes that may subscribe
  Packets, \* bound: how many packets fire a rule
  NoProcess

ASSUME LogAssumption == NoProcess \notin Process /\ Packets \in Nat /\ Cpu # {}

VARIABLES
  module,  \* how far init_module or cleanup_module has come
  hooks,   \* the hooks that are registered
  waits,   \* the processors whose hook_func nf_unregister_hook waits for
  list,    \* skb_list
  hook,    \* the processors whose hook_func has yet to call queue_work
  pending, \* the work item's PENDING bit
  work,    \* the processors on whose worklists the work item is
  run,     \* each processor's work_handler
  pidLog,  \* bf_config.pid_log; NoProcess: 0, and bf_config.init is 0 as well
  fired,   \* auxiliary: how many packets have been put on the list
  logged,  \* auxiliary: the packets sent to each process
  freed    \* auxiliary: the packets whose reference has been dropped, in order

workqueue == <<pending, work>>
loading == <<module, hooks>>
logVars == <<loading, waits, list, hook, workqueue, run, pidLog, fired, logged, freed>>

Skb == 1..Packets

\* nl_init has made the netlink socket, and nl_exit has not released it.
HasSocket == module \in {"loaded", "noIn", "noOut", "noQueue"}

Still == work = {} /\ \A c \in Cpu : run[c].at = "idle"

\* What a handler knows: the packet at the head, and whether others came after it.
Idle == [at |-> "idle", skb |-> 0, more |-> FALSE]

-----------------------------------------------------------------------------
\* add_to_skb_list(): skb_get, skb_queue_tail, ...
SkbQueueTail(c) ==
  /\ hooks # {}
  /\ c \notin hook
  /\ fired < Packets
  /\ fired' = fired + 1
  /\ list' = Append(list, fired + 1)
  /\ hook' = hook \cup {c}
  /\ UNCHANGED <<loading, waits, workqueue, run, pidLog, logged, freed>>

\* ... queue_work(), which does nothing if the work item is pending.
QueueWork(c) ==
  /\ c \in hook
  /\ hook' = hook \ {c}
  /\ pending' = TRUE
  /\ work' = IF pending THEN work ELSE work \cup {c}
  /\ waits' = waits \ {c}
  /\ UNCHANGED <<loading, list, run, pidLog, fired, logged, freed>>

\* The worker clears PENDING and calls work_handler.
Begin(c) ==
  /\ c \in work /\ run[c].at = "idle"
  /\ work' = work \ {c}
  /\ pending' = FALSE
  /\ run' = [run EXCEPT ![c].at = "take"]
  /\ UNCHANGED <<loading, waits, list, hook, pidLog, fired, logged, freed>>

\* Mutant of Take: __skb_dequeue_tail.
TakeLast(c) ==
  /\ run[c].at = "take"
  /\ run' = [run EXCEPT ![c] =
       IF list = <<>> THEN Idle
       ELSE [at |-> "unlink", skb |-> Last(list), more |-> Len(list) > 1]]
  /\ UNCHANGED <<loading, waits, list, hook, workqueue, pidLog, fired, logged, freed>>

\* Mutant of Take: the handler waits for a packet.
TakeWaits(c) ==
  /\ run[c].at = "take"
  /\ list # <<>>
  /\ run' = [run EXCEPT ![c] = [at |-> "unlink", skb |-> Head(list), more |-> Len(list) > 1]]
  /\ UNCHANGED <<loading, waits, list, hook, workqueue, pidLog, fired, logged, freed>>

\* __skb_dequeue(): it reads the head and what comes after the head, ...
Take(c) ==
  /\ run[c].at = "take"
  /\ run' = [run EXCEPT ![c] =
       IF list = <<>> THEN Idle
       ELSE [at |-> "unlink", skb |-> Head(list), more |-> Len(list) > 1]]
  /\ UNCHANGED <<loading, waits, list, hook, workqueue, pidLog, fired, logged, freed>>

\* Mutant of Unlink: skb_peek for __skb_dequeue.
UnlinkNothing(c) ==
  /\ run[c].at = "unlink"
  /\ run' = [run EXCEPT ![c].at = "send"]
  /\ UNCHANGED <<loading, waits, list, hook, workqueue, pidLog, fired, logged, freed>>

\* ... and joins the two ends that it has read.  If the head was the only packet,
\* those are both the list itself: what was queued meanwhile is on no list.  (What
\* a second handler does that has read the same head is undefined; here, nothing.)
Unlink(c) ==
  /\ run[c].at = "unlink"
  /\ list' = IF ~run[c].more THEN <<>> ELSE
             IF list # <<>> /\ Head(list) = run[c].skb THEN Tail(list) ELSE list
  /\ run' = [run EXCEPT ![c].at = "send"]
  /\ UNCHANGED <<loading, waits, hook, workqueue, pidLog, fired, logged, freed>>

\* nl_send_msg() to whoever has subscribed, if anybody has.
SendLog(c) ==
  /\ run[c].at = "send"
  /\ logged' = IF pidLog = NoProcess THEN logged
               ELSE [logged EXCEPT ![pidLog] = Append(@, run[c].skb)]
  /\ run' = [run EXCEPT ![c].at = "free"]
  /\ UNCHANGED <<loading, waits, list, hook, workqueue, pidLog, fired, freed>>

KfreeSkb(c) ==
  /\ run[c].at = "free"
  /\ freed' = Append(freed, run[c].skb)
  /\ run' = [run EXCEPT ![c] = Idle]
  /\ UNCHANGED <<loading, waits, list, hook, workqueue, pidLog, fired, logged>>

\* MSG_LOG_SUBSCRIBE: the last subscriber is the only one.
LogSubscribe(p) ==
  /\ HasSocket
  /\ pidLog' = p
  /\ UNCHANGED <<loading, waits, list, hook, workqueue, run, fired, logged, freed>>

-----------------------------------------------------------------------------
(* init_module and cleanup_module.                                           *)

log == <<list, hook, workqueue, run, pidLog, fired, logged, freed>>

\* create_workqueue and the list; then the entry in /proc, without which the module
\* is not loaded; ...
InitModule ==
  /\ \/ module = "none" /\ module' = "queue"
     \/ module = "queue" /\ module' \in {"failed", "proc"}
  /\ UNCHANGED <<hooks, waits, log>>

\* ... nf_register_hook, twice; nl_init.
RegisterOut ==
  /\ module = "proc" /\ module' = "out"
  /\ hooks' = {"out"}
  /\ UNCHANGED <<waits, log>>

RegisterIn ==
  /\ module = "out" /\ module' = "in"
  /\ hooks' = {"in", "out"}
  /\ UNCHANGED <<waits, log>>

NlInit ==
  /\ module = "in" /\ module' = "loaded"
  /\ UNCHANGED <<hooks, waits, log>>

\* nf_unregister_hook returns when every processor has left the hooks (the guards on
\* waits).
UnregisterIn ==
  /\ module = "loaded" /\ module' = "noIn"
  /\ hooks' = hooks \ {"in"}
  /\ waits' = hook
  /\ UNCHANGED log

UnregisterInAgain == \* Mutant of UnregisterOut: it is the other hook again.
  /\ module = "noIn" /\ waits = {} /\ module' = "noOut"
  /\ hooks' = hooks \ {"in"}
  /\ waits' = hook
  /\ UNCHANGED log

UnregisterOut ==
  /\ module = "noIn" /\ waits = {} /\ module' = "noOut"
  /\ hooks' = hooks \ {"out"}
  /\ waits' = hook
  /\ UNCHANGED log

\* flush_workqueue, destroy_workqueue.
DestroyWorkqueue ==
  /\ module = "noOut" /\ waits = {} /\ module' = "noQueue"
  /\ Still
  /\ UNCHANGED <<hooks, waits, log>>

\* nl_exit; then rcu_barrier, cleanup_rules, hash_table_finit.  What is on skb_list
\* stays there.
NlExit ==
  /\ \/ module = "noQueue" /\ module' = "noSocket"
     \/ module = "noSocket" /\ module' = "gone"
  /\ UNCHANGED <<hooks, waits, log>>

Loader ==
  \/ InitModule \/ RegisterOut \/ RegisterIn \/ NlInit
  \/ UnregisterIn \/ UnregisterOut \/ DestroyWorkqueue \/ NlExit

LogInit ==
  /\ module = "none" /\ hooks = {} /\ waits = {}
  /\ list = <<>>
  /\ hook = {}
  /\ pending = FALSE
  /\ work = {}
  /\ run = [c \in Cpu |-> Idle]
  /\ pidLog = NoProcess
  /\ fired = 0
  /\ logged = [p \in Process |-> <<>>]
  /\ freed = <<>>

\* The handler of a processor stands still while a hook runs there.
WorkHandler(c) ==
  /\ c \notin hook
  /\ Begin(c) \/ Take(c) \/ Unlink(c) \/ SendLog(c) \/ KfreeSkb(c)

LogNext ==
  \/ Loader
  \/ \E c \in Cpu : SkbQueueTail(c) \/ QueueWork(c) \/ WorkHandler(c)
  \/ \E p \in Process : LogSubscribe(p)

LogSpec == LogInit /\ [][LogNext]_logVars

\* A hook that has begun ends, the workers run, and cleanup_module goes on.
LogFairSpec ==
  /\ LogSpec
  /\ WF_logVars(UnregisterOut \/ DestroyWorkqueue \/ NlExit)
  /\ \A c \in Cpu : WF_logVars(QueueWork(c)) /\ WF_logVars(WorkHandler(c))

-----------------------------------------------------------------------------
(* Properties.                                                             *)

Increasing(s) == \A i, j \in DOMAIN s : i < j => s[i] < s[j]

\* On one processor, every subscriber is sent packets in the order in which they
\* fired their rules and none twice, whenever the hook interrupts the handler.
LogInOrder == \A p \in Process : Increasing(logged[p])

\* A reference that the hook took is dropped once, and the packet is off the list
\* by then: a handler never takes up a packet that is gone.
FreedOnce ==
  /\ IsInjective(freed)
  /\ \A c \in Cpu : run[c].at \in {"unlink", "send", "free"} => run[c].skb \notin ToSet(freed)

\* cleanup_module takes things away in an order in which nobody uses them any more: no
\* hook queues work and no handler runs without the workqueue, and no handler sends
\* without the socket, neither before nl_init nor after nl_exit.
UnloadQuiet ==
  /\ module \in {"noQueue", "noSocket", "gone"} => hook = {} /\ Still
  /\ \A c \in Cpu : run[c].at = "send" /\ pidLog # NoProcess => HasSocket

\* cleanup_module comes to its end, whatever is on its way when it begins.
UnloadEnds == module = "noIn" ~> module = "gone"

\* bfcontrol.cpp: a subscription is to the log of the rules that have fired.  So
\* while the module stays, a packet that has fired one does not stay on the list for
\* ever.
FiredIsTaken ==
  \A n \in Skb : n \in ToSet(list) ~> n \notin ToSet(list) \/ ~HasSocket \/ hooks = {}
=============================================================================
