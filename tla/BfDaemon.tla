------------------------------- MODULE BfDaemon -------------------------------
(***************************************************************************)
(* bf-service as a daemon.  Its command line starts it, or sends a command *)
(* over a socket file to the one that runs (qtservice); signals reach it   *)
(* through socket pairs (SignalCatcher).  Commands are read in the main    *)
(* thread; BFControl, whose listing stop() asks for, lives in another,     *)
(* which serves local clients once it has started.  What they ask for but  *)
(* listings, and what they are told, is BfLocalServer's business.          *)
(*                                                                         *)
(* A listing is one message with the rules and one that ends it; what may  *)
(* befall it on the way to the process is BfNetlink's business, and what   *)
(* becomes of the file from start to start is BfService's.                 *)
(***************************************************************************)
EXTENDS Naturals, Sequences, SequencesExt, FiniteSets

CONSTANTS
  Proc,     \* processes that may run the service
  Ctl,      \* users, each with one command line at a time
  NoProc,
  Command,  \* what a user may type: a subset of AllCommands
  Flags,    \* the service flags; bf-service sets none
  Sig,      \* signals that are caught; only TERM does something
  Calls     \* bound: how many commands, signals and local listings there are

Sent == {"run", "terminate", "pause", "resume", "num"} \* commands that talk over the socket
AllCommands == Sent \cup {"controllerStart", "exec", "install", "uninstall"}
Kind == {"input", "all"} \* the listings started() and stop() ask for

ASSUME DaemonAssumption ==
  /\ NoProc \notin Proc /\ Ctl \cap {"nobody", "thread", "local", "unset", "gone"} = {}
  /\ Command \subseteq AllCommands
  /\ Flags \subseteq {"CanBeSuspended", "CannotBeStopped"}
  /\ Sig \subseteq {"TERM", "INT", "HUP", "USR2"}
  /\ Calls \in Nat

VARIABLES
  installed, \* the service is in the settings
  path,      \* the process that bound the socket file, if there is one
  file,      \* the cache file: the listings whose rules are in it
  main,      \* of each process, its main thread
  thread,    \* and its other thread
  link,      \* and BFControl, which both use
  pipe,      \* bytes in the socket pairs of SignalCatcher
  ctl,       \* of each user, the command line being executed
  calls,
  \* The rest is auxiliary: no action's guard reads it.
  rival,     \* there may be two services: see Rivals
  tidy       \* of each process: it was told to stop once, and nothing crosses that

vars == <<installed, path, file, main, thread, link, pipe, ctl, calls, rival, tidy>>
service == <<installed, path, file, main, thread, link, pipe>>

\* stack: the calls of stop() under way, one for each terminate that is being
\* obeyed; woken: the event loop of such a call has been told to end; deep: the
\* listings of local clients under way, each inside the event loop of the one before,
\* of which only the innermost can return.  lst: whose list ruleslst points to, that of a
\* user's stop(), of started(), of a local client's listing, none, whatever it points to
\* before it is set, or one that is gone; open: init() has made the socket.
IdleMain == [at |-> "off", own |-> FALSE, stack |-> <<>>, quit |-> FALSE]
IdleThread == [at |-> "none", got |-> {}, woken |-> FALSE, quit |-> FALSE, deep |-> 0]
IdleLink == [lst |-> "nobody", coming |-> <<>>, cache |-> {}, open |-> FALSE]
NoCall == [at |-> "idle", cmd |-> "run", to |-> NoProc, ans |-> FALSE]

Alive(p) == main[p].at # "off"
Listens(p) == main[p].at = "loop" /\ main[p].own

\* QtUnixSocket::connectTo: the file is there, and who bound it listens.
Reachable == path # NoProc /\ Listens(path)

\* The main thread turns an event loop: the application's, or one in stop().
TurnsMain(p) ==
  /\ main[p].at = "loop"
  /\ main[p].stack # <<>> => Last(main[p].stack).at = "list"

\* A start that nobody has answered, or that has made up its mind.
Starting(c) == ctl[c].at = "launch" \/ (ctl[c].at = "told" /\ ctl[c].cmd = "run" /\ ~ctl[c].ans)

\* When two services may come about: two starts at once, one while a service comes up
\* or goes down, or -exec, which asks nobody and makes no socket.
Rivals ==
  \/ \E c \in Ctl : ctl[c].at = "typed" /\ ctl[c].cmd = "exec"
  \/ \E c \in Ctl : Starting(c) /\
       \/ \E d \in Ctl \ {c} : Starting(d)
       \/ \E p \in Proc : main[p].at \in {"start", "bind", "unlink"}
Remember == rival' = (rival \/ Rivals')

TurnsThread(p) == thread[p].at \in {"send", "list", "loop"}

\* SignalCatcher::init is called in started().
Caught(p) == thread[p].at \notin {"none", "begin"}

-----------------------------------------------------------------------------
(* The command line: QtServiceBase::exec and QtServiceController.            *)

SetCtl(c, at, to, ans) == ctl' = [ctl EXCEPT ![c] = [@ EXCEPT !.at = at, !.to = to, !.ans = ans]]

\* The command line is through.
Over(c) == ctl' = [ctl EXCEPT ![c] = NoCall]

Type(c, cmd) ==
  /\ ctl[c].at = "idle"
  /\ calls < Calls
  /\ calls' = calls + 1
  /\ ctl' = [ctl EXCEPT ![c] = [NoCall EXCEPT !.at = "typed", !.cmd = cmd]]
  /\ UNCHANGED <<service, tidy>>

\* sendCmd: connect, write.  There is no timer: it waits for an answer or for
\* the end of the connection.
SendCmd(c) ==
  /\ ctl[c].at = "typed" /\ ctl[c].cmd \in Sent
  /\ IF Reachable THEN SetCtl(c, "asked", path, FALSE) ELSE SetCtl(c, "told", NoProc, FALSE)
  /\ UNCHANGED <<service, calls, tidy>>

\* QtServiceController::start: isInstalled, isRunning, and startDetached of a command
\* line without arguments, which asks for itself whether somebody is alive.
ControllerStart(c) ==
  /\ ctl[c].at = "typed" /\ ctl[c].cmd = "controllerStart"
  /\ IF installed /\ ~Reachable
     THEN ctl' = [ctl EXCEPT ![c] = [NoCall EXCEPT !.at = "typed"]]
     ELSE Over(c)
  /\ UNCHANGED <<service, calls, tidy>>

\* Mutant of Hear: the service is started whatever the answer was.
HearNothing(c) ==
  /\ ctl[c].at = "told"
  /\ IF ctl[c].cmd = "run" THEN SetCtl(c, "launch", NoProc, FALSE) ELSE Over(c)
  /\ UNCHANGED <<service, calls, tidy>>

\* The answer, or its absence; QtServiceBasePrivate::start goes on if nobody is alive.
Hear(c) ==
  /\ ctl[c].at = "told"
  /\ IF ctl[c].cmd = "run" /\ ~ctl[c].ans THEN SetCtl(c, "launch", NoProc, FALSE) ELSE Over(c)
  /\ UNCHANGED <<service, calls, tidy>>

\* startDetached, and sysInit and createApplication in the new process.
Launch(c, p) ==
  /\ ctl[c].at = "launch"
  /\ ~Alive(p)
  /\ Over(c)
  /\ main' = [main EXCEPT ![p] = [IdleMain EXCEPT !.at = "start"]]
  /\ UNCHANGED <<installed, path, file, thread, link, pipe, calls, tidy>>

\* -exec: the process that was called becomes the service, without a socket file.
Exec(c, p) ==
  /\ ctl[c].at = "typed" /\ ctl[c].cmd = "exec"
  /\ ~Alive(p)
  /\ Over(c)
  /\ main' = [main EXCEPT ![p] = [IdleMain EXCEPT !.at = "loop"]]
  /\ UNCHANGED <<installed, path, file, thread, link, pipe, calls, tidy>>

\* -install and -uninstall.
Install(c) ==
  /\ ctl[c].at = "typed" /\ ctl[c].cmd = "install"
  /\ installed' = TRUE
  /\ Over(c)
  /\ UNCHANGED <<path, file, main, thread, link, pipe, calls, tidy>>

Uninstall(c) ==
  /\ ctl[c].at = "typed" /\ ctl[c].cmd = "uninstall"
  /\ installed' = FALSE
  /\ Over(c)
  /\ UNCHANGED <<path, file, main, thread, link, pipe, calls, tidy>>

-----------------------------------------------------------------------------
(* The process: QtServiceBasePrivate::run and the end of it.                 *)

\* Whoever waits for an answer of p sees the end of the connection.
Hangup(p) ==
  ctl' = [c \in Ctl |-> IF ctl[c].to = p
                        THEN [ctl[c] EXCEPT !.at = "told", !.to = NoProc] ELSE ctl[c]]

\* The process is gone; a socket file that it bound stays.
Dies(p) ==
  /\ main' = [main EXCEPT ![p] = IdleMain]
  /\ thread' = [thread EXCEPT ![p] = IdleThread]
  /\ link' = [link EXCEPT ![p] = IdleLink]
  /\ pipe' = [pipe EXCEPT ![p] = [s \in Sig |-> 0]]
  /\ tidy' = [tidy EXCEPT ![p] = FALSE]
  /\ Hangup(p)

\* Mutant of SetPath: the file of an earlier process is left where it is.
SetPathKeeps(p) ==
  /\ main[p].at = "start"
  /\ main' = [main EXCEPT ![p].at = "bind"]
  /\ UNCHANGED <<installed, path, file, thread, link, pipe, ctl, calls, tidy>>

\* QtUnixServerSocket::setPath removes the file, whoever's it is, ...
SetPath(p) ==
  /\ main[p].at = "start"
  /\ main' = [main EXCEPT ![p].at = "bind"]
  /\ path' = NoProc
  /\ UNCHANGED <<installed, file, thread, link, pipe, ctl, calls, tidy>>

\* ... and binds, which fails if another has bound in between.
Bind(p) ==
  /\ main[p].at = "bind"
  /\ main' = [main EXCEPT ![p].at = "loop", ![p].own = path = NoProc]
  /\ path' = IF path = NoProc THEN p ELSE path
  /\ UNCHANGED <<installed, file, thread, link, pipe, ctl, calls, tidy>>

\* slotStart, BfService::start.
Start(p) ==
  /\ TurnsMain(p)
  /\ thread[p].at = "none"
  /\ thread' = [thread EXCEPT ![p].at = "begin"]
  /\ UNCHANGED <<installed, path, file, main, link, pipe, ctl, calls, tidy>>

\* executeApplication returns when quit() was called and no call of stop() is left;
\* sysCleanup closes the listening socket, ...
Close(p) ==
  /\ main[p].at = "loop" /\ main[p].stack = <<>> /\ main[p].quit
  /\ main' = [main EXCEPT ![p].at = "unlink"]
  /\ UNCHANGED <<installed, path, file, thread, link, pipe, ctl, calls, tidy>>

\* ... removes the file, whoever's it is by now, and the process ends, with what
\* its other thread was doing.
Unlink(p) ==
  /\ main[p].at = "unlink"
  /\ path' = IF main[p].own THEN NoProc ELSE path
  /\ Dies(p)
  /\ UNCHANGED <<installed, file, calls>>

-----------------------------------------------------------------------------
(* Commands: QtServiceSysPrivate::slotReady.                                 *)

\* c's command waits in a socket; a socket's slot is not entered twice.
Waiting(c, p) ==
  /\ ctl[c].at = "asked" /\ ctl[c].to = p
  /\ \A i \in DOMAIN main[p].stack : main[p].stack[i].who # c

Tell(c, ans) == SetCtl(c, "told", ctl[c].to, ans)

\* Mutant of Answer: a command that the service's flags do not allow gets no answer.
AnswerAllowed(c, p) ==
  /\ TurnsMain(p) /\ Waiting(c, p)
  /\ ctl[c].cmd \in {"run", "num"} \/ (ctl[c].cmd \in {"pause", "resume"} /\ "CanBeSuspended" \in Flags)
  /\ Tell(c, TRUE)
  /\ UNCHANGED <<service, calls, tidy>>

\* Everything but terminate; the service's own pause, resume and processCommand
\* are empty.
Answer(c, p) ==
  /\ TurnsMain(p) /\ Waiting(c, p)
  /\ \/ ctl[c].cmd \in {"run", "num"} /\ Tell(c, TRUE)
     \/ ctl[c].cmd \in {"pause", "resume"} /\ Tell(c, "CanBeSuspended" \in Flags)
     \/ ctl[c].cmd = "terminate" /\ "CannotBeStopped" \in Flags /\ Tell(c, FALSE)
  /\ UNCHANGED <<service, calls, tidy>>

\* getRulesSync: from now on what comes goes to this call's list, which starts empty.
Ask(p, lst, kind) ==
  /\ link[p].open
  /\ link' = [link EXCEPT ![p].lst = lst, ![p].coming = @ \o <<kind, "done">>]

\* The send fails, as it always does without a socket: the call returns at once, and
\* ruleslst still points to its list.
AskFails(p, cache) ==
  link' = [link EXCEPT ![p].lst = "gone", ![p].cache = cache]

\* terminate is obeyed: the call of stop() starts at one place or another.
Obeys(c, p, at) ==
  /\ TurnsMain(p) /\ Waiting(c, p)
  /\ ctl[c].cmd = "terminate" /\ "CannotBeStopped" \notin Flags
  /\ Caught(p)
  /\ main' = [main EXCEPT ![p].stack =
       Append(@, [who |-> c, at |-> at, got |-> {}, woken |-> FALSE])]
  /\ UNCHANGED <<installed, path, file, thread, pipe, ctl, calls>>

\* No other stop() is under way, and no listing of the other thread.
Quiet(p) ==
  /\ main[p].stack = <<>> /\ ~main[p].quit
  /\ thread[p].at = "loop" /\ thread[p].deep = 0 /\ link[p].coming = <<>>

\* Mutant of Terminate: stop() lists the input chain, as started() does.
TerminateInput(c, p) ==
  /\ Obeys(c, p, "list")
  /\ Ask(p, c, "input")
  /\ tidy' = [tidy EXCEPT ![p] = Quiet(p)]

\* terminate: BfService::stop, which lists the rules of all chains.
Terminate(c, p) ==
  /\ Obeys(c, p, "list")
  /\ Ask(p, c, "all")
  /\ tidy' = [tidy EXCEPT ![p] = Quiet(p)]

\* The same when the send fails: stop() goes on with an empty list.
TerminateUnsent(c, p) ==
  /\ Obeys(c, p, "save")
  /\ AskFails(p, {})
  /\ tidy' = [tidy EXCEPT ![p] = FALSE]

\* The same before started() has made BFControl: mBfc is not initialised.
TerminateEarly(c, p) ==
  /\ TurnsMain(p) /\ Waiting(c, p)
  /\ ctl[c].cmd = "terminate" /\ "CannotBeStopped" \notin Flags
  /\ ~Caught(p)
  /\ Dies(p)
  /\ UNCHANGED <<installed, path, file, calls>>

Top(p) == Last(main[p].stack)
WithTop(p, frame) == [main EXCEPT ![p].stack = Append(Front(@), frame)]
NoListKeeps(p, cache) == [link EXCEPT ![p].cache = cache] \* Mutant of NoList: ruleslst stays.
NoList(p, cache) == [link EXCEPT ![p].lst = "nobody", ![p].cache = cache]

\* Mutant of ListEnds: stop() does not wait for the answer.
ListEndsAtOnce(p) ==
  /\ main[p].stack # <<>> /\ Top(p).at = "list"
  /\ link' = NoList(p, Top(p).got)
  /\ main' = WithTop(p, [Top(p) EXCEPT !.at = "save"])
  /\ UNCHANGED <<installed, path, file, thread, pipe, ctl, calls, tidy>>

\* The wait of stop() ends by the listing's end, by quit(), or by its 10 s, in
\* which the kernel's answer comes if there is a thread left to take it.
\* loadFromList puts what has come into the cache.
ListEnds(p) ==
  /\ main[p].stack # <<>> /\ Top(p).at = "list"
  /\ Top(p).woken \/ main[p].quit \/ ~TurnsThread(p)
  /\ link' = NoList(p, Top(p).got)
  /\ main' = WithTop(p, [Top(p) EXCEPT !.at = "save"])
  /\ UNCHANGED <<installed, path, file, thread, pipe, ctl, calls, tidy>>

\* saveToFile, and the other thread is told to end.
Save(p) ==
  /\ main[p].stack # <<>> /\ Top(p).at = "save"
  /\ file' = link[p].cache
  /\ thread' = [thread EXCEPT ![p].quit = TRUE]
  /\ main' = WithTop(p, [Top(p) EXCEPT !.at = "join"])
  /\ UNCHANGED <<installed, path, link, pipe, ctl, calls, tidy>>

\* wait(1000): the thread has not ended, and is terminated wherever it is.
Kill(p) ==
  /\ main[p].stack # <<>> /\ Top(p).at = "join"
  /\ thread[p].at \notin {"over", "killed"}
  /\ thread' = [thread EXCEPT ![p].at = "killed"]
  /\ UNCHANGED <<installed, path, file, main, link, pipe, ctl, calls, tidy>>

\* Mutant of Stopped: the application is not told to quit.
StoppedOnly(p) ==
  /\ main[p].stack # <<>> /\ Top(p).at = "join"
  /\ thread[p].at \in {"over", "killed"}
  /\ Tell(Top(p).who, TRUE)
  /\ main' = [main EXCEPT ![p].stack = Front(@)]
  /\ UNCHANGED <<installed, path, file, thread, link, pipe, calls, tidy>>

\* stop() returns: QCoreApplication::quit(), which ends every loop of the main
\* thread, and the answer.
Stopped(p) ==
  /\ main[p].stack # <<>> /\ Top(p).at = "join"
  /\ thread[p].at \in {"over", "killed"}
  /\ Tell(Top(p).who, TRUE)
  /\ main' = [main EXCEPT ![p].stack = Front(@), ![p].quit = TRUE]
  /\ UNCHANGED <<installed, path, file, thread, link, pipe, calls, tidy>>

-----------------------------------------------------------------------------
(* The other thread: BfServicePrivate::started, then the local server.       *)

ThreadGoes(p, from, to) == thread[p].at = from /\ thread' = [thread EXCEPT ![p].at = to]

\* BFControl, whose constructor does not set ruleslst, SignalCatcher, init, loadFromFile.
Started(p) ==
  /\ ThreadGoes(p, "begin", "send")
  /\ link' = [link EXCEPT ![p].lst = "unset", ![p].open = TRUE]
  /\ UNCHANGED <<installed, path, file, main, pipe, ctl, calls, tidy>>

\* There is no socket: nothing is sent and nothing listed, but local clients are served.
InitFails(p) ==
  /\ ThreadGoes(p, "begin", "loop")
  /\ link' = [link EXCEPT ![p].lst = "unset"]
  /\ UNCHANGED <<installed, path, file, main, pipe, ctl, calls, tidy>>

\* sendRulesSync waits for each answer; it ends at a rule that cannot be sent, and takes
\* ruleslst for its own.
SendRules(p) ==
  /\ ThreadGoes(p, "send", "ask")
  /\ link' = link \/ link' = [link EXCEPT ![p].lst = "nobody"]
  /\ UNCHANGED <<installed, path, file, main, pipe, ctl, calls, tidy>>

\* started() lists the input chain.
ListInput(p) ==
  /\ ThreadGoes(p, "ask", "list")
  /\ Ask(p, "thread", "input")
  /\ UNCHANGED <<installed, path, file, main, pipe, ctl, calls, tidy>>

\* That cannot be sent: what is saved is an empty list.
ListUnsent(p) ==
  /\ ThreadGoes(p, "ask", "save")
  /\ AskFails(p, {})
  /\ UNCHANGED <<installed, path, file, main, pipe, ctl, calls, tidy>>

ThreadListEnds(p) ==
  /\ thread[p].at = "list"
  /\ thread[p].woken \/ thread[p].quit
  /\ thread' = [thread EXCEPT ![p].at = "save", ![p].got = {}, ![p].woken = FALSE]
  /\ link' = NoList(p, thread[p].got)
  /\ UNCHANGED <<installed, path, file, main, pipe, ctl, calls, tidy>>

ThreadSave(p) ==
  /\ ThreadGoes(p, "save", "loop")
  /\ file' = link[p].cache
  /\ UNCHANGED <<installed, path, main, link, pipe, ctl, calls, tidy>>

ThreadOver(p) ==
  /\ ThreadGoes(p, "loop", "over")
  /\ thread[p].quit /\ thread[p].deep = 0
  /\ UNCHANGED <<installed, path, file, main, link, pipe, ctl, calls, tidy>>

\* BFLocalServer::processMessage: a local client lists rules, ...
LocalAsk(p) ==
  /\ thread[p].at = "loop"
  /\ calls < Calls
  /\ calls' = calls + 1
  /\ \/ /\ \E kind \in Kind : Ask(p, "local", kind)
        /\ thread' = [thread EXCEPT ![p].woken = FALSE, ![p].deep = @ + 1]
     \/ AskFails(p, link[p].cache) /\ thread' = thread
  /\ tidy' = [tidy EXCEPT ![p] = FALSE]
  /\ UNCHANGED <<installed, path, file, main, pipe, ctl>>

\* ... and is answered: the innermost of the calls returns.
LocalEnds(p) ==
  /\ thread[p].at = "loop" /\ thread[p].deep > 0
  /\ thread[p].woken \/ thread[p].quit
  /\ thread' = [thread EXCEPT ![p].deep = @ - 1]
  /\ link' = NoList(p, link[p].cache)
  /\ UNCHANGED <<installed, path, file, main, pipe, ctl, calls, tidy>>

Woken(stack) == [i \in DOMAIN stack |-> [stack[i] EXCEPT !.woken = stack[i].woken \/ stack[i].at = "list"]]
Filled(stack, c, k) ==
  [i \in DOMAIN stack |-> IF stack[i].who = c THEN [stack[i] EXCEPT !.got = @ \cup {k}] ELSE stack[i]]

\* BFControl::process: rules go to the list of the call that asked last.
Rules(p) ==
  LET k == Head(link[p].coming) IN
  /\ TurnsThread(p)
  /\ link[p].coming # <<>> /\ k # "done"
  /\ thread' = IF link[p].lst = "thread" THEN [thread EXCEPT ![p].got = @ \cup {k}] ELSE thread
  /\ main' = [main EXCEPT ![p].stack = Filled(@, link[p].lst, k)]
  /\ link' = [link EXCEPT ![p].coming = Tail(@)]
  /\ UNCHANGED <<installed, path, file, pipe, ctl, calls, tidy>>

\* done() ends every wait for a listing, in either thread.  The end of a listing finds
\* ruleslst NULL if nobody waits for it any more, which Astray has.
Done(p) ==
  /\ TurnsThread(p)
  /\ link[p].coming # <<>> /\ Head(link[p].coming) = "done"
  /\ link[p].lst # "nobody"
  /\ thread' = [thread EXCEPT ![p].woken = @ \/ thread[p].at = "list" \/ thread[p].deep > 0]
  /\ main' = [main EXCEPT ![p].stack = Woken(@)]
  /\ link' = [link EXCEPT ![p].coming = Tail(@), ![p].lst = "nobody"]
  /\ UNCHANGED <<installed, path, file, pipe, ctl, calls, tidy>>

\* What comes is read or written through a pointer that is NULL, or to a list that is
\* gone; with the latter Rules and Done may also go well.
Astray(p) ==
  /\ TurnsThread(p)
  /\ link[p].coming # <<>>
  /\ link[p].lst \in {"unset", "gone"} \/ (link[p].lst = "nobody" /\ Head(link[p].coming) = "done")
  /\ Dies(p)
  /\ UNCHANGED <<installed, path, file, calls>>

-----------------------------------------------------------------------------
(* Signals: SignalCatcher.                                                   *)

Signal(p, s) ==
  /\ Alive(p)
  /\ calls < Calls
  /\ calls' = calls + 1
  /\ IF Caught(p)
     THEN /\ pipe' = [pipe EXCEPT ![p][s] = @ + 1]
          /\ UNCHANGED <<main, thread, link, ctl, tidy>>
     ELSE Dies(p)
  /\ UNCHANGED <<installed, path, file>>

\* onSignalTERM: QCoreApplication::exit(), past stop().  The others are logged.
OnSignal(p, s) ==
  /\ main' = [main EXCEPT ![p].quit = @ \/ s = "TERM"]
  /\ tidy' = [tidy EXCEPT ![p] = @ /\ s # "TERM"]

\* handleSigTerm and its like: one byte is read, one signal emitted.
HandleSig(p, s) ==
  /\ TurnsThread(p)
  /\ pipe[p][s] > 0
  /\ pipe' = [pipe EXCEPT ![p][s] = @ - 1]
  /\ OnSignal(p, s)
  /\ UNCHANGED <<installed, path, file, thread, link, ctl, calls>>

-----------------------------------------------------------------------------
Init ==
  /\ installed = FALSE
  /\ path = NoProc
  /\ file = Kind
  /\ main = [p \in Proc |-> IdleMain]
  /\ thread = [p \in Proc |-> IdleThread]
  /\ link = [p \in Proc |-> IdleLink]
  /\ pipe = [p \in Proc |-> [s \in Sig |-> 0]]
  /\ ctl = [c \in Ctl |-> NoCall]
  /\ calls = 0
  /\ rival = FALSE
  /\ tidy = [p \in Proc |-> FALSE]

CommandLine(c) ==
  \/ SendCmd(c) \/ ControllerStart(c) \/ Hear(c) \/ Install(c) \/ Uninstall(c)
  \/ \E p \in Proc : Launch(c, p) \/ Exec(c, p)

MainThread(p) ==
  \/ SetPath(p) \/ Bind(p) \/ Start(p) \/ Close(p) \/ Unlink(p)
  \/ \E c \in Ctl : Answer(c, p) \/ Terminate(c, p) \/ TerminateUnsent(c, p) \/ TerminateEarly(c, p)
  \/ ListEnds(p) \/ Save(p) \/ Kill(p) \/ Stopped(p)

OtherThread(p) ==
  \/ Started(p) \/ InitFails(p) \/ SendRules(p) \/ ListInput(p) \/ ListUnsent(p)
  \/ ThreadListEnds(p) \/ ThreadSave(p) \/ ThreadOver(p)
  \/ LocalEnds(p) \/ Rules(p) \/ Done(p) \/ Astray(p)
  \/ \E s \in Sig : HandleSig(p, s)

Next ==
  /\ \/ \E c \in Ctl : CommandLine(c) \/ \E cmd \in Command : Type(c, cmd)
     \/ \E p \in Proc : MainThread(p) \/ OtherThread(p) \/ LocalAsk(p) \/ \E s \in Sig : Signal(p, s)
  /\ Remember

Spec == Init /\ [][Next]_vars

FairSpec ==
  /\ Spec
  /\ \A p \in Proc : WF_vars(MainThread(p) /\ Remember) /\ WF_vars(OtherThread(p) /\ Remember)

-----------------------------------------------------------------------------
Frame == [who : Ctl, at : {"list", "save", "join"}, got : SUBSET Kind, woken : BOOLEAN]
MainState ==
  [at : {"off", "start", "bind", "loop", "unlink"}, own : BOOLEAN, stack : Seq(Frame), quit : BOOLEAN]
ThreadState ==
  [at : {"none", "begin", "send", "ask", "list", "save", "loop", "over", "killed"},
   got : SUBSET Kind, woken : BOOLEAN, quit : BOOLEAN, deep : Nat]
LinkState ==
  [lst : Ctl \cup {"nobody", "thread", "local", "unset", "gone"},
   coming : Seq(Kind \cup {"done"}), cache : SUBSET Kind, open : BOOLEAN]
CtlState ==
  [at : {"idle", "typed", "asked", "told", "launch"}, cmd : AllCommands, to : Proc \cup {NoProc},
   ans : BOOLEAN]

TypeOK ==
  /\ installed \in BOOLEAN /\ rival \in BOOLEAN
  /\ path \in Proc \cup {NoProc}
  /\ file \in SUBSET Kind
  /\ main \in [Proc -> MainState]
  /\ thread \in [Proc -> ThreadState]
  /\ link \in [Proc -> LinkState]
  /\ pipe \in [Proc -> [Sig -> Nat]]
  /\ ctl \in [Ctl -> CtlState]
  /\ calls \in 0 .. Calls
  /\ tidy \in [Proc -> BOOLEAN]

\* BFControl writes what arrives through ruleslst (bfcontrol.cpp:50), which both threads
\* set, and each call of a nest: it points to the list of a call that still waits, or to
\* none.  Nothing is on its way before it is set; and unless a send fails, which leaves
\* it at the list of a call that is over (bfcontrol.cpp:124), it is never at one.
ListIsLive ==
  \A p \in Proc :
    /\ link[p].lst = "thread" => thread[p].at \in {"list", "killed"}
    /\ link[p].lst = "local" => thread[p].deep > 0
    /\ link[p].lst \in Ctl =>
         \E i \in DOMAIN main[p].stack :
           main[p].stack[i].who = link[p].lst /\ main[p].stack[i].at = "list"
    /\ link[p].lst = "unset" => link[p].coming = <<>>

\* qtservice_unix.cpp:402: a start that finds the service running is refused.  So there
\* is one, unless a start was under way beside another or while a service came up or
\* went down, or there was an -exec; and the one there is can be talked to, whatever
\* files earlier processes have left behind.
OneService ==
  rival \/ /\ \A p, q \in Proc : Alive(p) /\ Alive(q) => p = q
           /\ \A p \in Proc : main[p].at = "loop" => path = p /\ Reachable

\* What makes it inductive: a start that goes on finds no process at all, the path is
\* free for the one that binds, and a process that has ended runs nothing.
Alone ==
  /\ \A p, q \in Proc : Alive(p) /\ Alive(q) => p = q
  /\ \A c \in Ctl, p \in Proc : Starting(c) => ~Alive(p)
  /\ \A p \in Proc : main[p].at = "loop" => main[p].own /\ path = p
  /\ \A p \in Proc : main[p].at = "bind" => path = NoProc
Threads == \A p \in Proc : thread[p].at # "none" \/ main[p].stack # <<>> => Alive(p)
IInv == TypeOK /\ Threads /\ (Rivals => rival) /\ (rival \/ Alone)

\* A service that is told to stop once, in its loop, whose listing can be sent and with
\* no local client's listing beside it, leaves a file with the rules of all chains, and
\* not what started() wrote.
StopSavesAll ==
  \A p \in Proc : main[p].at = "unlink" /\ tidy[p] /\ ~rival => "all" \in file

\* Nothing that comes while it stops so makes it end halfway: neither a signal nor the
\* end of a listing of earlier.
StopGoesThrough ==
  [][\A p \in Proc : tidy[p] /\ Alive(p) /\ ~Alive(p)' => main[p].at = "unlink"]_vars

\* sendCmd has no timer: somebody who has asked must hear something, or the end of
\* the connection.
CommandsReturn == \A c \in Ctl : ctl[c].at = "asked" ~> ctl[c].at # "asked"

\* qtservice.cpp:359: "true" for a stop means that the service ends; so does a TERM that
\* was caught, whatever the service is doing.
StopEnds ==
  \A p \in Proc :
    (\/ \E c \in Ctl :
          ctl[c].at = "told" /\ ctl[c].cmd = "terminate" /\ ctl[c].ans /\ ctl[c].to = p
     \/ "TERM" \in Sig /\ pipe[p]["TERM"] > 0) ~> ~Alive(p)
=============================================================================
