---------------------------- MODULE BfDaemonProofs ----------------------------
(***************************************************************************)
(* Proofs about BfDaemon, for any number of processes, users, commands and *)
(* signals: types; one service runs and is reached; the list that is being *)
(* filled is that of a call which waits; and a stop() that nothing crosses *)
(* ends the process, and only after all rules are in the file.             *)
(***************************************************************************)
EXTENDS BfDaemon, SequenceTheorems, TLAPS

-----------------------------------------------------------------------------
(* Changes of a record that keep it one of its kind.                         *)

LEMMA MainChanges ==
  ASSUME NEW m \in MainState
  PROVE  /\ m.own \in BOOLEAN /\ m.quit \in BOOLEAN /\ m.stack \in Seq(Frame)
         /\ \A a \in {"off", "start", "bind", "loop", "unlink"} : [m EXCEPT !.at = a] \in MainState
         /\ \A b \in BOOLEAN : [m EXCEPT !.at = "loop", !.own = b] \in MainState
         /\ \A b \in BOOLEAN : [m EXCEPT !.quit = b] \in MainState
         /\ \A s \in Seq(Frame) : [m EXCEPT !.stack = s] \in MainState
         /\ \A s \in Seq(Frame) : [m EXCEPT !.stack = s, !.quit = TRUE] \in MainState
BY DEF MainState

LEMMA FrameChanges ==
  ASSUME NEW f \in Frame
  PROVE  /\ f.who \in Ctl /\ f.got \in SUBSET Kind /\ f.woken \in BOOLEAN
         /\ \A a \in {"list", "save", "join"} : [f EXCEPT !.at = a] \in Frame
         /\ \A b \in BOOLEAN : [f EXCEPT !.woken = b] \in Frame
         /\ \A k \in Kind : [f EXCEPT !.got = f.got \cup {k}] \in Frame
BY DEF Frame

LEMMA ThreadChanges ==
  ASSUME NEW t \in ThreadState
  PROVE  /\ t.got \in SUBSET Kind /\ t.woken \in BOOLEAN /\ t.deep \in Nat
         /\ \A a \in {"none", "begin", "send", "ask", "list", "save", "loop", "over", "killed"} :
              [t EXCEPT !.at = a] \in ThreadState
         /\ [t EXCEPT !.at = "save", !.got = {}, !.woken = FALSE] \in ThreadState
         /\ \A n \in Nat : [t EXCEPT !.deep = n] \in ThreadState
         /\ \A n \in Nat : [t EXCEPT !.woken = FALSE, !.deep = n] \in ThreadState
         /\ \A b \in BOOLEAN : [t EXCEPT !.woken = b] \in ThreadState
         /\ \A b \in BOOLEAN : [t EXCEPT !.quit = b] \in ThreadState
         /\ \A k \in Kind : [t EXCEPT !.got = t.got \cup {k}] \in ThreadState
BY DEF ThreadState

Lists == Ctl \cup {"nobody", "thread", "local", "unset", "gone"}

LEMMA LinkChanges ==
  ASSUME NEW l \in LinkState
  PROVE  /\ l.cache \in SUBSET Kind /\ l.coming \in Seq(Kind \cup {"done"})
         /\ \A c \in Lists, s \in Seq(Kind \cup {"done"}) :
              [l EXCEPT !.lst = c, !.coming = s] \in LinkState
         /\ \A c \in Lists, s \in Seq(Kind \cup {"done"}) :
              [l EXCEPT !.coming = s, !.lst = c] \in LinkState
         /\ \A s \in Seq(Kind \cup {"done"}) : [l EXCEPT !.coming = s] \in LinkState
         /\ \A c \in Lists, k \in SUBSET Kind : [l EXCEPT !.lst = c, !.cache = k] \in LinkState
         /\ \A c \in Lists : [l EXCEPT !.lst = c] \in LinkState
         /\ \A c \in Lists : [l EXCEPT !.lst = c, !.open = TRUE] \in LinkState
BY DEF LinkState, Lists

LEMMA CtlChanges ==
  ASSUME NEW c \in CtlState, NEW a \in {"idle", "typed", "asked", "told", "launch"},
         NEW to \in Proc \cup {NoProc}
  PROVE  /\ c.to \in Proc \cup {NoProc} /\ c.ans \in BOOLEAN
         /\ \A b \in BOOLEAN : [c EXCEPT !.at = a, !.to = to, !.ans = b] \in CtlState
         /\ [c EXCEPT !.at = a, !.to = to] \in CtlState
BY DEF CtlState

LEMMA Idles ==
  /\ IdleMain \in MainState /\ IdleThread \in ThreadState /\ IdleLink \in LinkState
  /\ \A cmd \in Command : [NoCall EXCEPT !.at = "typed", !.cmd = cmd] \in CtlState
  /\ NoCall \in CtlState
  /\ [s \in Sig |-> 0] \in [Sig -> Nat]
<1>1. IdleMain \in MainState
  BY DEF IdleMain, MainState
<1>2. IdleThread \in ThreadState
  BY DEF IdleThread, ThreadState
<1>3. IdleLink \in LinkState
  BY DEF IdleLink, LinkState
<1>4. NoCall \in CtlState
  BY DEF NoCall, CtlState, AllCommands, Sent
<1>5. ASSUME NEW cmd \in Command PROVE [NoCall EXCEPT !.at = "typed", !.cmd = cmd] \in CtlState
  <2>1. cmd \in AllCommands
    BY DaemonAssumption
  <2> QED
    BY <1>4, <2>1 DEF CtlState
<1> QED
  BY <1>1, <1>2, <1>3, <1>4, <1>5

-----------------------------------------------------------------------------
(* Types.                                                                    *)

\* What leaves the stack of calls as it should be.
LEMMA StackTypes ==
  ASSUME NEW s \in Seq(Frame), s # <<>>
  PROVE  /\ Last(s) \in Frame
         /\ Front(s) \in Seq(Frame)
         /\ \A f \in Frame : Append(Front(s), f) \in Seq(Frame)
<1>1. Last(s) \in Frame
  BY DEF Last
<1>2. Front(s) \in Seq(Frame)
  BY DEF Front
<1> QED
  BY <1>1, <1>2

\* The command line.
LEMMA SetCtlTypes ==
  ASSUME ctl \in [Ctl -> CtlState], NEW c \in Ctl,
         NEW a \in {"idle", "typed", "asked", "told", "launch"}, NEW to \in Proc \cup {NoProc},
         NEW b \in BOOLEAN, SetCtl(c, a, to, b)
  PROVE  ctl' \in [Ctl -> CtlState]
BY CtlChanges DEF SetCtl

LEMMA OverTypes ==
  ASSUME ctl \in [Ctl -> CtlState], NEW c \in Ctl, Over(c)
  PROVE  ctl' \in [Ctl -> CtlState]
BY Idles DEF Over

LEMMA CommandLineTypes ==
  ASSUME TypeOK, rival' \in BOOLEAN, NEW c \in Ctl,
         CommandLine(c) \/ \E cmd \in Command : Type(c, cmd)
  PROVE  TypeOK'
<1> USE DEF TypeOK
<1>1. ASSUME NEW cmd \in Command, Type(c, cmd) PROVE TypeOK'
  <2>1. ctl' \in [Ctl -> CtlState]
    BY <1>1, Idles DEF Type
  <2>2. calls' \in 0 .. Calls
    <3>1. calls < Calls /\ calls' = calls + 1
      BY <1>1 DEF Type
    <3>2. calls \in 0 .. Calls /\ Calls \in Nat
      BY DaemonAssumption
    <3> QED
      BY <3>1, <3>2
  <2> QED
    BY <1>1, <2>1, <2>2 DEF Type, service
<1>2. CASE SendCmd(c)
  <2>1. ctl' \in [Ctl -> CtlState]
    BY <1>2, SetCtlTypes, DaemonAssumption DEF SendCmd, Reachable
  <2> QED
    BY <1>2, <2>1 DEF SendCmd, service
<1>3. CASE ControllerStart(c)
  <2>1. ctl' \in [Ctl -> CtlState]
    <3>1. [NoCall EXCEPT !.at = "typed"] \in CtlState
      <4>1. NoCall \in CtlState
        BY Idles
      <4> QED
        BY <4>1 DEF CtlState
    <3> QED
      BY <1>3, <3>1, OverTypes DEF ControllerStart
  <2> QED
    BY <1>3, <2>1 DEF ControllerStart, service
<1>4. CASE Hear(c)
  <2>1. ctl' \in [Ctl -> CtlState]
    BY <1>4, SetCtlTypes, OverTypes DEF Hear
  <2> QED
    BY <1>4, <2>1 DEF Hear, service
<1>5. CASE Install(c)
  <2>1. ctl' \in [Ctl -> CtlState]
    BY <1>5, OverTypes DEF Install
  <2> QED
    BY <1>5, <2>1 DEF Install
<1>6. CASE Uninstall(c)
  <2>1. ctl' \in [Ctl -> CtlState]
    BY <1>6, OverTypes DEF Uninstall
  <2> QED
    BY <1>6, <2>1 DEF Uninstall
<1>7. ASSUME NEW p \in Proc, Launch(c, p) PROVE TypeOK'
  <2>1. ctl' \in [Ctl -> CtlState]
    BY <1>7, OverTypes DEF Launch
  <2>2. main' \in [Proc -> MainState]
    BY <1>7, Idles, MainChanges DEF Launch
  <2> QED
    BY <1>7, <2>1, <2>2 DEF Launch
<1>8. ASSUME NEW p \in Proc, Exec(c, p) PROVE TypeOK'
  <2>1. ctl' \in [Ctl -> CtlState]
    BY <1>8, OverTypes DEF Exec
  <2>2. main' \in [Proc -> MainState]
    BY <1>8, Idles, MainChanges DEF Exec
  <2> QED
    BY <1>8, <2>1, <2>2 DEF Exec
<1> QED
  BY <1>1, <1>2, <1>3, <1>4, <1>5, <1>6, <1>7, <1>8 DEF CommandLine

\* A process ends.
LEMMA DiesTypes ==
  ASSUME TypeOK, rival' \in BOOLEAN, NEW p \in Proc, Dies(p),
         path' \in Proc \cup {NoProc}, installed' = installed, file' = file, calls' \in 0 .. Calls
  PROVE  TypeOK'
<1> USE DEF TypeOK
<1>1. main' \in [Proc -> MainState]
  BY Idles DEF Dies
<1>2. /\ thread' \in [Proc -> ThreadState]
      /\ link' \in [Proc -> LinkState]
  BY Idles DEF Dies
<1>3. /\ pipe' \in [Proc -> [Sig -> Nat]]
      /\ tidy' \in [Proc -> BOOLEAN]
  BY Idles DEF Dies
<1>4. ctl' \in [Ctl -> CtlState]
  BY CtlChanges DEF Dies, Hangup
<1> QED
  BY <1>1, <1>2, <1>3, <1>4

\* What getRulesSync does to the link.
LEMMA AskTypes ==
  ASSUME link \in [Proc -> LinkState], NEW p \in Proc, NEW lst \in Lists, NEW kind \in Kind,
         Ask(p, lst, kind)
  PROVE  link' \in [Proc -> LinkState]
<1>1. link[p] \in LinkState
  OBVIOUS
<1>2. link[p].coming \o <<kind, "done">> \in Seq(Kind \cup {"done"})
  <2>1. link[p].coming \in Seq(Kind \cup {"done"})
    BY <1>1, LinkChanges
  <2>2. <<kind, "done">> \in Seq(Kind \cup {"done"})
    OBVIOUS
  <2> QED
    BY <2>1, <2>2
<1>3. link' = [link EXCEPT ![p].lst = lst, ![p].coming = link[p].coming \o <<kind, "done">>]
  BY DEF Ask
<1> QED
  BY <1>1, <1>2, <1>3, LinkChanges

LEMMA AskFailsTypes ==
  ASSUME link \in [Proc -> LinkState], NEW p \in Proc, NEW k \in SUBSET Kind, AskFails(p, k)
  PROVE  link' \in [Proc -> LinkState]
<1>1. link[p] \in LinkState /\ "gone" \in Lists
  BY DEF Lists
<1> QED
  BY <1>1, LinkChanges DEF AskFails

\* A call of stop() begins.
LEMMA ObeysTypes ==
  ASSUME TypeOK, NEW p \in Proc, NEW c \in Ctl, NEW at \in {"list", "save", "join"}, Obeys(c, p, at)
  PROVE  main' \in [Proc -> MainState]
<1>1. PICK f : f = [who |-> c, at |-> at, got |-> {}, woken |-> FALSE]
  OBVIOUS
<1>2. f \in Frame
  BY <1>1 DEF Frame
<1>3. main[p] \in MainState /\ main \in [Proc -> MainState]
  BY DEF TypeOK
<1>4. Append(main[p].stack, f) \in Seq(Frame)
  <2>1. main[p].stack \in Seq(Frame)
    BY <1>3, MainChanges
  <2> QED
    BY <1>2, <2>1
<1>5. main' = [main EXCEPT ![p].stack = Append(main[p].stack, f)]
  BY <1>1 DEF Obeys
<1> QED
  BY <1>3, <1>4, <1>5, MainChanges

\* The main thread.
LEMMA MainTypes ==
  ASSUME TypeOK, rival' \in BOOLEAN, NEW p \in Proc, MainThread(p)
  PROVE  TypeOK'
<1> USE DEF TypeOK
<1>0. main[p] \in MainState /\ thread[p] \in ThreadState /\ link[p] \in LinkState
  OBVIOUS
<1>1. CASE SetPath(p)
  <2>1. main' \in [Proc -> MainState]
    BY <1>1, MainChanges DEF SetPath
  <2> QED
    BY <1>1, <2>1 DEF SetPath
<1>2. CASE Bind(p)
  <2>1. main' \in [Proc -> MainState]
    BY <1>2, MainChanges DEF Bind
  <2> QED
    BY <1>2, <2>1 DEF Bind
<1>3. CASE Start(p)
  <2>1. thread' \in [Proc -> ThreadState]
    BY <1>3, ThreadChanges DEF Start
  <2> QED
    BY <1>3, <2>1 DEF Start
<1>4. CASE Close(p)
  <2>1. main' \in [Proc -> MainState]
    BY <1>4, MainChanges DEF Close
  <2> QED
    BY <1>4, <2>1 DEF Close
<1>5. CASE Unlink(p)
  <2>1. path' \in Proc \cup {NoProc} /\ Dies(p) /\ UNCHANGED <<installed, file, calls>>
    BY <1>5 DEF Unlink
  <2> QED
    BY <2>1, DiesTypes
<1>6. ASSUME NEW c \in Ctl, Answer(c, p) PROVE TypeOK'
  <2>1. \E b \in BOOLEAN : Tell(c, b)
    <3>1. Tell(c, TRUE) \/ Tell(c, FALSE) \/ Tell(c, "CanBeSuspended" \in Flags)
      BY <1>6 DEF Answer
    <3>2. ("CanBeSuspended" \in Flags) \in BOOLEAN
      OBVIOUS
    <3> QED
      BY <3>1, <3>2
  <2>2. ctl[c].to \in Proc \cup {NoProc}
    BY CtlChanges
  <2>3. ctl' \in [Ctl -> CtlState]
    <3>1. PICK b \in BOOLEAN : Tell(c, b)
      BY <2>1
    <3>2. ctl \in [Ctl -> CtlState]
      OBVIOUS
    <3> HIDE DEF TypeOK
    <3> QED
      BY <2>2, <3>1, <3>2, SetCtlTypes DEF Tell
  <2> QED
    BY <1>6, <2>3 DEF Answer, service
<1>7. ASSUME NEW c \in Ctl, Terminate(c, p) PROVE TypeOK'
  <2>1. main' \in [Proc -> MainState]
    BY <1>7, ObeysTypes DEF Terminate
  <2>2. link' \in [Proc -> LinkState]
    BY <1>7, AskTypes DEF Terminate, Lists, Kind
  <2>3. tidy' \in [Proc -> BOOLEAN]
    BY <1>7 DEF Terminate, Quiet
  <2> QED
    BY <1>7, <2>1, <2>2, <2>3 DEF Terminate, Obeys
<1>13. ASSUME NEW c \in Ctl, TerminateUnsent(c, p) PROVE TypeOK'
  <2>1. main' \in [Proc -> MainState]
    BY <1>13, ObeysTypes DEF TerminateUnsent
  <2>2. link' \in [Proc -> LinkState]
    BY <1>13, AskFailsTypes DEF TerminateUnsent
  <2>3. tidy' \in [Proc -> BOOLEAN]
    BY <1>13 DEF TerminateUnsent
  <2> QED
    BY <1>13, <2>1, <2>2, <2>3 DEF TerminateUnsent, Obeys
<1>8. ASSUME NEW c \in Ctl, TerminateEarly(c, p) PROVE TypeOK'
  <2>1. Dies(p) /\ UNCHANGED <<installed, path, file, calls>>
    BY <1>8 DEF TerminateEarly
  <2> QED
    BY <2>1, DiesTypes
<1>9. CASE ListEnds(p)
  <2> DEFINE f == [Top(p) EXCEPT !.at = "save"]
  <2>1. Top(p) \in Frame
    BY <1>0, <1>9, MainChanges, StackTypes DEF ListEnds, Top
  <2>2. f \in Frame /\ Top(p).got \in SUBSET Kind
    BY <2>1, FrameChanges
  <2>3. Append(Front(main[p].stack), f) \in Seq(Frame)
    BY <1>0, <1>9, <2>2, MainChanges, StackTypes DEF ListEnds
  <2>4. main' = [main EXCEPT ![p].stack = Append(Front(main[p].stack), f)]
    BY <1>9 DEF ListEnds, WithTop
  <2>5. link' = [link EXCEPT ![p].lst = "nobody", ![p].cache = Top(p).got]
    BY <1>9 DEF ListEnds, NoList
  <2> HIDE DEF f
  <2>6. main' \in [Proc -> MainState]
    BY <1>0, <2>3, <2>4, MainChanges
  <2>7. link' \in [Proc -> LinkState]
    BY <1>0, <2>2, <2>5, LinkChanges DEF Lists
  <2> QED
    BY <1>9, <2>6, <2>7 DEF ListEnds
<1>10. CASE Save(p)
  <2> DEFINE f == [Top(p) EXCEPT !.at = "join"]
  <2>1. Top(p) \in Frame
    BY <1>0, <1>10, MainChanges, StackTypes DEF Save, Top
  <2>2. f \in Frame
    BY <2>1, FrameChanges
  <2>3. Append(Front(main[p].stack), f) \in Seq(Frame)
    BY <1>0, <1>10, <2>2, MainChanges, StackTypes DEF Save
  <2>4. main' = [main EXCEPT ![p].stack = Append(Front(main[p].stack), f)]
    BY <1>10 DEF Save, WithTop
  <2> HIDE DEF f
  <2>5. main' \in [Proc -> MainState]
    BY <1>0, <2>3, <2>4, MainChanges
  <2>6. thread' \in [Proc -> ThreadState]
    BY <1>10, ThreadChanges DEF Save
  <2>7. file' \in SUBSET Kind
    BY <1>10, LinkChanges DEF Save
  <2> QED
    BY <1>10, <2>5, <2>6, <2>7 DEF Save
<1>11. CASE Kill(p)
  <2>1. thread' \in [Proc -> ThreadState]
    BY <1>11, ThreadChanges DEF Kill
  <2> QED
    BY <1>11, <2>1 DEF Kill
<1>12. CASE Stopped(p)
  <2>1. Top(p) \in Frame /\ Front(main[p].stack) \in Seq(Frame)
    BY <1>0, <1>12, MainChanges, StackTypes DEF Stopped, Top
  <2>2. Top(p).who \in Ctl
    BY <2>1, FrameChanges
  <2>3. ctl[Top(p).who].to \in Proc \cup {NoProc}
    BY <2>2, CtlChanges
  <2>4. ctl' \in [Ctl -> CtlState]
    BY <1>12, <2>2, <2>3, SetCtlTypes DEF Stopped, Tell
  <2>5. main' = [main EXCEPT ![p].stack = Front(main[p].stack), ![p].quit = TRUE]
    BY <1>12 DEF Stopped
  <2>6. main' \in [Proc -> MainState]
    BY <1>0, <2>1, <2>5, MainChanges
  <2> QED
    BY <1>12, <2>4, <2>6 DEF Stopped
<1> QED
  BY <1>1, <1>2, <1>3, <1>4, <1>5, <1>6, <1>7, <1>8, <1>9, <1>10, <1>11, <1>12, <1>13
     DEF MainThread

\* What is done to every frame of a stack.
LEMMA FilledTypes ==
  ASSUME NEW s \in Seq(Frame), NEW c, NEW k \in Kind
  PROVE  Filled(s, c, k) \in Seq(Frame)
<1>1. PICK n \in Nat : s \in [1 .. n -> Frame]
  BY SeqDef
<1>2. \A i \in 1 .. n : [s[i] EXCEPT !.got = @ \cup {k}] \in Frame
  BY <1>1, FrameChanges
<1>3. Filled(s, c, k) \in [1 .. n -> Frame]
  BY <1>1, <1>2 DEF Filled
<1> QED
  BY <1>3, SeqDef

LEMMA WokenTypes ==
  ASSUME NEW s \in Seq(Frame)
  PROVE  Woken(s) \in Seq(Frame)
<1>1. PICK n \in Nat : s \in [1 .. n -> Frame]
  BY SeqDef
<1>2. \A i \in 1 .. n : [s[i] EXCEPT !.woken = s[i].woken \/ s[i].at = "list"] \in Frame
  BY <1>1, FrameChanges
<1>3. Woken(s) \in [1 .. n -> Frame]
  BY <1>1, <1>2 DEF Woken
<1> QED
  BY <1>3, SeqDef

\* The other thread.
LEMMA OtherTypes ==
  ASSUME TypeOK, rival' \in BOOLEAN, NEW p \in Proc, OtherThread(p)
  PROVE  TypeOK'
<1> USE DEF TypeOK
<1>0. main[p] \in MainState /\ thread[p] \in ThreadState /\ link[p] \in LinkState
  OBVIOUS
<1>1. CASE Started(p)
  <2>1. thread' \in [Proc -> ThreadState]
    BY <1>1, ThreadChanges DEF Started, ThreadGoes
  <2>2. link' \in [Proc -> LinkState]
    BY <1>0, <1>1, LinkChanges DEF Started, Lists
  <2> QED
    BY <1>1, <2>1, <2>2 DEF Started
<1>10. CASE InitFails(p)
  <2>1. thread' \in [Proc -> ThreadState]
    BY <1>10, ThreadChanges DEF InitFails, ThreadGoes
  <2>2. link' \in [Proc -> LinkState]
    BY <1>0, <1>10, LinkChanges DEF InitFails, Lists
  <2> QED
    BY <1>10, <2>1, <2>2 DEF InitFails
<1>11. CASE SendRules(p)
  <2>1. thread' \in [Proc -> ThreadState]
    BY <1>11, ThreadChanges DEF SendRules, ThreadGoes
  <2>2. link' \in [Proc -> LinkState]
    <3>1. CASE link' = link
      BY <3>1
    <3>2. CASE link' = [link EXCEPT ![p].lst = "nobody"]
      <4>1. "nobody" \in Lists
        BY DEF Lists
      <4> QED
        BY <1>0, <3>2, <4>1, LinkChanges
    <3> QED
      BY <1>11, <3>1, <3>2 DEF SendRules
  <2> QED
    BY <1>11, <2>1, <2>2 DEF SendRules
<1>2. CASE ListInput(p)
  <2>1. thread' \in [Proc -> ThreadState]
    BY <1>2, ThreadChanges DEF ListInput, ThreadGoes
  <2>2. link' \in [Proc -> LinkState]
    BY <1>2, AskTypes DEF ListInput, Lists, Kind
  <2> QED
    BY <1>2, <2>1, <2>2 DEF ListInput
<1>12. CASE ListUnsent(p)
  <2>1. thread' \in [Proc -> ThreadState]
    BY <1>12, ThreadChanges DEF ListUnsent, ThreadGoes
  <2>2. link' \in [Proc -> LinkState]
    BY <1>12, AskFailsTypes DEF ListUnsent
  <2> QED
    BY <1>12, <2>1, <2>2 DEF ListUnsent
<1>3. CASE ThreadListEnds(p)
  <2>1. thread' \in [Proc -> ThreadState]
    BY <1>0, <1>3, ThreadChanges DEF ThreadListEnds
  <2>2. link' \in [Proc -> LinkState]
    <3>1. link' = [link EXCEPT ![p].lst = "nobody", ![p].cache = thread[p].got]
      BY <1>3 DEF ThreadListEnds, NoList
    <3>2. thread[p].got \in SUBSET Kind
      BY <1>0, ThreadChanges
    <3> QED
      BY <1>0, <3>1, <3>2, LinkChanges DEF Lists
  <2> QED
    BY <1>3, <2>1, <2>2 DEF ThreadListEnds
<1>13. CASE LocalEnds(p)
  <2>1. thread' \in [Proc -> ThreadState]
    <3>1. thread[p].deep - 1 \in Nat
      <4>1. thread[p].deep \in Nat /\ thread[p].deep > 0
        BY <1>0, <1>13 DEF LocalEnds, ThreadState
      <4> QED
        BY <4>1
    <3>2. thread' = [thread EXCEPT ![p].deep = thread[p].deep - 1]
      BY <1>13 DEF LocalEnds
    <3> QED
      BY <1>0, <3>1, <3>2, ThreadChanges
  <2>2. link' \in [Proc -> LinkState]
    BY <1>0, <1>13, LinkChanges DEF LocalEnds, NoList, Lists
  <2> QED
    BY <1>13, <2>1, <2>2 DEF LocalEnds
<1>4. CASE ThreadSave(p)
  <2>1. thread' \in [Proc -> ThreadState]
    BY <1>4, ThreadChanges DEF ThreadSave, ThreadGoes
  <2>2. file' \in SUBSET Kind
    BY <1>0, <1>4, LinkChanges DEF ThreadSave
  <2> QED
    BY <1>4, <2>1, <2>2 DEF ThreadSave
<1>5. CASE ThreadOver(p)
  <2>1. thread' \in [Proc -> ThreadState]
    BY <1>5, ThreadChanges DEF ThreadOver, ThreadGoes
  <2> QED
    BY <1>5, <2>1 DEF ThreadOver
<1>6. CASE Rules(p)
  <2> DEFINE k == Head(link[p].coming)
  <2>1. link[p].coming \in Seq(Kind \cup {"done"}) /\ link[p].coming # <<>> /\ k # "done"
    BY <1>0, <1>6, LinkChanges DEF Rules
  <2>2. k \in Kind /\ Tail(link[p].coming) \in Seq(Kind \cup {"done"})
    BY <2>1
  <2> HIDE DEF k
  <2>3. thread' \in [Proc -> ThreadState]
    <3>1. [thread[p] EXCEPT !.got = thread[p].got \cup {k}] \in ThreadState
      BY <1>0, <2>2, ThreadChanges
    <3> QED
      BY <1>6, <3>1 DEF Rules, k
  <2>4. main' \in [Proc -> MainState]
    <3>1. main' = [main EXCEPT ![p].stack = Filled(main[p].stack, link[p].lst, k)]
      BY <1>6 DEF Rules, k
    <3>2. Filled(main[p].stack, link[p].lst, k) \in Seq(Frame)
      BY <1>0, <2>2, FilledTypes, MainChanges
    <3> QED
      BY <1>0, <3>1, <3>2, MainChanges
  <2>5. link' \in [Proc -> LinkState]
    <3>1. link' = [link EXCEPT ![p].coming = Tail(link[p].coming)]
      BY <1>6 DEF Rules
    <3> QED
      BY <1>0, <2>2, <3>1, LinkChanges
  <2> QED
    BY <1>6, <2>3, <2>4, <2>5 DEF Rules
<1>7. CASE Done(p)
  <2>1. Tail(link[p].coming) \in Seq(Kind \cup {"done"})
    <3>1. link[p].coming \in Seq(Kind \cup {"done"}) /\ link[p].coming # <<>>
      BY <1>0, <1>7, LinkChanges DEF Done
    <3> QED
      BY <3>1
  <2>2. thread' \in [Proc -> ThreadState]
    <3>1. thread' = [thread EXCEPT ![p].woken =
                       thread[p].woken \/ thread[p].at = "list" \/ thread[p].deep > 0]
      BY <1>7 DEF Done
    <3>2. (thread[p].woken \/ thread[p].at = "list" \/ thread[p].deep > 0) \in BOOLEAN
      OBVIOUS
    <3> QED
      BY <1>0, <3>1, <3>2, ThreadChanges
  <2>3. main' \in [Proc -> MainState]
    <3>1. main' = [main EXCEPT ![p].stack = Woken(main[p].stack)]
      BY <1>7 DEF Done
    <3>2. Woken(main[p].stack) \in Seq(Frame)
      BY <1>0, WokenTypes, MainChanges
    <3> QED
      BY <1>0, <3>1, <3>2, MainChanges
  <2>4. link' \in [Proc -> LinkState]
    <3>1. link' = [link EXCEPT ![p].coming = Tail(link[p].coming), ![p].lst = "nobody"]
      BY <1>7 DEF Done
    <3> QED
      BY <1>0, <2>1, <3>1, LinkChanges DEF Lists
  <2> QED
    BY <1>7, <2>2, <2>3, <2>4 DEF Done
<1>8. CASE Astray(p)
  <2>1. Dies(p) /\ UNCHANGED <<installed, path, file, calls>>
    BY <1>8 DEF Astray
  <2> QED
    BY <2>1, DiesTypes
<1>9. ASSUME NEW s \in Sig, HandleSig(p, s) PROVE TypeOK'
  <2>1. pipe' \in [Proc -> [Sig -> Nat]]
    <3>1. pipe[p] \in [Sig -> Nat] /\ pipe[p][s] \in Nat /\ pipe[p][s] > 0
      BY <1>9 DEF HandleSig
    <3>2. [pipe[p] EXCEPT ![s] = pipe[p][s] - 1] \in [Sig -> Nat]
      BY <3>1
    <3>3. pipe' = [pipe EXCEPT ![p] = [pipe[p] EXCEPT ![s] = pipe[p][s] - 1]]
      BY <1>9 DEF HandleSig
    <3> QED
      BY <3>2, <3>3
  <2>2. main' \in [Proc -> MainState]
    <3>1. main' = [main EXCEPT ![p].quit = main[p].quit \/ s = "TERM"]
      BY <1>9 DEF HandleSig, OnSignal
    <3>2. (main[p].quit \/ s = "TERM") \in BOOLEAN
      OBVIOUS
    <3> QED
      BY <1>0, <3>1, <3>2, MainChanges
  <2>3. tidy' \in [Proc -> BOOLEAN]
    <3>1. tidy' = [tidy EXCEPT ![p] = tidy[p] /\ s # "TERM"]
      BY <1>9 DEF HandleSig, OnSignal
    <3>2. (tidy[p] /\ s # "TERM") \in BOOLEAN
      OBVIOUS
    <3> QED
      BY <3>1, <3>2
  <2> QED
    BY <1>9, <2>1, <2>2, <2>3 DEF HandleSig
<1> QED
  BY <1>1, <1>2, <1>3, <1>4, <1>5, <1>6, <1>7, <1>8, <1>9, <1>10, <1>11, <1>12, <1>13 DEF OtherThread

\* A local client's listing.
LEMMA LocalTypes ==
  ASSUME TypeOK, rival' \in BOOLEAN, NEW p \in Proc, LocalAsk(p)
  PROVE  TypeOK'
<1> USE DEF TypeOK
<1>0. thread[p] \in ThreadState /\ link[p] \in LinkState
  OBVIOUS
<1>1. calls' \in 0 .. Calls
  <2>1. calls < Calls /\ calls' = calls + 1
    BY DEF LocalAsk
  <2>2. calls \in 0 .. Calls /\ Calls \in Nat
    BY DaemonAssumption
  <2> QED
    BY <2>1, <2>2
<1>2. CASE \E kind \in Kind : Ask(p, "local", kind)
           /\ thread' = [thread EXCEPT ![p].woken = FALSE, ![p].deep = thread[p].deep + 1]
  <2>1. link' \in [Proc -> LinkState]
    BY <1>2, AskTypes DEF Lists
  <2>2. thread' \in [Proc -> ThreadState]
    <3>1. PICK n : n = thread[p].deep + 1
      OBVIOUS
    <3>2. n \in Nat
      <4>1. thread[p].deep \in Nat
        BY <1>0 DEF ThreadState
      <4> QED
        BY <3>1, <4>1
    <3>3. [thread[p] EXCEPT !.woken = FALSE, !.deep = n] \in ThreadState
      BY <1>0, <3>2, ThreadChanges
    <3>4. thread' = [thread EXCEPT ![p] = [thread[p] EXCEPT !.woken = FALSE, !.deep = n]]
      BY <1>2, <3>1
    <3> QED
      BY <3>3, <3>4
  <2> QED
    BY <1>1, <2>1, <2>2 DEF LocalAsk
<1>3. CASE AskFails(p, link[p].cache) /\ thread' = thread
  <2>1. link' \in [Proc -> LinkState]
    BY <1>0, <1>3, AskFailsTypes, LinkChanges
  <2> QED
    BY <1>1, <1>3, <2>1 DEF LocalAsk
<1> QED
  BY <1>2, <1>3 DEF LocalAsk

\* Signals.
LEMMA SignalTypes ==
  ASSUME TypeOK, rival' \in BOOLEAN, NEW p \in Proc, NEW s \in Sig, Signal(p, s)
  PROVE  TypeOK'
<1> USE DEF TypeOK
<1>1. calls' \in 0 .. Calls
  <2>1. calls < Calls /\ calls' = calls + 1
    BY DEF Signal
  <2>2. calls \in 0 .. Calls /\ Calls \in Nat
    BY DaemonAssumption
  <2> QED
    BY <2>1, <2>2
<1>2. CASE Caught(p)
  <2>1. pipe' \in [Proc -> [Sig -> Nat]]
    <3>1. pipe[p] \in [Sig -> Nat] /\ pipe[p][s] \in Nat
      OBVIOUS
    <3>2. [pipe[p] EXCEPT ![s] = pipe[p][s] + 1] \in [Sig -> Nat]
      BY <3>1
    <3>3. pipe' = [pipe EXCEPT ![p] = [pipe[p] EXCEPT ![s] = pipe[p][s] + 1]]
      BY <1>2 DEF Signal
    <3> QED
      BY <3>2, <3>3
  <2> QED
    BY <1>1, <1>2, <2>1 DEF Signal
<1>3. CASE ~Caught(p)
  <2>1. Dies(p) /\ UNCHANGED <<installed, path, file>>
    BY <1>3 DEF Signal
  <2> QED
    BY <1>1, <2>1, DiesTypes
<1> QED
  BY <1>2, <1>3

LEMMA InitTypes == Init => TypeOK
<1> SUFFICES ASSUME Init PROVE TypeOK
  OBVIOUS
<1>1. calls \in 0 .. Calls
  BY DaemonAssumption DEF Init
<1>2. ctl \in [Ctl -> CtlState] /\ main \in [Proc -> MainState] /\ thread \in [Proc -> ThreadState]
      /\ link \in [Proc -> LinkState] /\ pipe \in [Proc -> [Sig -> Nat]]
  BY Idles DEF Init
<1> QED
  BY <1>1, <1>2 DEF Init, TypeOK

LEMMA TypesStep ==
  ASSUME TypeOK, [Next]_vars
  PROVE  TypeOK'
<1>1. CASE Next
  <2>1. rival' \in BOOLEAN
    BY <1>1 DEF Next, Remember, TypeOK
  <2> QED
    BY <1>1, <2>1, CommandLineTypes, MainTypes, OtherTypes, LocalTypes, SignalTypes DEF Next
<1>2. CASE UNCHANGED vars
  BY <1>2 DEF TypeOK, vars
<1> QED
  BY <1>1, <1>2

-----------------------------------------------------------------------------
(* What steps do to the places of processes and command lines.               *)

\* No process starts, ends, or goes from one place to another.
Stays == \A q \in Proc : main'[q].at = main[q].at /\ main'[q].own = main[q].own
Goes(p, at) == /\ main'[p].at = at
               /\ \A q \in Proc \ {p} : main'[q].at = main[q].at /\ main'[q].own = main[q].own
\* A thread begins only in a process.
NoneComes == \A q \in Proc : thread'[q].at = "none" \/ thread[q].at # "none"

LEMMA SetCtlEffect ==
  ASSUME ctl \in [Ctl -> CtlState], NEW c \in Ctl, NEW at, NEW to, NEW ans, SetCtl(c, at, to, ans)
  PROVE  /\ ctl'[c].at = at /\ ctl'[c].to = to /\ ctl'[c].ans = ans /\ ctl'[c].cmd = ctl[c].cmd
         /\ \A d \in Ctl \ {c} : ctl'[d] = ctl[d]
BY DEF SetCtl, CtlState

LEMMA OverEffect ==
  ASSUME ctl \in [Ctl -> CtlState], NEW c \in Ctl, Over(c)
  PROVE  ctl'[c].at = "idle" /\ \A d \in Ctl \ {c} : ctl'[d] = ctl[d]
BY DEF Over, NoCall

LEMMA DiesEffect ==
  ASSUME TypeOK, NEW p \in Proc, Dies(p)
  PROVE  /\ main'[p].at = "off" /\ thread'[p].at = "none"
         /\ \A q \in Proc \ {p} : main'[q] = main[q] /\ thread'[q] = thread[q]
BY DEF TypeOK, Dies, IdleMain, IdleThread

\* What Alone needs of a step that starts and ends nothing.
LEMMA AloneKept ==
  ASSUME Alone, Stays, path' = path, \A c \in Ctl : Starting(c)' => Starting(c)
  PROVE  Alone'
BY DEF Alone, Stays, Alive

\* With the last process gone nothing is left to say.
LEMMA AloneAfterDeath ==
  ASSUME TypeOK, Alone, NEW p \in Proc, Alive(p), Dies(p)
  PROVE  Alone'
<1>1. \A q \in Proc : main'[q].at = "off"
  BY DiesEffect DEF Alone, Alive
<1> QED
  BY <1>1 DEF Alone, Alive

LEMMA CommandLineAlone ==
  ASSUME TypeOK, Alone, ~Rivals, ~Rivals', NEW c \in Ctl,
         CommandLine(c) \/ \E cmd \in Command : Type(c, cmd)
  PROVE  Alone'
<1> USE DEF TypeOK
<1>0. ctl[c] \in CtlState
  OBVIOUS
<1>1. ASSUME NEW cmd \in Command, Type(c, cmd) PROVE Alone'
  <2>1. ctl'[c].at = "typed" /\ \A d \in Ctl \ {c} : ctl'[d] = ctl[d]
    BY <1>1 DEF Type, NoCall
  <2>2. Stays /\ path' = path
    BY <1>1 DEF Type, service, Stays
  <2> QED
    BY <2>1, <2>2, AloneKept DEF Starting
<1>2. ASSUME ~Reachable, Stays, path' = path, Starting(c)', \A d \in Ctl \ {c} : ctl'[d] = ctl[d]
      PROVE  Alone'
  <2>1. ASSUME NEW p \in Proc PROVE main[p].at = "off"
    <3>1. main[p].at \in {"off", "start", "bind", "loop", "unlink"}
      BY DEF MainState
    <3>2. main[p].at \notin {"start", "bind", "unlink"}
      BY <1>2 DEF Rivals, Stays
    <3>3. main[p].at # "loop"
      BY <1>2, DaemonAssumption DEF Alone, Reachable, Listens
    <3> QED
      BY <3>1, <3>2, <3>3
  <2>2. \A p \in Proc : main'[p].at = "off"
    BY <1>2, <2>1 DEF Stays
  <2> QED
    BY <2>2 DEF Alone, Alive
<1>3. CASE SendCmd(c)
  <2>1. Stays /\ path' = path
    BY <1>3 DEF SendCmd, service, Stays
  <2>2. CASE Reachable
    <3>1. ctl'[c].at = "asked" /\ \A d \in Ctl \ {c} : ctl'[d] = ctl[d]
      BY <1>3, <2>2, SetCtlEffect DEF SendCmd
    <3> QED
      BY <2>1, <3>1, AloneKept DEF Starting
  <2>3. CASE ~Reachable
    <3>1. \A d \in Ctl \ {c} : ctl'[d] = ctl[d]
      BY <1>3, <2>3, SetCtlEffect DEF SendCmd
    <3> QED
      BY <1>2, <2>1, <2>3, <3>1, AloneKept DEF Starting
  <2> QED
    BY <2>2, <2>3
<1>4. CASE ControllerStart(c)
  <2>1. Stays /\ path' = path
    BY <1>4 DEF ControllerStart, service, Stays
  <2>2. ctl'[c].at \in {"typed", "idle"} /\ \A d \in Ctl \ {c} : ctl'[d] = ctl[d]
    BY <1>4, OverEffect DEF ControllerStart, NoCall
  <2> QED
    BY <2>1, <2>2, AloneKept DEF Starting
<1>5. CASE Hear(c)
  <2>1. Stays /\ path' = path
    BY <1>5 DEF Hear, service, Stays
  <2>2. ctl[c].at = "told" /\ ctl'[c].at \in {"launch", "idle"}
        /\ (ctl'[c].at = "launch" => ctl[c].cmd = "run" /\ ~ctl[c].ans)
        /\ \A d \in Ctl \ {c} : ctl'[d] = ctl[d]
    <3>1. CASE ctl[c].cmd = "run" /\ ~ctl[c].ans
      <4>1. SetCtl(c, "launch", NoProc, FALSE) /\ ctl[c].at = "told"
        BY <1>5, <3>1 DEF Hear
      <4> QED
        BY <3>1, <4>1, SetCtlEffect
    <3>2. CASE ~(ctl[c].cmd = "run" /\ ~ctl[c].ans)
      <4>1. Over(c) /\ ctl[c].at = "told"
        BY <1>5, <3>2 DEF Hear
      <4> QED
        BY <4>1, OverEffect
    <3> QED
      BY <3>1, <3>2
  <2> QED
    BY <2>1, <2>2, AloneKept DEF Starting
<1>6. CASE Install(c) \/ Uninstall(c)
  <2>1. Stays /\ path' = path
    BY <1>6 DEF Install, Uninstall, Stays
  <2>2. ctl'[c].at = "idle" /\ \A d \in Ctl \ {c} : ctl'[d] = ctl[d]
    BY <1>6, OverEffect DEF Install, Uninstall
  <2> QED
    BY <2>1, <2>2, AloneKept DEF Starting
<1>7. ASSUME NEW p \in Proc, Launch(c, p) PROVE Alone'
  <2>1. \A q \in Proc : main[q].at = "off"
    BY <1>7 DEF Launch, Alone, Alive, Starting
  <2>2. main'[p].at = "start" /\ \A q \in Proc \ {p} : main'[q].at = "off"
    BY <1>7, <2>1 DEF Launch, IdleMain
  <2>3. \A d \in Ctl : ~Starting(d)'
    BY <2>2 DEF Rivals
  <2> QED
    BY <2>2, <2>3 DEF Alone, Alive
<1>8. ASSUME NEW p \in Proc, Exec(c, p) PROVE Alone'
  BY <1>8 DEF Exec, Rivals
<1> QED
  BY <1>1, <1>3, <1>4, <1>5, <1>6, <1>7, <1>8 DEF CommandLine

LEMMA MainAlone ==
  ASSUME TypeOK, Alone, NEW p \in Proc, MainThread(p)
  PROVE  Alone'
<1> USE DEF TypeOK
<1>0. main[p] \in MainState
  OBVIOUS
<1>1. CASE SetPath(p)
  <2>1. main[p].at = "start" /\ Goes(p, "bind") /\ path' = NoProc /\ ctl' = ctl
    BY <1>1 DEF SetPath, Goes, MainState
  <2>2. \A q \in Proc \ {p} : main'[q].at = "off"
    BY <2>1 DEF Alone, Alive, Goes
  <2> QED
    BY <2>1, <2>2 DEF Alone, Alive, Goes, Starting
<1>2. CASE Bind(p)
  <2>1. main[p].at = "bind" /\ path = NoProc
    BY <1>2 DEF Bind, Alone
  <2>2. main' = [main EXCEPT ![p].at = "loop", ![p].own = TRUE] /\ path' = p /\ ctl' = ctl
    BY <1>2, <2>1 DEF Bind
  <2>3. Goes(p, "loop") /\ main'[p].own
    BY <2>2 DEF Goes, MainState
  <2>4. \A q \in Proc \ {p} : main'[q].at = "off"
    BY <2>1, <2>3 DEF Alone, Alive, Goes
  <2> QED
    BY <2>1, <2>2, <2>3, <2>4 DEF Alone, Alive, Goes, Starting
<1>3. CASE Close(p)
  <2>1. main[p].at = "loop" /\ Goes(p, "unlink") /\ path' = path /\ ctl' = ctl
    BY <1>3 DEF Close, Goes, MainState
  <2>2. \A q \in Proc \ {p} : main'[q].at = "off"
    BY <2>1 DEF Alone, Alive, Goes
  <2> QED
    BY <2>1, <2>2 DEF Alone, Alive, Goes, Starting
<1>4. CASE Unlink(p)
  BY <1>4, AloneAfterDeath DEF Unlink, Alive
<1>5. ASSUME NEW c \in Ctl, TerminateEarly(c, p) PROVE Alone'
  BY <1>5, AloneAfterDeath DEF TerminateEarly, TurnsMain, Alive
<1>6. ASSUME NEW c \in Ctl, Answer(c, p) PROVE Alone'
  <2>1. Stays /\ path' = path
    BY <1>6 DEF Answer, service, Stays
  <2>2. ctl'[c].at = "told" /\ ctl'[c].cmd = ctl[c].cmd /\ (ctl[c].cmd = "run" => ctl'[c].ans = TRUE)
        /\ \A d \in Ctl \ {c} : ctl'[d] = ctl[d]
    <3>1. PICK b : Tell(c, b) /\ (ctl[c].cmd = "run" => b = TRUE)
      BY <1>6 DEF Answer
    <3> QED
      BY <3>1, SetCtlEffect DEF Tell
  <2> QED
    BY <2>1, <2>2, AloneKept DEF Starting
<1>7. CASE Stopped(p)
  <2>1. Stays /\ path' = path
    BY <1>7 DEF Stopped, Stays, MainState
  <2>2. Top(p).who \in Ctl
    BY <1>0, <1>7, MainChanges, StackTypes, FrameChanges DEF Stopped, Top
  <2>3. PICK w \in Ctl : SetCtl(w, "told", ctl[w].to, TRUE)
    BY <1>7, <2>2 DEF Stopped, Tell
  <2>4. ctl'[w].at = "told" /\ ctl'[w].ans = TRUE /\ \A d \in Ctl \ {w} : ctl'[d] = ctl[d]
    BY <2>3, SetCtlEffect
  <2> QED
    BY <2>1, <2>4, AloneKept DEF Starting
<1>8. ASSUME NEW c \in Ctl, Terminate(c, p) \/ TerminateUnsent(c, p) PROVE Alone'
  <2>1. Stays /\ path' = path /\ ctl' = ctl
    <3>1. PICK s : /\ main' = [main EXCEPT ![p].stack = s]
                   /\ path' = path /\ ctl' = ctl
      BY <1>8 DEF Terminate, TerminateUnsent, Obeys
    <3> QED
      BY <3>1 DEF Stays, MainState
  <2> QED
    BY <2>1, AloneKept DEF Starting
<1>9. CASE ListEnds(p) \/ Save(p)
  <2>1. PICK f : main' = WithTop(p, f)
    BY <1>9 DEF ListEnds, Save
  <2>2. Stays /\ path' = path /\ ctl' = ctl
    BY <1>9, <2>1 DEF ListEnds, Save, WithTop, Stays, MainState
  <2> QED
    BY <2>2, AloneKept DEF Starting
<1>10. CASE Start(p) \/ Kill(p)
  <2>1. Stays /\ path' = path /\ ctl' = ctl
    BY <1>10 DEF Start, Kill, Stays
  <2> QED
    BY <2>1, AloneKept DEF Starting
<1> QED
  BY <1>1, <1>2, <1>3, <1>4, <1>5, <1>6, <1>7, <1>8, <1>9, <1>10 DEF MainThread

LEMMA OtherAlone ==
  ASSUME TypeOK, Threads, Alone, NEW p \in Proc, OtherThread(p)
  PROVE  Alone'
<1> USE DEF TypeOK
<1>1. CASE Astray(p)
  BY <1>1, AloneAfterDeath DEF Astray, TurnsThread, Threads
<1>2. CASE \/ Started(p) \/ InitFails(p) \/ SendRules(p) \/ ListInput(p) \/ ListUnsent(p)
           \/ ThreadListEnds(p) \/ ThreadSave(p) \/ ThreadOver(p) \/ LocalEnds(p)
  <2>1. Stays /\ path' = path /\ ctl' = ctl
    BY <1>2 DEF Started, InitFails, SendRules, ListInput, ListUnsent, ThreadListEnds, ThreadSave,
                ThreadOver, LocalEnds, Stays
  <2> QED
    BY <2>1, AloneKept DEF Starting
<1>3. CASE Rules(p) \/ Done(p) \/ \E s \in Sig : HandleSig(p, s)
  <2>1. PICK m : /\ main' = [main EXCEPT ![p] = m]
                 /\ m.at = main[p].at /\ m.own = main[p].own
    BY <1>3 DEF Rules, Done, HandleSig, OnSignal, MainState
  <2>2. Stays /\ path' = path /\ ctl' = ctl
    BY <1>3, <2>1 DEF Rules, Done, HandleSig, Stays
  <2> QED
    BY <2>2, AloneKept DEF Starting
<1> QED
  BY <1>1, <1>2, <1>3 DEF OtherThread

LEMMA LocalAlone ==
  ASSUME Alone, NEW p \in Proc, LocalAsk(p)
  PROVE  Alone'
BY AloneKept DEF LocalAsk, Stays, Starting

LEMMA SignalAlone ==
  ASSUME TypeOK, Alone, NEW p \in Proc, NEW s \in Sig, Signal(p, s)
  PROVE  Alone'
<1>1. CASE Caught(p)
  <2>1. Stays /\ path' = path /\ ctl' = ctl
    BY <1>1 DEF Signal, Stays
  <2> QED
    BY <2>1, AloneKept DEF Starting
<1>2. CASE ~Caught(p)
  BY <1>2, AloneAfterDeath DEF Signal
<1> QED
  BY <1>1, <1>2

-----------------------------------------------------------------------------
(* Threads.                                                                  *)

\* What Threads needs of a step of one process that does not end it.
LEMMA ThreadsKept ==
  ASSUME Threads, NEW p \in Proc, Alive(p)',
         \A q \in Proc \ {p} : main'[q] = main[q] /\ thread'[q] = thread[q]
  PROVE  Threads'
BY DEF Threads, Alive

LEMMA ThreadsAfterDeath ==
  ASSUME TypeOK, Threads, NEW p \in Proc, Dies(p)
  PROVE  Threads'
<1>1. main'[p].stack = <<>>
  BY DEF TypeOK, Dies, IdleMain
<1> QED
  BY <1>1, DiesEffect DEF Threads, Alive

LEMMA ThreadsStep ==
  ASSUME TypeOK, Threads, Next
  PROVE  Threads'
<1> USE DEF TypeOK
<1>1. ASSUME NEW c \in Ctl, CommandLine(c) \/ \E cmd \in Command : Type(c, cmd)
      PROVE  Threads'
  <2>1. ASSUME NEW p \in Proc, Launch(c, p) \/ Exec(c, p) PROVE Threads'
    <3>1. Alive(p)' /\ thread' = thread /\ \A q \in Proc \ {p} : main'[q] = main[q]
      BY <2>1 DEF Launch, Exec, IdleMain, Alive
    <3> QED
      BY <3>1, ThreadsKept
  <2>2. CASE UNCHANGED <<main, thread>>
    BY <2>2 DEF Threads, Alive
  <2> QED
    BY <1>1, <2>1, <2>2 DEF CommandLine, Type, SendCmd, ControllerStart, Hear, Install, Uninstall, service
<1>2. ASSUME NEW p \in Proc, MainThread(p) PROVE Threads'
  <2>1. CASE Unlink(p) \/ \E c \in Ctl : TerminateEarly(c, p)
    BY <2>1, ThreadsAfterDeath DEF Unlink, TerminateEarly
  <2>2. CASE SetPath(p) \/ Bind(p) \/ Close(p)
    <3>1. Alive(p)' /\ thread' = thread /\ \A q \in Proc \ {p} : main'[q] = main[q]
      BY <2>2 DEF SetPath, Bind, Close, Alive, MainState
    <3> QED
      BY <3>1, ThreadsKept
  <2>3. CASE Start(p) \/ Kill(p) \/ \E c \in Ctl : Answer(c, p)
    <3>1. main' = main /\ \A q \in Proc \ {p} : thread'[q] = thread[q]
      BY <2>3 DEF Start, Kill, Answer, service
    <3>2. Alive(p)
      BY <2>3 DEF Start, Kill, Answer, TurnsMain, Alive, Threads
    <3> QED
      BY <3>1, <3>2, ThreadsKept DEF Alive
  <2>4. CASE \/ ListEnds(p) \/ Save(p) \/ Stopped(p)
             \/ \E c \in Ctl : Terminate(c, p) \/ TerminateUnsent(c, p)
    <3>1. Alive(p)
      BY <2>4 DEF ListEnds, Save, Stopped, Terminate, TerminateUnsent, Obeys, TurnsMain, Alive, Threads
    <3>2. PICK m : main' = [main EXCEPT ![p] = m] /\ m.at = main[p].at
      <4>1. PICK s, b : main' = [main EXCEPT ![p].stack = s, ![p].quit = b]
        <5>1. CASE Stopped(p)
          BY <5>1 DEF Stopped
        <5>2. ASSUME NEW s, main' = [main EXCEPT ![p].stack = s]
              PROVE  main' = [main EXCEPT ![p].stack = s, ![p].quit = main[p].quit]
          BY <5>2 DEF MainState
        <5>3. CASE \E s : main' = [main EXCEPT ![p].stack = s]
          BY <5>2, <5>3
        <5>4. CASE \E c \in Ctl : Terminate(c, p) \/ TerminateUnsent(c, p)
          BY <5>3, <5>4 DEF Terminate, TerminateUnsent, Obeys
        <5> QED
          BY <2>4, <5>1, <5>3, <5>4 DEF ListEnds, Save, WithTop
      <4> DEFINE m == [main[p] EXCEPT !.stack = s, !.quit = b]
      <4>2. main' = [main EXCEPT ![p] = m]
        BY <4>1
      <4>3. m.at = main[p].at
        BY DEF MainState
      <4> HIDE DEF m
      <4> QED
        BY <4>2, <4>3
    <3>3. \A q \in Proc \ {p} : thread'[q] = thread[q]
      BY <2>4 DEF ListEnds, Save, Stopped, Terminate, TerminateUnsent, Obeys
    <3> QED
      BY <3>1, <3>2, <3>3, ThreadsKept DEF Alive
  <2> QED
    BY <1>2, <2>1, <2>2, <2>3, <2>4 DEF MainThread
<1>3. ASSUME NEW p \in Proc, OtherThread(p) PROVE Threads'
  <2>1. CASE Astray(p)
    BY <2>1, ThreadsAfterDeath DEF Astray
  <2>2. CASE \/ Started(p) \/ InitFails(p) \/ SendRules(p) \/ ListInput(p) \/ ListUnsent(p)
             \/ ThreadListEnds(p) \/ ThreadSave(p) \/ ThreadOver(p) \/ LocalEnds(p)
    <3>1. main' = main /\ thread[p].at # "none" /\ \A q \in Proc \ {p} : thread'[q] = thread[q]
      BY <2>2 DEF Started, InitFails, SendRules, ListInput, ListUnsent, ThreadListEnds, ThreadSave,
                  ThreadOver, LocalEnds, ThreadGoes
    <3> QED
      BY <3>1, ThreadsKept DEF Threads, Alive
  <2>3. CASE Rules(p) \/ Done(p) \/ \E s \in Sig : HandleSig(p, s)
    <3>1. PICK m : main' = [main EXCEPT ![p] = m] /\ m.at = main[p].at
      BY <2>3 DEF Rules, Done, HandleSig, OnSignal, MainState
    <3>2. thread[p].at # "none" /\ \A q \in Proc \ {p} : thread'[q] = thread[q]
      BY <2>3 DEF Rules, Done, HandleSig, TurnsThread
    <3> QED
      BY <3>1, <3>2, ThreadsKept DEF Threads, Alive
  <2> QED
    BY <1>3, <2>1, <2>2, <2>3 DEF OtherThread
<1>5. ASSUME NEW p \in Proc, LocalAsk(p) PROVE Threads'
  <2>1. main' = main /\ thread[p].at # "none" /\ \A q \in Proc \ {p} : thread'[q] = thread[q]
    BY <1>5 DEF LocalAsk
  <2> QED
    BY <2>1, ThreadsKept DEF Threads, Alive
<1>4. ASSUME NEW p \in Proc, NEW s \in Sig, Signal(p, s) PROVE Threads'
  <2>1. CASE Caught(p)
    BY <1>4, <2>1 DEF Signal, Threads, Alive
  <2>2. CASE ~Caught(p)
    BY <1>4, <2>2, ThreadsAfterDeath DEF Signal
  <2> QED
    BY <2>1, <2>2
<1> QED
  BY <1>1, <1>2, <1>3, <1>4, <1>5 DEF Next

-----------------------------------------------------------------------------
(* The invariant.                                                            *)

LEMMA InvariantInitially == Init => IInv
<1> SUFFICES ASSUME Init PROVE IInv
  OBVIOUS
<1>1. TypeOK
  BY InitTypes
<1>2. \A p \in Proc : main[p].at = "off" /\ thread[p].at = "none"
  BY DEF Init, IdleMain, IdleThread
<1>3. \A c \in Ctl : ctl[c].at = "idle"
  BY DEF Init, NoCall
<1>4. ~Rivals
  BY <1>3 DEF Rivals, Starting
<1> QED
  BY <1>1, <1>2, <1>3, <1>4 DEF IInv, Threads, Alone, Alive, Starting, Init, IdleMain

LEMMA InvariantStep == IInv /\ [Next]_vars => IInv'
<1> SUFFICES ASSUME IInv, [Next]_vars PROVE IInv'
  OBVIOUS
<1> USE DEF IInv
<1>1. TypeOK'
  BY TypesStep
<1>2. CASE UNCHANGED vars
  BY <1>1, <1>2 DEF vars, Threads, Rivals, Starting, Alone, Alive
<1>3. CASE Next
  <2>1. Threads'
    BY <1>3, ThreadsStep
  <2>2. Rivals' => rival'
    BY <1>3 DEF Next, Remember
  <2>3. ASSUME ~rival' PROVE Alone'
    <3>1. ~rival /\ ~Rivals'
      BY <1>3, <2>3 DEF Next, Remember
    <3>2. Alone /\ ~Rivals
      BY <3>1
    <3> QED
      BY <1>3, <3>1, <3>2, CommandLineAlone, MainAlone, OtherAlone, LocalAlone, SignalAlone
         DEF Next
  <2> QED
    BY <1>1, <2>1, <2>2, <2>3
<1> QED
  BY <1>2, <1>3

\* Types, threads and places of processes fit together at every moment, and unless starts
\* have overlapped there is one process at most, which has the path.
THEOREM InvariantHolds == Spec => []IInv
<1>1. Init => IInv
  BY InvariantInitially
<1>2. IInv /\ [Next]_vars => IInv'
  BY InvariantStep
<1> QED
  BY <1>1, <1>2, PTL DEF Spec

\* Unless starts have overlapped, there is one service at most, and once it is in its loop
\* commands reach it.
THEOREM NeverTwo == Spec => []OneService
<1>1. IInv => OneService
  BY DaemonAssumption DEF IInv, OneService, Alone, Reachable, Listens
<1> QED
  BY <1>1, InvariantHolds, PTL

-----------------------------------------------------------------------------
(* The list that is being filled.                                            *)

Live(p) ==
  /\ link[p].lst = "thread" => thread[p].at \in {"list", "killed"}
  /\ link[p].lst = "local" => thread[p].deep > 0
  /\ link[p].lst \in Ctl =>
       \E i \in DOMAIN main[p].stack :
         main[p].stack[i].who = link[p].lst /\ main[p].stack[i].at = "list"
  /\ link[p].lst = "unset" => link[p].coming = <<>>

\* Nothing can be asked for before there is a BFControl.
Fresh == \A p \in Proc : thread[p].at \in {"none", "begin"} => link[p].coming = <<>>

LEMMA LiveKept ==
  ASSUME ListIsLive, NEW p \in Proc, Live(p)',
         \A q \in Proc \ {p} : main'[q] = main[q] /\ thread'[q] = thread[q] /\ link'[q] = link[q]
  PROVE  ListIsLive'
BY DEF ListIsLive, Live

LEMMA LiveBy ==
  ASSUME NEW p \in Proc, Live(p), link'[p].lst = link[p].lst,
         link[p].coming = <<>> => link'[p].coming = <<>>,
         thread[p].at \in {"list", "killed"} => thread'[p].at \in {"list", "killed"},
         thread[p].deep > 0 => thread'[p].deep > 0,
         \A i \in DOMAIN main[p].stack :
           main[p].stack[i].at = "list" =>
             \E j \in DOMAIN main'[p].stack :
               main'[p].stack[j].who = main[p].stack[i].who /\ main'[p].stack[j].at = "list"
  PROVE  Live(p)'
BY Zenon DEF Live

LEMMA LiveAfterDeath ==
  ASSUME TypeOK, ListIsLive, NEW p \in Proc, Dies(p)
  PROVE  ListIsLive'
<1>1. link'[p].lst = "nobody" /\ \A q \in Proc \ {p} : link'[q] = link[q]
  BY DEF TypeOK, Dies, IdleLink
<1>2. Live(p)'
  BY <1>1, DaemonAssumption DEF Live
<1> QED
  BY <1>1, <1>2, DiesEffect, LiveKept

\* Frames that are added or taken off at the end leave the others where they are.
LEMMA FramesStay ==
  ASSUME NEW s \in Seq(Frame), NEW f
  PROVE  /\ \A i \in DOMAIN s : i \in DOMAIN Append(s, f) /\ Append(s, f)[i] = s[i]
         /\ Len(s) + 1 \in DOMAIN Append(s, f) /\ Append(s, f)[Len(s) + 1] = f
         /\ s # <<>> =>
              \A i \in DOMAIN s :
                \/ s[i] = Last(s)
                \/ /\ i \in DOMAIN Front(s) /\ Front(s)[i] = s[i]
                   /\ i \in DOMAIN Append(Front(s), f) /\ Append(Front(s), f)[i] = s[i]
<1>1. \A i \in DOMAIN s : i \in DOMAIN Append(s, f) /\ Append(s, f)[i] = s[i]
  OBVIOUS
<1>2. Len(s) + 1 \in DOMAIN Append(s, f) /\ Append(s, f)[Len(s) + 1] = f
  OBVIOUS
<1>3. ASSUME s # <<>>, NEW i \in DOMAIN s, i # Len(s)
      PROVE  /\ i \in DOMAIN Front(s) /\ Front(s)[i] = s[i]
             /\ i \in DOMAIN Append(Front(s), f) /\ Append(Front(s), f)[i] = s[i]
  <2>1. i \in DOMAIN Front(s) /\ Front(s)[i] = s[i] /\ Front(s) \in Seq(Frame)
    BY <1>3, StackTypes DEF Front
  <2> QED
    BY <2>1
<1>4. s[Len(s)] = Last(s)
  BY DEF Last
<1> QED
  BY <1>1, <1>2, <1>3, <1>4

LEMMA TopReplaced ==
  ASSUME NEW s \in Seq(Frame), NEW f, s # <<>>
  PROVE  \A i \in DOMAIN s :
           \/ s[i] = Last(s)
           \/ i \in DOMAIN Append(Front(s), f) /\ Append(Front(s), f)[i] = s[i]
BY FramesStay

LEMMA TopTaken ==
  ASSUME NEW s \in Seq(Frame), s # <<>>
  PROVE  \A i \in DOMAIN s : s[i] = Last(s) \/ (i \in DOMAIN Front(s) /\ Front(s)[i] = s[i])
BY FramesStay

LEMMA LiveMain ==
  ASSUME TypeOK, Threads, ListIsLive, NEW p \in Proc, MainThread(p)
  PROVE  ListIsLive'
<1> USE DEF TypeOK
<1>0. main[p].stack \in Seq(Frame)
  BY DEF MainState
<1>00. Live(p)
  BY DEF ListIsLive, Live
<1>1. CASE Unlink(p) \/ \E c \in Ctl : TerminateEarly(c, p)
  BY <1>1, LiveAfterDeath DEF Unlink, TerminateEarly
<1>2. CASE SetPath(p) \/ Bind(p) \/ Close(p)
  <2>1. /\ main'[p].stack = main[p].stack /\ thread' = thread /\ link' = link
        /\ \A q \in Proc \ {p} : main'[q] = main[q]
    BY <1>2 DEF SetPath, Bind, Close, MainState
  <2>2. Live(p)'
    BY <1>0, <1>00, <2>1 DEF Live
  <2> QED
    BY <2>1, <2>2, LiveKept
<1>3. CASE \E c \in Ctl : Answer(c, p)
  BY <1>3 DEF Answer, service, ListIsLive
<1>4. CASE Start(p) \/ Kill(p)
  <2>1. main' = main /\ link' = link /\ \A q \in Proc \ {p} : thread'[q] = thread[q]
    BY <1>4 DEF Start, Kill
  <2>2. (thread'[p].at = "killed" \/ thread[p].at = "none") /\ thread'[p].deep = thread[p].deep
    BY <1>4 DEF Start, Kill, ThreadState
  <2>3. Live(p)'
    BY <1>0, <1>00, <2>1, <2>2 DEF Live
  <2> QED
    BY <2>1, <2>3, LiveKept
<1>5. ASSUME NEW c \in Ctl, Terminate(c, p) PROVE ListIsLive'
  <2>1. PICK f : f = [who |-> c, at |-> "list", got |-> {}, woken |-> FALSE]
    OBVIOUS
  <2>2. main' = [main EXCEPT ![p].stack = Append(main[p].stack, f)]
    BY <1>5, <2>1 DEF Terminate, Obeys
  <2>3. link'[p].lst = c /\ thread' = thread /\ \A q \in Proc \ {p} : link'[q] = link[q]
    BY <1>5 DEF Terminate, Obeys, Ask, LinkState
  <2>4. main'[p].stack = Append(main[p].stack, f) /\ \A q \in Proc \ {p} : main'[q] = main[q]
    BY <2>2 DEF MainState
  <2>5. Live(p)'
    <3>1. Len(main[p].stack) + 1 \in DOMAIN main'[p].stack
          /\ main'[p].stack[Len(main[p].stack) + 1] = f
      BY <1>0, <2>4, FramesStay
    <3>2. link'[p].lst \in Ctl =>
            \E i \in DOMAIN main'[p].stack :
              main'[p].stack[i].who = link'[p].lst /\ main'[p].stack[i].at = "list"
      <4>1. f.who = c /\ f.at = "list"
        BY <2>1
      <4> HIDE DEF TypeOK
      <4> QED
        BY <2>3, <3>1, <4>1
    <3>3. link'[p].lst \notin {"thread", "local", "unset"}
      BY <2>3, DaemonAssumption
    <3> QED
      BY <3>2, <3>3 DEF Live
  <2> QED
    BY <2>3, <2>4, <2>5, LiveKept
<1>9. ASSUME NEW c \in Ctl, TerminateUnsent(c, p) PROVE ListIsLive'
  <2>1. /\ link'[p].lst = "gone" /\ thread' = thread
        /\ \A q \in Proc \ {p} : link'[q] = link[q] /\ main'[q] = main[q]
    BY <1>9 DEF TerminateUnsent, Obeys, AskFails, LinkState
  <2>2. Live(p)'
    BY <2>1, DaemonAssumption DEF Live
  <2> QED
    BY <2>1, <2>2, LiveKept
<1>6. CASE ListEnds(p)
  <2>1. PICK f : main' = WithTop(p, f)
    BY <1>6 DEF ListEnds
  <2>2. link'[p].lst = "nobody" /\ thread' = thread /\ \A q \in Proc \ {p} : link'[q] = link[q]
    BY <1>6 DEF ListEnds, NoList, LinkState
  <2>3. Live(p)'
    BY <2>2, DaemonAssumption DEF Live
  <2> QED
    BY <2>1, <2>2, <2>3, LiveKept DEF WithTop
<1>7. CASE Save(p)
  <2>1. PICK f : main' = [main EXCEPT ![p].stack = Append(Front(main[p].stack), f)]
    BY <1>7 DEF Save, WithTop
  <2>2. main'[p].stack = Append(Front(main[p].stack), f) /\ \A q \in Proc \ {p} : main'[q] = main[q]
    BY <2>1 DEF MainState
  <2>3. /\ link' = link /\ thread'[p].at = thread[p].at /\ thread'[p].deep = thread[p].deep
        /\ \A q \in Proc \ {p} : thread'[q] = thread[q]
    BY <1>7 DEF Save, ThreadState
  <2>4. main[p].stack # <<>> /\ Last(main[p].stack).at = "save"
    BY <1>7 DEF Save, Top
  <2>5. Live(p)'
    <3>1. \A i \in DOMAIN main[p].stack :
            main[p].stack[i].at = "list" =>
              i \in DOMAIN main'[p].stack /\ main'[p].stack[i] = main[p].stack[i]
      <4>1. \A i \in DOMAIN main[p].stack :
              \/ main[p].stack[i] = Last(main[p].stack)
              \/ /\ i \in DOMAIN Append(Front(main[p].stack), f)
                 /\ Append(Front(main[p].stack), f)[i] = main[p].stack[i]
        BY <1>0, <2>4, TopReplaced
      <4> QED
        BY <2>2, <2>4, <4>1
    <3> QED
      BY <1>00, <2>3, <3>1, LiveBy
  <2> QED
    BY <2>2, <2>3, <2>5, LiveKept
<1>8. CASE Stopped(p)
  <2>1. main' = [main EXCEPT ![p].stack = Front(main[p].stack), ![p].quit = TRUE]
    BY <1>8 DEF Stopped
  <2>2. main'[p].stack = Front(main[p].stack) /\ \A q \in Proc \ {p} : main'[q] = main[q]
    BY <2>1 DEF MainState
  <2>3. link' = link /\ thread' = thread /\ main[p].stack # <<>> /\ Last(main[p].stack).at = "join"
    BY <1>8 DEF Stopped, Top
  <2>4. Live(p)'
    <3>1. \A i \in DOMAIN main[p].stack :
            main[p].stack[i].at = "list" =>
              i \in DOMAIN main'[p].stack /\ main'[p].stack[i] = main[p].stack[i]
      <4> HIDE DEF TypeOK
      <4>1. \A i \in DOMAIN main[p].stack :
              \/ main[p].stack[i] = Last(main[p].stack)
              \/ /\ i \in DOMAIN Front(main[p].stack)
                 /\ Front(main[p].stack)[i] = main[p].stack[i]
        BY <1>0, <2>3, TopTaken
      <4> QED
        BY <2>2, <2>3, <4>1
    <3> QED
      BY <1>00, <2>3, <3>1, LiveBy
  <2> QED
    BY <2>2, <2>3, <2>4, LiveKept
<1> QED
  BY <1>1, <1>2, <1>3, <1>4, <1>5, <1>6, <1>7, <1>8, <1>9 DEF MainThread

LEMMA LiveOther ==
  ASSUME TypeOK, Threads, Fresh, ListIsLive, NEW p \in Proc, OtherThread(p)
  PROVE  ListIsLive'
<1> USE DEF TypeOK
<1>0. main[p].stack \in Seq(Frame)
  BY DEF MainState
<1>00. Live(p)
  BY DEF ListIsLive, Live
<1>1. CASE Astray(p)
  BY <1>1, LiveAfterDeath DEF Astray
<1>2. CASE ThreadSave(p) \/ ThreadOver(p)
  <2>1. /\ main' = main /\ link'= link /\ thread[p].at \notin {"list", "killed"}
        /\ thread'[p].deep = thread[p].deep
        /\ \A q \in Proc \ {p} : thread'[q] = thread[q]
    BY <1>2 DEF ThreadSave, ThreadOver, ThreadGoes, ThreadState
  <2>2. Live(p)'
    BY <1>0, <1>00, <2>1 DEF Live
  <2> QED
    BY <2>1, <2>2, LiveKept
<1>8. CASE Started(p) \/ InitFails(p)
  <2>1. /\ main' = main /\ link'[p].lst = "unset" /\ link'[p].coming = link[p].coming
        /\ \A q \in Proc \ {p} : thread'[q] = thread[q] /\ link'[q] = link[q]
    BY <1>8 DEF Started, InitFails, ThreadGoes, LinkState
  <2>2. link[p].coming = <<>>
    BY <1>8 DEF Started, InitFails, ThreadGoes, Fresh
  <2>3. Live(p)'
    BY <2>1, <2>2, DaemonAssumption DEF Live
  <2> QED
    BY <2>1, <2>3, LiveKept
<1>9. CASE SendRules(p)
  <2>1. /\ main' = main /\ thread[p].at = "send" /\ thread'[p].deep = thread[p].deep
        /\ link' = link \/ link'[p].lst = "nobody"
        /\ \A q \in Proc \ {p} : thread'[q] = thread[q] /\ link'[q] = link[q]
    BY <1>9 DEF SendRules, ThreadGoes, LinkState, ThreadState
  <2>2. Live(p)'
    BY <1>0, <1>00, <2>1, DaemonAssumption DEF Live
  <2> QED
    BY <2>1, <2>2, LiveKept
<1>3. CASE ListInput(p)
  <2>1. main' = main /\ link'[p].lst = "thread" /\ thread'[p].at = "list"
        /\ \A q \in Proc \ {p} : thread'[q] = thread[q] /\ link'[q] = link[q]
    BY <1>3 DEF ListInput, ThreadGoes, Ask, LinkState, ThreadState
  <2>2. Live(p)'
    BY <2>1, DaemonAssumption DEF Live
  <2> QED
    BY <2>1, <2>2, LiveKept
<1>10. CASE ListUnsent(p)
  <2>1. main' = main /\ link'[p].lst = "gone"
        /\ \A q \in Proc \ {p} : thread'[q] = thread[q] /\ link'[q] = link[q]
    BY <1>10 DEF ListUnsent, ThreadGoes, AskFails, LinkState
  <2>2. Live(p)'
    BY <2>1, DaemonAssumption DEF Live
  <2> QED
    BY <2>1, <2>2, LiveKept
<1>11. CASE LocalEnds(p)
  <2>1. main' = main /\ link'[p].lst = "nobody"
        /\ \A q \in Proc \ {p} : thread'[q] = thread[q] /\ link'[q] = link[q]
    BY <1>11 DEF LocalEnds, NoList, LinkState
  <2>2. Live(p)'
    BY <2>1, DaemonAssumption DEF Live
  <2> QED
    BY <2>1, <2>2, LiveKept
<1>4. CASE ThreadListEnds(p)
  <2>1. main' = main /\ link'[p].lst = "nobody"
        /\ \A q \in Proc \ {p} : thread'[q] = thread[q] /\ link'[q] = link[q]
    BY <1>4 DEF ThreadListEnds, NoList, LinkState
  <2>2. Live(p)'
    BY <2>1, DaemonAssumption DEF Live
  <2> QED
    BY <2>1, <2>2, LiveKept
<1>5. CASE Rules(p)
  <2>1. PICK k : main' = [main EXCEPT ![p].stack = Filled(main[p].stack, link[p].lst, k)]
    BY <1>5 DEF Rules
  <2>2. /\ main'[p].stack = Filled(main[p].stack, link[p].lst, k)
        /\ \A q \in Proc \ {p} : main'[q] = main[q]
    BY <2>1 DEF MainState
  <2>3. DOMAIN Filled(main[p].stack, link[p].lst, k) = DOMAIN main[p].stack
        /\ \A i \in DOMAIN main[p].stack :
             /\ Filled(main[p].stack, link[p].lst, k)[i].who = main[p].stack[i].who
             /\ Filled(main[p].stack, link[p].lst, k)[i].at = main[p].stack[i].at
    BY <1>0 DEF Filled, Frame
  <2>4. /\ link'[p].lst = link[p].lst /\ link[p].coming # <<>>
        /\ thread'[p].at = thread[p].at /\ thread'[p].deep = thread[p].deep
        /\ \A q \in Proc \ {p} : thread'[q] = thread[q] /\ link'[q] = link[q]
    BY <1>5 DEF Rules, LinkState, ThreadState
  <2>5. Live(p)'
    <3>1. \A i \in DOMAIN main[p].stack :
            /\ i \in DOMAIN main'[p].stack
            /\ main'[p].stack[i].who = main[p].stack[i].who
            /\ main'[p].stack[i].at = main[p].stack[i].at
      BY <2>2, <2>3
    <3> HIDE DEF TypeOK
    <3> QED
      BY <1>00, <2>4, <3>1, LiveBy
  <2> QED
    BY <2>2, <2>4, <2>5, LiveKept
<1>6. CASE Done(p)
  <2>1. link'[p].lst = "nobody"
        /\ \A q \in Proc \ {p} : main'[q] = main[q] /\ thread'[q] = thread[q] /\ link'[q] = link[q]
    BY <1>6 DEF Done, LinkState
  <2>2. Live(p)'
    BY <2>1, DaemonAssumption DEF Live
  <2> QED
    BY <2>1, <2>2, LiveKept
<1>7. CASE \E s \in Sig : HandleSig(p, s)
  <2>1. /\ main'[p].stack = main[p].stack /\ link' = link /\ thread' = thread
        /\ \A q \in Proc \ {p} : main'[q] = main[q]
    BY <1>7 DEF HandleSig, OnSignal, MainState
  <2>2. Live(p)'
    BY <1>0, <1>00, <2>1 DEF Live
  <2> QED
    BY <2>1, <2>2, LiveKept
<1> QED
  BY <1>1, <1>2, <1>3, <1>4, <1>5, <1>6, <1>7, <1>8, <1>9, <1>10, <1>11 DEF OtherThread

LEMMA LiveLocal ==
  ASSUME TypeOK, ListIsLive, NEW p \in Proc, LocalAsk(p)
  PROVE  ListIsLive'
<1> USE DEF TypeOK
<1>1. /\ main' = main
      /\ \A q \in Proc \ {p} : thread'[q] = thread[q] /\ link'[q] = link[q]
  BY DEF LocalAsk, Ask, AskFails
<1>2. CASE AskFails(p, link[p].cache)
  <2>1. link'[p].lst = "gone"
    BY <1>2 DEF AskFails, LinkState
  <2>2. Live(p)'
    BY <2>1, DaemonAssumption DEF Live
  <2> QED
    BY <1>1, <2>2, LiveKept
<1>3. CASE \E kind \in Kind : Ask(p, "local", kind)
           /\ thread' = [thread EXCEPT ![p].woken = FALSE, ![p].deep = thread[p].deep + 1]
  <2>1. link'[p].lst = "local"
    BY <1>3 DEF Ask, LinkState
  <2>2. thread'[p].deep > 0
    <3>1. thread'[p].deep = thread[p].deep + 1 /\ thread[p].deep \in Nat
      BY <1>3 DEF ThreadState
    <3> QED
      BY <3>1
  <2>3. Live(p)'
    BY <2>1, <2>2, DaemonAssumption DEF Live
  <2> QED
    BY <1>1, <2>3, LiveKept
<1> QED
  BY <1>2, <1>3 DEF LocalAsk

LEMMA LiveStep ==
  ASSUME TypeOK, Threads, Fresh, ListIsLive, Next
  PROVE  ListIsLive'
<1> USE DEF TypeOK
<1>1. ASSUME NEW c \in Ctl, CommandLine(c) \/ \E cmd \in Command : Type(c, cmd)
      PROVE  ListIsLive'
  <2>1. ASSUME NEW p \in Proc, Launch(c, p) \/ Exec(c, p) PROVE ListIsLive'
    <3>1. ~Alive(p) /\ thread' = thread /\ link' = link /\ \A q \in Proc \ {p} : main'[q] = main[q]
      BY <2>1 DEF Launch, Exec
    <3>2. link[p].lst \notin Ctl
      <4>1. thread[p].at = "none" /\ main[p].stack = <<>>
        BY <3>1 DEF Threads
      <4>2. ~ \E i \in DOMAIN main[p].stack : main[p].stack[i].at = "list"
        BY <4>1
      <4>3. Live(p)
        BY DEF ListIsLive, Live
      <4> QED
        BY <4>1, <4>2, <4>3 DEF Live
    <3>3. Live(p)'
      BY <3>1, <3>2 DEF Live, ListIsLive
    <3> QED
      BY <3>1, <3>3, LiveKept
  <2>2. CASE UNCHANGED <<main, thread, link>>
    BY <2>2 DEF ListIsLive
  <2> QED
    BY <1>1, <2>1, <2>2 DEF CommandLine, Type, SendCmd, ControllerStart, Hear, Install, Uninstall, service
<1>2. ASSUME NEW p \in Proc, NEW s \in Sig, Signal(p, s) PROVE ListIsLive'
  <2>1. CASE Caught(p)
    <3>1. UNCHANGED <<main, thread, link>>
      BY <1>2, <2>1 DEF Signal
    <3>2. main' = main /\ thread' = thread /\ link' = link
      BY <3>1
    <3> HIDE DEF TypeOK
    <3> QED
      BY ONLY ListIsLive, <3>2 DEF ListIsLive
  <2>2. CASE ~Caught(p)
    BY <1>2, <2>2, LiveAfterDeath DEF Signal
  <2> QED
    BY <2>1, <2>2
<1> QED
  BY <1>1, <1>2, LiveMain, LiveOther, LiveLocal DEF Next

\* Only calls after started() has made BFControl ask for anything.
LEMMA FreshStep ==
  ASSUME TypeOK, Fresh, [Next]_vars
  PROVE  Fresh'
<1> USE DEF TypeOK
<1>1. ASSUME NEW p \in Proc, NEW q \in Proc, Dies(q) PROVE thread'[p].at \in {"none", "begin"} => link'[p].coming = <<>>
  <2>1. link'[q].coming = <<>>
    BY <1>1 DEF Dies, IdleLink
  <2>2. p # q => link'[p] = link[p] /\ thread'[p] = thread[p]
    BY <1>1 DEF Dies
  <2> QED
    BY <2>1, <2>2 DEF Fresh
<1>2. ASSUME NEW q \in Proc, Unlink(q) \/ (\E c \in Ctl : TerminateEarly(c, q)) \/ Astray(q)
                              \/ \E s \in Sig : Signal(q, s) /\ ~Caught(q)
      PROVE  Fresh'
  <2>1. Dies(q)
    BY <1>2 DEF Unlink, TerminateEarly, Astray, Signal
  <2> QED
    BY <1>1, <2>1 DEF Fresh
<1>3. ASSUME NEW q \in Proc, thread[q].at \notin {"none", "begin"}, thread'[q].at \notin {"none", "begin"},
             \A p \in Proc \ {q} : thread'[p] = thread[p] /\ link'[p] = link[p]
      PROVE  Fresh'
  BY <1>3 DEF Fresh
<1>4. ASSUME NEW q \in Proc, NEW c \in Ctl, Terminate(c, q) \/ TerminateUnsent(c, q)
      PROVE  Fresh'
  <2>1. thread[q].at \notin {"none", "begin"} /\ thread' = thread
    BY <1>4 DEF Terminate, TerminateUnsent, Obeys, Caught
  <2>2. \A p \in Proc \ {q} : link'[p] = link[p]
    BY <1>4 DEF Terminate, TerminateUnsent, Ask, AskFails
  <2> QED
    BY <1>3, <2>1, <2>2
<1>5. ASSUME NEW q \in Proc, LocalAsk(q) PROVE Fresh'
  <2>1. thread[q].at = "loop" /\ thread'[q].at = "loop" /\ \A p \in Proc \ {q} : thread'[p] = thread[p]
    BY <1>5 DEF LocalAsk, ThreadState
  <2>2. \A p \in Proc \ {q} : link'[p] = link[p]
    BY <1>5 DEF LocalAsk, Ask, AskFails
  <2> QED
    BY <1>3, <2>1, <2>2
<1>6. ASSUME NEW q \in Proc,
             \/ SendRules(q) \/ ListInput(q) \/ ListUnsent(q) \/ ThreadListEnds(q) \/ ThreadSave(q)
             \/ ThreadOver(q) \/ LocalEnds(q) \/ Rules(q) \/ Done(q)
      PROVE  Fresh'
  <2>1. /\ thread[q].at \notin {"none", "begin"} /\ thread'[q].at \notin {"none", "begin"}
        /\ \A p \in Proc \ {q} : thread'[p] = thread[p]
    BY <1>6 DEF SendRules, ListInput, ListUnsent, ThreadListEnds, ThreadSave, ThreadOver, LocalEnds,
                Rules, Done, ThreadGoes, TurnsThread, ThreadState
  <2>2. \A p \in Proc \ {q} : link'[p] = link[p]
    BY <1>6 DEF SendRules, ListInput, ListUnsent, ThreadListEnds, ThreadSave, ThreadOver, LocalEnds,
                Rules, Done, Ask, AskFails, NoList
  <2> QED
    BY <1>3, <2>1, <2>2
<1>7. ASSUME NEW q \in Proc, Started(q) \/ InitFails(q) PROVE Fresh'
  <2>1. thread'[q].at \notin {"none", "begin"} /\ \A p \in Proc \ {q} : thread'[p] = thread[p] /\ link'[p] = link[p]
    BY <1>7 DEF Started, InitFails, ThreadGoes, ThreadState
  <2> QED
    BY <2>1 DEF Fresh
<1>8. ASSUME NEW q \in Proc,
             \/ Start(q) \/ Kill(q) \/ Save(q)
      PROVE  Fresh'
  <2>1. /\ thread'[q].at \in {"none", "begin"} => thread[q].at \in {"none", "begin"}
        /\ link' = link /\ \A p \in Proc \ {q} : thread'[p] = thread[p]
    BY <1>8 DEF Start, Kill, Save, ThreadState
  <2> QED
    BY <2>1 DEF Fresh
<1>9. ASSUME NEW q \in Proc, ListEnds(q) PROVE Fresh'
  <2>1. thread' = thread /\ \A p \in Proc : link'[p].coming = link[p].coming
    BY <1>9 DEF ListEnds, NoList, LinkState
  <2> QED
    BY <2>1 DEF Fresh
<1>10. CASE UNCHANGED <<thread, link>>
  BY <1>10 DEF Fresh
<1>11. ASSUME NEW c \in Ctl, CommandLine(c) \/ \E cmd \in Command : Type(c, cmd)
       PROVE  UNCHANGED <<thread, link>>
  BY <1>11 DEF CommandLine, Type, SendCmd, ControllerStart, Hear, Install, Uninstall, Launch, Exec, service
<1>12. ASSUME NEW q \in Proc,
              \/ SetPath(q) \/ Bind(q) \/ Close(q) \/ Stopped(q) \/ (\E c \in Ctl : Answer(c, q))
              \/ (\E s \in Sig : HandleSig(q, s)) \/ \E s \in Sig : Signal(q, s) /\ Caught(q)
       PROVE  UNCHANGED <<thread, link>>
  BY <1>12 DEF SetPath, Bind, Close, Stopped, Answer, HandleSig, Signal, service
<1>13. ASSUME NEW q \in Proc, MainThread(q) PROVE Fresh'
  BY <1>2, <1>4, <1>8, <1>9, <1>10, <1>12, <1>13 DEF MainThread
<1>14. ASSUME NEW q \in Proc, OtherThread(q) PROVE Fresh'
  BY <1>2, <1>6, <1>7, <1>10, <1>12, <1>14 DEF OtherThread
<1>15. ASSUME NEW q \in Proc, NEW s \in Sig, Signal(q, s) PROVE Fresh'
  BY <1>2, <1>10, <1>12, <1>15
<1> QED
  BY <1>5, <1>10, <1>11, <1>13, <1>14, <1>15 DEF Next, vars

\* What arrives is never written to the list of a call that is over, in whatever nest and
\* in whichever thread, unless a send has failed, which leaves the pointer there.
THEOREM ListStaysLive == Spec => []ListIsLive
<1>1. Init => ListIsLive /\ Fresh
  BY DaemonAssumption DEF Init, ListIsLive, Fresh, IdleLink
<1>2. IInv /\ Fresh /\ ListIsLive /\ [Next]_vars => Fresh' /\ ListIsLive'
  <2> SUFFICES ASSUME IInv, Fresh, ListIsLive, [Next]_vars PROVE Fresh' /\ ListIsLive'
    OBVIOUS
  <2>1. Fresh'
    BY FreshStep DEF IInv
  <2>2. CASE Next
    BY <2>1, <2>2, LiveStep DEF IInv
  <2>3. CASE UNCHANGED vars
    BY <2>1, <2>3 DEF vars, ListIsLive
  <2> QED
    BY <2>2, <2>3
<1> QED
  BY <1>1, <1>2, InvariantHolds, PTL DEF Spec

-----------------------------------------------------------------------------
(* An orderly stop.                                                          *)

\* Where a process is that was told to stop once: it waits for the listing of all chains,
\* saves it, waits for its other thread, or leaves.
AllIn == "all" \in file \/ rival
Listing(p) ==
  /\ main[p].at = "loop" /\ ~main[p].quit
  /\ thread[p].at = "loop" /\ ~thread[p].quit /\ thread[p].deep = 0
  /\ \E f \in Frame :
       /\ main[p].stack = <<f>> /\ f.at = "list"
       /\ \/ link[p].lst = f.who /\ link[p].coming = <<"all", "done">> /\ ~f.woken
          \/ link[p].lst = f.who /\ link[p].coming = <<"done">> /\ ~f.woken /\ "all" \in f.got
          \/ link[p].coming = <<>> /\ "all" \in f.got
Saving(p) ==
  /\ main[p].at = "loop" /\ link[p].coming = <<>> /\ "all" \in link[p].cache
  /\ \E f \in Frame : main[p].stack = <<f>> /\ f.at = "save"
Joining(p) ==
  /\ link[p].coming = <<>> /\ AllIn
  /\ \E f \in Frame : main[p].stack = <<f>> /\ f.at = "join"
Leaving(p) == link[p].coming = <<>> /\ AllIn /\ main[p].stack = <<>>
Tidy(p) ==
  tidy[p] => /\ main[p].at \in {"loop", "unlink"} /\ thread[p].at \in {"loop", "over", "killed"}
             /\ Listing(p) \/ Saving(p) \/ Joining(p) \/ Leaving(p)

\* The other thread is told to end by a stop() that is not over, or after which all ends.
Quit(p) ==
  thread[p].quit =>
    /\ Alive(p)
    /\ main[p].quit \/ \E i \in DOMAIN main[p].stack : main[p].stack[i].at = "join"
Stops == \A p \in Proc : Tidy(p) /\ Quit(p)

\* The one call of stop() that there is.
LEMMA OneCall ==
  ASSUME NEW f, NEW g
  PROVE  /\ <<f>> # <<>> /\ Last(<<f>>) = f /\ Front(<<f>>) = <<>>
         /\ Append(Front(<<f>>), g) = <<g>> /\ Append(<<>>, g) = <<g>> /\ DOMAIN <<f>> = {1}
<1>1. <<f>> # <<>> /\ Len(<<f>>) = 1 /\ DOMAIN <<f>> = {1}
  OBVIOUS
<1>2. Last(<<f>>) = f
  BY <1>1 DEF Last
<1>3. Append(<<>>, g) = <<g>>
  OBVIOUS
<1>4. SubSeq(<<f>>, 1, 0) = <<>>
  OBVIOUS
<1>5. Front(<<f>>) = <<>>
  BY <1>1, <1>4 DEF Front
<1> QED
  BY <1>1, <1>2, <1>3, <1>5

\* A step of process q leaves the others alone, but for the file.
Only(q) ==
  \A p \in Proc \ {q} :
    main'[p] = main[p] /\ thread'[p] = thread[p] /\ link'[p] = link[p] /\ tidy'[p] = tidy[p]

LEMMA OnlyMain ==
  ASSUME TypeOK, NEW q \in Proc, MainThread(q)
  PROVE  Only(q)
<1> USE DEF TypeOK, Only
<1>1. CASE Unlink(q) \/ \E c \in Ctl : TerminateEarly(c, q)
  BY <1>1 DEF Unlink, TerminateEarly, Dies
<1>2. CASE SetPath(q) \/ Bind(q) \/ Start(q) \/ Close(q) \/ \E c \in Ctl : Answer(c, q)
  BY <1>2 DEF SetPath, Bind, Start, Close, Answer, service
<1>3. CASE \E c \in Ctl : Terminate(c, q) \/ TerminateUnsent(c, q)
  BY <1>3 DEF Terminate, TerminateUnsent, Obeys, Ask, AskFails
<1>4. CASE ListEnds(q) \/ Save(q) \/ Kill(q) \/ Stopped(q)
  BY <1>4 DEF ListEnds, Save, Kill, Stopped, WithTop, NoList
<1> QED
  BY <1>1, <1>2, <1>3, <1>4 DEF MainThread

LEMMA OnlyOther ==
  ASSUME TypeOK, NEW q \in Proc, OtherThread(q)
  PROVE  Only(q)
<1> USE DEF TypeOK, Only
<1>1. CASE \/ Started(q) \/ InitFails(q) \/ SendRules(q) \/ ListInput(q) \/ ListUnsent(q)
           \/ ThreadListEnds(q) \/ ThreadSave(q) \/ ThreadOver(q) \/ LocalEnds(q)
  BY <1>1 DEF Started, InitFails, SendRules, ListInput, ListUnsent, ThreadListEnds, ThreadSave,
              ThreadOver, LocalEnds, ThreadGoes, Ask, AskFails, NoList
<1>2. CASE Rules(q) \/ Done(q)
  BY <1>2 DEF Rules, Done
<1>3. CASE Astray(q) \/ \E s \in Sig : HandleSig(q, s)
  BY <1>3 DEF Astray, Dies, HandleSig, OnSignal
<1> QED
  BY <1>1, <1>2, <1>3 DEF OtherThread

LEMMA OnlyLocal ==
  ASSUME TypeOK, NEW q \in Proc, LocalAsk(q)
  PROVE  Only(q)
BY DEF TypeOK, Only, LocalAsk, Ask, AskFails

\* A process that is left alone, and whose rules nobody else writes over.
LEMMA StopsKept ==
  ASSUME NEW p \in Proc, Tidy(p), Quit(p), main'[p] = main[p], thread'[p] = thread[p],
         link'[p] = link[p], tidy'[p] = tidy[p], tidy[p] /\ AllIn => AllIn'
  PROVE  (Tidy(p) /\ Quit(p))'
<1>1. Quit(p)'
  BY DEF Quit, Alive
<1>2. Tidy(p)'
  BY DEF Tidy, Listing, Saving, Joining, Leaving
<1> QED
  BY <1>1, <1>2

\* Two processes save only when there are rivals.
LEMMA OthersRules ==
  ASSUME IInv, Stops, Next, NEW q \in Proc, Alive(q), NEW p \in Proc \ {q}, tidy[p]
  PROVE  AllIn'
<1>1. Alive(p)
  BY DEF Stops, Tidy, Alive
<1>2. rival
  BY <1>1 DEF IInv, Alone
<1>3. rival'
  BY <1>2 DEF Next, Remember
<1> QED
  BY <1>3 DEF AllIn

\* A process that has ended was not told to stop.
LEMMA StopsAfterDeath ==
  ASSUME TypeOK, NEW p \in Proc, Dies(p)
  PROVE  (Tidy(p) /\ Quit(p))'
<1>1. tidy'[p] = FALSE /\ thread'[p].quit = FALSE
  BY DEF TypeOK, Dies, IdleThread
<1> QED
  BY <1>1 DEF Tidy, Quit

\* What a step leaves of the main thread, the other thread and the link.
LEMMA NewStack ==
  ASSUME TypeOK, NEW p \in Proc, NEW s, main' = [main EXCEPT ![p].stack = s]
  PROVE  main'[p].stack = s /\ main'[p].at = main[p].at /\ main'[p].quit = main[p].quit
BY DEF TypeOK, MainState

LEMMA StopsTerminate ==
  ASSUME IInv, Stops, rival => rival', NEW p \in Proc, NEW c \in Ctl, Terminate(c, p)
  PROVE  (Tidy(p) /\ Quit(p))'
<1>0. TypeOK /\ Tidy(p) /\ Quit(p)
  BY DEF IInv, Stops
<1>1. PICK f : f = [who |-> c, at |-> "list", got |-> {}, woken |-> FALSE]
  OBVIOUS
<1>2. f \in Frame /\ f.at = "list" /\ f.who = c /\ ~f.woken
  BY <1>1 DEF Frame
<1>3. /\ main' = [main EXCEPT ![p].stack = Append(main[p].stack, f)] /\ main[p].at = "loop"
      /\ link' = [link EXCEPT ![p].lst = c, ![p].coming = link[p].coming \o <<"all", "done">>]
      /\ tidy' = [tidy EXCEPT ![p] = Quiet(p)]
      /\ thread' = thread
  BY <1>1 DEF Terminate, Obeys, Ask, TurnsMain
<1>4. main'[p].stack = Append(main[p].stack, f) /\ main'[p].at = "loop" /\ main'[p].quit = main[p].quit
  BY <1>0, <1>3, NewStack
<1>5. link'[p].lst = c /\ link'[p].coming = link[p].coming \o <<"all", "done">>
  BY <1>0, <1>3 DEF TypeOK, LinkState
<1>6. main[p].stack \in Seq(Frame)
  BY <1>0 DEF TypeOK, MainState
<1>7. Quit(p)'
  <2>1. \A i \in DOMAIN main[p].stack : i \in DOMAIN main'[p].stack /\ main'[p].stack[i] = main[p].stack[i]
    BY <1>4, <1>6, FramesStay
  <2>2. Alive(p)'
    BY <1>4 DEF Alive
  <2> QED
    BY <1>0, <1>3, <1>4, <2>1, <2>2 DEF Quit
<1>8. Tidy(p)'
  <2>1. SUFFICES ASSUME tidy'[p]
                 PROVE  Listing(p)' /\ thread[p].at = "loop"
    BY <1>3, <1>4 DEF Tidy
  <2>2. /\ main[p].stack = <<>> /\ ~main[p].quit /\ link[p].coming = <<>>
        /\ thread[p].at = "loop" /\ thread[p].deep = 0
    BY <1>0, <1>3, <2>1 DEF TypeOK, Quiet
  <2>3. ~thread[p].quit
    BY <1>0, <2>2 DEF Quit
  <2>4. main'[p].stack = <<f>> /\ link'[p].coming = <<"all", "done">>
    <3>1. Append(<<>>, f) = <<f>>
      BY OneCall
    <3> QED
      BY <1>4, <1>5, <2>2, <3>1
  <2> QED
    BY <1>2, <1>3, <1>4, <1>5, <2>2, <2>3, <2>4 DEF Listing
<1> QED
  BY <1>7, <1>8

LEMMA StopsUnsent ==
  ASSUME IInv, Stops, NEW p \in Proc, NEW c \in Ctl, TerminateUnsent(c, p)
  PROVE  (Tidy(p) /\ Quit(p))'
<1>0. TypeOK /\ Quit(p)
  BY DEF IInv, Stops
<1>1. PICK f : f = [who |-> c, at |-> "save", got |-> {}, woken |-> FALSE]
  OBVIOUS
<1>2. /\ main' = [main EXCEPT ![p].stack = Append(main[p].stack, f)] /\ main[p].at = "loop"
      /\ tidy' = [tidy EXCEPT ![p] = FALSE] /\ thread' = thread
  BY <1>1 DEF TerminateUnsent, Obeys, TurnsMain
<1>3. main'[p].stack = Append(main[p].stack, f) /\ main'[p].at = "loop" /\ main'[p].quit = main[p].quit
  BY <1>0, <1>2, NewStack
<1>4. main[p].stack \in Seq(Frame)
  BY <1>0 DEF TypeOK, MainState
<1>5. \A i \in DOMAIN main[p].stack : i \in DOMAIN main'[p].stack /\ main'[p].stack[i] = main[p].stack[i]
  BY <1>3, <1>4, FramesStay
<1>6. Quit(p)'
  BY <1>0, <1>2, <1>3, <1>5 DEF Quit, Alive
<1>7. Tidy(p)'
  BY <1>0, <1>2 DEF Tidy, TypeOK
<1> QED
  BY <1>6, <1>7

LEMMA StopsListEnds ==
  ASSUME IInv, Stops, rival => rival', NEW p \in Proc, ListEnds(p)
  PROVE  (Tidy(p) /\ Quit(p))'
<1>0. TypeOK /\ Threads /\ Tidy(p) /\ Quit(p)
  BY DEF IInv, Stops
<1>1. PICK top : top = Last(main[p].stack)
  OBVIOUS
<1>2. PICK f : f = [top EXCEPT !.at = "save"]
  OBVIOUS
<1>3. /\ main[p].stack # <<>> /\ top.at = "list" /\ (top.woken \/ main[p].quit \/ ~TurnsThread(p))
      /\ main' = [main EXCEPT ![p].stack = Append(Front(main[p].stack), f)]
      /\ link' = [link EXCEPT ![p].lst = "nobody", ![p].cache = top.got]
      /\ thread' = thread /\ tidy' = tidy
  BY <1>1, <1>2 DEF ListEnds, WithTop, NoList, Top
<1>4. /\ main'[p].stack = Append(Front(main[p].stack), f)
      /\ main'[p].at = main[p].at /\ main'[p].quit = main[p].quit
  BY <1>0, <1>3, NewStack
<1>5. link'[p].coming = link[p].coming /\ link'[p].cache = top.got
  BY <1>0, <1>3 DEF TypeOK, LinkState
<1>6. main[p].stack \in Seq(Frame)
  BY <1>0 DEF TypeOK, MainState
<1>7. Quit(p)'
  <2>1. \A i \in DOMAIN main[p].stack :
          main[p].stack[i].at = "join" =>
            i \in DOMAIN main'[p].stack /\ main'[p].stack[i] = main[p].stack[i]
    BY <1>1, <1>3, <1>4, <1>6, TopReplaced
  <2>2. Alive(p)' <=> Alive(p)
    BY <1>4 DEF Alive
  <2> QED
    BY <1>0, <1>3, <1>4, <2>1, <2>2 DEF Quit
<1>8. Tidy(p)'
  <2>1. SUFFICES ASSUME tidy[p]
                 PROVE  /\ main[p].at \in {"loop", "unlink"} /\ thread[p].at \in {"loop", "over", "killed"}
                        /\ Saving(p)'
    BY <1>3, <1>4 DEF Tidy
  <2>2. Listing(p)
    <3>1. ~Leaving(p)
      BY <1>3 DEF Leaving
    <3>2. ASSUME NEW g, main[p].stack = <<g>> PROVE g.at = "list"
      BY <1>1, <1>3, <3>2, OneCall
    <3> QED
      BY <1>0, <2>1, <3>1, <3>2 DEF Tidy, Saving, Joining
  <2>3. PICK g \in Frame :
          /\ main[p].stack = <<g>>
          /\ \/ link[p].lst = g.who /\ link[p].coming = <<"all", "done">> /\ ~g.woken
             \/ link[p].lst = g.who /\ link[p].coming = <<"done">> /\ ~g.woken /\ "all" \in g.got
             \/ link[p].coming = <<>> /\ "all" \in g.got
    BY <2>2 DEF Listing
  <2>4. top = g /\ main'[p].stack = <<f>>
    BY <1>1, <1>4, <2>3, OneCall
  <2>5. top.woken
    BY <1>3, <2>2 DEF Listing, TurnsThread
  <2>6. link[p].coming = <<>> /\ "all" \in top.got
    BY <2>3, <2>4, <2>5
  <2>7. f \in Frame /\ f.at = "save"
    BY <1>2, <2>3, <2>4 DEF Frame
  <2> QED
    <3>1. main[p].at = "loop" /\ main'[p].at = "loop"
      BY <1>4, <2>2 DEF Listing
    <3> QED
      BY <1>0, <1>5, <2>1, <2>4, <2>6, <2>7, <3>1 DEF Saving, Tidy
<1> QED
  BY <1>7, <1>8

LEMMA StopsSave ==
  ASSUME IInv, Stops, rival => rival', NEW p \in Proc, Save(p)
  PROVE  (Tidy(p) /\ Quit(p))'
<1>0. TypeOK /\ Threads /\ Tidy(p) /\ Quit(p)
  BY DEF IInv, Stops
<1>1. PICK top : top = Last(main[p].stack)
  OBVIOUS
<1>2. PICK f : f = [top EXCEPT !.at = "join"]
  OBVIOUS
<1>3. /\ main[p].stack # <<>> /\ top.at = "save"
      /\ main' = [main EXCEPT ![p].stack = Append(Front(main[p].stack), f)]
      /\ file' = link[p].cache /\ thread' = [thread EXCEPT ![p].quit = TRUE]
      /\ link' = link /\ tidy' = tidy
  BY <1>1, <1>2 DEF Save, WithTop, Top
<1>4. /\ main'[p].stack = Append(Front(main[p].stack), f)
      /\ main'[p].at = main[p].at /\ main'[p].quit = main[p].quit
  BY <1>0, <1>3, NewStack
<1>5. thread'[p].at = thread[p].at
  BY <1>0, <1>3 DEF TypeOK, ThreadState
<1>6. main[p].stack \in Seq(Frame) /\ top \in Frame
  BY <1>0, <1>1, <1>3, StackTypes DEF TypeOK, MainState
<1>7. f \in Frame /\ f.at = "join"
  BY <1>2, <1>6 DEF Frame
<1>8. Quit(p)'
  <2>1. PICK t : t = Front(main[p].stack)
    OBVIOUS
  <2>2. t \in Seq(Frame)
    BY <1>3, <1>6, <2>1, StackTypes
  <2>3. Len(t) + 1 \in DOMAIN Append(t, f) /\ Append(t, f)[Len(t) + 1] = f
    BY <2>2, FramesStay
  <2>4. \E i \in DOMAIN main'[p].stack : main'[p].stack[i].at = "join"
    BY <1>4, <1>7, <2>1, <2>3
  <2>5. Alive(p)'
    BY <1>0, <1>3, <1>4 DEF Alive, Threads
  <2> QED
    BY <2>4, <2>5 DEF Quit
<1>9. Tidy(p)'
  <2>1. SUFFICES ASSUME tidy[p]
                 PROVE  /\ main[p].at \in {"loop", "unlink"} /\ thread[p].at \in {"loop", "over", "killed"}
                        /\ Joining(p)'
    BY <1>3, <1>4, <1>5 DEF Tidy
  <2>2. Saving(p)
    <3>1. ~Leaving(p)
      BY <1>3 DEF Leaving
    <3>2. ASSUME NEW g, main[p].stack = <<g>> PROVE g.at = "save"
      BY <1>1, <1>3, <3>2, OneCall
    <3> QED
      BY <1>0, <2>1, <3>1, <3>2 DEF Tidy, Listing, Joining
  <2>3. main'[p].stack = <<f>>
    <3>1. PICK g : main[p].stack = <<g>>
      BY <2>2 DEF Saving
    <3> QED
      BY <1>4, <3>1, OneCall
  <2>4. AllIn'
    BY <1>3, <2>2 DEF Saving, AllIn
  <2> QED
    BY <1>0, <1>3, <1>7, <2>1, <2>2, <2>3, <2>4 DEF Joining, Saving, Tidy
<1> QED
  BY <1>8, <1>9

LEMMA StopsStopped ==
  ASSUME IInv, Stops, rival => rival', NEW p \in Proc, Stopped(p)
  PROVE  (Tidy(p) /\ Quit(p))'
<1>0. TypeOK /\ Threads /\ Tidy(p) /\ Quit(p)
  BY DEF IInv, Stops
<1>1. /\ main[p].stack # <<>> /\ Last(main[p].stack).at = "join"
      /\ main' = [main EXCEPT ![p].stack = Front(main[p].stack), ![p].quit = TRUE]
      /\ UNCHANGED <<file, thread, link, tidy>>
  BY DEF Stopped, Top
<1>2. /\ main'[p].stack = Front(main[p].stack) /\ main'[p].quit = TRUE
      /\ main'[p].at = main[p].at
  BY <1>0, <1>1 DEF TypeOK, MainState
<1>3. Quit(p)'
  BY <1>0, <1>1, <1>2 DEF Quit, Alive
<1>4. Tidy(p)'
  <2>1. SUFFICES ASSUME tidy[p]
                 PROVE  /\ main[p].at \in {"loop", "unlink"} /\ thread[p].at \in {"loop", "over", "killed"}
                        /\ Leaving(p)'
    BY <1>1, <1>2 DEF Tidy
  <2>2. Joining(p)
    <3>1. ~Leaving(p)
      BY <1>1 DEF Leaving
    <3>2. ASSUME NEW g, main[p].stack = <<g>> PROVE g.at = "join"
      BY <1>1, <3>2, OneCall
    <3> QED
      BY <1>0, <2>1, <3>1, <3>2 DEF Tidy, Listing, Saving
  <2>3. main'[p].stack = <<>>
    <3>1. PICK g : main[p].stack = <<g>>
      BY <2>2 DEF Joining
    <3> QED
      BY <1>2, <3>1, OneCall
  <2>4. AllIn'
    BY <1>1, <2>2 DEF Joining, AllIn
  <2> QED
    BY <1>0, <1>1, <2>1, <2>2, <2>3, <2>4 DEF Leaving, Joining, Tidy
<1> QED
  BY <1>3, <1>4

\* The main thread of a process, whatever it does.
LEMMA StopsMain ==
  ASSUME IInv, Stops, rival => rival', NEW p \in Proc, MainThread(p)
  PROVE  (Tidy(p) /\ Quit(p))'
<1>0. TypeOK /\ Threads /\ Tidy(p) /\ Quit(p)
  BY DEF IInv, Stops
<1>1. CASE Unlink(p) \/ \E c \in Ctl : TerminateEarly(c, p)
  BY <1>0, <1>1, StopsAfterDeath DEF Unlink, TerminateEarly
<1>2. CASE SetPath(p) \/ Bind(p)
  <2>1. /\ main[p].at \in {"start", "bind"} /\ main'[p].stack = main[p].stack
        /\ main'[p].quit = main[p].quit /\ main'[p].at # "off"
        /\ UNCHANGED <<thread, tidy>>
    BY <1>0, <1>2 DEF SetPath, Bind, TypeOK, MainState
  <2>2. ~tidy[p]
    BY <1>0, <2>1 DEF Tidy
  <2> QED
    BY <1>0, <2>1, <2>2 DEF Tidy, Quit, Alive
<1>3. CASE Start(p)
  <2>1. thread[p].at = "none" /\ main' = main /\ tidy' = tidy /\ thread'[p].quit = thread[p].quit
    BY <1>0, <1>3 DEF Start, TypeOK, ThreadState
  <2>2. ~tidy[p]
    BY <1>0, <2>1 DEF Tidy
  <2> QED
    BY <1>0, <2>1, <2>2 DEF Tidy, Quit, Alive
<1>4. CASE Close(p)
  <2>1. /\ main[p].at = "loop" /\ main[p].stack = <<>> /\ main'[p].at = "unlink"
        /\ main'[p].stack = <<>> /\ main'[p].quit = main[p].quit
        /\ UNCHANGED <<file, thread, link, tidy>>
    BY <1>0, <1>4 DEF Close, TypeOK, MainState
  <2>2. Quit(p)'
    BY <1>0, <2>1 DEF Quit, Alive
  <2>3. tidy[p] => Leaving(p)
    BY <1>0, <2>1, OneCall DEF Tidy, Listing, Saving, Joining
  <2>4. tidy[p] => Leaving(p)'
    BY <2>1, <2>3 DEF Leaving, AllIn
  <2>5. Tidy(p)'
    BY <1>0, <2>1, <2>4 DEF Tidy
  <2> QED
    BY <2>2, <2>5
<1>5. CASE \E c \in Ctl : Answer(c, p)
  <2>1. UNCHANGED <<file, main, thread, link, tidy>>
    BY <1>5 DEF Answer, service
  <2> QED
    BY <1>0, <2>1, StopsKept DEF AllIn
<1>6. CASE Kill(p)
  <2>1. /\ main[p].stack # <<>> /\ Last(main[p].stack).at = "join"
        /\ thread'[p].at = "killed" /\ thread'[p].quit = thread[p].quit
        /\ UNCHANGED <<file, main, link, tidy>>
    BY <1>0, <1>6 DEF Kill, Top, TypeOK, ThreadState
  <2>2. Quit(p)'
    BY <1>0, <2>1 DEF Quit, Alive
  <2>3. ASSUME NEW g, main[p].stack = <<g>> PROVE g.at = "join"
    BY <2>1, <2>3, OneCall
  <2>4. tidy[p] => Joining(p)
    BY <1>0, <2>1, <2>3 DEF Tidy, Listing, Saving, Leaving
  <2>5. tidy[p] => Joining(p)'
    BY <2>1, <2>4 DEF Joining, AllIn
  <2>6. Tidy(p)'
    BY <1>0, <2>1, <2>5 DEF Tidy
  <2> QED
    BY <2>2, <2>6
<1> QED
  BY <1>1, <1>2, <1>3, <1>4, <1>5, <1>6, StopsTerminate, StopsUnsent, StopsListEnds, StopsSave,
     StopsStopped DEF MainThread

\* BFControl hears of the rules of all chains, and then of the end.
LEMMA StopsRules ==
  ASSUME IInv, Stops, rival => rival', NEW p \in Proc, Rules(p)
  PROVE  (Tidy(p) /\ Quit(p))'
<1>0. TypeOK /\ Threads /\ Tidy(p) /\ Quit(p)
  BY DEF IInv, Stops
<1>1. PICK k, l : k = Head(link[p].coming) /\ l = link[p].lst
  OBVIOUS
<1>2. /\ link[p].coming # <<>> /\ k # "done"
      /\ thread' = IF l = "thread" THEN [thread EXCEPT ![p].got = thread[p].got \cup {k}] ELSE thread
      /\ main' = [main EXCEPT ![p].stack = Filled(main[p].stack, l, k)]
      /\ link' = [link EXCEPT ![p].coming = Tail(link[p].coming)]
      /\ file' = file /\ tidy' = tidy
  BY <1>1 DEF Rules
<1>3. /\ main'[p].stack = Filled(main[p].stack, l, k)
      /\ main'[p].at = main[p].at /\ main'[p].quit = main[p].quit
  BY <1>0, <1>2, NewStack
<1>4. /\ thread'[p].at = thread[p].at /\ thread'[p].quit = thread[p].quit
      /\ thread'[p].deep = thread[p].deep
  BY <1>0, <1>2 DEF TypeOK, ThreadState
<1>5. link'[p].coming = Tail(link[p].coming) /\ link'[p].lst = l
  BY <1>0, <1>1, <1>2 DEF TypeOK, LinkState
<1>6. main[p].stack \in Seq(Frame)
  BY <1>0 DEF TypeOK, MainState
<1>7. Quit(p)'
  <2>1. \A i \in DOMAIN main[p].stack :
          i \in DOMAIN main'[p].stack /\ main'[p].stack[i].at = main[p].stack[i].at
    BY <1>3, <1>6 DEF Filled, Frame
  <2>2. Alive(p)' <=> Alive(p)
    BY <1>3 DEF Alive
  <2> QED
    BY <1>0, <1>3, <1>4, <2>1, <2>2 DEF Quit
<1>8. Tidy(p)'
  <2>1. SUFFICES ASSUME tidy[p]
                 PROVE  Listing(p)' /\ main[p].at = "loop" /\ thread[p].at = "loop"
    BY <1>2, <1>3, <1>4 DEF Tidy
  <2>2. Listing(p)
    BY <1>0, <1>2, <2>1 DEF Tidy, Saving, Joining, Leaving
  <2>3. PICK f \in Frame :
          /\ main[p].stack = <<f>> /\ f.at = "list"
          /\ \/ l = f.who /\ link[p].coming = <<"all", "done">> /\ ~f.woken
             \/ l = f.who /\ link[p].coming = <<"done">> /\ ~f.woken /\ "all" \in f.got
    BY <1>1, <1>2, <2>2 DEF Listing
  <2>4. link[p].coming = <<"all", "done">> /\ k = "all" /\ l = f.who /\ ~f.woken
    BY <1>1, <1>2, <2>3
  <2>5. PICK g : g = [f EXCEPT !.got = f.got \cup {"all"}]
    OBVIOUS
  <2>6. g \in Frame /\ g.at = "list" /\ g.who = f.who /\ ~g.woken /\ "all" \in g.got
    BY <2>3, <2>4, <2>5 DEF Frame, Kind
  <2>7. main'[p].stack = <<g>>
    <3>1. Filled(<<f>>, f.who, "all") = <<g>>
      BY <2>5 DEF Filled
    <3> QED
      BY <1>3, <2>3, <2>4, <3>1
  <2>8. link'[p].coming = <<"done">> /\ link'[p].lst = g.who
    BY <1>5, <2>4, <2>6
  <2> QED
    BY <1>3, <1>4, <2>2, <2>6, <2>7, <2>8 DEF Listing
<1> QED
  BY <1>7, <1>8

LEMMA StopsDone ==
  ASSUME IInv, Stops, rival => rival', NEW p \in Proc, Done(p)
  PROVE  (Tidy(p) /\ Quit(p))'
<1>0. TypeOK /\ Threads /\ Tidy(p) /\ Quit(p)
  BY DEF IInv, Stops
<1>1. /\ link[p].coming # <<>> /\ Head(link[p].coming) = "done"
      /\ thread' = [thread EXCEPT ![p].woken =
                       thread[p].woken \/ thread[p].at = "list" \/ thread[p].deep > 0]
      /\ main' = [main EXCEPT ![p].stack = Woken(main[p].stack)]
      /\ link' = [link EXCEPT ![p].coming = Tail(link[p].coming), ![p].lst = "nobody"]
      /\ file' = file /\ tidy' = tidy
  BY DEF Done
<1>2. /\ main'[p].stack = Woken(main[p].stack)
      /\ main'[p].at = main[p].at /\ main'[p].quit = main[p].quit
  BY <1>0, <1>1, NewStack
<1>3. /\ thread'[p].at = thread[p].at /\ thread'[p].quit = thread[p].quit
      /\ thread'[p].deep = thread[p].deep
  BY <1>0, <1>1 DEF TypeOK, ThreadState
<1>4. link'[p].coming = Tail(link[p].coming)
  BY <1>0, <1>1 DEF TypeOK, LinkState
<1>5. main[p].stack \in Seq(Frame)
  BY <1>0 DEF TypeOK, MainState
<1>6. Quit(p)'
  <2>1. \A i \in DOMAIN main[p].stack :
          i \in DOMAIN main'[p].stack /\ main'[p].stack[i].at = main[p].stack[i].at
    BY <1>2, <1>5 DEF Woken, Frame
  <2>2. Alive(p)' <=> Alive(p)
    BY <1>2 DEF Alive
  <2> QED
    BY <1>0, <1>2, <1>3, <2>1, <2>2 DEF Quit
<1>7. Tidy(p)'
  <2>1. SUFFICES ASSUME tidy[p]
                 PROVE  Listing(p)' /\ main[p].at = "loop" /\ thread[p].at = "loop"
    BY <1>1, <1>2, <1>3 DEF Tidy
  <2>2. Listing(p)
    BY <1>0, <1>1, <2>1 DEF Tidy, Saving, Joining, Leaving
  <2>3. PICK f \in Frame :
          /\ main[p].stack = <<f>> /\ f.at = "list"
          /\ \/ link[p].coming = <<"all", "done">>
             \/ link[p].coming = <<"done">> /\ "all" \in f.got
    BY <1>1, <2>2 DEF Listing
  <2>4. link[p].coming = <<"done">> /\ "all" \in f.got
    BY <1>1, <2>3
  <2>5. PICK g : g = [f EXCEPT !.woken = f.woken \/ f.at = "list"]
    OBVIOUS
  <2>6. g \in Frame /\ g.at = "list" /\ "all" \in g.got
    BY <2>3, <2>4, <2>5 DEF Frame
  <2>7. main'[p].stack = <<g>>
    <3>1. Woken(<<f>>) = <<g>>
      BY <2>5 DEF Woken
    <3> QED
      BY <1>2, <2>3, <3>1
  <2>8. link'[p].coming = <<>>
    BY <1>4, <2>4
  <2> QED
    BY <1>2, <1>3, <2>2, <2>6, <2>7, <2>8 DEF Listing
<1> QED
  BY <1>6, <1>7

LEMMA StopsOther ==
  ASSUME IInv, Stops, rival => rival', NEW p \in Proc, OtherThread(p)
  PROVE  (Tidy(p) /\ Quit(p))'
<1>0. TypeOK /\ Threads /\ Tidy(p) /\ Quit(p)
  BY DEF IInv, Stops
<1>1. CASE \/ Started(p) \/ InitFails(p) \/ SendRules(p) \/ ListInput(p) \/ ListUnsent(p)
           \/ ThreadListEnds(p) \/ ThreadSave(p)
  <2>1. /\ thread[p].at \in {"begin", "send", "ask", "list", "save"}
        /\ thread'[p].quit = thread[p].quit /\ main' = main /\ tidy' = tidy
    BY <1>0, <1>1 DEF Started, InitFails, SendRules, ListInput, ListUnsent, ThreadListEnds, ThreadSave,
                      ThreadGoes, TypeOK, ThreadState
  <2>2. ~tidy[p]
    BY <1>0, <2>1 DEF Tidy
  <2> QED
    BY <1>0, <2>1, <2>2 DEF Tidy, Quit, Alive
<1>5. CASE LocalEnds(p)
  <2>1. /\ thread[p].at = "loop" /\ thread'[p].at = "loop" /\ thread'[p].quit = thread[p].quit
        /\ link'[p].coming = link[p].coming /\ link'[p].cache = link[p].cache
        /\ UNCHANGED <<file, main, tidy>>
    BY <1>0, <1>5 DEF LocalEnds, NoList, TypeOK, ThreadState, LinkState
  <2>2. thread[p].deep # 0
    BY <1>0, <1>5 DEF LocalEnds
  <2>3. Quit(p)'
    BY <1>0, <2>1 DEF Quit, Alive
  <2>4. tidy[p] => main[p].at \in {"loop", "unlink"} /\ (Saving(p) \/ Joining(p) \/ Leaving(p))
    BY <1>0, <2>2 DEF Tidy, Listing
  <2>5. AllIn' <=> file' = file /\ ("all" \in file \/ rival')
    BY <2>1 DEF AllIn
  <2>6. tidy[p] => (Saving(p) \/ Joining(p) \/ Leaving(p))'
    BY <2>1, <2>4, <2>5 DEF Saving, Joining, Leaving, AllIn
  <2>7. Tidy(p)'
    BY <2>1, <2>4, <2>6 DEF Tidy
  <2> QED
    BY <2>3, <2>7
<1>2. CASE ThreadOver(p)
  <2>1. /\ thread[p].quit /\ thread'[p].at = "over" /\ thread'[p].quit = thread[p].quit
        /\ UNCHANGED <<file, main, link, tidy>>
    BY <1>0, <1>2 DEF ThreadOver, ThreadGoes, TypeOK, ThreadState
  <2>2. Quit(p)'
    BY <1>0, <2>1 DEF Quit, Alive
  <2>3. tidy[p] => main[p].at \in {"loop", "unlink"} /\ (Saving(p) \/ Joining(p) \/ Leaving(p))
    BY <1>0, <2>1 DEF Tidy, Listing
  <2>4. tidy[p] => (Saving(p) \/ Joining(p) \/ Leaving(p))'
    BY <2>1, <2>3 DEF Saving, Joining, Leaving, AllIn
  <2>5. Tidy(p)'
    BY <2>1, <2>3, <2>4 DEF Tidy
  <2> QED
    BY <2>2, <2>5
<1>3. CASE Astray(p)
  BY <1>0, <1>3, StopsAfterDeath DEF Astray
<1>4. ASSUME NEW s \in Sig, HandleSig(p, s) PROVE (Tidy(p) /\ Quit(p))'
  <2>1. /\ main'[p].stack = main[p].stack /\ main'[p].at = main[p].at
        /\ main'[p].quit = (main[p].quit \/ s = "TERM") /\ tidy'[p] = (tidy[p] /\ s # "TERM")
        /\ UNCHANGED <<file, thread, link>>
    BY <1>0, <1>4 DEF HandleSig, OnSignal, TypeOK, MainState
  <2>2. Quit(p)'
    BY <1>0, <2>1 DEF Quit, Alive
  <2>3. CASE s = "TERM"
    BY <2>1, <2>2, <2>3 DEF Tidy
  <2>4. CASE s # "TERM"
    <3>1. main'[p].quit = main[p].quit /\ tidy'[p] = tidy[p]
      BY <1>0, <2>1, <2>4 DEF TypeOK, MainState
    <3>2. Tidy(p)'
      BY <1>0, <2>1, <3>1 DEF Tidy, Listing, Saving, Joining, Leaving, AllIn
    <3> QED
      BY <2>2, <3>2
  <2> QED
    BY <2>3, <2>4
<1> QED
  BY <1>1, <1>2, <1>3, <1>4, <1>5, StopsRules, StopsDone DEF OtherThread

\* A local client's listing is not for a stop() that is told to be alone.
LEMMA StopsLocal ==
  ASSUME IInv, Stops, NEW p \in Proc, LocalAsk(p)
  PROVE  (Tidy(p) /\ Quit(p))'
<1>0. TypeOK /\ Quit(p)
  BY DEF IInv, Stops
<1>1. main' = main /\ ~tidy'[p] /\ thread'[p].quit = thread[p].quit
  BY <1>0 DEF LocalAsk, TypeOK, ThreadState
<1> QED
  BY <1>0, <1>1 DEF Tidy, Quit, Alive

\* A command line or a signal.
LEMMA StopsBeside ==
  ASSUME IInv, Stops, rival => rival',
         \/ \E c \in Ctl : CommandLine(c) \/ \E cmd \in Command : Type(c, cmd)
         \/ \E q \in Proc, s \in Sig : Signal(q, s)
  PROVE  Stops'
<1>0. TypeOK /\ Threads
  BY DEF IInv
<1>1. CASE UNCHANGED <<file, main, thread, link, tidy>>
  BY <1>1, StopsKept DEF Stops, AllIn
<1>2. ASSUME NEW c \in Ctl, NEW q \in Proc, Launch(c, q) \/ Exec(c, q) PROVE Stops'
  <2>1. /\ ~Alive(q) /\ \A p \in Proc \ {q} : main'[p] = main[p]
        /\ UNCHANGED <<file, thread, link, tidy>>
    BY <1>0, <1>2 DEF Launch, Exec, TypeOK
  <2>2. ~tidy[q] /\ ~thread[q].quit
    BY <2>1 DEF Stops, Tidy, Quit, Alive
  <2>3. (Tidy(q) /\ Quit(q))'
    BY <2>1, <2>2 DEF Tidy, Quit
  <2>4. \A p \in Proc \ {q} : (Tidy(p) /\ Quit(p))'
    BY <2>1, StopsKept DEF Stops, AllIn
  <2> QED
    BY <2>3, <2>4 DEF Stops
<1>3. ASSUME NEW q \in Proc, NEW s \in Sig, Signal(q, s) PROVE Stops'
  <2>1. CASE Caught(q)
    BY <1>1, <1>3, <2>1 DEF Signal
  <2>2. CASE ~Caught(q)
    <3>1. Dies(q) /\ file' = file
      BY <1>3, <2>2 DEF Signal
    <3>2. \A p \in Proc \ {q} :
            main'[p] = main[p] /\ thread'[p] = thread[p] /\ link'[p] = link[p] /\ tidy'[p] = tidy[p]
      BY <1>0, <3>1 DEF Dies, TypeOK
    <3>3. \A p \in Proc \ {q} : (Tidy(p) /\ Quit(p))'
      BY <3>1, <3>2, StopsKept DEF Stops, AllIn
    <3> QED
      BY <1>0, <3>1, <3>3, StopsAfterDeath DEF Stops
  <2> QED
    BY <2>1, <2>2
<1> QED
  BY <1>1, <1>2, <1>3 DEF CommandLine, Type, SendCmd, ControllerStart, Hear, Install, Uninstall, service

LEMMA StopsStep ==
  ASSUME IInv, Stops, [Next]_vars
  PROVE  Stops'
<1>0. TypeOK /\ Threads
  BY DEF IInv
<1>1. CASE UNCHANGED vars
  <2>1. UNCHANGED <<file, main, thread, link, rival, tidy>>
    BY <1>1 DEF vars
  <2> QED
    BY <2>1, StopsKept DEF Stops, AllIn
<1>2. CASE Next
  <2>1. rival => rival'
    BY <1>2 DEF Next, Remember
  <2>2. ASSUME NEW q \in Proc, MainThread(q) \/ OtherThread(q) \/ LocalAsk(q) PROVE Stops'
    <3>1. (Tidy(q) /\ Quit(q))'
      BY <2>1, <2>2, StopsMain, StopsOther, StopsLocal
    <3>2. Only(q)
      BY <1>0, <2>2, OnlyMain, OnlyOther, OnlyLocal
    <3>3. ASSUME NEW p \in Proc \ {q} PROVE (Tidy(p) /\ Quit(p))'
      <4>1. tidy[p] /\ AllIn => AllIn'
        <5>1. CASE Alive(q)
          BY <1>2, <5>1, OthersRules
        <5>2. CASE file' = file
          BY <2>1, <5>2 DEF AllIn
        <5>3. CASE Save(q) \/ ThreadSave(q)
          BY <1>0, <5>1, <5>3 DEF Save, ThreadSave, ThreadGoes, Threads
        <5>4. file' = file \/ Save(q) \/ ThreadSave(q)
          BY <2>2 DEF MainThread, OtherThread, SetPath, Bind, Start, Close, Unlink, Answer, Terminate,
                      TerminateUnsent, Obeys, TerminateEarly, ListEnds, Kill, Stopped, Started,
                      InitFails, SendRules, ListInput, ListUnsent, ThreadListEnds, ThreadOver,
                      LocalEnds, LocalAsk, Rules, Done, Astray, HandleSig, service
        <5> QED
          BY <5>2, <5>3, <5>4
      <4> QED
        BY <3>2, <4>1, StopsKept DEF Stops, Only
    <3> QED
      BY <3>1, <3>3 DEF Stops
  <2> QED
    BY <1>2, <2>1, <2>2, StopsBeside DEF Next
<1> QED
  BY <1>1, <1>2

LEMMA StopsInitially == Init => Stops
BY DEF Init, Stops, Tidy, Quit, IdleThread

\* A service that was told to stop once, in its loop, ends with the rules of all chains in
\* its file, if starts have not overlapped, the listing could be sent and no TERM and no
\* listing of a local client came beside it: the listing that stop() waits for is its own,
\* and no one else writes the file after it.
THEOREM RulesSaved == Spec => []StopSavesAll
<1>1. IInv /\ Stops /\ [Next]_vars => Stops'
  BY StopsStep
<1>2. IInv /\ Stops => StopSavesAll
  BY DEF Stops, Tidy, Listing, Saving, Joining, Leaving, AllIn, StopSavesAll
<1> QED
  BY <1>1, <1>2, StopsInitially, InvariantHolds, PTL DEF Spec

\* Which steps end a process: a stop leads past all of them but the last.
LEMMA Deaths ==
  ASSUME TypeOK, Next, NEW p \in Proc, Alive(p), ~Alive(p)'
  PROVE  Unlink(p) \/ ~Caught(p) \/ (link[p].coming # <<>> /\ link[p].lst \in {"nobody", "unset", "gone"})
<1> USE DEF TypeOK, Alive
<1>1. ASSUME NEW c \in Ctl, CommandLine(c) \/ \E cmd \in Command : Type(c, cmd) PROVE FALSE
  <2>1. ASSUME NEW q \in Proc, Launch(c, q) \/ Exec(c, q) PROVE FALSE
    BY <2>1 DEF Launch, Exec
  <2>2. CASE main' = main
    BY <2>2
  <2> QED
    BY <1>1, <2>1, <2>2 DEF CommandLine, Type, SendCmd, ControllerStart, Hear, Install, Uninstall, service
<1>2. ASSUME NEW q \in Proc, MainThread(q) PROVE Unlink(p) \/ ~Caught(p)
  <2>1. q = p
    BY <1>2, OnlyMain DEF Only
  <2>2. CASE Start(p) \/ Kill(p) \/ \E c \in Ctl : Answer(c, p)
    BY <2>2 DEF Start, Kill, Answer, service
  <2>3. CASE SetPath(p) \/ Bind(p) \/ Close(p)
    <3>1. main'[p].at \in {"bind", "loop", "unlink"}
      BY <2>3 DEF SetPath, Bind, Close, MainState
    <3> QED
      BY <3>1
  <2>4. CASE \/ ListEnds(p) \/ Save(p) \/ Stopped(p)
             \/ \E c \in Ctl : Terminate(c, p) \/ TerminateUnsent(c, p)
    <3>1. CASE \E s : main' = [main EXCEPT ![p].stack = s]
      <4>1. main'[p].at = main[p].at
        BY <3>1 DEF MainState
      <4> QED
        BY <4>1
    <3>2. CASE Stopped(p)
      <4>1. main' = [main EXCEPT ![p].stack = Front(main[p].stack), ![p].quit = TRUE]
        BY <3>2 DEF Stopped
      <4>2. main'[p].at = main[p].at
        BY <4>1 DEF MainState
      <4> QED
        BY <4>2
    <3>3. CASE \E c \in Ctl : Terminate(c, p) \/ TerminateUnsent(c, p)
      BY <3>1, <3>3 DEF Terminate, TerminateUnsent, Obeys
    <3>4. CASE ListEnds(p) \/ Save(p)
      BY <3>1, <3>4 DEF ListEnds, Save, WithTop
    <3> QED
      BY <2>4, <3>2, <3>3, <3>4
  <2>5. ASSUME NEW c \in Ctl, TerminateEarly(c, p) PROVE ~Caught(p)
    BY <2>5 DEF TerminateEarly
  <2> QED
    BY <1>2, <2>1, <2>2, <2>3, <2>4, <2>5 DEF MainThread
<1>3. ASSUME NEW q \in Proc, OtherThread(q)
      PROVE  link[p].coming # <<>> /\ link[p].lst \in {"nobody", "unset", "gone"}
  <2>1. q = p
    BY <1>3, OnlyOther DEF Only
  <2>2. CASE \/ Started(p) \/ InitFails(p) \/ SendRules(p) \/ ListInput(p) \/ ListUnsent(p)
             \/ ThreadListEnds(p) \/ ThreadSave(p) \/ ThreadOver(p) \/ LocalEnds(p)
    BY <2>2 DEF Started, InitFails, SendRules, ListInput, ListUnsent, ThreadListEnds, ThreadSave,
                ThreadOver, LocalEnds
  <2>3. CASE Rules(p) \/ Done(p) \/ \E s \in Sig : HandleSig(p, s)
    BY <2>3 DEF Rules, Done, HandleSig, OnSignal, MainState
  <2>4. CASE Astray(p)
    BY <2>4 DEF Astray
  <2> QED
    BY <1>3, <2>1, <2>2, <2>3, <2>4 DEF OtherThread
<1>5. ASSUME NEW q \in Proc, LocalAsk(q) PROVE FALSE
  BY <1>5 DEF LocalAsk
<1>4. ASSUME NEW q \in Proc, NEW s \in Sig, Signal(q, s) PROVE ~Caught(p)
  <2>1. ~Caught(q)
    BY <1>4 DEF Signal
  <2>2. q = p
    BY <1>4, <2>1 DEF Signal, Dies
  <2> QED
    BY <2>1, <2>2
<1> QED
  BY <1>1, <1>2, <1>3, <1>4, <1>5 DEF Next

\* What a step may do when a process that was told to stop ends by it.
GoesThrough == \A p \in Proc : tidy[p] /\ Alive(p) /\ ~Alive(p)' => main[p].at = "unlink"

\* Once such a stop() is under way, with no other, no TERM and no listing of a local client
\* beside it, nothing ends the process before it is through: no end of a listing comes
\* that nobody waits for, and no signal that is not caught.
THEOREM StopIsNotCut == Spec => StopGoesThrough
<1>1. IInv /\ Stops /\ [Next]_vars => Stops'
  BY StopsStep
<1>2. IInv /\ Stops /\ [Next]_vars => GoesThrough
  <2> SUFFICES ASSUME IInv, Stops, [Next]_vars, NEW p \in Proc, tidy[p], Alive(p), ~Alive(p)'
               PROVE  main[p].at = "unlink"
    BY DEF GoesThrough
  <2>1. Next
    BY DEF vars, Alive
  <2>2. Tidy(p) /\ Caught(p)
    BY DEF Stops, Tidy, Caught
  <2>3. link[p].coming # <<>> => link[p].lst \notin {"nobody", "unset", "gone"}
    BY <2>2, DaemonAssumption DEF Tidy, Listing, Saving, Joining, Leaving, Frame
  <2>4. Unlink(p)
    BY <2>1, <2>2, <2>3, Deaths DEF IInv
  <2> QED
    BY <2>4 DEF Unlink
<1>3. IInv /\ Stops /\ [Next]_vars =>
        [\A p \in Proc : tidy[p] /\ Alive(p) /\ ~Alive(p)' => main[p].at = "unlink"]_vars
  BY <1>2 DEF GoesThrough
<1> QED
  BY <1>1, <1>3, StopsInitially, InvariantHolds, PTL DEF Spec, StopGoesThrough

=============================================================================
