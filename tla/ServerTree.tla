------------------------------ MODULE ServerTree ------------------------------
(***************************************************************************)
(* How a change on the server's disk reaches the retained tree: one        *)
(* watcher per scanned directory, whose events arm and re-arm a timer      *)
(* (watcher.py), timer threads that rebuild the tree from all directories  *)
(* and publish it (server.py _on_filesystem_changed, _build_tree,          *)
(* _publish_tree), the network thread, which publishes the tree it finds   *)
(* when it connects and when a client authenticates, and the main thread,  *)
(* which builds the first tree before it starts the watchers.              *)
(*                                                                         *)
(* A directory is read in one step, in the order of _scan_entries; a tree  *)
(* holds the version of each directory.  A timer is a thread.              *)
(***************************************************************************)
EXTENDS Integers, FiniteSets

CONSTANTS
    NumDirs,        \* scan_directories
    Timers,         \* bound: timer threads alive at a time
    Main,           \* the main thread, while it builds the first tree
    NoTimer,        \* _timer is None
    NoTree,         \* nothing published
    OpenEvents,     \* watchdog: whether opening a file is an event, as on Linux
    EarlyEdits,     \* whether a directory changes before it is watched
    MaxEdits,       \* bound: changes
    MaxPublishes,   \* bound: publications of the network thread
    MayStop         \* whether the server may be interrupted

ASSUME DirsAssumption == NumDirs \in Nat \ {0}
ASSUME ThreadsAssumption == Main \notin Timers /\ NoTimer \notin Timers
ASSUME SwitchesAssumption == {OpenEvents, EarlyEdits, MayStop} \subseteq BOOLEAN
ASSUME BoundsAssumption == {MaxEdits, MaxPublishes} \subseteq Nat

VARIABLES
    disk,           \* version of each directory
    notified,       \* watchdog: directories with events not dispatched
    watching,       \* the observers that run
    timer,          \* DirectoryWatcher._timer
    work,           \* what each timer thread, and the main thread, is doing
    phase,          \* how far the main thread is
    fileTree,       \* _file_tree
    outgoing,       \* network thread: the tree it is about to publish
    retained,       \* broker: the retained message of the tree topic
    scanned,        \* history: the version read last of each directory
    missed,         \* history: changes of directories nobody watched
    overlapped,     \* history: two threads rebuilt or published at a time
    edits,          \* bound: changes so far
    publishes       \* bound: publications of the network thread so far

serverVars == <<notified, watching, timer, phase>>
treeVars == <<fileTree, outgoing, retained, publishes>>
vars == <<disk, notified, watching, timer, work, phase, fileTree, outgoing, retained,
          scanned, missed, overlapped, edits, publishes>>

Dirs == 1 .. NumDirs
Tree == [Dirs -> Nat]
Threads == Timers \union {Main}
Places == {"free", "waiting", "woken", "build", "render", "publish"}
Work == [pc : Places, dir : Dirs, next : 1 .. NumDirs + 1, tree : Tree]
Phases == {"build", "watch", "running", "stopping", "stopped"}

ASSUME SentinelAssumption == NoTree \notin Tree

NothingRead == [d \in Dirs |-> 0]
Free == [pc |-> "free", dir |-> 1, next |-> 1, tree |-> NothingRead]
Build(d) == [Free EXCEPT !.pc = "build", !.dir = d]

Init ==
    /\ disk = [d \in Dirs |-> 1]
    /\ notified = {}
    /\ watching = {}
    /\ timer = [d \in Dirs |-> NoTimer]
    /\ work = [t \in Threads |-> IF t = Main THEN Build(1) ELSE Free]
    /\ phase = "build"
    /\ fileTree = NoTree
    /\ outgoing = NoTree
    /\ retained = NoTree
    /\ scanned = NothingRead
    /\ missed = {}
    /\ overlapped = FALSE
    /\ edits = 0
    /\ publishes = 0

\* A file that is not ignored is created, changed or removed.
Change(d) ==
    /\ edits < MaxEdits /\ phase # "stopped"
    /\ disk' = [disk EXCEPT ![d] = @ + 1]
    /\ edits' = edits + 1
    /\ IF d \in watching
       THEN notified' = notified \union {d} /\ UNCHANGED missed
       ELSE EarlyEdits /\ missed' = missed \union {d} /\ UNCHANGED notified
    /\ UNCHANGED <<watching, timer, work, phase, scanned, overlapped>>
    /\ UNCHANGED treeVars

-----------------------------------------------------------------------------
(* watcher.py                                                              *)

\* Timer.cancel: of no effect once the thread has woken up.
Cancelled(d) ==
    IF timer[d] # NoTimer /\ work[timer[d]].pc = "waiting"
    THEN [work EXCEPT ![timer[d]] = Free]
    ELSE work

\* mutant: a timer that was cancelled is not armed again
ArmMutant(d, t) == IF timer[d] = NoTimer
                   THEN [work EXCEPT ![t] = [Free EXCEPT !.pc = "waiting", !.dir = d]]
                   ELSE Cancelled(d)
\* The threads after _on_event.
Arm(d, t) == [Cancelled(d) EXCEPT ![t] = [Free EXCEPT !.pc = "waiting", !.dir = d]]

\* dispatch and _on_event, under the watcher's lock.
OnEvent(d, t) ==
    /\ d \in notified /\ work[t].pc = "free"
    /\ notified' = notified \ {d}
    /\ work' = Arm(d, t)
    /\ timer' = [timer EXCEPT ![d] = t]
    /\ UNCHANGED <<disk, watching, phase, scanned, missed, overlapped, edits>>
    /\ UNCHANGED treeVars

\* debounce_seconds are over.
Wake(t) ==
    /\ work[t].pc = "waiting"
    /\ work' = [work EXCEPT ![t].pc = "woken"]
    /\ UNCHANGED <<disk, scanned, missed, overlapped, edits>>
    /\ UNCHANGED serverVars /\ UNCHANGED treeVars

\* A thread that rebuilds or publishes the tree.
Busy == outgoing # NoTree \/ \E t \in Threads : work[t].pc \in {"build", "render", "publish"}

ForgetMutant(d) == timer   \* mutant: _timer is left as it is
\* self._timer = None
Forget(d) == [timer EXCEPT ![d] = NoTimer]

\* _fire: forget the timer, whichever it is now, then call back.
Fire(t) ==
    /\ work[t].pc = "woken"
    /\ timer' = Forget(work[t].dir)
    /\ work' = [work EXCEPT ![t] = Build(work[t].dir)]
    /\ overlapped' = (overlapped \/ Busy)
    /\ UNCHANGED <<disk, notified, watching, phase, scanned, missed, edits>>
    /\ UNCHANGED treeVars

-----------------------------------------------------------------------------
(* server.py                                                               *)

OpenedMutant(d) == {d} \intersect watching   \* mutant: every platform is like Linux
\* What scan's reading of the files tells a watcher, whose dispatch takes
\* events of every kind.
Opened(d) == IF OpenEvents THEN {d} \intersect watching ELSE {}

\* _build_tree reads the next directory.
Scan(t) ==
    /\ work[t].pc = "build" /\ work[t].next \in Dirs
    /\ LET d == work[t].next
       IN  /\ work' = [work EXCEPT ![t].tree[d] = disk[d], ![t].next = d + 1]
           /\ scanned' = [scanned EXCEPT ![d] = disk[d]]
           /\ missed' = missed \ {d}
           /\ notified' = notified \union Opened(d)
    /\ UNCHANGED <<disk, watching, timer, phase, overlapped, edits>>
    /\ UNCHANGED treeVars

AfterBuildMutant(t) == Free   \* mutant: the tree is rebuilt and not published
\* What a thread does after _build_tree: publish, or start the server.
AfterBuild(t) == IF t = Main THEN Free ELSE [Free EXCEPT !.pc = "render"]

\* _build_tree stores the tree under _tree_lock.
Store(t) ==
    /\ work[t].pc = "build" /\ work[t].next \notin Dirs
    /\ fileTree' = work[t].tree
    /\ work' = [work EXCEPT ![t] = AfterBuild(t)]
    /\ phase' = IF t = Main THEN "watch" ELSE phase
    /\ UNCHANGED <<disk, notified, watching, timer, outgoing, retained, scanned, missed,
                   overlapped, edits, publishes>>

\* _publish_tree reads the tree under _tree_lock ...
Render(t) ==
    /\ work[t].pc = "render"
    /\ work' = [work EXCEPT ![t].pc = "publish", ![t].tree = fileTree]
    /\ UNCHANGED <<disk, scanned, missed, overlapped, edits>>
    /\ UNCHANGED serverVars /\ UNCHANGED treeVars

\* ... and publishes it without; nothing is sent after disconnect.
Publish(t) ==
    /\ work[t].pc = "publish"
    /\ work' = [work EXCEPT ![t] = Free]
    /\ retained' = IF phase = "stopped" THEN retained ELSE work[t].tree
    /\ UNCHANGED <<disk, fileTree, outgoing, scanned, missed, overlapped, edits, publishes>>
    /\ UNCHANGED serverVars

\* The network thread in _publish_tree, from _on_connect or
\* _handle_auth_response.
NetRender ==
    /\ phase \in {"watch", "running", "stopping"}
    /\ outgoing = NoTree /\ publishes < MaxPublishes
    /\ outgoing' = fileTree
    /\ publishes' = publishes + 1
    /\ overlapped' = (overlapped \/ Busy)
    /\ UNCHANGED <<disk, work, fileTree, retained, scanned, missed, edits>>
    /\ UNCHANGED serverVars

NetPublish ==
    /\ outgoing # NoTree
    /\ retained' = outgoing
    /\ outgoing' = NoTree
    /\ UNCHANGED <<disk, work, fileTree, scanned, missed, overlapped, edits, publishes>>
    /\ UNCHANGED serverVars

\* start: the watchers one after the other.
StartWatcher(d) ==
    /\ phase = "watch" /\ watching = 1 .. d - 1
    /\ watching' = watching \union {d}
    /\ phase' = IF d = NumDirs THEN "running" ELSE phase
    /\ UNCHANGED <<disk, notified, timer, work, scanned, missed, overlapped, edits>>
    /\ UNCHANGED treeVars

\* KeyboardInterrupt in the service loop.
Interrupt ==
    /\ MayStop /\ phase = "running"
    /\ phase' = "stopping"
    /\ UNCHANGED <<disk, notified, watching, timer, work, scanned, missed, overlapped, edits>>
    /\ UNCHANGED treeVars

\* DirectoryWatcher.stop: join the observer, then cancel the timer.
StopWatcher(d) ==
    /\ phase = "stopping" /\ watching = d .. NumDirs
    /\ watching' = watching \ {d}
    /\ notified' = notified \ {d}
    /\ work' = Cancelled(d)
    /\ timer' = Forget(d)
    /\ UNCHANGED <<disk, phase, scanned, missed, overlapped, edits>>
    /\ UNCHANGED treeVars

\* loop_stop waits for the network thread; then disconnect.
Disconnect ==
    /\ phase = "stopping" /\ watching = {} /\ outgoing = NoTree
    /\ phase' = "stopped"
    /\ UNCHANGED <<disk, notified, watching, timer, work, scanned, missed, overlapped, edits>>
    /\ UNCHANGED treeVars

-----------------------------------------------------------------------------
TimerStep(t) == Wake(t) \/ Fire(t) \/ Scan(t) \/ Store(t) \/ Render(t) \/ Publish(t)

Observe == \E d \in Dirs, t \in Timers : OnEvent(d, t)

MainStep ==
    \/ Scan(Main) \/ Store(Main)
    \/ \E d \in Dirs : StartWatcher(d) \/ StopWatcher(d)
    \/ Disconnect

Next ==
    \/ \E d \in Dirs : Change(d)
    \/ Observe
    \/ \E t \in Timers : TimerStep(t)
    \/ MainStep \/ Interrupt
    \/ NetRender \/ NetPublish

Spec == Init /\ [][Next]_vars

\* Every thread runs: the timers, the observers, main and network.
FairSpec ==
    /\ Spec
    /\ \A t \in Timers : WF_vars(TimerStep(t))
    /\ WF_vars(Observe) /\ WF_vars(MainStep) /\ WF_vars(NetPublish)

-----------------------------------------------------------------------------
(* Properties.                                                             *)

\* Every variable has its type, and a watcher's _timer is a timer of its own
\* that has not called back yet.
TypeOK ==
    /\ disk \in Tree /\ scanned \in Tree
    /\ notified \subseteq watching /\ watching \subseteq Dirs /\ missed \subseteq Dirs
    /\ timer \in [Dirs -> Timers \union {NoTimer}]
    /\ work \in [Threads -> Work]
    /\ phase \in Phases /\ overlapped \in BOOLEAN
    /\ {fileTree, outgoing, retained} \subseteq Tree \union {NoTree}
    /\ edits \in Nat /\ publishes \in Nat
    /\ \A d \in Dirs : timer[d] # NoTimer =>
         work[timer[d]].pc \in {"waiting", "woken"} /\ work[timer[d]].dir = d

\* A thread that is going to read directory d.
WillScan(t, d) ==
    \/ work[t].pc \in {"waiting", "woken"} /\ work[t].dir = d
    \/ work[t].pc = "build" /\ work[t].next <= d

\* However events, cancelled timers and callbacks interleave, a change of a
\* watched directory has been read, or is known to an event, a timer or a
\* callback that is going to read it.
ChangeCovered ==
    \A d \in watching \ missed :
        \/ scanned[d] = disk[d]
        \/ d \in notified
        \/ \E t \in Timers : WillScan(t, d)

Quiet ==
    /\ phase = "running" /\ notified = {}
    /\ \A t \in Timers : work[t].pc = "free"
    /\ outgoing = NoTree /\ retained # NoTree

\* When nothing is under way, the retained tree is the disk's, as long as no
\* two threads rebuilt or published at a time.
RetainedUnlessOverlap == Quiet /\ ~overlapped /\ missed = {} => retained = disk

\* A change of a watched directory is eventually read.
ChangeRead ==
    \A d \in Dirs : (phase = "running" /\ d \notin missed /\ scanned[d] # disk[d])
                      ~> (scanned[d] = disk[d] \/ phase # "running")

AtRest == notified = {} /\ \A t \in Timers : work[t].pc = "free"

\* watcher.py:16, "Watches a directory tree for changes": once nothing changes
\* any more, the watchers come to rest.
Settles == <>[]AtRest

\* server.py:405, "Publish the current file tree as a retained message": when
\* nothing is under way the retained tree is the disk's.
RetainedIsCurrent == Quiet => retained = disk

=============================================================================
