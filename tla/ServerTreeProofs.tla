-------------------------- MODULE ServerTreeProofs --------------------------
(***************************************************************************)
(* Theorems about ServerTree, for every number of directories, timers and  *)
(* changes.                                                                *)
(***************************************************************************)
EXTENDS ServerTree, TLAPS

\* A thread with nothing to do, an armed timer and a rebuild are threads' states.
LEMMA WorkTypes ==
    /\ Free \in Work
    /\ \A d \in Dirs : /\ Build(d) \in Work
                       /\ [Free EXCEPT !.pc = "waiting", !.dir = d] \in Work
    /\ [Free EXCEPT !.pc = "render"] \in Work
<1>1. NothingRead \in Tree
  BY DEF NothingRead, Tree
<1>2. 1 \in Dirs /\ 1 \in 1 .. NumDirs + 1
  BY DirsAssumption DEF Dirs
<1>3. Free \in Work
  BY <1>1, <1>2 DEF Free, Work, Places
<1> QED
  BY <1>1, <1>2, <1>3 DEF Free, Build, Work, Places

\* Cancelling a watcher's timer frees that thread, if it still waits, and
\* leaves the others alone.
LEMMA CancelledWork ==
    ASSUME TypeOK, NEW d \in Dirs
    PROVE  /\ Cancelled(d) \in [Threads -> Work]
           /\ \A t \in Threads :
                \/ Cancelled(d)[t] = work[t]
                \/ /\ Cancelled(d)[t] = Free
                   /\ t = timer[d] /\ t \in Timers /\ work[t].pc = "waiting"
<1>1. work \in [Threads -> Work] /\ timer[d] \in Timers \union {NoTimer}
  BY DEF TypeOK
<1> QED
  BY <1>1, WorkTypes DEF Cancelled, Threads

\* The initial state has the types.
LEMMA InitType == Init => TypeOK
<1> SUFFICES ASSUME Init PROVE TypeOK
  OBVIOUS
<1>1. disk \in Tree /\ scanned \in Tree
  BY DEF Init, Tree, NothingRead
<1>2. work \in [Threads -> Work]
  <2>1. 1 \in Dirs
    BY DirsAssumption DEF Dirs
  <2> QED
    BY <2>1, WorkTypes DEF Init
<1> QED
  BY <1>1, <1>2 DEF Init, TypeOK, Phases

\* Nobody but main runs before the first tree is there.
Started ==
    /\ phase = "build" => watching = {} /\ \A t \in Timers : work[t].pc = "free"
    /\ phase # "build" => fileTree \in Tree /\ work[Main].pc = "free"

\* The part of TypeOK about the watchers' timers.
TimersOK ==
    \A d \in Dirs : timer[d] # NoTimer =>
         work[timer[d]].pc \in {"waiting", "woken"} /\ work[timer[d]].dir = d

\* Events and timers keep types.
LEMMA WatcherType ==
    ASSUME TypeOK, NEW d \in Dirs, NEW t \in Timers,
           OnEvent(d, t) \/ Wake(t) \/ Fire(t)
    PROVE  TypeOK'
<1> t \in Threads
  BY DEF Threads
<1>1. CASE OnEvent(d, t)
  <2> DEFINE armed == [Free EXCEPT !.pc = "waiting", !.dir = d]
  <2>1. work' = [Cancelled(d) EXCEPT ![t] = armed]
    BY <1>1 DEF OnEvent, Arm
  <2>2. armed \in Work /\ armed.pc = "waiting" /\ armed.dir = d
    BY WorkTypes DEF Free
  <2> HIDE DEF armed
  <2>3. work' \in [Threads -> Work]
    BY <2>1, <2>2, CancelledWork
  <2>4. timer' = [timer EXCEPT ![d] = t]
    BY <1>1 DEF OnEvent
  <2>5. TimersOK'
    <3> SUFFICES ASSUME NEW e \in Dirs, timer'[e] # NoTimer
                 PROVE  work'[timer'[e]].pc \in {"waiting", "woken"} /\ work'[timer'[e]].dir = e
      BY DEF TimersOK
    <3>1. CASE e = d
      BY <2>1, <2>2, <2>4, <3>1, CancelledWork DEF TypeOK
    <3>2. CASE e # d
      <4>1. timer'[e] = timer[e] /\ timer[e] \in Timers
        BY <2>4, <3>2 DEF TypeOK
      <4>2. work[timer[e]].pc \in {"waiting", "woken"} /\ work[timer[e]].dir = e
        BY <4>1 DEF TypeOK
      <4>3. timer[e] # t
        BY <1>1, <4>2 DEF OnEvent
      <4>4. timer[e] # timer[d]
        BY <3>2, <4>1, <4>2 DEF TypeOK
      <4>5. work'[timer[e]] = work[timer[e]]
        BY <2>1, <4>1, <4>3, <4>4, CancelledWork DEF Threads
      <4> QED
        BY <4>1, <4>2, <4>5
    <3> QED
      BY <3>1, <3>2
  <2> QED
    BY <1>1, <2>3, <2>4, <2>5 DEF OnEvent, TypeOK, TimersOK, treeVars
<1>2. CASE Wake(t)
  <2>1. work' \in [Threads -> Work]
    BY <1>2 DEF Wake, TypeOK, Work, Places
  <2>2. TimersOK'
    BY <1>2 DEF Wake, TypeOK, TimersOK, serverVars, Threads, Work
  <2> QED
    BY <1>2, <2>1, <2>2 DEF Wake, TypeOK, TimersOK, serverVars, treeVars
<1>3. CASE Fire(t)
  <2>1. work[t].dir \in Dirs /\ work[t].pc = "woken"
    BY <1>3 DEF Fire, TypeOK, Work
  <2>2. work' \in [Threads -> Work]
    BY <1>3, <2>1, WorkTypes DEF Fire, TypeOK
  <2>3. timer' = [timer EXCEPT ![work[t].dir] = NoTimer]
    BY <1>3 DEF Fire, Forget
  <2>4. TimersOK'
    <3> SUFFICES ASSUME NEW e \in Dirs, timer'[e] # NoTimer
                 PROVE  work'[timer'[e]].pc \in {"waiting", "woken"} /\ work'[timer'[e]].dir = e
      BY DEF TimersOK
    <3>1. e # work[t].dir /\ timer'[e] = timer[e] /\ timer[e] \in Timers
      BY <2>1, <2>3 DEF TypeOK
    <3>2. work[timer[e]].pc \in {"waiting", "woken"} /\ work[timer[e]].dir = e
      BY <3>1 DEF TypeOK
    <3>3. timer[e] # t
      BY <3>1, <3>2
    <3> QED
      BY <1>3, <3>1, <3>2, <3>3 DEF Fire, TypeOK, Threads
  <2>5. overlapped' \in BOOLEAN
    BY <1>3 DEF Fire, TypeOK, Busy
  <2> QED
    BY <1>3, <2>2, <2>3, <2>4, <2>5 DEF Fire, TypeOK, TimersOK, treeVars
<1> QED
  BY <1>1, <1>2, <1>3

\* A step of a thread that is no timer's wait keeps the watchers' timers.
LEMMA TimersFrame ==
    ASSUME TypeOK, NEW t \in Threads, work[t].pc \in {"build", "render", "publish"},
           UNCHANGED timer, NEW w, work' = [work EXCEPT ![t] = w]
    PROVE  TimersOK'
<1> SUFFICES ASSUME NEW e \in Dirs, timer'[e] # NoTimer
             PROVE  work'[timer'[e]].pc \in {"waiting", "woken"} /\ work'[timer'[e]].dir = e
  BY DEF TimersOK
<1>1. timer'[e] = timer[e] /\ timer[e] \in Timers
  BY DEF TypeOK
<1>2. work[timer[e]].pc \in {"waiting", "woken"} /\ work[timer[e]].dir = e
  BY <1>1 DEF TypeOK
<1> QED
  BY <1>1, <1>2 DEF TypeOK, Threads

\* Rebuilding and publishing keeps types.
LEMMA BuilderType ==
    ASSUME TypeOK, Started, NEW t \in Threads, Scan(t) \/ Store(t) \/ Publish(t) \/ (t \in Timers /\ Render(t))
    PROVE  TypeOK'
<1>0. work \in [Threads -> Work] /\ work[t] \in Work
  BY DEF TypeOK
<1>1. CASE Scan(t)
  <2> DEFINE d == work[t].next
             tr == [work[t].tree EXCEPT ![d] = disk[d]]
             w == [work[t] EXCEPT !.tree = tr, !.next = d + 1]
  <2>1. d \in Dirs /\ disk[d] \in Nat
    BY <1>1 DEF Scan, TypeOK, Tree
  <2>2. work' = [work EXCEPT ![t] = w]
    BY <1>0, <1>1 DEF Scan
  <2>3. w \in Work
    <3>1. tr \in Tree
      BY <1>0, <2>1 DEF Work, Tree
    <3>2. d + 1 \in 1 .. NumDirs + 1
      BY <2>1, DirsAssumption DEF Dirs
    <3> HIDE DEF tr
    <3> QED
      BY <1>0, <3>1, <3>2 DEF Work
  <2>4. scanned' \in Tree /\ missed' \subseteq Dirs
    BY <1>1, <2>1 DEF Scan, TypeOK, Tree
  <2> HIDE DEF w
  <2>5. TimersOK'
    BY <1>1, <2>2, TimersFrame DEF Scan, serverVars
  <2>6. work' \in [Threads -> Work]
    BY <1>0, <2>2, <2>3
  <2>7. UNCHANGED <<disk, watching, timer, phase, overlapped, edits, treeVars>>
    BY <1>1 DEF Scan
  <2>8. notified' \subseteq watching'
    BY <1>1 DEF Scan, Opened, TypeOK
  <2> QED
    BY <2>4, <2>5, <2>6, <2>7, <2>8 DEF TypeOK, TimersOK, treeVars
<1>2. CASE Store(t)
  <2>1. work' = [work EXCEPT ![t] = AfterBuild(t)]
    BY <1>2 DEF Store
  <2>2. AfterBuild(t) \in Work
    BY WorkTypes DEF AfterBuild
  <2>3. TimersOK'
    BY <1>2, <2>1, TimersFrame DEF Store
  <2>4. fileTree' \in Tree
    BY <1>0, <1>2 DEF Store, Work
  <2>5. phase' \in Phases
    BY <1>2 DEF Store, TypeOK, Phases
  <2> QED
    BY <1>0, <1>2, <2>1, <2>2, <2>3, <2>4, <2>5 DEF Store, TypeOK, TimersOK
<1>3. CASE t \in Timers /\ Render(t)
  <2> DEFINE w == [work[t] EXCEPT !.pc = "publish", !.tree = fileTree]
  <2>1. work' = [work EXCEPT ![t] = w]
    BY <1>0, <1>3 DEF Render
  <2>2. fileTree \in Tree
    BY <1>3 DEF Render, Started
  <2>3. w \in Work
    BY <1>0, <2>2 DEF Work, Places
  <2> HIDE DEF w
  <2>4. TimersOK'
    BY <1>3, <2>1, TimersFrame DEF Render, serverVars
  <2>5. work' \in [Threads -> Work]
    BY <1>0, <2>1, <2>3
  <2>6. UNCHANGED <<disk, scanned, missed, overlapped, edits, serverVars, treeVars>>
    BY <1>3 DEF Render
  <2> QED
    BY <2>4, <2>5, <2>6 DEF TypeOK, TimersOK, serverVars, treeVars
<1>4. CASE Publish(t)
  <2>1. work' = [work EXCEPT ![t] = Free]
    BY <1>4 DEF Publish
  <2>2. TimersOK'
    BY <1>4, <2>1, TimersFrame DEF Publish, serverVars
  <2>3. retained' \in Tree \union {NoTree}
    BY <1>0, <1>4 DEF Publish, TypeOK, Work
  <2>4. work' \in [Threads -> Work]
    BY <1>0, <2>1, WorkTypes
  <2>5. UNCHANGED <<disk, fileTree, outgoing, scanned, missed, overlapped, edits,
                    publishes, serverVars>>
    BY <1>4 DEF Publish
  <2> QED
    BY <2>2, <2>3, <2>4, <2>5 DEF TypeOK, TimersOK, serverVars
<1> QED
  BY <1>1, <1>2, <1>3, <1>4

\* The network thread, and main after the first build, keep types.
LEMMA OthersType ==
    ASSUME TypeOK, Started,
           \/ NetRender \/ NetPublish \/ Interrupt \/ Disconnect
           \/ \E d \in Dirs : StartWatcher(d) \/ StopWatcher(d)
    PROVE  TypeOK'
<1>1. CASE NetRender
  <2>1. outgoing' \in Tree /\ publishes' \in Nat /\ overlapped' \in BOOLEAN
    BY <1>1 DEF NetRender, TypeOK, Started, Busy
  <2> QED
    BY <1>1, <2>1 DEF NetRender, TypeOK, serverVars
<1>2. CASE NetPublish
  BY <1>2 DEF NetPublish, TypeOK, serverVars
<1>3. CASE Interrupt \/ Disconnect
  BY <1>3 DEF Interrupt, Disconnect, TypeOK, treeVars, Phases
<1>4. ASSUME NEW d \in Dirs, StartWatcher(d) PROVE TypeOK'
  BY <1>4 DEF StartWatcher, TypeOK, treeVars, Phases
<1>5. ASSUME NEW d \in Dirs, StopWatcher(d) PROVE TypeOK'
  <2>1. work' = Cancelled(d) /\ timer' = [timer EXCEPT ![d] = NoTimer]
    BY <1>5 DEF StopWatcher, Forget
  <2>2. work' \in [Threads -> Work] /\ timer' \in [Dirs -> Timers \union {NoTimer}]
    BY <2>1, CancelledWork DEF TypeOK
  <2>3. TimersOK'
    <3> SUFFICES ASSUME NEW e \in Dirs, timer'[e] # NoTimer
                 PROVE  work'[timer'[e]].pc \in {"waiting", "woken"} /\ work'[timer'[e]].dir = e
      BY DEF TimersOK
    <3>1. e # d /\ timer'[e] = timer[e] /\ timer[e] \in Timers
      BY <2>1 DEF TypeOK
    <3>2. work[timer[e]].pc \in {"waiting", "woken"} /\ work[timer[e]].dir = e
      BY <3>1 DEF TypeOK
    <3>3. timer[e] # timer[d]
      BY <3>1, <3>2 DEF TypeOK
    <3> QED
      BY <2>1, <3>1, <3>2, <3>3, CancelledWork DEF Threads
  <2>4. /\ UNCHANGED <<disk, phase, scanned, missed, overlapped, edits, treeVars>>
        /\ watching' = watching \ {d} /\ notified' = notified \ {d}
    BY <1>5 DEF StopWatcher
  <2> QED
    BY <2>2, <2>3, <2>4 DEF TypeOK, TimersOK, treeVars
<1> QED
  BY <1>1, <1>2, <1>3, <1>4, <1>5

-----------------------------------------------------------------------------
(* What the invariants need, and its induction.                            *)

\* A directory nobody watches yet has been read as it is, unless it changed
\* since: what StartWatcher relies on.
UnwatchedRead ==
    \A d \in Dirs \ (watching \union missed) :
        phase = "watch" \/ (phase = "build" /\ work[Main].next > d) => scanned[d] = disk[d]

IInv == TypeOK /\ Started /\ UnwatchedRead /\ ChangeCovered

\* Every step keeps the order of the start.
LEMMA StartedStep == TypeOK /\ Started /\ [Next]_vars => Started'
<1> SUFFICES ASSUME TypeOK, Started, [Next]_vars PROVE Started'
  OBVIOUS
<1> USE ThreadsAssumption
<1>1. ASSUME NEW d \in Dirs, Change(d) PROVE Started'
  BY <1>1 DEF Change, Started, treeVars
<1>2. ASSUME NEW d \in Dirs, NEW t \in Timers, OnEvent(d, t) PROVE Started'
  <2>1. phase # "build" /\ phase' = phase /\ fileTree' = fileTree
    BY <1>2 DEF OnEvent, Started, TypeOK, treeVars
  <2>2. work'[Main] = work[Main]
    BY <1>2, CancelledWork DEF OnEvent, Arm, Started, TypeOK, Threads
  <2> QED
    BY <2>1, <2>2 DEF Started
<1>3. ASSUME NEW t \in Timers, TimerStep(t) PROVE Started'
  <2>1. work[t].pc # "free" /\ t # Main /\ t \in Threads
    BY <1>3 DEF TimerStep, Wake, Fire, Scan, Store, Render, Publish, Threads
  <2>2. phase # "build" /\ phase' = phase
    BY <1>3, <2>1 DEF TimerStep, Wake, Fire, Scan, Store, Render, Publish, Started, serverVars
  <2>3. work'[Main] = work[Main]
    BY <1>3, <2>1 DEF TimerStep, Wake, Fire, Scan, Store, Render, Publish, TypeOK, Threads
  <2>4. fileTree' \in Tree
    <3>1. CASE Store(t)
      BY <2>1, <3>1 DEF Store, TypeOK, Work
    <3>2. CASE ~Store(t)
      BY <1>3, <2>2, <3>2 DEF TimerStep, Wake, Fire, Scan, Render, Publish, Started, treeVars
    <3> QED
      BY <3>1, <3>2
  <2> QED
    BY <2>2, <2>3, <2>4 DEF Started
<1>4. CASE Scan(Main)
  <2>1. phase = "build"
    BY <1>4 DEF Scan, Started
  <2>2. phase' = "build" /\ watching' = {}
    BY <1>4, <2>1 DEF Scan, Started, serverVars
  <2>3. \A t \in Timers : work'[t].pc = "free"
    BY <1>4, <2>1 DEF Scan, Started, TypeOK, Threads
  <2> QED
    BY <2>2, <2>3 DEF Started
<1>5. CASE Store(Main)
  <2>1. phase' = "watch" /\ fileTree' \in Tree
    BY <1>5 DEF Store, TypeOK, Work, Threads
  <2>2. work'[Main] = Free
    BY <1>5 DEF Store, AfterBuild, TypeOK, Threads
  <2> QED
    BY <2>1, <2>2 DEF Started, Free
<1>6. ASSUME NEW d \in Dirs, StartWatcher(d) PROVE Started'
  BY <1>6 DEF StartWatcher, Started, treeVars
<1>7. ASSUME NEW d \in Dirs, StopWatcher(d) PROVE Started'
  <2>1. Cancelled(d)[Main] = work[Main]
    BY CancelledWork DEF TypeOK, Threads
  <2> QED
    BY <1>7, <2>1 DEF StopWatcher, Started, treeVars
<1>8. CASE NetRender \/ NetPublish \/ Interrupt \/ Disconnect \/ UNCHANGED vars
  BY <1>8 DEF NetRender, NetPublish, Interrupt, Disconnect, vars, Started, serverVars, treeVars
<1> QED
  BY <1>1, <1>2, <1>3, <1>4, <1>5, <1>6, <1>7, <1>8 DEF Next, Observe, MainStep

\* Every step keeps types.
LEMMA TypeStep == TypeOK /\ Started /\ [Next]_vars => TypeOK'
<1> SUFFICES ASSUME TypeOK, Started, [Next]_vars PROVE TypeOK'
  OBVIOUS
<1>1. CASE UNCHANGED vars
  BY <1>1 DEF vars, TypeOK
<1>2. Main \in Threads /\ Timers \subseteq Threads
  BY DEF Threads
<1>3. ASSUME NEW d \in Dirs, Change(d) PROVE TypeOK'
  <2>1. disk' \in Tree /\ edits' \in Nat
    BY <1>3 DEF Change, TypeOK, Tree
  <2>2. notified' \subseteq watching' /\ missed' \subseteq Dirs
    BY <1>3 DEF Change, TypeOK
  <2> QED
    BY <1>3, <2>1, <2>2 DEF Change, TypeOK, treeVars
<1>4. ASSUME NEW t \in Timers, TimerStep(t) PROVE TypeOK'
  <2>1. 1 \in Dirs
    BY DirsAssumption DEF Dirs
  <2> QED
    BY <1>2, <1>4, <2>1, WatcherType, BuilderType DEF TimerStep
<1>5. CASE Observe
  BY <1>5, WatcherType DEF Observe
<1>6. CASE MainStep
  BY <1>2, <1>6, BuilderType, OthersType DEF MainStep
<1>7. CASE Interrupt \/ NetRender \/ NetPublish
  BY <1>7, OthersType
<1> QED
  BY <1>1, <1>3, <1>4, <1>5, <1>6, <1>7 DEF Next

\* Every step keeps every change of a watched directory covered.
LEMMA CoveredStep == IInv /\ [Next]_vars => ChangeCovered'
<1> SUFFICES ASSUME IInv, [Next]_vars, NEW d \in watching', d \notin missed'
             PROVE  \/ scanned'[d] = disk'[d] \/ d \in notified'
                    \/ \E t \in Timers : WillScan(t, d)'
  BY DEF ChangeCovered
<1> USE DEF IInv
<1> DEFINE Covered == scanned[d] = disk[d] \/ d \in notified \/ \E t \in Timers : WillScan(t, d)
<1>0. d \in watching /\ d \notin missed => Covered
  BY DEF ChangeCovered
<1>a. d \in Dirs
  BY TypeStep DEF TypeOK
<1> HIDE DEF Covered
<1>1. ASSUME NEW e \in Dirs, Change(e)
      PROVE  \/ scanned'[d] = disk'[d] \/ d \in notified' \/ \E t \in Timers : WillScan(t, d)'
  <2>1. d \in watching /\ d \notin missed /\ UNCHANGED <<scanned, work>>
    BY <1>1 DEF Change
  <2>2. CASE d = e
    BY <1>1, <2>1, <2>2 DEF Change
  <2>3. CASE d # e
    <3>1. disk'[d] = disk[d] /\ (d \in notified => d \in notified')
      BY <1>1, <2>3 DEF Change, TypeOK, Tree
    <3>2. \A t \in Timers : WillScan(t, d) => WillScan(t, d)'
      BY <2>1 DEF WillScan
    <3> QED
      BY <1>0, <2>1, <3>1, <3>2 DEF Covered
  <2> QED
    BY <2>2, <2>3
<1>2. ASSUME NEW e \in Dirs, NEW u \in Timers, OnEvent(e, u)
      PROVE  \/ scanned'[d] = disk'[d] \/ d \in notified' \/ \E t \in Timers : WillScan(t, d)'
  <2>1. /\ d \in watching /\ d \notin missed /\ UNCHANGED <<scanned, disk>>
        /\ work[u].pc = "free" /\ u \in Threads /\ notified' = notified \ {e}
    BY <1>2 DEF OnEvent, Threads
  <2> DEFINE armed == [Free EXCEPT !.pc = "waiting", !.dir = e]
  <2>2. work' = [Cancelled(e) EXCEPT ![u] = armed]
    BY <1>2 DEF OnEvent, Arm
  <2>3. armed.pc = "waiting" /\ armed.dir = e
    BY DEF Free
  <2> HIDE DEF armed
  <2>4. CASE d = e
    <3>1. work'[u] = armed
      BY <2>1, <2>2, CancelledWork
    <3>2. WillScan(u, d)'
      BY <2>3, <2>4, <3>1 DEF WillScan
    <3> QED
      BY <3>2
  <2>5. CASE d # e
    <3>1. ASSUME NEW t \in Timers, WillScan(t, d) PROVE WillScan(t, d)'
      <4>1. t # u /\ t \in Threads
        BY <2>1, <3>1 DEF WillScan, Threads
      <4>2. Cancelled(e)[t] = work[t]
        <5>1. CASE t = timer[e] /\ work[t].pc = "waiting"
          BY <2>5, <3>1, <5>1, ThreadsAssumption DEF WillScan, TypeOK
        <5> QED
          BY <4>1, <5>1, CancelledWork
      <4>3. work'[t] = work[t]
        BY <2>2, <4>1, <4>2, CancelledWork
      <4> QED
        BY <3>1, <4>3 DEF WillScan
    <3> QED
      BY <1>0, <2>1, <2>5, <3>1 DEF Covered
  <2> QED
    BY <2>4, <2>5
<1>3. ASSUME NEW u \in Timers, Wake(u) \/ Fire(u)
      PROVE  \/ scanned'[d] = disk'[d] \/ d \in notified' \/ \E t \in Timers : WillScan(t, d)'
  <2>1. /\ d \in watching /\ d \notin missed /\ UNCHANGED <<scanned, disk, notified>>
        /\ u \in Threads
    BY <1>3 DEF Wake, Fire, serverVars, Threads
  <2>2. ASSUME NEW t \in Timers, WillScan(t, d) PROVE WillScan(t, d)'
    <3>1. CASE t # u
      BY <1>3, <2>1, <2>2, <3>1 DEF Wake, Fire, WillScan, TypeOK, Threads
    <3>2. CASE t = u /\ Wake(u)
      BY <2>1, <2>2, <3>2 DEF Wake, WillScan, TypeOK, Work
    <3>3. CASE t = u /\ Fire(u)
      <4>1. work'[u].pc = "build" /\ work'[u].next = 1
        BY <2>1, <3>3 DEF Fire, Build, Free, TypeOK
      <4> QED
        BY <1>a, <3>3, <4>1 DEF WillScan, Dirs
    <3> QED
      BY <1>3, <3>1, <3>2, <3>3
  <2> QED
    BY <1>0, <2>1, <2>2 DEF Covered
<1>4. ASSUME NEW u \in Threads, Scan(u)
      PROVE  \/ scanned'[d] = disk'[d] \/ d \in notified' \/ \E t \in Timers : WillScan(t, d)'
  <2>1. d \in watching /\ UNCHANGED disk /\ notified \subseteq notified'
    BY <1>4 DEF Scan
  <2> DEFINE n == work[u].next
  <2>2. n \in Dirs /\ scanned' = [scanned EXCEPT ![n] = disk[n]] /\ missed' = missed \ {n}
    BY <1>4 DEF Scan
  <2>3. CASE d = n
    BY <2>1, <2>2, <2>3 DEF TypeOK, Tree
  <2>4. CASE d # n
    <3>1. scanned'[d] = scanned[d] /\ d \notin missed
      BY <2>2, <2>4 DEF TypeOK, Tree
    <3>2. ASSUME NEW t \in Timers, WillScan(t, d) PROVE WillScan(t, d)'
      <4>1. CASE t # u
        BY <1>4, <3>2, <4>1 DEF Scan, WillScan, TypeOK, Threads
      <4>2. CASE t = u
        <5>1. work[u].pc = "build" /\ work[u] \in Work
          BY <1>4 DEF Scan, TypeOK
        <5>2. n <= d
          BY <3>2, <4>2, <5>1 DEF WillScan
        <5>3. work'[u].pc = "build" /\ work'[u].next = n + 1
          BY <1>4, <5>1 DEF Scan, TypeOK, Work
        <5> QED
          BY <1>a, <2>2, <2>4, <4>2, <5>2, <5>3 DEF WillScan, Dirs
      <4> QED
        BY <4>1, <4>2
    <3> QED
      BY <1>0, <2>1, <3>1, <3>2 DEF Covered
  <2> QED
    BY <2>3, <2>4
<1>5. ASSUME NEW u \in Threads, Store(u) \/ Render(u) \/ Publish(u)
      PROVE  \/ scanned'[d] = disk'[d] \/ d \in notified' \/ \E t \in Timers : WillScan(t, d)'
  <2>1. d \in watching /\ d \notin missed /\ UNCHANGED <<scanned, disk, notified>>
    BY <1>5 DEF Store, Render, Publish, serverVars
  <2>2. \A t \in Timers : t # u => work'[t] = work[t]
    BY <1>5 DEF Store, Render, Publish, TypeOK, Threads
  <2>3. ~WillScan(u, d)
    <3>1. work[u].next \in 1 .. NumDirs + 1
      BY DEF TypeOK, Work
    <3>2. CASE Store(u)
      BY <1>a, <3>1, <3>2, DirsAssumption DEF Store, WillScan, Dirs
    <3>3. CASE Render(u) \/ Publish(u)
      BY <3>3 DEF Render, Publish, WillScan
    <3> QED
      BY <1>5, <3>2, <3>3
  <2>4. ASSUME NEW t \in Timers, WillScan(t, d) PROVE WillScan(t, d)'
    BY <2>2, <2>3, <2>4 DEF WillScan
  <2> QED
    BY <1>0, <2>1, <2>4 DEF Covered
<1>6. ASSUME NEW e \in Dirs, StartWatcher(e)
      PROVE  \/ scanned'[d] = disk'[d] \/ d \in notified' \/ \E t \in Timers : WillScan(t, d)'
  <2>1. /\ phase = "watch" /\ watching' = watching \union {e} /\ d \notin missed
        /\ UNCHANGED <<scanned, disk, notified, work>>
    BY <1>6 DEF StartWatcher
  <2>2. CASE d \in watching
    <3>1. ASSUME NEW t \in Timers, WillScan(t, d) PROVE WillScan(t, d)'
      BY <2>1, <3>1 DEF WillScan
    <3> QED
      BY <1>0, <2>1, <2>2, <3>1 DEF Covered
  <2>3. CASE d \notin watching
    BY <1>a, <2>1, <2>3 DEF UnwatchedRead
  <2> QED
    BY <2>2, <2>3
<1>7. ASSUME NEW e \in Dirs, StopWatcher(e)
      PROVE  \/ scanned'[d] = disk'[d] \/ d \in notified' \/ \E t \in Timers : WillScan(t, d)'
  <2>1. /\ d \in watching /\ d # e /\ d \notin missed /\ UNCHANGED <<scanned, disk>>
        /\ notified' = notified \ {e} /\ work' = Cancelled(e)
    BY <1>7 DEF StopWatcher
  <2>2. ASSUME NEW t \in Timers, WillScan(t, d) PROVE WillScan(t, d)'
    <3>1. ~(t = timer[e] /\ work[t].pc = "waiting")
      BY <2>1, <2>2, ThreadsAssumption DEF WillScan, TypeOK
    <3>2. work'[t] = work[t]
      BY <2>1, <3>1, CancelledWork DEF Threads
    <3> QED
      BY <2>2, <3>2 DEF WillScan
  <2> QED
    BY <1>0, <2>1, <2>2 DEF Covered
<1>8. CASE NetRender \/ NetPublish \/ Interrupt \/ Disconnect \/ UNCHANGED vars
  <2>1. d \in watching /\ d \notin missed /\ UNCHANGED <<scanned, disk, notified, work>>
    BY <1>8 DEF NetRender, NetPublish, Interrupt, Disconnect, vars, serverVars
  <2>2. ASSUME NEW t \in Timers, WillScan(t, d) PROVE WillScan(t, d)'
    BY <2>1, <2>2 DEF WillScan
  <2> QED
    BY <1>0, <2>1, <2>2 DEF Covered
<1> QED
  BY <1>1, <1>2, <1>3, <1>4, <1>5, <1>6, <1>7, <1>8 DEF Next, Observe, MainStep, TimerStep, Threads

\* Every step keeps what is known of the directories nobody watches.
LEMMA UnwatchedStep == IInv /\ [Next]_vars => UnwatchedRead'
<1> SUFFICES ASSUME IInv, [Next]_vars, NEW d \in Dirs, d \notin watching', d \notin missed',
                    phase' = "watch" \/ (phase' = "build" /\ work'[Main].next > d)
             PROVE  scanned'[d] = disk'[d]
  BY DEF UnwatchedRead
<1> USE ThreadsAssumption DEF IInv
<1>0. /\ d \notin watching /\ d \notin missed
      /\ phase = "watch" \/ (phase = "build" /\ work[Main].next > d)
      => scanned[d] = disk[d]
  BY DEF UnwatchedRead
<1>1. ASSUME NEW e \in Dirs, Change(e) PROVE scanned'[d] = disk'[d]
  <2>1. d # e /\ d \notin watching /\ d \notin missed /\ UNCHANGED <<scanned, work, phase>>
    BY <1>1 DEF Change
  <2>2. disk'[d] = disk[d]
    BY <1>1, <2>1 DEF Change, TypeOK, Tree
  <2> QED
    BY <1>0, <2>1, <2>2
<1>2. ASSUME NEW e \in Dirs, NEW u \in Timers, OnEvent(e, u) PROVE scanned'[d] = disk'[d]
  <2>1. work'[Main] = work[Main]
    BY <1>2, CancelledWork DEF OnEvent, Arm, TypeOK, Threads
  <2> QED
    BY <1>0, <1>2, <2>1 DEF OnEvent
<1>3. ASSUME NEW u \in Timers, Wake(u) \/ Fire(u) PROVE scanned'[d] = disk'[d]
  <2>1. work'[Main] = work[Main]
    BY <1>3 DEF Wake, Fire, TypeOK, Threads
  <2> QED
    BY <1>0, <1>3, <2>1 DEF Wake, Fire, serverVars
<1>4. ASSUME NEW u \in Threads, Scan(u) PROVE scanned'[d] = disk'[d]
  <2> DEFINE n == work[u].next
  <2>1. /\ n \in Dirs /\ scanned' = [scanned EXCEPT ![n] = disk[n]] /\ missed' = missed \ {n}
        /\ UNCHANGED <<disk, watching, phase>>
    BY <1>4 DEF Scan, serverVars
  <2>2. CASE d = n
    BY <2>1, <2>2 DEF TypeOK, Tree
  <2>3. CASE d # n
    <3>1. scanned'[d] = scanned[d] /\ d \notin missed
      BY <2>1, <2>3 DEF TypeOK, Tree
    <3>2. work'[Main].next > d => work[Main].next > d
      <4>1. CASE u = Main
        <5>1. work'[Main].next = n + 1
          BY <1>4, <4>1 DEF Scan, TypeOK, Work
        <5> QED
          BY <2>1, <2>3, <4>1, <5>1 DEF Dirs
      <4>2. CASE u # Main
        BY <1>4, <4>2 DEF Scan, TypeOK, Threads
      <4> QED
        BY <4>1, <4>2
    <3> QED
      BY <1>0, <2>1, <3>1, <3>2
  <2> QED
    BY <2>2, <2>3
<1>5. ASSUME NEW u \in Threads, Store(u) PROVE scanned'[d] = disk'[d]
  <2>1. UNCHANGED <<disk, watching, scanned, missed>>
    BY <1>5 DEF Store
  <2>2. CASE u = Main
    <3>1. phase = "build" \/ phase = "watch"
      BY <1>5, <2>2 DEF Store, Started
    <3>2. work[Main].next > d
      <4>1. work[Main].next \in 1 .. NumDirs + 1 /\ work[Main].next \notin Dirs
        BY <1>5, <2>2 DEF Store, TypeOK, Work
      <4> QED
        BY <4>1, DirsAssumption DEF Dirs
    <3> QED
      BY <1>0, <2>1, <3>1, <3>2
  <2>3. CASE u # Main
    BY <1>0, <1>5, <2>1, <2>3 DEF Store, TypeOK, Threads
  <2> QED
    BY <2>2, <2>3
<1>6. ASSUME NEW u \in Timers, Render(u) \/ Publish(u) PROVE scanned'[d] = disk'[d]
  <2>1. work'[Main] = work[Main]
    BY <1>6 DEF Render, Publish, TypeOK, Threads
  <2> QED
    BY <1>0, <1>6, <2>1 DEF Render, Publish, serverVars
<1>7. ASSUME NEW e \in Dirs, StartWatcher(e) PROVE scanned'[d] = disk'[d]
  BY <1>0, <1>7 DEF StartWatcher
<1>8. ASSUME NEW e \in Dirs, StopWatcher(e) PROVE scanned'[d] = disk'[d]
  BY <1>8 DEF StopWatcher
<1>9. CASE NetRender \/ NetPublish \/ Interrupt \/ Disconnect \/ UNCHANGED vars
  BY <1>0, <1>9 DEF NetRender, NetPublish, Interrupt, Disconnect, vars, serverVars
<1> QED
  BY <1>1, <1>2, <1>3, <1>4, <1>5, <1>6, <1>7, <1>8, <1>9
     DEF Next, Observe, MainStep, TimerStep, Threads

-----------------------------------------------------------------------------
(* The theorems.                                                           *)

\* The initial state satisfies the invariant: the directories are still to
\* be read, and nobody watches them.
LEMMA InitIInv == Init => IInv
<1> SUFFICES ASSUME Init PROVE IInv
  OBVIOUS
<1>1. work[Main].next = 1
  BY DEF Init, Threads, Build, Free
<1>2. \A t \in Timers : work[t].pc = "free"
  BY ThreadsAssumption DEF Init, Threads, Free
<1>3. Started
  BY <1>2 DEF Init, Started
<1>4. UnwatchedRead
  BY <1>1 DEF Init, UnwatchedRead, Dirs
<1>5. ChangeCovered
  BY DEF Init, ChangeCovered
<1> QED
  BY <1>3, <1>4, <1>5, InitType DEF IInv

\* The invariant holds: every step keeps its four parts.
LEMMA Inductive == Spec => []IInv
<1>1. IInv /\ [Next]_vars => IInv'
  BY TypeStep, StartedStep, UnwatchedStep, CoveredStep DEF IInv
<1> QED
  BY <1>1, InitIInv, PTL DEF Spec

\* The threads of server.py and watcher.py keep the types, and a watcher's
\* _timer is always a timer of that watcher that has not called back: for any
\* number of directories and timers, under every interleaving of _on_event,
\* _fire, stop and the rebuilds.
THEOREM TreeTypeCorrect == Spec => []TypeOK
<1>1. IInv => TypeOK
  BY DEF IInv
<1> QED
  BY <1>1, Inductive, PTL

\* No change of a watched directory is forgotten: however many directories
\* change while timers are cancelled, re-armed, fire and rebuild, the change
\* has been read or an event, a timer or a rebuild still has to read it.
THEOREM ChangesAreCovered == Spec => []ChangeCovered
<1>1. IInv => ChangeCovered
  BY DEF IInv
<1> QED
  BY <1>1, Inductive, PTL

-----------------------------------------------------------------------------
(* The retained tree.                                                      *)

\* The main thread's progress, as far as the tree depends on it.
Progress ==
    /\ phase = "build" => outgoing = NoTree /\ retained = NoTree
    /\ phase = "running" => watching = Dirs

\* A thread that rebuilds or publishes.
Works(t) == work[t].pc \in {"build", "render", "publish"}

\* Unless threads overlap, one at a time rebuilds or publishes.
Alone ==
    /\ \A t, u \in Threads : Works(t) /\ Works(u) => t = u
    /\ outgoing # NoTree => \A t \in Threads : ~Works(t)

\* What such a thread holds is what has been read, and what no thread is about
\* to replace has been replaced by it.
Latest ==
    /\ \A t \in Threads : work[t].pc = "build" =>
         \A d \in Dirs : d < work[t].next => work[t].tree[d] = scanned[d]
    /\ \A t \in Threads : work[t].pc = "publish" => work[t].tree = scanned
    /\ phase # "build" /\ (\A t \in Threads : work[t].pc # "build") => fileTree = scanned
    /\ outgoing # NoTree => outgoing = scanned
    /\ phase # "stopped" /\ (\A t \in Threads : ~Works(t)) => retained \in {NoTree, scanned}

Retaining == Progress /\ (~overlapped => Alone /\ Latest)

\* Steps of threads that neither rebuild nor publish.
LEMMA RetainingFrame ==
    ASSUME Retaining, UNCHANGED <<fileTree, outgoing, retained, scanned, overlapped>>,
           \A t \in Threads : work'[t] = work[t] \/ (~Works(t) /\ ~Works(t)'),
           phase' = "build" <=> phase = "build", phase = "stopped" => phase' = "stopped",
           phase' = "running" => watching' = Dirs
    PROVE  Retaining'
<1>1. \A t \in Threads : Works(t)' <=> Works(t)
  BY DEF Works
<1>2. \A t \in Threads : \/ work'[t] = work[t]
                         \/ work'[t].pc \notin {"build", "publish"} /\ work[t].pc # "build"
  BY DEF Works
<1>3. Progress'
  BY DEF Retaining, Progress
<1>4. ASSUME ~overlapped PROVE Alone'
  BY <1>1, <1>4 DEF Retaining, Alone
<1>5. ASSUME ~overlapped PROVE Latest'
  BY <1>1, <1>2, <1>5 DEF Retaining, Latest
<1> QED
  BY <1>3, <1>4, <1>5 DEF Retaining

\* A timer calls back.
LEMMA FireRetains ==
    ASSUME TypeOK, Retaining, NEW t \in Timers, Fire(t)
    PROVE  Retaining'
<1>1. Progress'
  BY DEF Fire, Retaining, Progress, treeVars
<1>2. SUFFICES ASSUME ~overlapped, ~Busy PROVE Alone' /\ Latest'
  BY <1>1 DEF Fire, Retaining
<1>3. outgoing = NoTree /\ \A u \in Threads : ~Works(u)
  BY <1>2 DEF Busy, Works
<1>4. work'[t].pc = "build" /\ work'[t].next = 1 /\ \A u \in Threads \ {t} : work'[u] = work[u]
  BY DEF Fire, Build, Free, TypeOK, Threads
<1>5. Alone'
  BY <1>3, <1>4 DEF Alone, Works, Fire, treeVars
<1>6. Latest'
  BY <1>3, <1>4 DEF Latest, Works, Fire, treeVars, Dirs, Threads
<1> QED
  BY <1>5, <1>6

\* A thread in _build_tree reads a directory.
LEMMA ScanRetains ==
    ASSUME TypeOK, Retaining, NEW t \in Threads, Scan(t)
    PROVE  Retaining'
<1> DEFINE d == work[t].next
<1>1. Progress'
  BY DEF Scan, Retaining, Progress, treeVars
<1>2. SUFFICES ASSUME ~overlapped PROVE Alone' /\ Latest'
  BY <1>1 DEF Scan, Retaining
<1>3. Works(t) /\ outgoing = NoTree /\ \A u \in Threads \ {t} : ~Works(u)
  BY <1>2 DEF Scan, Works, Retaining, Alone
<1>4. /\ work'[t].pc = "build" /\ work'[t].next = d + 1
      /\ work'[t].tree = [work[t].tree EXCEPT ![d] = disk[d]]
      /\ \A u \in Threads \ {t} : work'[u] = work[u]
  BY DEF Scan, TypeOK, Work
<1>5. Alone'
  BY <1>3, <1>4 DEF Alone, Works, Scan, treeVars
<1>6. \A e \in Dirs : e < d + 1 => work'[t].tree[e] = scanned'[e]
  <2>1. work[t].tree \in Tree /\ scanned \in Tree /\ d \in Dirs
    BY DEF TypeOK, Work, Scan
  <2>2. scanned' = [scanned EXCEPT ![d] = disk[d]] /\ work[t].pc = "build"
    BY DEF Scan
  <2>3. \A e \in Dirs : e < d => work[t].tree[e] = scanned[e]
    BY <1>2, <2>2 DEF Retaining, Latest
  <2> HIDE DEF d
  <2> QED
    BY <1>4, <2>1, <2>2, <2>3, DirsAssumption DEF Tree, Dirs
<1>7. \A u \in Threads \ {t} : work'[u].pc \notin {"build", "publish"}
  BY <1>3, <1>4 DEF Works
<1>8. outgoing' = NoTree
  BY <1>3 DEF Scan, treeVars
<1>9. Latest'
  <2> HIDE DEF d
  <2> QED
    BY <1>4, <1>6, <1>7, <1>8 DEF Latest, Works
<1> QED
  BY <1>5, <1>9

\* A thread stores the tree it has built.
LEMMA StoreRetains ==
    ASSUME TypeOK, Started, Retaining, NEW t \in Threads, Store(t)
    PROVE  Retaining'
<1>0. t # Main => phase # "build"
  BY DEF Store, Started, Threads
<1>1. Progress'
  BY <1>0 DEF Store, Retaining, Progress
<1>2. SUFFICES ASSUME ~overlapped PROVE Alone' /\ Latest'
  BY <1>1 DEF Store, Retaining
<1>3. Works(t) /\ outgoing = NoTree /\ \A u \in Threads \ {t} : ~Works(u)
  BY <1>2 DEF Store, Works, Retaining, Alone
<1>4. /\ work'[t].pc \in {"free", "render"} /\ (work'[t].pc = "free" => t = Main)
      /\ \A u \in Threads \ {t} : work'[u] = work[u]
  BY DEF Store, AfterBuild, Free, TypeOK
<1>5. fileTree' = scanned'
  <2>1. work[t].tree \in Tree /\ scanned \in Tree /\ work[t].next = NumDirs + 1 /\ work[t].pc = "build"
    BY DirsAssumption DEF TypeOK, Work, Store, Dirs
  <2>2. \A d \in Dirs : work[t].tree[d] = scanned[d]
    BY <1>2, <2>1, DirsAssumption DEF Retaining, Latest, Dirs
  <2>3. work[t].tree = scanned
    BY <2>1, <2>2 DEF Tree
  <2> QED
    BY <2>3 DEF Store
<1>6. Alone'
  BY <1>3, <1>4 DEF Alone, Works, Store
<1>7. t = Main => retained = NoTree
  BY DEF Started, Store, Retaining, Progress, Free
<1>8. Latest'
  BY <1>3, <1>4, <1>5, <1>7 DEF Latest, Works, Store
<1> QED
  BY <1>6, <1>8

\* A thread publishes the tree: it reads it, and hands it to the broker.
LEMMA PublishRetains ==
    ASSUME TypeOK, Started, Retaining, NEW t \in Timers, Render(t) \/ Publish(t)
    PROVE  Retaining'
<1>0. t \in Threads /\ phase # "build" /\ phase' = phase /\ outgoing' = outgoing
      /\ scanned' = scanned /\ fileTree' = fileTree /\ overlapped' = overlapped
  BY DEF Render, Publish, Started, Threads, serverVars, treeVars
<1>1. Progress'
  BY <1>0 DEF Retaining, Progress, Render, Publish, serverVars
<1>2. SUFFICES ASSUME ~overlapped PROVE Alone' /\ Latest'
  BY <1>0, <1>1 DEF Retaining
<1>3. Works(t) /\ outgoing = NoTree /\ \A u \in Threads \ {t} : ~Works(u)
  BY <1>0, <1>2 DEF Render, Publish, Works, Retaining, Alone
<1>4. /\ work'[t].pc \in {"publish", "free"} /\ work'[t].pc # "build"
      /\ \A u \in Threads \ {t} : work'[u] = work[u]
  BY <1>0 DEF Render, Publish, Free, TypeOK, Work
<1>5. Alone'
  BY <1>0, <1>3, <1>4 DEF Alone, Works
<1>6. fileTree = scanned
  <2>1. work[t].pc # "build"
    BY DEF Render, Publish
  <2>2. \A u \in Threads : work[u].pc # "build"
    BY <1>3, <2>1 DEF Works
  <2> QED
    BY <1>0, <1>2, <2>2 DEF Retaining, Latest
<1>7. CASE Render(t)
  <2>1. work'[t].pc = "publish" /\ work'[t].tree = fileTree
    BY <1>0, <1>7 DEF Render, TypeOK, Work
  <2> QED
    BY <1>0, <1>3, <1>4, <1>5, <1>6, <2>1 DEF Latest, Works
<1>8. CASE Publish(t)
  <2>1. work'[t].pc = "free" /\ (phase # "stopped" => retained' = scanned)
    BY <1>0, <1>2, <1>8 DEF Publish, Free, TypeOK, Retaining, Latest
  <2> QED
    BY <1>0, <1>3, <1>4, <1>5, <1>6, <2>1 DEF Latest, Works
<1> QED
  BY <1>7, <1>8

\* The network thread publishes the tree.
LEMMA NetRetains ==
    ASSUME TypeOK, Started, Retaining, NetRender \/ NetPublish
    PROVE  Retaining'
<1>1. UNCHANGED <<work, phase, watching, fileTree, scanned>>
  BY DEF NetRender, NetPublish, serverVars
<1>2. CASE NetRender
  <2>1. phase # "build" /\ retained' = retained /\ outgoing' = fileTree
        /\ overlapped' = (overlapped \/ Busy)
    BY <1>2 DEF NetRender
  <2>2. Progress'
    BY <1>1, <2>1 DEF Retaining, Progress
  <2>3. ASSUME ~overlapped, ~Busy PROVE Alone' /\ Latest'
    <3>1. \A t \in Threads : ~Works(t)
      BY <2>3 DEF Busy, Works
    <3>2. fileTree = scanned
      BY <2>1, <2>3, <3>1 DEF Retaining, Latest, Works
    <3> QED
      BY <1>1, <2>1, <2>3, <3>1, <3>2 DEF Retaining, Alone, Latest, Works
  <2> QED
    BY <2>1, <2>2, <2>3 DEF Retaining
<1>3. CASE NetPublish
  <2>1. outgoing # NoTree /\ outgoing' = NoTree /\ retained' = outgoing /\ overlapped' = overlapped
    BY <1>3 DEF NetPublish
  <2>2. Progress'
    BY <1>1, <2>1 DEF Retaining, Progress
  <2> QED
    BY <1>1, <2>1, <2>2 DEF Retaining, Alone, Latest, Works
<1> QED
  BY <1>2, <1>3

\* Every step keeps what the retained tree depends on.
LEMMA RetainingStep == IInv /\ Retaining /\ [Next]_vars => Retaining'
<1> SUFFICES ASSUME IInv, Retaining, [Next]_vars PROVE Retaining'
  OBVIOUS
<1> USE DEF IInv
<1>1. ASSUME NEW d \in Dirs, Change(d) PROVE Retaining'
  BY <1>1, RetainingFrame DEF Change, treeVars, Retaining, Progress
<1>2. ASSUME NEW d \in Dirs, NEW t \in Timers, OnEvent(d, t) PROVE Retaining'
  <2>1. \A u \in Threads : work'[u] = work[u] \/ (~Works(u) /\ ~Works(u)')
    BY <1>2, CancelledWork DEF OnEvent, Arm, Works, Free, TypeOK
  <2> QED
    BY <1>2, <2>1, RetainingFrame DEF OnEvent, treeVars, Retaining, Progress
<1>3. ASSUME NEW t \in Timers, Wake(t) PROVE Retaining'
  <2>1. \A u \in Threads : work'[u] = work[u] \/ (~Works(u) /\ ~Works(u)')
    BY <1>3 DEF Wake, Works, TypeOK, Work
  <2> QED
    BY <1>3, <2>1, RetainingFrame DEF Wake, treeVars, serverVars, Retaining, Progress
<1>4. ASSUME NEW d \in Dirs, StartWatcher(d) PROVE Retaining'
  <2>1. phase' = "running" => watching' = Dirs
    BY <1>4 DEF StartWatcher, Dirs
  <2> QED
    BY <1>4, <2>1, RetainingFrame DEF StartWatcher, treeVars
<1>5. ASSUME NEW d \in Dirs, StopWatcher(d) PROVE Retaining'
  <2>1. \A u \in Threads : work'[u] = work[u] \/ (~Works(u) /\ ~Works(u)')
    BY <1>5, CancelledWork DEF StopWatcher, Works, Free
  <2> QED
    BY <1>5, <2>1, RetainingFrame DEF StopWatcher, treeVars
<1>6. CASE Interrupt \/ Disconnect \/ UNCHANGED vars
  BY <1>6, RetainingFrame DEF Interrupt, Disconnect, vars, treeVars, Retaining, Progress
<1>7. Main \in Threads /\ Timers \subseteq Threads
  BY DEF Threads
<1> QED
  BY <1>1, <1>2, <1>3, <1>4, <1>5, <1>6, <1>7, FireRetains, ScanRetains, StoreRetains,
     PublishRetains, NetRetains DEF Next, Observe, TimerStep, MainStep

\* While main builds, it is alone.
LEMMA InitRetaining == Init => Retaining
<1> SUFFICES ASSUME Init PROVE Retaining
  OBVIOUS
<1>1. \A t \in Threads : Works(t) => t = Main
  BY DEF Init, Works, Free
<1>2. \A t \in Threads : work[t].pc # "publish" /\ (work[t].pc = "build" => work[t].next = 1)
  BY DEF Init, Build, Free
<1> QED
  BY <1>1, <1>2 DEF Init, Retaining, Progress, Alone, Latest, Dirs

\* As long as no two threads rebuild or publish at a time, the retained tree
\* is the disk's whenever nothing is under way (_publish_tree publishes
\* outside _tree_lock): only overlapping threads can leave a stale tree.
THEOREM StaleNeedsOverlap == Spec => []RetainedUnlessOverlap
<1>1. IInv /\ Retaining => RetainedUnlessOverlap
  <2> SUFFICES ASSUME IInv, Retaining, Quiet, ~overlapped, missed = {} PROVE retained = disk
    BY DEF RetainedUnlessOverlap
  <2>1. \A t \in Threads : ~Works(t)
    BY DEF Quiet, Works, Threads, IInv, Started
  <2>2. retained = scanned
    BY <2>1 DEF Quiet, Retaining, Latest
  <2>3. \A d \in Dirs : scanned[d] = disk[d]
    BY DEF Quiet, Retaining, Progress, IInv, ChangeCovered, WillScan
  <2>4. scanned = disk
    BY <2>3 DEF IInv, TypeOK, Tree
  <2> QED
    BY <2>2, <2>4
<1> QED
  BY <1>1, InitRetaining, RetainingStep, Inductive, PTL DEF Spec

=============================================================================
