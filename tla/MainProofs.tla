---------------------------- MODULE MainProofs ----------------------------
(***************************************************************************)
(* Theorems about Main and Watcher: for any drives, any tree of            *)
(* directories, any capacity of the event queue and any number of changes. *)
(***************************************************************************)
EXTENDS Main, SequenceTheorems, TLAPS

USE DEF loopVars, mainVars

\* The events of a queue, in whatever order.
Elems(s) == {s[i] : i \in 1 .. Len(s)}

LEMMA AppendElems ==
  ASSUME NEW T, NEW s \in Seq(T), NEW e \in T
  PROVE  /\ Append(s, e) \in Seq(T) /\ Len(Append(s, e)) = Len(s) + 1
         /\ Elems(s) \subseteq Elems(Append(s, e)) /\ e \in Elems(Append(s, e))
<1>1. /\ Append(s, e) \in Seq(T)
      /\ Len(Append(s, e)) = Len(s) + 1 /\ Len(s) \in Nat
      /\ \A i \in 1 .. Len(s) : Append(s, e)[i] = s[i]
      /\ Append(s, e)[Len(s) + 1] = e
  OBVIOUS
<1>2. ASSUME NEW x \in Elems(s) PROVE x \in Elems(Append(s, e))
  <2>1. PICK i \in 1 .. Len(s) : x = s[i]
    BY DEF Elems
  <2>2. i \in 1 .. Len(Append(s, e)) /\ x = Append(s, e)[i]
    BY <1>1, <2>1
  <2>. QED
    BY <2>2 DEF Elems
<1>3. Len(s) + 1 \in 1 .. Len(Append(s, e))
  BY <1>1
<1>. QED
  BY <1>1, <1>2, <1>3 DEF Elems

LEMMA TailElems ==
  ASSUME NEW T, NEW s \in Seq(T), s # <<>>
  PROVE  /\ Head(s) \in T /\ Tail(s) \in Seq(T) /\ Len(Tail(s)) = Len(s) - 1
         /\ \A x \in Elems(s) : x = Head(s) \/ x \in Elems(Tail(s))
<1>1. /\ Head(s) \in T /\ Tail(s) \in Seq(T) /\ Len(Tail(s)) = Len(s) - 1
      /\ Len(s) \in Nat /\ Head(s) = s[1]
      /\ \A i \in 1 .. Len(Tail(s)) : Tail(s)[i] = s[i + 1]
  BY HeadTailProperties
<1>2. ASSUME NEW x \in Elems(s), x # Head(s) PROVE x \in Elems(Tail(s))
  <2>1. PICK i \in 1 .. Len(s) : x = s[i]
    BY DEF Elems
  <2>2. i # 1
    BY <1>1, <1>2, <2>1
  <2>3. i - 1 \in 1 .. Len(Tail(s)) /\ (i - 1) + 1 = i
    BY <1>1, <2>1, <2>2
  <2>4. Tail(s)[i - 1] = x
    BY <1>1, <2>1, <2>3
  <2>. QED
    BY <2>3, <2>4 DEF Elems
<1>. QED
  BY <1>1, <1>2

LEMMA ConcatElems ==
  ASSUME NEW T, NEW s \in Seq(T), NEW t \in Seq(T)
  PROVE  /\ s \o t \in Seq(T) /\ Len(s \o t) = Len(s) + Len(t)
         /\ Elems(s) \subseteq Elems(s \o t)
<1>1. /\ s \o t \in Seq(T) /\ Len(s \o t) = Len(s) + Len(t)
      /\ Len(s) \in Nat /\ Len(t) \in Nat
      /\ \A i \in 1 .. Len(s) : (s \o t)[i] = s[i]
  OBVIOUS
<1>2. ASSUME NEW x \in Elems(s) PROVE x \in Elems(s \o t)
  <2>1. PICK i \in 1 .. Len(s) : x = s[i]
    BY DEF Elems
  <2>2. i \in 1 .. Len(s \o t) /\ x = (s \o t)[i]
    BY <1>1, <2>1
  <2>. QED
    BY <2>2 DEF Elems
<1>. QED
  BY <1>1, <1>2

\* What the properties say of the queue, in terms of its elements.
LEMMA AnnouncedElems ==
  ASSUME NEW d
  PROVE  Announced(d) <=> \E e \in Elems(queue) : e.kind = "create" /\ e.at \in Above[d]
BY DEF Announced, Elems

LEMMA AnnouncedElemsNext ==
  ASSUME NEW d
  PROVE  Announced(d)' <=> \E e \in Elems(queue') : e.kind = "create" /\ e.at \in Above[d]
BY DEF Announced, Elems

HeardIn(u, s) ==
    \E e \in Elems(s) : e.kind \in {"create", "change", "hidden"} /\ RootFor(e) = u

LEMMA HeardElems ==
  ASSUME NEW t
  PROVE  Heard(t) <=> \E u \in {t, Drive(t.root)} : u \in pending \/ HeardIn(u, queue)
<1>1. ASSUME NEW u
      PROVE  HeardIn(u, queue) <=> \E i \in 1 .. Len(queue) :
                 queue[i].kind \in {"create", "change", "hidden"} /\ RootFor(queue[i]) = u
  BY DEF HeardIn, Elems
<1>. QED
  BY <1>1 DEF Heard

LEMMA HeardElemsNext ==
  ASSUME NEW t
  PROVE  Heard(t)' <=> \E u \in {t, Drive(t.root)} : u \in pending' \/ HeardIn(u, queue')
<1>1. ASSUME NEW u
      PROVE  HeardIn(u, queue') <=> \E i \in 1 .. Len(queue') :
                 queue'[i].kind \in {"create", "change", "hidden"} /\ RootFor(queue'[i]) = u
  BY DEF HeardIn, Elems
<1>. QED
  BY <1>1 DEF Heard, Drive, RootFor

\* The queue as it may be found and left: an event more, or one less.
LEMMA QueuedLemma ==
  ASSUME TypeOK, NEW p, NEW kind \in {"create", "change", "hidden"}, NEW at \in Place,
         queue' = Queued(p, kind, at)
  PROVE  /\ queue' \in Seq(Event) /\ Len(queue') <= QueueCap
         /\ Elems(queue) \subseteq Elems(queue')
         /\ p \in watched /\ ~Full => [at |-> at, kind |-> kind] \in Elems(queue')
<1> DEFINE e == [at |-> at, kind |-> kind]
<1>1. e \in Event /\ queue \in Seq(Event) /\ Len(queue) \in Nat /\ Len(queue) <= QueueCap
  BY DEF TypeOK, Event
<1>2. /\ Append(queue, e) \in Seq(Event) /\ Len(Append(queue, e)) = Len(queue) + 1
      /\ Elems(queue) \subseteq Elems(Append(queue, e)) /\ e \in Elems(Append(queue, e))
  BY <1>1, AppendElems
<1>3. CASE p \in watched /\ ~Full
  <2>1. queue' = Append(queue, e)
    BY <1>3 DEF Queued
  <2>2. Len(queue) < QueueCap
    BY <1>1, <1>3, QueueAssumption DEF Full
  <2>. QED
    BY <1>1, <1>2, <2>1, <2>2, QueueAssumption
<1>4. CASE ~(p \in watched /\ ~Full)
  <2>1. queue' = queue
    BY <1>4 DEF Queued
  <2>. QED
    BY <1>1, <1>4, <2>1
<1>. QED
  BY <1>3, <1>4

LEMMA WritesLemma ==
  ASSUME TypeOK, NEW r \in Root, NEW stage \in Stage, NEW own \in OwnFiles(stage),
         Writes(r, own)
  PROVE  /\ queue' \in Seq(Event) /\ Len(queue') <= QueueCap
         /\ Elems(queue) \subseteq Elems(queue')
<1> DEFINE room == QueueCap - Len(queue)
           n == IF r \notin watched THEN 0 ELSE IF room < Len(own) THEN room ELSE Len(own)
           new == [i \in 1 .. n |-> [at |-> r, kind |-> own[i]]]
<1>1. queue \in Seq(Event) /\ Len(queue) \in Nat /\ Len(queue) <= QueueCap
  BY DEF TypeOK
<1>2. /\ Len(own) \in Nat
      /\ \A i \in 1 .. Len(own) : own[i] \in {"journal", "db"}
  <2>1. own \in {<<>>, <<"db">>, <<"journal", "db">>}
    BY DEF OwnFiles, Stage
  <2>2. CASE own = <<>>
    BY <2>2
  <2>3. CASE own = <<"db">>
    BY <2>3
  <2>4. CASE own = <<"journal", "db">>
    BY <2>4
  <2>. QED
    BY <2>1, <2>2, <2>3, <2>4
<1>3. queue' = queue \o new
  BY DEF Writes
<1>4. n \in Nat /\ n <= Len(own) /\ n <= room
  BY <1>1, <1>2, QueueAssumption
<1> HIDE DEF n
<1>5. \A i \in 1 .. n : [at |-> r, kind |-> own[i]] \in Event
  BY <1>2, <1>4 DEF Event, Place
<1>6. new \in Seq(Event) /\ Len(new) = n
  BY <1>4, <1>5
<1> HIDE DEF new
<1>7. /\ queue \o new \in Seq(Event) /\ Len(queue \o new) = Len(queue) + Len(new)
      /\ Elems(queue) \subseteq Elems(queue \o new)
  BY <1>1, <1>6, ConcatElems
<1>. QED
  BY <1>1, <1>3, <1>4, <1>6, <1>7, QueueAssumption

-----------------------------------------------------------------------------
(* Types. *)

LEMMA TypeInit == MainInit => MainTypeOK
<1> SUFFICES ASSUME MainInit PROVE MainTypeOK
  OBVIOUS
<1>1. <<>> \in Seq(Event) /\ Len(<<>>) = 0
  OBVIOUS
<1>2. /\ outcome \in [Target -> Result \cup {None}] /\ exit \in {0, 1, None}
      /\ failed \subseteq Root /\ rot \in [Root -> {"none", "now", "before"}]
      /\ told \in [Root -> [status : Status, mailed : BOOLEAN] \cup {None}]
  BY DEF MainInit
<1>3. CASE OnceInit
  <2>1. \A r \in Root : Drive(r) \in Target
    BY DEF Drive, Target
  <2>2. changed \subseteq Target
    <3>1. changed = {Drive(r) : r \in Root}
      BY <1>3 DEF OnceInit
    <3>. QED
      BY <2>1, <3>1, Zenon
  <2>3. /\ queue \in Seq(Event) /\ Len(queue) <= QueueCap /\ nchanges \in 0 .. MaxChanges
    BY <1>1, <1>3, QueueAssumption DEF OnceInit
  <2>4. TypeOK
    BY <1>3, <2>2, <2>3, Zenon DEF OnceInit, TypeOK
  <2>. QED
    BY <1>2, <1>3, <2>4 DEF OnceInit, MainTypeOK
<1>4. CASE mode = "watch" /\ Init
  <2>1. exists \subseteq Dir /\ watched \subseteq Place /\ blind \subseteq Place
    BY <1>4 DEF Init, Place
  <2>2. /\ queue \in Seq(Event) /\ Len(queue) <= QueueCap /\ nchanges \in 0 .. MaxChanges
    BY <1>1, <1>4, QueueAssumption DEF Init
  <2>3. TypeOK
    BY <1>4, <2>1, <2>2, Zenon DEF Init, TypeOK
  <2>. QED
    BY <1>2, <1>4, <2>3 DEF MainTypeOK
<1>. QED
  BY <1>3, <1>4 DEF MainInit

LEMMA UserTypes == TypeOK /\ Users => TypeOK'
<1> SUFFICES ASSUME TypeOK, NEW p \in Place,
                    \/ Change(p)
                    \/ p \in Root /\ ChangeHidden(p)
                    \/ p \in Dir /\ (MakeDir(p) \/ RemoveDir(p))
             PROVE  TypeOK'
  BY DEF Users
<1> USE DEF UserStep
<1>1. RootOf \in [Place -> Root] /\ Parent \in [Dir -> Place]
  BY TreeAssumption
<1>2. CASE Change(p)
  <2>1. queue' \in Seq(Event) /\ Len(queue') <= QueueCap
    BY <1>2, QueuedLemma DEF Change
  <2>2. nchanges' \in 0 .. MaxChanges
    BY <1>2, QueueAssumption DEF Change, TypeOK
  <2>3. RootOf[p] \in Root /\ Drive(RootOf[p]) \in Target
    BY <1>1 DEF Drive, Target
  <2>4. stale' \subseteq Target /\ missed' \subseteq Root
    BY <1>2, <2>3 DEF Change, TypeOK
  <2>. QED
    BY <1>2, <2>1, <2>2, <2>4 DEF Change, TypeOK
<1>3. CASE p \in Root /\ ChangeHidden(p)
  <2>1. queue' \in Seq(Event) /\ Len(queue') <= QueueCap
    BY <1>3, QueuedLemma DEF ChangeHidden
  <2>2. nchanges' \in 0 .. MaxChanges
    BY <1>3, QueueAssumption DEF ChangeHidden, TypeOK
  <2>3. RootOf[p] \in Root /\ [root |-> RootOf[p], hidden |-> TRUE] \in Target
    BY <1>1 DEF Target
  <2>4. stale' \subseteq Target /\ missed' \subseteq Root
    BY <1>3, <2>3 DEF ChangeHidden, TypeOK
  <2>. QED
    BY <1>3, <2>1, <2>2, <2>4 DEF ChangeHidden, TypeOK
<1>4. CASE p \in Dir /\ MakeDir(p)
  <2>1. queue' \in Seq(Event) /\ Len(queue') <= QueueCap
    BY <1>4, QueuedLemma DEF MakeDir
  <2>2. nchanges' \in 0 .. MaxChanges
    BY <1>4, QueueAssumption DEF MakeDir, TypeOK
  <2>. QED
    BY <1>4, <2>1, <2>2 DEF MakeDir, TypeOK, Place
<1>5. CASE p \in Dir /\ RemoveDir(p)
  <2>1. queue' \in Seq(Event) /\ Len(queue') <= QueueCap
    BY <1>1, <1>5, QueuedLemma DEF RemoveDir
  <2>2. nchanges' \in 0 .. MaxChanges
    BY <1>5, QueueAssumption DEF RemoveDir, TypeOK
  <2>. QED
    BY <1>5, <2>1, <2>2 DEF RemoveDir, TypeOK
<1>. QED
  BY <1>2, <1>3, <1>4, <1>5

LEMMA LoopTypes == TypeOK /\ (Loop \/ Tick \/ Cancel \/ Stop) => TypeOK'
<1> SUFFICES ASSUME TypeOK PROVE Loop \/ Tick \/ Cancel \/ Stop => TypeOK'
  OBVIOUS
<1>1. ASSUME queue # <<>>
      PROVE  /\ Head(queue) \in Event /\ Tail(queue) \in Seq(Event)
             /\ Len(Tail(queue)) <= QueueCap
  <2>1. queue \in Seq(Event) /\ Len(queue) \in Nat /\ Len(queue) <= QueueCap
    BY DEF TypeOK
  <2>2. Head(queue) \in Event /\ Tail(queue) \in Seq(Event) /\ Len(Tail(queue)) = Len(queue) - 1
    BY <1>1, <2>1, TailElems
  <2>. QED
    BY <2>1, <2>2, QueueAssumption
<1>2. ASSUME Skip PROVE TypeOK'
  BY <1>1, <1>2 DEF Skip, TypeOK
<1>3. ASSUME Receive PROVE TypeOK'
  <2> DEFINE e == Head(queue)
  <2>1. e \in Event /\ Tail(queue) \in Seq(Event) /\ Len(Tail(queue)) <= QueueCap
    BY <1>1, <1>3 DEF Receive
  <2>2. watched' \subseteq Place /\ blind' \subseteq Place
    <3>1. CASE e.kind = "create"
      <4>1. PICK f \in SUBSET exists : AddTree(e.at, f)
        BY <1>3, <3>1 DEF Receive
      <4>. QED
        BY <4>1 DEF AddTree, TypeOK, Place
    <3>2. CASE e.kind # "create"
      BY <1>3, <3>2 DEF Receive, TypeOK
    <3>. QED
      BY <3>1, <3>2
  <2>3. RootFor(e) \in Target
    BY <2>1, TreeAssumption DEF RootFor, Target, Event
  <2>. QED
    BY <1>3, <2>1, <2>2, <2>3 DEF Receive, Noted, TypeOK
<1>4. ASSUME Fire PROVE TypeOK'
  BY <1>4 DEF Fire, TypeOK
<1>5. ASSUME Tick PROVE TypeOK'
  BY <1>5 DEF Tick, TypeOK
<1>6. ASSUME Cancel PROVE TypeOK'
  BY <1>6 DEF Cancel, TypeOK
<1>7. ASSUME Stop PROVE TypeOK'
  BY <1>7 DEF Stop, TypeOK
<1>. QED
  BY <1>2, <1>3, <1>4, <1>5, <1>6, <1>7 DEF Loop

\* A drive's end leaves a queue with the same events and perhaps some more.
LEMMA EndDriveQueue ==
  ASSUME TypeOK, NEW t \in Target, NEW o \in Outcome, EndDrive(t, o)
  PROVE  /\ queue' \in Seq(Event) /\ Len(queue') <= QueueCap
         /\ Elems(queue) \subseteq Elems(queue')
<1>1. PICK own \in OwnFiles(o.stage) : Writes(t.root, own)
  BY DEF EndDrive
<1>2. t.root \in Root /\ o.stage \in Stage
  BY DEF Target, Outcome
<1>. QED
  BY <1>1, <1>2, WritesLemma

LEMMA ReportType ==
  ASSUME NEW results
  PROVE  /\ Report(results) \in [status : Status, mailed : BOOLEAN]
         /\ ExitCode(results) \in {0, 1}
<1>1. ReportStatus(results) \in Status
  BY DEF ReportStatus, Status
<1>. QED
  BY <1>1, NotifyAssumption DEF Report, ExitCode

LEMMA TypeStep == MainTypeOK /\ [MainNext]_allVars => MainTypeOK'
<1> SUFFICES ASSUME MainTypeOK, [MainNext]_allVars PROVE MainTypeOK'
  OBVIOUS
<1>0. TypeOK
  BY DEF MainTypeOK
<1>1. CASE UNCHANGED allVars
  BY <1>1 DEF allVars, vars, MainTypeOK, TypeOK
<1>2. CASE (Users \/ Loop \/ Tick \/ Cancel) /\ UNCHANGED mainVars
  <2>1. TypeOK'
    BY <1>0, <1>2, UserTypes, LoopTypes
  <2>. QED
    BY <1>2, <2>1 DEF MainTypeOK
<1>3. ASSUME NEW t \in Target, NEW o \in Outcome, EndDrive(t, o) PROVE MainTypeOK'
  <2>1. TypeOK'
    BY <1>0, <1>3, EndDriveQueue DEF EndDrive, TypeOK
  <2>2. t.root \in Root
    BY DEF Target
  <2>3. failed' \subseteq Root /\ rot' \in [Root -> {"none", "now", "before"}]
    BY <1>3, <2>2 DEF EndDrive, MainTypeOK
  <2>4. outcome' \in [Target -> Result \cup {None}]
    <3>1. DriveResult(o) \in Result
      BY DEF DriveResult, Result, Outcome
    <3>. QED
      BY <1>3, <3>1 DEF EndDrive, MainTypeOK
  <2>. QED
    BY <1>3, <2>1, <2>3, <2>4 DEF EndDrive, MainTypeOK
<1>4. ASSUME EndRun PROVE MainTypeOK'
  <2> DEFINE results == [t \in changed |-> outcome[t]]
             next == IF mode = "once" THEN "ended" ELSE "select"
  <2>1. Report(results) \in [status : Status, mailed : BOOLEAN] /\ ExitCode(results) \in {0, 1}
    BY ReportType
  <2>2. /\ Return(next) /\ next \in {"ended", "select"}
        /\ told' = [r \in Root |-> IF Drive(r) \in changed THEN Report(results) ELSE told[r]]
        /\ exit' = IF mode = "once" THEN ExitCode(results) ELSE exit
        /\ outcome' = [t \in Target |-> None]
        /\ UNCHANGED <<mode, failed, rot>>
    BY <1>4 DEF EndRun
  <2> HIDE DEF results, next
  <2>3. TypeOK'
    BY <1>0, <2>2 DEF Return, TypeOK
  <2>4. told' \in [Root -> [status : Status, mailed : BOOLEAN] \cup {None}]
    BY <2>1, <2>2 DEF MainTypeOK
  <2>5. exit' \in {0, 1, None}
    BY <2>1, <2>2 DEF MainTypeOK
  <2>. QED
    BY <2>2, <2>3, <2>4, <2>5 DEF MainTypeOK
<1>5. ASSUME StopWatching PROVE MainTypeOK'
  <2>1. TypeOK'
    BY <1>0, <1>5, LoopTypes DEF StopWatching
  <2>. QED
    BY <1>5, <2>1 DEF StopWatching, MainTypeOK
<1>. QED
  BY <1>1, <1>2, <1>3, <1>4, <1>5 DEF MainNext, Ended

\* The variables of Main and Watcher keep their types.
THEOREM MainTypeCorrect == Spec => []MainTypeOK
BY TypeInit, TypeStep, PTL DEF Spec

-----------------------------------------------------------------------------
(* The watcher forgets nothing. *)

\* A directory is where it is made, and the drives are watched unless an error
\* was logged.
Rooted ==
    /\ \A d \in exists : Parent[d] \in Root \cup exists
    /\ \A r \in Root : r \in watched \/ r \in blind

WatcherInv ==
    /\ TypeOK /\ Rooted
    /\ PendingHasTimer /\ WatchedOrAnnounced /\ NothingForgotten

LEMMA TreeFacts ==
  /\ Root \cap Dir = {} /\ Place = Root \cup Dir
  /\ \A d \in Dir : Parent[d] \in Place /\ d \in Above[d] /\ Above[Parent[d]] \subseteq Above[d]
  /\ \A p \in Place : RootOf[p] \in Root
  /\ \A p \in Place : \A q \in Above[p] : RootOf[q] = RootOf[p]
  /\ \A r \in Root : Above[r] = {r}
<1>1. \A d \in Dir : Parent[d] \in Place /\ d \in Above[d] /\ Above[Parent[d]] \subseteq Above[d]
  BY TreeAssumption
<1>2. \A p \in Place : RootOf[p] \in Root
  BY TreeAssumption
<1>. QED
  BY <1>1, <1>2, TreeAssumption DEF Place

\* A drive is its own.
LEMMA OwnRoot == \A r \in Root : RootOf[r] \in Root
BY TreeFacts

\* Announced and heard of stays what keeps its events.
LEMMA KeepsAnnounced ==
  ASSUME Elems(queue) \subseteq Elems(queue'), NEW d, Announced(d)
  PROVE  Announced(d)'
BY AnnouncedElems, AnnouncedElemsNext

LEMMA KeepsHeard ==
  ASSUME Elems(queue) \subseteq Elems(queue'), pending' = pending, NEW t, Heard(t)
  PROVE  Heard(t)'
<1>1. PICK u \in {t, Drive(t.root)} : u \in pending \/ HeardIn(u, queue)
  BY HeardElems
<1>2. HeardIn(u, queue) => HeardIn(u, queue')
  BY DEF HeardIn
<1>. QED
  BY <1>1, <1>2, HeardElemsNext

LEMMA WatcherInit == MainInit => WatcherInv
<1> SUFFICES ASSUME MainInit PROVE WatcherInv
  OBVIOUS
<1>1. TypeOK
  BY TypeInit DEF MainTypeOK
<1>2. pending = {} /\ stale = {}
  BY DEF MainInit, OnceInit, Init
<1>3. Rooted /\ WatchedOrAnnounced
  <2>1. CASE OnceInit
    BY <2>1 DEF OnceInit, Rooted, WatchedOrAnnounced, Place
  <2>2. CASE Init
    BY <2>2 DEF Init, Rooted, WatchedOrAnnounced
  <2>. QED
    BY <2>1, <2>2 DEF MainInit
<1>. QED
  BY <1>1, <1>2, <1>3 DEF WatcherInv, PendingHasTimer, NothingForgotten

LEMMA ChangeKeeps == WatcherInv /\ (\E p \in Place : Change(p)) => WatcherInv'
<1> SUFFICES ASSUME WatcherInv, NEW p \in Place, Change(p) PROVE WatcherInv'
  OBVIOUS
<1>1. TypeOK /\ TypeOK'
  BY UserTypes DEF WatcherInv, Users
<1>2. /\ queue' = Queued(p, "change", p)
      /\ stale' = stale \cup {Drive(RootOf[p])}
      /\ missed' = IF Silent(p) THEN missed \cup {RootOf[p]} ELSE missed
      /\ UNCHANGED <<exists, watched, blind, pending, timer, pc>>
      /\ p \in Root \cup exists
  BY DEF Change, UserStep
<1>3. /\ Elems(queue) \subseteq Elems(queue')
      /\ p \in watched /\ ~Full => [at |-> p, kind |-> "change"] \in Elems(queue')
  BY <1>1, <1>2, QueuedLemma
<1>4. Rooted' /\ PendingHasTimer'
  BY <1>2 DEF WatcherInv, Rooted, PendingHasTimer
<1>5. ASSUME NEW d \in exists, ~(d \in watched), ~(d \in blind) PROVE Announced(d)'
  <2>1. Announced(d)
    BY <1>5 DEF WatcherInv, WatchedOrAnnounced
  <2>. QED
    BY <1>3, <2>1, KeepsAnnounced
<1>6. WatchedOrAnnounced'
  BY <1>2, <1>5 DEF WatchedOrAnnounced
<1>7. ASSUME NEW t \in stale', t.root \notin missed' PROVE Heard(t)'
  <2>1. CASE t \in stale
    <3>1. Heard(t)
      BY <1>2, <1>7, <2>1 DEF WatcherInv, NothingForgotten
    <3>. QED
      BY <1>2, <1>3, <3>1, KeepsHeard
  <2>2. CASE t = Drive(RootOf[p])
    <3>0. t.root = RootOf[p]
      BY <2>2 DEF Drive
    <3>1. ~Silent(p)
      BY <1>2, <1>7, <3>0
    <3>2. CASE p \in watched
      <4> DEFINE e == [at |-> p, kind |-> "change"]
      <4>1. e \in Elems(queue')
        BY <1>3, <3>1, <3>2 DEF Silent
      <4>2. e.kind = "change" /\ RootFor(e) = t
        BY <2>2 DEF RootFor, Drive
      <4>3. HeardIn(t, queue')
        BY <4>1, <4>2 DEF HeardIn
      <4>. QED
        BY <4>3, HeardElemsNext
    <3>3. CASE p \notin watched
      <4>1. p \in exists /\ p \notin blind
        BY <1>2, <3>1, <3>3 DEF Silent, WatcherInv, Rooted
      <4>2. Announced(p)'
        BY <1>5, <3>3, <4>1
      <4>3. PICK e \in Elems(queue') : e.kind = "create" /\ e.at \in Above[p]
        BY <4>2, AnnouncedElemsNext
      <4>4. RootFor(e) = t
        BY <2>2, <4>3, TreeFacts DEF RootFor, Drive
      <4>5. HeardIn(t, queue')
        BY <4>3, <4>4 DEF HeardIn
      <4>. QED
        BY <4>5, HeardElemsNext
    <3>. QED
      BY <3>2, <3>3
  <2>. QED
    BY <1>2, <2>1, <2>2
<1>8. NothingForgotten'
  BY <1>7 DEF NothingForgotten
<1>. QED
  BY <1>1, <1>4, <1>6, <1>8 DEF WatcherInv

LEMMA ChangeHiddenKeeps == WatcherInv /\ (\E r \in Root : ChangeHidden(r)) => WatcherInv'
<1> SUFFICES ASSUME WatcherInv, NEW p \in Root, ChangeHidden(p) PROVE WatcherInv'
  OBVIOUS
<1>1. TypeOK /\ TypeOK'
  BY UserTypes DEF WatcherInv, Users, Place
<1>2. /\ queue' = Queued(p, "hidden", p)
      /\ stale' = stale \cup {[root |-> RootOf[p], hidden |-> TRUE]}
      /\ missed' = IF Silent(p) THEN missed \cup {RootOf[p]} ELSE missed
      /\ UNCHANGED <<exists, watched, blind, pending, timer, pc>>
  BY DEF ChangeHidden, UserStep
<1> DEFINE e == [at |-> p, kind |-> "hidden"]
<1>3. /\ Elems(queue) \subseteq Elems(queue')
      /\ p \in watched /\ ~Full => e \in Elems(queue')
  BY <1>1, <1>2, QueuedLemma DEF Place
<1>4. Rooted' /\ PendingHasTimer'
  BY <1>2 DEF WatcherInv, Rooted, PendingHasTimer
<1>5. ASSUME NEW d \in exists, ~(d \in watched), ~(d \in blind) PROVE Announced(d)'
  BY <1>3, <1>5, KeepsAnnounced DEF WatcherInv, WatchedOrAnnounced
<1>6. WatchedOrAnnounced'
  BY <1>2, <1>5 DEF WatchedOrAnnounced
<1>7. ASSUME NEW t \in stale', t.root \notin missed' PROVE Heard(t)'
  <2>1. CASE t \in stale
    <3>1. Heard(t)
      BY <1>2, <1>7, <2>1 DEF WatcherInv, NothingForgotten
    <3>. QED
      BY <1>2, <1>3, <3>1, KeepsHeard
  <2>2. CASE t = [root |-> RootOf[p], hidden |-> TRUE]
    <3>1. ~Silent(p)
      BY <1>2, <1>7, <2>2
    <3>2. p \in watched /\ ~Full
      BY <3>1 DEF Silent, WatcherInv, Rooted
    <3>3. e \in Elems(queue') /\ e.kind = "hidden" /\ RootFor(e) = t
      BY <1>3, <2>2, <3>2 DEF RootFor
    <3>4. HeardIn(t, queue')
      BY <3>3 DEF HeardIn
    <3>. QED
      BY <3>4, HeardElemsNext
  <2>. QED
    BY <1>2, <2>1, <2>2
<1>8. NothingForgotten'
  BY <1>7 DEF NothingForgotten
<1>. QED
  BY <1>1, <1>4, <1>6, <1>8 DEF WatcherInv

LEMMA MakeDirKeeps == WatcherInv /\ (\E d \in Dir : MakeDir(d)) => WatcherInv'
<1> SUFFICES ASSUME WatcherInv, NEW d \in Dir, MakeDir(d) PROVE WatcherInv'
  OBVIOUS
<1>1. TypeOK /\ TypeOK'
  BY UserTypes DEF WatcherInv, Users, Place
<1> DEFINE p == Parent[d]
<1>2. /\ p \in Root \cup exists /\ exists' = exists \cup {d}
      /\ queue' = Queued(p, "create", d)
      /\ blind' = IF Silent(p) THEN blind \cup {d} ELSE blind
      /\ UNCHANGED <<watched, stale, missed, pending, timer, pc>>
  BY DEF MakeDir, UserStep
<1>3. /\ Elems(queue) \subseteq Elems(queue')
      /\ p \in watched /\ ~Full => [at |-> d, kind |-> "create"] \in Elems(queue')
  BY <1>1, <1>2, QueuedLemma DEF Place
<1> HIDE DEF p
<1>4. Rooted' /\ PendingHasTimer'
  BY <1>2 DEF WatcherInv, Rooted, PendingHasTimer, p
<1>5. ASSUME NEW c \in exists PROVE c \in watched \/ c \in blind \/ Announced(c)'
  <2>1. c \in watched \/ c \in blind \/ Announced(c)
    BY DEF WatcherInv, WatchedOrAnnounced
  <2>. QED
    BY <1>3, <2>1, KeepsAnnounced
<1>6. ASSUME d \notin blind' PROVE Announced(d)'
  <2>1. ~Silent(p)
    BY <1>2, <1>6
  <2>2. CASE p \in watched
    <3> DEFINE e == [at |-> d, kind |-> "create"]
    <3>1. e \in Elems(queue')
      BY <1>3, <2>1, <2>2 DEF Silent
    <3>2. e.kind = "create" /\ e.at \in Above[d]
      BY TreeFacts
    <3>. QED
      BY <3>1, <3>2, AnnouncedElemsNext
  <2>3. CASE p \notin watched
    <3>1. p \in exists /\ p \notin blind
      BY <1>2, <2>1, <2>3 DEF Silent, WatcherInv, Rooted
    <3>2. Announced(p)'
      BY <1>5, <2>3, <3>1
    <3>3. PICK e \in Elems(queue') : e.kind = "create" /\ e.at \in Above[p]
      BY <3>2, AnnouncedElemsNext
    <3>4. e.at \in Above[d]
      BY <3>3, TreeFacts DEF p
    <3>. QED
      BY <3>3, <3>4, AnnouncedElemsNext
  <2>. QED
    BY <2>2, <2>3
<1>7. WatchedOrAnnounced'
  BY <1>2, <1>5, <1>6 DEF WatchedOrAnnounced
<1>8. ASSUME NEW t \in stale', t.root \notin missed' PROVE Heard(t)'
  <2>1. Heard(t)
    BY <1>2, <1>8 DEF WatcherInv, NothingForgotten
  <2>. QED
    BY <1>2, <1>3, <2>1, KeepsHeard
<1>9. NothingForgotten'
  BY <1>8 DEF NothingForgotten
<1>. QED
  BY <1>1, <1>4, <1>7, <1>9 DEF WatcherInv

LEMMA RemoveDirKeeps == WatcherInv /\ (\E d \in Dir : RemoveDir(d)) => WatcherInv'
<1> SUFFICES ASSUME WatcherInv, NEW d \in Dir, RemoveDir(d) PROVE WatcherInv'
  OBVIOUS
<1>1. TypeOK /\ TypeOK'
  BY UserTypes DEF WatcherInv, Users, Place
<1>2. /\ d \in exists /\ (\A c \in exists : Parent[c] # d)
      /\ exists' = exists \ {d} /\ watched' = watched \ {d} /\ blind' = blind \ {d}
      /\ queue' = Queued(Parent[d], "change", Parent[d])
      /\ UNCHANGED <<stale, missed, pending, timer, pc>>
  BY DEF RemoveDir, UserStep
<1>3. Elems(queue) \subseteq Elems(queue')
  BY <1>1, <1>2, QueuedLemma, TreeFacts
<1>4. PendingHasTimer'
  BY <1>2 DEF WatcherInv, PendingHasTimer
<1>5. Rooted'
  BY <1>2, TreeFacts DEF WatcherInv, Rooted
<1>6. ASSUME NEW c \in exists, c # d PROVE c \in watched' \/ c \in blind' \/ Announced(c)'
  <2>1. c \in watched \/ c \in blind \/ Announced(c)
    BY <1>6 DEF WatcherInv, WatchedOrAnnounced
  <2>. QED
    BY <1>2, <1>3, <1>6, <2>1, KeepsAnnounced
<1>7. WatchedOrAnnounced'
  BY <1>2, <1>6 DEF WatchedOrAnnounced
<1>8. ASSUME NEW t \in stale', t.root \notin missed' PROVE Heard(t)'
  <2>1. Heard(t)
    BY <1>2, <1>8 DEF WatcherInv, NothingForgotten
  <2>. QED
    BY <1>2, <1>3, <2>1, KeepsHeard
<1>9. NothingForgotten'
  BY <1>8 DEF NothingForgotten
<1>. QED
  BY <1>1, <1>4, <1>5, <1>7, <1>9 DEF WatcherInv

LEMMA SkipKeeps == WatcherInv /\ Skip => WatcherInv'
<1> SUFFICES ASSUME WatcherInv, Skip PROVE WatcherInv'
  OBVIOUS
<1>1. TypeOK /\ TypeOK'
  BY LoopTypes DEF WatcherInv, Loop
<1>2. /\ queue # <<>> /\ queue' = Tail(queue) /\ Head(queue).kind = "db"
      /\ UNCHANGED <<exists, watched, blind, stale, missed, pending, timer, pc>>
  BY DEF Skip
<1>3. \A x \in Elems(queue) : x = Head(queue) \/ x \in Elems(queue')
  BY <1>1, <1>2, TailElems DEF TypeOK
<1>4. ASSUME NEW d \in exists, ~(d \in watched), ~(d \in blind) PROVE Announced(d)'
  <2>1. PICK e \in Elems(queue) : e.kind = "create" /\ e.at \in Above[d]
    BY <1>4, AnnouncedElems DEF WatcherInv, WatchedOrAnnounced
  <2>2. e \in Elems(queue')
    BY <1>2, <1>3, <2>1
  <2>. QED
    BY <2>1, <2>2, AnnouncedElemsNext
<1>5. ASSUME NEW t \in stale, t.root \notin missed PROVE Heard(t)'
  <2>1. PICK u \in {t, Drive(t.root)} : u \in pending \/ HeardIn(u, queue)
    BY <1>5, HeardElems DEF WatcherInv, NothingForgotten
  <2>2. HeardIn(u, queue) => HeardIn(u, queue')
    BY <1>2, <1>3 DEF HeardIn
  <2>. QED
    BY <1>2, <2>1, <2>2, HeardElemsNext
<1>6. WatchedOrAnnounced' /\ NothingForgotten'
  BY <1>2, <1>4, <1>5 DEF WatchedOrAnnounced, NothingForgotten
<1>. QED
  BY <1>1, <1>2, <1>6 DEF WatcherInv, Rooted, PendingHasTimer

LEMMA ReceiveKeeps == WatcherInv /\ Receive => WatcherInv'
<1> SUFFICES ASSUME WatcherInv, Receive PROVE WatcherInv'
  OBVIOUS
<1>1. TypeOK /\ TypeOK'
  BY LoopTypes DEF WatcherInv, Loop
<1> DEFINE e == Head(queue)
<1>2. /\ queue # <<>> /\ queue' = Tail(queue)
      /\ pending' = pending \cup {RootFor(e)} /\ timer' = "armed"
      /\ UNCHANGED <<exists, stale, missed, pc>>
  BY DEF Receive, Noted
<1>3. \A x \in Elems(queue) : x = e \/ x \in Elems(queue')
  BY <1>1, <1>2, TailElems DEF TypeOK
<1> HIDE DEF e
<1>4. watched \subseteq watched'
  <2>1. CASE e.kind = "create"
    BY <2>1 DEF Receive, AddTree, e
  <2>2. CASE e.kind # "create"
    BY <2>2 DEF Receive, e
  <2>. QED
    BY <2>1, <2>2
<1>5. ASSUME NEW d \in exists PROVE d \in watched' \/ d \in blind' \/ Announced(d)'
  <2>1. CASE e.kind = "create" /\ e.at \in Above[d]
    <3>1. PICK f \in SUBSET exists : AddTree(e.at, f)
      BY <2>1 DEF Receive, e
    <3>. QED
      BY <2>1, <3>1 DEF AddTree
  <2>2. CASE ~(e.kind = "create" /\ e.at \in Above[d])
    <3>1. CASE d \in watched
      BY <1>4, <3>1
    <3>2. CASE d \in blind
      <4>1. d \in blind'
        <5>1. CASE e.kind = "create"
          <6>1. PICK f \in SUBSET exists : AddTree(e.at, f)
            BY <5>1 DEF Receive, e
          <6>. QED
            BY <2>2, <3>2, <5>1, <6>1 DEF AddTree
        <5>2. CASE e.kind # "create"
          BY <3>2, <5>2 DEF Receive, e
        <5>. QED
          BY <5>1, <5>2
      <4>. QED
        BY <4>1
    <3>3. CASE Announced(d)
      <4>1. PICK x \in Elems(queue) : x.kind = "create" /\ x.at \in Above[d]
        BY <3>3, AnnouncedElems
      <4>2. x \in Elems(queue')
        BY <1>3, <2>2, <4>1
      <4>. QED
        BY <4>1, <4>2, AnnouncedElemsNext
    <3>. QED
      BY <3>1, <3>2, <3>3 DEF WatcherInv, WatchedOrAnnounced
  <2>. QED
    BY <2>1, <2>2
<1>6. ASSUME NEW r \in Root PROVE r \in watched' \/ r \in blind'
  <2>1. CASE r \in watched
    BY <1>4, <2>1
  <2>2. CASE r \in blind
    <3>1. CASE e.kind = "create"
      <4>1. PICK f \in SUBSET exists : AddTree(e.at, f)
        BY <3>1 DEF Receive, e
      <4>2. r \notin exists
        BY <1>1, TreeFacts DEF TypeOK
      <4>. QED
        BY <2>2, <4>1, <4>2 DEF AddTree
    <3>2. CASE e.kind # "create"
      BY <2>2, <3>2 DEF Receive, e
    <3>. QED
      BY <3>1, <3>2
  <2>. QED
    BY <2>1, <2>2 DEF WatcherInv, Rooted
<1>7. Rooted'
  BY <1>2, <1>6 DEF WatcherInv, Rooted
<1>8. ASSUME NEW t \in stale, t.root \notin missed PROVE Heard(t)'
  <2>1. PICK u \in {t, Drive(t.root)} : u \in pending \/ HeardIn(u, queue)
    BY <1>8, HeardElems DEF WatcherInv, NothingForgotten
  <2>2. CASE u \in pending
    BY <1>2, <2>1, <2>2, HeardElemsNext
  <2>3. CASE HeardIn(u, queue)
    <3>1. PICK x \in Elems(queue) :
            x.kind \in {"create", "change", "hidden"} /\ RootFor(x) = u
      BY <2>3 DEF HeardIn
    <3>2. CASE x = e
      BY <1>2, <2>1, <3>1, <3>2, HeardElemsNext
    <3>3. CASE x \in Elems(queue')
      <4>1. HeardIn(u, queue')
        BY <3>1, <3>3 DEF HeardIn
      <4>. QED
        BY <2>1, <4>1, HeardElemsNext
    <3>. QED
      BY <1>3, <3>2, <3>3
  <2>. QED
    BY <2>1, <2>2, <2>3
<1>9. WatchedOrAnnounced' /\ NothingForgotten' /\ PendingHasTimer'
  BY <1>2, <1>5, <1>8 DEF WatchedOrAnnounced, NothingForgotten, PendingHasTimer
<1>. QED
  BY <1>1, <1>7, <1>9 DEF WatcherInv

LEMMA FireKeeps == WatcherInv /\ Fire => WatcherInv'
<1> SUFFICES ASSUME WatcherInv, Fire PROVE WatcherInv'
  OBVIOUS
<1>1. TypeOK /\ TypeOK'
  BY LoopTypes DEF WatcherInv, Loop
<1>2. /\ pending' = {} /\ UNCHANGED <<exists, watched, queue, blind>>
      /\ stale' = {t \in stale : t \notin pending /\ Drive(t.root) \notin pending}
      /\ missed' = {r \in missed : Drive(r) \notin pending}
  BY DEF Fire
<1>3. ASSUME NEW t \in stale', t.root \notin missed' PROVE Heard(t)'
  <2>1. t \in stale /\ t \notin pending /\ Drive(t.root) \notin pending
    BY <1>2, <1>3
  <2>2. t.root \notin missed
    BY <1>2, <1>3, <2>1
  <2>3. Heard(t)
    BY <2>1, <2>2 DEF WatcherInv, NothingForgotten
  <2>4. PICK u \in {t, Drive(t.root)} : HeardIn(u, queue)
    BY <2>1, <2>3, HeardElems
  <2>. QED
    BY <1>2, <2>4, HeardElemsNext
<1>4. NothingForgotten'
  BY <1>3 DEF NothingForgotten
<1>5. WatchedOrAnnounced' /\ Rooted' /\ PendingHasTimer'
  BY <1>2 DEF WatcherInv, WatchedOrAnnounced, Announced, Rooted, PendingHasTimer
<1>. QED
  BY <1>1, <1>4, <1>5 DEF WatcherInv

\* A step that adds events at most, and leaves what is pending with its timer.
LEMMA OtherKeeps ==
  ASSUME WatcherInv, TypeOK', Elems(queue) \subseteq Elems(queue'),
         UNCHANGED <<exists, watched, blind, pending, stale, missed>>,
         timer' # "off" \/ timer' = timer, pc' = "ended" \/ pc # "ended"
  PROVE  WatcherInv'
<1>1. Rooted' /\ PendingHasTimer'
  BY DEF WatcherInv, Rooted, PendingHasTimer
<1>2. ASSUME NEW d \in exists, ~(d \in watched), ~(d \in blind) PROVE Announced(d)'
  BY <1>2, KeepsAnnounced DEF WatcherInv, WatchedOrAnnounced
<1>3. WatchedOrAnnounced'
  BY <1>2 DEF WatchedOrAnnounced
<1>4. ASSUME NEW t \in stale, t.root \notin missed PROVE Heard(t)'
  BY <1>4, KeepsHeard DEF WatcherInv, NothingForgotten
<1>5. NothingForgotten'
  BY <1>4 DEF NothingForgotten
<1>. QED
  BY <1>1, <1>3, <1>5 DEF WatcherInv

LEMMA WatcherStep == MainTypeOK /\ WatcherInv /\ [MainNext]_allVars => WatcherInv'
<1> SUFFICES ASSUME MainTypeOK, WatcherInv, [MainNext]_allVars PROVE WatcherInv'
  OBVIOUS
<1>0. TypeOK /\ TypeOK'
  BY TypeStep DEF MainTypeOK
<1>1. CASE UNCHANGED allVars
  BY <1>0, <1>1, OtherKeeps DEF allVars, vars
<1>2. CASE Users
  BY <1>2, ChangeKeeps, ChangeHiddenKeeps, MakeDirKeeps, RemoveDirKeeps DEF Users
<1>3. CASE Loop
  BY <1>3, SkipKeeps, ReceiveKeeps, FireKeeps DEF Loop
<1>4. CASE Tick
  BY <1>0, <1>4, OtherKeeps DEF Tick
<1>5. CASE Cancel
  BY <1>0, <1>5, OtherKeeps DEF Cancel
<1>6. ASSUME NEW t \in Target, NEW o \in Outcome, EndDrive(t, o) PROVE WatcherInv'
  <2>1. Elems(queue) \subseteq Elems(queue')
    BY <1>0, <1>6, EndDriveQueue
  <2>. QED
    BY <1>0, <1>6, <2>1, OtherKeeps DEF EndDrive
<1>7. CASE EndRun
  <2>1. PICK next : Return(next)
    BY <1>7 DEF EndRun
  <2>. QED
    BY <1>0, <2>1, OtherKeeps DEF Return
<1>8. CASE StopWatching
  BY <1>0, <1>8, OtherKeeps DEF StopWatching, Stop
<1>. QED
  BY <1>1, <1>2, <1>3, <1>4, <1>5, <1>6, <1>7, <1>8 DEF MainNext, Ended

LEMMA WatcherAlways == Spec => []WatcherInv
<1>1. MainTypeOK /\ WatcherInv /\ [MainNext]_allVars => (MainTypeOK /\ WatcherInv)'
  BY TypeStep, WatcherStep
<1>. QED
  BY <1>1, TypeInit, WatcherInit, PTL DEF Spec

\* What is pending has a timer that will hand it to the callback: the debounce
\* timer that each event stops and starts again is never lost.
THEOREM TimerNotLost == Spec => []PendingHasTimer
<1>1. WatcherInv => PendingHasTimer
  BY DEF WatcherInv
<1>. QED
  BY <1>1, WatcherAlways, PTL

\* However deep a tree is made, and however busy the loop is meanwhile, every
\* directory of it is watched or announced, or an error was logged.
THEOREM NoDirOverlooked == Spec => []WatchedOrAnnounced
<1>1. WatcherInv => WatchedOrAnnounced
  BY DEF WatcherInv
<1>. QED
  BY <1>1, WatcherAlways, PTL

\* No change that the watcher can hear of is forgotten before a callback is
\* given its drive.
THEOREM NoChangeForgotten == Spec => []NothingForgotten
<1>1. WatcherInv => NothingForgotten
  BY DEF WatcherInv
<1>. QED
  BY <1>1, WatcherAlways, PTL

-----------------------------------------------------------------------------
(* Reports and the exit code. *)

\* What the last report says of a drive whose last run is over and reported.
Reported(r) ==
    /\ r \in failed \/ rot[r] # "none" =>
          told[r] # None /\ told[r].mailed /\ told[r].status # "SUCCESS"
    /\ rot[r] = "now" => told[r].status = "CRITICAL"

\* A drive of the run in progress that has ended is as its result says, and rot of
\* an earlier run is not forgotten by one that succeeds.
Settled(r) ==
    /\ r \in failed <=> outcome[Drive(r)].err
    /\ rot[r] = "now" <=> outcome[Drive(r)].corrupted
    /\ rot[r] = "before" => r \in failed

RunInv ==
    /\ \A r \in Root : IF Drive(r) \in changed
                       THEN outcome[Drive(r)] # None => Settled(r)
                       ELSE Reported(r)
    /\ pc # "call" => changed = {} /\ \A t \in Target : outcome[t] = None
    /\ mode = "once" => pc # "select"
    /\ mode = "once" /\ pc = "call" => changed = {Drive(r) : r \in Root}
    /\ ExitTruthful

LEMMA DriveFacts ==
  /\ \A r \in Root : Drive(r) \in Target
  /\ \A t \in Target : t.root \in Root /\ t.hidden \in BOOLEAN /\ (~t.hidden => t = Drive(t.root))
  /\ \A r, q \in Root : Drive(r) = Drive(q) => r = q
BY DEF Drive, Target

\* What a run reports of the drives it was given.
LEMMA ResultFacts ==
  ASSUME MainTypeOK, NEW results, results = [t \in changed |-> outcome[t]],
         \A t \in changed : outcome[t] # None
  PROVE  /\ CollectErrors(results) = {t \in changed : outcome[t].err}
         /\ HasBitRot(results) <=> \E t \in changed : outcome[t].corrupted
BY DEF CollectErrors, HasBitRot

LEMMA RunInit == MainInit => RunInv
<1> SUFFICES ASSUME MainInit PROVE RunInv
  OBVIOUS
<1>1. /\ outcome = [t \in Target |-> None] /\ failed = {} /\ rot = [r \in Root |-> "none"]
      /\ \/ mode = "once" /\ pc = "call" /\ changed = {Drive(r) : r \in Root}
         \/ mode = "watch" /\ pc = "select" /\ changed = {}
  BY DEF MainInit, OnceInit, Init
<1>. QED
  BY <1>1, DriveFacts DEF RunInv, Reported, Settled, ExitTruthful

\* A step that starts or ends no run and no drive.
LEMMA RunKeeps ==
  ASSUME RunInv, UNCHANGED <<pc, changed, mainVars>>
  PROVE  RunInv'
BY DEF RunInv, Reported, Settled, ExitTruthful, Drive

LEMMA EndDriveRun ==
  ASSUME MainTypeOK, RunInv, NEW t \in Target, NEW o \in Outcome, EndDrive(t, o)
  PROVE  RunInv'
<1>1. /\ pc = "call" /\ t \in changed /\ outcome[t] = None
      /\ outcome' = [outcome EXCEPT ![t] = DriveResult(o)]
      /\ pc' = pc /\ changed' = changed /\ mode' = mode /\ told' = told
      /\ t.hidden => failed' = failed /\ rot' = rot
      /\ ~t.hidden => /\ failed' = IF o.stage = "done" THEN failed \ {t.root} ELSE failed \cup {t.root}
                      /\ rot' = [rot EXCEPT ![t.root] =
                            IF o.rot THEN "now"
                            ELSE IF o.stage \in Scrubbed \/ @ = "none" THEN "none" ELSE "before"]
  BY DEF EndDrive
<1>2. outcome'[t] = DriveResult(o) /\ \A u \in Target \ {t} : outcome'[u] = outcome[u]
  BY <1>1 DEF MainTypeOK
<1>3. \A r \in Root : Drive(r) # t =>
          /\ r \in failed' <=> r \in failed
          /\ rot'[r] = rot[r]
  BY <1>1, DriveFacts DEF MainTypeOK
<1>4. ASSUME NEW r \in Root
      PROVE  IF Drive(r) \in changed' THEN outcome'[Drive(r)] # None => Settled(r)' ELSE Reported(r)'
  <2>1. CASE Drive(r) = t
    <3>1. r = t.root /\ ~t.hidden
      BY <2>1 DEF Drive
    <3>2. r \in failed' <=> o.stage # "done"
      BY <1>1, <3>1
    <3>3. rot'[r] = IF o.rot THEN "now"
                    ELSE IF o.stage \in Scrubbed \/ rot[r] = "none" THEN "none" ELSE "before"
      BY <1>1, <3>1 DEF MainTypeOK
    <3>4. /\ rot'[r] = "now" <=> o.rot
          /\ rot'[r] = "before" => o.stage # "done"
      BY <3>3 DEF Scrubbed
    <3>5. /\ outcome'[Drive(r)].err <=> o.stage # "done"
          /\ outcome'[Drive(r)].corrupted <=> o.rot
      <4>1. outcome'[Drive(r)] = DriveResult(o)
        BY <1>2, <2>1
      <4>2. DriveResult(o).err <=> o.stage # "done"
        BY DEF DriveResult
      <4>3. DriveResult(o).corrupted <=> o.rot
        BY Zenon DEF DriveResult
      <4>. QED
        BY <4>1, <4>2, <4>3, Zenon
    <3>6. Settled(r)'
      BY <3>2, <3>4, <3>5 DEF Settled, Drive
    <3>. QED
      BY <1>1, <2>1, <3>6 DEF Drive
  <2>2. CASE Drive(r) # t
    <3>1. outcome'[Drive(r)] = outcome[Drive(r)]
      BY <1>2, <2>2, DriveFacts
    <3>. QED
      BY <1>1, <1>3, <2>2, <3>1 DEF RunInv, Settled, Reported, Drive
  <2>. QED
    BY <2>1, <2>2
<1>. QED
  BY <1>1, <1>4 DEF RunInv, ExitTruthful, Drive

LEMMA EndRunRun ==
  ASSUME MainTypeOK, RunInv, EndRun
  PROVE  RunInv'
<1> DEFINE results == [t \in changed |-> outcome[t]]
<1>1. /\ \A t \in changed : outcome[t] # None
      /\ pc = "call" /\ changed' = {} /\ outcome' = [t \in Target |-> None]
      /\ pc' = IF mode = "once" THEN "ended" ELSE "select"
      /\ told' = [r \in Root |-> IF Drive(r) \in changed THEN Report(results) ELSE told[r]]
      /\ exit' = IF mode = "once" THEN ExitCode(results) ELSE exit
      /\ mode' = mode /\ failed' = failed /\ rot' = rot
  BY DEF EndRun, Return
<1>2. /\ CollectErrors(results) = {t \in changed : outcome[t].err}
      /\ HasBitRot(results) <=> \E t \in changed : outcome[t].corrupted
  BY <1>1, ResultFacts
<1> HIDE DEF results
<1>3. \A r \in Root : Drive(r) \in changed => Settled(r)
  BY <1>1 DEF RunInv
<1>4. ASSUME NEW r \in Root PROVE Reported(r)'
  <2>1. CASE Drive(r) \in changed
    <3>1. /\ rot[r] = "now" => HasBitRot(results)
          /\ rot[r] \in {"none", "now"} \/ r \in failed
      BY <1>2, <1>3, <2>1 DEF Settled, MainTypeOK
    <3>2. r \in failed => CollectErrors(results) # {}
      BY <1>2, <1>3, <2>1 DEF Settled
    <3>3. told'[r] = Report(results)
      BY <1>1, <2>1
    <3>4. /\ Report(results).status = ReportStatus(results)
          /\ Report(results).status # "SUCCESS" => Report(results).mailed
      BY NotifyAssumption DEF Report
    <3>5. /\ HasBitRot(results) => ReportStatus(results) = "CRITICAL"
          /\ CollectErrors(results) # {} => ReportStatus(results) # "SUCCESS"
      BY DEF ReportStatus
    <3>6. Report(results) # None
      BY ReportType, NoneAssumption
    <3>. QED
      BY <1>1, <3>1, <3>2, <3>3, <3>4, <3>5, <3>6 DEF Reported
  <2>2. CASE Drive(r) \notin changed
    <3>1. told'[r] = told[r]
      BY <1>1, <2>2
    <3>. QED
      BY <1>1, <2>2, <3>1 DEF RunInv, Reported
  <2>. QED
    BY <2>1, <2>2
<1>5. ASSUME mode = "once" PROVE ExitTruthful'
  <2>1. changed = {Drive(r) : r \in Root}
    BY <1>1, <1>5 DEF RunInv
  <2>2. CollectErrors(results) # {} <=> \E r \in Root : outcome[Drive(r)].err
    BY <1>2, <2>1
  <2>3. HasBitRot(results) <=> \E r \in Root : outcome[Drive(r)].corrupted
    BY <1>2, <2>1
  <2>4. \A r \in Root : Settled(r)
    BY <1>3, <2>1
  <2>5. (\E r \in Root : outcome[Drive(r)].err) <=> failed # {}
    BY <2>4 DEF Settled, MainTypeOK
  <2>6. (\E r \in Root : outcome[Drive(r)].corrupted) <=> \E r \in Root : rot[r] = "now"
    BY <2>4 DEF Settled
  <2>7. \A r \in Root : rot[r] = "none" \/ rot[r] = "now" \/ r \in failed
    BY <2>4 DEF Settled, MainTypeOK
  <2>. QED
    BY <1>1, <1>5, <2>2, <2>3, <2>5, <2>6, <2>7 DEF ExitTruthful, ExitCode
<1>6. ASSUME mode # "once" PROVE ExitTruthful'
  BY <1>1, <1>6 DEF ExitTruthful
<1>. QED
  BY <1>1, <1>4, <1>5, <1>6 DEF RunInv

LEMMA RunStep == MainTypeOK /\ RunInv /\ [MainNext]_allVars => RunInv'
<1> SUFFICES ASSUME MainTypeOK, RunInv, [MainNext]_allVars PROVE RunInv'
  OBVIOUS
<1>1. CASE UNCHANGED allVars
  BY <1>1, RunKeeps DEF allVars, vars
<1>2. CASE Users /\ UNCHANGED mainVars
  <2>1. UNCHANGED <<pc, changed>>
    BY <1>2 DEF Users, Change, ChangeHidden, MakeDir, RemoveDir, UserStep
  <2>. QED
    BY <1>2, <2>1, RunKeeps
<1>3. CASE Loop /\ UNCHANGED mainVars
  <2>1. CASE Skip \/ Receive
    <3>1. UNCHANGED <<pc, changed>>
      BY <2>1 DEF Skip, Receive, Noted
    <3>. QED
      BY <1>3, <3>1, RunKeeps
  <2>2. CASE Fire
    <3>1. /\ pc = "select" /\ changed' = pending
          /\ pc' = IF pending = {} THEN "select" ELSE "call"
      BY <2>2 DEF Fire
    <3>2. /\ \A r \in Root : Reported(r)
          /\ \A t \in Target : outcome[t] = None
          /\ mode # "once"
      BY <3>1 DEF RunInv
    <3>. QED
      BY <1>3, <3>1, <3>2, DriveFacts DEF RunInv, Reported, ExitTruthful, Drive
  <2>. QED
    BY <1>3, <2>1, <2>2 DEF Loop
<1>4. CASE Tick /\ UNCHANGED mainVars
  BY <1>4, RunKeeps DEF Tick
<1>5. CASE Cancel /\ UNCHANGED mainVars
  BY <1>5, RunKeeps DEF Cancel
<1>6. CASE \E t \in Target, o \in Outcome : EndDrive(t, o)
  BY <1>6, EndDriveRun
<1>7. CASE EndRun
  BY <1>7, EndRunRun
<1>8. CASE StopWatching
  <2>1. /\ pc = "select" /\ pc' = "ended" /\ changed' = changed
        /\ UNCHANGED <<mode, outcome, failed, rot, told>>
    BY <1>8 DEF StopWatching, Stop
  <2>2. mode # "once"
    BY <2>1 DEF RunInv
  <2>. QED
    BY <2>1, <2>2 DEF RunInv, Reported, Settled, ExitTruthful, Drive
<1>. QED
  BY <1>1, <1>2, <1>3, <1>4, <1>5, <1>6, <1>7, <1>8 DEF MainNext, Ended

LEMMA RunAlways == Spec => []RunInv
<1>1. MainTypeOK /\ RunInv /\ [MainNext]_allVars => (MainTypeOK /\ RunInv)'
  BY TypeStep, RunStep
<1>. QED
  BY <1>1, TypeInit, RunInit, PTL DEF Spec

\* For any number of drives and any mixture of failures and rot, the last report
\* of a drive hides neither, and is mailed.
THEOREM ReportsAreTrue == Spec => []ReportTruthful
<1>1. RunInv => ReportTruthful
  BY DEF RunInv, Reported, ReportTruthful
<1>. QED
  BY <1>1, RunAlways, PTL

\* The exit code of a one-shot run is 0 exactly if every drive was committed and
\* no rot was found.
THEOREM ExitCodeIsTrue == Spec => []ExitTruthful
<1>1. RunInv => ExitTruthful
  BY DEF RunInv
<1>. QED
  BY <1>1, RunAlways, PTL
=============================================================================
