-------------------------- MODULE RunServerProofs --------------------------
(***************************************************************************)
(* Theorems about RunServer, for any drives, requests, clients, channel    *)
(* capacities and number of operations.                                    *)
(***************************************************************************)
EXTENDS RunServer, SequenceTheorems, TLAPS

USE DEF opVars, hubVars

\* Appending to a channel that has room, and taking from one that is not empty.
LEMMA ChannelLemma ==
  ASSUME NEW T, NEW s \in Seq(T), NEW e \in T, NEW cap \in Nat, Len(s) <= cap
  PROVE  /\ Append(s, e) \in Seq(T)
         /\ Len(s) < cap => Len(Append(s, e)) <= cap
         /\ s # <<>> => Head(s) \in T /\ Tail(s) \in Seq(T) /\ Len(Tail(s)) <= cap
<1>1. /\ Append(s, e) \in Seq(T)
      /\ Len(Append(s, e)) = Len(s) + 1 /\ Len(s) \in Nat
  OBVIOUS
<1>2. ASSUME s # <<>>
      PROVE  Head(s) \in T /\ Tail(s) \in Seq(T) /\ Len(Tail(s)) <= cap
  <2>1. Head(s) \in T /\ Tail(s) \in Seq(T) /\ Len(Tail(s)) = Len(s) - 1
    BY <1>2, HeadTailProperties
  <2>. QED
    BY <1>1, <2>1
<1>. QED
  BY <1>1, <1>2

LEMMA TypeInit == ServerInit => ServerTypeOK
<1> SUFFICES ASSUME ServerInit PROVE ServerTypeOK
  OBVIOUS
<1>1. <<>> \in Seq(Event) /\ Len(<<>>) = 0
  OBVIOUS
<1>2. /\ prog \in [Op -> Seq(Event)]
      /\ \A o \in Op : Len(prog[o]) <= ProgCap
  BY <1>1, NumberAssumption DEF ServerInit
<1>3. /\ buf \in [Client -> Seq(Event)]
      /\ \A c \in Client : Len(buf[c]) <= SubCap
  BY <1>1, NumberAssumption DEF ServerInit
<1>4. /\ opc \in [Op -> {"none", "run", "published", "closed"}]
      /\ job \in [Op -> [Drive -> {"none", "waiting", "active", "done"}]]
      /\ fwd \in [Op -> {"none", "running", "gone"}]
      /\ held \in [Op -> Event \cup {NoEvent}]
  BY DEF ServerInit
<1>5. emitted \in [Op -> [Drive -> 0 .. MaxEvents]]
  BY NumberAssumption DEF ServerInit
<1>. QED
  BY <1>2, <1>3, <1>4, <1>5 DEF ServerInit, ServerTypeOK

LEMMA TypeStep == ServerTypeOK /\ [ServerNext]_serverVars => ServerTypeOK'
<1> SUFFICES ASSUME ServerTypeOK, [ServerNext]_serverVars PROVE ServerTypeOK'
  OBVIOUS
<1> USE NumberAssumption
<1>0. Op \subseteq Nat
  BY DEF Op
<1>1. CASE UNCHANGED serverVars
  BY <1>1 DEF serverVars, ServerTypeOK
<1>2. ASSUME NEW ds \in Request, StartOperation(ds) PROVE ServerTypeOK'
  <2>1. nops' \in Op /\ nops' = nops + 1
    BY <1>2 DEF StartOperation, Launch, ServerTypeOK, Op
  <2>2. job' \in [Op -> [Drive -> {"none", "waiting", "active", "done"}]]
    BY <1>2, <2>1 DEF StartOperation, Launch, ServerTypeOK
  <2>. QED
    BY <1>2, <2>1, <2>2 DEF StartOperation, Launch, ServerTypeOK
<1>3. ASSUME NEW o \in Op, Publish(o) PROVE ServerTypeOK'
  BY <1>3 DEF Publish, ServerTypeOK
<1>4. ASSUME NEW o \in Op, CloseProgCh(o) PROVE ServerTypeOK'
  BY <1>4 DEF CloseProgCh, ServerTypeOK
<1>5. ASSUME NEW o \in Op, Forward(o) PROVE ServerTypeOK'
  <2>1. prog[o] \in Seq(Event) /\ Len(prog[o]) <= ProgCap /\ prog[o] # <<>>
    BY <1>5 DEF Forward, ServerTypeOK
  <2>2. /\ Head(prog[o]) \in Event
        /\ Tail(prog[o]) \in Seq(Event) /\ Len(Tail(prog[o])) <= ProgCap
    BY <2>1, ChannelLemma
  <2>3. /\ prog' \in [Op -> Seq(Event)]
        /\ \A q \in Op : Len(prog'[q]) <= ProgCap
        /\ held' \in [Op -> Event \cup {NoEvent}]
    BY <1>5, <2>2 DEF Forward, ServerTypeOK
  <2>. QED
    BY <1>5, <2>3 DEF Forward, ServerTypeOK
<1>6. ASSUME NEW o \in Op, HubPublish(o) PROVE ServerTypeOK'
  <2>1. held[o] \in Event
    BY <1>6 DEF HubPublish, ServerTypeOK
  <2>2. \A c \in Client : buf'[c] \in Seq(Event) /\ Len(buf'[c]) <= SubCap
    <3> TAKE c \in Client
    <3>1. buf[c] \in Seq(Event) /\ Len(buf[c]) <= SubCap
      BY DEF ServerTypeOK
    <3>2. /\ Append(buf[c], held[o]) \in Seq(Event)
          /\ Len(buf[c]) < SubCap => Len(Append(buf[c], held[o])) <= SubCap
      BY <2>1, <3>1, ChannelLemma
    <3>3. \/ buf'[c] = buf[c]
          \/ Len(buf[c]) < SubCap /\ buf'[c] = Append(buf[c], held[o])
      BY <1>6 DEF HubPublish
    <3>. QED
      BY <3>1, <3>2, <3>3
  <2>3. buf' = [c \in Client |-> buf'[c]]
    BY <1>6 DEF HubPublish
  <2>4. buf' \in [Client -> Seq(Event)]
    BY <2>2, <2>3
  <2>5. held' \in [Op -> Event \cup {NoEvent}]
    BY <1>6 DEF HubPublish, ServerTypeOK
  <2>. QED
    BY <1>6, <2>2, <2>4, <2>5 DEF HubPublish, ServerTypeOK
<1>7. ASSUME NEW o \in Op, ForwarderEnds(o) PROVE ServerTypeOK'
  BY <1>7 DEF ForwarderEnds, ServerTypeOK
<1>8. ASSUME NEW o \in Op, NEW d \in Drive, EnterJob(o, d) PROVE ServerTypeOK'
  BY <1>8 DEF EnterJob, ServerTypeOK
<1>9. ASSUME NEW o \in Op, NEW d \in Drive, EndJob(o, d) PROVE ServerTypeOK'
  BY <1>9 DEF EndJob, ServerTypeOK
<1>10. ASSUME NEW o \in Op, NEW d \in Drive, Emit(o, d) PROVE ServerTypeOK'
  <2> DEFINE n == emitted[o][d] + 1
             e == [op |-> o, drive |-> d, count |-> n]
  <2>1. n \in 1 .. MaxEvents /\ emitted' = [emitted EXCEPT ![o][d] = n]
    BY <1>10 DEF Emit, ServerTypeOK
  <2>2. emitted' \in [Op -> [Drive -> 0 .. MaxEvents]] /\ emitted'[o][d] = n
    BY <2>1 DEF ServerTypeOK
  <2>3. e \in Event
    BY <2>1 DEF Event
  <2>4. prog[o] \in Seq(Event) /\ Len(prog[o]) <= ProgCap
    BY DEF ServerTypeOK
  <2>5. /\ Append(prog[o], e) \in Seq(Event)
        /\ Len(prog[o]) < ProgCap => Len(Append(prog[o], e)) <= ProgCap
    BY <2>3, <2>4, ChannelLemma
  <2>6. \/ prog' = prog
        \/ Len(prog[o]) < ProgCap /\ prog' = [prog EXCEPT ![o] = Append(prog[o], e)]
    BY <1>10, <2>2 DEF Emit
  <2> HIDE DEF n, e
  <2>7. /\ prog' \in [Op -> Seq(Event)]
        /\ \A q \in Op : Len(prog'[q]) <= ProgCap
    BY <2>5, <2>6 DEF ServerTypeOK
  <2>. QED
    BY <1>10, <2>2, <2>7 DEF Emit, ServerTypeOK
<1>11. ASSUME NEW c \in Client, Subscribe(c) \/ Disconnect(c) PROVE ServerTypeOK'
  <2>1. <<>> \in Seq(Event) /\ Len(<<>>) <= SubCap
    OBVIOUS
  <2>2. buf' = [buf EXCEPT ![c] = <<>>] /\ subs' \subseteq Client
    BY <1>11 DEF Subscribe, Disconnect, ServerTypeOK
  <2>3. buf \in [Client -> Seq(Event)] /\ \A k \in Client : Len(buf[k]) <= SubCap
    BY DEF ServerTypeOK
  <2>4. /\ buf' \in [Client -> Seq(Event)]
        /\ \A k \in Client : Len(buf'[k]) <= SubCap
    BY <2>1, <2>2, <2>3
  <2>. QED
    BY <1>11, <2>2, <2>4 DEF Subscribe, Disconnect, ServerTypeOK
<1>12. ASSUME NEW c \in Client, Deliver(c) PROVE ServerTypeOK'
  <2>1. buf[c] \in Seq(Event) /\ Len(buf[c]) <= SubCap /\ buf[c] # <<>>
    BY <1>12 DEF Deliver, ServerTypeOK
  <2>2. Tail(buf[c]) \in Seq(Event) /\ Len(Tail(buf[c])) <= SubCap
    BY <2>1, HeadTailProperties
  <2>3. /\ buf' \in [Client -> Seq(Event)]
        /\ \A k \in Client : Len(buf'[k]) <= SubCap
    BY <1>12, <2>2 DEF Deliver, ServerTypeOK
  <2>. QED
    BY <1>12, <2>3 DEF Deliver, ServerTypeOK
<1>. QED
  BY <1>1, <1>2, <1>3, <1>4, <1>5, <1>6, <1>7, <1>8, <1>9, <1>10, <1>11, <1>12
     DEF ServerNext, OpStep, ForwarderStep, JobStep

\* Every variable keeps its type, and no channel holds more than its capacity.
THEOREM ServerTypeCorrect == ServerSpec => []ServerTypeOK
<1>. QED
  BY TypeInit, TypeStep, PTL DEF ServerSpec

-----------------------------------------------------------------------------
\* The flag belongs to the operation that runs, which is the last one accepted.
Flag ==
    /\ \A o \in Op : opc[o] = "run" <=> running /\ o = nops
    /\ \A o \in Op : opc[o] = "none" <=> o > nops
    /\ running => nops # 0

\* Only an operation that runs has drives to process.
Waited == \A o \in Op, d \in Drive : job[o][d] \in {"waiting", "active"} => opc[o] = "run"

\* The status holds the results of the operation before the one that runs.
Latest == shown = IF running THEN nops - 1 ELSE nops

IInv == ServerTypeOK /\ Flag /\ Waited /\ Latest

LEMMA IInvInit == ServerInit => IInv
<1> SUFFICES ASSUME ServerInit PROVE IInv
  OBVIOUS
<1>1. ServerTypeOK
  BY TypeInit
<1>. QED
  BY <1>1 DEF ServerInit, IInv, Flag, Waited, Latest, Op

LEMMA IInvStep == IInv /\ [ServerNext]_serverVars => IInv'
<1> SUFFICES ASSUME IInv, [ServerNext]_serverVars PROVE IInv'
  OBVIOUS
<1>0. ServerTypeOK /\ ServerTypeOK'
  BY TypeStep DEF IInv
<1>1. nops \in Nat /\ shown \in Nat /\ running \in BOOLEAN /\ Op \subseteq Nat
  BY <1>0, NumberAssumption DEF ServerTypeOK, Op
<1>2. SUFFICES (Flag /\ Waited /\ Latest)'
  BY <1>0 DEF IInv
<1> USE DEF IInv, Flag, Waited, Latest
<1>3. CASE UNCHANGED <<running, shown, nops, opc, job>>
  BY <1>3
<1>4. ASSUME NEW ds \in Request, StartOperation(ds) PROVE (Flag /\ Waited /\ Latest)'
  <2>1. /\ nops' = nops + 1 /\ nops' \in Op /\ ~running /\ running' /\ shown' = shown
        /\ opc' = [opc EXCEPT ![nops'] = "run"]
    BY <1>0, <1>1, <1>4, NumberAssumption DEF StartOperation, Launch, Op
  <2>2. opc'[nops'] = "run" /\ \A o \in Op \ {nops'} : opc'[o] = opc[o]
    BY <1>0, <2>1 DEF ServerTypeOK
  <2>3. \A o \in Op \ {nops'} : job'[o] = job[o]
    BY <1>0, <1>4 DEF StartOperation, Launch, ServerTypeOK
  <2>4. Flag'
    BY <1>1, <2>1, <2>2
  <2>5. Waited'
    BY <2>2, <2>3
  <2>6. Latest'
    BY <1>1, <2>1
  <2>. QED
    BY <2>4, <2>5, <2>6
<1>5. ASSUME NEW o \in Op, Publish(o) PROVE (Flag /\ Waited /\ Latest)'
  <2>1. /\ opc[o] = "run" /\ ~running' /\ shown' = o /\ nops' = nops /\ job' = job
        /\ \A d \in Drive : job[o][d] \in {"none", "done"}
        /\ opc'[o] = "published" /\ \A q \in Op \ {o} : opc'[q] = opc[q]
    BY <1>0, <1>5 DEF Publish, ServerTypeOK
  <2>. QED
    BY <1>1, <2>1
<1>6. ASSUME NEW o \in Op, CloseProgCh(o) PROVE (Flag /\ Waited /\ Latest)'
  <2>1. /\ opc[o] = "published" /\ UNCHANGED <<running, shown, nops, job>>
        /\ opc'[o] = "closed" /\ \A q \in Op \ {o} : opc'[q] = opc[q]
    BY <1>0, <1>6 DEF CloseProgCh, ServerTypeOK
  <2>. QED
    BY <1>1, <2>1
<1>7. ASSUME NEW o \in Op, NEW d \in Drive, EnterJob(o, d) \/ EndJob(o, d)
      PROVE  (Flag /\ Waited /\ Latest)'
  <2>1. /\ UNCHANGED <<running, shown, nops, opc>>
        /\ job[o][d] \in {"waiting", "active"}
    BY <1>7 DEF EnterJob, EndJob
  <2>2. \/ job' = [job EXCEPT ![o][d] = "active"]
        \/ job' = [job EXCEPT ![o][d] = "done"]
    BY <1>7 DEF EnterJob, EndJob
  <2>3. ASSUME NEW q \in Op, NEW e \in Drive
        PROVE  job'[q][e] = job[q][e] \/ (q = o /\ e = d)
    <3>1. job \in [Op -> [Drive -> {"none", "waiting", "active", "done"}]]
      BY <1>0 DEF ServerTypeOK
    <3>2. PICK v : job' = [job EXCEPT ![o] = [job[o] EXCEPT ![d] = v]]
      BY <2>2
    <3>3. CASE q = o
      BY <3>1, <3>2, <3>3
    <3>4. CASE q # o
      BY <3>1, <3>2, <3>4
    <3>. QED
      BY <3>3, <3>4
  <2>. QED
    BY <2>1, <2>3
<1>8. CASE UNCHANGED serverVars
  BY <1>3, <1>8 DEF serverVars
<1>9. ASSUME NEW o \in Op, ForwarderStep(o) PROVE UNCHANGED <<running, shown, nops, opc, job>>
  BY <1>9 DEF ForwarderStep, Forward, HubPublish, ForwarderEnds
<1>10. ASSUME NEW o \in Op, NEW d \in Drive, Emit(o, d)
       PROVE  UNCHANGED <<running, shown, nops, opc, job>>
  BY <1>10 DEF Emit
<1>11. ASSUME NEW c \in Client, Subscribe(c) \/ Deliver(c) \/ Disconnect(c)
       PROVE  UNCHANGED <<running, shown, nops, opc, job>>
  BY <1>11 DEF Subscribe, Deliver, Disconnect
<1>. QED
  BY <1>3, <1>4, <1>5, <1>6, <1>7, <1>8, <1>9, <1>10, <1>11 DEF ServerNext, OpStep, JobStep

LEMMA IInvariant == ServerSpec => []IInv
<1>. QED
  BY IInvInit, IInvStep, PTL DEF ServerSpec

\* At most one operation is active, and only while the status says running.
THEOREM OneOperationAtATime == ServerSpec => []OneOperation
<1>1. IInv => OneOperation
  BY DEF IInv, Flag, Waited, OneOperation, Active
<1>. QED
  BY <1>1, IInvariant, PTL

\* The status is never that of an older operation, and never incomplete.
THEOREM StatusNeverStale == ServerSpec => []StatusIsLatest
<1>1. ASSUME IInv PROVE StatusIsLatest
  <2>1. nops \in Nat /\ shown \in Op \cup {0}
        /\ job \in [Op -> [Drive -> {"none", "waiting", "active", "done"}]]
    BY <1>1, NumberAssumption DEF IInv, ServerTypeOK, Op
  <2>2. ASSUME shown # 0 PROVE \A d \in Drive : job[shown][d] \in {"none", "done"}
    <3>1. shown \in Op /\ opc[shown] # "run"
      BY <1>1, <2>1, <2>2 DEF IInv, Flag, Latest
    <3>. QED
      BY <1>1, <2>1, <3>1 DEF IInv, Waited
  <2>. QED
    BY <1>1, <2>2 DEF IInv, Latest, StatusIsLatest
<1>. QED
  BY <1>1, IInvariant, PTL

-----------------------------------------------------------------------------
(* Events stay in order. *)

\* An operation that was not accepted has no drives.
Unborn == \A o \in Op, d \in Drive : opc[o] = "none" => job[o][d] = "none"

\* The events that have been sent: the goroutine of each is, or was, processing its
\* drive, and as long as it runs its counter is not behind the event.
Issued ==
    {e \in Event : /\ job[e.op][e.drive] \in {"active", "done"}
                   /\ job[e.op][e.drive] = "active" => e.count <= emitted[e.op][e.drive]}

\* Every event on its way has been sent, those of a channel by its operation.
Tagged ==
    /\ \A o \in Op : \A e \in Range(prog[o]) : e.op = o /\ e \in Issued
    /\ \A o \in Op : held[o] # NoEvent => held[o].op = o /\ held[o] \in Issued
    /\ \A c \in Client : Range(buf[c]) \subseteq Issued

Ordered(s) == \A i, j \in 1 .. Len(s) : i < j => Before(s[i], s[j])

\* The three places an event goes through are in order, each and one to the next.
Sorted ==
    /\ \A o \in Op : Ordered(prog[o])
    /\ \A c \in Client : Ordered(buf[c])
    /\ \A o \in Op : held[o] # NoEvent => \A f \in Range(prog[o]) : Before(held[o], f)
    /\ \A o \in Op, c \in Client : held[o] # NoEvent =>
         \A e \in Range(buf[c]) : Before(e, held[o])
    /\ \A o \in Op, c \in Client : \A e \in Range(buf[c]), f \in Range(prog[o]) : Before(e, f)

OrderInv == IInv /\ Unborn /\ Tagged /\ Sorted

\* What a channel holds after an element is added, and after one is taken.
LEMMA RangeAppend ==
  ASSUME NEW s \in Seq(Event), NEW e \in Event
  PROVE  Append(s, e) \in Seq(Event) /\ Range(Append(s, e)) = Range(s) \cup {e}
<1>1. /\ Len(s) \in Nat /\ Len(Append(s, e)) = Len(s) + 1
      /\ DOMAIN s = 1 .. Len(s) /\ DOMAIN Append(s, e) = 1 .. Len(s) + 1
      /\ \A i \in 1 .. Len(s) : Append(s, e)[i] = s[i]
      /\ Append(s, e)[Len(s) + 1] = e
      /\ Append(s, e) \in Seq(Event)
  BY AppendProperties, LenProperties
<1>2. 1 .. Len(s) + 1 = (1 .. Len(s)) \cup {Len(s) + 1}
  BY <1>1
<1>. QED
  BY <1>1, <1>2 DEF Range

LEMMA RangeTail ==
  ASSUME NEW s \in Seq(Event), s # <<>>
  PROVE  /\ Head(s) \in Event /\ Head(s) \in Range(s)
         /\ Tail(s) \in Seq(Event) /\ Range(Tail(s)) \subseteq Range(s)
<1>1. /\ Len(s) \in Nat \ {0} /\ DOMAIN s = 1 .. Len(s) /\ Head(s) = s[1]
      /\ Head(s) \in Event /\ Tail(s) \in Seq(Event) /\ Len(Tail(s)) = Len(s) - 1
      /\ \A i \in 1 .. Len(Tail(s)) : Tail(s)[i] = s[i + 1]
  BY HeadTailProperties, LenProperties, EmptySeq
<1>2. DOMAIN Tail(s) = 1 .. Len(s) - 1
  BY <1>1, LenProperties
<1>3. 1 \in 1 .. Len(s) /\ \A i \in 1 .. Len(s) - 1 : i + 1 \in 1 .. Len(s)
  BY <1>1
<1>. QED
  BY <1>1, <1>2, <1>3 DEF Range

\* A sequence stays in order when what is appended comes after all it holds, and
\* when its first element is taken away.
LEMMA OrderedAppend ==
  ASSUME NEW s \in Seq(Event), NEW e \in Event, Ordered(s),
         \A d \in Range(s) : Before(d, e)
  PROVE  Ordered(Append(s, e))
<1>1. /\ Len(s) \in Nat /\ Len(Append(s, e)) = Len(s) + 1 /\ DOMAIN s = 1 .. Len(s)
      /\ \A i \in 1 .. Len(s) : Append(s, e)[i] = s[i]
      /\ Append(s, e)[Len(s) + 1] = e
  BY AppendProperties, LenProperties
<1> SUFFICES ASSUME NEW i \in 1 .. Len(s) + 1, NEW j \in 1 .. Len(s) + 1, i < j
             PROVE  Before(Append(s, e)[i], Append(s, e)[j])
  BY <1>1 DEF Ordered
<1>2. i \in 1 .. Len(s) /\ Append(s, e)[i] = s[i] /\ s[i] \in Range(s)
  BY <1>1 DEF Range
<1>3. CASE j = Len(s) + 1
  BY <1>1, <1>2, <1>3
<1>4. CASE j # Len(s) + 1
  <2>1. j \in 1 .. Len(s) /\ Append(s, e)[j] = s[j]
    BY <1>1, <1>4
  <2>. QED
    BY <1>2, <2>1 DEF Ordered
<1>. QED
  BY <1>3, <1>4

LEMMA OrderedTail ==
  ASSUME NEW s \in Seq(Event), s # <<>>, Ordered(s)
  PROVE  /\ Ordered(Tail(s))
         /\ \A f \in Range(Tail(s)) : Before(Head(s), f)
<1>1. /\ Len(Tail(s)) = Len(s) - 1 /\ Len(s) \in Nat
      /\ \A i \in 1 .. Len(Tail(s)) : Tail(s)[i] = s[i + 1]
      /\ Head(s) = s[1] /\ DOMAIN Tail(s) = 1 .. Len(Tail(s))
  BY HeadTailProperties, LenProperties
<1>2. Ordered(Tail(s))
  <2> SUFFICES ASSUME NEW i \in 1 .. Len(Tail(s)), NEW j \in 1 .. Len(Tail(s)), i < j
               PROVE  Before(Tail(s)[i], Tail(s)[j])
    BY DEF Ordered
  <2>1. i + 1 \in 1 .. Len(s) /\ j + 1 \in 1 .. Len(s) /\ i + 1 < j + 1
    BY <1>1
  <2>. QED
    BY <1>1, <2>1 DEF Ordered
<1>3. ASSUME NEW j \in 1 .. Len(Tail(s)) PROVE Before(Head(s), Tail(s)[j])
  <2>1. 1 \in 1 .. Len(s) /\ j + 1 \in 1 .. Len(s) /\ 1 < j + 1
    BY <1>1
  <2>. QED
    BY <1>1, <2>1 DEF Ordered
<1>. QED
  BY <1>1, <1>2, <1>3 DEF Range

\* An event that has been sent stays sent: a drive is entered once in an
\* operation, and its counter is reset only when it is done.
LEMMA IssuedKept ==
  ASSUME IInv, Unborn, [ServerNext]_serverVars
  PROVE  Issued \subseteq Issued'
<1> SUFFICES ASSUME NEW e \in Issued PROVE e \in Issued'
  OBVIOUS
<1> DEFINE q == e.op
           b == e.drive
<1>1. e \in Event /\ q \in Op /\ b \in Drive /\ e.count \in Nat
  BY NumberAssumption DEF Event, Issued
<1>2. /\ job \in [Op -> [Drive -> {"none", "waiting", "active", "done"}]]
      /\ emitted \in [Op -> [Drive -> 0 .. MaxEvents]]
      /\ opc \in [Op -> {"none", "run", "published", "closed"}]
      /\ nops \in Nat /\ Op \subseteq Nat
  BY NumberAssumption DEF IInv, ServerTypeOK, Op
<1>3. SUFFICES ASSUME job[q][b] \in {"active", "done"},
                      job[q][b] = "active" => e.count <= emitted[q][b]
               PROVE  /\ job'[q][b] \in {"active", "done"}
                      /\ job'[q][b] = "active" => e.count <= emitted'[q][b]
  BY <1>1 DEF Issued
<1> HIDE DEF q, b
<1>4. ASSUME NEW ds \in Request, StartOperation(ds)
      PROVE  job'[q][b] = job[q][b] /\ emitted' = emitted
  <2>1. /\ nops' = nops + 1 /\ emitted' = emitted
        /\ \A o \in Op \ {nops'} : job'[o] = job[o]
    BY <1>2, <1>4 DEF StartOperation, Launch
  <2>2. q # nops'
    BY <1>1, <1>2, <1>3, <2>1 DEF IInv, Flag, Unborn
  <2>. QED
    BY <1>1, <2>1, <2>2
<1>5. ASSUME NEW o \in Op, NEW d \in Drive, EnterJob(o, d)
      PROVE  job'[q][b] = job[q][b] /\ emitted' = emitted
  <2>1. /\ job[o][d] = "waiting" /\ emitted' = emitted
        /\ job' = [job EXCEPT ![o] = [job[o] EXCEPT ![d] = "active"]]
    BY <1>5 DEF EnterJob
  <2>. QED
    BY <1>1, <1>2, <1>3, <2>1
<1>6. ASSUME NEW o \in Op, NEW d \in Drive, EndJob(o, d)
      PROVE  \/ job'[q][b] = "done"
             \/ job'[q][b] = job[q][b] /\ emitted'[q][b] = emitted[q][b]
  <2>1. /\ job' = [job EXCEPT ![o] = [job[o] EXCEPT ![d] = "done"]]
        /\ emitted' = [emitted EXCEPT ![o] = [emitted[o] EXCEPT ![d] = 0]]
    BY <1>6 DEF EndJob
  <2>. QED
    BY <1>1, <1>2, <2>1
<1>7. ASSUME NEW o \in Op, NEW d \in Drive, Emit(o, d)
      PROVE  job' = job /\ (e.count <= emitted[q][b] => e.count <= emitted'[q][b])
  <2>1. /\ job' = job
        /\ emitted' = [emitted EXCEPT ![o] = [emitted[o] EXCEPT ![d] = emitted[o][d] + 1]]
    BY <1>7 DEF Emit
  <2>2. emitted[o][d] \in Nat /\ emitted[q][b] \in Nat
    BY <1>1, <1>2, NumberAssumption
  <2>. QED
    BY <1>1, <1>2, <2>1, <2>2
<1>8. ASSUME NEW o \in Op, OpStep(o) \/ ForwarderStep(o)
      PROVE  job' = job /\ emitted' = emitted
  BY <1>8 DEF OpStep, ForwarderStep, Publish, CloseProgCh, Forward, HubPublish, ForwarderEnds
<1>9. ASSUME NEW c \in Client, Subscribe(c) \/ Deliver(c) \/ Disconnect(c)
      PROVE  job' = job /\ emitted' = emitted
  BY <1>9 DEF Subscribe, Deliver, Disconnect
<1>10. CASE UNCHANGED serverVars
  BY <1>3, <1>10 DEF serverVars
<1>. QED
  BY <1>3, <1>4, <1>5, <1>6, <1>7, <1>8, <1>9, <1>10 DEF ServerNext, JobStep

\* The next events of an operation are those it sent; a drive of a new operation
\* has not sent any.
LEMMA UnbornStep ==
  ASSUME IInv, Unborn, [ServerNext]_serverVars
  PROVE  Unborn'
<1>1. /\ job \in [Op -> [Drive -> {"none", "waiting", "active", "done"}]]
      /\ opc \in [Op -> {"none", "run", "published", "closed"}]
  BY DEF IInv, ServerTypeOK
<1>2. ASSUME NEW ds \in Request, StartOperation(ds) PROVE Unborn'
  <2>1. /\ nops' \in Op /\ opc' = [opc EXCEPT ![nops'] = "run"]
        /\ \A o \in Op \ {nops'} : job'[o] = job[o]
    BY <1>1, <1>2, NumberAssumption DEF StartOperation, Launch, IInv, ServerTypeOK, Op
  <2>. QED
    BY <1>1, <2>1 DEF Unborn
<1>3. ASSUME NEW o \in Op, OpStep(o) PROVE Unborn'
  BY <1>1, <1>3 DEF OpStep, Publish, CloseProgCh, Unborn
<1>4. ASSUME NEW o \in Op, NEW d \in Drive, JobStep(o, d) PROVE Unborn'
  <2>1. opc' = opc /\ job[o][d] # "none"
    BY <1>4 DEF JobStep, EnterJob, EndJob
  <2>2. PICK v : job' = [job EXCEPT ![o] = [job[o] EXCEPT ![d] = v]]
    BY <1>4 DEF JobStep, EnterJob, EndJob
  <2>. QED
    BY <1>1, <2>1, <2>2 DEF Unborn
<1>5. CASE UNCHANGED <<opc, job>>
  BY <1>5 DEF Unborn
<1>6. ASSUME NEW o \in Op, ForwarderStep(o) PROVE UNCHANGED <<opc, job>>
  BY <1>6 DEF ForwarderStep, Forward, HubPublish, ForwarderEnds
<1>7. ASSUME NEW o \in Op, NEW d \in Drive, Emit(o, d) PROVE UNCHANGED <<opc, job>>
  BY <1>7 DEF Emit
<1>8. ASSUME NEW c \in Client, Subscribe(c) \/ Deliver(c) \/ Disconnect(c)
      PROVE  UNCHANGED <<opc, job>>
  BY <1>8 DEF Subscribe, Deliver, Disconnect
<1>. QED
  BY <1>2, <1>3, <1>4, <1>5, <1>6, <1>7, <1>8 DEF ServerNext, serverVars

LEMMA OrderInvInit == ServerInit => OrderInv
<1> SUFFICES ASSUME ServerInit PROVE OrderInv
  OBVIOUS
<1>1. IInv
  BY IInvInit
<1>2. /\ \A o \in Op : prog[o] = <<>> /\ held[o] = NoEvent
      /\ \A c \in Client : buf[c] = <<>>
      /\ Unborn
  BY DEF ServerInit, Unborn
<1>3. Range(<<>>) = {} /\ Ordered(<<>>)
  BY DEF Range, Ordered
<1>. QED
  BY <1>1, <1>2, <1>3 DEF OrderInv, Tagged, Sorted

LEMMA OrderInvStep == OrderInv /\ [ServerNext]_serverVars => OrderInv'
<1> SUFFICES ASSUME OrderInv, [ServerNext]_serverVars PROVE OrderInv'
  OBVIOUS
<1>1. IInv' /\ Unborn'
  BY IInvStep, UnbornStep DEF OrderInv
<1>2. /\ prog \in [Op -> Seq(Event)] /\ buf \in [Client -> Seq(Event)]
      /\ held \in [Op -> Event \cup {NoEvent}]
      /\ job \in [Op -> [Drive -> {"none", "waiting", "active", "done"}]]
      /\ emitted \in [Op -> [Drive -> 0 .. MaxEvents]]
  BY DEF OrderInv, IInv, ServerTypeOK
<1>3. Issued \subseteq Issued' /\ Issued \subseteq Event
  BY IssuedKept DEF OrderInv, Issued
<1>4. Range(<<>>) = {} /\ Ordered(<<>>)
  BY DEF Range, Ordered
<1>5. SUFFICES Tagged' /\ Sorted'
  BY <1>1 DEF OrderInv
<1> USE DEF OrderInv
<1>6. ASSUME UNCHANGED <<prog, held, buf>> PROVE Tagged' /\ Sorted'
  BY <1>3, <1>6 DEF Tagged, Sorted
<1>7. ASSUME NEW o \in Op, Forward(o) PROVE Tagged' /\ Sorted'
  <2>1. /\ prog[o] \in Seq(Event) /\ prog[o] # <<>> /\ buf' = buf
        /\ held'[o] = Head(prog[o]) /\ prog'[o] = Tail(prog[o])
        /\ \A q \in Op \ {o} : held'[q] = held[q] /\ prog'[q] = prog[q]
    BY <1>2, <1>7 DEF Forward
  <2>2. held'[o] \in Range(prog[o]) /\ Range(prog'[o]) \subseteq Range(prog[o])
    BY <2>1, RangeTail
  <2>3. Tagged'
    BY <1>3, <2>1, <2>2 DEF Tagged
  <2>4. /\ Ordered(prog'[o])
        /\ \A f \in Range(prog'[o]) : Before(held'[o], f)
    BY <2>1, OrderedTail DEF Sorted
  <2>5. Sorted'
    BY <2>1, <2>2, <2>4 DEF Sorted
  <2>. QED
    BY <2>3, <2>5
<1>8. ASSUME NEW o \in Op, HubPublish(o) PROVE Tagged' /\ Sorted'
  <2> DEFINE e == held[o]
  <2>1. /\ e \in Event /\ e # NoEvent /\ e.op = o /\ e \in Issued /\ prog' = prog
        /\ held'[o] = NoEvent /\ \A q \in Op \ {o} : held'[q] = held[q]
    BY <1>2, <1>8 DEF HubPublish, Tagged
  <2>2. \A c \in Client : buf'[c] = buf[c] \/ buf'[c] = Append(buf[c], e)
    BY <1>8 DEF HubPublish
  <2>3. /\ \A f \in Range(prog[o]) : Before(e, f)
        /\ \A c \in Client : \A d \in Range(buf[c]) : Before(d, e)
    BY <2>1 DEF Sorted
  <2> HIDE DEF e
  <2>4. ASSUME NEW c \in Client
        PROVE  Range(buf'[c]) \subseteq Range(buf[c]) \cup {e} /\ Ordered(buf'[c])
    <3>1. buf[c] \in Seq(Event) /\ Ordered(buf[c])
      BY <1>2 DEF Sorted
    <3>2. Range(Append(buf[c], e)) = Range(buf[c]) \cup {e} /\ Ordered(Append(buf[c], e))
      BY <2>1, <2>3, <3>1, RangeAppend, OrderedAppend
    <3>. QED
      BY <2>2, <3>1, <3>2
  <2>5. ASSUME NEW q \in Op, q # o
        PROVE  /\ \A f \in Range(prog[q]) : Before(e, f)
               /\ held[q] # NoEvent => Before(e, held[q])
    BY <2>1, <2>5 DEF Tagged, Before
  <2>6. Tagged'
    BY <1>3, <2>1, <2>4 DEF Tagged
  <2>7. Sorted'
    <3>1. \A q \in Op : held'[q] # NoEvent => q # o /\ held'[q] = held[q]
      BY <2>1
    <3>2. \A q \in Op, c \in Client : held'[q] # NoEvent =>
            \A d \in Range(buf'[c]) : Before(d, held'[q])
      BY <2>4, <2>5, <3>1 DEF Sorted
    <3>3. \A q \in Op, c \in Client :
            \A d \in Range(buf'[c]), f \in Range(prog'[q]) : Before(d, f)
      BY <2>1, <2>3, <2>4, <2>5 DEF Sorted
    <3>4. \A q \in Op : held'[q] # NoEvent => \A f \in Range(prog'[q]) : Before(held'[q], f)
      BY <2>1, <3>1 DEF Sorted
    <3>. QED
      BY <2>1, <2>4, <3>2, <3>3, <3>4 DEF Sorted
  <2>. QED
    BY <2>6, <2>7
<1>9. ASSUME NEW o \in Op, NEW d \in Drive, Emit(o, d) PROVE Tagged' /\ Sorted'
  <2> DEFINE e == [op |-> o, drive |-> d, count |-> emitted[o][d] + 1]
  <2>1. CASE prog' = prog
    BY <1>6, <1>9, <2>1 DEF Emit
  <2>2. CASE prog' # prog
    <3>1. /\ emitted' = [emitted EXCEPT ![o] = [emitted[o] EXCEPT ![d] = emitted[o][d] + 1]]
          /\ emitted[o][d] < MaxEvents /\ emitted[o][d] \in Nat
          /\ job[o][d] = "active" /\ job' = job /\ held' = held /\ buf' = buf
      BY <1>2, <1>9, NumberAssumption DEF Emit
    <3>2. emitted'[o][d] = emitted[o][d] + 1
      BY <1>2, <3>1
    <3>3. prog' = [prog EXCEPT ![o] = Append(prog[o], e)]
      BY <1>9, <2>2, <3>2 DEF Emit
    <3>4. e \in Event /\ e.op = o /\ e.drive = d /\ e.count = emitted[o][d] + 1
      BY <3>1, NumberAssumption DEF Event
    <3>5. e \in Issued'
      BY <3>1, <3>2, <3>4 DEF Issued
    <3> HIDE DEF e
    <3>6. \A f \in Issued : Before(f, e)
      BY <3>1, <3>4, NumberAssumption DEF Issued, Before, Event
    <3>7. /\ prog'[o] = Append(prog[o], e) /\ prog[o] \in Seq(Event)
          /\ \A q \in Op \ {o} : prog'[q] = prog[q]
      BY <1>2, <3>3
    <3>8. /\ Range(prog'[o]) = Range(prog[o]) \cup {e}
          /\ Range(prog[o]) \subseteq Issued
      BY <3>4, <3>7, RangeAppend DEF Tagged
    <3>9. Tagged'
      <4>1. \A q \in Op : \A f \in Range(prog'[q]) : f.op = q /\ f \in Issued'
        <5>1. \A f \in Range(prog'[o]) : f.op = o /\ f \in Issued'
          BY <1>3, <3>4, <3>5, <3>8 DEF Tagged
        <5>2. \A q \in Op \ {o} : \A f \in Range(prog'[q]) : f.op = q /\ f \in Issued'
          BY <1>3, <3>7 DEF Tagged
        <5>. QED
          BY <5>1, <5>2
      <4>. QED
        BY <1>3, <3>1, <4>1 DEF Tagged
    <3>10. Ordered(prog'[o])
      BY <3>4, <3>6, <3>7, <3>8, OrderedAppend DEF Sorted
    <3>11. \A q \in Op, c \in Client :
             \A f \in Range(buf[c]), g \in Range(prog'[q]) : Before(f, g)
      <4>1. \A c \in Client : \A f \in Range(buf[c]), g \in Range(prog'[o]) : Before(f, g)
        BY <3>6, <3>8 DEF Sorted, Tagged
      <4>. QED
        BY <3>7, <4>1 DEF Sorted
    <3>12. \A q \in Op : held[q] # NoEvent => \A f \in Range(prog'[q]) : Before(held[q], f)
      <4>1. held[o] # NoEvent => \A f \in Range(prog'[o]) : Before(held[o], f)
        BY <3>6, <3>8 DEF Sorted, Tagged
      <4>. QED
        BY <3>7, <4>1 DEF Sorted
    <3>13. Sorted'
      BY <3>1, <3>7, <3>10, <3>11, <3>12 DEF Sorted
    <3>. QED
      BY <3>9, <3>13
  <2>. QED
    BY <2>1, <2>2
<1>10. ASSUME NEW c \in Client, Subscribe(c) \/ Disconnect(c) PROVE Tagged' /\ Sorted'
  <2>1. /\ prog' = prog /\ held' = held
        /\ buf'[c] = <<>> /\ \A k \in Client \ {c} : buf'[k] = buf[k]
    BY <1>2, <1>10 DEF Subscribe, Disconnect
  <2>2. Tagged'
    BY <1>3, <1>4, <2>1 DEF Tagged
  <2>3. Sorted'
    BY <1>4, <2>1 DEF Sorted
  <2>. QED
    BY <2>2, <2>3
<1>11. ASSUME NEW c \in Client, Deliver(c) PROVE Tagged' /\ Sorted'
  <2>1. /\ buf[c] \in Seq(Event) /\ buf[c] # <<>> /\ prog' = prog /\ held' = held
        /\ buf'[c] = Tail(buf[c]) /\ \A k \in Client \ {c} : buf'[k] = buf[k]
    BY <1>2, <1>11 DEF Deliver
  <2>2. Range(buf'[c]) \subseteq Range(buf[c]) /\ Ordered(buf'[c])
    BY <2>1, RangeTail, OrderedTail DEF Sorted
  <2>3. Tagged'
    BY <1>3, <2>1, <2>2 DEF Tagged
  <2>4. Sorted'
    BY <2>1, <2>2 DEF Sorted
  <2>. QED
    BY <2>3, <2>4
<1>12. ASSUME NEW ds \in Request, StartOperation(ds) PROVE UNCHANGED <<prog, held, buf>>
  BY <1>12 DEF StartOperation, Launch
<1>13. ASSUME NEW o \in Op, OpStep(o) \/ ForwarderEnds(o) PROVE UNCHANGED <<prog, held, buf>>
  BY <1>13 DEF OpStep, Publish, CloseProgCh, ForwarderEnds
<1>14. ASSUME NEW o \in Op, NEW d \in Drive, JobStep(o, d) PROVE UNCHANGED <<prog, held, buf>>
  BY <1>14 DEF JobStep, EnterJob, EndJob
<1>15. CASE UNCHANGED serverVars
  BY <1>6, <1>15 DEF serverVars
<1>. QED
  BY <1>6, <1>7, <1>8, <1>9, <1>10, <1>11, <1>12, <1>13, <1>14, <1>15
     DEF ServerNext, ForwarderStep

\* Two sequences in order, the first before the second, are in order when joined.
LEMMA OrderedConcat ==
  ASSUME NEW s \in Seq(Event), NEW t \in Seq(Event), Ordered(s), Ordered(t),
         \A e \in Range(s), f \in Range(t) : Before(e, f)
  PROVE  /\ s \o t \in Seq(Event) /\ Ordered(s \o t)
         /\ Range(s \o t) = Range(s) \cup Range(t)
<1> DEFINE m == Len(s)
           n == Len(t)
           u == s \o t
<1>1. /\ m \in Nat /\ n \in Nat /\ DOMAIN s = 1 .. m /\ DOMAIN t = 1 .. n
      /\ u \in Seq(Event) /\ Len(u) = m + n
  BY LenProperties, ConcatProperties
<1>2. \A i \in 1 .. m + n : u[i] = IF i <= m THEN s[i] ELSE t[i - m]
  BY ConcatProperties
<1> HIDE DEF m, n, u
<1>3. \A i \in 1 .. m + n : \/ i \in 1 .. m /\ u[i] = s[i]
                            \/ i - m \in 1 .. n /\ u[i] = t[i - m] /\ i > m
  BY <1>1, <1>2
<1>4. ASSUME NEW i \in 1 .. m + n, NEW j \in 1 .. m + n, i < j
      PROVE  Before(u[i], u[j])
  <2>1. CASE i \in 1 .. m /\ u[i] = s[i] /\ j \in 1 .. m /\ u[j] = s[j]
    BY <1>4, <2>1 DEF Ordered, m
  <2>2. CASE i \in 1 .. m /\ u[i] = s[i] /\ j - m \in 1 .. n /\ u[j] = t[j - m]
    BY <1>1, <2>2 DEF Range
  <2>3. CASE /\ i - m \in 1 .. n /\ u[i] = t[i - m] /\ i > m
             /\ j - m \in 1 .. n /\ u[j] = t[j - m]
    <3>1. i - m < j - m
      BY <1>1, <1>4
    <3>. QED
      BY <2>3, <3>1 DEF Ordered, n
  <2>. QED
    BY <1>1, <1>3, <1>4, <2>1, <2>2, <2>3
<1>5. Ordered(u)
  BY <1>1, <1>4 DEF Ordered
<1>. QED
  BY <1>1, <1>5, RangeConcatenation DEF u

\* In order place by place, events are in order along the whole way.
LEMMA SortedIsInOrder == ServerTypeOK /\ Sorted => InOrder
<1> SUFFICES ASSUME ServerTypeOK, Sorted, NEW o \in Op, NEW c \in Client
             PROVE  Ordered(Stream(o, c))
  BY DEF InOrder, Ordered
<1>1. buf[c] \in Seq(Event) /\ prog[o] \in Seq(Event) /\ held[o] \in Event \cup {NoEvent}
  BY DEF ServerTypeOK
<1>2. /\ Ordered(buf[c]) /\ Ordered(prog[o])
      /\ \A e \in Range(buf[c]), f \in Range(prog[o]) : Before(e, f)
  BY DEF Sorted
<1>3. CASE held[o] = NoEvent
  <2>1. HeldBy(o) = <<>> /\ buf[c] \o <<>> = buf[c]
    BY <1>1, <1>3, ConcatEmptySeq DEF HeldBy
  <2>. QED
    BY <1>1, <1>2, <2>1, OrderedConcat DEF Stream
<1>4. CASE held[o] # NoEvent
  <2> DEFINE h == <<held[o]>>
  <2>1. /\ HeldBy(o) = h /\ held[o] \in Event
        /\ \A f \in Range(prog[o]) : Before(held[o], f)
        /\ \A e \in Range(buf[c]) : Before(e, held[o])
    BY <1>1, <1>4 DEF HeldBy, Sorted
  <2>2. h \in Seq(Event) /\ Ordered(h) /\ Range(h) = {held[o]}
    BY <2>1 DEF Ordered, Range
  <2> HIDE DEF h
  <2>3. /\ buf[c] \o h \in Seq(Event) /\ Ordered(buf[c] \o h)
        /\ Range(buf[c] \o h) = Range(buf[c]) \cup {held[o]}
    BY <1>1, <1>2, <2>1, <2>2, OrderedConcat
  <2>4. Ordered((buf[c] \o h) \o prog[o])
    BY <1>1, <1>2, <2>1, <2>3, OrderedConcat
  <2>. QED
    BY <2>1, <2>4 DEF Stream
<1>. QED
  BY <1>3, <1>4

\* The events of a drive reach a client in the order they were sent, from the
\* channel of the operation through its forwarder and the hub to the channel of
\* the client, whatever is lost on the way and however operations follow each other.
THEOREM EventsStayInOrder == ServerSpec => []InOrder
<1>1. OrderInv => InOrder
  BY SortedIsInOrder DEF OrderInv, IInv
<1>. QED
  BY OrderInvInit, OrderInvStep, <1>1, PTL DEF ServerSpec

-----------------------------------------------------------------------------
(* The progress channel of an operation is closed after the last send on it, and
   its forwarder takes everything out of it. *)

\* No drive is processed on a closed channel (the send would panic), and a forwarder
\* that has ended has published every event that found room in the channel.
ChannelsDrained ==
    \A o \in Op :
        /\ opc[o] \in {"published", "closed"} => Active(o) = {}
        /\ fwd[o] = "gone" => opc[o] = "closed" /\ prog[o] = <<>> /\ held[o] = NoEvent

Drains ==
    \A o \in Op :
        fwd[o] = "gone" => opc[o] = "closed" /\ prog[o] = <<>> /\ held[o] = NoEvent

LEMMA DrainsStep == IInv /\ Drains /\ [ServerNext]_serverVars => Drains'
<1> SUFFICES ASSUME IInv, Drains, [ServerNext]_serverVars PROVE Drains'
  OBVIOUS
<1>1. /\ opc \in [Op -> {"none", "run", "published", "closed"}]
      /\ prog \in [Op -> Seq(Event)]
      /\ fwd \in [Op -> {"none", "running", "gone"}]
      /\ held \in [Op -> Event \cup {NoEvent}]
  BY DEF IInv, ServerTypeOK
<1>2. CASE UNCHANGED <<opc, fwd, prog, held>>
  BY <1>2 DEF Drains
<1>3. ASSUME NEW ds \in Request, StartOperation(ds) PROVE Drains'
  <2>1. PICK n : n = nops'
    OBVIOUS
  <2>2. /\ opc' = [opc EXCEPT ![n] = "run"] /\ fwd' = [fwd EXCEPT ![n] = "running"]
        /\ UNCHANGED <<prog, held>>
    BY <1>3, <2>1 DEF StartOperation, Launch
  <2>. QED
    BY <1>1, <2>2 DEF Drains
<1>4. ASSUME NEW o \in Op, Publish(o) PROVE Drains'
  BY <1>1, <1>4 DEF Publish, Drains
<1>5. ASSUME NEW o \in Op, CloseProgCh(o) PROVE Drains'
  BY <1>1, <1>5 DEF CloseProgCh, Drains
<1>6. ASSUME NEW o \in Op, NEW d \in Drive, Emit(o, d) PROVE Drains'
  <2>1. /\ fwd[o] # "gone" /\ UNCHANGED <<opc, fwd, held>>
        /\ \A q \in Op \ {o} : prog'[q] = prog[q]
    BY <1>1, <1>6 DEF Emit, IInv, Waited, Drains
  <2>. QED
    BY <2>1 DEF Drains
<1>7. ASSUME NEW o \in Op, Forward(o) PROVE Drains'
  BY <1>1, <1>7 DEF Forward, Drains
<1>8. ASSUME NEW o \in Op, HubPublish(o) PROVE Drains'
  BY <1>1, <1>8 DEF HubPublish, Drains
<1>9. ASSUME NEW o \in Op, ForwarderEnds(o) PROVE Drains'
  BY <1>1, <1>9 DEF ForwarderEnds, Drains
<1>10. ASSUME NEW o \in Op, NEW d \in Drive, JobStep(o, d)
       PROVE  UNCHANGED <<opc, fwd, prog, held>>
  BY <1>10 DEF JobStep, EnterJob, EndJob
<1>11. ASSUME NEW c \in Client, Subscribe(c) \/ Deliver(c) \/ Disconnect(c)
       PROVE  UNCHANGED <<opc, fwd, prog, held>>
  BY <1>11 DEF Subscribe, Deliver, Disconnect
<1>. QED
  BY <1>2, <1>3, <1>4, <1>5, <1>6, <1>7, <1>8, <1>9, <1>10, <1>11
  DEF ServerNext, OpStep, ForwarderStep, serverVars

\* The server closes the channel of an operation only when every drive is done with
\* it, and its forwarder ends only when the channel is empty: no event that found
\* room is left in it, and none is sent on the closed channel by a drive in progress.
THEOREM ServerDrainsChannels == ServerSpec => []ChannelsDrained
<1>1. ServerInit => Drains
  BY DEF ServerInit, Drains
<1>2. IInv /\ Drains => ChannelsDrained
  BY DEF IInv, Waited, Drains, ChannelsDrained, Active
<1>3. ServerSpec => []Drains
  <2>1. IInv /\ IInv' /\ Drains /\ [ServerNext]_serverVars => Drains'
    BY DrainsStep
  <2>. QED
    BY <1>1, <2>1, IInvariant, PTL DEF ServerSpec
<1>. QED
  BY <1>2, <1>3, IInvariant, PTL
=============================================================================
