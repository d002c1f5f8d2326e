----------------------------- MODULE RunServer -----------------------------
(***************************************************************************)
(* Operations of the web server: startOperationForPaths and progressHub of *)
(* internal/api/server.go, and coordinator.Run, which they call.           *)
(*                                                                         *)
(* An operation is accepted if none is running, processes its drives in a  *)
(* goroutine each, no more than MaxActive at a time, publishes the         *)
(* results as the new status and closes its progress channel.  Its         *)
(* forwarder hands the events of that channel to the hub, which hands them *)
(* to every subscriber that has room.  What a goroutine does to its drive  *)
(* is in ShadowSwap and SyncPipeline; here it is active for a while and    *)
(* emits events.  The process lives on: a shutdown, and the walker that it *)
(* may leave behind to emit on the closed channel, is SyncPipeline's       *)
(* Cancel, followed by ShadowSwap's Crash when main returns.               *)
(***************************************************************************)
EXTENDS Naturals, Sequences, FiniteSets

CONSTANTS
    Drive,      \* the configured drives
    Request,    \* the sets of drives a request may name: one of them, or all
    MaxActive,  \* drives processed at a time (MAX_WORKERS)
    Client,     \* browsers on GET /api/progress
    ProgCap,    \* capacity of an operation's channel (256 in the code)
    SubCap,     \* capacity of a subscriber's channel (64 in the code)
    MaxOps,     \* bound: operations accepted
    MaxEvents,  \* bound: events of one drive in one operation
    NoEvent     \* a forwarder that holds no event

Op == 1 .. MaxOps
\* The events of a drive are numbered in the order it sends them.
Event == [op : Op, drive : Drive, count : 1 .. MaxEvents]

ASSUME RequestAssumption == Request \subseteq SUBSET Drive
ASSUME DriveAssumption == IsFiniteSet(Drive)
ASSUME NumberAssumption ==
    /\ MaxActive \in Nat \ {0} /\ ProgCap \in Nat \ {0} /\ SubCap \in Nat \ {0}
    /\ MaxOps \in Nat /\ MaxEvents \in Nat
ASSUME NoEventAssumption == NoEvent \notin Event

VARIABLES
    running,    \* status.Running
    shown,      \* the operation whose results the status holds, 0 before the first
    nops,       \* operations accepted so far
    opc,        \* each operation: "none", "run", "published" or "closed"
    job,        \* job[o][d]: "none", "waiting", "active" or "done"
    emitted,    \* emitted[o][d]: the events of a job so far, while it is active
    prog,       \* the progress channel of each operation
    fwd,        \* its forwarder: "none", "running" or "gone"
    held,       \* the event that the forwarder is about to publish
    subs,       \* the subscribers registered with the hub
    buf         \* the channel of each subscriber

opVars == <<running, shown, nops, opc, job>>
hubVars == <<fwd, held, subs, buf>>
serverVars == <<opVars, emitted, prog, hubVars>>

ServerTypeOK ==
    /\ running \in BOOLEAN
    /\ shown \in Op \cup {0} /\ nops \in Op \cup {0}
    /\ opc \in [Op -> {"none", "run", "published", "closed"}]
    /\ job \in [Op -> [Drive -> {"none", "waiting", "active", "done"}]]
    /\ emitted \in [Op -> [Drive -> 0 .. MaxEvents]]
    /\ prog \in [Op -> Seq(Event)] /\ \A o \in Op : Len(prog[o]) <= ProgCap
    /\ fwd \in [Op -> {"none", "running", "gone"}]
    /\ held \in [Op -> Event \cup {NoEvent}]
    /\ subs \subseteq Client
    /\ buf \in [Client -> Seq(Event)] /\ \A c \in Client : Len(buf[c]) <= SubCap

ServerInit ==
    /\ running = FALSE /\ shown = 0 /\ nops = 0
    /\ opc = [o \in Op |-> "none"]
    /\ job = [o \in Op |-> [d \in Drive |-> "none"]]
    /\ emitted = [o \in Op |-> [d \in Drive |-> 0]]
    /\ prog = [o \in Op |-> <<>>]
    /\ fwd = [o \in Op |-> "none"]
    /\ held = [o \in Op |-> NoEvent]
    /\ subs = {}
    /\ buf = [c \in Client |-> <<>>]

-----------------------------------------------------------------------------
(* An operation and its drives. *)

Launch(ds) ==
    /\ nops < MaxOps
    /\ nops' = nops + 1
    /\ opc' = [opc EXCEPT ![nops'] = "run"]
    /\ job' = [job EXCEPT ![nops'] = [d \in Drive |-> IF d \in ds THEN "waiting" ELSE "none"]]
    /\ fwd' = [fwd EXCEPT ![nops'] = "running"]
    /\ running' = TRUE
    /\ UNCHANGED <<shown, emitted, prog, held, subs, buf>>

\* A bug to catch: the flag is set without being looked at.
StartUnchecked(ds) == Launch(ds)

\* startOperationForPaths: under the lock, the flag is tested and set; the
\* forwarder and the operation's goroutines are started.  While the flag is set
\* a request is answered 409 and changes nothing.
StartOperation(ds) ==
    /\ ~running
    /\ Launch(ds)

Active(o) == {d \in Drive : job[o][d] = "active"}

\* A bug to catch: a drive that is done keeps its place.
EnterJobOnce(o, d) ==
    /\ job[o][d] = "waiting"
    /\ Cardinality({e \in Drive : job[o][e] \in {"active", "done"}}) < MaxActive
    /\ job' = [job EXCEPT ![o][d] = "active"]
    /\ UNCHANGED <<hubVars, running, shown, nops, opc, emitted, prog>>

\* The send on the semaphore; its capacity, min(MaxActive, numDrives), is
\* no tighter for an operation on fewer drives.
EnterJob(o, d) ==
    /\ job[o][d] = "waiting"
    /\ Cardinality(Active(o)) < MaxActive
    /\ job' = [job EXCEPT ![o][d] = "active"]
    /\ UNCHANGED <<hubVars, running, shown, nops, opc, emitted, prog>>

\* A bug to catch: the same event is sent again.
EmitSame(o, d) ==
    /\ job[o][d] = "active"
    /\ emitted[o][d] < MaxEvents
    /\ Len(prog[o]) < ProgCap
    /\ prog' = [prog EXCEPT ![o] = Append(@, [op |-> o, drive |-> d,
                                             count |-> emitted[o][d] + 1])]
    /\ UNCHANGED <<opVars, hubVars, emitted>>

\* emitProgress of the syncer that processes the drive: dropped when there is no room.
Emit(o, d) ==
    /\ job[o][d] = "active"
    /\ emitted[o][d] < MaxEvents
    /\ emitted' = [emitted EXCEPT ![o][d] = @ + 1]
    /\ prog' = IF Len(prog[o]) < ProgCap
               THEN [prog EXCEPT ![o] = Append(@, [op |-> o, drive |-> d,
                                                   count |-> emitted'[o][d]])]
               ELSE prog
    /\ UNCHANGED <<opVars, hubVars>>

\* processDrive returns, successfully or not; its place is given back, and the
\* counters of its syncer are gone.
EndJob(o, d) ==
    /\ job[o][d] = "active"
    /\ job' = [job EXCEPT ![o][d] = "done"]
    /\ emitted' = [emitted EXCEPT ![o][d] = 0]
    /\ UNCHANGED <<hubVars, running, shown, nops, opc, prog>>

\* A bug to catch: the results are published before every drive is done.
PublishEarly(o) ==
    /\ opc[o] = "run"
    /\ \E d \in Drive : job[o][d] = "done"
    /\ running' = FALSE
    /\ shown' = o
    /\ opc' = [opc EXCEPT ![o] = "published"]
    /\ UNCHANGED <<hubVars, nops, job, emitted, prog>>

\* wg.Wait has returned; under the lock the status is replaced, its flag cleared.
Publish(o) ==
    /\ opc[o] = "run"
    /\ \A d \in Drive : job[o][d] \in {"none", "done"}
    /\ running' = FALSE
    /\ shown' = o
    /\ opc' = [opc EXCEPT ![o] = "published"]
    /\ UNCHANGED <<hubVars, nops, job, emitted, prog>>

\* The deferred close of the progress channel.
CloseProgCh(o) ==
    /\ opc[o] = "published"
    /\ opc' = [opc EXCEPT ![o] = "closed"]
    /\ UNCHANGED <<hubVars, running, shown, nops, job, emitted, prog>>

-----------------------------------------------------------------------------
(* The forwarders, the hub and its subscribers. *)

\* The forwarder receives an event ...
Forward(o) ==
    /\ fwd[o] = "running" /\ held[o] = NoEvent /\ prog[o] # <<>>
    /\ held' = [held EXCEPT ![o] = Head(prog[o])]
    /\ prog' = [prog EXCEPT ![o] = Tail(@)]
    /\ UNCHANGED <<opVars, emitted, fwd, subs, buf>>

\* A bug to catch: publish waits for a subscriber that has no room.
HubPublishBlocking(o) ==
    /\ held[o] # NoEvent
    /\ \A c \in subs : Len(buf[c]) < SubCap
    /\ buf' = [c \in Client |-> IF c \in subs THEN Append(buf[c], held[o]) ELSE buf[c]]
    /\ held' = [held EXCEPT ![o] = NoEvent]
    /\ UNCHANGED <<opVars, emitted, prog, fwd, subs>>

\* ... and publishes it under the hub's lock, to every subscriber that has room.
HubPublish(o) ==
    /\ held[o] # NoEvent
    /\ buf' = [c \in Client |-> IF c \in subs /\ Len(buf[c]) < SubCap
                                THEN Append(buf[c], held[o]) ELSE buf[c]]
    /\ held' = [held EXCEPT ![o] = NoEvent]
    /\ UNCHANGED <<opVars, emitted, prog, fwd, subs>>

\* range ends: the channel is closed and drained.
ForwarderEnds(o) ==
    /\ fwd[o] = "running" /\ held[o] = NoEvent /\ prog[o] = <<>> /\ opc[o] = "closed"
    /\ fwd' = [fwd EXCEPT ![o] = "gone"]
    /\ UNCHANGED <<opVars, emitted, prog, held, subs, buf>>

\* handleProgress: a new channel for a new client.
Subscribe(c) ==
    /\ c \notin subs
    /\ subs' = subs \cup {c}
    /\ buf' = [buf EXCEPT ![c] = <<>>]
    /\ UNCHANGED <<opVars, emitted, prog, fwd, held>>

\* The handler takes an event and writes it to its client.
Deliver(c) ==
    /\ c \in subs /\ buf[c] # <<>>
    /\ buf' = [buf EXCEPT ![c] = Tail(@)]
    /\ UNCHANGED <<opVars, emitted, prog, fwd, held, subs>>

\* The client goes away: unsubscribed, its channel is garbage.
Disconnect(c) ==
    /\ c \in subs
    /\ subs' = subs \ {c}
    /\ buf' = [buf EXCEPT ![c] = <<>>]
    /\ UNCHANGED <<opVars, emitted, prog, fwd, held>>

JobStep(o, d) == EnterJob(o, d) \/ EndJob(o, d)
OpStep(o) == Publish(o) \/ CloseProgCh(o)
ForwarderStep(o) == Forward(o) \/ HubPublish(o) \/ ForwarderEnds(o)

ServerNext ==
    \/ \E ds \in Request : StartOperation(ds)
    \/ \E o \in Op : OpStep(o) \/ ForwarderStep(o)
    \/ \E o \in Op, d \in Drive : JobStep(o, d) \/ Emit(o, d)
    \/ \E c \in Client : Subscribe(c) \/ Deliver(c) \/ Disconnect(c)

ServerSpec == ServerInit /\ [][ServerNext]_serverVars

-----------------------------------------------------------------------------
(* Properties. *)

\* At most one operation is active at a time, the last one accepted, and the
\* status says running for as long as it touches a drive: a drive is never
\* processed by two operations, whatever requests arrive in the meantime.
OneOperation == \A o \in Op : Active(o) # {} => running /\ o = nops

\* The status shows the results of the last operation that has ended, complete
\* with all its drives; an older operation never overwrites a newer one's.
StatusIsLatest ==
    /\ shown = IF running THEN nops - 1 ELSE nops
    /\ shown # 0 => \A d \in Drive : job[shown][d] \in {"none", "done"}

\* Two events of one drive in one operation, in the order they were sent.
Before(e, f) == e.op = f.op /\ e.drive = f.drive => e.count < f.count

\* The event the forwarder holds, as what it adds to a stream.
HeldBy(o) == IF held[o] = NoEvent THEN <<>> ELSE <<held[o]>>

\* What a client is sent and the events of an operation on their way to it, the
\* next one first.
Stream(o, c) == buf[c] \o HeldBy(o) \o prog[o]

\* A client receives the events of a drive in the order they were sent: they
\* may be lost where there is no room, and are never repeated or overtaken.
InOrder ==
    \A o \in Op, c \in Client : \A i, j \in 1 .. Len(Stream(o, c)) :
        i < j => Before(Stream(o, c)[i], Stream(o, c)[j])

\* An accepted operation ends, however few drives may be processed at a time:
\* the flag that turns every other request away is cleared.
OperationEnds == running ~> ~running

\* The forwarder of an operation ends, even if no client reads what it is sent.
ForwardersEnd == \A o \in Op : (opc[o] = "closed") ~> (fwd[o] = "gone")
=============================================================================
