------------------------------- MODULE HdcTask -------------------------------
(***************************************************************************)
(* The tasks of one channel (common/task.cpp and the task part of          *)
(* common/session.cpp).  A command of a client is served by two objects of *)
(* one class, one at each end of the session, which answer each other's    *)
(* messages: the end where the command was sent to runs the master, which  *)
(* wakes up the slave.  Every handler runs on the loop of the session's    *)
(* worker of its end.  This module has what all the classes share: the     *)
(* entry in mapTask, the messages in order, CMD_KERNEL_CHANNEL_CLOSE, the  *)
(* reference count that delays the release, the channel of the server as   *)
(* its tasks see it (HdcChannel has its own life) and the end of the       *)
(* session.  The modules of the classes add the handlers, HdcTasks puts    *)
(* them together.                                                          *)
(***************************************************************************)
EXTENDS Integers, Sequences, FiniteSets

CONSTANTS Kinds,       \* the commands the client may give
          Origins,     \* ends that may run the master task
          MaxNet,      \* bound: messages under way when an event sends another
          SessionFails, \* bound: the session may end at any time
          PoolFills,   \* bound: other tasks may fill the thread pool
          Faults       \* <<command, operation>>: operations that may fail

ASSUME TaskAssumption ==
    /\ Kinds \subseteq {"forward", "file", "dir", "install", "sideload", "uninstall",
                        "shell", "execute", "oneshot", "bugreport"}
    /\ Origins \subseteq {"host", "daemon"}
    /\ MaxNet \in Nat
    /\ SessionFails \in BOOLEAN
    /\ PoolFills \in BOOLEAN

VARIABLES
    kind,     \* what the client asked for
    origin,   \* the end of the master task
    session,  \* "up" or "down"
    task,     \* the HTaskInfo of the channel: "none", "run", "stop", "gone"
    orphan,   \* objects whose HTaskInfo was replaced: nobody can stop them
    refCount, \* of the task object
    owed,     \* references that were not given back, less those given back twice
    net,      \* messages on their way to an end, in order
    chan,     \* the channel: "open", "asked" (to be freed), "dead", "gone"
    told      \* levels of the messages shown to the client

taskVars == <<kind, origin, session, task, orphan, refCount, owed, net, chan, told>>

End == {"host", "daemon"}
Other(e) == IF e = "host" THEN "daemon" ELSE "host"
Both(v) == [e \in End |-> v]
Slave == Other(origin)

Fault(op) == <<kind, op>> \in Faults

Msg(c, n) == [cmd |-> c, n |-> n]
Wakeup == Msg("WAKEUP", 0)
Close(n) == Msg("CLOSE", n)
EchoOf(lv) == Msg(IF lv = "ok" THEN "ECHO_OK" ELSE "ECHO_FAIL", 0)

TaskTypeOK(Msgs) ==
    /\ kind \in Kinds
    /\ origin \in End
    /\ session \in {"up", "down"}
    /\ task \in [End -> {"none", "run", "stop", "gone"}]
    /\ orphan \in [End -> Nat]
    /\ refCount \in [End -> Nat \cup {-1}]  \* one below 0 it wraps around
    /\ owed \in [End -> -1..1]
    /\ net \in [End -> Seq(Msgs)]
    /\ chan \in {"open", "asked", "dead", "gone"}
    /\ told \subseteq {"ok", "fail"}

\* The server has sent the first command of a client to the master's end.
TaskInit(first) ==
    /\ session = "up"
    /\ task = Both("none") /\ orphan = Both(0)
    /\ refCount = Both(0) /\ owed = Both(0)
    /\ net = [e \in End |-> IF e = origin THEN <<Msg(first, 0)>> ELSE <<>>]
    /\ chan = "open" /\ told = {}

-----------------------------------------------------------------------------
(* Sending.                                                                *)

\* FetchCommand of the server goes on only with a channel that is not dead.
ChannelServed(e) == e = "host" => chan \in {"open", "asked"}

\* A loop runs callbacks of the task's handles until the object is deleted.
LoopRuns(e) == task[e] \in {"run", "stop"}

\* Bound on the events that make an end send more.
MaySend(e) == Len(net[Other(e)]) < MaxNet

\* LogMsg: the daemon sends CMD_KERNEL_ECHO, the server calls EchoClient.
Log(e, lv) == IF e = "host" THEN <<>> ELSE <<EchoOf(lv)>>
LogTold(e, lvs) == IF e = "host" /\ ChannelServed("host") THEN told \cup lvs
                                                          ELSE told

\* What a handler at e leaves of its messages, sends (its Log included), and
\* shows the client when it runs at the server.
Sends(e, rest, lvs, out) ==
    /\ net' = IF session = "down" THEN Both(<<>>)
              ELSE [d \in End |-> IF d = e THEN rest ELSE net[d] \o out]
    /\ told' = LogTold(e, lvs)
\* The handler of the message at the head, or of an event of the loop.
Answer(e, lvs, out) == Sends(e, Tail(net[e]), lvs, out)
Emit(e, lvs, out) == Sends(e, net[e], lvs, out)

\* A message with this command for a task that runs.
Gets(e, c) ==
    /\ net[e] # <<>> /\ Head(net[e]).cmd = c
    /\ ChannelServed(e)
    /\ task[e] = "run"
Arg(e) == Head(net[e]).n

\* HdcTaskBase::TaskFinish.
Finish == <<Close(1)>>
\* CommandDispatch returns false after a LogMsg: TaskCommandDispatch finishes.
Fails(e) == Log(e, "fail") \o Finish

-----------------------------------------------------------------------------
(* DispatchTaskData and the life of the HTaskInfo.                         *)

AddRef(e, d) == refCount' = [refCount EXCEPT ![e] = @ + d]
Owe(e, d) == owed' = [owed EXCEPT ![e] = @ + d]

\* A message that makes DispatchTaskData add an HTaskInfo (NeedNewTaskInfo).
Creates(e, c) == net[e] # <<>> /\ Head(net[e]).cmd = c /\ ChannelServed(e)

\* AdminTask(OP_ADD): an entry of the channel is deleted and replaced, its
\* object is not.
AddTask(e) ==
    /\ task' = [task EXCEPT ![e] = "run"]
    /\ orphan' = [orphan EXCEPT ![e] = IF task[e] = "run" THEN @ + 1 ELSE @]

\* CMD_KERNEL_WAKEUP_SLAVETASK: the entry is made, the object with its first
\* message.
Wake(e) ==
    /\ Creates(e, "WAKEUP")
    /\ AddTask(e)
    /\ Answer(e, {}, <<>>)
    /\ UNCHANGED <<kind, origin, session, owed, refCount, chan>>

\* The pool of the daemon is full after three tries: the message of LogMsg is
\* sent, FetchCommand fails and the session is freed.
PoolBusy(creating) ==
    /\ PoolFills /\ session = "up"
    /\ \E c \in creating : Creates("daemon", c)
    /\ session' = "down"
    /\ net' = Both(<<>>)
    /\ told' = told \cup {"fail"}
    /\ chan' = IF chan = "open" THEN "asked" ELSE chan
    /\ UNCHANGED <<kind, origin, owed, task, orphan, refCount>>

\* The session is freed at both ends; what is under way is lost.
SessionEnd ==
    /\ SessionFails /\ session = "up"
    /\ session' = "down"
    /\ net' = Both(<<>>)
    /\ chan' = IF chan = "open" THEN "asked" ELSE chan
    /\ UNCHANGED <<kind, origin, owed, task, orphan, refCount, told>>

\* BeginRemoveTask stops a task that runs; the StopTask of its class, which
\* HdcTasks adds, says what becomes of refCount and of the class's variables.
BeginRemoveTask(e) == task' = [task EXCEPT ![e] = IF @ = "run" THEN "stop" ELSE @]

\* CMD_KERNEL_CHANNEL_CLOSE: ClearOwnTasks, the answer with the count one
\* lower and, at the server, ASYNC_FREE_CHANNEL.
FetchClose(e) ==
    /\ net[e] # <<>> /\ Head(net[e]).cmd = "CLOSE" /\ ChannelServed(e)
    /\ BeginRemoveTask(e)
    /\ Answer(e, {}, IF Arg(e) = 0 THEN <<>> ELSE <<Close(Arg(e) - 1)>>)
    /\ chan' = IF e = "host" /\ chan = "open" THEN "asked" ELSE chan
    /\ UNCHANGED <<kind, origin, session, owed, orphan>>

\* SP_DEATCH_CHANNEL of a dead channel: its tasks are stopped, then CLOSE 0.
DeatchChannel ==
    /\ chan = "dead"
    /\ chan' = "gone"
    /\ BeginRemoveTask("host")
    /\ Emit("host", {}, <<Close(0)>>)
    /\ UNCHANGED <<kind, origin, session, owed, orphan>>

\* ReChildLoopForSessionClear at an end whose session is over.
ClearOwnTasks(e) ==
    /\ session = "down" /\ task[e] = "run"
    /\ BeginRemoveTask(e)
    /\ UNCHANGED <<kind, origin, session, owed, orphan, net, chan, told>>

\* TryRemoveTask, by a timer of the loop; ready is ReadyForRelease of the class.
TryRemoveTask(e, ready) ==
    /\ task[e] = "stop" /\ ready
    /\ task' = [task EXCEPT ![e] = "gone"]
    /\ UNCHANGED <<kind, origin, session, owed, orphan, refCount, net, chan, told>>

\* A message for a task that is not there or stopped is ignored; taskless are
\* the commands that need none.
Ignored(e, taskless) ==
    /\ net[e] # <<>> /\ ChannelServed(e) /\ task[e] # "run"
    /\ Head(net[e]).cmd \notin taskless
    /\ Answer(e, {}, <<>>)
    /\ UNCHANGED <<kind, origin, session, owed, task, orphan, refCount, chan>>

-----------------------------------------------------------------------------
(* The channel at the server.                                              *)

\* CMD_KERNEL_ECHO of the daemon.
FetchEcho ==
    /\ net["host"] # <<>> /\ ChannelServed("host")
    /\ \E lv \in {"ok", "fail"} :
          /\ Head(net["host"]) = EchoOf(lv)
          /\ told' = told \cup {lv}
    /\ net' = [net EXCEPT !["host"] = Tail(@)]
    /\ UNCHANGED <<kind, origin, session, owed, task, orphan, refCount, chan>>

\* FetchCommand drops what is for a dead channel; for one that is no longer
\* known it tells the daemon to close.
FetchUnserved ==
    /\ net["host"] # <<>> /\ ~ChannelServed("host")
    /\ Answer("host", {}, IF chan = "gone" THEN <<Close(0)>> ELSE <<>>)
    /\ UNCHANGED <<kind, origin, session, owed, task, orphan, refCount, chan>>

\* The client leaves, or the forward rule of the channel is removed.
FreeChannel ==
    /\ chan \in {"open", "asked"}
    /\ chan' = "dead"
    /\ UNCHANGED <<kind, origin, session, owed, task, orphan, refCount, net, told>>
=============================================================================
