------------------------------ MODULE HdcChannel ------------------------------
(***************************************************************************)
(* The life of an HdcChannel object of the server (common/channel.cpp,     *)
(* host/server_for_client.cpp): one per command line client.  The main     *)
(* loop accepts the client and shakes hands on hWorkTCP; a channel with a  *)
(* connect-key is then handed to the worker of the session of that device, *)
(* which serves a duplicate of the socket, hChildWorkTCP, on its own loop. *)
(* Freeing the channel takes both threads: the main loop waits until       *)
(* nobody has a reference, tells the worker to let go (SP_DEATCH_CHANNEL), *)
(* waits for childCleared and deletes the object.                          *)
(*                                                                         *)
(* The module has one session, whose own life is that of HdcSession seen   *)
(* from its channels, the tasks that the session's two ends run for a      *)
(* channel, and the CMD_KERNEL_CHANNEL_CLOSE messages by which the ends    *)
(* tell each other that a channel is over.  A callback of a loop is one    *)
(* action, except FetchCommand: the main loop can run between its steps.   *)
(* A channel stands for its channelId.                                     *)
(***************************************************************************)
EXTENDS Naturals, Sequences, FiniteSets

CONSTANTS Channels,   \* the channels that may ever be accepted
          Local,      \* those whose client names no device
          MaxWrites,  \* bound: uv_write requests in flight on a socket
          MaxLink,    \* bound: messages under way when a task sends another
          SessionEnds, \* bound: the session may be freed
          None        \* the worker is not inside FetchCommand

ASSUME ConstantsAssumption ==
    /\ IsFiniteSet(Channels)
    /\ Local \subseteq Channels
    /\ MaxWrites \in Nat \ {0}
    /\ MaxLink \in Nat \ {0}
    /\ SessionEnds \in BOOLEAN

VARIABLES
    \* The object and its registration in mapChannel.
    mem,           \* "none", "alloc" (and in mapChannel), "freed"
    isDead,
    ref,           \* atomic count of its users
    handshakeOK,
    keepAlive,
    \* Main loop.
    hWorkTCP,      \* see WorkTcpStates
    uvHandleRef,
    mainWrites,    \* uv_write requests in flight on hWorkTCP
    bindNext,      \* the DoNextLoop task of BindChannelToSession is pending
    connectTimer,  \* the timer of OrderConnecTargetResult runs
    freePc,        \* the step of FreeChannel the main loop will run next
    lstMainThreadOP, \* channels with an ASYNC_FREE_CHANNEL message pending
    mapForward,    \* channels with an entry in mapForward
    \* The session and its worker.
    session,       \* "alive", "dead" (and offline), "stopped" (SP_STOP is sent)
    ctrl,          \* the control socket: a queue of CtrlStruct
    work,          \* "up", "clearing" (SP_STOP_SESSION was read), "gone"
    fetch,         \* None, or where the worker is inside FetchCommand
    hChildWorkTCP, \* see ChildTcpStates
    writes,        \* uv_write requests in flight on hChildWorkTCP
    childNext,     \* the DoNextLoop task of DeatchChannel is pending
    childCleared,
    task,          \* the entry of mapTask of the server: "none", "run", "stop"
    \* The link, the daemon and the clients.
    toDaemon, toServer, \* messages of the session under way
    daemonTask,    \* the entry of mapTask of the daemon
    client         \* "none", "here", "asked" (sent its command), "gone"

objVars  == <<mem, isDead, ref, handshakeOK, keepAlive>>
mainVars == <<hWorkTCP, uvHandleRef, mainWrites, bindNext, connectTimer>>
freeVars == <<freePc, lstMainThreadOP>>
sessVars == <<session, work>>
workVars == <<hChildWorkTCP, writes, childNext, childCleared>>
linkVars == <<toDaemon, toServer>>
vars == <<objVars, mainVars, freeVars, mapForward, sessVars, ctrl, fetch,
          workVars, task, linkVars, daemonTask, client>>

-----------------------------------------------------------------------------
WorkTcpStates == {"none",
                  "inited",      \* without a socket: uv_accept failed
                  "open",
                  "bindClosing", \* funcWorkTcpClose will decrement ref
                  "freeClosing", \* closeChannelHandle will decrement uvHandleRef
                  "closed"}      \* uv_close was called, with no callback to come
ChildTcpStates == {"none", "open",
                   "closing",      \* uv_close without a callback
                   "clearClosing", \* uv_close, its callback sets childCleared
                   "closed"}
FreeStates == {"none", "operate", "waitChild", "finally", "done"}
TaskStates == {"none", "run", "stop"}
\* Commands between the ends of a session; the count is that of a CLOSE.
Command(cmd, c) == [cmd |-> cmd, ch |-> c, count |-> 0]
Close(c, n) == [cmd |-> "CHANNEL_CLOSE", ch |-> c, count |-> n]
Commands == [cmd : {"INIT", "SHELL_INIT", "WAKEUP_SLAVETASK", "ECHO",
                    "FORWARD_SUCCESS", "CHANNEL_CLOSE"},
             ch : Channels, count : 0..1]
Ctrl(cmd, c) == <<cmd, c>>
CtrlStructs == {"SP_ATTACH_CHANNEL", "SP_DEATCH_CHANNEL"} \X Channels
                 \cup {<<"SP_STOP_SESSION">>}
\* What FetchCommand holds: a message, and whether its channel was found alive.
Fetches == [msg : Commands, checked : BOOLEAN]

ASSUME NoneAssumption == None \notin Fetches

TypeOK ==
    /\ mem \in [Channels -> {"none", "alloc", "freed"}]
    /\ isDead \in [Channels -> BOOLEAN]
    /\ ref \in [Channels -> Nat]
    /\ handshakeOK \in [Channels -> BOOLEAN]
    /\ keepAlive \in [Channels -> BOOLEAN]
    /\ hWorkTCP \in [Channels -> WorkTcpStates]
    /\ uvHandleRef \in [Channels -> 0..1]
    /\ mainWrites \in [Channels -> 0..MaxWrites]
    /\ bindNext \in [Channels -> BOOLEAN]
    /\ connectTimer \in [Channels -> BOOLEAN]
    /\ freePc \in [Channels -> FreeStates]
    /\ lstMainThreadOP \subseteq Channels
    /\ mapForward \subseteq Channels
    /\ session \in {"alive", "dead", "stopped"}
    /\ ctrl \in Seq(CtrlStructs)
    /\ work \in {"up", "clearing", "gone"}
    /\ fetch \in Fetches \cup {None}
    /\ hChildWorkTCP \in [Channels -> ChildTcpStates]
    /\ writes \in [Channels -> 0..MaxWrites]
    /\ childNext \in [Channels -> BOOLEAN]
    /\ childCleared \in [Channels -> BOOLEAN]
    /\ task \in [Channels -> TaskStates]
    /\ toDaemon \in Seq(Commands)
    /\ toServer \in Seq(Commands)
    /\ daemonTask \in [Channels -> TaskStates]
    /\ client \in [Channels -> {"none", "here", "asked", "gone"}]

All(v) == [c \in Channels |-> v]

Init ==
    /\ mem = All("none") /\ isDead = All(FALSE) /\ ref = All(0)
    /\ handshakeOK = All(FALSE) /\ keepAlive = All(FALSE)
    /\ hWorkTCP = All("none") /\ uvHandleRef = All(0) /\ mainWrites = All(0)
    /\ bindNext = All(FALSE) /\ connectTimer = All(FALSE)
    /\ freePc = All("none") /\ lstMainThreadOP = {} /\ mapForward = {}
    /\ session = "alive" /\ ctrl = <<>> /\ work = "up" /\ fetch = None
    /\ hChildWorkTCP = All("none") /\ writes = All(0)
    /\ childNext = All(FALSE) /\ childCleared = All(FALSE)
    /\ task = All("none") /\ daemonTask = All("none")
    /\ toDaemon = <<>> /\ toServer = <<>>
    /\ client = All("none")

-----------------------------------------------------------------------------
(* Functions that several callbacks call.                                  *)

\* FreeChannel on the main thread: a channel that is known and not yet dead.
MayFree(c) == mem[c] = "alloc" /\ ~isDead[c]
FreeChannels(cs) ==
    /\ isDead' = [c \in Channels |-> isDead[c] \/ (c \in cs /\ MayFree(c))]
    /\ freePc' = [c \in Channels |-> IF c \in cs /\ MayFree(c)
                                    THEN "operate" ELSE freePc[c]]
FreeChannel(c) == FreeChannels({c})

\* FreeChannel on a worker: PushAsyncMessage(ASYNC_FREE_CHANNEL).
PushFree(c) == lstMainThreadOP' = lstMainThreadOP \cup {c}

\* ClearOwnTasks(hSession, channelId), and BeginRemoveTask of the task it finds.
Stopped(tasks, c) == [tasks EXCEPT ![c] = IF @ = "run" THEN "stop" ELSE @]

\* HdcSessionBase::Send: SendByProtocol refuses when the session is dead.
Send(m) == toDaemon' = IF session = "alive" THEN Append(toDaemon, m) ELSE toDaemon

\* uv_is_closing is false and the stream is writable.
WorkWritable(c)  == hWorkTCP[c] = "open"
ChildWritable(c) == hChildWorkTCP[c] = "open"

\* FindAliveSessionFromDaemonMap, FindAliveSession: connected and not dead.
SessionAlive == session = "alive"

\* The loops can run a callback: the worker is not inside FetchCommand.
WorkerReady == fetch = None /\ work # "gone"

-----------------------------------------------------------------------------
(* Main loop: accepting, handshake and local commands.                     *)

\* HdcServerForClient::AcceptClient with MallocChannel; the banner is sent.
AcceptClient(c) ==
    /\ client[c] = "none"
    /\ client' = [client EXCEPT ![c] = "here"]
    /\ mem' = [mem EXCEPT ![c] = "alloc"]
    /\ uvHandleRef' = [uvHandleRef EXCEPT ![c] = 1]
    /\ \/ /\ hWorkTCP' = [hWorkTCP EXCEPT ![c] = "open"]
          /\ ref' = [ref EXCEPT ![c] = 1]
          /\ mainWrites' = [mainWrites EXCEPT ![c] = 1]
          /\ UNCHANGED <<isDead, freePc>>
       \/ /\ hWorkTCP' = [hWorkTCP EXCEPT ![c] = "inited"]
          /\ isDead' = [isDead EXCEPT ![c] = TRUE]
          /\ freePc' = [freePc EXCEPT ![c] = "operate"]
          /\ UNCHANGED <<ref, mainWrites>>
    /\ UNCHANGED <<handshakeOK, keepAlive, bindNext, connectTimer,
                   lstMainThreadOP, mapForward, sessVars, ctrl, fetch, workVars,
                   task, linkVars, daemonTask>>

\* EchoClient on the main thread: SendChannel writes to hWorkTCP.
EchoMain(c) ==
    IF WorkWritable(c)
    THEN /\ mainWrites[c] < MaxWrites
         /\ ref' = [ref EXCEPT ![c] = @ + 1]
         /\ mainWrites' = [mainWrites EXCEPT ![c] = @ + 1]
    ELSE UNCHANGED <<ref, mainWrites>>

\* A packet of the client for ReadStream on hWorkTCP.  A client sends one
\* greeting and then one command, or several when it asked for keepAlive.
MainReadable(c) == hWorkTCP[c] = "open" /\ client[c] = "here"

\* Bound: a client that is kept alive waits for one answer before it asks again.
Answered(c) == keepAlive[c] => mainWrites[c] = 0

Asked(c) == client' = [client EXCEPT ![c] = IF keepAlive[c] THEN @ ELSE "asked"]

\* ReadChannel, ChannelHandShake without a connect-key, or with a bad banner.
HandShakeLocal(c) ==
    /\ MainReadable(c) /\ ~handshakeOK[c]
    /\ \/ /\ c \in Local
          /\ handshakeOK' = [handshakeOK EXCEPT ![c] = TRUE]
          /\ UNCHANGED <<isDead, freePc, client>>
       \/ FreeChannel(c) /\ Asked(c) /\ UNCHANGED handshakeOK
    /\ UNCHANGED <<mem, ref, keepAlive, mainVars, lstMainThreadOP, mapForward,
                   sessVars, ctrl, fetch, workVars, task, linkVars, daemonTask>>

\* ChannelHandShake, BindChannelToSession: hWorkTCP is duplicated and closed.
BindChannelToSession(c) ==
    /\ MainReadable(c) /\ ~handshakeOK[c] /\ c \notin Local
    /\ handshakeOK' = [handshakeOK EXCEPT ![c] = TRUE]
    /\ \/ /\ SessionAlive
          /\ ref' = [ref EXCEPT ![c] = @ + 1]
          /\ hWorkTCP' = [hWorkTCP EXCEPT ![c] = "bindClosing"]
          /\ bindNext' = [bindNext EXCEPT ![c] = TRUE]
          /\ UNCHANGED <<mainWrites, isDead, freePc>>
       \/ /\ SessionAlive  \* the socket cannot be duplicated
          /\ FreeChannel(c)
          /\ UNCHANGED <<ref, hWorkTCP, mainWrites, bindNext>>
       \/ /\ ~SessionAlive
          /\ EchoMain(c) /\ FreeChannel(c)
          /\ UNCHANGED <<hWorkTCP, bindNext>>
    /\ UNCHANGED <<mem, keepAlive, uvHandleRef, connectTimer, lstMainThreadOP,
                   mapForward, sessVars, ctrl, fetch, workVars, task, linkVars,
                   daemonTask, client>>

\* funcWorkTcpClose; the writes of a stream are cancelled before its close.
WorkTcpClosed(c) ==
    /\ hWorkTCP[c] = "bindClosing" /\ mainWrites[c] = 0
    /\ hWorkTCP' = [hWorkTCP EXCEPT ![c] = "closed"]
    /\ ref' = [ref EXCEPT ![c] = @ - 1]
    /\ UNCHANGED <<mem, isDead, handshakeOK, keepAlive, uvHandleRef, mainWrites,
                   bindNext, connectTimer, freeVars, mapForward, sessVars, ctrl,
                   fetch, workVars, task, linkVars, daemonTask, client>>

\* The task BindChannelToSession left for the next loop.
SendAttach(c) ==
    /\ bindNext[c]
    /\ bindNext' = [bindNext EXCEPT ![c] = FALSE]
    /\ ctrl' = IF SessionAlive THEN Append(ctrl, Ctrl("SP_ATTACH_CHANNEL", c))
                               ELSE ctrl
    /\ UNCHANGED <<objVars, hWorkTCP, uvHandleRef, mainWrites, connectTimer,
                   freeVars, mapForward, sessVars, fetch, workVars, task,
                   linkVars, daemonTask, client>>

\* ReadStream on hWorkTCP sees the end: TryCloseHandle and FreeChannel.
MainReadEnd(c) ==
    /\ hWorkTCP[c] = "open" /\ client[c] = "gone"
    /\ hWorkTCP' = [hWorkTCP EXCEPT ![c] = "closed"]
    /\ FreeChannel(c)
    /\ UNCHANGED <<mem, ref, handshakeOK, keepAlive, uvHandleRef, mainWrites,
                   bindNext, connectTimer, lstMainThreadOP, mapForward,
                   sessVars, ctrl, fetch, workVars, task, linkVars, daemonTask,
                   client>>

\* DoCommandLocal of a command that answers (list, discover, fport ls): the
\* return value is false, and ReadStream frees a channel without keepAlive.
LocalAnswer(c) ==
    /\ MainReadable(c) /\ handshakeOK[c] /\ Answered(c)
    /\ EchoMain(c) /\ Asked(c)
    /\ IF keepAlive[c] THEN UNCHANGED <<isDead, freePc>> ELSE FreeChannel(c)
    /\ UNCHANGED <<mem, handshakeOK, keepAlive, hWorkTCP, uvHandleRef, bindNext,
                   connectTimer, lstMainThreadOP, mapForward, sessVars, ctrl,
                   fetch, workVars, task, linkVars, daemonTask>>

\* CMD_KERNEL_ENABLE_KEEPALIVE.
EnableKeepAlive(c) ==
    /\ MainReadable(c) /\ handshakeOK[c]
    /\ keepAlive' = [keepAlive EXCEPT ![c] = TRUE]
    /\ UNCHANGED <<mem, isDead, ref, handshakeOK, mainVars, freeVars, mapForward,
                   sessVars, ctrl, fetch, workVars, task, linkVars, daemonTask,
                   client>>

\* CMD_KERNEL_TARGET_CONNECT, NewConnectTry: a timer polls for the result.
\* One client asks for one target.
NewConnectTry(c) ==
    /\ MainReadable(c) /\ handshakeOK[c] /\ ~connectTimer[c]
    /\ connectTimer' = [connectTimer EXCEPT ![c] = TRUE]
    /\ client' = [client EXCEPT ![c] = "asked"]
    /\ UNCHANGED <<objVars, hWorkTCP, uvHandleRef, mainWrites, bindNext, freeVars,
                   mapForward, sessVars, ctrl, fetch, workVars, task, linkVars,
                   daemonTask>>

\* OrderConnecTargetResult of a channel that exists: connected, or 5 s are over.
OrderConnecTargetResult(c) ==
    /\ connectTimer[c] /\ mem[c] = "alloc"
    /\ EchoMain(c) /\ FreeChannel(c)
    /\ connectTimer' = [connectTimer EXCEPT ![c] = FALSE]
    /\ UNCHANGED <<mem, handshakeOK, keepAlive, hWorkTCP, uvHandleRef, bindNext,
                   lstMainThreadOP, mapForward, sessVars, ctrl, fetch, workVars,
                   task, linkVars, daemonTask, client>>

\* WriteCallback on hWorkTCP.  A cancelled write has a handle that is closed.
MainWriteCallback(c, ok) ==
    /\ mainWrites[c] > 0
    /\ ok => hWorkTCP[c] = "open"
    /\ ~ok => hWorkTCP[c] # "open" \/ client[c] = "gone"
    /\ mainWrites' = [mainWrites EXCEPT ![c] = @ - 1]
    /\ ref' = [ref EXCEPT ![c] = @ - 1]
    /\ hWorkTCP' = IF ~ok /\ hWorkTCP[c] = "open"
                   THEN [hWorkTCP EXCEPT ![c] = "closed"] ELSE hWorkTCP
    /\ IF ~ok /\ ref[c] = 1 THEN FreeChannel(c) ELSE UNCHANGED <<isDead, freePc>>
    /\ UNCHANGED <<mem, handshakeOK, keepAlive, uvHandleRef, bindNext,
                   connectTimer, lstMainThreadOP, mapForward, sessVars, ctrl,
                   fetch, workVars, task, linkVars, daemonTask, client>>

\* CommandRemoveForward of the rule of c, asked for by the client of d; the
\* main loop stops the task, though the map of tasks is the worker's.
RemoveForward(c, d) ==
    /\ MainReadable(d) /\ handshakeOK[d] /\ c \in mapForward
    /\ mapForward' = mapForward \ {c}
    /\ task' = Stopped(task, c)
    /\ \E known \in {TRUE, work # "gone"} :  \* the session is in mapSession
        FreeChannels((IF known THEN {c} ELSE {})
                       \cup (IF keepAlive[d] THEN {} ELSE {d}))
    /\ Asked(d)
    /\ UNCHANGED <<mem, ref, handshakeOK, keepAlive, mainVars, lstMainThreadOP,
                   sessVars, ctrl, fetch, workVars, linkVars, daemonTask>>

-----------------------------------------------------------------------------
(* Main loop: freeing.                                                     *)

\* MainAsyncCallback, AsyncMainLoopTask.
AsyncMainLoopTask(c) ==
    /\ c \in lstMainThreadOP
    /\ lstMainThreadOP' = lstMainThreadOP \ {c}
    /\ FreeChannel(c)
    /\ UNCHANGED <<mem, ref, handshakeOK, keepAlive, mainVars, mapForward,
                   sessVars, ctrl, fetch, workVars, task, linkVars, daemonTask,
                   client>>

\* Variant: a handle that is closed with a callback is counted at once, too.
ContinueCountsTwice(c) ==
    /\ freePc' = [freePc EXCEPT ![c] = "finally"]
    /\ hWorkTCP' = IF hWorkTCP[c] \in {"inited", "open"}
                   THEN [hWorkTCP EXCEPT ![c] = "freeClosing"] ELSE hWorkTCP
    /\ uvHandleRef' = [uvHandleRef EXCEPT ![c] = @ - 1]

\* FreeChannelContinue: the last handle of the main loop.
FreeChannelContinue(c) ==
    /\ freePc' = [freePc EXCEPT ![c] = "finally"]
    /\ IF hWorkTCP[c] \in {"inited", "open"}
       THEN /\ hWorkTCP' = [hWorkTCP EXCEPT ![c] = "freeClosing"]
            /\ UNCHANGED uvHandleRef
       ELSE /\ uvHandleRef' = [uvHandleRef EXCEPT ![c] = @ - 1]
            /\ UNCHANGED hWorkTCP

\* Variant: the references are not looked at.
UnreferencedUnasked(c) == TRUE

\* ref > 0 lets the timer FreeChannelOpeate fire again.
Unreferenced(c) == ref[c] = 0

\* FreeChannelOpeate of a channel that no worker ever served.
FreeChannelAtOnce(c) ==
    /\ freePc[c] = "operate" /\ Unreferenced(c) /\ hChildWorkTCP[c] = "none"
    /\ FreeChannelContinue(c)
    /\ UNCHANGED <<objVars, mainWrites, bindNext, connectTimer, lstMainThreadOP,
                   mapForward, sessVars, ctrl, fetch, workVars, task, linkVars,
                   daemonTask, client>>

\* FreeChannelOpeate of any other: ChannelSendSessionCtrlMsg finds the session
\* or not; either way a timer waits for childCleared.
FreeChannelOpeate(c) ==
    /\ freePc[c] = "operate" /\ Unreferenced(c) /\ hChildWorkTCP[c] # "none"
    /\ ctrl' = IF SessionAlive THEN Append(ctrl, Ctrl("SP_DEATCH_CHANNEL", c))
                               ELSE ctrl
    /\ freePc' = [freePc EXCEPT ![c] = "waitChild"]
    /\ UNCHANGED <<objVars, mainVars, lstMainThreadOP, mapForward, sessVars, fetch,
                   workVars, task, linkVars, daemonTask, client>>

\* callbackCheckFreeChannelContinue.
CheckFreeChannelContinue(c) ==
    /\ freePc[c] = "waitChild" /\ childCleared[c]
    /\ FreeChannelContinue(c)
    /\ UNCHANGED <<objVars, mainWrites, bindNext, connectTimer, lstMainThreadOP,
                   mapForward, sessVars, ctrl, fetch, workVars, task, linkVars,
                   daemonTask, client>>

\* closeChannelHandle.
CloseChannelHandle(c) ==
    /\ hWorkTCP[c] = "freeClosing" /\ mainWrites[c] = 0
    /\ hWorkTCP' = [hWorkTCP EXCEPT ![c] = "closed"]
    /\ uvHandleRef' = [uvHandleRef EXCEPT ![c] = @ - 1]
    /\ UNCHANGED <<objVars, mainWrites, bindNext, connectTimer, freeVars,
                   mapForward, sessVars, ctrl, fetch, workVars, task, linkVars,
                   daemonTask, client>>

\* FreeChannelFinally.
FreeChannelFinally(c) ==
    /\ freePc[c] = "finally" /\ uvHandleRef[c] = 0
    /\ mem' = [mem EXCEPT ![c] = "freed"]
    /\ freePc' = [freePc EXCEPT ![c] = "done"]
    /\ UNCHANGED <<isDead, ref, handshakeOK, keepAlive, mainVars, lstMainThreadOP,
                   mapForward, sessVars, ctrl, fetch, workVars, task, linkVars,
                   daemonTask, client>>

-----------------------------------------------------------------------------
(* The session, seen from its channels.                                    *)

\* FreeSession: isDead, NotifyInstanceSessionFree sets the device offline and
\* forgets the forward rules of the session.
FreeSession ==
    /\ SessionEnds /\ session = "alive"
    /\ session' = "dead"
    /\ mapForward' = {}
    /\ UNCHANGED <<objVars, mainVars, freeVars, work, ctrl, fetch, workVars, task,
                   linkVars, daemonTask, client>>

\* FreeSessionOpeate.
FreeSessionOpeate ==
    /\ session = "dead"
    /\ session' = "stopped"
    /\ ctrl' = Append(ctrl, <<"SP_STOP_SESSION">>)
    /\ UNCHANGED <<objVars, mainVars, freeVars, mapForward, work, fetch, workVars,
                   task, linkVars, daemonTask, client>>

\* SP_STOP_SESSION: the worker closes its pipes and its connection, leaves its
\* loop and, in ReChildLoopForSessionClear, stops all tasks.  The daemon sees
\* the end of the connection and clears its own.
StopSession ==
    /\ WorkerReady /\ ctrl # <<>> /\ Head(ctrl) = <<"SP_STOP_SESSION">>
    /\ ctrl' = <<>>
    /\ work' = "clearing"
    /\ task' = [c \in Channels |-> Stopped(task, c)[c]]
    /\ toDaemon' = <<>> /\ toServer' = <<>>
    /\ daemonTask' = All("none")
    /\ UNCHANGED <<objVars, mainVars, freeVars, mapForward, session, fetch, workVars,
                   client>>

\* The timer of ReChildLoopForSessionClear finds no task; callbacks requested
\* before have been run.
Cleared ==
    /\ work = "clearing" /\ fetch = None
    /\ \A c \in Channels : /\ task[c] = "none" /\ ~childNext[c]
                          /\ hChildWorkTCP[c] \notin {"closing", "clearClosing"}
    /\ work' = "gone"

\* No task is left: TryCloseLoop closes what is open and the thread ends.
ReChildLoopForSessionClear ==
    /\ Cleared
    /\ hChildWorkTCP' = [c \in Channels |-> IF hChildWorkTCP[c] = "open"
                                           THEN "closed" ELSE hChildWorkTCP[c]]
    /\ UNCHANGED <<objVars, mainVars, freeVars, mapForward, session, ctrl, fetch,
                   writes, childNext, childCleared, task, linkVars, daemonTask,
                   client>>

-----------------------------------------------------------------------------
(* Worker: attaching and detaching.                                        *)

CtrlIs(cmd, c) == WorkerReady /\ ctrl # <<>> /\ Head(ctrl) = Ctrl(cmd, c)

\* SP_ATTACH_CHANNEL, AttachChannel; uv_tcp_open may fail.
AttachChannel(c) ==
    /\ CtrlIs("SP_ATTACH_CHANNEL", c)
    /\ ctrl' = Tail(ctrl)
    /\ \E to \in {"open", "closing"} :
        hChildWorkTCP' = IF mem[c] = "alloc"
                         THEN [hChildWorkTCP EXCEPT ![c] = to] ELSE hChildWorkTCP
    /\ UNCHANGED <<objVars, mainVars, freeVars, mapForward, sessVars, fetch, writes,
                   childNext, childCleared, task, linkVars, daemonTask, client>>

\* DeatchChannel with its message and its treatment of a socket that is closed.
Deatch(c, stop, msgs, next) ==
    /\ CtrlIs("SP_DEATCH_CHANNEL", c)
    /\ ctrl' = Tail(ctrl)
    /\ IF mem[c] # "alloc" \/ childCleared[c]
       THEN UNCHANGED <<hChildWorkTCP, childNext, task, toDaemon>>
       ELSE /\ task' = IF stop THEN Stopped(task, c) ELSE task
            /\ IF msgs THEN Send(Close(c, 0)) ELSE UNCHANGED toDaemon
            /\ IF hChildWorkTCP[c] = "open"
               THEN /\ hChildWorkTCP' = [hChildWorkTCP EXCEPT ![c] = "clearClosing"]
                    /\ UNCHANGED childNext
               ELSE /\ childNext' = [childNext EXCEPT ![c] = next]
                    /\ UNCHANGED hChildWorkTCP
    /\ UNCHANGED <<objVars, mainVars, freeVars, mapForward, sessVars, fetch, writes,
                   childCleared, toServer, daemonTask, client>>

\* Variants: the task is left, the daemon is not told, a socket that is closed
\* already is not followed up.
DeatchLeavesTask(c) == Deatch(c, FALSE, TRUE, TRUE)
DeatchTellsNobody(c) == Deatch(c, TRUE, FALSE, TRUE)
DeatchOnlyOpen(c) == Deatch(c, TRUE, TRUE, FALSE)

\* SP_DEATCH_CHANNEL, DeatchChannel.
DeatchChannel(c) == Deatch(c, TRUE, TRUE, TRUE)

\* The close callbacks of hChildWorkTCP, after the writes it cancels.
ChildTcpClosed(c) ==
    /\ WorkerReady /\ writes[c] = 0
    /\ hChildWorkTCP[c] \in {"closing", "clearClosing"}
    /\ hChildWorkTCP' = [hChildWorkTCP EXCEPT ![c] = "closed"]
    /\ childCleared' = [childCleared EXCEPT ![c] = @ \/ hChildWorkTCP[c] = "clearClosing"]
    /\ UNCHANGED <<objVars, mainVars, freeVars, mapForward, sessVars, ctrl, fetch,
                   writes, childNext, task, linkVars, daemonTask, client>>

\* The DoNextLoop task of DeatchChannel; close callbacks of the iteration that
\* queued it have run.
ChildNextLoop(c) ==
    /\ WorkerReady /\ childNext[c] /\ hChildWorkTCP[c] = "closed"
    /\ childNext' = [childNext EXCEPT ![c] = FALSE]
    /\ childCleared' = [childCleared EXCEPT ![c] = TRUE]
    /\ UNCHANGED <<objVars, mainVars, freeVars, mapForward, sessVars, ctrl, fetch,
                   hChildWorkTCP, writes, task, linkVars, daemonTask, client>>

-----------------------------------------------------------------------------
(* Worker: the client's socket.                                            *)

\* EchoClient on the worker: SendChannel writes to hChildWorkTCP.
EchoChild(c) ==
    IF ChildWritable(c)
    THEN /\ writes[c] < MaxWrites
         /\ ref' = [ref EXCEPT ![c] = @ + 1]
         /\ writes' = [writes EXCEPT ![c] = @ + 1]
    ELSE UNCHANGED <<ref, writes>>

\* ReadStream on hChildWorkTCP: the client's command, DoCommandRemote.
ChildReadable(c) == WorkerReady /\ hChildWorkTCP[c] = "open"

\* A command without a task of the server: SendToDaemon, or the client is told.
CommandToDaemon(c) ==
    /\ ChildReadable(c) /\ client[c] = "here"
    /\ client' = [client EXCEPT ![c] = "asked"]
    /\ IF SessionAlive
       THEN Send(Command("SHELL_INIT", c)) /\ UNCHANGED <<ref, writes, lstMainThreadOP>>
       ELSE EchoChild(c) /\ PushFree(c) /\ UNCHANGED toDaemon
    /\ UNCHANGED <<mem, isDead, handshakeOK, keepAlive, mainVars, freePc, mapForward,
                   sessVars, ctrl, fetch, hChildWorkTCP, childNext, childCleared,
                   task, toServer, daemonTask>>

\* TaskCommand: a master task here, whose constructor wakes up the slave, or at
\* the daemon.  Its result is not looked at.
TaskCommand(c) ==
    /\ ChildReadable(c) /\ client[c] = "here"
    /\ client' = [client EXCEPT ![c] = "asked"]
    /\ \/ /\ SessionAlive
          /\ task' = [task EXCEPT ![c] = "run"]
          /\ Send(Command("WAKEUP_SLAVETASK", c))
       \/ ~SessionAlive /\ UNCHANGED <<task, toDaemon>>
       \/ Send(Command("INIT", c)) /\ UNCHANGED task
    /\ UNCHANGED <<objVars, mainVars, freeVars, mapForward, sessVars, ctrl, fetch,
                   workVars, toServer, daemonTask>>

\* A command that cannot be translated, or input of a shell when the session is
\* no more: the client is told and the channel freed.
CommandRefused(c) ==
    /\ ChildReadable(c)
    /\ client[c] = "here" \/ (client[c] = "asked" /\ ~SessionAlive)
    /\ client' = [client EXCEPT ![c] = "asked"]
    /\ EchoChild(c) /\ PushFree(c)
    /\ UNCHANGED <<mem, isDead, handshakeOK, keepAlive, mainVars, freePc, mapForward,
                   sessVars, ctrl, fetch, hChildWorkTCP, childNext, childCleared,
                   task, linkVars, daemonTask>>

\* ReadStream on hChildWorkTCP sees the end: TryCloseHandle and FreeChannel.
ChildReadEnd(c) ==
    /\ ChildReadable(c) /\ client[c] = "gone"
    /\ hChildWorkTCP' = [hChildWorkTCP EXCEPT ![c] = "closing"]
    /\ PushFree(c)
    /\ UNCHANGED <<objVars, mainVars, freePc, mapForward, sessVars, ctrl, fetch,
                   writes, childNext, childCleared, task, linkVars, daemonTask,
                   client>>

\* WriteCallback on hChildWorkTCP.
ChildWriteCallback(c, ok) ==
    /\ WorkerReady /\ writes[c] > 0
    /\ ok => hChildWorkTCP[c] = "open"
    /\ ~ok => hChildWorkTCP[c] # "open" \/ client[c] = "gone"
    /\ writes' = [writes EXCEPT ![c] = @ - 1]
    /\ ref' = [ref EXCEPT ![c] = @ - 1]
    /\ hChildWorkTCP' = IF ~ok /\ hChildWorkTCP[c] = "open"
                        THEN [hChildWorkTCP EXCEPT ![c] = "closing"]
                        ELSE hChildWorkTCP
    /\ IF ~ok /\ ~isDead[c] /\ ref[c] = 1 THEN PushFree(c)
                                        ELSE UNCHANGED lstMainThreadOP
    /\ UNCHANGED <<mem, isDead, handshakeOK, keepAlive, mainVars, freePc, mapForward,
                   sessVars, ctrl, fetch, childNext, childCleared, task, linkVars,
                   daemonTask, client>>

-----------------------------------------------------------------------------
(* Worker: FetchCommand, in three steps the main loop can come between.    *)

\* Bound: output is taken up when the socket has room for it.
Room(m) == m.cmd = "ECHO" => writes[m.ch] < MaxWrites

\* AdminChannel(OP_QUERY_REF) finds the channel.
Found(m) ==
    /\ Room(m)
    /\ ref' = [ref EXCEPT ![m.ch] = @ + 1]
    /\ fetch' = [msg |-> m, checked |-> FALSE]

\* A message of the daemon; a channel that is not found is closed there, too.
FetchCommand ==
    /\ WorkerReady /\ work = "up" /\ toServer # <<>>
    /\ toServer' = Tail(toServer)
    /\ LET m == Head(toServer) IN
       IF mem[m.ch] = "alloc" THEN Found(m) /\ UNCHANGED toDaemon
       ELSE Send(Close(m.ch, 0)) /\ UNCHANGED <<ref, fetch>>
    /\ UNCHANGED <<mem, isDead, handshakeOK, keepAlive, mainVars, freeVars,
                   mapForward, sessVars, ctrl, workVars, task, daemonTask, client>>

\* ServerCommand by a task of the server: output of the task, or a forward that
\* was set up.
ServerCommand(c) ==
    /\ WorkerReady /\ task[c] = "run" /\ mem[c] = "alloc"
    /\ \E cmd \in {"ECHO", "FORWARD_SUCCESS"} : Found(Command(cmd, c))
    /\ UNCHANGED <<mem, isDead, handshakeOK, keepAlive, mainVars, freeVars,
                   mapForward, sessVars, ctrl, workVars, task, linkVars,
                   daemonTask, client>>

Fetching(checked) == fetch # None /\ fetch.checked = checked

\* Variant: the early return keeps the reference.
FetchDeadKeepsRef ==
    /\ Fetching(FALSE) /\ isDead[fetch.msg.ch]
    /\ fetch' = None
    /\ UNCHANGED <<objVars, mainVars, freeVars, mapForward, sessVars, ctrl, workVars,
                   task, linkVars, daemonTask, client>>

\* The channel that was found is dead: the command is dropped.
FetchDead ==
    /\ Fetching(FALSE) /\ isDead[fetch.msg.ch]
    /\ ref' = [ref EXCEPT ![fetch.msg.ch] = @ - 1]
    /\ fetch' = None
    /\ UNCHANGED <<mem, isDead, handshakeOK, keepAlive, mainVars, freeVars,
                   mapForward, sessVars, ctrl, workVars, task, linkVars,
                   daemonTask, client>>

FetchAlive ==
    /\ Fetching(FALSE) /\ ~isDead[fetch.msg.ch]
    /\ fetch' = [fetch EXCEPT !.checked = TRUE]
    /\ UNCHANGED <<objVars, mainVars, freeVars, mapForward, sessVars, ctrl, workVars,
                   task, linkVars, daemonTask, client>>

\* The end of FetchCommand for a command of this kind.
FetchDone(cmd) == Fetching(TRUE) /\ fetch.msg.cmd = cmd /\ fetch' = None
Release(c) == ref' = [ref EXCEPT ![c] = @ - 1]

\* CMD_KERNEL_ECHO: the reference passes to the write, if there is one.
FetchEcho(c) ==
    /\ FetchDone("ECHO") /\ fetch.msg.ch = c
    /\ IF ChildWritable(c)
       THEN writes' = [writes EXCEPT ![c] = @ + 1] /\ UNCHANGED ref
       ELSE Release(c) /\ UNCHANGED writes
    /\ UNCHANGED <<mem, isDead, handshakeOK, keepAlive, mainVars, freeVars,
                   mapForward, sessVars, ctrl, hChildWorkTCP, childNext,
                   childCleared, task, linkVars, daemonTask, client>>

\* The answer to CMD_KERNEL_CHANNEL_CLOSE: none when the count is used up.
Answer(m) == IF m.count = 0 THEN UNCHANGED toDaemon
                            ELSE Send(Close(m.ch, m.count - 1))

\* CMD_KERNEL_CHANNEL_CLOSE.
FetchClose(c) ==
    /\ FetchDone("CHANNEL_CLOSE") /\ fetch.msg.ch = c
    /\ task' = Stopped(task, c)
    /\ PushFree(c)
    /\ Answer(fetch.msg)
    /\ Release(c)
    /\ UNCHANGED <<mem, isDead, handshakeOK, keepAlive, mainVars, freePc, mapForward,
                   sessVars, ctrl, workVars, toServer, daemonTask, client>>

\* CMD_FORWARD_SUCCESS: the rule is listed and the client's socket closed.
FetchForwardSuccess(c) ==
    /\ FetchDone("FORWARD_SUCCESS") /\ fetch.msg.ch = c
    /\ mapForward' = mapForward \cup {c}
    /\ hChildWorkTCP' = IF ChildWritable(c)
                        THEN [hChildWorkTCP EXCEPT ![c] = "closing"]
                        ELSE hChildWorkTCP
    /\ Release(c)
    /\ UNCHANGED <<mem, isDead, handshakeOK, keepAlive, mainVars, freeVars, sessVars,
                   ctrl, writes, childNext, childCleared, task, linkVars,
                   daemonTask, client>>

\* CMD_KERNEL_WAKEUP_SLAVETASK: DispatchTaskData makes the task of this end.
FetchWakeup(c) ==
    /\ FetchDone("WAKEUP_SLAVETASK") /\ fetch.msg.ch = c
    /\ task' = [task EXCEPT ![c] = "run"]
    /\ Release(c)
    /\ UNCHANGED <<mem, isDead, handshakeOK, keepAlive, mainVars, freeVars,
                   mapForward, sessVars, ctrl, workVars, linkVars, daemonTask,
                   client>>

-----------------------------------------------------------------------------
(* Tasks of the server, the daemon and the clients.                        *)

\* Bound: a task sends when little is under way.
LinkFree == Len(toDaemon) + Len(toServer) < MaxLink

\* HdcTaskBase::TaskFinish of a task of the server.
TaskFinish(c) ==
    /\ WorkerReady /\ work = "up" /\ task[c] = "run" /\ LinkFree
    /\ Send(Close(c, 1))
    /\ UNCHANGED <<objVars, mainVars, freeVars, mapForward, sessVars, ctrl, fetch,
                   workVars, task, toServer, daemonTask, client>>

\* taskClassDeleteRetry of a task that has let go.
TaskRemoved(c) ==
    /\ WorkerReady /\ task[c] = "stop"
    /\ task' = [task EXCEPT ![c] = "none"]
    /\ UNCHANGED <<objVars, mainVars, freeVars, mapForward, sessVars, ctrl, fetch,
                   workVars, linkVars, daemonTask, client>>

\* HdcDaemon::FetchCommand.
DaemonFetch ==
    /\ toDaemon # <<>>
    /\ toDaemon' = Tail(toDaemon)
    /\ LET m == Head(toDaemon) IN
       IF m.cmd = "CHANNEL_CLOSE"
       THEN /\ daemonTask' = Stopped(daemonTask, m.ch)
            /\ toServer' = IF m.count = 0 THEN toServer
                           ELSE Append(toServer, Close(m.ch, m.count - 1))
       ELSE /\ daemonTask' = [daemonTask EXCEPT ![m.ch] = "run"]
            /\ toServer' = IF m.cmd = "INIT"
                           THEN Append(toServer, Command("WAKEUP_SLAVETASK", m.ch))
                           ELSE toServer
    /\ UNCHANGED <<objVars, mainVars, freeVars, mapForward, sessVars, ctrl, fetch,
                   workVars, task, client>>

\* A task of the daemon has output, has set up a forward, or has finished.
DaemonTaskSends(c) ==
    /\ daemonTask[c] = "run" /\ LinkFree
    /\ \E m \in {Command("ECHO", c), Command("FORWARD_SUCCESS", c), Close(c, 1)} :
        toServer' = Append(toServer, m)
    /\ UNCHANGED <<objVars, mainVars, freeVars, mapForward, sessVars, ctrl, fetch,
                   workVars, task, toDaemon, daemonTask, client>>

DaemonTaskRemoved(c) ==
    /\ daemonTask[c] = "stop"
    /\ daemonTask' = [daemonTask EXCEPT ![c] = "none"]
    /\ UNCHANGED <<objVars, mainVars, freeVars, mapForward, sessVars, ctrl, fetch,
                   workVars, task, linkVars, client>>

\* The client ends, or is interrupted.
ClientLeaves(c) ==
    /\ client[c] \in {"here", "asked"}
    /\ client' = [client EXCEPT ![c] = "gone"]
    /\ UNCHANGED <<objVars, mainVars, freeVars, mapForward, sessVars, ctrl, fetch,
                   workVars, task, linkVars, daemonTask>>

-----------------------------------------------------------------------------
MainLoop(c) ==
    \/ WorkTcpClosed(c) \/ SendAttach(c) \/ MainReadEnd(c)
    \/ OrderConnecTargetResult(c)
    \/ \E ok \in BOOLEAN : MainWriteCallback(c, ok)
    \/ AsyncMainLoopTask(c) \/ FreeChannelAtOnce(c) \/ FreeChannelOpeate(c)
    \/ CheckFreeChannelContinue(c) \/ CloseChannelHandle(c) \/ FreeChannelFinally(c)

ReadCtrl(c) == AttachChannel(c) \/ DeatchChannel(c)

WorkerLoop(c) ==
    \/ ChildTcpClosed(c) \/ ChildNextLoop(c) \/ ChildReadEnd(c)
    \/ \E ok \in BOOLEAN : ChildWriteCallback(c, ok)
    \/ FetchEcho(c) \/ FetchClose(c) \/ FetchForwardSuccess(c) \/ FetchWakeup(c)

\* What a client, a task or the user may do, and may leave undone.
Requests(c) ==
    \/ AcceptClient(c) \/ HandShakeLocal(c) \/ BindChannelToSession(c)
    \/ LocalAnswer(c) \/ EnableKeepAlive(c) \/ NewConnectTry(c)
    \/ \E d \in Channels : RemoveForward(c, d)
    \/ CommandToDaemon(c) \/ TaskCommand(c) \/ CommandRefused(c)
    \/ ServerCommand(c) \/ TaskFinish(c)
    \/ DaemonTaskSends(c) \/ ClientLeaves(c)

Next ==
    \/ \E c \in Channels : \/ MainLoop(c) \/ ReadCtrl(c) \/ WorkerLoop(c) \/ Requests(c)
                          \/ TaskRemoved(c) \/ DaemonTaskRemoved(c)
    \/ FreeSession \/ FreeSessionOpeate \/ StopSession \/ ReChildLoopForSessionClear
    \/ FetchCommand \/ FetchDead \/ FetchAlive
    \/ DaemonFetch

Spec == Init /\ [][Next]_vars

\* Threads go on with what they can do.  The loop of the worker turns to the
\* control socket, its timers and its other callbacks between two commands of the daemon,
\* and the timer of FreeChannelOpeate fires again and again until it meets a
\* moment without a reference, hence their strong fairness.
Fairness ==
    /\ \A c \in Channels :
        /\ WF_vars(WorkTcpClosed(c)) /\ WF_vars(SendAttach(c)) /\ WF_vars(MainReadEnd(c))
        /\ WF_vars(OrderConnecTargetResult(c))
        /\ WF_vars(\E ok \in BOOLEAN : MainWriteCallback(c, ok))
        /\ WF_vars(AsyncMainLoopTask(c)) /\ SF_vars(FreeChannelAtOnce(c))
        /\ SF_vars(FreeChannelOpeate(c)) /\ WF_vars(CheckFreeChannelContinue(c))
        /\ WF_vars(CloseChannelHandle(c)) /\ WF_vars(FreeChannelFinally(c))
        /\ SF_vars(ReadCtrl(c)) /\ SF_vars(WorkerLoop(c)) /\ SF_vars(TaskRemoved(c))
        /\ WF_vars(DaemonTaskRemoved(c))
    /\ WF_vars(FreeSessionOpeate) /\ SF_vars(StopSession)
    /\ WF_vars(ReChildLoopForSessionClear)
    /\ WF_vars(FetchCommand) /\ WF_vars(FetchDead) /\ WF_vars(FetchAlive)
    /\ WF_vars(DaemonFetch)

FairSpec == Spec /\ Fairness

-----------------------------------------------------------------------------
(* Safety.                                                                 *)

Count(b) == IF b THEN 1 ELSE 0

\* The worker is inside FetchCommand with this channel.
Fetched(c) == fetch # None /\ fetch.msg.ch = c

\* ref counts the writes of both threads, the close callback of a binding and
\* the channel FetchCommand holds: an early return, a cancelled write or a
\* failed one takes back what it added, once (channel.cpp, AdminChannel,
\* SendChannel, WriteCallback; server.cpp, FetchCommand).
RefCounted ==
    \A c \in Channels :
        ref[c] = mainWrites[c] + writes[c] + Count(hWorkTCP[c] = "bindClosing")
                   + Count(Fetched(c))

\* Who has the address of a channel and will use it without asking again.
MainUses(c) ==
    \/ hWorkTCP[c] \in {"inited", "open", "bindClosing", "freeClosing"}
    \/ mainWrites[c] > 0 \/ bindNext[c]
    \/ freePc[c] \in {"operate", "waitChild", "finally"}
WorkerUses(c) ==
    \/ hChildWorkTCP[c] \in {"open", "closing", "clearClosing"}
    \/ writes[c] > 0 \/ childNext[c]
    \/ Fetched(c) /\ fetch.checked

\* When FreeChannelFinally deletes a channel, no handle, write, close callback
\* or task of either loop has its address, nor a command that FetchCommand has
\* begun to carry out, and none of its own tasks runs ("The own task for this
\* channel must be clear before free channel", server.cpp:841).
NoDangling ==
    \A c \in Channels :
        mem[c] = "freed" => ~MainUses(c) /\ ~WorkerUses(c) /\ task[c] # "run"

-----------------------------------------------------------------------------
(* Liveness.                                                               *)

\* A dead channel is deleted, as long as its session lives: the worker attaches,
\* lets go and answers, whoever closes the socket first.
DeadChannelFreed ==
    \A c \in Channels :
        isDead[c] /\ SessionAlive ~> mem[c] = "freed" \/ ~SessionAlive

\* Nobody talks about the channel any more.
Quiet(c) ==
    /\ task[c] = "none" /\ daemonTask[c] = "none"
    /\ \A i \in DOMAIN toDaemon : toDaemon[i].ch # c
    /\ \A i \in DOMAIN toServer : toServer[i].ch # c

\* After a channel was deleted the tasks of both ends go, for good, and the ends
\* stop answering each other's CMD_KERNEL_CHANNEL_CLOSE.
EndsAgree == \A c \in Channels : mem[c] = "freed" ~> []Quiet(c)

-----------------------------------------------------------------------------
(* Refinement: a channel keeps the promise of SessionOwnership.            *)

ChannelUsers == {"mainLoop", "hWorkTCP", "mainWrite", "bindNext",
                 "hChildWorkTCP", "childWrite", "childNext", "command"}

LifeOf(c) == CASE mem[c] = "none" -> "none"
               [] mem[c] = "freed" -> "freed"
               [] OTHER -> IF isDead[c] THEN "dying" ELSE "live"

\* The main loop has a channel until FreeChannelContinue.
UsersOf(c) ==
    {u \in ChannelUsers :
        \/ u = "mainLoop" /\ mem[c] = "alloc" /\ freePc[c] # "finally"
        \/ u = "hWorkTCP"
             /\ hWorkTCP[c] \in {"inited", "open", "bindClosing", "freeClosing"}
        \/ u = "mainWrite" /\ mainWrites[c] > 0
        \/ u = "bindNext" /\ bindNext[c]
        \/ u = "hChildWorkTCP" /\ hChildWorkTCP[c] \in {"open", "closing", "clearClosing"}
        \/ u = "childWrite" /\ writes[c] > 0
        \/ u = "childNext" /\ childNext[c]
        \/ u = "command" /\ Fetched(c) /\ fetch.checked}

Ownership == INSTANCE SessionOwnership
                 WITH Objects <- Channels, Users <- ChannelUsers,
                      life <- [c \in Channels |-> LifeOf(c)],
                      users <- [c \in Channels |-> UsersOf(c)]

\* The promise of SessionOwnership, for channels: deleted once, dead, and with
\* no handle, request or command left that knows it.
OwnershipKept == Ownership!Spec
===============================================================================
