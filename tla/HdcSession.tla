------------------------------ MODULE HdcSession ------------------------------
(***************************************************************************)
(* The life of an HdcSession object (common/session.cpp): the main libuv   *)
(* loop that creates and frees sessions, the pool thread that runs one     *)
(* session's child loop, the control socket between the two, and the       *)
(* messages a worker posts to have its session freed.                      *)
(*                                                                         *)
(* Two kinds of session are covered.  A session of Tcp is a TCP connection *)
(* (host_tcp.cpp on the server, daemon_tcp.cpp on the daemon): its creator *)
(* blocks the main loop until the worker is up.  Every other session is a  *)
(* UART session of the daemon (daemon_uart.cpp): it is created by the UART *)
(* read thread, and a timer of the main loop waits for its worker.         *)
(*                                                                         *)
(* A callback of a loop is one action, except where another thread can     *)
(* come between two of its accesses to shared state.  A session stands for *)
(* its sessionId: the code draws ids at random and does not reuse them.    *)
(***************************************************************************)
EXTENDS Naturals, Sequences, FiniteSets

CONSTANTS Sessions,    \* the sessions that may ever be created
          Tcp,         \* those with connType = CONN_TCP
          serverOrDaemon, \* TRUE in the server, FALSE in the daemon
          PoolSize,    \* UV_THREADPOOL_SIZE, as far as workers can use it
          MaxWrites,   \* bound: uv_write requests in flight per session
          MaxMainWrites, \* bound: those the main loop has in flight
          MaxTasks,    \* bound: tasks of a session at one time
          GLOBAL_TIMEOUT, \* ticks a task may take to be freed (30 in define.h)
          None         \* no session

ASSUME ConstantsAssumption ==
    /\ IsFiniteSet(Sessions)
    /\ Tcp \subseteq Sessions
    /\ serverOrDaemon \in BOOLEAN
    /\ serverOrDaemon => Tcp = Sessions
    /\ PoolSize \in Nat
    /\ MaxWrites \in Nat \ {0}
    /\ MaxMainWrites \in Nat
    /\ MaxTasks \in Nat
    /\ GLOBAL_TIMEOUT \in Nat
    /\ None \notin Sessions

VARIABLES
    \* The object and its registration in mapSession.
    mem,          \* "none", "alloc" (and in mapSession), "freed"
    isDead,
    voteReset,
    ref,          \* atomic count of I/O in progress
    mainWrites,   \* uv_write requests in flight on hWorkTCP
    \* Main loop.
    boot,         \* how the creation stands, see BootStates
    workTcp,      \* hWorkTCP is initialised and uv_close was not called on it
    mainClosing,  \* main handles whose counted close callback is pending
    uvHandleRef,
    freePc,       \* the step of FreeSession the main loop will run next
    sessionRef,   \* number of sessions allocated, of the whole process
    lstMainThreadOP, \* sessions with an ASYNC_FREE_SESSION message pending
    loopMain,     \* "run"; TryStopInstance: "stop", "clear"; "done"
    aborted,      \* abort() was called
    \* Worker thread.
    work,         \* where SessionWorkThread is, see WorkStates
    ctrl,         \* bytes in the control socket: a queue of InnerCtrlCommand
    uvChildRef,
    childClosing, \* child handles whose counted close callback is pending
    childTcp,     \* hChildWorkTCP, see TcpStates
    dataPipe,     \* dataPipe[STREAM_WORK].loop is set
    sending,      \* inside SendByProtocol, after its test of isDead
    writes,       \* uv_write requests in flight on hChildWorkTCP
    tasks,        \* entries of mapTask
    closeRetryCount, \* of the first task of mapTask
    \* UART module of the daemon.
    uartSend,     \* the UART write thread: "idle", "found" (has the pointer), "io"
    currentSessionId

objVars  == <<mem, isDead, voteReset, ref, mainWrites>>
mainVars == <<boot, workTcp, mainClosing, uvHandleRef, freePc, sessionRef,
              lstMainThreadOP, loopMain, aborted>>
tcpVars  == <<childTcp, sending, writes>>
taskVars == <<tasks, closeRetryCount>>
endVars  == <<uvChildRef, childClosing, dataPipe>>
uartVars == <<uartSend, currentSessionId>>
vars == <<objVars, mainVars, work, ctrl, tcpVars, taskVars, endVars, uartVars>>

-----------------------------------------------------------------------------
BootStates == {"none",       \* not created
               "connecting", \* uv_tcp_connect is outstanding
               "wait",       \* the main loop sleeps until the worker is up
               "timer",      \* funcNewSessionUp polls for the worker
               "done"}
WorkStates == {"none",     \* StartWorkThread was not called
               "queued",   \* in the queue of the thread pool
               "init",     \* ctrlPipe[STREAM_WORK] is initialised
               "up",       \* uv_run of the child loop
               "stopping", \* SP_STOP_SESSION was read, handles are closing
               "clearing", \* ReChildLoopForSessionClear
               "cleared"}  \* childCleared
TcpStates  == {"none", "inited", "open", "closing", "closed"}
FreeStates == {"none", "operate", "waitChild", "finally", "done"}
MainHandles  == {"hWorkTCP", "ctrlPipe", "dataPipe"}
ChildHandles == {"hChildWorkTCP", "ctrlPipe", "dataPipe"}

ObjTypeOK ==
    /\ mem \in [Sessions -> {"none", "alloc", "freed"}]
    /\ isDead \in [Sessions -> BOOLEAN]
    /\ voteReset \in [Sessions -> BOOLEAN]
    /\ ref \in [Sessions -> Nat]
    /\ mainWrites \in [Sessions -> 0..MaxMainWrites]

MainTypeOK ==
    /\ boot \in [Sessions -> BootStates]
    /\ workTcp \in [Sessions -> BOOLEAN]
    /\ mainClosing \in [Sessions -> SUBSET MainHandles]
    /\ uvHandleRef \in [Sessions -> 0..3]
    /\ freePc \in [Sessions -> FreeStates]

ProcessTypeOK ==
    /\ sessionRef \in Nat
    /\ lstMainThreadOP \subseteq Sessions
    /\ loopMain \in {"run", "stop", "clear", "done"}
    /\ aborted \in BOOLEAN
    /\ currentSessionId \in Sessions \cup {None}

WorkTypeOK ==
    /\ work \in [Sessions -> WorkStates]
    /\ ctrl \in [Sessions -> Seq({"SP_START_SESSION", "SP_STOP_SESSION"})]
    /\ uvChildRef \in [Sessions -> 0..3]
    /\ childClosing \in [Sessions -> SUBSET ChildHandles]
    /\ dataPipe \in [Sessions -> BOOLEAN]
    /\ tasks \in [Sessions -> 0..MaxTasks]
    /\ closeRetryCount \in [Sessions -> 0..GLOBAL_TIMEOUT]

IoTypeOK ==
    /\ childTcp \in [Sessions -> TcpStates]
    /\ sending \in [Sessions -> BOOLEAN]
    /\ writes \in [Sessions -> 0..MaxWrites]
    /\ uartSend \in [Sessions -> {"idle", "found", "io"}]

TypeOK == ObjTypeOK /\ MainTypeOK /\ ProcessTypeOK /\ WorkTypeOK /\ IoTypeOK

Init ==
    /\ mem = [s \in Sessions |-> "none"]
    /\ isDead = [s \in Sessions |-> FALSE]
    /\ voteReset = [s \in Sessions |-> FALSE]
    /\ ref = [s \in Sessions |-> 0]
    /\ mainWrites = [s \in Sessions |-> 0]
    /\ boot = [s \in Sessions |-> "none"]
    /\ workTcp = [s \in Sessions |-> FALSE]
    /\ mainClosing = [s \in Sessions |-> {}]
    /\ uvHandleRef = [s \in Sessions |-> 0]
    /\ freePc = [s \in Sessions |-> "none"]
    /\ sessionRef = 0
    /\ lstMainThreadOP = {}
    /\ loopMain = "run"
    /\ aborted = FALSE
    /\ work = [s \in Sessions |-> "none"]
    /\ ctrl = [s \in Sessions |-> <<>>]
    /\ uvChildRef = [s \in Sessions |-> 0]
    /\ childClosing = [s \in Sessions |-> {}]
    /\ childTcp = [s \in Sessions |-> "none"]
    /\ dataPipe = [s \in Sessions |-> FALSE]
    /\ sending = [s \in Sessions |-> FALSE]
    /\ writes = [s \in Sessions |-> 0]
    /\ tasks = [s \in Sessions |-> 0]
    /\ closeRetryCount = [s \in Sessions |-> 0]
    /\ uartSend = [s \in Sessions |-> "idle"]
    /\ currentSessionId = None

-----------------------------------------------------------------------------
(* What the threads can observe of each other.                             *)

\* The main loop is inside the busy wait "wait for thread up".
MainBlocked == \E s \in Sessions : boot[s] = "wait"

\* The main loop can run a callback.
MainReady == loopMain \in {"run", "clear"} /\ ~MainBlocked

\* ctrlPipe[STREAM_WORK].loop is set: the worker initialised its pipe.
WorkLoopSet(s) == work[s] \notin {"none", "queued"}

\* Variant: the creator waits for a worker that has opened its connection.
StartedHandles(s) == work[s] \in {"up", "clearing"} /\ childTcp[s] # "none"

\* childLoop.active_handles is not zero.
ActiveHandles(s) == work[s] \in {"up", "clearing"}

\* Workers that occupy a thread of the pool.
PoolThreads == {s \in Sessions : work[s] \in {"init", "up", "stopping", "clearing"}}

\* The worker is between two callbacks of its child loop.
WorkerIdle(s) == work[s] = "up" /\ ~sending[s]

\* Variant: the server, too, asks nobody.
ResetAtFirstVote(s) == TRUE

\* AdminSession(OP_VOTE_RESET) finds the vote unanimous: the daemon asks nobody.
NeedReset(s) == \/ ~serverOrDaemon
                \/ \A t \in Sessions \ {s} : mem[t] = "alloc" => voteReset[t]

\* Variant: ++sessionRef is missing.
MallocUncounted(s) ==
    /\ mem[s] = "none"
    /\ mem' = [mem EXCEPT ![s] = "alloc"]
    /\ uvHandleRef' = [uvHandleRef EXCEPT ![s] = IF s \in Tcp THEN 3 ELSE 2]
    /\ UNCHANGED sessionRef

\* What MallocSession does for session s.
MallocSession(s) ==
    /\ mem[s] = "none"
    /\ mem' = [mem EXCEPT ![s] = "alloc"]
    /\ uvHandleRef' = [uvHandleRef EXCEPT ![s] = IF s \in Tcp THEN 3 ELSE 2]
    /\ sessionRef' = sessionRef + 1

\* Variant: the test of isDead is missing, so a session is freed twice.
KillAgain(S) ==
    /\ isDead' = [s \in Sessions |-> isDead[s] \/ (s \in S /\ mem[s] = "alloc")]
    /\ freePc' = [s \in Sessions |->
                    IF s \in S /\ mem[s] = "alloc" THEN "operate" ELSE freePc[s]]

\* What FreeSession does on the main thread, for each session of S.
KillSessions(S) ==
    /\ isDead' = [s \in Sessions |-> isDead[s] \/ (s \in S /\ mem[s] = "alloc")]
    /\ freePc' = [s \in Sessions |->
                    IF s \in S /\ mem[s] = "alloc" /\ ~isDead[s]
                    THEN "operate" ELSE freePc[s]]

\* Variant: ref is tested before the request is taken off.
LookBeforeDecrement(s) == ref[s] = 0

\* FinishWriteSessionTCP takes its request off ref and finds it was the last.  (A
\* request of the other thread may end between the two steps; the outcome is that
\* of its ending before them.)
LastWrite(s) == ref[s] = 1

-----------------------------------------------------------------------------
(* Creation of sessions.                                                   *)

\* HdcHostTCP::ConnectDaemon.
ConnectDaemon(s) ==
    /\ serverOrDaemon /\ MainReady /\ loopMain = "run"
    /\ MallocSession(s)
    /\ boot' = [boot EXCEPT ![s] = "connecting"]
    /\ workTcp' = [workTcp EXCEPT ![s] = TRUE]
    /\ UNCHANGED <<isDead, voteReset, ref, mainWrites, mainClosing, freePc,
                   lstMainThreadOP, loopMain, aborted, work, ctrl, tcpVars,
                   taskVars, endVars, uartVars>>

\* HdcHostTCP::Connect, connected: the worker is queued and the loop blocks.
ConnectOk(s) ==
    /\ MainReady
    /\ boot[s] = "connecting" /\ workTcp[s]
    /\ boot' = [boot EXCEPT ![s] = "wait"]
    /\ work' = [work EXCEPT ![s] = "queued"]
    /\ UNCHANGED <<objVars, workTcp, mainClosing, uvHandleRef, freePc, sessionRef,
                   lstMainThreadOP, loopMain, aborted, ctrl, tcpVars, taskVars,
                   endVars, uartVars>>

\* HdcHostTCP::Connect with an error, UV_ECANCELED when hWorkTCP was closed.
ConnectFail(s) ==
    /\ MainReady
    /\ boot[s] = "connecting"
    /\ boot' = [boot EXCEPT ![s] = "done"]
    /\ KillSessions({s})
    /\ UNCHANGED <<mem, voteReset, ref, mainWrites, workTcp, mainClosing,
                   uvHandleRef, sessionRef, lstMainThreadOP, loopMain, aborted,
                   work, ctrl, tcpVars, taskVars, endVars, uartVars>>

\* HdcDaemonTCP::AcceptClient: hWorkTCP is duplicated, closed without a
\* callback, and the worker is queued; or accepting fails.
AcceptClient(s) ==
    /\ ~serverOrDaemon /\ s \in Tcp /\ MainReady /\ loopMain = "run"
    /\ MallocSession(s)
    /\ \/ /\ boot' = [boot EXCEPT ![s] = "wait"]
          /\ work' = [work EXCEPT ![s] = "queued"]
          /\ UNCHANGED <<workTcp, isDead, freePc>>
       \/ /\ boot' = [boot EXCEPT ![s] = "done"]
          /\ workTcp' = [workTcp EXCEPT ![s] = TRUE]
          /\ isDead' = [isDead EXCEPT ![s] = TRUE]
          /\ freePc' = [freePc EXCEPT ![s] = "operate"]
          /\ UNCHANGED work
    /\ UNCHANGED <<voteReset, ref, mainWrites, mainClosing, lstMainThreadOP,
                   loopMain, aborted, ctrl, tcpVars, taskVars, endVars, uartVars>>

\* HdcDaemonUART::PrepareNewSession, on the UART read thread: a package of an
\* unknown session id creates the session and replaces the current one.
PrepareNewSession(s) ==
    /\ s \in Sessions \ Tcp /\ loopMain # "done"
    /\ MallocSession(s)
    /\ lstMainThreadOP' = lstMainThreadOP \cup ({currentSessionId} \ {None})
    /\ work' = [work EXCEPT ![s] = "queued"]
    /\ boot' = [boot EXCEPT ![s] = "timer"]
    /\ UNCHANGED <<isDead, voteReset, ref, mainWrites, workTcp, mainClosing,
                   freePc, loopMain, aborted, ctrl, tcpVars, taskVars, endVars,
                   uartVars>>

\* End of the busy wait of HdcHostTCP::Connect and HdcDaemonTCP::AcceptClient.
ThreadUp(s) ==
    /\ boot[s] = "wait" /\ ActiveHandles(s)
    /\ boot' = [boot EXCEPT ![s] = "done"]
    /\ ctrl' = [ctrl EXCEPT ![s] = Append(@, "SP_START_SESSION")]
    /\ UNCHANGED <<objVars, workTcp, mainClosing, uvHandleRef, freePc, sessionRef,
                   lstMainThreadOP, loopMain, aborted, work, tcpVars, taskVars,
                   endVars, uartVars>>

\* The timer callback funcNewSessionUp of PrepareNewSession.
FuncNewSessionUp(s) ==
    /\ MainReady
    /\ boot[s] = "timer" /\ ActiveHandles(s)
    /\ mem[s] = "alloc"
    /\ boot' = [boot EXCEPT ![s] = "done"]
    /\ ctrl' = IF isDead[s] THEN ctrl
               ELSE [ctrl EXCEPT ![s] = Append(@, "SP_START_SESSION")]
    /\ UNCHANGED <<objVars, workTcp, mainClosing, uvHandleRef, freePc, sessionRef,
                   lstMainThreadOP, loopMain, aborted, work, tcpVars, taskVars,
                   endVars, uartVars>>

-----------------------------------------------------------------------------
(* Freeing of sessions, on the main loop.                                  *)

\* AsyncMainLoopTask with ASYNC_FREE_SESSION: FreeSession on the main thread.
AsyncFree(s) ==
    /\ MainReady
    /\ s \in lstMainThreadOP
    /\ lstMainThreadOP' = lstMainThreadOP \ {s}
    /\ KillSessions({s})
    /\ UNCHANGED <<mem, voteReset, ref, mainWrites, boot, workTcp, mainClosing,
                   uvHandleRef, sessionRef, loopMain, aborted, work, ctrl,
                   tcpVars, taskVars, endVars, uartVars>>

\* ResetOldSession and OnTransferError on the UART threads: the host has reset,
\* or the device fails.
ResetOldSession(s) ==
    /\ s \in Sessions \ Tcp /\ mem[s] = "alloc"
    /\ lstMainThreadOP' = lstMainThreadOP \cup {s}
    /\ UNCHANGED <<objVars, boot, workTcp, mainClosing, uvHandleRef, freePc,
                   sessionRef, loopMain, aborted, work, ctrl, tcpVars, taskVars,
                   endVars, uartVars>>

\* CommandRemoveSession of the server: a client asks for the session to go.
CommandRemoveSession(s) ==
    /\ serverOrDaemon /\ MainReady
    /\ mem[s] = "alloc"
    /\ KillSessions({s})
    /\ UNCHANGED <<mem, voteReset, ref, mainWrites, boot, workTcp, mainClosing,
                   uvHandleRef, sessionRef, lstMainThreadOP, loopMain, aborted,
                   work, ctrl, tcpVars, taskVars, endVars, uartVars>>

\* Variant: only the sessions whose worker runs are freed.
ClearStartedSessions ==
    /\ MainReady /\ loopMain = "run"
    /\ loopMain' = "stop"
    /\ KillSessions({s \in Sessions : work[s] # "none"})
    /\ UNCHANGED <<mem, voteReset, ref, mainWrites, boot, workTcp, mainClosing,
                   uvHandleRef, sessionRef, lstMainThreadOP, aborted, work, ctrl,
                   tcpVars, taskVars, endVars, uartVars>>

\* The main loop was stopped; ClearSessions of TryStopInstance.
ClearSessions ==
    /\ MainReady /\ loopMain = "run"
    /\ loopMain' = "stop"
    /\ KillSessions(Sessions)
    /\ UNCHANGED <<mem, voteReset, ref, mainWrites, boot, workTcp, mainClosing,
                   uvHandleRef, sessionRef, lstMainThreadOP, aborted, work, ctrl,
                   tcpVars, taskVars, endVars, uartVars>>

\* The rest of TryStopInstance stops the modules and enters
\* ReMainLoopForInstanceClear, which runs the main loop again.
StopModules ==
    /\ loopMain = "stop"
    /\ loopMain' = "clear"
    /\ UNCHANGED <<objVars, boot, workTcp, mainClosing, uvHandleRef, freePc,
                   sessionRef, lstMainThreadOP, aborted, work, ctrl, tcpVars,
                   taskVars, endVars, uartVars>>

\* clearSessionsForFinish.
InstanceCleared ==
    /\ MainReady /\ loopMain = "clear"
    /\ sessionRef = 0
    /\ loopMain' = "done"
    /\ UNCHANGED <<objVars, boot, workTcp, mainClosing, uvHandleRef, freePc,
                   sessionRef, lstMainThreadOP, aborted, work, ctrl, tcpVars,
                   taskVars, endVars, uartVars>>

\* FreeSessionContinue closes the main handles; the counted callback of a hWorkTCP
\* that was closed before runs at once.
MainCallbacksAtOnce(s) == IF s \in Tcp /\ ~workTcp[s] THEN 1 ELSE 0
FreeSessionContinue(s) ==
    /\ mainClosing' = [mainClosing EXCEPT ![s] =
                         {"ctrlPipe", "dataPipe"} \cup {h \in {"hWorkTCP"} : workTcp[s]}]
    /\ uvHandleRef' = [uvHandleRef EXCEPT ![s] =
                         @ - MainCallbacksAtOnce(s)]
    /\ workTcp' = [workTcp EXCEPT ![s] = FALSE]
    /\ freePc' = [freePc EXCEPT ![s] = "finally"]

\* FreeSessionOpeate, once ref is zero: stop the worker, or go on without one.
FreeSessionOpeate(s) ==
    /\ MainReady
    /\ freePc[s] = "operate" /\ ref[s] = 0
    /\ \/ /\ WorkLoopSet(s)
          /\ ctrl' = [ctrl EXCEPT ![s] = Append(@, "SP_STOP_SESSION")]
          /\ freePc' = [freePc EXCEPT ![s] = "waitChild"]
          /\ UNCHANGED <<mainClosing, uvHandleRef, workTcp>>
       \/ /\ ~WorkLoopSet(s)
          /\ FreeSessionContinue(s)
          /\ UNCHANGED ctrl
    /\ UNCHANGED <<objVars, boot, sessionRef, lstMainThreadOP, loopMain, aborted,
                   work, tcpVars, taskVars, endVars, uartVars>>

\* Variant: childCleared is not tested.
ContinueAtOnce(s) ==
    /\ MainReady
    /\ freePc[s] = "waitChild"
    /\ FreeSessionContinue(s)
    /\ UNCHANGED <<objVars, boot, sessionRef, lstMainThreadOP, loopMain, aborted,
                   work, ctrl, tcpVars, taskVars, endVars, uartVars>>

\* callbackCheckFreeSessionContinue: the worker set childCleared.
CheckFreeSessionContinue(s) ==
    /\ MainReady
    /\ freePc[s] = "waitChild" /\ work[s] = "cleared"
    /\ FreeSessionContinue(s)
    /\ UNCHANGED <<objVars, boot, sessionRef, lstMainThreadOP, loopMain, aborted,
                   work, ctrl, tcpVars, taskVars, endVars, uartVars>>

\* closeSessionTCPHandle.  libuv cancels a pending connect, with its callback,
\* before the close callback of hWorkTCP.
MainHandleClosed(s, h) ==
    /\ MainReady
    /\ h \in mainClosing[s]
    /\ h = "hWorkTCP" => boot[s] # "connecting"
    /\ mainClosing' = [mainClosing EXCEPT ![s] = @ \ {h}]
    /\ uvHandleRef' = [uvHandleRef EXCEPT ![s] = @ - 1]
    /\ UNCHANGED <<objVars, boot, workTcp, freePc, sessionRef, lstMainThreadOP,
                   loopMain, aborted, work, ctrl, tcpVars, taskVars, endVars,
                   uartVars>>

\* Variant: uvHandleRef is not tested.
FinallyAtOnce(s) ==
    /\ MainReady
    /\ freePc[s] = "finally"
    /\ mem' = [mem EXCEPT ![s] = "freed"]
    /\ freePc' = [freePc EXCEPT ![s] = "done"]
    /\ sessionRef' = sessionRef - 1
    /\ UNCHANGED <<isDead, voteReset, ref, mainWrites, boot, workTcp, mainClosing,
                   uvHandleRef, lstMainThreadOP, loopMain, aborted, work, ctrl,
                   tcpVars, taskVars, endVars, uartVars>>

\* FreeSessionFinally: the session leaves mapSession and is deleted.
FreeSessionFinally(s) ==
    /\ MainReady
    /\ freePc[s] = "finally" /\ uvHandleRef[s] = 0
    /\ mem' = [mem EXCEPT ![s] = "freed"]
    /\ freePc' = [freePc EXCEPT ![s] = "done"]
    /\ sessionRef' = sessionRef - 1
    /\ UNCHANGED <<isDead, voteReset, ref, mainWrites, boot, workTcp, mainClosing,
                   uvHandleRef, lstMainThreadOP, loopMain, aborted, work, ctrl,
                   tcpVars, taskVars, endVars, uartVars>>

-----------------------------------------------------------------------------
(* Sends of the main loop: SendToDaemon of the server writes to hWorkTCP.  *)

\* SendByProtocol on the main thread, for a session that has shaken hands; without
\* a writable hWorkTCP nothing happens.
MainSend(s) ==
    /\ serverOrDaemon /\ MainReady
    /\ mem[s] = "alloc" /\ childTcp[s] \in {"open", "closing", "closed"}
    /\ ~isDead[s]
    /\ workTcp[s] /\ mainWrites[s] < MaxMainWrites
    /\ mainWrites' = [mainWrites EXCEPT ![s] = @ + 1]
    /\ ref' = [ref EXCEPT ![s] = @ + 1]
    /\ UNCHANGED <<mem, isDead, voteReset, mainVars, work, ctrl, tcpVars, taskVars,
                   endVars, uartVars>>

\* FinishWriteSessionTCP on the main thread, status 0.
FinishMainWriteOk(s) ==
    /\ MainReady
    /\ mainWrites[s] > 0 /\ workTcp[s]
    /\ mainWrites' = [mainWrites EXCEPT ![s] = @ - 1]
    /\ ref' = [ref EXCEPT ![s] = @ - 1]
    /\ UNCHANGED <<mem, isDead, voteReset, mainVars, work, ctrl, tcpVars, taskVars,
                   endVars, uartVars>>

\* FinishWriteSessionTCP on the main thread, with an error: hWorkTCP is closed
\* without a callback, and the last write of a live session has it freed.
FinishMainWriteError(s) ==
    /\ MainReady
    /\ mainWrites[s] > 0
    /\ mainWrites' = [mainWrites EXCEPT ![s] = @ - 1]
    /\ ref' = [ref EXCEPT ![s] = @ - 1]
    /\ workTcp' = [workTcp EXCEPT ![s] = FALSE]
    /\ KillSessions(IF LastWrite(s) THEN {s} ELSE {})
    /\ UNCHANGED <<mem, voteReset, boot, mainClosing, uvHandleRef, sessionRef,
                   lstMainThreadOP, loopMain, aborted, work, ctrl, tcpVars,
                   taskVars, endVars, uartVars>>

-----------------------------------------------------------------------------
(* The worker: SessionWorkThread.  An access to a session that was freed   *)
(* has no defined outcome; the model stops the thread there.               *)

\* The pool runs the work item; uv_tcp_init sets ctrlPipe[STREAM_WORK].loop.
WorkerStart(s) ==
    /\ work[s] = "queued" /\ mem[s] = "alloc"
    /\ Cardinality(PoolThreads) < PoolSize
    /\ work' = [work EXCEPT ![s] = "init"]
    /\ UNCHANGED <<objVars, mainVars, ctrl, tcpVars, taskVars, endVars, uartVars>>

\* uv_read_start on the control pipe, uv_run.
WorkerRun(s) ==
    /\ work[s] = "init"
    /\ work' = [work EXCEPT ![s] = "up"]
    /\ UNCHANGED <<objVars, mainVars, ctrl, tcpVars, taskVars, endVars, uartVars>>

\* SP_START_SESSION: WorkThreadStartSession opens the child's handle.  uv_tcp_open
\* may fail; on success the server sends the first handshake through
\* SendByProtocol, which tests isDead.
StartSession(s) ==
    /\ WorkerIdle(s) /\ ctrl[s] # <<>> /\ Head(ctrl[s]) = "SP_START_SESSION"
    /\ ctrl' = [ctrl EXCEPT ![s] = Tail(@)]
    /\ \/ /\ s \in Tcp
          /\ childTcp' = [childTcp EXCEPT ![s] = "open"]
          /\ sending' = [sending EXCEPT ![s] = serverOrDaemon /\ ~isDead[s]]
          /\ UNCHANGED dataPipe
       \/ /\ s \in Tcp
          /\ childTcp' = [childTcp EXCEPT ![s] = "inited"]
          /\ UNCHANGED <<sending, dataPipe>>
       \/ /\ s \notin Tcp
          /\ dataPipe' = [dataPipe EXCEPT ![s] = TRUE]
          /\ UNCHANGED <<childTcp, sending>>
    /\ UNCHANGED <<objVars, mainVars, work, writes, taskVars, uvChildRef,
                   childClosing, uartVars>>

\* Send on the worker thread, as far as SendByProtocol's test of isDead.
SendCheck(s) ==
    /\ s \in Tcp /\ WorkerIdle(s)
    /\ childTcp[s] \in {"open", "closing", "closed"}
    /\ writes[s] < MaxWrites
    /\ ~isDead[s]
    /\ sending' = [sending EXCEPT ![s] = TRUE]
    /\ UNCHANGED <<objVars, mainVars, work, ctrl, childTcp, writes, taskVars,
                   endVars, uartVars>>

\* The rest of SendByProtocol: SendToStreamEx fails without a request when the
\* handle is not writable, and only a request counts in ref.
SendWrite(s) ==
    /\ sending[s]
    /\ sending' = [sending EXCEPT ![s] = FALSE]
    /\ \/ /\ childTcp[s] = "open"
          /\ writes' = [writes EXCEPT ![s] = @ + 1]
          /\ ref' = [ref EXCEPT ![s] = @ + 1]
       \/ /\ childTcp[s] # "open"
          /\ UNCHANGED <<writes, ref>>
    /\ UNCHANGED <<mem, isDead, voteReset, mainWrites, mainVars, work, ctrl,
                   childTcp, taskVars, endVars, uartVars>>

\* The child loop runs callbacks of hChildWorkTCP.
ChildLoopRuns(s) == work[s] \in {"up", "stopping"} /\ ~sending[s]

\* FinishWriteSessionTCP with status 0.  (libuv may also report 0 for a write that
\* was done when its handle was closed; the free that FinishWriteError posts then
\* was already posted by whoever closed the handle.)
FinishWriteOk(s) ==
    /\ ChildLoopRuns(s)
    /\ childTcp[s] = "open" /\ writes[s] > 0
    /\ writes' = [writes EXCEPT ![s] = @ - 1]
    /\ ref' = [ref EXCEPT ![s] = @ - 1]
    /\ UNCHANGED <<mem, isDead, voteReset, mainWrites, mainVars, work, ctrl,
                   childTcp, sending, taskVars, endVars, uartVars>>

\* FinishWriteSessionTCP with an error, UV_ECANCELED when the handle is closing:
\* the handle is closed, and the last write of a live session has it freed.
FinishWriteError(s) ==
    /\ ChildLoopRuns(s)
    /\ childTcp[s] \in {"open", "closing"} /\ writes[s] > 0
    /\ writes' = [writes EXCEPT ![s] = @ - 1]
    /\ ref' = [ref EXCEPT ![s] = @ - 1]
    /\ childTcp' = [childTcp EXCEPT ![s] = "closing"]
    /\ lstMainThreadOP' = IF ~isDead[s] /\ LastWrite(s)
                          THEN lstMainThreadOP \cup {s} ELSE lstMainThreadOP
    /\ UNCHANGED <<mem, isDead, voteReset, mainWrites, boot, workTcp, mainClosing,
                   uvHandleRef, freePc, sessionRef, loopMain, aborted, work, ctrl,
                   sending, taskVars, endVars, uartVars>>

\* HdcTCPBase::ReadStream after an error or a rejected packet: the handle is
\* closed and the session is to be freed.
ReadStreamError(s) ==
    /\ WorkerIdle(s) /\ childTcp[s] = "open"
    /\ childTcp' = [childTcp EXCEPT ![s] = "closing"]
    /\ lstMainThreadOP' = lstMainThreadOP \cup {s}
    /\ UNCHANGED <<objVars, boot, workTcp, mainClosing, uvHandleRef, freePc,
                   sessionRef, loopMain, aborted, work, ctrl, sending, writes,
                   taskVars, endVars, uartVars>>

\* HdcUARTBase::ReadDataFromUARTStream when FetchIOBuf rejects the stream.
ReadUartError(s) ==
    /\ WorkerIdle(s) /\ dataPipe[s]
    /\ lstMainThreadOP' = lstMainThreadOP \cup {s}
    /\ UNCHANGED <<objVars, boot, workTcp, mainClosing, uvHandleRef, freePc,
                   sessionRef, loopMain, aborted, work, ctrl, tcpVars, taskVars,
                   endVars, uartVars>>

\* HdcDaemonUART::OnNewHandshakeOK.
OnNewHandshakeOK(s) ==
    /\ WorkerIdle(s) /\ dataPipe[s]
    /\ currentSessionId' = s
    /\ UNCHANGED <<objVars, mainVars, work, ctrl, tcpVars, taskVars, endVars,
                   uartSend>>

\* A close of hChildWorkTCP without a callback ends; libuv has cancelled the
\* writes.
ChildTcpClosed(s) ==
    /\ ChildLoopRuns(s)
    /\ childTcp[s] = "closing" /\ "hChildWorkTCP" \notin childClosing[s]
    /\ writes[s] = 0
    /\ childTcp' = [childTcp EXCEPT ![s] = "closed"]
    /\ UNCHANGED <<objVars, mainVars, work, ctrl, sending, writes, taskVars,
                   endVars, uartVars>>

\* The child handles SP_STOP_SESSION has a close callback to wait for.
ChildHandlesToClose(s) ==
    {"ctrlPipe"} \cup {h \in {"dataPipe"} : dataPipe[s]}
                 \cup {h \in {"hChildWorkTCP"} : childTcp[s] \in {"inited", "open"}}

\* The number of handles it counts in uvChildRef; hChildWorkTCP if it was ever
\* initialised.
ChildHandlesCounted(s) == IF childTcp[s] # "none" THEN 3 ELSE 2

\* Variant: TryCloseHandle drops the callback of a handle that is closed already.
NoTcpCallbackAtOnce(s) == Cardinality({h \in {"dataPipe"} : ~dataPipe[s]})

\* How many of them have their callback run at once: they are not initialised, or
\* close already.
ChildCallbacksAtOnce(s) ==
    Cardinality({h \in {"dataPipe"} : ~dataPipe[s]}
                \cup {h \in {"hChildWorkTCP"} : childTcp[s] \in {"closing", "closed"}})

\* SP_STOP_SESSION: DispatchMainThreadCommand closes the child's handles.
StopSession(s) ==
    /\ WorkerIdle(s) /\ ctrl[s] # <<>> /\ Head(ctrl[s]) = "SP_STOP_SESSION"
    /\ ctrl' = [ctrl EXCEPT ![s] = Tail(@)]
    /\ work' = [work EXCEPT ![s] = "stopping"]
    /\ childClosing' = [childClosing EXCEPT ![s] = ChildHandlesToClose(s)]
    /\ uvChildRef' = [uvChildRef EXCEPT
                        ![s] = @ + ChildHandlesCounted(s) - ChildCallbacksAtOnce(s)]
    /\ childTcp' = [childTcp EXCEPT ![s] = IF "hChildWorkTCP" \in ChildHandlesToClose(s)
                                           THEN "closing" ELSE @]
    /\ UNCHANGED <<objVars, mainVars, sending, writes, taskVars, dataPipe, uartVars>>

\* closeSessionChildThreadTCPHandle.
ChildHandleClosed(s, h) ==
    /\ work[s] = "stopping" /\ ~sending[s]
    /\ h \in childClosing[s]
    /\ h = "hChildWorkTCP" => writes[s] = 0
    /\ childClosing' = [childClosing EXCEPT ![s] = @ \ {h}]
    /\ uvChildRef' = [uvChildRef EXCEPT ![s] = @ - 1]
    /\ childTcp' = IF h = "hChildWorkTCP" THEN [childTcp EXCEPT ![s] = "closed"]
                   ELSE childTcp
    /\ UNCHANGED <<objVars, mainVars, work, ctrl, sending, writes, taskVars,
                   dataPipe, uartVars>>

\* uv_stop was called by the last close callback: uv_run returns after the closing
\* phase, and ReChildLoopForSessionClear stops the tasks.
ChildLoopStopped(s) ==
    /\ work[s] = "stopping" /\ uvChildRef[s] = 0
    /\ childTcp[s] # "closing"
    /\ work' = [work EXCEPT ![s] = "clearing"]
    /\ UNCHANGED <<objVars, mainVars, ctrl, tcpVars, taskVars, endVars, uartVars>>

\* DispatchTaskData adds a task.
NewTask(s) ==
    /\ WorkerIdle(s) /\ (childTcp[s] = "open" \/ dataPipe[s])
    /\ tasks[s] < MaxTasks
    /\ tasks' = [tasks EXCEPT ![s] = @ + 1]
    /\ UNCHANGED <<objVars, mainVars, work, ctrl, tcpVars, closeRetryCount, endVars,
                   uartVars>>

\* taskClassDeleteRetry: a stopped task is ready for release and is deleted, the
\* first of mapTask, whose retries were counted, or another one.
TaskFreed(s) ==
    /\ work[s] \in {"up", "clearing"} /\ ~sending[s]
    /\ tasks[s] > 0
    /\ tasks' = [tasks EXCEPT ![s] = @ - 1]
    /\ \/ closeRetryCount' = [closeRetryCount EXCEPT ![s] = 0]
       \/ tasks[s] > 1 /\ UNCHANGED closeRetryCount
    /\ UNCHANGED <<objVars, mainVars, work, ctrl, tcpVars, endVars, uartVars>>

\* AdminSession(OP_VOTE_RESET): the daemon resets at once, the server when every
\* registered session has voted.
VoteReset(s) ==
    /\ voteReset' = [voteReset EXCEPT ![s] = serverOrDaemon]
    /\ aborted' = NeedReset(s)

\* clearTaskForSessionFinish while a task is left.
ClearTaskRetry(s) ==
    /\ work[s] = "clearing" /\ tasks[s] > 0
    /\ \/ /\ closeRetryCount[s] < GLOBAL_TIMEOUT
          /\ closeRetryCount' = [closeRetryCount EXCEPT ![s] = @ + 1]
          /\ UNCHANGED <<voteReset, aborted>>
       \/ /\ closeRetryCount[s] = GLOBAL_TIMEOUT
          /\ VoteReset(s)
          /\ UNCHANGED closeRetryCount
    /\ UNCHANGED <<mem, isDead, ref, mainWrites, boot, workTcp, mainClosing,
                   uvHandleRef, freePc, sessionRef, lstMainThreadOP, loopMain,
                   work, ctrl, tcpVars, tasks, endVars, uartVars>>

\* clearTaskForSessionFinish without a task left; childCleared is set.
ChildCleared(s) ==
    /\ work[s] = "clearing" /\ tasks[s] = 0
    /\ work' = [work EXCEPT ![s] = "cleared"]
    /\ UNCHANGED <<objVars, mainVars, ctrl, tcpVars, taskVars, endVars, uartVars>>

-----------------------------------------------------------------------------
(* The UART write thread: HdcUARTBase::SendUARTRaw for a normal package.    *)

\* GetSession returns the pointer; nothing keeps the session meanwhile.
UartGetSession(s) ==
    /\ s \in Sessions \ Tcp /\ uartSend[s] = "idle" /\ mem[s] = "alloc"
    /\ uartSend' = [uartSend EXCEPT ![s] = "found"]
    /\ UNCHANGED <<objVars, mainVars, work, ctrl, tcpVars, taskVars, endVars,
                   currentSessionId>>

\* ref++ before the write to the device.
UartRef(s) ==
    /\ uartSend[s] = "found" /\ mem[s] = "alloc"
    /\ uartSend' = [uartSend EXCEPT ![s] = "io"]
    /\ ref' = [ref EXCEPT ![s] = @ + 1]
    /\ UNCHANGED <<mem, isDead, voteReset, mainWrites, mainVars, work, ctrl,
                   tcpVars, taskVars, endVars, currentSessionId>>

\* The write returns; an error is an OnTransferError, which frees the session.
UartWritten(s) ==
    /\ uartSend[s] = "io" /\ mem[s] = "alloc"
    /\ uartSend' = [uartSend EXCEPT ![s] = "idle"]
    /\ ref' = [ref EXCEPT ![s] = @ - 1]
    /\ lstMainThreadOP' \in {lstMainThreadOP, lstMainThreadOP \cup {s}}
    /\ UNCHANGED <<mem, isDead, voteReset, mainWrites, boot, workTcp, mainClosing,
                   uvHandleRef, freePc, sessionRef, loopMain, aborted, work, ctrl,
                   tcpVars, taskVars, endVars, currentSessionId>>

-----------------------------------------------------------------------------
Create(s) == \/ ConnectDaemon(s) \/ ConnectOk(s) \/ ConnectFail(s) \/ AcceptClient(s)
             \/ PrepareNewSession(s) \/ ThreadUp(s) \/ FuncNewSessionUp(s)
Free(s)   == \/ ResetOldSession(s) \/ AsyncFree(s) \/ CommandRemoveSession(s) \/ FreeSessionOpeate(s)
             \/ CheckFreeSessionContinue(s) \/ FreeSessionFinally(s)
             \/ \E h \in MainHandles : MainHandleClosed(s, h)
Work(s)   == \/ WorkerStart(s) \/ WorkerRun(s) \/ StartSession(s)
             \/ SendCheck(s) \/ SendWrite(s) \/ FinishWriteOk(s) \/ FinishWriteError(s)
             \/ ReadStreamError(s) \/ ReadUartError(s) \/ OnNewHandshakeOK(s)
             \/ ChildTcpClosed(s) \/ StopSession(s) \/ ChildLoopStopped(s)
             \/ \E h \in ChildHandles : ChildHandleClosed(s, h)
             \/ NewTask(s) \/ TaskFreed(s) \/ ClearTaskRetry(s) \/ ChildCleared(s)
Main(s)   == MainSend(s) \/ FinishMainWriteOk(s) \/ FinishMainWriteError(s)
Uart(s)   == UartGetSession(s) \/ UartRef(s) \/ UartWritten(s)

Next ==
    /\ ~aborted
    /\ \/ ClearSessions \/ StopModules \/ InstanceCleared
       \/ \E s \in Sessions : Create(s) \/ Free(s) \/ Main(s) \/ Work(s) \/ Uart(s)

Spec == Init /\ [][Next]_vars

\* The loops run every callback that is ready, the kernel ends every write and
\* every connect, the pool runs its queue.  Nothing is assumed of users, of the
\* peer, of tasks that do not let go, and of the UART write thread.  The child
\* loop alternates between its callbacks, hence strong fairness for those a Send
\* can postpone.
Fairness ==
    /\ WF_vars(~aborted /\ (StopModules \/ InstanceCleared))
    /\ \A s \in Sessions :
        /\ WF_vars(~aborted /\ (ConnectOk(s) \/ ConnectFail(s)))
        /\ WF_vars(~aborted /\ (ThreadUp(s) \/ FuncNewSessionUp(s)))
        /\ WF_vars(~aborted /\ AsyncFree(s))
        /\ WF_vars(~aborted /\ (FinishMainWriteOk(s) \/ FinishMainWriteError(s)))
        /\ WF_vars(~aborted /\ (FreeSessionOpeate(s) \/ CheckFreeSessionContinue(s)
                                \/ FreeSessionFinally(s)))
        /\ WF_vars(~aborted /\ \E h \in MainHandles : MainHandleClosed(s, h))
        /\ WF_vars(~aborted /\ (WorkerStart(s) \/ WorkerRun(s) \/ SendWrite(s)
                                \/ ChildLoopStopped(s) \/ ClearTaskRetry(s)
                                \/ ChildCleared(s)))
        /\ SF_vars(~aborted /\ (FinishWriteOk(s) \/ FinishWriteError(s)))
        /\ SF_vars(~aborted /\ (StartSession(s) \/ StopSession(s)))
        /\ WF_vars(~aborted /\ (ChildTcpClosed(s)
                                \/ \E h \in ChildHandles : ChildHandleClosed(s, h)))

FairSpec == Spec /\ Fairness

-----------------------------------------------------------------------------
(* Safety.                                                                 *)

\* FreeSessionContinue is to run when the worker thread has finished
\* (session.cpp:535), or when there never was one.
ContinueAfterChild(S) ==
    \A s \in S : freePc[s] \in {"finally", "done"} => work[s] \in {"none", "cleared"}

\* The worker of a TCP session never outlives the clearing of its session.
TcpContinueAfterChild == ContinueAfterChild(Tcp)

\* The same of every session, which the UART sessions of the daemon do not keep.
AnyContinueAfterChild == ContinueAfterChild(Sessions)

\* FreeSessionOpeate looks at ref once, and a worker that has tested isDead before
\* may still start a write after that look: closing the child's handle takes it
\* back, so that no write is in flight when the session is taken apart.
NoWriteWhenTakenApart ==
    \A s \in Tcp : freePc[s] \in {"finally", "done"} =>
        ref[s] = 0 /\ writes[s] = 0 /\ mainWrites[s] = 0 /\ ~sending[s]

\* uvHandleRef and uvChildRef (uint8_t, decremented from close callbacks) count
\* the close callbacks still to come, so the last callback is the one that lets
\* FreeSessionFinally or uv_stop go on: no earlier one, and there is one.
CloseAccounting ==
    \A s \in Sessions :
        /\ freePc[s] \in {"finally", "done"} => uvHandleRef[s] = Cardinality(mainClosing[s])
        /\ work[s] = "stopping" => uvChildRef[s] = Cardinality(childClosing[s])

\* The start and the stop of a worker are posted from different callbacks of the
\* main loop: nothing is ever queued behind SP_STOP_SESSION, which would be lost
\* with the socket.
NothingBehindStop ==
    \A s \in Sessions :
        /\ work[s] \in {"stopping", "clearing", "cleared"} => ctrl[s] = <<>>
        /\ \A i \in DOMAIN ctrl[s] : ctrl[s][i] = "SP_STOP_SESSION" => i = Len(ctrl[s])

\* A TCP session is taken apart when nobody uses it: no worker, no write, no
\* message in its control socket.
TakenApartAlone == TcpContinueAfterChild /\ NoWriteWhenTakenApart /\ NothingBehindStop

\* The server resets itself only when every session it knows is dead: one session
\* that cannot be freed does not take down the sessions that work.
ResetOnlyWhenAllDead ==
    aborted /\ serverOrDaemon => \A s \in Sessions : mem[s] = "alloc" => isDead[s]

\* When the instance is cleared, no session is left and no worker of a TCP session
\* runs or will run.
InstanceClearedAlone ==
    loopMain = "done" => /\ \A s \in Sessions : mem[s] # "alloc"
                         /\ \A s \in Tcp : work[s] \in {"none", "cleared"}

-----------------------------------------------------------------------------
(* Refinement: the promise of SessionOwnership, for TCP sessions.          *)

SessionUsers == {"creator", "worker", "handles", "io"}

UsersOf(s) ==
    (IF boot[s] \in {"connecting", "wait", "timer"} THEN {"creator"} ELSE {})
    \cup (IF work[s] \notin {"none", "cleared"} THEN {"worker"} ELSE {})
    \cup (IF uvHandleRef[s] > 0 THEN {"handles"} ELSE {})
    \cup (IF sending[s] \/ writes[s] > 0 \/ mainWrites[s] > 0 THEN {"io"} ELSE {})

LifeOf(s) == CASE mem[s] = "alloc" -> IF isDead[s] THEN "dying" ELSE "live"
               [] OTHER -> mem[s]

Ownership == INSTANCE SessionOwnership
                 WITH Objects <- Tcp, Users <- SessionUsers,
                      life <- [s \in Tcp |-> LifeOf(s)],
                      users <- [s \in Tcp |-> UsersOf(s)]

\* The life of a TCP session keeps the promise of SessionOwnership: destroyed
\* once, dead, and with no thread, handle or request left that knows it.
OwnershipKept == Ownership!Spec

-----------------------------------------------------------------------------
(* Liveness.                                                               *)

\* A session whose connection broke is freed in the end, whichever of a failed
\* read and the last of several failed writes is the one to ask for it.
BrokenLinkKillsSession ==
    \A s \in Tcp : (childTcp[s] = "closing") ~> (isDead[s] \/ aborted)

\* A dead TCP session is freed, or its worker has asked for a reset because a task
\* does not let go.
DeadSessionSettles ==
    \A s \in Tcp : isDead[s] ~> (mem[s] = "freed" \/ (voteReset[s] /\ tasks[s] > 0)
                                 \/ aborted)

\* Stopping the instance ends: all sessions are freed, or all those that cannot be
\* freed vote and the process resets.
ShutdownCompletes == (loopMain = "clear") ~> (loopMain = "done" \/ aborted)

=============================================================================
