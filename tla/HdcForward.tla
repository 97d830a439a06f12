----------------------------- MODULE HdcForward -----------------------------
(***************************************************************************)
(* Port forwarding (common/forward.cpp, daemon/daemon_forward.cpp).  The   *)
(* master listens; each connection it accepts gets a context, the slave    *)
(* connects to the target with a context of the same id, and the two       *)
(* relay data until one side ends.  Contexts are numbered by their         *)
(* creation, 0 being the master's listener and the slave's check of it;    *)
(* their ids are times in milliseconds, so two connections accepted within *)
(* one millisecond have the same id.                                       *)
(***************************************************************************)
EXTENDS HdcTask

CONSTANTS MaxConn,   \* bound: connections accepted
          Targets,   \* kinds of target of the forward
          SameMs,    \* connections may be accepted in the same millisecond
          MaxData    \* bound: packets of data relayed

ASSUME ForwardAssumption ==
    /\ MaxConn \in Nat
    /\ Targets \subseteq {"tcp", "abstract", "dev", "jdwp"}
    /\ SameMs \in BOOLEAN
    /\ MaxData \in Nat

VARIABLES
    target,  \* what the slave connects to
    ctx,     \* the state of the context of each end and number
    id,      \* the id of the contexts with a number, once it is accepted
    mapCtx,  \* mapCtxPoint: the number each id leads to, -1 if none
    idle,    \* contexts whose SetupJdwpPointCallBack is pending
    data,    \* packets of data sent so far
    listed   \* the rule is in mapForward of the server

fwdVars == <<target, ctx, id, mapCtx, idle, data, listed>>

Number == 0..MaxConn
Conn == 1..MaxConn
CtxStates == {"none",
              "init",    \* not listening, or not connected yet
              "listen",  \* the master's listener before CHECK_RESULT
              "ready",
              "closing", \* finish is set
              "freed"}
FwdMsg == [cmd : {"WAKEUP", "FWD_INIT", "FWD_CHECK", "CHECK_RESULT",
                  "ACTIVE_SLAVE", "ACTIVE_MASTER", "DATA", "FREE_CONTEXT",
                  "FWD_SUCCESS", "ECHO_OK", "ECHO_FAIL", "CLOSE"},
           n : Number \cup {0, 1}]

FwdTypeOK ==
    /\ target \in Targets \cup {"tcp"}
    /\ ctx \in [End -> [Number -> CtxStates]]
    /\ id \in [Number -> Number]
    /\ mapCtx \in [End -> [Number -> Number \cup {-1}]]
    /\ idle \in SUBSET Conn
    /\ data \in 0..MaxData
    /\ listed \in BOOLEAN

\* jdwp targets exist at the daemon only.
FwdInit ==
    /\ target \in IF kind # "forward" THEN {"tcp"}
                  ELSE IF origin = "host" THEN Targets ELSE Targets \ {"jdwp"}
    /\ ctx = Both([k \in Number |-> "none"])
    /\ id = [k \in Number |-> k]
    /\ mapCtx = Both([k \in Number |-> -1])
    /\ idle = {} /\ data = 0 /\ listed = FALSE

-----------------------------------------------------------------------------
(* Contexts.                                                               *)

SetCtx(e, k, st) == ctx' = [ctx EXCEPT ![e][k] = st]
Finished(e, k) == ctx[e][k] \in {"closing", "freed"}

\* MallocContext: a context in the map under its id, and a reference.
MallocContext(e, k, i, st) ==
    /\ SetCtx(e, k, st)
    /\ mapCtx' = [mapCtx EXCEPT ![e][i] = k]
    /\ refCount' = [refCount EXCEPT ![e] = @ + 1]
KeepContexts == UNCHANGED <<mapCtx, refCount>>

\* Variant: the context is told to the other end, and forgotten, at once.
ForgetContext(e, k) ==
    /\ SetCtx(e, k, "freed")
    /\ mapCtx' = [mapCtx EXCEPT ![e][id[k]] = -1]
    /\ UNCHANGED refCount

\* FreeContext sets finish and closes the handle; what it sends is for the
\* handlers.  It does nothing for a context that is finished.
FreeContext(e, k) ==
    /\ SetCtx(e, k, IF Finished(e, k) THEN ctx[e][k] ELSE "closing")
    /\ KeepContexts

\* The close callback of the handle, and FreeContextCallBack one iteration on.
FreeContextCallBack(e, k) ==
    /\ ctx[e][k] = "closing" /\ LoopRuns(e)
    /\ SetCtx(e, k, "freed")
    /\ mapCtx' = [mapCtx EXCEPT ![e][id[k]] = -1]
    /\ refCount' = [refCount EXCEPT ![e] = @ - 1]
    /\ UNCHANGED <<kind, origin, session, owed, task, orphan, net, chan, told,
                   target, id, idle, data, listed>>

\* Variant: contexts that are not connected yet are left alone.
StopReadyOnly(e) ==
    /\ ctx' = [ctx EXCEPT ![e] = [k \in Number |->
                 IF mapCtx[e][id[k]] = k /\ @[k] \in {"listen", "ready"}
                 THEN "closing" ELSE @[k]]]
    /\ mapCtx' = [mapCtx EXCEPT ![e] = [i \in Number |-> -1]]
    /\ UNCHANGED <<refCount, target, id, idle, data, listed>>

\* StopTask frees what is in the map, without telling the other end.
FwdStopTask(e) ==
    /\ ctx' = [ctx EXCEPT ![e] = [k \in Number |->
                 IF mapCtx[e][id[k]] = k /\ @[k] # "freed"
                 THEN "closing" ELSE @[k]]]
    /\ mapCtx' = [mapCtx EXCEPT ![e] = [i \in Number |-> -1]]
    /\ UNCHANGED <<refCount, target, id, idle, data, listed>>

-----------------------------------------------------------------------------
(* Setting the forward up.                                                 *)

\* CMD_FORWARD_INIT: the constructor wakes up the slave; BeginForward listens,
\* or fails for a bad argument or a port in use and leaves its context.
BeginForward(e) ==
    /\ Creates(e, "FWD_INIT")
    /\ AddTask(e)
    /\ \/ /\ MallocContext(e, 0, 0, "listen")
          /\ Answer(e, {}, <<Wakeup, Msg("FWD_CHECK", 0)>>)
       \/ /\ MallocContext(e, 0, 0, "init")
          /\ Answer(e, {"fail"}, <<Wakeup>> \o Fails(e))
    /\ UNCHANGED <<kind, origin, session, owed, chan, target, id, idle, data, listed>>

\* CMD_FORWARD_CHECK: slaveCheckWhenBegin is false, so that the slave answers
\* without looking for the target, and frees the context of the check.
SlaveCheck(e) ==
    /\ Gets(e, "FWD_CHECK")
    /\ MallocContext(e, 0, 0, "closing")
    /\ Answer(e, {}, <<Msg("CHECK_RESULT", 0)>>)
    /\ UNCHANGED <<kind, origin, session, owed, task, orphan, chan, target, id, idle,
                   data, listed>>

\* ForwardCommandDispatch of a command whose id is not in the map.
Unknown(e) == mapCtx[e][Arg(e)] = -1
Target(e) == mapCtx[e][Arg(e)]
UnknownContext(e) ==
    /\ \E c \in {"CHECK_RESULT", "ACTIVE_MASTER", "DATA", "FREE_CONTEXT"} :
          Gets(e, c)
    /\ Unknown(e)
    /\ Answer(e, {"fail"}, Fails(e))
    /\ UNCHANGED <<kind, origin, session, owed, task, orphan, refCount, chan, fwdVars>>

\* CommandForwardCheckResult: the result is taken for good, and the server puts
\* the rule into mapForward.  A listener being closed is set ready just so.
CheckResult(e) ==
    /\ Gets(e, "CHECK_RESULT") /\ ~Unknown(e)
    /\ SetCtx(e, 0, IF Finished(e, 0) THEN ctx[e][0] ELSE "ready")
    /\ Answer(e, {"ok"}, IF e = "host" THEN <<>>
                         ELSE Log(e, "ok") \o <<Msg("FWD_SUCCESS", 0)>>)
    /\ listed' = (listed \/ e = "host")
    /\ KeepContexts
    /\ UNCHANGED <<kind, origin, session, owed, task, orphan, chan, target, id, idle,
                   data>>

\* CMD_FORWARD_SUCCESS of the daemon's master.
ForwardSuccess ==
    /\ Creates("host", "FWD_SUCCESS")
    /\ Answer("host", {}, <<>>)
    /\ listed' = TRUE
    /\ KeepContexts
    /\ UNCHANGED <<kind, origin, session, owed, task, orphan, chan, target, ctx, id,
                   idle, data>>

-----------------------------------------------------------------------------
(* A connection.                                                           *)

\* ListenCallback before CHECK_RESULT ends the forward.
AcceptTooEarly(e) ==
    /\ ctx[e][0] = "listen" /\ LoopRuns(e) /\ MaySend(e)
    /\ FreeContext(e, 0)
    /\ Emit(e, {}, Finish)
    /\ UNCHANGED <<kind, origin, session, owed, task, orphan, chan, target, id, idle,
                   data, listed>>

\* GetRuntimeMSec: the time, or that of the connection before.
NewId(k) == IF SameMs /\ k > 1 THEN {k, id[k - 1]} ELSE {k}

\* ListenCallback, OnAccept; a connection lost before uv_accept is freed.
Accept(e, k) ==
    /\ e = origin /\ ctx[e][0] = "ready" /\ LoopRuns(e) /\ MaySend(e)
    /\ ctx[e][k] = "none" /\ \A j \in Conn : j < k => ctx[e][j] # "none"
    /\ \E i \in NewId(k) :
          /\ id' = [id EXCEPT ![k] = i]
          /\ \/ /\ MallocContext(e, k, i, "init")
                /\ Emit(e, {}, <<Msg("ACTIVE_SLAVE", k)>>)
             \/ /\ MallocContext(e, k, i, "closing")
                /\ UNCHANGED <<net, told>>
    /\ UNCHANGED <<kind, origin, session, owed, task, orphan, chan, target, idle, data,
                   listed>>

ActiveMaster(k) == <<Msg("ACTIVE_MASTER", id[k])>>

\* Variant: the other end is not told.
FreeUntold(k) == <<>>
FreeMsg(k) == <<Msg("FREE_CONTEXT", id[k])>>

\* SetupPoint of the slave: a tcp or pipe target is being connected, an abstract
\* socket is at once or not at all, a device always is (flag is not negative),
\* the jdwp process by an idle callback.
SetupPoint(e, k) ==
    LET made(st, lvs, out) == /\ MallocContext(e, k, id[k], st)
                              /\ Answer(e, lvs, out)
    IN \/ target = "tcp" /\ made("init", {}, <<>>) /\ UNCHANGED idle
       \/ target \in {"abstract", "dev"} /\ made("ready", {}, ActiveMaster(k))
             /\ UNCHANGED idle
       \/ target \in {"abstract", "jdwp"}
             /\ made("closing", {"fail"}, FreeMsg(k) \o Fails(e))
             /\ UNCHANGED idle
       \/ /\ target = "jdwp"
          /\ SetCtx(e, k, "init")
          /\ mapCtx' = [mapCtx EXCEPT ![e][id[k]] = k]
          /\ refCount' = [refCount EXCEPT ![e] = @ + 2]
          /\ idle' = idle \cup {k}
          /\ Answer(e, {}, <<>>)
\* CMD_FORWARD_ACTIVE_SLAVE.
SlaveConnect(e) ==
    /\ Gets(e, "ACTIVE_SLAVE")
    /\ SetupPoint(e, Arg(e))
    /\ UNCHANGED <<kind, origin, session, owed, task, orphan, chan, target, id, data,
                   listed>>

\* ConnectTarget: SetupPointContinue with the status of the connection.
ConnectTarget(e, k) ==
    /\ e = Slave /\ k # 0 /\ target = "tcp" /\ ctx[e][k] = "init" /\ LoopRuns(e)
    /\ \/ /\ session = "up"  \* else ACTIVE_MASTER cannot be sent
          /\ SetCtx(e, k, "ready") /\ Emit(e, {}, ActiveMaster(k)) /\ KeepContexts
       \/ FreeContext(e, k) /\ Emit(e, {}, FreeMsg(k))
    /\ UNCHANGED <<kind, origin, session, owed, task, orphan, chan, target, id, idle,
                   data, listed>>

\* SetupJdwpPointCallBack; the context may be closing, or deleted, by now: what
\* it does with a deleted one is not defined, and it may send.
SetupJdwpPointCallBack(e, k) ==
    /\ k \in idle /\ e = Slave /\ LoopRuns(e)
    /\ idle' = idle \ {k}
    /\ refCount' = [refCount EXCEPT ![e] = @ - 1]
    /\ SetCtx(e, k, IF Finished(e, k) THEN ctx[e][k]
                    ELSE IF session = "up" THEN "ready" ELSE "closing")
    /\ \/ Emit(e, {}, ActiveMaster(k))
       \/ ctx[e][k] = "freed" /\ UNCHANGED <<net, told>>
    /\ UNCHANGED <<kind, origin, session, owed, task, orphan, chan, target, id, mapCtx,
                   data, listed>>

\* CMD_FORWARD_ACTIVE_MASTER: DoForwardBegin starts to read.
ActivateMaster(e) ==
    /\ Gets(e, "ACTIVE_MASTER") /\ ~Unknown(e)
    /\ LET k == Target(e) IN
          SetCtx(e, k, IF Finished(e, k) THEN ctx[e][k] ELSE "ready")
    /\ Answer(e, {}, <<>>)
    /\ KeepContexts
    /\ UNCHANGED <<kind, origin, session, owed, task, orphan, chan, target, id, idle,
                   data, listed>>

\* ReadForwardBuf, or funcRead of a device.
ReadForwardBuf(e, k) ==
    /\ k # 0 /\ ctx[e][k] = "ready" /\ LoopRuns(e) /\ MaySend(e)
    /\ \/ /\ data < MaxData /\ data' = data + 1
          /\ Emit(e, {}, <<Msg("DATA", id[k])>>)
          /\ UNCHANGED <<ctx, mapCtx, refCount>>
       \/ /\ FreeContext(e, k) /\ Emit(e, {}, FreeMsg(k))
          /\ UNCHANGED data
    /\ UNCHANGED <<kind, origin, session, owed, task, orphan, chan, target, id, idle,
                   listed>>

\* CMD_FORWARD_DATA: written to the socket, or the socket has failed.
ForwardData(e) ==
    /\ Gets(e, "DATA") /\ ~Unknown(e)
    /\ LET k == Target(e) IN
       \/ Answer(e, {}, <<>>) /\ UNCHANGED <<ctx, mapCtx, refCount>>
       \/ /\ ~Finished(e, k)
          /\ FreeContext(e, k) /\ Answer(e, {}, FreeMsg(k))
    /\ UNCHANGED <<kind, origin, session, owed, task, orphan, chan, target, id, idle,
                   data, listed>>

\* CMD_FORWARD_FREE_CONTEXT.
ForwardFree(e) ==
    /\ Gets(e, "FREE_CONTEXT") /\ ~Unknown(e)
    /\ FreeContext(e, Target(e)) /\ Answer(e, {}, <<>>)
    /\ UNCHANGED <<kind, origin, session, owed, task, orphan, chan, target, id, idle,
                   data, listed>>

(* What HdcTasks takes from here.                                         *)

FwdTaskless == {"FWD_INIT", "FWD_SUCCESS"}

\* A handler of the message at the head.
FwdReceive(e) ==
    \/ BeginForward(e) \/ SlaveCheck(e) \/ UnknownContext(e)
    \/ CheckResult(e) \/ (e = "host" /\ ForwardSuccess) \/ SlaveConnect(e)
    \/ ActivateMaster(e) \/ ForwardData(e) \/ ForwardFree(e)
\* A callback that comes for sure.
FwdCallBack(e) ==
    \E k \in Number :
       \/ FreeContextCallBack(e, k) \/ ConnectTarget(e, k)
       \/ SetupJdwpPointCallBack(e, k)
\* What a process that connects to the port, or the target, does.
FwdPeer(e) ==
    \/ AcceptTooEarly(e)
    \/ \E k \in Conn : Accept(e, k) \/ ReadForwardBuf(e, k)
=============================================================================
