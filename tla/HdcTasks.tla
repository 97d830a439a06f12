------------------------------ MODULE HdcTasks ------------------------------
(***************************************************************************)
(* A command of a client from its first message to the release of its      *)
(* tasks at both ends: the port forward, the transfer of files and         *)
(* applications, the shell and the unity commands, over one session that   *)
(* may end at any time and one channel that the client may leave.          *)
(***************************************************************************)
EXTENDS HdcForward, HdcTransfer, HdcShell

vars == <<taskVars, fwdVars, xferVars, shVars>>

IsForward == kind = "forward"
IsTransfer == kind \in {"file", "dir", "install", "sideload", "uninstall"}
IsProcess == kind \in {"shell", "execute", "oneshot", "bugreport"}
ClassVarsKept == UNCHANGED <<fwdVars, xferVars, shVars>>

Init ==
    /\ kind \in Kinds
    /\ origin \in CASE kind \in {"forward", "file", "dir"} -> Origins
                    [] kind \in {"shell", "execute", "oneshot"} -> {"daemon"}
                    [] OTHER -> {"host"}
    /\ TaskInit(CASE IsForward -> "FWD_INIT" [] IsTransfer -> "X_INIT"
                  [] OTHER -> ShFirst)
    /\ FwdInit /\ XferInit /\ ShInit

\* RedirectToTask: the class that a command is for.
Receive(e) ==
    \/ IsForward /\ FwdReceive(e) /\ UNCHANGED <<xferVars, shVars>>
    \/ IsTransfer /\ XferReceive(e) /\ UNCHANGED <<fwdVars, shVars>>
    \/ IsProcess /\ ShReceive(e) /\ UNCHANGED <<fwdVars, xferVars>>
CallBack(e) ==
    \/ IsForward /\ FwdCallBack(e) /\ UNCHANGED <<xferVars, shVars>>
    \/ IsTransfer /\ XferCallBack(e) /\ UNCHANGED <<fwdVars, shVars>>
    \/ IsProcess /\ ShCallBack(e) /\ UNCHANGED <<fwdVars, xferVars>>
Peer ==
    \/ IsForward /\ (\E e \in End : FwdPeer(e)) /\ UNCHANGED <<xferVars, shVars>>
    \/ IsProcess /\ ShPeer /\ UNCHANGED <<fwdVars, xferVars>>

\* RemoveInstanceTask(OP_CLEAR) calls StopTask of the object of the entry.
StopTask(e) ==
    IF task[e] # "run" THEN UNCHANGED refCount /\ ClassVarsKept
    ELSE CASE IsForward -> FwdStopTask(e) /\ UNCHANGED <<xferVars, shVars>>
           [] IsTransfer -> XferStopTask /\ UNCHANGED <<fwdVars, shVars>>
           [] OTHER -> ShStopTask(e) /\ UNCHANGED <<fwdVars, xferVars>>

\* RemoveInstanceTask(OP_REMOVE) asks ReadyForRelease of the object.
Ready(e) == CASE IsForward -> refCount[e] = 0
              [] IsTransfer -> XferReady(e)
              [] OTHER -> ShReady(e)

Taskless == FwdTaskless \cup XferTaskless \cup ShTaskless
            \cup {"WAKEUP", "CLOSE", "ECHO_OK", "ECHO_FAIL"}

\* FetchCommand of an end takes the next message.
Fetch(e) ==
    \/ Receive(e)
    \/ FetchClose(e) /\ StopTask(e)
    \/ (Wake(e) \/ Ignored(e, Taskless)) /\ ClassVarsKept
    \/ e = "host" /\ (FetchEcho \/ FetchUnserved) /\ ClassVarsKept

Clear(e) == ClearOwnTasks(e) /\ StopTask(e)
Release(e) == TryRemoveTask(e, Ready(e)) /\ ClassVarsKept
Deatch == DeatchChannel /\ StopTask("host")
Free == FreeChannel /\ ClassVarsKept
Busy == PoolBusy(Taskless \ {"CLOSE", "FWD_SUCCESS"}) /\ ClassVarsKept
Ends == SessionEnd /\ ClassVarsKept

Next ==
    \/ \E e \in End : Fetch(e) \/ CallBack(e) \/ Clear(e) \/ Release(e)
    \/ Peer \/ Deatch \/ Free \/ Busy \/ Ends

Spec == Init /\ [][Next]_vars

\* The loops of the workers and of the main threads go on; a channel that was
\* asked to go goes.  Nothing is assumed of clients, peers and processes.
Fairness ==
    /\ \A e \in End : WF_vars(Fetch(e)) /\ WF_vars(CallBack(e))
                   /\ WF_vars(Clear(e)) /\ WF_vars(Release(e))
    /\ WF_vars(Deatch)
    /\ WF_vars(Free /\ chan = "asked")
FairSpec == Spec /\ Fairness

-----------------------------------------------------------------------------
(* Properties.                                                             *)

Msgs == FwdMsg \cup XferMsg \cup ShMsg
TypeOK == TaskTypeOK(Msgs) /\ FwdTypeOK /\ XferTypeOK /\ ShTypeOK

\* What a task waits for before it can be deleted.
Live(e) == {k \in Number : ctx[e][k] \in {"init", "listen", "ready", "closing"}}
Pending(e) ==
    CASE IsForward -> Cardinality(Live(e))
                      + (IF e = Slave THEN Cardinality(idle) ELSE 0)
      [] IsTransfer -> opening[e] + closing[e] + Len(io[e])
                       + (IF e = "daemon" THEN async ELSE 0)
      [] OTHER -> IF e = "daemon" THEN rd
                  ELSE lw + (IF log = "closing" THEN 1 ELSE 0)

\* The reference count of a task is the number of callbacks it waits for: one
\* too many and the object is never deleted, one too few and a callback finds
\* it deleted.  The code itself miscounts where a process cannot be started
\* (ExecuteShell, PackageShell) and where a write to a shell fails: owed.
RefCounted == \A e \in End : refCount[e] = Pending(e) + owed[e]

\* A task is deleted when no callback can reach it.
NothingOutlives == \A e \in End : task[e] = "gone" =>
    Pending(e) = 0 /\ (IsProcess => IF e = "host" THEN log # "on" ELSE wr = 0)

Whole(f) == \A i \in 0..(size[f] - 1) : disk[f][i] = f

\* A transfer is said to be finished only when every piece of every file is
\* where it belongs, and a package is installed only when all of it is there.
TransferFaithful ==
    /\ kind \in {"file", "dir"} /\ "ok" \in told => \A f \in 1..NumFiles : Whole(f)
    /\ kind = "install" /\ async > 0 => Whole(cur["daemon"])

\* The channel of a command is not asked to go, while the client and the session
\* stay, before all the output has been shown.
OutputShown ==
    kind \in {"execute", "bugreport"} /\ chan = "asked" /\ session = "up"
    /\ proc # "none" => got = printed

\* What a client is told is so: its files are whole when it is told so, and the
\* output of its command was shown when the command is over.
NothingLost == TransferFaithful /\ OutputShown

\* A stopped task is deleted: whatever it was doing when it was stopped comes
\* back and gives its references back (session.cpp, TryRemoveTask).
StoppedTaskFreed ==
    \A e \in End : task[e] = "stop" ~> task[e] = "gone" \/ owed[e] # 0

\* A transfer that has begun is over one day, and a command whose process has
\* ended, too, and its channel is asked to go, whatever failed.
CommandEnds ==
    (IF IsProcess THEN proc = "exited" ELSE IsTransfer /\ task[origin] = "run")
    ~> (chan # "open" \/ session = "down" \/ \E e \in End : owed[e] # 0)

\* When one end of a forwarded connection is closed the other end learns of it
\* and closes, too.
ConnectionEnds ==
    \A k \in Conn, e \in End :
       (IsForward /\ ctx[e][k] = "freed")
       ~> (ctx[Other(e)][k] \in {"none", "freed"} \/ task[Other(e)] # "run")

=============================================================================
