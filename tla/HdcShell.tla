------------------------------ MODULE HdcShell ------------------------------
(***************************************************************************)
(* Commands that run a process on the device: the interactive shell        *)
(* (daemon/shell.cpp), hdc shell with a command and hilog                  *)
(* (daemon/daemon_unity.cpp with common/async_cmd.cpp), the one-shot       *)
(* commands of HdcDaemonUnity, and bugreport, whose output the server may  *)
(* write to a file (host/host_unity.cpp).  The output of the process is    *)
(* read by common/file_descriptor.cpp, one read at a time, by the threads  *)
(* of libuv; input of the client is written by requests of its own.        *)
(***************************************************************************)
EXTENDS HdcTask

CONSTANTS MaxOut,   \* bound: pieces of output of the process
          MaxInput  \* bound: pieces of input of the client

ASSUME ShellAssumption == MaxOut \in Nat /\ MaxInput \in Nat

VARIABLES
    proc,    \* the process: "none", "run", "exited", "killed"
    pipe,    \* output it has written that is not read
    printed,     \* all the output it has written
    got,     \* the output shown to the client or given to the log
    rd, wr,  \* HdcFileDescriptor::refIO: reads and writes in flight
    cmdRef,  \* AsyncCmd::refCount
    log,     \* opContext: "off", "wanted", "on", "closing", "closed"
    lw,      \* writes to the log in flight
    logged,  \* pieces that are in the log
    typed    \* pieces of input the client has sent

shVars == <<proc, pipe, printed, got, rd, wr, cmdRef, log, lw, logged, typed>>

ShMsg == [cmd : {"WAKEUP", "SHELL_INIT", "SHELL_DATA", "UNITY", "BUG_INIT",
                 "BUG_DATA", "RAW", "ECHO_OK", "ECHO_FAIL", "CLOSE"},
          n : 0..1]

ShTypeOK ==
    /\ proc \in {"none", "run", "exited", "killed"}
    /\ printed \in 0..MaxOut /\ pipe \in 0..printed /\ got \in 0..printed
    /\ rd \in 0..1 /\ wr \in 0..MaxInput /\ typed \in 0..MaxInput
    /\ cmdRef \in 0..1
    /\ log \in {"off", "wanted", "on", "closing", "closed"}
    /\ lw \in 0..MaxOut /\ logged \in 0..MaxOut

\* A bugreport is written to a file of the server when the client names one.
ShInit ==
    /\ proc = "none" /\ pipe = 0 /\ printed = 0 /\ got = 0
    /\ rd = 0 /\ wr = 0 /\ cmdRef = 0
    /\ log \in IF kind = "bugreport" THEN {"off", "wanted"} ELSE {"off"}
    /\ lw = 0 /\ logged = 0 /\ typed = 0

ShFirst == CASE kind = "shell" -> "SHELL_INIT"
             [] kind = "bugreport" -> "BUG_INIT"
             [] OTHER -> "UNITY"

IsShell == kind = "shell"

-----------------------------------------------------------------------------
(* Starting.                                                               *)

UnchangedHost == UNCHANGED <<log, lw, logged>>
UnchangedIO == UNCHANGED <<pipe, printed, got, wr, typed>>

\* CMD_SHELL_INIT, StartShell.  When there is no terminal the client is told,
\* and the task goes on without a process.
StartShell ==
    /\ IsShell /\ Creates("daemon", "SHELL_INIT")
    /\ AddTask("daemon")
    /\ \/ /\ proc' = "run" /\ rd' = 1
          /\ AddRef("daemon", 1)
          /\ Answer("daemon", {}, <<>>)
       \/ /\ Fault("pty")
          /\ Answer("daemon", {}, Log("daemon", "fail"))
          /\ UNCHANGED <<proc, rd, refCount>>
    /\ UnchangedHost /\ UnchangedIO
    /\ UNCHANGED <<kind, origin, session, owed, chan, cmdRef>>

\* ExecuteShell takes its reference whether or not ExecuteCommand has made a
\* process.
ExecuteCommand ==
    \/ proc' = "run" /\ rd' = 1 /\ cmdRef' = 1 /\ UNCHANGED owed
    \/ Fault("fork") /\ Owe("daemon", 1) /\ UNCHANGED <<proc, rd, cmdRef>>
ExecuteShell == AddRef("daemon", 1) /\ ExecuteCommand

\* CMD_UNITY_EXECUTE, CMD_UNITY_HILOG and, at the daemon, BUGREPORT_INIT; an
\* entry WAKEUP made is replaced, there is no object in it.
BeginExecute ==
    /\ \/ kind = "execute" /\ Creates("daemon", "UNITY")
       \/ kind = "bugreport" /\ Creates("daemon", "BUG_INIT")
    /\ task' = [task EXCEPT !["daemon"] = "run"]
    /\ ExecuteShell
    /\ Answer("daemon", {}, <<>>)
    /\ UnchangedHost /\ UnchangedIO
    /\ UNCHANGED <<kind, origin, session, orphan, chan>>

\* The commands that are over at once: remount, reboot, run mode, jpid.  Some
\* failures are not told.
OneShot ==
    /\ kind = "oneshot" /\ Creates("daemon", "UNITY")
    /\ AddTask("daemon")
    /\ \E said \in {<<>>, Log("daemon", "ok"), Log("daemon", "fail")} :
          Answer("daemon", {}, said \o Finish)
    /\ UNCHANGED <<kind, origin, session, owed, refCount, chan, shVars>>

\* CMD_UNITY_BUGREPORT_INIT at the server: InitLocalLog opens the log.
BeginBugreport ==
    /\ kind = "bugreport" /\ Creates("host", "BUG_INIT")
    /\ AddTask("host")
    /\ \/ /\ log' = IF log = "wanted" THEN "on" ELSE log
          /\ Answer("host", {}, <<Wakeup, Msg("BUG_INIT", 0)>>)
       \/ /\ log = "wanted" /\ Fault("open")
          /\ Answer("host", {"fail"}, <<Wakeup>> \o Fails("host"))
          /\ UNCHANGED log
    /\ UnchangedIO
    /\ UNCHANGED <<kind, origin, session, owed, refCount, chan, proc, rd, cmdRef, lw,
                   logged>>

-----------------------------------------------------------------------------
(* The process and HdcFileDescriptor.                                      *)

ProcessWrites ==
    /\ proc = "run" /\ printed < MaxOut
    /\ printed' = printed + 1 /\ pipe' = pipe + 1
    /\ UnchangedHost
    /\ UNCHANGED <<taskVars, proc, got, rd, wr, cmdRef, typed>>

ProcessExits ==
    /\ proc = "run" /\ proc' = "exited"
    /\ UnchangedHost /\ UnchangedIO
    /\ UNCHANGED <<taskVars, rd, cmdRef>>

\* SendToAnother of the shell is refused after StopTask, which does not set
\* singalStop in HdcDaemonUnity.
PeerHears == session = "up" /\ ~(IsShell /\ task["daemon"] = "stop")
IfHeard(msgs) == IF PeerHears THEN msgs ELSE <<>>

\* Variant: only the reference is given back.
FinishUntold(others) ==
    /\ UNCHANGED <<net, told>>
    /\ AddRef("daemon", -1)
    /\ cmdRef' = IF IsShell THEN cmdRef ELSE cmdRef - 1
    /\ others

\* FinishShellProc of the shell, or that of AsyncCmd with AsyncCmdOut.
FinishShellProc(others) ==
    /\ Emit("daemon", {}, IfHeard(Finish))
    /\ AddRef("daemon", -1)
    /\ cmdRef' = IF IsShell THEN cmdRef ELSE cmdRef - 1
    /\ others

\* OnFileIO of a read: the output is sent and the next read is under way, or
\* the peer is gone and there is no other.
OnRead ==
    /\ rd = 1 /\ pipe > 0 /\ LoopRuns("daemon")
    /\ PeerHears => MaySend("daemon")
    /\ pipe' = pipe - 1
    /\ IF PeerHears
       THEN /\ Emit("daemon", {},
                    <<Msg(IF kind = "bugreport" THEN "BUG_DATA" ELSE "RAW", 0)>>)
            /\ UNCHANGED <<rd, refCount, cmdRef>>
       ELSE FinishShellProc(rd' = 0)
    /\ UnchangedHost
    /\ UNCHANGED <<kind, origin, session, owed, task, orphan, chan, proc, printed, got, wr,
                   typed>>

\* The last of its output has been read.
EndOfFile == proc # "run" /\ pipe = 0

\* OnFileIO of the read that finds the end of the file.
OnEndOfFile ==
    /\ rd = 1 /\ EndOfFile /\ LoopRuns("daemon")
    /\ FinishShellProc(rd' = 0)
    /\ UnchangedHost /\ UnchangedIO
    /\ UNCHANGED <<kind, origin, session, owed, task, orphan, chan, proc>>

\* The client types; CMD_SHELL_DATA at the daemon writes it to the terminal.
ClientTypes ==
    /\ IsShell /\ chan = "open" /\ session = "up" /\ typed < MaxInput
    /\ typed' = typed + 1
    /\ net' = [net EXCEPT !["daemon"] = Append(@, Msg("SHELL_DATA", 0))]
    /\ UNCHANGED <<kind, origin, session, owed, task, orphan, refCount, chan, told,
                   proc, pipe, printed, got, rd, wr, cmdRef, log, lw, logged>>

ShellData ==
    /\ Gets("daemon", "SHELL_DATA")
    /\ IF proc = "none"
       THEN Answer("daemon", {}, Finish) /\ UNCHANGED wr
       ELSE /\ Answer("daemon", {}, <<>>)
            /\ wr' \in {wr, wr + 1}  \* a control character is not written
    /\ UnchangedHost
    /\ UNCHANGED <<kind, origin, session, owed, task, orphan, refCount, chan, proc,
                   pipe, printed, got, rd, cmdRef, typed>>

\* OnFileIO of a write; one that fails calls FinishShellProc as the last read
\* does.
OnWritten ==
    /\ wr > 0 /\ LoopRuns("daemon")
    /\ wr' = wr - 1
    /\ \/ UNCHANGED <<net, told, refCount, cmdRef, owed>>
       \/ /\ Fault("write") /\ owed["daemon"] = 0  \* bound
          /\ FinishShellProc(Owe("daemon", -1))
    /\ UnchangedHost
    /\ UNCHANGED <<kind, origin, session, task, orphan, chan, proc, pipe, printed,
                   got, rd, typed>>

-----------------------------------------------------------------------------
(* The output at the server.                                               *)

\* CMD_KERNEL_ECHO_RAW needs no task.
EchoRaw ==
    /\ net["host"] # <<>> /\ Head(net["host"]).cmd = "RAW" /\ ChannelServed("host")
    /\ got' = got + 1
    /\ Answer("host", {}, <<>>)
    /\ UnchangedHost
    /\ UNCHANGED <<kind, origin, session, owed, task, orphan, refCount, chan, proc,
                   pipe, printed, rd, wr, cmdRef, typed>>

\* CMD_UNITY_BUGREPORT_DATA: shown, or AppendLocalLog.
BugreportData ==
    /\ Gets("host", "BUG_DATA")
    /\ got' = got + 1
    /\ Answer("host", {}, <<>>)
    /\ IF log = "on" THEN lw' = lw + 1 /\ AddRef("host", 1)
                     ELSE UNCHANGED <<lw, refCount>>
    /\ UNCHANGED <<kind, origin, session, owed, task, orphan, chan, proc, pipe, printed,
                   rd, wr, cmdRef, log, logged, typed>>

\* OnFileIO of the log: a write fails when the file was closed before it.
LogWritten ==
    /\ lw > 0 /\ LoopRuns("host")
    /\ lw' = lw - 1
    /\ \/ log # "closed" /\ logged' = logged + 1
       \/ log \in {"closing", "closed"} /\ UNCHANGED logged
    /\ AddRef("host", -1)
    /\ UnchangedIO
    /\ UNCHANGED <<kind, origin, session, owed, task, orphan, net, chan, told, proc, rd,
                   cmdRef, log>>

OnLogClosed ==
    /\ log = "closing" /\ LoopRuns("host")
    /\ log' = "closed"
    /\ AddRef("host", -1)
    /\ UnchangedIO
    /\ UNCHANGED <<kind, origin, session, owed, task, orphan, net, chan, told, proc, rd,
                   cmdRef, lw, logged>>

-----------------------------------------------------------------------------
(* What HdcTasks takes from here.                                         *)

\* StopTask at the daemon kills the shell and waits for it; a command gets
\* SIGTERM, which it may ignore.
DaemonStopTask ==
    /\ proc' \in IF proc # "run" THEN {proc}
                 ELSE {"killed"} \cup {p \in {"run"} : ~IsShell /\ Fault("term")}
    /\ UNCHANGED <<log, refCount>>

\* StopTask at the server closes the log, whatever is still being written.
HostStopTask ==
    /\ log' = IF log = "on" THEN "closing" ELSE log
    /\ refCount' = [refCount EXCEPT !["host"] = IF log = "on" THEN @ + 1 ELSE @]
    /\ UNCHANGED proc

ShStopTask(e) ==
    /\ IF e = "host" THEN HostStopTask ELSE DaemonStopTask
    /\ UNCHANGED <<pipe, printed, got, rd, wr, cmdRef, lw, logged, typed>>

\* Variant: the reference count alone decides.
ReadyCountOnly(e) == refCount[e] = 0

ShReady(e) ==
    /\ refCount[e] = 0
    /\ IF e = "host" THEN log \in {"off", "wanted", "closed"}
                     ELSE rd + wr = 0 /\ cmdRef = 0

ShTaskless == {"SHELL_INIT", "UNITY", "BUG_INIT", "RAW"}

ShReceive(e) ==
    \/ e = "daemon" /\ (StartShell \/ BeginExecute \/ OneShot \/ ShellData)
    \/ e = "host" /\ (BeginBugreport \/ EchoRaw \/ BugreportData)
ShCallBack(e) ==
    \/ e = "daemon" /\ (OnRead \/ OnEndOfFile \/ OnWritten)
    \/ e = "host" /\ (LogWritten \/ OnLogClosed)
\* What the process and the user do.
ShPeer == ProcessWrites \/ ProcessExits \/ ClientTypes
=============================================================================
