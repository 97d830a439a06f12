----------------------------- MODULE HdcTransfer -----------------------------
(***************************************************************************)
(* File transfer and the application installer: common/transfer.cpp with   *)
(* its classes HdcFile, HdcHostApp and HdcDaemonApp.  The master opens a   *)
(* file and announces it (CHECK), the slave opens its copy and asks for    *)
(* the contents (BEGIN); the master reads and sends piece after piece, the *)
(* slave writes what it gets, several writes at a time, in any order.      *)
(* When all is written the slave closes the file and tells the master,     *)
(* which goes on with the next file of a directory, or installs the next   *)
(* package.  All file operations are requests to libuv's threads: their    *)
(* callbacks come in any order, on the loop of the task.                   *)
(***************************************************************************)
EXTENDS HdcTask

CONSTANTS NFiles,  \* bound: files of a directory, or packages
          Sizes    \* sizes of a file, in pieces

ASSUME TransferAssumption ==
    /\ NFiles \in Nat \ {0}
    /\ Sizes \subseteq Nat /\ \E s \in Sizes : \A t \in Sizes : t <= s

VARIABLES
    size,        \* of each file of the master
    queue,       \* files the master has not begun
    cur,         \* the file whose size is fileSize
    fd,          \* the file behind fsOpenReq.result, 0 if none
    opening,     \* uv_fs_open requests of fsOpenReq in flight
    closing,     \* uv_fs_close requests of fsCloseReq in flight
    io,          \* reads or writes in flight
    indexIO, ioFinish, closeNotify, lastErrno,
    disk,        \* the slave's files: which file each piece written is from
    async        \* commands run by the package manager of the daemon

ctxVars == <<cur, fd, opening, closing, io, indexIO, ioFinish, closeNotify,
             lastErrno>>
xferVars == <<size, queue, ctxVars, disk, async>>

File == 1..NFiles
MaxSize == CHOOSE s \in Sizes : \A t \in Sizes : t <= s
IsFile == kind \in {"file", "dir"}
NumFiles == CASE kind \in {"dir", "install"} -> NFiles
              [] kind \in {"file", "sideload"} -> 1
              [] OTHER -> 0

\* A piece: of file f at offset i, and empty when len is 0.
Piece == [f : 0..NFiles, i : 0..MaxSize, len : 0..1]
Code(p) == (p.f * (MaxSize + 1) + p.i) * 2 + p.len
PieceOf(n) == CHOOSE p \in Piece : Code(p) = n

XferMsg == [cmd : {"WAKEUP", "X_INIT", "X_CHECK", "X_BEGIN", "X_DATA",
                   "FILE_FINISH", "APP_FINISH", "APP_UNINSTALL", "ECHO_OK",
                   "ECHO_FAIL", "CLOSE"},
            n : 0..(((NFiles + 1) * (MaxSize + 1)) * 2)]

XferTypeOK ==
    /\ size \in [File -> Sizes \cup {0}]
    /\ queue \in 0..NFiles
    /\ cur \in [End -> 0..NFiles] /\ fd \in [End -> 0..NFiles]
    /\ opening \in [End -> Nat] /\ closing \in [End -> Nat]
    /\ \A e \in End : \A j \in DOMAIN io[e] :
          io[e][j] \in [op : {"read", "write"}, to : 0..NFiles, piece : Piece]
    /\ indexIO \in [End -> 0..(NFiles * MaxSize)]
    /\ ioFinish \in [End -> BOOLEAN] /\ closeNotify \in [End -> BOOLEAN]
    /\ lastErrno \in [End -> BOOLEAN]
    /\ disk \in [File -> [0..MaxSize -> 0..NFiles]]
    /\ async \in 0..NFiles

Empty == [i \in 0..MaxSize |-> 0]

XferInit ==
    /\ size \in {s \in [File -> Sizes \cup {0}] :
                    \A f \in File : IF f <= NumFiles THEN s[f] \in Sizes ELSE s[f] = 0}
    /\ queue = NumFiles
    /\ cur = Both(0) /\ fd = Both(0) /\ opening = Both(0) /\ closing = Both(0)
    /\ io = Both(<<>>) /\ indexIO = Both(0) /\ ioFinish = Both(FALSE)
    /\ closeNotify = Both(FALSE) /\ lastErrno = Both(FALSE)
    /\ disk = [f \in File |-> Empty] /\ async = 0

-----------------------------------------------------------------------------
(* Requests and messages.                                                  *)

\* SendToAnother is refused once HdcFile::StopTask has set singalStop; the
\* StopTask of the applications is empty.
Silent(e) == IsFile /\ task[e] = "stop"
Out(e, msgs) == IF Silent(e) THEN <<>> ELSE msgs
CanSend(e) == session = "up" /\ ~Silent(e)

\* SimpleFileIO on a context that is open: a request at this offset.
Request(e, op, p) == [op |-> op, to |-> fd[e], piece |-> p]
ReadAt(e, i) == Request(e, "read", [f |-> fd[e], i |-> i, len |-> 0])
Without(s, j) == SubSeq(s, 1, j - 1) \o SubSeq(s, j + 1, Len(s))

FileSize(e) == IF cur[e] = 0 THEN 0 ELSE size[cur[e]]

-----------------------------------------------------------------------------
(* Opening.                                                                *)

\* uv_fs_open of the next file: BeginTransfer, TransferNext, RunQueue.
OpenNext(e) ==
    /\ queue' = queue - 1
    /\ opening' = [opening EXCEPT ![e] = @ + 1]

\* CMD_FILE_INIT, CMD_APP_INIT or CMD_APP_SIDELOAD: the master is made, finds
\* fault with its arguments or opens its first file.
BeginTransfer(e) ==
    /\ kind # "uninstall" /\ Creates(e, "X_INIT")
    /\ AddTask(e)
    /\ \/ /\ OpenNext(e)
          /\ AddRef(e, 1)
          /\ Answer(e, {}, <<Wakeup>>)
       \/ /\ Fault("args")
          /\ Answer(e, {"fail"}, <<Wakeup>> \o Fails(e))
          /\ UNCHANGED <<queue, opening, refCount>>
    /\ UNCHANGED <<kind, origin, session, owed, chan, size, cur, fd, closing, io,
                   indexIO, ioFinish, closeNotify, lastErrno, disk, async>>

ResetCtx(e) ==
    /\ indexIO' = [indexIO EXCEPT ![e] = 0]
    /\ ioFinish' = [ioFinish EXCEPT ![e] = FALSE]
    /\ closeNotify' = [closeNotify EXCEPT ![e] = FALSE]
    /\ lastErrno' = [lastErrno EXCEPT ![e] = FALSE]

\* OnFileOpen.  The master announces the file with its size, the slave has
\* truncated its own and asks for the contents.
OnFileOpen(e) ==
    /\ opening[e] > 0 /\ LoopRuns(e)
    /\ opening' = [opening EXCEPT ![e] = @ - 1]
    /\ AddRef(e, -1)
    /\ \/ /\ ResetCtx(e)
          /\ IF e = origin
             THEN LET f == NumFiles - queue IN
                  /\ cur' = [cur EXCEPT ![e] = f]
                  /\ fd' = [fd EXCEPT ![e] = f]
                  /\ Emit(e, {}, Out(e, <<Msg("X_CHECK", f)>>))
                  /\ UNCHANGED disk
             ELSE /\ fd' = [fd EXCEPT ![e] = cur[e]]
                  /\ disk' = [disk EXCEPT ![cur[e]] = Empty]
                  /\ Emit(e, {}, Out(e, <<Msg("X_BEGIN", 0)>>))
                  /\ UNCHANGED cur
       \/ /\ Fault("open")
          /\ fd' = [fd EXCEPT ![e] = 0]
          /\ Emit(e, {"fail"}, Log(e, "fail") \o Out(e, Finish))
          /\ UNCHANGED <<cur, indexIO, ioFinish, closeNotify, lastErrno, disk>>
    /\ UNCHANGED <<kind, origin, session, owed, task, orphan, chan, size, queue,
                   closing, io, async>>

\* CMD_FILE_CHECK, CMD_APP_CHECK at the slave.  Of a file sent with -sync that
\* is there and newer it says so.
SlaveCheckFile(e) ==
    /\ Gets(e, "X_CHECK")
    /\ cur' = [cur EXCEPT ![e] = Arg(e)]
    /\ \/ /\ opening' = [opening EXCEPT ![e] = @ + 1]
          /\ AddRef(e, 1)
          /\ Answer(e, {}, <<>>)
       \/ /\ IsFile /\ Fault("newer")
          /\ Answer(e, {"fail"}, Fails(e))
          /\ UNCHANGED <<opening, refCount>>
    /\ UNCHANGED <<kind, origin, session, owed, task, orphan, chan, size, queue, fd,
                   closing, io, indexIO, ioFinish, closeNotify, lastErrno, disk,
                   async>>

-----------------------------------------------------------------------------
(* Reading and writing.                                                    *)

\* A message for a finished context: HdcFile does not look at the result of
\* HdcTransferBase::CommandDispatch, the applications end the task.
RefusedIO(e) ==
    /\ Answer(e, {}, IF IsFile THEN <<>> ELSE Finish)
    /\ UNCHANGED <<refCount, io>>

\* CMD_FILE_BEGIN, CMD_APP_BEGIN: the first read.
MasterBegin(e) ==
    /\ Gets(e, "X_BEGIN")
    /\ IF ioFinish[e] THEN RefusedIO(e)
       ELSE /\ io' = [io EXCEPT ![e] = Append(@, ReadAt(e, indexIO[e]))]
            /\ AddRef(e, 1)
            /\ Answer(e, {}, <<>>)
    /\ UNCHANGED <<kind, origin, session, owed, task, orphan, chan, size, queue, cur,
                   fd, opening, closing, indexIO, ioFinish, closeNotify,
                   lastErrno, disk, async>>

\* CMD_FILE_DATA, CMD_APP_DATA: RecvIOPayload writes at the offset it is told.
SlaveData(e) ==
    /\ Gets(e, "X_DATA")
    /\ IF ioFinish[e] THEN RefusedIO(e)
       ELSE /\ io' = [io EXCEPT ![e] =
                        Append(@, Request(e, "write", PieceOf(Arg(e))))]
            /\ AddRef(e, 1)
            /\ Answer(e, {}, <<>>)
    /\ UNCHANGED <<kind, origin, session, owed, task, orphan, chan, size, queue, cur,
                   fd, opening, closing, indexIO, ioFinish, closeNotify,
                   lastErrno, disk, async>>

\* Variant: the close takes over the reference of the request, one too many.
CloseUncounted(e, j, finish, more) ==
    /\ ioFinish' = [ioFinish EXCEPT ![e] = finish]
    /\ closing' = [closing EXCEPT ![e] = IF finish THEN @ + 1 ELSE @]
    /\ io' = [io EXCEPT ![e] = Without(@, j) \o more]
    /\ AddRef(e, Len(more) - 1)

\* The end of OnFileIO: a finished context is closed, and closed again by each
\* request that comes back later.
CloseStep1(e, j, finish, more) ==
    /\ ioFinish' = [ioFinish EXCEPT ![e] = finish]
    /\ closing' = [closing EXCEPT ![e] = IF finish THEN @ + 1 ELSE @]
    /\ io' = [io EXCEPT ![e] = Without(@, j) \o more]
    /\ AddRef(e, Len(more) + (IF finish THEN 1 ELSE 0) - 1)

\* OnFileIO of a request that failed, or of a context that is finished.
OnFileIOEnds(e, j) ==
    /\ j \in DOMAIN io[e] /\ LoopRuns(e)
    /\ \/ ioFinish[e] /\ UNCHANGED <<closeNotify, lastErrno>>
       \/ /\ ~ioFinish[e] /\ (Fault(io[e][j].op) \/ io[e][j].to = 0)
          /\ closeNotify' = [closeNotify EXCEPT ![e] = TRUE]
          /\ lastErrno' = [lastErrno EXCEPT ![e] = TRUE]
    /\ CloseStep1(e, j, TRUE, <<>>)
    /\ UNCHANGED <<kind, origin, session, owed, task, orphan, net, chan, told, size,
                   queue, cur, fd, opening, indexIO, disk, async>>

\* OnFileIO of a read: the piece is sent and the next one read.
OnFileRead(e, j) ==
    /\ j \in DOMAIN io[e] /\ io[e][j].op = "read" /\ io[e][j].to # 0
    /\ LoopRuns(e) /\ ~ioFinish[e] /\ (CanSend(e) => MaySend(e))
    /\ LET r == io[e][j]
           len == IF r.piece.i < size[r.to] THEN 1 ELSE 0
           at == indexIO[e] + len
           p == [f |-> r.to, i |-> indexIO[e], len |-> len]
           goesOn == CanSend(e) /\ at < FileSize(e)
       IN    /\ indexIO' = [indexIO EXCEPT ![e] = at]
             /\ Emit(e, {}, IF CanSend(e) THEN <<Msg("X_DATA", Code(p))>> ELSE <<>>)
             /\ CloseStep1(e, j, ~goesOn, IF goesOn THEN <<ReadAt(e, at)>> ELSE <<>>)
    /\ UNCHANGED <<kind, origin, session, owed, task, orphan, chan, size, queue, cur,
                   fd, opening, closeNotify, lastErrno, disk, async>>

\* Variant: the size is not looked at, each write may be the last.
AllWritten(e, at) == at > 0 \/ FileSize(e) = 0

Written(e, at) == at >= FileSize(e)

\* OnFileIO of a write; when all is written the file is closed.
OnFileWrite(e, j) ==
    /\ j \in DOMAIN io[e] /\ io[e][j].op = "write" /\ io[e][j].to # 0
    /\ LoopRuns(e) /\ ~ioFinish[e]
    /\ LET w == io[e][j]
           at == indexIO[e] + w.piece.len
       IN /\ indexIO' = [indexIO EXCEPT ![e] = at]
          /\ disk' = IF w.piece.len = 0 THEN disk
                     ELSE [disk EXCEPT ![w.to][w.piece.i] = w.piece.f]
          /\ closeNotify' = [closeNotify EXCEPT ![e] = @ \/ Written(e, at)]
          /\ CloseStep1(e, j, Written(e, at), <<>>)
    /\ UNCHANGED <<kind, origin, session, owed, task, orphan, net, chan, told, size,
                   queue, cur, fd, opening, lastErrno, async>>

-----------------------------------------------------------------------------
(* The end of a file.                                                      *)

\* HdcDaemonApp::PackageShell: a reference until the command is over; it is
\* never over when the process cannot be made.
PackageShell(out) ==
    /\ out
    /\ \/ async' = async + 1 /\ UNCHANGED owed
       \/ Fault("fork") /\ Owe("daemon", 1) /\ UNCHANGED async

\* WhenTransferFinish of the class, and the reference of the close.
WhenTransferFinish(e) ==
    LET installs == e = "daemon" /\ closeNotify[e] /\ kind = "install"
                    /\ ~lastErrno[e]
        says(lvs, msgs) == Emit(e, lvs, Out(e, msgs))
    IN IF installs THEN PackageShell(says({}, <<>>)) /\ AddRef(e, 0)
       ELSE /\ IF ~closeNotify[e] \/ (e = "host" /\ ~IsFile) THEN says({}, <<>>)
               ELSE IF IsFile THEN says({}, <<Msg("FILE_FINISH", 1)>>)
               ELSE IF lastErrno[e] THEN says({"fail"}, Log(e, "fail"))
               ELSE says({"ok"}, Log(e, "ok") \o Finish)
            /\ AddRef(e, -1)
            /\ UNCHANGED <<async, owed>>
OnFileClose(e) ==
    /\ closing[e] > 0 /\ LoopRuns(e)
    /\ closing' = [closing EXCEPT ![e] = @ - 1]
    /\ WhenTransferFinish(e)
    /\ UNCHANGED <<kind, origin, session, task, orphan, chan, size, queue, cur,
                   fd, opening, io, indexIO, ioFinish, closeNotify, lastErrno,
                   disk>>

\* CMD_FILE_FINISH 1: the next file of the master's directory, or the answer.
FileFinish(e) ==
    /\ Gets(e, "FILE_FINISH") /\ Arg(e) = 1
    /\ IF e = origin /\ kind = "dir" /\ queue > 0
       THEN OpenNext(e) /\ AddRef(e, 1) /\ Answer(e, {}, <<>>) /\ UNCHANGED ioFinish
       ELSE /\ ioFinish' = [ioFinish EXCEPT ![e] = TRUE]
            /\ Answer(e, {}, <<Msg("FILE_FINISH", 0)>>)
            /\ UNCHANGED <<queue, opening, refCount>>
    /\ UNCHANGED <<kind, origin, session, owed, task, orphan, chan, size, cur, fd,
                   closing, io, indexIO, closeNotify, lastErrno, disk, async>>

\* CMD_FILE_FINISH 0: TransferSummary, TaskFinish.
FileSummary(e) ==
    /\ Gets(e, "FILE_FINISH") /\ Arg(e) = 0
    /\ LET lv == IF Written(e, indexIO[e]) THEN "ok" ELSE "fail" IN
          Answer(e, {lv}, Log(e, lv) \o Finish)
    /\ UNCHANGED <<kind, origin, session, owed, task, orphan, refCount, chan, xferVars>>

\* AsyncInstallFinish at the daemon.
AsyncInstallFinish ==
    /\ async > 0 /\ LoopRuns("daemon")
    /\ async' = async - 1
    /\ AddRef("daemon", -1)
    /\ Emit("daemon", {}, <<Msg("APP_FINISH", 0)>>)
    /\ UNCHANGED <<kind, origin, session, owed, task, orphan, chan, size, queue, ctxVars,
                   disk>>

\* CMD_APP_FINISH at the server, CheckInstallContinue: the next package, or the
\* end of the task.  Whether a package was installed is not looked at.
AppFinish ==
    /\ Gets("host", "APP_FINISH")
    /\ IF kind # "uninstall" /\ queue > 0
       THEN OpenNext("host") /\ AddRef("host", 1) /\ Answer("host", {}, <<>>)
       ELSE Answer("host", {"ok"}, Finish) /\ UNCHANGED <<queue, opening, refCount>>
    /\ UNCHANGED <<kind, origin, session, owed, task, orphan, chan, size, cur, fd,
                   closing, io, indexIO, ioFinish, closeNotify, lastErrno, disk,
                   async>>

-----------------------------------------------------------------------------
(* Uninstalling: no file is sent.                                          *)

\* CMD_APP_UNINSTALL at the server.
BeginUninstall ==
    /\ kind = "uninstall" /\ Creates("host", "X_INIT")
    /\ AddTask("host")
    /\ Answer("host", {}, <<Wakeup, Msg("APP_UNINSTALL", 0)>>)
    /\ UNCHANGED <<kind, origin, session, owed, refCount, chan, xferVars>>

\* At the daemon the command makes a master task of its own, in the place of
\* the entry that WAKEUP made and that has no object yet.  Its constructor
\* wakes up a slave at the server.
DaemonUninstall ==
    /\ Creates("daemon", "APP_UNINSTALL")
    /\ task' = [task EXCEPT !["daemon"] = "run"]
    /\ PackageShell(Answer("daemon", {}, <<Wakeup>>))
    /\ AddRef("daemon", 1)
    /\ UNCHANGED <<kind, origin, session, orphan, chan, size, queue, ctxVars, disk>>

-----------------------------------------------------------------------------
(* What HdcTasks takes from here.                                         *)

XferTaskless == {"X_INIT", "APP_UNINSTALL"}

\* Neither StopTask does anything to the requests in flight.
XferStopTask == UNCHANGED <<refCount, xferVars>>
XferReady(e) == refCount[e] = 0 /\ (e = "daemon" => async = 0)

XferReceive(e) ==
    \/ BeginTransfer(e) \/ SlaveCheckFile(e) \/ MasterBegin(e) \/ SlaveData(e)
    \/ FileFinish(e) \/ FileSummary(e)
    \/ (e = "host" /\ (AppFinish \/ BeginUninstall))
    \/ (e = "daemon" /\ DaemonUninstall)
XferCallBack(e) ==
    \/ OnFileOpen(e) \/ OnFileClose(e)
    \/ \E j \in DOMAIN io[e] :
          OnFileIOEnds(e, j) \/ OnFileRead(e, j) \/ OnFileWrite(e, j)
    \/ (e = "daemon" /\ AsyncInstallFinish)
=============================================================================
