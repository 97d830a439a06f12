------------------------------- MODULE HdcUsb -------------------------------
(***************************************************************************)
(* The USB transport: blocks of a header, a body and sometimes a dummy     *)
(* header, written packet by packet through two bulk endpoints.  A body    *)
(* does not say whose it is.  On the host a session owns the device: its   *)
(* reading thread and its worker share the cable.  On the daemon one read  *)
(* of the main loop feeds every session and their workers write the same   *)
(* endpoint; a timer closes the endpoints and opens them again.            *)
(*                                                                         *)
(* Both ends talk: the first block of a session is its handshake, and each *)
(* block that arrives is answered by one of the same number.               *)
(***************************************************************************)
EXTENDS Naturals, Sequences, FiniteSets

CONSTANTS
    MaxSessions, \* sessions of the host, in all
    MaxBlocks,   \* blocks each way of a session
    MaxUnplugs,  \* times the cable is pulled out
    MaxCrashes,  \* times the server is killed
    MaxAntique,  \* adb connect packets another program of the host sends
    Dummies      \* numbers of the blocks that fill their last packet

ASSUME UsbAssumption ==
    /\ MaxSessions \in Nat \ {0} /\ MaxBlocks \in Nat \ {0}
    /\ {MaxUnplugs, MaxCrashes, MaxAntique} \subseteq Nat
    /\ Dummies \subseteq 1 .. MaxBlocks

VARIABLES
    \* the cable and the two endpoints
    plugged, unplugs, crashes, antiques,
    up,        \* the function of the device is on the bus
    h2d, d2h,  \* the packet of a write that nobody has read
    \* the host
    host, born, \* the session that has the device, the sessions so far
    valid,     \* its handle is of the present enumeration
    isDead, freeing, inShut, outShut, cancelIn,
    reader, got, hpay, resetIO, blockLock,
    worker, sending, sent, hgot,
    \* the daemon
    isAlive, atPollQueue, reading, eps, currentSessionId, dsession, dpay, dgot,
    writer, rest, answered, mutexUsbFfs, freeq

cableVars == <<plugged, unplugs, crashes, antiques>>
readerVars == <<reader, got, hpay, resetIO>>
workerVars == <<worker, sending, sent>>
freeVars == <<host, born, isDead, freeing, inShut, outShut, cancelIn>>
hostVars == <<freeVars, valid, readerVars, blockLock, workerVars, hgot>>
loopVars == <<isAlive, atPollQueue, reading, eps>>
sessionVars == <<currentSessionId, dsession, dpay, dgot>>
writerVars == <<writer, rest, answered, mutexUsbFfs, freeq>>
daemonVars == <<loopVars, sessionVars, writerVars>>
vars == <<cableVars, up, h2d, d2h, hostVars, daemonVars>>

Session == 0 .. MaxSessions \* 0 is no session

\* USBHead with USB_OPTION_HEADER, with no option and no size, with
\* USB_OPTION_RESET; a body; what the endpoint holds otherwise.
Packet == [kind : {"header", "nop", "reset", "body"}, s : Session, n : 0 .. MaxBlocks]
Pack(k, s, n) == [kind |-> k, s |-> s, n |-> n]
Nothing == Pack("none", 0, 0)
Failed == Pack("failed", 0, 0) \* the transfer ends with an error
Antique == Pack("antique", 0, 0)
IsUsbPacketHeader(p) == p.kind \in {"header", "nop", "reset"}

-----------------------------------------------------------------------------
(* The packets of a block, in order; the rest after one was written.       *)

BlockOf(s, n) ==
    <<Pack("header", s, n), Pack("body", s, n)>>
        \o (IF n \in Dummies THEN <<Pack("nop", s, 0)>> ELSE <<>>)

Init ==
    /\ plugged = TRUE /\ unplugs = 0 /\ crashes = 0 /\ antiques = 0
    /\ up = FALSE /\ h2d = Nothing /\ d2h = Nothing
    /\ host = 0 /\ born = 0 /\ valid = FALSE
    /\ isDead = FALSE /\ freeing = "no" /\ inShut = TRUE /\ outShut = TRUE
    /\ cancelIn = FALSE
    /\ reader = "none" /\ got = Nothing /\ hpay = 0 /\ resetIO = FALSE
    /\ blockLock = "none" /\ worker = "none" /\ sending = <<>> /\ sent = 0
    /\ hgot = <<>>
    /\ isAlive = FALSE /\ atPollQueue = FALSE /\ reading = "no" /\ eps = "closed"
    /\ currentSessionId = 0
    /\ dsession = [s \in Session |-> "none"]
    /\ dpay = [s \in Session |-> 0] /\ dgot = [s \in Session |-> <<>>]
    /\ writer = [s \in Session |-> "idle"]
    /\ rest = [s \in Session |-> <<>>] /\ answered = [s \in Session |-> 0]
    /\ mutexUsbFfs = 0 /\ freeq = {}

-----------------------------------------------------------------------------
(* The cable.                                                              *)

\* What a transfer that was under way finds when the device has gone.
Broken(p) == IF p \in {Nothing, Antique} THEN Nothing ELSE Failed

\* Everything under way ends with an error, the read of the daemon too.
Unplug ==
    /\ plugged /\ unplugs < MaxUnplugs
    /\ unplugs' = unplugs + 1 /\ plugged' = FALSE /\ valid' = FALSE
    /\ h2d' = Broken(h2d) /\ d2h' = Broken(d2h)
    /\ reading' = IF reading = "pending" THEN "error" ELSE reading
    /\ UNCHANGED <<crashes, antiques, up, freeVars, readerVars, blockLock,
                   workerVars, hgot, isAlive, atPollQueue, eps, sessionVars,
                   writerVars>>

Replug ==
    /\ ~plugged /\ plugged' = TRUE
    /\ UNCHANGED <<unplugs, crashes, antiques, up, h2d, d2h, hostVars, daemonVars>>

\* The function leaves the bus when the last of its endpoints is closed, which
\* a write that is under way puts off.
GadgetDown ==
    /\ up /\ eps # "open" /\ mutexUsbFfs = 0
    /\ up' = FALSE /\ valid' = FALSE
    /\ h2d' = Broken(h2d) /\ d2h' = Nothing
    /\ UNCHANGED <<cableVars, freeVars, readerVars, blockLock, workerVars, hgot,
                   daemonVars>>

\* Another program of the host greets the device as adb does.
SendAntique ==
    /\ antiques < MaxAntique /\ plugged /\ up /\ h2d = Nothing /\ host = 0
    /\ antiques' = antiques + 1 /\ h2d' = Antique
    /\ UNCHANGED <<plugged, unplugs, crashes, up, d2h, hostVars, daemonVars>>

-----------------------------------------------------------------------------
(* The host.                                                               *)

\* Nothing of a session of the host, nothing of the last one.
HostGone ==
    /\ host' = 0 /\ valid' = FALSE /\ isDead' = FALSE /\ freeing' = "no"
    /\ inShut' = TRUE /\ outShut' = TRUE /\ cancelIn' = FALSE
    /\ reader' = "none" /\ got' = Nothing /\ hpay' = 0 /\ resetIO' = FALSE
    /\ blockLock' = "none" /\ worker' = "none" /\ sending' = <<>> /\ sent' = 0
    /\ hgot' = <<>>

\* DetectMyNeed, UsbPreConnect and ConnectDetectDaemon: a session for the
\* device that is found, its reading thread, then its worker, whose first
\* block is the handshake.
ConnectDetectDaemon ==
    /\ host = 0 /\ plugged /\ up /\ born < MaxSessions
    /\ born' = born + 1 /\ host' = born' /\ valid' = TRUE
    /\ isDead' = FALSE /\ freeing' = "no" /\ cancelIn' = FALSE
    /\ inShut' = FALSE /\ outShut' = FALSE
    /\ reader' = "loop" /\ got' = Nothing /\ hpay' = 0 /\ resetIO' = FALSE
    /\ worker' = "idle" /\ sending' = <<>> /\ sent' = 0 /\ hgot' = <<>>
    /\ UNCHANGED <<cableVars, up, h2d, d2h, blockLock, daemonVars>>

\* CancelUsbIo: a transfer under way is cancelled, an endpoint at rest is shut.
CancelUsbIo ==
    /\ inShut' = (inShut \/ reader # "wait")
    /\ cancelIn' = (~inShut /\ reader = "wait")

FreeSession == isDead' = TRUE

\* KickoutZombie of the watch of the device list.
KickoutZombie ==
    /\ host # 0 /\ ~isDead /\ ~valid
    /\ FreeSession
    /\ UNCHANGED <<cableVars, up, h2d, d2h, host, born, freeing, inShut, outShut,
                   cancelIn, valid, readerVars, blockLock, workerVars, hgot, daemonVars>>

\* The reading thread is a reference from BeginUsbRead to its end, and a
\* write one while it is under way.
\* Variant: the reading thread keeps its reference.
ReferenceKept == reader # "none" \/ worker = "wait"
Referenced == reader \notin {"none", "end"} \/ worker = "wait"

\* FreeSessionOpeate, once no thread has a reference: first both endpoints are
\* shut, then the worker is stopped, FreeSessionContinue closes the device.
FreeSessionOpeate ==
    /\ host # 0 /\ isDead /\ freeing = "no" /\ ~Referenced
    /\ IF ~inShut \/ ~outShut
       THEN CancelUsbIo /\ outShut' = TRUE /\ UNCHANGED freeing
       ELSE freeing' = "child" /\ UNCHANGED <<inShut, outShut, cancelIn>>
    /\ UNCHANGED <<cableVars, up, h2d, d2h, host, born, isDead, valid,
                   readerVars, blockLock, workerVars, hgot, daemonVars>>
FreeSessionContinue ==
    /\ freeing = "child" /\ worker \in {"idle", "stop"}
    /\ HostGone
    /\ UNCHANGED <<cableVars, up, h2d, d2h, born, daemonVars>>

\* The server is killed: its transfers end, whatever the daemon did not take
\* of them is lost.  What the daemon is writing stays.
Crash ==
    /\ crashes < MaxCrashes /\ host # 0 /\ crashes' = crashes + 1
    /\ h2d' = Nothing
    /\ HostGone
    /\ UNCHANGED <<plugged, unplugs, antiques, up, d2h, born, daemonVars>>

-----------------------------------------------------------------------------
(* Writing of the host: SendUSBBlock by the worker, PreSendUsbSoftReset by *)
(* the reading thread, one at a time.                                      *)

\* The reference of SendUSBRaw is taken in the step that submits.
Submit(p) == h2d = Nothing /\ h2d' = IF valid THEN p ELSE Failed

\* SendUSBRaw of a transfer that failed: CancelUsbIo, then FreeSession.
SendFailed ==
    /\ CancelUsbIo /\ outShut' = TRUE
    /\ FreeSession
    /\ UNCHANGED <<host, born, freeing>>

\* The worker has the next block to send: the handshake at first.
SendUSBBlock ==
    /\ worker = "idle" /\ freeing # "child" /\ blockLock = "none"
    /\ sent < MaxBlocks /\ sent <= Len(hgot)
    /\ sending' = BlockOf(host, sent + 1) /\ sent' = sent + 1
    /\ worker' = "ready" /\ blockLock' = "worker"
    /\ UNCHANGED <<cableVars, up, h2d, d2h, freeVars, valid, readerVars, hgot,
                   daemonVars>>

SendPacket ==
    /\ worker = "ready" /\ Submit(Head(sending)) /\ worker' = "wait"
    /\ UNCHANGED <<cableVars, up, d2h, freeVars, valid, readerVars, blockLock,
                   sending, sent, hgot, daemonVars>>

\* The transfer of the worker has ended, well (the daemon took the packet) or not.
PacketSent ==
    /\ worker = "wait" /\ h2d \in {Nothing, Failed}
    /\ h2d' = Nothing
    /\ sending' = IF h2d = Failed THEN <<>> ELSE Tail(sending)
    /\ worker' = IF h2d = Failed THEN "stop"
                 ELSE IF sending' = <<>> THEN "idle" ELSE "ready"
    /\ blockLock' = IF sending' = <<>> THEN "none" ELSE blockLock
    /\ IF h2d = Failed THEN SendFailed ELSE UNCHANGED freeVars
    /\ UNCHANGED <<cableVars, up, d2h, valid, readerVars, sent, hgot, daemonVars>>

\* GLOBAL_TIMEOUT of a write the daemon does not take.
SendTimeout ==
    /\ h2d \in Packet \cup {Antique} /\ reading = "no"
    /\ h2d' = Broken(h2d)
    /\ UNCHANGED <<cableVars, up, d2h, hostVars, daemonVars>>

\* PreSendUsbSoftReset: got.s is the session the packet asks to reset.
SendReset ==
    /\ reader = "reset" /\ blockLock = "none" /\ Submit(Pack("reset", got.s, 0))
    /\ blockLock' = "reader" /\ reader' = "resetting"
    /\ UNCHANGED <<cableVars, up, d2h, freeVars, valid, got, hpay, resetIO,
                   workerVars, hgot, daemonVars>>
ResetSent ==
    /\ reader = "resetting" /\ h2d \in {Nothing, Failed} /\ h2d' = Nothing
    /\ blockLock' = "none" /\ resetIO' = TRUE /\ reader' = "loop" /\ got' = Nothing
    /\ IF h2d = Failed THEN SendFailed ELSE UNCHANGED freeVars
    /\ UNCHANGED <<cableVars, up, d2h, valid, hpay, workerVars, hgot, daemonVars>>

-----------------------------------------------------------------------------
(* Reading of the host: the thread of BeginUsbRead.                        *)

\* Its end: the reference is given up, the endpoint shut and the end of the
\* session asked for.
EndOfRead == reader' = "end" /\ inShut' = TRUE /\ FreeSession

\* The loop asks isDead, then SubmitUsbBio waits for a packet for ever.
BeginUsbRead ==
    /\ reader = "loop"
    /\ IF isDead THEN EndOfRead
       ELSE reader' = "wait" /\ UNCHANGED <<inShut, isDead>>
    /\ UNCHANGED <<cableVars, up, h2d, d2h, host, born, freeing, outShut, cancelIn,
                   valid, got, hpay, resetIO, blockLock, workerVars, hgot, daemonVars>>

\* Variant: the device that has gone leaves the read under way.
ReadCancelled ==
    /\ reader = "wait" /\ cancelIn
    /\ EndOfRead /\ cancelIn' = FALSE
    /\ UNCHANGED <<cableVars, up, h2d, d2h, host, born, freeing, outShut, valid,
                   got, hpay, resetIO, blockLock, workerVars, hgot, daemonVars>>

\* The transfer fails when it was cancelled or the device has gone.
ReadFails ==
    /\ reader = "wait" /\ (cancelIn \/ ~valid)
    /\ EndOfRead /\ cancelIn' = FALSE
    /\ UNCHANGED <<cableVars, up, h2d, d2h, host, born, freeing, outShut, valid,
                   got, hpay, resetIO, blockLock, workerVars, hgot, daemonVars>>

\* PreSendUsbSoftReset: once in a session.
PreSendUsbSoftReset(s) ==
    /\ reader' = IF resetIO THEN "loop" ELSE "reset"
    /\ got' = Pack("reset", s, 0)
    /\ UNCHANGED <<hpay, hgot>>

\* SendToHdcStream with CheckPacketOption: a body is for the session whose
\* header came last.
SendToHdcStream(p) ==
    IF IsUsbPacketHeader(p)
    THEN IF p.s # host THEN PreSendUsbSoftReset(p.s)
         ELSE /\ hpay' = IF p.kind = "header" THEN p.n ELSE hpay
              /\ reader' = "loop" /\ UNCHANGED <<got, hgot>>
    ELSE IF hpay = 0 THEN PreSendUsbSoftReset(0)
    ELSE /\ hgot' = Append(hgot, p) /\ hpay' = 0
         /\ reader' = "loop" /\ UNCHANGED got

ReadUSB ==
    /\ reader = "wait" /\ valid /\ ~cancelIn /\ d2h \in Packet
    /\ d2h' = Nothing
    /\ SendToHdcStream(d2h)
    /\ UNCHANGED <<cableVars, up, h2d, freeVars, valid, resetIO, blockLock,
                   workerVars, daemonVars>>

-----------------------------------------------------------------------------
(* The daemon: its main loop.                                              *)

InMap(s) == dsession[s] \in {"live", "dead"}
Free(f, s) == IF f[s] = "live" THEN [f EXCEPT ![s] = "dead"] ELSE f

\* ResetOldSession: session 0 is the current one.
ResetOldSession(s) ==
    dsession' = Free(dsession, IF s = 0 THEN currentSessionId ELSE s)

\* LoopUSBRead.
LoopUSBRead == reading' = "pending" /\ UNCHANGED <<isAlive, atPollQueue>>
\* Variants: one of the two flags is forgotten.
StopPolling == reading' = "no" /\ atPollQueue' = FALSE /\ UNCHANGED isAlive
StopLiving == reading' = "no" /\ isAlive' = FALSE /\ UNCHANGED atPollQueue
StopRead == reading' = "no" /\ isAlive' = FALSE /\ atPollQueue' = FALSE

RestartOld(s) ==
    IF currentSessionId \notin {0, s} THEN Free(dsession, currentSessionId) ELSE dsession

\* DispatchToWorkThread of the packet p, whose header names session id (0 in a
\* body): a new session takes the place of the current one.
DispatchToWorkThread(id, p) ==
    LET s == IF id = 0 THEN currentSessionId ELSE id
        after == RestartOld(s)
        new == after[s] \notin {"live", "dead"}
    IN  /\ currentSessionId' =
              IF new THEN s ELSE IF s = currentSessionId THEN s ELSE 0
        /\ dsession' = IF new THEN [after EXCEPT ![s] = "live"] ELSE after
        /\ IF after[s] = "dead"
           THEN StopRead /\ UNCHANGED <<dpay, dgot>>
           ELSE /\ LoopUSBRead
                /\ dpay' = [dpay EXCEPT ![s] =
                      CASE p.kind = "header" -> p.n
                        [] p.kind = "body" -> 0
                        [] OTHER -> @]
                /\ dgot' = [dgot EXCEPT ![s] =
                      @ \o (IF p.kind = "body" /\ dpay[s] # 0 THEN <<p>> ELSE <<>>)]

\* AvailablePacket of a header that asks for a reset.
AvailablePacket ==
    /\ ResetOldSession(h2d.s) /\ LoopUSBRead
    /\ UNCHANGED <<currentSessionId, dpay, dgot>>

\* OnUSBRead: the read that was pending has a packet or an error.
OnUSBRead ==
    /\ \/ reading = "error"
       \/ reading = "pending" /\ h2d \in Packet \cup {Antique}
    /\ h2d' = IF reading = "error" THEN h2d ELSE Nothing
    /\ IF reading = "error" \/ ~isAlive THEN StopRead /\ UNCHANGED sessionVars
       ELSE IF h2d = Antique \* JumpAntiquePacket
       THEN reading' = "no" /\ UNCHANGED <<isAlive, atPollQueue, sessionVars>>
       ELSE IF h2d.kind = "reset" THEN AvailablePacket
       ELSE DispatchToWorkThread(IF IsUsbPacketHeader(h2d) THEN h2d.s ELSE 0, h2d)
    /\ UNCHANGED <<cableVars, up, d2h, hostVars, eps, writerVars>>

\* The function can be set up when the kernel has done with the last time.
ConnectEPPoint == eps = "closed" /\ ~up /\ eps' = "open" /\ up' = TRUE

\* WatchEPTimer, each second: it closes the endpoints of a transport that is
\* not alive, and opens them once they are closed and the function has gone.
WatchEPTimer ==
    /\ ~isAlive /\ ~atPollQueue
    /\ \/ /\ eps = "open" /\ eps' = "closing"
          /\ UNCHANGED <<up, isAlive, atPollQueue, reading>>
       \/ /\ ConnectEPPoint
          /\ isAlive' = TRUE /\ atPollQueue' = TRUE /\ reading' = "pending"
    /\ UNCHANGED <<cableVars, h2d, d2h, hostVars, sessionVars, writerVars>>

\* The closing of CloseBulkEp is over.
CloseBulkEp ==
    /\ eps = "closing" /\ eps' = "closed"
    /\ UNCHANGED <<cableVars, up, h2d, d2h, hostVars, isAlive, atPollQueue, reading,
                   sessionVars, writerVars>>

\* The FreeSession a worker asked for.
AsyncFree ==
    \E s \in freeq :
        /\ freeq' = freeq \ {s} /\ dsession' = Free(dsession, s)
        /\ UNCHANGED <<cableVars, up, h2d, d2h, hostVars, loopVars, currentSessionId,
                       dpay, dgot, writer, rest, answered, mutexUsbFfs>>

\* FreeSessionFinally: the worker has stopped.  OnSessionFreeFinally: the read
\* stays under way, the packet that ends it is not dealt with.
FreeSessionFinally ==
    \E s \in Session :
        /\ dsession[s] = "dead" /\ writer[s] = "idle"
        /\ dsession' = [dsession EXCEPT ![s] = "gone"]
        /\ dpay' = [dpay EXCEPT ![s] = 0] /\ dgot' = [dgot EXCEPT ![s] = <<>>]
        /\ answered' = [answered EXCEPT ![s] = 0]
        /\ isAlive' = (isAlive /\ currentSessionId # s)
        /\ UNCHANGED <<cableVars, up, h2d, d2h, hostVars, atPollQueue, reading, eps,
                       currentSessionId, writer, rest, mutexUsbFfs, freeq>>

-----------------------------------------------------------------------------
(* The daemon: the workers of its sessions.                                *)

\* The worker of s has received the next block and answers it.
AnswerBlock(s) ==
    /\ InMap(s) /\ writer[s] = "idle" /\ answered[s] < Len(dgot[s])
    /\ answered' = [answered EXCEPT ![s] = @ + 1]
    /\ rest' = [rest EXCEPT ![s] = BlockOf(s, answered[s] + 1)]
    /\ writer' = [writer EXCEPT ![s] = "ready"]
    /\ UNCHANGED <<cableVars, up, h2d, d2h, hostVars, loopVars, sessionVars,
                   mutexUsbFfs, freeq>>

GiveUp(s) ==
    /\ writer' = [writer EXCEPT ![s] = "idle"] /\ rest' = [rest EXCEPT ![s] = <<>>]
    /\ freeq' = freeq \cup {s}

\* SendUSBIOSync asks, under the mutex, whether the transport and the session
\* are alive before it writes.
\* Variant: only the transport is asked.
TransportAlive(s) == isAlive
MayWrite(s) == isAlive /\ dsession[s] = "live"
SendUSBRaw(s) ==
    /\ writer[s] = "ready" /\ mutexUsbFfs = 0
    /\ IF MayWrite(s)
       THEN /\ d2h' = Head(rest[s]) /\ mutexUsbFfs' = s
            /\ writer' = [writer EXCEPT ![s] = "writing"]
            /\ UNCHANGED <<rest, freeq>>
       ELSE GiveUp(s) /\ UNCHANGED <<d2h, mutexUsbFfs>>
    /\ UNCHANGED <<cableVars, up, h2d, hostVars, loopVars, sessionVars, answered>>

\* Variant: a write that failed leaves the mutex locked.
KeepsLock(s) == mutexUsbFfs' = IF d2h = Failed THEN s ELSE 0
Unlock(s) == mutexUsbFfs' = 0

\* The write ends when the host has read the packet, or with an error.
SendUSBIOSync(s) ==
    /\ writer[s] = "writing" /\ d2h \in {Nothing, Failed}
    /\ d2h' = Nothing /\ Unlock(s)
    /\ IF d2h = Failed THEN isAlive' = FALSE /\ GiveUp(s)
       ELSE /\ rest' = [rest EXCEPT ![s] = Tail(@)]
            /\ writer' = [writer EXCEPT ![s] =
                            IF rest'[s] = <<>> THEN "idle" ELSE "ready"]
            /\ UNCHANGED <<isAlive, freeq>>
    /\ UNCHANGED <<cableVars, up, h2d, hostVars, atPollQueue, reading, eps,
                   sessionVars, answered>>

-----------------------------------------------------------------------------
HostStep ==
    \/ ConnectDetectDaemon \/ KickoutZombie \/ FreeSessionOpeate
    \/ FreeSessionContinue \/ SendUSBBlock \/ SendPacket \/ PacketSent
    \/ SendTimeout \/ SendReset \/ ResetSent \/ BeginUsbRead \/ ReadFails
    \/ ReadUSB
DaemonStep ==
    \/ OnUSBRead \/ WatchEPTimer \/ CloseBulkEp \/ AsyncFree \/ FreeSessionFinally
    \/ \E s \in Session : AnswerBlock(s) \/ SendUSBRaw(s) \/ SendUSBIOSync(s)
Next ==
    \/ HostStep \/ DaemonStep
    \/ Unplug \/ Replug \/ GadgetDown \/ SendAntique \/ Crash

Spec == Init /\ [][Next]_vars
FairSpec ==
    /\ Spec /\ WF_vars(GadgetDown)
    /\ WF_vars(ConnectDetectDaemon) /\ WF_vars(KickoutZombie)
    /\ WF_vars(FreeSessionOpeate) /\ WF_vars(FreeSessionContinue)
    /\ WF_vars(SendUSBBlock \/ SendPacket \/ PacketSent) /\ WF_vars(SendTimeout)
    /\ SF_vars(SendReset)
    /\ WF_vars(ResetSent \/ BeginUsbRead \/ ReadFails \/ ReadUSB)
    /\ WF_vars(OnUSBRead) /\ WF_vars(WatchEPTimer) /\ WF_vars(CloseBulkEp)
    /\ WF_vars(AsyncFree) /\ WF_vars(FreeSessionFinally)
    /\ \A s \in Session :
          WF_vars(AnswerBlock(s) \/ SendUSBIOSync(s)) /\ SF_vars(SendUSBRaw(s))

-----------------------------------------------------------------------------
(* Properties.                                                             *)

\* The variables have values the code can give them.
TypeOK ==
    /\ {plugged, up, valid, isDead, inShut, outShut, cancelIn, resetIO, isAlive,
        atPollQueue} \subseteq BOOLEAN
    /\ {h2d, d2h} \subseteq Packet \cup {Nothing, Failed, Antique}
    /\ host \in {0, born} /\ born \in Session /\ freeing \in {"no", "child"}
    /\ reader \in {"none", "loop", "wait", "reset", "resetting", "end"}
    /\ worker \in {"none", "idle", "ready", "wait", "stop"}
    /\ blockLock \in {"none", "worker", "reader"}
    /\ reading \in {"no", "pending", "error"} /\ eps \in {"open", "closing", "closed"}
    /\ currentSessionId \in Session /\ freeq \subseteq Session
    /\ dsession \in [Session -> {"none", "live", "dead", "gone"}]
    /\ writer \in [Session -> {"idle", "ready", "writing"}]
    /\ mutexUsbFfs # 0 => writer[mutexUsbFfs] = "writing"

\* What a session receives is what its peer sent it, all of it and in order,
\* though a body does not name its session and two workers of the daemon, the
\* one of a session that is being freed and its successor's, share an endpoint.
NoCrossTalk ==
    /\ host # 0 => \A i \in DOMAIN hgot : hgot[i] = Pack("body", host, i)
    /\ \A s \in Session : \A i \in DOMAIN dgot[s] : dgot[s][i] = Pack("body", s, i)

\* A transport that counts as alive has its read under way, for the timer
\* leaves it alone and nothing else starts a read; unless JumpAntiquePacket has
\* returned without one, which it does.
Stalled == antiques > 0 /\ reading = "no" /\ atPollQueue
AliveIsReading == isAlive => reading # "no" \/ Stalled

\* A transport that failed is closed and opened again, though a worker may be
\* in the middle of a write, which only a host that reads can end.
HeldByWrite == mutexUsbFfs # 0 /\ (~plugged \/ (host = 0 /\ born = MaxSessions))
EndpointsReopened ==
    (~isAlive /\ reading = "no" /\ ~Stalled) ~> (isAlive \/ HeldByWrite)

\* A session of the host that has died gives the device back: no thread keeps
\* it in a read or a write that nothing ends.
DeviceReleased == (host # 0 /\ isDead) ~> (host = 0 \/ Stalled)

\* A host session is answered or ends, unless it asked for a reset itself.
HandshakeSettled == \A s \in 1 .. MaxSessions :
    (host = s) ~> (host # s \/ hgot # <<>> \/ resetIO \/ Stalled)

=============================================================================
