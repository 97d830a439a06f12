------------------------------- MODULE UartLink -------------------------------
(***************************************************************************)
(* The link layer of a UART (common/uart.cpp, host_uart.cpp,               *)
(* daemon_uart.cpp): the server at one end of a cable, the daemon at the   *)
(* other.                                                                  *)
(*                                                                         *)
(* Either end keeps one list outPkgs of packages to send, for all its      *)
(* sessions.  Three kinds of thread work on it: the workers of sessions    *)
(* add data packages (SendUARTData), the write thread sends, sends again   *)
(* and gives up (SendPkgInUARTOutMap), and the read thread handles what    *)
(* arrives (PackageProcess), which adds packages, too.                     *)
(*                                                                         *)
(* A package arrives complete or is lost: one that fails its checksum      *)
(* makes the reader drop its buffer.  A cable neither reorders nor         *)
(* duplicates.  How a session is freed is HdcSession's subject; here it    *)
(* goes through the states in which the link layer can find it.            *)
(***************************************************************************)
EXTENDS Naturals, Sequences, FiniteSets, SequencesExt

CONSTANTS Cur,         \* the session the server has opened on the cable
          Old,         \* sessions of an earlier run of the server
          RetryChance, \* retryChance (4 in uart.h)
          MaxIndex,    \* bound: MaxIndex[n], packages a session numbers at end n
          MaxNew,      \* bound: times the daemon creates a session with the same id
          MayRefuse    \* whether a worker may refuse data

Nodes    == {"host", "daemon"}
Sessions == {Cur} \cup Old

ASSUME LinkAssumption ==
    /\ Cur \notin Old
    /\ IsFiniteSet(Old)
    /\ RetryChance \in Nat
    /\ MaxIndex \in [Nodes -> Nat]
    /\ MaxNew \in Nat
    /\ MayRefuse \in BOOLEAN

VARIABLES
    session,      \* session[n][s], see SessionStates
    portOpen,     \* devUartHandle of the server's session is valid
    broken,       \* broken[n]: the write thread used an invalid iterator
    outPkgs,      \* outPkgs[n], a sequence of HandleOutputPkg
    slots,        \* slots[n]: TransferSlot::hasWaitPkg
    caller,       \* caller[n][s]: the worker of s inside SendUARTData
    numbered,     \* numbered[n][s]: the index it gave its package
    requested,    \* requested[n], timeout[n]: of TransferStateMachine
    timeout,
    packageIndex, \* packageIndex[n][s], dispatchedPackageIndex[n][s]
    dispatchedPackageIndex,
    resetIO,      \* resetIO of the server's session
    wire,         \* wire[n]: packages on their way to n
    \* What happened so far, for the properties.
    created,      \* created[s]: how often the daemon created s
    delivered,    \* delivered[n][s]: data packages given to the session, in order
    reported,     \* reported[n][s]: data packages whose refusal a FREE reports
    acked         \* acked[n][s]: data packages n saw acknowledged

listVars  == <<outPkgs, slots, caller>>
timerVars == <<requested, timeout>>
indexVars == <<packageIndex, numbered>>
recvVars  == <<dispatchedPackageIndex, resetIO>>
histVars  == <<created, delivered, reported, acked>>
vars == <<session, portOpen, broken, listVars, timerVars, indexVars, recvVars, wire,
          histVars>>

-----------------------------------------------------------------------------
Heads == [kind : {"data", "ack", "free", "reset"}, sid : Sessions, idx : Nat]
Pkgs  == [head : Heads,
          status : {"PKG_WAIT_SEND", "PKG_WAIT_RESPONSE"},
          late : BOOLEAN,          \* WaitResponseTimeOutMs went by since it was sent
          retryChance : 0..RetryChance]

SessionStates == {"none",    \* GetSession returns null
                  "live",
                  "dead",    \* isDead, or about to be
                  "stopped"} \* StopSession has run: its worker has finished

\* The worker is not sending; it sleeps in slots.Wait, was notified there, or has
\* the slot and is about to add its package.
CallerStates == {"idle", "asleep", "woken", "adding"}

TypeOK ==
    /\ session \in [Nodes -> [Sessions -> SessionStates]]
    /\ portOpen \in BOOLEAN /\ resetIO \in BOOLEAN
    /\ broken \in [Nodes -> BOOLEAN]
    /\ outPkgs \in [Nodes -> Seq(Pkgs)]
    /\ slots \in [Nodes -> SUBSET Sessions]
    /\ caller \in [Nodes -> [Sessions -> CallerStates]]
    /\ requested \in [Nodes -> BOOLEAN]
    /\ timeout \in [Nodes -> BOOLEAN]
    /\ packageIndex \in [Nodes -> [Sessions -> Nat]]
    /\ numbered \in [Nodes -> [Sessions -> Nat]]
    /\ dispatchedPackageIndex \in [Nodes -> [Sessions -> Nat]]
    /\ wire \in [Nodes -> Seq(Heads)]
    /\ created \in [Sessions -> 0..MaxNew]
    /\ delivered \in [Nodes -> [Sessions -> Seq(Nat)]]
    /\ reported \in [Nodes -> [Sessions -> SUBSET Nat]]
    /\ acked \in [Nodes -> [Sessions -> SUBSET Nat]]

OnAll(x) == [n \in Nodes |-> [s \in Sessions |-> x]]

\* The server has opened its session, which the daemon does not know yet; sessions
\* of an earlier run of the server are left in the daemon.
Init ==
    /\ session = [n \in Nodes |-> [s \in Sessions |->
                    IF (n = "host") <=> (s = Cur) THEN "live" ELSE "none"]]
    /\ portOpen = TRUE
    /\ broken = [n \in Nodes |-> FALSE]
    /\ outPkgs = [n \in Nodes |-> <<>>]
    /\ slots = [n \in Nodes |-> {}]
    /\ caller = OnAll("idle")
    /\ requested = [n \in Nodes |-> FALSE]
    /\ timeout = [n \in Nodes |-> FALSE]
    /\ packageIndex = OnAll(0)
    /\ numbered = OnAll(0)
    /\ dispatchedPackageIndex = OnAll(0)
    /\ resetIO = FALSE
    /\ wire = [n \in Nodes |-> <<>>]
    /\ created = [s \in Sessions |-> 0]
    /\ delivered = OnAll(<<>>)
    /\ reported = OnAll({})
    /\ acked = OnAll({})

-----------------------------------------------------------------------------
(* The list outPkgs, its slots and its timer.                              *)

UartHead(k, s, i) == [kind |-> k, sid |-> s, idx |-> i]

Package(h) == [head |-> h, status |-> "PKG_WAIT_SEND", late |-> FALSE,
               retryChance |-> RetryChance]

IsResponse(p) == p.head.kind = "ack"
Waiting(p)    == p.status = "PKG_WAIT_RESPONSE"

\* ToPkgIdentityString: what tells packages apart.
SamePkgId(g, h) == /\ g.sid = h.sid /\ g.idx = h.idx
                   /\ (g.kind = "ack") = (h.kind = "ack")

\* RequestSendPackage under mapOutPkgsMutex: a package with a known id is not added.
AddPkg(q, h) == IF \E i \in DOMAIN q : SamePkgId(q[i].head, h) THEN q
                ELSE Append(q, Package(h))

\* The k-th of the positions I.
Place(I, k) == CHOOSE i \in I : Cardinality({j \in I : j <= i}) = k

\* The packages of q at the positions I, in their order.
Keep(q, I) == [k \in 1..Cardinality(I) |-> q[Place(I, k)]]

\* q without the packages of session s.
Without(q, s) == Keep(q, {i \in DOMAIN q : q[i].head.sid # s})

\* Those of session s for which ClearUARTOutMap calls slots.Free.
Normal(q, s) == {i \in DOMAIN q : q[i].head.sid = s /\ ~IsResponse(q[i])}

\* TransferSlot::Free, k times for session s: each notify_one wakes one waiter,
\* whichever session it waits for.
SlotsFree(n, s, k) ==
    LET Asleep == {t \in Sessions : caller[n][t] = "asleep"}
    IN  /\ slots' = [slots EXCEPT ![n] = IF k = 0 THEN @ ELSE @ \ {s}]
        /\ \E W \in SUBSET Asleep :
            /\ Cardinality(W) = IF k < Cardinality(Asleep) THEN k ELSE Cardinality(Asleep)
            /\ caller' = [caller EXCEPT ![n] = [t \in Sessions |->
                            IF t \in W THEN "woken" ELSE @[t]]]

\* Variant: the slot of the session is not freed.
KeepSlot(n, q, s) ==
    /\ outPkgs' = [outPkgs EXCEPT ![n] = Without(q, s)]
    /\ UNCHANGED <<slots, caller>>

\* ClearUARTOutMap, given the list q.
ClearUARTOutMap(n, q, s) ==
    /\ outPkgs' = [outPkgs EXCEPT ![n] = Without(q, s)]
    /\ SlotsFree(n, s, Cardinality(Normal(q, s)))

NotifyTransfer(n) == requested' = [requested EXCEPT ![n] = TRUE]

-----------------------------------------------------------------------------
(* The worker of a session: SendUARTData.                                  *)

\* slots.Wait: the caller gets the slot or sleeps.
Wait(n, s) ==
    /\ slots' = [slots EXCEPT ![n] = @ \cup {s}]
    /\ caller' = [caller EXCEPT ![n][s] = IF s \in slots[n] THEN "asleep" ELSE "adding"]

\* The next package is numbered.  SendByProtocol tests isDead, but the further
\* packages of one message are sent without that test.
SendUARTData(n, s) ==
    /\ session[n][s] \in {"live", "dead"} /\ caller[n][s] = "idle"
    /\ packageIndex[n][s] < MaxIndex[n]
    /\ packageIndex' = [packageIndex EXCEPT ![n][s] = @ + 1]
    /\ numbered' = [numbered EXCEPT ![n][s] = packageIndex[n][s] + 1]
    /\ Wait(n, s)
    /\ UNCHANGED <<session, portOpen, broken, outPkgs, timerVars, recvVars, wire, histVars>>

\* A notified caller looks again.
WakeUp(n, s) ==
    /\ caller[n][s] = "woken"
    /\ Wait(n, s)
    /\ UNCHANGED <<session, portOpen, broken, outPkgs, timerVars, indexVars, recvVars,
                   wire, histVars>>

\* RequestSendPackage adds the package; the next one may follow.
RequestSendPackage(n, s) ==
    /\ caller[n][s] = "adding"
    /\ caller' = [caller EXCEPT ![n][s] = "idle"]
    /\ outPkgs' = [outPkgs EXCEPT ![n] = AddPkg(@, UartHead("data", s, numbered[n][s]))]
    /\ NotifyTransfer(n)
    /\ UNCHANGED <<session, portOpen, broken, slots, timeout, indexVars, recvVars, wire,
                   histVars>>

-----------------------------------------------------------------------------
(* The write thread: TransferStateMachine::Wait and SendPkgInUARTOutMap.    *)

\* The time to wait for the response to a package goes by.
Late(n) ==
    /\ \E i \in DOMAIN outPkgs[n] :
        /\ Waiting(outPkgs[n][i]) /\ ~outPkgs[n][i].late
        /\ outPkgs' = [outPkgs EXCEPT ![n][i].late = TRUE]
    /\ UNCHANGED <<session, portOpen, broken, slots, caller, timerVars, indexVars,
                   recvVars, wire, histVars>>

\* Wait returns: on a request, or at timeoutPoint, a wait after the last Sent, when
\* every package is late.
WaitReturns(n) ==
    \/ requested[n]
    \/ timeout[n] /\ \A i \in DOMAIN outPkgs[n] : Waiting(outPkgs[n][i]) => outPkgs[n][i].late

\* The loop over q breaks at the first package whose response is late.
LateOnes(q) == {i \in DOMAIN q : Waiting(q[i]) /\ q[i].late}
Break(q)    == IF LateOnes(q) = {} THEN Len(q) + 1
               ELSE CHOOSE i \in LateOnes(q) : \A j \in LateOnes(q) : i <= j

\* Variant: a package is sent although its session waits for a response.
SendNowait(q, i) == TRUE

\* hasWaitPkg holds no package of the session of q[i] when the loop gets there; a
\* response is sent without wait and order.
HasTurn(q, i) == \/ IsResponse(q[i])
                 \/ \A j \in 1..(i - 1) : ~IsResponse(q[j]) => q[j].head.sid # q[i].head.sid

\* The packages of q that the loop sends.
ToSend(q) == {i \in 1..(Break(q) - 1) : ~Waiting(q[i]) /\ HasTurn(q, i)}

\* SendUARTRaw writes p: the daemon does so for every response, otherwise the session
\* must be found.
Written(n, p) == \/ session[n][p.head.sid] # "none"
                 \/ n = "daemon" /\ IsResponse(p)

\* The heads the loop puts on the cable, in the order of q.
OnCable(n, q) ==
    LET sent == Keep(q, {i \in ToSend(q) : Written(n, q[i])})
    IN  [k \in DOMAIN sent |-> sent[k].head]

\* Variant: the chances to send again are not tested.
RetryAnyway(q, i) ==
    CASE i \in ToSend(q) -> [q[i] EXCEPT !.status = "PKG_WAIT_RESPONSE"]
      [] i = Break(q) ->
            [q[i] EXCEPT !.status = "PKG_WAIT_SEND", !.late = FALSE, !.retryChance = @ - 1]
      [] OTHER -> q[i]

\* The i-th package of q after the loop: sent, marked to be sent again, or as it was.
Processed(q, i) ==
    CASE i \in ToSend(q) -> [q[i] EXCEPT !.status = "PKG_WAIT_RESPONSE"]
      [] i = Break(q) /\ q[i].retryChance > 0 ->
            [q[i] EXCEPT !.status = "PKG_WAIT_SEND", !.late = FALSE, !.retryChance = @ - 1]
      [] OTHER -> q[i]

\* q after the loop: responses that were sent are gone.
AfterLoop(q) ==
    LET done == [i \in DOMAIN q |-> Processed(q, i)]
    IN  Keep(done, {i \in DOMAIN q : ~(IsResponse(done[i]) /\ Waiting(done[i]))})

Peer(n) == IF n = "host" THEN "daemon" ELSE "host"

\* The flag timeout after the loop: a Wait that times out clears it, Sent sets it.
TimeoutSet(n) == \/ timeout[n] /\ requested[n]
                 \/ \E i \in ToSend(outPkgs[n]) : ~IsResponse(outPkgs[n][i])

\* A write fails for the server's session once its port is closed.
WriteFails(n) == /\ n = "host" /\ ~portOpen /\ session["host"][Cur] # "none"
                 /\ \E i \in ToSend(outPkgs[n]) : outPkgs[n][i].head.sid = Cur

\* The part of the loop that sends.
SendPkgs(n) ==
    /\ WaitReturns(n) /\ ~broken[n] /\ ~WriteFails(n)
    /\ wire' = [wire EXCEPT ![Peer(n)] = @ \o OnCable(n, outPkgs[n])]
    /\ timeout' = [timeout EXCEPT ![n] = TimeoutSet(n)]
    /\ UNCHANGED <<broken, indexVars, recvVars, histVars>>

\* The loop comes to the end of outPkgs.
SendPkgInUARTOutMap(n) ==
    /\ SendPkgs(n)
    /\ LateOnes(outPkgs[n]) = {}
    /\ outPkgs' = [outPkgs EXCEPT ![n] = AfterLoop(@)]
    /\ requested' = [requested EXCEPT ![n] = FALSE]
    /\ UNCHANGED <<session, portOpen, slots, caller>>

Exhausted(p) == Waiting(p) /\ p.late /\ p.retryChance = 0

\* The loop breaks at a package that is to be sent again, and will start anew.
Resend(n) ==
    /\ SendPkgs(n)
    /\ LateOnes(outPkgs[n]) # {} /\ ~Exhausted(outPkgs[n][Break(outPkgs[n])])
    /\ outPkgs' = [outPkgs EXCEPT ![n] = AfterLoop(@)]
    /\ NotifyTransfer(n)
    /\ UNCHANGED <<session, portOpen, slots, caller>>

\* FreeSession, as far as the link layer sees it.
FreeSession(n, s) ==
    session' = [session EXCEPT ![n][s] = IF @ = "live" THEN "dead" ELSE @]

\* OnTransferError for session s of n, given the list q.
OnTransferError(n, s, q) ==
    /\ FreeSession(n, s)
    /\ portOpen' = (portOpen /\ n # "host")
    /\ ClearUARTOutMap(n, q, s)
    /\ NotifyTransfer(n)

\* The loop breaks at a package without a retry left: OnTransferError(GetSession(...)).
GiveUp(n) ==
    LET q == outPkgs[n]
        s == q[Break(q)].head.sid
    IN  /\ SendPkgs(n)
        /\ LateOnes(q) # {} /\ Exhausted(q[Break(q)])
        /\ \/ /\ session[n][s] # "none"
              /\ OnTransferError(n, s, AfterLoop(q))
           \/ /\ session[n][s] = "none"
              /\ outPkgs' = [outPkgs EXCEPT ![n] = AfterLoop(q)]
              /\ requested' = [requested EXCEPT ![n] = FALSE]
              /\ UNCHANGED <<session, portOpen, slots, caller>>

\* A write fails inside the loop: OnTransferError erases packages of the list, and
\* the loop goes on with its iterator.  The model stops the thread there.
WriteInLoopFails(n) ==
    /\ WaitReturns(n) /\ ~broken[n] /\ WriteFails(n)
    /\ broken' = [broken EXCEPT ![n] = TRUE]
    /\ OnTransferError(n, Cur, outPkgs[n])
    /\ UNCHANGED <<timeout, indexVars, recvVars, wire, histVars>>

-----------------------------------------------------------------------------
(* The read thread: PackageProcess and ValidateUartPacket.                  *)

\* The read thread of n takes the next package, of kind k.  That of the server runs
\* for its session and ends before StopSession does.
Take(n, k) ==
    /\ wire[n] # <<>> /\ Head(wire[n]).kind = k
    /\ n = "host" => portOpen /\ session["host"][Cur] \in {"live", "dead"}
    /\ wire' = [wire EXCEPT ![n] = Tail(@)]

\* Variant: any package of the session is the one that is acknowledged.
OfSession(p, r) == ~IsResponse(p) /\ p.head.sid = r.sid

\* Package p is the one that response r is for.
Answers(p, r) == ~IsResponse(p) /\ p.head.sid = r.sid /\ p.head.idx = r.idx

\* ProcessResponsePackage.
ProcessResponsePackage(n) ==
    /\ Take(n, "ack")
    /\ LET q == outPkgs[n]
           r == Head(wire[n])
           Found == {i \in DOMAIN q : Answers(q[i], r)}
           First == CHOOSE i \in Found : \A j \in Found : i <= j
       IN  \/ /\ Found = {}
              /\ UNCHANGED <<listVars, acked>>
           \/ /\ Found # {}
              /\ outPkgs' = [outPkgs EXCEPT ![n] = Keep(q, DOMAIN q \ {First})]
              /\ SlotsFree(n, r.sid, 1)
              /\ acked' = [acked EXCEPT ![n][r.sid] = @ \cup
                             IF q[First].head.kind = "data" THEN {q[First].head.idx} ELSE {}]
    /\ NotifyTransfer(n)
    /\ UNCHANGED <<session, portOpen, broken, timeout, indexVars, recvVars, created,
                   delivered, reported>>

Ack(h) == UartHead("ack", h.sid, h.idx)

\* A package with PKG_OPTION_FREE: Restartession, then the response.
ReceiveFree(n) ==
    LET h == Head(wire[n])
        q == outPkgs[n]
    IN  /\ Take(n, "free")
        /\ \/ /\ session[n][h.sid] = "none"
              /\ outPkgs' = [outPkgs EXCEPT ![n] = AddPkg(q, Ack(h))]
              /\ UNCHANGED <<session, portOpen, slots, caller>>
           \/ /\ session[n][h.sid] # "none"
              /\ FreeSession(n, h.sid)
              /\ portOpen' = (portOpen /\ n # "host")
              /\ outPkgs' = [outPkgs EXCEPT ![n] =
                               AddPkg(Without(q, h.sid), Ack(h))]
              /\ SlotsFree(n, h.sid, Cardinality(Normal(q, h.sid)))
        /\ NotifyTransfer(n)
        /\ UNCHANGED <<broken, timeout, indexVars, recvVars, histVars>>

\* The session n hands data to: the server's reader has one, the daemon's looks it up.
Receiver(n, h) == IF n = "host" THEN Cur ELSE h.sid

\* GetSession with create: PrepareNewSession of the daemon, which frees the session
\* that shook hands last: one of an earlier run of the server, or, when the id comes
\* back, possibly the new one.
PrepareNewSession(h) ==
    /\ created[h.sid] < MaxNew
    /\ created' = [created EXCEPT ![h.sid] = @ + 1]
    /\ \E new \in {"live"} \cup (IF created[h.sid] = 0 THEN {} ELSE {"dead"}) :
        session' = [session EXCEPT !["daemon"] = [s \in Sessions |->
                      IF s = h.sid THEN new ELSE IF @[s] = "live" THEN "dead" ELSE @[s]]]

\* The package with the index of the last one is taken for that one.
IsDup(n, h) == dispatchedPackageIndex[n][Receiver(n, h)] = h.idx

\* A data package of a session the daemon does not know.
ReceiveFirst ==
    LET h == Head(wire["daemon"])
    IN  /\ Take("daemon", "data") /\ session["daemon"][h.sid] = "none"
        /\ PrepareNewSession(h)
        /\ outPkgs' = [outPkgs EXCEPT !["daemon"] = AddPkg(@, Ack(h))]
        /\ packageIndex' = [packageIndex EXCEPT !["daemon"][h.sid] = 0]
        /\ dispatchedPackageIndex' = [dispatchedPackageIndex EXCEPT !["daemon"][h.sid] = h.idx]
        /\ delivered' = [delivered EXCEPT !["daemon"][h.sid] = Append(@, h.idx)]
        /\ NotifyTransfer("daemon")
        /\ UNCHANGED <<portOpen, broken, slots, caller, timeout, numbered, resetIO, reported,
                       acked>>

\* The response is queued before anything else, and a package that was dispatched
\* before is left at that.
ReceiveDup(n) ==
    LET h == Head(wire[n])
    IN  /\ Take(n, "data") /\ session[n][Receiver(n, h)] # "none"
        /\ IsDup(n, h)
        /\ outPkgs' = [outPkgs EXCEPT ![n] = AddPkg(@, Ack(h))]
        /\ NotifyTransfer(n)
        /\ UNCHANGED <<session, portOpen, broken, slots, caller, timeout, indexVars,
                       recvVars, histVars>>

\* What the cases of a new package of session s have in common.
Dispatch(n, h) ==
    /\ Take(n, "data") /\ session[n][Receiver(n, h)] # "none" /\ ~IsDup(n, h)
    /\ dispatchedPackageIndex' = [dispatchedPackageIndex EXCEPT ![n][Receiver(n, h)] = h.idx]
    /\ NotifyTransfer(n)
    /\ UNCHANGED <<session, portOpen, broken, slots, caller, timeout, numbered, created, acked>>

\* DispatchToWorkThread gives the package to its session.
ReceiveData(n) ==
    LET h == Head(wire[n])
    IN  /\ Dispatch(n, h) /\ h.sid = Receiver(n, h) /\ session[n][h.sid] # "stopped"
        /\ outPkgs' = [outPkgs EXCEPT ![n] = AddPkg(@, Ack(h))]
        /\ delivered' = [delivered EXCEPT ![n][h.sid] = Append(@, h.idx)]
        /\ UNCHANGED <<packageIndex, resetIO, reported>>

\* A failed dispatch: the response is followed by a FREE, numbered like data.
AnswerFree(n, s, q) ==
    /\ packageIndex' = [packageIndex EXCEPT ![n][s] = @ + 1]
    /\ outPkgs' = [outPkgs EXCEPT ![n] = AddPkg(q, UartHead("free", s, packageIndex[n][s] + 1))]

\* UartToHdcProtocol fails: the socket is full for too long, or closed already.
ReceiveRefused(n) ==
    LET h == Head(wire[n])
    IN  /\ Dispatch(n, h) /\ h.sid = Receiver(n, h)
        /\ MayRefuse \/ session[n][h.sid] = "stopped"
        /\ AnswerFree(n, h.sid, AddPkg(outPkgs[n], Ack(h)))
        /\ reported' = [reported EXCEPT ![n][h.sid] = @ \cup {h.idx}]
        /\ UNCHANGED <<resetIO, delivered>>

\* UartSendToHdcStream of the server for a package of another session: the first one
\* is answered by a soft reset, and, as a failed dispatch, by a FREE of the own session.
ReceiveForeign ==
    LET h == Head(wire["host"])
        q == AddPkg(outPkgs["host"], Ack(h))
    IN  /\ Dispatch("host", h) /\ h.sid # Cur
        /\ \/ /\ ~resetIO
              /\ resetIO' = TRUE
              /\ AnswerFree("host", Cur, AddPkg(q, UartHead("reset", h.sid, 0)))
           \/ /\ resetIO
              /\ outPkgs' = [outPkgs EXCEPT !["host"] = q]
              /\ UNCHANGED <<packageIndex, resetIO>>
        /\ UNCHANGED <<delivered, reported>>

\* The server cannot read from the port: it was unplugged, or closed by the write
\* thread.
ReadFails ==
    /\ session["host"][Cur] \in {"live", "dead"}
    /\ OnTransferError("host", Cur, outPkgs["host"])
    /\ UNCHANGED <<broken, timeout, indexVars, recvVars, wire, histVars>>

-----------------------------------------------------------------------------
(* The cable, and the session layer.                                        *)

\* A package is lost or damaged.
Lose(n) ==
    /\ wire[n] # <<>>
    /\ wire' = [wire EXCEPT ![n] = Tail(@)]
    /\ UNCHANGED <<session, portOpen, broken, listVars, timerVars, indexVars, recvVars,
                   histVars>>

\* ReadDataFromUARTStream: the worker does not understand the data.
ReadDataFromUARTStream(n, s) ==
    /\ MayRefuse
    /\ session[n][s] \in {"live", "dead"} /\ caller[n][s] = "idle" /\ delivered[n][s] # <<>>
    /\ packageIndex[n][s] < MaxIndex[n]
    /\ AnswerFree(n, s, outPkgs[n])
    /\ FreeSession(n, s)
    /\ NotifyTransfer(n)
    /\ UNCHANGED <<portOpen, broken, slots, caller, timeout, numbered, recvVars, wire,
                   histVars>>

\* StopSession, called by FreeSessionContinue when the worker has finished.
StopSession(n, s) ==
    /\ session[n][s] = "dead" /\ caller[n][s] = "idle"
    /\ session' = [session EXCEPT ![n][s] = "stopped"]
    /\ ClearUARTOutMap(n, outPkgs[n], s)
    /\ NotifyTransfer(n)
    /\ UNCHANGED <<portOpen, broken, timeout, indexVars, recvVars, wire, histVars>>

\* FreeSessionFinally takes the session from mapSession.
RemoveSession(n, s) ==
    /\ session[n][s] = "stopped"
    /\ session' = [session EXCEPT ![n][s] = "none"]
    /\ UNCHANGED <<portOpen, broken, listVars, timerVars, indexVars, recvVars, wire,
                   histVars>>

-----------------------------------------------------------------------------
WriteThread(n) == SendPkgInUARTOutMap(n) \/ Resend(n) \/ GiveUp(n) \/ WriteInLoopFails(n)
ReadThread(n)  == \/ ProcessResponsePackage(n) \/ ReceiveFree(n) \/ ReceiveDup(n)
                  \/ ReceiveData(n) \/ ReceiveRefused(n)
                  \/ n = "daemon" /\ ReceiveFirst
                  \/ n = "host" /\ ReceiveForeign
Worker(n, s)   == WakeUp(n, s) \/ RequestSendPackage(n, s)
Removal(n, s)  == StopSession(n, s) \/ RemoveSession(n, s)

Next == \/ ReadFails
        \/ \E n \in Nodes : WriteThread(n) \/ ReadThread(n) \/ Late(n) \/ Lose(n)
        \/ \E n \in Nodes, s \in Sessions :
              \/ SendUARTData(n, s) \/ Worker(n, s)
              \/ ReadDataFromUARTStream(n, s) \/ Removal(n, s)

Spec == Init /\ [][Next]_vars

\* Threads run and time goes by.  Nothing is assumed of the cable.
Fairness == /\ \A n \in Nodes : /\ WF_vars(WriteThread(n))
                                /\ WF_vars(ReadThread(n) \/ Lose(n))
                                /\ WF_vars(Late(n))
            /\ \A n \in Nodes, s \in Sessions : WF_vars(Worker(n, s)) /\ WF_vars(Removal(n, s))

FairSpec == Spec /\ Fairness

-----------------------------------------------------------------------------
(* Safety.                                                                 *)

\* Stop and wait: of one session at most one package awaits its response, whatever
\* slots, retries, a FREE beside the data and the order of outPkgs do.
OneInFlight ==
    \A n \in Nodes, s \in Sessions :
        Cardinality({i \in Normal(outPkgs[n], s) : Waiting(outPkgs[n][i])}) <= 1

\* The server's reader took a package of an old session for one of its own: the index
\* it compares with is no longer that of the session's last package (uart.cpp:426).
Mixed(n) == n = "host" /\ resetIO

\* A session gets the data of its peer in order and every package once, although
\* packages are sent again when only their response was lost.
InOrder ==
    \A n \in Nodes, s \in Sessions : created[s] <= 1 /\ ~Mixed(n) =>
        \A i, j \in DOMAIN delivered[n][s] : i < j => delivered[n][s][i] < delivered[n][s][j]

\* The link keeps the packages of a session apart: one at a time, in order, once,
\* whatever is left of a session before a restart (daemon_uart.cpp:213).
StopAndWait == OneInFlight /\ InOrder

\* Data that n dropped as acknowledged, that the session at the other end did not get,
\* and that no FREE reports.
Lost(n) == acked[n][Cur] \ (ToSet(delivered[Peer(n)][Cur]) \cup reported[Peer(n)][Cur])

\* What is skipped as a duplicate was dispatched before.
NoSilentLoss == \A n \in Nodes : created[Cur] <= 1 /\ ~Mixed(Peer(n)) => Lost(n) = {}

\* What the sender takes for delivered was delivered, once and in its order, or was
\* refused with a FREE.
Faithful == StopAndWait /\ NoSilentLoss

-----------------------------------------------------------------------------
(* Liveness.                                                               *)

\* A worker that waits for its slot gets it, however many packages and responses
\* are lost.
SlotReleased ==
    \A n \in Nodes, s \in Sessions :
        (caller[n][s] = "asleep") ~> (caller[n][s] # "asleep" \/ broken[n])

\* A package handed to the link of a live session is acknowledged, or the session
\* is freed.
AcknowledgedOrFreed ==
    \A n \in Nodes, s \in Sessions : \A k \in 1..MaxIndex[n] :
        (caller[n][s] = "adding" /\ numbered[n][s] = k)
            ~> (k \in acked[n][s] \/ session[n][s] # "live" \/ broken[n])

\* Whoever sends gets a slot and an answer, or learns that the session is over:
\* neither a worker nor a package is forgotten.
NoneForgotten == SlotReleased /\ AcknowledgedOrFreed
=============================================================================
