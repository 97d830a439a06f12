----------------------------- MODULE HdcDevices -----------------------------
(***************************************************************************)
(* The list of devices of the server: one device, its entry in mapDaemon,  *)
(* the sessions that try to reach it and one port forwarding rule.  The    *)
(* main loop finds devices, makes sessions and frees them; the worker of a *)
(* session writes the entry too, from a copy it took before.  Over USB the *)
(* addresses already looked at are ignored until something removes them.   *)
(*                                                                         *)
(* A pointer to a session is its number, 0 the null pointer.  Using a      *)
(* deleted session has no defined effect: the behaviour ends there, with   *)
(* "undefined" among the incidents.                                        *)
(***************************************************************************)
EXTENDS Naturals, FiniteSets

CONSTANTS
    Links,       \* how the device may be attached
    MaxPlugs,    \* times it is attached
    MaxSessions, \* sessions of the server, in all
    MaxCommands, \* for each way, tconn commands, removals included
    MaxFaults,   \* for each way, opens and links that fail without cause
    MaxRetry     \* usbConnectRetryMax, uartConnectRetryMax

ASSUME DevicesAssumption ==
    /\ Links \subseteq {"usb", "winusb", "tcp", "uart"}
    /\ {MaxPlugs, MaxSessions, MaxRetry} \subseteq Nat \ {0}
    /\ {MaxCommands, MaxFaults} \subseteq [Links -> Nat]

VARIABLES
    link,      \* "winusb": a device attached again has its old address
    at, plugs, \* the attachment there is, 0 for none, and how many there were
    list,      \* the device's entry of mapDaemon, or Unlisted
    rule,      \* the session of the entry of mapForward, 0 for no entry
    ses,       \* the sessions
    pending,   \* those with a timer or a connect request to their name
    copies,    \* the entry as a worker copied it
    ignored,   \* mapIgnoreDevice
    delays,    \* timers that will call RemoveIgnoreDevice
    known,     \* the port is in serialPortInfo
    commands, faults, incidents

theLink == <<link, at, plugs>>
lists == <<list, rule>>
usbVars == <<ignored, delays>>
bounds == <<commands, faults>>
vars == <<theLink, lists, ses, pending, copies, usbVars, known, bounds, incidents>>

Session == 1 .. MaxSessions
Pointer == 0 .. MaxSessions
Usb == link \in {"usb", "winusb"}

\* The address of an attachment: Linux counts up, Windows does not.
Mount(a) == IF link = "winusb" /\ a # 0 THEN 1 ELSE a
Mounts == 1 .. MaxPlugs

Entry == [status : {"unknown", "ready", "connected", "offline"},
          session : Pointer, mount : 0 .. MaxPlugs]
Unlisted == [status |-> "none", session |-> 0, mount |-> 0]
Listed(status, s, m) == [status |-> status, session |-> s, mount |-> m]

NoSession == [state |-> "none", retry |-> 0, dev |-> 0, worker |-> FALSE, shaken |-> FALSE]
Live(s) == ses[s].state \in {"waiting", "open"}
Overlap(sessions) ==
    IF \E s \in Session : sessions[s].state \in {"waiting", "open"}
    THEN {"overlap"} ELSE {}

\* MallocSession: numbers are not used again, bounded by MaxSessions.
Fresh(s) == s = 1 + Cardinality({u \in Session : ses[u].state # "none"})
Malloc(s, sessions) == [sessions EXCEPT ![s].state = "waiting"]

Init ==
    /\ link \in Links
    /\ at = 0 /\ plugs = 0
    /\ list = Unlisted /\ rule = 0
    /\ ses = [s \in Session |-> NoSession]
    /\ pending = {}
    /\ copies = [s \in Session |-> Unlisted]
    /\ ignored = [m \in Mounts |-> "no"]
    /\ delays = [m \in Mounts |-> 0]
    /\ known = FALSE
    /\ commands = 0 /\ faults = 0
    /\ incidents = {}

\* Something out of reach of the server goes wrong, at most MaxFaults times.
Fault == faults < MaxFaults[link] /\ faults' = faults + 1

Plug ==
    /\ at = 0 /\ plugs < MaxPlugs
    /\ plugs' = plugs + 1 /\ at' = plugs + 1
    /\ UNCHANGED <<link, lists, ses, pending, copies, usbVars, known, bounds, incidents>>
Unplug ==
    /\ at # 0
    /\ at' = 0
    /\ UNCHANGED <<link, plugs, lists, ses, pending, copies, usbVars, known, bounds, incidents>>
-----------------------------------------------------------------------------
(* Freeing a session.                                                      *)

CleanForwardMap(s) == IF rule = s THEN 0 ELSE rule

\* Variant: the entry stays as it is.
KeepEntry(entry) == entry
\* NotifyInstanceSessionFree, step1, of what the list holds then.
Offline(entry) == IF entry = Unlisted THEN entry ELSE [entry EXCEPT !.status = "offline"]

\* FreeSession on the main loop; a session that is dead is left alone.
FreeSession(s) ==
    IF ses[s].state \in {"waiting", "open"}
    THEN /\ ses' = [ses EXCEPT ![s].state = "dead"]
         /\ list' = Offline(list)
         /\ rule' = CleanForwardMap(s)
    ELSE UNCHANGED <<ses, lists>>

\* FreeSessionContinue: the worker has ended, the device is let go.
FreeSessionContinue(s) ==
    /\ ses[s].state = "dead" /\ copies[s] = Unlisted
    /\ ses' = [ses EXCEPT ![s].state = "released", ![s].dev = 0, ![s].worker = FALSE]
    /\ pending' = IF link = "tcp" THEN pending \ {s} ELSE pending
    /\ UNCHANGED <<theLink, lists, copies, usbVars, known, bounds, incidents>>

\* Variant: nothing is removed from the addresses to ignore.
NoDelay(entry) == delays
\* NotifyInstanceSessionFree, step2: of the address the entry has by now.
DelayUsbNotify(entry) ==
    IF entry.mount = 0 THEN delays ELSE [delays EXCEPT ![entry.mount] = @ + 1]

FreeSessionFinally(s) ==
    /\ ses[s].state = "released"
    /\ ses' = [ses EXCEPT ![s].state = "gone"]
    /\ delays' = DelayUsbNotify(list)
    /\ UNCHANGED <<theLink, lists, pending, copies, ignored, known, bounds, incidents>>

RemoveIgnoreDevice(m) ==
    /\ delays[m] > 0
    /\ delays' = [delays EXCEPT ![m] = @ - 1]
    /\ ignored' = [ignored EXCEPT ![m] = "no"]
    /\ UNCHANGED <<theLink, lists, ses, pending, copies, known, bounds, incidents>>

Undefined ==
    /\ incidents' = incidents \cup {"undefined"}
    /\ UNCHANGED <<ses, lists, pending>>
-----------------------------------------------------------------------------
(* USB: WatchUsbNodeChange looks for devices, UsbPreConnect opens them.    *)

\* OpenDeviceMyNeed claims the interface, which a session may hold.
Claimed(sessions) == \E s \in Session : sessions[s].dev = at

\* KickoutZombie, for EnumUSBDeviceRegister stops after one session: that with
\* the least number, which is random.
Registered == {s \in Session : ses[s].state \in {"waiting", "open", "dead"}}
Zombie(s) == ses[s].state = "open" /\ ses[s].dev # at

\* DetectMyNeed finds a device that is not ignored and makes a session for it,
\* or it is looked at again later.
DetectMyNeed(s, sessions) ==
    /\ Fresh(s)
    /\ ses' = Malloc(s, sessions)
    /\ list' = Listed("ready", 0, Mount(at))
    /\ pending' = pending \cup {s}
    /\ incidents' = incidents \cup Overlap(sessions)
    /\ ignored' = [ignored EXCEPT ![Mount(at)] = "register"]
    /\ UNCHANGED <<delays, faults>>
ReviewUsbNodeLater(sessions, entry) ==
    /\ ses' = sessions /\ list' = entry
    /\ ignored' = [ignored EXCEPT ![Mount(at)] = "ignore"]
    /\ delays' = [delays EXCEPT ![Mount(at)] = @ + 1]
    /\ UNCHANGED <<pending, incidents>>

WatchUsbNodeChange ==
    \E k \in Registered \cup {0} :
        LET kicked == k # 0 /\ Zombie(k)
            sessions == IF kicked THEN [ses EXCEPT ![k].state = "dead"] ELSE ses
            entry == IF kicked THEN Offline(list) ELSE list
            new == at # 0 /\ ignored[Mount(at)] = "no"
        IN  /\ k = 0 <=> Registered = {}
            /\ kicked \/ new
            /\ rule' = IF kicked THEN CleanForwardMap(k) ELSE rule
            /\ \/ new /\ ~Claimed(sessions) /\ \E s \in Session : DetectMyNeed(s, sessions)
               \/ new /\ ReviewUsbNodeLater(sessions, entry)
                  /\ IF Claimed(sessions) THEN UNCHANGED faults ELSE Fault
               \/ ~new /\ ses' = sessions /\ list' = entry
                  /\ UNCHANGED <<pending, incidents, usbVars, faults>>
            /\ UNCHANGED <<theLink, copies, known, commands>>

\* ConnectDetectDaemon, on a session that may have been freed meanwhile.
FindDeviceByID(m) == at # 0 /\ Mount(at) = m /\ ~Claimed(ses)
ConnectDetectDaemon(s) ==
    \/ /\ FindDeviceByID(list.mount)
       /\ list' = Listed("connected", s, list.mount)
       /\ ses' = [ses EXCEPT ![s].state = IF @ = "dead" THEN @ ELSE "open",
                             ![s].dev = at, ![s].worker = TRUE]
       /\ incidents' = incidents \cup (IF ses[s].state = "dead" THEN {"early"} ELSE {})
       /\ UNCHANGED <<rule, faults>>
    \/ /\ IF FindDeviceByID(list.mount) THEN Fault ELSE UNCHANGED faults
       /\ FreeSession(s)
       /\ UNCHANGED incidents

\* Variant: one try too many.
GivesUpLate(s) == ses[s].retry > MaxRetry + 1
GivesUp(s) == ses[s].retry >= MaxRetry

\* Variant: the timer is not stopped when the session is given up.
UsbPreConnectStays(s) ==
    IF ses[s].state \in {"released", "gone"} THEN Undefined /\ UNCHANGED faults
    ELSE IF GivesUp(s)
    THEN FreeSession(s) /\ UNCHANGED <<pending, faults, incidents>>
    ELSE IF list.mount = 0
    THEN ses' = [ses EXCEPT ![s].retry = @ + 1] /\ UNCHANGED <<lists, pending, faults, incidents>>
    ELSE ConnectDetectDaemon(s) /\ pending' = pending \ {s}
UsbPreConnect(s) ==
    IF ses[s].state \in {"released", "gone"} THEN Undefined /\ UNCHANGED faults
    ELSE IF GivesUp(s)
    THEN FreeSession(s) /\ pending' = pending \ {s} /\ UNCHANGED <<faults, incidents>>
    ELSE IF list.mount = 0
    THEN ses' = [ses EXCEPT ![s].retry = @ + 1] /\ UNCHANGED <<lists, pending, faults, incidents>>
    ELSE ConnectDetectDaemon(s) /\ pending' = pending \ {s}
-----------------------------------------------------------------------------
(* UART: WatchUartDevPlugin lists the ports, a client opens them.          *)

\* The ports there are differ from those of the last time.
EnumSerialPort == known # (at # 0) /\ known' = ~known

\* A new port is listed, one that is gone unlisted if no session ever had it.
WatchUartDevPlugin ==
    /\ EnumSerialPort
    /\ list' = IF ~known /\ list = Unlisted THEN Listed("ready", 0, 0)
               ELSE IF known /\ list.session = 0 THEN Unlisted
               ELSE list
    /\ UNCHANGED <<theLink, rule, ses, pending, copies, usbVars, bounds, incidents>>

UartPreConnect(s) ==
    IF ses[s].retry > MaxRetry
    THEN FreeSession(s) /\ pending' = pending \ {s} /\ UNCHANGED incidents
    ELSE IF list = Unlisted
    THEN ses' = [ses EXCEPT ![s].retry = @ + 1] /\ UNCHANGED <<lists, pending, incidents>>
    ELSE \* ConnectDaemonByUart
         /\ list' = Listed("ready", s, 0)
         /\ ses' = [ses EXCEPT ![s].state = "open", ![s].worker = TRUE]
         /\ pending' = pending \ {s}
         /\ UNCHANGED <<rule, incidents>>

\* HdcHostTCP::Connect, which does not ask whether the session is dead.
Connect(s) ==
    \/ /\ at # 0
       /\ ses' = [ses EXCEPT ![s].state = IF @ = "dead" THEN @ ELSE "open",
                             ![s].dev = at, ![s].worker = TRUE]
       /\ UNCHANGED <<lists, faults>>
    \/ /\ IF at # 0 THEN Fault ELSE UNCHANGED faults
       /\ FreeSession(s)

PreConnect(s) ==
    /\ s \in pending
    /\ \/ Usb /\ UsbPreConnect(s)
       \/ link = "uart" /\ UartPreConnect(s) /\ UNCHANGED faults
       \/ link = "tcp" /\ Connect(s) /\ pending' = pending \ {s} /\ UNCHANGED incidents
    /\ UNCHANGED <<theLink, copies, usbVars, known, commands>>
-----------------------------------------------------------------------------
(* What clients ask for: tconn, tconn -remove, fport rm.                   *)

\* ConnectMyNeed writes the entry with no session.
ConnectMyNeed(s) ==
    /\ list' = Listed("ready", 0, 0)
    /\ ses' = [Malloc(s, ses) EXCEPT ![s].dev = at]
    /\ pending' = pending \cup {s}
    /\ incidents' = incidents \cup Overlap(ses)

\* OpenSerialPort of a port that is there and idle, or not.
OpenSerialPort(s, entry) ==
    \/ at # 0 /\ ConnectMyNeed(s)
    \/ list' = entry /\ UNCHANGED <<ses, pending, incidents>>

CreateConnect ==
    \E s \in Session :
        LET entry == IF list = Unlisted THEN Listed("unknown", 0, 0) ELSE list
        IN  /\ Fresh(s) /\ commands < MaxCommands[link]
            /\ commands' = commands + 1
            /\ entry.status # "connected" \* "Target is connected, repeat operation"
            /\ \/ link = "uart" /\ OpenSerialPort(s, entry)
               \/ /\ link # "uart"
                  /\ ses' = Malloc(s, ses)
                  /\ pending' = pending \cup {s}
                  /\ list' = [entry EXCEPT !.session = s]
                  /\ incidents' = incidents \cup Overlap(ses)
            /\ UNCHANGED <<theLink, rule, copies, usbVars, known, faults>>

\* The entry's session is used whatever became of it.
CommandRemoveSession ==
    /\ list # Unlisted /\ commands < MaxCommands[link]
    /\ commands' = commands + 1
    /\ IF list.session = 0 \/ ses[list.session].state = "gone"
       THEN /\ incidents' = incidents \cup {"removal", "undefined"}
            /\ UNCHANGED <<ses, lists>>
       ELSE FreeSession(list.session) /\ incidents' = incidents \cup {"removal"}
    /\ UNCHANGED <<theLink, pending, copies, usbVars, known, faults>>

CommandRemoveForward ==
    /\ rule # 0
    /\ rule' = 0
    /\ UNCHANGED <<theLink, list, ses, pending, copies, usbVars, known, bounds, incidents>>
-----------------------------------------------------------------------------
(* The worker of a session, and the link it works on.                      *)

\* ServerSessionHandshake, AUTH_OK: the entry is copied under the lock ...
HandshakeQuery(s) ==
    /\ ses[s].worker /\ ~ses[s].shaken /\ copies[s] = Unlisted
    /\ list # Unlisted
    /\ copies' = [copies EXCEPT ![s] = list]
    /\ UNCHANGED <<theLink, lists, ses, pending, usbVars, known, bounds, incidents>>
\* ... and written back under the lock, whatever happened between.
HandshakeUpdate(s) ==
    /\ copies[s] # Unlisted
    /\ list' = IF list = Unlisted THEN list ELSE [copies[s] EXCEPT !.status = "connected"]
    /\ copies' = [copies EXCEPT ![s] = Unlisted]
    /\ ses' = [ses EXCEPT ![s].shaken = TRUE]
    /\ incidents' = incidents \cup (IF Live(s) THEN {} ELSE {"late update"})
    /\ UNCHANGED <<theLink, rule, pending, usbVars, known, bounds>>

\* CMD_FORWARD_SUCCESS; AdminForwardMap does not replace a rule.
ForwardSuccess(s) ==
    /\ ses[s].worker /\ ses[s].shaken /\ rule = 0
    /\ rule' = s
    /\ incidents' = incidents \cup (IF Live(s) THEN {} ELSE {"late rule"})
    /\ UNCHANGED <<theLink, list, ses, pending, copies, usbVars, known, bounds>>

\* The link of a session is no more, because of the device or for another
\* reason: the transport frees the session.
Lost(s) == ses[s].state = "open" /\ ses[s].dev # at
LinkLost(s) ==
    /\ ses[s].state = "open"
    /\ IF Lost(s) THEN UNCHANGED faults ELSE Fault
    /\ FreeSession(s)
    /\ UNCHANGED <<theLink, pending, copies, usbVars, known, commands, incidents>>

\* OnTransferError of the UART: the entry has the session again, and is offline.
OnTransferError(s) ==
    /\ ses[s].state = "open"
    /\ IF Lost(s) THEN UNCHANGED faults ELSE Fault
    /\ ses' = [ses EXCEPT ![s].state = "dead"]
    /\ list' = Listed("offline", s, 0)
    /\ rule' = CleanForwardMap(s)
    /\ UNCHANGED <<theLink, pending, copies, usbVars, known, commands, incidents>>

Worker(s) == HandshakeQuery(s) \/ HandshakeUpdate(s) \/ ForwardSuccess(s)
Free(s) == FreeSessionContinue(s) \/ FreeSessionFinally(s)
Ends(s) == (link # "uart" /\ LinkLost(s)) \/ (link = "uart" /\ OnTransferError(s))
Watch == (Usb /\ WatchUsbNodeChange) \/ (link = "uart" /\ WatchUartDevPlugin)
Command == CreateConnect \/ CommandRemoveSession \/ CommandRemoveForward

Next ==
    /\ "undefined" \notin incidents
    /\ \/ Plug \/ Unplug \/ Watch \/ Command
       \/ \E s \in Session : PreConnect(s) \/ Worker(s) \/ Free(s) \/ Ends(s)
       \/ \E m \in Mounts : RemoveIgnoreDevice(m)

Spec == Init /\ [][Next]_vars

\* Timers fire, threads run, and a transport notices that its device is gone;
\* nobody has to attach a device, to type a command or to fail.
Goes == "undefined" \notin incidents
Fairness ==
    /\ WF_vars(Goes /\ Watch)
    /\ \A m \in Mounts : WF_vars(Goes /\ RemoveIgnoreDevice(m))
    /\ \A s \in Session :
        /\ WF_vars(Goes /\ PreConnect(s))
        /\ WF_vars(Goes /\ HandshakeUpdate(s))
        /\ WF_vars(Goes /\ Free(s))
        /\ WF_vars(Goes /\ Lost(s) /\ Ends(s))
FairSpec == Spec /\ Fairness
-----------------------------------------------------------------------------
(* Properties.                                                             *)

\* The variables have values the code can give them; pending timers and entries
\* are of sessions that were made.
TypeOK ==
    /\ link \in Links /\ at \in 0 .. MaxPlugs /\ plugs \in 0 .. MaxPlugs
    /\ list \in Entry \cup {Unlisted} /\ rule \in Pointer
    /\ ses \in [Session -> [state : {"none", "waiting", "open", "dead", "released", "gone"},
                            retry : 0 .. MaxRetry + 1, dev : 0 .. MaxPlugs,
                            worker : BOOLEAN, shaken : BOOLEAN]]
    /\ pending \subseteq {s \in Session : ses[s].state # "none"}
    /\ copies \in [Session -> Entry \cup {Unlisted}]
    /\ ignored \in [Mounts -> {"no", "register", "ignore"}]
    /\ delays \in [Mounts -> Nat] /\ known \in BOOLEAN
    /\ commands \in 0 .. MaxCommands[link] /\ faults \in 0 .. MaxFaults[link]
    /\ incidents \subseteq {"overlap", "late update", "late rule", "early", "removal", "undefined"}

\* The list says "connected" of a device only while it names an open session of
\* it, but for three incidents: the device had two sessions at once, a worker
\* wrote the entry of a session that was dead, a session was opened after it
\* had been removed.
ListIsTrue ==
    \/ incidents \cap {"overlap", "late update", "early"} # {}
    \/ list.status = "connected" => list.session # 0 /\ ses[list.session].state = "open"

\* A rule of the forward map belongs to an open session, unless a worker added
\* it for a session that was dead.
RuleIsReal == "late rule" \in incidents \/ rule = 0 \/ ses[rule].state = "open"

\* What list targets and fport ls show is there.
ListsAreTrue == ListIsTrue /\ RuleIsReal

\* Nothing the server does by itself, its timers above all, uses a session
\* that has been deleted: only the removal of a target does.
OwnSessionsExist == "undefined" \in incidents => "removal" \in incidents

\* Something happened that makes the next property fail, and is allowed to.
Disturbed == incidents \cap {"overlap", "late update", "early", "undefined"} # {}
\* A USB device that stays attached gets a session, though its address was
\* ignored for a session that failed or for one of an earlier attachment.
Exhausted == ses[MaxSessions].state # "none"
DeviceServed == \A a \in 1 .. MaxPlugs :
    (Usb /\ at = a) ~> (at # a \/ Disturbed \/ Exhausted
                        \/ \E s \in Session : ses[s].state = "open" /\ ses[s].dev = a)

\* A port that is there is opened again after an error of the link layer.
PortReopened == (at # 0 /\ list.status = "offline") ~> (at = 0 \/ list.status # "offline")
=============================================================================
