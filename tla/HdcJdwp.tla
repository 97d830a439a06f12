------------------------------- MODULE HdcJdwp -------------------------------
(***************************************************************************)
(* The processes that can be debugged: each connects to the daemon and     *)
(* says its pid.  The main loop accepts, reads and frees their             *)
(* connections; the poll thread watches the same descriptors to see a      *)
(* process end while the main loop is busy; both write mapCtxJdwp and tell *)
(* the trackers (hdc track-jpid) what it holds.  A worker makes and stops  *)
(* a tracker.  A descriptor that was closed is given out again, the lowest *)
(* first.                                                                  *)
(***************************************************************************)
EXTENDS Naturals, FiniteSets, FiniteSetsExt

CONSTANTS
    MaxPid,   \* the processes
    MaxConns, \* connections they make, in all
    Trackers, \* tasks of hdc track-jpid
    MaxList   \* processes whose list fits the buffer of ProcessListUpdated

ASSUME JdwpAssumption ==
    {MaxPid, MaxConns} \subseteq Nat \ {0} /\ MaxList \in Nat

VARIABLES
    conn,       \* the connections, as contexts of the daemon
    mapCtxJdwp, \* the context of each pid, 0 for none
    pollNodeMap,       \* the pid of each descriptor to watch
    freeContextMutex,  \* who holds it
    main,       \* what the main loop is at, and with which connection
    poll,       \* what the poll thread is at
    pollfds, size, \* what it polls, and the number of it
    events,     \* what poll returned: a descriptor and whose it was
    awaken,     \* the eventfd has been written, and poll saw it
    task, seen, \* the trackers, and the list each was sent last
    strayed     \* an event was taken for the next owner of its descriptor

table == <<mapCtxJdwp, pollNodeMap>>
thread == <<poll, pollfds, size, events, awaken>>
tracking == <<task, seen>>
vars == <<conn, table, freeContextMutex, main, thread, tracking, strayed>>

Conn == 1 .. MaxConns
Fd == 1 .. MaxConns
Pids == 1 .. MaxPid
NoPid == 0 \* as of a context that has not been told its pid
NoConn == [state |-> "none", pid |-> NoPid, fd |-> 0, peer |-> FALSE]
Idle == [at |-> "idle", c |-> 0]
Listed == {p \in Pids : mapCtxJdwp[p] # 0}
Nodes == {f \in Fd : pollNodeMap[f] # NoPid}
Owner(f) == {c \in Conn : conn[c].fd = f}

Init ==
    /\ conn = [c \in Conn |-> NoConn]
    /\ mapCtxJdwp = [p \in Pids |-> 0]
    /\ pollNodeMap = [f \in Fd |-> NoPid]
    /\ freeContextMutex = "free"
    /\ main = Idle
    /\ poll = "build" /\ pollfds = {} /\ size = 0 /\ events = {}
    /\ awaken = [written |-> FALSE, seen |-> FALSE]
    /\ task = [t \in Trackers |-> "none"] /\ seen = [t \in Trackers |-> {}]
    /\ strayed = FALSE

\* A process connects, again after its connection has ended.
Connect(c, p) ==
    /\ conn[c].state = "none" /\ \A d \in 1 .. c - 1 : conn[d].state # "none"
    /\ \A d \in Conn : conn[d].pid = p => ~conn[d].peer
    /\ conn' = [conn EXCEPT ![c] = [state |-> "queued", pid |-> p, fd |-> 0, peer |-> TRUE]]
    /\ UNCHANGED <<table, freeContextMutex, main, thread, tracking, strayed>>
Disconnect(c) ==
    /\ conn[c].peer
    /\ conn' = [conn EXCEPT ![c].peer = FALSE]
    /\ UNCHANGED <<table, freeContextMutex, main, thread, tracking, strayed>>
-----------------------------------------------------------------------------
(* The table.  AdminContext changes it, and then tells the trackers.       *)

\* RemoveFdFromPollList takes the first node of the pid, and there is one.
RemoveFdFromPollList(p) == [f \in Fd |-> IF pollNodeMap[f] = p THEN NoPid ELSE pollNodeMap[f]]
AdminContextRemove(p) ==
    /\ mapCtxJdwp' = IF p = NoPid THEN mapCtxJdwp ELSE [mapCtxJdwp EXCEPT ![p] = 0]
    /\ pollNodeMap' = RemoveFdFromPollList(p)

\* JdwpProcessListMsg of the table as it is by then: a list too long for the
\* buffer is cut to a size the copy after it refuses, and nothing is sent.
Fits == Cardinality(Listed) <= MaxList

\* Variant: a change is not told.
ProcessListKept == UNCHANGED seen
ProcessListUpdated ==
    seen' = [t \in Trackers |-> IF task[t] = "live" /\ Fits THEN Listed ELSE seen[t]]

\* Variant: the mutex is kept.
KeepsMutex == UNCHANGED freeContextMutex
Unlock == freeContextMutex' = "free"

CreateJdwpTracker(t) ==
    /\ task[t] = "none"
    /\ task' = [task EXCEPT ![t] = "live"]
    /\ seen' = [seen EXCEPT ![t] = IF Fits THEN Listed ELSE @]
    /\ UNCHANGED <<conn, table, freeContextMutex, main, thread, strayed>>
RemoveJdwpTracker(t) ==
    /\ task[t] = "live"
    /\ task' = [task EXCEPT ![t] = "stopped"]
    /\ UNCHANGED <<conn, table, freeContextMutex, main, thread, seen, strayed>>
-----------------------------------------------------------------------------
(* The main loop.                                                          *)

AcceptClient(c) ==
    /\ main = Idle /\ conn[c].state = "queued"
    /\ conn' = [conn EXCEPT ![c].state = "accepted",
                            ![c].fd = Min({f \in Fd : Owner(f) = {}})]
    /\ UNCHANGED <<table, freeContextMutex, main, thread, tracking, strayed>>

\* ReadStream of a pid.  The end of an earlier connection of the process has
\* been read before, for epoll reports what is ready first first.
ReadPid(c) ==
    /\ main = Idle /\ conn[c].state = "accepted"
    /\ \A d \in Conn \ {c} : conn[d].pid = conn[c].pid =>
           conn[d].state \in {"none", "queued", "closed", "deleted"}
    /\ conn' = [conn EXCEPT ![c].state = "registered"]
    /\ mapCtxJdwp' = [mapCtxJdwp EXCEPT ![conn[c].pid] = c]
    /\ main' = [at |-> "added", c |-> c]
    /\ UNCHANGED <<pollNodeMap, freeContextMutex, thread, tracking, strayed>>
AddUpdate ==
    /\ main.at = "added"
    /\ ProcessListUpdated
    /\ main' = [main EXCEPT !.at = "watch"]
    /\ UNCHANGED <<conn, table, freeContextMutex, thread, task, strayed>>

WakePollThread == [awaken EXCEPT !.written = TRUE]

\* emplace leaves a node that is there alone.
AddPollNode ==
    /\ main.at = "watch" /\ freeContextMutex = "free"
    /\ LET f == conn[main.c].fd
       IN  pollNodeMap' = [pollNodeMap EXCEPT ![f] = IF @ = NoPid THEN conn[main.c].pid ELSE @]
    /\ awaken' = WakePollThread
    /\ main' = Idle
    /\ UNCHANGED <<conn, mapCtxJdwp, freeContextMutex, poll, pollfds, size, events,
                   tracking, strayed>>

\* FreeContext, under the mutex: the end of the connection was read.  A context
\* whose pid was never read has pid 0.
PidOf(c) == IF conn[c].state = "registered" THEN conn[c].pid ELSE NoPid

\* Variant: a connection that ends with its pid read is left to the poll thread.
ReadEndOfUnknown(c) == conn[c].state = "accepted" /\ ~conn[c].peer
ReadEnd(c) == conn[c].state \in {"accepted", "registered"} /\ ~conn[c].peer
FreeContext(c) ==
    /\ main = Idle /\ freeContextMutex = "free" /\ ReadEnd(c)
    /\ freeContextMutex' = "main"
    /\ conn' = [conn EXCEPT ![c].state = "closed", ![c].fd = 0]
    /\ AdminContextRemove(PidOf(c))
    /\ main' = [at |-> "removed", c |-> c]
    /\ UNCHANGED <<thread, tracking, strayed>>
RemoveUpdate ==
    /\ main.at = "removed"
    /\ ProcessListUpdated
    /\ Unlock
    /\ main' = Idle
    /\ UNCHANGED <<conn, table, thread, task, strayed>>
DeleteContext(c) ==
    /\ main = Idle /\ conn[c].state = "closed"
    /\ conn' = [conn EXCEPT ![c].state = "deleted"]
    /\ UNCHANGED <<table, freeContextMutex, main, thread, tracking, strayed>>
-----------------------------------------------------------------------------
(* FdEventPollThread.                                                      *)

\* pollfds has the eventfd too, and size counts it: with one node more than
\* there were, size looks right and the vector is left as it is.
Build ==
    /\ poll = "build" /\ freeContextMutex = "free"
    /\ IF size # Cardinality(Nodes) \/ Nodes = {}
       THEN pollfds' = Nodes /\ size' = Cardinality(Nodes) + 1
       ELSE UNCHANGED <<pollfds, size>>
    /\ poll' = "sleep"
    /\ UNCHANGED <<conn, table, freeContextMutex, main, events, awaken, tracking, strayed>>

\* A closed descriptor is reported too, POLLNVAL.
Ready == {e \in Fd \X (Conn \cup {0}) :
    /\ e[1] \in pollfds
    /\ IF Owner(e[1]) = {} THEN e[2] = 0 ELSE e[2] \in Owner(e[1]) /\ ~conn[e[2]].peer}
Poll ==
    /\ poll = "sleep"
    /\ Ready # {} \/ awaken.written
    /\ events' = Ready
    /\ awaken' = [awaken EXCEPT !.seen = @ \/ awaken.written]
    /\ poll' = "events"
    /\ UNCHANGED <<conn, table, freeContextMutex, main, pollfds, size, tracking, strayed>>

\* Variant: the process to remove is remembered with the descriptor.
PolledPid(e) == IF e[2] = 0 THEN NoPid ELSE conn[e[2]].pid
\* The descriptor is looked up again: what is found may be of another process,
\* which has it now.
FoundPid(e) == pollNodeMap[e[1]]
Strays(e) == strayed \/ Owner(e[1]) \ {e[2]} # {}

FdEvent(e) ==
    LET p == FoundPid(e)
    IN  /\ poll = "events" /\ e \in events /\ freeContextMutex = "free"
        /\ events' = events \ {e}
        /\ IF p # NoPid /\ mapCtxJdwp[p] # 0
           THEN /\ AdminContextRemove(p)
                /\ strayed' = Strays(e)
                /\ freeContextMutex' = "poll" /\ poll' = "update"
           ELSE UNCHANGED <<table, strayed, freeContextMutex, poll>>
        /\ UNCHANGED <<conn, main, pollfds, size, awaken, tracking>>
PollUpdate ==
    /\ poll = "update"
    /\ ProcessListUpdated
    /\ Unlock
    /\ poll' = "events"
    /\ UNCHANGED <<conn, table, main, pollfds, size, events, awaken, task, strayed>>
\* The eventfd comes last.
DrainAwakenPollThread ==
    /\ poll = "events" /\ events = {}
    /\ awaken' = [written |-> awaken.written /\ ~awaken.seen, seen |-> FALSE]
    /\ poll' = "build"
    /\ UNCHANGED <<conn, table, freeContextMutex, main, pollfds, size, events, tracking, strayed>>

Main == AddUpdate \/ AddPollNode \/ RemoveUpdate
     \/ \E c \in Conn : AcceptClient(c) \/ ReadPid(c) \/ FreeContext(c) \/ DeleteContext(c)
PollThread == Build \/ Poll \/ PollUpdate \/ DrainAwakenPollThread
           \/ \E e \in events : FdEvent(e)
Next ==
    \/ Main \/ PollThread
    \/ \E c \in Conn : Disconnect(c) \/ \E p \in Pids : Connect(c, p)
    \/ \E t \in Trackers : CreateJdwpTracker(t) \/ RemoveJdwpTracker(t)

Spec == Init /\ [][Next]_vars

\* Both threads run, and the one that waits for the mutex gets it in the end.
Fairness ==
    /\ \A c \in Conn : SF_vars(FreeContext(c)) /\ WF_vars(DeleteContext(c))
                    /\ WF_vars(AcceptClient(c)) /\ WF_vars(ReadPid(c))
    /\ WF_vars(AddUpdate \/ RemoveUpdate) /\ SF_vars(AddPollNode)
    /\ WF_vars(PollUpdate \/ Poll \/ DrainAwakenPollThread) /\ SF_vars(Build)
    /\ SF_vars(\E e \in events : FdEvent(e))
FairSpec == Spec /\ Fairness
-----------------------------------------------------------------------------
(* Properties.                                                             *)

\* The variables have values the code can give them; a descriptor belongs to
\* one connection, a process has one descriptor to poll at most, and the mutex
\* is held by the thread that is between its two updates.
TypeOK ==
    /\ conn \in [Conn -> [state : {"none", "queued", "accepted", "registered", "closed", "deleted"},
                          pid : Pids \cup {NoPid}, fd : Fd \cup {0}, peer : BOOLEAN]]
    /\ mapCtxJdwp \in [Pids -> Conn \cup {0}]
    /\ pollNodeMap \in [Fd -> Pids \cup {NoPid}]
    /\ pollfds \subseteq Fd /\ size \in 0 .. MaxConns + 1
    /\ \A f \in Fd : Cardinality(Owner(f)) <= 1
    /\ \A p \in Pids : Cardinality({f \in Fd : pollNodeMap[f] = p}) <= 1
    /\ (main.at = "removed") = (freeContextMutex = "main")
    /\ (poll = "update") = (freeContextMutex = "poll")

\* A process that has said its pid and is still connected can be debugged,
\* unless the poll thread took an event of a connection that was closed for one
\* of the connection that has its descriptor now.
LiveListed == \A c \in Conn :
    conn[c].state = "registered" /\ conn[c].peer /\ ~strayed => mapCtxJdwp[conn[c].pid] = c

\* When neither thread is about to tell it, a tracker knows the list, provided
\* that the list has always fitted the buffer.
TrackersKnow ==
    Cardinality(Pids) <= MaxList /\ main.at \notin {"added", "removed"} /\ poll # "update" =>
        \A t \in Trackers : task[t] = "live" => seen[t] = Listed

\* A process that has gone is no longer offered, and its context is deleted.
GoneUnlisted == \A c \in Conn :
    (conn[c].state = "registered" /\ ~conn[c].peer)
        ~> (conn[c].state = "deleted" /\ \A p \in Pids : mapCtxJdwp[p] # c)
=============================================================================
