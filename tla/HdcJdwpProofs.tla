---------------------------- MODULE HdcJdwpProofs ----------------------------
(***************************************************************************)
(* Proofs about HdcJdwp for any number of processes, connections and       *)
(* trackers and any size of the list: the type invariant, that a connected *)
(* process is listed, and that the trackers know the list.                 *)
(***************************************************************************)
EXTENDS HdcJdwp, FiniteSetTheorems, WellFoundedInduction, TLAPS

ConnStates == {"none", "queued", "accepted", "registered", "closed", "deleted"}
ConnType == [state : ConnStates, pid : Pids \cup {NoPid}, fd : Fd \cup {0}, peer : BOOLEAN]

\* The values of the variables.
Types ==
    /\ conn \in [Conn -> ConnType]
    /\ mapCtxJdwp \in [Pids -> Conn \cup {0}]
    /\ pollNodeMap \in [Fd -> Pids \cup {NoPid}]
    /\ pollfds \subseteq Fd /\ size \in 0 .. MaxConns + 1
    /\ task \in [Trackers -> {"none", "live", "stopped"}]
    /\ seen \in [Trackers -> SUBSET Pids]

\* A connection has a descriptor while it is open, and one of its own; it has a
\* process from the start.
ConnInv ==
    /\ \A c \in Conn : /\ conn[c].fd # 0 <=> conn[c].state \in {"accepted", "registered"}
                       /\ conn[c].pid = NoPid <=> conn[c].state = "none"
    /\ \A c, d \in Conn : conn[c].fd = conn[d].fd /\ conn[c].fd # 0 => c = d

\* Of the connections whose pid has been read no two are of one process, and the
\* two tables are about them.
TableInv ==
    /\ \A c, d \in Conn : conn[c].state = "registered" /\ conn[d].state = "registered"
                          /\ conn[c].pid = conn[d].pid => c = d
    /\ \A p \in Pids : mapCtxJdwp[p] # 0 =>
          conn[mapCtxJdwp[p]].state = "registered" /\ conn[mapCtxJdwp[p]].pid = p
    /\ \A f \in Fd : pollNodeMap[f] # NoPid => \E c \in Conn :
          conn[c].state = "registered" /\ conn[c].fd = f /\ conn[c].pid = pollNodeMap[f]

\* The mutex is held between a removal and what is told of it, and the main loop
\* is not done with a connection that it has just read the pid of.
MutexInv ==
    /\ freeContextMutex = "main" <=> main.at = "removed"
    /\ freeContextMutex = "poll" <=> poll = "update"
    /\ main = Idle \/ (main.at \in {"added", "watch", "removed"} /\ main.c \in Conn)
    /\ main.at \in {"added", "watch"} => conn[main.c].state = "registered"

\* An event that names a connection came after its other end had gone.
EventInv == \A e \in events :
    /\ e[1] \in Fd /\ e[2] \in Conn \cup {0}
    /\ e[2] # 0 => conn[e[2]].state # "none" /\ ~conn[e[2]].peer

IInv == Types /\ ConnInv /\ TableInv /\ MutexInv /\ EventInv /\ LiveListed /\ TrackersKnow
-----------------------------------------------------------------------------
(* Lemmas about numbers and sets.                                          *)

\* A number that names nothing is no connection, descriptor or process.
LEMMA NotZero == 0 \notin Conn /\ 0 \notin Fd /\ 0 \notin Pids
BY JdwpAssumption DEF JdwpAssumption, Conn, Fd, Pids

\* The least element of a set of numbers is one of its elements.
LEMMA LeastElement ==
    ASSUME NEW S, S \subseteq Nat, S # {}
    PROVE  Min(S) \in S
<1> DEFINE R == {ss \in Nat \X Nat : ss[1] < ss[2]}
<1>1. IsWellFoundedOn(R, Nat)
  BY NatLessThanWellFounded, Zenon DEF OpToRel
<1>2. \A x, y \in Nat : y < x => <<y, x>> \in R
  OBVIOUS
<1>3. PICK x \in S : \A y \in S : ~ (<<y, x>> \in R)
  <2> HIDE DEF R
  <2> QED BY <1>1, WFMin, Zenon
<1> HIDE DEF R
<1>4. ASSUME NEW y \in S PROVE x =< y
  <2>1. x \in Nat /\ y \in Nat
    OBVIOUS
  <2>2. ~ (y < x)
    BY <1>2, <1>3, <2>1
  <2> QED BY <2>1, <2>2
<1>5. \E z \in S : \A y \in S : z =< y
  BY <1>4
<1> QED BY <1>5 DEF Min

\* A set of which any two elements are equal has at most one.
LEMMA AtMostOne ==
    ASSUME NEW S, \A x, y \in S : x = y
    PROVE  Cardinality(S) <= 1
<1>1. CASE S = {}
  BY <1>1, FS_EmptySet
<1>2. CASE S # {}
  <2>1. PICK x \in S : TRUE
    BY <1>2
  <2>2. S = {x}
    BY <2>1
  <2>3. Cardinality({x}) = 1
    BY FS_Singleton
  <2> QED BY <2>2, <2>3
<1> QED BY <1>1, <1>2

\* While a connection has no descriptor, one is free: there are as many as
\* connections, and none has two.
LEMMA FreeDescriptor ==
    ASSUME NEW c \in Conn, conn[c].fd = 0
    PROVE  LET F == {f \in Fd : Owner(f) = {}} IN Min(F) \in F
<1> DEFINE F == {f \in Fd : Owner(f) = {}}
<1>1. ASSUME F = {} PROVE FALSE
  <2> DEFINE Others == Conn \ {c}
             owner == [f \in Fd |-> CHOOSE d \in Conn : conn[d].fd = f]
  <2>1. \A f \in Fd : owner[f] \in Others /\ conn[owner[f]].fd = f
    BY <1>1, NotZero DEF Owner
  <2>2. owner \in [Fd -> Others]
    BY <2>1
  <2>3. IsFiniteSet(Conn) /\ Cardinality(Conn) = MaxConns
    BY JdwpAssumption, FS_Interval DEF JdwpAssumption, Conn
  <2>4. IsFiniteSet(Others) /\ Cardinality(Others) = MaxConns - 1
    BY <2>3, FS_RemoveElement
  <2>5. Fd = Conn
    BY DEF Fd, Conn
  <2> HIDE DEF owner, Others
  <2>6. \E f, g \in Fd : f # g /\ owner[f] = owner[g]
    <3>1. Cardinality(Others) < Cardinality(Fd)
      BY <2>3, <2>4, <2>5, JdwpAssumption DEF JdwpAssumption
    <3> QED BY <2>2, <2>3, <2>4, <2>5, <3>1, FS_PigeonHole
  <2> QED BY <2>1, <2>6
<1>2. F \subseteq Nat
  BY DEF Fd
<1> HIDE DEF F
<1>3. Min(F) \in F
  BY <1>1, <1>2, LeastElement
<1> QED BY <1>3 DEF F

\* The list fits the buffer when all processes together do.
LEMMA AllFit ==
    ASSUME Cardinality(Pids) <= MaxList
    PROVE  Fits
<1>1. Listed \subseteq Pids
  BY DEF Listed
<1>2. IsFiniteSet(Pids) /\ Cardinality(Pids) \in Nat
  BY JdwpAssumption, FS_Interval, FS_CardinalityType DEF JdwpAssumption, Pids
<1>3. Cardinality(Listed) \in Nat /\ Cardinality(Listed) <= Cardinality(Pids)
  BY <1>1, <1>2, FS_Subset, FS_CardinalityType
<1> QED BY <1>2, <1>3, JdwpAssumption DEF JdwpAssumption, Fits
-----------------------------------------------------------------------------
(* Every action preserves the invariant: one lemma per action, its steps   *)
(* are the parts of the invariant the action can disturb.                  *)

USE NotZero DEF table, thread, tracking, ConnStates, NoPid

\* One connection changes.
LEMMA ConnChanged ==
    ASSUME NEW c \in Conn, NEW r \in ConnType, conn \in [Conn -> ConnType],
           conn' = [conn EXCEPT ![c] = r]
    PROVE  /\ conn' \in [Conn -> ConnType]
           /\ conn'[c] = r
           /\ \A d \in Conn \ {c} : conn'[d] = conn[d]
OBVIOUS

\* What a change of a connection's state and descriptor leaves alone.
LEMMA DescriptorChanged ==
    ASSUME NEW c \in Conn, NEW st \in ConnStates, NEW f \in Fd \cup {0},
           conn \in [Conn -> ConnType],
           conn' = [conn EXCEPT ![c].state = st, ![c].fd = f]
    PROVE  /\ conn' \in [Conn -> ConnType]
           /\ conn'[c].state = st /\ conn'[c].fd = f
           /\ conn'[c].pid = conn[c].pid /\ conn'[c].peer = conn[c].peer
           /\ \A d \in Conn \ {c} : conn'[d] = conn[d]
<1> DEFINE a == [conn[c] EXCEPT !.state = st]
           r == [a EXCEPT !.fd = f]
<1>1. a \in ConnType /\ a.state = st /\ a.pid = conn[c].pid /\ a.peer = conn[c].peer
  BY DEF ConnType
<1>2. r \in ConnType /\ r.state = st /\ r.fd = f /\ r.pid = conn[c].pid
      /\ r.peer = conn[c].peer
  <2> HIDE DEF a
  <2> QED BY <1>1 DEF ConnType
<1>3. conn' = [conn EXCEPT ![c] = r]
  OBVIOUS
<1> HIDE DEF a, r
<1>4. conn' \in [Conn -> ConnType] /\ conn'[c] = r /\ \A d \in Conn \ {c} : conn'[d] = conn[d]
  BY <1>2, <1>3, ConnChanged
<1> QED BY <1>2, <1>4

\* Two of the parts are about few variables.
LEMMA SameTables ==
    ASSUME TableInv, LiveListed, UNCHANGED <<conn, mapCtxJdwp, pollNodeMap, strayed>>
    PROVE  TableInv' /\ LiveListed'
BY DEF TableInv, LiveListed

\* What the trackers know stays true while the table and the threads rest.
LEMMA SameTrackers ==
    ASSUME TrackersKnow, UNCHANGED <<mapCtxJdwp, main, poll, task, seen>>
    PROVE  TrackersKnow'
BY DEF TrackersKnow, Listed

\* The invariant holds at the start.
LEMMA InitInv == Init => IInv
<1> SUFFICES ASSUME Init PROVE IInv
  OBVIOUS
<1> USE DEF Init, NoConn, Idle
<1>1. Types
  BY JdwpAssumption DEF Types, ConnType, JdwpAssumption
<1>2. ConnInv /\ TableInv
  BY DEF ConnInv, TableInv
<1>3. MutexInv /\ EventInv
  BY DEF MutexInv, EventInv
<1>4. LiveListed /\ TrackersKnow
  BY DEF LiveListed, TrackersKnow
<1> QED BY <1>1, <1>2, <1>3, <1>4 DEF IInv

\* A process that connects keeps the invariant.
LEMMA ConnectInv ==
    ASSUME IInv, NEW c \in Conn, NEW p \in Pids, Connect(c, p)
    PROVE  IInv'
<1> USE DEF IInv
<1> DEFINE r == [state |-> "queued", pid |-> p, fd |-> 0, peer |-> TRUE]
<1>r. r \in ConnType /\ conn' = [conn EXCEPT ![c] = r]
  BY DEF Connect, Types, ConnType
<1>f. /\ conn' \in [Conn -> ConnType] /\ conn'[c] = r
      /\ \A d \in Conn \ {c} : conn'[d] = conn[d]
  <2> HIDE DEF r
  <2> QED BY <1>r, ConnChanged DEF Types
<1>0. /\ conn[c].state = "none" /\ conn[c].fd = 0 /\ conn'[c].fd = 0 /\ conn'[c].pid = p
      /\ conn'[c].state = "queued"
      /\ \A d \in Conn \ {c} : conn'[d] = conn[d]
      /\ UNCHANGED <<mapCtxJdwp, pollNodeMap, freeContextMutex, main, poll, events,
                     task, seen, strayed>>
  BY <1>f DEF Connect, ConnInv
<1> HIDE DEF r
<1>1. Types'
  BY <1>f DEF Connect, Types
<1>2. ConnInv'
  BY <1>0 DEF ConnInv
<1>3. TableInv'
  BY <1>0 DEF TableInv, Types
<1>4. MutexInv'
  BY <1>0 DEF MutexInv, Idle
<1>4e. EventInv'
  BY <1>0 DEF EventInv
<1>5. LiveListed'
  BY <1>0 DEF LiveListed
<1> QED BY <1>0, <1>1, <1>2, <1>3, <1>4, <1>4e, <1>5, SameTrackers

\* A process that ends keeps the invariant.
LEMMA DisconnectInv ==
    ASSUME IInv, NEW c \in Conn, Disconnect(c)
    PROVE  IInv'
<1> USE DEF IInv
<1> DEFINE r == [conn[c] EXCEPT !.peer = FALSE]
<1>r. r \in ConnType /\ conn' = [conn EXCEPT ![c] = r]
  BY DEF Disconnect, Types, ConnType
<1>f. /\ conn' \in [Conn -> ConnType] /\ conn'[c] = r
      /\ \A d \in Conn \ {c} : conn'[d] = conn[d]
  <2> HIDE DEF r
  <2> QED BY <1>r, ConnChanged DEF Types
<1>0. /\ \A d \in Conn : /\ conn'[d].state = conn[d].state /\ conn'[d].fd = conn[d].fd
                         /\ conn'[d].pid = conn[d].pid
                         /\ conn'[d].peer => conn[d].peer
      /\ UNCHANGED <<mapCtxJdwp, pollNodeMap, freeContextMutex, main, poll, events,
                     task, seen, strayed>>
  BY <1>f DEF Disconnect, Types, ConnType
<1> HIDE DEF r
<1>1. Types'
  BY <1>f DEF Disconnect, Types
<1>2. ConnInv' /\ TableInv'
  BY <1>0 DEF ConnInv, TableInv, Types
<1>3. MutexInv'
  BY <1>0 DEF MutexInv, Idle
<1>3e. EventInv'
  BY <1>0 DEF EventInv
<1>4. LiveListed'
  BY <1>0 DEF LiveListed
<1> QED BY <1>0, <1>1, <1>2, <1>3, <1>3e, <1>4, SameTrackers

\* A tracker that starts keeps the invariant.
LEMMA TrackerInv ==
    ASSUME IInv, NEW t \in Trackers, CreateJdwpTracker(t) \/ RemoveJdwpTracker(t)
    PROVE  IInv'
<1> USE DEF IInv, CreateJdwpTracker, RemoveJdwpTracker
<1>1. Types'
  BY DEF Types, Listed
<1>2. ConnInv' /\ MutexInv' /\ EventInv'
  BY DEF ConnInv, MutexInv, EventInv
<1>3. TableInv' /\ LiveListed'
  BY SameTables
<1>4. TrackersKnow'
  BY AllFit DEF Types, TrackersKnow, Listed
<1> QED BY <1>1, <1>2, <1>3, <1>4

\* AcceptClient keeps the invariant.
LEMMA AcceptClientInv ==
    ASSUME IInv, NEW c \in Conn, AcceptClient(c)
    PROVE  IInv'
<1> USE DEF IInv
<1> DEFINE f == Min({g \in Fd : Owner(g) = {}})
<1>1. f \in Fd /\ \A d \in Conn : conn[d].fd # f
  <2>1. conn[c].fd = 0
    BY DEF AcceptClient, ConnInv
  <2> QED BY <2>1, FreeDescriptor DEF Owner
<1>2. conn' = [conn EXCEPT ![c].state = "accepted", ![c].fd = f]
  BY DEF AcceptClient
<1> HIDE DEF f
<1>0. /\ conn' \in [Conn -> ConnType]
      /\ conn[c].state = "queued" /\ conn'[c].fd = f /\ conn'[c].pid = conn[c].pid
      /\ conn'[c].state = "accepted" /\ conn'[c].peer = conn[c].peer
      /\ \A d \in Conn \ {c} : conn'[d] = conn[d]
      /\ UNCHANGED <<mapCtxJdwp, pollNodeMap, pollfds, size, freeContextMutex, main, poll,
                     events, task, seen, strayed>>
  BY <1>1, <1>2, DescriptorChanged DEF AcceptClient, Types
<1>3. Types'
  BY <1>0 DEF Types
<1>4. ConnInv'
  BY <1>0, <1>1 DEF ConnInv
<1>5. TableInv'
  BY <1>0 DEF TableInv, Types
<1>6. MutexInv'
  BY <1>0 DEF MutexInv, Idle
<1>6e. EventInv'
  BY <1>0 DEF EventInv
<1>7. LiveListed'
  BY <1>0 DEF LiveListed
<1> QED BY <1>0, <1>3, <1>4, <1>5, <1>6, <1>6e, <1>7, SameTrackers

\* ReadPid keeps the invariant.
LEMMA ReadPidInv ==
    ASSUME IInv, NEW c \in Conn, ReadPid(c)
    PROVE  IInv'
<1> USE DEF IInv
<1> DEFINE p == conn[c].pid
<1> DEFINE r == [conn[c] EXCEPT !.state = "registered"]
<1>r. r \in ConnType /\ conn' = [conn EXCEPT ![c] = r]
  BY DEF ReadPid, Types, ConnType
<1>f. /\ conn' \in [Conn -> ConnType] /\ conn'[c] = r
      /\ \A d \in Conn \ {c} : conn'[d] = conn[d]
  <2> HIDE DEF r
  <2> QED BY <1>r, ConnChanged DEF Types
<1>0. /\ main = Idle /\ conn[c].state = "accepted" /\ p \in Pids /\ conn[c].fd # 0
      /\ conn'[c].fd = conn[c].fd /\ conn'[c].pid = p
      /\ conn'[c].state = "registered" /\ conn'[c].peer = conn[c].peer
      /\ \A d \in Conn \ {c} : conn'[d] = conn[d]
      /\ \A d \in Conn \ {c} : conn[d].pid = p => conn[d].state # "registered"
      /\ mapCtxJdwp' = [mapCtxJdwp EXCEPT ![p] = c]
      /\ main' = [at |-> "added", c |-> c]
      /\ UNCHANGED <<pollNodeMap, pollfds, size, freeContextMutex, poll, events, task,
                     seen, strayed>>
  BY <1>f DEF ReadPid, Types, ConnType, ConnInv
<1> HIDE DEF p
<1> HIDE DEF r
<1>1. Types'
  BY <1>0, <1>f DEF Types
<1>2. ConnInv'
  BY <1>0 DEF ConnInv
<1>3. TableInv'
  BY <1>0 DEF TableInv, Types
<1>4. MutexInv'
  BY <1>0 DEF MutexInv, Idle
<1>4e. EventInv'
  BY <1>0 DEF EventInv
<1>5. LiveListed'
  BY <1>0 DEF LiveListed, Types
<1>6. TrackersKnow'
  BY <1>0 DEF TrackersKnow
<1> QED BY <1>1, <1>2, <1>3, <1>4, <1>4e, <1>5, <1>6

\* AddUpdate keeps the invariant.
LEMMA AddUpdateInv ==
    ASSUME IInv, AddUpdate
    PROVE  IInv'
<1> USE DEF IInv
<1>0. /\ main.at = "added" /\ main'.at = "watch" /\ main'.c = main.c /\ main.c \in Conn
  BY DEF AddUpdate, MutexInv, Idle
<1>1. Types'
  BY DEF AddUpdate, ProcessListUpdated, Types, Listed
<1>2. ConnInv' /\ EventInv'
  BY DEF AddUpdate, ConnInv, EventInv
<1>3. MutexInv'
  BY <1>0 DEF AddUpdate, MutexInv, Idle
<1>4. TableInv' /\ LiveListed'
  BY SameTables DEF AddUpdate
<1>5. TrackersKnow'
  BY AllFit DEF AddUpdate, ProcessListUpdated, TrackersKnow, Listed
<1> QED BY <1>1, <1>2, <1>3, <1>4, <1>5

\* AddPollNode keeps the invariant.
LEMMA AddPollNodeInv ==
    ASSUME IInv, AddPollNode
    PROVE  IInv'
<1> USE DEF IInv
<1> DEFINE c == main.c
           f == conn[c].fd
<1>0. /\ main.at = "watch" /\ c \in Conn /\ conn[c].state = "registered"
      /\ f \in Fd /\ conn[c].pid \in Pids
      /\ pollNodeMap' = [pollNodeMap EXCEPT ![f] = IF pollNodeMap[f] = 0 THEN conn[c].pid
                                                   ELSE pollNodeMap[f]]
      /\ main' = Idle
      /\ UNCHANGED <<conn, mapCtxJdwp, pollfds, size, freeContextMutex, poll, events, task,
                     seen, strayed>>
  BY DEF AddPollNode, MutexInv, ConnInv, Types, ConnType, Idle
<1> HIDE DEF c, f
<1>1. Types'
  BY <1>0 DEF Types
<1>2. ConnInv' /\ EventInv'
  BY <1>0 DEF ConnInv, EventInv
<1>3. MutexInv'
  BY <1>0 DEF MutexInv, Idle
<1>4. TableInv'
  BY <1>0 DEF TableInv, Types, f
<1>5. LiveListed'
  BY <1>0 DEF LiveListed
<1>6. TrackersKnow'
  BY <1>0 DEF TrackersKnow, Listed, Idle
<1> QED BY <1>1, <1>2, <1>3, <1>4, <1>5, <1>6

\* FreeContext keeps the invariant.
LEMMA FreeContextInv ==
    ASSUME IInv, NEW c \in Conn, FreeContext(c)
    PROVE  IInv'
<1> USE DEF IInv
<1> DEFINE p == PidOf(c)
<1>1. /\ main = Idle /\ conn[c].state \in {"accepted", "registered"}
      /\ p \in Pids \cup {0}
      /\ p = IF conn[c].state = "registered" THEN conn[c].pid ELSE 0
  BY DEF FreeContext, ReadEnd, PidOf, Types, ConnType
<1>2. /\ conn' = [conn EXCEPT ![c].state = "closed", ![c].fd = 0]
      /\ mapCtxJdwp' = IF p = 0 THEN mapCtxJdwp ELSE [mapCtxJdwp EXCEPT ![p] = 0]
      /\ pollNodeMap' = [f \in Fd |-> IF pollNodeMap[f] = p THEN 0 ELSE pollNodeMap[f]]
      /\ main' = [at |-> "removed", c |-> c] /\ freeContextMutex = "free"
      /\ freeContextMutex' = "main"
      /\ UNCHANGED <<pollfds, size, poll, events, task, seen, strayed>>
  BY DEF FreeContext, AdminContextRemove, RemoveFdFromPollList
<1> HIDE DEF p
<1>0. /\ conn' \in [Conn -> ConnType]
      /\ conn'[c].state = "closed" /\ conn'[c].fd = 0
      /\ conn'[c].pid = conn[c].pid /\ conn'[c].peer = conn[c].peer
      /\ \A d \in Conn \ {c} : conn'[d] = conn[d]
  BY <1>2, DescriptorChanged DEF Types
<1>3. Types'
  <2>2. mapCtxJdwp' \in [Pids -> Conn \cup {0}]
    BY <1>1, <1>2 DEF Types
  <2>3. pollNodeMap' \in [Fd -> Pids \cup {NoPid}]
    BY <1>2 DEF Types
  <2> QED BY <1>0, <1>2, <2>2, <2>3 DEF Types
<1>4. ConnInv'
  BY <1>0, <1>1 DEF ConnInv
<1>5. TableInv'
  BY <1>0, <1>1, <1>2 DEF TableInv, Types
<1>6. MutexInv'
  BY <1>0, <1>1, <1>2 DEF MutexInv, Idle
<1>6e. EventInv'
  BY <1>0, <1>1, <1>2 DEF EventInv
<1>7. LiveListed'
  BY <1>0, <1>1, <1>2 DEF LiveListed, TableInv, Types
<1>8. TrackersKnow'
  BY <1>2 DEF TrackersKnow
<1> QED BY <1>3, <1>4, <1>5, <1>6, <1>6e, <1>7, <1>8

\* RemoveUpdate keeps the invariant.
LEMMA RemoveUpdateInv ==
    ASSUME IInv, RemoveUpdate
    PROVE  IInv'
<1> USE DEF IInv
<1>1. Types'
  BY DEF RemoveUpdate, ProcessListUpdated, Types, Listed
<1>2. ConnInv' /\ EventInv'
  BY DEF RemoveUpdate, ConnInv, EventInv
<1>3. MutexInv'
  BY DEF RemoveUpdate, Unlock, MutexInv, Idle
<1>4. TableInv' /\ LiveListed'
  BY SameTables DEF RemoveUpdate
<1>5. TrackersKnow'
  BY AllFit DEF RemoveUpdate, ProcessListUpdated, TrackersKnow, Listed
<1> QED BY <1>1, <1>2, <1>3, <1>4, <1>5

\* DeleteContext keeps the invariant.
LEMMA DeleteContextInv ==
    ASSUME IInv, NEW c \in Conn, DeleteContext(c)
    PROVE  IInv'
<1> USE DEF IInv
<1> DEFINE r == [conn[c] EXCEPT !.state = "deleted"]
<1>r. r \in ConnType /\ conn' = [conn EXCEPT ![c] = r]
  BY DEF DeleteContext, Types, ConnType
<1>f. /\ conn' \in [Conn -> ConnType] /\ conn'[c] = r
      /\ \A d \in Conn \ {c} : conn'[d] = conn[d]
  <2> HIDE DEF r
  <2> QED BY <1>r, ConnChanged DEF Types
<1>0. /\ main = Idle /\ conn[c].state = "closed" /\ conn'[c].state = "deleted"
      /\ conn'[c].fd = conn[c].fd /\ conn'[c].pid = conn[c].pid
      /\ conn'[c].peer = conn[c].peer
      /\ \A d \in Conn \ {c} : conn'[d] = conn[d]
      /\ UNCHANGED <<mapCtxJdwp, pollNodeMap, freeContextMutex, main, poll, events, task,
                     seen, strayed>>
  BY <1>f DEF DeleteContext, Types, ConnType
<1> HIDE DEF r
<1>1. Types'
  BY <1>f DEF DeleteContext, Types
<1>2. ConnInv'
  BY <1>0 DEF ConnInv
<1>3. TableInv'
  <2>1. \A d \in Conn : conn'[d].state = "registered" <=> conn[d].state = "registered"
    BY <1>0
  <2>2. \A d \in Conn : conn'[d].fd = conn[d].fd /\ conn'[d].pid = conn[d].pid
    BY <1>0
  <2> QED BY <1>0, <2>1, <2>2 DEF TableInv, Types
<1>4. MutexInv'
  BY <1>0 DEF MutexInv, Idle
<1>4e. EventInv'
  BY <1>0 DEF EventInv
<1>5. LiveListed'
  BY <1>0 DEF LiveListed
<1> QED BY <1>0, <1>1, <1>2, <1>3, <1>4, <1>4e, <1>5, SameTrackers

\* Build keeps the invariant.
LEMMA BuildInv ==
    ASSUME IInv, Build
    PROVE  IInv'
<1> USE DEF IInv
<1>1. Types'
  <2>1. Nodes \subseteq Fd
    BY DEF Nodes
  <2>2. IsFiniteSet(Fd) /\ Cardinality(Fd) = MaxConns
    BY JdwpAssumption, FS_Interval DEF JdwpAssumption, Fd
  <2>3. Cardinality(Nodes) \in 0 .. MaxConns
    BY <2>1, <2>2, FS_Subset, FS_CardinalityType, JdwpAssumption DEF JdwpAssumption
  <2>4. Cardinality(Nodes) + 1 \in 0 .. MaxConns + 1
    BY <2>3, JdwpAssumption DEF JdwpAssumption
  <2> QED BY <2>1, <2>4 DEF Build, Types
<1>2. ConnInv' /\ EventInv'
  BY DEF Build, ConnInv, EventInv
<1>3. MutexInv'
  BY DEF Build, MutexInv
<1>4. TableInv' /\ LiveListed'
  BY SameTables DEF Build
<1>5. TrackersKnow'
  BY DEF Build, TrackersKnow, Listed
<1> QED BY <1>1, <1>2, <1>3, <1>4, <1>5

\* Poll keeps the invariant.
LEMMA PollInv ==
    ASSUME IInv, Poll
    PROVE  IInv'
<1> USE DEF IInv
<1>1. Types' /\ ConnInv'
  BY DEF Poll, Types, ConnInv
<1>2. EventInv'
  <2>1. ASSUME NEW e \in Ready
        PROVE  /\ e[1] \in Fd /\ e[2] \in Conn \cup {0}
               /\ e[2] # 0 => conn[e[2]].state # "none" /\ ~conn[e[2]].peer
    <3>1. e[1] \in Fd /\ e[2] \in Conn \cup {0}
      BY DEF Ready
    <3>2. e[2] # 0 => e[2] \in Owner(e[1]) /\ ~conn[e[2]].peer
      BY DEF Ready
    <3>3. e[2] # 0 => conn[e[2]].fd = e[1] /\ e[1] # 0
      BY <3>1, <3>2 DEF Owner
    <3> QED BY <3>1, <3>2, <3>3 DEF ConnInv
  <2> QED BY <2>1 DEF Poll, EventInv
<1>3. MutexInv'
  BY DEF Poll, MutexInv
<1>4. TableInv' /\ LiveListed'
  BY SameTables DEF Poll
<1>5. TrackersKnow'
  BY DEF Poll, TrackersKnow, Listed
<1> QED BY <1>1, <1>2, <1>3, <1>4, <1>5

\* An event that takes away the process of a connection whose other end is still
\* there was of another connection, and then the run has strayed.
LEMMA FdEventInv ==
    ASSUME IInv, NEW e \in events, FdEvent(e)
    PROVE  IInv'
<1> USE DEF IInv
<1> DEFINE p == pollNodeMap[e[1]]
<1>0. /\ events' = events \ {e} /\ poll = "events" /\ freeContextMutex = "free"
      /\ UNCHANGED <<conn, main, pollfds, size, task, seen>>
      /\ e[1] \in Fd /\ e[2] \in Conn \cup {0} /\ p \in Pids \cup {0}
      /\ e[2] # 0 => ~conn[e[2]].peer
  BY DEF FdEvent, EventInv, Types
<1>1. ConnInv' /\ EventInv'
  BY <1>0 DEF ConnInv, EventInv
<1>2. CASE UNCHANGED <<table, strayed, freeContextMutex, poll>>
  <2>1. Types' /\ MutexInv'
    BY <1>0, <1>2 DEF Types, MutexInv
  <2>2. TableInv' /\ LiveListed'
    BY <1>0, <1>2, SameTables
  <2>3. TrackersKnow'
    BY <1>0, <1>2, SameTrackers
  <2> QED BY <1>1, <2>1, <2>2, <2>3
<1>3. CASE /\ p # 0 /\ AdminContextRemove(p) /\ strayed' = Strays(e)
           /\ freeContextMutex' = "poll" /\ poll' = "update"
  <2>1. /\ mapCtxJdwp' = [mapCtxJdwp EXCEPT ![p] = 0]
        /\ pollNodeMap' = [f \in Fd |-> IF pollNodeMap[f] = p THEN 0 ELSE pollNodeMap[f]]
    BY <1>3 DEF AdminContextRemove, RemoveFdFromPollList
  <2>2. PICK d \in Conn : /\ conn[d].state = "registered" /\ conn[d].fd = e[1]
                          /\ conn[d].pid = p
    BY <1>0, <1>3 DEF TableInv
  <2>3. ~strayed' => ~strayed /\ ~conn[d].peer
    <3>1. ~strayed' => ~Strays(e)
      BY <1>3, Zenon
    <3>2. ~Strays(e) => ~strayed /\ Owner(e[1]) \ {e[2]} = {}
      BY DEF Strays
    <3>3. d \in Owner(e[1])
      BY <2>2 DEF Owner
    <3> QED BY <1>0, <3>1, <3>2, <3>3
  <2> HIDE DEF p
  <2>4. Types'
    BY <1>0, <2>1 DEF Types
  <2>5. MutexInv'
    BY <1>0, <1>3 DEF MutexInv
  <2>6. TableInv'
    BY <1>0, <1>3, <2>1 DEF TableInv, Types
  <2>7. LiveListed'
    BY <1>0, <1>3, <2>1, <2>2, <2>3 DEF LiveListed, TableInv, Types
  <2>8. TrackersKnow'
    BY <1>3 DEF TrackersKnow
  <2> QED BY <1>1, <2>4, <2>5, <2>6, <2>7, <2>8
<1> QED BY <1>2, <1>3 DEF FdEvent, FoundPid

\* PollUpdate keeps the invariant.
LEMMA PollUpdateInv ==
    ASSUME IInv, PollUpdate
    PROVE  IInv'
<1> USE DEF IInv
<1>1. Types'
  BY DEF PollUpdate, ProcessListUpdated, Types, Listed
<1>2. ConnInv' /\ EventInv'
  BY DEF PollUpdate, ConnInv, EventInv
<1>3. MutexInv'
  BY DEF PollUpdate, Unlock, MutexInv
<1>4. TableInv' /\ LiveListed'
  BY SameTables DEF PollUpdate
<1>5. TrackersKnow'
  BY AllFit DEF PollUpdate, ProcessListUpdated, TrackersKnow, Listed
<1> QED BY <1>1, <1>2, <1>3, <1>4, <1>5

\* Drain keeps the invariant.
LEMMA DrainInv ==
    ASSUME IInv, DrainAwakenPollThread
    PROVE  IInv'
<1> USE DEF IInv, DrainAwakenPollThread
<1>1. Types' /\ ConnInv' /\ EventInv' /\ MutexInv'
  BY DEF Types, ConnInv, EventInv, MutexInv
<1>2. TableInv' /\ LiveListed'
  BY SameTables
<1>3. TrackersKnow'
  BY DEF TrackersKnow, Listed
<1> QED BY <1>1, <1>2, <1>3

\* Every step keeps the invariant.
LEMMA NextInv == IInv /\ [Next]_vars => IInv'
<1> SUFFICES ASSUME IInv, [Next]_vars PROVE IInv'
  OBVIOUS
<1>1. CASE UNCHANGED vars
  <2>1. Types' /\ ConnInv' /\ EventInv' /\ MutexInv'
    BY <1>1 DEF IInv, vars, Types, ConnInv, EventInv, MutexInv
  <2>2. TableInv' /\ LiveListed' /\ TrackersKnow'
    BY <1>1, SameTables, SameTrackers DEF IInv, vars
  <2> QED BY <2>1, <2>2 DEF IInv
<1>2. CASE Main
  BY <1>2, AddUpdateInv, AddPollNodeInv, RemoveUpdateInv, AcceptClientInv, ReadPidInv,
     FreeContextInv, DeleteContextInv DEF Main
<1>3. CASE PollThread
  BY <1>3, BuildInv, PollInv, PollUpdateInv, DrainInv, FdEventInv DEF PollThread
<1>4. CASE \E c \in Conn : Disconnect(c) \/ \E p \in Pids : Connect(c, p)
  BY <1>4, ConnectInv, DisconnectInv
<1>5. CASE \E t \in Trackers : CreateJdwpTracker(t) \/ RemoveJdwpTracker(t)
  BY <1>5, TrackerInv
<1> QED BY <1>1, <1>2, <1>3, <1>4, <1>5 DEF Next

-----------------------------------------------------------------------------
(* The theorems.                                                           *)

\* The invariant holds in every state the daemon can reach.
THEOREM Invariance == Spec => []IInv
<1>1. Init => IInv
  BY InitInv
<1>2. IInv /\ [Next]_vars => IInv'
  BY NextInv
<1> QED BY <1>1, <1>2, PTL DEF Spec

\* Types, one owner of a descriptor, one descriptor to watch of a process, and a
\* mutex held by the thread that is between the removal and what it tells of it.
THEOREM TypeCorrect == Spec => []TypeOK
<1>1. IInv => TypeOK
  <2> SUFFICES ASSUME IInv PROVE TypeOK
    OBVIOUS
  <2>1. ASSUME NEW f \in Fd PROVE Cardinality(Owner(f)) <= 1
    BY AtMostOne DEF IInv, ConnInv, Owner
  <2>2. ASSUME NEW p \in Pids PROVE Cardinality({f \in Fd : pollNodeMap[f] = p}) <= 1
    <3>1. \A f, g \in Fd : pollNodeMap[f] = p /\ pollNodeMap[g] = p => f = g
      BY DEF IInv, TableInv
    <3> QED BY <3>1, AtMostOne
  <2>3. /\ (main.at = "removed") = (freeContextMutex = "main")
        /\ (poll = "update") = (freeContextMutex = "poll")
    BY DEF IInv, MutexInv
  <2> QED BY <2>1, <2>2, <2>3 DEF IInv, Types, ConnType, TypeOK
<1> QED BY <1>1, Invariance, PTL

\* A process that has said its pid and is connected is in the table, as long as no
\* event of a closed connection was taken for one of the next owner of its
\* descriptor (AdminContext, called by both threads).
THEOREM ConnectedIsListed == Spec => []LiveListed
<1>1. IInv => LiveListed
  BY DEF IInv
<1> QED BY <1>1, Invariance, PTL

\* Whichever thread changed the table and whatever the other did in between, every
\* tracker that runs has the list when neither is about to tell it.
THEOREM TrackersAreTold == Spec => []TrackersKnow
<1>1. IInv => TrackersKnow
  BY DEF IInv
<1> QED BY <1>1, Invariance, PTL
=============================================================================
