-------------------------- MODULE HdcDevicesProofs --------------------------
(***************************************************************************)
(* Proofs about HdcDevices, for every number of sessions and attachments   *)
(* and on every kind of link: the variables keep their types, the server   *)
(* by itself uses no deleted session, and what the lists say of a session  *)
(* is true but for the incidents.                                          *)
(***************************************************************************)
EXTENDS HdcDevices, FiniteSetTheorems, TLAPS

States == {"none", "waiting", "open", "dead", "released", "gone"}
Entries == Entry \cup {Unlisted}
SesType == [state : States, retry : 0 .. MaxRetry + 1, dev : 0 .. MaxPlugs,
            worker : BOOLEAN, shaken : BOOLEAN]

\* TypeOK in terms of these sets; a pending session was made.
Types ==
    /\ link \in Links /\ at \in 0 .. MaxPlugs /\ plugs \in 0 .. MaxPlugs
    /\ list \in Entries /\ rule \in Pointer
    /\ ses \in [Session -> SesType]
    /\ pending \subseteq Session
    /\ copies \in [Session -> Entries]
    /\ ignored \in [Mounts -> {"no", "register", "ignore"}]
    /\ delays \in [Mounts -> Nat] /\ known \in BOOLEAN
    /\ commands \in 0 .. MaxCommands[link] /\ faults \in 0 .. MaxFaults[link]
    /\ incidents \subseteq {"overlap", "late update", "late rule", "early", "removal", "undefined"}
PendingMade == \A s \in pending : ses[s].state # "none"

\* The numbers of the sessions that were made are the first ones.
NumbersInv == \A s, t \in Session :
    s < t /\ ses[t].state # "none" => ses[s].state # "none"

\* A session has a worker from its opening until it is released, and an entry is
\* copied by workers only.
WorkerInv(s) ==
    /\ ses[s].state = "open" => ses[s].worker
    /\ ses[s].worker => ses[s].state \in {"open", "dead"}
    /\ copies[s] # Unlisted => ses[s].worker

\* A session with a timer or a connect request is waiting, unless a client removed
\* the target meanwhile; a connect request does not outlive the free.
PendingInv(s) == s \in pending =>
    \/ ses[s].state = "waiting"
    \/ /\ link # "uart" /\ "removal" \in incidents /\ ses[s].state # "open"
       /\ link = "tcp" => ses[s].state = "dead"

\* An entry names sessions that were made; that of a port, sessions it opened.
Named(p) == p = 0 \/ (ses[p].state # "none" /\ (link = "uart" => p \notin pending))
EntryInv == Named(list.session) /\ \A s \in Session : Named(copies[s].session)

\* While nothing of what makes the list untrue happened, at most one session is
\* alive, and the entry, as well as the copy of its worker, names it.
Quiet == incidents \cap {"overlap", "late update", "early"} = {}
OneLive == \A s, t \in Session : Live(s) /\ Live(t) => s = t
Names(s) ==
    /\ ses[s].state = "open" \/ (link = "tcp" /\ Live(s)) =>
          list # Unlisted /\ list.session = s
    /\ copies[s] # Unlisted /\ Live(s) => copies[s].session = s
ConnectedInv == list.status = "connected" => list.session # 0 /\ ses[list.session].state = "open"
QuietInv == Quiet => OneLive /\ (\A s \in Session : Names(s)) /\ ConnectedInv

IInv == /\ Types /\ PendingMade /\ NumbersInv
        /\ \A s \in Session : WorkerInv(s) /\ PendingInv(s)
        /\ EntryInv /\ QuietInv /\ RuleIsReal /\ OwnSessionsExist

-----------------------------------------------------------------------------
(* Lemmas about sessions and entries.                                      *)

\* From sessions f to sessions g only s changed; it has now state x and worker w.
Only(f, g, s, x, w) ==
    /\ g \in [Session -> SesType]
    /\ \A t \in Session \ {s} : g[t] = f[t]
    /\ g[s].state = x /\ g[s].worker = w

\* How the actions change the record of one session.
LEMMA SessionChanged ==
    ASSUME NEW f \in [Session -> SesType], NEW s \in Session
    PROVE  /\ \A x \in States : Only(f, [f EXCEPT ![s].state = x], s, x, f[s].worker)
           /\ \A n \in 0 .. MaxRetry + 1 :
                 Only(f, [f EXCEPT ![s].retry = n], s, f[s].state, f[s].worker)
           /\ \A w \in BOOLEAN : Only(f, [f EXCEPT ![s].shaken = w], s, f[s].state, f[s].worker)
           /\ \A d \in 0 .. MaxPlugs :
                 Only(f, [f EXCEPT ![s].dev = d], s, f[s].state, f[s].worker)
           /\ \A x \in States, w \in BOOLEAN :
                 Only(f, [f EXCEPT ![s].state = x, ![s].worker = w], s, x, w)
           /\ \A x \in States, d \in 0 .. MaxPlugs, w \in BOOLEAN :
                 Only(f, [f EXCEPT ![s].state = x, ![s].dev = d, ![s].worker = w], s, x, w)
<1>1. ASSUME NEW x \in States
      PROVE  Only(f, [f EXCEPT ![s].state = x], s, x, f[s].worker)
  <2> DEFINE q == [f[s] EXCEPT !.state = x]
  <2>1. q \in SesType /\ q.state = x /\ q.worker = f[s].worker
    BY DEF SesType
  <2>2. [f EXCEPT ![s].state = x] = [f EXCEPT ![s] = q]
    OBVIOUS
  <2> HIDE DEF q
  <2> QED BY <2>1, <2>2 DEF Only
<1>2. ASSUME NEW n \in 0 .. MaxRetry + 1
      PROVE  Only(f, [f EXCEPT ![s].retry = n], s, f[s].state, f[s].worker)
  <2> DEFINE q == [f[s] EXCEPT !.retry = n]
  <2>1. q \in SesType /\ q.state = f[s].state /\ q.worker = f[s].worker
    BY DEF SesType
  <2>2. [f EXCEPT ![s].retry = n] = [f EXCEPT ![s] = q]
    OBVIOUS
  <2> HIDE DEF q
  <2> QED BY <2>1, <2>2 DEF Only
<1>3. ASSUME NEW w \in BOOLEAN
      PROVE  Only(f, [f EXCEPT ![s].shaken = w], s, f[s].state, f[s].worker)
  <2> DEFINE q == [f[s] EXCEPT !.shaken = w]
  <2>1. q \in SesType /\ q.state = f[s].state /\ q.worker = f[s].worker
    BY DEF SesType
  <2>2. [f EXCEPT ![s].shaken = w] = [f EXCEPT ![s] = q]
    OBVIOUS
  <2> HIDE DEF q
  <2> QED BY <2>1, <2>2 DEF Only
<1>4. ASSUME NEW d \in 0 .. MaxPlugs
      PROVE  Only(f, [f EXCEPT ![s].dev = d], s, f[s].state, f[s].worker)
  <2> DEFINE q == [f[s] EXCEPT !.dev = d]
  <2>1. q \in SesType /\ q.state = f[s].state /\ q.worker = f[s].worker
    BY DEF SesType
  <2>2. [f EXCEPT ![s].dev = d] = [f EXCEPT ![s] = q]
    OBVIOUS
  <2> HIDE DEF q
  <2> QED BY <2>1, <2>2 DEF Only
<1>5. ASSUME NEW x \in States, NEW w \in BOOLEAN
      PROVE  Only(f, [f EXCEPT ![s].state = x, ![s].worker = w], s, x, w)
  <2> DEFINE q == [f[s] EXCEPT !.state = x, !.worker = w]
  <2>1. q \in SesType /\ q.state = x /\ q.worker = w
    BY DEF SesType
  <2>2. [f EXCEPT ![s].state = x, ![s].worker = w] = [f EXCEPT ![s] = q]
    OBVIOUS
  <2> HIDE DEF q
  <2> QED BY <2>1, <2>2 DEF Only
<1>6. ASSUME NEW x \in States, NEW d \in 0 .. MaxPlugs, NEW w \in BOOLEAN
      PROVE  Only(f, [f EXCEPT ![s].state = x, ![s].dev = d, ![s].worker = w], s, x, w)
  <2> DEFINE q == [f[s] EXCEPT !.state = x, !.dev = d, !.worker = w]
  <2>1. q \in SesType /\ q.state = x /\ q.worker = w
    BY DEF SesType
  <2>2. [f EXCEPT ![s].state = x, ![s].dev = d, ![s].worker = w] = [f EXCEPT ![s] = q]
    OBVIOUS
  <2> HIDE DEF q
  <2> QED BY <2>1, <2>2 DEF Only
<1> QED BY <1>1, <1>2, <1>3, <1>4, <1>5, <1>6

\* The fields of a session.
LEMMA SessionFields ==
    ASSUME NEW f \in [Session -> SesType], NEW s \in Session
    PROVE  /\ f[s].state \in States /\ f[s].worker \in BOOLEAN
           /\ f[s].retry \in 0 .. MaxRetry + 1 /\ f[s].dev \in 0 .. MaxPlugs
BY DEF SesType

\* The fields of an entry.
LEMMA EntryFields ==
    ASSUME NEW e \in Entries
    PROVE  /\ e.session \in Pointer /\ e.mount \in 0 .. MaxPlugs
           /\ e = Unlisted \/ e.status \in {"unknown", "ready", "connected", "offline"}
           /\ Unlisted.session = 0 /\ Unlisted.status = "none" /\ Unlisted.mount = 0
BY DevicesAssumption DEF Entries, Entry, Unlisted, Pointer, DevicesAssumption

\* A listed entry has the fields it was given.
LEMMA ListedFields ==
    ASSUME NEW x \in {"unknown", "ready", "connected", "offline"},
           NEW p \in Pointer, NEW m \in 0 .. MaxPlugs
    PROVE  LET e == Listed(x, p, m)
           IN  /\ e \in Entries /\ e # Unlisted
               /\ e.status = x /\ e.session = p /\ e.mount = m
BY DEF Entries, Entry, Unlisted, Listed

\* What becomes of an entry whose session is freed.
LEMMA OfflineFields ==
    ASSUME NEW e \in Entries
    PROVE  /\ Offline(e) \in Entries /\ (Offline(e) = Unlisted <=> e = Unlisted)
           /\ Offline(e).session = e.session /\ Offline(e).status # "connected"
<1>1. CASE e = Unlisted
  BY <1>1 DEF Offline, Entries, Unlisted
<1>2. CASE e # Unlisted
  <2>1. e \in Entry /\ Offline(e) = [e EXCEPT !.status = "offline"]
    BY <1>2 DEF Entries, Offline
  <2>2. /\ Offline(e) \in Entry /\ Offline(e).status = "offline"
        /\ Offline(e).session = e.session
    BY <2>1 DEF Entry
  <2> QED BY <1>2, <2>1, <2>2 DEF Entries, Unlisted
<1> QED BY <1>1, <1>2

\* A copy that is written back, and an entry for another session.
LEMMA EntryUpdated ==
    ASSUME NEW e \in Entries, e # Unlisted, NEW p \in Pointer
    PROVE  /\ LET c == [e EXCEPT !.status = "connected"]
              IN  /\ c \in Entries /\ c # Unlisted /\ c.session = e.session
                  /\ c.status = "connected"
           /\ LET c == [e EXCEPT !.session = p]
              IN  /\ c \in Entries /\ c # Unlisted /\ c.session = p
                  /\ c.status = e.status
<1>1. e \in Entry
  BY DEF Entries
<1>2. LET c == [e EXCEPT !.status = "connected"]
      IN  c \in Entry /\ c.session = e.session /\ c.status = "connected"
  BY <1>1 DEF Entry
<1>3. LET c == [e EXCEPT !.session = p]
      IN  /\ c \in Entry /\ c.session = p /\ c.status = e.status
          /\ c.status \in {"unknown", "ready", "connected", "offline"}
  BY <1>1 DEF Entry
<1> QED BY <1>2, <1>3 DEF Entries, Unlisted

\* The next number is that of a session that was not made, and all before it were.
LEMMA FreshNumber ==
    ASSUME NumbersInv, NEW s \in Session, Fresh(s)
    PROVE  /\ ses[s].state = "none"
           /\ \A t \in Session : t < s => ses[t].state # "none"
<1> DEFINE Used == {u \in Session : ses[u].state # "none"}
<1>0. MaxSessions \in Nat /\ s \in Nat \ {0} /\ s = 1 + Cardinality(Used)
  BY DevicesAssumption DEF DevicesAssumption, Session, Fresh
<1>1. IsFiniteSet(Session) /\ IsFiniteSet(Used) /\ Cardinality(Used) \in Nat
  <2>1. IsFiniteSet(Session)
    BY <1>0, FS_Interval DEF Session
  <2> QED BY <2>1, FS_Subset, FS_CardinalityType
<1>2. ASSUME NEW n \in Nat
      PROVE  IsFiniteSet(1 .. n) /\ Cardinality(1 .. n) = n
  <2>1. CASE n = 0
    BY <2>1, FS_EmptySet, FS_Interval
  <2>2. CASE n # 0
    BY <2>2, FS_Interval
  <2> QED BY <2>1, <2>2
<1>3. ses[s].state = "none"
  <2> SUFFICES ASSUME ses[s].state # "none" PROVE FALSE
    OBVIOUS
  <2>1. ASSUME NEW u \in 1 .. s PROVE u \in Used
    <3>1. u \in Session /\ (u < s \/ u = s)
      BY <1>0 DEF Session
    <3> QED BY <3>1 DEF NumbersInv
  <2>2. Cardinality(1 .. s) <= Cardinality(Used)
    BY <1>1, <2>1, FS_Subset
  <2> QED BY <1>0, <1>1, <1>2, <2>2
<1>4. ASSUME NEW t \in Session, t < s, ses[t].state = "none" PROVE FALSE
  <2>1. t \in Nat \ {0}
    BY <1>0 DEF Session
  <2>2. Used \subseteq 1 .. (t - 1)
    BY <1>0, <1>4, <2>1 DEF NumbersInv, Session
  <2>3. Cardinality(Used) <= Cardinality(1 .. (t - 1)) /\ t - 1 \in Nat
    BY <1>2, <2>1, <2>2, FS_Subset
  <2> QED BY <1>0, <1>1, <1>2, <1>4, <2>1, <2>3
<1> QED BY <1>3, <1>4

-----------------------------------------------------------------------------
(* Every action preserves the invariant.                                   *)

\* Types and PendingMade say what TypeOK says.
LEMMA TypesAre == TypeOK <=> Types /\ PendingMade
BY DEF TypeOK, Types, PendingMade, Entries, SesType, States

\* The constants, and the numbers of sessions.
LEMMA Numbers == /\ MaxPlugs \in Nat \ {0} /\ MaxSessions \in Nat \ {0}
                 /\ MaxRetry \in Nat \ {0} /\ Session \subseteq Pointer /\ 0 \in Pointer
                 /\ 0 \notin Session
                 /\ \A p \in Pointer : p = 0 \/ p \in Session
                 /\ \A l \in Links : MaxCommands[l] \in Nat /\ MaxFaults[l] \in Nat
BY DevicesAssumption DEF DevicesAssumption, Session, Pointer

\* Nothing happens to the sessions and to the entry.
LEMMA SameSessions ==
    ASSUME IInv, Types', UNCHANGED <<link, list, ses, pending, copies>>, rule' \in {rule, 0},
           incidents \subseteq incidents',
           "undefined" \in incidents' => "removal" \in incidents'
    PROVE  IInv'
<1> USE Numbers
<1>1. PendingMade'
  BY DEF IInv, PendingMade
<1>2. NumbersInv' /\ \A s \in Session : WorkerInv(s)'
  BY DEF IInv, NumbersInv, WorkerInv
<1>3. \A s \in Session : PendingInv(s)'
  BY DEF IInv, PendingInv
<1>4. EntryInv'
  BY DEF IInv, EntryInv, Named
<1>5. QuietInv'
  BY DEF IInv, QuietInv, Quiet, OneLive, Names, ConnectedInv, Live
<1>6. RuleIsReal'
  BY DEF IInv, RuleIsReal
<1> QED BY <1>1, <1>2, <1>3, <1>4, <1>5, <1>6 DEF IInv, OwnSessionsExist

\* FreeSession, as its callers see it.
LEMMA FreeSessionFacts ==
    ASSUME Types, NEW s \in Session, FreeSession(s)
    PROVE  /\ Only(ses, ses', s, IF Live(s) THEN "dead" ELSE ses[s].state, ses[s].worker)
           /\ list' \in Entries /\ (list' = Unlisted <=> list = Unlisted)
           /\ list'.session = list.session
           /\ list'.status = "connected" => ~Live(s) /\ list' = list
           /\ rule' \in {0, rule} /\ (Live(s) => rule' # s)
<1> USE Numbers
<1>1. CASE Live(s)
  <2>1. /\ ses' = [ses EXCEPT ![s].state = "dead"] /\ list' = Offline(list)
        /\ rule' = CleanForwardMap(s)
    BY <1>1 DEF FreeSession, Live
  <2>2. Only(ses, ses', s, "dead", ses[s].worker)
    BY <2>1, SessionChanged DEF Types, States
  <2> QED BY <1>1, <2>1, <2>2, OfflineFields DEF Types, CleanForwardMap
<1>2. CASE ~Live(s)
  <2>1. UNCHANGED <<ses, list, rule>>
    BY <1>2 DEF FreeSession, Live, lists
  <2> QED BY <1>2, <2>1 DEF Types, Only
<1> QED BY <1>1, <1>2

\* A session is freed, on the main loop or by its transport.
LEMMA SessionFreed ==
    ASSUME IInv, NEW s \in Session, FreeSession(s), Types',
           UNCHANGED <<link, copies>>, pending' \in {pending, pending \ {s}},
           incidents' \in {incidents, incidents \cup {"removal"}},
           s \in pending' => "removal" \in incidents' /\ link # "uart"
    PROVE  IInv'
<1> USE Numbers
<1> DEFINE x == IF Live(s) THEN "dead" ELSE ses[s].state
<1>0. Types /\ PendingMade
  BY DEF IInv
<1>1. /\ Only(ses, ses', s, x, ses[s].worker)
      /\ list' \in Entries /\ (list' = Unlisted <=> list = Unlisted)
      /\ list'.session = list.session
      /\ list'.status = "connected" => ~Live(s) /\ list' = list
      /\ rule' \in {0, rule} /\ (Live(s) => rule' # s)
  BY <1>0, FreeSessionFacts
<1>2. /\ \A t \in Session : /\ t # s => ses'[t] = ses[t]
                            /\ ses'[t].worker = ses[t].worker
      /\ ses'[s].state = x
      /\ ses[s].state = "none" <=> x = "none"
  BY <1>1 DEF Only, Live
<1>a. \A p \in pending' : p \in pending /\ p \in Session
  BY <1>0 DEF Types
<1>3. PendingMade'
  BY <1>0, <1>2, <1>a DEF PendingMade
<1>4. NumbersInv' /\ \A t \in Session : WorkerInv(t)'
  <2>1. NumbersInv'
    BY <1>2 DEF IInv, NumbersInv
  <2>2. \A t \in Session : WorkerInv(t)'
    BY <1>2 DEF IInv, WorkerInv, Live
  <2> QED BY <2>1, <2>2
<1>5. ASSUME NEW t \in Session PROVE PendingInv(t)'
  <2>1. CASE t # s
    BY <1>2, <2>1 DEF IInv, PendingInv
  <2>2. CASE t = s
    BY <1>2, <2>2 DEF IInv, PendingInv, Live
  <2> QED BY <2>1, <2>2
<1>6. EntryInv'
  <2>1. ASSUME NEW p \in Pointer, Named(p) PROVE Named(p)'
    BY <1>2, <1>a, <2>1 DEF Named
  <2> QED BY <1>0, <1>1, <2>1, EntryFields DEF IInv, EntryInv, Types
<1>7. QuietInv'
  <2> SUFFICES ASSUME Quiet PROVE OneLive' /\ (\A t \in Session : Names(t)') /\ ConnectedInv'
    BY DEF QuietInv, Quiet
  <2>1. OneLive /\ (\A t \in Session : Names(t)) /\ ConnectedInv
    BY DEF IInv, QuietInv
  <2>2. \A t \in Session : (Live(t)' => Live(t)) /\ (ses'[t].state = "open" => ses[t].state = "open")
    BY <1>2 DEF Live
  <2>3. OneLive'
    BY <2>1, <2>2 DEF OneLive
  <2>4. \A t \in Session : Names(t)'
    BY <1>1, <2>1, <2>2 DEF Names
  <2>5. ConnectedInv'
    <3>1. list.session = 0 \/ list.session \in Session
      BY <1>0, EntryFields DEF Types
    <3> QED BY <1>1, <1>2, <2>1, <3>1 DEF ConnectedInv, Live
  <2> QED BY <2>3, <2>4, <2>5
<1>8. RuleIsReal' /\ OwnSessionsExist'
  <2>1. rule \in Pointer
    BY <1>0 DEF Types
  <2>2. RuleIsReal'
    BY <1>1, <1>2, <2>1 DEF IInv, RuleIsReal, Live
  <2>3. OwnSessionsExist'
    BY DEF IInv, OwnSessionsExist
  <2> QED BY <2>2, <2>3
<1> QED BY <1>3, <1>4, <1>5, <1>6, <1>7, <1>8 DEF IInv

\* A try is counted.
LEMMA RetryCounted ==
    ASSUME IInv, NEW s \in Session, Only(ses, ses', s, ses[s].state, ses[s].worker), Types',
           UNCHANGED <<link, list, rule, pending, copies, incidents>>
    PROVE  IInv'
<1> USE Numbers
<1>1. \A t \in Session : ses'[t].state = ses[t].state /\ ses'[t].worker = ses[t].worker
  BY DEF Only
<1>2. PendingMade'
  BY <1>1 DEF IInv, PendingMade, Types
<1>3. NumbersInv' /\ (\A t \in Session : WorkerInv(t)') /\ (\A t \in Session : PendingInv(t)')
  BY <1>1 DEF IInv, NumbersInv, WorkerInv, PendingInv
<1>4. EntryInv'
  <2>1. ASSUME NEW p \in Pointer, Named(p) PROVE Named(p)'
    BY <1>1, <2>1 DEF Named
  <2> QED BY <2>1, EntryFields DEF IInv, EntryInv, Types
<1>5. QuietInv'
  <2>1. \A t \in Session : Live(t)' = Live(t)
    BY <1>1 DEF Live
  <2>2. list.session = 0 \/ list.session \in Session
    BY EntryFields DEF IInv, Types
  <2> QED BY <1>1, <2>1, <2>2 DEF IInv, QuietInv, Quiet, OneLive, Names, ConnectedInv
<1>6. RuleIsReal' /\ OwnSessionsExist'
  BY <1>1 DEF IInv, RuleIsReal, OwnSessionsExist, Types
<1> QED BY <1>2, <1>3, <1>4, <1>5, <1>6 DEF IInv

\* The device is listed, or unlisted, while the entry names no session.
LEMMA EntryListed ==
    ASSUME IInv, Types', UNCHANGED <<link, rule, ses, pending, copies, incidents>>,
           list = Unlisted \/ list.session = 0,
           list'.session = 0, list'.status # "connected"
    PROVE  IInv'
<1> USE Numbers
<1>1. list.session = 0
  BY DEF Unlisted
<1>2. PendingMade' /\ NumbersInv' /\ \A s \in Session : WorkerInv(s)' /\ PendingInv(s)'
  BY DEF IInv, PendingMade, NumbersInv, WorkerInv, PendingInv
<1>3. EntryInv'
  BY DEF IInv, EntryInv, Named
<1>4. QuietInv'
  <2> SUFFICES ASSUME Quiet PROVE OneLive' /\ (\A t \in Session : Names(t)') /\ ConnectedInv'
    BY DEF QuietInv, Quiet
  <2>1. OneLive' /\ ConnectedInv'
    BY DEF IInv, QuietInv, OneLive, Live, ConnectedInv
  <2>2. \A t \in Session : Names(t)'
    BY <1>1 DEF IInv, QuietInv, Names, Live
  <2> QED BY <2>1, <2>2
<1>5. RuleIsReal' /\ OwnSessionsExist'
  BY DEF IInv, RuleIsReal, OwnSessionsExist
<1> QED BY <1>2, <1>3, <1>4, <1>5 DEF IInv

\* The number of a new session is that of no session made before.
LEMMA SessionMade ==
    ASSUME IInv, Types', NEW s \in Session, Fresh(s), NEW K,
           \A t \in Session : /\ K[t].worker = ses[t].worker
                              /\ \/ K[t].state = ses[t].state
                                 \/ K[t].state = "dead" /\ ses[t].state = "open",
           Only(K, ses', s, "waiting", K[s].worker),
           UNCHANGED <<link, copies>>, pending' = pending \cup {s},
           rule' \in {0, rule}, \A t \in Session : rule' = t => K[t].state = ses[t].state,
           list' # Unlisted, list'.status # "connected", list'.session \in {0, s},
           link = "uart" => list'.session = 0, link = "tcp" => list'.session = s,
           incidents' = incidents \cup Overlap(K)
    PROVE  IInv'
<1> USE Numbers
<1>0. Types /\ PendingMade
  BY DEF IInv
<1>1. ses[s].state = "none" /\ \A t \in Session : t < s => ses[t].state # "none"
  BY FreshNumber DEF IInv
<1>2. /\ ~ses[s].worker /\ copies[s] = Unlisted
      /\ ses'[s].state = "waiting" /\ ~ses'[s].worker
      /\ \A t \in Session \ {s} :
            /\ ses'[t].worker = ses[t].worker
            /\ \/ ses'[t].state = ses[t].state
               \/ ses'[t].state = "dead" /\ ses[t].state = "open"
      /\ \A t \in Session \ {s} : ses'[t].state = K[t].state
  BY <1>1 DEF IInv, WorkerInv, Only
<1>3. s \notin pending
  BY <1>0, <1>1 DEF PendingMade
<1>4. PendingMade'
  <2>1. \A t \in Session : t = s \/ ses[t].state # "none" => ses'[t].state # "none"
    BY <1>2
  <2>2. \A t \in pending' : t \in Session /\ (t = s \/ ses[t].state # "none")
    BY <1>0 DEF PendingMade, Types
  <2> QED BY <2>1, <2>2 DEF PendingMade
<1>5. NumbersInv'
  <2>1. \A t \in Session : ses'[t].state = "none" <=> (t # s /\ ses[t].state = "none")
    BY <1>2
  <2>2. \A t, u \in Session : t < u => t # u
    BY DEF Session
  <2> QED BY <1>1, <2>1, <2>2 DEF IInv, NumbersInv
<1>6. ASSUME NEW t \in Session PROVE WorkerInv(t)' /\ PendingInv(t)'
  <2>1. CASE t = s
    BY <1>2, <2>1 DEF WorkerInv, PendingInv
  <2>2. CASE t # s
    <3>1. Overlap(K) \subseteq {"overlap"}
      BY DEF Overlap
    <3>2. WorkerInv(t) /\ PendingInv(t)
      BY DEF IInv
    <3>3. WorkerInv(t)'
      BY <1>2, <2>2, <3>2 DEF WorkerInv
    <3>4. PendingInv(t)'
      BY <1>2, <2>2, <3>1, <3>2 DEF PendingInv
    <3> QED BY <3>3, <3>4
  <2> QED BY <2>1, <2>2
<1>7. EntryInv'
  <2>1. ASSUME NEW p \in Pointer, Named(p) PROVE Named(p)'
    BY <1>1, <1>2, <2>1 DEF Named
  <2>2. Named(list.session)'
    <3>1. CASE list'.session = 0
      BY <3>1 DEF Named
    <3>2. CASE list'.session = s /\ link' # "uart"
      BY <1>2, <3>2 DEF Named
    <3> QED BY <3>1, <3>2
  <2>3. \A t \in Session : Named(copies[t].session)'
    <3>1. \A t \in Session : copies[t].session \in Pointer /\ copies'[t] = copies[t]
      BY <1>0, EntryFields DEF Types
    <3>2. \A t \in Session : Named(copies[t].session)
      BY DEF IInv, EntryInv
    <3> QED BY <2>1, <3>1, <3>2
  <2> QED BY <2>2, <2>3 DEF EntryInv
<1>8. QuietInv'
  <2> SUFFICES ASSUME Quiet' PROVE OneLive' /\ (\A t \in Session : Names(t)') /\ ConnectedInv'
    BY DEF QuietInv
  <2>1. \A t \in Session : K[t].state \notin {"waiting", "open"}
    BY DEF Quiet, Overlap
  <2>2. \A t \in Session \ {s} : ses'[t].state \notin {"waiting", "open"}
    BY <1>2, <2>1
  <2>3. OneLive' /\ ConnectedInv'
    BY <2>2 DEF OneLive, Live, ConnectedInv
  <2>4. \A t \in Session : Names(t)'
    BY <1>2, <2>2 DEF Names, Live
  <2> QED BY <2>3, <2>4
<1>9. RuleIsReal' /\ OwnSessionsExist'
  <2>1. Overlap(K) \subseteq {"overlap"}
    BY DEF Overlap
  <2>2. rule \in Pointer
    BY <1>0 DEF Types
  <2>3. RuleIsReal'
    <3>1. CASE rule' = 0 \/ "late rule" \in incidents
      BY <3>1 DEF RuleIsReal
    <3>2. CASE rule' # 0 /\ "late rule" \notin incidents
      <4>1. rule' = rule /\ rule \in Session /\ ses[rule].state = "open"
        BY <2>2, <3>2 DEF IInv, RuleIsReal
      <4>2. rule # s /\ K[rule].state = "open"
        BY <1>1, <4>1
      <4>3. ses'[rule].state = K[rule].state
        BY <1>2, <4>1, <4>2
      <4> QED BY <4>1, <4>2, <4>3 DEF RuleIsReal
    <3> QED BY <3>1, <3>2
  <2>4. OwnSessionsExist'
    BY <2>1 DEF IInv, OwnSessionsExist
  <2> QED BY <2>3, <2>4
<1> QED BY <1>4, <1>5, <1>6, <1>7, <1>8, <1>9 DEF IInv

\* A session that waits for it is opened; one that is dead by then stays so, and
\* has a device and a worker all the same.
LEMMA SessionOpened ==
    ASSUME IInv, Types', NEW s \in pending, ses[s].state \in {"waiting", "dead"},
           Only(ses, ses', s, IF ses[s].state = "dead" THEN "dead" ELSE "open", TRUE),
           UNCHANGED <<link, rule, copies>>, pending' = pending \ {s},
           incidents' \in {incidents, incidents \cup {"early"}},
           \/ link = "tcp" /\ list' = list
           \/ /\ list' # Unlisted /\ list'.session = s
              /\ ses[s].state = "dead" => "early" \in incidents'
    PROVE  IInv'
<1> USE Numbers
<1>0. Types /\ PendingMade /\ s \in Session
  BY DEF IInv, Types
<1>1. /\ \A t \in Session \ {s} : ses'[t] = ses[t]
      /\ ses'[s].state = IF ses[s].state = "dead" THEN "dead" ELSE "open"
      /\ ses'[s].worker
  BY DEF Only
<1>2. PendingMade'
  BY <1>0, <1>1 DEF PendingMade, Types
<1>3. NumbersInv' /\ \A t \in Session : WorkerInv(t)'
  <2>1. \A t \in Session : ses'[t].state = "none" <=> ses[t].state = "none"
    BY <1>1
  <2>2. NumbersInv'
    BY <2>1 DEF IInv, NumbersInv
  <2>3. \A t \in Session : WorkerInv(t)'
    BY <1>1 DEF IInv, WorkerInv
  <2> QED BY <2>2, <2>3
<1>4. \A t \in Session : PendingInv(t)'
  BY <1>1 DEF IInv, PendingInv
<1>5. EntryInv'
  <2>1. ASSUME NEW p \in Pointer, Named(p) PROVE Named(p)'
    BY <1>0, <1>1, <2>1 DEF Named
  <2>2. Named(s)'
    BY <1>1 DEF Named
  <2> QED BY <1>0, <2>1, <2>2, EntryFields DEF IInv, EntryInv, Types
<1>6. QuietInv'
  <2> SUFFICES ASSUME Quiet' PROVE OneLive' /\ (\A t \in Session : Names(t)') /\ ConnectedInv'
    BY DEF QuietInv
  <2>1. OneLive /\ (\A t \in Session : Names(t)) /\ ConnectedInv
    BY DEF IInv, QuietInv, Quiet
  <2>2. \A t \in Session : Live(t)' = Live(t)
    BY <1>1 DEF Live
  <2>3. OneLive'
    BY <2>1, <2>2 DEF OneLive
  <2>4. ASSUME NEW t \in Session PROVE Names(t)'
    <3>1. CASE t = s
      <4>1. ses[s].state = "waiting" => copies[s] = Unlisted
        BY <1>0 DEF IInv, WorkerInv
      <4>2. ~(ses[s].state = "waiting") => ~Live(s)'
        BY <1>1 DEF Live
      <4>3. Live(s)' => list' # Unlisted /\ list'.session = s
        BY <1>1, <2>1, <2>2, <1>0 DEF Names, Live
      <4> QED BY <1>1, <3>1, <4>1, <4>2, <4>3 DEF Names, Live
    <3>2. CASE t # s
      <4>1. CASE link = "tcp" /\ list' = list
        BY <1>1, <2>1, <2>2, <3>2, <4>1 DEF Names
      <4>2. CASE ~(link = "tcp" /\ list' = list)
        <5>1. Live(s) /\ ~Live(t)
          BY <1>0, <2>1, <3>2, <4>2 DEF OneLive, Live, Quiet
        <5> QED BY <1>1, <2>2, <5>1 DEF Names, Live
      <4> QED BY <4>1, <4>2
    <3> QED BY <3>1, <3>2
  <2>5. ConnectedInv'
    <3>1. CASE link = "tcp" /\ list' = list
      <4>1. list.session = 0 \/ list.session \in Session
        BY <1>0, EntryFields DEF Types
      <4> QED BY <1>1, <2>1, <3>1, <4>1 DEF ConnectedInv
    <3>2. CASE ~(link = "tcp" /\ list' = list)
      <4>1. list'.session = s /\ ses'[s].state = "open"
        BY <1>1, <3>2 DEF Quiet
      <4> QED BY <1>0, <4>1 DEF ConnectedInv
    <3> QED BY <3>1, <3>2
  <2> QED BY <2>3, <2>4, <2>5
<1>7. RuleIsReal' /\ OwnSessionsExist'
  <2>1. RuleIsReal'
    BY <1>0, <1>1 DEF IInv, RuleIsReal, Types
  <2> QED BY <2>1 DEF IInv, OwnSessionsExist
<1> QED BY <1>2, <1>3, <1>4, <1>5, <1>6, <1>7 DEF IInv

-----------------------------------------------------------------------------
(* The actions.                                                            *)

\* A bounded counter that is counted up stays within its bound.
LEMMA Counted ==
    ASSUME NEW n \in Nat, NEW c \in 0 .. n, NEW d, d = c \/ (c < n /\ d = c + 1)
    PROVE  d \in 0 .. n
OBVIOUS

\* The types of the variables but those of the sessions, of the list and of the bounds
\* change in few actions only.
LEMMA TypesKept ==
    ASSUME Types, list' \in Entries, rule' \in Pointer, ses' \in [Session -> SesType],
           pending' \subseteq Session, copies' \in [Session -> Entries],
           ignored' \in [Mounts -> {"no", "register", "ignore"}], delays' \in [Mounts -> Nat],
           known' \in BOOLEAN, UNCHANGED link, at' \in 0 .. MaxPlugs, plugs' \in 0 .. MaxPlugs,
           commands' = commands \/ (commands < MaxCommands[link] /\ commands' = commands + 1),
           faults' = faults \/ (faults < MaxFaults[link] /\ faults' = faults + 1),
           incidents' \subseteq incidents \cup
              {"overlap", "late update", "late rule", "early", "removal", "undefined"}
    PROVE  Types'
<1>1. /\ commands \in 0 .. MaxCommands[link] /\ faults \in 0 .. MaxFaults[link]
      /\ MaxCommands[link] \in Nat /\ MaxFaults[link] \in Nat
  BY Numbers DEF Types
<1>2. commands' \in 0 .. MaxCommands[link]
  BY <1>1, Counted
<1>3. faults' \in 0 .. MaxFaults[link]
  BY <1>1, Counted
<1> QED BY <1>2, <1>3 DEF Types

\* Where a device is, and its address.
LEMMA MountType ==
    ASSUME Types
    PROVE  Mount(at) \in 0 .. MaxPlugs /\ (at # 0 => Mount(at) \in Mounts)
<1>1. at \in 0 .. MaxPlugs /\ MaxPlugs \in Nat \ {0}
  BY Numbers DEF Types
<1> QED BY <1>1 DEF Mount, Mounts

\* Timers that will call RemoveIgnoreDevice are started.
LEMMA DelaysType ==
    ASSUME Types
    PROVE  /\ \A e \in Entries : DelayUsbNotify(e) \in [Mounts -> Nat]
           /\ \A m \in Mounts : [delays EXCEPT ![m] = @ + 1] \in [Mounts -> Nat]
<1>1. delays \in [Mounts -> Nat]
  BY DEF Types
<1>2. ASSUME NEW m \in Mounts PROVE [delays EXCEPT ![m] = @ + 1] \in [Mounts -> Nat]
  <2>1. delays[m] + 1 \in Nat
    BY <1>1
  <2> QED BY <1>1, <2>1
<1>3. ASSUME NEW e \in Entries PROVE DelayUsbNotify(e) \in [Mounts -> Nat]
  <2>1. e.mount \in 0 .. MaxPlugs /\ MaxPlugs \in Nat
    BY EntryFields, Numbers
  <2>2. e.mount = 0 \/ e.mount \in Mounts
    BY <2>1 DEF Mounts
  <2> QED BY <1>1, <1>2, <2>2 DEF DelayUsbNotify
<1> QED BY <1>2, <1>3

\* A device is attached or detached.
LEMMA LinkInv ==
    ASSUME IInv, Plug \/ Unplug
    PROVE  IInv'
<1> USE DEF theLink, lists, usbVars, bounds
<1>1. Types
  BY DEF IInv
<1>2. at' \in 0 .. MaxPlugs /\ plugs' \in 0 .. MaxPlugs
  <2>1. plugs \in 0 .. MaxPlugs /\ MaxPlugs \in Nat \ {0}
    BY <1>1, Numbers DEF Types
  <2>2. CASE Plug
    BY <2>1, <2>2 DEF Plug
  <2>3. CASE Unplug
    BY <2>1, <2>3 DEF Unplug
  <2> QED BY <2>2, <2>3
<1>3. Types'
  BY <1>1, <1>2 DEF Plug, Unplug, Types
<1> QED BY <1>3, SameSessions DEF Plug, Unplug, IInv, OwnSessionsExist

\* An address is looked at again.
LEMMA RemoveIgnoreDeviceInv ==
    ASSUME IInv, NEW m \in Mounts, RemoveIgnoreDevice(m)
    PROVE  IInv'
<1> USE DEF theLink, lists, usbVars, bounds
<1>1. Types
  BY DEF IInv
<1>2. delays' \in [Mounts -> Nat] /\ ignored' \in [Mounts -> {"no", "register", "ignore"}]
  <2>1. delays[m] \in Nat /\ delays[m] > 0 /\ delays \in [Mounts -> Nat]
    BY <1>1 DEF RemoveIgnoreDevice, Types
  <2>2. delays[m] - 1 \in Nat
    BY <2>1
  <2>3. delays' \in [Mounts -> Nat]
    BY <2>1, <2>2 DEF RemoveIgnoreDevice
  <2>4. ignored' \in [Mounts -> {"no", "register", "ignore"}]
    BY <1>1 DEF RemoveIgnoreDevice, Types
  <2> QED BY <2>3, <2>4
<1>3. Types'
  BY <1>1, <1>2 DEF RemoveIgnoreDevice, Types
<1> QED BY <1>3, SameSessions DEF RemoveIgnoreDevice, IInv, OwnSessionsExist

\* The worker of a freed session has ended.
LEMMA FreeSessionContinueInv ==
    ASSUME IInv, NEW s \in Session, FreeSessionContinue(s)
    PROVE  IInv'
<1> USE Numbers DEF theLink, lists, usbVars, bounds
<1>1. Types /\ PendingMade
  BY DEF IInv
<1>2. Only(ses, ses', s, "released", FALSE)
  <2>1. ses' = [ses EXCEPT ![s].state = "released", ![s].dev = 0, ![s].worker = FALSE]
    BY DEF FreeSessionContinue
  <2>2. 0 \in 0 .. MaxPlugs /\ FALSE \in BOOLEAN /\ "released" \in States
    BY DEF States
  <2> QED BY <1>1, <2>1, <2>2, SessionChanged DEF Types
<1>3. /\ \A t \in Session \ {s} : ses'[t] = ses[t]
      /\ ses'[s].state = "released" /\ ~ses'[s].worker /\ ses[s].state = "dead"
      /\ copies[s] = Unlisted
      /\ pending' \subseteq pending /\ (link = "tcp" => s \notin pending')
      /\ UNCHANGED <<link, list, rule, copies, incidents>>
  BY <1>2 DEF FreeSessionContinue, Only
<1>4. Types'
  BY <1>1, <1>2, <1>3 DEF FreeSessionContinue, Types, Only
<1>5. PendingMade'
  BY <1>1, <1>3 DEF PendingMade, Types
<1>6. NumbersInv'
  BY <1>3 DEF IInv, NumbersInv
<1>7. ASSUME NEW t \in Session PROVE WorkerInv(t)' /\ PendingInv(t)'
  BY <1>3 DEF IInv, WorkerInv, PendingInv
<1>8. EntryInv'
  <2>1. ASSUME NEW p \in Pointer, Named(p) PROVE Named(p)'
    BY <1>3, <2>1 DEF Named
  <2> QED BY <1>1, <1>3, <2>1, EntryFields DEF IInv, EntryInv, Types
<1>9. QuietInv' /\ RuleIsReal'
  <2>1. \A t \in Session : Live(t)' = Live(t) /\ (ses'[t].state = "open" <=> ses[t].state = "open")
    BY <1>3 DEF Live
  <2>2. list.session = 0 \/ list.session \in Session
    BY <1>1, EntryFields DEF Types
  <2>3. QuietInv'
    BY <1>3, <2>1, <2>2 DEF IInv, QuietInv, Quiet, OneLive, Names, ConnectedInv
  <2>4. RuleIsReal'
    BY <1>1, <1>3, <2>1 DEF IInv, RuleIsReal, Types
  <2> QED BY <2>3, <2>4
<1>10. OwnSessionsExist'
  BY <1>3 DEF IInv, OwnSessionsExist
<1> QED BY <1>4, <1>5, <1>6, <1>7, <1>8, <1>9, <1>10 DEF IInv

\* A session is deleted.
LEMMA FreeSessionFinallyInv ==
    ASSUME IInv, NEW s \in Session, FreeSessionFinally(s)
    PROVE  IInv'
<1> USE Numbers DEF theLink, lists, usbVars, bounds
<1>1. Types /\ PendingMade
  BY DEF IInv
<1>2. Only(ses, ses', s, "gone", ses[s].worker)
  BY <1>1, SessionChanged DEF FreeSessionFinally, Types, States
<1>3. /\ \A t \in Session \ {s} : ses'[t] = ses[t]
      /\ ses'[s].state = "gone" /\ ~ses[s].worker /\ ~ses'[s].worker
      /\ ses[s].state = "released" /\ copies[s] = Unlisted
      /\ UNCHANGED <<link, list, rule, copies, incidents, pending>>
  <2>1. ses[s].worker \in BOOLEAN
    BY <1>1, SessionFields DEF Types
  <2> QED BY <1>2, <2>1 DEF FreeSessionFinally, Only, IInv, WorkerInv
<1>4. Types'
  <2>1. delays' \in [Mounts -> Nat]
    BY <1>1, DelaysType DEF FreeSessionFinally, Types
  <2> QED BY <1>1, <1>2, <1>3, <2>1 DEF FreeSessionFinally, Types, Only
<1>5. PendingMade'
  BY <1>1, <1>3 DEF PendingMade, Types
<1>6. NumbersInv'
  BY <1>3 DEF IInv, NumbersInv
<1>7. ASSUME NEW t \in Session PROVE WorkerInv(t)' /\ PendingInv(t)'
  BY <1>3 DEF IInv, WorkerInv, PendingInv
<1>8. EntryInv'
  <2>1. ASSUME NEW p \in Pointer, Named(p) PROVE Named(p)'
    BY <1>3, <2>1 DEF Named
  <2> QED BY <1>1, <1>3, <2>1, EntryFields DEF IInv, EntryInv, Types
<1>9. QuietInv' /\ RuleIsReal'
  <2>1. \A t \in Session : Live(t)' = Live(t) /\ (ses'[t].state = "open" <=> ses[t].state = "open")
    BY <1>3 DEF Live
  <2>2. list.session = 0 \/ list.session \in Session
    BY <1>1, EntryFields DEF Types
  <2>3. QuietInv'
    BY <1>3, <2>1, <2>2 DEF IInv, QuietInv, Quiet, OneLive, Names, ConnectedInv
  <2>4. RuleIsReal'
    BY <1>1, <1>3, <2>1 DEF IInv, RuleIsReal, Types
  <2> QED BY <2>3, <2>4
<1>10. OwnSessionsExist'
  BY <1>3 DEF IInv, OwnSessionsExist
<1> QED BY <1>4, <1>5, <1>6, <1>7, <1>8, <1>9, <1>10 DEF IInv

\* The ports are listed.
LEMMA WatchUartInv ==
    ASSUME IInv, WatchUartDevPlugin
    PROVE  IInv'
<1> USE Numbers DEF theLink, lists, usbVars, bounds
<1>1. Types
  BY DEF IInv
<1>0. /\ known' \in BOOLEAN
      /\ UNCHANGED <<link, at, plugs, rule, ses, pending, copies, ignored, delays, commands,
                     faults, incidents>>
  BY DEF WatchUartDevPlugin, EnumSerialPort
<1>2. CASE list' = list
  <2>1. Types'
    BY <1>0, <1>1, <1>2 DEF Types
  <2> QED BY <1>2, <2>1, SameSessions DEF WatchUartDevPlugin, IInv, OwnSessionsExist
<1>3. CASE list' # list
  <2>1. /\ list = Unlisted \/ list.session = 0
        /\ list' = Listed("ready", 0, 0) \/ list' = Unlisted
    BY <1>3 DEF WatchUartDevPlugin
  <2>2. list' \in Entries /\ list'.session = 0 /\ list'.status # "connected"
    BY <2>1, ListedFields, EntryFields DEF Entries
  <2>3. Types'
    BY <1>0, <1>1, <2>2 DEF Types
  <2> QED BY <2>1, <2>2, <2>3, EntryListed DEF WatchUartDevPlugin
<1> QED BY <1>2, <1>3

\* A client removes a rule.
LEMMA CommandRemoveForwardInv ==
    ASSUME IInv, CommandRemoveForward
    PROVE  IInv'
<1> USE Numbers DEF theLink, lists, usbVars, bounds
<1>1. Types'
  BY DEF CommandRemoveForward, IInv, Types
<1> QED BY <1>1, SameSessions DEF CommandRemoveForward, IInv, OwnSessionsExist

\* A client removes a target: its session is freed, whatever it is.
LEMMA CommandRemoveSessionInv ==
    ASSUME IInv, CommandRemoveSession
    PROVE  IInv'
<1> USE Numbers DEF theLink, lists, usbVars, bounds
<1>1. Types /\ list.session \in Pointer
  BY EntryFields DEF IInv, Types
<1>2. CASE list.session = 0 \/ ses[list.session].state = "gone"
  <2>1. /\ incidents' = incidents \cup {"removal", "undefined"}
        /\ UNCHANGED <<link, at, plugs, list, ses, rule, pending, copies, ignored, delays, known,
                       faults>>
        /\ commands < MaxCommands[link] /\ commands' = commands + 1
    BY <1>2 DEF CommandRemoveSession
  <2>2. Types'
    BY <1>1, <2>1, TypesKept DEF Types
  <2> QED BY <2>1, <2>2, SameSessions
<1>3. CASE ~(list.session = 0 \/ ses[list.session].state = "gone")
  <2> DEFINE s == list.session
  <2>1. /\ incidents' = incidents \cup {"removal"} /\ FreeSession(s) /\ s \in Session
        /\ UNCHANGED <<link, at, plugs, pending, copies, ignored, delays, known, faults>>
        /\ commands < MaxCommands[link] /\ commands' = commands + 1
    BY <1>1, <1>3 DEF CommandRemoveSession
  <2>2. s \in pending => link # "uart"
    BY <1>3 DEF IInv, EntryInv, Named
  <2> HIDE DEF s
  <2>3. list' \in Entries /\ rule' \in Pointer /\ ses' \in [Session -> SesType]
    BY <1>1, <2>1, FreeSessionFacts DEF Types, Only
  <2>4. Types'
    BY <1>1, <2>1, <2>3, TypesKept DEF Types
  <2> QED BY <2>1, <2>2, <2>4, SessionFreed
<1> QED BY <1>2, <1>3

\* A transport frees its session.
LEMMA LinkLostInv ==
    ASSUME IInv, NEW s \in Session, link # "uart", LinkLost(s)
    PROVE  IInv'
<1> USE Numbers DEF theLink, lists, usbVars, bounds
<1>1. Types
  BY DEF IInv
<1>2. /\ FreeSession(s) /\ ses[s].state = "open"
      /\ UNCHANGED <<link, at, plugs, pending, copies, ignored, delays, known, commands, incidents>>
      /\ faults' = faults \/ (faults < MaxFaults[link] /\ faults' = faults + 1)
  BY DEF LinkLost, Fault
<1>3. list' \in Entries /\ rule' \in Pointer /\ ses' \in [Session -> SesType]
  BY <1>1, <1>2, FreeSessionFacts DEF Types, Only
<1>4. Types'
  BY <1>1, <1>2, <1>3, TypesKept DEF Types
<1>5. s \notin pending
  BY <1>2 DEF IInv, PendingInv
<1> QED BY <1>2, <1>4, <1>5, SessionFreed

\* The link layer of a UART frees its session.
LEMMA OnTransferErrorInv ==
    ASSUME IInv, NEW s \in Session, link = "uart", OnTransferError(s)
    PROVE  IInv'
<1> USE Numbers DEF theLink, lists, usbVars, bounds
<1>1. Types /\ PendingMade
  BY DEF IInv
<1>2. /\ ses[s].state = "open" /\ list' = Listed("offline", s, 0) /\ rule' = CleanForwardMap(s)
      /\ UNCHANGED <<link, at, plugs, pending, copies, ignored, delays, known, commands, incidents>>
      /\ faults' = faults \/ (faults < MaxFaults[link] /\ faults' = faults + 1)
  BY DEF OnTransferError, Fault
<1>3. Only(ses, ses', s, "dead", ses[s].worker)
  BY <1>1, SessionChanged DEF OnTransferError, Types, States
<1>4. /\ list' \in Entries /\ list' # Unlisted /\ list'.session = s /\ list'.status = "offline"
      /\ rule' \in {0, rule} /\ rule' # s
  BY <1>2, ListedFields DEF CleanForwardMap
<1>5. Types'
  BY <1>1, <1>2, <1>3, <1>4, TypesKept DEF Types, Only
<1>6. /\ \A t \in Session \ {s} : ses'[t] = ses[t]
      /\ \A t \in Session : ses'[t].worker = ses[t].worker
      /\ ses'[s].state = "dead"
  BY <1>3 DEF Only
<1>7. PendingMade'
  BY <1>1, <1>2, <1>6 DEF PendingMade, Types
<1>8. NumbersInv'
  BY <1>2, <1>6 DEF IInv, NumbersInv
<1>9. s \notin pending
  BY <1>2 DEF IInv, PendingInv
<1>10. ASSUME NEW t \in Session PROVE WorkerInv(t)' /\ PendingInv(t)'
  BY <1>2, <1>6, <1>9 DEF IInv, WorkerInv, PendingInv
<1>11. EntryInv'
  <2>1. ASSUME NEW p \in Pointer, Named(p) PROVE Named(p)'
    BY <1>2, <1>6, <2>1 DEF Named
  <2>2. Named(list.session)'
    BY <1>2, <1>4, <1>6, <1>9 DEF Named
  <2> QED BY <1>1, <1>2, <2>1, <2>2, EntryFields DEF IInv, EntryInv, Types
<1>12. QuietInv'
  <2> SUFFICES ASSUME Quiet PROVE OneLive' /\ (\A t \in Session : Names(t)') /\ ConnectedInv'
    BY <1>2 DEF QuietInv, Quiet
  <2>1. OneLive /\ (\A t \in Session : Names(t)) /\ ConnectedInv
    BY DEF IInv, QuietInv
  <2>2. \A t \in Session : ~Live(t)'
    BY <1>2, <1>6, <2>1 DEF Live, OneLive
  <2> QED BY <1>4, <2>2 DEF OneLive, Names, ConnectedInv, Live
<1>13. RuleIsReal' /\ OwnSessionsExist'
  <2>1. RuleIsReal'
    BY <1>1, <1>2, <1>4, <1>6 DEF IInv, RuleIsReal, Types
  <2> QED BY <1>2, <2>1 DEF IInv, OwnSessionsExist
<1> QED BY <1>5, <1>7, <1>8, <1>10, <1>11, <1>12, <1>13 DEF IInv

\* A worker adds a rule.
LEMMA ForwardSuccessInv ==
    ASSUME IInv, NEW s \in Session, ForwardSuccess(s)
    PROVE  IInv'
<1> USE Numbers DEF theLink, lists, usbVars, bounds
<1>1. Types
  BY DEF IInv
<1>2. /\ UNCHANGED <<link, list, ses, pending, copies>> /\ rule' = s /\ ses[s].worker
      /\ incidents' = incidents \cup (IF Live(s) THEN {} ELSE {"late rule"})
  BY DEF ForwardSuccess
<1>3. Types'
  BY <1>1, <1>2 DEF ForwardSuccess, Types
<1>4. RuleIsReal'
  <2>1. Live(s) => ses[s].state = "open"
    BY <1>2 DEF IInv, WorkerInv, Live
  <2> QED BY <1>2, <2>1 DEF RuleIsReal
<1>5. PendingMade' /\ NumbersInv' /\ \A t \in Session : WorkerInv(t)' /\ PendingInv(t)'
  BY <1>2 DEF IInv, PendingMade, NumbersInv, WorkerInv, PendingInv
<1>6. EntryInv' /\ OwnSessionsExist'
  BY <1>2 DEF IInv, EntryInv, Named, OwnSessionsExist
<1>7. QuietInv'
  BY <1>2 DEF IInv, QuietInv, Quiet, OneLive, Names, ConnectedInv, Live
<1> QED BY <1>3, <1>4, <1>5, <1>6, <1>7 DEF IInv

\* A worker copies the entry.
LEMMA HandshakeQueryInv ==
    ASSUME IInv, NEW s \in Session, HandshakeQuery(s)
    PROVE  IInv'
<1> USE Numbers DEF theLink, lists, usbVars, bounds
<1>1. Types
  BY DEF IInv
<1>2. /\ UNCHANGED <<link, list, rule, ses, pending, incidents>> /\ ses[s].worker
      /\ copies'[s] = list /\ copies' \in [Session -> Entries]
      /\ \A t \in Session \ {s} : copies'[t] = copies[t]
  BY <1>1 DEF HandshakeQuery, Types
<1>3. Types'
  BY <1>1, <1>2 DEF HandshakeQuery, Types
<1>4. PendingMade' /\ NumbersInv' /\ RuleIsReal' /\ OwnSessionsExist'
  BY <1>2 DEF IInv, PendingMade, NumbersInv, RuleIsReal, OwnSessionsExist
<1>5. ASSUME NEW t \in Session PROVE WorkerInv(t)' /\ PendingInv(t)'
  BY <1>2 DEF IInv, WorkerInv, PendingInv
<1>6. EntryInv'
  BY <1>2 DEF IInv, EntryInv, Named
<1>7. QuietInv'
  <2> SUFFICES ASSUME Quiet PROVE OneLive' /\ (\A t \in Session : Names(t)') /\ ConnectedInv'
    BY <1>2 DEF QuietInv, Quiet
  <2>1. OneLive' /\ ConnectedInv'
    BY <1>2 DEF IInv, QuietInv, OneLive, ConnectedInv, Live
  <2>2. Live(s) => ses[s].state = "open"
    BY <1>2 DEF IInv, WorkerInv, Live
  <2>3. ASSUME NEW t \in Session PROVE Names(t)'
    BY <1>2, <2>2 DEF IInv, QuietInv, Names, Live
  <2> QED BY <2>1, <2>3
<1> QED BY <1>3, <1>4, <1>5, <1>6, <1>7 DEF IInv

\* A worker writes the entry back.
LEMMA HandshakeUpdateInv ==
    ASSUME IInv, NEW s \in Session, HandshakeUpdate(s)
    PROVE  IInv'
<1> USE Numbers DEF theLink, lists, usbVars, bounds
<1>1. Types /\ PendingMade
  BY DEF IInv
<1>2. /\ UNCHANGED <<link, rule, pending>> /\ copies[s] # Unlisted /\ copies[s] \in Entries
      /\ copies'[s] = Unlisted /\ copies' \in [Session -> Entries]
      /\ \A t \in Session \ {s} : copies'[t] = copies[t]
      /\ incidents' = incidents \cup (IF Live(s) THEN {} ELSE {"late update"})
  BY <1>1 DEF HandshakeUpdate, Types, Entries
<1>3. /\ list' \in Entries
      /\ \/ list' = list /\ list = Unlisted
         \/ list' # Unlisted /\ list'.session = copies[s].session
  <2>1. CASE list = Unlisted
    BY <1>1, <2>1 DEF HandshakeUpdate, Types
  <2>2. CASE list # Unlisted
    BY <1>2, <2>2, EntryUpdated DEF HandshakeUpdate
  <2> QED BY <2>1, <2>2
<1>4. Only(ses, ses', s, ses[s].state, ses[s].worker)
  BY <1>1, SessionChanged DEF HandshakeUpdate, Types
<1>5. \A t \in Session : ses'[t].state = ses[t].state /\ ses'[t].worker = ses[t].worker
  BY <1>4 DEF Only
<1>6. Types'
  BY <1>1, <1>2, <1>3, <1>4 DEF HandshakeUpdate, Types, Only
<1>7. PendingMade' /\ NumbersInv'
  BY <1>1, <1>2, <1>5 DEF IInv, PendingMade, NumbersInv, Types
<1>8. ASSUME NEW t \in Session PROVE WorkerInv(t)' /\ PendingInv(t)'
  BY <1>2, <1>5 DEF IInv, WorkerInv, PendingInv
<1>9. EntryInv'
  <2>1. ASSUME NEW p \in Pointer, Named(p) PROVE Named(p)'
    BY <1>2, <1>5, <2>1 DEF Named
  <2>2. /\ list.session \in Pointer /\ Unlisted.session = 0
        /\ \A t \in Session : copies[t].session \in Pointer
    BY <1>1, EntryFields DEF Types
  <2>3. Named(list.session)'
    BY <1>2, <1>3, <2>1, <2>2 DEF IInv, EntryInv
  <2>4. \A t \in Session : Named(copies[t].session)'
    <3>1. Named(copies[s].session)'
      BY <1>2, <2>2 DEF Named
    <3>2. ASSUME NEW t \in Session \ {s} PROVE Named(copies[t].session)'
      BY <1>2, <2>1, <2>2 DEF IInv, EntryInv
    <3> QED BY <3>1, <3>2
  <2> QED BY <2>3, <2>4 DEF EntryInv
<1>10. QuietInv'
  <2> SUFFICES ASSUME Quiet' PROVE OneLive' /\ (\A t \in Session : Names(t)') /\ ConnectedInv'
    BY DEF QuietInv
  <2>1. OneLive /\ (\A t \in Session : Names(t)) /\ Live(s)
    BY <1>2 DEF IInv, QuietInv, Quiet
  <2>2. \A t \in Session : Live(t)' = Live(t)
    BY <1>5 DEF Live
  <2>3. ses[s].state = "open"
    BY <1>2, <2>1 DEF IInv, WorkerInv, Live
  <2>4. list' # Unlisted /\ list'.session = s
    BY <1>2, <1>3, <2>1, <2>3 DEF Names
  <2>5. OneLive' /\ ConnectedInv'
    BY <1>5, <2>1, <2>2, <2>3, <2>4 DEF OneLive, ConnectedInv
  <2>6. \A t \in Session : t # s => ~Live(t)
    BY <2>1 DEF OneLive
  <2>7. ASSUME NEW t \in Session PROVE Names(t)'
    BY <1>2, <1>5, <2>2, <2>4, <2>6 DEF Names, Live
  <2> QED BY <2>5, <2>7
<1>11. RuleIsReal' /\ OwnSessionsExist'
  BY <1>1, <1>2, <1>5 DEF IInv, RuleIsReal, OwnSessionsExist, Types
<1> QED BY <1>6, <1>7, <1>8, <1>9, <1>10, <1>11 DEF IInv

\* What a timer or a connect request leaves alone.
PreConnectFrame ==
    /\ UNCHANGED <<link, at, plugs, copies, ignored, delays, known, commands>>
    /\ faults' = faults \/ (faults < MaxFaults[link] /\ faults' = faults + 1)

\* The session is given up.
LEMMA GivenUp ==
    ASSUME IInv, NEW s \in pending, FreeSession(s), pending' = pending \ {s},
           UNCHANGED incidents, PreConnectFrame
    PROVE  IInv'
<1> USE Numbers
<1>1. Types /\ s \in Session
  BY DEF IInv, Types
<1>2. list' \in Entries /\ rule' \in Pointer /\ ses' \in [Session -> SesType]
  BY <1>1, FreeSessionFacts DEF Types, Only
<1>3. Types'
  BY <1>1, <1>2, TypesKept DEF Types, PreConnectFrame
<1> QED BY <1>1, <1>3, SessionFreed DEF PreConnectFrame

\* There is no entry yet: the timer will try again.
LEMMA TriedAgain ==
    ASSUME IInv, NEW s \in pending, ses' = [ses EXCEPT ![s].retry = @ + 1],
           ses[s].retry <= MaxRetry,
           UNCHANGED <<list, rule, pending, incidents>>, PreConnectFrame
    PROVE  IInv'
<1> USE Numbers
<1>1. Types /\ s \in Session
  BY DEF IInv, Types
<1>2. ses[s].retry + 1 \in 0 .. MaxRetry + 1
  <2>1. ses[s].retry \in 0 .. MaxRetry + 1 /\ MaxRetry \in Nat
    BY <1>1, SessionFields DEF Types
  <2> QED BY <2>1
<1>3. Only(ses, ses', s, ses[s].state, ses[s].worker)
  BY <1>1, <1>2, SessionChanged DEF Types
<1>4. Types'
  BY <1>1, <1>3, TypesKept DEF Types, Only, PreConnectFrame
<1> QED BY <1>1, <1>3, <1>4, RetryCounted DEF PreConnectFrame

\* The device is there: the session is opened.
LEMMA OpenedNow ==
    ASSUME IInv, NEW s \in pending, ses[s].state \in {"waiting", "dead"},
           \/ ses' = [ses EXCEPT ![s].state = IF @ = "dead" THEN @ ELSE "open",
                                 ![s].dev = at, ![s].worker = TRUE]
           \/ /\ ses' = [ses EXCEPT ![s].state = "open", ![s].worker = TRUE]
              /\ ses[s].state = "waiting",
           UNCHANGED rule, pending' = pending \ {s}, PreConnectFrame,
           incidents' \in {incidents, incidents \cup {"early"}},
           \/ link = "tcp" /\ list' = list
           \/ /\ list' \in Entries /\ list' # Unlisted /\ list'.session = s
              /\ ses[s].state = "dead" => "early" \in incidents'
    PROVE  IInv'
<1> USE Numbers
<1> DEFINE x == IF ses[s].state = "dead" THEN "dead" ELSE "open"
<1>1. Types /\ s \in Session
  BY DEF IInv, Types
<1>2. Only(ses, ses', s, x, TRUE)
  <2>1. x \in States /\ at \in 0 .. MaxPlugs /\ TRUE \in BOOLEAN
    BY <1>1 DEF States, Types
  <2>2. \/ ses' = [ses EXCEPT ![s].state = x, ![s].dev = at, ![s].worker = TRUE]
        \/ ses' = [ses EXCEPT ![s].state = x, ![s].worker = TRUE]
    <3>1. CASE ses' = [ses EXCEPT ![s].state = IF @ = "dead" THEN @ ELSE "open",
                                  ![s].dev = at, ![s].worker = TRUE]
      BY <3>1
    <3>2. CASE /\ ses' = [ses EXCEPT ![s].state = "open", ![s].worker = TRUE]
               /\ ses[s].state = "waiting"
      BY <3>2
    <3> QED BY <3>1, <3>2
  <2> HIDE DEF x
  <2>3. CASE ses' = [ses EXCEPT ![s].state = x, ![s].dev = at, ![s].worker = TRUE]
    BY <1>1, <2>1, <2>3, SessionChanged DEF Types
  <2>4. CASE ses' = [ses EXCEPT ![s].state = x, ![s].worker = TRUE]
    BY <1>1, <2>1, <2>4, SessionChanged DEF Types
  <2> QED BY <2>2, <2>3, <2>4
<1>3. Types'
  <2>1. ses' \in [Session -> SesType] /\ list' \in Entries
    BY <1>1, <1>2 DEF Only, Types
  <2> HIDE DEF x
  <2> QED BY <1>1, <2>1, TypesKept DEF Types, PreConnectFrame
<1> QED BY <1>1, <1>2, <1>3, SessionOpened DEF PreConnectFrame

\* The timer of a USB session.
LEMMA UsbPreConnectInv ==
    ASSUME IInv, NEW s \in pending, Usb, UsbPreConnect(s),
           UNCHANGED <<theLink, copies, usbVars, known, commands>>
    PROVE  IInv'
<1> USE Numbers DEF theLink, lists, usbVars, bounds
<1>0. Types /\ s \in Session /\ link \notin {"uart", "tcp"} /\ ses[s].state # "none"
  BY DEF IInv, Types, PendingMade, Usb
<1>1. CASE ses[s].state \in {"released", "gone"}
  <2>1. /\ incidents' = incidents \cup {"undefined"}
        /\ UNCHANGED <<ses, list, rule, pending, faults>>
    BY <1>1 DEF UsbPreConnect, Undefined
  <2>2. "removal" \in incidents
    BY <1>0, <1>1 DEF IInv, PendingInv
  <2>3. Types'
    BY <1>0, <2>1, TypesKept DEF Types
  <2> QED BY <2>1, <2>2, <2>3, SameSessions
<1>2. CASE ses[s].state \notin {"released", "gone"} /\ GivesUp(s)
  <2>1. FreeSession(s) /\ pending' = pending \ {s} /\ UNCHANGED <<faults, incidents>>
    BY <1>2 DEF UsbPreConnect
  <2> QED BY <2>1, GivenUp DEF PreConnectFrame
<1>3. CASE ses[s].state \notin {"released", "gone"} /\ ~GivesUp(s) /\ list.mount = 0
  <2>1. /\ ses' = [ses EXCEPT ![s].retry = @ + 1]
        /\ UNCHANGED <<list, rule, pending, faults, incidents>>
    BY <1>3 DEF UsbPreConnect
  <2>2. ses[s].retry <= MaxRetry
    <3>1. ses[s].retry \in 0 .. MaxRetry + 1 /\ MaxRetry \in Nat
      BY <1>0, SessionFields DEF Types
    <3> QED BY <1>3, <3>1 DEF GivesUp
  <2> QED BY <2>1, <2>2, TriedAgain DEF PreConnectFrame
<1>4. CASE ses[s].state \notin {"released", "gone"} /\ ~GivesUp(s) /\ list.mount # 0
  <2>1. ConnectDetectDaemon(s) /\ pending' = pending \ {s}
    BY <1>4 DEF UsbPreConnect
  <2>2. ses[s].state \in {"waiting", "dead"}
    <3>1. ses[s].state \in States
      BY <1>0, SessionFields DEF Types
    <3> QED BY <1>0, <1>4, <3>1 DEF IInv, PendingInv, States
  <2>3. CASE /\ list' = Listed("connected", s, list.mount)
             /\ ses' = [ses EXCEPT ![s].state = IF @ = "dead" THEN @ ELSE "open",
                                   ![s].dev = at, ![s].worker = TRUE]
             /\ incidents' = incidents \cup (IF ses[s].state = "dead" THEN {"early"} ELSE {})
             /\ UNCHANGED <<rule, faults>>
    <3>1. list' \in Entries /\ list' # Unlisted /\ list'.session = s
      <4>1. list.mount \in 0 .. MaxPlugs /\ s \in Pointer
        BY <1>0, EntryFields DEF Types
      <4> QED BY <2>3, <4>1, ListedFields
    <3>2. incidents' \in {incidents, incidents \cup {"early"}}
      BY <2>3
    <3> QED BY <2>1, <2>2, <2>3, <3>1, <3>2, OpenedNow DEF PreConnectFrame
  <2>4. CASE /\ IF FindDeviceByID(list.mount) THEN Fault ELSE UNCHANGED faults
             /\ FreeSession(s)
             /\ UNCHANGED incidents
    BY <2>1, <2>4, GivenUp DEF PreConnectFrame, Fault
  <2> QED BY <2>1, <2>3, <2>4 DEF ConnectDetectDaemon
<1> QED BY <1>1, <1>2, <1>3, <1>4

\* The timer of a UART session.
LEMMA UartPreConnectInv ==
    ASSUME IInv, NEW s \in pending, link = "uart", UartPreConnect(s),
           UNCHANGED <<theLink, copies, usbVars, known, commands, faults>>
    PROVE  IInv'
<1> USE Numbers DEF theLink, lists, usbVars, bounds
<1>0. Types /\ s \in Session /\ ses[s].state = "waiting"
  BY DEF IInv, Types, PendingInv
<1>1. CASE ses[s].retry > MaxRetry
  BY <1>1, GivenUp DEF UartPreConnect, PreConnectFrame
<1>2. CASE ~(ses[s].retry > MaxRetry) /\ list = Unlisted
  <2>1. ses[s].retry <= MaxRetry
    <3>1. ses[s].retry \in 0 .. MaxRetry + 1 /\ MaxRetry \in Nat
      BY <1>0, SessionFields DEF Types
    <3> QED BY <1>2, <3>1
  <2> QED BY <1>2, <2>1, TriedAgain DEF UartPreConnect, PreConnectFrame
<1>3. CASE ~(ses[s].retry > MaxRetry) /\ list # Unlisted
  <2>1. /\ list' = Listed("ready", s, 0)
        /\ ses' = [ses EXCEPT ![s].state = "open", ![s].worker = TRUE]
        /\ pending' = pending \ {s} /\ UNCHANGED <<rule, incidents>>
    BY <1>3 DEF UartPreConnect
  <2>2. list' \in Entries /\ list' # Unlisted /\ list'.session = s
    BY <1>0, <2>1, ListedFields
  <2> QED BY <1>0, <2>1, <2>2, OpenedNow DEF PreConnectFrame
<1> QED BY <1>1, <1>2, <1>3

\* The connect request of a TCP session ends.
LEMMA ConnectInv ==
    ASSUME IInv, NEW s \in pending, link = "tcp", Connect(s), pending' = pending \ {s},
           UNCHANGED incidents, UNCHANGED <<theLink, copies, usbVars, known, commands>>
    PROVE  IInv'
<1> USE Numbers DEF theLink, lists, usbVars, bounds
<1>0. ses[s].state \in {"waiting", "dead"}
  BY DEF IInv, Types, PendingInv
<1>1. CASE /\ ses' = [ses EXCEPT ![s].state = IF @ = "dead" THEN @ ELSE "open",
                                 ![s].dev = at, ![s].worker = TRUE]
           /\ UNCHANGED <<lists, faults>>
  BY <1>0, <1>1, OpenedNow DEF PreConnectFrame
<1>2. CASE /\ IF at # 0 THEN Fault ELSE UNCHANGED faults
           /\ FreeSession(s)
  BY <1>2, GivenUp DEF PreConnectFrame, Fault
<1> QED BY <1>1, <1>2 DEF Connect

\* The timer or the request of any session.
LEMMA PreConnectInv ==
    ASSUME IInv, NEW s \in Session, PreConnect(s)
    PROVE  IInv'
BY UsbPreConnectInv, UartPreConnectInv, ConnectInv DEF PreConnect

\* A client asks for a target.
LEMMA CreateConnectInv ==
    ASSUME IInv, CreateConnect
    PROVE  IInv'
<1> USE Numbers DEF theLink, lists, usbVars, bounds
<1>0. Types
  BY DEF IInv
<1> DEFINE entry == IF list = Unlisted THEN Listed("unknown", 0, 0) ELSE list
<1>1. PICK s \in Session :
        /\ Fresh(s) /\ commands < MaxCommands[link]
        /\ commands' = commands + 1
        /\ entry.status # "connected"
        /\ \/ link = "uart" /\ OpenSerialPort(s, entry)
           \/ /\ link # "uart"
              /\ ses' = Malloc(s, ses)
              /\ pending' = pending \cup {s}
              /\ list' = [entry EXCEPT !.session = s]
              /\ incidents' = incidents \cup Overlap(ses)
        /\ UNCHANGED <<theLink, rule, copies, usbVars, known, faults>>
  BY DEF CreateConnect
<1>2. entry \in Entries /\ entry # Unlisted
  <2>1. CASE list = Unlisted
    <3>1. entry = Listed("unknown", 0, 0) /\ 0 \in 0 .. MaxPlugs
      BY <2>1
    <3> QED BY <3>1, ListedFields
  <2>2. CASE list # Unlisted
    BY <1>0, <2>2 DEF Types
  <2> QED BY <2>1, <2>2
<1>3. list = Unlisted => entry.session = 0
  BY ListedFields
<1> HIDE DEF entry
<1>4. Overlap(ses) \subseteq {"overlap"}
  BY DEF Overlap
<1>5. \A t \in Session : rule' = t => ses[t].state = ses[t].state
  OBVIOUS
<1>6. CASE link = "uart" /\ list' = entry /\ UNCHANGED <<ses, pending, incidents>>
  <2>1. Types'
    BY <1>0, <1>1, <1>2, <1>6, TypesKept DEF Types
  <2>2. CASE list' = list
    BY <1>1, <1>6, <2>1, <2>2, SameSessions DEF IInv, OwnSessionsExist
  <2>3. CASE list' # list
    <3>1. list = Unlisted
      BY <1>6, <2>3 DEF entry
    <3> QED BY <1>1, <1>3, <1>6, <2>1, <3>1, EntryListed
  <2> QED BY <2>2, <2>3
<1>7. ASSUME list' \in Entries, list' # Unlisted, list'.status # "connected",
             list'.session \in {0, s}, link = "uart" => list'.session = 0,
             link = "tcp" => list'.session = s,
             Only(ses, ses', s, "waiting", ses[s].worker),
             pending' = pending \cup {s}, incidents' = incidents \cup Overlap(ses)
      PROVE  IInv'
  <2>1. ses' \in [Session -> SesType] /\ pending' \subseteq Session
    BY <1>0, <1>7 DEF Only, Types
  <2>2. Types'
    BY <1>0, <1>1, <1>4, <1>7, <2>1, TypesKept DEF Types
  <2> QED BY <1>1, <1>7, <2>2, SessionMade
<1>8. CASE link = "uart" /\ at # 0 /\ ConnectMyNeed(s)
  <2>1. /\ list' = Listed("ready", 0, 0)
        /\ ses' = [Malloc(s, ses) EXCEPT ![s].dev = at]
        /\ pending' = pending \cup {s}
        /\ incidents' = incidents \cup Overlap(ses)
    BY <1>8 DEF ConnectMyNeed
  <2>2. /\ list' \in Entries /\ list' # Unlisted /\ list'.status # "connected"
        /\ list'.session = 0
    BY <2>1, ListedFields
  <2>3. Only(ses, ses', s, "waiting", ses[s].worker)
    <3> DEFINE m == Malloc(s, ses)
    <3>1. Only(ses, m, s, "waiting", ses[s].worker)
      BY <1>0, SessionChanged DEF Malloc, States, Types
    <3>2. m \in [Session -> SesType] /\ at \in 0 .. MaxPlugs
      BY <1>0, <3>1 DEF Only, Types
    <3> HIDE DEF m
    <3>3. Only(m, [m EXCEPT ![s].dev = at], s, m[s].state, m[s].worker)
      BY <3>2, SessionChanged
    <3> QED BY <2>1, <3>1, <3>3 DEF m, Only
  <2> QED BY <1>7, <1>8, <2>1, <2>2, <2>3
<1>9. CASE /\ link # "uart" /\ ses' = Malloc(s, ses) /\ pending' = pending \cup {s}
           /\ list' = [entry EXCEPT !.session = s]
           /\ incidents' = incidents \cup Overlap(ses)
  <2>1. /\ list' \in Entries /\ list' # Unlisted /\ list'.status # "connected"
        /\ list'.session = s
    BY <1>1, <1>2, <1>9, EntryUpdated
  <2>2. Only(ses, ses', s, "waiting", ses[s].worker)
    BY <1>0, <1>9, SessionChanged DEF Malloc, States, Types
  <2> QED BY <1>7, <1>9, <2>1, <2>2
<1> QED BY <1>1, <1>6, <1>8, <1>9 DEF OpenSerialPort

\* The server looks for USB devices, after it has kicked out a zombie.
LEMMA WatchUsbInv ==
    ASSUME IInv, Usb, WatchUsbNodeChange
    PROVE  IInv'
<1> USE Numbers DEF theLink, lists, usbVars, bounds
<1>0. Types /\ link \notin {"uart", "tcp"}
  BY DEF IInv, Usb
<1>1. PICK k \in Registered \cup {0} :
        LET kicked == k # 0 /\ Zombie(k)
            sessions == IF kicked THEN [ses EXCEPT ![k].state = "dead"] ELSE ses
            entry == IF kicked THEN Offline(list) ELSE list
            new == at # 0 /\ ignored[Mount(at)] = "no"
        IN  /\ k = 0 <=> Registered = {}
            /\ kicked \/ new
            /\ rule' = IF kicked THEN CleanForwardMap(k) ELSE rule
            /\ \/ new /\ ~Claimed(sessions) /\ \E s \in Session : DetectMyNeed(s, sessions)
               \/ new /\ ReviewUsbNodeLater(sessions, entry)
                  /\ IF Claimed(sessions) THEN UNCHANGED faults ELSE Fault
               \/ ~new /\ ses' = sessions /\ list' = entry
                  /\ UNCHANGED <<pending, incidents, usbVars, faults>>
            /\ UNCHANGED <<theLink, copies, known, commands>>
  BY DEF WatchUsbNodeChange
<1> DEFINE kicked == k # 0 /\ Zombie(k)
           K == IF kicked THEN [ses EXCEPT ![k].state = "dead"] ELSE ses
           entry == IF kicked THEN Offline(list) ELSE list
           new == at # 0 /\ ignored[Mount(at)] = "no"
<1>2. kicked => k \in Session /\ ses[k].state = "open"
  BY DEF Registered, Zombie
<1>3. kicked => Only(ses, K, k, "dead", ses[k].worker)
  BY <1>0, <1>2, SessionChanged DEF Types, States
<1>4. /\ K \in [Session -> SesType]
      /\ \A t \in Session : /\ K[t].worker = ses[t].worker
                            /\ \/ K[t].state = ses[t].state
                               \/ K[t].state = "dead" /\ ses[t].state = "open"
  <2>1. CASE kicked
    <3>1. /\ K \in [Session -> SesType] /\ K[k].state = "dead" /\ K[k].worker = ses[k].worker
          /\ \A t \in Session \ {k} : K[t] = ses[t]
      BY <1>3, <2>1 DEF Only
    <3> HIDE DEF K, kicked
    <3> QED BY <1>2, <2>1, <3>1
  <2>2. CASE ~kicked
    BY <1>0, <2>2 DEF Types
  <2> QED BY <2>1, <2>2
<1>5. entry \in Entries
  BY <1>0, OfflineFields DEF Types
<1>6. /\ rule' = IF kicked THEN CleanForwardMap(k) ELSE rule
      /\ rule' \in {0, rule} /\ rule' \in Pointer
      /\ \A t \in Session : rule' = t => K[t].state = ses[t].state
  <2>1. rule' = IF kicked THEN CleanForwardMap(k) ELSE rule
    BY <1>1
  <2>2. rule' \in {0, rule} /\ rule' \in Pointer /\ (kicked => rule' # k)
    BY <1>0, <1>2, <2>1 DEF CleanForwardMap, Types
  <2>3. \A t \in Session : (kicked => t # k) => K[t].state = ses[t].state
    BY <1>3 DEF Only
  <2> QED BY <2>1, <2>2, <2>3
<1>7. UNCHANGED <<link, at, plugs, copies, known, commands>>
  BY <1>1
<1>13. \/ new /\ ~Claimed(K) /\ \E s \in Session : DetectMyNeed(s, K)
       \/ new /\ ReviewUsbNodeLater(K, entry)
          /\ IF Claimed(K) THEN UNCHANGED faults ELSE Fault
       \/ ~new /\ ses' = K /\ list' = entry
          /\ UNCHANGED <<pending, incidents, ignored, delays, faults>>
  BY <1>1
<1> HIDE DEF K, entry, new, kicked
<1>8. Mount(at) \in 0 .. MaxPlugs /\ (new => Mount(at) \in Mounts)
  BY <1>0, MountType DEF new
<1>9. ASSUME new, NEW s \in Session, DetectMyNeed(s, K) PROVE IInv'
  <2>1. /\ Fresh(s) /\ ses' = [K EXCEPT ![s].state = "waiting"]
        /\ list' = Listed("ready", 0, Mount(at))
        /\ pending' = pending \cup {s} /\ incidents' = incidents \cup Overlap(K)
        /\ ignored' = [ignored EXCEPT ![Mount(at)] = "register"] /\ UNCHANGED <<delays, faults>>
    BY <1>9 DEF DetectMyNeed, Malloc
  <2>2. Only(K, ses', s, "waiting", K[s].worker)
    BY <1>4, <2>1, SessionChanged DEF States
  <2>3. /\ list' \in Entries /\ list' # Unlisted /\ list'.status # "connected"
        /\ list'.session = 0
    BY <1>8, <2>1, ListedFields
  <2>4. Overlap(K) \subseteq {"overlap"}
    BY DEF Overlap
  <2>5. ignored' \in [Mounts -> {"no", "register", "ignore"}]
    BY <1>0, <2>1 DEF Types
  <2>6. Types'
    <3>1. /\ ses' \in [Session -> SesType] /\ pending' \subseteq Session
          /\ copies' \in [Session -> Entries] /\ delays' \in [Mounts -> Nat]
      BY <1>0, <1>7, <2>1, <2>2 DEF Types, Only
    <3>2. /\ known' \in BOOLEAN /\ at' \in 0 .. MaxPlugs /\ plugs' \in 0 .. MaxPlugs
          /\ incidents' \subseteq incidents \cup {"overlap"}
      BY <1>0, <1>7, <2>1, <2>4 DEF Types
    <3> QED BY <1>0, <1>6, <1>7, <2>1, <2>3, <2>5, <3>1, <3>2, TypesKept
  <2>7. UNCHANGED <<link, copies>> /\ (link = "uart" => list'.session = 0)
    BY <1>7, <2>3
  <2> QED BY <1>0, <1>4, <1>6, <2>1, <2>2, <2>3, <2>6, <2>7, SessionMade
<1>10. ASSUME ses' = K, list' = entry, UNCHANGED <<pending, incidents>>,
              ignored' \in [Mounts -> {"no", "register", "ignore"}],
              delays' \in [Mounts -> Nat],
              faults' = faults \/ (faults < MaxFaults[link] /\ faults' = faults + 1)
       PROVE  IInv'
  <2>1. Types'
    BY <1>0, <1>4, <1>5, <1>6, <1>7, <1>10, TypesKept DEF Types
  <2>2. CASE kicked
    <3>1. FreeSession(k) /\ k \in Session
      BY <1>2, <1>6, <1>10, <2>2 DEF FreeSession, K, entry
    <3>2. k \notin pending
      BY <1>2, <2>2 DEF IInv, PendingInv
    <3> QED BY <1>7, <1>10, <2>1, <3>1, <3>2, SessionFreed
  <2>3. CASE ~kicked
    <3>1. UNCHANGED <<ses, list, rule>>
      BY <1>6, <1>10, <2>3 DEF K, entry
    <3> QED BY <1>7, <1>10, <2>1, <3>1, SameSessions DEF IInv, OwnSessionsExist
  <2> QED BY <2>2, <2>3
<1>11. CASE /\ new /\ ReviewUsbNodeLater(K, entry)
            /\ IF Claimed(K) THEN UNCHANGED faults ELSE Fault
  <2>1. /\ ses' = K /\ list' = entry /\ UNCHANGED <<pending, incidents>>
        /\ ignored' = [ignored EXCEPT ![Mount(at)] = "ignore"]
        /\ delays' = [delays EXCEPT ![Mount(at)] = @ + 1]
    BY <1>11 DEF ReviewUsbNodeLater
  <2>2. delays' \in [Mounts -> Nat]
    BY <1>0, <1>8, <1>11, <2>1, DelaysType
  <2>3. ignored' \in [Mounts -> {"no", "register", "ignore"}]
    BY <1>0, <2>1 DEF Types
  <2>4. faults' = faults \/ (faults < MaxFaults[link] /\ faults' = faults + 1)
    BY <1>11 DEF Fault
  <2> QED BY <1>10, <2>1, <2>2, <2>3, <2>4
<1>12. CASE /\ ~new /\ ses' = K /\ list' = entry
            /\ UNCHANGED <<pending, incidents, ignored, delays, faults>>
  <2>1. ignored' \in [Mounts -> {"no", "register", "ignore"}] /\ delays' \in [Mounts -> Nat]
    BY <1>0, <1>12 DEF Types
  <2> QED BY <1>10, <1>12, <2>1
<1> QED BY <1>9, <1>11, <1>12, <1>13

-----------------------------------------------------------------------------
(* The theorems.                                                           *)

\* The initial states satisfy the invariant.
LEMMA InitInv == Init => IInv
<1> SUFFICES ASSUME Init PROVE IInv
  OBVIOUS
<1> USE Numbers DEF Init
<1>1. /\ \A s \in Session : /\ ses[s].state = "none" /\ ~ses[s].worker
                            /\ copies[s] = Unlisted
      /\ pending = {} /\ incidents = {} /\ rule = 0 /\ list = Unlisted
  BY DEF NoSession
<1>2. Types
  <2>1. NoSession \in SesType /\ Unlisted \in Entries
    BY DEF NoSession, SesType, States, Entries
  <2>2. 0 \in 0 .. MaxCommands[link] /\ 0 \in 0 .. MaxFaults[link] /\ 0 \in 0 .. MaxPlugs
    <3>1. MaxCommands[link] \in Nat /\ MaxFaults[link] \in Nat /\ MaxPlugs \in Nat
      OBVIOUS
    <3> QED BY <3>1
  <2> QED BY <2>1, <2>2 DEF Types
<1>3. Unlisted.session = 0 /\ Unlisted.status = "none"
  BY DEF Unlisted
<1>4. PendingMade /\ NumbersInv /\ \A s \in Session : WorkerInv(s) /\ PendingInv(s)
  BY <1>1 DEF PendingMade, NumbersInv, WorkerInv, PendingInv
<1>5. EntryInv /\ RuleIsReal /\ OwnSessionsExist
  BY <1>1, <1>3 DEF EntryInv, Named, RuleIsReal, OwnSessionsExist
<1>6. QuietInv
  BY <1>1, <1>3 DEF QuietInv, OneLive, Live, Names, ConnectedInv
<1> QED BY <1>2, <1>4, <1>5, <1>6 DEF IInv

\* Every step preserves the invariant.
LEMMA NextInv == IInv /\ [Next]_vars => IInv'
<1> SUFFICES ASSUME IInv, [Next]_vars PROVE IInv'
  OBVIOUS
<1>1. CASE UNCHANGED vars
  <2>1. Types'
    BY <1>1 DEF vars, theLink, lists, usbVars, bounds, IInv, Types
  <2> QED BY <1>1, <2>1, SameSessions DEF vars, theLink, lists, IInv, OwnSessionsExist
<1>2. CASE Plug \/ Unplug
  BY <1>2, LinkInv
<1>3. CASE Watch
  BY <1>3, WatchUsbInv, WatchUartInv DEF Watch
<1>4. CASE Command
  BY <1>4, CreateConnectInv, CommandRemoveSessionInv, CommandRemoveForwardInv DEF Command
<1>5. ASSUME NEW s \in Session, PreConnect(s) \/ Worker(s) \/ Free(s) \/ Ends(s)
      PROVE  IInv'
  <2>1. CASE PreConnect(s)
    BY <2>1, PreConnectInv
  <2>2. CASE Worker(s)
    BY <2>2, HandshakeQueryInv, HandshakeUpdateInv, ForwardSuccessInv DEF Worker
  <2>3. CASE Free(s)
    BY <2>3, FreeSessionContinueInv, FreeSessionFinallyInv DEF Free
  <2>4. CASE Ends(s)
    BY <2>4, LinkLostInv, OnTransferErrorInv DEF Ends
  <2> QED BY <1>5, <2>1, <2>2, <2>3, <2>4
<1>6. ASSUME NEW m \in Mounts, RemoveIgnoreDevice(m) PROVE IInv'
  BY <1>6, RemoveIgnoreDeviceInv
<1> QED BY <1>1, <1>2, <1>3, <1>4, <1>5, <1>6 DEF Next

\* The invariant is inductive.
THEOREM Invariance == Spec => []IInv
<1> QED BY InitInv, NextInv, PTL DEF Spec

\* The variables have values the code can give them, and a timer or a connect request
\* is of a session that was made.
THEOREM TypeCorrect == Spec => []TypeOK
<1>1. IInv => TypeOK
  BY TypesAre DEF IInv
<1> QED BY <1>1, Invariance, PTL

\* The server says "connected" only of a device whose entry names an open session of
\* it, and keeps no forward rule of a session that is not open, unless one of the
\* listed incidents happened: two sessions at once, a worker that wrote for a dead
\* session, a session opened after it had been freed.
THEOREM ListsTrue == Spec => []ListsAreTrue
<1>1. IInv => ListsAreTrue
  BY DEF IInv, QuietInv, Quiet, ConnectedInv, ListsAreTrue, ListIsTrue
<1> QED BY <1>1, Invariance, PTL

\* No timer or connect request of the server uses a deleted session, as long as no
\* client removed a target.
THEOREM OwnSessions == Spec => []OwnSessionsExist
<1>1. IInv => OwnSessionsExist
  BY DEF IInv
<1> QED BY <1>1, Invariance, PTL
=============================================================================
