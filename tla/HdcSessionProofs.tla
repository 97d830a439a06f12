--------------------------- MODULE HdcSessionProofs ---------------------------
(***************************************************************************)
(* Proofs about HdcSession for every set of sessions, every pool size and  *)
(* every bound: the type invariant and the safety invariants the runs      *)
(* check.  They rest on one inductive invariant, IInv, whose parts say how *)
(* the variables of one session hang together.                             *)
(***************************************************************************)
EXTENDS HdcSession, FiniteSetTheorems, SequenceTheorems, TLAPS

\* The states of freeing in which FreeSessionContinue has run.
TakenApart == {"finally", "done"}

\* What a control socket can hold.
QStart == <<"SP_START_SESSION">>
QStop  == <<"SP_STOP_SESSION">>
QBoth  == <<"SP_START_SESSION", "SP_STOP_SESSION">>

\* The object: a session is dead from the moment FreeSession takes it, is deleted
\* by FreeSessionFinally, and nothing has happened to it before it is created.
MemInv(s) ==
    /\ mem[s] = "freed" <=> freePc[s] = "done"
    /\ isDead[s] <=> freePc[s] # "none"
    /\ voteReset[s] => isDead[s]
    /\ mem[s] = "none" => freePc[s] = "none" /\ work[s] = "none" /\ boot[s] = "none"

\* The creation of a session, and which of its steps excludes which later one.
BootInv(s) ==
    /\ boot[s] = "none" => work[s] = "none"
    /\ boot[s] = "connecting" => work[s] = "none" /\ s \in Tcp
    /\ boot[s] = "wait" => freePc[s] \in {"none", "operate"} /\ s \in Tcp
    /\ boot[s] = "timer" => s \notin Tcp
    /\ s \in Tcp /\ work[s] \in {"queued", "init"} => boot[s] = "wait"
    /\ boot[s] # "done" \/ ctrl[s] \in {QStart, QBoth}
          => childTcp[s] = "none" /\ ~dataPipe[s]
    /\ childTcp[s] # "none" => s \in Tcp
    /\ dataPipe[s] => s \notin Tcp
    /\ workTcp[s] => s \in Tcp

\* The control socket: SP_START_SESSION, then SP_STOP_SESSION, each at most once.
CtrlInv(s) ==
    /\ ctrl[s] \in {<<>>, QStart, QStop, QBoth}
    /\ ctrl[s] \in {QStop, QBoth} => freePc[s] = "waitChild"
    /\ boot[s] # "done" => ctrl[s] \in {<<>>, QStop}
    /\ work[s] \in {"stopping", "clearing", "cleared"} =>
          freePc[s] \notin {"none", "operate"} /\ ctrl[s] = <<>>
    /\ freePc[s] = "waitChild" => work[s] \notin {"none", "queued"}
    /\ s \in Tcp /\ freePc[s] \in TakenApart => work[s] \in {"none", "cleared"}

\* The main handles that are still to be closed.
MainCloseInv(s) ==
    IF freePc[s] \in TakenApart
    THEN uvHandleRef[s] = Cardinality(mainClosing[s]) /\ ~workTcp[s]
    ELSE /\ mainClosing[s] = {}
         /\ uvHandleRef[s] = IF mem[s] = "none" THEN 0 ELSE IF s \in Tcp THEN 3 ELSE 2

\* The child's handles that are still to be closed.
ChildCloseInv(s) ==
    IF work[s] = "stopping"
    THEN /\ uvChildRef[s] = Cardinality(childClosing[s])
         /\ childTcp[s] \notin {"inited", "open"}
         /\ "hChildWorkTCP" \in childClosing[s] => childTcp[s] = "closing"
    ELSE uvChildRef[s] = 0 /\ childClosing[s] = {}

\* ref counts the requests in flight, and only a running child loop has any.
IoInv(s) ==
    /\ ref[s] = writes[s] + mainWrites[s] + IF uartSend[s] = "io" THEN 1 ELSE 0
    /\ mainWrites[s] > 0 => freePc[s] \in {"none", "operate"}
    /\ uartSend[s] # "idle" => s \notin Tcp
    /\ sending[s] => work[s] = "up" /\ writes[s] < MaxWrites /\ s \in Tcp
    /\ writes[s] > 0 => /\ work[s] \in {"up", "stopping"}
                        /\ childTcp[s] \in {"open", "closing"}

SessionInv(s) == MemInv(s) /\ BootInv(s) /\ CtrlInv(s) /\ MainCloseInv(s)
                 /\ ChildCloseInv(s) /\ IoInv(s)

\* The process: sessionRef counts the sessions that are allocated, none is left when
\* the instance is cleared, and a server that reset has only dead ones.
ProcessInv ==
    /\ sessionRef = Cardinality({s \in Sessions : mem[s] = "alloc"})
    /\ loopMain = "done" => \A s \in Sessions : mem[s] # "alloc"
    /\ aborted /\ serverOrDaemon => \A s \in Sessions : mem[s] = "alloc" => isDead[s]

IInv == TypeOK /\ (\A s \in Sessions : SessionInv(s)) /\ ProcessInv

-----------------------------------------------------------------------------
(* Lemmas about queues and sets.                                           *)

\* Sequences of one and of two elements.
LEMMA ShortSequences ==
    ASSUME NEW S, NEW a \in S, NEW b \in S
    PROVE  /\ <<a>> \in Seq(S) /\ <<a, b>> \in Seq(S) /\ <<>> \in Seq(S)
           /\ Append(<<>>, a) = <<a>> /\ Append(<<a>>, b) = <<a, b>>
           /\ Head(<<a>>) = a /\ Tail(<<a>>) = <<>>
           /\ Head(<<a, b>>) = a /\ Tail(<<a, b>>) = <<b>>
<1> DEFINE q == Append(<<a>>, b)
           r == <<a, b>>
<1>1. q \in Seq(S) /\ Len(q) = 2 /\ q[1] = a /\ q[2] = b
  OBVIOUS
<1>2. r \in Seq(S) /\ Len(r) = 2 /\ r[1] = a /\ r[2] = b
  OBVIOUS
<1>3. \A i \in 1..Len(q) : q[i] = r[i]
  BY <1>1, <1>2
<1> HIDE DEF q, r
<1>4. q = r
  BY <1>1, <1>2, <1>3, SeqEqual
<1>5. Append(<<a>>, b) = <<a, b>>
  BY <1>4 DEF q, r
<1>6. Append(<<>>, a) = <<a>>
  OBVIOUS
<1>7. Tail(<<a, b>>) = <<b>> /\ Tail(<<a>>) = <<>>
  OBVIOUS
<1>8. Head(<<a, b>>) = a /\ Head(<<a>>) = a
  OBVIOUS
<1>9. <<a>> \in Seq(S) /\ <<a, b>> \in Seq(S) /\ <<>> \in Seq(S)
  OBVIOUS
<1> QED
  BY <1>5, <1>6, <1>7, <1>8, <1>9

\* What the queue operations give on the values of a control socket.
LEMMA ControlQueues ==
    /\ {<<>>, QStart, QStop, QBoth} \subseteq Seq({"SP_START_SESSION", "SP_STOP_SESSION"})
    /\ Append(<<>>, "SP_START_SESSION") = QStart
    /\ Append(<<>>, "SP_STOP_SESSION") = QStop
    /\ Append(QStart, "SP_STOP_SESSION") = QBoth
    /\ Head(QStart) = "SP_START_SESSION" /\ Tail(QStart) = <<>>
    /\ Head(QStop) = "SP_STOP_SESSION" /\ Tail(QStop) = <<>>
    /\ Head(QBoth) = "SP_START_SESSION" /\ Tail(QBoth) = QStop
    /\ <<>> \notin {QStart, QStop, QBoth} /\ QStart \notin {QStop, QBoth} /\ QStop # QBoth
<1> DEFINE S == {"SP_START_SESSION", "SP_STOP_SESSION"}
<1>1. "SP_START_SESSION" \in S /\ "SP_STOP_SESSION" \in S
  OBVIOUS
<1>2. {<<>>, QStart, QStop, QBoth} \subseteq Seq(S)
  BY <1>1, ShortSequences DEF QStart, QStop, QBoth
<1>3. /\ Append(<<>>, "SP_START_SESSION") = QStart
      /\ Append(<<>>, "SP_STOP_SESSION") = QStop
      /\ Append(QStart, "SP_STOP_SESSION") = QBoth
  BY <1>1, ShortSequences DEF QStart, QStop, QBoth
<1>4. /\ Head(QStart) = "SP_START_SESSION" /\ Tail(QStart) = <<>>
      /\ Head(QStop) = "SP_STOP_SESSION" /\ Tail(QStop) = <<>>
      /\ Head(QBoth) = "SP_START_SESSION" /\ Tail(QBoth) = QStop
  BY <1>1, ShortSequences DEF QStart, QStop, QBoth
<1>5. <<>> \notin {QStart, QStop, QBoth} /\ QStart \notin {QStop, QBoth} /\ QStop # QBoth
  BY DEF QStart, QStop, QBoth
<1> QED
  BY <1>2, <1>3, <1>4, <1>5

\* The sizes of sets of two and of three elements.
LEMMA PairSize ==
    ASSUME NEW a, NEW b, a # b
    PROVE  Cardinality({a, b}) = 2 /\ IsFiniteSet({a, b})
<1>1. b \notin {a}
  OBVIOUS
<1>2. Cardinality({a}) = 1 /\ IsFiniteSet({a})
  BY FS_Singleton
<1>3. Cardinality({a} \cup {b}) = 1 + 1 /\ IsFiniteSet({a} \cup {b})
  BY <1>1, <1>2, FS_AddElement
<1>4. {a} \cup {b} = {a, b}
  OBVIOUS
<1> QED
  BY <1>3, <1>4

\* A set of three.
LEMMA TripleSize ==
    ASSUME NEW a, NEW b, NEW c, a # b, b # c, a # c
    PROVE  Cardinality({a, b, c}) = 3 /\ IsFiniteSet({a, b, c})
<1>1. c \notin {a, b}
  OBVIOUS
<1>2. Cardinality({a, b}) = 2 /\ IsFiniteSet({a, b})
  BY PairSize
<1>3. Cardinality({a, b} \cup {c}) = 2 + 1 /\ IsFiniteSet({a, b} \cup {c})
  BY <1>1, <1>2, FS_AddElement
<1>4. {a, b} \cup {c} = {a, b, c}
  OBVIOUS
<1> QED
  BY <1>3, <1>4

\* Either loop has three handles of a session.
LEMMA HandleSets ==
    /\ IsFiniteSet(MainHandles) /\ Cardinality(MainHandles) = 3
    /\ IsFiniteSet(ChildHandles) /\ Cardinality(ChildHandles) = 3
<1>1. LET H == {"ctrlPipe", "dataPipe", "hWorkTCP"}
      IN  Cardinality(H) = 3 /\ IsFiniteSet(H)
  BY TripleSize
<1>2. LET H == {"ctrlPipe", "dataPipe", "hChildWorkTCP"}
      IN  Cardinality(H) = 3 /\ IsFiniteSet(H)
  BY TripleSize
<1> QED
  BY <1>1, <1>2 DEF MainHandles, ChildHandles

\* The sizes of the sets of handles that are closed.
LEMMA ClosingSizes ==
    /\ Cardinality({}) = 0
    /\ Cardinality({"ctrlPipe"}) = 1 /\ Cardinality({"dataPipe"}) = 1
    /\ Cardinality({"ctrlPipe", "dataPipe"}) = 2
    /\ Cardinality({"ctrlPipe", "hChildWorkTCP"}) = 2
    /\ Cardinality({"dataPipe", "hChildWorkTCP"}) = 2
    /\ Cardinality({"ctrlPipe", "dataPipe", "hWorkTCP"}) = 3
<1>1. Cardinality({}) = 0
  BY FS_EmptySet
<1>2. Cardinality({"ctrlPipe"}) = 1
  BY FS_Singleton
<1>3. Cardinality({"dataPipe"}) = 1
  BY FS_Singleton
<1>4. Cardinality({"ctrlPipe", "dataPipe"}) = 2
  BY PairSize
<1>5. Cardinality({"ctrlPipe", "hChildWorkTCP"}) = 2
  BY PairSize
<1>6. Cardinality({"dataPipe", "hChildWorkTCP"}) = 2
  BY PairSize
<1>7. Cardinality({"ctrlPipe", "dataPipe", "hWorkTCP"}) = 3
  BY TripleSize
<1> QED
  BY <1>1, <1>2, <1>3, <1>4, <1>5, <1>6, <1>7

\* A set of main handles, or of child handles, has at most three elements, and one
\* less without one of them.
LEMMA HandleCount ==
    ASSUME NEW H, H \subseteq MainHandles \/ H \subseteq ChildHandles
    PROVE  /\ Cardinality(H) \in 0..3
           /\ Cardinality(H) = 0 => H = {}
           /\ \A h \in H : Cardinality(H) > 0 /\ Cardinality(H \ {h}) = Cardinality(H) - 1
<1>1. IsFiniteSet(MainHandles) /\ Cardinality(MainHandles) = 3
  BY HandleSets
<1>2. IsFiniteSet(ChildHandles) /\ Cardinality(ChildHandles) = 3
  BY HandleSets
<1>3. IsFiniteSet(H) /\ Cardinality(H) <= 3
  BY <1>1, <1>2, FS_Subset
<1>4. Cardinality(H) \in Nat
  BY <1>3, FS_CardinalityType
<1>5. Cardinality(H) = 0 <=> H = {}
  BY <1>3, FS_EmptySet
<1>6. \A h \in H : Cardinality(H \ {h}) = Cardinality(H) - 1
  BY <1>3, FS_RemoveElement
<1> QED
  BY <1>3, <1>4, <1>5, <1>6

\* The sessions that are allocated: their number changes by one when one is
\* created or freed, and is zero when none is left.
Allocated == {s \in Sessions : mem[s] = "alloc"}

\* How the number of allocated sessions changes with one session.
LEMMA AllocatedCount ==
    /\ Cardinality(Allocated) \in Nat
    /\ Cardinality(Allocated) = 0 => Allocated = {}
    /\ \A s \in Allocated : /\ Cardinality(Allocated \ {s}) = Cardinality(Allocated) - 1
                          /\ Cardinality(Allocated) > 0
    /\ \A s \in Sessions \ Allocated :
          Cardinality(Allocated \cup {s}) = Cardinality(Allocated) + 1
<1>1. IsFiniteSet(Allocated)
  <2>1. Allocated \subseteq Sessions /\ IsFiniteSet(Sessions)
    BY ConstantsAssumption DEF Allocated, ConstantsAssumption
  <2> QED BY <2>1, FS_Subset
<1>2. Cardinality(Allocated) \in Nat
  BY <1>1, FS_CardinalityType
<1>3. Cardinality(Allocated) = 0 <=> Allocated = {}
  BY <1>1, FS_EmptySet
<1>4. \A s \in Allocated : Cardinality(Allocated \ {s}) = Cardinality(Allocated) - 1
  BY <1>1, FS_RemoveElement
<1>5. \A s \in Sessions \ Allocated : Cardinality(Allocated \cup {s}) = Cardinality(Allocated) + 1
  BY <1>1, FS_AddElement
<1> QED
  BY <1>2, <1>3, <1>4, <1>5

-----------------------------------------------------------------------------
(* Every action preserves the invariant: one lemma per action, its steps   *)
(* are the parts of the invariant the action can disturb.                  *)

USE ConstantsAssumption DEF ConstantsAssumption, TypeOK, TakenApart, objVars,
                            mainVars, tcpVars, taskVars, endVars, uartVars

\* Nothing about session t changes.
Same(t) ==
    /\ UNCHANGED <<mem[t], isDead[t], voteReset[t], ref[t], boot[t], workTcp[t]>>
    /\ UNCHANGED <<mainClosing[t], uvHandleRef[t], freePc[t], work[t], ctrl[t]>>
    /\ UNCHANGED <<uvChildRef[t], childClosing[t], childTcp[t], dataPipe[t]>>
    /\ UNCHANGED <<sending[t], writes[t], mainWrites[t], uartSend[t]>>

\* The invariant of a session that an action leaves alone.
LEMMA SameInv ==
  ASSUME NEW t \in Sessions, SessionInv(t), Same(t)
  PROVE  SessionInv(t)'
BY DEF Same, SessionInv, MemInv, BootInv, CtrlInv, MainCloseInv, ChildCloseInv,
       IoInv

\* ConnectDaemon keeps the invariant.
LEMMA ConnectDaemonInv ==
  ASSUME IInv, NEW s \in Sessions, ~aborted, ConnectDaemon(s)
  PROVE  IInv'
<1> USE DEF IInv
<1>1. TypeOK'
  <2>1. mem' \in [Sessions -> {"none", "alloc", "freed"}]
    BY DEF ConnectDaemon, MallocSession, ObjTypeOK
  <2>2. uvHandleRef' \in [Sessions -> 0..3]
    BY DEF ConnectDaemon, MallocSession, MainTypeOK
  <2>3. boot' \in [Sessions -> BootStates]
    BY DEF ConnectDaemon, MainTypeOK, BootStates
  <2>4. sessionRef' \in Nat
    BY AllocatedCount DEF ConnectDaemon, MallocSession, ProcessInv, Allocated
  <2> QED
    BY <2>1, <2>2, <2>3, <2>4
       DEF ConnectDaemon, ObjTypeOK, MainTypeOK, ProcessTypeOK, WorkTypeOK, IoTypeOK
<1>2. ASSUME NEW t \in Sessions PROVE SessionInv(t)'
  <2>1. MemInv(t)'
    BY DEF ConnectDaemon, MallocSession, ObjTypeOK, MainTypeOK, SessionInv, MemInv
  <2>2. BootInv(t)'
    BY DEF ConnectDaemon, MallocSession, MainTypeOK, WorkTypeOK, IoTypeOK,
           SessionInv, BootInv, MemInv, CtrlInv
  <2>3. CtrlInv(t)'
    BY DEF ConnectDaemon, MallocSession, MainTypeOK, WorkTypeOK, SessionInv,
           CtrlInv, MemInv, BootInv
  <2>4. MainCloseInv(t)'
    BY DEF ConnectDaemon, MallocSession, ObjTypeOK, MainTypeOK, SessionInv,
           MainCloseInv, MemInv, CtrlInv
  <2>5. ChildCloseInv(t)'
    BY DEF ConnectDaemon, MallocSession, SessionInv, ChildCloseInv
  <2>6. IoInv(t)'
    BY DEF ConnectDaemon, MallocSession, SessionInv, IoInv
  <2> QED BY <2>1, <2>2, <2>3, <2>4, <2>5, <2>6 DEF SessionInv
<1>3. ProcessInv'
  <2>1. Allocated' = Allocated \cup {s} /\ s \notin Allocated
    BY DEF ConnectDaemon, MallocSession, ObjTypeOK, Allocated
  <2>2. sessionRef' = Cardinality(Allocated')
    BY <2>1, AllocatedCount DEF ConnectDaemon, MallocSession, ProcessInv, Allocated
  <2> QED BY <2>2 DEF ConnectDaemon, Allocated, ProcessInv
<1> QED BY <1>1, <1>2, <1>3

\* ConnectOk keeps the invariant.
LEMMA ConnectOkInv ==
  ASSUME IInv, NEW s \in Sessions, ~aborted, ConnectOk(s)
  PROVE  IInv'
<1> USE DEF IInv
<1>1. TypeOK'
  BY DEF ConnectOk, ObjTypeOK, MainTypeOK, ProcessTypeOK, WorkTypeOK, IoTypeOK,
         BootStates, WorkStates, TcpStates, FreeStates
<1>2. ASSUME NEW t \in Sessions PROVE SessionInv(t)'
  <2>1. CASE t # s
    <3>1. Same(t)
      BY <2>1 DEF ConnectOk, MainTypeOK, WorkTypeOK, Same
    <3> QED BY <3>1, SameInv
  <2>2. CASE t = s
    <3>1. MemInv(s)'
      BY DEF ConnectOk, SessionInv, MemInv
    <3>2. BootInv(s)'
      BY DEF ConnectOk, MainTypeOK, WorkTypeOK, IoTypeOK, BootStates, WorkStates,
             TcpStates, FreeStates, SessionInv, MemInv, BootInv, CtrlInv,
             MainCloseInv, ChildCloseInv, IoInv
    <3>3. CtrlInv(s)'
      BY DEF ConnectOk, MainTypeOK, WorkTypeOK, BootStates, WorkStates, TcpStates,
             FreeStates, SessionInv, MemInv, BootInv, CtrlInv, MainCloseInv,
             ChildCloseInv, IoInv
    <3>4. MainCloseInv(s)'
      BY DEF ConnectOk, SessionInv, MainCloseInv
    <3>5. ChildCloseInv(s)'
      BY DEF ConnectOk, WorkTypeOK, IoTypeOK, SessionInv, MemInv, BootInv, CtrlInv,
             ChildCloseInv
    <3>6. IoInv(s)'
      BY DEF ConnectOk, ObjTypeOK, IoTypeOK, MainTypeOK, SessionInv, MemInv,
             BootInv, CtrlInv, IoInv
    <3> QED BY <2>2, <3>1, <3>2, <3>3, <3>4, <3>5, <3>6 DEF SessionInv
  <2> QED BY <2>1, <2>2
<1>3. ProcessInv'
  BY DEF ConnectOk, ObjTypeOK, SessionInv, MemInv, CtrlInv, ProcessInv
<1> QED BY <1>1, <1>2, <1>3

\* ConnectFail keeps the invariant.
LEMMA ConnectFailInv ==
  ASSUME IInv, NEW s \in Sessions, ~aborted, ConnectFail(s)
  PROVE  IInv'
<1> USE DEF IInv
<1>1. TypeOK'
  BY DEF ConnectFail, KillSessions, ObjTypeOK, MainTypeOK, ProcessTypeOK,
         WorkTypeOK, IoTypeOK, BootStates, WorkStates, TcpStates, FreeStates
<1>2. ASSUME NEW t \in Sessions PROVE SessionInv(t)'
  <2>1. MemInv(t)'
    BY DEF ConnectFail, KillSessions, ObjTypeOK, MainTypeOK, SessionInv, MemInv
  <2>2. BootInv(t)'
    BY DEF ConnectFail, KillSessions, SessionInv, BootInv
  <2>3. CtrlInv(t)'
    BY DEF ConnectFail, KillSessions, MainTypeOK, WorkTypeOK, SessionInv, CtrlInv,
           MemInv, BootInv
  <2>4. MainCloseInv(t)'
    BY DEF ConnectFail, KillSessions, ObjTypeOK, MainTypeOK, SessionInv,
           MainCloseInv, MemInv, CtrlInv
  <2>5. ChildCloseInv(t)'
    BY DEF ConnectFail, KillSessions, SessionInv, ChildCloseInv
  <2>6. IoInv(t)'
    BY DEF ConnectFail, KillSessions, SessionInv, IoInv
  <2> QED BY <2>1, <2>2, <2>3, <2>4, <2>5, <2>6 DEF SessionInv
<1>3. ProcessInv'
  BY DEF ConnectFail, KillSessions, ObjTypeOK, SessionInv, MemInv, CtrlInv,
         ProcessInv
<1> QED BY <1>1, <1>2, <1>3

\* AcceptClient keeps the invariant.
LEMMA AcceptClientInv ==
  ASSUME IInv, NEW s \in Sessions, ~aborted, AcceptClient(s)
  PROVE  IInv'
<1> USE DEF IInv
<1>1. TypeOK'
  <2>1. mem' \in [Sessions -> {"none", "alloc", "freed"}]
    BY DEF AcceptClient, MallocSession, ObjTypeOK
  <2>2. uvHandleRef' \in [Sessions -> 0..3]
    BY DEF AcceptClient, MallocSession, MainTypeOK
  <2>3. sessionRef' \in Nat
    BY AllocatedCount
       DEF AcceptClient, MallocSession, ProcessTypeOK, ProcessInv, Allocated
  <2>4. boot' \in [Sessions -> BootStates]
    BY DEF AcceptClient, MallocSession, MainTypeOK, BootStates
  <2>5. work' \in [Sessions -> WorkStates]
    BY DEF AcceptClient, MallocSession, WorkTypeOK, WorkStates
  <2>6. freePc' \in [Sessions -> FreeStates]
    BY DEF AcceptClient, MallocSession, MainTypeOK, FreeStates
  <2>7. ObjTypeOK' /\ WorkTypeOK' /\ IoTypeOK'
    BY <2>1, <2>5 DEF AcceptClient, MallocSession, ObjTypeOK, WorkTypeOK, IoTypeOK
  <2>8. MainTypeOK' /\ ProcessTypeOK'
    BY <2>2, <2>3, <2>4, <2>6 DEF AcceptClient, MallocSession, MainTypeOK, ProcessTypeOK
  <2> QED BY <2>7, <2>8
<1>2. ASSUME NEW t \in Sessions PROVE SessionInv(t)'
  <2>1. CASE t # s
    <3>1. Same(t)
      BY <2>1
         DEF AcceptClient, MallocSession, ObjTypeOK, MainTypeOK, ProcessTypeOK,
             WorkTypeOK, Same
    <3> QED BY <3>1, SameInv
  <2>2. CASE t = s
    <3>1. MemInv(s)'
      BY DEF AcceptClient, MallocSession, ObjTypeOK, MainTypeOK, SessionInv, MemInv
    <3>2. BootInv(s)'
      BY DEF AcceptClient, MallocSession, MainTypeOK, WorkTypeOK, IoTypeOK,
             SessionInv, BootInv, MemInv, CtrlInv
    <3>3. CtrlInv(s)'
      BY DEF AcceptClient, MallocSession, MainTypeOK, WorkTypeOK, SessionInv,
             CtrlInv, MemInv, BootInv
    <3>4. MainCloseInv(s)'
      BY DEF AcceptClient, MallocSession, ObjTypeOK, MainTypeOK, SessionInv,
             MainCloseInv, MemInv, CtrlInv
    <3>5. ChildCloseInv(s)'
      BY DEF AcceptClient, MallocSession, WorkTypeOK, IoTypeOK, SessionInv, MemInv,
             BootInv, CtrlInv, ChildCloseInv
    <3>6. IoInv(s)'
      BY DEF AcceptClient, MallocSession, ObjTypeOK, IoTypeOK, MainTypeOK,
             SessionInv, IoInv, MemInv, CtrlInv
    <3> QED BY <2>2, <3>1, <3>2, <3>3, <3>4, <3>5, <3>6 DEF SessionInv
  <2> QED BY <2>1, <2>2
<1>3. ProcessInv'
  <2>1. Allocated' = Allocated \cup {s} /\ s \notin Allocated
    BY DEF AcceptClient, MallocSession, ObjTypeOK, Allocated
  <2>2. sessionRef' = Cardinality(Allocated')
    BY <2>1, AllocatedCount DEF AcceptClient, MallocSession, ProcessInv, Allocated
  <2> QED BY <2>2 DEF AcceptClient, MallocSession, ObjTypeOK, Allocated, ProcessInv
<1> QED BY <1>1, <1>2, <1>3

\* PrepareNewSession keeps the invariant.
LEMMA PrepareNewSessionInv ==
  ASSUME IInv, NEW s \in Sessions, ~aborted, PrepareNewSession(s)
  PROVE  IInv'
<1> USE DEF IInv
<1>1. TypeOK'
  <2>1. mem' \in [Sessions -> {"none", "alloc", "freed"}]
    BY DEF PrepareNewSession, MallocSession, ObjTypeOK
  <2>2. uvHandleRef' \in [Sessions -> 0..3]
    BY DEF PrepareNewSession, MallocSession, MainTypeOK
  <2>3. sessionRef' \in Nat
    BY AllocatedCount
       DEF PrepareNewSession, MallocSession, ProcessTypeOK, ProcessInv, Allocated
  <2>4. boot' \in [Sessions -> BootStates]
    BY DEF PrepareNewSession, MallocSession, MainTypeOK, BootStates
  <2>5. work' \in [Sessions -> WorkStates]
    BY DEF PrepareNewSession, MallocSession, WorkTypeOK, WorkStates
  <2>6. lstMainThreadOP' \subseteq Sessions
    BY DEF PrepareNewSession, MallocSession, ProcessTypeOK
  <2> QED
    BY <2>1, <2>2, <2>3, <2>4, <2>5, <2>6
       DEF PrepareNewSession, MallocSession, ObjTypeOK, MainTypeOK, ProcessTypeOK,
           WorkTypeOK, IoTypeOK
<1>2. ASSUME NEW t \in Sessions PROVE SessionInv(t)'
  <2>1. CASE t # s
    <3>1. Same(t)
      BY <2>1
         DEF PrepareNewSession, MallocSession, ObjTypeOK, MainTypeOK, ProcessTypeOK,
             WorkTypeOK, Same
    <3> QED BY <3>1, SameInv
  <2>2. CASE t = s
    <3>1. MemInv(s)'
      BY DEF PrepareNewSession, MallocSession, ObjTypeOK, MainTypeOK, SessionInv,
             MemInv
    <3>2. BootInv(s)'
      BY DEF PrepareNewSession, MallocSession, MainTypeOK, WorkTypeOK, IoTypeOK,
             SessionInv, BootInv, MemInv, CtrlInv
    <3>3. CtrlInv(s)'
      BY DEF PrepareNewSession, MallocSession, MainTypeOK, WorkTypeOK, SessionInv,
             CtrlInv, MemInv, BootInv
    <3>4. MainCloseInv(s)'
      BY DEF PrepareNewSession, MallocSession, ObjTypeOK, MainTypeOK, SessionInv,
             MainCloseInv, MemInv, CtrlInv
    <3>5. ChildCloseInv(s)'
      BY DEF PrepareNewSession, MallocSession, WorkTypeOK, IoTypeOK, SessionInv,
             MemInv, BootInv, CtrlInv, ChildCloseInv
    <3>6. IoInv(s)'
      BY DEF PrepareNewSession, MallocSession, ObjTypeOK, IoTypeOK, MainTypeOK,
             SessionInv, IoInv, MemInv, CtrlInv
    <3> QED BY <2>2, <3>1, <3>2, <3>3, <3>4, <3>5, <3>6 DEF SessionInv
  <2> QED BY <2>1, <2>2
<1>3. ProcessInv'
  <2>1. Allocated' = Allocated \cup {s} /\ s \notin Allocated
    BY DEF PrepareNewSession, MallocSession, ObjTypeOK, Allocated
  <2>2. sessionRef' = Cardinality(Allocated')
    BY <2>1, AllocatedCount
       DEF PrepareNewSession, MallocSession, ProcessInv, Allocated
  <2> QED BY <2>2
             DEF PrepareNewSession, MallocSession, ObjTypeOK, Allocated, ProcessInv
<1> QED BY <1>1, <1>2, <1>3

\* ThreadUp keeps the invariant.
LEMMA ThreadUpInv ==
  ASSUME IInv, NEW s \in Sessions, ~aborted, ThreadUp(s)
  PROVE  IInv'
<1> USE DEF IInv
<1>0. ctrl[s] = <<>>
  BY ControlQueues DEF ThreadUp, SessionInv, BootInv, CtrlInv
<1>1. TypeOK'
  <2>1. ctrl' \in [Sessions -> Seq({"SP_START_SESSION", "SP_STOP_SESSION"})]
    BY ControlQueues, <1>0 DEF ThreadUp, ActiveHandles, WorkTypeOK
  <2>2. boot' \in [Sessions -> BootStates]
    BY <1>0 DEF ThreadUp, ActiveHandles, MainTypeOK, BootStates
  <2> QED
    BY <2>1, <2>2
       DEF ThreadUp, ActiveHandles, ObjTypeOK, MainTypeOK, ProcessTypeOK,
           WorkTypeOK, IoTypeOK
<1>2. ASSUME NEW t \in Sessions PROVE SessionInv(t)'
  <2>1. CASE t # s
    <3>1. Same(t)
      BY <2>1 DEF ThreadUp, ActiveHandles, MainTypeOK, WorkTypeOK, Same
    <3> QED BY <3>1, SameInv
  <2>2. CASE t = s
    <3>1. MemInv(s)'
      BY <1>0 DEF ThreadUp, ActiveHandles, SessionInv, MemInv
    <3>2. BootInv(s)'
      BY ControlQueues, <1>0 DEF ThreadUp, ActiveHandles, SessionInv, BootInv
    <3>3. CtrlInv(s)'
      BY ControlQueues, <1>0
         DEF ThreadUp, ActiveHandles, MainTypeOK, WorkTypeOK, SessionInv, CtrlInv,
             MemInv, BootInv
    <3>4. MainCloseInv(s)'
      BY <1>0 DEF ThreadUp, ActiveHandles, SessionInv, MainCloseInv
    <3>5. ChildCloseInv(s)'
      BY <1>0 DEF ThreadUp, ActiveHandles, SessionInv, ChildCloseInv
    <3>6. IoInv(s)'
      BY <1>0 DEF ThreadUp, ActiveHandles, SessionInv, IoInv
    <3> QED BY <2>2, <3>1, <3>2, <3>3, <3>4, <3>5, <3>6 DEF SessionInv
  <2> QED BY <2>1, <2>2
<1>3. ProcessInv'
  BY DEF ThreadUp, ActiveHandles, ObjTypeOK, SessionInv, MemInv, CtrlInv, ProcessInv
<1> QED BY <1>1, <1>2, <1>3

\* FuncNewSessionUp keeps the invariant.
LEMMA FuncNewSessionUpInv ==
  ASSUME IInv, NEW s \in Sessions, ~aborted, FuncNewSessionUp(s)
  PROVE  IInv'
<1> USE DEF IInv
<1>0. ~isDead[s] => ctrl[s] = <<>>
  BY ControlQueues DEF FuncNewSessionUp, SessionInv, MemInv, CtrlInv
<1>1. TypeOK'
  <2>1. ctrl' \in [Sessions -> Seq({"SP_START_SESSION", "SP_STOP_SESSION"})]
    BY ControlQueues, <1>0 DEF FuncNewSessionUp, ActiveHandles, WorkTypeOK
  <2>2. boot' \in [Sessions -> BootStates]
    BY <1>0 DEF FuncNewSessionUp, ActiveHandles, MainTypeOK, BootStates
  <2> QED
    BY <2>1, <2>2
       DEF FuncNewSessionUp, ActiveHandles, ObjTypeOK, MainTypeOK, ProcessTypeOK,
           WorkTypeOK, IoTypeOK
<1>2. ASSUME NEW t \in Sessions PROVE SessionInv(t)'
  <2>1. CASE t # s
    <3>1. Same(t)
      BY <2>1 DEF FuncNewSessionUp, ActiveHandles, MainTypeOK, WorkTypeOK, Same
    <3> QED BY <3>1, SameInv
  <2>2. CASE t = s
    <3>1. MemInv(s)'
      BY <1>0 DEF FuncNewSessionUp, ActiveHandles, SessionInv, MemInv
    <3>2. BootInv(s)'
      BY ControlQueues, <1>0
         DEF FuncNewSessionUp, ActiveHandles, SessionInv, BootInv
    <3>3. CtrlInv(s)'
      BY ControlQueues, <1>0
         DEF FuncNewSessionUp, ActiveHandles, MainTypeOK, WorkTypeOK, SessionInv,
             CtrlInv, MemInv, BootInv
    <3>4. MainCloseInv(s)'
      BY <1>0 DEF FuncNewSessionUp, ActiveHandles, SessionInv, MainCloseInv
    <3>5. ChildCloseInv(s)'
      BY <1>0 DEF FuncNewSessionUp, ActiveHandles, SessionInv, ChildCloseInv
    <3>6. IoInv(s)'
      BY <1>0 DEF FuncNewSessionUp, ActiveHandles, SessionInv, IoInv
    <3> QED BY <2>2, <3>1, <3>2, <3>3, <3>4, <3>5, <3>6 DEF SessionInv
  <2> QED BY <2>1, <2>2
<1>3. ProcessInv'
  BY DEF FuncNewSessionUp, ActiveHandles, ObjTypeOK, SessionInv, MemInv, CtrlInv,
         ProcessInv
<1> QED BY <1>1, <1>2, <1>3

\* ResetOldSession keeps the invariant.
LEMMA ResetOldSessionInv ==
  ASSUME IInv, NEW s \in Sessions, ~aborted, ResetOldSession(s)
  PROVE  IInv'
<1> USE DEF IInv
<1>1. TypeOK'
  BY DEF ResetOldSession, ObjTypeOK, MainTypeOK, ProcessTypeOK, WorkTypeOK, IoTypeOK
<1>2. ASSUME NEW t \in Sessions PROVE SessionInv(t)'
  <2>1. MemInv(t)'
    BY DEF ResetOldSession, SessionInv, MemInv
  <2>2. BootInv(t)'
    BY DEF ResetOldSession, SessionInv, BootInv
  <2>3. CtrlInv(t)'
    BY DEF ResetOldSession, SessionInv, CtrlInv
  <2>4. MainCloseInv(t)'
    BY DEF ResetOldSession, SessionInv, MainCloseInv
  <2>5. ChildCloseInv(t)'
    BY DEF ResetOldSession, SessionInv, ChildCloseInv
  <2>6. IoInv(t)'
    BY DEF ResetOldSession, SessionInv, IoInv
  <2> QED BY <2>1, <2>2, <2>3, <2>4, <2>5, <2>6 DEF SessionInv
<1>3. ProcessInv'
  BY DEF ResetOldSession, ObjTypeOK, SessionInv, MemInv, CtrlInv, ProcessInv
<1> QED BY <1>1, <1>2, <1>3

\* AsyncFree keeps the invariant.
LEMMA AsyncFreeInv ==
  ASSUME IInv, NEW s \in Sessions, ~aborted, AsyncFree(s)
  PROVE  IInv'
<1> USE DEF IInv
<1>1. TypeOK'
  BY DEF AsyncFree, KillSessions, ObjTypeOK, MainTypeOK, ProcessTypeOK, WorkTypeOK,
         IoTypeOK, BootStates, WorkStates, TcpStates, FreeStates
<1>2. ASSUME NEW t \in Sessions PROVE SessionInv(t)'
  <2>1. MemInv(t)'
    BY DEF AsyncFree, KillSessions, SessionInv, MemInv
  <2>2. BootInv(t)'
    BY DEF AsyncFree, KillSessions, SessionInv, BootInv
  <2>3. CtrlInv(t)'
    BY DEF AsyncFree, KillSessions, MainTypeOK, WorkTypeOK, SessionInv, CtrlInv,
           MemInv, BootInv
  <2>4. MainCloseInv(t)'
    BY DEF AsyncFree, KillSessions, ObjTypeOK, MainTypeOK, SessionInv, MainCloseInv,
           MemInv, CtrlInv
  <2>5. ChildCloseInv(t)'
    BY DEF AsyncFree, KillSessions, SessionInv, ChildCloseInv
  <2>6. IoInv(t)'
    BY DEF AsyncFree, KillSessions, SessionInv, IoInv
  <2> QED BY <2>1, <2>2, <2>3, <2>4, <2>5, <2>6 DEF SessionInv
<1>3. ProcessInv'
  BY DEF AsyncFree, KillSessions, ObjTypeOK, SessionInv, MemInv, CtrlInv, ProcessInv
<1> QED BY <1>1, <1>2, <1>3

\* CommandRemoveSession keeps the invariant.
LEMMA CommandRemoveSessionInv ==
  ASSUME IInv, NEW s \in Sessions, ~aborted, CommandRemoveSession(s)
  PROVE  IInv'
<1> USE DEF IInv
<1>1. TypeOK'
  BY DEF CommandRemoveSession, KillSessions, ObjTypeOK, MainTypeOK, ProcessTypeOK,
         WorkTypeOK, IoTypeOK, BootStates, WorkStates, TcpStates, FreeStates
<1>2. ASSUME NEW t \in Sessions PROVE SessionInv(t)'
  <2>1. MemInv(t)'
    BY DEF CommandRemoveSession, KillSessions, SessionInv, MemInv
  <2>2. BootInv(t)'
    BY DEF CommandRemoveSession, KillSessions, SessionInv, BootInv
  <2>3. CtrlInv(t)'
    BY DEF CommandRemoveSession, KillSessions, MainTypeOK, WorkTypeOK, SessionInv,
           CtrlInv, MemInv, BootInv
  <2>4. MainCloseInv(t)'
    BY DEF CommandRemoveSession, KillSessions, ObjTypeOK, MainTypeOK, SessionInv,
           MainCloseInv, MemInv, CtrlInv
  <2>5. ChildCloseInv(t)'
    BY DEF CommandRemoveSession, KillSessions, SessionInv, ChildCloseInv
  <2>6. IoInv(t)'
    BY DEF CommandRemoveSession, KillSessions, SessionInv, IoInv
  <2> QED BY <2>1, <2>2, <2>3, <2>4, <2>5, <2>6 DEF SessionInv
<1>3. ProcessInv'
  BY DEF CommandRemoveSession, KillSessions, ObjTypeOK, SessionInv, MemInv, CtrlInv,
         ProcessInv
<1> QED BY <1>1, <1>2, <1>3

\* FreeSessionFinally keeps the invariant.
LEMMA FreeSessionFinallyInv ==
  ASSUME IInv, NEW s \in Sessions, ~aborted, FreeSessionFinally(s)
  PROVE  IInv'
<1> USE DEF IInv
<1>0. s \in Allocated
  BY DEF FreeSessionFinally, SessionInv, MemInv, ObjTypeOK, MainTypeOK,
         ProcessTypeOK, WorkTypeOK, IoTypeOK, Allocated
<1>1. TypeOK'
  <2>1. sessionRef' \in Nat
    BY AllocatedCount, <1>0
       DEF FreeSessionFinally, ProcessTypeOK, ProcessInv, Allocated, SessionInv,
           MemInv
  <2>2. mem' \in [Sessions -> {"none", "alloc", "freed"}]
    BY <1>0 DEF FreeSessionFinally, ObjTypeOK
  <2>3. freePc' \in [Sessions -> FreeStates]
    BY <1>0 DEF FreeSessionFinally, MainTypeOK, FreeStates
  <2> QED
    BY <2>1, <2>2, <2>3
       DEF FreeSessionFinally, ObjTypeOK, MainTypeOK, ProcessTypeOK, WorkTypeOK,
           IoTypeOK
<1>2. ASSUME NEW t \in Sessions PROVE SessionInv(t)'
  <2>1. MemInv(t)'
    BY DEF FreeSessionFinally, ObjTypeOK, MainTypeOK, SessionInv, MemInv
  <2>2. BootInv(t)'
    BY DEF FreeSessionFinally, SessionInv, BootInv
  <2>3. CtrlInv(t)'
    BY DEF FreeSessionFinally, SessionInv, CtrlInv
  <2>4. MainCloseInv(t)'
    BY DEF FreeSessionFinally, SessionInv, MainCloseInv
  <2>5. ChildCloseInv(t)'
    BY DEF FreeSessionFinally, SessionInv, ChildCloseInv
  <2>6. IoInv(t)'
    BY DEF FreeSessionFinally, SessionInv, IoInv
  <2> QED BY <2>1, <2>2, <2>3, <2>4, <2>5, <2>6 DEF SessionInv
<1>3. ProcessInv'
  <2>1. Allocated' = Allocated \ {s} /\ s \in Allocated
    BY DEF FreeSessionFinally, ObjTypeOK, Allocated, SessionInv, MemInv
  <2>2. sessionRef' = Cardinality(Allocated')
    BY <2>1, AllocatedCount DEF FreeSessionFinally, ProcessInv, Allocated
  <2> QED BY <2>2 DEF FreeSessionFinally, ObjTypeOK, Allocated, ProcessInv
<1> QED BY <1>1, <1>2, <1>3

\* WorkerStart keeps the invariant.
LEMMA WorkerStartInv ==
  ASSUME IInv, NEW s \in Sessions, ~aborted, WorkerStart(s)
  PROVE  IInv'
<1> USE DEF IInv
<1>1. TypeOK'
  BY DEF WorkerStart, ObjTypeOK, MainTypeOK, ProcessTypeOK, WorkTypeOK, IoTypeOK,
         BootStates, WorkStates, TcpStates, FreeStates
<1>2. ASSUME NEW t \in Sessions PROVE SessionInv(t)'
  <2>1. MemInv(t)'
    BY DEF WorkerStart, SessionInv, MemInv
  <2>2. BootInv(t)'
    BY DEF WorkerStart, SessionInv, BootInv
  <2>3. CtrlInv(t)'
    BY DEF WorkerStart, SessionInv, CtrlInv
  <2>4. MainCloseInv(t)'
    BY DEF WorkerStart, SessionInv, MainCloseInv
  <2>5. ChildCloseInv(t)'
    BY DEF WorkerStart, SessionInv, ChildCloseInv
  <2>6. IoInv(t)'
    BY DEF WorkerStart, SessionInv, IoInv
  <2> QED BY <2>1, <2>2, <2>3, <2>4, <2>5, <2>6 DEF SessionInv
<1>3. ProcessInv'
  BY DEF WorkerStart, ObjTypeOK, SessionInv, MemInv, CtrlInv, ProcessInv
<1> QED BY <1>1, <1>2, <1>3

\* WorkerRun keeps the invariant.
LEMMA WorkerRunInv ==
  ASSUME IInv, NEW s \in Sessions, ~aborted, WorkerRun(s)
  PROVE  IInv'
<1> USE DEF IInv
<1>1. TypeOK'
  BY DEF WorkerRun, ObjTypeOK, MainTypeOK, ProcessTypeOK, WorkTypeOK, IoTypeOK,
         BootStates, WorkStates, TcpStates, FreeStates
<1>2. ASSUME NEW t \in Sessions PROVE SessionInv(t)'
  <2>1. MemInv(t)'
    BY DEF WorkerRun, SessionInv, MemInv
  <2>2. BootInv(t)'
    BY DEF WorkerRun, SessionInv, BootInv
  <2>3. CtrlInv(t)'
    BY DEF WorkerRun, SessionInv, CtrlInv
  <2>4. MainCloseInv(t)'
    BY DEF WorkerRun, SessionInv, MainCloseInv
  <2>5. ChildCloseInv(t)'
    BY DEF WorkerRun, SessionInv, ChildCloseInv
  <2>6. IoInv(t)'
    BY DEF WorkerRun, SessionInv, IoInv
  <2> QED BY <2>1, <2>2, <2>3, <2>4, <2>5, <2>6 DEF SessionInv
<1>3. ProcessInv'
  BY DEF WorkerRun, ObjTypeOK, SessionInv, MemInv, CtrlInv, ProcessInv
<1> QED BY <1>1, <1>2, <1>3

\* SendCheck keeps the invariant.
LEMMA SendCheckInv ==
  ASSUME IInv, NEW s \in Sessions, ~aborted, SendCheck(s)
  PROVE  IInv'
<1> USE DEF IInv
<1>1. TypeOK'
  BY DEF SendCheck, WorkerIdle, ObjTypeOK, MainTypeOK, ProcessTypeOK, WorkTypeOK,
         IoTypeOK
<1>2. ASSUME NEW t \in Sessions PROVE SessionInv(t)'
  <2>1. MemInv(t)'
    BY DEF SendCheck, WorkerIdle, SessionInv, MemInv
  <2>2. BootInv(t)'
    BY DEF SendCheck, WorkerIdle, SessionInv, BootInv
  <2>3. CtrlInv(t)'
    BY DEF SendCheck, WorkerIdle, SessionInv, CtrlInv
  <2>4. MainCloseInv(t)'
    BY DEF SendCheck, WorkerIdle, SessionInv, MainCloseInv
  <2>5. ChildCloseInv(t)'
    BY DEF SendCheck, WorkerIdle, SessionInv, ChildCloseInv
  <2>6. IoInv(t)'
    BY DEF SendCheck, WorkerIdle, SessionInv, IoInv
  <2> QED BY <2>1, <2>2, <2>3, <2>4, <2>5, <2>6 DEF SessionInv
<1>3. ProcessInv'
  BY DEF SendCheck, WorkerIdle, ObjTypeOK, SessionInv, MemInv, CtrlInv, ProcessInv
<1> QED BY <1>1, <1>2, <1>3

\* ReadStreamError keeps the invariant.
LEMMA ReadStreamErrorInv ==
  ASSUME IInv, NEW s \in Sessions, ~aborted, ReadStreamError(s)
  PROVE  IInv'
<1> USE DEF IInv
<1>1. TypeOK'
  BY DEF ReadStreamError, WorkerIdle, ObjTypeOK, MainTypeOK, ProcessTypeOK,
         WorkTypeOK, IoTypeOK, BootStates, WorkStates, TcpStates, FreeStates
<1>2. ASSUME NEW t \in Sessions PROVE SessionInv(t)'
  <2>1. MemInv(t)'
    BY DEF ReadStreamError, WorkerIdle, SessionInv, MemInv
  <2>2. BootInv(t)'
    BY DEF ReadStreamError, WorkerIdle, SessionInv, BootInv
  <2>3. CtrlInv(t)'
    BY DEF ReadStreamError, WorkerIdle, SessionInv, CtrlInv
  <2>4. MainCloseInv(t)'
    BY DEF ReadStreamError, WorkerIdle, SessionInv, MainCloseInv
  <2>5. ChildCloseInv(t)'
    BY DEF ReadStreamError, WorkerIdle, SessionInv, ChildCloseInv
  <2>6. IoInv(t)'
    BY DEF ReadStreamError, WorkerIdle, SessionInv, IoInv
  <2> QED BY <2>1, <2>2, <2>3, <2>4, <2>5, <2>6 DEF SessionInv
<1>3. ProcessInv'
  BY DEF ReadStreamError, WorkerIdle, ObjTypeOK, SessionInv, MemInv, CtrlInv,
         ProcessInv
<1> QED BY <1>1, <1>2, <1>3

\* ReadUartError keeps the invariant.
LEMMA ReadUartErrorInv ==
  ASSUME IInv, NEW s \in Sessions, ~aborted, ReadUartError(s)
  PROVE  IInv'
<1> USE DEF IInv
<1>1. TypeOK'
  BY DEF ReadUartError, WorkerIdle, ObjTypeOK, MainTypeOK, ProcessTypeOK,
         WorkTypeOK, IoTypeOK
<1>2. ASSUME NEW t \in Sessions PROVE SessionInv(t)'
  <2>1. MemInv(t)'
    BY DEF ReadUartError, WorkerIdle, SessionInv, MemInv
  <2>2. BootInv(t)'
    BY DEF ReadUartError, WorkerIdle, SessionInv, BootInv
  <2>3. CtrlInv(t)'
    BY DEF ReadUartError, WorkerIdle, SessionInv, CtrlInv
  <2>4. MainCloseInv(t)'
    BY DEF ReadUartError, WorkerIdle, SessionInv, MainCloseInv
  <2>5. ChildCloseInv(t)'
    BY DEF ReadUartError, WorkerIdle, SessionInv, ChildCloseInv
  <2>6. IoInv(t)'
    BY DEF ReadUartError, WorkerIdle, SessionInv, IoInv
  <2> QED BY <2>1, <2>2, <2>3, <2>4, <2>5, <2>6 DEF SessionInv
<1>3. ProcessInv'
  BY DEF ReadUartError, WorkerIdle, ObjTypeOK, SessionInv, MemInv, CtrlInv,
         ProcessInv
<1> QED BY <1>1, <1>2, <1>3

\* OnNewHandshakeOK keeps the invariant.
LEMMA OnNewHandshakeOKInv ==
  ASSUME IInv, NEW s \in Sessions, ~aborted, OnNewHandshakeOK(s)
  PROVE  IInv'
<1> USE DEF IInv
<1>1. TypeOK'
  BY DEF OnNewHandshakeOK, WorkerIdle, ObjTypeOK, MainTypeOK, ProcessTypeOK,
         WorkTypeOK, IoTypeOK
<1>2. ASSUME NEW t \in Sessions PROVE SessionInv(t)'
  <2>1. MemInv(t)'
    BY DEF OnNewHandshakeOK, WorkerIdle, SessionInv, MemInv
  <2>2. BootInv(t)'
    BY DEF OnNewHandshakeOK, WorkerIdle, SessionInv, BootInv
  <2>3. CtrlInv(t)'
    BY DEF OnNewHandshakeOK, WorkerIdle, SessionInv, CtrlInv
  <2>4. MainCloseInv(t)'
    BY DEF OnNewHandshakeOK, WorkerIdle, SessionInv, MainCloseInv
  <2>5. ChildCloseInv(t)'
    BY DEF OnNewHandshakeOK, WorkerIdle, SessionInv, ChildCloseInv
  <2>6. IoInv(t)'
    BY DEF OnNewHandshakeOK, WorkerIdle, SessionInv, IoInv
  <2> QED BY <2>1, <2>2, <2>3, <2>4, <2>5, <2>6 DEF SessionInv
<1>3. ProcessInv'
  BY DEF OnNewHandshakeOK, WorkerIdle, ObjTypeOK, SessionInv, MemInv, CtrlInv,
         ProcessInv
<1> QED BY <1>1, <1>2, <1>3

\* ChildTcpClosed keeps the invariant.
LEMMA ChildTcpClosedInv ==
  ASSUME IInv, NEW s \in Sessions, ~aborted, ChildTcpClosed(s)
  PROVE  IInv'
<1> USE DEF IInv
<1>1. TypeOK'
  BY DEF ChildTcpClosed, ChildLoopRuns, ObjTypeOK, MainTypeOK, ProcessTypeOK,
         WorkTypeOK, IoTypeOK, BootStates, WorkStates, TcpStates, FreeStates
<1>2. ASSUME NEW t \in Sessions PROVE SessionInv(t)'
  <2>1. MemInv(t)'
    BY DEF ChildTcpClosed, ChildLoopRuns, SessionInv, MemInv
  <2>2. BootInv(t)'
    BY DEF ChildTcpClosed, ChildLoopRuns, SessionInv, BootInv
  <2>3. CtrlInv(t)'
    BY DEF ChildTcpClosed, ChildLoopRuns, SessionInv, CtrlInv
  <2>4. MainCloseInv(t)'
    BY DEF ChildTcpClosed, ChildLoopRuns, SessionInv, MainCloseInv
  <2>5. ChildCloseInv(t)'
    BY DEF ChildTcpClosed, ChildLoopRuns, SessionInv, ChildCloseInv
  <2>6. IoInv(t)'
    BY DEF ChildTcpClosed, ChildLoopRuns, SessionInv, IoInv
  <2> QED BY <2>1, <2>2, <2>3, <2>4, <2>5, <2>6 DEF SessionInv
<1>3. ProcessInv'
  BY DEF ChildTcpClosed, ChildLoopRuns, ObjTypeOK, SessionInv, MemInv, CtrlInv,
         ProcessInv
<1> QED BY <1>1, <1>2, <1>3

\* ChildLoopStopped keeps the invariant.
LEMMA ChildLoopStoppedInv ==
  ASSUME IInv, NEW s \in Sessions, ~aborted, ChildLoopStopped(s)
  PROVE  IInv'
<1> USE DEF IInv
<1>a. /\ UNCHANGED <<objVars, mainVars, ctrl, tcpVars, taskVars, endVars, uartVars>>
      /\ work' = [work EXCEPT ![s] = "clearing"]
  BY DEF ChildLoopStopped
<1>0. /\ work[s] = "stopping" /\ childTcp[s] \notin {"open", "closing"} /\ ~sending[s]
      /\ uvChildRef[s] = 0 /\ childClosing[s] = {}
  <2>1. Cardinality(childClosing[s]) = 0 => childClosing[s] = {}
    <3>1. childClosing[s] \subseteq ChildHandles
      BY DEF WorkTypeOK
    <3> QED BY <3>1, HandleCount
  <2> QED BY <2>1
             DEF ChildLoopStopped, SessionInv, ChildCloseInv, IoInv, WorkTypeOK,
                 IoTypeOK
<1>1. TypeOK'
  BY <1>a DEF ObjTypeOK, MainTypeOK, ProcessTypeOK, WorkTypeOK, IoTypeOK, WorkStates
<1>2. ASSUME NEW t \in Sessions PROVE SessionInv(t)'
  <2>1. CASE t # s
    <3>1. Same(t)
      BY <1>a, <2>1 DEF WorkTypeOK, Same
    <3> QED BY <3>1, SameInv
  <2>2. CASE t = s
    <3>0. work'[s] = "clearing"
      BY <1>a DEF WorkTypeOK
    <3>1. MemInv(s)' /\ MainCloseInv(s)'
      BY <1>0, <1>a, <3>0 DEF SessionInv, MemInv, MainCloseInv
    <3>2. BootInv(s)'
      BY <1>0, <1>a, <3>0 DEF SessionInv, BootInv
    <3>3. CtrlInv(s)'
      BY <1>0, <1>a, <3>0 DEF SessionInv, CtrlInv
    <3>4. ChildCloseInv(s)'
      BY <1>0, <1>a, <3>0 DEF SessionInv, ChildCloseInv
    <3>5. IoInv(s)'
      BY <1>0, <1>a, <3>0 DEF SessionInv, IoInv
    <3> QED BY <2>2, <3>1, <3>2, <3>3, <3>4, <3>5 DEF SessionInv
  <2> QED BY <2>1, <2>2
<1>3. ProcessInv'
  BY <1>a DEF ProcessInv
<1> QED BY <1>1, <1>2, <1>3

\* NewTask keeps the invariant.
LEMMA NewTaskInv ==
  ASSUME IInv, NEW s \in Sessions, ~aborted, NewTask(s)
  PROVE  IInv'
<1> USE DEF IInv
<1>1. TypeOK'
  <2>1. tasks' \in [Sessions -> 0..MaxTasks]
    BY DEF NewTask, WorkerIdle, WorkTypeOK
  <2> QED
    BY <2>1
       DEF NewTask, WorkerIdle, ObjTypeOK, MainTypeOK, ProcessTypeOK, WorkTypeOK,
           IoTypeOK
<1>2. ASSUME NEW t \in Sessions PROVE SessionInv(t)'
  <2>1. MemInv(t)'
    BY DEF NewTask, WorkerIdle, SessionInv, MemInv
  <2>2. BootInv(t)'
    BY DEF NewTask, WorkerIdle, SessionInv, BootInv
  <2>3. CtrlInv(t)'
    BY DEF NewTask, WorkerIdle, SessionInv, CtrlInv
  <2>4. MainCloseInv(t)'
    BY DEF NewTask, WorkerIdle, SessionInv, MainCloseInv
  <2>5. ChildCloseInv(t)'
    BY DEF NewTask, WorkerIdle, SessionInv, ChildCloseInv
  <2>6. IoInv(t)'
    BY DEF NewTask, WorkerIdle, SessionInv, IoInv
  <2> QED BY <2>1, <2>2, <2>3, <2>4, <2>5, <2>6 DEF SessionInv
<1>3. ProcessInv'
  BY DEF NewTask, WorkerIdle, ObjTypeOK, SessionInv, MemInv, CtrlInv, ProcessInv
<1> QED BY <1>1, <1>2, <1>3

\* TaskFreed keeps the invariant.
LEMMA TaskFreedInv ==
  ASSUME IInv, NEW s \in Sessions, ~aborted, TaskFreed(s)
  PROVE  IInv'
<1> USE DEF IInv
<1>1. TypeOK'
  <2>1. tasks' \in [Sessions -> 0..MaxTasks]
    BY DEF TaskFreed, WorkTypeOK
  <2>2. closeRetryCount' \in [Sessions -> 0..GLOBAL_TIMEOUT]
    BY DEF TaskFreed, WorkTypeOK
  <2> QED
    BY <2>1, <2>2
       DEF TaskFreed, ObjTypeOK, MainTypeOK, ProcessTypeOK, WorkTypeOK, IoTypeOK
<1>2. ASSUME NEW t \in Sessions PROVE SessionInv(t)'
  <2>1. MemInv(t)'
    BY DEF TaskFreed, SessionInv, MemInv
  <2>2. BootInv(t)'
    BY DEF TaskFreed, SessionInv, BootInv
  <2>3. CtrlInv(t)'
    BY DEF TaskFreed, SessionInv, CtrlInv
  <2>4. MainCloseInv(t)'
    BY DEF TaskFreed, SessionInv, MainCloseInv
  <2>5. ChildCloseInv(t)'
    BY DEF TaskFreed, SessionInv, ChildCloseInv
  <2>6. IoInv(t)'
    BY DEF TaskFreed, SessionInv, IoInv
  <2> QED BY <2>1, <2>2, <2>3, <2>4, <2>5, <2>6 DEF SessionInv
<1>3. ProcessInv'
  BY DEF TaskFreed, ObjTypeOK, SessionInv, MemInv, CtrlInv, ProcessInv
<1> QED BY <1>1, <1>2, <1>3

\* ChildCleared keeps the invariant.
LEMMA ChildClearedInv ==
  ASSUME IInv, NEW s \in Sessions, ~aborted, ChildCleared(s)
  PROVE  IInv'
<1> USE DEF IInv
<1>1. TypeOK'
  BY DEF ChildCleared, ObjTypeOK, MainTypeOK, ProcessTypeOK, WorkTypeOK, IoTypeOK,
         BootStates, WorkStates, TcpStates, FreeStates
<1>2. ASSUME NEW t \in Sessions PROVE SessionInv(t)'
  <2>1. MemInv(t)'
    BY DEF ChildCleared, SessionInv, MemInv
  <2>2. BootInv(t)'
    BY DEF ChildCleared, SessionInv, BootInv
  <2>3. CtrlInv(t)'
    BY DEF ChildCleared, SessionInv, CtrlInv
  <2>4. MainCloseInv(t)'
    BY DEF ChildCleared, SessionInv, MainCloseInv
  <2>5. ChildCloseInv(t)'
    BY DEF ChildCleared, SessionInv, ChildCloseInv
  <2>6. IoInv(t)'
    BY DEF ChildCleared, SessionInv, IoInv
  <2> QED BY <2>1, <2>2, <2>3, <2>4, <2>5, <2>6 DEF SessionInv
<1>3. ProcessInv'
  BY DEF ChildCleared, ObjTypeOK, SessionInv, MemInv, CtrlInv, ProcessInv
<1> QED BY <1>1, <1>2, <1>3

\* UartGetSession keeps the invariant.
LEMMA UartGetSessionInv ==
  ASSUME IInv, NEW s \in Sessions, ~aborted, UartGetSession(s)
  PROVE  IInv'
<1> USE DEF IInv
<1>1. TypeOK'
  BY DEF UartGetSession, ObjTypeOK, MainTypeOK, ProcessTypeOK, WorkTypeOK, IoTypeOK
<1>2. ASSUME NEW t \in Sessions PROVE SessionInv(t)'
  <2>1. MemInv(t)'
    BY DEF UartGetSession, SessionInv, MemInv
  <2>2. BootInv(t)'
    BY DEF UartGetSession, SessionInv, BootInv
  <2>3. CtrlInv(t)'
    BY DEF UartGetSession, SessionInv, CtrlInv
  <2>4. MainCloseInv(t)'
    BY DEF UartGetSession, SessionInv, MainCloseInv
  <2>5. ChildCloseInv(t)'
    BY DEF UartGetSession, SessionInv, ChildCloseInv
  <2>6. IoInv(t)'
    BY DEF UartGetSession, SessionInv, IoInv
  <2> QED BY <2>1, <2>2, <2>3, <2>4, <2>5, <2>6 DEF SessionInv
<1>3. ProcessInv'
  BY DEF UartGetSession, ObjTypeOK, SessionInv, MemInv, CtrlInv, ProcessInv
<1> QED BY <1>1, <1>2, <1>3

\* UartRef keeps the invariant.
LEMMA UartRefInv ==
  ASSUME IInv, NEW s \in Sessions, ~aborted, UartRef(s)
  PROVE  IInv'
<1> USE DEF IInv
<1>1. TypeOK'
  <2>1. ref' \in [Sessions -> Nat]
    BY DEF UartRef, ObjTypeOK
  <2>2. uartSend' \in [Sessions -> {"idle", "found", "io"}]
    BY DEF UartRef, IoTypeOK
  <2> QED
    BY <2>1, <2>2
       DEF UartRef, ObjTypeOK, MainTypeOK, ProcessTypeOK, WorkTypeOK, IoTypeOK
<1>2. ASSUME NEW t \in Sessions PROVE SessionInv(t)'
  <2>1. MemInv(t)'
    BY DEF UartRef, SessionInv, MemInv
  <2>2. BootInv(t)'
    BY DEF UartRef, SessionInv, BootInv
  <2>3. CtrlInv(t)'
    BY DEF UartRef, SessionInv, CtrlInv
  <2>4. MainCloseInv(t)'
    BY DEF UartRef, SessionInv, MainCloseInv
  <2>5. ChildCloseInv(t)'
    BY DEF UartRef, SessionInv, ChildCloseInv
  <2>6. IoInv(t)'
    BY DEF UartRef, ObjTypeOK, IoTypeOK, MainTypeOK, SessionInv, IoInv
  <2> QED BY <2>1, <2>2, <2>3, <2>4, <2>5, <2>6 DEF SessionInv
<1>3. ProcessInv'
  BY DEF UartRef, ObjTypeOK, SessionInv, MemInv, CtrlInv, ProcessInv
<1> QED BY <1>1, <1>2, <1>3

\* UartWritten keeps the invariant.
LEMMA UartWrittenInv ==
  ASSUME IInv, NEW s \in Sessions, ~aborted, UartWritten(s)
  PROVE  IInv'
<1> USE DEF IInv
<1>1. TypeOK'
  <2>1. ref' \in [Sessions -> Nat]
    <3>1. /\ ref \in [Sessions -> Nat]
          /\ writes[s] \in Nat /\ mainWrites[s] \in Nat
      BY DEF ObjTypeOK, IoTypeOK
    <3>2. ref[s] = writes[s] + mainWrites[s] + 1
      BY DEF UartWritten, SessionInv, IoInv
    <3>3. ref[s] - 1 \in Nat
      BY <3>1, <3>2
    <3>4. ref' = [ref EXCEPT ![s] = ref[s] - 1]
      BY DEF UartWritten
    <3> QED BY <3>1, <3>3, <3>4
  <2>2. uartSend' \in [Sessions -> {"idle", "found", "io"}]
    BY DEF UartWritten, IoTypeOK
  <2>3. lstMainThreadOP' \subseteq Sessions
    BY DEF UartWritten, ProcessTypeOK
  <2> QED
    BY <2>1, <2>2, <2>3
       DEF UartWritten, ObjTypeOK, MainTypeOK, ProcessTypeOK, WorkTypeOK, IoTypeOK
<1>2. ASSUME NEW t \in Sessions PROVE SessionInv(t)'
  <2>1. CASE t # s
    <3>1. Same(t)
      BY <2>1 DEF UartWritten, ObjTypeOK, ProcessTypeOK, IoTypeOK, Same
    <3> QED BY <3>1, SameInv
  <2>2. CASE t = s
    <3>1. MemInv(s)'
      BY DEF UartWritten, SessionInv, MemInv
    <3>2. BootInv(s)'
      BY DEF UartWritten, SessionInv, BootInv
    <3>3. CtrlInv(s)'
      BY DEF UartWritten, SessionInv, CtrlInv
    <3>4. MainCloseInv(s)'
      BY DEF UartWritten, SessionInv, MainCloseInv
    <3>5. ChildCloseInv(s)'
      BY DEF UartWritten, SessionInv, ChildCloseInv
    <3>6. IoInv(s)'
      BY DEF UartWritten, ObjTypeOK, IoTypeOK, MainTypeOK, SessionInv, IoInv
    <3> QED BY <2>2, <3>1, <3>2, <3>3, <3>4, <3>5, <3>6 DEF SessionInv
  <2> QED BY <2>1, <2>2
<1>3. ProcessInv'
  BY DEF UartWritten, ObjTypeOK, SessionInv, MemInv, CtrlInv, ProcessInv
<1> QED BY <1>1, <1>2, <1>3

\* MainHandleClosed keeps the invariant.
LEMMA MainHandleClosedInv ==
  ASSUME IInv, NEW s \in Sessions, NEW h \in MainHandles, ~aborted, MainHandleClosed(s, h)
  PROVE  IInv'
<1> USE DEF IInv
<1>0. /\ Cardinality(mainClosing[s] \ {h}) = Cardinality(mainClosing[s]) - 1
      /\ Cardinality(mainClosing[s]) \in 1..3
  <2>1. mainClosing[s] \subseteq MainHandles /\ h \in mainClosing[s]
    BY DEF MainHandleClosed, MainTypeOK
  <2> QED BY <2>1, HandleCount
<1>1. TypeOK'
  <2>1. uvHandleRef' \in [Sessions -> 0..3]
    BY <1>0 DEF MainHandleClosed, SessionInv, MainCloseInv, MainTypeOK
  <2>2. mainClosing' \in [Sessions -> SUBSET MainHandles]
    BY <1>0 DEF MainHandleClosed, MainTypeOK
  <2> QED
    BY <2>1, <2>2
       DEF MainHandleClosed, ObjTypeOK, MainTypeOK, ProcessTypeOK, WorkTypeOK,
           IoTypeOK
<1>2. ASSUME NEW t \in Sessions PROVE SessionInv(t)'
  <2>1. CASE t # s
    <3>1. Same(t)
      BY <2>1 DEF MainHandleClosed, MainTypeOK, Same
    <3> QED BY <3>1, SameInv
  <2>2. CASE t = s
    <3>1. MemInv(s)'
      BY <1>0 DEF MainHandleClosed, SessionInv, MemInv
    <3>2. BootInv(s)'
      BY <1>0 DEF MainHandleClosed, SessionInv, BootInv
    <3>3. CtrlInv(s)'
      BY <1>0 DEF MainHandleClosed, SessionInv, CtrlInv
    <3>4. MainCloseInv(s)'
      BY <1>0 DEF MainHandleClosed, ObjTypeOK, MainTypeOK, SessionInv, MainCloseInv
    <3>5. ChildCloseInv(s)'
      BY <1>0 DEF MainHandleClosed, SessionInv, ChildCloseInv
    <3>6. IoInv(s)'
      BY <1>0 DEF MainHandleClosed, SessionInv, IoInv
    <3> QED BY <2>2, <3>1, <3>2, <3>3, <3>4, <3>5, <3>6 DEF SessionInv
  <2> QED BY <2>1, <2>2
<1>3. ProcessInv'
  BY DEF MainHandleClosed, ObjTypeOK, SessionInv, MemInv, CtrlInv, ProcessInv
<1> QED BY <1>1, <1>2, <1>3

\* ChildHandleClosed keeps the invariant.
LEMMA ChildHandleClosedInv ==
  ASSUME IInv, NEW s \in Sessions, NEW h \in ChildHandles, ~aborted, ChildHandleClosed(s, h)
  PROVE  IInv'
<1> USE DEF IInv
<1>a. /\ UNCHANGED <<objVars, mainVars, work, ctrl, sending, writes, taskVars, dataPipe, uartVars>>
      /\ childClosing' = [childClosing EXCEPT ![s] = childClosing[s] \ {h}]
      /\ uvChildRef' = [uvChildRef EXCEPT ![s] = uvChildRef[s] - 1]
      /\ childTcp' = IF h = "hChildWorkTCP" THEN [childTcp EXCEPT ![s] = "closed"] ELSE childTcp
  BY DEF ChildHandleClosed
<1>0. /\ h \in childClosing[s] /\ work[s] = "stopping" /\ ~sending[s]
      /\ h = "hChildWorkTCP" => writes[s] = 0 /\ childTcp[s] = "closing"
      /\ childTcp[s] \notin {"inited", "open"}
      /\ "hChildWorkTCP" \in childClosing[s] => childTcp[s] = "closing"
      /\ uvChildRef[s] = Cardinality(childClosing[s])
  BY DEF ChildHandleClosed, SessionInv, ChildCloseInv
<1>b. /\ Cardinality(childClosing[s] \ {h}) = Cardinality(childClosing[s]) - 1
      /\ Cardinality(childClosing[s]) \in 1..3
  <2>1. childClosing[s] \subseteq ChildHandles
    BY DEF WorkTypeOK
  <2> QED BY <1>0, <2>1, HandleCount
<1>1. TypeOK'
  <2>1. uvChildRef' \in [Sessions -> 0..3]
    <3>1. uvChildRef[s] - 1 \in 0..3
      BY <1>0, <1>b
    <3> QED BY <1>a, <3>1 DEF WorkTypeOK
  <2>2. childClosing' \in [Sessions -> SUBSET ChildHandles]
    BY <1>a DEF WorkTypeOK
  <2>3. childTcp' \in [Sessions -> TcpStates]
    BY <1>a DEF IoTypeOK, TcpStates
  <2> QED
    BY <1>a, <2>1, <2>2, <2>3
       DEF ObjTypeOK, MainTypeOK, ProcessTypeOK, WorkTypeOK, IoTypeOK
<1>2. ASSUME NEW t \in Sessions PROVE SessionInv(t)'
  <2>1. CASE t # s
    <3>1. Same(t)
      BY <1>a, <2>1 DEF WorkTypeOK, IoTypeOK, Same
    <3> QED BY <3>1, SameInv
  <2>2. CASE t = s
    <3>0. /\ childTcp'[s] = IF h = "hChildWorkTCP" THEN "closed" ELSE childTcp[s]
          /\ childClosing'[s] = childClosing[s] \ {h}
          /\ uvChildRef'[s] = Cardinality(childClosing'[s])
      BY <1>0, <1>a, <1>b DEF WorkTypeOK, IoTypeOK
    <3>1. MemInv(s)' /\ CtrlInv(s)' /\ MainCloseInv(s)'
      BY <1>a DEF SessionInv, MemInv, CtrlInv, MainCloseInv
    <3>2. BootInv(s)'
      BY <1>0, <1>a, <3>0 DEF SessionInv, BootInv
    <3>3. ChildCloseInv(s)'
      BY <1>0, <1>a, <3>0 DEF SessionInv, ChildCloseInv
    <3>4. IoInv(s)'
      <4>1. writes[s] \in Nat
        BY DEF IoTypeOK
      <4> QED BY <1>0, <1>a, <3>0, <4>1 DEF SessionInv, IoInv
    <3> QED BY <2>2, <3>1, <3>2, <3>3, <3>4 DEF SessionInv
  <2> QED BY <2>1, <2>2
<1>3. ProcessInv'
  BY <1>a DEF ProcessInv
<1> QED BY <1>1, <1>2, <1>3

\* ClearSessions keeps the invariant.
LEMMA ClearSessionsInv ==
  ASSUME IInv, ~aborted, ClearSessions
  PROVE  IInv'
<1> USE DEF IInv
<1>1. TypeOK'
  BY DEF ClearSessions, KillSessions, ObjTypeOK, MainTypeOK, ProcessTypeOK,
         WorkTypeOK, IoTypeOK, BootStates, WorkStates, TcpStates, FreeStates
<1>2. ASSUME NEW t \in Sessions PROVE SessionInv(t)'
  <2>1. MemInv(t)'
    BY DEF ClearSessions, KillSessions, SessionInv, MemInv
  <2>2. BootInv(t)'
    BY DEF ClearSessions, KillSessions, SessionInv, BootInv
  <2>3. CtrlInv(t)'
    BY DEF ClearSessions, KillSessions, MainTypeOK, WorkTypeOK, SessionInv, CtrlInv,
           MemInv, BootInv
  <2>4. MainCloseInv(t)'
    BY DEF ClearSessions, KillSessions, ObjTypeOK, MainTypeOK, SessionInv,
           MainCloseInv, MemInv, CtrlInv
  <2>5. ChildCloseInv(t)'
    BY DEF ClearSessions, KillSessions, SessionInv, ChildCloseInv
  <2>6. IoInv(t)'
    BY DEF ClearSessions, KillSessions, SessionInv, IoInv
  <2> QED BY <2>1, <2>2, <2>3, <2>4, <2>5, <2>6 DEF SessionInv
<1>3. ProcessInv'
  BY DEF ClearSessions, KillSessions, ObjTypeOK, SessionInv, MemInv, CtrlInv,
         ProcessInv
<1> QED BY <1>1, <1>2, <1>3

\* StopModules keeps the invariant.
LEMMA StopModulesInv ==
  ASSUME IInv, ~aborted, StopModules
  PROVE  IInv'
<1> USE DEF IInv
<1>1. TypeOK'
  BY DEF StopModules, ObjTypeOK, MainTypeOK, ProcessTypeOK, WorkTypeOK, IoTypeOK
<1>2. ASSUME NEW t \in Sessions PROVE SessionInv(t)'
  <2>1. MemInv(t)'
    BY DEF StopModules, SessionInv, MemInv
  <2>2. BootInv(t)'
    BY DEF StopModules, SessionInv, BootInv
  <2>3. CtrlInv(t)'
    BY DEF StopModules, SessionInv, CtrlInv
  <2>4. MainCloseInv(t)'
    BY DEF StopModules, SessionInv, MainCloseInv
  <2>5. ChildCloseInv(t)'
    BY DEF StopModules, SessionInv, ChildCloseInv
  <2>6. IoInv(t)'
    BY DEF StopModules, SessionInv, IoInv
  <2> QED BY <2>1, <2>2, <2>3, <2>4, <2>5, <2>6 DEF SessionInv
<1>3. ProcessInv'
  BY DEF StopModules, ObjTypeOK, SessionInv, MemInv, CtrlInv, ProcessInv
<1> QED BY <1>1, <1>2, <1>3

\* InstanceCleared keeps the invariant.
LEMMA InstanceClearedInv ==
  ASSUME IInv, ~aborted, InstanceCleared
  PROVE  IInv'
<1> USE DEF IInv
<1>1. TypeOK'
  BY DEF InstanceCleared, ObjTypeOK, MainTypeOK, ProcessTypeOK, WorkTypeOK, IoTypeOK
<1>2. ASSUME NEW t \in Sessions PROVE SessionInv(t)'
  <2>1. MemInv(t)'
    BY DEF InstanceCleared, SessionInv, MemInv
  <2>2. BootInv(t)'
    BY DEF InstanceCleared, SessionInv, BootInv
  <2>3. CtrlInv(t)'
    BY DEF InstanceCleared, SessionInv, CtrlInv
  <2>4. MainCloseInv(t)'
    BY DEF InstanceCleared, SessionInv, MainCloseInv
  <2>5. ChildCloseInv(t)'
    BY DEF InstanceCleared, SessionInv, ChildCloseInv
  <2>6. IoInv(t)'
    BY DEF InstanceCleared, SessionInv, IoInv
  <2> QED BY <2>1, <2>2, <2>3, <2>4, <2>5, <2>6 DEF SessionInv
<1>3. ProcessInv'
  <2>1. Allocated = {}
    BY AllocatedCount DEF InstanceCleared, ProcessInv, Allocated
  <2> QED BY <2>1 DEF InstanceCleared, ObjTypeOK, Allocated, ProcessInv
<1> QED BY <1>1, <1>2, <1>3

\* SendWrite keeps the invariant.
LEMMA SendWriteInv ==
  ASSUME IInv, NEW s \in Sessions, ~aborted, SendWrite(s)
  PROVE  IInv'
<1> USE DEF IInv
<1>0. /\ writes[s] \in Nat /\ writes[s] + 1 \in 0..MaxWrites
      /\ work[s] = "up" /\ s \in Tcp /\ sending[s]
  BY DEF SendWrite, SessionInv, IoInv, IoTypeOK
<1>1. TypeOK'
  <2>1. sending' \in [Sessions -> BOOLEAN]
    BY DEF SendWrite, IoTypeOK
  <2>2. writes' \in [Sessions -> 0..MaxWrites]
    <3>1. writes' \in {writes, [writes EXCEPT ![s] = writes[s] + 1]}
      BY DEF SendWrite
    <3> QED BY <1>0, <3>1 DEF IoTypeOK
  <2>3. ref' \in [Sessions -> Nat]
    BY DEF SendWrite, ObjTypeOK
  <2> QED
    BY <2>1, <2>2, <2>3
       DEF SendWrite, ObjTypeOK, MainTypeOK, ProcessTypeOK, WorkTypeOK, IoTypeOK
<1>2. ASSUME NEW t \in Sessions PROVE SessionInv(t)'
  <2>1. CASE t # s
    <3>1. Same(t)
      BY <2>1 DEF SendWrite, ObjTypeOK, IoTypeOK, Same
    <3> QED BY <3>1, SameInv
  <2>2. CASE t = s
    <3>1. MemInv(s)' /\ BootInv(s)' /\ CtrlInv(s)' /\ MainCloseInv(s)' /\ ChildCloseInv(s)'
      BY DEF SendWrite, SessionInv, MemInv, BootInv, CtrlInv, MainCloseInv,
             ChildCloseInv
    <3>2. IoInv(s)'
      BY <1>0 DEF SendWrite, ObjTypeOK, IoTypeOK, MainTypeOK, SessionInv, IoInv
    <3> QED BY <2>2, <3>1, <3>2 DEF SessionInv
  <2> QED BY <2>1, <2>2
<1>3. ProcessInv'
  BY DEF SendWrite, ProcessInv
<1> QED BY <1>1, <1>2, <1>3

\* MainSend keeps the invariant.
LEMMA MainSendInv ==
  ASSUME IInv, NEW s \in Sessions, ~aborted, MainSend(s)
  PROVE  IInv'
<1> USE DEF IInv
<1>0. /\ mainWrites[s] \in 0..(MaxMainWrites - 1) /\ ref[s] \in Nat /\ writes[s] \in Nat
      /\ mainWrites' = [mainWrites EXCEPT ![s] = mainWrites[s] + 1]
      /\ ref' = [ref EXCEPT ![s] = ref[s] + 1]
      /\ freePc[s] = "none"
  BY DEF MainSend, ObjTypeOK, MainTypeOK, IoTypeOK, SessionInv, MemInv
<1>1. TypeOK'
  <2>1. mainWrites' \in [Sessions -> 0..MaxMainWrites] /\ ref' \in [Sessions -> Nat]
    BY <1>0 DEF ObjTypeOK
  <2> QED BY <2>1
             DEF MainSend, ObjTypeOK, MainTypeOK, ProcessTypeOK, WorkTypeOK,
                 IoTypeOK
<1>2. ASSUME NEW t \in Sessions PROVE SessionInv(t)'
  <2>1. MemInv(t)' /\ BootInv(t)' /\ CtrlInv(t)' /\ MainCloseInv(t)' /\ ChildCloseInv(t)'
    BY DEF MainSend, SessionInv, MemInv, BootInv, CtrlInv, MainCloseInv,
           ChildCloseInv
  <2>2. IoInv(t)'
    BY <1>0 DEF MainSend, ObjTypeOK, IoTypeOK, MainTypeOK, SessionInv, IoInv
  <2> QED BY <2>1, <2>2 DEF SessionInv
<1>3. ProcessInv'
  BY DEF MainSend, ProcessInv
<1> QED BY <1>1, <1>2, <1>3

\* FinishMainWrite keeps the invariant.
LEMMA FinishMainWriteInv ==
  ASSUME IInv, NEW s \in Sessions, ~aborted,
         FinishMainWriteOk(s) \/ FinishMainWriteError(s)
  PROVE  IInv'
<1> USE DEF IInv
<1>0. /\ mainWrites[s] \in 1..MaxMainWrites /\ ref[s] \in Nat /\ writes[s] \in Nat
      /\ ref[s] - 1 \in Nat
      /\ mainWrites' = [mainWrites EXCEPT ![s] = mainWrites[s] - 1]
      /\ ref' = [ref EXCEPT ![s] = ref[s] - 1]
      /\ freePc[s] \in {"none", "operate"}
  BY DEF FinishMainWriteOk, FinishMainWriteError, SessionInv, IoInv, ObjTypeOK,
         IoTypeOK
<1>a. /\ UNCHANGED <<mem, voteReset, boot, mainClosing, uvHandleRef, sessionRef>>
      /\ UNCHANGED <<lstMainThreadOP, loopMain, aborted, work, ctrl>>
      /\ UNCHANGED <<tcpVars, taskVars, endVars, uartVars>>
      /\ workTcp' \in {workTcp, [workTcp EXCEPT ![s] = FALSE]}
      /\ \/ UNCHANGED <<isDead, freePc>>
         \/ KillSessions({s})
         \/ KillSessions({})
  BY DEF FinishMainWriteOk, FinishMainWriteError
<1>1. TypeOK'
  <2>1. mainWrites' \in [Sessions -> 0..MaxMainWrites] /\ ref' \in [Sessions -> Nat]
    BY <1>0 DEF ObjTypeOK
  <2>2. workTcp' \in [Sessions -> BOOLEAN]
    BY <1>a DEF MainTypeOK
  <2>3. isDead' \in [Sessions -> BOOLEAN]
    BY <1>a DEF KillSessions, ObjTypeOK
  <2>4. freePc' \in [Sessions -> FreeStates]
    BY <1>a DEF KillSessions, FreeStates, MainTypeOK
  <2> QED BY <1>a, <2>1, <2>2, <2>3, <2>4
             DEF ObjTypeOK, MainTypeOK, ProcessTypeOK, WorkTypeOK, IoTypeOK
<1>2. ASSUME NEW t \in Sessions PROVE SessionInv(t)'
  <2>a. MemInv(t)'
    BY <1>a DEF KillSessions, SessionInv, MemInv
  <2>b. BootInv(t)'
    BY <1>a DEF KillSessions, MainTypeOK, SessionInv, MemInv, BootInv
  <2>1. CtrlInv(t)'
    BY <1>a DEF KillSessions, MainTypeOK, SessionInv, MemInv, CtrlInv
  <2>c. MainCloseInv(t)'
    BY <1>a, <1>0 DEF KillSessions, MainTypeOK, SessionInv, MemInv, MainCloseInv
  <2>2. ChildCloseInv(t)'
    BY <1>a DEF SessionInv, ChildCloseInv
  <2>3. IoInv(t)'
    BY <1>0, <1>a
       DEF KillSessions, ObjTypeOK, IoTypeOK, MainTypeOK, SessionInv, IoInv
  <2> QED BY <2>a, <2>b, <2>c, <2>1, <2>2, <2>3 DEF SessionInv
<1>3. ProcessInv'
  BY <1>a DEF KillSessions, ObjTypeOK, ProcessInv
<1> QED BY <1>1, <1>2, <1>3

\* FinishWrite keeps the invariant.
LEMMA FinishWriteInv ==
  ASSUME IInv, NEW s \in Sessions, ~aborted, FinishWriteOk(s) \/ FinishWriteError(s)
  PROVE  IInv'
<1> USE DEF IInv
<1>0. /\ writes[s] \in 1..MaxWrites /\ mainWrites[s] \in 0..MaxMainWrites
      /\ ref[s] \in Nat /\ ref[s] - 1 \in Nat
      /\ ref[s] = writes[s] + mainWrites[s] + IF uartSend[s] = "io" THEN 1 ELSE 0
      /\ work[s] \in {"up", "stopping"} /\ childTcp[s] \in {"open", "closing"} /\ s \in Tcp
      /\ childTcp'[s] \in {childTcp[s], "closing"} /\ ~sending[s]
  BY DEF FinishWriteOk, FinishWriteError, ChildLoopRuns, TcpStates, SessionInv,
         BootInv, IoInv, ObjTypeOK, IoTypeOK
<1>1. TypeOK'
  <2>1. writes' \in [Sessions -> 0..MaxWrites]
    <3>1. writes' = [writes EXCEPT ![s] = writes[s] - 1]
      BY DEF FinishWriteOk, FinishWriteError
    <3>2. writes[s] - 1 \in 0..MaxWrites
      BY <1>0
    <3> QED BY <3>1, <3>2 DEF IoTypeOK
  <2>2. ref' \in [Sessions -> Nat]
    <3>1. ref' = [ref EXCEPT ![s] = ref[s] - 1]
      BY DEF FinishWriteOk, FinishWriteError
    <3> QED BY <1>0, <3>1 DEF ObjTypeOK
  <2>3. childTcp' \in [Sessions -> TcpStates]
    BY DEF FinishWriteOk, FinishWriteError, IoTypeOK, TcpStates
  <2>4. lstMainThreadOP' \subseteq Sessions
    BY DEF FinishWriteOk, FinishWriteError, ProcessTypeOK
  <2>5. ObjTypeOK' /\ WorkTypeOK' /\ IoTypeOK'
    BY <2>1, <2>2, <2>3 DEF FinishWriteOk, FinishWriteError, ObjTypeOK, WorkTypeOK, IoTypeOK
  <2>6. MainTypeOK' /\ ProcessTypeOK'
    BY <2>4 DEF FinishWriteOk, FinishWriteError, MainTypeOK, ProcessTypeOK
  <2> QED BY <2>5, <2>6
<1>2. ASSUME NEW t \in Sessions PROVE SessionInv(t)'
  <2>1. CASE t # s
    <3>1. Same(t)
      BY <2>1
         DEF FinishWriteOk, FinishWriteError, ObjTypeOK, ProcessTypeOK, IoTypeOK,
             Same
    <3> QED BY <3>1, SameInv
  <2>2. CASE t = s
    <3>1. MemInv(s)' /\ CtrlInv(s)' /\ MainCloseInv(s)'
      BY DEF FinishWriteOk, FinishWriteError, SessionInv, MemInv, CtrlInv,
             MainCloseInv
    <3>2. BootInv(s)'
      BY <1>0 DEF FinishWriteOk, FinishWriteError, SessionInv, BootInv
    <3>3. ChildCloseInv(s)'
      BY <1>0 DEF FinishWriteOk, FinishWriteError, SessionInv, ChildCloseInv
    <3>4. IoInv(s)'
      <4>1. /\ writes' = [writes EXCEPT ![s] = writes[s] - 1]
            /\ ref' = [ref EXCEPT ![s] = ref[s] - 1]
            /\ UNCHANGED <<mainWrites, uartSend, sending, work>>
        BY DEF FinishWriteOk, FinishWriteError
      <4>2. /\ writes'[s] = writes[s] - 1 /\ ref'[s] = ref[s] - 1
            /\ mainWrites'[s] = mainWrites[s] /\ uartSend'[s] = uartSend[s]
            /\ ~sending'[s] /\ work'[s] = work[s]
        BY <1>0, <4>1 DEF ObjTypeOK, IoTypeOK
      <4>3. mainWrites[s] > 0 => freePc'[s] \in {"none", "operate"}
        BY <1>0 DEF FinishWriteOk, FinishWriteError, MainTypeOK, SessionInv, IoInv
      <4> QED BY <1>0, <4>2, <4>3 DEF SessionInv, IoInv
    <3> QED BY <2>2, <3>1, <3>2, <3>3, <3>4 DEF SessionInv
  <2> QED BY <2>1, <2>2
<1>3. ProcessInv'
  BY DEF FinishWriteOk, FinishWriteError, ProcessInv
<1> QED BY <1>1, <1>2, <1>3

\* ClearTaskRetry keeps the invariant.
LEMMA ClearTaskRetryInv ==
  ASSUME IInv, NEW s \in Sessions, ~aborted, ClearTaskRetry(s)
  PROVE  IInv'
<1> USE DEF IInv
<1>0. isDead[s] /\ work[s] = "clearing"
  BY DEF ClearTaskRetry, SessionInv, MemInv, CtrlInv
<1>a. /\ UNCHANGED <<mem, isDead, ref, mainWrites, boot, workTcp, mainClosing, uvHandleRef, freePc>>
      /\ UNCHANGED <<sessionRef, lstMainThreadOP, loopMain, work, ctrl, childTcp, sending>>
      /\ UNCHANGED <<writes, tasks, uvChildRef, childClosing, dataPipe, uartSend>>
      /\ UNCHANGED currentSessionId
      /\ voteReset' \in {voteReset, [voteReset EXCEPT ![s] = serverOrDaemon]}
      /\ aborted' = FALSE \/ aborted' = NeedReset(s)
  BY DEF ClearTaskRetry, VoteReset
<1>1. TypeOK'
  <2>1. closeRetryCount' \in [Sessions -> 0..GLOBAL_TIMEOUT]
    <3>1. CASE closeRetryCount[s] < GLOBAL_TIMEOUT
      <4>1. closeRetryCount[s] + 1 \in 0..GLOBAL_TIMEOUT
        BY <3>1 DEF WorkTypeOK
      <4> QED BY <4>1 DEF ClearTaskRetry, WorkTypeOK
    <3>2. CASE ~(closeRetryCount[s] < GLOBAL_TIMEOUT)
      BY <3>2 DEF ClearTaskRetry, WorkTypeOK
    <3> QED BY <3>1, <3>2
  <2>2. voteReset' \in [Sessions -> BOOLEAN]
    BY <1>a DEF ObjTypeOK
  <2>3. aborted' \in BOOLEAN
    BY <1>a DEF NeedReset
  <2> QED
    BY <1>a, <2>1, <2>2, <2>3
       DEF ObjTypeOK, MainTypeOK, ProcessTypeOK, WorkTypeOK, IoTypeOK
<1>2. ASSUME NEW t \in Sessions PROVE SessionInv(t)'
  <2>1. MemInv(t)'
    BY <1>0, <1>a DEF ObjTypeOK, MainTypeOK, SessionInv, MemInv
  <2>2. BootInv(t)' /\ CtrlInv(t)' /\ MainCloseInv(t)' /\ ChildCloseInv(t)' /\ IoInv(t)'
    BY <1>a DEF SessionInv, BootInv, CtrlInv, MainCloseInv, ChildCloseInv, IoInv
  <2> QED BY <2>1, <2>2 DEF SessionInv
<1>3. ProcessInv'
  <2>1. ASSUME aborted', serverOrDaemon, NEW t \in Sessions, mem[t] = "alloc"
        PROVE  isDead[t]
    <3>1. t = s \/ voteReset[t]
      BY <1>a, <2>1 DEF NeedReset
    <3> QED BY <1>0, <3>1 DEF SessionInv, MemInv
  <2> QED BY <1>a, <2>1 DEF ProcessInv
<1> QED BY <1>1, <1>2, <1>3

\* StartSession keeps the invariant.
LEMMA StartSessionInv ==
  ASSUME IInv, NEW s \in Sessions, ~aborted, StartSession(s)
  PROVE  IInv'
<1> USE DEF IInv
<1>0. /\ ctrl[s] \in {QStart, QBoth} /\ work[s] = "up"
      /\ childTcp[s] = "none" /\ ~dataPipe[s]
  <2>1. ctrl[s] \in {QStart, QBoth}
    BY ControlQueues DEF StartSession, SessionInv, CtrlInv
  <2> QED BY <2>1 DEF StartSession, WorkerIdle, SessionInv, BootInv
<1>b. writes[s] = 0 /\ boot[s] = "done"
  <2>1. writes[s] \in Nat
    BY DEF IoTypeOK
  <2>2. boot[s] = "done"
    BY <1>0, ControlQueues DEF SessionInv, CtrlInv
  <2> QED BY <1>0, <2>1, <2>2 DEF SessionInv, IoInv
<1>a. /\ UNCHANGED <<objVars, mainVars, work, writes, taskVars, uvChildRef, childClosing>>
      /\ UNCHANGED uartVars
      /\ ctrl' = [ctrl EXCEPT ![s] = Tail(ctrl[s])]
      /\ \/ /\ s \in Tcp
            /\ childTcp' \in {[childTcp EXCEPT ![s] = "open"], [childTcp EXCEPT ![s] = "inited"]}
            /\ sending' \in {sending, [sending EXCEPT ![s] = serverOrDaemon /\ ~isDead[s]]}
            /\ UNCHANGED dataPipe
         \/ /\ s \notin Tcp
            /\ dataPipe' = [dataPipe EXCEPT ![s] = TRUE]
            /\ UNCHANGED <<childTcp, sending>>
  BY DEF StartSession
<1>c. ctrl'[s] = IF ctrl[s] = QStart THEN <<>> ELSE QStop
  BY <1>0, <1>a, ControlQueues DEF WorkTypeOK
<1>1. TypeOK'
  <2>1. ctrl' \in [Sessions -> Seq({"SP_START_SESSION", "SP_STOP_SESSION"})]
    <3>1. Tail(ctrl[s]) \in Seq({"SP_START_SESSION", "SP_STOP_SESSION"})
      BY <1>0, ControlQueues
    <3> QED BY <1>a, <3>1 DEF WorkTypeOK
  <2>2. childTcp' \in [Sessions -> TcpStates]
    BY <1>a DEF IoTypeOK, TcpStates
  <2>3. sending' \in [Sessions -> BOOLEAN] /\ dataPipe' \in [Sessions -> BOOLEAN]
    BY <1>a DEF WorkTypeOK, IoTypeOK
  <2> QED
    BY <1>a, <2>1, <2>2, <2>3
       DEF ObjTypeOK, MainTypeOK, ProcessTypeOK, WorkTypeOK, IoTypeOK
<1>2. ASSUME NEW t \in Sessions PROVE SessionInv(t)'
  <2>1. CASE t # s
    <3>1. Same(t)
      BY <1>a, <2>1 DEF WorkTypeOK, IoTypeOK, Same
    <3> QED BY <3>1, SameInv
  <2>2. CASE t = s
    <3>1. MemInv(s)' /\ MainCloseInv(s)'
      BY <1>a DEF SessionInv, MemInv, MainCloseInv
    <3>2. BootInv(s)'
      <4>1. childTcp'[s] # "none" => s \in Tcp
        BY <1>0, <1>a
      <4>2. dataPipe'[s] => s \notin Tcp
        BY <1>0, <1>a DEF WorkTypeOK
      <4>3. ctrl'[s] \notin {QStart, QBoth}
        BY <1>c, ControlQueues
      <4> QED BY <1>0, <1>a, <1>b, <4>1, <4>2, <4>3 DEF SessionInv, BootInv
    <3>3. CtrlInv(s)'
      BY <1>0, <1>a, <1>b, <1>c, ControlQueues DEF SessionInv, CtrlInv
    <3>4. ChildCloseInv(s)'
      BY <1>0, <1>a DEF SessionInv, ChildCloseInv
    <3>5. IoInv(s)'
      <4>1. sending'[s] => s \in Tcp
        BY <1>a DEF IoTypeOK, SessionInv, IoInv
      <4> QED BY <1>0, <1>a, <1>b, <4>1 DEF SessionInv, IoInv
    <3> QED BY <2>2, <3>1, <3>2, <3>3, <3>4, <3>5 DEF SessionInv
  <2> QED BY <2>1, <2>2
<1>3. ProcessInv'
  BY <1>a DEF ProcessInv
<1> QED BY <1>1, <1>2, <1>3

\* StopSession keeps the invariant.
LEMMA StopSessionInv ==
  ASSUME IInv, NEW s \in Sessions, ~aborted, StopSession(s)
  PROVE  IInv'
<1> USE DEF IInv
<1>0. /\ ctrl[s] = QStop /\ work[s] = "up" /\ ~sending[s] /\ freePc[s] = "waitChild"
      /\ uvChildRef[s] = 0
      /\ childTcp[s] # "none" => s \in Tcp /\ ~dataPipe[s]
  <2>1. ctrl[s] = QStop
    BY ControlQueues DEF StopSession, SessionInv, CtrlInv
  <2> QED
    BY <2>1 DEF StopSession, WorkerIdle, SessionInv, BootInv, CtrlInv, ChildCloseInv
<1>a. /\ UNCHANGED <<objVars, mainVars, sending, writes, taskVars, dataPipe, uartVars>>
      /\ ctrl' = [ctrl EXCEPT ![s] = <<>>]
      /\ work' = [work EXCEPT ![s] = "stopping"]
      /\ childClosing' = [childClosing EXCEPT ![s] = ChildHandlesToClose(s)]
      /\ uvChildRef' = [uvChildRef EXCEPT
                          ![s] = ChildHandlesCounted(s) - ChildCallbacksAtOnce(s)]
      /\ childTcp' = [childTcp EXCEPT ![s] = IF childTcp[s] \in {"inited", "open"}
                                             THEN "closing" ELSE childTcp[s]]
  <2>1. Tail(ctrl[s]) = <<>>
    BY <1>0, ControlQueues
  <2>2. ChildHandlesCounted(s) \in Nat /\ ChildCallbacksAtOnce(s) \in Nat
    <3> DEFINE A == {h \in {"dataPipe"} : ~dataPipe[s]}
                    \cup {h \in {"hChildWorkTCP"} : childTcp[s] \in {"closing", "closed"}}
    <3>1. A \subseteq ChildHandles
      BY DEF ChildHandles
    <3>2. Cardinality(A) \in Nat
      BY <3>1, HandleCount
    <3> QED BY <3>2 DEF ChildHandlesCounted, ChildCallbacksAtOnce
  <2>3. "hChildWorkTCP" \in ChildHandlesToClose(s) <=> childTcp[s] \in {"inited", "open"}
    BY DEF ChildHandlesToClose
  <2> HIDE DEF IInv
  <2>4. uvChildRef[s] + ChildHandlesCounted(s) - ChildCallbacksAtOnce(s)
          = ChildHandlesCounted(s) - ChildCallbacksAtOnce(s)
    BY <1>0, <2>2
  <2> QED BY <2>1, <2>3, <2>4 DEF StopSession
<1>b. /\ ChildHandlesToClose(s) \subseteq ChildHandles
      /\ "hChildWorkTCP" \in ChildHandlesToClose(s) <=> childTcp[s] \in {"inited", "open"}
      /\ ChildHandlesCounted(s) - ChildCallbacksAtOnce(s) = Cardinality(ChildHandlesToClose(s))
  <2> HIDE DEF IInv
  <2> DEFINE A == {h \in {"dataPipe"} : ~dataPipe[s]}
                  \cup {h \in {"hChildWorkTCP"} : childTcp[s] \in {"closing", "closed"}}
             C == ChildHandlesToClose(s)
  <2>1. C \subseteq ChildHandles
    BY DEF ChildHandlesToClose, ChildHandles
  <2>2. "hChildWorkTCP" \in C <=> childTcp[s] \in {"inited", "open"}
    BY DEF ChildHandlesToClose
  <2>3. ChildCallbacksAtOnce(s) = Cardinality(A)
    BY DEF ChildCallbacksAtOnce
  <2>4. \/ ChildHandlesCounted(s) = 2 /\ A = {} /\ C = {"ctrlPipe", "dataPipe"}
        \/ ChildHandlesCounted(s) = 2 /\ A = {"dataPipe"} /\ C = {"ctrlPipe"}
        \/ ChildHandlesCounted(s) = 3 /\ A = {"dataPipe"} /\ C = {"ctrlPipe", "hChildWorkTCP"}
        \/ ChildHandlesCounted(s) = 3 /\ A = {"dataPipe", "hChildWorkTCP"} /\ C = {"ctrlPipe"}
    <3>1. childTcp[s] \in {"none", "inited", "open", "closing", "closed"}
      BY DEF IInv, IoTypeOK, TcpStates
    <3>2. CASE childTcp[s] = "none" /\ dataPipe[s]
      BY <3>2 DEF ChildHandlesCounted, ChildHandlesToClose
    <3>3. CASE childTcp[s] = "none" /\ ~dataPipe[s]
      BY <3>3 DEF ChildHandlesCounted, ChildHandlesToClose
    <3>4. CASE childTcp[s] \in {"inited", "open"}
      BY <1>0, <3>4 DEF ChildHandlesCounted, ChildHandlesToClose
    <3>5. CASE childTcp[s] \in {"closing", "closed"}
      BY <1>0, <3>5 DEF ChildHandlesCounted, ChildHandlesToClose
    <3> QED BY <3>1, <3>2, <3>3, <3>4, <3>5
  <2>5. Cardinality(C) = ChildHandlesCounted(s) - Cardinality(A)
    <3>1. CASE ChildHandlesCounted(s) = 2 /\ A = {} /\ C = {"ctrlPipe", "dataPipe"}
      BY <3>1, ClosingSizes
    <3>2. CASE ChildHandlesCounted(s) = 2 /\ A = {"dataPipe"} /\ C = {"ctrlPipe"}
      BY <3>2, ClosingSizes
    <3>3. CASE /\ ChildHandlesCounted(s) = 3 /\ A = {"dataPipe"}
               /\ C = {"ctrlPipe", "hChildWorkTCP"}
      BY <3>3, ClosingSizes
    <3>4. CASE /\ ChildHandlesCounted(s) = 3 /\ A = {"dataPipe", "hChildWorkTCP"}
               /\ C = {"ctrlPipe"}
      BY <3>4, ClosingSizes
    <3> HIDE DEF A, C
    <3> QED BY <2>4, <3>1, <3>2, <3>3, <3>4
  <2> QED BY <2>1, <2>2, <2>3, <2>5
<1>c. Cardinality(ChildHandlesToClose(s)) \in 0..3
  BY <1>b, HandleCount
<1>1. TypeOK'
  <2>1. uvChildRef' \in [Sessions -> 0..3] /\ childClosing' \in [Sessions -> SUBSET ChildHandles]
    BY <1>a, <1>b, <1>c DEF WorkTypeOK
  <2>2. childTcp' \in [Sessions -> TcpStates] /\ work' \in [Sessions -> WorkStates]
    BY <1>a DEF WorkTypeOK, IoTypeOK, TcpStates, WorkStates
  <2>3. ctrl' \in [Sessions -> Seq({"SP_START_SESSION", "SP_STOP_SESSION"})]
    BY <1>a, ControlQueues DEF WorkTypeOK
  <2> QED BY <1>a, <2>1, <2>2, <2>3
             DEF ObjTypeOK, MainTypeOK, ProcessTypeOK, WorkTypeOK, IoTypeOK
<1>2. ASSUME NEW t \in Sessions PROVE SessionInv(t)'
  <2>1. CASE t # s
    <3>1. Same(t)
      BY <1>a, <2>1 DEF WorkTypeOK, IoTypeOK, Same
    <3> QED BY <3>1, SameInv
  <2>2. CASE t = s
    <3>0. /\ work'[s] = "stopping" /\ ctrl'[s] = <<>>
          /\ childTcp'[s] = IF childTcp[s] \in {"inited", "open"} THEN "closing" ELSE childTcp[s]
          /\ uvChildRef'[s] = Cardinality(childClosing'[s])
          /\ childClosing'[s] = ChildHandlesToClose(s)
      BY <1>a, <1>b DEF WorkTypeOK, IoTypeOK
    <3>1. MemInv(s)' /\ MainCloseInv(s)'
      BY <1>a, <1>0, <3>0 DEF SessionInv, MemInv, MainCloseInv
    <3>2. BootInv(s)'
      BY <1>a, <1>0, <3>0, ControlQueues DEF SessionInv, BootInv
    <3>3. CtrlInv(s)'
      BY <1>a, <1>0, <3>0, ControlQueues DEF SessionInv, CtrlInv
    <3>4. ChildCloseInv(s)'
      BY <1>b, <3>0 DEF SessionInv, ChildCloseInv
    <3>5. IoInv(s)'
      BY <1>a, <1>0, <3>0 DEF SessionInv, IoInv
    <3> QED BY <2>2, <3>1, <3>2, <3>3, <3>4, <3>5 DEF SessionInv
  <2> QED BY <2>1, <2>2
<1>3. ProcessInv'
  BY <1>a DEF ProcessInv
<1> QED BY <1>1, <1>2, <1>3

\* Taking a session apart keeps the invariant when its worker, if it is a TCP
\* session, is done, and no control message is on its way.
LEMMA FreeSessionContinueInv ==
  ASSUME IInv, NEW s \in Sessions, ~aborted, FreeSessionContinue(s),
         UNCHANGED <<objVars, boot, sessionRef, lstMainThreadOP, loopMain, aborted,
                     work, ctrl, tcpVars, taskVars, endVars, uartVars>>,
         freePc[s] \in {"operate", "waitChild"}, boot[s] # "wait",
         ctrl[s] \notin {QStop, QBoth}, mainWrites[s] = 0,
         s \in Tcp => work[s] \in {"none", "cleared"}
  PROVE  IInv'
<1> USE DEF IInv
<1>0. /\ uvHandleRef[s] = IF s \in Tcp THEN 3 ELSE 2
      /\ workTcp[s] => s \in Tcp
      /\ mem[s] # "none"
  BY DEF SessionInv, MemInv, BootInv, MainCloseInv
<1>a. /\ mainClosing' = [mainClosing EXCEPT ![s] =
                           {"ctrlPipe", "dataPipe"} \cup {h \in {"hWorkTCP"} : workTcp[s]}]
      /\ uvHandleRef' = [uvHandleRef EXCEPT ![s] = IF workTcp[s] THEN 3 ELSE 2]
      /\ workTcp' = [workTcp EXCEPT ![s] = FALSE]
      /\ freePc' = [freePc EXCEPT ![s] = "finally"]
  <2>1. uvHandleRef[s] - MainCallbacksAtOnce(s) = IF workTcp[s] THEN 3 ELSE 2
    BY <1>0 DEF MainCallbacksAtOnce
  <2> HIDE DEF IInv
  <2> QED BY <2>1 DEF FreeSessionContinue
<1>b. mainClosing'[s] \subseteq MainHandles
      /\ Cardinality(mainClosing'[s]) = IF workTcp[s] THEN 3 ELSE 2
  <2>1. mainClosing'[s] = {"ctrlPipe", "dataPipe"} \cup {h \in {"hWorkTCP"} : workTcp[s]}
    BY <1>a DEF MainTypeOK, WorkTypeOK
  <2> HIDE DEF IInv
  <2>2. mainClosing'[s] = IF workTcp[s] THEN {"ctrlPipe", "dataPipe", "hWorkTCP"}
                          ELSE {"ctrlPipe", "dataPipe"}
    BY <2>1
  <2> QED BY <2>2, ClosingSizes DEF MainHandles
<1>1. TypeOK'
  <2>1. mainClosing' \in [Sessions -> SUBSET MainHandles]
    BY <1>a, <1>b DEF MainTypeOK
  <2>2. uvHandleRef' \in [Sessions -> 0..3] /\ workTcp' \in [Sessions -> BOOLEAN]
    BY <1>a DEF MainTypeOK
  <2>3. freePc' \in [Sessions -> FreeStates]
    BY <1>a DEF MainTypeOK, FreeStates
  <2> QED BY <2>1, <2>2, <2>3
             DEF ObjTypeOK, MainTypeOK, ProcessTypeOK, WorkTypeOK, IoTypeOK
<1>2. ASSUME NEW t \in Sessions PROVE SessionInv(t)'
  <2>1. CASE t # s
    <3>1. Same(t)
      BY <1>a, <2>1 DEF MainTypeOK, Same
    <3> QED BY <3>1, SameInv
  <2>2. CASE t = s
    <3>0. /\ freePc'[s] = "finally" /\ ~workTcp'[s]
          /\ uvHandleRef'[s] = IF workTcp[s] THEN 3 ELSE 2
      BY <1>a DEF MainTypeOK
    <3>1. MemInv(s)'
      BY <3>0 DEF SessionInv, MemInv
    <3>2. BootInv(s)'
      BY <3>0 DEF SessionInv, BootInv
    <3>3. CtrlInv(s)'
      BY <3>0 DEF SessionInv, CtrlInv
    <3>4. MainCloseInv(s)'
      BY <1>b, <3>0 DEF SessionInv, MainCloseInv
    <3>5. ChildCloseInv(s)'
      BY DEF SessionInv, ChildCloseInv
    <3>6. IoInv(s)'
      BY <3>0 DEF SessionInv, IoInv
    <3> QED BY <2>2, <3>1, <3>2, <3>3, <3>4, <3>5, <3>6 DEF SessionInv
  <2> QED BY <2>1, <2>2
<1>3. ProcessInv'
  BY DEF ProcessInv
<1> QED BY <1>1, <1>2, <1>3

\* FreeSessionOpeate keeps the invariant.
LEMMA FreeSessionOpeateInv ==
  ASSUME IInv, NEW s \in Sessions, ~aborted, FreeSessionOpeate(s)
  PROVE  IInv'
<1> USE DEF IInv
<1>0. /\ freePc[s] = "operate" /\ boot[s] # "wait"
      /\ ctrl[s] \in {<<>>, QStart}
  BY ControlQueues
     DEF FreeSessionOpeate, MainReady, MainBlocked, SessionInv, CtrlInv
<1>m. mainWrites[s] = 0
  <2>1. /\ mainWrites[s] \in Nat /\ writes[s] \in Nat /\ ref[s] = 0
        /\ ref[s] = writes[s] + mainWrites[s] + IF uartSend[s] = "io" THEN 1 ELSE 0
    BY DEF FreeSessionOpeate, ObjTypeOK, IoTypeOK, SessionInv, IoInv
  <2> QED BY <2>1
<1>1. CASE WorkLoopSet(s) /\ ctrl' = [ctrl EXCEPT ![s] = Append(@, "SP_STOP_SESSION")]
           /\ freePc' = [freePc EXCEPT ![s] = "waitChild"]
           /\ UNCHANGED <<mainClosing, uvHandleRef, workTcp>>
  <2>a. UNCHANGED <<objVars, boot, sessionRef, lstMainThreadOP, loopMain, aborted, work,
                    tcpVars, taskVars, endVars, uartVars>>
    BY DEF FreeSessionOpeate
  <2>b. /\ freePc'[s] = "waitChild"
        /\ ctrl'[s] = IF ctrl[s] = QStart THEN QBoth ELSE QStop
        /\ work[s] \in {"init", "up"}
    <3>1. work[s] \in {"init", "up"}
      BY <1>0, <1>1 DEF WorkTypeOK, WorkStates, WorkLoopSet, SessionInv, CtrlInv
    <3> QED BY <1>0, <1>1, <3>1, ControlQueues
               DEF ObjTypeOK, MainTypeOK, ProcessTypeOK, WorkTypeOK, IoTypeOK
  <2>1. TypeOK'
    <3>1. ctrl' \in [Sessions -> Seq({"SP_START_SESSION", "SP_STOP_SESSION"})]
      <4>1. Append(ctrl[s], "SP_STOP_SESSION") \in Seq({"SP_START_SESSION", "SP_STOP_SESSION"})
        BY <1>0, ControlQueues
      <4> QED BY <1>1, <4>1 DEF WorkTypeOK
    <3>2. freePc' \in [Sessions -> FreeStates]
      BY <1>1 DEF MainTypeOK, FreeStates
    <3> QED BY <1>1, <2>a, <3>1, <3>2
               DEF ObjTypeOK, MainTypeOK, ProcessTypeOK, WorkTypeOK, IoTypeOK
  <2>2. ASSUME NEW t \in Sessions PROVE SessionInv(t)'
    <3>1. CASE t # s
      <4>1. Same(t)
        BY <1>1, <2>a, <3>1 DEF MainTypeOK, WorkTypeOK, Same
      <4> QED BY <4>1, SameInv
    <3>2. CASE t = s
      <4>1. MemInv(s)' /\ MainCloseInv(s)'
        BY <1>0, <1>1, <2>a, <2>b DEF SessionInv, MemInv, MainCloseInv
      <4>2. BootInv(s)'
        BY <1>0, <2>a, <2>b, <1>1, ControlQueues DEF SessionInv, BootInv
      <4>3. CtrlInv(s)'
        BY <1>0, <2>a, <2>b, ControlQueues DEF SessionInv, CtrlInv
      <4>4. ChildCloseInv(s)'
        BY <2>a DEF SessionInv, ChildCloseInv
      <4>5. IoInv(s)'
        BY <1>m, <2>a DEF SessionInv, IoInv
      <4> QED BY <3>2, <4>1, <4>2, <4>3, <4>4, <4>5 DEF SessionInv
    <3> QED BY <3>1, <3>2
  <2>3. ProcessInv'
    BY <2>a DEF ProcessInv
  <2> QED BY <2>1, <2>2, <2>3
<1>2. CASE ~WorkLoopSet(s) /\ FreeSessionContinue(s) /\ UNCHANGED ctrl
  <2>1. s \in Tcp => work[s] \in {"none", "cleared"}
    BY <1>0, <1>2 DEF WorkLoopSet, SessionInv, BootInv
  <2>2. ctrl[s] \notin {QStop, QBoth}
    BY <1>0, ControlQueues
  <2>3. UNCHANGED <<objVars, boot, sessionRef, lstMainThreadOP, loopMain, aborted,
                    work, ctrl, tcpVars, taskVars, endVars, uartVars>>
    BY <1>2 DEF FreeSessionOpeate
  <2> HIDE DEF IInv
  <2> QED BY <1>0, <1>m, <1>2, <2>1, <2>2, <2>3, FreeSessionContinueInv
<1> QED BY <1>1, <1>2 DEF FreeSessionOpeate

\* CheckFreeSessionContinue keeps the invariant.
LEMMA CheckFreeSessionContinueInv ==
  ASSUME IInv, NEW s \in Sessions, ~aborted, CheckFreeSessionContinue(s)
  PROVE  IInv'
<1>1. /\ freePc[s] = "waitChild" /\ work[s] = "cleared" /\ boot[s] # "wait"
      /\ ctrl[s] = <<>>
  BY DEF CheckFreeSessionContinue, MainReady, MainBlocked, IInv, SessionInv, CtrlInv
<1>4. mainWrites[s] = 0
  <2>1. mainWrites[s] \in Nat
    BY DEF IInv, ObjTypeOK
  <2>2. ~(mainWrites[s] > 0)
    BY <1>1 DEF IInv, SessionInv, IoInv
  <2> QED BY <2>1, <2>2
<1>2. UNCHANGED <<objVars, boot, sessionRef, lstMainThreadOP, loopMain, aborted,
                  work, ctrl, tcpVars, taskVars, endVars, uartVars>>
  BY DEF CheckFreeSessionContinue
<1>3. FreeSessionContinue(s)
  BY DEF CheckFreeSessionContinue
<1> QED BY <1>1, <1>2, <1>3, <1>4, ControlQueues, FreeSessionContinueInv

-----------------------------------------------------------------------------
(* The invariant, and what follows from it.                                *)

\* The invariant holds at the start.
LEMMA InitInv == Init => IInv
<1> SUFFICES ASSUME Init PROVE IInv
  OBVIOUS
<1>1. TypeOK
  <2>1. <<>> \in Seq({"SP_START_SESSION", "SP_STOP_SESSION"})
    BY ControlQueues
  <2>2. /\ 0 \in 0..MaxWrites /\ 0 \in 0..MaxMainWrites /\ 0 \in 0..MaxTasks
        /\ 0 \in 0..GLOBAL_TIMEOUT /\ 0 \in 0..3
    OBVIOUS
  <2>3. ctrl \in [Sessions -> Seq({"SP_START_SESSION", "SP_STOP_SESSION"})]
    BY <2>1 DEF Init
  <2>4. /\ uvHandleRef \in [Sessions -> 0..3] /\ uvChildRef \in [Sessions -> 0..3]
        /\ writes \in [Sessions -> 0..MaxWrites] /\ mainWrites \in [Sessions -> 0..MaxMainWrites]
        /\ tasks \in [Sessions -> 0..MaxTasks]
        /\ closeRetryCount \in [Sessions -> 0..GLOBAL_TIMEOUT]
        /\ ref \in [Sessions -> Nat] /\ sessionRef \in Nat
    BY <2>2 DEF Init
  <2>5. /\ boot \in [Sessions -> BootStates] /\ work \in [Sessions -> WorkStates]
        /\ childTcp \in [Sessions -> TcpStates] /\ freePc \in [Sessions -> FreeStates]
        /\ mainClosing \in [Sessions -> SUBSET MainHandles]
        /\ childClosing \in [Sessions -> SUBSET ChildHandles]
    BY DEF Init, BootStates, WorkStates, TcpStates, FreeStates
  <2>6. /\ mem \in [Sessions -> {"none", "alloc", "freed"}] /\ isDead \in [Sessions -> BOOLEAN]
        /\ voteReset \in [Sessions -> BOOLEAN] /\ workTcp \in [Sessions -> BOOLEAN]
        /\ dataPipe \in [Sessions -> BOOLEAN] /\ sending \in [Sessions -> BOOLEAN]
        /\ uartSend \in [Sessions -> {"idle", "found", "io"}]
        /\ lstMainThreadOP \subseteq Sessions /\ aborted \in BOOLEAN
        /\ loopMain \in {"run", "stop", "clear", "done"}
        /\ currentSessionId \in Sessions \cup {None}
    BY DEF Init
  <2> QED BY <2>3, <2>4, <2>5, <2>6
             DEF ObjTypeOK, MainTypeOK, ProcessTypeOK, WorkTypeOK, IoTypeOK
<1>2. ASSUME NEW t \in Sessions PROVE SessionInv(t)
  <2>1. ctrl[t] = <<>> /\ ctrl[t] \notin {QStart, QStop, QBoth}
    BY ControlQueues DEF Init
  <2> QED
    BY <2>1
       DEF Init, SessionInv, MemInv, BootInv, CtrlInv, MainCloseInv, ChildCloseInv,
           IoInv
<1>3. ProcessInv
  <2>1. {s \in Sessions : mem[s] = "alloc"} = {}
    BY DEF Init
  <2> QED BY <2>1, FS_EmptySet DEF Init, ProcessInv
<1> QED BY <1>1, <1>2, <1>3 DEF IInv

\* Every step keeps the invariant.
LEMMA NextInv == IInv /\ [Next]_vars => IInv'
<1> SUFFICES ASSUME IInv, [Next]_vars PROVE IInv'
  OBVIOUS
<1>1. CASE UNCHANGED vars
  <2>1. UNCHANGED <<mem, isDead, voteReset, ref, mainWrites, boot, workTcp, mainClosing,
                    uvHandleRef, freePc, sessionRef, lstMainThreadOP, loopMain, aborted,
                    work, ctrl, uvChildRef, childClosing, childTcp, dataPipe, sending,
                    writes, tasks, closeRetryCount, uartSend, currentSessionId>>
    BY <1>1 DEF vars
  <2>2. TypeOK'
    BY <2>1 DEF IInv, ObjTypeOK, MainTypeOK, ProcessTypeOK, WorkTypeOK, IoTypeOK
  <2>3. ASSUME NEW t \in Sessions PROVE SessionInv(t)'
    BY <2>1
       DEF IInv, SessionInv, MemInv, BootInv, CtrlInv, MainCloseInv, ChildCloseInv,
           IoInv
  <2>4. ProcessInv'
    BY <2>1 DEF IInv, ProcessInv
  <2> QED BY <2>2, <2>3, <2>4 DEF IInv
<1>2. ASSUME NEW s \in Sessions, ~aborted, Create(s) PROVE IInv'
  BY <1>2, ConnectDaemonInv, ConnectOkInv, ConnectFailInv, AcceptClientInv,
     PrepareNewSessionInv, ThreadUpInv, FuncNewSessionUpInv DEF Create
<1>3. ASSUME NEW s \in Sessions, ~aborted, Free(s) PROVE IInv'
  BY <1>3, ResetOldSessionInv, AsyncFreeInv, CommandRemoveSessionInv,
     FreeSessionOpeateInv, CheckFreeSessionContinueInv, FreeSessionFinallyInv,
     MainHandleClosedInv DEF Free
<1>4. ASSUME NEW s \in Sessions, ~aborted, Work(s) PROVE IInv'
  <2>1. CASE \/ WorkerStart(s) \/ WorkerRun(s) \/ StartSession(s) \/ SendCheck(s)
             \/ SendWrite(s) \/ FinishWriteOk(s) \/ FinishWriteError(s)
    BY <1>4, <2>1, WorkerStartInv, WorkerRunInv, StartSessionInv, SendCheckInv,
           SendWriteInv, FinishWriteInv
  <2>2. CASE \/ ReadStreamError(s) \/ ReadUartError(s) \/ OnNewHandshakeOK(s)
             \/ ChildTcpClosed(s) \/ StopSession(s) \/ ChildLoopStopped(s)
             \/ \E h \in ChildHandles : ChildHandleClosed(s, h)
    BY <1>4, <2>2, ReadStreamErrorInv, ReadUartErrorInv, OnNewHandshakeOKInv,
           ChildTcpClosedInv, StopSessionInv, ChildLoopStoppedInv,
           ChildHandleClosedInv
  <2>3. CASE NewTask(s) \/ TaskFreed(s) \/ ClearTaskRetry(s) \/ ChildCleared(s)
    BY <1>4, <2>3, NewTaskInv, TaskFreedInv, ClearTaskRetryInv, ChildClearedInv
  <2> QED BY <1>4, <2>1, <2>2, <2>3 DEF Work
<1>5. ASSUME NEW s \in Sessions, ~aborted, Uart(s) PROVE IInv'
  BY <1>5, UartGetSessionInv, UartRefInv, UartWrittenInv DEF Uart
<1>7. ASSUME NEW s \in Sessions, ~aborted, Main(s) PROVE IInv'
  BY <1>7, MainSendInv, FinishMainWriteInv DEF Main
<1>6. CASE ~aborted /\ (ClearSessions \/ StopModules \/ InstanceCleared)
  BY <1>6, ClearSessionsInv, StopModulesInv, InstanceClearedInv
<1> QED BY <1>1, <1>2, <1>3, <1>4, <1>5, <1>6, <1>7 DEF Next

\* The parts of IInv hold in every reachable state: how the state of the object,
\* its creation, the control socket, the closing handles, the requests in flight
\* and the count of sessions hang together (the whole of session.cpp's
\* MallocSession .. FreeSessionFinally and SessionWorkThread).
THEOREM Invariance == Spec => []IInv
<1>1. Init => IInv
  BY InitInv
<1>2. IInv /\ [Next]_vars => IInv'
  BY NextInv
<1> QED BY <1>1, <1>2, PTL DEF Spec

\* Every variable keeps its type; the counters uvHandleRef and uvChildRef, uint8_t
\* in the code, never go below zero or above three.
THEOREM TypeCorrect == Spec => []TypeOK
<1>1. IInv => TypeOK
  BY DEF IInv
<1> QED BY <1>1, Invariance, PTL

\* The worker of a TCP session is never running, and never will, when
\* FreeSessionContinue takes the session apart.
THEOREM TcpWorkerDone == Spec => []TcpContinueAfterChild
<1>1. IInv => TcpContinueAfterChild
  BY DEF IInv, SessionInv, CtrlInv, TcpContinueAfterChild, ContinueAfterChild
<1> QED BY <1>1, Invariance, PTL

\* No write of a TCP session is in flight, and none can start any more, when its
\* memory is about to be freed: the look at ref that FreeSessionOpeate takes, long
\* before, is enough.
THEOREM NoWriteLeft == Spec => []NoWriteWhenTakenApart
<1>1. IInv => NoWriteWhenTakenApart
  <2> SUFFICES ASSUME IInv, NEW s \in Tcp, freePc[s] \in {"finally", "done"}
               PROVE  ref[s] = 0 /\ writes[s] = 0 /\ mainWrites[s] = 0 /\ ~sending[s]
    BY DEF NoWriteWhenTakenApart
  <2>0. s \in Sessions /\ SessionInv(s) /\ writes[s] \in Nat /\ mainWrites[s] \in Nat
    BY DEF IInv, ObjTypeOK, IoTypeOK
  <2>1. work[s] \in {"none", "cleared"}
    BY <2>0 DEF SessionInv, CtrlInv
  <2>2. writes[s] = 0 /\ ~sending[s]
    BY <2>0, <2>1 DEF SessionInv, IoInv
  <2>3. uartSend[s] # "io"
    BY <2>0 DEF SessionInv, IoInv
  <2>4. mainWrites[s] = 0
    BY <2>0 DEF SessionInv, IoInv
  <2> QED BY <2>0, <2>2, <2>3, <2>4 DEF SessionInv, IoInv
<1> QED BY <1>1, Invariance, PTL

\* uvHandleRef and uvChildRef count exactly the close callbacks that are still to
\* come, so that freeing a session waits for each of them and for no other.
THEOREM ClosesCounted == Spec => []CloseAccounting
<1>1. IInv => CloseAccounting
  BY DEF IInv, SessionInv, MainCloseInv, ChildCloseInv, CloseAccounting
<1> QED BY <1>1, Invariance, PTL

\* A worker that was told to stop has read all that was ever written for it to its
\* control socket, and nothing is queued behind SP_STOP_SESSION.
THEOREM StopIsLast == Spec => []NothingBehindStop
<1>1. IInv => NothingBehindStop
  <2> SUFFICES ASSUME IInv, NEW s \in Sessions
               PROVE  /\ work[s] \in {"stopping", "clearing", "cleared"} => ctrl[s] = <<>>
                      /\ \A i \in DOMAIN ctrl[s] :
                            ctrl[s][i] = "SP_STOP_SESSION" => i = Len(ctrl[s])
    BY DEF NothingBehindStop
  <2>1. work[s] \in {"stopping", "clearing", "cleared"} => ctrl[s] = <<>>
    BY DEF IInv, SessionInv, CtrlInv
  <2>2. ctrl[s] \in {<<>>, QStart, QStop, QBoth}
    BY DEF IInv, SessionInv, CtrlInv
  <2>3. ASSUME NEW q \in {<<>>, QStart, QStop, QBoth}, NEW i \in DOMAIN q,
               q[i] = "SP_STOP_SESSION"
        PROVE  i = Len(q)
    <3>1. CASE q = <<>>
      BY <2>3, <3>1
    <3>2. CASE q = QStart
      BY <2>3, <3>2 DEF QStart
    <3>3. CASE q = QStop
      BY <2>3, <3>3 DEF QStop
    <3>4. CASE q = QBoth
      BY <2>3, <3>4 DEF QBoth
    <3> QED BY <3>1, <3>2, <3>3, <3>4
  <2> QED BY <2>1, <2>2, <2>3
<1> QED BY <1>1, Invariance, PTL

\* A TCP session is taken apart when nobody uses it any more, as FreeSessionContinue
\* and FreeSessionFinally take for granted.
THEOREM AloneInTheEnd == Spec => []TakenApartAlone
<1>1. TcpContinueAfterChild /\ NoWriteWhenTakenApart /\ NothingBehindStop => TakenApartAlone
  BY DEF TakenApartAlone
<1> QED BY <1>1, TcpWorkerDone, NoWriteLeft, StopIsLast, PTL

\* The server resets itself only when every session it knows is dead.
THEOREM ResetSparesLiveSessions == Spec => []ResetOnlyWhenAllDead
<1>1. IInv => ResetOnlyWhenAllDead
  BY DEF IInv, ProcessInv, ResetOnlyWhenAllDead
<1> QED BY <1>1, Invariance, PTL

\* When clearSessionsForFinish has found sessionRef to be zero, no session is
\* allocated and no worker of a TCP session runs or will run.
THEOREM ClearedAlone == Spec => []InstanceClearedAlone
<1>1. IInv => InstanceClearedAlone
  <2> SUFFICES ASSUME IInv, loopMain = "done"
               PROVE  /\ \A s \in Sessions : mem[s] # "alloc"
                      /\ \A s \in Tcp : work[s] \in {"none", "cleared"}
    BY DEF InstanceClearedAlone
  <2>1. \A s \in Sessions : mem[s] # "alloc"
    BY DEF IInv, ProcessInv
  <2>2. ASSUME NEW s \in Tcp PROVE work[s] \in {"none", "cleared"}
    <3>0. s \in Sessions /\ SessionInv(s) /\ mem[s] \in {"none", "alloc", "freed"}
      BY DEF IInv, ObjTypeOK
    <3>1. CASE mem[s] = "none"
      BY <3>0, <3>1 DEF SessionInv, MemInv
    <3>2. CASE mem[s] = "freed"
      BY <3>0, <3>2 DEF SessionInv, MemInv, CtrlInv
    <3> QED BY <2>1, <3>0, <3>1, <3>2
  <2> QED BY <2>1, <2>2
<1> QED BY <1>1, Invariance, PTL

-----------------------------------------------------------------------------
(* HdcSession implements SessionOwnership for every set of TCP sessions: the *)
(* initial state maps to an initial state, and every step to a step of a     *)
(* kind the promise allows, or to a stutter.                                 *)

\* A session that still connects has its handle, or the close of it is pending; the
\* main loop writes only to sessions whose creation is done; all handles of a freed
\* session are closed.
ConnectInv == \A s \in Sessions :
    /\ boot[s] = "connecting" => workTcp[s] \/ "hWorkTCP" \in mainClosing[s]
    /\ mainWrites[s] > 0 => boot[s] = "done"
    /\ mem[s] = "freed" => mainClosing[s] = {}

RInv == IInv /\ ConnectInv

-----------------------------------------------------------------------------
(* The invariant the refinement needs beyond IInv.                         *)

\* The variables ConnectInv is about.
ConnectVars == <<boot, workTcp, mainClosing, mainWrites, mem>>

\* FreeSessionContinue closes no socket of a session that still connects.
LEMMA ContinueKeepsConnect ==
    ASSUME RInv, NEW s \in Sessions, freePc[s] \notin TakenApart, FreeSessionContinue(s),
           UNCHANGED <<boot, mainWrites, mem>>
    PROVE  ConnectInv'
<1>1. /\ workTcp \in [Sessions -> BOOLEAN] /\ mainClosing \in [Sessions -> SUBSET MainHandles]
      /\ mainClosing[s] = {}
  BY DEF RInv, IInv, TypeOK, MainTypeOK, SessionInv, MainCloseInv
<1>2. boot[s] = "connecting" => workTcp[s]
  BY <1>1 DEF RInv, ConnectInv
<1>3. workTcp[s] => "hWorkTCP" \in mainClosing'[s]
  BY <1>1 DEF FreeSessionContinue
<1>4. ASSUME NEW t \in Sessions \ {s}
      PROVE  workTcp'[t] = workTcp[t] /\ mainClosing'[t] = mainClosing[t]
  BY <1>1 DEF FreeSessionContinue
<1>5. mem[s] # "freed"
  BY DEF RInv, IInv, SessionInv, MemInv, TakenApart
<1> QED BY <1>2, <1>3, <1>4, <1>5 DEF RInv, ConnectInv

\* Every step preserves ConnectInv.
LEMMA ConnectStep == RInv /\ [Next]_vars => ConnectInv'
<1> SUFFICES ASSUME RInv, [Next]_vars PROVE ConnectInv'
  OBVIOUS
<1> USE DEF objVars, mainVars, tcpVars, taskVars, endVars, uartVars
<1>a. ASSUME UNCHANGED ConnectVars PROVE ConnectInv'
  BY <1>a DEF RInv, ConnectInv, ConnectVars
<1>1. CASE UNCHANGED vars
  BY <1>1, <1>a DEF vars, ConnectVars
<1>2. CASE ~aborted /\ (ClearSessions \/ StopModules \/ InstanceCleared)
  BY <1>2, <1>a DEF ClearSessions, StopModules, InstanceCleared, ConnectVars
<1>3. ASSUME NEW s \in Sessions, Create(s) PROVE ConnectInv'
  <2>t. /\ boot \in [Sessions -> BootStates] /\ workTcp \in [Sessions -> BOOLEAN]
        /\ mainWrites \in [Sessions -> 0..MaxMainWrites]
        /\ mem \in [Sessions -> {"none", "alloc", "freed"}]
        /\ \A t \in Sessions : mem[t] = "none" => boot[t] = "none"
    BY DEF RInv, IInv, TypeOK, MainTypeOK, ObjTypeOK, SessionInv, MemInv
  <2>1. CASE ConnectDaemon(s)
    BY <2>1, <2>t DEF ConnectDaemon, MallocSession, RInv, ConnectInv
  <2>2. CASE ConnectOk(s)
    BY <2>2, <2>t DEF ConnectOk, RInv, ConnectInv
  <2>3. CASE ConnectFail(s)
    BY <2>3, <2>t DEF ConnectFail, RInv, ConnectInv
  <2>4. CASE AcceptClient(s)
    BY <2>4, <2>t DEF AcceptClient, MallocSession, RInv, ConnectInv
  <2>5. CASE PrepareNewSession(s)
    BY <2>5, <2>t DEF PrepareNewSession, MallocSession, RInv, ConnectInv
  <2>6. CASE ThreadUp(s)
    BY <2>6, <2>t DEF ThreadUp, RInv, ConnectInv
  <2>7. CASE FuncNewSessionUp(s)
    BY <2>7, <2>t DEF FuncNewSessionUp, RInv, ConnectInv
  <2> QED BY <1>3, <2>1, <2>2, <2>3, <2>4, <2>5, <2>6, <2>7 DEF Create
<1>4. ASSUME NEW s \in Sessions, Free(s) PROVE ConnectInv'
  <2>t. /\ workTcp \in [Sessions -> BOOLEAN] /\ mainClosing \in [Sessions -> SUBSET MainHandles]
        /\ mem \in [Sessions -> {"none", "alloc", "freed"}]
    BY DEF RInv, IInv, TypeOK, MainTypeOK, ObjTypeOK
  <2>1. CASE ResetOldSession(s) \/ AsyncFree(s) \/ CommandRemoveSession(s)
    BY <2>1, <1>a
       DEF ResetOldSession, AsyncFree, CommandRemoveSession, ConnectVars
  <2>5. CASE FreeSessionFinally(s)
    <3>1. mainClosing[s] = {}
      <4>1. uvHandleRef[s] = 0 /\ uvHandleRef[s] = Cardinality(mainClosing[s])
        BY <2>5 DEF FreeSessionFinally, RInv, IInv, SessionInv, MainCloseInv, TakenApart
      <4> QED BY <4>1, <2>t, HandleCount
    <3> QED BY <2>5, <2>t, <3>1 DEF FreeSessionFinally, RInv, ConnectInv
  <2>2. CASE FreeSessionOpeate(s)
    BY <2>2, <2>t, ContinueKeepsConnect
       DEF FreeSessionOpeate, TakenApart, RInv, ConnectInv
  <2>3. CASE CheckFreeSessionContinue(s)
    BY <2>3, ContinueKeepsConnect DEF CheckFreeSessionContinue, TakenApart
  <2>4. ASSUME NEW h \in MainHandles, MainHandleClosed(s, h) PROVE ConnectInv'
    BY <2>4, <2>t DEF MainHandleClosed, RInv, ConnectInv
  <2> QED BY <1>4, <2>1, <2>2, <2>3, <2>4, <2>5 DEF Free
<1>5. ASSUME NEW s \in Sessions, Main(s) PROVE ConnectInv'
  <2>t. /\ workTcp \in [Sessions -> BOOLEAN] /\ mainWrites \in [Sessions -> 0..MaxMainWrites]
        /\ childTcp[s] \in {"open", "closing", "closed"} => boot[s] = "done"
    BY DEF RInv, IInv, TypeOK, MainTypeOK, ObjTypeOK, SessionInv, BootInv
  <2>1. CASE MainSend(s)
    BY <2>1, <2>t DEF MainSend, RInv, ConnectInv
  <2>2. CASE FinishMainWriteOk(s)
    BY <2>2, <2>t DEF FinishMainWriteOk, RInv, ConnectInv
  <2>3. CASE FinishMainWriteError(s)
    BY <2>3, <2>t DEF FinishMainWriteError, RInv, ConnectInv
  <2> QED BY <1>5, <2>1, <2>2, <2>3 DEF Main
<1>6. ASSUME NEW s \in Sessions, Work(s) PROVE ConnectInv'
  <2>1. UNCHANGED ConnectVars
    <3>1. CASE WorkerStart(s) \/ WorkerRun(s) \/ StartSession(s) \/ SendCheck(s) \/ SendWrite(s)
      BY <3>1 DEF WorkerStart, WorkerRun, StartSession, SendCheck, SendWrite, ConnectVars
    <3>2. CASE FinishWriteOk(s) \/ FinishWriteError(s) \/ ReadStreamError(s) \/ ReadUartError(s)
      BY <3>2 DEF FinishWriteOk, FinishWriteError, ReadStreamError, ReadUartError, ConnectVars
    <3>3. CASE OnNewHandshakeOK(s) \/ ChildTcpClosed(s) \/ StopSession(s) \/ ChildLoopStopped(s)
      BY <3>3 DEF OnNewHandshakeOK, ChildTcpClosed, StopSession, ChildLoopStopped, ConnectVars
    <3>4. CASE \E h \in ChildHandles : ChildHandleClosed(s, h)
      BY <3>4 DEF ChildHandleClosed, ConnectVars
    <3>5. CASE NewTask(s) \/ TaskFreed(s) \/ ClearTaskRetry(s) \/ ChildCleared(s)
      BY <3>5 DEF NewTask, TaskFreed, ClearTaskRetry, ChildCleared, ConnectVars
    <3> QED BY <1>6, <3>1, <3>2, <3>3, <3>4, <3>5 DEF Work
  <2> QED BY <2>1, <1>a
<1>7. ASSUME NEW s \in Sessions, Uart(s) PROVE ConnectInv'
  BY <1>7, <1>a DEF Uart, UartGetSession, UartRef, UartWritten, ConnectVars
<1> QED BY <1>1, <1>2, <1>3, <1>4, <1>5, <1>6, <1>7 DEF Next

\* IInv and ConnectInv together are inductive.
LEMMA RefinementInvariant == Spec => []RInv
<1>1. Init => RInv
  <2>1. Init => ConnectInv
    BY DEF Init, ConnectInv
  <2> QED BY <2>1, InitInv DEF RInv
<1>2. RInv /\ [Next]_vars => RInv'
  BY ConnectStep, NextInv DEF RInv
<1> QED BY <1>1, <1>2, PTL DEF Spec
-----------------------------------------------------------------------------
(* How the steps of SessionOwnership look from here.                       *)

\* What the promise sees of a session.
View(s) == <<mem[s], isDead[s], boot[s], work[s], uvHandleRef[s], sending[s], writes[s],
             mainWrites[s]>>
Step == [Ownership!Next]_(Ownership!ownVars)

\* A session the view of which is kept has kept its life and its users.
LEMMA ViewKept ==
    ASSUME NEW s, UNCHANGED View(s)
    PROVE  LifeOf(s)' = LifeOf(s) /\ UsersOf(s)' = UsersOf(s)
BY DEF View, LifeOf, UsersOf

\* Nothing the promise is about changes.
LEMMA StutterStep ==
    ASSUME \A t \in Tcp : UNCHANGED View(t)
    PROVE  Step
<1>1. \A t \in Tcp : LifeOf(t)' = LifeOf(t) /\ UsersOf(t)' = UsersOf(t)
  BY ViewKept
<1>2. [t \in Tcp |-> LifeOf(t)]' = [t \in Tcp |-> LifeOf(t)]
  BY <1>1
<1>3. [t \in Tcp |-> UsersOf(t)]' = [t \in Tcp |-> UsersOf(t)]
  BY <1>1
<1> QED BY <1>2, <1>3 DEF Step, Ownership!ownVars

\* The life of an allocated session that is still in place is that of a present object.
LEMMA PresentLife == ASSUME NEW s, mem[s] = "alloc" PROVE LifeOf(s) \in {"live", "dying"}
BY DEF LifeOf

\* Users of one allocated session change: an instance of what the promise calls UsersMove.
LEMMA UsersMoved ==
    ASSUME NEW s \in Tcp, \A t \in Tcp \ {s} : UsersOf(t)' = UsersOf(t),
           \/ UsersOf(s)' = UsersOf(s)
           \/ mem[s] = "alloc" /\ UsersOf(s) # {}
    PROVE  Ownership!UsersMove
<1> DEFINE life == [t \in Tcp |-> LifeOf(t)]
           users == [t \in Tcp |-> UsersOf(t)]
<1>1. users' \in [Tcp -> SUBSET SessionUsers]
  <2>1. \A t \in Tcp : UsersOf(t)' \in SUBSET SessionUsers
    BY DEF UsersOf, SessionUsers
  <2> QED BY <2>1
<1>2. ASSUME NEW t \in Tcp, users'[t] # users[t]
      PROVE  life[t] \in {"live", "dying"} /\ users[t] # {}
  <2>1. users'[t] = UsersOf(t)' /\ users[t] = UsersOf(t) /\ life[t] = LifeOf(t)
    OBVIOUS
  <2>2. t = s /\ mem[s] = "alloc" /\ UsersOf(s) # {}
    BY <1>2, <2>1
  <2> QED BY <2>1, <2>2, PresentLife
<1> HIDE DEF life, users
<1> QED BY <1>1, <1>2 DEF Ownership!UsersMove, Ownership!Present, life, users

\* The users of one allocated session change.
LEMMA HandStep ==
    ASSUME NEW s \in Tcp, \A t \in Tcp \ {s} : UNCHANGED View(t),
           mem[s] = "alloc", UNCHANGED <<mem[s], isDead[s]>>, UsersOf(s) # {}
    PROVE  Step
<1>1. LifeOf(s)' = LifeOf(s)
  BY DEF LifeOf
<1>2. \A t \in Tcp \ {s} : LifeOf(t)' = LifeOf(t) /\ UsersOf(t)' = UsersOf(t)
  BY ViewKept
<1>3. UNCHANGED [t \in Tcp |-> LifeOf(t)]
  BY <1>1, <1>2
<1>4. Ownership!UsersMove
  BY <1>2, UsersMoved
<1> QED BY <1>3, <1>4 DEF Step, Ownership!Next, Ownership!Hand

\* Sessions die, and the users of one of them change at most.
LEMMA KillStep ==
    ASSUME NEW s \in Tcp,
           \A t \in Tcp : mem[t] \in {"none", "alloc", "freed"} /\ UNCHANGED mem[t],
           \A t \in Tcp : isDead[t] \in BOOLEAN /\ isDead'[t] \in BOOLEAN
                         /\ (isDead[t] => isDead'[t]),
           \A t \in Tcp \ {s} : UsersOf(t)' = UsersOf(t),
           \/ UsersOf(s)' = UsersOf(s)
           \/ mem[s] = "alloc" /\ UsersOf(s) # {}
    PROVE  Step
<1> DEFINE life == [t \in Tcp |-> LifeOf(t)]
           users == [t \in Tcp |-> UsersOf(t)]
           Dying == {t \in Tcp : life[t] = "live" /\ isDead'[t]}
<1>1. life' = [t \in Tcp |-> IF t \in Dying THEN "dying" ELSE life[t]]
  <2>1. ASSUME NEW t \in Tcp
        PROVE  LifeOf(t)' = IF t \in Dying THEN "dying" ELSE LifeOf(t)
    <3>1. CASE mem[t] = "alloc"
      BY <3>1 DEF LifeOf
    <3>2. CASE mem[t] # "alloc"
      <4>1. LifeOf(t)' = LifeOf(t) /\ LifeOf(t) # "live"
        BY <3>2 DEF LifeOf
      <4> QED BY <4>1
    <3> QED BY <3>1, <3>2
  <2> QED BY <2>1
<1>2. Dying \in SUBSET {o \in Tcp : life[o] = "live"}
  OBVIOUS
<1>3. Ownership!UsersMove
  BY UsersMoved
<1> HIDE DEF life, users, Dying
<1>4. Ownership!Kill
  BY <1>1, <1>2, <1>3 DEF Ownership!Kill, life
<1> QED BY <1>4 DEF Step, Ownership!Next

\* A session is created, with a user.
LEMMA CreateStep ==
    ASSUME NEW s \in Tcp, \A t \in Tcp \ {s} : UNCHANGED View(t),
           mem[s] = "none", mem'[s] = "alloc", UsersOf(s)' # {}
    PROVE  Step
<1> DEFINE life == [t \in Tcp |-> LifeOf(t)]
           users == [t \in Tcp |-> UsersOf(t)]
<1>1. life[s] = "none" /\ LifeOf(s)' \in {"live", "dying"}
  BY DEF LifeOf
<1>2. \A t \in Tcp \ {s} : LifeOf(t)' = LifeOf(t) /\ UsersOf(t)' = UsersOf(t)
  BY ViewKept
<1>3. life' = [life EXCEPT ![s] = LifeOf(s)'] /\ users' = [users EXCEPT ![s] = UsersOf(s)']
  BY <1>2
<1>4. UsersOf(s)' \in (SUBSET SessionUsers) \ {{}}
  BY DEF UsersOf, SessionUsers
<1> HIDE DEF life, users
<1>5. Ownership!Create(s)
  BY <1>1, <1>3, <1>4 DEF Ownership!Create, life, users
<1> QED BY <1>5 DEF Step, Ownership!Next

\* A dead session without a user is deleted.
LEMMA DestroyStep ==
    ASSUME NEW s \in Tcp, \A t \in Tcp \ {s} : UNCHANGED View(t),
           mem[s] = "alloc", isDead[s], mem'[s] = "freed",
           UsersOf(s) = {}, UsersOf(s)' = {}
    PROVE  Step
<1> DEFINE life == [t \in Tcp |-> LifeOf(t)]
           users == [t \in Tcp |-> UsersOf(t)]
<1>1. life[s] = "dying" /\ users[s] = {} /\ LifeOf(s)' = "freed"
  BY DEF LifeOf
<1>2. \A t \in Tcp \ {s} : LifeOf(t)' = LifeOf(t) /\ UsersOf(t)' = UsersOf(t)
  BY ViewKept
<1>3. life' = [life EXCEPT ![s] = "freed"] /\ users' = users
  BY <1>1, <1>2
<1> HIDE DEF life, users
<1>4. Ownership!Destroy(s)
  BY <1>1, <1>3 DEF Ownership!Destroy, life, users
<1> QED BY <1>4 DEF Step, Ownership!Next

\* The same for a session of any kind: those of a UART are not the promise's.
LEMMA OneSession ==
    ASSUME NEW s \in Sessions, \A t \in Sessions \ {s} : UNCHANGED View(t),
           UNCHANGED <<mem[s], isDead[s]>>,
           s \in Tcp => mem[s] = "alloc" /\ UsersOf(s) # {}
    PROVE  Step
<1>1. Tcp \subseteq Sessions
  BY ConstantsAssumption DEF ConstantsAssumption
<1>2. CASE s \in Tcp
  BY <1>1, <1>2, HandStep
<1>3. CASE s \notin Tcp
  BY <1>1, <1>3, StutterStep
<1> QED BY <1>2, <1>3

-----------------------------------------------------------------------------
(* Every step of HdcSession is such a step.                                *)

\* The types of what the promise sees.
LEMMA ViewTypes ==
    ASSUME RInv
    PROVE  /\ mem \in [Sessions -> {"none", "alloc", "freed"}]
           /\ isDead \in [Sessions -> BOOLEAN]
           /\ boot \in [Sessions -> BootStates] /\ work \in [Sessions -> WorkStates]
           /\ uvHandleRef \in [Sessions -> 0..3] /\ sending \in [Sessions -> BOOLEAN]
           /\ writes \in [Sessions -> 0..MaxWrites]
           /\ mainWrites \in [Sessions -> 0..MaxMainWrites]
           /\ freePc \in [Sessions -> FreeStates]
           /\ Tcp \subseteq Sessions
BY ConstantsAssumption
   DEF ConstantsAssumption, RInv, IInv, TypeOK, ObjTypeOK, MainTypeOK, WorkTypeOK, IoTypeOK

\* A TCP session of which something still runs is allocated; so is one whose main
\* handles have not all been closed.
LEMMA UserOfAllocated ==
    ASSUME RInv, NEW s \in Tcp,
           \/ boot[s] \in {"connecting", "wait"} /\ mem[s] = "alloc"
           \/ work[s] \notin {"none", "cleared"}
           \/ freePc[s] \in {"operate", "waitChild"}
           \/ mem[s] = "alloc" /\ freePc[s] \notin TakenApart
           \/ mem[s] = "alloc" /\ uvHandleRef[s] > 0
    PROVE  mem[s] = "alloc" /\ UsersOf(s) # {}
<1> USE ViewTypes
<1>1. /\ SessionInv(s) /\ s \in Sessions
      /\ mem[s] \in {"none", "alloc", "freed"}
  BY DEF RInv, IInv
<1>2. mem[s] = "alloc"
  BY <1>1 DEF SessionInv, MemInv, CtrlInv, TakenApart
<1>3. mem[s] = "alloc" /\ freePc[s] \notin TakenApart => uvHandleRef[s] > 0
  BY <1>1 DEF SessionInv, MainCloseInv
<1>4. freePc[s] \in {"operate", "waitChild"} => freePc[s] \notin TakenApart
  BY DEF TakenApart
<1>5. \/ boot[s] \in {"connecting", "wait"}
      \/ work[s] \notin {"none", "cleared"}
      \/ uvHandleRef[s] > 0
  BY <1>2, <1>3, <1>4
<1>6. CASE boot[s] \in {"connecting", "wait"}
  BY <1>2, <1>6 DEF UsersOf
<1>7. CASE work[s] \notin {"none", "cleared"}
  BY <1>2, <1>7 DEF UsersOf
<1>8. CASE uvHandleRef[s] > 0
  BY <1>2, <1>8 DEF UsersOf
<1> QED BY <1>5, <1>6, <1>7, <1>8

\* The steps of a worker change the users of its session at most.
LEMMA WorkRefines ==
    ASSUME RInv, NEW s \in Sessions, Work(s)
    PROVE  Step
<1> USE ViewTypes DEF objVars, mainVars, tcpVars, taskVars, endVars, uartVars
<1>1. ASSUME \A t \in Sessions : UNCHANGED View(t)
      PROVE  Step
  BY <1>1, StutterStep
<1>2. ASSUME \A t \in Sessions \ {s} : UNCHANGED View(t), UNCHANGED <<mem[s], isDead[s]>>,
             s \in Tcp => work[s] \notin {"none", "cleared"}
      PROVE  Step
  BY <1>2, OneSession, UserOfAllocated
<1>3. CASE \/ ReadStreamError(s) \/ ReadUartError(s) \/ OnNewHandshakeOK(s)
           \/ ChildTcpClosed(s) \/ NewTask(s) \/ TaskFreed(s) \/ ClearTaskRetry(s)
           \/ StartSession(s) /\ s \notin Tcp
           \/ \E h \in ChildHandles : ChildHandleClosed(s, h)
  <2>1. UNCHANGED <<mem, isDead, boot, work, uvHandleRef, writes, mainWrites, sending>>
    BY <1>3 DEF ReadStreamError, ReadUartError, OnNewHandshakeOK, ChildTcpClosed, NewTask,
                TaskFreed, ClearTaskRetry, StartSession, ChildHandleClosed
  <2> QED BY <2>1, <1>1 DEF View
<1>4. CASE WorkerStart(s) \/ WorkerRun(s) \/ ChildLoopStopped(s) \/ ChildCleared(s)
  BY <1>2, <1>4 DEF WorkerStart, WorkerRun, ChildLoopStopped, ChildCleared, View
<1>5. CASE StartSession(s) /\ s \in Tcp
  BY <1>2, <1>5 DEF StartSession, WorkerIdle, View
<1>6. CASE StopSession(s) \/ SendCheck(s)
  BY <1>2, <1>6 DEF StopSession, SendCheck, WorkerIdle, View
<1>7. CASE SendWrite(s)
  <2>1. work[s] = "up"
    BY <1>7 DEF SendWrite, RInv, IInv, SessionInv, IoInv
  <2> QED BY <1>2, <1>7, <2>1 DEF SendWrite, View
<1>8. CASE FinishWriteOk(s) \/ FinishWriteError(s)
  BY <1>2, <1>8 DEF FinishWriteOk, FinishWriteError, ChildLoopRuns, View
<1> QED BY <1>3, <1>4, <1>5, <1>6, <1>7, <1>8 DEF Work

\* Sessions are killed and nothing else the promise sees happens.
LEMMA KillRefines ==
    ASSUME RInv, NEW S, KillSessions(S),
           UNCHANGED <<mem, boot, work, uvHandleRef, sending, writes, mainWrites>>
    PROVE  Step
<1> USE ViewTypes
<1>1. \A t \in Tcp : UsersOf(t)' = UsersOf(t)
  BY DEF UsersOf
<1>2. \A t \in Tcp : /\ isDead[t] \in BOOLEAN /\ isDead'[t] \in BOOLEAN
                     /\ isDead[t] => isDead'[t]
  BY DEF KillSessions
<1>3. CASE Tcp = {}
  BY <1>3, StutterStep
<1>4. ASSUME NEW s \in Tcp PROVE Step
  BY <1>1, <1>2, KillStep
<1> QED BY <1>3, <1>4

\* The steps of the creation: a new session has a user, a failed one is killed.
LEMMA CreateRefines ==
    ASSUME RInv, NEW s \in Sessions, Create(s)
    PROVE  Step
<1> USE ViewTypes DEF objVars, mainVars, tcpVars, taskVars, endVars, uartVars
<1>0. /\ SessionInv(s)
      /\ boot[s] = "connecting" => s \in Tcp
      /\ boot[s] = "timer" => s \notin Tcp
      /\ mem[s] = "freed" => freePc[s] = "done"
      /\ boot[s] = "wait" => freePc[s] \in {"none", "operate"}
      /\ mem[s] = "none" => boot[s] = "none"
  BY DEF RInv, IInv, SessionInv, MemInv, BootInv
<1>1. CASE ConnectDaemon(s)
  <2>1. /\ mem[s] = "none" /\ mem'[s] = "alloc" /\ "creator" \in UsersOf(s)'
        /\ s \in Tcp
    BY <1>1, ConstantsAssumption
       DEF ConnectDaemon, MallocSession, UsersOf, ConstantsAssumption
  <2>2. \A t \in Tcp \ {s} : UNCHANGED View(t)
    BY <1>1 DEF ConnectDaemon, MallocSession, View
  <2> QED BY <2>1, <2>2, CreateStep
<1>2. CASE AcceptClient(s)
  <2>1. /\ s \in Tcp /\ mem[s] = "none" /\ mem'[s] = "alloc" /\ uvHandleRef'[s] = 3
    BY <1>2 DEF AcceptClient, MallocSession
  <2>2. "handles" \in UsersOf(s)'
    BY <2>1 DEF UsersOf
  <2>3. \A t \in Tcp \ {s} : UNCHANGED View(t)
    BY <1>2 DEF AcceptClient, MallocSession, View
  <2> QED BY <2>1, <2>2, <2>3, CreateStep
<1>3. CASE PrepareNewSession(s)
  <2>1. \A t \in Tcp : UNCHANGED View(t)
    BY <1>3 DEF PrepareNewSession, MallocSession, View
  <2> QED BY <2>1, StutterStep
<1>4. CASE ConnectOk(s)
  <2>1. s \in Tcp /\ mem[s] = "alloc"
    <3>1. boot[s] = "connecting" /\ workTcp[s]
      BY <1>4 DEF ConnectOk
    <3>2. freePc[s] \notin TakenApart
      BY <1>0, <3>1 DEF SessionInv, MainCloseInv
    <3> QED BY <1>0, <3>1, <3>2 DEF TakenApart
  <2>2. UsersOf(s) # {}
    BY <1>4, <2>1, UserOfAllocated DEF ConnectOk
  <2> QED BY <1>4, <2>1, <2>2, OneSession DEF ConnectOk, View
<1>5. CASE ThreadUp(s)
  <2>1. mem[s] = "alloc"
    BY <1>0, <1>5 DEF ThreadUp
  <2>2. s \in Tcp => UsersOf(s) # {}
    BY <1>5, <2>1, UserOfAllocated DEF ThreadUp
  <2> QED BY <1>5, <2>1, <2>2, OneSession DEF ThreadUp, View
<1>6. CASE FuncNewSessionUp(s)
  <2>1. s \notin Tcp
    BY <1>0, <1>6 DEF FuncNewSessionUp
  <2> QED BY <1>6, <2>1, OneSession DEF FuncNewSessionUp, View
<1>7. CASE ConnectFail(s)
  <2>1. s \in Tcp /\ boot[s] = "connecting"
    BY <1>0, <1>7 DEF ConnectFail
  <2>2. \A t \in Tcp \ {s} : UsersOf(t)' = UsersOf(t)
    BY <1>7 DEF ConnectFail, UsersOf
  <2>3. \A t \in Tcp : isDead'[t] = (isDead[t] \/ (t = s /\ mem[t] = "alloc"))
    BY <1>7 DEF ConnectFail, KillSessions
  <2>4. mem[s] = "alloc"
    \* The close of hWorkTCP waits for the end of the connect.
    <3>1. workTcp[s] \/ "hWorkTCP" \in mainClosing[s]
      BY <2>1 DEF RInv, ConnectInv
    <3>2. mem[s] = "freed" => ~workTcp[s] /\ mainClosing[s] = {}
      BY <1>0 DEF SessionInv, MainCloseInv, TakenApart, RInv, ConnectInv
    <3> QED BY <1>0, <2>1, <3>1, <3>2
  <2>5. UsersOf(s) # {}
    BY <2>1, <2>4, UserOfAllocated
  <2> QED BY <1>7, <2>1, <2>2, <2>3, <2>4, <2>5, KillStep DEF ConnectFail
<1> QED BY <1>1, <1>2, <1>3, <1>4, <1>5, <1>6, <1>7 DEF Create

\* The steps of the free: a kill, a hand over, or, with the last user gone, the end.
LEMMA FreeRefines ==
    ASSUME RInv, NEW s \in Sessions, Free(s)
    PROVE  Step
<1> USE ViewTypes DEF objVars, mainVars, tcpVars, taskVars, endVars, uartVars
<1>0. SessionInv(s)
  BY DEF RInv, IInv
<1>1. CASE ResetOldSession(s)
  BY <1>1, StutterStep DEF ResetOldSession, View
<1>2. CASE AsyncFree(s) \/ CommandRemoveSession(s)
  BY <1>2, KillRefines DEF AsyncFree, CommandRemoveSession
<1>3. ASSUME \A t \in Sessions \ {s} : UNCHANGED View(t), UNCHANGED <<mem, isDead>>,
             freePc[s] \in {"operate", "waitChild"}
      PROVE  Step
  BY <1>3, OneSession, UserOfAllocated
<1>4. CASE FreeSessionOpeate(s)
  BY <1>4, <1>3 DEF FreeSessionOpeate, FreeSessionContinue, View
<1>5. CASE CheckFreeSessionContinue(s)
  BY <1>5, <1>3 DEF CheckFreeSessionContinue, FreeSessionContinue, View
<1>6. ASSUME NEW h \in MainHandles, MainHandleClosed(s, h)
      PROVE  Step
  <2>1. mem[s] = "alloc" /\ uvHandleRef[s] > 0
    <3>1. mainClosing \in [Sessions -> SUBSET MainHandles] /\ h \in mainClosing[s]
      BY <1>6 DEF MainHandleClosed, RInv, IInv, TypeOK, MainTypeOK
    <3>2. Cardinality(mainClosing[s]) > 0
      BY <3>1, HandleCount
    <3>3. freePc[s] \in TakenApart /\ uvHandleRef[s] = Cardinality(mainClosing[s])
      BY <1>0, <3>1 DEF SessionInv, MainCloseInv
    <3>4. mem[s] # "freed"
      BY <3>1 DEF RInv, ConnectInv
    <3>5. mem[s] # "none"
      BY <1>0, <3>3 DEF SessionInv, MemInv, TakenApart
    <3> QED BY <3>2, <3>3, <3>4, <3>5
  <2>2. s \in Tcp => UsersOf(s) # {}
    BY <2>1, UserOfAllocated
  <2> QED BY <1>6, <2>1, <2>2, OneSession DEF MainHandleClosed, View
<1>7. CASE FreeSessionFinally(s)
  <2>1. CASE s \notin Tcp
    BY <1>7, <2>1, StutterStep DEF FreeSessionFinally, View
  <2>2. CASE s \in Tcp
    <3>1. /\ freePc[s] = "finally" /\ uvHandleRef[s] = 0 /\ freePc[s] \in TakenApart
          /\ uvHandleRef[s] = Cardinality(mainClosing[s])
      BY <1>0, <1>7 DEF FreeSessionFinally, SessionInv, MainCloseInv, TakenApart
    <3>2. mem[s] = "alloc" /\ isDead[s]
      BY <1>0, <3>1 DEF SessionInv, MemInv
    <3>3. boot[s] \notin {"connecting", "wait", "timer"}
      <4>1. mainClosing[s] = {} /\ ~workTcp[s]
        <5>1. mainClosing \in [Sessions -> SUBSET MainHandles]
          BY DEF RInv, IInv, TypeOK, MainTypeOK
        <5> QED BY <1>0, <3>1, <5>1, HandleCount DEF SessionInv, MainCloseInv
      <4> QED BY <1>0, <2>2, <3>1, <4>1 DEF SessionInv, BootInv, RInv, ConnectInv
    <3>4. work[s] \in {"none", "cleared"}
      BY <1>0, <2>2, <3>1 DEF SessionInv, CtrlInv
    <3>5. ~sending[s] /\ ~(writes[s] > 0) /\ ~(mainWrites[s] > 0)
      BY <1>0, <3>1, <3>4 DEF SessionInv, IoInv
    <3>6. ~(uvHandleRef[s] > 0)
      BY <3>1
    <3>7. UsersOf(s) = {}
      BY <3>3, <3>4, <3>5, <3>6 DEF UsersOf
    <3>8. UsersOf(s)' = UsersOf(s) /\ mem'[s] = "freed"
      BY <1>7 DEF FreeSessionFinally, UsersOf
    <3>9. \A t \in Tcp \ {s} : UNCHANGED View(t)
      BY <1>7 DEF FreeSessionFinally, View
    <3> QED BY <2>2, <3>2, <3>7, <3>8, <3>9, DestroyStep
  <2> QED BY <2>1, <2>2
<1> QED BY <1>1, <1>2, <1>4, <1>5, <1>6, <1>7 DEF Free

\* The writes of the main loop change the users of a session, and kill it at most.
LEMMA MainRefines ==
    ASSUME RInv, NEW s \in Sessions, Main(s)
    PROVE  Step
<1> USE ViewTypes DEF objVars, mainVars, tcpVars, taskVars, endVars, uartVars
<1>0. SessionInv(s)
  BY DEF RInv, IInv
<1>1. mem[s] = "alloc" /\ freePc[s] \notin TakenApart
  <2>1. freePc[s] \in {"none", "operate"}
    BY <1>0 DEF Main, MainSend, FinishMainWriteOk, FinishMainWriteError, SessionInv, MemInv,
                IoInv
  <2>2. mem[s] # "none"
    <3>1. mainWrites[s] > 0 => mem[s] # "none"
      BY <1>0 DEF RInv, ConnectInv, SessionInv, MemInv
    <3> QED BY <3>1 DEF Main, MainSend, FinishMainWriteOk, FinishMainWriteError
  <2> QED BY <1>0, <2>1, <2>2 DEF SessionInv, MemInv, TakenApart
<1>2. s \in Tcp => UsersOf(s) # {}
  BY <1>1, UserOfAllocated
<1>3. CASE MainSend(s)
  BY <1>1, <1>2, <1>3, OneSession DEF MainSend, View
<1>4. CASE FinishMainWriteOk(s)
  BY <1>1, <1>2, <1>4, OneSession DEF FinishMainWriteOk, View
<1>5. CASE FinishMainWriteError(s)
  <2>1. UNCHANGED <<mem, boot, work, uvHandleRef, sending, writes>>
        /\ \A t \in Sessions \ {s} : mainWrites'[t] = mainWrites[t]
    BY <1>5 DEF FinishMainWriteError
  <2>2. \A t \in Tcp \ {s} : UsersOf(t)' = UsersOf(t)
    BY <2>1 DEF UsersOf
  <2>3. \A t \in Tcp : /\ isDead[t] \in BOOLEAN /\ isDead'[t] \in BOOLEAN
                       /\ isDead[t] => isDead'[t]
    BY <1>5 DEF FinishMainWriteError, KillSessions
  <2>4. CASE s \in Tcp
    BY <1>1, <1>2, <2>1, <2>2, <2>3, <2>4, KillStep
  <2>5. CASE s \notin Tcp
    <3>1. \A t \in Tcp : isDead'[t] = isDead[t]
      BY <1>5, <2>5 DEF FinishMainWriteError, KillSessions
    <3> QED BY <2>1, <2>5, <3>1, StutterStep DEF View
  <2> QED BY <2>4, <2>5
<1> QED BY <1>3, <1>4, <1>5 DEF Main

\* The initial states are initial states of the promise.
LEMMA InitRefines == Init => Ownership!Init
<1> SUFFICES ASSUME Init PROVE Ownership!Init
  OBVIOUS
<1>1. ASSUME NEW s \in Tcp PROVE LifeOf(s) = "none" /\ UsersOf(s) = {}
  <2>1. s \in Sessions
    BY ConstantsAssumption DEF ConstantsAssumption
  <2> QED BY <2>1 DEF Init, LifeOf, UsersOf
<1> QED BY <1>1 DEF Ownership!Init

\* Every step is a step of the promise, or a stutter.
LEMMA NextRefines == RInv /\ [Next]_vars => Step
<1> SUFFICES ASSUME RInv, [Next]_vars PROVE Step
  OBVIOUS
<1> USE ViewTypes DEF objVars, mainVars, tcpVars, taskVars, endVars, uartVars
<1>1. CASE UNCHANGED vars
  BY <1>1, StutterStep DEF vars, View
<1>2. CASE ClearSessions
  BY <1>2, KillRefines DEF ClearSessions
<1>3. CASE StopModules \/ InstanceCleared
  BY <1>3, StutterStep DEF StopModules, InstanceCleared, View
<1>4. ASSUME NEW s \in Sessions, Uart(s) PROVE Step
  BY <1>4, StutterStep DEF Uart, UartGetSession, UartRef, UartWritten, View
<1> QED BY <1>1, <1>2, <1>3, <1>4, CreateRefines, FreeRefines, MainRefines, WorkRefines DEF Next

\* HdcSession keeps the promise of SessionOwnership for its TCP sessions: an object
\* is created with users, a new user gets the pointer from a present one, the object
\* is killed once, and it is destroyed when it is dead and the last user has gone.
THEOREM Refinement == Spec => OwnershipKept
<1>1. RInv /\ [Next]_vars => [Ownership!Next]_(Ownership!ownVars)
  BY NextRefines DEF Step
<1> QED BY <1>1, InitRefines, RefinementInvariant, PTL DEF Spec, OwnershipKept, Ownership!Spec
===============================================================================
