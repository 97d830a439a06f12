--------------------------- MODULE HdcTasksProofs ---------------------------
(***************************************************************************)
(* Proofs about HdcTasks, for every command, number of connections, files  *)
(* and pieces, and whatever fails: the reference count of a task is the    *)
(* number of callbacks it waits for, a task that is deleted waits for      *)
(* none, and the output of a command is shown before its channel is        *)
(* asked to go. HdcTransferProofs goes on with what a transfer says of     *)
(* the data it brought.                                                    *)
(***************************************************************************)
EXTENDS HdcTasks, FiniteSetTheorems, SequenceTheorems, TLAPS

-----------------------------------------------------------------------------
(* The invariant.                                                          *)

\* The variables that all commands have.
BaseTypes ==
    /\ kind \in Kinds /\ origin \in End
    /\ task \in [End -> {"none", "run", "stop", "gone"}]
    /\ refCount \in [End -> Int] /\ owed \in [End -> Int]

\* What a queue holds: a message, perhaps only once.
In(q, m) == \E i \in 1 .. Len(q) : q[i] = m
Single(q, m) == \A i, j \in 1 .. Len(q) : q[i] = m /\ q[j] = m => i = j

\* The commands there are.
Cmds == {"WAKEUP", "CLOSE", "ECHO_OK", "ECHO_FAIL", "FWD_INIT", "FWD_CHECK", "CHECK_RESULT",
         "ACTIVE_SLAVE", "ACTIVE_MASTER", "DATA", "FREE_CONTEXT", "FWD_SUCCESS", "SHELL_INIT",
         "SHELL_DATA", "UNITY", "BUG_INIT", "BUG_DATA", "RAW"}

\* The messages of a forward, those about a context with an id there may be.
FwdSays ==
    {h \in [cmd : Cmds, n : Int] :
        /\ h.cmd \in {"ACTIVE_MASTER", "DATA", "FREE_CONTEXT"} => h.n \in Number
        /\ h.cmd = "ACTIVE_SLAVE" => h.n \in Conn
        /\ h.cmd \in {"FWD_INIT", "FWD_CHECK", "CHECK_RESULT"} => h.n = 0}

FwdTypes ==
    /\ ctx \in [End -> [Number -> CtxStates]]
    /\ mapCtx \in [End -> [Number -> Number \cup {-1}]]
    /\ id \in [Number -> Number] /\ idle \subseteq Conn
    /\ net \in [End -> Seq(FwdSays)]

\* The messages that make the master have its listener, and the slave its context of a
\* number.
First == Msg("FWD_INIT", 0)
Opens(k) == IF k = 0 THEN Msg("FWD_CHECK", 0) ELSE Msg("ACTIVE_SLAVE", k)

\* The two contexts of a number are made once each, that of the slave after that of
\* the master.
OpenInv ==
    /\ \A e \in End : In(net[e], First) =>
          e = origin /\ Single(net[e], First) /\ ctx[origin][0] = "none"
    /\ \A e \in End, k \in Number : In(net[e], Opens(k)) =>
          /\ e = Slave /\ Single(net[e], Opens(k))
          /\ ctx[Slave][k] = "none" /\ ctx[origin][k] # "none"
    /\ \A k \in Number : ctx[origin][k] = "none" => ctx[Slave][k] = "none"
    /\ \A k \in idle : ctx[Slave][k] # "none"

\* mapCtxPoint leads to contexts that have the id and are not deleted.
MapInv ==
    /\ id[0] = 0 /\ \A k \in Conn : id[k] \in Conn
    /\ \A e \in End, i \in Number : mapCtx[e][i] # -1 =>
          id[mapCtx[e][i]] = i /\ ctx[e][mapCtx[e][i]] \notin {"none", "freed"}

FwdInv == FwdTypes /\ OpenInv /\ MapInv /\ \A e \in End : owed[e] = 0

\* Requests in flight are counted; a package manager that cannot be started leaves a
\* reference, and nothing gives one back twice.
IsSeq(s) == \E S : s \in Seq(S)
XferInv ==
    /\ opening \in [End -> Nat] /\ closing \in [End -> Nat] /\ async \in Nat
    /\ DOMAIN io = End /\ \A e \in End : IsSeq(io[e])
    /\ \A e \in End : owed[e] >= 0

\* The process of a command is started once.
ShSays == {h \in [cmd : Cmds, n : Int] : h.cmd \in {"SHELL_INIT", "UNITY", "BUG_INIT"} => h.n = 0}
Starts == Msg(ShFirst, 0)
ProcInv ==
    /\ net \in [End -> Seq(ShSays)]
    /\ rd \in 0..1 /\ wr \in Nat /\ lw \in Nat
    /\ owed["host"] = 0
    /\ \A e \in End : Single(net[e], Starts) /\ (In(net[e], Starts) => rd = 0)
    /\ ~(In(net["daemon"], Starts) /\ In(net["host"], Starts))

\* A task that is deleted has no reference left.
GoneInv == \A e \in End : task[e] = "gone" =>
    /\ refCount[e] = 0
    /\ IsProcess => IF e = "host" THEN log \notin {"on", "closing"} ELSE rd = 0 /\ wr = 0

IInv == /\ BaseTypes /\ RefCounted /\ GoneInv
        /\ IsForward => FwdInv
        /\ IsTransfer => XferInv
        /\ IsProcess => ProcInv

-----------------------------------------------------------------------------
(* Lemmas about queues.                                                    *)

\* What a queue holds when the first one is taken out.
LEMMA Taken ==
    ASSUME NEW S, NEW q \in Seq(S), q # <<>>
    PROVE  /\ Head(q) \in S /\ Tail(q) \in Seq(S)
           /\ \A m : In(Tail(q), m) => In(q, m)
           /\ \A m : Single(q, m) => Single(Tail(q), m)
           /\ In(q, Head(q)) /\ (Single(q, Head(q)) => ~In(Tail(q), Head(q)))
<1>1. /\ Head(q) \in S /\ Tail(q) \in Seq(S) /\ Len(Tail(q)) = Len(q) - 1
      /\ Len(q) \in Nat /\ Len(q) > 0 /\ Head(q) = q[1]
      /\ \A i \in 1 .. Len(q) - 1 : Tail(q)[i] = q[i + 1]
  OBVIOUS
<1> DEFINE r == Tail(q)
           h == Head(q)
<1> HIDE DEF r, h
<1>2. ASSUME NEW m, In(r, m) PROVE In(q, m)
  BY <1>1, <1>2 DEF In, r
<1>3. ASSUME NEW m, Single(q, m) PROVE Single(r, m)
  BY <1>1, <1>3 DEF Single, r
<1>4. In(q, h)
  BY <1>1 DEF In, h
<1>5. ASSUME Single(q, h) PROVE ~In(r, h)
  BY <1>1, <1>5 DEF In, Single, r, h
<1> QED BY <1>1, <1>2, <1>3, <1>4, <1>5 DEF r, h

\* What it holds when others are put behind.
LEMMA Joined ==
    ASSUME NEW S, NEW q \in Seq(S), NEW out \in Seq(S)
    PROVE  /\ q \o out \in Seq(S)
           /\ \A m : In(q \o out, m) => In(q, m) \/ In(out, m)
           /\ \A m : Single(q, m) /\ ~In(out, m) => Single(q \o out, m)
           /\ \A m : ~In(q, m) /\ Single(out, m) => Single(q \o out, m)
<1>1. /\ q \o out \in Seq(S) /\ Len(q) \in Nat /\ Len(out) \in Nat
      /\ Len(q \o out) = Len(q) + Len(out)
      /\ \A i \in 1 .. Len(q) : (q \o out)[i] = q[i]
      /\ \A i \in Len(q) + 1 .. Len(q) + Len(out) :
            (q \o out)[i] = out[i - Len(q)] /\ i - Len(q) \in 1 .. Len(out)
  OBVIOUS
<1> DEFINE r == q \o out
<1> HIDE DEF r
<1>a. \A i \in 1 .. Len(r) : \/ i \in 1 .. Len(q) /\ r[i] = q[i]
                             \/ i - Len(q) \in 1 .. Len(out) /\ r[i] = out[i - Len(q)]
  BY <1>1 DEF r
<1>2. ASSUME NEW m, In(r, m) PROVE In(q, m) \/ In(out, m)
  BY <1>a, <1>2 DEF In
<1>3. ASSUME NEW m, Single(q, m), ~In(out, m) PROVE Single(r, m)
  BY <1>a, <1>3 DEF In, Single
<1>4. ASSUME NEW m, ~In(q, m), Single(out, m) PROVE Single(r, m)
  <2> SUFFICES ASSUME NEW i \in 1 .. Len(r), NEW j \in 1 .. Len(r), r[i] = m, r[j] = m
               PROVE  i = j
    BY DEF Single
  <2>1. /\ i - Len(q) \in 1 .. Len(out) /\ out[i - Len(q)] = m
        /\ j - Len(q) \in 1 .. Len(out) /\ out[j - Len(q)] = m
    BY <1>a, <1>4 DEF In
  <2>2. i - Len(q) = j - Len(q)
    BY <2>1, <1>4 DEF Single
  <2>3. i \in Int /\ j \in Int /\ Len(q) \in Int
    BY <1>1
  <2> QED BY <2>2, <2>3
<1> QED BY <1>1, <1>2, <1>3, <1>4 DEF r

\* An empty queue holds nothing.
LEMMA Emptied == \A m : ~In(<<>>, m) /\ Single(<<>>, m)
BY DEF In, Single

\* Sequences of one and of two messages.
LEMMA Few ==
    /\ \A x, m : (In(<<x>>, m) <=> x = m) /\ Single(<<x>>, m)
    /\ \A x, y, m : /\ In(<<x, y>>, m) <=> x = m \/ y = m
                    /\ ~(x = m /\ y = m) => Single(<<x, y>>, m)
<1>1. ASSUME NEW x, NEW m PROVE (In(<<x>>, m) <=> x = m) /\ Single(<<x>>, m)
  BY DEF In, Single
<1>2. ASSUME NEW x, NEW y, NEW m PROVE /\ In(<<x, y>>, m) <=> x = m \/ y = m
                                       /\ ~(x = m /\ y = m) => Single(<<x, y>>, m)
  <2>1. Len(<<x, y>>) = 2 /\ <<x, y>>[1] = x /\ <<x, y>>[2] = y
    OBVIOUS
  <2> DEFINE q == <<x, y>>
  <2> HIDE DEF q
  <2>2. Len(q) = 2 /\ q[1] = x /\ q[2] = y
    BY <2>1 DEF q
  <2>3. 1 .. Len(q) = {1, 2}
    BY <2>2
  <2>4. /\ In(q, m) <=> x = m \/ y = m
        /\ ~(x = m /\ y = m) => Single(q, m)
    BY <2>2, <2>3 DEF In, Single
  <2> QED BY <2>4 DEF q
<1> QED BY <1>1, <1>2

\* Requests are put behind the others, and taken out wherever they are.
LEMMA Requests ==
    ASSUME NEW s, IsSeq(s)
    PROVE  /\ Len(s) \in Nat /\ DOMAIN s = 1 .. Len(s)
           /\ \A x : IsSeq(Append(s, x)) /\ Len(Append(s, x)) = Len(s) + 1
           /\ \A j \in DOMAIN s : /\ IsSeq(Without(s, j) \o <<>>)
                                  /\ Len(Without(s, j) \o <<>>) = Len(s) - 1
                                  /\ \A x : /\ IsSeq(Without(s, j) \o <<x>>)
                                            /\ Len(Without(s, j) \o <<x>>) = Len(s)
<1>1. PICK S : s \in Seq(S)
  BY DEF IsSeq
<1>2. Len(s) \in Nat /\ DOMAIN s = 1 .. Len(s)
  BY <1>1
<1>3. ASSUME NEW x PROVE \E T : x \in T /\ s \in Seq(T)
  <2>1. x \in S \cup {x} /\ s \in Seq(S \cup {x})
    BY <1>1, SeqDef
  <2> QED BY <2>1
<1>4. ASSUME NEW x PROVE IsSeq(Append(s, x)) /\ Len(Append(s, x)) = Len(s) + 1
  <2>1. PICK T : x \in T /\ s \in Seq(T)
    BY <1>3
  <2>2. Append(s, x) \in Seq(T) /\ Len(Append(s, x)) = Len(s) + 1
    BY <2>1
  <2> QED BY <2>2 DEF IsSeq
<1>5. ASSUME NEW j \in DOMAIN s, NEW T, s \in Seq(T)
      PROVE  Without(s, j) \in Seq(T) /\ Len(Without(s, j)) = Len(s) - 1
  <2>1. j \in 1 .. Len(s)
    BY <1>2
  <2> DEFINE a == SubSeq(s, 1, j - 1)
             b == SubSeq(s, j + 1, Len(s))
  <2>2. a \in Seq(T) /\ Len(a) = j - 1
    BY <1>2, <2>1, <1>5
  <2>3. b \in Seq(T) /\ Len(b) = Len(s) - j
    BY <1>2, <2>1, <1>5
  <2> HIDE DEF a, b
  <2>4. a \o b \in Seq(T) /\ Len(a \o b) = (j - 1) + (Len(s) - j)
    BY <2>2, <2>3
  <2>5. (j - 1) + (Len(s) - j) = Len(s) - 1
    BY <2>1, <1>2
  <2> QED BY <2>4, <2>5 DEF Without, a, b
<1>6. ASSUME NEW j \in DOMAIN s
      PROVE  IsSeq(Without(s, j) \o <<>>) /\ Len(Without(s, j) \o <<>>) = Len(s) - 1
  <2>1. Without(s, j) \in Seq(S) /\ Len(Without(s, j)) = Len(s) - 1
    BY <1>5, <1>1
  <2>2. Without(s, j) \o <<>> = Without(s, j)
    BY <2>1
  <2> QED BY <2>1, <2>2 DEF IsSeq
<1>7. ASSUME NEW j \in DOMAIN s, NEW x
      PROVE  IsSeq(Without(s, j) \o <<x>>) /\ Len(Without(s, j) \o <<x>>) = Len(s)
  <2>1. PICK T : x \in T /\ s \in Seq(T)
    BY <1>3
  <2>2. Without(s, j) \in Seq(T) /\ Len(Without(s, j)) = Len(s) - 1
    BY <1>5, <2>1
  <2>3. Without(s, j) \o <<x>> \in Seq(T) /\ Len(Without(s, j) \o <<x>>) = Len(s)
    BY <2>1, <2>2, <1>2
  <2> QED BY <2>3 DEF IsSeq
<1> QED BY <1>2, <1>4, <1>6, <1>7

-----------------------------------------------------------------------------
(* Lemmas about messages.                                                  *)

\* Messages that make no context and start no process.
Plain == {h \in FwdSays : h.cmd \notin {"FWD_INIT", "FWD_CHECK", "ACTIVE_SLAVE",
                                        "SHELL_INIT", "UNITY", "BUG_INIT"}}

\* A step that sends plain messages only.
Quiet(S) ==
    /\ net' \in [End -> Seq(S)]
    /\ \A d \in End : \A m : In(net'[d], m) => In(net[d], m) \/ m \in Plain
    /\ \A d \in End : \A m : Single(net[d], m) /\ m \notin Plain => Single(net'[d], m)

\* What a queue may hold of messages: forwards and processes have their own.
Holds(S) == /\ net \in [End -> Seq(S)] /\ Plain \subseteq S /\ S \subseteq [cmd : Cmds, n : Int]

\* The ends.
LEMMA Ends2 == /\ End = {"host", "daemon"} /\ \A e \in End : Other(e) \in End /\ Other(e) # e
               /\ \A d, e \in End : d # e => d = Other(e)
BY DEF End, Other

\* What a handler takes from the queue of its end, and puts into the other's.
LEMMA Passed ==
    ASSUME NEW S, net \in [End -> Seq(S)], NEW e \in End, NEW rest, NEW lvs,
           rest = net[e] \/ (net[e] # <<>> /\ rest = Tail(net[e])),
           NEW out \in Seq(S), Sends(e, rest, lvs, out)
    PROVE  /\ net' \in [End -> Seq(S)]
           /\ \A d \in End : \A m : In(net'[d], m) => In(net[d], m) \/ (d # e /\ In(out, m))
           /\ \A d \in End : \A m : Single(net[d], m) /\ ~(d # e /\ In(out, m))
                                   => Single(net'[d], m)
           /\ \A m : Single(out, m) /\ ~In(net[Other(e)], m) => Single(net'[Other(e)], m)
           /\ \A m : In(net'[e], m) => In(rest, m)
<1>1. /\ rest \in Seq(S) /\ \A m : In(rest, m) => In(net[e], m)
      /\ \A m : Single(net[e], m) => Single(rest, m)
  <2>1. net[e] \in Seq(S)
    OBVIOUS
  <2>2. CASE rest = net[e]
    BY <2>1, <2>2
  <2>3. CASE net[e] # <<>> /\ rest = Tail(net[e])
    BY <2>1, <2>3, Taken
  <2> QED BY <2>2, <2>3
<1>2. CASE session = "down"
  <2>1. net' = [d \in End |-> <<>>]
    BY <1>2 DEF Sends, Both
  <2>2. \A d \in End : net'[d] = <<>>
    BY <2>1
  <2>3. \A m : ~In(<<>>, m) /\ Single(<<>>, m)
    BY Emptied
  <2>4. net' \in [End -> Seq(S)]
    BY <2>1
  <2> QED BY <2>2, <2>3, <2>4, Ends2
<1>3. CASE session # "down"
  <2>1. net' = [d \in End |-> IF d = e THEN rest ELSE net[d] \o out]
    BY <1>3 DEF Sends
  <2>2. ASSUME NEW d \in End, d # e
        PROVE  /\ net'[d] = net[d] \o out /\ net'[d] \in Seq(S)
               /\ \A m : In(net'[d], m) => In(net[d], m) \/ In(out, m)
               /\ \A m : Single(net[d], m) /\ ~In(out, m) => Single(net'[d], m)
               /\ \A m : ~In(net[d], m) /\ Single(out, m) => Single(net'[d], m)
    <3>1. net'[d] = net[d] \o out /\ net[d] \in Seq(S)
      BY <2>1, <2>2
    <3> QED BY <3>1, Joined
  <2>3. net'[e] = rest
    BY <2>1
  <2>4. net' \in [End -> Seq(S)]
    <3>1. \A d \in End : net'[d] \in Seq(S)
      BY <2>2, <2>3, <1>1
    <3>2. net' = [d \in End |-> net'[d]]
      BY <2>1
    <3> QED BY <3>1, <3>2
  <2> QED BY <2>2, <2>3, <2>4, <1>1, Ends2
<1> QED BY <1>2, <1>3

\* The first message is not there any more.
LEMMA Handled ==
    ASSUME NEW S, net \in [End -> Seq(S)], NEW e \in End, net[e] # <<>>, NEW lvs,
           NEW out \in Seq(S), Answer(e, lvs, out)
    PROVE  /\ In(net[e], Head(net[e]))
           /\ Single(net[e], Head(net[e])) => ~In(net'[e], Head(net[e]))
<1>1. net[e] \in Seq(S)
  OBVIOUS
<1>2. \A m : In(net'[e], m) => In(Tail(net[e]), m)
  BY Passed DEF Answer
<1> QED BY <1>1, <1>2, Taken

\* Handlers that send plain messages.
LEMMA QuietSend ==
    ASSUME NEW S, Holds(S), NEW e \in End, NEW lvs, NEW out \in Seq(Plain),
           Emit(e, lvs, out) \/ (net[e] # <<>> /\ Answer(e, lvs, out))
    PROVE  Quiet(S)
<1>1. out \in Seq(S) /\ \A m : In(out, m) => m \in Plain
  <2>1. out \in Seq(S)
    BY SeqDef DEF Holds
  <2>2. \A i \in 1 .. Len(out) : out[i] \in Plain
    OBVIOUS
  <2> QED BY <2>1, <2>2 DEF In
<1>2. PICK rest : /\ rest = net[e] \/ (net[e] # <<>> /\ rest = Tail(net[e]))
                  /\ Sends(e, rest, lvs, out)
  BY DEF Emit, Answer
<1>3. /\ net' \in [End -> Seq(S)]
      /\ \A d \in End : \A m : In(net'[d], m) => In(net[d], m) \/ (d # e /\ In(out, m))
      /\ \A d \in End : \A m : Single(net[d], m) /\ ~(d # e /\ In(out, m)) => Single(net'[d], m)
  BY <1>1, <1>2, Passed DEF Holds
<1> QED BY <1>1, <1>3 DEF Quiet

\* Steps that send nothing, or lose all that is under way.
LEMMA QuietLoss ==
    ASSUME NEW S, Holds(S), UNCHANGED net \/ net' = Both(<<>>)
    PROVE  Quiet(S)
<1>1. CASE UNCHANGED net
  BY <1>1 DEF Quiet, Holds
<1>2. CASE net' = Both(<<>>)
  <2>1. net' \in [End -> Seq(S)] /\ \A d \in End : net'[d] = <<>>
    BY <1>2 DEF Both
  <2> QED BY <2>1, Emptied DEF Quiet
<1> QED BY <1>1, <1>2

\* Plain messages and sequences of them.
LEMMA PlainOnes ==
    /\ Plain \subseteq FwdSays /\ Plain \subseteq [cmd : Cmds, n : Int]
    /\ \A c \in {"WAKEUP", "CLOSE", "ECHO_OK", "ECHO_FAIL", "FWD_SUCCESS", "BUG_DATA",
                 "RAW", "SHELL_DATA"}, n \in Int : Msg(c, n) \in Plain
    /\ Msg("CHECK_RESULT", 0) \in Plain
    /\ \A c \in {"ACTIVE_MASTER", "DATA", "FREE_CONTEXT"}, n \in Number : Msg(c, n) \in Plain
<1>1. Plain \subseteq FwdSays /\ Plain \subseteq [cmd : Cmds, n : Int]
  BY DEF Plain, FwdSays
<1>2. ASSUME NEW c \in {"WAKEUP", "CLOSE", "ECHO_OK", "ECHO_FAIL", "FWD_SUCCESS", "BUG_DATA",
                        "RAW", "SHELL_DATA"}, NEW n \in Int
      PROVE  Msg(c, n) \in Plain
  <2>1. Msg(c, n) \in [cmd : Cmds, n : Int] /\ Msg(c, n).cmd = c
    BY DEF Msg, Cmds
  <2> QED BY <2>1 DEF Plain, FwdSays
<1>3. Msg("CHECK_RESULT", 0) \in Plain
  BY DEF Plain, FwdSays, Msg, Cmds
<1>4. ASSUME NEW c \in {"ACTIVE_MASTER", "DATA", "FREE_CONTEXT"}, NEW n \in Number
      PROVE  Msg(c, n) \in Plain
  <2>1. n \in Int
    BY DEF Number
  <2>2. Msg(c, n) \in [cmd : Cmds, n : Int] /\ Msg(c, n).cmd = c /\ Msg(c, n).n = n
    BY <2>1 DEF Msg, Cmds
  <2> QED BY <2>2 DEF Plain, FwdSays
<1> QED BY <1>1, <1>2, <1>3, <1>4

\* What all classes send.
LEMMA PlainSends ==
    /\ <<>> \in Seq(Plain) /\ Finish \in Seq(Plain) /\ <<Wakeup>> \in Seq(Plain)
    /\ \A n \in Int : <<Close(n)>> \in Seq(Plain)
    /\ \A e, lv : Log(e, lv) \in Seq(Plain)
    /\ \A e : Fails(e) \in Seq(Plain)
<1>1. \A m \in Plain : <<m>> \in Seq(Plain)
  OBVIOUS
<1>2. \A n \in Int : Close(n) \in Plain
  BY PlainOnes DEF Close
<1>3. \A lv : EchoOf(lv) \in Plain
  <2>1. Msg("ECHO_OK", 0) \in Plain /\ Msg("ECHO_FAIL", 0) \in Plain
    BY PlainOnes
  <2> QED BY <2>1 DEF EchoOf
<1>4. \A e, lv : Log(e, lv) \in Seq(Plain)
  BY <1>1, <1>3 DEF Log
<1>5. Finish \in Seq(Plain)
  BY <1>1, <1>2 DEF Finish
<1>6. \A e : Fails(e) \in Seq(Plain)
  BY <1>4, <1>5 DEF Fails
<1>7. <<Wakeup>> \in Seq(Plain) /\ <<>> \in Seq(Plain)
  BY <1>1, PlainOnes DEF Wakeup
<1> QED BY <1>1, <1>2, <1>4, <1>5, <1>6, <1>7

\* A step of HdcTask: what no class has a part in, but for its StopTask.
Common ==
    \/ \E e \in End : \/ FetchClose(e) \/ Wake(e) \/ Ignored(e, Taskless) \/ ClearOwnTasks(e)
                      \/ TryRemoveTask(e, Ready(e))
    \/ FetchEcho \/ FetchUnserved \/ DeatchChannel \/ FreeChannel \/ SessionEnd
    \/ PoolBusy(Taskless \ {"CLOSE", "FWD_SUCCESS"})

\* These steps are quiet.
LEMMA CommonQuiet ==
    ASSUME NEW S, Holds(S), Common
    PROVE  Quiet(S)
<1>e. "host" \in End /\ "daemon" \in End
  BY DEF End
<1>1. ASSUME NEW e \in End, FetchClose(e) PROVE Quiet(S)
  <2>1. net[e] # <<>> /\ Arg(e) \in Int
    <3>1. net[e] # <<>> /\ Head(net[e]) \in [cmd : Cmds, n : Int]
      BY <1>1 DEF FetchClose, Holds
    <3> QED BY <3>1 DEF Arg
  <2>2. (IF Arg(e) = 0 THEN <<>> ELSE <<Close(Arg(e) - 1)>>) \in Seq(Plain)
    BY <2>1, PlainSends
  <2> QED BY <1>1, <2>1, <2>2, QuietSend DEF FetchClose
<1>2. ASSUME NEW e \in End, Wake(e) \/ Ignored(e, Taskless) PROVE Quiet(S)
  <2>1. net[e] # <<>> /\ Answer(e, {}, <<>>)
    BY <1>2 DEF Wake, Ignored, Creates
  <2> QED BY <2>1, PlainSends, QuietSend
<1>3. ASSUME NEW e \in End, ClearOwnTasks(e) \/ TryRemoveTask(e, Ready(e)) PROVE Quiet(S)
  BY <1>3, QuietLoss DEF ClearOwnTasks, TryRemoveTask
<1>4. CASE FetchEcho
  <2>1. net["host"] # <<>> /\ net' = [net EXCEPT !["host"] = Tail(@)]
    BY <1>4 DEF FetchEcho
  <2>2. /\ net["host"] \in Seq(S) /\ Tail(net["host"]) \in Seq(S)
        /\ \A m : In(Tail(net["host"]), m) => In(net["host"], m)
        /\ \A m : Single(net["host"], m) => Single(Tail(net["host"]), m)
    <3>1. net["host"] \in Seq(S)
      BY <1>e DEF Holds
    <3> QED BY <3>1, <2>1, Taken
  <2>3. net' \in [End -> Seq(S)]
    BY <2>1, <2>2, <1>e DEF Holds
  <2>4. ASSUME NEW d \in End
        PROVE  net'[d] = net[d] \/ (d = "host" /\ net'[d] = Tail(net["host"]))
    BY <2>1 DEF Holds
  <2> QED BY <2>2, <2>3, <2>4 DEF Quiet
<1>5. CASE FetchUnserved
  <2>1. (IF chan = "gone" THEN <<Close(0)>> ELSE <<>>) \in Seq(Plain)
    BY PlainSends
  <2> QED BY <1>5, <2>1, <1>e, QuietSend DEF FetchUnserved
<1>6. CASE DeatchChannel
  <2>1. <<Close(0)>> \in Seq(Plain)
    BY PlainSends
  <2> QED BY <1>6, <2>1, <1>e, QuietSend DEF DeatchChannel
<1>7. CASE FreeChannel \/ SessionEnd \/ PoolBusy(Taskless \ {"CLOSE", "FWD_SUCCESS"})
  BY <1>7, QuietLoss DEF FreeChannel, SessionEnd, PoolBusy
<1> QED BY <1>1, <1>2, <1>3, <1>4, <1>5, <1>6, <1>7 DEF Common

-----------------------------------------------------------------------------
(* Port forwarding.                                                        *)

LiveStates == {"init", "listen", "ready", "closing"}

\* The contexts there are stay, whatever they are doing.
CtxMoves ==
    /\ ctx' \in [End -> [Number -> CtxStates]]
    /\ \A e \in End, k \in Number : \/ ctx'[e][k] = ctx[e][k]
                                    \/ ctx[e][k] \in LiveStates /\ ctx'[e][k] \in LiveStates

\* A task is deleted without a reference, and keeps none.
GoneStep ==
    /\ task' \in [End -> {"none", "run", "stop", "gone"}]
    /\ \A e \in End : task'[e] = "gone" =>
          refCount'[e] = refCount[e] /\ (task[e] = "gone" \/ refCount[e] = 0)

\* The tokens are not plain.
LEMMA Tokens ==
    /\ First \notin Plain /\ \A k \in Number : Opens(k) \notin Plain
    /\ \A k, j \in Number : Opens(k) = Opens(j) => k = j
    /\ First \in FwdSays /\ \A k \in Number : Opens(k) \in FwdSays /\ Opens(k) # First
<1> Number \subseteq Int /\ Conn = Number \ {0}
  BY ForwardAssumption DEF Number, Conn
<1> QED BY DEF First, Opens, Msg, Plain, FwdSays, Cmds

\* What a forward sends that is plain.
LEMMA FwdHolds == IsForward /\ IInv => Holds(FwdSays)
<1>1. FwdSays \subseteq [cmd : Cmds, n : Int]
  BY DEF FwdSays
<1> QED BY <1>1, PlainOnes DEF Holds, IInv, FwdInv, FwdTypes

\* A quiet step keeps the order in which contexts are made.
LEMMA FwdKept ==
    ASSUME FwdInv, Quiet(FwdSays), origin \in End, UNCHANGED <<origin, id, owed>>, CtxMoves,
           idle' \subseteq idle,
           \/ UNCHANGED mapCtx
           \/ \E e \in End : mapCtx' = [mapCtx EXCEPT ![e] = [i \in Number |-> -1]]
    PROVE  FwdInv' /\ \A e \in End : Live(e)' = Live(e)
<1>1. \A e \in End, k \in Number : /\ ctx'[e][k] = "none" <=> ctx[e][k] = "none"
                                   /\ ctx'[e][k] = "freed" <=> ctx[e][k] = "freed"
                                   /\ ctx'[e][k] \in LiveStates <=> ctx[e][k] \in LiveStates
  BY DEF CtxMoves, LiveStates
<1>m. /\ mapCtx' \in [End -> [Number -> Number \cup {-1}]]
      /\ \A e \in End, i \in Number : mapCtx'[e][i] = mapCtx[e][i] \/ mapCtx'[e][i] = -1
  <2>1. mapCtx \in [End -> [Number -> Number \cup {-1}]]
    BY DEF FwdInv, FwdTypes
  <2>2. CASE UNCHANGED mapCtx
    BY <2>1, <2>2
  <2>3. ASSUME NEW e \in End, mapCtx' = [mapCtx EXCEPT ![e] = [i \in Number |-> -1]]
        PROVE  /\ mapCtx' \in [End -> [Number -> Number \cup {-1}]]
               /\ \A d \in End, i \in Number :
                     mapCtx'[d][i] = mapCtx[d][i] \/ mapCtx'[d][i] = -1
    BY <2>1, <2>3
  <2> QED BY <2>2, <2>3
<1>2. mapCtx' \in [End -> [Number -> Number \cup {-1}]]
  BY <1>m
<1>3. \A e \in End, i \in Number : mapCtx'[e][i] = mapCtx[e][i] \/ mapCtx'[e][i] = -1
  BY <1>m
<1>4. FwdTypes'
  BY <1>2 DEF FwdInv, FwdTypes, CtxMoves, Quiet
<1>5. /\ \A d \in End : In(net'[d], First) => In(net[d], First)
      /\ \A d \in End, k \in Number : In(net'[d], Opens(k)) => In(net[d], Opens(k))
      /\ \A d \in End : Single(net[d], First) => Single(net'[d], First)
      /\ \A d \in End, k \in Number : Single(net[d], Opens(k)) => Single(net'[d], Opens(k))
  BY Tokens DEF Quiet
<1>o. Slave \in End /\ Slave' = Slave /\ 0 \in Number /\ Conn \subseteq Number
  BY Ends2, ForwardAssumption DEF Slave, Number, Conn
<1>i. idle \subseteq Number
  BY <1>o DEF FwdInv, FwdTypes
<1>6. OpenInv'
  <2>1. OpenInv
    BY DEF FwdInv
  <2>2. \A e \in End : In(net'[e], First) =>
            e = origin /\ Single(net'[e], First) /\ ctx'[origin][0] = "none"
    BY <2>1, <1>1, <1>5, <1>o DEF OpenInv
  <2>3. \A e \in End, k \in Number : In(net'[e], Opens(k)) =>
            /\ e = Slave /\ Single(net'[e], Opens(k))
            /\ ctx'[Slave][k] = "none" /\ ctx'[origin][k] # "none"
    BY <2>1, <1>1, <1>5, <1>o DEF OpenInv
  <2>4. \A k \in Number : ctx'[origin][k] = "none" => ctx'[Slave][k] = "none"
    BY <2>1, <1>1, <1>o DEF OpenInv
  <2>5. \A k \in idle' : ctx'[Slave][k] # "none"
    BY <2>1, <1>1, <1>o, <1>i DEF OpenInv
  <2> QED BY <2>2, <2>3, <2>4, <2>5, <1>o DEF OpenInv, First, Opens
<1>7. MapInv'
  <2>1. \A e \in End, i \in Number : mapCtx[e][i] # -1 => mapCtx[e][i] \in Number
    BY DEF FwdInv, FwdTypes
  <2> QED BY <2>1, <1>1, <1>3 DEF FwdInv, MapInv
<1>8. \A e \in End : Live(e)' = Live(e)
  BY <1>1 DEF Live, LiveStates
<1> QED BY <1>4, <1>6, <1>7, <1>8 DEF FwdInv

\* How many contexts there are when one is made, or deleted.
LEMMA Counting ==
    ASSUME FwdTypes, NEW e \in End, NEW k \in Number, NEW st \in CtxStates, SetCtx(e, k, st)
    PROVE  /\ IsFiniteSet(Live(e)) /\ Cardinality(Live(e)) \in Nat
           /\ ctx[e][k] \notin LiveStates /\ st \in LiveStates =>
                 Cardinality(Live(e))' = Cardinality(Live(e)) + 1
           /\ ctx[e][k] \in LiveStates /\ st \notin LiveStates =>
                 Cardinality(Live(e))' = Cardinality(Live(e)) - 1
           /\ \A d \in End \ {e} : Live(d)' = Live(d)
<1>1. IsFiniteSet(Number)
  BY FS_Interval, ForwardAssumption DEF Number
<1>2. IsFiniteSet(Live(e)) /\ Cardinality(Live(e)) \in Nat
  BY <1>1, FS_Subset, FS_CardinalityType DEF Live
<1>3. /\ ctx'[e][k] = st /\ \A j \in Number \ {k} : ctx'[e][j] = ctx[e][j]
      /\ \A d \in End \ {e} : ctx'[d] = ctx[d]
  BY DEF SetCtx, FwdTypes
<1>4. CASE ctx[e][k] \notin LiveStates /\ st \in LiveStates
  <2>1. Live(e)' = Live(e) \cup {k} /\ k \notin Live(e)
    BY <1>3, <1>4 DEF Live, LiveStates
  <2>2. Cardinality(Live(e) \cup {k}) = Cardinality(Live(e)) + 1
    BY <2>1, <1>2, FS_AddElement
  <2> QED BY <2>1, <2>2, <1>2, <1>3, <1>4 DEF Live
<1>5. CASE ctx[e][k] \in LiveStates /\ st \notin LiveStates
  <2>1. Live(e)' = Live(e) \ {k} /\ k \in Live(e)
    BY <1>3, <1>5 DEF Live, LiveStates
  <2>2. Cardinality(Live(e) \ {k}) = Cardinality(Live(e)) - 1
    BY <2>1, <1>2, FS_RemoveElement
  <2> QED BY <2>1, <2>2, <1>2, <1>3, <1>5 DEF Live
<1> QED BY <1>2, <1>3, <1>4, <1>5 DEF Live

\* idle is finite.
LEMMA IdleCount == FwdTypes => IsFiniteSet(idle) /\ Cardinality(idle) \in Nat
<1>1. IsFiniteSet(Conn)
  BY FS_Interval, ForwardAssumption DEF Conn
<1> QED BY <1>1, FS_Subset, FS_CardinalityType DEF FwdTypes

\* RefCounted and GoneInv of a forward.
LEMMA FwdMeaning ==
    /\ IsForward => (RefCounted <=> \A e \in End :
          refCount[e] = (Cardinality(Live(e)) + (IF e = Slave THEN Cardinality(idle) ELSE 0))
                        + owed[e])
    /\ IsForward => ~IsTransfer /\ ~IsProcess
    /\ IsTransfer => ~IsForward /\ ~IsProcess
    /\ IsProcess => ~IsForward /\ ~IsTransfer
BY DEF RefCounted, Pending, IsForward, IsTransfer, IsProcess

\* The same after a step.
LEMMA FwdMeaningPrime ==
    IsForward' => (RefCounted' <=> \A e \in End :
          refCount'[e] = (Cardinality(Live(e)') + (IF e = Slave' THEN Cardinality(idle') ELSE 0))
                        + owed'[e])
BY DEF RefCounted, Pending, IsForward, IsTransfer, IsProcess

\* What is left to show of a step of a forward.
LEMMA FwdDone ==
    ASSUME IInv, IsForward, UNCHANGED <<kind, origin, owed>>, FwdInv', GoneStep, RefCounted',
           refCount' \in [End -> Int]
    PROVE  IInv'
<1>1. IsForward' /\ ~IsTransfer' /\ ~IsProcess'
  BY DEF IsForward, IsTransfer, IsProcess
<1>2. BaseTypes'
  BY DEF IInv, BaseTypes, GoneStep
<1>3. GoneInv'
  BY <1>1 DEF IInv, GoneInv, GoneStep
<1> QED BY <1>1, <1>2, <1>3 DEF IInv

\* A quiet step that makes and deletes no context.
LEMMA FwdQuietStep ==
    ASSUME IInv, IsForward, Quiet(FwdSays), CtxMoves, GoneStep,
           UNCHANGED <<kind, origin, id, owed, refCount, idle>>,
           \/ UNCHANGED mapCtx
           \/ \E e \in End : mapCtx' = [mapCtx EXCEPT ![e] = [i \in Number |-> -1]]
    PROVE  IInv'
<1>1. FwdInv /\ origin \in End
  BY DEF IInv, BaseTypes
<1>2. FwdInv' /\ \A e \in End : Live(e)' = Live(e)
  BY <1>1, FwdKept
<1>3. RefCounted'
  <2>1. \A e \in End : Cardinality(Live(e)') = Cardinality(Live(e))
    BY <1>2
  <2>2. \A e \in End : refCount'[e] =
           (Cardinality(Live(e)') + (IF e = Slave' THEN Cardinality(idle') ELSE 0)) + owed'[e]
    BY <2>1, FwdMeaning DEF IInv, Slave
  <2>3. IsForward'
    BY DEF IsForward
  <2> QED BY <2>2, <2>3, FwdMeaningPrime
<1>4. refCount' \in [End -> Int]
  BY DEF IInv, BaseTypes
<1> QED BY <1>2, <1>3, <1>4, FwdDone

\* A task that goes on.
LEMMA TaskKept ==
    ASSUME BaseTypes, GoneInv, UNCHANGED refCount, UNCHANGED task \/ \E e \in End : AddTask(e)
    PROVE  GoneStep
<1>1. CASE UNCHANGED task
  BY <1>1 DEF GoneStep, BaseTypes
<1>2. ASSUME NEW e \in End, AddTask(e) PROVE GoneStep
  BY <1>2 DEF GoneStep, BaseTypes, AddTask
<1> QED BY <1>1, <1>2

\* A context that is there, and what closing it does to it.
LEMMA Moving ==
    ASSUME FwdTypes, NEW e \in End, NEW k \in Number, ctx[e][k] # "none"
    PROVE  /\ FreeContext(e, k) => CtxMoves /\ UNCHANGED <<mapCtx, refCount>>
           /\ SetCtx(e, k, IF Finished(e, k) THEN ctx[e][k] ELSE "ready") => CtxMoves
<1>1. ctx \in [End -> [Number -> CtxStates]] /\ ctx[e][k] \in CtxStates
  BY DEF FwdTypes
<1>2. ASSUME NEW st, SetCtx(e, k, st), st = ctx[e][k] \/ (~Finished(e, k) /\ st \in LiveStates)
      PROVE  CtxMoves
  <2>1. st \in CtxStates
    BY <1>1, <1>2 DEF LiveStates, CtxStates
  <2>2. ctx' \in [End -> [Number -> CtxStates]]
    BY <1>1, <1>2, <2>1 DEF SetCtx
  <2>3. ctx'[e][k] = st
    BY <1>1, <1>2 DEF SetCtx
  <2>4. \A d \in End, j \in Number : d # e \/ j # k => ctx'[d][j] = ctx[d][j]
    BY <1>1, <1>2 DEF SetCtx
  <2>5. ~Finished(e, k) => ctx[e][k] \in LiveStates
    BY <1>1 DEF Finished, LiveStates, CtxStates
  <2> QED BY <1>2, <2>2, <2>3, <2>4, <2>5 DEF CtxMoves
<1>3. ASSUME FreeContext(e, k) PROVE CtxMoves /\ UNCHANGED <<mapCtx, refCount>>
  <2>1. "closing" \in LiveStates
    BY DEF LiveStates
  <2> QED BY <1>2, <1>3, <2>1 DEF FreeContext, KeepContexts
<1>4. ASSUME SetCtx(e, k, IF Finished(e, k) THEN ctx[e][k] ELSE "ready") PROVE CtxMoves
  <2>1. "ready" \in LiveStates
    BY DEF LiveStates
  <2> QED BY <1>2, <1>4, <2>1
<1> QED BY <1>3, <1>4

\* Commands about a context find it.
LEMMA Found ==
    ASSUME FwdInv, NEW e \in End, Gets(e, "ACTIVE_MASTER") \/ Gets(e, "DATA")
           \/ Gets(e, "FREE_CONTEXT") \/ Gets(e, "CHECK_RESULT")
    PROVE  /\ Arg(e) \in Number
           /\ ~Unknown(e) => Target(e) \in Number /\ ctx[e][Target(e)] \in LiveStates
           /\ ~Unknown(e) /\ Gets(e, "CHECK_RESULT") => Target(e) = 0
<1> 0 \in Number
  BY ForwardAssumption DEF Number
<1>1. Head(net[e]) \in FwdSays
  BY DEF FwdInv, FwdTypes, Gets
<1>2. Arg(e) \in Number /\ (Gets(e, "CHECK_RESULT") => Arg(e) = 0)
  BY <1>1 DEF FwdSays, Gets, Arg
<1>3. ASSUME ~Unknown(e)
      PROVE  /\ Target(e) \in Number /\ id[Target(e)] = Arg(e)
             /\ ctx[e][Target(e)] \in LiveStates
  <2>1. mapCtx[e][Arg(e)] \in Number \cup {-1} /\ mapCtx[e][Arg(e)] # -1
    BY <1>2, <1>3 DEF FwdInv, FwdTypes, Unknown
  <2>2. Target(e) \in Number /\ ctx[e][Target(e)] \in CtxStates
    BY <2>1 DEF Target, FwdInv, FwdTypes
  <2>3. id[Target(e)] = Arg(e) /\ ctx[e][Target(e)] \notin {"none", "freed"}
    BY <2>1, <1>2 DEF Target, FwdInv, MapInv
  <2> QED BY <2>2, <2>3 DEF CtxStates, LiveStates
<1>4. \A k \in Number : id[k] = 0 => k = 0
  BY ForwardAssumption DEF FwdInv, MapInv, Number, Conn
<1> QED BY <1>2, <1>3, <1>4

\* What the handlers of a forward send that is plain.
LEMMA FwdPlain ==
    ASSUME FwdInv
    PROVE  /\ \A k \in Number : /\ ActiveMaster(k) \in Seq(Plain) /\ FreeMsg(k) \in Seq(Plain)
                                /\ <<Msg("DATA", id[k])>> \in Seq(Plain)
                                /\ \A e : FreeMsg(k) \o Fails(e) \in Seq(Plain)
           /\ <<Msg("CHECK_RESULT", 0)>> \in Seq(Plain)
           /\ \A e, lv : Log(e, lv) \o <<Msg("FWD_SUCCESS", 0)>> \in Seq(Plain)
<1>1. \A m \in Plain : <<m>> \in Seq(Plain)
  OBVIOUS
<1>2. \A k \in Number : id[k] \in Number
  BY DEF FwdInv, FwdTypes
<1>3. \A k \in Number : ActiveMaster(k) \in Seq(Plain) /\ FreeMsg(k) \in Seq(Plain)
                        /\ <<Msg("DATA", id[k])>> \in Seq(Plain)
  BY <1>1, <1>2, PlainOnes DEF ActiveMaster, FreeMsg
<1>4. \A k \in Number : \A e : FreeMsg(k) \o Fails(e) \in Seq(Plain)
  BY <1>3, PlainSends
<1>5. Msg("FWD_SUCCESS", 0) \in Plain /\ Msg("CHECK_RESULT", 0) \in Plain
  BY PlainOnes
<1>6. \A e, lv : Log(e, lv) \o <<Msg("FWD_SUCCESS", 0)>> \in Seq(Plain)
  BY <1>5, PlainSends
<1> QED BY <1>1, <1>3, <1>4, <1>5, <1>6

\* The handlers and callbacks that make and delete no context.
FwdSteady(e) ==
    \/ UnknownContext(e) \/ CheckResult(e) \/ (e = "host" /\ ForwardSuccess)
    \/ ActivateMaster(e) \/ ForwardData(e) \/ ForwardFree(e) \/ AcceptTooEarly(e)
    \/ \E k \in Number : ConnectTarget(e, k)
    \/ \E k \in Conn : ReadForwardBuf(e, k)

\* These keep the invariant: only which state a context is in changes, and what is
\* under way.
LEMMA FwdSteadyStep ==
    ASSUME IInv, IsForward, NEW e \in End, FwdSteady(e)
    PROVE  IInv'
<1>1. FwdInv /\ FwdTypes /\ BaseTypes /\ GoneInv /\ Holds(FwdSays)
  BY FwdHolds DEF IInv, FwdInv
<1>n. 0 \in Number /\ Conn \subseteq Number
  BY ForwardAssumption DEF Number, Conn
<1>g. UNCHANGED <<refCount, task>> => GoneStep
  BY <1>1, TaskKept
<1>c. UNCHANGED ctx => CtxMoves
  BY <1>1 DEF FwdTypes, CtxMoves
<1>2. CASE UnknownContext(e)
  <2>1. net[e] # <<>> /\ Answer(e, {"fail"}, Fails(e))
    BY <1>2 DEF UnknownContext, Gets
  <2>2. Quiet(FwdSays)
    BY <2>1, <1>1, PlainSends, QuietSend
  <2>3. UNCHANGED <<kind, origin, id, owed, mapCtx, refCount, idle, task, ctx>>
    BY <1>2 DEF UnknownContext, fwdVars
  <2> QED BY <2>2, <2>3, <1>g, <1>c, FwdQuietStep
<1>3. CASE CheckResult(e)
  <2>1. PICK out : out \in Seq(Plain) /\ net[e] # <<>> /\ Answer(e, {"ok"}, out)
    BY <1>3, <1>1, FwdPlain, PlainSends DEF CheckResult, Gets
  <2>2. Quiet(FwdSays)
    BY <2>1, <1>1, QuietSend
  <2>3. ctx[e][0] \in LiveStates
    BY <1>1, <1>3, Found DEF CheckResult
  <2>4. CtxMoves
    BY <2>3, <1>1, <1>3, <1>n, Moving DEF CheckResult, LiveStates
  <2>5. UNCHANGED <<kind, origin, id, owed, mapCtx, refCount, idle, task>>
    BY <1>3 DEF CheckResult, KeepContexts
  <2> QED BY <2>2, <2>4, <2>5, <1>g, FwdQuietStep
<1>4. CASE e = "host" /\ ForwardSuccess
  <2>1. net[e] # <<>> /\ Answer(e, {}, <<>>)
    BY <1>4 DEF ForwardSuccess, Creates
  <2>2. Quiet(FwdSays)
    BY <2>1, <1>1, PlainSends, QuietSend
  <2>3. UNCHANGED <<kind, origin, id, owed, mapCtx, refCount, idle, task, ctx>>
    BY <1>4 DEF ForwardSuccess, KeepContexts
  <2> QED BY <2>2, <2>3, <1>g, <1>c, FwdQuietStep
<1>5. CASE ActivateMaster(e)
  <2>1. net[e] # <<>> /\ Answer(e, {}, <<>>)
    BY <1>5 DEF ActivateMaster, Gets
  <2>2. Quiet(FwdSays)
    BY <2>1, <1>1, PlainSends, QuietSend
  <2>3. Target(e) \in Number /\ ctx[e][Target(e)] \in LiveStates
    BY <1>1, <1>5, Found DEF ActivateMaster
  <2>4. CtxMoves
    BY <2>3, <1>1, <1>5, Moving DEF ActivateMaster, LiveStates
  <2>5. UNCHANGED <<kind, origin, id, owed, mapCtx, refCount, idle, task>>
    BY <1>5 DEF ActivateMaster, KeepContexts
  <2> QED BY <2>2, <2>4, <2>5, <1>g, FwdQuietStep
<1>6. CASE ForwardData(e)
  <2>3. Target(e) \in Number /\ ctx[e][Target(e)] \in LiveStates
    BY <1>1, <1>6, Found DEF ForwardData
  <2>1. PICK out : out \in Seq(Plain) /\ net[e] # <<>> /\ Answer(e, {}, out)
    BY <1>6, <1>1, <2>3, FwdPlain, PlainSends DEF ForwardData, Gets
  <2>2. Quiet(FwdSays)
    BY <2>1, <1>1, QuietSend
  <2>4. CtxMoves /\ UNCHANGED <<mapCtx, refCount>>
    BY <2>3, <1>1, <1>6, <1>c, Moving DEF ForwardData, LiveStates
  <2>5. UNCHANGED <<kind, origin, id, owed, idle, task>>
    BY <1>6 DEF ForwardData
  <2> QED BY <2>2, <2>4, <2>5, <1>g, FwdQuietStep
<1>7. CASE ForwardFree(e)
  <2>1. net[e] # <<>> /\ Answer(e, {}, <<>>)
    BY <1>7 DEF ForwardFree, Gets
  <2>2. Quiet(FwdSays)
    BY <2>1, <1>1, PlainSends, QuietSend
  <2>3. Target(e) \in Number /\ ctx[e][Target(e)] \in LiveStates
    BY <1>1, <1>7, Found DEF ForwardFree
  <2>4. CtxMoves /\ UNCHANGED <<mapCtx, refCount>>
    BY <2>3, <1>1, <1>7, Moving DEF ForwardFree, LiveStates
  <2>5. UNCHANGED <<kind, origin, id, owed, idle, task>>
    BY <1>7 DEF ForwardFree
  <2> QED BY <2>2, <2>4, <2>5, <1>g, FwdQuietStep
<1>8. CASE AcceptTooEarly(e)
  <2>1. Quiet(FwdSays)
    BY <1>8, <1>1, PlainSends, QuietSend DEF AcceptTooEarly
  <2>2. CtxMoves /\ UNCHANGED <<mapCtx, refCount>>
    BY <1>8, <1>1, <1>n, Moving DEF AcceptTooEarly
  <2>3. UNCHANGED <<kind, origin, id, owed, idle, task>>
    BY <1>8 DEF AcceptTooEarly
  <2> QED BY <2>1, <2>2, <2>3, <1>g, FwdQuietStep
<1>9. ASSUME NEW k \in Number, ConnectTarget(e, k) PROVE IInv'
  <2>1. PICK out : out \in Seq(Plain) /\ Emit(e, {}, out)
    BY <1>9, <1>1, FwdPlain DEF ConnectTarget
  <2>2. Quiet(FwdSays)
    BY <2>1, <1>1, QuietSend
  <2>3. CtxMoves /\ UNCHANGED <<mapCtx, refCount>>
    <3>1. CASE FreeContext(e, k)
      BY <3>1, <1>9, <1>1, Moving DEF ConnectTarget
    <3>2. CASE SetCtx(e, k, "ready") /\ KeepContexts
      <4>1. ~Finished(e, k) /\ ctx[e][k] # "none"
        BY <1>9 DEF ConnectTarget, Finished
      <4> QED BY <3>2, <4>1, <1>1, Moving DEF KeepContexts
    <3> QED BY <1>9, <3>1, <3>2 DEF ConnectTarget
  <2>4. UNCHANGED <<kind, origin, id, owed, idle, task>>
    BY <1>9 DEF ConnectTarget
  <2> QED BY <2>2, <2>3, <2>4, <1>g, FwdQuietStep
<1>10. ASSUME NEW k \in Conn, ReadForwardBuf(e, k) PROVE IInv'
  <2>n. k \in Number /\ ctx[e][k] # "none"
    BY <1>10, <1>n DEF ReadForwardBuf
  <2>1. PICK out : out \in Seq(Plain) /\ Emit(e, {}, out)
    BY <1>10, <1>1, <2>n, FwdPlain DEF ReadForwardBuf
  <2>2. Quiet(FwdSays)
    BY <2>1, <1>1, QuietSend
  <2>3. CtxMoves /\ UNCHANGED <<mapCtx, refCount>>
    BY <1>10, <1>1, <2>n, <1>c, Moving DEF ReadForwardBuf
  <2>4. UNCHANGED <<kind, origin, id, owed, idle, task>>
    BY <1>10 DEF ReadForwardBuf
  <2> QED BY <2>2, <2>3, <2>4, <1>g, FwdQuietStep
<1> QED BY <1>2, <1>3, <1>4, <1>5, <1>6, <1>7, <1>8, <1>9, <1>10 DEF FwdSteady

\* A step of the loop, or a handler, counts at its own end only.
LEMMA TaskCounts ==
    ASSUME BaseTypes, GoneInv, NEW e \in End, NEW d \in Int,
           refCount' = [refCount EXCEPT ![e] = @ + d],
           AddTask(e) \/ (UNCHANGED task /\ task[e] # "gone")
    PROVE  GoneStep /\ refCount' \in [End -> Int] /\ refCount'[e] = refCount[e] + d
           /\ \A b \in End \ {e} : refCount'[b] = refCount[b]
<1>1. /\ refCount' \in [End -> Int] /\ refCount'[e] = refCount[e] + d
      /\ \A b \in End \ {e} : refCount'[b] = refCount[b]
  BY DEF BaseTypes
<1>2. task' \in [End -> {"none", "run", "stop", "gone"}] /\ task'[e] # "gone"
      /\ \A b \in End \ {e} : task'[b] = task[b]
  BY DEF BaseTypes, AddTask
<1> QED BY <1>1, <1>2 DEF GoneStep

\* A context that is made: mapCtxPoint leads to it.
Made(e, k, st) ==
    /\ ctx' \in [End -> [Number -> CtxStates]]
    /\ mapCtx' \in [End -> [Number -> Number \cup {-1}]]
    /\ id' \in [Number -> Number] /\ MapInv'
    /\ ctx'[e][k] = st
    /\ \A d \in End, j \in Number : d # e \/ j # k => ctx'[d][j] = ctx[d][j]

\* SetCtx, with its entry in mapCtxPoint, makes a context so, and MapInv stays.
LEMMA MapMade ==
    ASSUME FwdTypes, MapInv, NEW e \in End, NEW k \in Number, NEW st \in LiveStates, NEW i \in Number,
           k = 0 <=> i = 0,
           ctx[e][k] = "none", SetCtx(e, k, st),
           mapCtx' = [mapCtx EXCEPT ![e][i] = k],
           id' = [id EXCEPT ![k] = i],
           i = id[k] \/ \A d \in End : ctx[d][k] = "none"
    PROVE  Made(e, k, st)
<1>n. 0 \in Number /\ Conn = Number \ {0} /\ Conn \subseteq Number /\ Number \subseteq Int
  BY ForwardAssumption DEF Number, Conn
<1>i. i \in Number
  OBVIOUS
<1>1. /\ ctx' \in [End -> [Number -> CtxStates]] /\ ctx'[e][k] = st
      /\ \A d \in End, j \in Number : d # e \/ j # k => ctx'[d][j] = ctx[d][j]
  <2>1. st \in CtxStates /\ ctx \in [End -> [Number -> CtxStates]]
    BY DEF LiveStates, CtxStates, FwdTypes
  <2> QED BY <2>1 DEF SetCtx
<1>2. mapCtx \in [End -> [Number -> Number \cup {-1}]] /\ id \in [Number -> Number]
  BY DEF FwdTypes
<1>3. /\ mapCtx' \in [End -> [Number -> Number \cup {-1}]] /\ mapCtx'[e][i] = k
      /\ \A d \in End, j \in Number : d # e \/ j # i => mapCtx'[d][j] = mapCtx[d][j]
  BY <1>2, <1>i
<1>4. id' \in [Number -> Number] /\ id'[k] = i /\ \A j \in Number \ {k} : id'[j] = id[j]
  BY <1>2, <1>i
<1>5. id'[0] = 0 /\ \A j \in Conn : id'[j] \in Conn
  BY <1>4, <1>n DEF MapInv
<1>6. ASSUME NEW d \in End, NEW j \in Number, mapCtx'[d][j] # -1
      PROVE  id'[mapCtx'[d][j]] = j /\ ctx'[d][mapCtx'[d][j]] \notin {"none", "freed"}
  <2>1. CASE d = e /\ j = i
    BY <2>1, <1>1, <1>3, <1>4 DEF LiveStates
  <2>2. CASE d # e \/ j # i
    <3> DEFINE m == mapCtx[d][j]
    <3> HIDE DEF m
    <3>1. mapCtx'[d][j] = m /\ m \in Number
      BY <2>2, <1>2, <1>3, <1>6 DEF m
    <3>2. id[m] = j /\ ctx[d][m] \notin {"none", "freed"}
      BY <3>1, <1>6 DEF m, MapInv
    <3>3. id'[m] = id[m]
      BY <3>1, <3>2, <1>4
    <3>4. ctx'[d][m] = ctx[d][m]
      BY <3>1, <3>2, <1>1
    <3> QED BY <3>1, <3>2, <3>3, <3>4
  <2> QED BY <2>1, <2>2
<1>7. MapInv'
  BY <1>5, <1>6 DEF MapInv
<1> QED BY <1>1, <1>3, <1>4, <1>7 DEF Made

\* A context of the master.
LEMMA MasterMade ==
    ASSUME IInv, IsForward, NEW k \in Number, NEW st \in LiveStates, NEW i \in Number,
           k = 0 <=> i = 0,
           ctx[origin][k] = "none", MallocContext(origin, k, i, st),
           id' = [id EXCEPT ![k] = i],
           UNCHANGED <<kind, origin, owed, idle>>,
           AddTask(origin) \/ (UNCHANGED task /\ task[origin] # "gone"),
           net' \in [End -> Seq(FwdSays)],
           \A d \in End : \A m : In(net'[d], m) =>
               In(net[d], m) \/ m \in Plain \/ (d = Slave /\ m = Opens(k)),
           \A d \in End : \A m : Single(net[d], m) /\ m \notin Plain \cup {Opens(k)}
                                 => Single(net'[d], m),
           ~In(net[Slave], Opens(k)) => Single(net'[Slave], Opens(k)),
           k = 0 => ~In(net'[origin], First)
    PROVE  IInv'
<1>1. FwdInv /\ FwdTypes /\ OpenInv /\ MapInv /\ BaseTypes /\ GoneInv /\ origin \in End
  BY DEF IInv, FwdInv, BaseTypes
<1>o. Slave \in End /\ Slave # origin /\ Slave' = Slave /\ \A d \in End : d = origin \/ d = Slave
  BY <1>1, Ends2 DEF Slave
<1>n. 0 \in Number
  BY ForwardAssumption DEF Number
<1>2. \A d \in End : ctx[d][k] = "none" /\ ~In(net[d], Opens(k))
  BY <1>1, <1>o DEF OpenInv
<1>3. /\ SetCtx(origin, k, st) /\ mapCtx' = [mapCtx EXCEPT ![origin][i] = k]
      /\ refCount' = [refCount EXCEPT ![origin] = @ + 1]
  BY DEF MallocContext
<1>4. /\ ctx' \in [End -> [Number -> CtxStates]]
      /\ mapCtx' \in [End -> [Number -> Number \cup {-1}]]
      /\ id' \in [Number -> Number] /\ MapInv'
      /\ ctx'[origin][k] = st
      /\ \A d \in End, j \in Number : d # origin \/ j # k => ctx'[d][j] = ctx[d][j]
  <2>1. i = id[k] \/ \A d \in End : ctx[d][k] = "none"
    BY <1>2
  <2>2. Made(origin, k, st)
    BY <2>1, <1>1, <1>3, MapMade
  <2> QED BY <2>2 DEF Made
<1>5. FwdTypes'
  BY <1>1, <1>4 DEF FwdTypes
<1>6. OpenInv'
  <2>0. st # "none"
    BY DEF LiveStates
  <2>1. ASSUME NEW d \in End, In(net'[d], First)
        PROVE  d = origin /\ Single(net'[d], First) /\ ctx'[origin][0] = "none"
    <3>1. In(net[d], First) /\ First \notin Plain /\ First # Opens(k)
      BY <2>1, Tokens
    <3>2. d = origin /\ Single(net[d], First) /\ ctx[origin][0] = "none"
      BY <3>1, <1>1 DEF OpenInv
    <3> QED BY <2>1, <3>1, <3>2, <1>4, <1>n
  <2>2. ASSUME NEW d \in End, NEW j \in Number, In(net'[d], Opens(j))
        PROVE  /\ d = Slave /\ Single(net'[d], Opens(j))
               /\ ctx'[Slave][j] = "none" /\ ctx'[origin][j] # "none"
    <3>1. CASE j = k
      <4>1. d = Slave
        BY <2>2, <3>1, <1>2, Tokens
      <4> QED BY <3>1, <4>1, <1>2, <1>4, <1>o, <2>0
    <3>2. CASE j # k
      <4>1. Opens(j) \notin Plain \cup {Opens(k)}
        BY <3>2, Tokens
      <4>2. In(net[d], Opens(j))
        BY <2>2, <4>1
      <4>3. /\ d = Slave /\ Single(net[d], Opens(j))
            /\ ctx[Slave][j] = "none" /\ ctx[origin][j] # "none"
        BY <4>2, <1>1 DEF OpenInv
      <4> QED BY <3>2, <4>1, <4>3, <1>4, <1>o, <1>1
    <3> QED BY <3>1, <3>2
  <2>3. \A j \in Number : ctx'[origin][j] = "none" => ctx'[Slave][j] = "none"
    <3>1. \A j \in Number : ctx[origin][j] = "none" => ctx[Slave][j] = "none"
      BY <1>1 DEF OpenInv
    <3> QED BY <3>1, <1>2, <1>4, <1>o, <1>1
  <2>4. \A j \in idle' : ctx'[Slave][j] # "none"
    <3>1. \A j \in idle : j \in Number /\ ctx[Slave][j] # "none"
      BY <1>1, ForwardAssumption DEF OpenInv, FwdTypes, Number, Conn
    <3> QED BY <3>1, <1>4, <1>o
  <2> QED BY <2>1, <2>2, <2>3, <2>4, <1>o DEF OpenInv, First, Opens
<1>7. FwdInv'
  BY <1>1, <1>4, <1>5, <1>6 DEF FwdInv
<1>8. /\ GoneStep /\ refCount' \in [End -> Int] /\ refCount'[origin] = refCount[origin] + 1
      /\ \A b \in End \ {origin} : refCount'[b] = refCount[b]
  <2>1. 1 \in Int
    OBVIOUS
  <2> QED BY <2>1, <1>1, <1>3, TaskCounts
<1>9. RefCounted'
  <2>1. /\ Cardinality(Live(origin))' = Cardinality(Live(origin)) + 1
        /\ Cardinality(Live(origin)) \in Nat
        /\ \A d \in End \ {origin} : Live(d)' = Live(d)
    <3>1. st \in CtxStates /\ ctx[origin][k] \notin LiveStates
      BY DEF LiveStates, CtxStates
    <3> QED BY <1>1, <1>3, <3>1, Counting
  <2>2. \A e \in End : refCount[e] =
           (Cardinality(Live(e)) + (IF e = Slave THEN Cardinality(idle) ELSE 0)) + owed[e]
    BY FwdMeaning DEF IInv
  <2>3. \A e \in End : owed[e] = 0 /\ owed'[e] = 0
    BY <1>1 DEF FwdInv
  <2>4. ASSUME NEW e \in End
        PROVE  refCount'[e] =
           (Cardinality(Live(e)') + (IF e = Slave' THEN Cardinality(idle') ELSE 0)) + owed'[e]
    <3>1. CASE e = origin
      BY <3>1, <2>1, <2>2, <2>3, <1>8, <1>o
    <3>2. CASE e # origin
      <4>1. Live(e)' = Live(e) /\ refCount'[e] = refCount[e] /\ idle' = idle /\ owed'[e] = owed[e]
        BY <3>2, <2>1, <1>8
      <4> QED BY <4>1, <2>2, <1>o
    <3> QED BY <3>1, <3>2
  <2>5. IsForward'
    BY DEF IsForward
  <2> QED BY <2>4, <2>5, FwdMeaningPrime
<1> QED BY <1>7, <1>8, <1>9, FwdDone

\* A context of the slave, with its idle callback or without.
LEMMA SlaveMade ==
    ASSUME IInv, IsForward, NEW k \in Number, NEW st \in LiveStates, NEW n \in Int,
           ctx[Slave][k] = "none", ctx[origin][k] # "none",
           SetCtx(Slave, k, st), mapCtx' = [mapCtx EXCEPT ![Slave][id[k]] = k],
           refCount' = [refCount EXCEPT ![Slave] = @ + n],
           \/ idle' = idle /\ n = 1
           \/ k \in Conn /\ idle' = idle \cup {k} /\ n = 2,
           UNCHANGED <<kind, origin, owed, id, task>>, task[Slave] # "gone",
           Quiet(FwdSays), ~In(net'[Slave], Opens(k))
    PROVE  IInv'
<1>1. FwdInv /\ FwdTypes /\ OpenInv /\ MapInv /\ BaseTypes /\ GoneInv /\ origin \in End
  BY DEF IInv, FwdInv, BaseTypes
<1>o. Slave \in End /\ Slave # origin /\ Slave' = Slave /\ \A d \in End : d = origin \/ d = Slave
  BY <1>1, Ends2 DEF Slave
<1>n. 0 \in Number /\ Conn \subseteq Number /\ Conn = Number \ {0}
  BY ForwardAssumption DEF Number, Conn
<1>2. id' = [id EXCEPT ![k] = id[k]] /\ id[k] \in Number /\ (k = 0 <=> id[k] = 0)
  BY <1>1, <1>n DEF FwdTypes, MapInv
<1>4. /\ ctx' \in [End -> [Number -> CtxStates]]
      /\ mapCtx' \in [End -> [Number -> Number \cup {-1}]]
      /\ id' \in [Number -> Number] /\ MapInv'
      /\ ctx'[Slave][k] = st
      /\ \A d \in End, j \in Number : d # Slave \/ j # k => ctx'[d][j] = ctx[d][j]
  <2> DEFINE i == id[k]
  <2>1. i \in Number /\ (k = 0 <=> i = 0) /\ id' = [id EXCEPT ![k] = i]
        /\ mapCtx' = [mapCtx EXCEPT ![Slave][i] = k] /\ (i = id[k] \/ \A d \in End : ctx[d][k] = "none")
    BY <1>2
  <2> HIDE DEF i
  <2>2. Made(Slave, k, st)
    BY <2>1, <1>1, <1>o, MapMade
  <2> QED BY <2>2 DEF Made
<1>5. FwdTypes'
  BY <1>1, <1>4 DEF FwdTypes, Quiet
<1>k. k \notin idle
  BY <1>1 DEF OpenInv
<1>6. OpenInv'
  <2>0. st # "none"
    BY DEF LiveStates
  <2>1. ASSUME NEW d \in End, In(net'[d], First)
        PROVE  d = origin /\ Single(net'[d], First) /\ ctx'[origin][0] = "none"
    <3>1. In(net[d], First) /\ First \notin Plain
      BY <2>1, Tokens DEF Quiet
    <3>2. d = origin /\ Single(net[d], First) /\ ctx[origin][0] = "none"
      BY <3>1, <1>1 DEF OpenInv
    <3> QED BY <2>1, <3>1, <3>2, <1>4, <1>n, <1>o DEF Quiet
  <2>2. ASSUME NEW d \in End, NEW j \in Number, In(net'[d], Opens(j))
        PROVE  /\ d = Slave /\ Single(net'[d], Opens(j))
               /\ ctx'[Slave][j] = "none" /\ ctx'[origin][j] # "none"
    <3>1. Opens(j) \notin Plain /\ In(net[d], Opens(j))
      BY <2>2, Tokens DEF Quiet
    <3>2. /\ d = Slave /\ Single(net[d], Opens(j))
          /\ ctx[Slave][j] = "none" /\ ctx[origin][j] # "none"
      BY <3>1, <1>1 DEF OpenInv
    <3>3. j # k
      BY <2>2, <3>2
    <3> QED BY <3>1, <3>2, <3>3, <1>4, <1>o, <1>1 DEF Quiet
  <2>3. \A j \in Number : ctx'[origin][j] = "none" => ctx'[Slave][j] = "none"
    <3>1. \A j \in Number : ctx[origin][j] = "none" => ctx[Slave][j] = "none"
      BY <1>1 DEF OpenInv
    <3> QED BY <3>1, <1>4, <1>o, <1>1
  <2>4. \A j \in idle' : ctx'[Slave][j] # "none"
    <3>1. \A j \in idle : j \in Number /\ ctx[Slave][j] # "none"
      BY <1>1, <1>n DEF OpenInv, FwdTypes
    <3> QED BY <3>1, <1>4, <1>o, <2>0
  <2> QED BY <2>1, <2>2, <2>3, <2>4, <1>o DEF OpenInv, First, Opens
<1>7. FwdInv'
  BY <1>1, <1>4, <1>5, <1>6 DEF FwdInv
<1>8. /\ GoneStep /\ refCount' \in [End -> Int] /\ refCount'[Slave] = refCount[Slave] + n
      /\ \A b \in End \ {Slave} : refCount'[b] = refCount[b]
  BY <1>1, <1>o, TaskCounts
<1>9. RefCounted'
  <2>1. /\ Cardinality(Live(Slave))' = Cardinality(Live(Slave)) + 1
        /\ Cardinality(Live(Slave)) \in Nat
        /\ \A d \in End \ {Slave} : Live(d)' = Live(d)
    <3>1. st \in CtxStates /\ ctx[Slave][k] \notin LiveStates
      BY DEF LiveStates, CtxStates
    <3> QED BY <1>1, <1>o, <3>1, Counting
  <2>2. \A e \in End : refCount[e] =
           (Cardinality(Live(e)) + (IF e = Slave THEN Cardinality(idle) ELSE 0)) + owed[e]
    BY FwdMeaning DEF IInv
  <2>3. \A e \in End : owed[e] = 0 /\ owed'[e] = 0
    BY <1>1 DEF FwdInv
  <2>c. Cardinality(idle) \in Nat /\ Cardinality(idle') = Cardinality(idle) + (n - 1)
    <3>1. IsFiniteSet(idle) /\ Cardinality(idle) \in Nat
      BY <1>1, IdleCount
    <3>2. Cardinality(idle \cup {k}) = Cardinality(idle) + 1
      BY <3>1, <1>k, FS_AddElement
    <3> DEFINE c == Cardinality(idle)
               d == Cardinality(idle')
    <3>3. c \in Nat /\ (idle' = idle /\ n = 1 => d = c) /\ (idle' = idle \cup {k} => d = c + 1)
      BY <3>1, <3>2
    <3> HIDE DEF c, d
    <3>4. c \in Nat /\ d = c + (n - 1)
      BY <3>3
    <3> QED BY <3>4 DEF c, d
  <2>4. ASSUME NEW e \in End
        PROVE  refCount'[e] =
           (Cardinality(Live(e)') + (IF e = Slave' THEN Cardinality(idle') ELSE 0)) + owed'[e]
    <3>1. CASE e = Slave
      <4>1. refCount[Slave] = Cardinality(Live(Slave)) + Cardinality(idle)
        BY <2>1, <2>2, <2>3, <2>c, <1>o
      <4>2. refCount'[Slave] = (Cardinality(Live(Slave)) + 1) + (Cardinality(idle) + (n - 1)) + 0
        BY <4>1, <1>8, <2>1, <2>c
      <4> QED BY <3>1, <4>2, <2>1, <2>3, <2>c, <1>o
    <3>2. CASE e # Slave
      <4>1. Live(e)' = Live(e) /\ refCount'[e] = refCount[e] /\ owed'[e] = owed[e]
        BY <3>2, <2>1, <1>8
      <4> QED BY <3>2, <4>1, <2>2, <1>o
    <3> QED BY <3>1, <3>2
  <2>5. IsForward'
    BY DEF IsForward
  <2> QED BY <2>4, <2>5, FwdMeaningPrime
<1> QED BY <1>7, <1>8, <1>9, FwdDone

\* CMD_FORWARD_INIT makes the master's listener.
LEMMA BeginForwardStep ==
    ASSUME IInv, IsForward, NEW e \in End, BeginForward(e)
    PROVE  IInv'
<1>1. FwdInv /\ FwdTypes /\ OpenInv /\ BaseTypes /\ Holds(FwdSays)
  BY FwdHolds DEF IInv, FwdInv
<1>n. 0 \in Number
  BY ForwardAssumption DEF Number
<1>2. net[e] # <<>> /\ net[e] \in Seq(FwdSays) /\ Head(net[e]).cmd = "FWD_INIT"
  BY <1>1 DEF BeginForward, Creates, FwdTypes
<1>3. Head(net[e]) = First
  <2>1. Head(net[e]) \in FwdSays
    BY <1>2
  <2>2. Head(net[e]) \in [cmd : Cmds, n : Int] /\ Head(net[e]).n = 0
    BY <2>1, <1>2 DEF FwdSays
  <2> QED BY <2>2, <1>2 DEF First, Msg
<1>4. In(net[e], First)
  BY <1>2, <1>3, Taken
<1>5. e = origin /\ Single(net[e], First) /\ ctx[origin][0] = "none"
  BY <1>1, <1>4 DEF OpenInv
<1>o. Slave \in End /\ Slave = Other(e) /\ \A d \in End : d # e => d = Slave
  BY <1>5, Ends2 DEF Slave
<1>6. PICK st \in LiveStates, lvs \in SUBSET {"fail"}, out \in Seq(FwdSays) :
         /\ MallocContext(e, 0, 0, st) /\ Answer(e, lvs, out)
         /\ \A m : In(out, m) => m \in Plain \/ m = Opens(0)
         /\ Single(out, Opens(0))
  <2>1. ASSUME MallocContext(e, 0, 0, "listen"), Answer(e, {}, <<Wakeup, Msg("FWD_CHECK", 0)>>)
        PROVE  \E st \in LiveStates, lvs \in SUBSET {"fail"}, out \in Seq(FwdSays) :
                 /\ MallocContext(e, 0, 0, st) /\ Answer(e, lvs, out)
                 /\ \A m : In(out, m) => m \in Plain \/ m = Opens(0)
                 /\ Single(out, Opens(0))
    <3>1. Msg("FWD_CHECK", 0) = Opens(0) /\ Wakeup \in Plain
      BY PlainOnes DEF Opens, Wakeup
    <3>2. Opens(0) \in FwdSays /\ Opens(0) \notin Plain /\ Wakeup \in FwdSays
      BY <3>1, <1>n, Tokens, PlainOnes
    <3> DEFINE out == <<Wakeup, Opens(0)>>
    <3>3. out \in Seq(FwdSays)
      BY <3>2
    <3>4. (\A m : In(out, m) => m \in Plain \/ m = Opens(0)) /\ Single(out, Opens(0))
      BY <3>1, <3>2, Few
    <3>5. Answer(e, {}, out) /\ "listen" \in LiveStates
      BY <2>1, <3>1 DEF LiveStates
    <3> HIDE DEF out
    <3> QED BY <2>1, <3>3, <3>4, <3>5
  <2>2. ASSUME MallocContext(e, 0, 0, "init"), Answer(e, {"fail"}, <<Wakeup>> \o Fails(e))
        PROVE  \E st \in LiveStates, lvs \in SUBSET {"fail"}, out \in Seq(FwdSays) :
                 /\ MallocContext(e, 0, 0, st) /\ Answer(e, lvs, out)
                 /\ \A m : In(out, m) => m \in Plain \/ m = Opens(0)
                 /\ Single(out, Opens(0))
    <3> DEFINE out == <<Wakeup>> \o Fails(e)
    <3>1. out \in Seq(Plain)
      BY PlainSends
    <3>5. Answer(e, {"fail"}, out) /\ "init" \in LiveStates
      BY <2>2 DEF LiveStates
    <3> HIDE DEF out
    <3>2. out \in Seq(FwdSays)
      BY <3>1, PlainOnes, SeqDef
    <3>3. \A m : In(out, m) => m \in Plain
      BY <3>1 DEF In
    <3>4. Single(out, Opens(0))
      BY <3>3, <1>n, Tokens DEF Single, In
    <3> QED BY <2>2, <3>2, <3>3, <3>4, <3>5
  <2> QED BY <2>1, <2>2 DEF BeginForward
<1>7. /\ net' \in [End -> Seq(FwdSays)]
      /\ \A d \in End : \A m : In(net'[d], m) => In(net[d], m) \/ (d # e /\ In(out, m))
      /\ \A d \in End : \A m : Single(net[d], m) /\ ~(d # e /\ In(out, m)) => Single(net'[d], m)
      /\ \A m : Single(out, m) /\ ~In(net[Slave], m) => Single(net'[Slave], m)
  <2>1. PICK rest : rest = Tail(net[e]) /\ Sends(e, rest, lvs, out)
    BY <1>6 DEF Answer
  <2>2. net \in [End -> Seq(FwdSays)] /\ out \in Seq(FwdSays)
    BY <1>1 DEF FwdTypes
  <2>3. net[e] # <<>> /\ rest = Tail(net[e])
    BY <2>1, <1>2
  <2>4. /\ net' \in [End -> Seq(FwdSays)]
        /\ \A d \in End : \A m : In(net'[d], m) => In(net[d], m) \/ (d # e /\ In(out, m))
        /\ \A d \in End : \A m : Single(net[d], m) /\ ~(d # e /\ In(out, m))
                                => Single(net'[d], m)
        /\ \A m : Single(out, m) /\ ~In(net[Other(e)], m) => Single(net'[Other(e)], m)
    BY <2>1, <2>2, <2>3, Passed
  <2> QED BY <2>4, <1>o
<1>8. ~In(net'[e], First)
  BY <1>1, <1>2, <1>3, <1>5, <1>6, Handled DEF FwdTypes
<1>9. AddTask(e) /\ UNCHANGED <<kind, origin, owed, idle>> /\ id' = [id EXCEPT ![0] = 0]
  BY <1>1 DEF BeginForward, FwdInv, FwdTypes, MapInv
<1>10. \A d \in End : \A m : In(net'[d], m) => In(net[d], m) \/ m \in Plain \/ (d = Slave /\ m = Opens(0))
  BY <1>6, <1>7, <1>o
<1>11. \A d \in End : \A m : Single(net[d], m) /\ m \notin Plain \cup {Opens(0)} => Single(net'[d], m)
  BY <1>6, <1>7
<1>12. ~In(net[Slave], Opens(0)) => Single(net'[Slave], Opens(0))
  BY <1>6, <1>7
<1> QED BY <1>n, <1>5, <1>6, <1>7, <1>8, <1>9, <1>10, <1>11, <1>12, MasterMade

\* A connection makes a context of the master.
LEMMA AcceptStep ==
    ASSUME IInv, IsForward, NEW e \in End, NEW k \in Conn, Accept(e, k)
    PROVE  IInv'
<1>1. FwdInv /\ FwdTypes /\ OpenInv /\ MapInv /\ BaseTypes /\ Holds(FwdSays)
  BY FwdHolds DEF IInv, FwdInv
<1>n. k \in Number /\ k # 0 /\ Conn \subseteq Number /\ 0 \notin Conn
  BY ForwardAssumption DEF Number, Conn
<1>2. e = origin /\ ctx[e][k] = "none" /\ UNCHANGED <<kind, origin, owed, idle, task>>
      /\ task[e] # "gone"
  BY DEF Accept, LoopRuns
<1>o. Slave \in End /\ Slave = Other(e) /\ \A d \in End : d # e => d = Slave
  BY <1>2, Ends2 DEF Slave
<1>3. PICK i \in NewId(k) :
         /\ id' = [id EXCEPT ![k] = i]
         /\ \/ /\ MallocContext(e, k, i, "init")
               /\ Emit(e, {}, <<Msg("ACTIVE_SLAVE", k)>>)
            \/ /\ MallocContext(e, k, i, "closing")
               /\ UNCHANGED <<net, told>>
  BY DEF Accept
<1>4. i \in Number /\ (k = 0 <=> i = 0)
  <2>1. SameMs /\ k > 1 => k - 1 \in Conn /\ id[k - 1] \in Conn
    <3>1. k > 1 => k - 1 \in Conn
      BY ForwardAssumption DEF Conn
    <3> QED BY <3>1, <1>1 DEF MapInv
  <2>2. i = k \/ (SameMs /\ k > 1 /\ i = id[k - 1])
    BY DEF NewId
  <2> QED BY <2>1, <2>2, <1>n
<1>5. /\ net' \in [End -> Seq(FwdSays)]
      /\ \A d \in End : \A m : In(net'[d], m) => In(net[d], m) \/ (d = Slave /\ m = Opens(k))
      /\ \A d \in End : \A m : Single(net[d], m) /\ m # Opens(k) => Single(net'[d], m)
      /\ ~In(net[Slave], Opens(k)) => Single(net'[Slave], Opens(k))
  <2>1. CASE Emit(e, {}, <<Msg("ACTIVE_SLAVE", k)>>)
    <3>1. Msg("ACTIVE_SLAVE", k) = Opens(k)
      BY <1>n DEF Opens
    <3> DEFINE out == <<Opens(k)>>
    <3>2. out \in Seq(FwdSays)
      BY <1>n, Tokens
    <3>3. \A m : (In(out, m) <=> m = Opens(k)) /\ Single(out, m)
      BY Few
    <3> HIDE DEF out
    <3>4. PICK rest : rest = net[e] /\ Sends(e, rest, {}, out)
      BY <2>1, <3>1 DEF Emit, out
    <3>5. /\ net' \in [End -> Seq(FwdSays)]
          /\ \A d \in End : \A m : In(net'[d], m) => In(net[d], m) \/ (d # e /\ In(out, m))
          /\ \A d \in End : \A m : Single(net[d], m) /\ ~(d # e /\ In(out, m)) => Single(net'[d], m)
          /\ \A m : Single(out, m) /\ ~In(net[Slave], m) => Single(net'[Slave], m)
      BY <3>2, <3>4, <1>1, <1>o, Passed DEF FwdTypes
    <3> QED BY <3>3, <3>5, <1>o
  <2>2. CASE UNCHANGED net
    <3>1. ~In(net[Slave], Opens(k)) => Single(net[Slave], Opens(k))
      BY DEF In, Single
    <3> QED BY <2>2, <3>1, <1>1 DEF FwdTypes
  <2> QED BY <1>3, <2>1, <2>2
<1>6. PICK st \in LiveStates : MallocContext(e, k, i, st)
  <2>1. "init" \in LiveStates /\ "closing" \in LiveStates
    BY DEF LiveStates
  <2> QED BY <2>1, <1>3
<1> QED BY <1>n, <1>2, <1>3, <1>4, <1>5, <1>6, MasterMade

\* The message that makes a context of the slave.
LEMMA Opened ==
    ASSUME FwdInv, NEW k \in Number, NEW e \in End, net[e] # <<>>, Head(net[e]) = Opens(k),
           NEW lvs, NEW out \in Seq(Plain), Answer(e, lvs, out)
    PROVE  /\ e = Slave /\ ctx[Slave][k] = "none" /\ ctx[origin][k] # "none"
           /\ Quiet(FwdSays) /\ ~In(net'[Slave], Opens(k))
<1>1. OpenInv /\ net \in [End -> Seq(FwdSays)] /\ Holds(FwdSays)
  <2>1. FwdSays \subseteq [cmd : Cmds, n : Int]
    BY DEF FwdSays
  <2> QED BY <2>1, PlainOnes DEF FwdInv, FwdTypes, Holds
<1>2. In(net[e], Opens(k))
  BY <1>1, Taken
<1>3. /\ e = Slave /\ Single(net[e], Opens(k))
      /\ ctx[Slave][k] = "none" /\ ctx[origin][k] # "none"
  BY <1>1, <1>2 DEF OpenInv
<1>4. Quiet(FwdSays)
  BY <1>1, QuietSend
<1>5. out \in Seq(FwdSays)
  BY PlainOnes, SeqDef
<1>6. ~In(net'[e], Opens(k))
  BY <1>1, <1>3, <1>5, Handled
<1> QED BY <1>3, <1>4, <1>6

\* CMD_FORWARD_CHECK and CMD_FORWARD_ACTIVE_SLAVE make one.
LEMMA SlaveStep ==
    ASSUME IInv, IsForward, NEW e \in End, SlaveCheck(e) \/ SlaveConnect(e)
    PROVE  IInv'
<1>1. FwdInv /\ FwdTypes /\ MapInv
  BY DEF IInv, FwdInv
<1>n. 0 \in Number /\ Conn \subseteq Number /\ 0 \notin Conn /\ 1 \in Int /\ 2 \in Int
      /\ {"init", "ready", "closing"} \subseteq LiveStates
  BY ForwardAssumption DEF Number, Conn, LiveStates
<1>h. net[e] # <<>> /\ Head(net[e]) \in FwdSays /\ task[e] = "run"
  BY <1>1 DEF SlaveCheck, SlaveConnect, Gets, FwdTypes
<1>u. UNCHANGED <<kind, origin, owed, id, task>>
  BY DEF SlaveCheck, SlaveConnect
<1>2. CASE SlaveCheck(e)
  <2>1. Head(net[e]) = Opens(0)
    BY <1>2, <1>h DEF SlaveCheck, Gets, FwdSays, Opens, Msg
  <2> DEFINE out == <<Msg("CHECK_RESULT", 0)>>
  <2>2. out \in Seq(Plain) /\ Answer(e, {}, out)
    BY <1>2, <1>1, FwdPlain DEF SlaveCheck
  <2> HIDE DEF out
  <2>3. /\ e = Slave /\ ctx[Slave][0] = "none" /\ ctx[origin][0] # "none"
        /\ Quiet(FwdSays) /\ ~In(net'[Slave], Opens(0))
    BY <2>1, <2>2, <1>1, <1>h, <1>n, Opened
  <2>4. id[0] = 0
    BY <1>1 DEF MapInv
  <2>5. SetCtx(e, 0, "closing") /\ mapCtx' = [mapCtx EXCEPT ![e][id[0]] = 0]
        /\ refCount' = [refCount EXCEPT ![e] = @ + 1] /\ idle' = idle
    BY <1>2, <2>4 DEF SlaveCheck, MallocContext
  <2> QED BY <2>3, <2>5, <1>n, <1>h, <1>u, SlaveMade
<1>3. CASE SlaveConnect(e)
  <2> DEFINE k == Arg(e)
  <2>1. k \in Conn /\ Head(net[e]) = Opens(k)
    <3>1. k \in Conn /\ Head(net[e]) \in [cmd : Cmds, n : Int] /\ Head(net[e]).cmd = "ACTIVE_SLAVE"
      BY <1>3, <1>h DEF SlaveConnect, Gets, FwdSays, Arg
    <3> QED BY <3>1, <1>n DEF Opens, Msg, Arg
  <2>2. SetupPoint(e, k)
    BY <1>3 DEF SlaveConnect
  <2> HIDE DEF k
  <2>p. \A x : /\ ActiveMaster(k) \in Seq(Plain) /\ <<>> \in Seq(Plain)
               /\ FreeMsg(k) \o Fails(e) \in Seq(Plain)
    BY <2>1, <1>1, <1>n, FwdPlain, PlainSends
  <2>3. PICK lvs \in SUBSET {"fail"}, out \in Seq(Plain), st \in LiveStates, c \in Int :
           /\ Answer(e, lvs, out)
           /\ SetCtx(e, k, st) /\ mapCtx' = [mapCtx EXCEPT ![e][id[k]] = k]
           /\ refCount' = [refCount EXCEPT ![e] = @ + c]
           /\ \/ idle' = idle /\ c = 1
              \/ idle' = idle \cup {k} /\ c = 2
    <3> DEFINE P == \E lvs \in SUBSET {"fail"}, out \in Seq(Plain), st \in LiveStates, c \in Int :
           /\ Answer(e, lvs, out)
           /\ SetCtx(e, k, st) /\ mapCtx' = [mapCtx EXCEPT ![e][id[k]] = k]
           /\ refCount' = [refCount EXCEPT ![e] = @ + c]
           /\ \/ idle' = idle /\ c = 1
              \/ idle' = idle \cup {k} /\ c = 2
    <3>1. ASSUME NEW st \in LiveStates, NEW lvs \in SUBSET {"fail"}, NEW out \in Seq(Plain),
                 MallocContext(e, k, id[k], st), Answer(e, lvs, out), UNCHANGED idle
          PROVE  P
      <4>1. SetCtx(e, k, st) /\ mapCtx' = [mapCtx EXCEPT ![e][id[k]] = k]
            /\ refCount' = [refCount EXCEPT ![e] = @ + 1]
        BY <3>1 DEF MallocContext
      <4> QED BY <3>1, <4>1, <1>n
    <3>2. ASSUME SetCtx(e, k, "init"), mapCtx' = [mapCtx EXCEPT ![e][id[k]] = k],
                 refCount' = [refCount EXCEPT ![e] = @ + 2], idle' = idle \cup {k},
                 Answer(e, {}, <<>>)
          PROVE  P
      BY <3>2, <2>p, <1>n
    <3> HIDE DEF P
    <3>3. P
      BY <2>2, <2>p, <3>1, <3>2, <1>n DEF SetupPoint
    <3> QED BY <3>3 DEF P
  <2>4. /\ e = Slave /\ ctx[Slave][k] = "none" /\ ctx[origin][k] # "none"
        /\ Quiet(FwdSays) /\ ~In(net'[Slave], Opens(k))
    BY <2>1, <2>3, <1>1, <1>h, <1>n, Opened
  <2> QED BY <2>1, <2>3, <2>4, <1>n, <1>h, <1>u, SlaveMade
<1> QED BY <1>2, <1>3

\* SetupJdwpPointCallBack gives its own reference back.
LEMMA SetupJdwpStep ==
    ASSUME IInv, IsForward, NEW e \in End, NEW k \in Number, SetupJdwpPointCallBack(e, k)
    PROVE  IInv'
<1>1. FwdInv /\ FwdTypes /\ OpenInv /\ BaseTypes /\ GoneInv /\ Holds(FwdSays) /\ origin \in End
  BY FwdHolds DEF IInv, FwdInv, BaseTypes
<1>2. /\ k \in idle /\ e = Slave /\ task[e] # "gone" /\ idle' = idle \ {k}
      /\ refCount' = [refCount EXCEPT ![e] = @ + (-1)]
      /\ UNCHANGED <<kind, origin, id, owed, mapCtx, task>>
  BY <1>1 DEF SetupJdwpPointCallBack, LoopRuns, BaseTypes
<1>3. Quiet(FwdSays)
  <2>1. ActiveMaster(k) \in Seq(Plain)
    BY <1>1, FwdPlain
  <2>2. CASE Emit(e, {}, ActiveMaster(k))
    BY <1>1, <2>1, <2>2, QuietSend
  <2>3. CASE UNCHANGED net
    BY <1>1, <2>3, QuietLoss
  <2> QED BY <2>2, <2>3 DEF SetupJdwpPointCallBack
<1>4. CtxMoves
  <2>1. PICK st : SetCtx(e, k, st) /\ st = (IF Finished(e, k) THEN ctx[e][k]
                    ELSE IF session = "up" THEN "ready" ELSE "closing")
    BY DEF SetupJdwpPointCallBack
  <2>2. ctx[e][k] \in CtxStates /\ ctx[e][k] # "none"
    BY <1>1, <1>2 DEF FwdTypes, OpenInv
  <2>3. st = ctx[e][k] \/ (ctx[e][k] \in LiveStates /\ st \in LiveStates)
    BY <2>1, <2>2 DEF Finished, CtxStates, LiveStates
  <2>4. st \in CtxStates
    BY <2>2, <2>3 DEF CtxStates, LiveStates
  <2>5. /\ ctx' \in [End -> [Number -> CtxStates]] /\ ctx'[e][k] = st
        /\ \A d \in End, j \in Number : d # e \/ j # k => ctx'[d][j] = ctx[d][j]
    <3>1. ctx \in [End -> [Number -> CtxStates]]
      BY <1>1 DEF FwdTypes
    <3> QED BY <2>1, <2>4, <3>1 DEF SetCtx
  <2> QED BY <2>3, <2>5 DEF CtxMoves
<1>5. FwdInv' /\ \A d \in End : Live(d)' = Live(d)
  <2>1. idle' \subseteq idle
    BY <1>2
  <2> QED BY <2>1, <1>1, <1>2, <1>3, <1>4, FwdKept
<1>6. /\ GoneStep /\ refCount' \in [End -> Int] /\ refCount'[e] = refCount[e] + (-1)
      /\ \A b \in End \ {e} : refCount'[b] = refCount[b]
  <2>1. -1 \in Int
    OBVIOUS
  <2> QED BY <2>1, <1>1, <1>2, TaskCounts
<1>7. RefCounted'
  <2>c. Cardinality(idle) \in Nat /\ Cardinality(idle') = Cardinality(idle) - 1
    BY <1>1, <1>2, IdleCount, FS_RemoveElement
  <2>2. \A d \in End : refCount[d] =
           (Cardinality(Live(d)) + (IF d = Slave THEN Cardinality(idle) ELSE 0)) + owed[d]
    BY FwdMeaning DEF IInv
  <2>3. \A d \in End : owed[d] = 0 /\ owed'[d] = 0 /\ Cardinality(Live(d)) \in Nat
    <3>1. IsFiniteSet(Number)
      BY FS_Interval, ForwardAssumption DEF Number
    <3>2. \A d \in End : Cardinality(Live(d)) \in Nat
      BY <3>1, FS_Subset, FS_CardinalityType DEF Live
    <3> QED BY <3>2, <1>1, <1>2 DEF FwdInv
  <2>o. Slave' = Slave
    BY <1>2 DEF Slave
  <2>4. ASSUME NEW d \in End
        PROVE  refCount'[d] =
           (Cardinality(Live(d)') + (IF d = Slave' THEN Cardinality(idle') ELSE 0)) + owed'[d]
    <3>0. Live(d)' = Live(d)
      BY <1>5
    <3>1. CASE d = e
      <4>1. refCount[d] = Cardinality(Live(d)) + Cardinality(idle)
        BY <3>1, <2>2, <2>3, <2>c, <1>2
      <4>2. refCount'[d] = (Cardinality(Live(d)) + (Cardinality(idle) - 1)) + 0
        BY <3>1, <4>1, <1>6, <2>3, <2>c
      <4> QED BY <3>0, <3>1, <4>2, <2>3, <2>c, <2>o, <1>2
    <3>2. CASE d # e
      BY <3>0, <3>2, <2>2, <2>3, <2>o, <1>2, <1>6
    <3> QED BY <3>1, <3>2
  <2>5. IsForward'
    BY <1>2 DEF IsForward
  <2> QED BY <2>4, <2>5, FwdMeaningPrime
<1> QED BY <1>2, <1>5, <1>6, <1>7, FwdDone

\* FreeContextCallBack deletes a context.
LEMMA FreeContextStep ==
    ASSUME IInv, IsForward, NEW e \in End, NEW k \in Number, FreeContextCallBack(e, k)
    PROVE  IInv'
<1>1. FwdInv /\ FwdTypes /\ OpenInv /\ MapInv /\ BaseTypes /\ GoneInv /\ Holds(FwdSays)
      /\ origin \in End
  BY FwdHolds DEF IInv, FwdInv, BaseTypes
<1>2. /\ ctx[e][k] = "closing" /\ task[e] # "gone" /\ SetCtx(e, k, "freed")
      /\ mapCtx' = [mapCtx EXCEPT ![e][id[k]] = -1]
      /\ refCount' = [refCount EXCEPT ![e] = @ + (-1)]
      /\ UNCHANGED <<kind, origin, id, owed, task, net, idle>>
  BY <1>1 DEF FreeContextCallBack, LoopRuns, BaseTypes
<1>3. /\ ctx' \in [End -> [Number -> CtxStates]] /\ ctx'[e][k] = "freed"
      /\ \A d \in End, j \in Number : d # e \/ j # k => ctx'[d][j] = ctx[d][j]
  <2>1. ctx \in [End -> [Number -> CtxStates]] /\ "freed" \in CtxStates
    BY <1>1 DEF FwdTypes, CtxStates
  <2> QED BY <2>1, <1>2 DEF SetCtx
<1>4. /\ mapCtx' \in [End -> [Number -> Number \cup {-1}]] /\ mapCtx'[e][id[k]] = -1
      /\ \A d \in End, j \in Number : d # e \/ j # id[k] => mapCtx'[d][j] = mapCtx[d][j]
  <2>1. mapCtx \in [End -> [Number -> Number \cup {-1}]] /\ id[k] \in Number
    BY <1>1 DEF FwdTypes
  <2> QED BY <2>1, <1>2
<1>5. FwdTypes'
  BY <1>1, <1>2, <1>3, <1>4 DEF FwdTypes
<1>6. \A d \in End, j \in Number : ctx'[d][j] = "none" <=> ctx[d][j] = "none"
  BY <1>2, <1>3
<1>o. Slave \in End /\ Slave' = Slave /\ 0 \in Number /\ idle \subseteq Number
  <2>1. Slave \in End /\ Slave' = Slave
    BY <1>1, <1>2, Ends2 DEF Slave
  <2>2. 0 \in Number /\ Conn \subseteq Number
    BY ForwardAssumption DEF Number, Conn
  <2>3. idle \subseteq Conn
    BY <1>1 DEF FwdTypes
  <2> QED BY <2>1, <2>2, <2>3
<1>7. OpenInv'
  <2>1. \A d \in End : In(net'[d], First) =>
            d = origin /\ Single(net'[d], First) /\ ctx'[origin][0] = "none"
    BY <1>1, <1>2, <1>6, <1>o DEF OpenInv
  <2>2. \A d \in End, j \in Number : In(net'[d], Opens(j)) =>
            /\ d = Slave /\ Single(net'[d], Opens(j))
            /\ ctx'[Slave][j] = "none" /\ ctx'[origin][j] # "none"
    BY <1>1, <1>2, <1>6, <1>o DEF OpenInv
  <2>3. \A j \in Number : ctx'[origin][j] = "none" => ctx'[Slave][j] = "none"
    BY <1>1, <1>6, <1>o DEF OpenInv
  <2>4. \A j \in idle' : ctx'[Slave][j] # "none"
    BY <1>1, <1>2, <1>6, <1>o DEF OpenInv
  <2> QED BY <2>1, <2>2, <2>3, <2>4, <1>2, <1>o DEF OpenInv, First, Opens
<1>8. MapInv'
  <2>1. ASSUME NEW d \in End, NEW j \in Number, mapCtx'[d][j] # -1
        PROVE  id'[mapCtx'[d][j]] = j /\ ctx'[d][mapCtx'[d][j]] \notin {"none", "freed"}
    <3> DEFINE m == mapCtx[d][j]
    <3> HIDE DEF m
    <3>1. mapCtx'[d][j] = m /\ m \in Number /\ m # -1 /\ (d # e \/ j # id[k])
      BY <2>1, <1>1, <1>4 DEF m, FwdTypes
    <3>2. id[m] = j /\ ctx[d][m] \notin {"none", "freed"}
      BY <3>1, <1>1 DEF m, MapInv
    <3>3. ctx'[d][m] = ctx[d][m]
      BY <3>1, <3>2, <1>3
    <3> QED BY <3>1, <3>2, <3>3, <1>2
  <2> QED BY <2>1, <1>1, <1>2 DEF MapInv
<1>9. FwdInv'
  BY <1>1, <1>2, <1>5, <1>7, <1>8 DEF FwdInv
<1>10. /\ GoneStep /\ refCount' \in [End -> Int] /\ refCount'[e] = refCount[e] + (-1)
       /\ \A b \in End \ {e} : refCount'[b] = refCount[b]
  <2>1. -1 \in Int
    OBVIOUS
  <2> QED BY <2>1, <1>1, <1>2, TaskCounts
<1>11. RefCounted'
  <2>1. /\ Cardinality(Live(e)) \in Nat
        /\ Cardinality(Live(e))' = Cardinality(Live(e)) - 1
        /\ \A d \in End \ {e} : Live(d)' = Live(d)
    <3>1. "freed" \in CtxStates /\ "freed" \notin LiveStates /\ ctx[e][k] \in LiveStates
      BY <1>2 DEF CtxStates, LiveStates
    <3> QED BY <3>1, <1>1, <1>2, Counting
  <2>2. \A d \in End : refCount[d] =
           (Cardinality(Live(d)) + (IF d = Slave THEN Cardinality(idle) ELSE 0)) + owed[d]
    BY FwdMeaning DEF IInv
  <2>3. \A d \in End : owed[d] = 0 /\ owed'[d] = 0
    BY <1>1, <1>2 DEF FwdInv
  <2>c. Cardinality(idle) \in Nat /\ idle' = idle
    BY <1>1, <1>2, IdleCount
  <2>4. ASSUME NEW d \in End
        PROVE  refCount'[d] =
           (Cardinality(Live(d)') + (IF d = Slave' THEN Cardinality(idle') ELSE 0)) + owed'[d]
    <3>1. CASE d = e
      BY <3>1, <2>1, <2>2, <2>3, <2>c, <1>10, <1>o
    <3>2. CASE d # e
      BY <3>2, <2>1, <2>2, <2>3, <2>c, <1>10, <1>o
    <3> QED BY <3>1, <3>2
  <2>5. IsForward'
    BY <1>2 DEF IsForward
  <2> QED BY <2>4, <2>5, FwdMeaningPrime
<1> QED BY <1>2, <1>9, <1>10, <1>11, FwdDone

-----------------------------------------------------------------------------
(* The steps of HdcTask, with the StopTask of each class.                  *)

CommonStep ==
    \/ \E e \in End : \/ FetchClose(e) /\ StopTask(e)
                      \/ (Wake(e) \/ Ignored(e, Taskless)) /\ ClassVarsKept
                      \/ Clear(e) \/ Release(e)
    \/ (FetchEcho \/ FetchUnserved) /\ ClassVarsKept
    \/ Deatch \/ Free \/ Busy \/ Ends

\* They stop a task that runs, delete one that is ready, or leave the class alone.
Stopping(e) == task[e] = "run" /\ task' = [task EXCEPT ![e] = "stop"] /\ StopTask(e)
Keeping ==
    /\ ClassVarsKept /\ UNCHANGED refCount
    /\ \A e \in End : task'[e] = "gone" => task[e] = "gone" \/ Ready(e)

\* What a task is after a step that all classes share.
LEMMA CommonMoves ==
    ASSUME BaseTypes, CommonStep
    PROVE  /\ Common /\ UNCHANGED <<kind, origin, owed>>
           /\ task' \in [End -> {"none", "run", "stop", "gone"}]
           /\ Keeping \/ \E e \in End : Stopping(e)
<1> DEFINE Goal == /\ Common /\ UNCHANGED <<kind, origin, owed>>
                   /\ task' \in [End -> {"none", "run", "stop", "gone"}]
                   /\ Keeping \/ \E e \in End : Stopping(e)
<1>t. task \in [End -> {"none", "run", "stop", "gone"}]
  BY DEF BaseTypes
<1>e. "host" \in End /\ "daemon" \in End
  BY DEF End
<1>1. ASSUME NEW e \in End, BeginRemoveTask(e), StopTask(e)
      PROVE  /\ task' \in [End -> {"none", "run", "stop", "gone"}]
             /\ Keeping \/ \E d \in End : Stopping(d)
  <2>1. task' \in [End -> {"none", "run", "stop", "gone"}]
        /\ \A d \in End : task'[d] = "gone" => task[d] = "gone"
    BY <1>1, <1>t DEF BeginRemoveTask
  <2>2. CASE task[e] = "run"
    <3>1. task' = [task EXCEPT ![e] = "stop"]
      BY <1>1, <2>2 DEF BeginRemoveTask
    <3> QED BY <2>1, <2>2, <3>1, <1>1 DEF Stopping
  <2>3. CASE task[e] # "run"
    <3>1. ClassVarsKept /\ UNCHANGED refCount
      BY <1>1, <2>3 DEF StopTask
    <3> QED BY <2>1, <3>1 DEF Keeping
  <2> QED BY <2>2, <2>3
<1>2. ASSUME ClassVarsKept, UNCHANGED refCount,
             UNCHANGED task \/ \E e \in End : AddTask(e) \/ (Ready(e) /\ task' = [task EXCEPT ![e] = "gone"])
      PROVE  task' \in [End -> {"none", "run", "stop", "gone"}] /\ Keeping
  <2>1. /\ task' \in [End -> {"none", "run", "stop", "gone"}]
        /\ \A d \in End : task'[d] = "gone" => task[d] = "gone" \/ Ready(d)
    <3>1. CASE UNCHANGED task
      BY <3>1, <1>t
    <3>2. ASSUME NEW e \in End, AddTask(e)
          PROVE  /\ task' \in [End -> {"none", "run", "stop", "gone"}]
                 /\ \A d \in End : task'[d] = "gone" => task[d] = "gone" \/ Ready(d)
      BY <3>2, <1>t DEF AddTask
    <3>3. ASSUME NEW e \in End, Ready(e), task' = [task EXCEPT ![e] = "gone"]
          PROVE  /\ task' \in [End -> {"none", "run", "stop", "gone"}]
                 /\ \A d \in End : task'[d] = "gone" => task[d] = "gone" \/ Ready(d)
      BY <3>3, <1>t
    <3> QED BY <1>2, <3>1, <3>2, <3>3
  <2> QED BY <2>1, <1>2 DEF Keeping
<1> USE DEF Common
<1>3. ASSUME NEW e \in End, FetchClose(e), StopTask(e) PROVE Goal
  <2>1. BeginRemoveTask(e) /\ UNCHANGED <<kind, origin, owed>>
    BY <1>3 DEF FetchClose
  <2> QED BY <2>1, <1>1, <1>3
<1>4. ASSUME NEW e \in End, Wake(e) \/ Ignored(e, Taskless), ClassVarsKept PROVE Goal
  <2>1. UNCHANGED <<kind, origin, owed, refCount>> /\ (AddTask(e) \/ UNCHANGED task)
    BY <1>4 DEF Wake, Ignored
  <2> QED BY <2>1, <1>2, <1>4
<1>5. ASSUME NEW e \in End, Clear(e) PROVE Goal
  <2>1. ClearOwnTasks(e) /\ BeginRemoveTask(e) /\ StopTask(e) /\ UNCHANGED <<kind, origin, owed>>
    BY <1>5 DEF Clear, ClearOwnTasks
  <2> QED BY <2>1, <1>1
<1>6. ASSUME NEW e \in End, Release(e) PROVE Goal
  <2>1. /\ TryRemoveTask(e, Ready(e)) /\ Ready(e) /\ task' = [task EXCEPT ![e] = "gone"]
        /\ ClassVarsKept /\ UNCHANGED <<kind, origin, owed, refCount>>
    BY <1>6 DEF Release, TryRemoveTask
  <2> QED BY <2>1, <1>2
<1>7. ASSUME FetchEcho \/ FetchUnserved, ClassVarsKept PROVE Goal
  <2>1. UNCHANGED <<kind, origin, owed, refCount, task>>
    BY <1>7 DEF FetchEcho, FetchUnserved
  <2> QED BY <2>1, <1>2, <1>7
<1>8. CASE Deatch
  <2>1. DeatchChannel /\ BeginRemoveTask("host") /\ StopTask("host")
        /\ UNCHANGED <<kind, origin, owed>>
    BY <1>8 DEF Deatch, DeatchChannel
  <2> QED BY <2>1, <1>1, <1>e
<1>9. CASE Free \/ Busy \/ Ends
  <2>1. /\ FreeChannel \/ PoolBusy(Taskless \ {"CLOSE", "FWD_SUCCESS"}) \/ SessionEnd
        /\ ClassVarsKept /\ UNCHANGED <<kind, origin, owed, refCount, task>>
    BY <1>9 DEF Free, Busy, Ends, FreeChannel, PoolBusy, SessionEnd
  <2> QED BY <2>1, <1>2
<1> QED BY <1>3, <1>4, <1>5, <1>6, <1>7, <1>8, <1>9 DEF CommonStep

\* A task that is ready has no reference.
LEMMA ReadyMeans ==
    ASSUME NEW e, Ready(e)
    PROVE  /\ refCount[e] = 0
           /\ ~IsForward /\ ~IsTransfer => ShReady(e)
BY DEF Ready, XferReady, ShReady, IsForward, IsTransfer

\* GoneStep of these steps.
LEMMA CommonGone ==
    ASSUME BaseTypes, task' \in [End -> {"none", "run", "stop", "gone"}],
           \/ Keeping
           \/ UNCHANGED refCount /\ \E e \in End : task' = [task EXCEPT ![e] = "stop"]
    PROVE  GoneStep
<1>1. CASE Keeping
  BY <1>1, ReadyMeans DEF Keeping, GoneStep
<1>2. ASSUME UNCHANGED refCount, NEW e \in End, task' = [task EXCEPT ![e] = "stop"] PROVE GoneStep
  BY <1>2 DEF GoneStep, BaseTypes
<1> QED BY <1>1, <1>2

\* StopTask of the forward closes the contexts mapCtxPoint leads to.
LEMMA FwdCommon ==
    ASSUME IInv, IsForward, CommonStep
    PROVE  IInv'
<1>1. FwdInv /\ FwdTypes /\ MapInv /\ BaseTypes /\ Holds(FwdSays)
  BY FwdHolds DEF IInv, FwdInv
<1>2. /\ Common /\ UNCHANGED <<kind, origin, owed>>
      /\ task' \in [End -> {"none", "run", "stop", "gone"}]
      /\ Keeping \/ \E e \in End : Stopping(e)
  BY <1>1, CommonMoves
<1>3. Quiet(FwdSays)
  BY <1>1, <1>2, CommonQuiet
<1>4. CASE Keeping
  <2>1. UNCHANGED <<ctx, id, mapCtx, idle, refCount>>
    BY <1>4 DEF Keeping, ClassVarsKept, fwdVars
  <2>2. CtxMoves
    BY <1>1, <2>1 DEF CtxMoves, FwdTypes
  <2>3. GoneStep
    BY <1>1, <1>2, <1>4, CommonGone
  <2> QED BY <1>2, <1>3, <2>1, <2>2, <2>3, FwdQuietStep
<1>5. ASSUME NEW e \in End, Stopping(e) PROVE IInv'
  <2>1. FwdStopTask(e) /\ task' = [task EXCEPT ![e] = "stop"]
    <3>1. task[e] = "run" /\ StopTask(e) /\ ~IsTransfer
      BY <1>5, FwdMeaning DEF Stopping
    <3> QED BY <3>1, <1>5 DEF Stopping, StopTask
  <2>2. UNCHANGED <<refCount, id, idle>>
        /\ mapCtx' = [mapCtx EXCEPT ![e] = [i \in Number |-> -1]]
    BY <2>1 DEF FwdStopTask
  <2>3. CtxMoves
    <3>1. ctx \in [End -> [Number -> CtxStates]] /\ "closing" \in CtxStates
      BY <1>1 DEF FwdTypes, CtxStates
    <3>2. ctx' = [ctx EXCEPT ![e] = [k \in Number |->
                 IF mapCtx[e][id[k]] = k /\ @[k] # "freed" THEN "closing" ELSE @[k]]]
      BY <2>1 DEF FwdStopTask
    <3>3. ctx' = [ctx EXCEPT ![e] = [k \in Number |->
                 IF mapCtx[e][id[k]] = k /\ ctx[e][k] # "freed" THEN "closing" ELSE ctx[e][k]]]
      BY <3>1, <3>2
    <3> DEFINE f == [k \in Number |->
                 IF mapCtx[e][id[k]] = k /\ ctx[e][k] # "freed" THEN "closing" ELSE ctx[e][k]]
    <3>4. f \in [Number -> CtxStates]
      BY <3>1
    <3>5. \A k \in Number : f[k] = ctx[e][k] \/ (mapCtx[e][id[k]] = k /\ f[k] = "closing")
      OBVIOUS
    <3>6. ctx' = [ctx EXCEPT ![e] = f]
      BY <3>3
    <3> HIDE DEF f
    <3>7. ctx' \in [End -> [Number -> CtxStates]] /\ ctx'[e] = f
          /\ \A d \in End : d # e => ctx'[d] = ctx[d]
      BY <3>1, <3>4, <3>6
    <3>8. ASSUME NEW k \in Number, mapCtx[e][id[k]] = k PROVE ctx[e][k] \in LiveStates
      <4>1. id[k] \in Number /\ k # -1 /\ ctx[e][k] \in CtxStates
        BY <1>1, ForwardAssumption DEF FwdTypes, Number
      <4>2. ctx[e][k] \notin {"none", "freed"}
        BY <3>8, <4>1, <1>1 DEF MapInv
      <4> QED BY <4>1, <4>2 DEF CtxStates, LiveStates
    <3>9. "closing" \in LiveStates
      BY DEF LiveStates
    <3> QED BY <3>5, <3>7, <3>8, <3>9 DEF CtxMoves
  <2>4. GoneStep
    BY <1>1, <1>2, <2>1, <2>2, CommonGone
  <2> QED BY <1>2, <1>3, <2>2, <2>3, <2>4, FwdQuietStep
<1> QED BY <1>2, <1>4, <1>5

\* All that a forward does.
LEMMA FwdStep ==
    ASSUME IInv, IsForward, NEW e \in End,
           FwdReceive(e) \/ FwdCallBack(e) \/ FwdPeer(e)
    PROVE  IInv'
BY FwdSteadyStep, BeginForwardStep, AcceptStep, SlaveStep, SetupJdwpStep, FreeContextStep
   DEF FwdReceive, FwdCallBack, FwdPeer, FwdSteady

-----------------------------------------------------------------------------
(* Transfers.                                                              *)

\* A number of each end that grows by n at e.
Plus(g, f, e, n) ==
    /\ g \in [End -> Int] /\ g[e] = f[e] + n
    /\ \A d \in End : d # e => g[d] = f[d]

\* The three ways in which the actions write such a change.
LEMMA PlusBy ==
    ASSUME NEW f \in [End -> Int], NEW g, NEW e \in End, NEW n \in Int,
           \/ g = [f EXCEPT ![e] = @ + n]
           \/ g = [f EXCEPT ![e] = @ - 1] /\ n = -1
           \/ g = f /\ n = 0
    PROVE  Plus(g, f, e, n)
BY DEF Plus

\* A step at an end where there is a task, before or after.
RunsOn(e) ==
    /\ task' \in [End -> {"none", "run", "stop", "gone"}] /\ task'[e] # "gone"
    /\ \A d \in End : d # e => task'[d] = task[d]

\* AddTask, a restart, a callback and a handler are such steps.
LEMMA RunsOnBy ==
    ASSUME BaseTypes, NEW e \in End,
           \/ AddTask(e)
           \/ task' = [task EXCEPT ![e] = "run"]
           \/ UNCHANGED task /\ (LoopRuns(e) \/ \E c : Gets(e, c))
    PROVE  RunsOn(e)
BY DEF BaseTypes, AddTask, LoopRuns, Gets, RunsOn

\* The requests in flight at an end.
Waits(e) == opening[e] + closing[e] + Len(io[e]) + (IF e = "daemon" THEN async ELSE 0)

\* RefCounted of a transfer, before and after a step.
LEMMA XferMeaning ==
    /\ IsTransfer => (RefCounted <=> \A e \in End : refCount[e] = Waits(e) + owed[e])
    /\ IsTransfer' => (RefCounted' <=> \A e \in End : refCount'[e] = Waits(e)' + owed'[e])
BY DEF RefCounted, Pending, IsForward, IsTransfer, Waits

\* A transfer whose requests are counted, and whose tasks are not gone.
LEMMA XferDone ==
    ASSUME IInv, IsTransfer, UNCHANGED <<kind, origin>>, XferInv', GoneStep,
           refCount' \in [End -> Int], owed' \in [End -> Int], RefCounted'
    PROVE  IInv'
<1>1. ~IsForward' /\ IsTransfer' /\ ~IsProcess'
  BY DEF IsForward, IsTransfer, IsProcess
<1>2. BaseTypes'
  BY DEF IInv, BaseTypes, GoneStep
<1>3. GoneInv'
  BY <1>1 DEF IInv, GoneInv, GoneStep
<1> QED BY <1>1, <1>2, <1>3 DEF IInv

\* The step of one end: o opens, c closes, l reads and writes and a commands more, and w
\* references owed.
Counts(e, o, c, l, a, w, r) ==
    /\ UNCHANGED <<kind, origin>> /\ RunsOn(e)
    /\ r = o + c + l + a + w
    /\ Plus(opening', opening, e, o) /\ opening[e] + o >= 0
    /\ Plus(closing', closing, e, c) /\ closing[e] + c >= 0
    /\ DOMAIN io' = End /\ IsSeq(io'[e]) /\ Len(io'[e]) = Len(io[e]) + l
    /\ \A d \in End : d # e => io'[d] = io[d]
    /\ async' = async + a /\ async + a >= 0 /\ (a # 0 => e = "daemon")
    /\ Plus(owed', owed, e, w) /\ w >= 0
    /\ Plus(refCount', refCount, e, r)

\* A step that counts what it opens, closes, asks for and owes keeps the invariant.
LEMMA XferCount ==
    ASSUME IInv, IsTransfer, NEW e \in End, NEW o \in Int, NEW c \in Int, NEW l \in Int,
           NEW a \in Int, NEW w \in Int, NEW r \in Int, Counts(e, o, c, l, a, w, r)
    PROVE  IInv'
<1> /\ UNCHANGED <<kind, origin>> /\ RunsOn(e)
    /\ r = o + c + l + a + w
    /\ Plus(opening', opening, e, o) /\ opening[e] + o >= 0
    /\ Plus(closing', closing, e, c) /\ closing[e] + c >= 0
    /\ DOMAIN io' = End /\ IsSeq(io'[e]) /\ Len(io'[e]) = Len(io[e]) + l
    /\ \A d \in End : d # e => io'[d] = io[d]
    /\ async' = async + a /\ async + a >= 0 /\ (a # 0 => e = "daemon")
    /\ Plus(owed', owed, e, w) /\ w >= 0
    /\ Plus(refCount', refCount, e, r)
  BY DEF Counts
<1>1. XferInv /\ BaseTypes /\ GoneInv
  BY DEF IInv
<1>2. \A d \in End : /\ opening[d] \in Nat /\ closing[d] \in Nat /\ Len(io[d]) \in Nat
                     /\ refCount[d] \in Int /\ owed[d] \in Int /\ owed[d] >= 0 /\ async \in Nat
  BY <1>1, Requests DEF XferInv, BaseTypes
<1>3. XferInv'
  <2>1. opening' \in [End -> Nat]
    <3>0. \A d \in End : d # e => opening'[d] \in Nat
      BY <1>2 DEF Plus
    <3>e. opening'[e] = opening[e] + o /\ opening[e] \in Nat
      BY <1>2 DEF Plus
    <3>1. \A d \in End : opening'[d] \in Nat
      BY <3>0, <3>e
    <3> QED BY <3>1 DEF Plus
  <2>2. closing' \in [End -> Nat]
    <3>0. \A d \in End : d # e => closing'[d] \in Nat
      BY <1>2 DEF Plus
    <3>e. closing'[e] = closing[e] + c /\ closing[e] \in Nat
      BY <1>2 DEF Plus
    <3>1. \A d \in End : closing'[d] \in Nat
      BY <3>0, <3>e
    <3> QED BY <3>1 DEF Plus
  <2>3. DOMAIN io' = End /\ \A d \in End : IsSeq(io'[d])
    BY <1>1 DEF XferInv
  <2>4. \A d \in End : owed'[d] >= 0
    <3>1. \A d \in End : d # e => owed'[d] >= 0
      BY <1>2 DEF Plus
    <3>2. owed'[e] = owed[e] + w /\ owed[e] \in Int /\ owed[e] >= 0
      BY <1>2 DEF Plus
    <3>3. owed'[e] >= 0
      BY <3>2
    <3> QED BY <3>1, <3>3
  <2>5. async' \in Nat
    BY <1>2
  <2> QED BY <2>1, <2>2, <2>3, <2>4, <2>5 DEF XferInv
<1>4. RefCounted'
  <2>1. IsTransfer' /\ \A d \in End : refCount[d] = Waits(d) + owed[d]
    BY XferMeaning DEF IInv, IsTransfer
  <2>2. refCount'[e] = Waits(e)' + owed'[e]
    <3>1. refCount[e] = (opening[e] + closing[e] + Len(io[e]) + (IF e = "daemon" THEN async ELSE 0))
                        + owed[e]
      BY <2>1 DEF Waits
    <3>2. /\ opening'[e] = opening[e] + o /\ closing'[e] = closing[e] + c
          /\ owed'[e] = owed[e] + w /\ refCount'[e] = refCount[e] + r
      BY DEF Plus
    <3>3. Len(io[e]) \in Nat /\ Len(io'[e]) = Len(io[e]) + l
      BY <1>2
    <3> DEFINE s == IF e = "daemon" THEN async ELSE 0
               t == IF e = "daemon" THEN async' ELSE 0
    <3>4. s \in Int /\ t = s + a
      BY <1>2
    <3> HIDE DEF s, t
    <3>5. refCount[e] = (opening[e] + closing[e] + Len(io[e]) + s) + owed[e]
      BY <3>1 DEF s
    <3>6. refCount[e] + (o + c + l + a + w) =
            ((opening[e] + o) + (closing[e] + c) + (Len(io[e]) + l) + (s + a)) + (owed[e] + w)
      <4>1. /\ opening[e] \in Int /\ closing[e] \in Int /\ Len(io[e]) \in Int /\ owed[e] \in Int
            /\ s \in Int
        <5>1. /\ opening[e] \in Nat /\ closing[e] \in Nat /\ Len(io[e]) \in Nat /\ owed[e] \in Int
          BY ONLY <1>2, e \in End
        <5> QED BY ONLY <5>1, <3>4
      <4> DEFINE p == opening[e]
                 q == closing[e]
                 x == Len(io[e])
                 v == owed[e]
                 f == refCount[e]
      <4>2. /\ p \in Int /\ q \in Int /\ x \in Int /\ v \in Int /\ s \in Int
            /\ f = (p + q + x + s) + v
        BY <4>1, <3>5
      <4> HIDE DEF p, q, x, v, f
      <4>3. f + (o + c + l + a + w) = ((p + o) + (q + c) + (x + l) + (s + a)) + (v + w)
        BY <4>2
      <4> QED BY <4>3 DEF p, q, x, v, f
    <3>7. refCount'[e] = (opening'[e] + closing'[e] + Len(io'[e]) + t) + owed'[e]
      BY <3>2, <3>3, <3>4, <3>6
    <3> QED BY <3>7 DEF Waits, t
  <2>3. ASSUME NEW d \in End, d # e PROVE refCount'[d] = Waits(d)' + owed'[d]
    <3>1. /\ opening'[d] = opening[d] /\ closing'[d] = closing[d] /\ io'[d] = io[d]
          /\ owed'[d] = owed[d] /\ refCount'[d] = refCount[d]
      BY <2>3 DEF Plus
    <3>2. d = "daemon" => async' = async
      BY <2>3, <1>2
    <3> QED BY <2>1, <3>1, <3>2 DEF Waits
  <2> QED BY <2>1, <2>2, <2>3, XferMeaning
<1>5. GoneStep
  <2>1. \A d \in End : task'[d] = "gone" =>
            refCount'[d] = refCount[d] /\ (task[d] = "gone" \/ refCount[d] = 0)
    BY DEF RunsOn, Plus
  <2> QED BY <2>1 DEF GoneStep, RunsOn
<1>6. refCount' \in [End -> Int] /\ owed' \in [End -> Int]
  BY DEF Plus
<1> QED BY <1>3, <1>4, <1>5, <1>6, XferDone

\* What the variables of a transfer are.
LEMMA XferTypes ==
    ASSUME IInv, IsTransfer
    PROVE  /\ BaseTypes /\ XferInv
           /\ opening \in [End -> Int] /\ closing \in [End -> Int]
           /\ refCount \in [End -> Int] /\ owed \in [End -> Int]
           /\ \A e \in End : opening[e] >= 0 /\ closing[e] >= 0 /\ IsSeq(io[e])
           /\ async \in Int /\ async >= 0 /\ DOMAIN io = End
<1>1. BaseTypes /\ XferInv
  BY DEF IInv
<1>2. opening \in [End -> Nat] /\ closing \in [End -> Nat]
  BY <1>1 DEF XferInv
<1>3. opening \in [End -> Int] /\ closing \in [End -> Int]
  BY <1>2
<1> QED BY <1>1, <1>2, <1>3 DEF BaseTypes, XferInv

\* Steps that ask for files to be opened, or are told that they are, and that leave
\* the reads and writes alone.
LEMMA OpenStep ==
    ASSUME IInv, IsTransfer, NEW e \in End, UNCHANGED <<kind, origin, owed, closing, io, async>>,
           RunsOn(e), NEW o \in Int, opening[e] + o >= 0,
           Plus(opening', opening, e, o), Plus(refCount', refCount, e, o)
    PROVE  IInv'
<1>1. /\ closing \in [End -> Int] /\ owed \in [End -> Int] /\ closing[e] >= 0
      /\ IsSeq(io[e]) /\ async \in Int /\ async >= 0 /\ DOMAIN io = End
  BY XferTypes
<1>2. Len(io[e]) \in Nat
  BY <1>1, Requests
<1>3. 0 \in Int /\ o = o + 0 + 0 + 0 + 0
  OBVIOUS
<1>4. Plus(closing', closing, e, 0) /\ Plus(owed', owed, e, 0)
  BY <1>1, <1>3, PlusBy
<1>5. Counts(e, o, 0, 0, 0, 0, o)
  BY <1>1, <1>2, <1>3, <1>4 DEF Counts
<1> QED BY <1>3, <1>5, XferCount

\* Those that change no number.
LEMMA StillStep ==
    ASSUME IInv, IsTransfer, NEW e \in End, RunsOn(e),
           UNCHANGED <<kind, origin, owed, opening, closing, io, async, refCount>>
    PROVE  IInv'
<1>1. opening \in [End -> Int] /\ refCount \in [End -> Int] /\ opening[e] + 0 >= 0
  BY XferTypes
<1>2. 0 \in Int
  OBVIOUS
<1>3. Plus(opening', opening, e, 0) /\ Plus(refCount', refCount, e, 0)
  BY <1>1, <1>2, PlusBy
<1> QED BY <1>1, <1>2, <1>3, OpenStep

\* Those that ask for one read or write more.
LEMMA RequestStep ==
    ASSUME IInv, IsTransfer, NEW e \in End, RunsOn(e),
           UNCHANGED <<kind, origin, owed, opening, closing, async>>,
           NEW x, io' = [io EXCEPT ![e] = Append(@, x)], AddRef(e, 1)
    PROVE  IInv'
<1>1. /\ opening \in [End -> Int] /\ closing \in [End -> Int] /\ owed \in [End -> Int]
      /\ refCount \in [End -> Int] /\ opening[e] >= 0 /\ closing[e] >= 0
      /\ IsSeq(io[e]) /\ async \in Int /\ async >= 0 /\ DOMAIN io = End
  BY XferTypes
<1>2. /\ DOMAIN io' = End /\ io'[e] = Append(io[e], x) /\ \A d \in End : d # e => io'[d] = io[d]
  BY <1>1
<1>3. IsSeq(io'[e]) /\ Len(io'[e]) = Len(io[e]) + 1
  BY <1>1, <1>2, Requests
<1>4. 0 \in Int /\ 1 \in Int /\ 1 = 0 + 0 + 1 + 0 + 0
  OBVIOUS
<1>5. /\ Plus(opening', opening, e, 0) /\ Plus(closing', closing, e, 0) /\ Plus(owed', owed, e, 0)
      /\ Plus(refCount', refCount, e, 1)
  BY <1>1, <1>4, PlusBy DEF AddRef
<1>6. Counts(e, 0, 0, 1, 0, 0, 1)
  BY <1>1, <1>2, <1>3, <1>4, <1>5 DEF Counts
<1> QED BY <1>4, <1>6, XferCount

\* OnFileIO: one request has come back; there may be another, or a close.
LEMMA CloseStep ==
    ASSUME IInv, IsTransfer, NEW e \in End, RunsOn(e), NEW j \in DOMAIN io[e],
           UNCHANGED <<kind, origin, owed, opening, async>>,
           NEW finish \in BOOLEAN, NEW more, more = <<>> \/ \E x : more = <<x>>,
           CloseStep1(e, j, finish, more)
    PROVE  IInv'
<1>1. /\ opening \in [End -> Int] /\ closing \in [End -> Int] /\ owed \in [End -> Int]
      /\ refCount \in [End -> Int] /\ opening[e] >= 0 /\ closing[e] >= 0
      /\ IsSeq(io[e]) /\ async \in Int /\ async >= 0 /\ DOMAIN io = End
  BY XferTypes
<1> DEFINE m == Len(more)
           c == IF finish THEN 1 ELSE 0
<1>2. /\ DOMAIN io' = End /\ io'[e] = Without(io[e], j) \o more
      /\ \A d \in End : d # e => io'[d] = io[d]
  BY <1>1 DEF CloseStep1
<1>3. m \in {0, 1} /\ IsSeq(io'[e]) /\ Len(io'[e]) = Len(io[e]) + (m - 1)
  <2>0. Len(io[e]) \in Nat
    BY <1>1, Requests
  <2>1. CASE more = <<>>
    <3>1. m = 0
      BY <2>1
    <3>2. /\ IsSeq(Without(io[e], j) \o <<>>)
          /\ Len(Without(io[e], j) \o <<>>) = Len(io[e]) - 1
      BY <1>1, Requests
    <3> QED BY <2>0, <2>1, <3>1, <3>2, <1>2
  <2>2. ASSUME NEW x, more = <<x>>
        PROVE  m \in {0, 1} /\ IsSeq(io'[e]) /\ Len(io'[e]) = Len(io[e]) + (m - 1)
    <3>1. m = 1
      BY <2>2
    <3>2. /\ IsSeq(Without(io[e], j) \o <<x>>)
          /\ Len(Without(io[e], j) \o <<x>>) = Len(io[e])
      BY <1>1, Requests
    <3> QED BY <2>0, <2>2, <3>1, <3>2, <1>2
  <2> QED BY <2>1, <2>2
<1>4. closing' = [closing EXCEPT ![e] = @ + c]
  <2>1. closing' = [closing EXCEPT ![e] = IF finish THEN @ + 1 ELSE @]
    BY DEF CloseStep1
  <2>2. CASE finish
    <3>1. closing' = [closing EXCEPT ![e] = @ + 1] /\ c = 1
      BY <2>1, <2>2
    <3> QED BY <3>1
  <2>3. CASE ~finish
    <3>1. closing' = closing /\ c = 0
      BY <2>1, <2>3, <1>1
    <3> QED BY <3>1, <1>1
  <2> QED BY <2>2, <2>3
<1>5. refCount' = [refCount EXCEPT ![e] = @ + (m + c - 1)]
  BY DEF CloseStep1, AddRef
<1> HIDE DEF m, c
<1>6. c \in {0, 1}
  BY DEF c
<1>7. 0 \in Int /\ c \in Int /\ m - 1 \in Int /\ m + c - 1 \in Int
      /\ m + c - 1 = 0 + c + (m - 1) + 0 + 0
  BY <1>3, <1>6
<1>8. /\ Plus(opening', opening, e, 0) /\ Plus(closing', closing, e, c) /\ Plus(owed', owed, e, 0)
      /\ Plus(refCount', refCount, e, m + c - 1)
  BY <1>1, <1>4, <1>5, <1>7, PlusBy
<1>9. closing[e] + c >= 0
  BY <1>1, <1>6
<1>10. Counts(e, 0, c, m - 1, 0, 0, m + c - 1)
  BY <1>1, <1>2, <1>3, <1>7, <1>8, <1>9 DEF Counts
<1> QED BY <1>7, <1>10, XferCount

\* Steps of the daemon that run a command of the package manager, or are told that it is
\* over; a command that cannot be run leaves its reference.
LEMMA AsyncStep ==
    ASSUME IInv, IsTransfer, NEW e \in End, e = "daemon", RunsOn(e),
           UNCHANGED <<kind, origin, opening, io>>,
           NEW c \in Int, Plus(closing', closing, e, c), closing[e] + c >= 0,
           NEW a \in Int, async' = async + a, async + a >= 0,
           NEW w \in {0, 1}, Plus(owed', owed, e, w),
           NEW r \in Int, r = c + a + w, Plus(refCount', refCount, e, r)
    PROVE  IInv'
<1>1. /\ opening \in [End -> Int] /\ opening[e] >= 0
      /\ IsSeq(io[e]) /\ async \in Int /\ async >= 0 /\ DOMAIN io = End
  BY XferTypes
<1>2. Len(io[e]) \in Nat
  BY <1>1, Requests
<1>3. 0 \in Int /\ w \in Int /\ w >= 0 /\ r = 0 + c + 0 + a + w
  OBVIOUS
<1>4. Plus(opening', opening, e, 0) /\ opening[e] + 0 >= 0
  BY <1>1, <1>3, PlusBy
<1>5. Counts(e, 0, c, 0, a, w, r)
  BY <1>1, <1>2, <1>3, <1>4 DEF Counts
<1> QED BY <1>3, <1>5, XferCount

\* Opening: BeginTransfer, OnFileOpen, SlaveCheckFile, FileFinish, AppFinish.
LEMMA XferOpens ==
    ASSUME IInv, IsTransfer, NEW e \in End,
           \/ BeginTransfer(e) \/ OnFileOpen(e) \/ SlaveCheckFile(e) \/ FileFinish(e)
           \/ e = "host" /\ AppFinish
    PROVE  IInv'
<1>1. /\ BaseTypes /\ opening \in [End -> Int] /\ refCount \in [End -> Int]
      /\ opening[e] >= 0
  BY XferTypes
<1>2. 1 \in Int /\ -1 \in Int /\ 0 \in Int
  OBVIOUS
<1>3. ASSUME UNCHANGED <<kind, origin, owed, closing, io, async>>, RunsOn(e),
             opening' = [opening EXCEPT ![e] = @ + 1], AddRef(e, 1)
      PROVE  IInv'
  <2>1. Plus(opening', opening, e, 1) /\ Plus(refCount', refCount, e, 1)
    BY <1>1, <1>2, <1>3, PlusBy DEF AddRef
  <2>2. opening[e] + 1 >= 0
    BY <1>1
  <2> QED BY <2>1, <2>2, <1>2, <1>3, OpenStep
<1>4. ASSUME UNCHANGED <<kind, origin, owed, closing, io, async>>, RunsOn(e),
             UNCHANGED <<opening, refCount>>
      PROVE  IInv'
  BY <1>4, StillStep
<1>5. CASE BeginTransfer(e)
  <2>1. UNCHANGED <<kind, origin, owed, closing, io, async>> /\ RunsOn(e)
    BY <1>1, <1>5, RunsOnBy DEF BeginTransfer
  <2>2. \/ opening' = [opening EXCEPT ![e] = @ + 1] /\ AddRef(e, 1)
        \/ UNCHANGED <<opening, refCount>>
    BY <1>5 DEF BeginTransfer, OpenNext
  <2> QED BY <2>1, <2>2, <1>3, <1>4
<1>6. CASE OnFileOpen(e)
  <2>1. UNCHANGED <<kind, origin, owed, closing, io, async>> /\ RunsOn(e)
    BY <1>1, <1>6, RunsOnBy DEF OnFileOpen
  <2>2. opening[e] > 0 /\ opening' = [opening EXCEPT ![e] = @ - 1] /\ AddRef(e, -1)
    BY <1>6 DEF OnFileOpen
  <2>3. Plus(opening', opening, e, -1) /\ Plus(refCount', refCount, e, -1)
    BY <2>2, <1>1, <1>2, PlusBy DEF AddRef
  <2>4. opening[e] + (-1) >= 0
    BY <2>2, <1>1
  <2> QED BY <2>1, <2>3, <2>4, <1>2, OpenStep
<1>7. CASE SlaveCheckFile(e)
  <2>1. UNCHANGED <<kind, origin, owed, closing, io, async>> /\ RunsOn(e)
    BY <1>1, <1>7, RunsOnBy DEF SlaveCheckFile
  <2>2. \/ opening' = [opening EXCEPT ![e] = @ + 1] /\ AddRef(e, 1)
        \/ UNCHANGED <<opening, refCount>>
    BY <1>7 DEF SlaveCheckFile
  <2> QED BY <2>1, <2>2, <1>3, <1>4
<1>8. CASE FileFinish(e)
  <2>1. UNCHANGED <<kind, origin, owed, closing, io, async>> /\ RunsOn(e)
    BY <1>1, <1>8, RunsOnBy DEF FileFinish
  <2>2. \/ opening' = [opening EXCEPT ![e] = @ + 1] /\ AddRef(e, 1)
        \/ UNCHANGED <<opening, refCount>>
    BY <1>8 DEF FileFinish, OpenNext
  <2> QED BY <2>1, <2>2, <1>3, <1>4
<1>9. CASE e = "host" /\ AppFinish
  <2>1. UNCHANGED <<kind, origin, owed, closing, io, async>> /\ RunsOn(e)
    BY <1>1, <1>9, RunsOnBy DEF AppFinish
  <2>2. \/ opening' = [opening EXCEPT ![e] = @ + 1] /\ AddRef(e, 1)
        \/ UNCHANGED <<opening, refCount>>
    BY <1>9 DEF AppFinish, OpenNext
  <2> QED BY <2>1, <2>2, <1>3, <1>4
<1> QED BY <1>5, <1>6, <1>7, <1>8, <1>9

\* Reading and writing, and the messages that are answered at once.
LEMMA XferRequests ==
    ASSUME IInv, IsTransfer, NEW e \in End,
           \/ MasterBegin(e) \/ SlaveData(e) \/ FileSummary(e)
           \/ e = "host" /\ BeginUninstall
           \/ \E j \in DOMAIN io[e] : OnFileIOEnds(e, j) \/ OnFileRead(e, j) \/ OnFileWrite(e, j)
    PROVE  IInv'
<1>1. BaseTypes
  BY XferTypes
<1>2. CASE MasterBegin(e)
  <2>1. UNCHANGED <<kind, origin, owed, opening, closing, async>> /\ RunsOn(e)
    BY <1>1, <1>2, RunsOnBy DEF MasterBegin
  <2>2. \/ \E x : io' = [io EXCEPT ![e] = Append(@, x)] /\ AddRef(e, 1)
        \/ UNCHANGED <<refCount, io>>
    BY <1>2 DEF MasterBegin, RefusedIO
  <2> QED BY <2>1, <2>2, RequestStep, StillStep
<1>3. CASE SlaveData(e)
  <2>1. UNCHANGED <<kind, origin, owed, opening, closing, async>> /\ RunsOn(e)
    BY <1>1, <1>3, RunsOnBy DEF SlaveData
  <2>2. \/ \E x : io' = [io EXCEPT ![e] = Append(@, x)] /\ AddRef(e, 1)
        \/ UNCHANGED <<refCount, io>>
    BY <1>3 DEF SlaveData, RefusedIO
  <2> QED BY <2>1, <2>2, RequestStep, StillStep
<1>4. CASE FileSummary(e)
  <2>1. UNCHANGED <<kind, origin, owed, opening, closing, io, async, refCount>> /\ RunsOn(e)
    BY <1>1, <1>4, RunsOnBy DEF FileSummary, xferVars, ctxVars
  <2> QED BY <2>1, StillStep
<1>5. CASE e = "host" /\ BeginUninstall
  <2>1. UNCHANGED <<kind, origin, owed, opening, closing, io, async, refCount>> /\ RunsOn(e)
    BY <1>1, <1>5, RunsOnBy DEF BeginUninstall, xferVars, ctxVars
  <2> QED BY <2>1, StillStep
<1>6. ASSUME NEW j \in DOMAIN io[e],
             OnFileIOEnds(e, j) \/ OnFileRead(e, j) \/ OnFileWrite(e, j)
      PROVE  IInv'
  <2>1. UNCHANGED <<kind, origin, owed, opening, async>> /\ RunsOn(e)
    BY <1>1, <1>6, RunsOnBy DEF OnFileIOEnds, OnFileRead, OnFileWrite
  <2>2. CASE OnFileIOEnds(e, j)
    BY <2>1, <2>2, CloseStep DEF OnFileIOEnds
  <2>3. CASE OnFileWrite(e, j)
    <3>1. PICK at : CloseStep1(e, j, Written(e, at), <<>>)
      BY <2>3 DEF OnFileWrite
    <3>2. Written(e, at) \in BOOLEAN
      BY DEF Written
    <3> QED BY <2>1, <3>1, <3>2, CloseStep
  <2>4. CASE OnFileRead(e, j)
    <3>1. PICK goesOn, at : goesOn \in BOOLEAN /\
             CloseStep1(e, j, ~goesOn, IF goesOn THEN <<ReadAt(e, at)>> ELSE <<>>)
      <4> DEFINE len == IF io[e][j].piece.i < size[io[e][j].to] THEN 1 ELSE 0
                 at == indexIO[e] + len
                 goesOn == CanSend(e) /\ at < FileSize(e)
      <4>1. CloseStep1(e, j, ~goesOn, IF goesOn THEN <<ReadAt(e, at)>> ELSE <<>>)
        BY <2>4 DEF OnFileRead
      <4>2. goesOn \in BOOLEAN
        OBVIOUS
      <4> HIDE DEF goesOn, at
      <4> QED BY <4>1, <4>2
    <3> DEFINE more == IF goesOn THEN <<ReadAt(e, at)>> ELSE <<>>
    <3>2. more = <<>> \/ \E x : more = <<x>>
      OBVIOUS
    <3>3. CloseStep1(e, j, ~goesOn, more) /\ (~goesOn) \in BOOLEAN
      BY <3>1
    <3> HIDE DEF more
    <3> QED BY <2>1, <3>2, <3>3, CloseStep
  <2> QED BY <1>6, <2>2, <2>3, <2>4
<1> QED BY <1>2, <1>3, <1>4, <1>5, <1>6

\* The package manager, and the end of a file.
LEMMA XferEnds ==
    ASSUME IInv, IsTransfer, NEW e \in End,
           \/ OnFileClose(e)
           \/ e = "daemon" /\ (AsyncInstallFinish \/ DaemonUninstall)
    PROVE  IInv'
<1>1. /\ BaseTypes /\ opening \in [End -> Int] /\ closing \in [End -> Int]
      /\ refCount \in [End -> Int] /\ owed \in [End -> Int]
      /\ opening[e] >= 0 /\ closing[e] >= 0 /\ async \in Int /\ async >= 0
      /\ IsSeq(io[e]) /\ DOMAIN io = End
  BY XferTypes
<1>2. 1 \in Int /\ -1 \in Int /\ 0 \in Int /\ 0 \in {0, 1} /\ 1 \in {0, 1}
      /\ Len(io[e]) \in Nat
  BY <1>1, Requests
<1>p. ASSUME NEW out, PackageShell(out), e = "daemon"
      PROVE  \E a \in Int, w \in {0, 1} :
                async' = async + a /\ async + a >= 0 /\ Plus(owed', owed, e, w) /\ a + w = 1
  <2>1. CASE async' = async + 1 /\ UNCHANGED owed
    <3>1. Plus(owed', owed, e, 0)
      BY <2>1, <1>1, <1>2, PlusBy
    <3>2. async + 1 >= 0 /\ 1 + 0 = 1
      BY <1>1
    <3> QED BY <2>1, <3>1, <3>2, <1>2
  <2>2. CASE Owe("daemon", 1) /\ UNCHANGED async
    <3>1. Plus(owed', owed, e, 1)
      BY <2>2, <1>p, <1>1, <1>2, PlusBy DEF Owe
    <3>2. async' = async + 0 /\ async + 0 >= 0 /\ 0 + 1 = 1
      BY <2>2, <1>1
    <3> QED BY <3>1, <3>2, <1>2
  <2> QED BY <1>p, <2>1, <2>2 DEF PackageShell
<1>3. CASE OnFileClose(e)
  <2>1. UNCHANGED <<kind, origin, opening, io>> /\ RunsOn(e)
    BY <1>1, <1>3, RunsOnBy DEF OnFileClose
  <2>2. closing[e] > 0 /\ closing' = [closing EXCEPT ![e] = @ - 1] /\ WhenTransferFinish(e)
    BY <1>3 DEF OnFileClose
  <2>3. Plus(closing', closing, e, -1) /\ closing[e] + (-1) >= 0
    <3>1. Plus(closing', closing, e, -1)
      BY <2>2, <1>1, <1>2, PlusBy
    <3>2. closing[e] + (-1) >= 0
      BY <2>2, <1>1
    <3> QED BY <3>1, <3>2
  <2>4. CASE e = "daemon" /\ \E out : PackageShell(out) /\ AddRef(e, 0)
    <3>1. PICK a \in Int, w \in {0, 1} :
             async' = async + a /\ async + a >= 0 /\ Plus(owed', owed, e, w) /\ a + w = 1
      BY <2>4, <1>p
    <3>2. Plus(refCount', refCount, e, 0)
      BY <2>4, <1>1, <1>2, PlusBy DEF AddRef
    <3>3. 0 = -1 + a + w
      BY <3>1
    <3> QED BY <2>1, <2>3, <2>4, <3>1, <3>2, <3>3, <1>2, AsyncStep
  <2>5. CASE AddRef(e, -1) /\ UNCHANGED <<async, owed>>
    <3>1. /\ Plus(refCount', refCount, e, -1) /\ Plus(owed', owed, e, 0)
          /\ Plus(opening', opening, e, 0)
      BY <2>1, <2>5, <1>1, <1>2, PlusBy DEF AddRef
    <3>2. -1 = 0 + (-1) + 0 + 0 + 0
      OBVIOUS
    <3>3. Counts(e, 0, -1, 0, 0, 0, -1)
      BY <2>1, <2>3, <2>5, <3>1, <3>2, <1>1, <1>2 DEF Counts
    <3> QED BY <3>3, <1>2, XferCount
  <2>6. \/ e = "daemon" /\ \E out : PackageShell(out) /\ AddRef(e, 0)
        \/ AddRef(e, -1) /\ UNCHANGED <<async, owed>>
    BY <2>2 DEF WhenTransferFinish
  <2> QED BY <2>4, <2>5, <2>6
<1>4. CASE e = "daemon" /\ AsyncInstallFinish
  <2>1. UNCHANGED <<kind, origin, opening, closing, io, owed>> /\ RunsOn(e)
    BY <1>1, <1>4, RunsOnBy DEF AsyncInstallFinish, ctxVars
  <2>2. async > 0 /\ async' = async + (-1) /\ async + (-1) >= 0 /\ AddRef(e, -1)
    BY <1>1, <1>4 DEF AsyncInstallFinish
  <2>3. /\ Plus(closing', closing, e, 0) /\ Plus(owed', owed, e, 0)
        /\ Plus(refCount', refCount, e, -1)
    BY <2>1, <2>2, <1>1, <1>2, PlusBy DEF AddRef
  <2>4. -1 = 0 + (-1) + 0 /\ closing[e] + 0 >= 0
    BY <1>1
  <2> QED BY <1>4, <2>1, <2>2, <2>3, <2>4, <1>2, AsyncStep
<1>5. CASE e = "daemon" /\ DaemonUninstall
  <2>1. UNCHANGED <<kind, origin, opening, closing, io>> /\ RunsOn(e)
    BY <1>1, <1>5, RunsOnBy DEF DaemonUninstall, ctxVars
  <2>2. AddRef(e, 1) /\ \E out : PackageShell(out)
    BY <1>5 DEF DaemonUninstall
  <2>3. PICK a \in Int, w \in {0, 1} :
           async' = async + a /\ async + a >= 0 /\ Plus(owed', owed, e, w) /\ a + w = 1
    BY <2>2, <1>5, <1>p
  <2>4. Plus(closing', closing, e, 0) /\ Plus(refCount', refCount, e, 1)
    BY <2>1, <2>2, <1>1, <1>2, PlusBy DEF AddRef
  <2>5. 1 = 0 + a + w /\ closing[e] + 0 >= 0
    BY <1>1, <2>3
  <2> QED BY <1>5, <2>1, <2>3, <2>4, <2>5, <1>2, AsyncStep
<1> QED BY <1>3, <1>4, <1>5

\* All that a transfer does.
LEMMA XferStep ==
    ASSUME IInv, IsTransfer, NEW e \in End, XferReceive(e) \/ XferCallBack(e)
    PROVE  IInv'
BY XferOpens, XferRequests, XferEnds DEF XferReceive, XferCallBack

\* Neither StopTask touches a request.
LEMMA XferCommon ==
    ASSUME IInv, IsTransfer, CommonStep
    PROVE  IInv'
<1>1. BaseTypes /\ XferInv
  BY XferTypes
<1>2. /\ UNCHANGED <<kind, origin, owed>>
      /\ task' \in [End -> {"none", "run", "stop", "gone"}]
      /\ Keeping \/ \E e \in End : Stopping(e)
  BY <1>1, CommonMoves
<1>3. UNCHANGED <<xferVars, refCount>> /\ GoneStep
  <2>1. CASE Keeping
    BY <2>1, <1>1, <1>2, CommonGone DEF Keeping, ClassVarsKept
  <2>2. ASSUME NEW e \in End, Stopping(e) PROVE UNCHANGED <<xferVars, refCount>> /\ GoneStep
    <3>1. task[e] = "run" /\ StopTask(e) /\ ~IsForward /\ task' = [task EXCEPT ![e] = "stop"]
      BY <2>2, FwdMeaning DEF Stopping
    <3>2. XferStopTask
      BY <3>1 DEF StopTask
    <3>3. UNCHANGED <<xferVars, refCount>>
      BY <3>2 DEF XferStopTask
    <3> QED BY <3>1, <3>3, <1>1, <1>2, CommonGone
  <2> QED BY <1>2, <2>1, <2>2
<1>4. UNCHANGED <<opening, closing, io, async, refCount, owed>>
  BY <1>2, <1>3 DEF xferVars, ctxVars
<1>5. XferInv'
  BY <1>1, <1>4 DEF XferInv
<1>6. refCount' \in [End -> Int] /\ owed' \in [End -> Int]
  BY <1>1, <1>4 DEF BaseTypes
<1>7. RefCounted'
  <2>1. IsTransfer' /\ \A e \in End : refCount[e] = Waits(e) + owed[e]
    BY <1>2, XferMeaning DEF IInv, IsTransfer
  <2>2. \A e \in End : Waits(e)' = Waits(e)
    BY <1>4 DEF Waits
  <2> QED BY <2>1, <2>2, <1>4, XferMeaning
<1> QED BY <1>2, <1>3, <1>5, <1>6, <1>7, XferDone

-----------------------------------------------------------------------------
(* Processes.                                                              *)

\* The message that starts the process is not plain, and what a handler that starts it
\* finds.
LEMMA Starting ==
    /\ Starts \notin Plain /\ Starts \in ShSays
    /\ Plain \subseteq ShSays /\ ShSays \subseteq [cmd : Cmds, n : Int]
    /\ \A h \in ShSays : h.cmd = ShFirst => h = Starts
<1>1. ShFirst \in {"SHELL_INIT", "UNITY", "BUG_INIT"}
  BY DEF ShFirst
<1>2. Starts \notin Plain /\ Starts \in ShSays
  BY <1>1 DEF Starts, Msg, Plain, ShSays, Cmds
<1>3. Plain \subseteq ShSays /\ ShSays \subseteq [cmd : Cmds, n : Int]
  BY DEF Plain, FwdSays, ShSays
<1>4. \A h \in ShSays : h.cmd = ShFirst => h = Starts
  BY <1>1 DEF ShSays, Starts, Msg
<1> QED BY <1>2, <1>3, <1>4

\* What a process's variables are.
LEMMA ProcTypes ==
    ASSUME IInv, IsProcess
    PROVE  /\ BaseTypes /\ ProcInv /\ GoneInv /\ Holds(ShSays)
           /\ refCount \in [End -> Int] /\ owed \in [End -> Int]
           /\ rd \in {0, 1} /\ wr \in Nat /\ lw \in Nat /\ owed["host"] = 0
           /\ "host" \in End /\ "daemon" \in End
<1>1. BaseTypes /\ ProcInv /\ GoneInv
  BY DEF IInv
<1>2. Holds(ShSays)
  BY <1>1, Starting DEF Holds, ProcInv
<1>3. rd \in {0, 1} /\ wr \in Nat /\ lw \in Nat /\ owed["host"] = 0
  BY <1>1 DEF ProcInv
<1> QED BY <1>1, <1>2, <1>3 DEF BaseTypes, End

\* A step that sends plain messages, and starts no process while the message that
\* starts it is under way.
LEMMA ProcNet ==
    ASSUME ProcInv, Quiet(ShSays), UNCHANGED kind,
           rd' \in 0 .. 1, wr' \in Nat, lw' \in Nat, owed'["host"] = 0,
           rd' = rd \/ rd' = 0 \/ \A e \in End : ~In(net'[e], Starts)
    PROVE  ProcInv'
<1>1. Starts' = Starts
  BY DEF Starts, ShFirst
<1>2. \A e \in End : /\ In(net'[e], Starts) => In(net[e], Starts)
                     /\ Single(net[e], Starts) => Single(net'[e], Starts)
  BY Starting DEF Quiet
<1>3. \A e \in End : Single(net'[e], Starts) /\ (In(net'[e], Starts) => rd' = 0)
  BY <1>2 DEF ProcInv
<1>4. ~(In(net'["daemon"], Starts) /\ In(net'["host"], Starts))
  BY <1>2 DEF ProcInv, End
<1>5. net' \in [End -> Seq(ShSays)]
  BY DEF Quiet
<1> QED BY <1>1, <1>3, <1>4, <1>5 DEF ProcInv

\* The callbacks the two ends of a process wait for.
Shut == IF log = "closing" THEN 1 ELSE 0

\* RefCounted of a process, before and after a step.
LEMMA ProcMeaning ==
    /\ IsProcess => (RefCounted <=> /\ refCount["daemon"] = rd + owed["daemon"]
                                    /\ refCount["host"] = (lw + Shut) + owed["host"])
    /\ IsProcess' => (RefCounted' <=> /\ refCount'["daemon"] = rd' + owed'["daemon"]
                                      /\ refCount'["host"] = (lw' + Shut') + owed'["host"])
BY DEF RefCounted, Pending, IsForward, IsTransfer, IsProcess, Shut, End

\* A process whose callbacks are counted, and whose tasks are not gone.
LEMMA ProcDone ==
    ASSUME IInv, IsProcess, UNCHANGED <<kind, origin>>, ProcInv', RefCounted',
           task' \in [End -> {"none", "run", "stop", "gone"}],
           refCount' \in [End -> Int], owed' \in [End -> Int],
           task'["host"] = "gone" => refCount'["host"] = 0 /\ log' \notin {"on", "closing"},
           task'["daemon"] = "gone" => refCount'["daemon"] = 0 /\ rd' = 0 /\ wr' = 0
    PROVE  IInv'
<1>1. ~IsForward' /\ ~IsTransfer' /\ IsProcess'
  BY DEF IsForward, IsTransfer, IsProcess
<1>2. BaseTypes'
  BY DEF IInv, BaseTypes
<1>3. GoneInv'
  BY <1>1 DEF GoneInv, End
<1> QED BY <1>1, <1>2, <1>3 DEF IInv

\* A step of the daemon: r references more, w of them owed.
LEMMA DaemonCount ==
    ASSUME IInv, IsProcess, UNCHANGED <<kind, origin, log, lw>>, RunsOn("daemon"), ProcInv',
           NEW w \in Int, Plus(owed', owed, "daemon", w),
           NEW r \in Int, Plus(refCount', refCount, "daemon", r), rd' = rd + (r - w)
    PROVE  IInv'
<1>1. /\ BaseTypes /\ refCount \in [End -> Int] /\ owed \in [End -> Int]
      /\ rd \in {0, 1} /\ "host" \in End /\ "daemon" \in End /\ GoneInv
  BY ProcTypes
<1>2. /\ refCount'["daemon"] = refCount["daemon"] + r /\ refCount'["host"] = refCount["host"]
      /\ owed'["daemon"] = owed["daemon"] + w /\ owed'["host"] = owed["host"]
      /\ refCount' \in [End -> Int] /\ owed' \in [End -> Int]
  BY <1>1 DEF Plus
<1>3. task'["daemon"] # "gone" /\ task'["host"] = task["host"]
      /\ task' \in [End -> {"none", "run", "stop", "gone"}]
  BY <1>1 DEF RunsOn
<1>4. RefCounted'
  <2>1. /\ refCount["daemon"] = rd + owed["daemon"]
        /\ refCount["host"] = (lw + Shut) + owed["host"]
    BY ProcMeaning DEF IInv
  <2>2. refCount["daemon"] \in Int /\ owed["daemon"] \in Int /\ rd \in Int
    BY <1>1
  <2>3. refCount'["daemon"] = rd' + owed'["daemon"]
    BY <2>1, <2>2, <1>2
  <2>4. refCount'["host"] = (lw' + Shut') + owed'["host"]
    BY <2>1, <1>2 DEF Shut
  <2>5. IsProcess'
    BY DEF IsProcess
  <2> QED BY <2>3, <2>4, <2>5, ProcMeaning
<1>5. task'["host"] = "gone" => refCount'["host"] = 0 /\ log' \notin {"on", "closing"}
  BY <1>1, <1>2, <1>3 DEF GoneInv
<1> QED BY <1>2, <1>3, <1>4, <1>5, ProcDone

\* A step of the server.
LEMMA HostCount ==
    ASSUME IInv, IsProcess, UNCHANGED <<kind, origin, rd, wr, owed>>, RunsOn("host"), ProcInv',
           NEW r \in Int, Plus(refCount', refCount, "host", r), lw' + Shut' = (lw + Shut) + r
    PROVE  IInv'
<1>1. /\ BaseTypes /\ refCount \in [End -> Int] /\ owed \in [End -> Int]
      /\ lw \in Nat /\ "host" \in End /\ "daemon" \in End /\ GoneInv
  BY ProcTypes
<1>2. /\ refCount'["host"] = refCount["host"] + r /\ refCount'["daemon"] = refCount["daemon"]
      /\ refCount' \in [End -> Int]
  BY <1>1 DEF Plus
<1>3. task'["host"] # "gone" /\ task'["daemon"] = task["daemon"]
      /\ task' \in [End -> {"none", "run", "stop", "gone"}]
  BY <1>1 DEF RunsOn
<1>4. RefCounted'
  <2>1. /\ refCount["daemon"] = rd + owed["daemon"]
        /\ refCount["host"] = (lw + Shut) + owed["host"]
    BY ProcMeaning DEF IInv
  <2>2. refCount["host"] \in Int /\ owed["host"] \in Int /\ lw + Shut \in Int
    BY <1>1 DEF Shut
  <2> DEFINE x == lw + Shut
             y == lw' + Shut'
  <2>3. x \in Int /\ y = x + r /\ refCount["host"] = x + owed["host"]
    BY <2>1, <2>2
  <2> HIDE DEF x, y
  <2>4. refCount'["host"] = y + owed'["host"]
    BY <2>2, <2>3, <1>2
  <2>5. IsProcess'
    BY DEF IsProcess
  <2> QED BY <2>1, <2>4, <2>5, <1>2, ProcMeaning DEF y
<1>5. task'["daemon"] = "gone" => refCount'["daemon"] = 0 /\ rd' = 0 /\ wr' = 0
  BY <1>1, <1>2, <1>3 DEF GoneInv
<1> QED BY <1>1, <1>2, <1>3, <1>4, <1>5, ProcDone

\* A step of neither.
LEMMA ProcStill ==
    ASSUME IInv, IsProcess, UNCHANGED <<kind, origin, task, refCount, owed, rd, wr, lw, log>>,
           Quiet(ShSays)
    PROVE  IInv'
<1>1. /\ BaseTypes /\ ProcInv /\ GoneInv /\ rd \in 0 .. 1 /\ wr \in Nat /\ lw \in Nat
      /\ owed["host"] = 0 /\ "host" \in End /\ "daemon" \in End
  BY ProcTypes
<1>2. ProcInv'
  BY <1>1, ProcNet
<1>3. RefCounted'
  <2>1. IsProcess'
    BY DEF IsProcess
  <2> QED BY <2>1, ProcMeaning DEF IInv, Shut
<1> QED BY <1>1, <1>2, <1>3, ProcDone DEF BaseTypes, GoneInv

\* The message that starts the process is taken: it is not under way any more.
LEMMA Started ==
    ASSUME IInv, IsProcess, NEW c, c = ShFirst, NEW e \in End, Creates(e, c),
           NEW lvs, NEW out \in Seq(Plain), Answer(e, lvs, out), UNCHANGED kind
    PROVE  /\ rd = 0 /\ Quiet(ShSays) /\ \A d \in End : ~In(net'[d], Starts)
<1>1. ProcInv /\ Holds(ShSays) /\ net[e] # <<>> /\ "host" \in End /\ "daemon" \in End
  BY ProcTypes DEF Creates
<1>2. net[e] \in Seq(ShSays) /\ Head(net[e]) \in ShSays
  BY <1>1 DEF ProcInv
<1>3. Head(net[e]) = Starts
  BY <1>2, Starting DEF Creates
<1>4. In(net[e], Starts) /\ Single(net[e], Starts) /\ rd = 0
      /\ \A d \in End : d # e => ~In(net[d], Starts)
  <2>1. In(net[e], Starts)
    BY <1>1, <1>2, <1>3, Taken
  <2> QED BY <2>1, <1>1 DEF ProcInv, End
<1>5. Quiet(ShSays)
  BY <1>1, QuietSend
<1>6. out \in Seq(ShSays)
  BY Starting, SeqDef
<1>7. ~In(net'[e], Starts)
  BY <1>1, <1>3, <1>4, <1>6, Handled DEF ProcInv
<1>8. \A d \in End : d # e => ~In(net'[d], Starts)
  BY <1>4, <1>5, Starting DEF Quiet
<1> QED BY <1>4, <1>5, <1>7, <1>8

\* Starting the process: the read of its output has a reference.
LEMMA StartSteps ==
    ASSUME IInv, IsProcess, StartShell \/ BeginExecute \/ OneShot
    PROVE  IInv'
<1>1. /\ BaseTypes /\ ProcInv /\ refCount \in [End -> Int] /\ owed \in [End -> Int]
      /\ wr \in Nat /\ lw \in Nat /\ owed["host"] = 0 /\ "daemon" \in End
      /\ rd \in 0 .. 1 /\ "host" # "daemon" /\ "host" \in End
  BY ProcTypes
<1>2. 0 \in Int /\ 1 \in Int /\ 0 \in 0 .. 1 /\ 1 \in 0 .. 1
  OBVIOUS
<1>3. ASSUME UNCHANGED <<kind, origin, log, lw, wr>>, RunsOn("daemon"),
             rd = 0, Quiet(ShSays), \A d \in End : ~In(net'[d], Starts),
             NEW w \in {0, 1}, NEW r \in {0, 1}, r - w \in {0, 1}, rd' = r - w,
             \/ w = 0 /\ UNCHANGED owed
             \/ w = 1 /\ Owe("daemon", 1),
             \/ r = 0 /\ UNCHANGED refCount
             \/ r = 1 /\ AddRef("daemon", 1)
      PROVE  IInv'
  <2>1. Plus(owed', owed, "daemon", w)
    BY <1>1, <1>2, <1>3, PlusBy DEF Owe
  <2>2. Plus(refCount', refCount, "daemon", r)
    BY <1>1, <1>2, <1>3, PlusBy DEF AddRef
  <2>3. rd' \in 0 .. 1 /\ wr' \in Nat /\ lw' \in Nat /\ rd' = rd + (r - w) /\ w \in Int /\ r \in Int
    BY <1>1, <1>3
  <2>4. owed'["host"] = 0
    BY <2>1, <1>1 DEF Plus
  <2>5. ProcInv'
    BY <2>3, <2>4, <1>1, <1>3, ProcNet
  <2> QED BY <2>1, <2>2, <2>3, <2>5, <1>3, DaemonCount
<1>4. CASE StartShell
  <2>1. UNCHANGED <<kind, origin, log, lw, wr, owed>> /\ AddTask("daemon")
        /\ Creates("daemon", "SHELL_INIT") /\ "SHELL_INIT" = ShFirst
    BY <1>4 DEF StartShell, UnchangedHost, UnchangedIO, IsShell, ShFirst
  <2>2. RunsOn("daemon")
    BY <2>1, <1>1, RunsOnBy
  <2>3. PICK out \in Seq(Plain) : Answer("daemon", {}, out)
    BY <1>4, PlainSends DEF StartShell
  <2>4. rd = 0 /\ Quiet(ShSays) /\ \A d \in End : ~In(net'[d], Starts)
    BY <2>1, <2>3, <1>1, Started
  <2>5. CASE rd' = 1 /\ AddRef("daemon", 1)
    <3>1. 1 - 0 \in {0, 1} /\ rd' = 1 - 0 /\ 0 \in {0, 1} /\ 1 \in {0, 1}
      BY <2>5
    <3> QED BY <2>1, <2>2, <2>4, <2>5, <3>1, <1>3
  <2>6. CASE UNCHANGED <<rd, refCount>>
    <3>1. 0 - 0 \in {0, 1} /\ rd' = 0 - 0 /\ 0 \in {0, 1}
      BY <2>4, <2>6
    <3> QED BY <2>1, <2>2, <2>4, <2>6, <3>1, <1>3
  <2> QED BY <1>4, <2>5, <2>6 DEF StartShell
<1>5. CASE BeginExecute
  <2>1. UNCHANGED <<kind, origin, log, lw, wr>> /\ task' = [task EXCEPT !["daemon"] = "run"]
        /\ Answer("daemon", {}, <<>>) /\ AddRef("daemon", 1) /\ ExecuteCommand
        /\ \E c : c = ShFirst /\ Creates("daemon", c)
    BY <1>5 DEF BeginExecute, ExecuteShell, UnchangedHost, UnchangedIO, ShFirst
  <2>2. RunsOn("daemon")
    BY <2>1, <1>1, RunsOnBy
  <2>4. rd = 0 /\ Quiet(ShSays) /\ \A d \in End : ~In(net'[d], Starts)
    BY <2>1, <1>1, PlainSends, Started
  <2>5. CASE rd' = 1 /\ UNCHANGED owed
    <3>1. 1 - 0 \in {0, 1} /\ rd' = 1 - 0 /\ 0 \in {0, 1} /\ 1 \in {0, 1}
      BY <2>5
    <3> QED BY <2>1, <2>2, <2>4, <2>5, <3>1, <1>3
  <2>6. CASE Owe("daemon", 1) /\ UNCHANGED rd
    <3>1. 1 - 1 \in {0, 1} /\ rd' = 1 - 1 /\ 1 \in {0, 1}
      BY <2>4, <2>6
    <3> QED BY <2>1, <2>2, <2>4, <2>6, <3>1, <1>3
  <2> QED BY <2>1, <2>5, <2>6 DEF ExecuteCommand
<1>6. CASE OneShot
  <2>1. UNCHANGED <<kind, origin, log, lw, wr, owed, rd, refCount>> /\ AddTask("daemon")
        /\ Creates("daemon", "UNITY") /\ "UNITY" = ShFirst
    BY <1>6 DEF OneShot, shVars, ShFirst
  <2>2. RunsOn("daemon")
    BY <2>1, <1>1, RunsOnBy
  <2>3. PICK out \in Seq(Plain) : Answer("daemon", {}, out)
    <3>1. PICK said \in {<<>>, Log("daemon", "ok"), Log("daemon", "fail")} :
             Answer("daemon", {}, said \o Finish)
      BY <1>6 DEF OneShot
    <3>2. said \in Seq(Plain) /\ Finish \in Seq(Plain)
      BY PlainSends
    <3>3. said \o Finish \in Seq(Plain)
      BY <3>2
    <3> QED BY <3>1, <3>3
  <2>4. rd = 0 /\ Quiet(ShSays) /\ \A d \in End : ~In(net'[d], Starts)
    BY <2>1, <2>3, <1>1, Started
  <2>5. 0 - 0 \in {0, 1} /\ rd' = 0 - 0 /\ 0 \in {0, 1}
    BY <2>1, <2>4
  <2> QED BY <2>1, <2>2, <2>4, <2>5, <1>3
<1> QED BY <1>4, <1>5, <1>6

\* The server opens the log and passes the command on.
LEMMA BugreportStep ==
    ASSUME IInv, IsProcess, BeginBugreport
    PROVE  IInv'
<1>1. /\ BaseTypes /\ ProcInv /\ Holds(ShSays) /\ refCount \in [End -> Int]
      /\ owed["host"] = 0 /\ "host" \in End /\ "daemon" \in End
      /\ rd \in 0 .. 1 /\ wr \in Nat /\ lw \in Nat
  BY ProcTypes
<1>2. UNCHANGED <<kind, origin, rd, wr, owed, lw, refCount>> /\ AddTask("host")
      /\ Creates("host", "BUG_INIT") /\ "BUG_INIT" = ShFirst /\ Shut' = Shut
  BY DEF BeginBugreport, UnchangedIO, ShFirst, Shut
<1>3. RunsOn("host") /\ net["host"] # <<>> /\ net["host"] \in Seq(ShSays)
  BY <1>1, <1>2, RunsOnBy DEF Creates, ProcInv
<1>4. Head(net["host"]) = Starts /\ Starts' = Starts
  <2>1. Head(net["host"]) \in ShSays /\ Head(net["host"]).cmd = ShFirst
    BY <1>2, <1>3 DEF Creates
  <2> QED BY <2>1, <1>2, Starting DEF Starts, ShFirst
<1>5. In(net["host"], Starts) /\ Single(net["host"], Starts) /\ rd = 0
      /\ ~In(net["daemon"], Starts)
  <2>1. In(net["host"], Starts)
    BY <1>3, <1>4, Taken
  <2> QED BY <2>1, <1>1 DEF ProcInv
<1>6. PICK lvs \in SUBSET {"fail"}, out \in Seq(ShSays) :
         Answer("host", lvs, out) /\ Single(out, Starts)
  <2>1. ASSUME Answer("host", {}, <<Wakeup, Msg("BUG_INIT", 0)>>)
        PROVE  \E lvs \in SUBSET {"fail"}, out \in Seq(ShSays) :
                  Answer("host", lvs, out) /\ Single(out, Starts)
    <3>1. Msg("BUG_INIT", 0) = Starts /\ Wakeup \in Plain
      BY <1>2, PlainOnes DEF Starts, Wakeup
    <3> DEFINE out == <<Wakeup, Starts>>
    <3>2. out \in Seq(ShSays) /\ Wakeup # Starts
      BY <3>1, Starting
    <3>3. Single(out, Starts)
      BY <3>2, Few
    <3>4. Answer("host", {}, out)
      BY <2>1, <3>1
    <3> HIDE DEF out
    <3> QED BY <3>2, <3>3, <3>4
  <2>2. ASSUME Answer("host", {"fail"}, <<Wakeup>> \o Fails("host"))
        PROVE  \E lvs \in SUBSET {"fail"}, out \in Seq(ShSays) :
                  Answer("host", lvs, out) /\ Single(out, Starts)
    <3> DEFINE out == <<Wakeup>> \o Fails("host")
    <3>1. out \in Seq(Plain)
      BY PlainSends
    <3>2. Answer("host", {"fail"}, out)
      BY <2>2
    <3> HIDE DEF out
    <3>3. out \in Seq(ShSays)
      BY <3>1, Starting, SeqDef
    <3>4. Single(out, Starts)
      BY <3>1, Starting DEF Single
    <3> QED BY <3>2, <3>3, <3>4
  <2> QED BY <2>1, <2>2 DEF BeginBugreport
<1>7. /\ net' \in [End -> Seq(ShSays)]
      /\ \A m : Single(out, m) /\ ~In(net["daemon"], m) => Single(net'["daemon"], m)
      /\ ~In(net'["host"], Starts)
  <2>1. PICK rest : rest = Tail(net["host"]) /\ Sends("host", rest, lvs, out)
    BY <1>6 DEF Answer
  <2>2. /\ net' \in [End -> Seq(ShSays)]
        /\ \A m : Single(out, m) /\ ~In(net[Other("host")], m) => Single(net'[Other("host")], m)
    BY <2>1, <1>1, <1>3, Passed DEF ProcInv
  <2>3. ~In(net'["host"], Starts)
    BY <1>1, <1>3, <1>4, <1>5, <1>6, Handled DEF ProcInv
  <2>4. Other("host") = "daemon"
    BY DEF Other
  <2> QED BY <2>2, <2>3, <2>4
<1>8. Single(net'["daemon"], Starts)
  BY <1>5, <1>6, <1>7
<1>9. Single(net'["host"], Starts)
  BY <1>7 DEF Single, In
<1>10. ProcInv'
  BY <1>1, <1>2, <1>4, <1>5, <1>7, <1>8, <1>9 DEF ProcInv, End
<1>11. Plus(refCount', refCount, "host", 0) /\ 0 \in Int
  BY <1>1, <1>2, PlusBy
<1>12. lw' + Shut' = (lw + Shut) + 0
  BY <1>1, <1>2 DEF Shut
<1> QED BY <1>2, <1>3, <1>10, <1>11, <1>12, HostCount

\* Steps of the daemon that send plain messages: r references more, w of them owed.
LEMMA DaemonQuiet ==
    ASSUME IInv, IsProcess, UNCHANGED <<kind, origin, task, log, lw>>, LoopRuns("daemon"),
           Quiet(ShSays), wr' \in Nat,
           NEW w \in {0, -1}, (w = 0 /\ UNCHANGED owed) \/ (w = -1 /\ Owe("daemon", -1)),
           NEW r \in {0, -1}, (r = 0 /\ UNCHANGED refCount) \/ (r = -1 /\ AddRef("daemon", -1)),
           rd' = rd + (r - w), rd' \in 0 .. 1, rd' = rd \/ rd' = 0
    PROVE  IInv'
<1>1. /\ BaseTypes /\ ProcInv /\ refCount \in [End -> Int] /\ owed \in [End -> Int]
      /\ lw \in Nat /\ owed["host"] = 0 /\ "daemon" \in End /\ "host" \in End /\ "host" # "daemon"
  BY ProcTypes
<1>2. w \in Int /\ r \in Int
  OBVIOUS
<1>3. Plus(owed', owed, "daemon", w)
  BY <1>1, <1>2, PlusBy DEF Owe
<1>4. Plus(refCount', refCount, "daemon", r)
  BY <1>1, <1>2, PlusBy DEF AddRef
<1>5. owed'["host"] = 0
  BY <1>1, <1>3 DEF Plus
<1>6. ProcInv'
  BY <1>1, <1>5, ProcNet
<1>7. RunsOn("daemon")
  BY <1>1, RunsOnBy
<1> QED BY <1>2, <1>3, <1>4, <1>6, <1>7, DaemonCount

\* FinishShellProc gives a reference back, and says that the task is over.
LEMMA FinishSays ==
    ASSUME Holds(ShSays), NEW others, FinishShellProc(others)
    PROVE  Quiet(ShSays) /\ AddRef("daemon", -1) /\ others
<1>1. IfHeard(Finish) \in Seq(Plain) /\ "daemon" \in End
  BY PlainSends DEF IfHeard, End
<1>2. Emit("daemon", {}, IfHeard(Finish))
  BY DEF FinishShellProc
<1>3. Quiet(ShSays)
  BY <1>1, <1>2, QuietSend
<1> QED BY <1>3 DEF FinishShellProc

\* The reads and writes of HdcFileDescriptor, and the input of the shell.
LEMMA DaemonSteps ==
    ASSUME IInv, IsProcess, OnRead \/ OnEndOfFile \/ OnWritten \/ ShellData
    PROVE  IInv'
<1>1. /\ BaseTypes /\ Holds(ShSays) /\ rd \in {0, 1} /\ wr \in Nat /\ "daemon" \in End
  BY ProcTypes
<1>2. 0 \in {0, -1} /\ -1 \in {0, -1} /\ 0 - 0 = 0 /\ (-1) - 0 = -1 /\ (-1) - (-1) = 0
  OBVIOUS
<1>3. CASE OnRead
  <2>1. UNCHANGED <<kind, origin, task, log, lw, wr, owed>> /\ LoopRuns("daemon") /\ rd = 1
    BY <1>3 DEF OnRead, UnchangedHost
  <2>2. CASE PeerHears
    <3>1. /\ Emit("daemon", {}, <<Msg(IF kind = "bugreport" THEN "BUG_DATA" ELSE "RAW", 0)>>)
          /\ UNCHANGED <<rd, refCount>>
      BY <1>3, <2>2 DEF OnRead
    <3>2. <<Msg(IF kind = "bugreport" THEN "BUG_DATA" ELSE "RAW", 0)>> \in Seq(Plain)
      <4>1. Msg(IF kind = "bugreport" THEN "BUG_DATA" ELSE "RAW", 0) \in Plain
        <5>1. Msg("BUG_DATA", 0) \in Plain /\ Msg("RAW", 0) \in Plain
          BY PlainOnes
        <5> QED BY <5>1
      <4> QED BY <4>1
    <3>3. Quiet(ShSays)
      BY <1>1, <3>1, <3>2, QuietSend
    <3>4. rd' = rd + (0 - 0) /\ rd' \in 0 .. 1 /\ wr' \in Nat
      BY <1>1, <2>1, <3>1
    <3> QED BY <1>2, <2>1, <3>1, <3>3, <3>4, DaemonQuiet
  <2>3. CASE ~PeerHears
    <3>1. FinishShellProc(rd' = 0)
      BY <1>3, <2>3 DEF OnRead
    <3>2. Quiet(ShSays) /\ AddRef("daemon", -1) /\ rd' = 0
      BY <1>1, <3>1, FinishSays
    <3>3. rd' = rd + ((-1) - 0) /\ rd' \in 0 .. 1 /\ wr' \in Nat
      BY <1>1, <2>1, <3>2
    <3> QED BY <1>2, <2>1, <3>2, <3>3, DaemonQuiet
  <2> QED BY <2>2, <2>3
<1>4. CASE OnEndOfFile
  <2>1. UNCHANGED <<kind, origin, task, log, lw, wr, owed>> /\ LoopRuns("daemon") /\ rd = 1
        /\ FinishShellProc(rd' = 0)
    BY <1>4 DEF OnEndOfFile, UnchangedHost, UnchangedIO
  <2>2. Quiet(ShSays) /\ AddRef("daemon", -1) /\ rd' = 0
    BY <1>1, <2>1, FinishSays
  <2>3. rd' = rd + ((-1) - 0) /\ rd' \in 0 .. 1 /\ wr' \in Nat
    BY <1>1, <2>1, <2>2
  <2> QED BY <1>2, <2>1, <2>2, <2>3, DaemonQuiet
<1>5. CASE OnWritten
  <2>1. UNCHANGED <<kind, origin, task, log, lw, rd>> /\ LoopRuns("daemon") /\ wr > 0 /\ wr' = wr - 1
    BY <1>5 DEF OnWritten, UnchangedHost
  <2>2. wr' \in Nat /\ rd' \in 0 .. 1 /\ rd' = rd + 0
    BY <1>1, <2>1
  <2>3. CASE UNCHANGED <<net, refCount, owed>>
    <3>1. Quiet(ShSays)
      BY <1>1, <2>3, QuietLoss
    <3>2. rd' = rd + (0 - 0)
      BY <2>2
    <3> QED BY <1>2, <2>1, <2>2, <2>3, <3>1, <3>2, DaemonQuiet
  <2>4. CASE FinishShellProc(Owe("daemon", -1))
    <3>1. Quiet(ShSays) /\ AddRef("daemon", -1) /\ Owe("daemon", -1)
      BY <1>1, <2>4, FinishSays
    <3>2. rd' = rd + ((-1) - (-1))
      BY <2>2
    <3> QED BY <1>2, <2>1, <2>2, <3>1, <3>2, DaemonQuiet
  <2> QED BY <1>5, <2>3, <2>4 DEF OnWritten
<1>6. CASE ShellData
  <2>1. UNCHANGED <<kind, origin, task, log, lw, rd, owed, refCount>> /\ task["daemon"] = "run"
        /\ net["daemon"] # <<>>
    BY <1>6 DEF ShellData, UnchangedHost, Gets
  <2>2. PICK out \in Seq(Plain) : Answer("daemon", {}, out)
    BY <1>6, PlainSends DEF ShellData
  <2>3. Quiet(ShSays)
    BY <1>1, <2>1, <2>2, QuietSend
  <2>4. wr' \in Nat
    BY <1>1, <1>6 DEF ShellData
  <2>5. rd' = rd + (0 - 0) /\ rd' \in 0 .. 1 /\ LoopRuns("daemon")
    BY <1>1, <2>1 DEF LoopRuns
  <2> QED BY <1>2, <2>1, <2>3, <2>4, <2>5, DaemonQuiet
<1> QED BY <1>3, <1>4, <1>5, <1>6

\* The output at the server, and the log.
LEMMA HostSteps ==
    ASSUME IInv, IsProcess, BugreportData \/ LogWritten \/ OnLogClosed
    PROVE  IInv'
<1>1. /\ BaseTypes /\ ProcInv /\ Holds(ShSays) /\ refCount \in [End -> Int]
      /\ rd \in 0 .. 1 /\ wr \in Nat /\ lw \in Nat /\ owed["host"] = 0 /\ "host" \in End
  BY ProcTypes
<1>2. 0 \in Int /\ 1 \in Int /\ -1 \in Int
  OBVIOUS
<1>3. ASSUME UNCHANGED <<kind, origin, task, rd, wr, owed>>, Quiet(ShSays),
             LoopRuns("host"), lw' \in Nat, NEW r \in Int,
             Plus(refCount', refCount, "host", r), lw' + Shut' = (lw + Shut) + r
      PROVE  IInv'
  <2>1. ProcInv'
    BY <1>1, <1>3, ProcNet
  <2>2. RunsOn("host")
    BY <1>1, <1>3, RunsOnBy
  <2> QED BY <1>3, <2>1, <2>2, HostCount
<1>s. Shut \in Int
  BY DEF Shut
<1>4. CASE BugreportData
  <2>1. UNCHANGED <<kind, origin, task, rd, wr, owed>> /\ LoopRuns("host") /\ Shut' = Shut
        /\ net["host"] # <<>> /\ Answer("host", {}, <<>>)
    BY <1>4 DEF BugreportData, Gets, LoopRuns, Shut
  <2>2. Quiet(ShSays)
    BY <1>1, <2>1, PlainSends, QuietSend
  <2>3. CASE lw' = lw + 1 /\ AddRef("host", 1)
    <3>1. Plus(refCount', refCount, "host", 1)
      BY <2>3, <1>1, <1>2, PlusBy DEF AddRef
    <3>2. lw' \in Nat /\ lw' + Shut' = (lw + Shut) + 1
      BY <2>1, <2>3, <1>1, <1>s
    <3> QED BY <2>1, <2>2, <3>1, <3>2, <1>2, <1>3
  <2>4. CASE UNCHANGED <<lw, refCount>>
    <3>1. Plus(refCount', refCount, "host", 0)
      BY <2>4, <1>1, <1>2, PlusBy
    <3>2. lw' \in Nat /\ lw' + Shut' = (lw + Shut) + 0
      BY <2>1, <2>4, <1>1, <1>s
    <3> QED BY <2>1, <2>2, <3>1, <3>2, <1>2, <1>3
  <2> QED BY <1>4, <2>3, <2>4 DEF BugreportData
<1>5. CASE LogWritten
  <2>1. UNCHANGED <<kind, origin, task, rd, wr, owed, net>> /\ LoopRuns("host") /\ Shut' = Shut
        /\ lw > 0 /\ lw' = lw - 1 /\ AddRef("host", -1)
    BY <1>5 DEF LogWritten, UnchangedIO, Shut
  <2>2. Quiet(ShSays)
    BY <1>1, <2>1, QuietLoss
  <2>3. Plus(refCount', refCount, "host", -1)
    BY <2>1, <1>1, <1>2, PlusBy DEF AddRef
  <2>4. lw' \in Nat /\ lw' + Shut' = (lw + Shut) + (-1)
    BY <2>1, <1>1, <1>s
  <2> QED BY <2>1, <2>2, <2>3, <2>4, <1>2, <1>3
<1>6. CASE OnLogClosed
  <2>1. UNCHANGED <<kind, origin, task, rd, wr, owed, net, lw>> /\ LoopRuns("host")
        /\ Shut = 1 /\ Shut' = 0 /\ AddRef("host", -1)
    BY <1>6 DEF OnLogClosed, UnchangedIO, Shut
  <2>2. Quiet(ShSays)
    BY <1>1, <2>1, QuietLoss
  <2>3. Plus(refCount', refCount, "host", -1)
    BY <2>1, <1>1, <1>2, PlusBy DEF AddRef
  <2>4. lw' \in Nat /\ lw' + Shut' = (lw + Shut) + (-1)
    BY <2>1, <1>1
  <2> QED BY <2>1, <2>2, <2>3, <2>4, <1>2, <1>3
<1> QED BY <1>4, <1>5, <1>6

\* Steps that touch no reference: what the process and the user do, and what is shown.
LEMMA ProcPeer ==
    ASSUME IInv, IsProcess, ShPeer \/ EchoRaw
    PROVE  IInv'
<1>1. Holds(ShSays) /\ ProcInv /\ "host" \in End /\ "daemon" \in End
  BY ProcTypes
<1>2. UNCHANGED <<kind, origin, task, refCount, owed, rd, wr, lw, log>>
  BY DEF ShPeer, ProcessWrites, ProcessExits, ClientTypes, EchoRaw, UnchangedHost, UnchangedIO,
         taskVars
<1>3. CASE ProcessWrites \/ ProcessExits
  <2>1. UNCHANGED net
    BY <1>3 DEF ProcessWrites, ProcessExits, taskVars
  <2> QED BY <2>1, <1>1, <1>2, QuietLoss, ProcStill
<1>4. CASE EchoRaw
  <2>1. net["host"] # <<>> /\ Answer("host", {}, <<>>)
    BY <1>4 DEF EchoRaw
  <2> QED BY <2>1, <1>1, <1>2, PlainSends, QuietSend, ProcStill
<1>5. CASE ClientTypes
  <2>1. net' = [net EXCEPT !["daemon"] = Append(@, Msg("SHELL_DATA", 0))]
    BY <1>5 DEF ClientTypes
  <2> DEFINE q == net["daemon"]
             out == <<Msg("SHELL_DATA", 0)>>
  <2>2. Msg("SHELL_DATA", 0) \in Plain /\ Plain \subseteq ShSays
    BY PlainOnes, Starting
  <2>3. q \in Seq(ShSays) /\ out \in Seq(ShSays) /\ Append(q, Msg("SHELL_DATA", 0)) = q \o out
    BY <1>1, <2>2 DEF ProcInv
  <2>4. \A m : In(out, m) => m \in Plain
    BY <2>2, Few
  <2>5. /\ q \o out \in Seq(ShSays)
        /\ \A m : In(q \o out, m) => In(q, m) \/ In(out, m)
        /\ \A m : Single(q, m) /\ ~In(out, m) => Single(q \o out, m)
    BY <2>3, Joined
  <2>6. net \in [End -> Seq(ShSays)] /\ net' = [net EXCEPT !["daemon"] = q \o out]
    BY <1>1, <2>1, <2>3 DEF ProcInv
  <2> HIDE DEF out
  <2>7. net' \in [End -> Seq(ShSays)] /\ net'["daemon"] = q \o out
        /\ \A d \in End : d # "daemon" => net'[d] = net[d]
    BY <2>5, <2>6, <1>1
  <2>8. Quiet(ShSays)
    BY <2>4, <2>5, <2>7 DEF Quiet
  <2> QED BY <2>8, <1>2, ProcStill
<1> QED BY <1>3, <1>4, <1>5 DEF ShPeer

\* StopTask closes the log at the server; at the daemon it kills the process only.
LEMMA ProcCommon ==
    ASSUME IInv, IsProcess, CommonStep
    PROVE  IInv'
<1>1. /\ BaseTypes /\ ProcInv /\ GoneInv /\ Holds(ShSays) /\ refCount \in [End -> Int]
      /\ owed \in [End -> Int] /\ rd \in 0 .. 1 /\ wr \in Nat /\ lw \in Nat
      /\ owed["host"] = 0 /\ "host" \in End /\ "daemon" \in End
  BY ProcTypes
<1>2. /\ Common /\ UNCHANGED <<kind, origin, owed>>
      /\ task' \in [End -> {"none", "run", "stop", "gone"}]
      /\ Keeping \/ \E e \in End : Stopping(e)
  BY <1>1, CommonMoves
<1>3. Quiet(ShSays)
  BY <1>1, <1>2, CommonQuiet
<1>n. 0 \in Int /\ 1 \in Int
  OBVIOUS
<1>4. CASE Keeping
  <2>1. UNCHANGED <<refCount, rd, wr, lw, log>>
    BY <1>4 DEF Keeping, ClassVarsKept, shVars
  <2>2. ProcInv'
    BY <1>1, <1>2, <1>3, <2>1, ProcNet
  <2>3. RefCounted'
    <3>1. IsProcess'
      BY <1>2 DEF IsProcess
    <3> QED BY <2>1, <1>2, <3>1, ProcMeaning DEF IInv, Shut
  <2>4. \A e \in End : task'[e] = "gone" => task[e] = "gone" \/ (refCount[e] = 0 /\ ShReady(e))
    BY <1>4, ReadyMeans, FwdMeaning DEF Keeping
  <2>5. task'["host"] = "gone" => refCount'["host"] = 0 /\ log' \notin {"on", "closing"}
    BY <2>1, <2>4, <1>1 DEF GoneInv, ShReady
  <2>6. task'["daemon"] = "gone" => refCount'["daemon"] = 0 /\ rd' = 0 /\ wr' = 0
    <3>1. rd + wr = 0 => rd = 0 /\ wr = 0
      BY <1>1
    <3> QED BY <3>1, <2>1, <2>4, <1>1 DEF GoneInv, ShReady
  <2> QED BY <1>1, <1>2, <2>1, <2>2, <2>3, <2>5, <2>6, ProcDone
<1>5. ASSUME NEW e \in End, Stopping(e) PROVE IInv'
  <2>1. task' = [task EXCEPT ![e] = "stop"] /\ ShStopTask(e)
    <3>1. task[e] = "run" /\ StopTask(e) /\ ~IsForward /\ ~IsTransfer
      BY <1>5, FwdMeaning DEF Stopping
    <3> QED BY <3>1, <1>5 DEF Stopping, StopTask
  <2>2. RunsOn(e)
    BY <2>1, <1>1 DEF RunsOn, BaseTypes
  <2>3. UNCHANGED <<rd, wr, lw>>
    BY <2>1 DEF ShStopTask
  <2>4. ProcInv'
    BY <1>1, <1>2, <1>3, <2>3, ProcNet
  <2>5. CASE e = "host"
    <3>1. HostStopTask
      BY <2>1, <2>5 DEF ShStopTask
    <3>2. CASE log = "on"
      <4>1. refCount' = [refCount EXCEPT !["host"] = @ + 1] /\ Shut = 0 /\ Shut' = 1
        BY <3>1, <3>2 DEF HostStopTask, Shut
      <4>2. Plus(refCount', refCount, "host", 1)
        BY <4>1, <1>1, <1>n, PlusBy
      <4>3. lw' + Shut' = (lw + Shut) + 1
        BY <4>1, <2>3, <1>1
      <4> QED BY <1>2, <1>n, <2>2, <2>3, <2>4, <2>5, <4>2, <4>3, HostCount
    <3>3. CASE log # "on"
      <4>1. UNCHANGED <<refCount, log>>
        BY <3>1, <3>3, <1>1 DEF HostStopTask
      <4>2. Plus(refCount', refCount, "host", 0)
        BY <4>1, <1>1, <1>n, PlusBy
      <4>3. lw' + Shut' = (lw + Shut) + 0
        BY <4>1, <2>3, <1>1 DEF Shut
      <4> QED BY <1>2, <1>n, <2>2, <2>3, <2>4, <2>5, <4>2, <4>3, HostCount
    <3> QED BY <3>2, <3>3
  <2>6. CASE e = "daemon"
    <3>1. UNCHANGED <<log, refCount>>
      BY <2>1, <2>6 DEF ShStopTask, DaemonStopTask
    <3>2. Plus(refCount', refCount, "daemon", 0) /\ Plus(owed', owed, "daemon", 0)
      BY <3>1, <1>1, <1>2, <1>n, PlusBy
    <3>3. rd' = rd + (0 - 0)
      BY <2>3, <1>1
    <3> QED BY <1>2, <1>n, <2>2, <2>3, <2>4, <2>6, <3>1, <3>2, <3>3, DaemonCount
  <2> QED BY <2>5, <2>6 DEF End
<1> QED BY <1>2, <1>4, <1>5

\* All that a process does.
LEMMA ProcStep ==
    ASSUME IInv, IsProcess, NEW e \in End, ShReceive(e) \/ ShCallBack(e)
    PROVE  IInv'
BY StartSteps, BugreportStep, DaemonSteps, HostSteps, ProcPeer DEF ShReceive, ShCallBack

-----------------------------------------------------------------------------
(* The theorems.                                                           *)

\* Every command belongs to a class.
LEMMA Classes == kind \in Kinds => IsForward \/ IsTransfer \/ IsProcess
BY TaskAssumption DEF IsForward, IsTransfer, IsProcess

\* The first command is under way, and nothing is counted.
LEMMA InitInv == Init => IInv
<1> SUFFICES ASSUME Init PROVE IInv
  OBVIOUS
<1>e. End = {"host", "daemon"} /\ "host" \in End /\ "daemon" \in End
  BY DEF End
<1>1. BaseTypes /\ refCount = Both(0) /\ owed = Both(0) /\ task = Both("none")
  <2>1. origin \in End
    BY TaskAssumption, <1>e DEF Init
  <2> QED BY <2>1 DEF Init, TaskInit, Both, BaseTypes
<1>2. \A e \in End : refCount[e] = 0 /\ owed[e] = 0 /\ task[e] = "none"
  BY <1>1 DEF Both
<1>3. GoneInv
  BY <1>2 DEF GoneInv
<1> DEFINE first == CASE IsForward -> "FWD_INIT" [] IsTransfer -> "X_INIT" [] OTHER -> ShFirst
           m == Msg(first, 0)
<1>4. net = [e \in End |-> IF e = origin THEN <<m>> ELSE <<>>] /\ origin \in End
  BY <1>1 DEF Init, TaskInit, BaseTypes
<1> HIDE DEF m
<1>5. /\ \A e \in End : \A x : In(net[e], x) => e = origin /\ x = m
      /\ \A e \in End : \A x : Single(net[e], x)
  <2>1. \A x : (In(<<m>>, x) <=> x = m) /\ Single(<<m>>, x)
    BY Few
  <2>2. \A x : ~In(<<>>, x) /\ Single(<<>>, x)
    BY Emptied
  <2> QED BY <2>1, <2>2, <1>4
<1>6. ASSUME NEW S, m \in S PROVE net \in [End -> Seq(S)]
  <2>1. <<m>> \in Seq(S) /\ <<>> \in Seq(S)
    BY <1>6
  <2> QED BY <2>1, <1>4
<1>7. CASE IsForward
  <2>1. m = First
    BY <1>7, FwdMeaning DEF m, First
  <2>2. /\ ctx = Both([k \in Number |-> "none"]) /\ id = [k \in Number |-> k]
        /\ mapCtx = Both([k \in Number |-> -1]) /\ idle = {}
    BY DEF Init, FwdInit
  <2>3. \A e \in End, k \in Number : ctx[e][k] = "none" /\ mapCtx[e][k] = -1 /\ id[k] = k
    BY <2>2 DEF Both
  <2>4. FwdTypes
    <3>1. ctx \in [End -> [Number -> CtxStates]] /\ mapCtx \in [End -> [Number -> Number \cup {-1}]]
      BY <2>2 DEF Both, CtxStates
    <3>2. net \in [End -> Seq(FwdSays)]
      BY <2>1, <1>6, Tokens
    <3> QED BY <2>2, <3>1, <3>2 DEF FwdTypes
  <2>5. OpenInv
    <3>1. 0 \in Number /\ Slave \in End
      BY <1>4, Ends2, ForwardAssumption DEF Number, Slave
    <3>2. \A e \in End : In(net[e], First) =>
              e = origin /\ Single(net[e], First) /\ ctx[origin][0] = "none"
      BY <3>1, <1>4, <1>5, <2>3
    <3>3. \A e \in End, k \in Number : ~In(net[e], Opens(k))
      BY <2>1, <1>5, Tokens
    <3> QED BY <3>1, <3>2, <3>3, <2>2, <2>3 DEF OpenInv
  <2>6. MapInv
    <3>1. 0 \in Number /\ Conn \subseteq Number
      BY ForwardAssumption DEF Number, Conn
    <3>2. \A k \in Conn : id[k] = k /\ id[k] \in Conn
      BY <3>1, <2>3, <1>e
    <3>3. \A e \in End, k \in Number : mapCtx[e][k] = -1
      BY <2>3
    <3>4. id[0] = 0
      BY <3>1, <2>3, <1>e
    <3>5. \A e \in End, i \in Number : mapCtx[e][i] # -1 =>
              id[mapCtx[e][i]] = i /\ ctx[e][mapCtx[e][i]] \notin {"none", "freed"}
      BY <3>3
    <3> QED BY <3>2, <3>4, <3>5 DEF MapInv
  <2>7. RefCounted
    <3>1. \A e \in End : Live(e) = {}
      BY <2>3 DEF Live
    <3>2. \A e \in End : Cardinality(Live(e)) = 0 /\ Cardinality(idle) = 0
      BY <3>1, <2>2, FS_EmptySet
    <3>3. \A e \in End : refCount[e] =
             (Cardinality(Live(e)) + (IF e = Slave THEN Cardinality(idle) ELSE 0)) + owed[e]
      BY <3>2, <1>2
    <3> QED BY <1>7, <3>3, FwdMeaning
  <2> QED BY <1>1, <1>2, <1>3, <1>7, <2>4, <2>5, <2>6, <2>7, FwdMeaning DEF IInv, FwdInv
<1>8. CASE IsTransfer
  <2>1. opening = Both(0) /\ closing = Both(0) /\ io = Both(<<>>) /\ async = 0
    BY DEF Init, XferInit
  <2>2. \A e \in End : opening[e] = 0 /\ closing[e] = 0 /\ io[e] = <<>>
    BY <2>1 DEF Both
  <2>3. XferInv
    <3>1. opening \in [End -> Nat] /\ closing \in [End -> Nat] /\ DOMAIN io = End
      BY <2>1 DEF Both
    <3>2. IsSeq(<<>>)
      <4>1. <<>> \in Seq({})
        OBVIOUS
      <4> QED BY <4>1 DEF IsSeq
    <3> QED BY <2>1, <2>2, <3>1, <3>2, <1>2 DEF XferInv
  <2>4. RefCounted
    <3>1. Len(<<>>) = 0
      OBVIOUS
    <3>2. \A e \in End : refCount[e] = Waits(e) + owed[e]
      BY <2>1, <2>2, <3>1, <1>2 DEF Waits
    <3> QED BY <3>2, <1>8, XferMeaning
  <2> QED BY <1>1, <1>3, <1>8, <2>3, <2>4, FwdMeaning DEF IInv
<1>9. CASE IsProcess
  <2>1. m = Starts
    BY <1>9, FwdMeaning DEF m, Starts
  <2>2. rd = 0 /\ wr = 0 /\ lw = 0 /\ log \in {"off", "wanted"}
    BY DEF Init, ShInit
  <2>3. net \in [End -> Seq(ShSays)]
    BY <2>1, <1>6, Starting
  <2>4. ProcInv
    BY <2>2, <2>3, <1>2, <1>5, <1>e DEF ProcInv
  <2>5. RefCounted
    <3>1. refCount["daemon"] = rd + owed["daemon"] /\ refCount["host"] = (lw + Shut) + owed["host"]
      BY <2>2, <1>2, <1>e DEF Shut
    <3> QED BY <3>1, <1>9, ProcMeaning
  <2> QED BY <1>1, <1>3, <1>9, <2>4, <2>5, FwdMeaning DEF IInv
<1> QED BY <1>1, <1>7, <1>8, <1>9, Classes DEF BaseTypes

\* Every step keeps the invariant.
LEMMA NextInv == IInv /\ [Next]_vars => IInv'
<1> SUFFICES ASSUME IInv, [Next]_vars PROVE IInv'
  OBVIOUS
<1>0. /\ IsForward \/ IsTransfer \/ IsProcess
      /\ "host" \in End
  BY Classes DEF IInv, BaseTypes, End
<1>1. ASSUME NEW e \in End, Receive(e) \/ CallBack(e) PROVE IInv'
  BY <1>1, FwdStep, XferStep, ProcStep DEF Receive, CallBack
<1>2. CASE Peer
  BY <1>2, FwdStep, ProcPeer DEF Peer
<1>3. CASE CommonStep
  BY <1>3, <1>0, FwdCommon, XferCommon, ProcCommon
<1>4. CASE UNCHANGED vars
  <2> USE <1>4 DEF vars, taskVars, fwdVars, xferVars, ctxVars, shVars
  <2>1. UNCHANGED <<kind, origin, task, refCount, owed, net, ctx, id, mapCtx, idle>>
        /\ UNCHANGED <<opening, closing, io, async, rd, wr, lw, log>>
    OBVIOUS
  <2>2. CASE IsForward
    <3>1. FwdInv /\ FwdTypes /\ BaseTypes /\ GoneInv /\ Holds(FwdSays)
      BY <2>2, FwdHolds DEF IInv, FwdInv
    <3>2. Quiet(FwdSays)
      BY <2>1, <3>1, QuietLoss
    <3>3. CtxMoves /\ GoneStep
      BY <2>1, <3>1, TaskKept DEF CtxMoves, FwdTypes
    <3> QED BY <2>1, <2>2, <3>2, <3>3, FwdQuietStep
  <2>3. CASE IsTransfer
    <3>1. XferInv' /\ refCount' \in [End -> Int] /\ owed' \in [End -> Int] /\ GoneStep
      BY <2>1, <2>3, XferTypes, TaskKept DEF XferInv, IInv
    <3>2. RefCounted'
      <4>1. IsTransfer' /\ \A e \in End : refCount[e] = Waits(e) + owed[e]
        BY <2>1, <2>3, XferMeaning DEF IInv, IsTransfer
      <4>2. \A e \in End : Waits(e)' = Waits(e)
        BY <2>1 DEF Waits
      <4> QED BY <4>1, <4>2, <2>1, XferMeaning
    <3> QED BY <2>1, <2>3, <3>1, <3>2, XferDone
  <2>4. CASE IsProcess
    <3>1. Quiet(ShSays)
      BY <2>1, <2>4, ProcTypes, QuietLoss
    <3> QED BY <2>1, <2>4, <3>1, ProcStill
  <2> QED BY <1>0, <2>2, <2>3, <2>4
<1>5. ASSUME Next PROVE \/ \E e \in End : Receive(e) \/ CallBack(e)
                        \/ Peer \/ CommonStep
  BY <1>5, <1>0 DEF Next, Fetch, CommonStep
<1> QED BY <1>1, <1>2, <1>3, <1>4, <1>5

\* IInv holds always.
THEOREM Invariance == Spec => []IInv
<1> QED BY InitInv, NextInv, PTL DEF Spec

\* The reference count of a task is the number of callbacks it waits for, and of the
\* references the code miscounts: of a forward its contexts that are not deleted and its
\* idle callbacks, of a transfer its requests to libuv and the commands of the package
\* manager, of a process its read and the writes and the close of the log.
THEOREM References == Spec => []RefCounted
<1>1. IInv => RefCounted
  BY DEF IInv
<1> QED BY <1>1, Invariance, PTL

\* No callback finds the task it belongs to deleted: TryRemoveTask waits for all of them.
THEOREM GoneIsUnreachable == Spec => []NothingOutlives
<1>1. ASSUME IInv PROVE NothingOutlives
  <2> SUFFICES ASSUME NEW e \in End, task[e] = "gone"
               PROVE  Pending(e) = 0 /\ (IsProcess => IF e = "host" THEN log # "on" ELSE wr = 0)
    BY DEF NothingOutlives
  <2>1. refCount[e] = 0 /\ (IsForward \/ IsTransfer \/ IsProcess)
        /\ (IsProcess => IF e = "host" THEN log \notin {"on", "closing"} ELSE rd = 0 /\ wr = 0)
    BY <1>1, Classes DEF IInv, GoneInv, BaseTypes
  <2>2. refCount[e] = Pending(e) + owed[e]
    BY <1>1 DEF IInv, RefCounted
  <2>3. CASE IsForward
    <3>1. owed[e] = 0 /\ Cardinality(idle) \in Nat /\ Cardinality(Live(e)) \in Nat
      <4>1. IsFiniteSet(Number)
        BY FS_Interval, ForwardAssumption DEF Number
      <4>2. Cardinality(Live(e)) \in Nat
        BY <4>1, FS_Subset, FS_CardinalityType DEF Live
      <4> QED BY <4>2, <1>1, <2>3, IdleCount DEF IInv, FwdInv
    <3>2. Pending(e) = Cardinality(Live(e)) + (IF e = Slave THEN Cardinality(idle) ELSE 0)
      BY <2>3, FwdMeaning DEF Pending
    <3> QED BY <2>1, <2>2, <2>3, <3>1, <3>2, FwdMeaning
  <2>4. CASE IsTransfer
    <3>1. /\ opening[e] \in Int /\ opening[e] >= 0 /\ closing[e] \in Int /\ closing[e] >= 0
          /\ async \in Int /\ async >= 0 /\ owed[e] \in Int /\ owed[e] >= 0 /\ Len(io[e]) \in Nat
      BY <1>1, <2>4, XferTypes, Requests DEF XferInv
    <3>2. Pending(e) = opening[e] + closing[e] + Len(io[e]) + (IF e = "daemon" THEN async ELSE 0)
      BY <2>4, FwdMeaning DEF Pending
    <3> DEFINE s == IF e = "daemon" THEN async ELSE 0
    <3>3. s \in Int /\ s >= 0
      BY <3>1
    <3> HIDE DEF s
    <3>4. Pending(e) = opening[e] + closing[e] + Len(io[e]) + s
      BY <3>2 DEF s
    <3>5. Pending(e) = 0
      BY <2>1, <2>2, <3>1, <3>3, <3>4
    <3> QED BY <2>4, <3>5, FwdMeaning
  <2>5. CASE IsProcess
    <3>1. lw \in Nat /\ owed["host"] = 0
      BY <1>1, <2>5, ProcTypes
    <3>2. Pending(e) = IF e = "daemon" THEN rd ELSE lw + (IF log = "closing" THEN 1 ELSE 0)
      BY <2>5, FwdMeaning DEF Pending
    <3>3. CASE e = "host"
      <4>1. Pending(e) = lw /\ log # "on"
        BY <2>1, <2>5, <3>1, <3>2, <3>3
      <4>2. Pending(e) = 0
        BY <2>1, <2>2, <3>1, <3>3, <4>1
      <4> QED BY <3>3, <4>1, <4>2
    <3>4. CASE e = "daemon"
      BY <2>1, <2>5, <3>2, <3>4
    <3> QED BY <3>3, <3>4 DEF End
  <2> QED BY <2>1, <2>3, <2>4, <2>5
<1> QED BY <1>1, Invariance, PTL

-----------------------------------------------------------------------------
(* What a process says: its output and the end of its channel.             *)

\* The other variables that all commands have.
TaskTypes ==
    /\ session \in {"up", "down"} /\ orphan \in [End -> Nat]
    /\ chan \in {"open", "asked", "dead", "gone"} /\ told \subseteq {"ok", "fail"}

\* How many messages of M a queue holds.
Places(q, M) == {i \in 1 .. Len(q) : q[i] \in M}
Count(q, M) == Cardinality(Places(q, M))

\* Numbers that are moved are as many.
LEMMA Moved ==
    ASSUME NEW S \in SUBSET Int, IsFiniteSet(S), NEW k \in Int
    PROVE  /\ IsFiniteSet({i + k : i \in S})
           /\ Cardinality({i + k : i \in S}) = Cardinality(S)
<1> DEFINE T == {i + k : i \in S}
           f == [i \in S |-> i + k]
<1>1. f \in [S -> T] /\ \A i \in S : f[i] = i + k
  OBVIOUS
<1>2. \A i, j \in S : f[i] = f[j] => i = j
  BY <1>1
<1>3. \A t \in T : \E i \in S : f[i] = t
  BY <1>1
<1>4. f \in Bijection(S, T)
  BY <1>1, <1>2, <1>3 DEF Bijection, Injection, Surjection, IsInjective
<1>5. ExistsBijection(S, T)
  BY <1>4 DEF ExistsBijection
<1> QED BY <1>5, FS_Bijection

\* A count is a number; it is zero when there is no such message.
LEMMA CountNat ==
    ASSUME NEW S, NEW q \in Seq(S), NEW M
    PROVE  /\ IsFiniteSet(Places(q, M)) /\ Count(q, M) \in Nat
           /\ Count(q, M) = 0 <=> \A m \in M : ~In(q, m)
<1>1. Len(q) \in Nat
  OBVIOUS
<1>2. IsFiniteSet(1 .. Len(q))
  BY <1>1, FS_Interval
<1>3. IsFiniteSet(Places(q, M)) /\ Count(q, M) \in Nat
  BY <1>2, FS_Subset, FS_CardinalityType DEF Count, Places
<1>4. Count(q, M) = 0 <=> Places(q, M) = {}
  BY <1>3, FS_EmptySet DEF Count
<1>5. Places(q, M) = {} <=> \A m \in M : ~In(q, m)
  BY DEF Places, In
<1> QED BY <1>3, <1>4, <1>5

\* The messages of two queues, one behind the other.
LEMMA CountJoin ==
    ASSUME NEW S, NEW q \in Seq(S), NEW r \in Seq(S), NEW M
    PROVE  Count(q \o r, M) = Count(q, M) + Count(r, M)
<1>1. /\ Len(q) \in Nat /\ Len(r) \in Nat /\ Len(q \o r) = Len(q) + Len(r)
      /\ \A i \in 1 .. Len(q) : (q \o r)[i] = q[i]
      /\ \A i \in 1 .. Len(r) : (q \o r)[i + Len(q)] = r[i]
  OBVIOUS
<1> DEFINE k == Len(q)
           A == Places(q, M)
           B == Places(r, M)
           C == {i + k : i \in B}
<1>2. IsFiniteSet(A) /\ Cardinality(A) \in Nat /\ IsFiniteSet(B) /\ Cardinality(B) \in Nat
  BY CountNat DEF Count
<1>3. B \in SUBSET Int /\ k \in Int
  BY <1>1 DEF Places
<1>4. IsFiniteSet(C) /\ Cardinality(C) = Cardinality(B)
  BY <1>2, <1>3, Moved
<1>5. Places(q \o r, M) = A \cup C
  <2> DEFINE w == q \o r
  <2>1. /\ Len(w) = k + Len(r) /\ \A i \in 1 .. k : w[i] = q[i]
        /\ \A i \in 1 .. Len(r) : w[i + k] = r[i]
    BY <1>1
  <2> HIDE DEF w
  <2>2. k \in Nat /\ Len(r) \in Nat
    BY <1>1
  <2> HIDE DEF k
  <2>3. ASSUME NEW i \in Places(w, M) PROVE i \in A \cup C
    <3>1. i \in 1 .. k + Len(r) /\ w[i] \in M
      BY <2>1 DEF Places
    <3>2. CASE i <= k
      BY <3>1, <3>2, <2>1, <2>2 DEF Places, k
    <3>3. CASE i > k
      <4> DEFINE j == i - k
      <4>1. j \in 1 .. Len(r) /\ j + k = i
        BY <3>1, <3>3, <2>2
      <4>2. r[j] \in M
        BY <4>1, <3>1, <2>1
      <4>3. j \in B
        BY <4>1, <4>2 DEF Places
      <4> QED BY <4>1, <4>3
    <3> QED BY <3>1, <3>2, <3>3, <2>2
  <2>4. ASSUME NEW i \in A PROVE i \in Places(w, M)
    BY <2>1, <2>2 DEF Places, k
  <2>5. ASSUME NEW i \in B PROVE i + k \in Places(w, M)
    BY <2>1, <2>2 DEF Places
  <2> QED BY <2>3, <2>4, <2>5 DEF w
<1>6. A \cap C = {}
  BY <1>1 DEF Places
<1>7. Cardinality(A \cup C) = Cardinality(A) + Cardinality(C) - Cardinality(A \cap C)
  BY <1>2, <1>4, FS_Union
<1>8. Cardinality(A \cap C) = 0
  BY <1>6, FS_EmptySet
<1> QED BY <1>2, <1>4, <1>5, <1>7, <1>8 DEF Count

\* Sequences of none and of one message.
LEMMA CountFew ==
    ASSUME NEW M
    PROVE  /\ Count(<<>>, M) = 0
           /\ \A x : Count(<<x>>, M) = IF x \in M THEN 1 ELSE 0
<1>1. Count(<<>>, M) = 0
  <2>1. Places(<<>>, M) = {}
    BY DEF Places
  <2> QED BY <2>1, FS_EmptySet DEF Count
<1>2. ASSUME NEW x PROVE Count(<<x>>, M) = IF x \in M THEN 1 ELSE 0
  <2> DEFINE q == <<x>>
  <2>1. Len(q) = 1 /\ q[1] = x
    OBVIOUS
  <2> HIDE DEF q
  <2>2. Places(q, M) = IF x \in M THEN {1} ELSE {}
    BY <2>1 DEF Places
  <2> QED BY <2>2, FS_EmptySet, FS_Singleton DEF Count, q
<1> QED BY <1>1, <1>2

\* Two messages.
LEMMA CountTwo ==
    ASSUME NEW M, NEW x, NEW y
    PROVE  Count(<<x, y>>, M) = (IF x \in M THEN 1 ELSE 0) + (IF y \in M THEN 1 ELSE 0)
<1> DEFINE S == {x, y}
<1>1. x \in S /\ y \in S
  OBVIOUS
<1> HIDE DEF S
<1>2. <<x>> \in Seq(S) /\ <<y>> \in Seq(S)
  BY <1>1
<1>3. <<x, y>> = <<x>> \o <<y>>
  <2> DEFINE q == <<x, y>>
             r == <<x>> \o <<y>>
  <2>1. q \in Seq(S) /\ Len(q) = 2 /\ q[1] = x /\ q[2] = y
    BY <1>1
  <2>2. r \in Seq(S) /\ Len(r) = 2 /\ r[1] = x /\ r[2] = y
    BY <1>1, <1>2
  <2> HIDE DEF q, r
  <2>3. \A i \in 1 .. Len(q) : q[i] = r[i]
    BY <2>1, <2>2
  <2>4. q = r
    BY <2>1, <2>2, <2>3, SeqEqual
  <2> QED BY <2>4 DEF q, r
<1>4. Count(<<x>> \o <<y>>, M) = Count(<<x>>, M) + Count(<<y>>, M)
  BY <1>2, CountJoin
<1>5. Count(<<x, y>>, M) = Count(<<x>>, M) + Count(<<y>>, M)
  BY <1>3, <1>4, Zenon
<1> QED BY <1>5, CountFew

\* The first message, and the others.
LEMMA CountTail ==
    ASSUME NEW S, NEW q \in Seq(S), q # <<>>, NEW M
    PROVE  Count(q, M) = Count(Tail(q), M) + (IF Head(q) \in M THEN 1 ELSE 0)
<1>1. Head(q) \in S /\ Tail(q) \in Seq(S) /\ <<Head(q)>> \in Seq(S)
  OBVIOUS
<1>2. q = <<Head(q)>> \o Tail(q)
  OBVIOUS
<1>3. Count(<<Head(q)>> \o Tail(q), M) = Count(<<Head(q)>>, M) + Count(Tail(q), M)
  BY <1>1, CountJoin
<1>4. Count(Tail(q), M) \in Nat
  BY <1>1, CountNat
<1>5. Count(q, M) = Count(<<Head(q)>>, M) + Count(Tail(q), M)
  BY <1>2, <1>3, Zenon
<1>6. Count(<<Head(q)>>, M) = IF Head(q) \in M THEN 1 ELSE 0
  BY CountFew
<1> QED BY <1>4, <1>5, <1>6

\* A step takes the first message of an end, or none, and puts others into the queue of
\* the other end; all is lost when the session is over.
Rests(e, rest) == rest = net[e] \/ (net[e] # <<>> /\ rest = Tail(net[e]))
Passes(e, rest, out) ==
    \/ session' # "up" /\ net' = Both(<<>>)
    \/ net' = [d \in End |-> IF d = e THEN rest ELSE net[d] \o out]

\* What both ends have after such a step, and how many messages of M.
LEMMA PassFacts ==
    ASSUME NEW S, net \in [End -> Seq(S)], NEW e \in End, NEW rest, Rests(e, rest),
           NEW out \in Seq(S), Passes(e, rest, out)
    PROVE  /\ net' \in [End -> Seq(S)] /\ rest \in Seq(S)
           /\ \A m : In(net'[e], m) => In(rest, m)
           /\ \A m : In(rest, m) => In(net[e], m)
           /\ \A m : In(net'[Other(e)], m) => In(net[Other(e)], m) \/ In(out, m)
           /\ \A m : Single(net[e], m) => Single(net'[e], m)
           /\ \A m : Single(net[Other(e)], m) /\ ~In(out, m) => Single(net'[Other(e)], m)
           /\ \A m : Single(out, m) /\ ~In(net[Other(e)], m) => Single(net'[Other(e)], m)
<1>0. net[e] \in Seq(S) /\ net[Other(e)] \in Seq(S)
  BY Ends2
<1>1. /\ rest \in Seq(S) /\ \A m : In(rest, m) => In(net[e], m)
      /\ \A m : Single(net[e], m) => Single(rest, m)
  <2>1. CASE rest = net[e]
    BY <1>0, <2>1
  <2>2. CASE net[e] # <<>> /\ rest = Tail(net[e])
    BY <1>0, <2>2, Taken
  <2> QED BY <2>1, <2>2 DEF Rests
<1>2. CASE net' = Both(<<>>)
  <2>1. \A d \in End : net'[d] = <<>>
    BY <1>2 DEF Both
  <2>2. net' \in [End -> Seq(S)]
    BY <1>2 DEF Both
  <2> QED BY <1>1, <2>1, <2>2, Emptied, Ends2
<1>3. CASE net' = [d \in End |-> IF d = e THEN rest ELSE net[d] \o out]
  <2>1. net'[e] = rest /\ net'[Other(e)] = net[Other(e)] \o out
    BY <1>3, Ends2
  <2> DEFINE q == net[Other(e)]
             r == q \o out
  <2>2. /\ r \in Seq(S)
        /\ \A m : In(r, m) => In(q, m) \/ In(out, m)
        /\ \A m : Single(q, m) /\ ~In(out, m) => Single(r, m)
        /\ \A m : ~In(q, m) /\ Single(out, m) => Single(r, m)
    BY <1>0, Joined
  <2>3. net' \in [End -> Seq(S)]
    <3>0. net'[e] \in Seq(S) /\ net'[Other(e)] \in Seq(S)
      BY <1>1, <2>1, <2>2
    <3>1. \A d \in End : net'[d] \in Seq(S)
      <4> TAKE d \in End
      <4>1. d = e \/ d = Other(e)
        BY Ends2
      <4> QED BY <3>0, <4>1
    <3>2. net' = [d \in End |-> net'[d]]
      BY <1>3
    <3> QED BY <3>1, <3>2
  <2> QED BY <1>1, <2>1, <2>2, <2>3
<1> QED BY <1>2, <1>3 DEF Passes

\* How it changes the number of messages of M.
Accounts(e, rest, out, M) ==
    /\ \A d \in End : Count(net[d], M) \in Nat /\ Count(net'[d], M) \in Nat
    /\ Count(rest, M) \in Nat /\ Count(out, M) \in Nat
    /\ Count(net'[e], M) <= Count(rest, M)
    /\ Count(net'[Other(e)], M) <= Count(net[Other(e)], M) + Count(out, M)
    /\ session' = "up" =>
         /\ Count(net'[e], M) = Count(rest, M)
         /\ Count(net'[Other(e)], M) = Count(net[Other(e)], M) + Count(out, M)
    /\ Count(rest, M) <= Count(net[e], M)
    /\ net[e] # <<>> /\ rest = Tail(net[e]) =>
         Count(net[e], M) = Count(rest, M) + (IF Head(net[e]) \in M THEN 1 ELSE 0)

\* Every such step does.
LEMMA PassCounts ==
    ASSUME NEW S, net \in [End -> Seq(S)], NEW e \in End, NEW rest, Rests(e, rest),
           NEW out \in Seq(S), Passes(e, rest, out), NEW M
    PROVE  Accounts(e, rest, out, M)
<1>0. net[e] \in Seq(S) /\ net[Other(e)] \in Seq(S) /\ net' \in [End -> Seq(S)] /\ rest \in Seq(S)
  BY PassFacts, Ends2
<1>1. /\ \A d \in End : Count(net[d], M) \in Nat /\ Count(net'[d], M) \in Nat
      /\ Count(rest, M) \in Nat /\ Count(out, M) \in Nat
  BY <1>0, CountNat
<1>2. net[e] # <<>> /\ rest = Tail(net[e]) =>
                Count(net[e], M) = Count(rest, M) + (IF Head(net[e]) \in M THEN 1 ELSE 0)
  BY <1>0, CountTail
<1>3. Count(rest, M) <= Count(net[e], M)
  BY <1>1, <1>2 DEF Rests
<1>4. CASE session' # "up" /\ net' = Both(<<>>)
  <2>1. \A d \in End : Count(net'[d], M) = 0
    BY <1>4, CountFew DEF Both
  <2> QED BY <1>1, <1>2, <1>3, <1>4, <2>1, Ends2 DEF Accounts
<1>5. CASE net' = [d \in End |-> IF d = e THEN rest ELSE net[d] \o out]
  <2>1. net'[e] = rest /\ net'[Other(e)] = net[Other(e)] \o out
    BY <1>5, Ends2
  <2>2. Count(net[Other(e)] \o out, M) = Count(net[Other(e)], M) + Count(out, M)
    BY <1>0, CountJoin
  <2> QED BY <1>1, <1>2, <1>3, <2>1, <2>2, Ends2 DEF Accounts
<1> QED BY <1>4, <1>5 DEF Passes, Accounts

\* Handlers, and steps that leave the queues alone or lose them.
LEMMA PassBy ==
    ASSUME NEW S, net \in [End -> Seq(S)], NEW e \in End, NEW lvs, NEW out
    PROVE  /\ Emit(e, lvs, out) /\ UNCHANGED session /\ session \in {"up", "down"}
                 => Rests(e, net[e]) /\ Passes(e, net[e], out)
           /\ Answer(e, lvs, out) /\ UNCHANGED session /\ session \in {"up", "down"} /\ net[e] # <<>>
                 => Rests(e, Tail(net[e])) /\ Passes(e, Tail(net[e]), out)
           /\ UNCHANGED net => Rests(e, net[e]) /\ Passes(e, net[e], <<>>)
<1>1. ASSUME UNCHANGED net PROVE Passes(e, net[e], <<>>)
  <2>1. \A d \in End : net[d] \o <<>> = net[d]
    <3>1. \A d \in End : net[d] \in Seq(S)
      OBVIOUS
    <3> QED BY <3>1
  <2>2. net' = [d \in End |-> IF d = e THEN net[e] ELSE net[d] \o <<>>]
    BY <1>1, <2>1
  <2> QED BY <2>2 DEF Passes
<1> QED BY <1>1 DEF Emit, Answer, Sends, Passes, Rests

-----------------------------------------------------------------------------
(* A process and its output.                                               *)

\* The messages that carry output and input, and those that end a task.
Output == {h \in ShMsg : h.cmd \in {"RAW", "BUG_DATA"}}
Input == {h \in ShMsg : h.cmd = "SHELL_DATA"}
Closes == {h \in ShMsg : h.cmd = "CLOSE"}

\* Output and input under way.
Shown == Count(net["host"], Output)
Typing == Count(net["daemon"], Input)

ShTypes ==
    /\ session \in {"up", "down"}
    /\ proc \in {"none", "run", "exited", "killed"}
    /\ log \in {"off", "wanted", "on", "closing", "closed"}
    /\ printed \in 0 .. MaxOut /\ pipe \in Nat /\ got \in Nat /\ logged \in Nat
    /\ typed \in 0 .. MaxInput /\ (~IsShell => typed = 0)
    /\ owed["daemon"] \in -1 .. 1
    /\ cmdRef = IF IsShell THEN 0 ELSE rd
    /\ net \in [End -> Seq(ShMsg)]

\* No output and no input is counted twice, and none comes from nowhere.
ShCounts ==
    /\ got + Shown + pipe <= printed
    /\ wr + Typing <= typed
    /\ lw + logged <= got

\* Nothing has happened as long as the message that starts the process is under way.
ShOnce ==
    \A e \in End : In(net[e], Starts) =>
        proc = "none" /\ printed = 0 /\ wr = 0 /\ owed["daemon"] = 0

\* As long as the client and the session stay, no output of the command is lost: it is
\* shown, under way or not yet read, and when a task is told to end the process has ended
\* and all of its output is on the way or shown before.  The task of a bugreport at the
\* server runs as long as there may be output.
Served == kind \in {"execute", "bugreport"} /\ session = "up" /\ chan \in {"open", "asked"}
Over == rd = 0 /\ pipe = 0 /\ proc # "run" /\ \A e \in End : ~In(net[e], Starts)
Ordered(q) == \A i, j \in 1 .. Len(q) : q[i] \in Closes /\ q[j] \in Output => j < i
Comes == rd = 1 \/ In(net["daemon"], Starts) \/ \E h \in Output : In(net["host"], h)
ShFlow ==
    Served =>
      /\ got + Shown + pipe = printed
      /\ (chan = "asked" \/ \E e \in End : \E h \in Closes : In(net[e], h)) => Over
      /\ chan = "asked" => Shown = 0
      /\ Ordered(net["host"])
      /\ \A h \in Output : In(net["host"], h) => (kind = "bugreport" <=> h.cmd = "BUG_DATA")
      /\ kind = "bugreport" /\ chan = "open" /\ Comes => task["host"] = "run"

ShData == ShTypes /\ ShCounts /\ ShOnce /\ ShFlow

\* The messages.
LEMMA ShMessages ==
    /\ \A c \in {"WAKEUP", "SHELL_DATA", "BUG_INIT", "BUG_DATA", "RAW", "ECHO_OK", "ECHO_FAIL", "CLOSE"},
          n \in 0 .. 1 : Msg(c, n) \in ShMsg /\ Msg(c, n).cmd = c
    /\ Starts.cmd \in {"SHELL_INIT", "UNITY", "BUG_INIT"} /\ Starts.cmd = ShFirst
    /\ \A h \in ShMsg : h.n \in 0 .. 1
    /\ \A h \in Output : h \in ShMsg /\ h \notin Closes /\ h \notin Input /\ h # Starts
    /\ \A h \in Closes : h \in ShMsg /\ h \notin Input /\ h # Starts
    /\ \A h \in Input : h # Starts
<1>1. Starts.cmd \in {"SHELL_INIT", "UNITY", "BUG_INIT"} /\ Starts.cmd = ShFirst
  BY DEF Starts, Msg, ShFirst
<1> QED BY <1>1 DEF Msg, ShMsg, Output, Closes, Input

\* What handlers send.
LEMMA ShSends ==
    /\ <<>> \in Seq(ShMsg) /\ Finish \in Seq(ShMsg) /\ <<Wakeup>> \in Seq(ShMsg)
    /\ \A n \in 0 .. 1 : <<Close(n)>> \in Seq(ShMsg)
    /\ \A e, lv : Log(e, lv) \in Seq(ShMsg)
    /\ \A e : Fails(e) \in Seq(ShMsg)
<1>1. \A m \in ShMsg : <<m>> \in Seq(ShMsg)
  OBVIOUS
<1>2. \A n \in 0 .. 1 : Close(n) \in ShMsg
  BY ShMessages DEF Close
<1>3. \A lv : EchoOf(lv) \in ShMsg
  <2>1. Msg("ECHO_OK", 0) \in ShMsg /\ Msg("ECHO_FAIL", 0) \in ShMsg
    BY ShMessages
  <2> QED BY <2>1 DEF EchoOf
<1>4. \A e, lv : Log(e, lv) \in Seq(ShMsg)
  BY <1>1, <1>3 DEF Log
<1>5. Finish \in Seq(ShMsg)
  BY <1>1, <1>2 DEF Finish
<1>6. \A e : Fails(e) \in Seq(ShMsg)
  BY <1>4, <1>5 DEF Fails
<1>7. <<Wakeup>> \in Seq(ShMsg) /\ <<>> \in Seq(ShMsg)
  BY <1>1, ShMessages DEF Wakeup
<1> QED BY <1>1, <1>2, <1>4, <1>5, <1>6, <1>7

\* No message of these is output, input or a start.
Idle(out) == \A m : In(out, m) => m \in ShMsg /\ m \notin Output /\ m \notin Input /\ m # Starts

\* Most of what handlers send.
LEMMA ShIdle ==
    /\ Idle(<<>>) /\ Idle(Finish) /\ Idle(<<Wakeup>>) /\ \A n \in 0 .. 1 : Idle(<<Close(n)>>)
    /\ \A e, lv : Idle(Log(e, lv))
    /\ \A e : Idle(Fails(e)) /\ Idle(<<Wakeup>> \o Fails(e))
    /\ \A e, lv : Idle(Log(e, lv) \o Finish)
<1>1. Idle(<<>>)
  BY Emptied DEF Idle
<1>2. \A c \in {"WAKEUP", "ECHO_OK", "ECHO_FAIL", "CLOSE"}, n \in 0 .. 1 :
         LET m == Msg(c, n) IN m \in ShMsg /\ m \notin Output /\ m \notin Input /\ m # Starts
  BY ShMessages DEF Output, Input
<1>3. \A c \in {"WAKEUP", "ECHO_OK", "ECHO_FAIL", "CLOSE"}, n \in 0 .. 1 : Idle(<<Msg(c, n)>>)
  BY <1>2, Few DEF Idle
<1>4. Idle(<<Wakeup>>) /\ \A n \in 0 .. 1 : Idle(<<Close(n)>>)
  BY <1>3 DEF Wakeup, Close
<1>5. Idle(Finish)
  BY <1>4 DEF Finish
<1>6. \A e, lv : Idle(Log(e, lv))
  BY <1>1, <1>3 DEF Log, EchoOf
<1>7. ASSUME NEW a \in Seq(ShMsg), NEW b \in Seq(ShMsg), Idle(a), Idle(b) PROVE Idle(a \o b)
  BY <1>7, Joined DEF Idle
<1>8. \A e, lv : Idle(Log(e, lv) \o Finish)
  BY <1>5, <1>6, <1>7, ShSends
<1>9. \A e : Idle(Fails(e))
  BY <1>8 DEF Fails
<1>10. \A e : Idle(<<Wakeup>> \o Fails(e))
  BY <1>4, <1>9, <1>7, ShSends
<1> QED BY <1>1, <1>4, <1>5, <1>6, <1>8, <1>9, <1>10

\* Counts of idle messages.
LEMMA IdleCounts ==
    ASSUME NEW out \in Seq(ShMsg), Idle(out)
    PROVE  Count(out, Output) = 0 /\ Count(out, Input) = 0 /\ ~In(out, Starts)
BY CountNat DEF Idle

\* What a step leaves of the output and the input under way.
LEMMA ShPass ==
    ASSUME ShTypes, NEW e \in End, NEW rest, Rests(e, rest), NEW out \in Seq(ShMsg),
           Passes(e, rest, out), Count(out, Input) = 0
    PROVE  /\ net' \in [End -> Seq(ShMsg)]
           /\ Shown \in Nat /\ Shown' \in Nat /\ Typing \in Nat /\ Typing' \in Nat
           /\ Count(out, Output) \in Nat
           /\ Typing' <= Typing
           /\ e = "daemon" => Shown' <= Shown + Count(out, Output)
           /\ e = "host" => Shown' <= Shown
           /\ session' = "up" /\ e = "daemon" => Shown' = Shown + Count(out, Output)
           /\ session' = "up" /\ e = "host" /\ rest = net[e] => Shown' = Shown
           /\ net[e] # <<>> /\ rest = Tail(net[e]) =>
                /\ e = "daemon" /\ Head(net[e]) \in Input => Typing' <= Typing - 1
                /\ e = "host" /\ Head(net[e]) \in Output => Shown' <= Shown - 1
                /\ e = "host" /\ session' = "up" =>
                      Shown' = IF Head(net[e]) \in Output THEN Shown - 1 ELSE Shown
<1>1. net \in [End -> Seq(ShMsg)]
  BY DEF ShTypes
<1>2. net' \in [End -> Seq(ShMsg)]
  BY <1>1, PassFacts
<1>3. Accounts(e, rest, out, Output) /\ Accounts(e, rest, out, Input)
  BY <1>1, PassCounts
<1>4. /\ Shown = Count(net["host"], Output) /\ Typing = Count(net["daemon"], Input)
      /\ Shown' = Count(net'["host"], Output) /\ Typing' = Count(net'["daemon"], Input)
  BY DEF Shown, Typing, Output, Input
<1> HIDE DEF Shown, Typing
<1>5. CASE e = "host"
  <2>1. Other(e) = "daemon" /\ "host" \in End /\ "daemon" \in End
    BY <1>5 DEF Other, End
  <2>2. /\ Shown \in Nat /\ Shown' \in Nat /\ Count(rest, Output) \in Nat
        /\ Shown' <= Count(rest, Output) /\ Count(rest, Output) <= Shown
        /\ session' = "up" => Shown' = Count(rest, Output)
        /\ Count(out, Output) \in Nat
        /\ rest = net[e] => Count(rest, Output) = Shown
        /\ net[e] # <<>> /\ rest = Tail(net[e]) =>
              Shown = Count(rest, Output) + (IF Head(net[e]) \in Output THEN 1 ELSE 0)
    BY <1>3, <1>4, <1>5, <2>1 DEF Accounts
  <2>3. Typing \in Nat /\ Typing' \in Nat /\ Typing' <= Typing + Count(out, Input)
    BY <1>3, <1>4, <1>5, <2>1 DEF Accounts
  <2>4. e # "daemon"
    BY <1>5
  <2> QED BY <1>2, <1>5, <2>2, <2>3, <2>4
<1>6. CASE e = "daemon"
  <2>1. Other(e) = "host" /\ "host" \in End /\ "daemon" \in End
    BY <1>6 DEF Other, End
  <2>2. /\ Typing \in Nat /\ Typing' \in Nat /\ Count(rest, Input) \in Nat
        /\ Typing' <= Count(rest, Input) /\ Count(rest, Input) <= Typing
        /\ net[e] # <<>> /\ rest = Tail(net[e]) =>
              Typing = Count(rest, Input) + (IF Head(net[e]) \in Input THEN 1 ELSE 0)
    BY <1>3, <1>4, <1>6, <2>1 DEF Accounts
  <2>3. /\ Shown \in Nat /\ Shown' \in Nat /\ Shown' <= Shown + Count(out, Output)
        /\ Count(out, Output) \in Nat
        /\ session' = "up" => Shown' = Shown + Count(out, Output)
    BY <1>3, <1>4, <1>6, <2>1 DEF Accounts
  <2>4. e # "host"
    BY <1>6
  <2> QED BY <1>2, <1>6, <2>2, <2>3, <2>4
<1> QED BY <1>5, <1>6 DEF End

\* The output stays before the end.
LEMMA OrderedPass ==
    ASSUME ShTypes, Ordered(net["host"]), NEW e \in End, NEW rest, Rests(e, rest),
           NEW out \in Seq(ShMsg), Passes(e, rest, out),
           \/ e = "host" \/ \A m \in Output : ~In(out, m)
           \/ \A m \in Closes : ~In(net["host"], m) /\ ~In(out, m)
    PROVE  Ordered(net'["host"])
<1>0. net["host"] \in Seq(ShMsg) /\ "host" \in End /\ "daemon" \in End
  BY DEF ShTypes, End
<1>1. CASE net' = Both(<<>>)
  <2>1. net'["host"] = <<>> /\ Len(<<>>) = 0
    BY <1>0, <1>1 DEF Both
  <2> QED BY <2>1 DEF Ordered
<1>2. CASE net' = [d \in End |-> IF d = e THEN rest ELSE net[d] \o out]
  <2>1. CASE e = "host"
    <3>1. net'["host"] = rest
      BY <1>0, <1>2, <2>1
    <3>2. CASE rest = net["host"]
      BY <3>1, <3>2
    <3>3. CASE net["host"] # <<>> /\ rest = Tail(net["host"])
      <4> DEFINE q == net["host"]
                 r == Tail(q)
      <4>1. /\ Len(r) = Len(q) - 1 /\ Len(q) \in Nat /\ \A i \in 1 .. Len(q) - 1 : r[i] = q[i + 1]
        BY <1>0, <3>3
      <4> HIDE DEF r
      <4>2. Ordered(r)
        <5> SUFFICES ASSUME NEW i \in 1 .. Len(r), NEW j \in 1 .. Len(r), r[i] \in Closes,
                            r[j] \in Output
                     PROVE  j < i
          BY DEF Ordered
        <5>1. q[i + 1] \in Closes /\ q[j + 1] \in Output /\ i + 1 \in 1 .. Len(q) /\ j + 1 \in 1 .. Len(q)
          BY <4>1
        <5>2. j + 1 < i + 1
          BY <5>1 DEF Ordered
        <5> QED BY <5>2, <4>1
      <4> QED BY <3>1, <3>3, <4>2 DEF r
    <3> QED BY <2>1, <3>2, <3>3 DEF Rests
  <2>2. CASE e # "host"
    <3> DEFINE q == net["host"]
               r == q \o out
    <3>1. net'["host"] = r
      BY <1>0, <1>2, <2>2
    <3>2. /\ Len(q) \in Nat /\ Len(out) \in Nat /\ Len(r) = Len(q) + Len(out)
          /\ \A i \in 1 .. Len(q) : r[i] = q[i]
          /\ \A i \in Len(q) + 1 .. Len(r) : r[i] = out[i - Len(q)] /\ i - Len(q) \in 1 .. Len(out)
      BY <1>0
    <3> HIDE DEF r
    <3>3. Ordered(r)
      <4> SUFFICES ASSUME NEW i \in 1 .. Len(r), NEW j \in 1 .. Len(r), r[i] \in Closes,
                          r[j] \in Output
                   PROVE  j < i
        BY DEF Ordered
      <4>1. CASE \A m \in Output : ~In(out, m)
        <5>1. j <= Len(q)
          <6> SUFFICES ASSUME j > Len(q) PROVE FALSE
            BY <3>2
          <6>1. j \in Len(q) + 1 .. Len(r)
            BY <3>2
          <6>2. out[j - Len(q)] \in Output /\ j - Len(q) \in 1 .. Len(out)
            BY <3>2, <6>1
          <6> QED BY <4>1, <6>2 DEF In
        <5>2. CASE i <= Len(q)
          <6>1. q[i] \in Closes /\ q[j] \in Output /\ i \in 1 .. Len(q) /\ j \in 1 .. Len(q)
            BY <3>2, <5>1, <5>2
          <6> QED BY <6>1 DEF Ordered
        <5> QED BY <3>2, <5>1, <5>2
      <4>2. CASE \A m \in Closes : ~In(net["host"], m) /\ ~In(out, m)
        <5>1. CASE i <= Len(q)
          BY <3>2, <4>2, <5>1 DEF In
        <5>2. CASE i > Len(q)
          <6>1. i \in Len(q) + 1 .. Len(r)
            BY <3>2, <5>2
          <6>2. out[i - Len(q)] \in Closes /\ i - Len(q) \in 1 .. Len(out)
            BY <3>2, <6>1
          <6> QED BY <4>2, <6>2 DEF In
        <5> QED BY <5>1, <5>2, <3>2
      <4> QED BY <2>2, <4>1, <4>2
    <3> QED BY <3>1, <3>3
  <2> QED BY <2>1, <2>2
<1> QED BY <1>1, <1>2 DEF Passes

\* The first message of an end is taken.
Takes(e, rest) == net[e] # <<>> /\ rest = Tail(net[e])
Piped == kind \in {"execute", "bugreport"}

\* A step that sends no output, no input and no start, and takes no output as long as
\* all of it is to be shown.
LEMMA ShIdleStep ==
    ASSUME IInv, IInv', IsProcess, ShData, UNCHANGED <<kind, printed, got, typed>>,
           pipe' = pipe \/ (~Served' /\ pipe > 0 /\ pipe' = pipe - 1),
           NEW e \in End, NEW rest, Rests(e, rest), NEW out \in Seq(ShMsg), Idle(out),
           Passes(e, rest, out),
           session' \in {"up", "down"}, session' = "up" => session = "up",
           log' \in {"off", "wanted", "on", "closing", "closed"},
           logged' \in Nat, lw' + logged' <= lw + logged,
           \/ wr' \in {wr, wr - 1}
           \/ wr' = wr + 1 /\ proc # "none" /\ e = "daemon" /\ Takes(e, rest) /\ Head(net[e]) \in Input,
           owed'["daemon"] \in -1 .. 1, owed'["daemon"] = owed["daemon"] \/ wr > 0,
           cmdRef' = IF IsShell THEN 0 ELSE rd',
           proc' = proc \/ (proc = "run" /\ proc' \in {"exited", "killed"}),
           rd' = rd \/ rd' = 0,
           \/ chan' = chan \/ chan' \in {"dead", "gone"} \/ session' # "up"
           \/ chan = "open" /\ chan' = "asked" /\ e = "host" /\ Takes(e, rest) /\ Head(net[e]) \in Closes,
           Piped /\ session' = "up" /\ chan' \in {"open", "asked"} /\ e = "host" /\ Takes(e, rest)
             => Head(net[e]) \notin Output,
           Served /\ (\E m \in Closes : In(out, m))
             => Over \/ (rd' = 0 /\ pipe = 0 /\ proc' # "run" /\ \A d \in End : ~In(net[d], Starts)),
           kind = "bugreport" /\ session' = "up" /\ chan' = "open" /\ task["host"] = "run"
             => task'["host"] = "run"
    PROVE  ShData'
<1>0. /\ ShTypes /\ ShCounts /\ ShOnce /\ ShFlow /\ ProcInv /\ ProcInv' /\ BaseTypes
      /\ rd \in 0 .. 1 /\ wr \in Nat /\ lw \in Nat /\ rd' \in 0 .. 1 /\ wr' \in Nat /\ lw' \in Nat
      /\ "host" \in End /\ "daemon" \in End
  <2>1. IsProcess'
    BY DEF IsProcess
  <2> QED BY <2>1 DEF ShData, IInv, ProcInv, End
<1>1. Count(out, Output) = 0 /\ Count(out, Input) = 0 /\ ~In(out, Starts)
  BY IdleCounts
<1>2. /\ net' \in [End -> Seq(ShMsg)]
      /\ Shown \in Nat /\ Shown' \in Nat /\ Typing \in Nat /\ Typing' \in Nat
      /\ Typing' <= Typing /\ Shown' <= Shown
      /\ session' = "up" /\ (e = "host" /\ Takes(e, rest) => Head(net[e]) \notin Output)
           => Shown' = Shown
      /\ e = "daemon" /\ Takes(e, rest) /\ Head(net[e]) \in Input => Typing' <= Typing - 1
  <2>0. /\ net' \in [End -> Seq(ShMsg)]
        /\ Shown \in Nat /\ Shown' \in Nat /\ Typing \in Nat /\ Typing' \in Nat
        /\ Typing' <= Typing
        /\ e = "daemon" => Shown' <= Shown + Count(out, Output)
        /\ e = "host" => Shown' <= Shown
        /\ session' = "up" /\ e = "daemon" => Shown' = Shown + Count(out, Output)
        /\ session' = "up" /\ e = "host" /\ rest = net[e] => Shown' = Shown
        /\ net[e] # <<>> /\ rest = Tail(net[e]) =>
             /\ e = "daemon" /\ Head(net[e]) \in Input => Typing' <= Typing - 1
             /\ e = "host" /\ session' = "up" =>
                   Shown' = IF Head(net[e]) \in Output THEN Shown - 1 ELSE Shown
    BY <1>0, <1>1, ShPass
  <2> DEFINE s == Shown
             s1 == Shown'
             c == Count(out, Output)
  <2>a. s \in Nat /\ s1 \in Nat /\ c = 0
    BY <2>0, <1>1
  <2> HIDE DEF s, s1, c
  <2>b. s + c = s
    BY <2>a
  <2>c. Shown + Count(out, Output) = Shown
    BY <2>b DEF s, c
  <2>1. /\ net' \in [End -> Seq(ShMsg)]
        /\ Shown \in Nat /\ Shown' \in Nat /\ Typing \in Nat /\ Typing' \in Nat
        /\ Typing' <= Typing /\ Shown' <= Shown
        /\ session' = "up" /\ e = "daemon" => Shown' = Shown
        /\ session' = "up" /\ e = "host" /\ rest = net[e] => Shown' = Shown
        /\ session' = "up" /\ e = "host" /\ Takes(e, rest) =>
              Shown' = IF Head(net[e]) \in Output THEN Shown - 1 ELSE Shown
    BY <2>0, <2>c DEF End, Takes
  <2>i. e = "daemon" /\ Takes(e, rest) /\ Head(net[e]) \in Input => Typing' <= Typing - 1
    BY <2>0 DEF Takes
  <2>2. CASE e = "daemon"
    BY <2>1, <2>2, <2>i
  <2>3. CASE e = "host"
    BY <2>1, <2>3, <2>i DEF Rests, Takes
  <2> QED BY <2>2, <2>3 DEF End
<1>w. wr' + Typing' <= wr + Typing /\ (wr' = wr \/ proc # "none" \/ wr > 0)
  <2> DEFINE t == Typing
             t1 == Typing'
             w == wr
             w1 == wr'
  <2>1. t \in Int /\ t1 \in Int /\ w \in Nat /\ w1 \in Nat /\ t1 <= t
    BY <1>0, <1>2
  <2>2. w1 = w \/ w1 = w - 1 \/ (w1 = w + 1 /\ t1 <= t - 1 /\ proc # "none")
    BY <1>2
  <2> HIDE DEF t, t1, w, w1
  <2>3. w1 + t1 <= w + t /\ (w1 = w \/ proc # "none" \/ w > 0)
    BY <2>1, <2>2
  <2> QED BY <2>3 DEF t, t1, w, w1
<1>3. /\ \A d \in End : \A m : In(net'[d], m) => In(net[d], m) \/ (d # e /\ In(out, m))
      /\ \A m : In(net'[e], m) => In(rest, m)
  <2>1. /\ \A m : In(net'[e], m) => In(rest, m)
        /\ \A m : In(rest, m) => In(net[e], m)
        /\ \A m : In(net'[Other(e)], m) => In(net[Other(e)], m) \/ In(out, m)
    BY <1>0, PassFacts DEF ShTypes
  <2> QED BY <2>1, Ends2
<1>4. Starts' = Starts /\ IsShell' = IsShell
  BY DEF Starts, ShFirst, IsShell
<1>5. \A d \in End : In(net'[d], Starts) => In(net[d], Starts)
  BY <1>1, <1>3
<1>6. ShTypes'
  <2>1. pipe' \in Nat
    BY <1>0 DEF ShTypes
  <2> QED BY <1>0, <1>2, <1>4, <2>1 DEF ShTypes
<1>7. ShCounts'
  <2>0. /\ printed \in Int /\ pipe \in Nat /\ got \in Nat /\ logged \in Nat /\ typed \in Int
        /\ got + Shown + pipe <= printed /\ wr + Typing <= typed /\ lw + logged <= got
    BY <1>0 DEF ShTypes, ShCounts
  <2> DEFINE s == Shown
             s1 == Shown'
             t == Typing
             t1 == Typing'
  <2>4. /\ s \in Nat /\ s1 \in Nat /\ s1 <= s /\ t \in Nat /\ t1 \in Nat
        /\ wr' + t1 <= wr + t /\ got + s + pipe <= printed /\ wr + t <= typed
    BY <1>2, <1>w, <2>0
  <2> HIDE DEF s, s1, t, t1
  <2>p. pipe' \in Nat /\ pipe' <= pipe
    BY <2>0
  <2>1. got + s1 + pipe' <= printed
    <3> DEFINE p == pipe
               p1 == pipe'
    <3>1. /\ p \in Int /\ p1 \in Int /\ p1 <= p /\ s \in Int /\ s1 \in Int /\ s1 <= s
          /\ got \in Int /\ printed \in Int /\ got + s + p <= printed
      BY <2>0, <2>4, <2>p
    <3> HIDE DEF p, p1
    <3>2. got + s1 + p1 <= printed
      BY <3>1
    <3> QED BY <3>2 DEF p1
  <2> DEFINE w == wr
             w1 == wr'
             l == lw + logged
             l1 == lw' + logged'
  <2>a. wr \in Nat /\ wr' \in Nat /\ lw \in Nat /\ lw' \in Nat /\ logged' \in Nat
    BY <1>0
  <2>f. w \in Int /\ w1 \in Int
    BY <2>a
  <2>g. w1 + t1 <= w + t
    BY <2>4
  <2>h. w + t <= typed
    BY <2>4
  <2>b. w \in Int /\ w1 \in Int /\ w1 + t1 <= w + t /\ w + t <= typed
    BY <2>f, <2>g, <2>h
  <2>c. l \in Int /\ l1 \in Int
    BY <2>a, <2>0
  <2>d. l1 <= l
    OBVIOUS
  <2>e. l <= got
    BY <2>0
  <2>5. /\ w \in Int /\ w1 \in Int /\ w1 + t1 <= w + t /\ w + t <= typed
        /\ l \in Int /\ l1 \in Int /\ l1 <= l /\ l <= got
    BY <2>b, <2>c, <2>d, <2>e
  <2> HIDE DEF w, w1, l, l1
  <2>2. w1 + t1 <= typed
    BY <2>0, <2>4, <2>5
  <2>3. l1 <= got
    BY <2>0, <2>5
  <2> QED BY <2>1, <2>2, <2>3 DEF ShCounts, s1, t1, w1, l1
<1>8. ShOnce'
  <2> SUFFICES ASSUME NEW d \in End, In(net'[d], Starts)
               PROVE  proc' = "none" /\ printed' = 0 /\ wr' = 0 /\ owed'["daemon"] = 0
    BY <1>4 DEF ShOnce
  <2>1. proc = "none" /\ printed = 0 /\ wr = 0 /\ owed["daemon"] = 0
    BY <1>0, <1>5 DEF ShOnce
  <2> QED BY <2>1, <1>w
<1>9. ShFlow'
  <2> SUFFICES ASSUME Served'
               PROVE  /\ got + Shown' + pipe' = printed
                      /\ (chan' = "asked" \/ \E d \in End : \E h \in Closes : In(net'[d], h)) => Over'
                      /\ chan' = "asked" => Shown' = 0
                      /\ Ordered(net'["host"])
                      /\ \A h \in Output : In(net'["host"], h) =>
                            (kind = "bugreport" <=> h.cmd = "BUG_DATA")
                      /\ kind = "bugreport" /\ chan' = "open" /\ Comes' => task'["host"] = "run"
    BY DEF ShFlow, Output, Closes, Ordered
  <2>1. Piped /\ session' = "up" /\ chan' \in {"open", "asked"}
    BY DEF Served, Piped
  <2>2. /\ Served /\ session = "up"
        /\ chan' = chan \/ (chan' = "asked" /\ e = "host" /\ Takes(e, rest) /\ Head(net[e]) \in Closes)
    <3> QED BY <2>1 DEF Served, Piped
  <2>3. Shown' = Shown /\ pipe' = pipe
    BY <1>2, <2>1
  <2>4. /\ got + Shown + pipe = printed
        /\ (chan = "asked" \/ \E d \in End : \E h \in Closes : In(net[d], h)) => Over
        /\ chan = "asked" => Shown = 0
        /\ Ordered(net["host"])
        /\ \A h \in Output : In(net["host"], h) => (kind = "bugreport" <=> h.cmd = "BUG_DATA")
        /\ kind = "bugreport" /\ chan = "open" /\ Comes => task["host"] = "run"
    BY <1>0, <2>2 DEF ShFlow
  <2>h. Takes(e, rest) => In(net[e], Head(net[e]))
    <3>1. net[e] \in Seq(ShMsg)
      BY <1>0 DEF ShTypes
    <3> QED BY <3>1, Taken DEF Takes
  <2>5. \A m \in Output : ~In(out, m)
    BY DEF Idle
  <2>6. ASSUME chan' = "asked" \/ \E d \in End : \E h \in Closes : In(net'[d], h)
        PROVE  Over'
    <3>1. Over \/ (rd' = 0 /\ pipe = 0 /\ proc' # "run" /\ \A d \in End : ~In(net[d], Starts))
      BY <2>2, <2>4, <2>6, <2>h, <1>3
    <3> QED BY <3>1, <1>5, <1>4 DEF Over
  <2>7. chan' = "asked" => Shown' = 0
    <3>1. CASE chan = "asked"
      BY <2>3, <2>4, <3>1
    <3>2. CASE e = "host" /\ Takes(e, rest) /\ Head(net[e]) \in Closes
      <4> DEFINE q == net["host"]
      <4>1. q \in Seq(ShMsg) /\ q # <<>> /\ q[1] = Head(q) /\ Len(q) \in Nat /\ Len(q) >= 1
        BY <1>0, <3>2 DEF ShTypes, Takes
      <4>2. \A j \in 1 .. Len(q) : q[j] \notin Output
        BY <2>4, <3>2, <4>1 DEF Ordered
      <4>3. \A m \in Output : ~In(q, m)
        BY <4>2 DEF In
      <4>4. Count(q, Output) = 0
        BY <4>1, <4>3, CountNat
      <4> QED BY <2>3, <4>4 DEF Shown
    <3> QED BY <2>2, <3>1, <3>2
  <2>8. Ordered(net'["host"])
    BY <1>0, <2>4, <2>5, OrderedPass
  <2>9. \A h \in Output : In(net'["host"], h) => In(net["host"], h)
    BY <1>0, <1>3, <2>5
  <2>10. ASSUME kind = "bugreport", chan' = "open", Comes' PROVE task'["host"] = "run"
    <3>1. Comes
      <4>1. CASE rd' = 1
        BY <4>1 DEF Comes
      <4>2. CASE In(net'["daemon"], Starts)
        BY <4>2, <1>0, <1>5 DEF Comes
      <4>3. CASE \E h \in Output : In(net'["host"], h)
        BY <4>3, <2>9 DEF Comes
      <4>4. rd' = 1 \/ In(net'["daemon"], Starts) \/ \E h \in Output : In(net'["host"], h)
        BY <2>10, <1>4 DEF Comes, Output
      <4> QED BY <4>1, <4>2, <4>3, <4>4
    <3> QED BY <2>1, <2>2, <2>4, <2>10, <3>1
  <2> QED BY <2>3, <2>4, <2>6, <2>7, <2>8, <2>9, <2>10
<1> QED BY <1>6, <1>7, <1>8, <1>9 DEF ShData

\* The class of a process and its messages.
LEMMA ShBase ==
    ASSUME IInv, IsProcess, TaskTypes, ShData
    PROVE  /\ chan \in {"open", "asked", "dead", "gone"}
           /\ ShTypes /\ ShCounts /\ ShOnce /\ ShFlow /\ ProcInv /\ BaseTypes
           /\ session \in {"up", "down"} /\ log \in {"off", "wanted", "on", "closing", "closed"}
           /\ logged \in Nat /\ pipe \in Nat /\ got \in Nat /\ printed \in 0 .. MaxOut
           /\ rd \in 0 .. 1 /\ wr \in Nat /\ lw \in Nat /\ owed["daemon"] \in -1 .. 1
           /\ cmdRef = (IF IsShell THEN 0 ELSE rd) /\ net \in [End -> Seq(ShMsg)]
           /\ proc \in {"none", "run", "exited", "killed"}
           /\ "host" \in End /\ "daemon" \in End /\ ~IsForward /\ ~IsTransfer
BY ProcTypes, FwdMeaning DEF ShData, ShTypes, ProcInv, End, TaskTypes

\* What the first message of a queue says.
LEMMA ShHead ==
    ASSUME ShTypes, NEW e \in End, net[e] # <<>>
    PROVE  /\ In(net[e], Head(net[e])) /\ Head(net[e]) \in ShMsg /\ Arg(e) \in 0 .. 1
           /\ Head(net[e]) \in Output <=> Head(net[e]).cmd \in {"RAW", "BUG_DATA"}
           /\ Head(net[e]) \in Input <=> Head(net[e]).cmd = "SHELL_DATA"
           /\ Head(net[e]) \in Closes <=> Head(net[e]).cmd = "CLOSE"
<1>1. net[e] \in Seq(ShMsg)
  BY DEF ShTypes
<1>2. In(net[e], Head(net[e])) /\ Head(net[e]) \in ShMsg
  BY <1>1, Taken
<1>3. Arg(e) \in 0 .. 1
  BY <1>2, ShMessages DEF Arg
<1> QED BY <1>2, <1>3 DEF Output, Input, Closes

\* A step of HdcTask, with the StopTask of a process.
LEMMA ShCommon ==
    ASSUME IInv, IInv', IsProcess, TaskTypes, TaskTypes', ShData, CommonStep
    PROVE  ShData'
<1>1. /\ ShTypes /\ ShCounts /\ ShOnce /\ ShFlow /\ ProcInv /\ BaseTypes
      /\ session \in {"up", "down"} /\ log \in {"off", "wanted", "on", "closing", "closed"}
      /\ logged \in Nat /\ rd \in 0 .. 1 /\ wr \in Nat /\ lw \in Nat /\ owed["daemon"] \in -1 .. 1
      /\ cmdRef = (IF IsShell THEN 0 ELSE rd) /\ net \in [End -> Seq(ShMsg)]
      /\ chan \in {"open", "asked", "dead", "gone"}
      /\ "host" \in End /\ "daemon" \in End /\ ~IsForward /\ ~IsTransfer
  BY ShBase
<1>2. Common /\ UNCHANGED <<kind, origin, owed>>
  BY <1>1, CommonMoves
<1>3. /\ UNCHANGED <<printed, pipe, got, typed, rd, wr, lw, logged, cmdRef>>
      /\ log' \in {"off", "wanted", "on", "closing", "closed"}
      /\ proc' = proc \/ (proc = "run" /\ proc' \in {"exited", "killed"})
  <2>1. ASSUME NEW e \in End, ShStopTask(e)
        PROVE  /\ UNCHANGED <<printed, pipe, got, typed, rd, wr, lw, logged, cmdRef>>
               /\ log' \in {"off", "wanted", "on", "closing", "closed"}
               /\ proc' = proc \/ (proc = "run" /\ proc' \in {"exited", "killed"})
    BY <1>1, <2>1 DEF ShStopTask, HostStopTask, DaemonStopTask
  <2>2. CASE Keeping
    BY <1>1, <2>2 DEF Keeping, ClassVarsKept, shVars
  <2>3. ASSUME NEW e \in End, Stopping(e) PROVE ShStopTask(e)
    BY <1>1, <2>3 DEF Stopping, StopTask
  <2>4. Keeping \/ \E e \in End : Stopping(e)
    BY <1>1, CommonMoves
  <2> QED BY <2>1, <2>2, <2>3, <2>4
<1>4. /\ wr' \in {wr, wr - 1} /\ lw' + logged' <= lw + logged /\ logged' \in Nat
      /\ owed'["daemon"] \in -1 .. 1 /\ owed'["daemon"] = owed["daemon"]
      /\ cmdRef' = (IF IsShell THEN 0 ELSE rd') /\ UNCHANGED <<kind, printed, got, typed>>
      /\ pipe' = pipe /\ rd' = rd
  BY <1>1, <1>2, <1>3
<1> DEFINE Step(e, rest, out) ==
             /\ Rests(e, rest) /\ out \in Seq(ShMsg) /\ Idle(out) /\ Passes(e, rest, out)
             /\ session' \in {"up", "down"} /\ (session' = "up" => session = "up")
             /\ \/ chan' = chan \/ chan' \in {"dead", "gone"} \/ session' # "up"
                \/ chan = "open" /\ chan' = "asked" /\ e = "host" /\ Takes(e, rest) /\ Head(net[e]) \in Closes
             /\ Piped /\ session' = "up" /\ chan' \in {"open", "asked"} /\ e = "host" /\ Takes(e, rest)
                  => Head(net[e]) \notin Output
             /\ Served /\ (\E m \in Closes : In(out, m)) => Over
             /\ kind = "bugreport" /\ session' = "up" /\ chan' = "open" /\ task["host"] = "run"
                  => task'["host"] = "run"
<1>5. ASSUME NEW e \in End, NEW rest, NEW out, Step(e, rest, out) PROVE ShData'
  BY <1>3, <1>4, <1>5, ShIdleStep
<1> HIDE DEF Step
<1>6. <<>> \in Seq(ShMsg) /\ Idle(<<>>) /\ \A m \in Closes : ~In(<<>>, m)
  BY ShSends, ShIdle, Emptied
<1>7. ASSUME NEW e \in End, net[e] # <<>>
      PROVE  /\ In(net[e], Head(net[e])) /\ Head(net[e]) \in ShMsg /\ Arg(e) \in 0 .. 1
             /\ Head(net[e]) \in Output => Head(net[e]).cmd \in {"RAW", "BUG_DATA"}
             /\ Head(net[e]).cmd = "CLOSE" => Head(net[e]) \in Closes
  BY <1>1, <1>7, ShHead
<1>8. ASSUME NEW e \in End, FetchClose(e), StopTask(e) PROVE ShData'
  <2> DEFINE out == IF Arg(e) = 0 THEN <<>> ELSE <<Close(Arg(e) - 1)>>
  <2>1. net[e] # <<>> /\ Head(net[e]).cmd = "CLOSE" /\ Answer(e, {}, out) /\ UNCHANGED session
        /\ chan' = (IF e = "host" /\ chan = "open" THEN "asked" ELSE chan) /\ BeginRemoveTask(e)
    BY <1>8 DEF FetchClose
  <2>2. out \in Seq(ShMsg) /\ Idle(out)
    BY <2>1, <1>6, <1>7, ShSends, ShIdle
  <2> HIDE DEF out
  <2>3. Rests(e, Tail(net[e])) /\ Passes(e, Tail(net[e]), out)
    BY <1>1, <2>1, PassBy
  <2>4. Takes(e, Tail(net[e])) /\ Head(net[e]) \in Closes /\ Head(net[e]) \notin Output
    BY <2>1, <1>7, ShMessages DEF Takes
  <2>5. Served => Over
    BY <1>1, <2>1, <2>4, <1>7 DEF ShFlow
  <2>6. kind = "bugreport" /\ chan' = "open" /\ task["host"] = "run" => task'["host"] = "run"
    BY <1>1, <2>1 DEF BeginRemoveTask, BaseTypes
  <2>7. Step(e, Tail(net[e]), out)
    BY <1>1, <2>1, <2>2, <2>3, <2>4, <2>5, <2>6 DEF Step
  <2> QED BY <1>5, <2>7
<1>9. ASSUME NEW e \in End, Wake(e) \/ Ignored(e, Taskless) PROVE ShData'
  <2>1. net[e] # <<>> /\ Answer(e, {}, <<>>) /\ UNCHANGED <<session, chan>>
    BY <1>9 DEF Wake, Ignored, Creates
  <2>2. Rests(e, Tail(net[e])) /\ Passes(e, Tail(net[e]), <<>>)
    BY <1>1, <2>1, PassBy
  <2>3. task["host"] = "run" => task'["host"] = "run"
    BY <1>1, <1>9 DEF Wake, Ignored, AddTask, BaseTypes
  <2>4. ASSUME Piped, session' = "up", chan' \in {"open", "asked"}, e = "host" PROVE Head(net[e]) \notin Output
    <3>1. CASE Wake(e)
      BY <2>1, <3>1, <1>7 DEF Wake, Creates
    <3>2. CASE Ignored(e, Taskless)
      <4> SUFFICES ASSUME Head(net[e]) \in Output PROVE FALSE
        OBVIOUS
      <4>1. Head(net[e]).cmd # "RAW" /\ task["host"] # "run"
        BY <3>2, <2>4 DEF Ignored, Taskless, ShTaskless
      <4>2. Head(net[e]).cmd = "BUG_DATA" /\ In(net["host"], Head(net[e]))
        BY <4>1, <2>1, <2>4, <1>7
      <4>3. Served /\ kind \in {"execute", "bugreport"}
        BY <2>1, <2>4 DEF Served, Piped
      <4>4. kind = "bugreport"
        BY <1>1, <4>2, <4>3 DEF ShFlow
      <4>5. chan = "asked"
        BY <1>1, <4>1, <4>2, <4>3, <4>4, <2>1, <2>4 DEF ShFlow, Comes
      <4>6. Shown = 0
        BY <1>1, <4>3, <4>5 DEF ShFlow
      <4>7. net["host"] \in Seq(ShMsg)
        BY <1>1
      <4> QED BY <4>2, <4>6, <4>7, CountNat DEF Shown
    <3> QED BY <1>9, <3>1, <3>2
  <2>5. Step(e, Tail(net[e]), <<>>)
    BY <1>1, <1>6, <2>1, <2>2, <2>3, <2>4 DEF Step
  <2> QED BY <1>5, <2>5
<1>10. ASSUME NEW e \in End, Clear(e) \/ Release(e) PROVE ShData'
  <2>1. UNCHANGED <<net, session, chan>>
        /\ (session = "up" /\ task["host"] = "run" => task'["host"] = "run")
    BY <1>1, <1>10 DEF Clear, Release, ClearOwnTasks, TryRemoveTask, BaseTypes
  <2>2. Rests(e, net[e]) /\ Passes(e, net[e], <<>>)
    BY <1>1, <2>1, PassBy
  <2>3. ~Takes(e, net[e])
    <3>1. net[e] \in Seq(ShMsg)
      BY <1>1
    <3>2. net[e] # <<>> => Len(Tail(net[e])) = Len(net[e]) - 1 /\ Len(net[e]) \in Nat
      BY <3>1
    <3>3. net[e] # <<>> => Len(Tail(net[e])) # Len(net[e])
      BY <3>2
    <3> QED BY <3>3 DEF Takes
  <2>4. Step(e, net[e], <<>>)
    BY <1>1, <1>6, <2>1, <2>2, <2>3 DEF Step
  <2> QED BY <1>5, <2>4
<1>11. CASE FetchEcho
  <2>1. /\ net["host"] # <<>> /\ net' = [net EXCEPT !["host"] = Tail(@)] /\ UNCHANGED <<session, chan, task>>
        /\ Head(net["host"]).cmd \in {"ECHO_OK", "ECHO_FAIL"}
    BY <1>11 DEF FetchEcho, EchoOf, Msg
  <2>2. net' = [d \in End |-> IF d = "host" THEN Tail(net["host"]) ELSE net[d] \o <<>>]
    <3>1. \A d \in End : net[d] \in Seq(ShMsg)
      BY <1>1
    <3>2. \A d \in End : net[d] \o <<>> = net[d]
      BY <3>1
    <3> QED BY <2>1, <3>2, <1>1
  <2>3. Rests("host", Tail(net["host"])) /\ Passes("host", Tail(net["host"]), <<>>)
    BY <2>1, <2>2 DEF Rests, Passes
  <2>4. Head(net["host"]) \notin Output
    BY <1>1, <1>7, <2>1
  <2>5. Step("host", Tail(net["host"]), <<>>)
    BY <1>1, <1>6, <2>1, <2>3, <2>4 DEF Step
  <2> QED BY <1>1, <1>5, <2>5
<1>12. CASE FetchUnserved \/ Deatch
  <2>1. \E rest, out : /\ chan \in {"dead", "gone"} /\ chan' \in {"dead", "gone"} /\ UNCHANGED session
                       /\ Rests("host", rest) /\ Passes("host", rest, out)
                       /\ out \in Seq(ShMsg) /\ Idle(out)
    <3>0. <<Close(0)>> \in Seq(ShMsg) /\ Idle(<<Close(0)>>)
      BY ShSends, ShIdle
    <3>1. CASE FetchUnserved
      <4> DEFINE out == IF chan = "gone" THEN <<Close(0)>> ELSE <<>>
      <4>1. /\ net["host"] # <<>> /\ Answer("host", {}, out) /\ UNCHANGED <<session, chan>>
            /\ chan \in {"dead", "gone"}
        BY <1>1, <3>1 DEF FetchUnserved, ChannelServed
      <4>2. out \in Seq(ShMsg) /\ Idle(out)
        BY <3>0, <1>6
      <4> HIDE DEF out
      <4>3. Rests("host", Tail(net["host"])) /\ Passes("host", Tail(net["host"]), out)
        BY <1>1, <4>1, PassBy
      <4> QED BY <4>1, <4>2, <4>3
    <3>2. CASE Deatch
      <4>1. /\ Emit("host", {}, <<Close(0)>>) /\ UNCHANGED session
            /\ chan \in {"dead", "gone"} /\ chan' \in {"dead", "gone"}
        BY <3>2 DEF Deatch, DeatchChannel
      <4>2. Rests("host", net["host"]) /\ Passes("host", net["host"], <<Close(0)>>)
        BY <1>1, <4>1, PassBy
      <4> QED BY <3>0, <4>1, <4>2
    <3> QED BY <1>12, <3>1, <3>2
  <2>2. PICK rest, out : /\ chan \in {"dead", "gone"} /\ chan' \in {"dead", "gone"} /\ UNCHANGED session
                         /\ Rests("host", rest) /\ Passes("host", rest, out)
                         /\ out \in Seq(ShMsg) /\ Idle(out)
    BY <2>1
  <2>3. Step("host", rest, out)
    BY <1>1, <2>2 DEF Step, Served
  <2> QED BY <1>1, <1>5, <2>3
<1>13. CASE Free \/ Busy \/ Ends
  <2>1. \/ UNCHANGED <<session, net, task>> /\ chan' = "dead"
        \/ session' = "down" /\ net' = Both(<<>>)
    BY <1>13 DEF Free, Busy, Ends, FreeChannel, PoolBusy, SessionEnd
  <2>2. Rests("host", net["host"]) /\ Passes("host", net["host"], <<>>)
    BY <1>1, <2>1, PassBy DEF Rests, Passes
  <2>3. session' \in {"up", "down"} /\ (session' = "up" => session = "up" /\ chan' = "dead")
    BY <1>1, <2>1
  <2>4. Step("host", net["host"], <<>>)
    BY <1>6, <2>2, <2>3 DEF Step
  <2> QED BY <1>1, <1>5, <2>4
<1> QED BY <1>8, <1>9, <1>10, <1>11, <1>12, <1>13 DEF CommonStep

\* The end of a process is told when it is over.
LEMMA ShFinishes ==
    ASSUME IInv, IInv', IsProcess, TaskTypes, TaskTypes', ShData,
           OnEndOfFile \/ OnWritten \/ (OnRead /\ ~PeerHears)
    PROVE  ShData'
<1>1. /\ ShTypes /\ ShCounts /\ ShOnce /\ ShFlow /\ ProcInv /\ BaseTypes
      /\ session \in {"up", "down"} /\ log \in {"off", "wanted", "on", "closing", "closed"}
      /\ logged \in Nat /\ rd \in 0 .. 1 /\ wr \in Nat /\ lw \in Nat /\ owed["daemon"] \in -1 .. 1
      /\ cmdRef = (IF IsShell THEN 0 ELSE rd) /\ net \in [End -> Seq(ShMsg)]
      /\ "host" \in End /\ "daemon" \in End
  BY ShBase
<1>2. /\ UNCHANGED <<kind, session, chan, task, printed, got, typed, proc, log, lw, logged>>
      /\ pipe' = pipe \/ (~Served' /\ pipe > 0 /\ pipe' = pipe - 1)
      /\ owed'["daemon"] = owed["daemon"] \/ (owed["daemon"] = 0 /\ owed'["daemon"] = -1 /\ wr > 0)
  <2>1. CASE OnRead /\ ~PeerHears
    <3>1. session' # "up" \/ IsShell
      BY <2>1 DEF OnRead, PeerHears
    <3>2. UNCHANGED kind /\ ~Served'
      BY <3>1, <2>1 DEF Served, IsShell, OnRead
    <3> QED BY <2>1, <3>2 DEF OnRead, UnchangedHost
  <2>2. CASE OnEndOfFile
    BY <2>2 DEF OnEndOfFile, FinishShellProc, UnchangedHost, UnchangedIO
  <2>3. CASE OnWritten
    <3>1. owed \in [End -> Int]
      BY <1>1 DEF BaseTypes
    <3> QED BY <2>3, <3>1, <1>1 DEF OnWritten, FinishShellProc, UnchangedHost, Owe
  <2> QED BY <2>1, <2>2, <2>3
<1>3. /\ wr' \in {wr, wr - 1} /\ (rd' = rd \/ rd' = 0)
      /\ cmdRef' = (IF IsShell THEN 0 ELSE rd')
  <2>1. CASE OnRead \/ OnEndOfFile
    <3>1. rd = 1 /\ wr' = wr /\ rd' \in {0, 1}
          /\ \/ cmdRef' = cmdRef /\ rd' = rd
             \/ cmdRef' = (IF IsShell THEN cmdRef ELSE cmdRef - 1) /\ rd' = 0
      BY <2>1 DEF OnRead, OnEndOfFile, FinishShellProc, UnchangedIO
    <3> QED BY <1>1, <3>1
  <2>2. CASE OnWritten
    <3>1. wr > 0 /\ wr' = wr - 1 /\ rd' = rd
      BY <2>2 DEF OnWritten
    <3>2. IsShell
      <4>1. wr + Typing <= typed /\ typed \in Int
        BY <1>1 DEF ShCounts, ShTypes
      <4>2. net["daemon"] \in Seq(ShMsg)
        BY <1>1
      <4>3. Typing \in Nat
        BY <4>2, CountNat DEF Typing
      <4> DEFINE t == Typing
      <4>4. t \in Nat /\ wr + t <= typed
        BY <4>1, <4>3
      <4> HIDE DEF t
      <4>5. typed # 0
        BY <1>1, <3>1, <4>1, <4>4
      <4> QED BY <1>1, <4>5 DEF ShTypes
    <3>3. cmdRef' = cmdRef
      BY <2>2, <3>2 DEF OnWritten, FinishShellProc
    <3> QED BY <1>1, <3>1, <3>2, <3>3
  <2> QED BY <2>1, <2>2
<1>4. PICK out : /\ out \in Seq(ShMsg) /\ Idle(out) /\ Rests("daemon", net["daemon"])
                 /\ Passes("daemon", net["daemon"], out)
                 /\ out = <<>> \/ (rd' = 0 /\ OnEndOfFile) \/ OnWritten
  <2>0. <<>> \in Seq(ShMsg) /\ Idle(<<>>) /\ Finish \in Seq(ShMsg) /\ Idle(Finish)
    BY ShSends, ShIdle
  <2>1. CASE UNCHANGED net
    <3>1. Rests("daemon", net["daemon"]) /\ Passes("daemon", net["daemon"], <<>>)
      BY <1>1, <2>1, PassBy
    <3> QED BY <2>0, <3>1
  <2>2. CASE ~UNCHANGED net
    <3> DEFINE out == IfHeard(Finish)
    <3>1. Emit("daemon", {}, out) /\ (out = <<>> \/ (rd' = 0 /\ OnEndOfFile) \/ OnWritten)
      BY <2>2 DEF OnRead, OnEndOfFile, OnWritten, FinishShellProc, IfHeard
    <3>2. out \in Seq(ShMsg) /\ Idle(out)
      BY <2>0 DEF IfHeard
    <3> HIDE DEF out
    <3>3. Rests("daemon", net["daemon"]) /\ Passes("daemon", net["daemon"], out)
      BY <1>1, <1>2, <3>1, PassBy
    <3> QED BY <3>1, <3>2, <3>3
  <2> QED BY <2>1, <2>2
<1>5. ASSUME Served, \E m \in Closes : In(out, m)
      PROVE  rd' = 0 /\ pipe = 0 /\ proc' # "run" /\ \A d \in End : ~In(net[d], Starts)
  <2>1. out # <<>>
    BY <1>5, Emptied
  <2>2. ~OnWritten
    <3> SUFFICES ASSUME OnWritten PROVE FALSE
      OBVIOUS
    <3>1. wr > 0
      BY DEF OnWritten
    <3>2. ~IsShell
      BY <1>5 DEF Served, IsShell
    <3>3. typed = 0 /\ wr + Typing <= typed
      BY <1>1, <3>2 DEF ShTypes, ShCounts
    <3>4. net["daemon"] \in Seq(ShMsg)
      BY <1>1
    <3>5. Typing \in Nat
      BY <3>4, CountNat DEF Typing
    <3> DEFINE t == Typing
    <3>6. t \in Nat /\ wr + t <= 0
      BY <3>3, <3>5
    <3> HIDE DEF t
    <3> QED BY <1>1, <3>1, <3>6
  <2>3. rd' = 0 /\ rd = 1 /\ pipe = 0 /\ proc # "run"
    BY <1>4, <2>1, <2>2 DEF OnEndOfFile, EndOfFile
  <2>4. \A d \in End : ~In(net[d], Starts)
    BY <1>1, <2>3 DEF ProcInv
  <2> QED BY <1>2, <2>3, <2>4
<1>6. lw' + logged' <= lw + logged /\ logged' \in Nat /\ owed'["daemon"] \in -1 .. 1
      /\ (owed'["daemon"] = owed["daemon"] \/ wr > 0) /\ session' \in {"up", "down"}
  BY <1>1, <1>2
<1> QED BY <1>1, <1>2, <1>3, <1>4, <1>5, <1>6, ShIdleStep

\* Steps that send nothing of the output.
LEMMA ShOthers ==
    ASSUME IInv, IInv', IsProcess, TaskTypes, TaskTypes', ShData,
           ProcessExits \/ LogWritten \/ OnLogClosed \/ UNCHANGED vars
    PROVE  ShData'
<1>1. /\ ShTypes /\ ShCounts /\ ShOnce /\ ShFlow /\ ProcInv /\ BaseTypes
      /\ session \in {"up", "down"} /\ log \in {"off", "wanted", "on", "closing", "closed"}
      /\ logged \in Nat /\ rd \in 0 .. 1 /\ wr \in Nat /\ lw \in Nat /\ owed["daemon"] \in -1 .. 1
      /\ cmdRef = (IF IsShell THEN 0 ELSE rd) /\ net \in [End -> Seq(ShMsg)]
      /\ "host" \in End /\ "daemon" \in End
  BY ShBase
<1>2. /\ UNCHANGED <<kind, session, chan, task, net, owed, printed, got, typed, pipe, rd, wr, cmdRef>>
      /\ proc' = proc \/ (proc = "run" /\ proc' \in {"exited", "killed"})
      /\ log' \in {"off", "wanted", "on", "closing", "closed"}
      /\ lw' + logged' <= lw + logged /\ logged' \in Nat
  <2>1. CASE ProcessExits
    BY <1>1, <2>1 DEF ProcessExits, UnchangedHost, UnchangedIO, taskVars
  <2>2. CASE LogWritten
    <3>1. lw > 0 /\ lw' = lw - 1 /\ (logged' = logged + 1 \/ logged' = logged)
          /\ UNCHANGED <<kind, session, chan, task, net, owed, printed, got, typed, pipe, rd, wr, cmdRef, proc, log>>
      BY <2>2 DEF LogWritten, UnchangedIO
    <3> QED BY <1>1, <3>1
  <2>3. CASE OnLogClosed
    BY <1>1, <2>3 DEF OnLogClosed, UnchangedIO
  <2>4. CASE UNCHANGED vars
    BY <1>1, <2>4 DEF vars, taskVars, shVars
  <2> QED BY <2>1, <2>2, <2>3, <2>4
<1>3. Rests("daemon", net["daemon"]) /\ Passes("daemon", net["daemon"], <<>>)
  BY <1>1, <1>2, PassBy
<1>4. <<>> \in Seq(ShMsg) /\ Idle(<<>>) /\ \A m \in Closes : ~In(<<>>, m)
  BY ShSends, ShIdle, Emptied
<1>5. /\ wr' \in {wr, wr - 1} /\ (rd' = rd \/ rd' = 0) /\ cmdRef' = (IF IsShell THEN 0 ELSE rd')
      /\ owed'["daemon"] \in -1 .. 1 /\ session' \in {"up", "down"}
      /\ "daemon" # "host"
  BY <1>1, <1>2
<1> QED BY <1>1, <1>2, <1>3, <1>4, <1>5, ShIdleStep

\* Input that arrives is written, or a shell that was not started is ended.
LEMMA ShTyped ==
    ASSUME IInv, IInv', IsProcess, TaskTypes, TaskTypes', ShData, ShellData
    PROVE  ShData'
<1>1. /\ ShTypes /\ ShCounts /\ ShOnce /\ ShFlow /\ ProcInv /\ BaseTypes
      /\ session \in {"up", "down"} /\ log \in {"off", "wanted", "on", "closing", "closed"}
      /\ logged \in Nat /\ rd \in 0 .. 1 /\ wr \in Nat /\ lw \in Nat /\ owed["daemon"] \in -1 .. 1
      /\ cmdRef = (IF IsShell THEN 0 ELSE rd) /\ net \in [End -> Seq(ShMsg)]
      /\ "host" \in End /\ "daemon" \in End
  BY ShBase
<1>2. /\ UNCHANGED <<kind, session, chan, task, owed, printed, got, typed, pipe, rd, cmdRef, proc, log, lw, logged>>
      /\ net["daemon"] # <<>> /\ Head(net["daemon"]).cmd = "SHELL_DATA"
      /\ wr' = wr \/ (wr' = wr + 1 /\ proc # "none")
  BY DEF ShellData, Gets, UnchangedHost
<1>3. Takes("daemon", Tail(net["daemon"])) /\ Head(net["daemon"]) \in Input
  BY <1>1, <1>2, ShHead DEF Takes
<1>4. IsShell /\ ~Served
  <2>1. net["daemon"] \in Seq(ShMsg)
    BY <1>1
  <2>2. Typing \in Nat /\ Typing # 0
    BY <1>2, <1>3, <2>1, CountNat, Taken DEF Typing
  <2>3. wr + Typing <= typed /\ typed \in Int
    BY <1>1 DEF ShCounts, ShTypes
  <2> DEFINE t == Typing
  <2>4. t \in Nat /\ t # 0 /\ wr + t <= typed
    BY <2>2, <2>3
  <2> HIDE DEF t
  <2>5. typed # 0
    BY <1>1, <2>3, <2>4
  <2>6. IsShell
    BY <1>1, <2>5 DEF ShTypes
  <2> QED BY <2>6 DEF IsShell, Served
<1>5. PICK out : out \in Seq(ShMsg) /\ Idle(out) /\ Answer("daemon", {}, out)
  <2>1. Answer("daemon", {}, Finish) \/ Answer("daemon", {}, <<>>)
    BY DEF ShellData
  <2> QED BY <2>1, ShSends, ShIdle
<1>6. Rests("daemon", Tail(net["daemon"])) /\ Passes("daemon", Tail(net["daemon"]), out)
  BY <1>1, <1>2, <1>5, PassBy
<1>7. /\ (rd' = rd \/ rd' = 0) /\ cmdRef' = (IF IsShell THEN 0 ELSE rd')
      /\ owed'["daemon"] \in -1 .. 1 /\ session' \in {"up", "down"} /\ lw' + logged' <= lw + logged
      /\ "daemon" # "host" /\ logged' \in Nat /\ log' \in {"off", "wanted", "on", "closing", "closed"}
  BY <1>1, <1>2
<1>8. \/ wr' \in {wr, wr - 1}
      \/ wr' = wr + 1 /\ proc # "none" /\ Takes("daemon", Tail(net["daemon"])) /\ Head(net["daemon"]) \in Input
  BY <1>2, <1>3
<1> QED BY <1>1, <1>2, <1>4, <1>5, <1>6, <1>7, <1>8, ShIdleStep

\* Commands that are over at once.
LEMMA ShOneShot ==
    ASSUME IInv, IInv', IsProcess, TaskTypes, TaskTypes', ShData, OneShot
    PROVE  ShData'
<1>1. /\ ShTypes /\ ShCounts /\ ShOnce /\ ShFlow /\ ProcInv /\ BaseTypes
      /\ session \in {"up", "down"} /\ log \in {"off", "wanted", "on", "closing", "closed"}
      /\ logged \in Nat /\ rd \in 0 .. 1 /\ wr \in Nat /\ lw \in Nat /\ owed["daemon"] \in -1 .. 1
      /\ cmdRef = (IF IsShell THEN 0 ELSE rd) /\ net \in [End -> Seq(ShMsg)]
      /\ "host" \in End /\ "daemon" \in End
  BY ShBase
<1>2. /\ UNCHANGED <<kind, session, chan, owed, printed, got, typed, pipe, rd, wr, cmdRef, proc, log, lw, logged>>
      /\ net["daemon"] # <<>> /\ kind = "oneshot"
  BY DEF OneShot, Creates, shVars
<1>3. PICK out : out \in Seq(ShMsg) /\ Idle(out) /\ Answer("daemon", {}, out)
  <2>1. PICK said \in {<<>>, Log("daemon", "ok"), Log("daemon", "fail")} :
            Answer("daemon", {}, said \o Finish)
    BY DEF OneShot
  <2>2. said \o Finish \in Seq(ShMsg) /\ Idle(said \o Finish)
    <3>1. CASE said = <<>>
      <4>1. <<>> \o Finish = Finish
        BY ShSends
      <4> QED BY <3>1, <4>1, ShSends, ShIdle
    <3>2. CASE said # <<>>
      <4>1. \A lv : Log("daemon", lv) \o Finish \in Seq(ShMsg)
        BY ShSends
      <4> QED BY <3>2, <4>1, ShIdle
    <3> QED BY <3>1, <3>2
  <2> QED BY <2>1, <2>2
<1>4. Rests("daemon", Tail(net["daemon"])) /\ Passes("daemon", Tail(net["daemon"]), out)
  BY <1>1, <1>2, <1>3, PassBy
<1>5. /\ wr' \in {wr, wr - 1} /\ (rd' = rd \/ rd' = 0) /\ cmdRef' = (IF IsShell THEN 0 ELSE rd')
      /\ owed'["daemon"] \in -1 .. 1 /\ session' \in {"up", "down"} /\ lw' + logged' <= lw + logged
      /\ "daemon" # "host" /\ ~Served /\ kind # "bugreport"
      /\ logged' \in Nat /\ log' \in {"off", "wanted", "on", "closing", "closed"}
  BY <1>1, <1>2 DEF Served
<1> QED BY <1>1, <1>2, <1>3, <1>4, <1>5, ShIdleStep

\* A step while the command goes on.
LEMMA ShEarly ==
    ASSUME ShTypes, ShFlow, TaskTypes, ~Over, UNCHANGED <<kind, session, chan>>,
           NEW e \in End, NEW rest, Rests(e, rest), NEW out \in Seq(ShMsg), Passes(e, rest, out),
           ShTypes', ShCounts', ShOnce',
           Served /\ (\E m \in Closes : In(out, m)) => Over',
           Served => got' + Shown' + pipe' = printed',
           (\A m \in Closes : ~In(out, m)) \/ (\A m \in Output : ~In(out, m)),
           \A h \in Output : In(out, h) => (kind = "bugreport" <=> h.cmd = "BUG_DATA"),
           kind = "bugreport" /\ Served => task'["host"] = "run" \/ ~Comes'
    PROVE  ShData'
<1>1. net \in [End -> Seq(ShMsg)] /\ "host" \in End
  BY DEF ShTypes, End
<1>2. /\ \A d \in End : \A m : In(net'[d], m) => In(net[d], m) \/ In(out, m)
  <2>1. /\ \A m : In(net'[e], m) => In(rest, m)
        /\ \A m : In(rest, m) => In(net[e], m)
        /\ \A m : In(net'[Other(e)], m) => In(net[Other(e)], m) \/ In(out, m)
    BY <1>1, PassFacts
  <2> QED BY <2>1, Ends2
<1>3. Served' => Served
  BY DEF Served
<1> SUFFICES ASSUME Served' PROVE
                      /\ got' + Shown' + pipe' = printed'
                      /\ (chan' = "asked" \/ \E d \in End : \E h \in Closes : In(net'[d], h)) => Over'
                      /\ chan' = "asked" => Shown' = 0
                      /\ Ordered(net'["host"])
                      /\ \A h \in Output : In(net'["host"], h) =>
                            (kind = "bugreport" <=> h.cmd = "BUG_DATA")
                      /\ kind = "bugreport" /\ chan' = "open" /\ Comes' => task'["host"] = "run"
  BY DEF ShData, ShFlow, Output, Closes, Ordered
<1>4. chan # "asked" /\ \A d \in End : \A h \in Closes : ~In(net[d], h)
  BY <1>3 DEF ShFlow
<1>5. Ordered(net["host"]) /\ \A h \in Output : In(net["host"], h) => (kind = "bugreport" <=> h.cmd = "BUG_DATA")
  BY <1>3 DEF ShFlow
<1>6. Ordered(net'["host"])
  BY <1>1, <1>4, <1>5, OrderedPass
<1>7. \A h \in Output : In(net'["host"], h) => (kind = "bugreport" <=> h.cmd = "BUG_DATA")
  BY <1>1, <1>2, <1>5
<1>8. (\E d \in End : \E h \in Closes : In(net'[d], h)) => Over'
  BY <1>2, <1>3, <1>4
<1>9. ASSUME kind = "bugreport", Comes' PROVE task'["host"] = "run"
  BY <1>3, <1>9
<1> QED BY <1>3, <1>4, <1>6, <1>7, <1>8, <1>9

\* The message that starts the process is under way: nothing has happened.
LEMMA ShStarting ==
    ASSUME IInv, IsProcess, ShData, NEW e \in End, net[e] # <<>>, Head(net[e]).cmd = ShFirst
    PROVE  /\ In(net[e], Starts) /\ Head(net[e]) = Starts /\ ~Over /\ proc = "none" /\ rd = 0
           /\ printed = 0 /\ wr = 0 /\ owed["daemon"] = 0 /\ got = 0 /\ pipe = 0 /\ Shown = 0
<1>1. net \in [End -> Seq(ShMsg)] /\ net \in [End -> Seq(ShSays)] /\ ShOnce /\ ProcInv
  BY ProcTypes DEF ShData, ShTypes, ProcInv
<1>2. In(net[e], Head(net[e])) /\ Head(net[e]) \in ShSays
  <2>1. net[e] \in Seq(ShSays)
    BY <1>1
  <2> QED BY <2>1, Taken
<1>3. Head(net[e]) = Starts
  BY <1>2, Starting
<1>4. proc = "none" /\ printed = 0 /\ wr = 0 /\ owed["daemon"] = 0 /\ rd = 0
  BY <1>1, <1>2, <1>3 DEF ShOnce, ProcInv
<1>5. got = 0 /\ pipe = 0 /\ Shown = 0
  <2>1. got \in Nat /\ pipe \in Nat /\ got + Shown + pipe <= 0
    BY <1>4 DEF ShData, ShTypes, ShCounts
  <2>2. net["host"] \in Seq(ShMsg)
    BY <1>1 DEF End
  <2>3. Shown \in Nat
    BY <2>2, CountNat DEF Shown
  <2> DEFINE s == Shown
  <2>4. s \in Nat /\ got + s + pipe <= 0
    BY <2>1, <2>3
  <2> HIDE DEF s
  <2>5. got = 0 /\ pipe = 0 /\ s = 0
    BY <2>1, <2>4
  <2> QED BY <2>5 DEF s
<1>6. ~Over
  BY <1>2, <1>3 DEF Over
<1> QED BY <1>2, <1>3, <1>4, <1>5, <1>6

\* The process is started, or cannot be.
LEMMA ShBegins ==
    ASSUME IInv, IInv', IsProcess, TaskTypes, TaskTypes', ShData, StartShell \/ BeginExecute
    PROVE  ShData'
<1>1. /\ ShTypes /\ ShCounts /\ ShOnce /\ ShFlow /\ ProcInv /\ BaseTypes
      /\ session \in {"up", "down"} /\ log \in {"off", "wanted", "on", "closing", "closed"}
      /\ logged \in Nat /\ pipe \in Nat /\ got \in Nat /\ printed \in 0 .. MaxOut
      /\ rd \in 0 .. 1 /\ wr \in Nat /\ lw \in Nat /\ owed["daemon"] \in -1 .. 1
      /\ cmdRef = (IF IsShell THEN 0 ELSE rd) /\ net \in [End -> Seq(ShMsg)]
      /\ proc \in {"none", "run", "exited", "killed"}
      /\ "host" \in End /\ "daemon" \in End
  BY ShBase
<1>2. /\ UNCHANGED <<kind, session, chan, pipe, printed, got, wr, typed, log, lw, logged>>
      /\ net["daemon"] # <<>> /\ Head(net["daemon"]).cmd = ShFirst
  BY DEF StartShell, BeginExecute, Creates, UnchangedIO, UnchangedHost, ShFirst, IsShell
<1>3. /\ In(net["daemon"], Starts) /\ ~Over /\ proc = "none" /\ rd = 0 /\ printed = 0 /\ wr = 0
      /\ owed["daemon"] = 0
  BY <1>1, <1>2, ShStarting
<1>4. PICK out : out \in Seq(ShMsg) /\ Idle(out) /\ Answer("daemon", {}, out)
                 /\ out \in {<<>>, Log("daemon", "fail")} /\ (IsShell \/ out = <<>>)
  BY ShSends, ShIdle DEF StartShell, BeginExecute
<1>5. Rests("daemon", Tail(net["daemon"])) /\ Passes("daemon", Tail(net["daemon"]), out)
  BY <1>1, <1>2, <1>4, PassBy
<1>6. /\ rd' \in 0 .. 1 /\ proc' \in {"none", "run"} /\ cmdRef' = (IF IsShell THEN 0 ELSE rd')
      /\ owed'["daemon"] \in 0 .. 1
      /\ IsShell \/ task'["host"] = task["host"]
  <2>1. owed \in [End -> Int] /\ task \in [End -> {"none", "run", "stop", "gone"}]
    BY <1>1 DEF BaseTypes
  <2>2. CASE StartShell
    BY <1>1, <1>3, <2>2 DEF StartShell
  <2>3. CASE BeginExecute
    <3>1. ~IsShell /\ ExecuteCommand /\ task' = [task EXCEPT !["daemon"] = "run"]
      BY <2>3 DEF BeginExecute, ExecuteShell, IsShell
    <3>2. cmdRef = 0
      BY <1>1, <1>3, <3>1
    <3> QED BY <1>1, <1>3, <2>1, <3>1, <3>2 DEF ExecuteCommand, Owe
  <2> QED BY <2>2, <2>3
<1>7. /\ net' \in [End -> Seq(ShMsg)] /\ Shown' <= Shown /\ Typing' <= Typing /\ Shown \in Nat /\ Shown' \in Nat
      /\ Typing \in Nat /\ Typing' \in Nat /\ (session' = "up" => Shown' = Shown)
  <2>1. Count(out, Output) = 0 /\ Count(out, Input) = 0
    BY <1>4, IdleCounts
  <2>2. /\ net' \in [End -> Seq(ShMsg)] /\ Shown' <= Shown + Count(out, Output) /\ Typing' <= Typing /\ Shown \in Nat /\ Shown' \in Nat
        /\ Typing \in Nat /\ Typing' \in Nat /\ (session' = "up" => Shown' = Shown + Count(out, Output))
    BY <1>1, <1>4, <1>5, <2>1, ShPass
  <2>3. \A x \in Nat : x + 0 = x
    OBVIOUS
  <2> QED BY <2>1, <2>2, <2>3
<1>8. \A d \in End : ~In(net'[d], Starts')
  <2>0. Starts' = Starts
    BY <1>2 DEF Starts, ShFirst
  <2>1. out \in Seq(Plain)
    BY <1>4, PlainSends
  <2> QED BY <1>1, <1>2, <1>4, <2>0, <2>1, Started DEF StartShell, BeginExecute, Creates
<1>9. ShTypes'
  BY <1>1, <1>2, <1>6, <1>7 DEF ShTypes, IsShell
<1>10. ShOnce'
  BY <1>8 DEF ShOnce
<1>11. ShCounts'
  <2> DEFINE s == Shown
             s1 == Shown'
             t == Typing
             t1 == Typing'
             l == lw + logged
  <2>1. /\ s \in Nat /\ s1 \in Nat /\ t \in Nat /\ t1 \in Nat /\ s1 <= s /\ t1 <= t /\ l \in Nat
    BY <1>1, <1>7
  <2>2. got + s + pipe <= printed /\ wr + t <= typed /\ l <= got /\ typed \in Int
    BY <1>1 DEF ShCounts, ShTypes
  <2> HIDE DEF s, s1, t, t1, l
  <2>3. got + s1 + pipe <= printed /\ wr + t1 <= typed
    BY <1>1, <2>1, <2>2
  <2>4. got' = got /\ pipe' = pipe /\ printed' = printed /\ typed' = typed /\ wr' = wr /\ lw' + logged' = l
    BY <1>2 DEF l
  <2> QED BY <2>2, <2>3, <2>4 DEF ShCounts, s1, t1
<1>12. Served => got' + Shown' + pipe' = printed'
  BY <1>1, <1>2, <1>7 DEF ShFlow, Served
<1>13. (\A m \in Closes : ~In(out, m)) /\ (\A m \in Output : ~In(out, m))
  <2>1. ~In(<<>>, Close(0)) /\ \A m \in Closes : ~In(Log("daemon", "fail"), m) /\ ~In(<<>>, m)
    <3>1. Log("daemon", "fail") = <<Msg("ECHO_FAIL", 0)>>
      BY DEF Log, EchoOf
    <3> QED BY <3>1, Few, Emptied DEF Closes, Msg
  <2> QED BY <1>4, <2>1 DEF Idle
<1>14. Served => ~IsShell
  BY DEF Served, IsShell
<1>15. ASSUME kind = "bugreport", Served PROVE task'["host"] = "run"
  <2>1. Comes /\ chan = "open"
    BY <1>1, <1>3, <1>15 DEF Comes, ShFlow, Served
  <2>2. task["host"] = "run"
    BY <1>1, <1>15, <2>1 DEF ShFlow
  <2> QED BY <1>6, <1>14, <1>15, <2>2
<1> QED BY <1>1, <1>2, <1>3, <1>4, <1>5, <1>9, <1>10, <1>11, <1>12, <1>13, <1>15, ShEarly

\* The server starts the bugreport, or cannot open its log.
LEMMA ShBugreport ==
    ASSUME IInv, IInv', IsProcess, TaskTypes, TaskTypes', ShData, BeginBugreport
    PROVE  ShData'
<1>1. /\ ShTypes /\ ShCounts /\ ShOnce /\ ShFlow /\ ProcInv /\ BaseTypes
      /\ session \in {"up", "down"} /\ log \in {"off", "wanted", "on", "closing", "closed"}
      /\ logged \in Nat /\ pipe \in Nat /\ got \in Nat /\ printed \in 0 .. MaxOut
      /\ rd \in 0 .. 1 /\ wr \in Nat /\ lw \in Nat /\ owed["daemon"] \in -1 .. 1
      /\ cmdRef = (IF IsShell THEN 0 ELSE rd) /\ net \in [End -> Seq(ShMsg)]
      /\ proc \in {"none", "run", "exited", "killed"}
      /\ "host" \in End /\ "daemon" \in End
  BY ShBase
<1>2. /\ UNCHANGED <<kind, session, chan, owed, pipe, printed, got, wr, typed, proc, rd, cmdRef, lw, logged>>
      /\ net["host"] # <<>> /\ Head(net["host"]).cmd = ShFirst /\ kind = "bugreport"
      /\ log' \in {"off", "wanted", "on", "closing", "closed"} /\ task'["host"] = "run"
  BY <1>1 DEF BeginBugreport, Creates, UnchangedIO, ShFirst, AddTask, BaseTypes
<1>3. /\ In(net["host"], Starts) /\ Head(net["host"]) = Starts /\ ~Over /\ proc = "none" /\ rd = 0
      /\ printed = 0 /\ wr = 0 /\ owed["daemon"] = 0 /\ got = 0 /\ pipe = 0 /\ Shown = 0
  BY <1>1, <1>2, ShStarting
<1>4. Msg("BUG_INIT", 0) = Starts /\ Starts' = Starts /\ Starts \in ShMsg
  <2>1. ShFirst = "BUG_INIT" /\ ShFirst' = "BUG_INIT"
    BY <1>2 DEF ShFirst
  <2> QED BY <2>1, ShMessages DEF Starts
<1>5. PICK out : /\ out \in Seq(ShMsg) /\ \E lvs : Answer("host", lvs, out)
                 /\ \/ out = <<Wakeup, Starts>> \/ out = <<Wakeup>> \o Fails("host")
  <2>1. <<Wakeup>> \in Seq(ShMsg) /\ Fails("host") \in Seq(ShMsg) /\ Wakeup \in ShMsg
    BY ShSends, ShMessages DEF Wakeup
  <2>2. <<Wakeup>> \o Fails("host") \in Seq(ShMsg) /\ <<Wakeup, Starts>> \in Seq(ShMsg)
    BY <2>1, <1>4
  <2>3. \E lvs : Answer("host", lvs, <<Wakeup, Starts>>) \/ Answer("host", lvs, <<Wakeup>> \o Fails("host"))
    BY <1>4 DEF BeginBugreport
  <2> QED BY <2>2, <2>3
<1>6. Rests("host", Tail(net["host"])) /\ Passes("host", Tail(net["host"]), out)
  BY <1>1, <1>2, <1>5, PassBy
<1>7. /\ \A m \in Output : ~In(out, m)
      /\ \A m \in Input : ~In(out, m)
      /\ out = <<Wakeup, Starts>> => \A m \in Closes : ~In(out, m)
      /\ out # <<Wakeup, Starts>> => ~In(out, Starts)
  <2>1. CASE out = <<Wakeup, Starts>>
    <3>1. \A m : In(out, m) => m = Wakeup \/ m = Starts
      BY <2>1, Few
    <3>2. Wakeup.cmd = "WAKEUP" /\ Starts.cmd = "BUG_INIT"
      BY <1>4 DEF Wakeup, Msg
    <3> QED BY <2>1, <3>1, <3>2 DEF Output, Input, Closes
  <2>2. CASE out # <<Wakeup, Starts>>
    <3>1. Idle(out)
      BY <1>5, <2>2, ShIdle
    <3> QED BY <2>2, <3>1 DEF Idle
  <2> QED BY <2>1, <2>2
<1>8. /\ net' \in [End -> Seq(ShMsg)] /\ Shown' = 0 /\ Typing' <= Typing
      /\ Typing \in Nat /\ Typing' \in Nat
  <2>1. Count(out, Input) = 0
    BY <1>5, <1>7, CountNat
  <2>2. /\ net' \in [End -> Seq(ShMsg)] /\ Shown' <= Shown /\ Typing' <= Typing /\ Shown' \in Nat
        /\ Typing \in Nat /\ Typing' \in Nat
    BY <1>1, <1>5, <1>6, <2>1, ShPass
  <2> QED BY <1>3, <2>2
<1>9. ShTypes'
  BY <1>1, <1>2, <1>8 DEF ShTypes, IsShell
<1>10. ShOnce'
  BY <1>2, <1>3, <1>4 DEF ShOnce
<1>11. ShCounts'
  <2> DEFINE s1 == Shown'
             t == Typing
             t1 == Typing'
             l == lw + logged
  <2>1. /\ s1 = 0 /\ t \in Nat /\ t1 \in Nat /\ t1 <= t /\ l \in Nat
    BY <1>1, <1>8
  <2>2. wr + t <= typed /\ l <= got /\ typed \in Int
    BY <1>1 DEF ShCounts, ShTypes
  <2> HIDE DEF s1, t, t1, l
  <2>3. got + s1 + pipe <= printed /\ wr + t1 <= typed
    BY <1>1, <1>3, <2>1, <2>2
  <2>4. got' = got /\ pipe' = pipe /\ printed' = printed /\ typed' = typed /\ wr' = wr /\ lw' + logged' = l
    BY <1>2 DEF l
  <2> QED BY <2>2, <2>3, <2>4 DEF ShCounts, s1, t1
<1>12. got' + Shown' + pipe' = printed'
  BY <1>2, <1>3, <1>8
<1>13. ASSUME \E m \in Closes : In(out, m) PROVE Over'
  <2>1. ~In(out, Starts)
    BY <1>7, <1>13
  <2>2. Single(net["host"], Starts) /\ ~In(net["daemon"], Starts)
    BY <1>1, <1>3 DEF ProcInv
  <2>3. ~In(net'["host"], Starts) /\ ~In(net'["daemon"], Starts)
    <3>1. net["host"] \in Seq(ShMsg) /\ Other("host") = "daemon"
      BY <1>1 DEF Other
    <3>2. ~In(Tail(net["host"]), Starts)
      BY <1>2, <1>3, <2>2, <3>1, Taken
    <3>3. /\ In(net'["host"], Starts) => In(Tail(net["host"]), Starts)
          /\ In(net'["daemon"], Starts) => In(net["daemon"], Starts) \/ In(out, Starts)
      BY <1>1, <1>5, <1>6, <3>1, PassFacts
    <3> QED BY <2>1, <2>2, <3>2, <3>3
  <2> QED BY <1>2, <1>3, <1>4, <2>3 DEF Over, End
<1> QED BY <1>1, <1>2, <1>3, <1>5, <1>6, <1>7, <1>9, <1>10, <1>11, <1>12, <1>13, ShEarly

\* The process writes, and its output is sent.
LEMMA ShWrites ==
    ASSUME IInv, IInv', IsProcess, TaskTypes, TaskTypes', ShData,
           ProcessWrites \/ (OnRead /\ PeerHears)
    PROVE  ShData'
<1>1. /\ ShTypes /\ ShCounts /\ ShOnce /\ ShFlow /\ ProcInv /\ BaseTypes
      /\ session \in {"up", "down"} /\ log \in {"off", "wanted", "on", "closing", "closed"}
      /\ logged \in Nat /\ pipe \in Nat /\ got \in Nat /\ printed \in 0 .. MaxOut
      /\ rd \in 0 .. 1 /\ wr \in Nat /\ lw \in Nat /\ owed["daemon"] \in -1 .. 1
      /\ cmdRef = (IF IsShell THEN 0 ELSE rd) /\ net \in [End -> Seq(ShMsg)]
      /\ proc \in {"none", "run", "exited", "killed"}
      /\ "host" \in End /\ "daemon" \in End
  BY ShBase
<1>2. /\ UNCHANGED <<kind, session, chan, task, owed, got, wr, typed, proc, rd, cmdRef, log, lw, logged>>
      /\ printed' \in 0 .. MaxOut /\ pipe' \in Nat
      /\ ~Over /\ (\A e \in End : ~In(net[e], Starts)) /\ (Comes' => Comes)
  <2>1. CASE ProcessWrites
    <3>1. /\ UNCHANGED <<kind, session, chan, task, owed, got, wr, typed, proc, rd, cmdRef, log, lw, logged>>
          /\ proc = "run" /\ printed < MaxOut /\ printed' = printed + 1 /\ pipe' = pipe + 1
      BY <2>1 DEF ProcessWrites, taskVars, UnchangedHost
    <3>2. printed' \in 0 .. MaxOut /\ pipe' \in Nat
      BY <1>1, <3>1, ShellAssumption
    <3>3. Comes' => Comes
      BY <3>1, <2>1 DEF ProcessWrites, taskVars, Comes, Starts, ShFirst, Output
    <3> QED BY <1>1, <3>1, <3>2, <3>3 DEF Over, ShOnce
  <2>2. CASE OnRead /\ PeerHears
    <3>1. /\ UNCHANGED <<kind, session, chan, task, owed, got, wr, typed, proc, rd, cmdRef, log, lw, logged, printed>>
          /\ rd = 1 /\ pipe > 0 /\ pipe' = pipe - 1
      BY <2>2 DEF OnRead, UnchangedHost
    <3> QED BY <1>1, <3>1 DEF Over, ProcInv, Comes
  <2> QED BY <2>1, <2>2
<1> DEFINE Sent(out, a) ==
         /\ a \in 0 .. 1 /\ out \in Seq(ShMsg) /\ Count(out, Input) = 0 /\ Count(out, Output) = 1 - a
         /\ Rests("daemon", net["daemon"]) /\ Passes("daemon", net["daemon"], out)
         /\ \A m \in Closes : ~In(out, m)
         /\ \A h \in Output : In(out, h) => (kind = "bugreport" <=> h.cmd = "BUG_DATA")
         /\ ~In(out, Starts) /\ printed' = printed + a /\ pipe' = (pipe + a) - (1 - a)
         /\ a = 0 => session = "up"
<1>3. PICK out, a : Sent(out, a)
  <2>1. CASE ProcessWrites
    <3>1. UNCHANGED net /\ printed' = printed + 1 /\ pipe' = pipe + 1
      BY <2>1 DEF ProcessWrites, taskVars
    <3>2. <<>> \in Seq(ShMsg) /\ Count(<<>>, Input) = 0 /\ Count(<<>>, Output) = 1 - 1 /\ \A m : ~In(<<>>, m)
      BY CountFew, Emptied, ShSends
    <3>3. Rests("daemon", net["daemon"]) /\ Passes("daemon", net["daemon"], <<>>)
      BY <1>1, <3>1, PassBy
    <3>4. pipe' = (pipe + 1) - (1 - 1) /\ 1 \in 0 .. 1
      BY <1>1, <3>1
    <3>5. Sent(<<>>, 1)
      BY <3>1, <3>2, <3>3, <3>4
    <3> QED BY <3>5
  <2>2. CASE OnRead /\ PeerHears
    <3> DEFINE h == Msg(IF kind = "bugreport" THEN "BUG_DATA" ELSE "RAW", 0)
    <3>1. Emit("daemon", {}, <<h>>) /\ UNCHANGED <<session, printed>> /\ pipe' = pipe - 1 /\ session = "up"
      BY <2>2 DEF OnRead, PeerHears
    <3>2. h \in ShMsg /\ h.cmd = IF kind = "bugreport" THEN "BUG_DATA" ELSE "RAW"
      BY ShMessages
    <3> HIDE DEF h
    <3>3. h \in Output /\ h \notin Input /\ h \notin Closes /\ h # Starts
      BY <3>2, ShMessages DEF Output, Input
    <3>4. <<h>> \in Seq(ShMsg) /\ \A m : In(<<h>>, m) <=> m = h
      BY <3>2, Few
    <3>9. Count(<<h>>, Input) = (IF h \in Input THEN 1 ELSE 0)
          /\ Count(<<h>>, Output) = (IF h \in Output THEN 1 ELSE 0)
      BY CountFew
    <3>7. Count(<<h>>, Input) = 0 /\ Count(<<h>>, Output) = 1 - 0
      BY <3>3, <3>9
    <3>5. Rests("daemon", net["daemon"]) /\ Passes("daemon", net["daemon"], <<h>>)
      BY <1>1, <3>1, PassBy
    <3>6. pipe' = (pipe + 0) - (1 - 0) /\ 0 \in 0 .. 1 /\ printed' = printed + 0
      BY <1>1, <3>1
    <3>8. Sent(<<h>>, 0)
      BY <3>1, <3>2, <3>3, <3>4, <3>5, <3>6, <3>7
    <3> QED BY <3>8
  <2> QED BY <2>1, <2>2
<1>4. /\ net' \in [End -> Seq(ShMsg)] /\ Shown \in Nat /\ Shown' \in Nat /\ Typing \in Nat /\ Typing' \in Nat
      /\ Typing' <= Typing /\ Shown' <= Shown + (1 - a)
      /\ session' = "up" => Shown' = Shown + (1 - a)
  BY <1>1, <1>3, ShPass
<1>5. ShTypes'
  BY <1>1, <1>2, <1>4 DEF ShTypes, IsShell
<1>6. /\ got + Shown' + pipe' <= printed' /\ wr + Typing' <= typed
      /\ session = "up" /\ got + Shown + pipe = printed => got + Shown' + pipe' = printed'
  <2> DEFINE s == Shown
             s1 == Shown'
             t == Typing
             t1 == Typing'
  <2>1. /\ s \in Nat /\ s1 \in Nat /\ t \in Nat /\ t1 \in Nat /\ s1 <= s + (1 - a) /\ t1 <= t
        /\ session = "up" => s1 = s + (1 - a)
    BY <1>2, <1>4
  <2>2. got + s + pipe <= printed /\ wr + t <= typed /\ typed \in Int
    BY <1>1 DEF ShCounts, ShTypes
  <2> HIDE DEF s, s1, t, t1
  <2>3. got + s1 + pipe' <= printed' /\ wr + t1 <= typed
        /\ (session = "up" /\ got + s + pipe = printed => got + s1 + pipe' = printed')
    BY <1>1, <1>3, <2>1, <2>2
  <2> QED BY <2>3 DEF s, s1, t1
<1>7. ShCounts'
  BY <1>1, <1>2, <1>6 DEF ShCounts
<1>8. ShOnce'
  <2>1. Starts' = Starts
    BY <1>2 DEF Starts, ShFirst
  <2>2. \A d \in End : ~In(net'[d], Starts)
    <3>1. /\ \A m : In(net'["daemon"], m) => In(net["daemon"], m)
          /\ \A m : In(net'["host"], m) => In(net["host"], m) \/ In(out, m)
      <4>1. Other("daemon") = "host"
        BY DEF Other
      <4> QED BY <1>1, <1>3, <4>1, PassFacts
    <3> QED BY <1>2, <1>3, <3>1 DEF End
  <2> QED BY <2>1, <2>2 DEF ShOnce
<1>9. Served => got' + Shown' + pipe' = printed'
  BY <1>1, <1>2, <1>6 DEF ShFlow, Served
<1>10. ASSUME kind = "bugreport", Served, Comes' PROVE task'["host"] = "run"
  <2>1. chan = "open"
    BY <1>1, <1>2, <1>10 DEF ShFlow, Served
  <2> QED BY <1>1, <1>2, <1>10, <2>1 DEF ShFlow
<1> QED BY <1>1, <1>2, <1>3, <1>5, <1>7, <1>8, <1>9, <1>10, ShEarly

\* Output is shown, or given to the log.
LEMMA ShShown ==
    ASSUME IInv, IInv', IsProcess, TaskTypes, TaskTypes', ShData, EchoRaw \/ BugreportData
    PROVE  ShData'
<1>1. /\ ShTypes /\ ShCounts /\ ShOnce /\ ShFlow /\ ProcInv /\ BaseTypes
      /\ session \in {"up", "down"} /\ log \in {"off", "wanted", "on", "closing", "closed"}
      /\ logged \in Nat /\ pipe \in Nat /\ got \in Nat /\ printed \in 0 .. MaxOut
      /\ rd \in 0 .. 1 /\ wr \in Nat /\ lw \in Nat /\ owed["daemon"] \in -1 .. 1
      /\ cmdRef = (IF IsShell THEN 0 ELSE rd) /\ net \in [End -> Seq(ShMsg)]
      /\ proc \in {"none", "run", "exited", "killed"}
      /\ "host" \in End /\ "daemon" \in End
  BY ShBase
<1>2. /\ UNCHANGED <<kind, session, chan, task, owed, pipe, printed, wr, typed, proc, rd, cmdRef, log, logged>>
      /\ got' = got + 1 /\ lw' \in {lw, lw + 1} /\ lw' \in Nat
      /\ net["host"] # <<>> /\ Head(net["host"]).cmd \in {"RAW", "BUG_DATA"} /\ Answer("host", {}, <<>>)
  BY <1>1 DEF EchoRaw, BugreportData, Gets, UnchangedHost
<1>3. Rests("host", Tail(net["host"])) /\ Passes("host", Tail(net["host"]), <<>>) /\ <<>> \in Seq(ShMsg)
  BY <1>1, <1>2, PassBy, ShSends
<1>4. Head(net["host"]) \in Output /\ In(net["host"], Head(net["host"]))
  BY <1>1, <1>2, ShHead
<1>5. /\ net' \in [End -> Seq(ShMsg)] /\ Shown \in Nat /\ Shown' \in Nat /\ Typing \in Nat /\ Typing' \in Nat
      /\ Typing' <= Typing /\ Shown' <= Shown - 1
      /\ session' = "up" => Shown' = Shown - 1
  <2>1. Count(<<>>, Input) = 0
    BY CountFew
  <2> QED BY <1>1, <1>2, <1>3, <1>4, <2>1, ShPass
<1>6. ShTypes'
  BY <1>1, <1>2, <1>5 DEF ShTypes, IsShell
<1>7. /\ got' + Shown' + pipe <= printed /\ wr + Typing' <= typed
      /\ session = "up" /\ got + Shown + pipe = printed => got' + Shown' + pipe = printed
  <2> DEFINE s == Shown
             s1 == Shown'
             t == Typing
             t1 == Typing'
  <2>1. /\ s \in Nat /\ s1 \in Nat /\ t \in Nat /\ t1 \in Nat /\ s1 <= s - 1 /\ t1 <= t
        /\ session = "up" => s1 = s - 1
    BY <1>2, <1>5
  <2>2. got + s + pipe <= printed /\ wr + t <= typed /\ typed \in Int
    BY <1>1 DEF ShCounts, ShTypes
  <2> HIDE DEF s, s1, t, t1
  <2>3. got' + s1 + pipe <= printed /\ wr + t1 <= typed
        /\ (session = "up" /\ got + s + pipe = printed => got' + s1 + pipe = printed)
    BY <1>1, <1>2, <2>1, <2>2
  <2> QED BY <2>3 DEF s, s1, t1
<1>8. lw' + logged <= got'
  <2>1. lw + logged <= got /\ lw \in Int /\ logged \in Int /\ got \in Int
    BY <1>1 DEF ShCounts
  <2>2. (lw' = lw \/ lw' = lw + 1) /\ got' = got + 1
    BY <1>2
  <2> QED BY <2>1, <2>2
<1>9. ShCounts'
  BY <1>2, <1>7, <1>8 DEF ShCounts
<1>10. \A d \in End : \A m : In(net'[d], m) => In(net[d], m)
  <2>1. /\ \A m : In(net'["host"], m) => In(Tail(net["host"]), m)
        /\ \A m : In(Tail(net["host"]), m) => In(net["host"], m)
        /\ \A m : In(net'["daemon"], m) => In(net["daemon"], m) \/ In(<<>>, m)
    <3>1. Other("host") = "daemon"
      BY DEF Other
    <3> QED BY <1>1, <1>3, <3>1, PassFacts
  <2> QED BY <2>1, Emptied DEF End
<1>11. Starts' = Starts
  BY <1>2 DEF Starts, ShFirst
<1>12. ShOnce'
  BY <1>1, <1>2, <1>10, <1>11 DEF ShOnce
<1>13. ShFlow'
  <2> SUFFICES ASSUME Served' PROVE
                      /\ got' + Shown' + pipe' = printed'
                      /\ (chan' = "asked" \/ \E d \in End : \E h \in Closes : In(net'[d], h)) => Over'
                      /\ chan' = "asked" => Shown' = 0
                      /\ Ordered(net'["host"])
                      /\ \A h \in Output : In(net'["host"], h) =>
                            (kind' = "bugreport" <=> h.cmd = "BUG_DATA")
                      /\ kind' = "bugreport" /\ chan' = "open" /\ Comes' => task'["host"] = "run"
    BY DEF ShFlow, Output, Closes, Ordered
  <2>1. Served /\ session = "up"
    BY <1>2 DEF Served
  <2>2. /\ got + Shown + pipe = printed
        /\ (chan = "asked" \/ \E d \in End : \E h \in Closes : In(net[d], h)) => Over
        /\ chan = "asked" => Shown = 0
        /\ Ordered(net["host"])
        /\ \A h \in Output : In(net["host"], h) => (kind = "bugreport" <=> h.cmd = "BUG_DATA")
        /\ kind = "bugreport" /\ chan = "open" /\ Comes => task["host"] = "run"
    BY <1>1, <2>1 DEF ShFlow
  <2>3. Over => Over'
    BY <1>2, <1>10, <1>11 DEF Over
  <2>4. chan # "asked"
    BY <1>5, <2>2
  <2>5. \A m \in Output : ~In(<<>>, m)
    BY Emptied
  <2>6. Ordered(net'["host"])
    BY <1>1, <1>3, <2>2, <2>5, OrderedPass
  <2>7. Comes' => Comes
    <3>1. \A h \in Output : In(net'["host"], h) => In(net["host"], h)
      BY <1>1, <1>10
    <3>2. In(net'["daemon"], Starts) => In(net["daemon"], Starts)
      BY <1>1, <1>10
    <3>3. Comes' => rd = 1 \/ In(net'["daemon"], Starts) \/ \E h \in Output : In(net'["host"], h)
      BY <1>2, <1>11 DEF Comes, Output
    <3> QED BY <3>1, <3>2, <3>3 DEF Comes
  <2>8. got' + Shown' + pipe' = printed'
    BY <1>2, <1>7, <2>1, <2>2
  <2> QED BY <1>1, <1>2, <1>10, <2>1, <2>2, <2>3, <2>4, <2>6, <2>7, <2>8
<1> QED BY <1>6, <1>9, <1>12, <1>13 DEF ShData

\* The client types.
LEMMA ShTypesMore ==
    ASSUME IInv, IInv', IsProcess, TaskTypes, TaskTypes', ShData, ClientTypes
    PROVE  ShData'
<1>1. /\ ShTypes /\ ShCounts /\ ShOnce /\ ShFlow /\ ProcInv /\ BaseTypes
      /\ session \in {"up", "down"} /\ log \in {"off", "wanted", "on", "closing", "closed"}
      /\ logged \in Nat /\ pipe \in Nat /\ got \in Nat /\ printed \in 0 .. MaxOut
      /\ rd \in 0 .. 1 /\ wr \in Nat /\ lw \in Nat /\ owed["daemon"] \in -1 .. 1
      /\ cmdRef = (IF IsShell THEN 0 ELSE rd) /\ net \in [End -> Seq(ShMsg)]
      /\ proc \in {"none", "run", "exited", "killed"}
      /\ "host" \in End /\ "daemon" \in End
  BY ShBase
<1> DEFINE m == Msg("SHELL_DATA", 0)
<1>2. /\ UNCHANGED <<kind, session, chan, task, owed, pipe, printed, got, wr, proc, rd, cmdRef, log, lw, logged>>
      /\ IsShell /\ typed < MaxInput /\ typed' = typed + 1
      /\ net' = [net EXCEPT !["daemon"] = Append(@, m)]
  BY DEF ClientTypes
<1>3. m \in ShMsg /\ m \in Input /\ m \notin Output /\ m # Starts
  BY ShMessages DEF Input, Output
<1> HIDE DEF m
<1>4. /\ <<m>> \in Seq(ShMsg) /\ Rests("host", net["host"]) /\ Passes("host", net["host"], <<m>>)
  <2>1. net["daemon"] \in Seq(ShMsg)
    BY <1>1
  <2>2. Append(net["daemon"], m) = net["daemon"] \o <<m>>
    BY <2>1, <1>3
  <2>3. net' = [d \in End |-> IF d = "host" THEN net["host"] ELSE net[d] \o <<m>>]
    BY <1>1, <1>2, <2>2 DEF End
  <2> QED BY <1>3, <2>3 DEF Rests, Passes
<1>5. Count(<<m>>, Input) = 1 /\ Count(<<m>>, Output) = 0
  <2>1. Count(<<m>>, Input) = (IF m \in Input THEN 1 ELSE 0)
        /\ Count(<<m>>, Output) = (IF m \in Output THEN 1 ELSE 0)
    BY CountFew
  <2> QED BY <1>3, <2>1
<1>6. Accounts("host", net["host"], <<m>>, Output) /\ Accounts("host", net["host"], <<m>>, Input)
  BY <1>1, <1>4, PassCounts
<1>7. /\ net' \in [End -> Seq(ShMsg)] /\ Shown \in Nat /\ Shown' \in Nat /\ Typing \in Nat /\ Typing' \in Nat
      /\ Typing' <= Typing + 1 /\ Shown' <= Shown
  <2>1. net' \in [End -> Seq(ShMsg)]
    BY <1>1, <1>4, PassFacts
  <2>2. Other("host") = "daemon"
    BY DEF Other
  <2>3. /\ Count(net["host"], Output) \in Nat /\ Count(net'["host"], Output) \in Nat
        /\ Count(net["daemon"], Input) \in Nat /\ Count(net'["daemon"], Input) \in Nat
        /\ Count(net'["daemon"], Input) <= Count(net["daemon"], Input) + 1
        /\ Count(net'["host"], Output) <= Count(net["host"], Output)
    BY <1>1, <1>5, <1>6, <2>2 DEF Accounts
  <2> QED BY <2>1, <2>3 DEF Shown, Typing, Output, Input
<1>8. ShTypes'
  <2>1. typed' \in 0 .. MaxInput
    BY <1>1, <1>2, ShellAssumption DEF ShTypes
  <2> QED BY <1>1, <1>2, <1>7, <2>1 DEF ShTypes, IsShell
<1>9. ShCounts'
  <2> DEFINE s == Shown
             s1 == Shown'
             t == Typing
             t1 == Typing'
             l == lw + logged
  <2>1. /\ s \in Nat /\ s1 \in Nat /\ t \in Nat /\ t1 \in Nat /\ s1 <= s /\ t1 <= t + 1 /\ l \in Nat
    BY <1>1, <1>7
  <2>2. got + s + pipe <= printed /\ wr + t <= typed /\ l <= got /\ typed \in Int
    BY <1>1 DEF ShCounts, ShTypes
  <2> HIDE DEF s, s1, t, t1, l
  <2>3. got + s1 + pipe <= printed /\ wr + t1 <= typed + 1
    BY <1>1, <2>1, <2>2
  <2>4. got' = got /\ pipe' = pipe /\ printed' = printed /\ typed' = typed + 1 /\ wr' = wr /\ lw' + logged' = l
    BY <1>2 DEF l
  <2> QED BY <2>2, <2>3, <2>4 DEF ShCounts, s1, t1
<1>10. ShOnce'
  <2>1. Starts' = Starts
    BY <1>2 DEF Starts, ShFirst
  <2>2. \A d \in End : In(net'[d], Starts) => In(net[d], Starts)
    <3>1. /\ \A x : In(net'["host"], x) => In(net["host"], x)
          /\ \A x : In(net'["daemon"], x) => In(net["daemon"], x) \/ In(<<m>>, x)
      <4>1. Other("host") = "daemon"
        BY DEF Other
      <4> QED BY <1>1, <1>4, <4>1, PassFacts
    <3>2. ~In(<<m>>, Starts)
      BY <1>3, Few
    <3> QED BY <3>1, <3>2 DEF End
  <2> QED BY <1>1, <1>2, <2>1, <2>2 DEF ShOnce
<1>11. ShFlow'
  BY <1>2 DEF ShFlow, Served, IsShell
<1> QED BY <1>8, <1>9, <1>10, <1>11 DEF ShData

\* Every step of a process.
LEMMA ShStep ==
    ASSUME IInv, IInv', IsProcess, TaskTypes, TaskTypes', ShData,
           \/ \E e \in End : ShReceive(e) \/ ShCallBack(e)
           \/ ShPeer \/ CommonStep \/ UNCHANGED vars
    PROVE  ShData'
<1>1. OnRead => (OnRead /\ PeerHears) \/ (OnRead /\ ~PeerHears)
  OBVIOUS
<1> QED BY <1>1, ShCommon, ShFinishes, ShOthers, ShTyped, ShOneShot, ShBegins, ShBugreport, ShWrites,
        ShShown, ShTypesMore DEF ShReceive, ShCallBack, ShPeer

\* The first command is under way.
LEMMA ShStart == Init /\ IsProcess => ShData
<1> SUFFICES ASSUME Init, IsProcess PROVE ShData
  OBVIOUS
<1>1. /\ session = "up" /\ chan = "open" /\ owed = Both(0)
      /\ net = [e \in End |-> IF e = origin THEN <<Starts>> ELSE <<>>]
      /\ proc = "none" /\ pipe = 0 /\ printed = 0 /\ got = 0 /\ rd = 0 /\ wr = 0 /\ cmdRef = 0
      /\ log \in {"off", "wanted"} /\ lw = 0 /\ logged = 0 /\ typed = 0
  BY FwdMeaning DEF Init, TaskInit, ShInit, Starts
<1>2. origin \in {"daemon", "host"} /\ (origin = "host" <=> kind = "bugreport")
  BY DEF Init, IsProcess
<1>3. Starts \in ShMsg
  <2>1. Starts = Msg(ShFirst, 0) /\ ShFirst \in {"SHELL_INIT", "UNITY", "BUG_INIT"}
    BY DEF Starts, ShFirst
  <2> QED BY <2>1 DEF Msg, ShMsg
<1>4. /\ net \in [End -> Seq(ShMsg)]
      /\ \A e \in End : \A m : In(net[e], m) => m = Starts
  <2>1. <<Starts>> \in Seq(ShMsg) /\ <<>> \in Seq(ShMsg)
    BY <1>3
  <2> QED BY <1>1, <2>1, Few, Emptied
<1>5. Shown = 0 /\ Typing = 0
  <2>1. net["host"] \in Seq(ShMsg) /\ net["daemon"] \in Seq(ShMsg) /\ "host" \in End /\ "daemon" \in End
    BY <1>4 DEF End
  <2>2. Starts \notin Output /\ Starts \notin Input
    BY ShMessages
  <2> QED BY <1>4, <2>1, <2>2, CountNat DEF Shown, Typing
<1>6. ShTypes
  BY <1>1, <1>4, ShellAssumption DEF ShTypes, Both, End
<1>7. ShCounts
  BY <1>1, <1>5 DEF ShCounts
<1>8. ShOnce
  BY <1>1 DEF ShOnce, Both, End
<1>9. ShFlow
  <2>1. "host" \in End /\ "daemon" \in End
    BY DEF End
  <2>2. \A h \in Output \cup Closes : h # Starts
    BY ShMessages
  <2>3. \A e \in End : \A h \in Output \cup Closes : ~In(net[e], h)
    BY <1>4, <2>2
  <2>4. Ordered(net["host"])
    BY <2>1, <2>3 DEF Ordered, In
  <2>5. kind = "bugreport" => ~Comes
    BY <1>1, <1>2, <2>1, <2>3, Emptied DEF Comes
  <2> QED BY <1>1, <1>5, <2>1, <2>3, <2>4, <2>5 DEF ShFlow
<1> QED BY <1>6, <1>7, <1>8, <1>9 DEF ShData

\* What a handler does to the variables of all commands.
Handles ==
    /\ UNCHANGED <<session, chan>>
    /\ UNCHANGED told \/ \E e \in End, lvs \in SUBSET {"ok", "fail"} : told' = LogTold(e, lvs)
    /\ \/ UNCHANGED orphan
       \/ \E e \in End : orphan' = [orphan EXCEPT ![e] = IF task[e] = "run" THEN @ + 1 ELSE @]

\* These stay what they are.
LEMMA HandlesTypes ==
    ASSUME TaskTypes, Handles
    PROVE  TaskTypes'
<1>1. told' \subseteq {"ok", "fail"}
  BY DEF TaskTypes, Handles, LogTold
<1>2. orphan' \in [End -> Nat]
  <2>1. ASSUME NEW e \in End, orphan' = [orphan EXCEPT ![e] = IF task[e] = "run" THEN @ + 1 ELSE @]
        PROVE  orphan' \in [End -> Nat]
    BY <2>1 DEF TaskTypes
  <2> QED BY <2>1 DEF TaskTypes, Handles
<1> QED BY <1>1, <1>2 DEF TaskTypes, Handles

\* A message or an echo.
LEMMA SaysTold ==
    ASSUME NEW e \in End, NEW lvs \in SUBSET {"ok", "fail"}, NEW out,
           Emit(e, lvs, out) \/ Answer(e, lvs, out)
    PROVE  \E d \in End, l \in SUBSET {"ok", "fail"} : told' = LogTold(d, l)
BY DEF Emit, Answer, Sends

\* The handlers of a forward.
LEMMA FwdHandles ==
    ASSUME NEW e \in End, FwdReceive(e) \/ FwdCallBack(e) \/ FwdPeer(e)
    PROVE  Handles
<1>0. {} \in SUBSET {"ok", "fail"} /\ {"ok"} \in SUBSET {"ok", "fail"} /\ {"fail"} \in SUBSET {"ok", "fail"}
      /\ "host" \in End
  BY DEF End
<1> DEFINE Told == UNCHANGED told \/ \E d \in End, l \in SUBSET {"ok", "fail"} : told' = LogTold(d, l)
<1>s. \A l \in SUBSET {"ok", "fail"} : \A out : Emit(e, l, out) \/ Answer(e, l, out) => Told
  BY SaysTold
<1>h. \A l \in SUBSET {"ok", "fail"} : \A out : Answer("host", l, out) => Told
  BY <1>0, SaysTold
<1> HIDE DEF Told
<1>a. AddTask(e) => \E d \in End : orphan' = [orphan EXCEPT ![d] = IF task[d] = "run" THEN @ + 1 ELSE @]
  BY DEF AddTask
<1>1. CASE BeginForward(e)
  <2>1. UNCHANGED <<session, chan>> /\ Told /\ AddTask(e)
    BY <1>0, <1>1, <1>s DEF BeginForward
  <2> QED BY <2>1, <1>a DEF Handles, Told
<1>2. CASE SlaveCheck(e) \/ UnknownContext(e) \/ CheckResult(e) \/ ForwardSuccess
  <2>1. UNCHANGED <<session, chan, orphan>> /\ Told
    BY <1>0, <1>2, <1>s, <1>h DEF SlaveCheck, UnknownContext, CheckResult, ForwardSuccess
  <2> QED BY <2>1 DEF Handles, Told
<1>3. CASE SlaveConnect(e) \/ ActivateMaster(e) \/ ForwardData(e) \/ ForwardFree(e)
  <2>1. UNCHANGED <<session, chan, orphan>> /\ Told
    <3>1. SlaveConnect(e) => Told
      BY <1>0, <1>s DEF SlaveConnect, SetupPoint
    <3> QED BY <1>0, <1>3, <1>s, <3>1 DEF SlaveConnect, ActivateMaster, ForwardData, ForwardFree
  <2> QED BY <2>1 DEF Handles, Told
<1>4. ASSUME NEW k \in Number,
             FreeContextCallBack(e, k) \/ ConnectTarget(e, k) \/ SetupJdwpPointCallBack(e, k)
      PROVE  Handles
  <2>1. UNCHANGED <<session, chan, orphan>> /\ (Told \/ UNCHANGED told)
    BY <1>0, <1>4, <1>s DEF FreeContextCallBack, ConnectTarget, SetupJdwpPointCallBack
  <2> QED BY <2>1 DEF Handles, Told
<1>5. ASSUME NEW k \in Conn, Accept(e, k) \/ ReadForwardBuf(e, k) PROVE Handles
  <2>1. UNCHANGED <<session, chan, orphan>> /\ (Told \/ UNCHANGED told)
    BY <1>0, <1>5, <1>s DEF Accept, ReadForwardBuf
  <2> QED BY <2>1 DEF Handles, Told
<1>6. CASE AcceptTooEarly(e)
  <2>1. UNCHANGED <<session, chan, orphan>> /\ (Told \/ UNCHANGED told)
    BY <1>0, <1>6, <1>s DEF AcceptTooEarly
  <2> QED BY <2>1 DEF Handles, Told
<1> QED BY <1>1, <1>2, <1>3, <1>4, <1>5, <1>6 DEF FwdReceive, FwdCallBack, FwdPeer

\* The handlers of a transfer.
LEMMA XferHandles ==
    ASSUME NEW e \in End, XferReceive(e) \/ XferCallBack(e)
    PROVE  Handles
<1>0. {} \in SUBSET {"ok", "fail"} /\ {"ok"} \in SUBSET {"ok", "fail"} /\ {"fail"} \in SUBSET {"ok", "fail"}
      /\ "host" \in End /\ "daemon" \in End
  BY DEF End
<1> DEFINE Told == UNCHANGED told \/ \E d \in End, l \in SUBSET {"ok", "fail"} : told' = LogTold(d, l)
<1>s. \A d \in End, l \in SUBSET {"ok", "fail"} : \A out : Emit(d, l, out) \/ Answer(d, l, out) => Told
  BY SaysTold
<1>u. UNCHANGED told => Told
  OBVIOUS
<1> HIDE DEF Told
<1>a. \A c \in End : AddTask(c) =>
        \E d \in End : orphan' = [orphan EXCEPT ![d] = IF task[d] = "run" THEN @ + 1 ELSE @]
  BY DEF AddTask
<1>1. CASE BeginTransfer(e) \/ BeginUninstall
  <2>1. UNCHANGED <<session, chan>> /\ Told /\ \E d \in End : AddTask(d)
    BY <1>0, <1>1, <1>s DEF BeginTransfer, BeginUninstall
  <2> QED BY <2>1, <1>a DEF Handles, Told
<1>2. CASE SlaveCheckFile(e) \/ MasterBegin(e) \/ SlaveData(e) \/ FileFinish(e) \/ AppFinish
  <2>1. UNCHANGED <<session, chan, orphan>> /\ Told
    BY <1>0, <1>2, <1>s DEF SlaveCheckFile, MasterBegin, SlaveData, FileFinish, AppFinish, RefusedIO
  <2> QED BY <2>1 DEF Handles, Told
<1>3. CASE FileSummary(e)
  <2>1. UNCHANGED <<session, chan, orphan>> /\ \E lv \in {"ok", "fail"} : Answer(e, {lv}, Log(e, lv) \o Finish)
    BY <1>3 DEF FileSummary
  <2>2. Told
    BY <2>1, <1>s
  <2> QED BY <2>1, <2>2 DEF Handles, Told
<1>4. CASE DaemonUninstall \/ AsyncInstallFinish
  <2>1. UNCHANGED <<session, chan, orphan>> /\ Told
    BY <1>0, <1>4, <1>s DEF DaemonUninstall, AsyncInstallFinish, PackageShell
  <2> QED BY <2>1 DEF Handles, Told
<1>5. CASE OnFileOpen(e) \/ OnFileClose(e)
  <2>1. UNCHANGED <<session, chan, orphan>>
    BY <1>5 DEF OnFileOpen, OnFileClose
  <2>2. OnFileOpen(e) => Told
    BY <1>0, <1>s DEF OnFileOpen
  <2>3. WhenTransferFinish(e) => Told
    BY <1>0, <1>s DEF WhenTransferFinish, PackageShell
  <2> QED BY <1>5, <2>1, <2>2, <2>3 DEF Handles, Told, OnFileClose
<1>6. ASSUME NEW j \in DOMAIN io[e], OnFileIOEnds(e, j) \/ OnFileRead(e, j) \/ OnFileWrite(e, j)
      PROVE  Handles
  <2>1. UNCHANGED <<session, chan, orphan>>
    BY <1>6 DEF OnFileIOEnds, OnFileRead, OnFileWrite
  <2>2. OnFileRead(e, j) => Told
    BY <1>0, <1>s DEF OnFileRead
  <2>3. OnFileIOEnds(e, j) \/ OnFileWrite(e, j) => Told
    BY <1>u DEF OnFileIOEnds, OnFileWrite
  <2> QED BY <1>6, <2>1, <2>2, <2>3 DEF Handles, Told
<1> QED BY <1>1, <1>2, <1>3, <1>4, <1>5, <1>6 DEF XferReceive, XferCallBack

\* The handlers of a process.
LEMMA ShHandles ==
    ASSUME (\E e \in End : ShReceive(e) \/ ShCallBack(e)) \/ ShPeer
    PROVE  Handles
<1>0. {} \in SUBSET {"ok", "fail"} /\ {"fail"} \in SUBSET {"ok", "fail"}
      /\ "host" \in End /\ "daemon" \in End
  BY DEF End
<1> DEFINE Told == UNCHANGED told \/ \E d \in End, l \in SUBSET {"ok", "fail"} : told' = LogTold(d, l)
<1>s. \A d \in End, l \in SUBSET {"ok", "fail"} : \A out : Emit(d, l, out) \/ Answer(d, l, out) => Told
  BY SaysTold
<1>u. UNCHANGED told => Told
  OBVIOUS
<1> HIDE DEF Told
<1>a. \A c \in End : AddTask(c) =>
        \E d \in End : orphan' = [orphan EXCEPT ![d] = IF task[d] = "run" THEN @ + 1 ELSE @]
  BY DEF AddTask
<1>1. CASE StartShell \/ OneShot \/ BeginBugreport
  <2>1. UNCHANGED <<session, chan>> /\ Told /\ \E d \in End : AddTask(d)
    BY <1>0, <1>1, <1>s DEF StartShell, OneShot, BeginBugreport
  <2> QED BY <2>1, <1>a DEF Handles, Told
<1>2. CASE BeginExecute \/ ShellData \/ EchoRaw \/ BugreportData
  <2>1. UNCHANGED <<session, chan, orphan>> /\ Told
    BY <1>0, <1>2, <1>s DEF BeginExecute, ShellData, EchoRaw, BugreportData
  <2> QED BY <2>1 DEF Handles, Told
<1>3. CASE OnRead \/ OnEndOfFile \/ OnWritten
  <2>1. UNCHANGED <<session, chan, orphan>> /\ Told
    BY <1>0, <1>3, <1>s, <1>u DEF OnRead, OnEndOfFile, OnWritten, FinishShellProc
  <2> QED BY <2>1 DEF Handles, Told
<1>4. CASE LogWritten \/ OnLogClosed \/ ShPeer
  <2>1. UNCHANGED <<session, chan, orphan>> /\ Told
    BY <1>u, <1>4 DEF LogWritten, OnLogClosed, ShPeer, ProcessWrites, ProcessExits, ClientTypes, taskVars
  <2> QED BY <2>1 DEF Handles, Told
<1> QED BY <1>1, <1>2, <1>3, <1>4 DEF ShReceive, ShCallBack

\* The steps of HdcTask.
LEMMA CommonTypes ==
    ASSUME BaseTypes, TaskTypes, CommonStep
    PROVE  TaskTypes'
<1>0. "host" \in End /\ {} \in SUBSET {"ok", "fail"}
  BY DEF End
<1>1. ASSUME NEW e \in End, Wake(e) \/ Ignored(e, Taskless) PROVE TaskTypes'
  <2>1. Handles
    <3>1. Answer(e, {}, <<>>) /\ UNCHANGED <<session, chan>> /\ (UNCHANGED orphan \/ AddTask(e))
      BY <1>1 DEF Wake, Ignored
    <3>2. \E d \in End, l \in SUBSET {"ok", "fail"} : told' = LogTold(d, l)
      BY <1>0, <3>1, SaysTold
    <3> QED BY <3>1, <3>2 DEF Handles, AddTask
  <2> QED BY <2>1, HandlesTypes
<1>2. ASSUME NEW e \in End, FetchClose(e) \/ Clear(e) \/ Release(e) PROVE TaskTypes'
  <2>1. UNCHANGED <<session, orphan>> /\ (told' = told \/ told' = LogTold(e, {}))
        /\ (chan' = chan \/ chan' = "asked")
    BY <1>2 DEF FetchClose, Clear, ClearOwnTasks, Release, TryRemoveTask, Answer, Sends
  <2> QED BY <2>1 DEF TaskTypes, LogTold
<1>3. CASE FetchEcho \/ FetchUnserved \/ Deatch
  <2>1. UNCHANGED <<session, orphan>>
        /\ (told' = LogTold("host", {}) \/ \E lv \in {"ok", "fail"} : told' = told \cup {lv})
        /\ (chan' = chan \/ chan' = "gone")
    BY <1>3 DEF FetchEcho, FetchUnserved, Deatch, DeatchChannel, Answer, Emit, Sends
  <2> QED BY <2>1 DEF TaskTypes, LogTold
<1>4. CASE Free \/ Busy \/ Ends
  BY <1>4 DEF TaskTypes, Free, Busy, Ends, FreeChannel, PoolBusy, SessionEnd
<1> QED BY <1>1, <1>2, <1>3, <1>4 DEF CommonStep

\* Every step is one of these.
LEMMA Steps ==
    ASSUME BaseTypes, [Next]_vars
    PROVE  \/ IsForward /\ UNCHANGED <<xferVars, shVars>>
              /\ \E e \in End : FwdReceive(e) \/ FwdCallBack(e) \/ FwdPeer(e)
           \/ IsTransfer /\ UNCHANGED <<fwdVars, shVars>>
              /\ \E e \in End : XferReceive(e) \/ XferCallBack(e)
           \/ IsProcess /\ UNCHANGED <<fwdVars, xferVars>>
              /\ (ShPeer \/ \E e \in End : ShReceive(e) \/ ShCallBack(e))
           \/ CommonStep
           \/ UNCHANGED vars
<1>1. ASSUME NEW e \in End, Receive(e) \/ CallBack(e) PROVE
           \/ IsForward /\ UNCHANGED <<xferVars, shVars>>
              /\ \E d \in End : FwdReceive(d) \/ FwdCallBack(d) \/ FwdPeer(d)
           \/ IsTransfer /\ UNCHANGED <<fwdVars, shVars>>
              /\ \E d \in End : XferReceive(d) \/ XferCallBack(d)
           \/ IsProcess /\ UNCHANGED <<fwdVars, xferVars>>
              /\ (ShPeer \/ \E d \in End : ShReceive(d) \/ ShCallBack(d))
  BY <1>1 DEF Receive, CallBack
<1>2. Next => \/ \E e \in End : Receive(e) \/ CallBack(e)
              \/ Peer \/ CommonStep
  BY DEF Next, Fetch, CommonStep
<1> QED BY <1>1, <1>2 DEF Peer

\* They stay what they are.
LEMMA TaskTypesNext ==
    ASSUME BaseTypes, TaskTypes, [Next]_vars
    PROVE  TaskTypes'
<1>1. CASE UNCHANGED vars
  BY <1>1 DEF vars, taskVars, TaskTypes
<1> QED BY <1>1, Steps, FwdHandles, XferHandles, ShHandles, HandlesTypes, CommonTypes

\* They are so at the beginning.
LEMMA TaskTypesInit == Init => TaskTypes
BY DEF Init, TaskInit, TaskTypes, Both

\* No step changes what the client asked for, or the end of the master.
LEMMA KindKept == [Next]_vars => UNCHANGED <<kind, origin>>
<1>1. ASSUME NEW e \in End, FwdReceive(e) \/ FwdCallBack(e) \/ FwdPeer(e)
      PROVE  UNCHANGED <<kind, origin>>
  BY <1>1 DEF FwdReceive, FwdCallBack, FwdPeer, BeginForward, SlaveCheck, UnknownContext,
        CheckResult, ForwardSuccess, SlaveConnect, ActivateMaster, ForwardData, ForwardFree,
        FreeContextCallBack, ConnectTarget, SetupJdwpPointCallBack, Accept, ReadForwardBuf,
        AcceptTooEarly
<1>2. ASSUME NEW e \in End, XferReceive(e) PROVE UNCHANGED <<kind, origin>>
  BY <1>2 DEF XferReceive, BeginTransfer, SlaveCheckFile, MasterBegin, SlaveData, FileFinish,
        FileSummary, AppFinish, BeginUninstall, DaemonUninstall
<1>3. ASSUME NEW e \in End, XferCallBack(e) PROVE UNCHANGED <<kind, origin>>
  BY <1>3 DEF XferCallBack, OnFileOpen, OnFileClose, OnFileIOEnds, OnFileRead, OnFileWrite,
        AsyncInstallFinish
<1>4. ASSUME ShPeer \/ \E e \in End : ShReceive(e) \/ ShCallBack(e)
      PROVE  UNCHANGED <<kind, origin>>
  BY <1>4 DEF ShReceive, ShCallBack, ShPeer, StartShell, OneShot, BeginBugreport, BeginExecute,
        ShellData, EchoRaw, BugreportData, OnRead, OnEndOfFile, OnWritten, LogWritten,
        OnLogClosed, ProcessWrites, ProcessExits, ClientTypes, taskVars
<1>5. CommonStep => UNCHANGED <<kind, origin>>
  BY DEF CommonStep, Wake, Ignored, FetchClose, FetchEcho, FetchUnserved, Clear, ClearOwnTasks,
        Release, TryRemoveTask, Deatch, DeatchChannel, Free, FreeChannel, Busy, PoolBusy,
        Ends, SessionEnd
<1>6. Next => \/ \E e \in End : Receive(e) \/ CallBack(e)
              \/ Peer \/ CommonStep
  BY DEF Next, Fetch, CommonStep
<1>7. UNCHANGED vars => UNCHANGED <<kind, origin>>
  BY DEF vars, taskVars
<1> QED BY <1>1, <1>2, <1>3, <1>4, <1>5, <1>6, <1>7 DEF Receive, CallBack, Peer

\* The invariant of the processes.
PInv == IInv /\ TaskTypes /\ (IsProcess => ShData)

\* It holds at the beginning.
LEMMA PInvInit == Init => PInv
BY InitInv, TaskTypesInit, ShStart DEF PInv

\* Every step keeps it.
LEMMA PInvNext == PInv /\ [Next]_vars => PInv'
<1> SUFFICES ASSUME PInv, [Next]_vars PROVE PInv'
  OBVIOUS
<1>1. IInv /\ TaskTypes /\ BaseTypes /\ (IsProcess => ShData)
  BY DEF PInv, IInv
<1>2. IInv' /\ TaskTypes'
  BY <1>1, NextInv, TaskTypesNext
<1>3. IsProcess' <=> IsProcess
  BY KindKept DEF IsProcess
<1>4. ASSUME IsProcess PROVE ShData'
  <2>1. \/ ShPeer \/ \E e \in End : ShReceive(e) \/ ShCallBack(e)
        \/ CommonStep \/ UNCHANGED vars
    BY <1>1, <1>4, Steps, FwdMeaning
  <2> QED BY <1>1, <1>2, <1>4, <2>1, ShStep
<1> QED BY <1>2, <1>3, <1>4 DEF PInv

\* No output is under way when the channel of a command is asked to go.
LEMMA PInvShown == PInv => OutputShown
<1> SUFFICES ASSUME PInv, kind \in {"execute", "bugreport"}, chan = "asked", session = "up"
             PROVE  got = printed
  BY DEF OutputShown
<1>1. ShData
  BY DEF PInv, IsProcess
<1>2. got + Shown + pipe = printed /\ Over /\ Shown = 0
  BY <1>1 DEF ShData, ShFlow, Served
<1>3. got \in Nat /\ printed \in Int /\ pipe = 0
  BY <1>1, <1>2 DEF ShData, ShTypes, Over
<1> QED BY <1>2, <1>3

\* The channel of a command is not asked to go before all the output has been shown, as
\* long as the client and the session stay: what OnRead sends comes before what
\* ShellCmdResult sends, and the task tells the channel to go in the end only.
THEOREM OutputIsShown == Spec => []OutputShown
BY PInvShown, PInvInit, PInvNext, PTL DEF Spec
=============================================================================
