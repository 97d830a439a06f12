--------------------------- MODULE HdcChannelProofs ---------------------------
(***************************************************************************)
(* Proofs about HdcChannel, for every set of channels and every bound: the *)
(* variables keep their types, ref counts exactly the users it is meant to *)
(* count, a deleted channel is known to nobody, and the life of a channel  *)
(* keeps the promise of SessionOwnership.                                  *)
(***************************************************************************)
EXTENDS HdcChannel, SequenceTheorems, TLAPS

\* What a queue holds: a message, only once, or a command for a channel.
In(q, m) == \E i \in 1 .. Len(q) : q[i] = m
Single(q, m) == \A i, j \in 1 .. Len(q) : q[i] = m /\ q[j] = m => i = j
About(q, c) == \E i \in 1 .. Len(q) : q[i].ch = c

\* The main loop has told the worker of a channel to attach it, or to let go; an end
\* of the session has still to hear a command for the channel.
Attach(c) == Ctrl("SP_ATTACH_CHANNEL", c)
Detach(c) == Ctrl("SP_DEATCH_CHANNEL", c)
Attaching(c) == In(ctrl, Attach(c))
Detaching(c) == In(ctrl, Detach(c))
OnceEach(c) == Single(ctrl, Attach(c)) /\ Single(ctrl, Detach(c))
Talk(c) == About(toDaemon, c) \/ About(toServer, c)

\* The worker has the channel, or will have it; it will use it for a command.
Served(c) == hChildWorkTCP[c] # "none"
Bound(c) == bindNext[c] \/ Attaching(c)
Checked(c) == Fetched(c) /\ fetch.checked

\* How the object, its registration and the step of its free go together.
MemInv(c) ==
    /\ (client[c] = "none") <=> (mem[c] = "none")
    /\ mem[c] = "none" =>
         /\ ~isDead[c] /\ ~handshakeOK[c] /\ hWorkTCP[c] = "none"
         /\ uvHandleRef[c] = 0 /\ mainWrites[c] = 0
         /\ ~connectTimer[c] /\ ~Bound(c) /\ ~Served(c)
    /\ (mem[c] = "freed") <=> (freePc[c] = "done")
    /\ isDead[c] <=> (freePc[c] # "none")

\* uvHandleRef is given back once, by whoever finds or sees hWorkTCP closed; the free
\* goes on when the main loop writes no more, and has nothing to write on.
HandleInv(c) ==
    /\ hWorkTCP[c] = "none" => mem[c] = "none"
    /\ mem[c] = "alloc" /\ freePc[c] # "finally" => uvHandleRef[c] = 1
    /\ freePc[c] = "finally" =>
         /\ hWorkTCP[c] \in {"freeClosing", "closed"}
         /\ uvHandleRef[c] = Count(hWorkTCP[c] = "freeClosing")
    /\ freePc[c] = "done" => hWorkTCP[c] = "closed"
    /\ hWorkTCP[c] = "freeClosing" => freePc[c] = "finally"
    /\ hWorkTCP[c] = "inited" => isDead[c]
    /\ freePc[c] = "waitChild" => hWorkTCP[c] = "closed"
    /\ freePc[c] \in {"waitChild", "finally", "done"} => mainWrites[c] = 0

\* A channel that is on its way to the worker cannot be freed: nobody but its own
\* socket could ask for that, and the main loop no longer reads it.  A dead channel is
\* not bound: what kills it before its handshake is the end of its reading.
BindInv(c) ==
    /\ Bound(c) =>
         /\ ~isDead[c] /\ ~Served(c) /\ ~connectTimer[c] /\ handshakeOK[c]
         /\ \/ hWorkTCP[c] = "bindClosing"
            \/ hWorkTCP[c] = "closed" /\ mainWrites[c] = 0
    /\ bindNext[c] => ~Attaching(c)
    /\ connectTimer[c] \/ keepAlive[c] => handshakeOK[c]
    /\ hWorkTCP[c] = "open" /\ client[c] = "here" /\ ~handshakeOK[c] => ~isDead[c]
    /\ Served(c) => hWorkTCP[c] \in {"bindClosing", "closed"}

\* Nothing is known of a channel before the worker has it.
UnservedInv(c) == ~Served(c) =>
    /\ writes[c] = 0 /\ ~childNext[c] /\ ~childCleared[c] /\ ~Detaching(c)
    /\ task[c] = "none" /\ daemonTask[c] = "none" /\ ~Talk(c) /\ ~Fetched(c)
    /\ c \notin mapForward /\ c \notin lstMainThreadOP
    /\ freePc[c] # "waitChild"

\* The worker lets go in one of two ways, when the main loop asks for it, and sets
\* childCleared when it has nothing of the channel left.
ClearInv(c) ==
    /\ Detaching(c) =>
         /\ freePc[c] = "waitChild" /\ ~childCleared[c] /\ ~childNext[c]
         /\ hChildWorkTCP[c] # "clearClosing"
    /\ hChildWorkTCP[c] = "clearClosing" =>
         freePc[c] = "waitChild" /\ ~childCleared[c] /\ ~childNext[c] /\ task[c] # "run"
    /\ childNext[c] =>
         /\ freePc[c] = "waitChild" /\ hChildWorkTCP[c] \in {"closing", "closed"}
         /\ ~childCleared[c] /\ task[c] # "run"
    /\ childCleared[c] =>
         /\ hChildWorkTCP[c] = "closed" /\ writes[c] = 0 /\ task[c] # "run"
         /\ freePc[c] \in {"waitChild", "finally", "done"}
    /\ hChildWorkTCP[c] = "closed" /\ work # "gone" => writes[c] = 0
    /\ freePc[c] \in {"finally", "done"} /\ Served(c) => childCleared[c]

\* A channel that FetchCommand found alive holds up its free; there is room for what
\* is to be written.
CommandInv(c) ==
    /\ freePc[c] \in {"waitChild", "finally", "done"} => ~Checked(c)
    /\ Fetched(c) /\ fetch.msg.cmd = "ECHO" => writes[c] < MaxWrites

\* RefCounted, of one channel.
RefInv(c) == ref[c] = mainWrites[c] + writes[c] + Count(hWorkTCP[c] = "bindClosing")
                        + Count(Fetched(c))

Inv(c) == /\ MemInv(c) /\ HandleInv(c) /\ BindInv(c) /\ UnservedInv(c) /\ ClearInv(c)
          /\ CommandInv(c) /\ RefInv(c) /\ OnceEach(c)

\* TypeOK, by groups of variables that change together.
ObjTypes ==
    /\ mem \in [Channels -> {"none", "alloc", "freed"}] /\ isDead \in [Channels -> BOOLEAN]
    /\ ref \in [Channels -> Nat] /\ handshakeOK \in [Channels -> BOOLEAN]
    /\ keepAlive \in [Channels -> BOOLEAN] /\ freePc \in [Channels -> FreeStates]
MainTypes ==
    /\ hWorkTCP \in [Channels -> WorkTcpStates] /\ uvHandleRef \in [Channels -> 0 .. 1]
    /\ mainWrites \in [Channels -> 0 .. MaxWrites] /\ bindNext \in [Channels -> BOOLEAN]
    /\ connectTimer \in [Channels -> BOOLEAN]
    /\ client \in [Channels -> {"none", "here", "asked", "gone"}]
WorkTypes ==
    /\ hChildWorkTCP \in [Channels -> ChildTcpStates] /\ writes \in [Channels -> 0 .. MaxWrites]
    /\ childNext \in [Channels -> BOOLEAN] /\ childCleared \in [Channels -> BOOLEAN]
    /\ task \in [Channels -> TaskStates] /\ daemonTask \in [Channels -> TaskStates]
SetTypes ==
    /\ lstMainThreadOP \subseteq Channels /\ mapForward \subseteq Channels
    /\ session \in {"alive", "dead", "stopped"} /\ work \in {"up", "clearing", "gone"}
QueueTypes ==
    /\ ctrl \in Seq(CtrlStructs) /\ fetch \in Fetches \cup {None}
    /\ toDaemon \in Seq(Commands) /\ toServer \in Seq(Commands)
Types == ObjTypes /\ MainTypes /\ WorkTypes /\ SetTypes /\ QueueTypes

IInv == Types /\ \A c \in Channels : Inv(c)

-----------------------------------------------------------------------------
(* Lemmas about queues and commands.                                       *)

\* What a queue holds when a message is put into it.
LEMMA Appended ==
    ASSUME NEW S, NEW q \in Seq(S), NEW x \in S
    PROVE  /\ Append(q, x) \in Seq(S)
           /\ \A m : In(Append(q, x), m) <=> In(q, m) \/ x = m
           /\ \A m : Single(q, m) /\ ~(In(q, m) /\ x = m) => Single(Append(q, x), m)
           /\ \A c : About(Append(q, x), c) <=> About(q, c) \/ x.ch = c
<1>1. /\ Append(q, x) \in Seq(S) /\ Len(Append(q, x)) = Len(q) + 1 /\ Len(q) \in Nat
      /\ Append(q, x)[Len(q) + 1] = x
      /\ \A i \in 1 .. Len(q) : Append(q, x)[i] = q[i]
  OBVIOUS
<1> DEFINE r == Append(q, x)
<1> HIDE DEF r
<1>2. ASSUME NEW m PROVE In(r, m) <=> In(q, m) \/ x = m
  BY <1>1 DEF In, r
<1>3. ASSUME NEW m, Single(q, m), ~(In(q, m) /\ x = m) PROVE Single(r, m)
  BY <1>1, <1>3 DEF In, Single, r
<1>4. ASSUME NEW c PROVE About(r, c) <=> About(q, c) \/ x.ch = c
  BY <1>1 DEF About, r
<1> QED BY <1>1, <1>2, <1>3, <1>4 DEF r

\* What it holds when the first one is taken out.
LEMMA Taken ==
    ASSUME NEW S, NEW q \in Seq(S), q # <<>>
    PROVE  /\ Head(q) \in S /\ Tail(q) \in Seq(S)
           /\ \A m : In(Tail(q), m) => In(q, m)
           /\ \A m : Single(q, m) => Single(Tail(q), m)
           /\ In(q, Head(q)) /\ (Single(q, Head(q)) => ~In(Tail(q), Head(q)))
           /\ \A c : About(Tail(q), c) => About(q, c)
           /\ About(q, Head(q).ch)
<1>1. /\ Head(q) \in S /\ Tail(q) \in Seq(S) /\ Len(Tail(q)) = Len(q) - 1
      /\ Len(q) \in Nat /\ Len(q) > 0 /\ Head(q) = q[1]
      /\ \A i \in 1 .. Len(q) - 1 : Tail(q)[i] = q[i + 1]
  OBVIOUS
<1> DEFINE r == Tail(q)
           h == Head(q)
<1> HIDE DEF r, h
<1>2. ASSUME NEW m, In(r, m) PROVE In(q, m)
  BY <1>1, <1>2 DEF In, r
<1>3. ASSUME NEW m, Single(q, m) PROVE Single(r, m)
  BY <1>1, <1>3 DEF Single, r
<1>4. In(q, h) /\ About(q, h.ch)
  BY <1>1 DEF In, About, h
<1>5. ASSUME Single(q, h) PROVE ~In(r, h)
  BY <1>1, <1>5 DEF In, Single, r, h
<1>6. ASSUME NEW c, About(r, c) PROVE About(q, c)
  BY <1>1, <1>6 DEF About, r
<1> QED BY <1>1, <1>2, <1>3, <1>4, <1>5, <1>6 DEF r, h

\* An empty queue holds nothing.
LEMMA Emptied ==
    /\ \A m : ~In(<<>>, m) /\ Single(<<>>, m)
    /\ \A c : ~About(<<>>, c)
BY DEF In, Single, About

\* The messages of the control socket are told apart.
LEMMA CtrlApart ==
    \A c, d : /\ Attach(c) = Attach(d) <=> c = d
              /\ Detach(c) = Detach(d) <=> c = d
              /\ Attach(c) # Detach(d)
              /\ Attach(c) # <<"SP_STOP_SESSION">> /\ Detach(c) # <<"SP_STOP_SESSION">>
              /\ c \in Channels => Attach(c) \in CtrlStructs /\ Detach(c) \in CtrlStructs
BY DEF Attach, Detach, Ctrl, CtrlStructs

\* The messages between the ends are commands for their channel.
LEMMA CommandKinds ==
    ASSUME NEW c \in Channels
    PROVE  /\ \A cmd \in {"INIT", "SHELL_INIT", "WAKEUP_SLAVETASK", "ECHO",
                          "FORWARD_SUCCESS"} :
                Command(cmd, c) \in Commands /\ Command(cmd, c).ch = c
           /\ \A n \in 0 .. 1 : Close(c, n) \in Commands /\ Close(c, n).ch = c
BY DEF Command, Close, Commands

-----------------------------------------------------------------------------
(* Channels that a step does not touch.                                    *)

\* Nothing new is on its way to the ends of the session about a channel.
Heard(c) == /\ Attaching(c)' => Attaching(c)
            /\ Detaching(c)' => Detaching(c)
            /\ OnceEach(c)'
            /\ Talk(c)' => Talk(c)

\* The worker holds the same channels in FetchCommand, or none it had not found.
SameFetch(c) == /\ Fetched(c)' <=> Fetched(c)
                /\ Checked(c)' => Checked(c)
                /\ (Fetched(c) /\ fetch.msg.cmd = "ECHO")' =>
                      Fetched(c) /\ fetch.msg.cmd = "ECHO"

\* A channel whose own variables are left alone.
Untouched(c) ==
    /\ UNCHANGED <<mem[c], isDead[c], ref[c], handshakeOK[c], keepAlive[c], hWorkTCP[c],
                   uvHandleRef[c], mainWrites[c], bindNext[c], connectTimer[c], freePc[c], hChildWorkTCP[c],
                   writes[c], childNext[c], childCleared[c], client[c]>>
    /\ task'[c] \in {task[c], "none"} \/ (task[c] = "run" /\ task'[c] = "stop")
    /\ daemonTask'[c] \in {daemonTask[c], "none"}
    /\ c \in mapForward' => c \in mapForward
    /\ c \in lstMainThreadOP' => c \in lstMainThreadOP
    /\ work' \in {work, "gone"} \/ work # "gone"

\* Queues and commands that are left alone.
LEMMA KeptCtrl ==
    ASSUME UNCHANGED ctrl
    PROVE  \A c : /\ Attaching(c)' <=> Attaching(c)
                  /\ Detaching(c)' <=> Detaching(c)
                  /\ OnceEach(c)' <=> OnceEach(c)
BY DEF Attaching, Detaching, OnceEach

\* Nothing is sent between the ends.
LEMMA KeptLink ==
    ASSUME UNCHANGED <<toDaemon, toServer>>
    PROVE  \A c : Talk(c)' <=> Talk(c)
BY DEF Talk

\* The worker is where it was in FetchCommand.
LEMMA KeptFetch ==
    ASSUME UNCHANGED fetch
    PROVE  \A c : SameFetch(c)
BY DEF SameFetch, Fetched, Checked

\* A message is put into the control socket, or into one that nobody reads.
LEMMA CtrlSent ==
    ASSUME ctrl \in Seq(CtrlStructs), NEW m \in CtrlStructs,
           ctrl' \in {ctrl, Append(ctrl, m)}
    PROVE  /\ ctrl' \in Seq(CtrlStructs)
           /\ \A c : /\ Attaching(c)' => Attaching(c) \/ m = Attach(c)
                     /\ Detaching(c)' => Detaching(c) \/ m = Detach(c)
                     /\ /\ OnceEach(c)
                        /\ m = Attach(c) => ~Attaching(c)
                        /\ m = Detach(c) => ~Detaching(c)
                        => OnceEach(c)'
<1>1. CASE ctrl' = ctrl
  BY <1>1 DEF Attaching, Detaching, OnceEach
<1>2. CASE ctrl' = Append(ctrl, m)
  BY <1>2, Appended DEF Attaching, Detaching, OnceEach
<1> QED BY <1>1, <1>2

\* The worker takes the first message out of the control socket.
LEMMA CtrlTaken ==
    ASSUME ctrl \in Seq(CtrlStructs), ctrl # <<>>, ctrl' = Tail(ctrl)
    PROVE  /\ ctrl' \in Seq(CtrlStructs)
           /\ \A c : /\ Attaching(c)' => Attaching(c)
                     /\ Detaching(c)' => Detaching(c)
                     /\ OnceEach(c) => OnceEach(c)'
                     /\ Head(ctrl) = Attach(c) =>
                           Attaching(c) /\ (OnceEach(c) => ~Attaching(c)')
                     /\ Head(ctrl) = Detach(c) =>
                           Detaching(c) /\ (OnceEach(c) => ~Detaching(c)')
BY Taken DEF Attaching, Detaching, OnceEach

\* A message is sent to the daemon, while the session lives.
LEMMA Sent ==
    ASSUME toDaemon \in Seq(Commands), NEW m \in Commands, Send(m), UNCHANGED toServer
    PROVE  /\ toDaemon' \in Seq(Commands)
           /\ \A c : Talk(c)' => Talk(c) \/ m.ch = c
<1>1. CASE session = "alive"
  BY <1>1, Appended DEF Send, Talk
<1>2. CASE session # "alive"
  BY <1>2 DEF Send, Talk
<1> QED BY <1>1, <1>2

\* A channel of which nothing is said or changed keeps what is said of it.
LEMMA Frame ==
    ASSUME NEW c, Inv(c), Untouched(c), Heard(c), SameFetch(c)
    PROVE  Inv(c)'
<1> USE DEF Inv, Untouched, Heard, SameFetch, Bound, Served
<1>1. MemInv(c)'
  BY DEF MemInv
<1>2. HandleInv(c)'
  BY DEF HandleInv, Count
<1>3. BindInv(c)'
  BY DEF BindInv
<1>4. UnservedInv(c)'
  BY DEF UnservedInv
<1>5. ClearInv(c)'
  BY DEF ClearInv
<1>6. CommandInv(c)'
  BY DEF CommandInv
<1>7. RefInv(c)'
  BY DEF RefInv, Count
<1> QED BY <1>1, <1>2, <1>3, <1>4, <1>5, <1>6, <1>7

\* A step that touches one channel keeps the invariant, if it keeps what is said of
\* that channel.
LEMMA Joined ==
    ASSUME NEW c \in Channels, \A d \in Channels : Inv(d), Types',
           \A d \in Channels \ {c} : Heard(d) /\ SameFetch(d),
           \A d \in Channels \ {c} : Untouched(d), Inv(c)'
    PROVE  IInv'
BY Frame DEF IInv

\* FreeChannel marks a channel dead that is there and alive, and touches no other.
LEMMA FreeChannelEffect ==
    ASSUME ObjTypes, NEW c \in Channels, FreeChannel(c)
    PROVE  /\ isDead' \in [Channels -> BOOLEAN] /\ freePc' \in [Channels -> FreeStates]
           /\ \A d \in Channels \ {c} : isDead'[d] = isDead[d] /\ freePc'[d] = freePc[d]
           /\ IF mem[c] = "alloc" /\ ~isDead[c]
              THEN isDead'[c] /\ freePc'[c] = "operate"
              ELSE isDead'[c] = isDead[c] /\ freePc'[c] = freePc[c]
BY DEF ObjTypes, FreeChannel, FreeChannels, MayFree, FreeStates

\* EchoMain writes, with a reference, if there is a socket to write on.
LEMMA EchoMainEffect ==
    ASSUME ObjTypes, MainTypes, NEW c \in Channels, EchoMain(c)
    PROVE  /\ ref' \in [Channels -> Nat] /\ mainWrites' \in [Channels -> 0 .. MaxWrites]
           /\ \A d \in Channels \ {c} : ref'[d] = ref[d] /\ mainWrites'[d] = mainWrites[d]
           /\ \/ /\ hWorkTCP[c] = "open"
                 /\ ref'[c] = ref[c] + 1 /\ mainWrites'[c] = mainWrites[c] + 1
              \/ /\ hWorkTCP[c] # "open"
                 /\ ref'[c] = ref[c] /\ mainWrites'[c] = mainWrites[c]
<1>1. MaxWrites \in Nat
  BY ConstantsAssumption DEF ConstantsAssumption
<1>2. CASE hWorkTCP[c] = "open"
  BY <1>1, <1>2 DEF ObjTypes, MainTypes, EchoMain, WorkWritable
<1>3. CASE hWorkTCP[c] # "open"
  BY <1>3 DEF ObjTypes, MainTypes, EchoMain, WorkWritable
<1> QED BY <1>2, <1>3

\* What the count says of the users of a channel.
LEMMA NoReference ==
    ASSUME Types, NEW c \in Channels, RefInv(c), ref[c] = 0
    PROVE  /\ mainWrites[c] = 0 /\ writes[c] = 0 /\ hWorkTCP[c] # "bindClosing"
           /\ ~Fetched(c) /\ ~Checked(c)
BY DEF Types, MainTypes, WorkTypes, RefInv, Count, Checked

\* A write of a bound socket is a reference beside that of its close callback.
LEMMA TwoReferences ==
    ASSUME Types, NEW c \in Channels, RefInv(c), mainWrites[c] > 0, hWorkTCP[c] = "bindClosing"
    PROVE  ref[c] # 1
BY DEF Types, MainTypes, WorkTypes, RefInv, Count

-----------------------------------------------------------------------------
(* Main loop: accepting, handshake and local commands.                     *)

\* A channel is accepted.
LEMMA AcceptClientKeeps ==
    ASSUME IInv, NEW c \in Channels, AcceptClient(c)
    PROVE  IInv'
<1> USE DEF objVars, mainVars, freeVars, sessVars, workVars, linkVars
<1>0. Types /\ (\A d \in Channels : Inv(d)) /\ Inv(c)
  BY DEF IInv
<1>i. /\ MemInv(c) /\ HandleInv(c) /\ BindInv(c) /\ UnservedInv(c) /\ ClearInv(c)
      /\ CommandInv(c) /\ RefInv(c) /\ OnceEach(c)
  BY <1>0 DEF Inv
<1>e. /\ client[c] = "none" /\ client'[c] = "here" /\ mem'[c] = "alloc"
      /\ uvHandleRef'[c] = 1
      /\ \/ /\ hWorkTCP'[c] = "open" /\ ref'[c] = 1 /\ mainWrites'[c] = 1
            /\ isDead'[c] = isDead[c] /\ freePc'[c] = freePc[c]
         \/ /\ hWorkTCP'[c] = "inited" /\ ref'[c] = ref[c] /\ mainWrites'[c] = mainWrites[c]
            /\ isDead'[c] /\ freePc'[c] = "operate"
      /\ UNCHANGED <<handshakeOK[c], keepAlive[c], bindNext[c], connectTimer[c],
                     hChildWorkTCP[c], writes[c], childNext[c], childCleared[c], task[c],
                     daemonTask[c], lstMainThreadOP, mapForward, work>>
  BY <1>0 DEF AcceptClient, Types, ObjTypes, MainTypes, WorkTypes
<1>q. \A d \in Channels : Heard(d) /\ SameFetch(d)
  BY <1>0, KeptCtrl, KeptLink, KeptFetch DEF AcceptClient, Inv, Heard
<1>1. Types'
  <2>1. ObjTypes'
    <3>1. isDead' \in [Channels -> BOOLEAN]
      BY <1>0 DEF AcceptClient, Types, ObjTypes
    <3>2. mem' \in [Channels -> {"none", "alloc", "freed"}] /\ ref' \in [Channels -> Nat]
      BY <1>0 DEF AcceptClient, Types, ObjTypes
    <3>3. freePc' \in [Channels -> FreeStates]
      BY <1>0 DEF AcceptClient, Types, ObjTypes, FreeStates
    <3> QED BY <1>0, <3>1, <3>2, <3>3 DEF AcceptClient, Types, ObjTypes
  <2>2. MainTypes'
    BY <1>0, <1>e, ConstantsAssumption
       DEF ConstantsAssumption, AcceptClient, Types, MainTypes, WorkTcpStates
  <2>3. WorkTypes' /\ SetTypes' /\ QueueTypes'
    BY <1>0 DEF AcceptClient, Types, WorkTypes, SetTypes, QueueTypes
  <2> QED BY <2>1, <2>2, <2>3 DEF Types
<1>3. ASSUME NEW d \in Channels \ {c} PROVE Untouched(d)
  BY <1>0 DEF AcceptClient, Untouched, Types, ObjTypes, MainTypes, WorkTypes
<1>4. Inv(c)'
  <2>1. RefInv(c)'
    BY <1>i, <1>e, <1>q, <1>0
       DEF MemInv, UnservedInv, Served, HandleInv, RefInv, Count, Heard, SameFetch, Types,
           ObjTypes, MainTypes, WorkTypes
  <2>2. OnceEach(c)'
    BY <1>q DEF Heard
  <2> USE DEF MemInv, HandleInv, BindInv, UnservedInv, ClearInv, CommandInv, RefInv, Heard,
            SameFetch, Bound, Served, Count
  <2>3. MemInv(c)'
    BY <1>i, <1>e, <1>q
  <2>4. HandleInv(c)'
    BY <1>i, <1>e, <1>q, <1>0 DEF Types, ObjTypes, MainTypes, WorkTypes, WorkTcpStates
  <2>5. BindInv(c)'
    BY <1>i, <1>e, <1>q
  <2>6. UnservedInv(c)'
    BY <1>i, <1>e, <1>q
  <2>7. ClearInv(c)'
    BY <1>i, <1>e, <1>q
  <2>8. CommandInv(c)'
    BY <1>i, <1>e, <1>q, <1>0 DEF Types, ObjTypes, MainTypes, WorkTypes
  <2> QED BY <2>1, <2>2, <2>3, <2>4, <2>5, <2>6, <2>7, <2>8 DEF Inv
<1> QED BY <1>0, <1>1, <1>q, <1>3, <1>4, Joined

\* A channel without a device has shaken hands, or is freed.
LEMMA HandShakeLocalKeeps ==
    ASSUME IInv, NEW c \in Channels, HandShakeLocal(c)
    PROVE  IInv'
<1> USE DEF objVars, mainVars, freeVars, sessVars, workVars, linkVars
<1>0. Types /\ (\A d \in Channels : Inv(d)) /\ Inv(c)
  BY DEF IInv
<1>i. /\ MemInv(c) /\ HandleInv(c) /\ BindInv(c) /\ UnservedInv(c) /\ ClearInv(c)
      /\ CommandInv(c) /\ RefInv(c) /\ OnceEach(c)
  BY <1>0 DEF Inv
<1>e. /\ hWorkTCP[c] = "open" /\ client[c] = "here" /\ client'[c] # "none" /\ ~handshakeOK[c]
      /\ \/ isDead'[c] = isDead[c] /\ freePc'[c] = freePc[c]
         \/ /\ IF mem[c] = "alloc" /\ ~isDead[c]
               THEN isDead'[c] /\ freePc'[c] = "operate"
               ELSE isDead'[c] = isDead[c] /\ freePc'[c] = freePc[c]
            /\ handshakeOK'[c] = handshakeOK[c]
            /\ client'[c] = "asked" \/ keepAlive[c]
      /\ UNCHANGED <<mem[c], ref[c], keepAlive[c], hWorkTCP[c], uvHandleRef[c],
                     mainWrites[c], bindNext[c], connectTimer[c], hChildWorkTCP[c],
                     writes[c], childNext[c], childCleared[c], task[c], daemonTask[c],
                     lstMainThreadOP, mapForward, work>>
  BY <1>0, FreeChannelEffect
     DEF HandShakeLocal, MainReadable, Asked, Types, ObjTypes, MainTypes, WorkTypes
<1>q. \A d \in Channels : Heard(d) /\ SameFetch(d)
  BY <1>0, KeptCtrl, KeptLink, KeptFetch DEF HandShakeLocal, MainReadable, Asked, Inv, Heard
<1>1. Types'
  <2>1. ObjTypes'
    BY <1>0, <1>e, FreeChannelEffect
       DEF HandShakeLocal, MainReadable, Asked, Types, ObjTypes, FreeStates
  <2>2. MainTypes'
    BY <1>0, <1>e, FreeChannelEffect
       DEF HandShakeLocal, MainReadable, Asked, Types, MainTypes, WorkTcpStates
  <2>3. WorkTypes' /\ SetTypes' /\ QueueTypes'
    BY <1>0 DEF HandShakeLocal, MainReadable, Asked, Types, WorkTypes, SetTypes, QueueTypes
  <2> QED BY <2>1, <2>2, <2>3 DEF Types
<1>3. ASSUME NEW d \in Channels \ {c} PROVE Untouched(d)
  BY <1>0, FreeChannelEffect
     DEF HandShakeLocal, MainReadable, Asked, Untouched, Types, ObjTypes, MainTypes,
         WorkTypes
<1>4. Inv(c)'
  <2>1. RefInv(c)'
    BY <1>i, <1>e, <1>q DEF RefInv, Heard, SameFetch, Count
  <2>2. OnceEach(c)'
    BY <1>q DEF Heard
  <2> USE DEF MemInv, HandleInv, BindInv, UnservedInv, ClearInv, CommandInv, RefInv, Heard,
            SameFetch, Bound, Served, Count
  <2>3. MemInv(c)'
    BY <1>i, <1>e, <1>q
  <2>4. HandleInv(c)'
    BY <1>i, <1>e, <1>q, <1>0 DEF Types, ObjTypes, MainTypes, WorkTypes, WorkTcpStates
  <2>5. BindInv(c)'
    BY <1>i, <1>e, <1>q
  <2>6. UnservedInv(c)'
    BY <1>i, <1>e, <1>q
  <2>7. ClearInv(c)'
    BY <1>i, <1>e, <1>q
  <2>8. CommandInv(c)'
    BY <1>i, <1>e, <1>q, <1>0 DEF Types, ObjTypes, MainTypes, WorkTypes
  <2> QED BY <2>1, <2>2, <2>3, <2>4, <2>5, <2>6, <2>7, <2>8 DEF Inv
<1> QED BY <1>0, <1>1, <1>q, <1>3, <1>4, Joined

\* A channel is bound to the session of its device.
LEMMA BindChannelToSessionKeeps ==
    ASSUME IInv, NEW c \in Channels, BindChannelToSession(c)
    PROVE  IInv'
<1> USE DEF objVars, mainVars, freeVars, sessVars, workVars, linkVars
<1>0. Types /\ (\A d \in Channels : Inv(d)) /\ Inv(c)
  BY DEF IInv
<1>i. /\ MemInv(c) /\ HandleInv(c) /\ BindInv(c) /\ UnservedInv(c) /\ ClearInv(c)
      /\ CommandInv(c) /\ RefInv(c) /\ OnceEach(c)
  BY <1>0 DEF Inv
<1>e. /\ hWorkTCP[c] = "open" /\ client[c] = "here" /\ ~handshakeOK[c] /\ handshakeOK'[c]
      /\ \/ /\ ref'[c] = ref[c] + 1 /\ hWorkTCP'[c] = "bindClosing" /\ bindNext'[c]
            /\ mainWrites'[c] = mainWrites[c]
            /\ isDead'[c] = isDead[c] /\ freePc'[c] = freePc[c]
         \/ /\ IF mem[c] = "alloc" /\ ~isDead[c]
               THEN isDead'[c] /\ freePc'[c] = "operate"
               ELSE isDead'[c] = isDead[c] /\ freePc'[c] = freePc[c]
            /\ hWorkTCP'[c] = hWorkTCP[c] /\ bindNext'[c] = bindNext[c]
            /\ \/ ref'[c] = ref[c] /\ mainWrites'[c] = mainWrites[c]
               \/ ref'[c] = ref[c] + 1 /\ mainWrites'[c] = mainWrites[c] + 1
      /\ UNCHANGED <<mem[c], keepAlive[c], uvHandleRef[c], connectTimer[c], client[c],
                     hChildWorkTCP[c], writes[c], childNext[c], childCleared[c], task[c],
                     daemonTask[c], lstMainThreadOP, mapForward, work>>
  BY <1>0, FreeChannelEffect, EchoMainEffect
     DEF BindChannelToSession, MainReadable, Types, ObjTypes, MainTypes, WorkTypes
<1>q. \A d \in Channels : Heard(d) /\ SameFetch(d)
  BY <1>0, KeptCtrl, KeptLink, KeptFetch DEF BindChannelToSession, MainReadable, Inv, Heard
<1>1. Types'
  <2>1. ObjTypes'
    BY <1>0, <1>e, FreeChannelEffect, EchoMainEffect, <1>i
       DEF BindChannelToSession, MainReadable, Types, ObjTypes, FreeStates, RefInv, Count,
           MainTypes, WorkTypes
  <2>2. MainTypes'
    BY <1>0, <1>e, FreeChannelEffect, EchoMainEffect
       DEF BindChannelToSession, MainReadable, Types, MainTypes, WorkTcpStates
  <2>3. WorkTypes' /\ SetTypes' /\ QueueTypes'
    BY <1>0 DEF BindChannelToSession, MainReadable, Types, WorkTypes, SetTypes, QueueTypes
  <2> QED BY <2>1, <2>2, <2>3 DEF Types
<1>3. ASSUME NEW d \in Channels \ {c} PROVE Untouched(d)
  BY <1>0, FreeChannelEffect, EchoMainEffect
     DEF BindChannelToSession, MainReadable, Untouched, Types, ObjTypes, MainTypes,
         WorkTypes
<1>4. Inv(c)'
  <2>1. RefInv(c)'
    BY <1>i, <1>e, <1>q, <1>0
       DEF RefInv, Count, Heard, SameFetch, Types, ObjTypes, MainTypes, WorkTypes
  <2>2. OnceEach(c)'
    BY <1>q DEF Heard
  <2> USE DEF MemInv, HandleInv, BindInv, UnservedInv, ClearInv, CommandInv, RefInv, Heard,
            SameFetch, Bound, Served, Count
  <2>3. MemInv(c)'
    BY <1>i, <1>e, <1>q
  <2>4. HandleInv(c)'
    BY <1>i, <1>e, <1>q, <1>0 DEF Types, ObjTypes, MainTypes, WorkTypes, WorkTcpStates
  <2>5. BindInv(c)'
    BY <1>i, <1>e, <1>q
  <2>6. UnservedInv(c)'
    BY <1>i, <1>e, <1>q
  <2>7. ClearInv(c)'
    BY <1>i, <1>e, <1>q
  <2>8. CommandInv(c)'
    BY <1>i, <1>e, <1>q, <1>0 DEF Types, ObjTypes, MainTypes, WorkTypes
  <2> QED BY <2>1, <2>2, <2>3, <2>4, <2>5, <2>6, <2>7, <2>8 DEF Inv
<1> QED BY <1>0, <1>1, <1>q, <1>3, <1>4, Joined

\* The socket of the main loop has been closed for a binding.
LEMMA WorkTcpClosedKeeps ==
    ASSUME IInv, NEW c \in Channels, WorkTcpClosed(c)
    PROVE  IInv'
<1> USE DEF objVars, mainVars, freeVars, sessVars, workVars, linkVars
<1>0. Types /\ (\A d \in Channels : Inv(d)) /\ Inv(c)
  BY DEF IInv
<1>i. /\ MemInv(c) /\ HandleInv(c) /\ BindInv(c) /\ UnservedInv(c) /\ ClearInv(c)
      /\ CommandInv(c) /\ RefInv(c) /\ OnceEach(c)
  BY <1>0 DEF Inv
<1>e. /\ hWorkTCP[c] = "bindClosing" /\ mainWrites[c] = 0
      /\ hWorkTCP'[c] = "closed" /\ ref'[c] = ref[c] - 1
      /\ UNCHANGED <<mem[c], isDead[c], handshakeOK[c], keepAlive[c], freePc[c],
                     uvHandleRef[c], mainWrites[c], bindNext[c], connectTimer[c], client[c],
                     hChildWorkTCP[c], writes[c], childNext[c], childCleared[c], task[c],
                     daemonTask[c], lstMainThreadOP, mapForward, work>>
  BY <1>0 DEF WorkTcpClosed, Types, ObjTypes, MainTypes, WorkTypes
<1>q. \A d \in Channels : Heard(d) /\ SameFetch(d)
  BY <1>0, KeptCtrl, KeptLink, KeptFetch DEF WorkTcpClosed, Inv, Heard
<1>1. Types'
  <2>1. ObjTypes'
    BY <1>0, <1>e, <1>i
       DEF WorkTcpClosed, Types, ObjTypes, FreeStates, RefInv, Count, MainTypes, WorkTypes
  <2>2. MainTypes'
    BY <1>0, <1>e DEF WorkTcpClosed, Types, MainTypes, WorkTcpStates
  <2>3. WorkTypes' /\ SetTypes' /\ QueueTypes'
    BY <1>0 DEF WorkTcpClosed, Types, WorkTypes, SetTypes, QueueTypes
  <2> QED BY <2>1, <2>2, <2>3 DEF Types
<1>3. ASSUME NEW d \in Channels \ {c} PROVE Untouched(d)
  BY <1>0 DEF WorkTcpClosed, Untouched, Types, ObjTypes, MainTypes, WorkTypes
<1>4. Inv(c)'
  <2>1. RefInv(c)'
    BY <1>i, <1>e, <1>q, <1>0
       DEF RefInv, Count, Heard, SameFetch, Types, ObjTypes, MainTypes, WorkTypes
  <2>2. UnservedInv(c)' /\ ClearInv(c)'
    BY <1>i, <1>e, <1>q DEF UnservedInv, ClearInv, Heard, SameFetch, Served
  <2>3. CommandInv(c)'
    BY <1>i, <1>e, <1>q DEF CommandInv, Heard, SameFetch
  <2>4. OnceEach(c)'
    BY <1>q DEF Heard
  <2> USE DEF MemInv, HandleInv, BindInv, UnservedInv, ClearInv, CommandInv, RefInv, Heard,
            SameFetch, Bound, Served, Count
  <2>5. MemInv(c)'
    BY <1>i, <1>e, <1>q
  <2>6. HandleInv(c)'
    BY <1>i, <1>e, <1>q, <1>0 DEF Types, ObjTypes, MainTypes, WorkTypes, WorkTcpStates
  <2>7. BindInv(c)'
    BY <1>i, <1>e, <1>q
  <2> QED BY <2>1, <2>2, <2>3, <2>4, <2>5, <2>6, <2>7 DEF Inv
<1> QED BY <1>0, <1>1, <1>q, <1>3, <1>4, Joined

\* The worker is told to attach a channel.
LEMMA SendAttachKeeps ==
    ASSUME IInv, NEW c \in Channels, SendAttach(c)
    PROVE  IInv'
<1> USE DEF objVars, mainVars, freeVars, sessVars, workVars, linkVars
<1>0. Types /\ (\A d \in Channels : Inv(d)) /\ Inv(c)
  BY DEF IInv
<1>i. /\ MemInv(c) /\ HandleInv(c) /\ BindInv(c) /\ UnservedInv(c) /\ ClearInv(c)
      /\ CommandInv(c) /\ RefInv(c) /\ OnceEach(c)
  BY <1>0 DEF Inv
<1>e. /\ bindNext[c] /\ bindNext'[c] = FALSE
      /\ UNCHANGED <<mem[c], isDead[c], ref[c], handshakeOK[c], keepAlive[c], freePc[c],
                     hWorkTCP[c], uvHandleRef[c], mainWrites[c], connectTimer[c], client[c],
                     hChildWorkTCP[c], writes[c], childNext[c], childCleared[c], task[c],
                     daemonTask[c], lstMainThreadOP, mapForward, work>>
  BY <1>0 DEF SendAttach, Types, ObjTypes, MainTypes, WorkTypes
<1>c. /\ ctrl' \in {ctrl, Append(ctrl, Attach(c))} /\ Attach(c) \in CtrlStructs
      /\ ctrl \in Seq(CtrlStructs) /\ ~Attaching(c)
  BY <1>0, <1>i, <1>e, CtrlApart DEF SendAttach, Attach, Types, QueueTypes, BindInv
<1>d. /\ ctrl' \in Seq(CtrlStructs)
      /\ \A d \in Channels : /\ Attaching(d)' => Attaching(d) \/ d = c
                             /\ Detaching(d)' => Detaching(d)
                             /\ OnceEach(d)' /\ (Talk(d)' <=> Talk(d)) /\ SameFetch(d)
  BY <1>0, <1>c, CtrlSent, CtrlApart, KeptLink, KeptFetch DEF SendAttach, Inv
<1>2. \A d \in Channels \ {c} : Heard(d) /\ SameFetch(d)
  BY <1>d DEF Heard
<1>q. /\ (Detaching(c)' => Detaching(c)) /\ (Talk(c)' => Talk(c)) /\ OnceEach(c)'
      /\ SameFetch(c)
  BY <1>d
<1>1. Types'
  <2>1. MainTypes'
    BY <1>0, <1>e, <1>d DEF SendAttach, Types, MainTypes, WorkTcpStates
  <2>2. QueueTypes'
    BY <1>0, <1>d DEF SendAttach, Types, QueueTypes
  <2>3. ObjTypes' /\ WorkTypes' /\ SetTypes'
    BY <1>0 DEF SendAttach, Types, ObjTypes, WorkTypes, SetTypes
  <2> QED BY <2>1, <2>2, <2>3 DEF Types
<1>3. ASSUME NEW d \in Channels \ {c} PROVE Untouched(d)
  BY <1>0 DEF SendAttach, Untouched, Types, ObjTypes, MainTypes, WorkTypes
<1>4. Inv(c)'
  <2>1. HandleInv(c)' /\ CommandInv(c)'
    BY <1>i, <1>e, <1>q DEF HandleInv, CommandInv, Heard, SameFetch, Count
  <2>2. RefInv(c)'
    BY <1>i, <1>e, <1>q DEF RefInv, Heard, SameFetch, Count
  <2>3. OnceEach(c)'
    BY <1>q DEF Heard
  <2> USE DEF MemInv, HandleInv, BindInv, UnservedInv, ClearInv, CommandInv, RefInv, Heard,
            SameFetch, Bound, Served, Count
  <2>4. MemInv(c)'
    BY <1>i, <1>e, <1>q
  <2>5. BindInv(c)'
    BY <1>i, <1>e, <1>q
  <2>6. UnservedInv(c)'
    BY <1>i, <1>e, <1>q
  <2>7. ClearInv(c)'
    BY <1>i, <1>e, <1>q
  <2> QED BY <2>1, <2>2, <2>3, <2>4, <2>5, <2>6, <2>7 DEF Inv
<1> QED BY <1>0, <1>1, <1>2, <1>3, <1>4, Joined

\* The client has left, as its channel's main loop sees.
LEMMA MainReadEndKeeps ==
    ASSUME IInv, NEW c \in Channels, MainReadEnd(c)
    PROVE  IInv'
<1> USE DEF objVars, mainVars, freeVars, sessVars, workVars, linkVars
<1>0. Types /\ (\A d \in Channels : Inv(d)) /\ Inv(c)
  BY DEF IInv
<1>i. /\ MemInv(c) /\ HandleInv(c) /\ BindInv(c) /\ UnservedInv(c) /\ ClearInv(c)
      /\ CommandInv(c) /\ RefInv(c) /\ OnceEach(c)
  BY <1>0 DEF Inv
<1>e. /\ hWorkTCP[c] = "open" /\ hWorkTCP'[c] = "closed" /\ client[c] = "gone"
      /\ IF mem[c] = "alloc" /\ ~isDead[c]
         THEN isDead'[c] /\ freePc'[c] = "operate"
         ELSE isDead'[c] = isDead[c] /\ freePc'[c] = freePc[c]
      /\ UNCHANGED <<mem[c], ref[c], handshakeOK[c], keepAlive[c], uvHandleRef[c],
                     mainWrites[c], bindNext[c], connectTimer[c], client[c],
                     hChildWorkTCP[c], writes[c], childNext[c], childCleared[c], task[c],
                     daemonTask[c], lstMainThreadOP, mapForward, work>>
  BY <1>0, FreeChannelEffect DEF MainReadEnd, Types, ObjTypes, MainTypes, WorkTypes
<1>q. \A d \in Channels : Heard(d) /\ SameFetch(d)
  BY <1>0, KeptCtrl, KeptLink, KeptFetch DEF MainReadEnd, Inv, Heard
<1>1. Types'
  <2>1. ObjTypes'
    BY <1>0, <1>e, FreeChannelEffect DEF MainReadEnd, Types, ObjTypes, FreeStates
  <2>2. MainTypes'
    BY <1>0, <1>e, FreeChannelEffect DEF MainReadEnd, Types, MainTypes, WorkTcpStates
  <2>3. WorkTypes' /\ SetTypes' /\ QueueTypes'
    BY <1>0 DEF MainReadEnd, Types, WorkTypes, SetTypes, QueueTypes
  <2> QED BY <2>1, <2>2, <2>3 DEF Types
<1>3. ASSUME NEW d \in Channels \ {c} PROVE Untouched(d)
  BY <1>0, FreeChannelEffect
     DEF MainReadEnd, Untouched, Types, ObjTypes, MainTypes, WorkTypes
<1>4. Inv(c)'
  <2>1. RefInv(c)'
    BY <1>i, <1>e, <1>q, <1>0
       DEF RefInv, Count, Heard, SameFetch, Types, ObjTypes, MainTypes, WorkTypes
  <2>2. OnceEach(c)'
    BY <1>q DEF Heard
  <2> USE DEF MemInv, HandleInv, BindInv, UnservedInv, ClearInv, CommandInv, RefInv, Heard,
            SameFetch, Bound, Served, Count
  <2>3. MemInv(c)'
    BY <1>i, <1>e, <1>q
  <2>4. HandleInv(c)'
    BY <1>i, <1>e, <1>q, <1>0 DEF Types, ObjTypes, MainTypes, WorkTypes, WorkTcpStates
  <2>5. BindInv(c)'
    BY <1>i, <1>e, <1>q
  <2>6. UnservedInv(c)'
    BY <1>i, <1>e, <1>q
  <2>7. ClearInv(c)'
    BY <1>i, <1>e, <1>q
  <2>8. CommandInv(c)'
    BY <1>i, <1>e, <1>q, <1>0 DEF Types, ObjTypes, MainTypes, WorkTypes
  <2> QED BY <2>1, <2>2, <2>3, <2>4, <2>5, <2>6, <2>7, <2>8 DEF Inv
<1> QED BY <1>0, <1>1, <1>q, <1>3, <1>4, Joined

\* A command that the server answers itself.
LEMMA LocalAnswerKeeps ==
    ASSUME IInv, NEW c \in Channels, LocalAnswer(c)
    PROVE  IInv'
<1> USE DEF objVars, mainVars, freeVars, sessVars, workVars, linkVars
<1>0. Types /\ (\A d \in Channels : Inv(d)) /\ Inv(c)
  BY DEF IInv
<1>i. /\ MemInv(c) /\ HandleInv(c) /\ BindInv(c) /\ UnservedInv(c) /\ ClearInv(c)
      /\ CommandInv(c) /\ RefInv(c) /\ OnceEach(c)
  BY <1>0 DEF Inv
<1>e. /\ hWorkTCP[c] = "open" /\ client[c] = "here" /\ client'[c] # "none" /\ handshakeOK[c]
      /\ ref'[c] = ref[c] + 1 /\ mainWrites'[c] = mainWrites[c] + 1
      /\ \/ isDead'[c] = isDead[c] /\ freePc'[c] = freePc[c]
         \/ IF mem[c] = "alloc" /\ ~isDead[c]
            THEN isDead'[c] /\ freePc'[c] = "operate"
            ELSE isDead'[c] = isDead[c] /\ freePc'[c] = freePc[c]
      /\ UNCHANGED <<mem[c], handshakeOK[c], keepAlive[c], hWorkTCP[c], uvHandleRef[c],
                     bindNext[c], connectTimer[c], hChildWorkTCP[c], writes[c],
                     childNext[c], childCleared[c], task[c], daemonTask[c], lstMainThreadOP,
                     mapForward, work>>
  BY <1>0, FreeChannelEffect, EchoMainEffect
     DEF LocalAnswer, MainReadable, Asked, Types, ObjTypes, MainTypes, WorkTypes
<1>q. \A d \in Channels : Heard(d) /\ SameFetch(d)
  BY <1>0, KeptCtrl, KeptLink, KeptFetch DEF LocalAnswer, MainReadable, Asked, Inv, Heard
<1>1. Types'
  <2>1. ObjTypes'
    BY <1>0, <1>e, FreeChannelEffect, EchoMainEffect, <1>i
       DEF LocalAnswer, MainReadable, Asked, Types, ObjTypes, FreeStates, RefInv, Count,
           MainTypes, WorkTypes
  <2>2. MainTypes'
    BY <1>0, <1>e, FreeChannelEffect, EchoMainEffect
       DEF LocalAnswer, MainReadable, Asked, Types, MainTypes, WorkTcpStates
  <2>3. WorkTypes' /\ SetTypes' /\ QueueTypes'
    BY <1>0 DEF LocalAnswer, MainReadable, Asked, Types, WorkTypes, SetTypes, QueueTypes
  <2> QED BY <2>1, <2>2, <2>3 DEF Types
<1>3. ASSUME NEW d \in Channels \ {c} PROVE Untouched(d)
  BY <1>0, FreeChannelEffect, EchoMainEffect
     DEF LocalAnswer, MainReadable, Asked, Untouched, Types, ObjTypes, MainTypes, WorkTypes
<1>4. Inv(c)'
  <2>1. RefInv(c)'
    BY <1>i, <1>e, <1>q, <1>0
       DEF RefInv, Count, Heard, SameFetch, Types, ObjTypes, MainTypes, WorkTypes
  <2>2. OnceEach(c)'
    BY <1>q DEF Heard
  <2> USE DEF MemInv, HandleInv, BindInv, UnservedInv, ClearInv, CommandInv, RefInv, Heard,
            SameFetch, Bound, Served, Count
  <2>3. MemInv(c)'
    BY <1>i, <1>e, <1>q
  <2>4. HandleInv(c)'
    BY <1>i, <1>e, <1>q, <1>0 DEF Types, ObjTypes, MainTypes, WorkTypes, WorkTcpStates
  <2>5. BindInv(c)'
    BY <1>i, <1>e, <1>q
  <2>6. UnservedInv(c)'
    BY <1>i, <1>e, <1>q
  <2>7. ClearInv(c)'
    BY <1>i, <1>e, <1>q
  <2>8. CommandInv(c)'
    BY <1>i, <1>e, <1>q, <1>0 DEF Types, ObjTypes, MainTypes, WorkTypes
  <2> QED BY <2>1, <2>2, <2>3, <2>4, <2>5, <2>6, <2>7, <2>8 DEF Inv
<1> QED BY <1>0, <1>1, <1>q, <1>3, <1>4, Joined

\* A client asks to be kept alive.
LEMMA EnableKeepAliveKeeps ==
    ASSUME IInv, NEW c \in Channels, EnableKeepAlive(c)
    PROVE  IInv'
<1> USE DEF objVars, mainVars, freeVars, sessVars, workVars, linkVars
<1>0. Types /\ (\A d \in Channels : Inv(d)) /\ Inv(c)
  BY DEF IInv
<1>i. /\ MemInv(c) /\ HandleInv(c) /\ BindInv(c) /\ UnservedInv(c) /\ ClearInv(c)
      /\ CommandInv(c) /\ RefInv(c) /\ OnceEach(c)
  BY <1>0 DEF Inv
<1>e. /\ handshakeOK[c] /\ keepAlive'[c] = TRUE
      /\ UNCHANGED <<mem[c], isDead[c], ref[c], handshakeOK[c], freePc[c], hWorkTCP[c],
                     uvHandleRef[c], mainWrites[c], bindNext[c], connectTimer[c], client[c],
                     hChildWorkTCP[c], writes[c], childNext[c], childCleared[c], task[c],
                     daemonTask[c], lstMainThreadOP, mapForward, work>>
  BY <1>0 DEF EnableKeepAlive, MainReadable, Types, ObjTypes, MainTypes, WorkTypes
<1>q. \A d \in Channels : Heard(d) /\ SameFetch(d)
  BY <1>0, KeptCtrl, KeptLink, KeptFetch DEF EnableKeepAlive, MainReadable, Inv, Heard
<1>1. Types'
  <2>1. ObjTypes'
    BY <1>0, <1>e DEF EnableKeepAlive, MainReadable, Types, ObjTypes, FreeStates
  <2>2. MainTypes' /\ WorkTypes' /\ SetTypes' /\ QueueTypes'
    BY <1>0
       DEF EnableKeepAlive, MainReadable, Types, MainTypes, WorkTypes, SetTypes, QueueTypes
  <2> QED BY <2>1, <2>2 DEF Types
<1>3. ASSUME NEW d \in Channels \ {c} PROVE Untouched(d)
  BY <1>0
     DEF EnableKeepAlive, MainReadable, Untouched, Types, ObjTypes, MainTypes, WorkTypes
<1>4. Inv(c)'
  <2>1. MemInv(c)' /\ HandleInv(c)'
    BY <1>i, <1>e, <1>q DEF MemInv, HandleInv, Heard, Bound, Served, Count
  <2>2. UnservedInv(c)' /\ ClearInv(c)'
    BY <1>i, <1>e, <1>q DEF UnservedInv, ClearInv, Heard, SameFetch, Served
  <2>3. CommandInv(c)' /\ RefInv(c)'
    BY <1>i, <1>e, <1>q DEF CommandInv, RefInv, Heard, SameFetch, Count
  <2>4. OnceEach(c)'
    BY <1>q DEF Heard
  <2> USE DEF MemInv, HandleInv, BindInv, UnservedInv, ClearInv, CommandInv, RefInv, Heard,
            SameFetch, Bound, Served, Count
  <2>5. BindInv(c)'
    BY <1>i, <1>e, <1>q
  <2> QED BY <2>1, <2>2, <2>3, <2>4, <2>5 DEF Inv
<1> QED BY <1>0, <1>1, <1>q, <1>3, <1>4, Joined

\* A client asks for a target.
LEMMA NewConnectTryKeeps ==
    ASSUME IInv, NEW c \in Channels, NewConnectTry(c)
    PROVE  IInv'
<1> USE DEF objVars, mainVars, freeVars, sessVars, workVars, linkVars
<1>0. Types /\ (\A d \in Channels : Inv(d)) /\ Inv(c)
  BY DEF IInv
<1>i. /\ MemInv(c) /\ HandleInv(c) /\ BindInv(c) /\ UnservedInv(c) /\ ClearInv(c)
      /\ CommandInv(c) /\ RefInv(c) /\ OnceEach(c)
  BY <1>0 DEF Inv
<1>e. /\ hWorkTCP[c] = "open" /\ client[c] = "here" /\ handshakeOK[c]
      /\ connectTimer'[c] = TRUE /\ client'[c] = "asked"
      /\ UNCHANGED <<mem[c], isDead[c], ref[c], handshakeOK[c], keepAlive[c], freePc[c],
                     hWorkTCP[c], uvHandleRef[c], mainWrites[c], bindNext[c],
                     hChildWorkTCP[c], writes[c], childNext[c], childCleared[c], task[c],
                     daemonTask[c], lstMainThreadOP, mapForward, work>>
  BY <1>0 DEF NewConnectTry, MainReadable, Types, ObjTypes, MainTypes, WorkTypes
<1>q. \A d \in Channels : Heard(d) /\ SameFetch(d)
  BY <1>0, KeptCtrl, KeptLink, KeptFetch DEF NewConnectTry, MainReadable, Inv, Heard
<1>1. Types'
  <2>1. MainTypes'
    BY <1>0, <1>e DEF NewConnectTry, MainReadable, Types, MainTypes, WorkTcpStates
  <2>2. ObjTypes' /\ WorkTypes' /\ SetTypes' /\ QueueTypes'
    BY <1>0
       DEF NewConnectTry, MainReadable, Types, ObjTypes, WorkTypes, SetTypes, QueueTypes
  <2> QED BY <2>1, <2>2 DEF Types
<1>3. ASSUME NEW d \in Channels \ {c} PROVE Untouched(d)
  BY <1>0 DEF NewConnectTry, MainReadable, Untouched, Types, ObjTypes, MainTypes, WorkTypes
<1>4. Inv(c)'
  <2>1. HandleInv(c)' /\ UnservedInv(c)'
    BY <1>i, <1>e, <1>q DEF HandleInv, UnservedInv, Heard, SameFetch, Served, Count
  <2>2. ClearInv(c)' /\ CommandInv(c)'
    BY <1>i, <1>e, <1>q DEF ClearInv, CommandInv, Heard, SameFetch, Served
  <2>3. RefInv(c)'
    BY <1>i, <1>e, <1>q DEF RefInv, Heard, SameFetch, Count
  <2>4. OnceEach(c)'
    BY <1>q DEF Heard
  <2> USE DEF MemInv, HandleInv, BindInv, UnservedInv, ClearInv, CommandInv, RefInv, Heard,
            SameFetch, Bound, Served, Count
  <2>5. MemInv(c)'
    BY <1>i, <1>e, <1>q
  <2>6. BindInv(c)'
    BY <1>i, <1>e, <1>q
  <2> QED BY <2>1, <2>2, <2>3, <2>4, <2>5, <2>6 DEF Inv
<1> QED BY <1>0, <1>1, <1>q, <1>3, <1>4, Joined

\* The client is told of the target.
LEMMA OrderConnecTargetResultKeeps ==
    ASSUME IInv, NEW c \in Channels, OrderConnecTargetResult(c)
    PROVE  IInv'
<1> USE DEF objVars, mainVars, freeVars, sessVars, workVars, linkVars
<1>0. Types /\ (\A d \in Channels : Inv(d)) /\ Inv(c)
  BY DEF IInv
<1>i. /\ MemInv(c) /\ HandleInv(c) /\ BindInv(c) /\ UnservedInv(c) /\ ClearInv(c)
      /\ CommandInv(c) /\ RefInv(c) /\ OnceEach(c)
  BY <1>0 DEF Inv
<1>e. /\ connectTimer[c] /\ connectTimer'[c] = FALSE
      /\ \/ /\ hWorkTCP[c] = "open"
            /\ ref'[c] = ref[c] + 1 /\ mainWrites'[c] = mainWrites[c] + 1
         \/ hWorkTCP[c] # "open" /\ ref'[c] = ref[c] /\ mainWrites'[c] = mainWrites[c]
      /\ IF mem[c] = "alloc" /\ ~isDead[c]
         THEN isDead'[c] /\ freePc'[c] = "operate"
         ELSE isDead'[c] = isDead[c] /\ freePc'[c] = freePc[c]
      /\ UNCHANGED <<mem[c], handshakeOK[c], keepAlive[c], hWorkTCP[c], uvHandleRef[c],
                     bindNext[c], client[c], hChildWorkTCP[c], writes[c], childNext[c],
                     childCleared[c], task[c], daemonTask[c], lstMainThreadOP, mapForward,
                     work>>
  BY <1>0, FreeChannelEffect, EchoMainEffect
     DEF OrderConnecTargetResult, Types, ObjTypes, MainTypes, WorkTypes
<1>q. \A d \in Channels : Heard(d) /\ SameFetch(d)
  BY <1>0, KeptCtrl, KeptLink, KeptFetch DEF OrderConnecTargetResult, Inv, Heard
<1>1. Types'
  <2>1. ObjTypes'
    BY <1>0, <1>e, FreeChannelEffect, EchoMainEffect, <1>i
       DEF OrderConnecTargetResult, Types, ObjTypes, FreeStates, RefInv, Count, MainTypes,
           WorkTypes
  <2>2. MainTypes'
    BY <1>0, <1>e, FreeChannelEffect, EchoMainEffect
       DEF OrderConnecTargetResult, Types, MainTypes, WorkTcpStates
  <2>3. WorkTypes' /\ SetTypes' /\ QueueTypes'
    BY <1>0 DEF OrderConnecTargetResult, Types, WorkTypes, SetTypes, QueueTypes
  <2> QED BY <2>1, <2>2, <2>3 DEF Types
<1>3. ASSUME NEW d \in Channels \ {c} PROVE Untouched(d)
  BY <1>0, FreeChannelEffect, EchoMainEffect
     DEF OrderConnecTargetResult, Untouched, Types, ObjTypes, MainTypes, WorkTypes
<1>4. Inv(c)'
  <2>1. RefInv(c)'
    BY <1>i, <1>e, <1>q, <1>0
       DEF RefInv, Count, Heard, SameFetch, Types, ObjTypes, MainTypes, WorkTypes
  <2>2. OnceEach(c)'
    BY <1>q DEF Heard
  <2> USE DEF MemInv, HandleInv, BindInv, UnservedInv, ClearInv, CommandInv, RefInv, Heard,
            SameFetch, Bound, Served, Count
  <2>3. MemInv(c)'
    BY <1>i, <1>e, <1>q
  <2>4. HandleInv(c)'
    BY <1>i, <1>e, <1>q, <1>0 DEF Types, ObjTypes, MainTypes, WorkTypes, WorkTcpStates
  <2>5. BindInv(c)'
    BY <1>i, <1>e, <1>q
  <2>6. UnservedInv(c)'
    BY <1>i, <1>e, <1>q
  <2>7. ClearInv(c)'
    BY <1>i, <1>e, <1>q
  <2>8. CommandInv(c)'
    BY <1>i, <1>e, <1>q, <1>0 DEF Types, ObjTypes, MainTypes, WorkTypes
  <2> QED BY <2>1, <2>2, <2>3, <2>4, <2>5, <2>6, <2>7, <2>8 DEF Inv
<1> QED BY <1>0, <1>1, <1>q, <1>3, <1>4, Joined

\* A write of the main loop is over; the last one of a failed socket frees the channel.
LEMMA MainWriteCallbackKeeps ==
    ASSUME IInv, NEW c \in Channels, NEW ok \in BOOLEAN, MainWriteCallback(c, ok)
    PROVE  IInv'
<1> USE DEF objVars, mainVars, freeVars, sessVars, workVars, linkVars
<1>0. Types /\ (\A d \in Channels : Inv(d)) /\ Inv(c)
  BY DEF IInv
<1>i. /\ MemInv(c) /\ HandleInv(c) /\ BindInv(c) /\ UnservedInv(c) /\ ClearInv(c)
      /\ CommandInv(c) /\ RefInv(c) /\ OnceEach(c)
  BY <1>0 DEF Inv
<1>e. /\ mainWrites[c] > 0 /\ mainWrites'[c] = mainWrites[c] - 1 /\ ref'[c] = ref[c] - 1
      /\ \/ hWorkTCP'[c] = hWorkTCP[c]
         \/ hWorkTCP[c] = "open" /\ hWorkTCP'[c] = "closed"
      /\ \/ isDead'[c] = isDead[c] /\ freePc'[c] = freePc[c]
         \/ /\ ref[c] = 1 /\ (hWorkTCP[c] # "open" \/ client[c] = "gone")
            /\ IF mem[c] = "alloc" /\ ~isDead[c]
               THEN isDead'[c] /\ freePc'[c] = "operate"
               ELSE isDead'[c] = isDead[c] /\ freePc'[c] = freePc[c]
      /\ UNCHANGED <<mem[c], handshakeOK[c], keepAlive[c], uvHandleRef[c], bindNext[c],
                     connectTimer[c], client[c], hChildWorkTCP[c], writes[c], childNext[c],
                     childCleared[c], task[c], daemonTask[c], lstMainThreadOP, mapForward,
                     work>>
  BY <1>0, FreeChannelEffect DEF MainWriteCallback, Types, ObjTypes, MainTypes, WorkTypes
<1>q. \A d \in Channels : Heard(d) /\ SameFetch(d)
  BY <1>0, KeptCtrl, KeptLink, KeptFetch DEF MainWriteCallback, Inv, Heard
<1>r. ref[c] = 1 => hWorkTCP[c] # "bindClosing"
  BY <1>0, <1>i, <1>e, TwoReferences
<1>1. Types'
  <2>1. ObjTypes'
    <3>1. ref[c] - 1 \in Nat /\ ref' = [ref EXCEPT ![c] = @ - 1]
      BY <1>0, <1>i, <1>e
         DEF MainWriteCallback, RefInv, Count, Types, ObjTypes, MainTypes, WorkTypes
    <3>2. ref' \in [Channels -> Nat]
      BY <1>0, <3>1 DEF Types, ObjTypes
    <3>3. isDead' \in [Channels -> BOOLEAN] /\ freePc' \in [Channels -> FreeStates]
      BY <1>0, FreeChannelEffect DEF MainWriteCallback, Types, ObjTypes
    <3> QED BY <1>0, <3>2, <3>3 DEF MainWriteCallback, Types, ObjTypes
  <2>2. MainTypes'
    BY <1>0, <1>e, FreeChannelEffect, ConstantsAssumption
       DEF ConstantsAssumption, MainWriteCallback, Types, MainTypes, WorkTcpStates
  <2>3. WorkTypes' /\ SetTypes' /\ QueueTypes'
    BY <1>0 DEF MainWriteCallback, Types, WorkTypes, SetTypes, QueueTypes
  <2> QED BY <2>1, <2>2, <2>3 DEF Types
<1>3. ASSUME NEW d \in Channels \ {c} PROVE Untouched(d)
  BY <1>0, FreeChannelEffect
     DEF MainWriteCallback, Untouched, Types, ObjTypes, MainTypes, WorkTypes
<1>4. Inv(c)'
  <2>1. RefInv(c)'
    BY <1>i, <1>e, <1>q, <1>r, <1>0
       DEF RefInv, Count, Heard, SameFetch, Types, ObjTypes, MainTypes, WorkTypes
  <2>2. OnceEach(c)'
    BY <1>q DEF Heard
  <2> USE DEF MemInv, HandleInv, BindInv, UnservedInv, ClearInv, CommandInv, RefInv, Heard,
            SameFetch, Bound, Served, Count
  <2>3. MemInv(c)'
    BY <1>i, <1>e, <1>q, <1>r
  <2>4. HandleInv(c)'
    BY <1>i, <1>e, <1>q, <1>r, <1>0 DEF Types, ObjTypes, MainTypes, WorkTypes, WorkTcpStates
  <2>5. BindInv(c)'
    BY <1>i, <1>e, <1>q, <1>r
  <2>6. UnservedInv(c)'
    BY <1>i, <1>e, <1>q, <1>r
  <2>7. ClearInv(c)'
    BY <1>i, <1>e, <1>q, <1>r
  <2>8. CommandInv(c)'
    BY <1>i, <1>e, <1>q, <1>r, <1>0 DEF Types, ObjTypes, MainTypes, WorkTypes
  <2> QED BY <2>1, <2>2, <2>3, <2>4, <2>5, <2>6, <2>7, <2>8 DEF Inv
<1> QED BY <1>0, <1>1, <1>q, <1>3, <1>4, Joined

-----------------------------------------------------------------------------
(* Main loop: freeing.                                                     *)

\* A free that a worker asked for.
LEMMA AsyncMainLoopTaskKeeps ==
    ASSUME IInv, NEW c \in Channels, AsyncMainLoopTask(c)
    PROVE  IInv'
<1> USE DEF objVars, mainVars, freeVars, sessVars, workVars, linkVars
<1>0. Types /\ (\A d \in Channels : Inv(d)) /\ Inv(c)
  BY DEF IInv
<1>i. /\ MemInv(c) /\ HandleInv(c) /\ BindInv(c) /\ UnservedInv(c) /\ ClearInv(c)
      /\ CommandInv(c) /\ RefInv(c) /\ OnceEach(c)
  BY <1>0 DEF Inv
<1>e. /\ c \in lstMainThreadOP
      /\ IF mem[c] = "alloc" /\ ~isDead[c]
         THEN isDead'[c] /\ freePc'[c] = "operate"
         ELSE isDead'[c] = isDead[c] /\ freePc'[c] = freePc[c]
      /\ UNCHANGED <<mem[c], ref[c], handshakeOK[c], keepAlive[c], hWorkTCP[c],
                     uvHandleRef[c], mainWrites[c], bindNext[c], connectTimer[c], client[c],
                     hChildWorkTCP[c], writes[c], childNext[c], childCleared[c], task[c],
                     daemonTask[c], mapForward, work>>
  BY <1>0, FreeChannelEffect DEF AsyncMainLoopTask, Types, ObjTypes, MainTypes, WorkTypes
<1>q. \A d \in Channels : Heard(d) /\ SameFetch(d)
  BY <1>0, KeptCtrl, KeptLink, KeptFetch DEF AsyncMainLoopTask, Inv, Heard
<1>1. Types'
  <2>1. ObjTypes'
    BY <1>0, <1>e, FreeChannelEffect DEF AsyncMainLoopTask, Types, ObjTypes, FreeStates
  <2>2. SetTypes'
    BY <1>0, FreeChannelEffect DEF AsyncMainLoopTask, Types, SetTypes
  <2>3. MainTypes' /\ WorkTypes' /\ QueueTypes'
    BY <1>0 DEF AsyncMainLoopTask, Types, MainTypes, WorkTypes, QueueTypes
  <2> QED BY <2>1, <2>2, <2>3 DEF Types
<1>3. ASSUME NEW d \in Channels \ {c} PROVE Untouched(d)
  BY <1>0, FreeChannelEffect
     DEF AsyncMainLoopTask, Untouched, Types, ObjTypes, MainTypes, WorkTypes
<1>4. Inv(c)'
  <2>1. RefInv(c)'
    BY <1>i, <1>e, <1>q DEF RefInv, Heard, SameFetch, Count
  <2>2. OnceEach(c)'
    BY <1>q DEF Heard
  <2> USE DEF MemInv, HandleInv, BindInv, UnservedInv, ClearInv, CommandInv, RefInv, Heard,
            SameFetch, Bound, Served, Count
  <2>3. MemInv(c)'
    BY <1>i, <1>e, <1>q
  <2>4. HandleInv(c)'
    BY <1>i, <1>e, <1>q, <1>0 DEF Types, ObjTypes, MainTypes, WorkTypes, WorkTcpStates
  <2>5. BindInv(c)'
    BY <1>i, <1>e, <1>q
  <2>6. UnservedInv(c)'
    BY <1>i, <1>e, <1>q
  <2>7. ClearInv(c)'
    BY <1>i, <1>e, <1>q
  <2>8. CommandInv(c)'
    BY <1>i, <1>e, <1>q, <1>0 DEF Types, ObjTypes, MainTypes, WorkTypes
  <2> QED BY <2>1, <2>2, <2>3, <2>4, <2>5, <2>6, <2>7, <2>8 DEF Inv
<1> QED BY <1>0, <1>1, <1>q, <1>3, <1>4, Joined

\* A channel that no worker has is freed by the main loop alone.
LEMMA FreeChannelAtOnceKeeps ==
    ASSUME IInv, NEW c \in Channels, FreeChannelAtOnce(c)
    PROVE  IInv'
<1> USE DEF objVars, mainVars, freeVars, sessVars, workVars, linkVars
<1>0. Types /\ (\A d \in Channels : Inv(d)) /\ Inv(c)
  BY DEF IInv
<1>i. /\ MemInv(c) /\ HandleInv(c) /\ BindInv(c) /\ UnservedInv(c) /\ ClearInv(c)
      /\ CommandInv(c) /\ RefInv(c) /\ OnceEach(c)
  BY <1>0 DEF Inv
<1>e. /\ freePc[c] = "operate" /\ ref[c] = 0 /\ ~Served(c)
      /\ freePc'[c] = "finally"
      /\ \/ /\ hWorkTCP[c] \in {"inited", "open"} /\ hWorkTCP'[c] = "freeClosing"
            /\ uvHandleRef'[c] = uvHandleRef[c]
         \/ /\ hWorkTCP[c] \notin {"inited", "open"} /\ hWorkTCP'[c] = hWorkTCP[c]
            /\ uvHandleRef'[c] = uvHandleRef[c] - 1
      /\ UNCHANGED <<mem[c], isDead[c], ref[c], handshakeOK[c], keepAlive[c], mainWrites[c],
                     bindNext[c], connectTimer[c], client[c], hChildWorkTCP[c], writes[c],
                     childNext[c], childCleared[c], task[c], daemonTask[c], lstMainThreadOP,
                     mapForward, work>>
  BY <1>0
     DEF FreeChannelAtOnce, Unreferenced, FreeChannelContinue, Served, Types, ObjTypes, MainTypes,
         WorkTypes
<1>q. \A d \in Channels : Heard(d) /\ SameFetch(d)
  BY <1>0, KeptCtrl, KeptLink, KeptFetch
     DEF FreeChannelAtOnce, Unreferenced, FreeChannelContinue, Inv, Heard
<1>f. uvHandleRef[c] = 1
  BY <1>0, <1>i, <1>e DEF HandleInv, MemInv, Count, Types, ObjTypes
<1>r. /\ mainWrites[c] = 0 /\ writes[c] = 0 /\ hWorkTCP[c] # "bindClosing"
      /\ ~Fetched(c) /\ ~Checked(c)
  BY <1>0, <1>i, <1>e, NoReference
<1>1. Types'
  <2>1. ObjTypes'
    BY <1>0, <1>e, <1>f
       DEF FreeChannelAtOnce, Unreferenced, FreeChannelContinue, Types, ObjTypes, FreeStates
  <2>2. MainTypes'
    BY <1>0, <1>e, <1>f
       DEF FreeChannelAtOnce, Unreferenced, FreeChannelContinue, Types, MainTypes,
           WorkTcpStates
  <2>3. WorkTypes' /\ SetTypes' /\ QueueTypes'
    BY <1>0
       DEF FreeChannelAtOnce, Unreferenced, FreeChannelContinue, Types, WorkTypes, SetTypes,
           QueueTypes
  <2> QED BY <2>1, <2>2, <2>3 DEF Types
<1>3. ASSUME NEW d \in Channels \ {c} PROVE Untouched(d)
  BY <1>0
     DEF FreeChannelAtOnce, Unreferenced, FreeChannelContinue, Untouched, Types, ObjTypes,
         MainTypes, WorkTypes
<1>4. Inv(c)'
  <2>1. RefInv(c)'
    BY <1>i, <1>e, <1>q, <1>f, <1>r, <1>0
       DEF RefInv, Count, Heard, SameFetch, Types, ObjTypes, MainTypes, WorkTypes
  <2>2. OnceEach(c)'
    BY <1>q DEF Heard
  <2> USE DEF MemInv, HandleInv, BindInv, UnservedInv, ClearInv, CommandInv, RefInv, Heard,
            SameFetch, Bound, Served, Count
  <2>3. MemInv(c)'
    BY <1>i, <1>e, <1>q, <1>f, <1>r
  <2>4. HandleInv(c)'
    BY <1>i, <1>e, <1>q, <1>f, <1>r, <1>0
       DEF Types, ObjTypes, MainTypes, WorkTypes, WorkTcpStates
  <2>5. BindInv(c)'
    BY <1>i, <1>e, <1>q, <1>f, <1>r
  <2>6. UnservedInv(c)'
    BY <1>i, <1>e, <1>q, <1>f, <1>r
  <2>7. ClearInv(c)'
    BY <1>i, <1>e, <1>q, <1>f, <1>r
  <2>8. CommandInv(c)'
    BY <1>i, <1>e, <1>q, <1>f, <1>r, <1>0 DEF Types, ObjTypes, MainTypes, WorkTypes
  <2> QED BY <2>1, <2>2, <2>3, <2>4, <2>5, <2>6, <2>7, <2>8 DEF Inv
<1> QED BY <1>0, <1>1, <1>q, <1>3, <1>4, Joined

\* The worker has let go: the main loop goes on.
LEMMA CheckFreeChannelContinueKeeps ==
    ASSUME IInv, NEW c \in Channels, CheckFreeChannelContinue(c)
    PROVE  IInv'
<1> USE DEF objVars, mainVars, freeVars, sessVars, workVars, linkVars
<1>0. Types /\ (\A d \in Channels : Inv(d)) /\ Inv(c)
  BY DEF IInv
<1>i. /\ MemInv(c) /\ HandleInv(c) /\ BindInv(c) /\ UnservedInv(c) /\ ClearInv(c)
      /\ CommandInv(c) /\ RefInv(c) /\ OnceEach(c)
  BY <1>0 DEF Inv
<1>e. /\ freePc[c] = "waitChild" /\ childCleared[c]
      /\ freePc'[c] = "finally"
      /\ \/ /\ hWorkTCP[c] \in {"inited", "open"} /\ hWorkTCP'[c] = "freeClosing"
            /\ uvHandleRef'[c] = uvHandleRef[c]
         \/ /\ hWorkTCP[c] \notin {"inited", "open"} /\ hWorkTCP'[c] = hWorkTCP[c]
            /\ uvHandleRef'[c] = uvHandleRef[c] - 1
      /\ UNCHANGED <<mem[c], isDead[c], ref[c], handshakeOK[c], keepAlive[c], mainWrites[c],
                     bindNext[c], connectTimer[c], client[c], hChildWorkTCP[c], writes[c],
                     childNext[c], childCleared[c], task[c], daemonTask[c], lstMainThreadOP,
                     mapForward, work>>
  BY <1>0
     DEF CheckFreeChannelContinue, FreeChannelContinue, Types, ObjTypes, MainTypes,
         WorkTypes
<1>q. \A d \in Channels : Heard(d) /\ SameFetch(d)
  BY <1>0, KeptCtrl, KeptLink, KeptFetch
     DEF CheckFreeChannelContinue, FreeChannelContinue, Inv, Heard
<1>f. uvHandleRef[c] = 1
  BY <1>0, <1>i, <1>e DEF HandleInv, MemInv, Count, Types, ObjTypes
<1>1. Types'
  <2>1. ObjTypes'
    BY <1>0, <1>e, <1>f
       DEF CheckFreeChannelContinue, FreeChannelContinue, Types, ObjTypes, FreeStates
  <2>2. MainTypes'
    BY <1>0, <1>e, <1>f
       DEF CheckFreeChannelContinue, FreeChannelContinue, Types, MainTypes, WorkTcpStates
  <2>3. WorkTypes' /\ SetTypes' /\ QueueTypes'
    BY <1>0
       DEF CheckFreeChannelContinue, FreeChannelContinue, Types, WorkTypes, SetTypes,
           QueueTypes
  <2> QED BY <2>1, <2>2, <2>3 DEF Types
<1>3. ASSUME NEW d \in Channels \ {c} PROVE Untouched(d)
  BY <1>0
     DEF CheckFreeChannelContinue, FreeChannelContinue, Untouched, Types, ObjTypes,
         MainTypes, WorkTypes
<1>4. Inv(c)'
  <2>1. RefInv(c)'
    BY <1>i, <1>e, <1>q, <1>f, <1>0
       DEF RefInv, Count, Heard, SameFetch, Types, ObjTypes, MainTypes, WorkTypes
  <2>2. OnceEach(c)'
    BY <1>q DEF Heard
  <2> USE DEF MemInv, HandleInv, BindInv, UnservedInv, ClearInv, CommandInv, RefInv, Heard,
            SameFetch, Bound, Served, Count
  <2>3. MemInv(c)'
    BY <1>i, <1>e, <1>q, <1>f
  <2>4. HandleInv(c)'
    BY <1>i, <1>e, <1>q, <1>f, <1>0 DEF Types, ObjTypes, MainTypes, WorkTypes, WorkTcpStates
  <2>5. BindInv(c)'
    BY <1>i, <1>e, <1>q, <1>f
  <2>6. UnservedInv(c)'
    BY <1>i, <1>e, <1>q, <1>f
  <2>7. ClearInv(c)'
    BY <1>i, <1>e, <1>q, <1>f
  <2>8. CommandInv(c)'
    BY <1>i, <1>e, <1>q, <1>f, <1>0 DEF Types, ObjTypes, MainTypes, WorkTypes
  <2> QED BY <2>1, <2>2, <2>3, <2>4, <2>5, <2>6, <2>7, <2>8 DEF Inv
<1> QED BY <1>0, <1>1, <1>q, <1>3, <1>4, Joined

\* The socket of the main loop has been closed for the free.
LEMMA CloseChannelHandleKeeps ==
    ASSUME IInv, NEW c \in Channels, CloseChannelHandle(c)
    PROVE  IInv'
<1> USE DEF objVars, mainVars, freeVars, sessVars, workVars, linkVars
<1>0. Types /\ (\A d \in Channels : Inv(d)) /\ Inv(c)
  BY DEF IInv
<1>i. /\ MemInv(c) /\ HandleInv(c) /\ BindInv(c) /\ UnservedInv(c) /\ ClearInv(c)
      /\ CommandInv(c) /\ RefInv(c) /\ OnceEach(c)
  BY <1>0 DEF Inv
<1>e. /\ hWorkTCP[c] = "freeClosing" /\ hWorkTCP'[c] = "closed"
      /\ uvHandleRef'[c] = uvHandleRef[c] - 1
      /\ UNCHANGED <<mem[c], isDead[c], ref[c], handshakeOK[c], keepAlive[c], freePc[c],
                     mainWrites[c], bindNext[c], connectTimer[c], client[c],
                     hChildWorkTCP[c], writes[c], childNext[c], childCleared[c], task[c],
                     daemonTask[c], lstMainThreadOP, mapForward, work>>
  BY <1>0 DEF CloseChannelHandle, Types, ObjTypes, MainTypes, WorkTypes
<1>q. \A d \in Channels : Heard(d) /\ SameFetch(d)
  BY <1>0, KeptCtrl, KeptLink, KeptFetch DEF CloseChannelHandle, Inv, Heard
<1>f. uvHandleRef[c] = 1
  BY <1>0, <1>i, <1>e DEF HandleInv, MemInv, Count, Types, ObjTypes
<1>1. Types'
  <2>1. MainTypes'
    BY <1>0, <1>e, <1>f DEF CloseChannelHandle, Types, MainTypes, WorkTcpStates
  <2>2. ObjTypes' /\ WorkTypes' /\ SetTypes' /\ QueueTypes'
    BY <1>0 DEF CloseChannelHandle, Types, ObjTypes, WorkTypes, SetTypes, QueueTypes
  <2> QED BY <2>1, <2>2 DEF Types
<1>3. ASSUME NEW d \in Channels \ {c} PROVE Untouched(d)
  BY <1>0 DEF CloseChannelHandle, Untouched, Types, ObjTypes, MainTypes, WorkTypes
<1>4. Inv(c)'
  <2>1. RefInv(c)'
    BY <1>i, <1>e, <1>q, <1>f, <1>0
       DEF RefInv, Count, Heard, SameFetch, Types, ObjTypes, MainTypes, WorkTypes
  <2>2. UnservedInv(c)' /\ ClearInv(c)'
    BY <1>i, <1>e, <1>q DEF UnservedInv, ClearInv, Heard, SameFetch, Served
  <2>3. CommandInv(c)'
    BY <1>i, <1>e, <1>q DEF CommandInv, Heard, SameFetch
  <2>4. OnceEach(c)'
    BY <1>q DEF Heard
  <2> USE DEF MemInv, HandleInv, BindInv, UnservedInv, ClearInv, CommandInv, RefInv, Heard,
            SameFetch, Bound, Served, Count
  <2>5. MemInv(c)'
    BY <1>i, <1>e, <1>q, <1>f
  <2>6. HandleInv(c)'
    BY <1>i, <1>e, <1>q, <1>f, <1>0 DEF Types, ObjTypes, MainTypes, WorkTypes, WorkTcpStates
  <2>7. BindInv(c)'
    BY <1>i, <1>e, <1>q, <1>f
  <2> QED BY <2>1, <2>2, <2>3, <2>4, <2>5, <2>6, <2>7 DEF Inv
<1> QED BY <1>0, <1>1, <1>q, <1>3, <1>4, Joined

\* The object is deleted.
LEMMA FreeChannelFinallyKeeps ==
    ASSUME IInv, NEW c \in Channels, FreeChannelFinally(c)
    PROVE  IInv'
<1> USE DEF objVars, mainVars, freeVars, sessVars, workVars, linkVars
<1>0. Types /\ (\A d \in Channels : Inv(d)) /\ Inv(c)
  BY DEF IInv
<1>i. /\ MemInv(c) /\ HandleInv(c) /\ BindInv(c) /\ UnservedInv(c) /\ ClearInv(c)
      /\ CommandInv(c) /\ RefInv(c) /\ OnceEach(c)
  BY <1>0 DEF Inv
<1>e. /\ freePc[c] = "finally" /\ uvHandleRef[c] = 0
      /\ mem'[c] = "freed" /\ freePc'[c] = "done"
      /\ UNCHANGED <<isDead[c], ref[c], handshakeOK[c], keepAlive[c], hWorkTCP[c],
                     uvHandleRef[c], mainWrites[c], bindNext[c], connectTimer[c], client[c],
                     hChildWorkTCP[c], writes[c], childNext[c], childCleared[c], task[c],
                     daemonTask[c], lstMainThreadOP, mapForward, work>>
  BY <1>0 DEF FreeChannelFinally, Types, ObjTypes, MainTypes, WorkTypes
<1>q. \A d \in Channels : Heard(d) /\ SameFetch(d)
  BY <1>0, KeptCtrl, KeptLink, KeptFetch DEF FreeChannelFinally, Inv, Heard
<1>1. Types'
  <2>1. ObjTypes'
    BY <1>0, <1>e DEF FreeChannelFinally, Types, ObjTypes, FreeStates
  <2>2. MainTypes' /\ WorkTypes' /\ SetTypes' /\ QueueTypes'
    BY <1>0 DEF FreeChannelFinally, Types, MainTypes, WorkTypes, SetTypes, QueueTypes
  <2> QED BY <2>1, <2>2 DEF Types
<1>3. ASSUME NEW d \in Channels \ {c} PROVE Untouched(d)
  BY <1>0 DEF FreeChannelFinally, Untouched, Types, ObjTypes, MainTypes, WorkTypes
<1>4. Inv(c)'
  <2>1. BindInv(c)' /\ RefInv(c)'
    BY <1>i, <1>e, <1>q DEF BindInv, RefInv, Heard, SameFetch, Bound, Served, Count
  <2>2. OnceEach(c)'
    BY <1>q DEF Heard
  <2> USE DEF MemInv, HandleInv, BindInv, UnservedInv, ClearInv, CommandInv, RefInv, Heard,
            SameFetch, Bound, Served, Count
  <2>3. MemInv(c)'
    BY <1>i, <1>e, <1>q
  <2>4. HandleInv(c)'
    BY <1>i, <1>e, <1>q, <1>0 DEF Types, ObjTypes, MainTypes, WorkTypes, WorkTcpStates
  <2>5. UnservedInv(c)'
    BY <1>i, <1>e, <1>q
  <2>6. ClearInv(c)'
    BY <1>i, <1>e, <1>q
  <2>7. CommandInv(c)'
    BY <1>i, <1>e, <1>q, <1>0 DEF Types, ObjTypes, MainTypes, WorkTypes
  <2> QED BY <2>1, <2>2, <2>3, <2>4, <2>5, <2>6, <2>7 DEF Inv
<1> QED BY <1>0, <1>1, <1>q, <1>3, <1>4, Joined

\* The worker is told to let go of a channel without references.
LEMMA FreeChannelOpeateKeeps ==
    ASSUME IInv, NEW c \in Channels, FreeChannelOpeate(c)
    PROVE  IInv'
<1> USE DEF objVars, mainVars, freeVars, sessVars, workVars, linkVars
<1>0. Types /\ (\A d \in Channels : Inv(d)) /\ Inv(c)
  BY DEF IInv
<1>i. /\ MemInv(c) /\ HandleInv(c) /\ BindInv(c) /\ UnservedInv(c) /\ ClearInv(c)
      /\ CommandInv(c) /\ RefInv(c) /\ OnceEach(c)
  BY <1>0 DEF Inv
<1>e. /\ freePc[c] = "operate" /\ freePc'[c] = "waitChild" /\ ref[c] = 0 /\ Served(c)
      /\ UNCHANGED <<mem[c], isDead[c], ref[c], handshakeOK[c], keepAlive[c], hWorkTCP[c],
                     uvHandleRef[c], mainWrites[c], bindNext[c], connectTimer[c], client[c],
                     hChildWorkTCP[c], writes[c], childNext[c], childCleared[c], task[c],
                     daemonTask[c], lstMainThreadOP, mapForward, work>>
  BY <1>0 DEF FreeChannelOpeate, Unreferenced, Served, Types, ObjTypes, MainTypes, WorkTypes
<1>c. /\ ctrl' \in {ctrl, Append(ctrl, Detach(c))} /\ Detach(c) \in CtrlStructs
      /\ ctrl \in Seq(CtrlStructs) /\ ~Detaching(c)
  BY <1>0, <1>i, <1>e, CtrlApart DEF FreeChannelOpeate, Detach, Types, QueueTypes, ClearInv
<1>d. /\ ctrl' \in Seq(CtrlStructs)
      /\ \A d \in Channels : /\ Detaching(d)' => Detaching(d) \/ d = c
                             /\ Attaching(d)' => Attaching(d)
                             /\ OnceEach(d)' /\ (Talk(d)' <=> Talk(d)) /\ SameFetch(d)
  BY <1>0, <1>c, CtrlSent, CtrlApart, KeptLink, KeptFetch DEF FreeChannelOpeate, Inv
<1>2. \A d \in Channels \ {c} : Heard(d) /\ SameFetch(d)
  BY <1>d DEF Heard
<1>q. /\ (Attaching(c)' => Attaching(c)) /\ (Talk(c)' => Talk(c)) /\ OnceEach(c)'
      /\ SameFetch(c)
  BY <1>d
<1>r. /\ mainWrites[c] = 0 /\ writes[c] = 0 /\ hWorkTCP[c] # "bindClosing"
      /\ ~Fetched(c) /\ ~Checked(c)
  BY <1>0, <1>i, <1>e, NoReference
<1>1. Types'
  <2>1. ObjTypes'
    BY <1>0, <1>e, <1>d DEF FreeChannelOpeate, Unreferenced, Types, ObjTypes, FreeStates
  <2>2. QueueTypes'
    BY <1>0, <1>d DEF FreeChannelOpeate, Unreferenced, Types, QueueTypes
  <2>3. MainTypes' /\ WorkTypes' /\ SetTypes'
    BY <1>0 DEF FreeChannelOpeate, Unreferenced, Types, MainTypes, WorkTypes, SetTypes
  <2> QED BY <2>1, <2>2, <2>3 DEF Types
<1>3. ASSUME NEW d \in Channels \ {c} PROVE Untouched(d)
  BY <1>0
     DEF FreeChannelOpeate, Unreferenced, Untouched, Types, ObjTypes, MainTypes, WorkTypes
<1>4. Inv(c)'
  <2>1. RefInv(c)'
    BY <1>i, <1>e, <1>q DEF RefInv, Heard, SameFetch, Count
  <2>2. OnceEach(c)'
    BY <1>q DEF Heard
  <2> USE DEF MemInv, HandleInv, BindInv, UnservedInv, ClearInv, CommandInv, RefInv, Heard,
            SameFetch, Bound, Served, Count
  <2>3. MemInv(c)'
    BY <1>i, <1>e, <1>q, <1>r
  <2>4. HandleInv(c)'
    BY <1>i, <1>e, <1>q, <1>r, <1>0 DEF Types, ObjTypes, MainTypes, WorkTypes, WorkTcpStates
  <2>5. BindInv(c)'
    BY <1>i, <1>e, <1>q, <1>r
  <2>6. UnservedInv(c)'
    BY <1>i, <1>e, <1>q, <1>r
  <2>7. ClearInv(c)'
    BY <1>i, <1>e, <1>q, <1>r
  <2>8. CommandInv(c)'
    BY <1>i, <1>e, <1>q, <1>r, <1>0 DEF Types, ObjTypes, MainTypes, WorkTypes
  <2> QED BY <2>1, <2>2, <2>3, <2>4, <2>5, <2>6, <2>7, <2>8 DEF Inv
<1> QED BY <1>0, <1>1, <1>2, <1>3, <1>4, Joined

-----------------------------------------------------------------------------
(* Steps that touch no channel, or all of them.                            *)

\* A step that leaves every channel alone keeps the invariant.
LEMMA JoinedNone ==
    ASSUME \A d \in Channels : Inv(d) /\ Heard(d) /\ SameFetch(d) /\ Untouched(d), Types'
    PROVE  IInv'
BY Frame DEF IInv

\* The session is marked dead.
LEMMA FreeSessionKeeps ==
    ASSUME IInv, FreeSession
    PROVE  IInv'
<1> USE DEF objVars, mainVars, freeVars, workVars, linkVars
<1>0. Types /\ \A d \in Channels : Inv(d)
  BY DEF IInv
<1>1. \A d \in Channels : Heard(d) /\ SameFetch(d)
  BY <1>0, KeptCtrl, KeptLink, KeptFetch DEF FreeSession, Inv, Heard
<1>2. \A d \in Channels : Untouched(d)
  BY DEF FreeSession, Untouched
<1>3. Types'
  BY <1>0 DEF FreeSession, Types, ObjTypes, MainTypes, WorkTypes, SetTypes, QueueTypes
<1> QED BY <1>0, <1>1, <1>2, <1>3, JoinedNone

\* The worker is told to stop.
LEMMA FreeSessionOpeateKeeps ==
    ASSUME IInv, FreeSessionOpeate
    PROVE  IInv'
<1> USE DEF objVars, mainVars, freeVars, workVars, linkVars
<1>0. Types /\ \A d \in Channels : Inv(d)
  BY DEF IInv
<1>1. /\ ctrl \in Seq(CtrlStructs) /\ <<"SP_STOP_SESSION">> \in CtrlStructs
      /\ ctrl' \in {ctrl, Append(ctrl, <<"SP_STOP_SESSION">>)}
  BY <1>0 DEF FreeSessionOpeate, CtrlStructs, Types, QueueTypes
<1>2. /\ ctrl' \in Seq(CtrlStructs)
      /\ \A d \in Channels : Heard(d) /\ SameFetch(d)
  BY <1>0, <1>1, CtrlSent, CtrlApart, KeptLink, KeptFetch DEF FreeSessionOpeate, Inv, Heard
<1>3. \A d \in Channels : Untouched(d)
  BY DEF FreeSessionOpeate, Untouched
<1>4. Types'
  BY <1>0, <1>2
     DEF FreeSessionOpeate, Types, ObjTypes, MainTypes, WorkTypes, SetTypes, QueueTypes
<1> QED BY <1>0, <1>2, <1>3, <1>4, JoinedNone

\* The worker stops: what was under way is gone, with the tasks of the daemon.
LEMMA StopSessionKeeps ==
    ASSUME IInv, StopSession
    PROVE  IInv'
<1> USE DEF objVars, mainVars, freeVars, workVars, linkVars
<1>0. Types /\ \A d \in Channels : Inv(d)
  BY DEF IInv
<1>1. \A d \in Channels : Heard(d) /\ SameFetch(d)
  BY KeptFetch, Emptied
     DEF StopSession, Heard, Attaching, Detaching, OnceEach, Talk
<1>2. \A d \in Channels : task'[d] = IF task[d] = "run" THEN "stop" ELSE task[d]
  BY <1>0 DEF StopSession, Stopped, Types, WorkTypes
<1>3. \A d \in Channels : Untouched(d)
  BY <1>2 DEF StopSession, Untouched, WorkerReady, All
<1>4. task' \in [Channels -> TaskStates] /\ daemonTask' \in [Channels -> TaskStates]
  BY <1>0, <1>2 DEF StopSession, Types, WorkTypes, TaskStates, All
<1>5. <<>> \in Seq(CtrlStructs) /\ <<>> \in Seq(Commands)
  OBVIOUS
<1>6. QueueTypes'
  BY <1>0, <1>5 DEF StopSession, Types, QueueTypes
<1>7. Types'
  BY <1>0, <1>4, <1>6 DEF StopSession, Types, ObjTypes, MainTypes, WorkTypes, SetTypes
<1> QED BY <1>0, <1>1, <1>3, <1>7, JoinedNone

\* The thread of the worker ends, and closes what is still open.
LEMMA ReChildLoopForSessionClearKeeps ==
    ASSUME IInv, ReChildLoopForSessionClear
    PROVE  IInv'
<1> USE DEF objVars, mainVars, freeVars, workVars, linkVars
<1>0. Types /\ \A d \in Channels : Inv(d)
  BY DEF IInv
<1>1. Types'
  <2>1. hChildWorkTCP' \in [Channels -> ChildTcpStates]
    BY <1>0 DEF ReChildLoopForSessionClear, Types, WorkTypes, ChildTcpStates
  <2> QED BY <1>0, <2>1
          DEF ReChildLoopForSessionClear, Cleared, Types, ObjTypes, MainTypes, WorkTypes,
              SetTypes, QueueTypes
<1>2. ASSUME NEW c \in Channels PROVE Inv(c)'
  <2>1. Inv(c) /\ Heard(c) /\ SameFetch(c)
    BY <1>0, KeptCtrl, KeptLink, KeptFetch DEF ReChildLoopForSessionClear, Inv, Heard
  <2>2. /\ hChildWorkTCP'[c] = IF hChildWorkTCP[c] = "open" THEN "closed" ELSE hChildWorkTCP[c]
        /\ work' = "gone" /\ ~childNext[c] /\ hChildWorkTCP[c] # "clearClosing"
    BY <1>0 DEF ReChildLoopForSessionClear, Cleared, Types, WorkTypes
  <2>3. UNCHANGED <<mem, isDead, ref, handshakeOK, keepAlive, hWorkTCP, uvHandleRef, mainWrites,
                    bindNext, connectTimer, freePc, lstMainThreadOP, mapForward, fetch, writes,
                    childNext, childCleared, task, daemonTask, client>>
    BY DEF ReChildLoopForSessionClear
  <2>4. MemInv(c)' /\ HandleInv(c)' /\ BindInv(c)'
    BY <2>1, <2>2, <2>3
       DEF Inv, Heard, MemInv, HandleInv, BindInv, Bound, Served, Count
  <2>5. UnservedInv(c)' /\ ClearInv(c)'
    BY <2>1, <2>2, <2>3 DEF Inv, Heard, SameFetch, UnservedInv, ClearInv, Served
  <2>6. CommandInv(c)' /\ RefInv(c)' /\ OnceEach(c)'
    BY <2>1, <2>3 DEF Inv, Heard, SameFetch, CommandInv, RefInv, Count
  <2> QED BY <2>4, <2>5, <2>6 DEF Inv
<1> QED BY <1>1, <1>2 DEF IInv

-----------------------------------------------------------------------------
(* Worker: attaching, detaching and the client's socket.                   *)

\* The worker attaches a channel: it exists, since it cannot have been freed.
LEMMA AttachChannelKeeps ==
    ASSUME IInv, NEW c \in Channels, AttachChannel(c)
    PROVE  IInv'
<1> USE DEF objVars, mainVars, freeVars, sessVars, workVars, linkVars
<1>0. Types /\ (\A d \in Channels : Inv(d)) /\ Inv(c)
  BY DEF IInv
<1>i. /\ MemInv(c) /\ HandleInv(c) /\ BindInv(c) /\ UnservedInv(c) /\ ClearInv(c)
      /\ CommandInv(c) /\ RefInv(c) /\ OnceEach(c)
  BY <1>0 DEF Inv
<1>c. ctrl \in Seq(CtrlStructs) /\ ctrl # <<>> /\ ctrl' = Tail(ctrl) /\ Head(ctrl) = Attach(c)
  BY <1>0 DEF AttachChannel, CtrlIs, Attach, Types, QueueTypes
<1>d. /\ ctrl' \in Seq(CtrlStructs) /\ Attaching(c) /\ ~Attaching(c)'
      /\ \A d \in Channels : /\ Attaching(d)' => Attaching(d)
                             /\ Detaching(d)' => Detaching(d)
                             /\ OnceEach(d)'
  BY <1>0, <1>c, CtrlTaken DEF Inv
<1>m. mem[c] = "alloc" /\ Attaching(c)
  BY <1>0, <1>i, <1>d DEF MemInv, BindInv, Bound, Types, ObjTypes
<1>e. /\ hChildWorkTCP'[c] \in {"open", "closing"}
      /\ UNCHANGED <<mem[c], isDead[c], ref[c], handshakeOK[c], keepAlive[c], freePc[c],
                     hWorkTCP[c], uvHandleRef[c], mainWrites[c], bindNext[c],
                     connectTimer[c], client[c], writes[c], childNext[c], childCleared[c],
                     task[c], daemonTask[c], lstMainThreadOP, mapForward, work>>
  BY <1>0, <1>m DEF AttachChannel, Types, ObjTypes, MainTypes, WorkTypes
<1>2. \A d \in Channels : Heard(d) /\ SameFetch(d)
  BY <1>d, KeptLink, KeptFetch DEF AttachChannel, Heard
<1>q. Heard(c) /\ SameFetch(c) /\ ~Attaching(c)'
  BY <1>2, <1>d
<1>1. Types'
  <2>1. WorkTypes'
    BY <1>0, <1>e, <1>m, <1>d
       DEF AttachChannel, Types, WorkTypes, ChildTcpStates, TaskStates
  <2>2. QueueTypes'
    BY <1>0, <1>d DEF AttachChannel, Types, QueueTypes
  <2>3. ObjTypes' /\ MainTypes' /\ SetTypes'
    BY <1>0 DEF AttachChannel, Types, ObjTypes, MainTypes, SetTypes
  <2> QED BY <2>1, <2>2, <2>3 DEF Types
<1>3. ASSUME NEW d \in Channels \ {c} PROVE Untouched(d)
  BY <1>0, <1>m DEF AttachChannel, Untouched, Types, ObjTypes, MainTypes, WorkTypes
<1>4. Inv(c)'
  <2>1. HandleInv(c)' /\ CommandInv(c)'
    BY <1>i, <1>e, <1>q DEF HandleInv, CommandInv, Heard, SameFetch, Count
  <2>2. RefInv(c)'
    BY <1>i, <1>e, <1>q DEF RefInv, Heard, SameFetch, Count
  <2>3. OnceEach(c)'
    BY <1>q DEF Heard
  <2> USE DEF MemInv, HandleInv, BindInv, UnservedInv, ClearInv, CommandInv, RefInv, Heard,
            SameFetch, Bound, Served, Count
  <2>4. MemInv(c)'
    BY <1>i, <1>e, <1>q, <1>m
  <2>5. BindInv(c)'
    BY <1>i, <1>e, <1>q, <1>m
  <2>6. UnservedInv(c)'
    BY <1>i, <1>e, <1>q, <1>m
  <2>7. ClearInv(c)'
    BY <1>i, <1>e, <1>q, <1>m
  <2> QED BY <2>1, <2>2, <2>3, <2>4, <2>5, <2>6, <2>7 DEF Inv
<1> QED BY <1>0, <1>1, <1>2, <1>3, <1>4, Joined

\* The worker lets go of a channel: at once, or when its socket is closed.
LEMMA DeatchChannelKeeps ==
    ASSUME IInv, NEW c \in Channels, DeatchChannel(c)
    PROVE  IInv'
<1> USE DEF objVars, mainVars, freeVars, sessVars, workVars, linkVars
<1>0. Types /\ (\A d \in Channels : Inv(d)) /\ Inv(c)
  BY DEF IInv
<1>i. /\ MemInv(c) /\ HandleInv(c) /\ BindInv(c) /\ UnservedInv(c) /\ ClearInv(c)
      /\ CommandInv(c) /\ RefInv(c) /\ OnceEach(c)
  BY <1>0 DEF Inv
<1>c. ctrl \in Seq(CtrlStructs) /\ ctrl # <<>> /\ ctrl' = Tail(ctrl) /\ Head(ctrl) = Detach(c)
  BY <1>0 DEF DeatchChannel, Deatch, CtrlIs, Detach, Types, QueueTypes
<1>d. /\ ctrl' \in Seq(CtrlStructs) /\ Detaching(c) /\ ~Detaching(c)'
      /\ \A d \in Channels : /\ Attaching(d)' => Attaching(d)
                             /\ Detaching(d)' => Detaching(d)
                             /\ OnceEach(d)'
  BY <1>0, <1>c, CtrlTaken DEF Inv
<1>m. /\ mem[c] = "alloc" /\ ~childCleared[c] /\ Detaching(c) /\ freePc[c] = "waitChild"
      /\ hChildWorkTCP[c] \in {"open", "closing", "closed"}
  BY <1>0, <1>i, <1>d
     DEF MemInv, ClearInv, UnservedInv, Served, Types, ObjTypes, WorkTypes, ChildTcpStates
<1>e. /\ task'[c] # "run" /\ (task[c] = "none" => task'[c] = "none")
      /\ \/ /\ hChildWorkTCP[c] = "open" /\ hChildWorkTCP'[c] = "clearClosing"
            /\ childNext'[c] = childNext[c]
         \/ /\ hChildWorkTCP[c] # "open" /\ hChildWorkTCP'[c] = hChildWorkTCP[c]
            /\ childNext'[c]
      /\ UNCHANGED <<mem[c], isDead[c], ref[c], handshakeOK[c], keepAlive[c], freePc[c],
                     hWorkTCP[c], uvHandleRef[c], mainWrites[c], bindNext[c],
                     connectTimer[c], client[c], writes[c], childCleared[c], daemonTask[c],
                     lstMainThreadOP, mapForward, work>>
  BY <1>0, <1>m DEF DeatchChannel, Deatch, Stopped, Types, ObjTypes, MainTypes, WorkTypes
<1>s. /\ toDaemon' \in Seq(Commands)
      /\ \A d \in Channels : Talk(d)' => Talk(d) \/ d = c
  BY <1>0, <1>m, Sent, CommandKinds DEF DeatchChannel, Deatch, Types, QueueTypes
<1>2. \A d \in Channels \ {c} : Heard(d) /\ SameFetch(d)
  BY <1>d, <1>s, KeptFetch DEF DeatchChannel, Deatch, Heard
<1>q. /\ (Attaching(c)' => Attaching(c)) /\ ~Detaching(c)' /\ OnceEach(c)'
      /\ SameFetch(c)
  BY <1>d, KeptFetch DEF DeatchChannel, Deatch
<1>1. Types'
  <2>1. WorkTypes'
    <3>1. childNext' \in [Channels -> BOOLEAN]
      BY <1>0, <1>m DEF DeatchChannel, Deatch, Types, WorkTypes
    <3>2. task' \in [Channels -> TaskStates]
      BY <1>0, <1>m DEF DeatchChannel, Deatch, Stopped, Types, WorkTypes, TaskStates
    <3>3. hChildWorkTCP' \in [Channels -> ChildTcpStates]
      BY <1>0, <1>m DEF DeatchChannel, Deatch, Types, WorkTypes, ChildTcpStates
    <3> QED BY <1>0, <3>1, <3>2, <3>3 DEF DeatchChannel, Deatch, Types, WorkTypes
  <2>2. QueueTypes'
    BY <1>0, <1>d, <1>s DEF DeatchChannel, Deatch, Stopped, Types, QueueTypes
  <2>3. ObjTypes' /\ MainTypes' /\ SetTypes'
    BY <1>0 DEF DeatchChannel, Deatch, Stopped, Types, ObjTypes, MainTypes, SetTypes
  <2> QED BY <2>1, <2>2, <2>3 DEF Types
<1>3. ASSUME NEW d \in Channels \ {c} PROVE Untouched(d)
  BY <1>0, <1>m
     DEF DeatchChannel, Deatch, Stopped, Untouched, Types, ObjTypes, MainTypes, WorkTypes
<1>4. Inv(c)'
  <2>1. HandleInv(c)' /\ CommandInv(c)'
    BY <1>i, <1>e, <1>q DEF HandleInv, CommandInv, Heard, SameFetch, Count
  <2>2. RefInv(c)'
    BY <1>i, <1>e, <1>q DEF RefInv, Heard, SameFetch, Count
  <2>3. OnceEach(c)'
    BY <1>q DEF Heard
  <2> USE DEF MemInv, HandleInv, BindInv, UnservedInv, ClearInv, CommandInv, RefInv, Heard,
            SameFetch, Bound, Served, Count
  <2>4. MemInv(c)'
    BY <1>i, <1>e, <1>q, <1>m
  <2>5. BindInv(c)'
    BY <1>i, <1>e, <1>q, <1>m
  <2>6. UnservedInv(c)'
    BY <1>i, <1>e, <1>q, <1>m
  <2>7. ClearInv(c)'
    BY <1>i, <1>e, <1>q, <1>m
  <2> QED BY <2>1, <2>2, <2>3, <2>4, <2>5, <2>6, <2>7 DEF Inv
<1> QED BY <1>0, <1>1, <1>2, <1>3, <1>4, Joined

\* The worker's socket has been closed.
LEMMA ChildTcpClosedKeeps ==
    ASSUME IInv, NEW c \in Channels, ChildTcpClosed(c)
    PROVE  IInv'
<1> USE DEF objVars, mainVars, freeVars, sessVars, workVars, linkVars
<1>0. Types /\ (\A d \in Channels : Inv(d)) /\ Inv(c)
  BY DEF IInv
<1>i. /\ MemInv(c) /\ HandleInv(c) /\ BindInv(c) /\ UnservedInv(c) /\ ClearInv(c)
      /\ CommandInv(c) /\ RefInv(c) /\ OnceEach(c)
  BY <1>0 DEF Inv
<1>e. /\ writes[c] = 0 /\ hChildWorkTCP[c] \in {"closing", "clearClosing"}
      /\ hChildWorkTCP'[c] = "closed"
      /\ childCleared'[c] = (childCleared[c] \/ hChildWorkTCP[c] = "clearClosing")
      /\ UNCHANGED <<mem[c], isDead[c], ref[c], handshakeOK[c], keepAlive[c], freePc[c],
                     hWorkTCP[c], uvHandleRef[c], mainWrites[c], bindNext[c],
                     connectTimer[c], client[c], writes[c], childNext[c], task[c],
                     daemonTask[c], lstMainThreadOP, mapForward, work>>
  BY <1>0 DEF ChildTcpClosed, Types, ObjTypes, MainTypes, WorkTypes
<1>q. \A d \in Channels : Heard(d) /\ SameFetch(d)
  BY <1>0, KeptCtrl, KeptLink, KeptFetch DEF ChildTcpClosed, Inv, Heard
<1>1. Types'
  <2>1. WorkTypes'
    BY <1>0, <1>e DEF ChildTcpClosed, Types, WorkTypes, ChildTcpStates, TaskStates
  <2>2. ObjTypes' /\ MainTypes' /\ SetTypes' /\ QueueTypes'
    BY <1>0 DEF ChildTcpClosed, Types, ObjTypes, MainTypes, SetTypes, QueueTypes
  <2> QED BY <2>1, <2>2 DEF Types
<1>3. ASSUME NEW d \in Channels \ {c} PROVE Untouched(d)
  BY <1>0 DEF ChildTcpClosed, Untouched, Types, ObjTypes, MainTypes, WorkTypes
<1>4. Inv(c)'
  <2>1. HandleInv(c)' /\ CommandInv(c)'
    BY <1>i, <1>e, <1>q DEF HandleInv, CommandInv, Heard, SameFetch, Count
  <2>2. RefInv(c)'
    BY <1>i, <1>e, <1>q DEF RefInv, Heard, SameFetch, Count
  <2>3. OnceEach(c)'
    BY <1>q DEF Heard
  <2> USE DEF MemInv, HandleInv, BindInv, UnservedInv, ClearInv, CommandInv, RefInv, Heard,
            SameFetch, Bound, Served, Count
  <2>4. MemInv(c)'
    BY <1>i, <1>e, <1>q
  <2>5. BindInv(c)'
    BY <1>i, <1>e, <1>q
  <2>6. UnservedInv(c)'
    BY <1>i, <1>e, <1>q
  <2>7. ClearInv(c)'
    BY <1>i, <1>e, <1>q
  <2> QED BY <2>1, <2>2, <2>3, <2>4, <2>5, <2>6, <2>7 DEF Inv
<1> QED BY <1>0, <1>1, <1>q, <1>3, <1>4, Joined

\* The worker has let go of a channel the socket of which was closed before.
LEMMA ChildNextLoopKeeps ==
    ASSUME IInv, NEW c \in Channels, ChildNextLoop(c)
    PROVE  IInv'
<1> USE DEF objVars, mainVars, freeVars, sessVars, workVars, linkVars
<1>0. Types /\ (\A d \in Channels : Inv(d)) /\ Inv(c)
  BY DEF IInv
<1>i. /\ MemInv(c) /\ HandleInv(c) /\ BindInv(c) /\ UnservedInv(c) /\ ClearInv(c)
      /\ CommandInv(c) /\ RefInv(c) /\ OnceEach(c)
  BY <1>0 DEF Inv
<1>e. /\ work # "gone" /\ childNext[c] /\ hChildWorkTCP[c] = "closed"
      /\ ~childNext'[c] /\ childCleared'[c]
      /\ UNCHANGED <<mem[c], isDead[c], ref[c], handshakeOK[c], keepAlive[c], freePc[c],
                     hWorkTCP[c], uvHandleRef[c], mainWrites[c], bindNext[c],
                     connectTimer[c], client[c], hChildWorkTCP[c], writes[c], task[c],
                     daemonTask[c], lstMainThreadOP, mapForward, work>>
  BY <1>0 DEF ChildNextLoop, WorkerReady, Types, ObjTypes, MainTypes, WorkTypes
<1>q. \A d \in Channels : Heard(d) /\ SameFetch(d)
  BY <1>0, KeptCtrl, KeptLink, KeptFetch DEF ChildNextLoop, WorkerReady, Inv, Heard
<1>1. Types'
  <2>1. WorkTypes'
    BY <1>0, <1>e
       DEF ChildNextLoop, WorkerReady, Types, WorkTypes, ChildTcpStates, TaskStates
  <2>2. ObjTypes' /\ MainTypes' /\ SetTypes' /\ QueueTypes'
    BY <1>0 DEF ChildNextLoop, WorkerReady, Types, ObjTypes, MainTypes, SetTypes, QueueTypes
  <2> QED BY <2>1, <2>2 DEF Types
<1>3. ASSUME NEW d \in Channels \ {c} PROVE Untouched(d)
  BY <1>0 DEF ChildNextLoop, WorkerReady, Untouched, Types, ObjTypes, MainTypes, WorkTypes
<1>4. Inv(c)'
  <2>1. MemInv(c)' /\ HandleInv(c)'
    BY <1>i, <1>e, <1>q DEF MemInv, HandleInv, Heard, Bound, Served, Count
  <2>2. BindInv(c)' /\ CommandInv(c)'
    BY <1>i, <1>e, <1>q DEF BindInv, CommandInv, Heard, SameFetch, Bound, Served
  <2>3. RefInv(c)'
    BY <1>i, <1>e, <1>q DEF RefInv, Heard, SameFetch, Count
  <2>4. OnceEach(c)'
    BY <1>q DEF Heard
  <2> USE DEF MemInv, HandleInv, BindInv, UnservedInv, ClearInv, CommandInv, RefInv, Heard,
            SameFetch, Bound, Served, Count
  <2>5. UnservedInv(c)'
    BY <1>i, <1>e, <1>q
  <2>6. ClearInv(c)'
    BY <1>i, <1>e, <1>q
  <2> QED BY <2>1, <2>2, <2>3, <2>4, <2>5, <2>6 DEF Inv
<1> QED BY <1>0, <1>1, <1>q, <1>3, <1>4, Joined

\* EchoChild writes, with a reference, if there is a socket to write on.
LEMMA EchoChildEffect ==
    ASSUME ObjTypes, WorkTypes, NEW c \in Channels, EchoChild(c)
    PROVE  /\ ref' \in [Channels -> Nat] /\ writes' \in [Channels -> 0 .. MaxWrites]
           /\ \A d \in Channels \ {c} : ref'[d] = ref[d] /\ writes'[d] = writes[d]
           /\ \/ /\ hChildWorkTCP[c] = "open"
                 /\ ref'[c] = ref[c] + 1 /\ writes'[c] = writes[c] + 1
              \/ /\ hChildWorkTCP[c] # "open"
                 /\ ref'[c] = ref[c] /\ writes'[c] = writes[c]
<1>1. MaxWrites \in Nat
  BY ConstantsAssumption DEF ConstantsAssumption
<1>2. CASE hChildWorkTCP[c] = "open"
  BY <1>1, <1>2 DEF ObjTypes, WorkTypes, EchoChild, ChildWritable
<1>3. CASE hChildWorkTCP[c] # "open"
  BY <1>3 DEF ObjTypes, WorkTypes, EchoChild, ChildWritable
<1> QED BY <1>2, <1>3

\* A command goes to the daemon, or the client is told that there is none.
LEMMA CommandToDaemonKeeps ==
    ASSUME IInv, NEW c \in Channels, CommandToDaemon(c)
    PROVE  IInv'
<1> USE DEF objVars, mainVars, freeVars, sessVars, workVars, linkVars
<1>0. Types /\ (\A d \in Channels : Inv(d)) /\ Inv(c)
  BY DEF IInv
<1>i. /\ MemInv(c) /\ HandleInv(c) /\ BindInv(c) /\ UnservedInv(c) /\ ClearInv(c)
      /\ CommandInv(c) /\ RefInv(c) /\ OnceEach(c)
  BY <1>0 DEF Inv
<1>e. /\ hChildWorkTCP[c] = "open" /\ ~Fetched(c) /\ client[c] = "here" /\ client'[c] = "asked"
      /\ \/ ref'[c] = ref[c] /\ writes'[c] = writes[c]
         \/ ref'[c] = ref[c] + 1 /\ writes'[c] = writes[c] + 1
      /\ lstMainThreadOP' \subseteq lstMainThreadOP \cup {c}
      /\ UNCHANGED <<mem[c], isDead[c], handshakeOK[c], keepAlive[c], freePc[c],
                     hWorkTCP[c], uvHandleRef[c], mainWrites[c], bindNext[c],
                     connectTimer[c], hChildWorkTCP[c], childNext[c], childCleared[c],
                     task[c], daemonTask[c], mapForward, work>>
  BY <1>0, EchoChildEffect
     DEF CommandToDaemon, PushFree, Fetched, ChildReadable, WorkerReady, Types, ObjTypes,
         MainTypes, WorkTypes
<1>s. /\ toDaemon' \in Seq(Commands)
      /\ \A d \in Channels : Talk(d)' => Talk(d) \/ d = c
  BY <1>0, Sent, CommandKinds, KeptLink DEF CommandToDaemon, Types, QueueTypes
<1>2. \A d \in Channels \ {c} : Heard(d) /\ SameFetch(d)
  BY <1>0, <1>s, KeptCtrl, KeptFetch DEF CommandToDaemon, Inv, Heard
<1>q. /\ (Attaching(c)' => Attaching(c)) /\ (Detaching(c)' => Detaching(c)) /\ OnceEach(c)'
      /\ SameFetch(c)
  BY <1>0, KeptCtrl, KeptFetch DEF CommandToDaemon, Inv
<1>1. Types'
  <2>1. ObjTypes'
    BY <1>0, <1>e, EchoChildEffect, <1>s, <1>i
       DEF CommandToDaemon, PushFree, Fetched, ChildReadable, WorkerReady, Types, ObjTypes,
           FreeStates, RefInv, Count, MainTypes, WorkTypes
  <2>2. MainTypes'
    BY <1>0, <1>e, EchoChildEffect, <1>s
       DEF CommandToDaemon, PushFree, Fetched, ChildReadable, WorkerReady, Types, MainTypes,
           WorkTcpStates
  <2>3. WorkTypes'
    BY <1>0, <1>e, EchoChildEffect, <1>s
       DEF CommandToDaemon, PushFree, Fetched, ChildReadable, WorkerReady, Types, WorkTypes,
           ChildTcpStates, TaskStates
  <2>4. SetTypes'
    BY <1>0, EchoChildEffect, <1>s
       DEF CommandToDaemon, PushFree, Fetched, ChildReadable, WorkerReady, Types, SetTypes
  <2>5. QueueTypes'
    BY <1>0, <1>s
       DEF CommandToDaemon, PushFree, Fetched, ChildReadable, WorkerReady, Types, QueueTypes
  <2> QED BY <2>1, <2>2, <2>3, <2>4, <2>5 DEF Types
<1>3. ASSUME NEW d \in Channels \ {c} PROVE Untouched(d)
  BY <1>0, EchoChildEffect
     DEF CommandToDaemon, PushFree, Fetched, ChildReadable, WorkerReady, Untouched, Types,
         ObjTypes, MainTypes, WorkTypes
<1>4. Inv(c)'
  <2>1. RefInv(c)'
    BY <1>i, <1>e, <1>q, <1>0
       DEF RefInv, Count, Heard, SameFetch, Types, ObjTypes, MainTypes, WorkTypes
  <2>2. HandleInv(c)'
    BY <1>i, <1>e, <1>q DEF HandleInv, Heard, Count
  <2>3. OnceEach(c)'
    BY <1>q DEF Heard
  <2> USE DEF MemInv, HandleInv, BindInv, UnservedInv, ClearInv, CommandInv, RefInv, Heard,
            SameFetch, Bound, Served, Count
  <2>4. MemInv(c)'
    BY <1>i, <1>e, <1>q
  <2>5. BindInv(c)'
    BY <1>i, <1>e, <1>q
  <2>6. UnservedInv(c)'
    BY <1>i, <1>e, <1>q
  <2>7. ClearInv(c)'
    BY <1>i, <1>e, <1>q
  <2>8. CommandInv(c)'
    BY <1>i, <1>e, <1>q, <1>0 DEF Types, ObjTypes, MainTypes, WorkTypes
  <2> QED BY <2>1, <2>2, <2>3, <2>4, <2>5, <2>6, <2>7, <2>8 DEF Inv
<1> QED BY <1>0, <1>1, <1>2, <1>3, <1>4, Joined

\* A task is made for a command, here or at the daemon.
LEMMA TaskCommandKeeps ==
    ASSUME IInv, NEW c \in Channels, TaskCommand(c)
    PROVE  IInv'
<1> USE DEF objVars, mainVars, freeVars, sessVars, workVars, linkVars
<1>0. Types /\ (\A d \in Channels : Inv(d)) /\ Inv(c)
  BY DEF IInv
<1>i. /\ MemInv(c) /\ HandleInv(c) /\ BindInv(c) /\ UnservedInv(c) /\ ClearInv(c)
      /\ CommandInv(c) /\ RefInv(c) /\ OnceEach(c)
  BY <1>0 DEF Inv
<1>e. /\ hChildWorkTCP[c] = "open" /\ client[c] = "here" /\ client'[c] = "asked"
      /\ UNCHANGED <<mem[c], isDead[c], ref[c], handshakeOK[c], keepAlive[c], freePc[c],
                     hWorkTCP[c], uvHandleRef[c], mainWrites[c], bindNext[c],
                     connectTimer[c], hChildWorkTCP[c], writes[c], childNext[c],
                     childCleared[c], daemonTask[c], lstMainThreadOP, mapForward, work>>
  BY <1>0 DEF TaskCommand, ChildReadable, WorkerReady, Types, ObjTypes, MainTypes, WorkTypes
<1>s. /\ toDaemon' \in Seq(Commands)
      /\ \A d \in Channels : Talk(d)' => Talk(d) \/ d = c
  BY <1>0, Sent, CommandKinds, KeptLink DEF TaskCommand, Types, QueueTypes
<1>2. \A d \in Channels \ {c} : Heard(d) /\ SameFetch(d)
  BY <1>0, <1>s, KeptCtrl, KeptFetch DEF TaskCommand, Inv, Heard
<1>q. /\ (Attaching(c)' => Attaching(c)) /\ (Detaching(c)' => Detaching(c)) /\ OnceEach(c)'
      /\ SameFetch(c)
  BY <1>0, KeptCtrl, KeptFetch DEF TaskCommand, Inv
<1>1. Types'
  <2>1. MainTypes'
    BY <1>0, <1>e, <1>s
       DEF TaskCommand, ChildReadable, WorkerReady, Types, MainTypes, WorkTcpStates
  <2>2. WorkTypes'
    BY <1>0, <1>e, <1>s
       DEF TaskCommand, ChildReadable, WorkerReady, Types, WorkTypes, ChildTcpStates,
           TaskStates
  <2>3. QueueTypes'
    BY <1>0, <1>s DEF TaskCommand, ChildReadable, WorkerReady, Types, QueueTypes
  <2>4. ObjTypes' /\ SetTypes'
    BY <1>0 DEF TaskCommand, ChildReadable, WorkerReady, Types, ObjTypes, SetTypes
  <2> QED BY <2>1, <2>2, <2>3, <2>4 DEF Types
<1>3. ASSUME NEW d \in Channels \ {c} PROVE Untouched(d)
  BY <1>0
     DEF TaskCommand, ChildReadable, WorkerReady, Untouched, Types, ObjTypes, MainTypes,
         WorkTypes
<1>4. Inv(c)'
  <2>1. HandleInv(c)' /\ CommandInv(c)'
    BY <1>i, <1>e, <1>q DEF HandleInv, CommandInv, Heard, SameFetch, Count
  <2>2. RefInv(c)'
    BY <1>i, <1>e, <1>q DEF RefInv, Heard, SameFetch, Count
  <2>3. OnceEach(c)'
    BY <1>q DEF Heard
  <2> USE DEF MemInv, HandleInv, BindInv, UnservedInv, ClearInv, CommandInv, RefInv, Heard,
            SameFetch, Bound, Served, Count
  <2>4. MemInv(c)'
    BY <1>i, <1>e, <1>q
  <2>5. BindInv(c)'
    BY <1>i, <1>e, <1>q
  <2>6. UnservedInv(c)'
    BY <1>i, <1>e, <1>q
  <2>7. ClearInv(c)'
    BY <1>i, <1>e, <1>q
  <2> QED BY <2>1, <2>2, <2>3, <2>4, <2>5, <2>6, <2>7 DEF Inv
<1> QED BY <1>0, <1>1, <1>2, <1>3, <1>4, Joined

\* A command is refused and the channel freed.
LEMMA CommandRefusedKeeps ==
    ASSUME IInv, NEW c \in Channels, CommandRefused(c)
    PROVE  IInv'
<1> USE DEF objVars, mainVars, freeVars, sessVars, workVars, linkVars
<1>0. Types /\ (\A d \in Channels : Inv(d)) /\ Inv(c)
  BY DEF IInv
<1>i. /\ MemInv(c) /\ HandleInv(c) /\ BindInv(c) /\ UnservedInv(c) /\ ClearInv(c)
      /\ CommandInv(c) /\ RefInv(c) /\ OnceEach(c)
  BY <1>0 DEF Inv
<1>e. /\ hChildWorkTCP[c] = "open" /\ ~Fetched(c) /\ client[c] # "none" /\ client'[c] = "asked"
      /\ ref'[c] = ref[c] + 1 /\ writes'[c] = writes[c] + 1
      /\ lstMainThreadOP' \subseteq lstMainThreadOP \cup {c}
      /\ UNCHANGED <<mem[c], isDead[c], handshakeOK[c], keepAlive[c], freePc[c],
                     hWorkTCP[c], uvHandleRef[c], mainWrites[c], bindNext[c],
                     connectTimer[c], hChildWorkTCP[c], childNext[c], childCleared[c],
                     task[c], daemonTask[c], mapForward, work>>
  BY <1>0, EchoChildEffect
     DEF CommandRefused, PushFree, Fetched, ChildReadable, WorkerReady, Types, ObjTypes,
         MainTypes, WorkTypes
<1>q. \A d \in Channels : Heard(d) /\ SameFetch(d)
  BY <1>0, KeptCtrl, KeptLink, KeptFetch
     DEF CommandRefused, PushFree, Fetched, ChildReadable, WorkerReady, Inv, Heard
<1>1. Types'
  <2>1. ObjTypes'
    BY <1>0, <1>e, EchoChildEffect, <1>i
       DEF CommandRefused, PushFree, Fetched, ChildReadable, WorkerReady, Types, ObjTypes,
           FreeStates, RefInv, Count, MainTypes, WorkTypes
  <2>2. MainTypes'
    BY <1>0, <1>e, EchoChildEffect
       DEF CommandRefused, PushFree, Fetched, ChildReadable, WorkerReady, Types, MainTypes,
           WorkTcpStates
  <2>3. WorkTypes'
    BY <1>0, <1>e, EchoChildEffect
       DEF CommandRefused, PushFree, Fetched, ChildReadable, WorkerReady, Types, WorkTypes,
           ChildTcpStates, TaskStates
  <2>4. SetTypes'
    BY <1>0, EchoChildEffect
       DEF CommandRefused, PushFree, Fetched, ChildReadable, WorkerReady, Types, SetTypes
  <2>5. QueueTypes'
    BY <1>0
       DEF CommandRefused, PushFree, Fetched, ChildReadable, WorkerReady, Types, QueueTypes
  <2> QED BY <2>1, <2>2, <2>3, <2>4, <2>5 DEF Types
<1>3. ASSUME NEW d \in Channels \ {c} PROVE Untouched(d)
  BY <1>0, EchoChildEffect
     DEF CommandRefused, PushFree, Fetched, ChildReadable, WorkerReady, Untouched, Types,
         ObjTypes, MainTypes, WorkTypes
<1>4. Inv(c)'
  <2>1. RefInv(c)'
    BY <1>i, <1>e, <1>q, <1>0
       DEF RefInv, Count, Heard, SameFetch, Types, ObjTypes, MainTypes, WorkTypes
  <2>2. HandleInv(c)'
    BY <1>i, <1>e, <1>q DEF HandleInv, Heard, Count
  <2>3. OnceEach(c)'
    BY <1>q DEF Heard
  <2> USE DEF MemInv, HandleInv, BindInv, UnservedInv, ClearInv, CommandInv, RefInv, Heard,
            SameFetch, Bound, Served, Count
  <2>4. MemInv(c)'
    BY <1>i, <1>e, <1>q
  <2>5. BindInv(c)'
    BY <1>i, <1>e, <1>q
  <2>6. UnservedInv(c)'
    BY <1>i, <1>e, <1>q
  <2>7. ClearInv(c)'
    BY <1>i, <1>e, <1>q
  <2>8. CommandInv(c)'
    BY <1>i, <1>e, <1>q, <1>0 DEF Types, ObjTypes, MainTypes, WorkTypes
  <2> QED BY <2>1, <2>2, <2>3, <2>4, <2>5, <2>6, <2>7, <2>8 DEF Inv
<1> QED BY <1>0, <1>1, <1>q, <1>3, <1>4, Joined

\* The client has left, as the worker sees.
LEMMA ChildReadEndKeeps ==
    ASSUME IInv, NEW c \in Channels, ChildReadEnd(c)
    PROVE  IInv'
<1> USE DEF objVars, mainVars, freeVars, sessVars, workVars, linkVars
<1>0. Types /\ (\A d \in Channels : Inv(d)) /\ Inv(c)
  BY DEF IInv
<1>i. /\ MemInv(c) /\ HandleInv(c) /\ BindInv(c) /\ UnservedInv(c) /\ ClearInv(c)
      /\ CommandInv(c) /\ RefInv(c) /\ OnceEach(c)
  BY <1>0 DEF Inv
<1>e. /\ hChildWorkTCP[c] = "open" /\ hChildWorkTCP'[c] = "closing"
      /\ lstMainThreadOP' \subseteq lstMainThreadOP \cup {c}
      /\ UNCHANGED <<mem[c], isDead[c], ref[c], handshakeOK[c], keepAlive[c], freePc[c],
                     hWorkTCP[c], uvHandleRef[c], mainWrites[c], bindNext[c],
                     connectTimer[c], client[c], writes[c], childNext[c], childCleared[c],
                     task[c], daemonTask[c], mapForward, work>>
  BY <1>0
     DEF ChildReadEnd, PushFree, ChildReadable, WorkerReady, Types, ObjTypes, MainTypes,
         WorkTypes
<1>q. \A d \in Channels : Heard(d) /\ SameFetch(d)
  BY <1>0, KeptCtrl, KeptLink, KeptFetch
     DEF ChildReadEnd, PushFree, ChildReadable, WorkerReady, Inv, Heard
<1>1. Types'
  <2>1. WorkTypes'
    BY <1>0, <1>e
       DEF ChildReadEnd, PushFree, ChildReadable, WorkerReady, Types, WorkTypes,
           ChildTcpStates, TaskStates
  <2>2. SetTypes'
    BY <1>0 DEF ChildReadEnd, PushFree, ChildReadable, WorkerReady, Types, SetTypes
  <2>3. ObjTypes' /\ MainTypes' /\ QueueTypes'
    BY <1>0
       DEF ChildReadEnd, PushFree, ChildReadable, WorkerReady, Types, ObjTypes, MainTypes,
           QueueTypes
  <2> QED BY <2>1, <2>2, <2>3 DEF Types
<1>3. ASSUME NEW d \in Channels \ {c} PROVE Untouched(d)
  BY <1>0
     DEF ChildReadEnd, PushFree, ChildReadable, WorkerReady, Untouched, Types, ObjTypes,
         MainTypes, WorkTypes
<1>4. Inv(c)'
  <2>1. HandleInv(c)' /\ CommandInv(c)'
    BY <1>i, <1>e, <1>q DEF HandleInv, CommandInv, Heard, SameFetch, Count
  <2>2. RefInv(c)'
    BY <1>i, <1>e, <1>q DEF RefInv, Heard, SameFetch, Count
  <2>3. OnceEach(c)'
    BY <1>q DEF Heard
  <2> USE DEF MemInv, HandleInv, BindInv, UnservedInv, ClearInv, CommandInv, RefInv, Heard,
            SameFetch, Bound, Served, Count
  <2>4. MemInv(c)'
    BY <1>i, <1>e, <1>q
  <2>5. BindInv(c)'
    BY <1>i, <1>e, <1>q
  <2>6. UnservedInv(c)'
    BY <1>i, <1>e, <1>q
  <2>7. ClearInv(c)'
    BY <1>i, <1>e, <1>q
  <2> QED BY <2>1, <2>2, <2>3, <2>4, <2>5, <2>6, <2>7 DEF Inv
<1> QED BY <1>0, <1>1, <1>q, <1>3, <1>4, Joined

\* A write of the worker is over; the last one of a failed socket asks for the free.
LEMMA ChildWriteCallbackKeeps ==
    ASSUME IInv, NEW c \in Channels, NEW ok \in BOOLEAN, ChildWriteCallback(c, ok)
    PROVE  IInv'
<1> USE DEF objVars, mainVars, freeVars, sessVars, workVars, linkVars
<1>0. Types /\ (\A d \in Channels : Inv(d)) /\ Inv(c)
  BY DEF IInv
<1>i. /\ MemInv(c) /\ HandleInv(c) /\ BindInv(c) /\ UnservedInv(c) /\ ClearInv(c)
      /\ CommandInv(c) /\ RefInv(c) /\ OnceEach(c)
  BY <1>0 DEF Inv
<1>e. /\ writes[c] > 0 /\ writes'[c] = writes[c] - 1 /\ ref'[c] = ref[c] - 1 /\ ~Fetched(c)
      /\ \/ hChildWorkTCP'[c] = hChildWorkTCP[c]
         \/ hChildWorkTCP[c] = "open" /\ hChildWorkTCP'[c] = "closing"
      /\ lstMainThreadOP' \subseteq lstMainThreadOP \cup {c}
      /\ UNCHANGED <<mem[c], isDead[c], handshakeOK[c], keepAlive[c], freePc[c],
                     hWorkTCP[c], uvHandleRef[c], mainWrites[c], bindNext[c],
                     connectTimer[c], client[c], childNext[c], childCleared[c], task[c],
                     daemonTask[c], mapForward, work>>
  BY <1>0
     DEF ChildWriteCallback, PushFree, WorkerReady, Fetched, Types, ObjTypes, MainTypes,
         WorkTypes
<1>q. \A d \in Channels : Heard(d) /\ SameFetch(d)
  BY <1>0, KeptCtrl, KeptLink, KeptFetch
     DEF ChildWriteCallback, PushFree, WorkerReady, Fetched, Inv, Heard
<1>1. Types'
  <2>1. ObjTypes'
    BY <1>0, <1>e, ConstantsAssumption, <1>i
       DEF ConstantsAssumption, ChildWriteCallback, PushFree, WorkerReady, Fetched, Types,
           ObjTypes, FreeStates, RefInv, Count, MainTypes, WorkTypes
  <2>2. WorkTypes'
    BY <1>0, <1>e, ConstantsAssumption
       DEF ConstantsAssumption, ChildWriteCallback, PushFree, WorkerReady, Fetched, Types,
           WorkTypes, ChildTcpStates, TaskStates
  <2>3. SetTypes'
    BY <1>0, ConstantsAssumption
       DEF ConstantsAssumption, ChildWriteCallback, PushFree, WorkerReady, Fetched, Types,
           SetTypes
  <2>4. MainTypes' /\ QueueTypes'
    BY <1>0
       DEF ChildWriteCallback, PushFree, WorkerReady, Fetched, Types, MainTypes, QueueTypes
  <2> QED BY <2>1, <2>2, <2>3, <2>4 DEF Types
<1>3. ASSUME NEW d \in Channels \ {c} PROVE Untouched(d)
  BY <1>0
     DEF ChildWriteCallback, PushFree, WorkerReady, Fetched, Untouched, Types, ObjTypes,
         MainTypes, WorkTypes
<1>4. Inv(c)'
  <2>1. RefInv(c)'
    BY <1>i, <1>e, <1>q, <1>0
       DEF RefInv, Count, Heard, SameFetch, Types, ObjTypes, MainTypes, WorkTypes
  <2>2. HandleInv(c)'
    BY <1>i, <1>e, <1>q DEF HandleInv, Heard, Count
  <2>3. OnceEach(c)'
    BY <1>q DEF Heard
  <2> USE DEF MemInv, HandleInv, BindInv, UnservedInv, ClearInv, CommandInv, RefInv, Heard,
            SameFetch, Bound, Served, Count
  <2>4. MemInv(c)'
    BY <1>i, <1>e, <1>q
  <2>5. BindInv(c)'
    BY <1>i, <1>e, <1>q
  <2>6. UnservedInv(c)'
    BY <1>i, <1>e, <1>q
  <2>7. ClearInv(c)'
    BY <1>i, <1>e, <1>q
  <2>8. CommandInv(c)'
    BY <1>i, <1>e, <1>q, <1>0 DEF Types, ObjTypes, MainTypes, WorkTypes
  <2> QED BY <2>1, <2>2, <2>3, <2>4, <2>5, <2>6, <2>7, <2>8 DEF Inv
<1> QED BY <1>0, <1>1, <1>q, <1>3, <1>4, Joined

-----------------------------------------------------------------------------
(* Worker: FetchCommand.                                                   *)

\* AdminChannel finds the channel of a message.
LEMMA FoundEffect ==
    ASSUME Types, NEW m \in Commands, fetch = None, Found(m)
    PROVE  /\ fetch' \in Fetches /\ fetch'.msg = m /\ fetch'.checked = FALSE /\ fetch' # None
           /\ \A d \in Channels \ {m.ch} : SameFetch(d)
           /\ Fetched(m.ch)' /\ ~Checked(m.ch)' /\ ~Fetched(m.ch)
           /\ fetch'.msg.cmd = "ECHO" => writes[m.ch] < MaxWrites
<1>1. fetch' = [msg |-> m, checked |-> FALSE]
  BY DEF Found
<1>2. fetch' \in Fetches /\ fetch'.msg = m /\ fetch'.checked = FALSE
  BY <1>1 DEF Fetches
<1>3. fetch' # None
  BY <1>2, NoneAssumption
<1>4. m.cmd = "ECHO" => writes[m.ch] < MaxWrites
  BY DEF Found, Room
<1>5. Fetched(m.ch)' /\ ~Checked(m.ch)' /\ ~Fetched(m.ch)
  BY <1>2, <1>3 DEF Fetched, Checked
<1>6. \A d \in Channels \ {m.ch} : SameFetch(d)
  BY <1>2 DEF SameFetch, Fetched, Checked
<1> QED BY <1>2, <1>3, <1>4, <1>5, <1>6

\* The worker holds one channel, and none when it is through.
LEMMA FetchOne ==
    ASSUME fetch # None, fetch' = None
    PROVE  /\ \A d \in Channels \ {fetch.msg.ch} : SameFetch(d)
           /\ \A d \in Channels : ~Fetched(d)' /\ ~Checked(d)'
BY DEF SameFetch, Fetched, Checked

\* What FetchCommand does when it finds the channel of its message.
FoundOf(c) ==
    /\ fetch = None /\ mem[c] = "alloc"
    /\ \E m \in Commands : m.ch = c /\ Found(m)
    /\ toServer' \in Seq(Commands) /\ toDaemon' \in Seq(Commands)
    /\ \A d \in Channels : Talk(d)' => Talk(d)
    /\ UNCHANGED <<mem, isDead, handshakeOK, keepAlive, mainVars, freeVars, mapForward,
                   sessVars, ctrl, workVars, task, daemonTask, client>>

\* A channel that is found is held, with a reference.
LEMMA FoundOfKeeps ==
    ASSUME IInv, NEW c \in Channels, Served(c), FoundOf(c)
    PROVE  IInv'
<1> USE DEF objVars, mainVars, freeVars, sessVars, workVars, linkVars
<1>0. Types /\ (\A d \in Channels : Inv(d)) /\ Inv(c)
  BY DEF IInv
<1>i. /\ MemInv(c) /\ HandleInv(c) /\ BindInv(c) /\ UnservedInv(c) /\ ClearInv(c)
      /\ CommandInv(c) /\ RefInv(c) /\ OnceEach(c)
  BY <1>0 DEF Inv
<1>k. PICK m \in Commands : m.ch = c /\ Found(m)
  BY DEF FoundOf
<1>m. /\ ref' = [ref EXCEPT ![c] = @ + 1] /\ UNCHANGED ctrl
      /\ \A d \in Channels : Talk(d)' => Talk(d)
      /\ \A d \in Channels \ {c} : SameFetch(d)
      /\ Fetched(c)' /\ ~Checked(c)' /\ ~Fetched(c) /\ fetch' \in Fetches
      /\ fetch'.msg.cmd = "ECHO" => writes[c] < MaxWrites
  BY <1>0, <1>k, FoundEffect DEF FoundOf, Found
<1>e. /\ Served(c) /\ mem[c] = "alloc" /\ ref'[c] = ref[c] + 1
      /\ UNCHANGED <<mem[c], isDead[c], handshakeOK[c], keepAlive[c], freePc[c],
                     hWorkTCP[c], uvHandleRef[c], mainWrites[c], bindNext[c],
                     connectTimer[c], client[c], hChildWorkTCP[c], writes[c], childNext[c],
                     childCleared[c], task[c], daemonTask[c], lstMainThreadOP, mapForward,
                     work>>
  BY <1>0, <1>m DEF FoundOf, Types, ObjTypes, MainTypes, WorkTypes
<1>2. \A d \in Channels \ {c} : Heard(d) /\ SameFetch(d)
  BY <1>0, <1>m, KeptCtrl DEF Inv, Heard
<1>q. /\ Heard(c) /\ Fetched(c)' /\ ~Checked(c)' /\ ~Fetched(c)
      /\ fetch'.msg.cmd = "ECHO" => writes[c] < MaxWrites
  BY <1>0, <1>m, KeptCtrl DEF Inv, Heard
<1>1. Types'
  <2>1. ObjTypes'
    BY <1>0, <1>e, <1>m, <1>m, <1>i
       DEF FoundOf, Types, ObjTypes, FreeStates, RefInv, Count, MainTypes, WorkTypes
  <2>2. QueueTypes'
    BY <1>0, <1>m DEF FoundOf, Types, QueueTypes
  <2>3. MainTypes' /\ WorkTypes' /\ SetTypes'
    BY <1>0 DEF FoundOf, Types, MainTypes, WorkTypes, SetTypes
  <2> QED BY <2>1, <2>2, <2>3 DEF Types
<1>3. ASSUME NEW d \in Channels \ {c} PROVE Untouched(d)
  BY <1>0, <1>m DEF FoundOf, Untouched, Types, ObjTypes, MainTypes, WorkTypes
<1>4. Inv(c)'
  <2>1. RefInv(c)'
    BY <1>i, <1>e, <1>q, <1>m, <1>0
       DEF RefInv, Count, Heard, SameFetch, Types, ObjTypes, MainTypes, WorkTypes
  <2>2. MemInv(c)' /\ HandleInv(c)'
    BY <1>i, <1>e, <1>q DEF MemInv, HandleInv, Heard, Bound, Served, Count
  <2>3. BindInv(c)' /\ ClearInv(c)'
    BY <1>i, <1>e, <1>q DEF BindInv, ClearInv, Heard, Bound, Served
  <2>4. OnceEach(c)'
    BY <1>q DEF Heard
  <2> USE DEF MemInv, HandleInv, BindInv, UnservedInv, ClearInv, CommandInv, RefInv, Heard,
            SameFetch, Bound, Served, Count
  <2>5. UnservedInv(c)'
    BY <1>i, <1>e, <1>q, <1>m
  <2>6. CommandInv(c)'
    BY <1>i, <1>e, <1>q, <1>m, <1>0 DEF Types, ObjTypes, MainTypes, WorkTypes
  <2> QED BY <2>1, <2>2, <2>3, <2>4, <2>5, <2>6 DEF Inv
<1> QED BY <1>0, <1>1, <1>2, <1>3, <1>4, Joined

\* The command of the daemon, or the answer that its channel is not there.
LEMMA FetchCommandKeeps ==
    ASSUME IInv, FetchCommand
    PROVE  IInv'
<1> USE DEF objVars, mainVars, freeVars, sessVars, workVars, linkVars
<1>0. Types /\ \A d \in Channels : Inv(d)
  BY DEF IInv
<1> DEFINE m == Head(toServer)
<1>1. /\ m \in Commands /\ toServer' = Tail(toServer) /\ toServer' \in Seq(Commands)
      /\ toDaemon \in Seq(Commands)
      /\ \A d : About(toServer, d)' => About(toServer, d)
      /\ Talk(m.ch)
  <2>1. toServer \in Seq(Commands) /\ toServer # <<>> /\ toServer' = Tail(toServer)
    BY <1>0 DEF FetchCommand, Types, QueueTypes
  <2> QED BY <1>0, <2>1, Taken DEF Talk, Types, QueueTypes
<1>2. m.ch \in Channels /\ fetch = None
  BY <1>1 DEF Commands, FetchCommand, WorkerReady
<1>3. Served(m.ch)
  BY <1>0, <1>1, <1>2 DEF Inv, UnservedInv
<1>4. CASE mem[m.ch] = "alloc"
  <2>1. Found(m) /\ UNCHANGED toDaemon
    BY <1>4 DEF FetchCommand
  <2>2. \A d \in Channels : Talk(d)' => Talk(d)
    BY <1>1, <2>1 DEF Talk
  <2>3. FoundOf(m.ch)
    BY <1>1, <1>2, <1>4, <2>1, <2>2 DEF FoundOf, FetchCommand
  <2> QED BY <1>2, <1>3, <2>3, FoundOfKeeps
<1>5. CASE mem[m.ch] # "alloc"
  <2>1. Send(Close(m.ch, 0)) /\ UNCHANGED <<ref, fetch>>
    BY <1>5 DEF FetchCommand
  <2>2. Close(m.ch, 0) \in Commands /\ Close(m.ch, 0).ch = m.ch
    BY <1>2, CommandKinds
  <2>3. /\ toDaemon' \in Seq(Commands)
        /\ \A d : About(toDaemon, d)' => About(toDaemon, d) \/ d = m.ch
    <3>1. CASE toDaemon' = toDaemon
      BY <1>1, <3>1
    <3>2. CASE toDaemon' = Append(toDaemon, Close(m.ch, 0))
      BY <1>1, <2>2, <3>2, Appended
    <3> QED BY <2>1, <3>1, <3>2 DEF Send
  <2>4. \A d \in Channels : Heard(d) /\ SameFetch(d)
    BY <1>0, <1>1, <2>1, <2>3, KeptCtrl, KeptFetch DEF FetchCommand, Inv, Heard, Talk
  <2>5. \A d \in Channels : Untouched(d)
    BY <2>1 DEF FetchCommand, Untouched
  <2>6. Types'
    BY <1>0, <1>1, <2>1, <2>3
       DEF FetchCommand, Types, ObjTypes, MainTypes, WorkTypes, SetTypes, QueueTypes
  <2> QED BY <1>0, <2>4, <2>5, <2>6, JoinedNone
<1> QED BY <1>4, <1>5

\* A command of a task of the server.
LEMMA ServerCommandKeeps ==
    ASSUME IInv, NEW c \in Channels, ServerCommand(c)
    PROVE  IInv'
<1> USE DEF objVars, mainVars, freeVars, sessVars, workVars, linkVars
<1>0. Types /\ Inv(c)
  BY DEF IInv
<1>1. Served(c)
  BY <1>0 DEF ServerCommand, Inv, UnservedInv
<1>2. FoundOf(c)
  <2>1. \E m \in Commands : m.ch = c /\ Found(m)
    BY CommandKinds DEF ServerCommand
  <2>2. \A d \in Channels : Talk(d)' => Talk(d)
    BY KeptLink DEF ServerCommand
  <2> QED BY <1>0, <2>1, <2>2 DEF FoundOf, ServerCommand, WorkerReady, Types, QueueTypes
<1> QED BY <1>1, <1>2, FoundOfKeeps

\* The channel that was found is dead.
LEMMA FetchDeadKeeps ==
    ASSUME IInv, NEW c \in Channels, FetchDead, c = fetch.msg.ch
    PROVE  IInv'
<1> USE DEF objVars, mainVars, freeVars, sessVars, workVars, linkVars
<1>0. Types /\ (\A d \in Channels : Inv(d)) /\ Inv(c)
  BY DEF IInv
<1>i. /\ MemInv(c) /\ HandleInv(c) /\ BindInv(c) /\ UnservedInv(c) /\ ClearInv(c)
      /\ CommandInv(c) /\ RefInv(c) /\ OnceEach(c)
  BY <1>0 DEF Inv
<1>m. /\ fetch # None /\ fetch' = None /\ fetch.msg.ch = c /\ Fetched(c) /\ fetch \in Fetches
      /\ fetch.msg \in Commands /\ fetch.msg.count \in 0 .. 1
  BY <1>0 DEF FetchDead, Fetching, Fetched, Checked, Types, QueueTypes, Fetches, Commands
<1>e. /\ ref'[c] = ref[c] - 1
      /\ UNCHANGED <<mem[c], isDead[c], handshakeOK[c], keepAlive[c], freePc[c],
                     hWorkTCP[c], uvHandleRef[c], mainWrites[c], bindNext[c],
                     connectTimer[c], client[c], hChildWorkTCP[c], writes[c], childNext[c],
                     childCleared[c], task[c], daemonTask[c], lstMainThreadOP, mapForward,
                     work>>
  BY <1>0, <1>m DEF FetchDead, Types, ObjTypes, MainTypes, WorkTypes
<1>2. \A d \in Channels \ {c} : Heard(d) /\ SameFetch(d)
  BY <1>0, <1>m, FetchOne, KeptCtrl, KeptLink DEF FetchDead, Inv, Heard
<1>q. Heard(c) /\ ~Fetched(c)' /\ ~Checked(c)'
  BY <1>0, <1>m, FetchOne, KeptCtrl, KeptLink DEF FetchDead, Inv, Heard
<1>1. Types'
  <2>1. ObjTypes'
    BY <1>0, <1>e, <1>m, <1>i
       DEF FetchDead, Types, ObjTypes, FreeStates, RefInv, Count, MainTypes, WorkTypes
  <2>2. QueueTypes'
    BY <1>0 DEF FetchDead, Types, QueueTypes
  <2>3. MainTypes' /\ WorkTypes' /\ SetTypes'
    BY <1>0 DEF FetchDead, Types, MainTypes, WorkTypes, SetTypes
  <2> QED BY <2>1, <2>2, <2>3 DEF Types
<1>3. ASSUME NEW d \in Channels \ {c} PROVE Untouched(d)
  BY <1>0, <1>m DEF FetchDead, Untouched, Types, ObjTypes, MainTypes, WorkTypes
<1>4. Inv(c)'
  <2>1. RefInv(c)'
    BY <1>i, <1>e, <1>q, <1>m, <1>0
       DEF RefInv, Count, Heard, SameFetch, Types, ObjTypes, MainTypes, WorkTypes
  <2>2. MemInv(c)' /\ HandleInv(c)'
    BY <1>i, <1>e, <1>q DEF MemInv, HandleInv, Heard, Bound, Served, Count
  <2>3. BindInv(c)' /\ ClearInv(c)'
    BY <1>i, <1>e, <1>q DEF BindInv, ClearInv, Heard, Bound, Served
  <2>4. OnceEach(c)'
    BY <1>q DEF Heard
  <2> USE DEF MemInv, HandleInv, BindInv, UnservedInv, ClearInv, CommandInv, RefInv, Heard,
            SameFetch, Bound, Served, Count
  <2>5. UnservedInv(c)'
    BY <1>i, <1>e, <1>q, <1>m
  <2>6. CommandInv(c)'
    BY <1>i, <1>e, <1>q, <1>m, <1>0 DEF Types, ObjTypes, MainTypes, WorkTypes
  <2> QED BY <2>1, <2>2, <2>3, <2>4, <2>5, <2>6 DEF Inv
<1> QED BY <1>0, <1>1, <1>2, <1>3, <1>4, Joined

\* The reference passes to a write, if there is one.
LEMMA FetchEchoKeeps ==
    ASSUME IInv, NEW c \in Channels, FetchEcho(c)
    PROVE  IInv'
<1> USE DEF objVars, mainVars, freeVars, sessVars, workVars, linkVars
<1>0. Types /\ (\A d \in Channels : Inv(d)) /\ Inv(c)
  BY DEF IInv
<1>i. /\ MemInv(c) /\ HandleInv(c) /\ BindInv(c) /\ UnservedInv(c) /\ ClearInv(c)
      /\ CommandInv(c) /\ RefInv(c) /\ OnceEach(c)
  BY <1>0 DEF Inv
<1>m. /\ fetch # None /\ fetch' = None /\ fetch.msg.ch = c /\ Fetched(c) /\ fetch \in Fetches
      /\ fetch.msg \in Commands /\ fetch.msg.count \in 0 .. 1 /\ Checked(c)
      /\ fetch.msg.cmd = "ECHO"
  BY <1>0
     DEF FetchEcho, FetchDone, ChildWritable, Release, Fetching, Fetched, Checked, Types,
         QueueTypes, Fetches, Commands
<1>e. /\ \/ /\ hChildWorkTCP[c] = "open" /\ writes'[c] = writes[c] + 1 /\ ref'[c] = ref[c]
         \/ writes'[c] = writes[c] /\ ref'[c] = ref[c] - 1
      /\ UNCHANGED <<mem[c], isDead[c], handshakeOK[c], keepAlive[c], freePc[c],
                     hWorkTCP[c], uvHandleRef[c], mainWrites[c], bindNext[c],
                     connectTimer[c], client[c], hChildWorkTCP[c], childNext[c],
                     childCleared[c], task[c], daemonTask[c], lstMainThreadOP, mapForward,
                     work>>
  BY <1>0, <1>m
     DEF FetchEcho, FetchDone, ChildWritable, Release, Types, ObjTypes, MainTypes, WorkTypes
<1>2. \A d \in Channels \ {c} : Heard(d) /\ SameFetch(d)
  BY <1>0, <1>m, FetchOne, KeptCtrl, KeptLink DEF FetchEcho, Inv, Heard
<1>q. Heard(c) /\ ~Fetched(c)' /\ ~Checked(c)'
  BY <1>0, <1>m, FetchOne, KeptCtrl, KeptLink DEF FetchEcho, Inv, Heard
<1>w. writes[c] < MaxWrites
  BY <1>i, <1>m DEF CommandInv
<1>1. Types'
  <2>1. ObjTypes'
    BY <1>0, <1>e, <1>m, ConstantsAssumption, <1>w, <1>i
       DEF ConstantsAssumption, FetchEcho, FetchDone, ChildWritable, Release, Types,
           ObjTypes, FreeStates, RefInv, Count, MainTypes, WorkTypes
  <2>2. WorkTypes'
    BY <1>0, <1>e, <1>m, ConstantsAssumption, <1>w
       DEF ConstantsAssumption, FetchEcho, FetchDone, ChildWritable, Release, Types,
           WorkTypes, ChildTcpStates, TaskStates
  <2>3. QueueTypes'
    BY <1>0, ConstantsAssumption, <1>w
       DEF ConstantsAssumption, FetchEcho, FetchDone, ChildWritable, Release, Types,
           QueueTypes
  <2>4. MainTypes' /\ SetTypes'
    BY <1>0 DEF FetchEcho, FetchDone, ChildWritable, Release, Types, MainTypes, SetTypes
  <2> QED BY <2>1, <2>2, <2>3, <2>4 DEF Types
<1>3. ASSUME NEW d \in Channels \ {c} PROVE Untouched(d)
  BY <1>0, <1>m
     DEF FetchEcho, FetchDone, ChildWritable, Release, Untouched, Types, ObjTypes,
         MainTypes, WorkTypes
<1>4. Inv(c)'
  <2>1. RefInv(c)'
    BY <1>i, <1>e, <1>q, <1>m, <1>0
       DEF RefInv, Count, Heard, SameFetch, Types, ObjTypes, MainTypes, WorkTypes
  <2>2. MemInv(c)' /\ HandleInv(c)'
    BY <1>i, <1>e, <1>q DEF MemInv, HandleInv, Heard, Bound, Served, Count
  <2>3. BindInv(c)'
    BY <1>i, <1>e, <1>q DEF BindInv, Heard, Bound, Served
  <2>4. OnceEach(c)'
    BY <1>q DEF Heard
  <2> USE DEF MemInv, HandleInv, BindInv, UnservedInv, ClearInv, CommandInv, RefInv, Heard,
            SameFetch, Bound, Served, Count
  <2>5. UnservedInv(c)'
    BY <1>i, <1>e, <1>q, <1>m
  <2>6. ClearInv(c)'
    BY <1>i, <1>e, <1>q, <1>m
  <2>7. CommandInv(c)'
    BY <1>i, <1>e, <1>q, <1>m, <1>0 DEF Types, ObjTypes, MainTypes, WorkTypes
  <2> QED BY <2>1, <2>2, <2>3, <2>4, <2>5, <2>6, <2>7 DEF Inv
<1> QED BY <1>0, <1>1, <1>2, <1>3, <1>4, Joined

\* The other end closes the channel.
LEMMA FetchCloseKeeps ==
    ASSUME IInv, NEW c \in Channels, FetchClose(c)
    PROVE  IInv'
<1> USE DEF objVars, mainVars, freeVars, sessVars, workVars, linkVars
<1>0. Types /\ (\A d \in Channels : Inv(d)) /\ Inv(c)
  BY DEF IInv
<1>i. /\ MemInv(c) /\ HandleInv(c) /\ BindInv(c) /\ UnservedInv(c) /\ ClearInv(c)
      /\ CommandInv(c) /\ RefInv(c) /\ OnceEach(c)
  BY <1>0 DEF Inv
<1>m. /\ fetch # None /\ fetch' = None /\ fetch.msg.ch = c /\ Fetched(c) /\ fetch \in Fetches
      /\ fetch.msg \in Commands /\ fetch.msg.count \in 0 .. 1 /\ Checked(c)
  BY <1>0
     DEF FetchClose, FetchDone, PushFree, Release, Stopped, Fetching, Fetched, Checked,
         Types, QueueTypes, Fetches, Commands
<1>e. /\ task'[c] = (IF task[c] = "run" THEN "stop" ELSE task[c]) /\ ref'[c] = ref[c] - 1
      /\ lstMainThreadOP' \subseteq lstMainThreadOP \cup {c}
      /\ UNCHANGED <<mem[c], isDead[c], handshakeOK[c], keepAlive[c], freePc[c],
                     hWorkTCP[c], uvHandleRef[c], mainWrites[c], bindNext[c],
                     connectTimer[c], client[c], hChildWorkTCP[c], writes[c], childNext[c],
                     childCleared[c], daemonTask[c], mapForward, work>>
  BY <1>0, <1>m
     DEF FetchClose, FetchDone, PushFree, Release, Stopped, Types, ObjTypes, MainTypes,
         WorkTypes
<1>s. /\ toDaemon' \in Seq(Commands)
      /\ \A d \in Channels : Talk(d)' => Talk(d) \/ d = c
  BY <1>0, <1>m, Sent, CommandKinds, KeptLink DEF FetchClose, Answer, Types, QueueTypes
<1>2. \A d \in Channels \ {c} : Heard(d) /\ SameFetch(d)
  BY <1>0, <1>m, <1>s, FetchOne, KeptCtrl DEF FetchClose, Inv, Heard
<1>q. /\ (Attaching(c)' => Attaching(c)) /\ (Detaching(c)' => Detaching(c)) /\ OnceEach(c)'
      /\ ~Fetched(c)' /\ ~Checked(c)'
  BY <1>0, <1>m, FetchOne, KeptCtrl DEF FetchClose, Inv
<1>1. Types'
  <2>1. ObjTypes'
    BY <1>0, <1>e, <1>m, <1>s, <1>i
       DEF FetchClose, FetchDone, PushFree, Release, Stopped, Types, ObjTypes, FreeStates,
           RefInv, Count, MainTypes, WorkTypes
  <2>2. WorkTypes'
    BY <1>0, <1>e, <1>m, <1>s
       DEF FetchClose, FetchDone, PushFree, Release, Stopped, Types, WorkTypes,
           ChildTcpStates, TaskStates
  <2>3. SetTypes'
    BY <1>0, <1>m, <1>s
       DEF FetchClose, FetchDone, PushFree, Release, Stopped, Types, SetTypes
  <2>4. QueueTypes'
    BY <1>0, <1>s DEF FetchClose, FetchDone, PushFree, Release, Stopped, Types, QueueTypes
  <2>5. MainTypes'
    BY <1>0 DEF FetchClose, FetchDone, PushFree, Release, Stopped, Types, MainTypes
  <2> QED BY <2>1, <2>2, <2>3, <2>4, <2>5 DEF Types
<1>3. ASSUME NEW d \in Channels \ {c} PROVE Untouched(d)
  BY <1>0, <1>m
     DEF FetchClose, FetchDone, PushFree, Release, Stopped, Untouched, Types, ObjTypes,
         MainTypes, WorkTypes
<1>4. Inv(c)'
  <2>1. RefInv(c)'
    BY <1>i, <1>e, <1>q, <1>m, <1>0
       DEF RefInv, Count, Heard, SameFetch, Types, ObjTypes, MainTypes, WorkTypes
  <2>2. MemInv(c)' /\ HandleInv(c)'
    BY <1>i, <1>e, <1>q DEF MemInv, HandleInv, Heard, Bound, Served, Count
  <2>3. BindInv(c)'
    BY <1>i, <1>e, <1>q DEF BindInv, Heard, Bound, Served
  <2>4. OnceEach(c)'
    BY <1>q DEF Heard
  <2> USE DEF MemInv, HandleInv, BindInv, UnservedInv, ClearInv, CommandInv, RefInv, Heard,
            SameFetch, Bound, Served, Count
  <2>5. UnservedInv(c)'
    BY <1>i, <1>e, <1>q, <1>m
  <2>6. ClearInv(c)'
    BY <1>i, <1>e, <1>q, <1>m
  <2>7. CommandInv(c)'
    BY <1>i, <1>e, <1>q, <1>m, <1>0 DEF Types, ObjTypes, MainTypes, WorkTypes
  <2> QED BY <2>1, <2>2, <2>3, <2>4, <2>5, <2>6, <2>7 DEF Inv
<1> QED BY <1>0, <1>1, <1>2, <1>3, <1>4, Joined

\* A forward is set up, and the client told by the end of its socket.
LEMMA FetchForwardSuccessKeeps ==
    ASSUME IInv, NEW c \in Channels, FetchForwardSuccess(c)
    PROVE  IInv'
<1> USE DEF objVars, mainVars, freeVars, sessVars, workVars, linkVars
<1>0. Types /\ (\A d \in Channels : Inv(d)) /\ Inv(c)
  BY DEF IInv
<1>i. /\ MemInv(c) /\ HandleInv(c) /\ BindInv(c) /\ UnservedInv(c) /\ ClearInv(c)
      /\ CommandInv(c) /\ RefInv(c) /\ OnceEach(c)
  BY <1>0 DEF Inv
<1>m. /\ fetch # None /\ fetch' = None /\ fetch.msg.ch = c /\ Fetched(c) /\ fetch \in Fetches
      /\ fetch.msg \in Commands /\ fetch.msg.count \in 0 .. 1 /\ Checked(c)
  BY <1>0
     DEF FetchForwardSuccess, FetchDone, ChildWritable, Release, Fetching, Fetched, Checked,
         Types, QueueTypes, Fetches, Commands
<1>e. /\ ref'[c] = ref[c] - 1 /\ mapForward' = mapForward \cup {c}
      /\ \/ hChildWorkTCP'[c] = hChildWorkTCP[c]
         \/ hChildWorkTCP[c] = "open" /\ hChildWorkTCP'[c] = "closing"
      /\ UNCHANGED <<mem[c], isDead[c], handshakeOK[c], keepAlive[c], freePc[c],
                     hWorkTCP[c], uvHandleRef[c], mainWrites[c], bindNext[c],
                     connectTimer[c], client[c], writes[c], childNext[c], childCleared[c],
                     task[c], daemonTask[c], lstMainThreadOP, work>>
  BY <1>0, <1>m
     DEF FetchForwardSuccess, FetchDone, ChildWritable, Release, Types, ObjTypes, MainTypes,
         WorkTypes
<1>2. \A d \in Channels \ {c} : Heard(d) /\ SameFetch(d)
  BY <1>0, <1>m, FetchOne, KeptCtrl, KeptLink DEF FetchForwardSuccess, Inv, Heard
<1>q. Heard(c) /\ ~Fetched(c)' /\ ~Checked(c)'
  BY <1>0, <1>m, FetchOne, KeptCtrl, KeptLink DEF FetchForwardSuccess, Inv, Heard
<1>1. Types'
  <2>1. ObjTypes'
    BY <1>0, <1>e, <1>m, <1>i
       DEF FetchForwardSuccess, FetchDone, ChildWritable, Release, Types, ObjTypes,
           FreeStates, RefInv, Count, MainTypes, WorkTypes
  <2>2. WorkTypes'
    BY <1>0, <1>e, <1>m
       DEF FetchForwardSuccess, FetchDone, ChildWritable, Release, Types, WorkTypes,
           ChildTcpStates, TaskStates
  <2>3. SetTypes'
    BY <1>0, <1>m
       DEF FetchForwardSuccess, FetchDone, ChildWritable, Release, Types, SetTypes
  <2>4. QueueTypes'
    BY <1>0 DEF FetchForwardSuccess, FetchDone, ChildWritable, Release, Types, QueueTypes
  <2>5. MainTypes'
    BY <1>0 DEF FetchForwardSuccess, FetchDone, ChildWritable, Release, Types, MainTypes
  <2> QED BY <2>1, <2>2, <2>3, <2>4, <2>5 DEF Types
<1>3. ASSUME NEW d \in Channels \ {c} PROVE Untouched(d)
  BY <1>0, <1>m
     DEF FetchForwardSuccess, FetchDone, ChildWritable, Release, Untouched, Types, ObjTypes,
         MainTypes, WorkTypes
<1>4. Inv(c)'
  <2>1. RefInv(c)'
    BY <1>i, <1>e, <1>q, <1>m, <1>0
       DEF RefInv, Count, Heard, SameFetch, Types, ObjTypes, MainTypes, WorkTypes
  <2>2. HandleInv(c)'
    BY <1>i, <1>e, <1>q DEF HandleInv, Heard, Count
  <2>3. OnceEach(c)'
    BY <1>q DEF Heard
  <2> USE DEF MemInv, HandleInv, BindInv, UnservedInv, ClearInv, CommandInv, RefInv, Heard,
            SameFetch, Bound, Served, Count
  <2>4. MemInv(c)'
    BY <1>i, <1>e, <1>q, <1>m
  <2>5. BindInv(c)'
    BY <1>i, <1>e, <1>q, <1>m
  <2>6. UnservedInv(c)'
    BY <1>i, <1>e, <1>q, <1>m
  <2>7. ClearInv(c)'
    BY <1>i, <1>e, <1>q, <1>m
  <2>8. CommandInv(c)'
    BY <1>i, <1>e, <1>q, <1>m, <1>0 DEF Types, ObjTypes, MainTypes, WorkTypes
  <2> QED BY <2>1, <2>2, <2>3, <2>4, <2>5, <2>6, <2>7, <2>8 DEF Inv
<1> QED BY <1>0, <1>1, <1>2, <1>3, <1>4, Joined

\* The task of this end is made.
LEMMA FetchWakeupKeeps ==
    ASSUME IInv, NEW c \in Channels, FetchWakeup(c)
    PROVE  IInv'
<1> USE DEF objVars, mainVars, freeVars, sessVars, workVars, linkVars
<1>0. Types /\ (\A d \in Channels : Inv(d)) /\ Inv(c)
  BY DEF IInv
<1>i. /\ MemInv(c) /\ HandleInv(c) /\ BindInv(c) /\ UnservedInv(c) /\ ClearInv(c)
      /\ CommandInv(c) /\ RefInv(c) /\ OnceEach(c)
  BY <1>0 DEF Inv
<1>m. /\ fetch # None /\ fetch' = None /\ fetch.msg.ch = c /\ Fetched(c) /\ fetch \in Fetches
      /\ fetch.msg \in Commands /\ fetch.msg.count \in 0 .. 1 /\ Checked(c)
  BY <1>0
     DEF FetchWakeup, FetchDone, Release, Fetching, Fetched, Checked, Types, QueueTypes,
         Fetches, Commands
<1>e. /\ ref'[c] = ref[c] - 1 /\ task'[c] = "run"
      /\ UNCHANGED <<mem[c], isDead[c], handshakeOK[c], keepAlive[c], freePc[c],
                     hWorkTCP[c], uvHandleRef[c], mainWrites[c], bindNext[c],
                     connectTimer[c], client[c], hChildWorkTCP[c], writes[c], childNext[c],
                     childCleared[c], daemonTask[c], lstMainThreadOP, mapForward, work>>
  BY <1>0, <1>m DEF FetchWakeup, FetchDone, Release, Types, ObjTypes, MainTypes, WorkTypes
<1>2. \A d \in Channels \ {c} : Heard(d) /\ SameFetch(d)
  BY <1>0, <1>m, FetchOne, KeptCtrl, KeptLink DEF FetchWakeup, Inv, Heard
<1>q. Heard(c) /\ ~Fetched(c)' /\ ~Checked(c)'
  BY <1>0, <1>m, FetchOne, KeptCtrl, KeptLink DEF FetchWakeup, Inv, Heard
<1>1. Types'
  <2>1. ObjTypes'
    BY <1>0, <1>e, <1>m, <1>i
       DEF FetchWakeup, FetchDone, Release, Types, ObjTypes, FreeStates, RefInv, Count,
           MainTypes, WorkTypes
  <2>2. WorkTypes'
    BY <1>0, <1>e, <1>m
       DEF FetchWakeup, FetchDone, Release, Types, WorkTypes, ChildTcpStates, TaskStates
  <2>3. QueueTypes'
    BY <1>0 DEF FetchWakeup, FetchDone, Release, Types, QueueTypes
  <2>4. MainTypes' /\ SetTypes'
    BY <1>0 DEF FetchWakeup, FetchDone, Release, Types, MainTypes, SetTypes
  <2> QED BY <2>1, <2>2, <2>3, <2>4 DEF Types
<1>3. ASSUME NEW d \in Channels \ {c} PROVE Untouched(d)
  BY <1>0, <1>m
     DEF FetchWakeup, FetchDone, Release, Untouched, Types, ObjTypes, MainTypes, WorkTypes
<1>4. Inv(c)'
  <2>1. RefInv(c)'
    BY <1>i, <1>e, <1>q, <1>m, <1>0
       DEF RefInv, Count, Heard, SameFetch, Types, ObjTypes, MainTypes, WorkTypes
  <2>2. MemInv(c)' /\ HandleInv(c)'
    BY <1>i, <1>e, <1>q DEF MemInv, HandleInv, Heard, Bound, Served, Count
  <2>3. BindInv(c)'
    BY <1>i, <1>e, <1>q DEF BindInv, Heard, Bound, Served
  <2>4. OnceEach(c)'
    BY <1>q DEF Heard
  <2> USE DEF MemInv, HandleInv, BindInv, UnservedInv, ClearInv, CommandInv, RefInv, Heard,
            SameFetch, Bound, Served, Count
  <2>5. UnservedInv(c)'
    BY <1>i, <1>e, <1>q, <1>m
  <2>6. ClearInv(c)'
    BY <1>i, <1>e, <1>q, <1>m
  <2>7. CommandInv(c)'
    BY <1>i, <1>e, <1>q, <1>m, <1>0 DEF Types, ObjTypes, MainTypes, WorkTypes
  <2> QED BY <2>1, <2>2, <2>3, <2>4, <2>5, <2>6, <2>7 DEF Inv
<1> QED BY <1>0, <1>1, <1>2, <1>3, <1>4, Joined

\* The channel that was found is alive: its free will wait for the reference.
LEMMA FetchAliveKeeps ==
    ASSUME IInv, NEW c \in Channels, FetchAlive, c = fetch.msg.ch
    PROVE  IInv'
<1> USE DEF objVars, mainVars, freeVars, sessVars, workVars, linkVars
<1>0. Types /\ (\A d \in Channels : Inv(d)) /\ Inv(c)
  BY DEF IInv
<1>i. /\ MemInv(c) /\ HandleInv(c) /\ BindInv(c) /\ UnservedInv(c) /\ ClearInv(c)
      /\ CommandInv(c) /\ RefInv(c) /\ OnceEach(c)
  BY <1>0 DEF Inv
<1>m. /\ fetch # None /\ fetch.msg.ch = c /\ fetch \in Fetches /\ Fetched(c) /\ ~isDead[c]
      /\ fetch' \in Fetches /\ fetch'.msg = fetch.msg /\ fetch' # None /\ Fetched(c)'
  BY <1>0, NoneAssumption DEF FetchAlive, Fetching, Fetched, Types, QueueTypes, Fetches
<1>e. /\ Fetched(c) /\ ~isDead[c]
      /\ UNCHANGED <<mem[c], isDead[c], ref[c], handshakeOK[c], keepAlive[c], freePc[c],
                     hWorkTCP[c], uvHandleRef[c], mainWrites[c], bindNext[c],
                     connectTimer[c], client[c], hChildWorkTCP[c], writes[c], childNext[c],
                     childCleared[c], task[c], daemonTask[c], lstMainThreadOP, mapForward,
                     work>>
  BY <1>0, <1>m DEF FetchAlive, Types, ObjTypes, MainTypes, WorkTypes
<1>2. \A d \in Channels \ {c} : Heard(d) /\ SameFetch(d)
  BY <1>0, <1>m, KeptCtrl, KeptLink DEF FetchAlive, Inv, Heard, SameFetch, Fetched, Checked
<1>q. Heard(c) /\ Fetched(c)' /\ fetch'.msg = fetch.msg
  BY <1>0, <1>m, KeptCtrl, KeptLink DEF FetchAlive, Inv, Heard
<1>1. Types'
  <2>1. QueueTypes'
    BY <1>0, <1>m DEF FetchAlive, Types, QueueTypes
  <2>2. ObjTypes' /\ MainTypes' /\ WorkTypes' /\ SetTypes'
    BY <1>0 DEF FetchAlive, Types, ObjTypes, MainTypes, WorkTypes, SetTypes
  <2> QED BY <2>1, <2>2 DEF Types
<1>3. ASSUME NEW d \in Channels \ {c} PROVE Untouched(d)
  BY <1>0, <1>m DEF FetchAlive, Untouched, Types, ObjTypes, MainTypes, WorkTypes
<1>4. Inv(c)'
  <2>1. RefInv(c)'
    BY <1>i, <1>e, <1>q, <1>m, <1>0
       DEF RefInv, Count, Heard, SameFetch, Types, ObjTypes, MainTypes, WorkTypes
  <2>2. MemInv(c)' /\ HandleInv(c)'
    BY <1>i, <1>e, <1>q DEF MemInv, HandleInv, Heard, Bound, Served, Count
  <2>3. BindInv(c)' /\ ClearInv(c)'
    BY <1>i, <1>e, <1>q DEF BindInv, ClearInv, Heard, Bound, Served
  <2>4. OnceEach(c)'
    BY <1>q DEF Heard
  <2> USE DEF MemInv, HandleInv, BindInv, UnservedInv, ClearInv, CommandInv, RefInv, Heard,
            SameFetch, Bound, Served, Count
  <2>5. UnservedInv(c)'
    BY <1>i, <1>e, <1>q, <1>m
  <2>6. CommandInv(c)'
    BY <1>i, <1>e, <1>q, <1>m, <1>0 DEF Types, ObjTypes, MainTypes, WorkTypes
  <2> QED BY <2>1, <2>2, <2>3, <2>4, <2>5, <2>6 DEF Inv
<1> QED BY <1>0, <1>1, <1>2, <1>3, <1>4, Joined

-----------------------------------------------------------------------------
(* Tasks of the server, the daemon and the clients.                        *)

\* A task of the server has finished.
LEMMA TaskFinishKeeps ==
    ASSUME IInv, NEW c \in Channels, TaskFinish(c)
    PROVE  IInv'
<1> USE DEF objVars, mainVars, freeVars, sessVars, workVars, linkVars
<1>0. Types /\ (\A d \in Channels : Inv(d)) /\ Inv(c)
  BY DEF IInv
<1>i. /\ MemInv(c) /\ HandleInv(c) /\ BindInv(c) /\ UnservedInv(c) /\ ClearInv(c)
      /\ CommandInv(c) /\ RefInv(c) /\ OnceEach(c)
  BY <1>0 DEF Inv
<1>e. /\ task[c] = "run"
      /\ UNCHANGED <<mem[c], isDead[c], ref[c], handshakeOK[c], keepAlive[c], freePc[c],
                     hWorkTCP[c], uvHandleRef[c], mainWrites[c], bindNext[c],
                     connectTimer[c], client[c], hChildWorkTCP[c], writes[c], childNext[c],
                     childCleared[c], task[c], daemonTask[c], lstMainThreadOP, mapForward,
                     work>>
  BY <1>0 DEF TaskFinish, Types, ObjTypes, MainTypes, WorkTypes
<1>s. /\ toDaemon' \in Seq(Commands)
      /\ \A d \in Channels : Talk(d)' => Talk(d) \/ d = c
  BY <1>0, Sent, CommandKinds, KeptLink DEF TaskFinish, Types, QueueTypes
<1>2. \A d \in Channels \ {c} : Heard(d) /\ SameFetch(d)
  BY <1>0, <1>s, KeptCtrl, KeptFetch DEF TaskFinish, Inv, Heard
<1>q. /\ (Attaching(c)' => Attaching(c)) /\ (Detaching(c)' => Detaching(c)) /\ OnceEach(c)'
      /\ SameFetch(c)
  BY <1>0, KeptCtrl, KeptFetch DEF TaskFinish, Inv
<1>1. Types'
  <2>1. QueueTypes'
    BY <1>0, <1>s DEF TaskFinish, Types, QueueTypes
  <2>2. ObjTypes' /\ MainTypes' /\ WorkTypes' /\ SetTypes'
    BY <1>0 DEF TaskFinish, Types, ObjTypes, MainTypes, WorkTypes, SetTypes
  <2> QED BY <2>1, <2>2 DEF Types
<1>3. ASSUME NEW d \in Channels \ {c} PROVE Untouched(d)
  BY <1>0 DEF TaskFinish, Untouched, Types, ObjTypes, MainTypes, WorkTypes
<1>4. Inv(c)'
  <2>1. MemInv(c)' /\ HandleInv(c)'
    BY <1>i, <1>e, <1>q DEF MemInv, HandleInv, Heard, Bound, Served, Count
  <2>2. BindInv(c)' /\ ClearInv(c)'
    BY <1>i, <1>e, <1>q DEF BindInv, ClearInv, Heard, Bound, Served
  <2>3. CommandInv(c)' /\ RefInv(c)'
    BY <1>i, <1>e, <1>q DEF CommandInv, RefInv, Heard, SameFetch, Count
  <2>4. OnceEach(c)'
    BY <1>q DEF Heard
  <2> USE DEF MemInv, HandleInv, BindInv, UnservedInv, ClearInv, CommandInv, RefInv, Heard,
            SameFetch, Bound, Served, Count
  <2>5. UnservedInv(c)'
    BY <1>i, <1>e, <1>q
  <2> QED BY <2>1, <2>2, <2>3, <2>4, <2>5 DEF Inv
<1> QED BY <1>0, <1>1, <1>2, <1>3, <1>4, Joined

\* A task of the server has let go.
LEMMA TaskRemovedKeeps ==
    ASSUME IInv, NEW c \in Channels, TaskRemoved(c)
    PROVE  IInv'
<1> USE DEF objVars, mainVars, freeVars, sessVars, workVars, linkVars
<1>0. Types /\ (\A d \in Channels : Inv(d)) /\ Inv(c)
  BY DEF IInv
<1>i. /\ MemInv(c) /\ HandleInv(c) /\ BindInv(c) /\ UnservedInv(c) /\ ClearInv(c)
      /\ CommandInv(c) /\ RefInv(c) /\ OnceEach(c)
  BY <1>0 DEF Inv
<1>e. /\ task'[c] = "none"
      /\ UNCHANGED <<mem[c], isDead[c], ref[c], handshakeOK[c], keepAlive[c], freePc[c],
                     hWorkTCP[c], uvHandleRef[c], mainWrites[c], bindNext[c],
                     connectTimer[c], client[c], hChildWorkTCP[c], writes[c], childNext[c],
                     childCleared[c], daemonTask[c], lstMainThreadOP, mapForward, work>>
  BY <1>0 DEF TaskRemoved, Types, ObjTypes, MainTypes, WorkTypes
<1>q. \A d \in Channels : Heard(d) /\ SameFetch(d)
  BY <1>0, KeptCtrl, KeptLink, KeptFetch DEF TaskRemoved, Inv, Heard
<1>1. Types'
  <2>1. WorkTypes'
    BY <1>0, <1>e DEF TaskRemoved, Types, WorkTypes, ChildTcpStates, TaskStates
  <2>2. ObjTypes' /\ MainTypes' /\ SetTypes' /\ QueueTypes'
    BY <1>0 DEF TaskRemoved, Types, ObjTypes, MainTypes, SetTypes, QueueTypes
  <2> QED BY <2>1, <2>2 DEF Types
<1>3. ASSUME NEW d \in Channels \ {c} PROVE Untouched(d)
  BY <1>0 DEF TaskRemoved, Untouched, Types, ObjTypes, MainTypes, WorkTypes
<1>4. Inv(c)'
  <2>1. MemInv(c)' /\ HandleInv(c)'
    BY <1>i, <1>e, <1>q DEF MemInv, HandleInv, Heard, Bound, Served, Count
  <2>2. BindInv(c)' /\ CommandInv(c)'
    BY <1>i, <1>e, <1>q DEF BindInv, CommandInv, Heard, SameFetch, Bound, Served
  <2>3. RefInv(c)'
    BY <1>i, <1>e, <1>q DEF RefInv, Heard, SameFetch, Count
  <2>4. OnceEach(c)'
    BY <1>q DEF Heard
  <2> USE DEF MemInv, HandleInv, BindInv, UnservedInv, ClearInv, CommandInv, RefInv, Heard,
            SameFetch, Bound, Served, Count
  <2>5. UnservedInv(c)'
    BY <1>i, <1>e, <1>q
  <2>6. ClearInv(c)'
    BY <1>i, <1>e, <1>q
  <2> QED BY <2>1, <2>2, <2>3, <2>4, <2>5, <2>6 DEF Inv
<1> QED BY <1>0, <1>1, <1>q, <1>3, <1>4, Joined

\* A task of the daemon has let go.
LEMMA DaemonTaskRemovedKeeps ==
    ASSUME IInv, NEW c \in Channels, DaemonTaskRemoved(c)
    PROVE  IInv'
<1> USE DEF objVars, mainVars, freeVars, sessVars, workVars, linkVars
<1>0. Types /\ (\A d \in Channels : Inv(d)) /\ Inv(c)
  BY DEF IInv
<1>i. /\ MemInv(c) /\ HandleInv(c) /\ BindInv(c) /\ UnservedInv(c) /\ ClearInv(c)
      /\ CommandInv(c) /\ RefInv(c) /\ OnceEach(c)
  BY <1>0 DEF Inv
<1>e. /\ daemonTask'[c] = "none"
      /\ UNCHANGED <<mem[c], isDead[c], ref[c], handshakeOK[c], keepAlive[c], freePc[c],
                     hWorkTCP[c], uvHandleRef[c], mainWrites[c], bindNext[c],
                     connectTimer[c], client[c], hChildWorkTCP[c], writes[c], childNext[c],
                     childCleared[c], task[c], lstMainThreadOP, mapForward, work>>
  BY <1>0 DEF DaemonTaskRemoved, Types, ObjTypes, MainTypes, WorkTypes
<1>q. \A d \in Channels : Heard(d) /\ SameFetch(d)
  BY <1>0, KeptCtrl, KeptLink, KeptFetch DEF DaemonTaskRemoved, Inv, Heard
<1>1. Types'
  <2>1. WorkTypes'
    BY <1>0, <1>e DEF DaemonTaskRemoved, Types, WorkTypes, ChildTcpStates, TaskStates
  <2>2. ObjTypes' /\ MainTypes' /\ SetTypes' /\ QueueTypes'
    BY <1>0 DEF DaemonTaskRemoved, Types, ObjTypes, MainTypes, SetTypes, QueueTypes
  <2> QED BY <2>1, <2>2 DEF Types
<1>3. ASSUME NEW d \in Channels \ {c} PROVE Untouched(d)
  BY <1>0 DEF DaemonTaskRemoved, Untouched, Types, ObjTypes, MainTypes, WorkTypes
<1>4. Inv(c)'
  <2>1. MemInv(c)' /\ HandleInv(c)'
    BY <1>i, <1>e, <1>q DEF MemInv, HandleInv, Heard, Bound, Served, Count
  <2>2. BindInv(c)' /\ ClearInv(c)'
    BY <1>i, <1>e, <1>q DEF BindInv, ClearInv, Heard, Bound, Served
  <2>3. CommandInv(c)' /\ RefInv(c)'
    BY <1>i, <1>e, <1>q DEF CommandInv, RefInv, Heard, SameFetch, Count
  <2>4. OnceEach(c)'
    BY <1>q DEF Heard
  <2> USE DEF MemInv, HandleInv, BindInv, UnservedInv, ClearInv, CommandInv, RefInv, Heard,
            SameFetch, Bound, Served, Count
  <2>5. UnservedInv(c)'
    BY <1>i, <1>e, <1>q
  <2> QED BY <2>1, <2>2, <2>3, <2>4, <2>5 DEF Inv
<1> QED BY <1>0, <1>1, <1>q, <1>3, <1>4, Joined

\* The client ends.
LEMMA ClientLeavesKeeps ==
    ASSUME IInv, NEW c \in Channels, ClientLeaves(c)
    PROVE  IInv'
<1> USE DEF objVars, mainVars, freeVars, sessVars, workVars, linkVars
<1>0. Types /\ (\A d \in Channels : Inv(d)) /\ Inv(c)
  BY DEF IInv
<1>i. /\ MemInv(c) /\ HandleInv(c) /\ BindInv(c) /\ UnservedInv(c) /\ ClearInv(c)
      /\ CommandInv(c) /\ RefInv(c) /\ OnceEach(c)
  BY <1>0 DEF Inv
<1>e. /\ client[c] \in {"here", "asked"} /\ client'[c] = "gone"
      /\ UNCHANGED <<mem[c], isDead[c], ref[c], handshakeOK[c], keepAlive[c], freePc[c],
                     hWorkTCP[c], uvHandleRef[c], mainWrites[c], bindNext[c],
                     connectTimer[c], hChildWorkTCP[c], writes[c], childNext[c],
                     childCleared[c], task[c], daemonTask[c], lstMainThreadOP, mapForward,
                     work>>
  BY <1>0 DEF ClientLeaves, Types, ObjTypes, MainTypes, WorkTypes
<1>q. \A d \in Channels : Heard(d) /\ SameFetch(d)
  BY <1>0, KeptCtrl, KeptLink, KeptFetch DEF ClientLeaves, Inv, Heard
<1>1. Types'
  <2>1. MainTypes'
    BY <1>0, <1>e DEF ClientLeaves, Types, MainTypes, WorkTcpStates
  <2>2. ObjTypes' /\ WorkTypes' /\ SetTypes' /\ QueueTypes'
    BY <1>0 DEF ClientLeaves, Types, ObjTypes, WorkTypes, SetTypes, QueueTypes
  <2> QED BY <2>1, <2>2 DEF Types
<1>3. ASSUME NEW d \in Channels \ {c} PROVE Untouched(d)
  BY <1>0 DEF ClientLeaves, Untouched, Types, ObjTypes, MainTypes, WorkTypes
<1>4. Inv(c)'
  <2>1. HandleInv(c)' /\ UnservedInv(c)'
    BY <1>i, <1>e, <1>q DEF HandleInv, UnservedInv, Heard, SameFetch, Served, Count
  <2>2. ClearInv(c)' /\ CommandInv(c)'
    BY <1>i, <1>e, <1>q DEF ClearInv, CommandInv, Heard, SameFetch, Served
  <2>3. RefInv(c)'
    BY <1>i, <1>e, <1>q DEF RefInv, Heard, SameFetch, Count
  <2>4. OnceEach(c)'
    BY <1>q DEF Heard
  <2> USE DEF MemInv, HandleInv, BindInv, UnservedInv, ClearInv, CommandInv, RefInv, Heard,
            SameFetch, Bound, Served, Count
  <2>5. MemInv(c)'
    BY <1>i, <1>e, <1>q
  <2>6. BindInv(c)'
    BY <1>i, <1>e, <1>q
  <2> QED BY <2>1, <2>2, <2>3, <2>4, <2>5, <2>6 DEF Inv
<1> QED BY <1>0, <1>1, <1>q, <1>3, <1>4, Joined

\* A task of the daemon sends.
LEMMA DaemonTaskSendsKeeps ==
    ASSUME IInv, NEW c \in Channels, DaemonTaskSends(c)
    PROVE  IInv'
<1> USE DEF objVars, mainVars, freeVars, sessVars, workVars, linkVars
<1>0. Types /\ (\A d \in Channels : Inv(d)) /\ Inv(c)
  BY DEF IInv
<1>i. /\ MemInv(c) /\ HandleInv(c) /\ BindInv(c) /\ UnservedInv(c) /\ ClearInv(c)
      /\ CommandInv(c) /\ RefInv(c) /\ OnceEach(c)
  BY <1>0 DEF Inv
<1>e. /\ daemonTask[c] = "run"
      /\ UNCHANGED <<mem[c], isDead[c], ref[c], handshakeOK[c], keepAlive[c], freePc[c],
                     hWorkTCP[c], uvHandleRef[c], mainWrites[c], bindNext[c],
                     connectTimer[c], client[c], hChildWorkTCP[c], writes[c], childNext[c],
                     childCleared[c], task[c], daemonTask[c], lstMainThreadOP, mapForward,
                     work>>
  BY <1>0 DEF DaemonTaskSends, Types, ObjTypes, MainTypes, WorkTypes
<1>s. /\ toServer' \in Seq(Commands)
      /\ \A d \in Channels : Talk(d)' => Talk(d) \/ d = c
  <2>1. PICK m \in Commands : m.ch = c /\ toServer' = Append(toServer, m)
    BY CommandKinds DEF DaemonTaskSends
  <2>2. UNCHANGED toDaemon /\ toServer \in Seq(Commands)
    BY <1>0 DEF DaemonTaskSends, Types, QueueTypes
  <2> QED BY <2>1, <2>2, Appended DEF Talk
<1>2. \A d \in Channels \ {c} : Heard(d) /\ SameFetch(d)
  BY <1>0, <1>s, KeptCtrl, KeptFetch DEF DaemonTaskSends, Inv, Heard
<1>q. /\ (Attaching(c)' => Attaching(c)) /\ (Detaching(c)' => Detaching(c)) /\ OnceEach(c)'
      /\ SameFetch(c)
  BY <1>0, KeptCtrl, KeptFetch DEF DaemonTaskSends, Inv
<1>1. Types'
  <2>1. QueueTypes'
    BY <1>0, <1>s DEF DaemonTaskSends, Types, QueueTypes
  <2>2. ObjTypes' /\ MainTypes' /\ WorkTypes' /\ SetTypes'
    BY <1>0 DEF DaemonTaskSends, Types, ObjTypes, MainTypes, WorkTypes, SetTypes
  <2> QED BY <2>1, <2>2 DEF Types
<1>3. ASSUME NEW d \in Channels \ {c} PROVE Untouched(d)
  BY <1>0 DEF DaemonTaskSends, Untouched, Types, ObjTypes, MainTypes, WorkTypes
<1>4. Inv(c)'
  <2>1. MemInv(c)' /\ HandleInv(c)'
    BY <1>i, <1>e, <1>q DEF MemInv, HandleInv, Heard, Bound, Served, Count
  <2>2. BindInv(c)' /\ ClearInv(c)'
    BY <1>i, <1>e, <1>q DEF BindInv, ClearInv, Heard, Bound, Served
  <2>3. CommandInv(c)' /\ RefInv(c)'
    BY <1>i, <1>e, <1>q DEF CommandInv, RefInv, Heard, SameFetch, Count
  <2>4. OnceEach(c)'
    BY <1>q DEF Heard
  <2> USE DEF MemInv, HandleInv, BindInv, UnservedInv, ClearInv, CommandInv, RefInv, Heard,
            SameFetch, Bound, Served, Count
  <2>5. UnservedInv(c)'
    BY <1>i, <1>e, <1>q
  <2> QED BY <2>1, <2>2, <2>3, <2>4, <2>5 DEF Inv
<1> QED BY <1>0, <1>1, <1>2, <1>3, <1>4, Joined

\* The daemon takes a command and may answer it.
LEMMA DaemonFetchKeeps ==
    ASSUME IInv, NEW c \in Channels, DaemonFetch, c = Head(toDaemon).ch
    PROVE  IInv'
<1> USE DEF objVars, mainVars, freeVars, sessVars, workVars, linkVars
<1>0. Types /\ (\A d \in Channels : Inv(d)) /\ Inv(c)
  BY DEF IInv
<1>i. /\ MemInv(c) /\ HandleInv(c) /\ BindInv(c) /\ UnservedInv(c) /\ ClearInv(c)
      /\ CommandInv(c) /\ RefInv(c) /\ OnceEach(c)
  BY <1>0 DEF Inv
<1>s. /\ Head(toDaemon) \in Commands /\ Head(toDaemon).count \in 0 .. 1 /\ Talk(c)
      /\ toDaemon' \in Seq(Commands)
      /\ \A d : About(toDaemon, d)' => About(toDaemon, d)
  <2>1. toDaemon \in Seq(Commands) /\ toDaemon # <<>> /\ toDaemon' = Tail(toDaemon)
    BY <1>0 DEF DaemonFetch, Types, QueueTypes
  <2>2. /\ Head(toDaemon) \in Commands /\ About(toDaemon, c) /\ toDaemon' \in Seq(Commands)
        /\ \A d : About(toDaemon, d)' => About(toDaemon, d)
    BY <2>1, Taken
  <2>3. Head(toDaemon).count \in 0 .. 1
    BY <2>2 DEF Commands
  <2> QED BY <2>2, <2>3 DEF Talk
<1>t. /\ toServer' \in Seq(Commands)
      /\ \A d : About(toServer, d)' => About(toServer, d) \/ d = c
  <2>1. toServer \in Seq(Commands)
    BY <1>0 DEF Types, QueueTypes
  <2>2. CASE toServer' = toServer
    BY <2>1, <2>2
  <2>3. ASSUME NEW m \in Commands, m.ch = c, toServer' = Append(toServer, m)
        PROVE  /\ toServer' \in Seq(Commands)
               /\ \A d : About(toServer, d)' => About(toServer, d) \/ d = c
    BY <2>1, <2>3, Appended
  <2>4. \/ toServer' = toServer
        \/ \E m \in Commands : m.ch = c /\ toServer' = Append(toServer, m)
    <3>1. CASE Head(toDaemon).cmd = "CHANNEL_CLOSE" /\ Head(toDaemon).count # 0
      <4>1. Head(toDaemon).count - 1 \in 0 .. 1
        BY <1>s, <3>1
      <4>2. toServer' = Append(toServer, Close(c, Head(toDaemon).count - 1))
        BY <3>1 DEF DaemonFetch
      <4> QED BY <4>1, <4>2, CommandKinds
    <3>2. CASE Head(toDaemon).cmd = "INIT"
      BY <3>2, CommandKinds DEF DaemonFetch
    <3>3. CASE ~(Head(toDaemon).cmd = "CHANNEL_CLOSE" /\ Head(toDaemon).count # 0)
               /\ Head(toDaemon).cmd # "INIT"
      BY <3>3 DEF DaemonFetch
    <3> QED BY <3>1, <3>2, <3>3
  <2> QED BY <2>2, <2>3, <2>4
<1>m. Served(c)
  BY <1>i, <1>s DEF UnservedInv
<1>e. /\ daemonTask'[c] \in TaskStates /\ Served(c)
      /\ UNCHANGED <<mem[c], isDead[c], ref[c], handshakeOK[c], keepAlive[c], freePc[c],
                     hWorkTCP[c], uvHandleRef[c], mainWrites[c], bindNext[c],
                     connectTimer[c], client[c], hChildWorkTCP[c], writes[c], childNext[c],
                     childCleared[c], task[c], lstMainThreadOP, mapForward, work>>
  BY <1>0, <1>m DEF DaemonFetch, Stopped, TaskStates, Types, ObjTypes, MainTypes, WorkTypes
<1>2. \A d \in Channels \ {c} : Heard(d) /\ SameFetch(d)
  BY <1>0, <1>s, <1>t, KeptCtrl, KeptFetch DEF DaemonFetch, Inv, Heard, Talk
<1>q. /\ (Attaching(c)' => Attaching(c)) /\ (Detaching(c)' => Detaching(c)) /\ OnceEach(c)'
      /\ SameFetch(c)
  BY <1>0, KeptCtrl, KeptFetch DEF DaemonFetch, Inv
<1>1. Types'
  <2>1. WorkTypes'
    BY <1>0, <1>e, <1>m, <1>s
       DEF DaemonFetch, Stopped, Types, WorkTypes, ChildTcpStates, TaskStates
  <2>2. QueueTypes'
    BY <1>0, <1>s, <1>t DEF DaemonFetch, Stopped, Types, QueueTypes
  <2>3. ObjTypes' /\ MainTypes' /\ SetTypes'
    BY <1>0 DEF DaemonFetch, Stopped, Types, ObjTypes, MainTypes, SetTypes
  <2> QED BY <2>1, <2>2, <2>3 DEF Types
<1>3. ASSUME NEW d \in Channels \ {c} PROVE Untouched(d)
  BY <1>0, <1>m DEF DaemonFetch, Stopped, Untouched, Types, ObjTypes, MainTypes, WorkTypes
<1>4. Inv(c)'
  <2>1. MemInv(c)' /\ HandleInv(c)'
    BY <1>i, <1>e, <1>q DEF MemInv, HandleInv, Heard, Bound, Served, Count
  <2>2. BindInv(c)' /\ ClearInv(c)'
    BY <1>i, <1>e, <1>q DEF BindInv, ClearInv, Heard, Bound, Served
  <2>3. CommandInv(c)' /\ RefInv(c)'
    BY <1>i, <1>e, <1>q DEF CommandInv, RefInv, Heard, SameFetch, Count
  <2>4. OnceEach(c)'
    BY <1>q DEF Heard
  <2> USE DEF MemInv, HandleInv, BindInv, UnservedInv, ClearInv, CommandInv, RefInv, Heard,
            SameFetch, Bound, Served, Count
  <2>5. UnservedInv(c)'
    BY <1>i, <1>e, <1>q, <1>m
  <2> QED BY <2>1, <2>2, <2>3, <2>4, <2>5 DEF Inv
<1> QED BY <1>0, <1>1, <1>2, <1>3, <1>4, Joined

\* FreeChannels marks those dead that are there and alive, and touches no other.
LEMMA FreeChannelsEffect ==
    ASSUME ObjTypes, NEW cs, FreeChannels(cs)
    PROVE  /\ isDead' \in [Channels -> BOOLEAN] /\ freePc' \in [Channels -> FreeStates]
           /\ \A d \in Channels :
                 IF d \in cs /\ mem[d] = "alloc" /\ ~isDead[d]
                 THEN isDead'[d] /\ freePc'[d] = "operate"
                 ELSE isDead'[d] = isDead[d] /\ freePc'[d] = freePc[d]
BY DEF ObjTypes, FreeChannels, MayFree, FreeStates

\* The client of one channel removes the rule of another.
LEMMA RemoveForwardKeeps ==
    ASSUME IInv, NEW c \in Channels, NEW k \in Channels, RemoveForward(c, k)
    PROVE  IInv'
<1> USE DEF mainVars, sessVars, workVars, linkVars
<1>0. Types /\ \A d \in Channels : Inv(d)
  BY DEF IInv
<1>1. PICK cs \in SUBSET {c, k} : FreeChannels(cs)
  BY DEF RemoveForward
<1>2. /\ isDead' \in [Channels -> BOOLEAN] /\ freePc' \in [Channels -> FreeStates]
      /\ \A d \in Channels :
            IF d \in cs /\ mem[d] = "alloc" /\ ~isDead[d]
            THEN isDead'[d] /\ freePc'[d] = "operate"
            ELSE isDead'[d] = isDead[d] /\ freePc'[d] = freePc[d]
  BY <1>0, <1>1, FreeChannelsEffect DEF Types
<1>3. /\ Served(c) /\ hWorkTCP[k] = "open" /\ handshakeOK[k] /\ client[k] = "here"
  BY <1>0 DEF RemoveForward, MainReadable, Inv, UnservedInv
<1>4. /\ mapForward' = mapForward \ {c}
      /\ task' = [d \in Channels |-> IF d = c /\ task[d] = "run" THEN "stop" ELSE task[d]]
      /\ client' \in [Channels -> {"none", "here", "asked", "gone"}]
      /\ client'[k] # "none" /\ \A d \in Channels \ {k} : client'[d] = client[d]
  <2>1. task' = [d \in Channels |-> IF d = c /\ task[d] = "run" THEN "stop" ELSE task[d]]
    BY <1>0 DEF RemoveForward, Stopped, Types, WorkTypes
  <2>2. /\ client' \in [Channels -> {"none", "here", "asked", "gone"}]
        /\ client'[k] # "none" /\ \A d \in Channels \ {k} : client'[d] = client[d]
    BY <1>0, <1>3 DEF RemoveForward, Asked, Types, MainTypes
  <2> QED BY <2>1, <2>2 DEF RemoveForward
<1>5. UNCHANGED <<mem, ref, handshakeOK, keepAlive, hWorkTCP, uvHandleRef, mainWrites, bindNext,
                  connectTimer, lstMainThreadOP, session, work, ctrl, fetch, hChildWorkTCP,
                  writes, childNext, childCleared, toDaemon, toServer, daemonTask>>
  BY DEF RemoveForward
<1>6. Types'
  <2>1. task' \in [Channels -> TaskStates]
    BY <1>0, <1>4 DEF Types, WorkTypes, TaskStates
  <2> QED BY <1>0, <1>2, <1>4, <1>5, <2>1
          DEF Types, ObjTypes, MainTypes, WorkTypes, SetTypes, QueueTypes
<1>7. ASSUME NEW d \in Channels PROVE Inv(d)'
  <2>1. Inv(d) /\ Heard(d) /\ SameFetch(d)
    BY <1>0, <1>5, KeptCtrl, KeptLink, KeptFetch DEF Inv, Heard
  <2>2. /\ isDead'[d] = isDead[d] /\ freePc'[d] = freePc[d]
        \/ /\ mem[d] = "alloc" /\ ~isDead[d] /\ isDead'[d] /\ freePc'[d] = "operate"
           /\ Served(d) \/ (hWorkTCP[d] = "open" /\ handshakeOK[d])
    BY <1>1, <1>2, <1>3
  <2>3. /\ client'[d] = client[d] \/ (client[d] = "here" /\ client'[d] # "none" /\ handshakeOK[d])
        /\ task'[d] = task[d] \/ (task[d] = "run" /\ task'[d] = "stop")
        /\ d \in mapForward' => d \in mapForward
    BY <1>3, <1>4
  <2>4. MemInv(d)'
    BY <1>5, <2>1, <2>2, <2>3 DEF Inv, Heard, MemInv, Bound, Served
  <2>5. HandleInv(d)'
    BY <1>5, <2>1, <2>2 DEF Inv, HandleInv, MemInv, Count
  <2>6. BindInv(d)'
    BY <1>5, <2>1, <2>2, <2>3 DEF Inv, Heard, BindInv, Bound, Served
  <2>7. UnservedInv(d)' /\ ClearInv(d)'
    BY <1>5, <2>1, <2>2, <2>3 DEF Inv, Heard, SameFetch, MemInv, UnservedInv, ClearInv, Served
  <2>8. CommandInv(d)' /\ RefInv(d)' /\ OnceEach(d)'
    BY <1>5, <2>1, <2>2 DEF Inv, Heard, SameFetch, CommandInv, RefInv, Count
  <2> QED BY <2>4, <2>5, <2>6, <2>7, <2>8 DEF Inv
<1> QED BY <1>6, <1>7 DEF IInv

-----------------------------------------------------------------------------
(* The invariant, and what follows from it.                                *)

\* The initial state satisfies the invariant.
LEMMA InitInv == Init => IInv
<1> SUFFICES ASSUME Init PROVE IInv
  OBVIOUS
<1>1. Types
  <2>1. ObjTypes /\ MainTypes /\ WorkTypes /\ SetTypes
    BY ConstantsAssumption
       DEF ConstantsAssumption, Init, All, ObjTypes, MainTypes, WorkTypes, SetTypes, FreeStates,
           WorkTcpStates, ChildTcpStates, TaskStates
  <2>2. QueueTypes
    BY DEF Init, QueueTypes
  <2> QED BY <2>1, <2>2 DEF Types
<1>2. ASSUME NEW c \in Channels PROVE Inv(c)
  <2>1. ~Attaching(c) /\ ~Detaching(c) /\ ~Talk(c) /\ ~Fetched(c) /\ OnceEach(c)
    BY Emptied DEF Init, Attaching, Detaching, Talk, Fetched, OnceEach
  <2>2. MemInv(c) /\ HandleInv(c) /\ BindInv(c)
    BY <2>1 DEF Init, All, MemInv, HandleInv, BindInv, Bound, Served
  <2>3. UnservedInv(c) /\ ClearInv(c) /\ CommandInv(c) /\ RefInv(c)
    BY <2>1 DEF Init, All, UnservedInv, ClearInv, CommandInv, RefInv, Served, Count
  <2> QED BY <2>1, <2>2, <2>3 DEF Inv
<1> QED BY <1>1, <1>2 DEF IInv

\* Every step keeps it.
LEMMA NextInv == IInv /\ [Next]_vars => IInv'
<1> SUFFICES ASSUME IInv, [Next]_vars PROVE IInv'
  OBVIOUS
<1>0. Types /\ \A d \in Channels : Inv(d)
  BY DEF IInv
<1>1. CASE UNCHANGED vars
  <2>1. \A d \in Channels : Heard(d) /\ SameFetch(d) /\ Untouched(d)
    BY <1>0, <1>1, KeptCtrl, KeptLink, KeptFetch
       DEF vars, objVars, mainVars, freeVars, sessVars, workVars, linkVars, Inv, Heard, Untouched
  <2>2. Types'
    BY <1>0, <1>1
       DEF vars, objVars, mainVars, freeVars, sessVars, workVars, linkVars, Types, ObjTypes,
           MainTypes, WorkTypes, SetTypes, QueueTypes
  <2> QED BY <1>0, <2>1, <2>2, JoinedNone
<1>2. ASSUME NEW c \in Channels, MainLoop(c) PROVE IInv'
  BY <1>2, WorkTcpClosedKeeps, SendAttachKeeps, MainReadEndKeeps, OrderConnecTargetResultKeeps,
     MainWriteCallbackKeeps, AsyncMainLoopTaskKeeps, FreeChannelAtOnceKeeps,
     FreeChannelOpeateKeeps, CheckFreeChannelContinueKeeps, CloseChannelHandleKeeps,
     FreeChannelFinallyKeeps
     DEF MainLoop
<1>3. ASSUME NEW c \in Channels, ReadCtrl(c) PROVE IInv'
  BY <1>3, AttachChannelKeeps, DeatchChannelKeeps DEF ReadCtrl
<1>4. ASSUME NEW c \in Channels, WorkerLoop(c) PROVE IInv'
  BY <1>4, ChildTcpClosedKeeps, ChildNextLoopKeeps, ChildReadEndKeeps, ChildWriteCallbackKeeps,
     FetchEchoKeeps, FetchCloseKeeps, FetchForwardSuccessKeeps, FetchWakeupKeeps
     DEF WorkerLoop
<1>5. ASSUME NEW c \in Channels, Requests(c) PROVE IInv'
  BY <1>5, AcceptClientKeeps, HandShakeLocalKeeps, BindChannelToSessionKeeps, LocalAnswerKeeps,
     EnableKeepAliveKeeps, NewConnectTryKeeps, RemoveForwardKeeps, CommandToDaemonKeeps,
     TaskCommandKeeps, CommandRefusedKeeps, ServerCommandKeeps, TaskFinishKeeps,
     DaemonTaskSendsKeeps, ClientLeavesKeeps
     DEF Requests
<1>6. ASSUME FetchDead \/ FetchAlive \/ DaemonFetch PROVE IInv'
  <2>1. CASE FetchDead \/ FetchAlive
    <3>1. fetch.msg.ch \in Channels
      BY <1>0, <2>1
         DEF FetchDead, FetchAlive, Fetching, Types, QueueTypes, Fetches, Commands
    <3> QED BY <2>1, <3>1, FetchDeadKeeps, FetchAliveKeeps
  <2>2. CASE DaemonFetch
    <3>1. toDaemon \in Seq(Commands) /\ toDaemon # <<>>
      BY <1>0, <2>2 DEF DaemonFetch, Types, QueueTypes
    <3>2. Head(toDaemon) \in Commands
      BY <3>1, Taken
    <3>3. Head(toDaemon).ch \in Channels
      BY <3>2 DEF Commands
    <3> QED BY <2>2, <3>3, DaemonFetchKeeps
  <2> QED BY <1>6, <2>1, <2>2
<1> QED BY <1>1, <1>2, <1>3, <1>4, <1>5, <1>6, TaskRemovedKeeps, DaemonTaskRemovedKeeps,
           FreeSessionKeeps, FreeSessionOpeateKeeps, StopSessionKeeps,
           ReChildLoopForSessionClearKeeps, FetchCommandKeeps
           DEF Next

\* The inductive invariant.
THEOREM Invariance == Spec => []IInv
<1> QED BY InitInv, NextInv, PTL DEF Spec

\* Every variable keeps its type; with it, that no socket has more writes in flight
\* than the bound and that uvHandleRef is 0 or 1.
THEOREM TypeCorrect == Spec => []TypeOK
<1>1. IInv => TypeOK
  BY DEF IInv, Types, ObjTypes, MainTypes, WorkTypes, SetTypes, QueueTypes, TypeOK
<1> QED BY <1>1, Invariance, PTL

\* ref is the number of writes of both threads, close callbacks of a binding and
\* commands in FetchCommand: every path through channel.cpp and FetchCommand that adds a
\* reference takes it back once.
THEOREM References == Spec => []RefCounted
<1>1. IInv => RefCounted
  BY DEF IInv, Inv, RefInv, RefCounted
<1> QED BY <1>1, Invariance, PTL

\* Nobody has a deleted channel who will use it without asking again.
LEMMA FreedAlone ==
    ASSUME IInv, NEW c \in Channels,
           freePc[c] = "done" \/ (freePc[c] = "finally" /\ uvHandleRef[c] = 0)
    PROVE  /\ hWorkTCP[c] = "closed" /\ mainWrites[c] = 0 /\ ~bindNext[c]
           /\ hChildWorkTCP[c] \in {"none", "closed"} /\ writes[c] = 0 /\ ~childNext[c]
           /\ ~Checked(c) /\ task[c] # "run"
<1>1. /\ MemInv(c) /\ HandleInv(c) /\ BindInv(c) /\ UnservedInv(c) /\ ClearInv(c)
      /\ CommandInv(c)
  BY DEF IInv, Inv
<1>2. isDead[c] /\ hWorkTCP[c] = "closed" /\ mainWrites[c] = 0 /\ ~Checked(c) /\ ~bindNext[c]
  BY <1>1 DEF MemInv, HandleInv, BindInv, CommandInv, Bound, Count
<1>3. CASE Served(c)
  BY <1>1, <1>2, <1>3 DEF ClearInv
<1>4. CASE ~Served(c)
  BY <1>1, <1>2, <1>4 DEF UnservedInv, Served
<1> QED BY <1>2, <1>3, <1>4

\* When a channel is deleted no handle, request, timer task or running command of either
\* thread has its address, and its own task does not run.
THEOREM FreedIsForgotten == Spec => []NoDangling
<1>1. ASSUME IInv PROVE NoDangling
  <2>1. ASSUME NEW c \in Channels, mem[c] = "freed"
        PROVE  ~MainUses(c) /\ ~WorkerUses(c) /\ task[c] # "run"
    <3>1. freePc[c] = "done"
      BY <1>1, <2>1 DEF IInv, Inv, MemInv
    <3> QED BY <1>1, <3>1, FreedAlone DEF MainUses, WorkerUses, Checked
  <2> QED BY <2>1 DEF NoDangling
<1> QED BY <1>1, Invariance, PTL

-----------------------------------------------------------------------------
(* The promise of SessionOwnership.                                        *)

\* A step as the promise sees it.
Step == [Ownership!Next]_(Ownership!ownVars)

\* A channel without a user, in the sense of the promise.
Unused(c) == /\ mem[c] = "alloc" => freePc[c] = "finally"
             /\ hWorkTCP[c] \notin {"inited", "open", "bindClosing", "freeClosing"}
             /\ ~(mainWrites[c] > 0) /\ ~bindNext[c]
             /\ hChildWorkTCP[c] \notin {"open", "closing", "clearClosing"}
             /\ ~(writes[c] > 0) /\ ~childNext[c] /\ ~Checked(c)

\* It is one that has no users there.
LEMMA NoUsers == \A c : /\ UsersOf(c) = {} <=> Unused(c)
                        /\ UsersOf(c)' = {} <=> Unused(c)'
<1>1. ASSUME NEW c PROVE UsersOf(c) = {} <=> Unused(c)
  BY DEF UsersOf, ChannelUsers, Unused, Checked
<1>2. ASSUME NEW c PROVE UsersOf(c)' = {} <=> Unused(c)'
  BY DEF UsersOf, ChannelUsers, Unused, Checked
<1> QED BY <1>1, <1>2

\* What has a user is there.
LEMMA UsedIsThere ==
    ASSUME IInv, NEW c \in Channels, UsersOf(c) # {}
    PROVE  mem[c] = "alloc"
<1>1. MemInv(c) /\ HandleInv(c) /\ UnservedInv(c) /\ Types
  BY DEF IInv, Inv
<1>2. ~Unused(c)
  BY NoUsers
<1>3. mem[c] \in {"none", "alloc", "freed"}
  BY <1>1 DEF Types, ObjTypes
<1>4. mem[c] # "none"
  BY <1>1, <1>2 DEF MemInv, UnservedInv, Unused, Bound, Served, Checked
<1>5. ASSUME mem[c] = "freed" PROVE FALSE
  <2>1. freePc[c] = "done"
    BY <1>1, <1>5 DEF MemInv
  <2> QED BY <1>2, <1>5, <2>1, FreedAlone DEF Unused
<1> QED BY <1>3, <1>4, <1>5

\* A step in which no channel is created, deleted or brought back to life, and a user
\* only comes to a channel that has one.
Calm(c) == /\ mem'[c] = mem[c]
           /\ isDead[c] => isDead'[c]
           /\ Unused(c) => Unused(c)'

\* Such a step kills channels and moves users, at most.
LEMMA CalmStep ==
    ASSUME IInv, IInv', \A c \in Channels : Calm(c)
    PROVE  Step
<1> DEFINE life == [c \in Channels |-> LifeOf(c)]
           users == [c \in Channels |-> UsersOf(c)]
           Dying == {c \in Channels : life[c] = "live" /\ isDead'[c]}
<1>0. /\ mem \in [Channels -> {"none", "alloc", "freed"}]
      /\ isDead \in [Channels -> BOOLEAN] /\ isDead' \in [Channels -> BOOLEAN]
  BY DEF IInv, Types, ObjTypes
<1>1. life' = [c \in Channels |-> IF c \in Dying THEN "dying" ELSE life[c]]
  <2>1. ASSUME NEW c \in Channels
        PROVE  LifeOf(c)' = IF c \in Dying THEN "dying" ELSE LifeOf(c)
    <3>0. mem'[c] = mem[c] /\ (isDead[c] => isDead'[c])
      BY DEF Calm
    <3>1. CASE mem[c] = "alloc"
      BY <1>0, <3>0, <3>1 DEF LifeOf
    <3>2. CASE mem[c] # "alloc"
      <4>1. LifeOf(c)' = LifeOf(c) /\ LifeOf(c) # "live"
        BY <1>0, <3>0, <3>2 DEF LifeOf
      <4> QED BY <4>1
    <3> QED BY <3>1, <3>2
  <2> QED BY <2>1
<1>2. Dying \in SUBSET {c \in Channels : life[c] = "live"}
  OBVIOUS
<1>3. users' \in [Channels -> SUBSET ChannelUsers]
  <2>1. \A c \in Channels : UsersOf(c)' \in SUBSET ChannelUsers
    BY DEF UsersOf
  <2> QED BY <2>1
<1>4. ASSUME NEW c \in Channels, users'[c] # users[c]
      PROVE  life[c] \in {"live", "dying"} /\ users[c] # {}
  <2>1. users'[c] = UsersOf(c)' /\ users[c] = UsersOf(c) /\ life[c] = LifeOf(c)
    OBVIOUS
  <2>2. UsersOf(c) # {}
    BY <1>4, <2>1, NoUsers DEF Calm
  <2>3. mem[c] = "alloc"
    BY <2>2, UsedIsThere
  <2>4. LifeOf(c) \in {"live", "dying"}
    BY <2>3 DEF LifeOf
  <2> QED BY <2>1, <2>2, <2>4
<1> HIDE DEF life, users, Dying
<1>5. Ownership!UsersMove
  BY <1>3, <1>4 DEF Ownership!UsersMove, Ownership!Present, life, users
<1>6. Ownership!Kill
  BY <1>1, <1>2, <1>5 DEF Ownership!Kill, life
<1> QED BY <1>6 DEF Step, Ownership!Next

\* The life and the users of the channels a step does not touch.
LEMMA Alone ==
    ASSUME NEW c, UNCHANGED <<mem[c], isDead[c], freePc[c], hWorkTCP[c], mainWrites[c],
                              bindNext[c], hChildWorkTCP[c], writes[c], childNext[c], fetch>>
    PROVE  LifeOf(c)' = LifeOf(c) /\ UsersOf(c)' = UsersOf(c)
BY DEF LifeOf, UsersOf, Fetched

\* The main loop accepts a channel, and has it; a connection that cannot be accepted is
\* to be freed at once.
LEMMA AcceptRefines ==
    ASSUME IInv, NEW c \in Channels, AcceptClient(c)
    PROVE  Step
<1> DEFINE life == [d \in Channels |-> LifeOf(d)]
           users == [d \in Channels |-> UsersOf(d)]
<1> USE DEF objVars, mainVars, freeVars, sessVars, workVars, linkVars
<1>0. Types /\ MemInv(c) /\ UnservedInv(c)
  BY DEF IInv, Inv
<1>1. /\ mem[c] = "none" /\ mem'[c] = "alloc"
      /\ freePc[c] = "none" /\ freePc'[c] \in {"none", "operate"}
  BY <1>0 DEF AcceptClient, MemInv, Types, ObjTypes
<1>2. life[c] = "none" /\ LifeOf(c)' \in {"live", "dying"}
  BY <1>1 DEF LifeOf
<1>3. "mainLoop" \in UsersOf(c)' /\ UsersOf(c)' \in SUBSET ChannelUsers
  BY <1>1 DEF UsersOf, ChannelUsers
<1>4. ASSUME NEW d \in Channels \ {c} PROVE LifeOf(d)' = LifeOf(d) /\ UsersOf(d)' = UsersOf(d)
  <2>1. UNCHANGED <<mem[d], isDead[d], freePc[d], hWorkTCP[d], mainWrites[d], bindNext[d],
                    hChildWorkTCP[d], writes[d], childNext[d], fetch>>
    BY <1>0 DEF AcceptClient, Types, ObjTypes, MainTypes, WorkTypes
  <2> QED BY <2>1, Alone
<1>5. life' = [life EXCEPT ![c] = LifeOf(c)'] /\ users' = [users EXCEPT ![c] = UsersOf(c)']
  BY <1>4
<1> HIDE DEF life, users
<1>6. Ownership!Create(c)
  BY <1>2, <1>3, <1>5 DEF Ownership!Create, life, users
<1> QED BY <1>6 DEF Step, Ownership!Next

\* The channel that is deleted is dead, and its last user has gone.
LEMMA FinallyRefines ==
    ASSUME IInv, NEW c \in Channels, FreeChannelFinally(c)
    PROVE  Step
<1> DEFINE life == [d \in Channels |-> LifeOf(d)]
           users == [d \in Channels |-> UsersOf(d)]
<1> USE DEF objVars, mainVars, freeVars, sessVars, workVars, linkVars
<1>0. Types /\ MemInv(c) /\ HandleInv(c)
  BY DEF IInv, Inv
<1>1. freePc[c] = "finally" /\ uvHandleRef[c] = 0 /\ mem'[c] = "freed"
  BY <1>0 DEF FreeChannelFinally, Types, ObjTypes
<1>2. mem[c] = "alloc" /\ isDead[c]
  BY <1>0, <1>1 DEF MemInv, HandleInv, Types, ObjTypes
<1>3. Unused(c)
  BY <1>1, FreedAlone DEF Unused
<1>4. Unused(c)'
  BY <1>1, <1>3 DEF FreeChannelFinally, Unused, Checked, Fetched
<1>5. life[c] = "dying" /\ users[c] = {} /\ LifeOf(c)' = "freed" /\ UsersOf(c)' = {}
  <2>1. UsersOf(c) = {} /\ UsersOf(c)' = {}
    BY <1>3, <1>4, NoUsers
  <2>2. LifeOf(c) = "dying" /\ LifeOf(c)' = "freed"
    BY <1>1, <1>2 DEF LifeOf
  <2> QED BY <2>1, <2>2
<1>6. ASSUME NEW d \in Channels \ {c} PROVE LifeOf(d)' = LifeOf(d) /\ UsersOf(d)' = UsersOf(d)
  <2>1. UNCHANGED <<mem[d], isDead[d], freePc[d], hWorkTCP[d], mainWrites[d], bindNext[d],
                    hChildWorkTCP[d], writes[d], childNext[d], fetch>>
    BY <1>0 DEF FreeChannelFinally, Types, ObjTypes
  <2> QED BY <2>1, Alone
<1>7. life' = [life EXCEPT ![c] = "freed"] /\ users' = users
  BY <1>5, <1>6
<1> HIDE DEF life, users
<1>8. Ownership!Destroy(c)
  BY <1>5, <1>7 DEF Ownership!Destroy, life, users
<1> QED BY <1>8 DEF Step, Ownership!Next

\* The message at the head of the control socket is under way.
LEMMA CtrlHead ==
    ASSUME Types, NEW c, ctrl # <<>>
    PROVE  /\ Head(ctrl) = Ctrl("SP_ATTACH_CHANNEL", c) => Attaching(c)
           /\ Head(ctrl) = Ctrl("SP_DEATCH_CHANNEL", c) => Detaching(c)
BY Taken DEF Types, QueueTypes, Attaching, Detaching, Attach, Detach

\* The steps of the main loop, but the last of a free, are calm.
LEMMA MainCalm ==
    ASSUME IInv, NEW c \in Channels, NEW d \in Channels, MainLoop(c), ~FreeChannelFinally(c)
    PROVE  Calm(d)
<1> USE DEF objVars, mainVars, freeVars, sessVars, workVars, linkVars, Calm, Unused, Checked,
            Fetched
<1>0. /\ Types /\ MemInv(c) /\ MemInv(d) /\ HandleInv(c) /\ HandleInv(d) /\ BindInv(c)
      /\ UnservedInv(c) /\ ClearInv(c)
  BY DEF IInv, Inv
<1>1. CASE WorkTcpClosed(c)
  BY <1>0, <1>1
     DEF WorkTcpClosed, Types, ObjTypes, MainTypes, WorkTypes, MemInv
<1>2. CASE SendAttach(c)
  BY <1>0, <1>2
     DEF SendAttach, Types, ObjTypes, MainTypes, WorkTypes, MemInv
<1>3. CASE MainReadEnd(c)
  BY <1>0, <1>3, FreeChannelEffect
     DEF MainReadEnd, Types, ObjTypes, MainTypes, WorkTypes, MemInv
<1>4. CASE OrderConnecTargetResult(c)
  BY <1>0, <1>4, FreeChannelEffect, EchoMainEffect
     DEF OrderConnecTargetResult, Types, ObjTypes, MainTypes, WorkTypes, MemInv
<1>5. CASE \E ok \in BOOLEAN : MainWriteCallback(c, ok)
  BY <1>0, <1>5, FreeChannelEffect
     DEF MainWriteCallback, Types, ObjTypes, MainTypes, WorkTypes, MemInv
<1>6. CASE AsyncMainLoopTask(c)
  BY <1>0, <1>6, FreeChannelEffect
     DEF AsyncMainLoopTask, Types, ObjTypes, MainTypes, WorkTypes, MemInv
<1>7. CASE FreeChannelAtOnce(c)
  BY <1>0, <1>7
     DEF FreeChannelAtOnce, FreeChannelContinue, Types, ObjTypes, MainTypes, WorkTypes,
         MemInv
<1>8. CASE FreeChannelOpeate(c)
  BY <1>0, <1>8
     DEF FreeChannelOpeate, Types, ObjTypes, MainTypes, WorkTypes, MemInv
<1>9. CASE CheckFreeChannelContinue(c)
  BY <1>0, <1>9
     DEF CheckFreeChannelContinue, FreeChannelContinue, Types, ObjTypes, MainTypes,
         WorkTypes, MemInv
<1>10. CASE CloseChannelHandle(c)
  BY <1>0, <1>10
     DEF CloseChannelHandle, Types, ObjTypes, MainTypes, WorkTypes, MemInv
<1> QED BY <1>1, <1>2, <1>3, <1>4, <1>5, <1>6, <1>7, <1>8, <1>9, <1>10 DEF MainLoop

\* So are those of the worker.
LEMMA WorkerCalm ==
    ASSUME IInv, NEW c \in Channels, NEW d \in Channels, ReadCtrl(c) \/ WorkerLoop(c)
    PROVE  Calm(d)
<1> USE DEF objVars, mainVars, freeVars, sessVars, workVars, linkVars, Calm, Unused, Checked,
            Fetched
<1>0. /\ Types /\ MemInv(c) /\ MemInv(d) /\ HandleInv(c) /\ HandleInv(d) /\ BindInv(c)
      /\ UnservedInv(c) /\ ClearInv(c)
  BY DEF IInv, Inv
<1>1. CASE AttachChannel(c)
  BY <1>0, <1>1, CtrlHead
     DEF AttachChannel, CtrlIs, Types, ObjTypes, MainTypes, WorkTypes, MemInv, BindInv,
         UnservedInv, ClearInv, Bound, Served
<1>2. CASE DeatchChannel(c)
  BY <1>0, <1>2, CtrlHead
     DEF DeatchChannel, Deatch, CtrlIs, Types, ObjTypes, MainTypes, WorkTypes, MemInv,
         BindInv, UnservedInv, ClearInv, Bound, Served
<1>3. CASE ChildTcpClosed(c)
  BY <1>0, <1>3
     DEF ChildTcpClosed, Types, ObjTypes, MainTypes, WorkTypes, MemInv
<1>4. CASE ChildNextLoop(c)
  BY <1>0, <1>4
     DEF ChildNextLoop, Types, ObjTypes, MainTypes, WorkTypes, MemInv
<1>5. CASE ChildReadEnd(c)
  BY <1>0, <1>5
     DEF ChildReadEnd, ChildReadable, Types, ObjTypes, MainTypes, WorkTypes, MemInv
<1>6. CASE \E ok \in BOOLEAN : ChildWriteCallback(c, ok)
  BY <1>0, <1>6
     DEF ChildWriteCallback, Types, ObjTypes, MainTypes, WorkTypes, MemInv
<1>7. CASE FetchEcho(c)
  BY <1>0, <1>7
     DEF FetchEcho, FetchDone, Fetching, ChildWritable, Types, ObjTypes, MainTypes,
         WorkTypes, MemInv
<1>8. CASE FetchClose(c)
  BY <1>0, <1>8
     DEF FetchClose, FetchDone, Types, ObjTypes, MainTypes, WorkTypes, MemInv
<1>9. CASE FetchForwardSuccess(c)
  BY <1>0, <1>9
     DEF FetchForwardSuccess, FetchDone, ChildWritable, Types, ObjTypes, MainTypes,
         WorkTypes, MemInv
<1>10. CASE FetchWakeup(c)
  BY <1>0, <1>10
     DEF FetchWakeup, FetchDone, Types, ObjTypes, MainTypes, WorkTypes, MemInv
<1> QED BY <1>1, <1>2, <1>3, <1>4, <1>5, <1>6, <1>7, <1>8, <1>9, <1>10 DEF ReadCtrl, WorkerLoop

\* And those of a client, a task or the user, but the connection of a client.
LEMMA RequestsCalm ==
    ASSUME IInv, NEW c \in Channels, NEW d \in Channels, Requests(c), ~AcceptClient(c)
    PROVE  Calm(d)
<1> USE DEF objVars, mainVars, freeVars, sessVars, workVars, linkVars, Calm, Unused, Checked,
            Fetched
<1>0. /\ Types /\ MemInv(c) /\ MemInv(d) /\ HandleInv(c) /\ HandleInv(d) /\ BindInv(c)
      /\ UnservedInv(c) /\ ClearInv(c)
  BY DEF IInv, Inv
<1>1. CASE HandShakeLocal(c)
  BY <1>0, <1>1, FreeChannelEffect
     DEF HandShakeLocal, Types, ObjTypes, MainTypes, WorkTypes, MemInv
<1>2. CASE BindChannelToSession(c)
  BY <1>0, <1>2, FreeChannelEffect, EchoMainEffect
     DEF BindChannelToSession, MainReadable, Types, ObjTypes, MainTypes, WorkTypes, MemInv
<1>3. CASE LocalAnswer(c)
  BY <1>0, <1>3, FreeChannelEffect, EchoMainEffect
     DEF LocalAnswer, Types, ObjTypes, MainTypes, WorkTypes, MemInv
<1>4. CASE EnableKeepAlive(c) \/ NewConnectTry(c)
  BY <1>0, <1>4
     DEF EnableKeepAlive, NewConnectTry, Types, ObjTypes, MainTypes, WorkTypes, MemInv
<1>5. CASE \E e \in Channels : RemoveForward(c, e)
  BY <1>0, <1>5
     DEF RemoveForward, FreeChannels, MayFree, Types, ObjTypes, MainTypes, WorkTypes, MemInv
<1>6. CASE CommandToDaemon(c)
  BY <1>0, <1>6
     DEF CommandToDaemon, ChildReadable, EchoChild, ChildWritable, Types, ObjTypes,
         MainTypes, WorkTypes, MemInv
<1>7. CASE CommandRefused(c)
  BY <1>0, <1>7
     DEF CommandRefused, ChildReadable, EchoChild, ChildWritable, Types, ObjTypes,
         MainTypes, WorkTypes, MemInv
<1>8. CASE TaskCommand(c) \/ TaskFinish(c)
  BY <1>0, <1>8
     DEF TaskCommand, TaskFinish, Types, ObjTypes, MainTypes, WorkTypes, MemInv
<1>9. CASE ServerCommand(c)
  BY <1>0, <1>9
     DEF ServerCommand, Found, Types, ObjTypes, MainTypes, WorkTypes, MemInv
<1>10. CASE DaemonTaskSends(c) \/ ClientLeaves(c)
  BY <1>0, <1>10
     DEF DaemonTaskSends, ClientLeaves, Types, ObjTypes, MainTypes, WorkTypes, MemInv
<1> QED BY <1>1, <1>2, <1>3, <1>4, <1>5, <1>6, <1>7, <1>8, <1>9, <1>10 DEF Requests

\* And the others.
LEMMA OthersCalm ==
    ASSUME IInv, NEW d \in Channels,
           \/ UNCHANGED vars
           \/ FreeSession \/ FreeSessionOpeate \/ StopSession \/ ReChildLoopForSessionClear
           \/ FetchCommand \/ FetchDead \/ FetchAlive \/ DaemonFetch
           \/ \E c \in Channels : TaskRemoved(c) \/ DaemonTaskRemoved(c)
    PROVE  Calm(d)
<1> USE DEF objVars, mainVars, freeVars, sessVars, workVars, linkVars, Calm, Unused, Checked,
            Fetched
<1>0. /\ Types /\ MemInv(d) /\ UnservedInv(d)
  BY DEF IInv, Inv
<1>1. CASE UNCHANGED vars
  BY <1>1 DEF vars
<1>2. CASE FreeSession \/ FreeSessionOpeate \/ StopSession \/ DaemonFetch
  BY <1>2 DEF FreeSession, FreeSessionOpeate, StopSession, DaemonFetch
<1>3. CASE ReChildLoopForSessionClear
  BY <1>0, <1>3 DEF ReChildLoopForSessionClear, Cleared
<1>4. CASE FetchCommand \/ FetchDead
  <2>1. fetch' = None \/ \E m : fetch' = [msg |-> m, checked |-> FALSE]
    <3>1. CASE FetchCommand
      BY <3>1 DEF FetchCommand, Found, WorkerReady
    <3>2. CASE FetchDead
      BY <3>2 DEF FetchDead
    <3> QED BY <1>4, <3>1, <3>2
  <2>2. ~Checked(d)'
    BY <2>1
  <2> QED BY <1>0, <1>4, <2>2 DEF FetchCommand, FetchDead
<1>5. CASE FetchAlive
  <2>1. isDead[d] \/ mem[d] = "alloc" \/ ~Fetched(d)
    BY <1>0 DEF MemInv, UnservedInv, Served, Types, ObjTypes
  <2> QED BY <1>0, <1>5, <2>1 DEF FetchAlive, Fetching, MemInv, Types, QueueTypes, Fetches
<1>6. CASE \E c \in Channels : TaskRemoved(c) \/ DaemonTaskRemoved(c)
  BY <1>6 DEF TaskRemoved, DaemonTaskRemoved
<1> QED BY <1>1, <1>2, <1>3, <1>4, <1>5, <1>6

\* The initial states are initial states of the promise.
LEMMA InitRefines == Init => Ownership!Init
<1> SUFFICES ASSUME Init PROVE Ownership!Init
  OBVIOUS
<1>1. ASSUME NEW c \in Channels PROVE LifeOf(c) = "none" /\ UsersOf(c) = {}
  BY DEF Init, All, LifeOf, UsersOf, Fetched
<1> QED BY <1>1 DEF Ownership!Init

\* Every step is a step of the promise, or a stutter.
LEMMA NextRefines == IInv /\ IInv' /\ [Next]_vars => Step
<1> SUFFICES ASSUME IInv, IInv', [Next]_vars PROVE Step
  OBVIOUS
<1>1. ASSUME NEW c \in Channels, AcceptClient(c) \/ FreeChannelFinally(c) PROVE Step
  BY <1>1, AcceptRefines, FinallyRefines
<1>2. ASSUME NEW c \in Channels,
             \/ MainLoop(c) /\ ~FreeChannelFinally(c)
             \/ ReadCtrl(c) \/ WorkerLoop(c)
             \/ Requests(c) /\ ~AcceptClient(c)
      PROVE  Step
  <2>1. \A d \in Channels : Calm(d)
    BY <1>2, MainCalm, WorkerCalm, RequestsCalm
  <2> QED BY <2>1, CalmStep
<1>3. ASSUME \/ UNCHANGED vars
             \/ FreeSession \/ FreeSessionOpeate \/ StopSession \/ ReChildLoopForSessionClear
             \/ FetchCommand \/ FetchDead \/ FetchAlive \/ DaemonFetch
             \/ \E c \in Channels : TaskRemoved(c) \/ DaemonTaskRemoved(c)
      PROVE  Step
  <2>1. \A d \in Channels : Calm(d)
    BY <1>3, OthersCalm
  <2> QED BY <2>1, CalmStep
<1> QED BY <1>1, <1>2, <1>3 DEF Next

\* HdcChannel keeps the promise of SessionOwnership: a channel is created with a user, a
\* loop, a handle, a request or a command gets its pointer from a present user, it is
\* marked dead once, and deleted when it is dead and the last of them has gone.
THEOREM Refinement == Spec => OwnershipKept
<1>1. IInv /\ IInv' /\ [Next]_vars => [Ownership!Next]_(Ownership!ownVars)
  BY NextRefines DEF Step
<1> QED BY <1>1, InitRefines, Invariance, PTL DEF Spec, OwnershipKept, Ownership!Spec
===============================================================================
