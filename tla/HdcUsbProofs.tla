---------------------------- MODULE HdcUsbProofs ----------------------------
(***************************************************************************)
(* Proofs about HdcUsb, for every number of sessions, of blocks and of     *)
(* failures: the variables keep their types, an alive transport of the     *)
(* daemon has its read under way, and what a session receives is what its  *)
(* peer sent it, though the packets of a body do not name their session.   *)
(***************************************************************************)
EXTENDS HdcUsb, SequenceTheorems, TLAPS

Packets == Packet \cup {Nothing, Failed, Antique}

\* What is left of block n of session s once its header, its body was written.
Dummy(s, n) == IF n \in Dummies THEN <<Pack("nop", s, 0)>> ELSE <<>>
AfterHeader(s, n) == <<Pack("body", s, n)>> \o Dummy(s, n)
IsRest(q, s, n) == \/ q = <<>>
                   \/ n # 0 /\ q \in {BlockOf(s, n), AfterHeader(s, n), Dummy(s, n)}

HostTypes ==
    /\ valid \in BOOLEAN /\ isDead \in BOOLEAN /\ inShut \in BOOLEAN /\ outShut \in BOOLEAN
    /\ cancelIn \in BOOLEAN /\ resetIO \in BOOLEAN
    /\ host \in {0, born} /\ born \in Session /\ freeing \in {"no", "child"}
    /\ reader \in {"none", "loop", "wait", "reset", "resetting", "end"}
    /\ worker \in {"none", "idle", "ready", "wait", "stop"}
    /\ blockLock \in {"none", "worker", "reader"}
    /\ got \in Packet \cup {Nothing} /\ hpay \in 0 .. MaxBlocks /\ hgot \in Seq(Packet)
    /\ sent \in 0 .. MaxBlocks

DaemonTypes ==
    /\ isAlive \in BOOLEAN /\ atPollQueue \in BOOLEAN
    /\ reading \in {"no", "pending", "error"} /\ eps \in {"open", "closing", "closed"}
    /\ currentSessionId \in Session /\ freeq \subseteq Session
    /\ dsession \in [Session -> {"none", "live", "dead", "gone"}]
    /\ dpay \in [Session -> 0 .. MaxBlocks] /\ dgot \in [Session -> Seq(Packet)]
    /\ answered \in [Session -> 0 .. MaxBlocks]
    /\ writer \in [Session -> {"idle", "ready", "writing"}]
    /\ mutexUsbFfs \in Session /\ rest = [s \in Session |-> rest[s]]

CableTypes ==
    /\ plugged \in BOOLEAN /\ up \in BOOLEAN /\ antiques \in Nat
    /\ h2d \in Packets /\ d2h \in Packets \ {Antique}

\* The two threads of a session of the host: which of them writes, and what.
HostInv ==
    /\ host = 0 => worker = "none" /\ reader = "none"
    /\ worker \in {"ready", "wait"} <=> sending # <<>>
    /\ worker \in {"ready", "wait"} <=> blockLock = "worker"
    /\ reader = "resetting" <=> blockLock = "reader"
    /\ reader \in {"reset", "resetting"} => got \in Packet
    /\ freeing = "child" => reader \in {"none", "end"}
    /\ IsRest(sending, host, sent)

\* The packet the host has under way.  One that failed was sent on a handle that
\* is no longer valid, or to a daemon that no longer reads.
OutInv ==
    /\ valid => up /\ host # 0
    /\ h2d \in Packet =>
          /\ valid
          /\ \/ worker = "wait" /\ h2d = Head(sending)
             \/ reader = "resetting" /\ h2d.kind = "reset"
    /\ h2d = Failed => /\ worker = "wait" \/ reader = "resetting"
                       /\ ~valid \/ reading = "no"
    /\ worker = "stop" => ~valid \/ reading = "no"
    /\ h2d = Antique => antiques > 0

\* The sessions of the daemon and their workers; session 0 is never made.
SessionInv(s) ==
    /\ dsession[s] = "none" => dgot[s] = <<>> /\ dpay[s] = 0 /\ answered[s] = 0
    /\ dsession[s] # "none" => s # 0 /\ s <= born
    /\ dsession[s] = "live" \/ (s = born /\ dsession[s] # "none") => currentSessionId = s
    /\ writer[s] # "idle" => dsession[s] \in {"live", "dead"}
    /\ writer[s] = "idle" <=> rest[s] = <<>>
    /\ writer[s] = "writing" <=> mutexUsbFfs = s /\ s # 0
    /\ IsRest(rest[s], s, answered[s])
    /\ answered[s] <= Len(dgot[s]) /\ Len(dgot[s]) <= MaxBlocks

\* The packet the daemon has under way is that of the worker with the mutex.
InInv == d2h # Nothing => /\ mutexUsbFfs # 0
                          /\ d2h # Failed => d2h = Head(rest[mutexUsbFfs])

\* The read of the daemon.
ReadInv == (isAlive => atPollQueue) /\ AliveIsReading

\* What of the blocks 1 .. n of session s has arrived, when q is still to be written
\* and its first packet has, or has not, been read by the other side: len bodies,
\* and the header of one more.
Flow(q, delivered, s, n, len, pay) ==
    \/ q \in {<<>>, Dummy(s, n)} /\ len = n /\ pay = 0
    \/ n # 0 /\ q = BlockOf(s, n) /\ len = n - 1 /\ pay = (IF delivered THEN n ELSE 0)
    \/ n # 0 /\ q = AfterHeader(s, n)
       /\ IF delivered THEN len = n /\ pay = 0 ELSE len = n - 1 /\ pay = n

\* From the host, as long as the daemon reads: a transport that stopped starts again
\* on a new enumeration only, which leaves the session of the host without a handle.
OutFlow ==
    valid /\ isAlive /\ reading # "no" =>
        Flow(sending, worker = "wait" /\ h2d = Nothing, host, sent,
             Len(dgot[host]), dpay[host])

\* From the daemon, until its session gives up a block: from then on it never writes.
GaveUp(s) == writer[s] # "writing" /\ (~isAlive \/ dsession[s] = "dead")
InFlow ==
    valid => \/ Flow(rest[host], writer[host] = "writing" /\ d2h = Nothing, host,
                     answered[host], Len(hgot), hpay)
             \/ GaveUp(host)

\* After the header of its own session the host reads no packet of another one.
OwnBody == hpay # 0 => /\ host # 0 /\ dsession[host] # "none"
                       /\ mutexUsbFfs \in {0, host}

IInv == /\ HostTypes /\ DaemonTypes /\ CableTypes
        /\ HostInv /\ OutInv /\ (\A s \in Session : SessionInv(s)) /\ InInv /\ ReadInv
        /\ OutFlow /\ InFlow /\ OwnBody /\ NoCrossTalk

-----------------------------------------------------------------------------
(* Blocks: what is left of one, and what of it has arrived.                *)

\* A sequence with one more element at the end, told by its elements.
LEMMA Joined ==
    ASSUME NEW S, NEW q \in Seq(S), NEW c \in S, NEW r \in Seq(S), Len(r) = Len(q) + 1,
           r[Len(q) + 1] = c, \A i \in 1 .. Len(q) : r[i] = q[i]
    PROVE  q \o <<c>> = r
<1> DEFINE z == q \o <<c>>
<1>1. z \in Seq(S) /\ Len(z) = Len(q) + 1 /\ \A i \in 1 .. Len(z) : z[i] = r[i]
  OBVIOUS
<1> HIDE DEF z
<1>2. z = r
  BY <1>1, SeqEqual
<1> QED  BY <1>2 DEF z

\* Short sequences put together.
LEMMA Chains ==
    ASSUME NEW a, NEW b, NEW c
    PROVE  /\ <<a>> \o <<>> = <<a>> /\ <<a, b>> \o <<>> = <<a, b>>
           /\ <<a>> \o <<b>> = <<a, b>> /\ <<a, b>> \o <<c>> = <<a, b, c>>
<1> DEFINE S == {a, b, c}
           one == <<a>>
           two == <<a, b>>
           three == <<a, b, c>>
<1>1. /\ one \in Seq(S) /\ two \in Seq(S) /\ three \in Seq(S) /\ b \in S /\ c \in S
      /\ Len(one) = 1 /\ Len(two) = 2 /\ Len(three) = 3
      /\ one[1] = two[1] /\ two[2] = b
      /\ two[1] = three[1] /\ two[2] = three[2] /\ three[3] = c
  OBVIOUS
<1> HIDE DEF S, one, two, three
<1>2. one \o <<>> = one /\ two \o <<>> = two
  BY <1>1, ConcatEmptySeq
<1>3. one \o <<b>> = two
  BY <1>1, Joined
<1>4. two \o <<c>> = three
  <2>1. /\ Len(three) = Len(two) + 1 /\ three[Len(two) + 1] = c
        /\ \A i \in 1 .. Len(two) : three[i] = two[i]
    BY <1>1
  <2> QED  BY <1>1, <2>1, Joined
<1> QED  BY <1>2, <1>3, <1>4 DEF one, two, three

\* The first packet of a block and the rest, at each of its three stages.
BlockFacts(s, n) ==
    /\ BlockOf(s, n) # <<>> /\ AfterHeader(s, n) # <<>>
    /\ Head(BlockOf(s, n)) = Pack("header", s, n) /\ Tail(BlockOf(s, n)) = AfterHeader(s, n)
    /\ Head(AfterHeader(s, n)) = Pack("body", s, n) /\ Tail(AfterHeader(s, n)) = Dummy(s, n)
    /\ Dummy(s, n) # <<>> => /\ Head(Dummy(s, n)) = Pack("nop", s, 0)
                             /\ Tail(Dummy(s, n)) = <<>>

\* How the packets of one message follow each other.
LEMMA Blocks == \A s, n : BlockFacts(s, n)
<1> SUFFICES ASSUME NEW s, NEW n PROVE BlockFacts(s, n)
  OBVIOUS
<1> DEFINE h == Pack("header", s, n)
           b == Pack("body", s, n)
           d == Pack("nop", s, 0)
<1>1. CASE n \in Dummies
  <2>1. Dummy(s, n) = <<d>>
    BY <1>1 DEF Dummy
  <2>2. AfterHeader(s, n) = <<b, d>>
    BY <2>1, Chains DEF AfterHeader
  <2>3. BlockOf(s, n) = <<h, b, d>>
    BY <1>1, Chains DEF BlockOf
  <2> QED  BY <2>1, <2>2, <2>3 DEF BlockFacts
<1>2. CASE n \notin Dummies
  <2>1. Dummy(s, n) = <<>>
    BY <1>2 DEF Dummy
  <2>2. AfterHeader(s, n) = <<b>>
    BY <2>1, Chains DEF AfterHeader
  <2>3. BlockOf(s, n) = <<h, b>>
    BY <1>2, Chains DEF BlockOf
  <2> QED  BY <2>1, <2>2, <2>3 DEF BlockFacts
<1> QED  BY <1>1, <1>2

\* A packet is what Pack makes of a kind, a session and a number.
LEMMA Packing ==
    /\ \A k, s, n : Pack(k, s, n).kind = k /\ Pack(k, s, n).s = s /\ Pack(k, s, n).n = n
    /\ \A k \in {"header", "nop", "reset", "body"}, s \in Session, n \in 0 .. MaxBlocks :
          Pack(k, s, n) \in Packet
    /\ Nothing \notin Packet /\ Failed \notin Packet /\ Antique \notin Packet
    /\ Nothing # Failed /\ Nothing # Antique /\ Failed # Antique
BY DEF Pack, Packet, Nothing, Failed, Antique

\* The next packet of a block names its session if it is a header.
LEMMA RestHead ==
    ASSUME NEW s \in Session, NEW n \in 0 .. MaxBlocks, NEW q, IsRest(q, s, n), q # <<>>
    PROVE  /\ Head(q) \in Packet /\ Head(q).s = s
           /\ Head(q).kind \in {"header", "nop", "body"}
           /\ Head(q).kind # "nop" => n # 0 /\ Head(q) = Pack(Head(q).kind, s, n)
           /\ IsRest(Tail(q), s, n)
<1>1. n # 0 /\ n \in 0 .. MaxBlocks /\ 0 \in 0 .. MaxBlocks
  BY UsbAssumption DEF IsRest
<1>2. BlockFacts(s, n)
  BY Blocks
<1>3. CASE q = BlockOf(s, n)
  BY <1>1, <1>2, <1>3, Packing DEF BlockFacts, IsRest
<1>4. CASE q = AfterHeader(s, n)
  BY <1>1, <1>2, <1>4, Packing DEF BlockFacts, IsRest
<1>5. CASE q = Dummy(s, n)
  BY <1>1, <1>2, <1>5, Packing DEF BlockFacts, IsRest
<1> QED  BY <1>3, <1>4, <1>5 DEF IsRest

\* A block that has been written to the end leaves nothing, its number is one more.
LEMMA NewBlock ==
    ASSUME NEW s, NEW n \in Nat, NEW d, NEW len, NEW pay, Flow(<<>>, d, s, n, len, pay)
    PROVE  /\ len = n /\ pay = 0
           /\ Flow(BlockOf(s, n + 1), FALSE, s, n + 1, len, pay)
<1>1. BlockOf(s, n) # <<>> /\ AfterHeader(s, n) # <<>>
  BY Blocks DEF BlockFacts
<1>2. len = n /\ pay = 0
  BY <1>1 DEF Flow
<1>3. n + 1 # 0 /\ (n + 1) - 1 = n
  OBVIOUS
<1> QED  BY <1>2, <1>3 DEF Flow

\* The packet that has arrived is taken from the front of the block.
LEMMA Written ==
    ASSUME NEW s, NEW n, NEW len, NEW pay, NEW q, q # <<>>, Flow(q, TRUE, s, n, len, pay)
    PROVE  Flow(Tail(q), FALSE, s, n, len, pay)
<1>1. BlockFacts(s, n)
  BY Blocks
<1> QED  BY <1>1 DEF BlockFacts, Flow

\* What the other side does when it reads the first packet: it notes a header, keeps
\* the body the header announced, and passes a dummy header over.
LEMMA Arrives ==
    ASSUME NEW s, NEW n \in Nat, NEW len \in Nat, NEW pay, NEW q, q # <<>>,
           Flow(q, FALSE, s, n, len, pay)
    PROVE  /\ Head(q).kind = "header" =>
                 Head(q).n = n /\ Flow(q, TRUE, s, n, len, n)
           /\ Head(q).kind = "nop" => Flow(q, TRUE, s, n, len, pay)
           /\ Head(q).kind = "body" =>
                 /\ pay # 0 /\ n = len + 1 /\ Head(q) = Pack("body", s, n)
                 /\ Flow(q, TRUE, s, n, len + 1, 0)
<1>1. BlockFacts(s, n)
  BY Blocks
<1>2. CASE q = Dummy(s, n) /\ len = n /\ pay = 0
  BY <1>1, <1>2, Packing DEF BlockFacts, Flow
<1>3. CASE n # 0 /\ q = BlockOf(s, n) /\ len = n - 1 /\ pay = 0
  BY <1>1, <1>3, Packing DEF BlockFacts, Flow
<1>4. CASE n # 0 /\ q = AfterHeader(s, n) /\ len = n - 1 /\ pay = n
  BY <1>1, <1>4, Packing DEF BlockFacts, Flow
<1> QED  BY <1>2, <1>3, <1>4 DEF Flow

\* A new block is one of which everything is left.
LEMMA BlockIsRest ==
    ASSUME NEW s, NEW n \in Nat
    PROVE  /\ IsRest(BlockOf(s, n + 1), s, n + 1) /\ BlockOf(s, n + 1) # <<>>
           /\ IsRest(<<>>, s, n)
BY Blocks DEF IsRest, BlockFacts

\* One more body at the end.
LEMMA Grown ==
    ASSUME NEW q \in Seq(Packet), NEW p \in Packet
    PROVE  /\ Append(q, p) \in Seq(Packet) /\ q \o <<p>> = Append(q, p)
           /\ Len(Append(q, p)) = Len(q) + 1
           /\ DOMAIN Append(q, p) = 1 .. (Len(q) + 1)
           /\ \A i \in DOMAIN q : Append(q, p)[i] = q[i]
           /\ Append(q, p)[Len(q) + 1] = p
           /\ DOMAIN q = 1 .. Len(q) /\ Len(q) \in Nat
OBVIOUS

\* A transfer that breaks off, and the packets of the endpoints.
LEMMA Breaking ==
    ASSUME NEW p \in Packets
    PROVE  /\ Broken(p) \in {Nothing, Failed} /\ Broken(p) \in Packets \ {Antique}
           /\ Broken(p) = Failed <=> p \in Packet \cup {Failed}
           /\ Broken(p) \notin Packet /\ Broken(p) # Antique
BY Packing DEF Packets, Broken

\* Zero is a session, a number of a packet and the length of the empty sequence.
LEMMA Zero ==
    /\ 0 \in 0 .. MaxBlocks /\ 0 \in Session /\ Session \subseteq Nat
    /\ <<>> \in Seq(Packet) /\ Len(<<>>) = 0
    /\ MaxBlocks \in Nat /\ 0 .. MaxBlocks \subseteq Nat
BY UsbAssumption DEF Session

\* The parts that speak of one side alone keep when that side does not move.
LEMMA HostKept ==
    ASSUME HostTypes, HostInv, UNCHANGED hostVars
    PROVE  HostTypes' /\ HostInv'
BY DEF HostTypes, HostInv, hostVars, freeVars, readerVars, workerVars

\* A step of the host alone leaves the facts about the daemon.
LEMMA DaemonKept ==
    ASSUME DaemonTypes, \A s \in Session : SessionInv(s), UNCHANGED <<daemonVars, born>>
    PROVE  DaemonTypes' /\ \A s \in Session : SessionInv(s)'
<1>1. DaemonTypes'
  BY DEF DaemonTypes, daemonVars, loopVars, sessionVars, writerVars
<1>2. \A s \in Session : SessionInv(s)'
  BY DEF SessionInv, daemonVars, sessionVars, writerVars
<1> QED  BY <1>1, <1>2

\* What the worker of the host has left to write, and that of a session of the daemon.
LEMMA Lefts ==
    ASSUME HostTypes, HostInv, DaemonTypes, \A s \in Session : SessionInv(s)
    PROVE  /\ host \in Session /\ sent \in 0 .. MaxBlocks /\ IsRest(sending, host, sent)
           /\ \A s \in Session : answered[s] \in 0 .. MaxBlocks /\ IsRest(rest[s], s, answered[s])
BY Zero DEF HostTypes, HostInv, DaemonTypes, SessionInv

\* The packet that waits in the endpoint of the daemon is the next one of the worker
\* with the mutex, that in the endpoint of the host is of its worker unless it asks
\* for a reset.
LEMMA InPacket ==
    ASSUME HostTypes, HostInv, DaemonTypes, \A s \in Session : SessionInv(s), InInv,
           d2h \in Packet
    PROVE  \E m \in Session :
              /\ m = mutexUsbFfs /\ m # 0 /\ writer[m] = "writing" /\ rest[m] # <<>>
              /\ dsession[m] \in {"live", "dead"}
              /\ d2h = Head(rest[m]) /\ d2h.s = m /\ d2h.kind \in {"header", "nop", "body"}
<1>1. d2h # Nothing /\ d2h # Failed
  BY Packing
<1> DEFINE m == mutexUsbFfs
<1>2. m \in Session /\ m # 0 /\ d2h = Head(rest[m])
  BY <1>1 DEF DaemonTypes, InInv
<1> HIDE DEF m
<1>3. writer[m] = "writing" /\ rest[m] # <<>> /\ dsession[m] \in {"live", "dead"}
  BY <1>2 DEF SessionInv, m
<1>4. d2h.s = m /\ d2h.kind \in {"header", "nop", "body"}
  BY <1>2, <1>3, Lefts, RestHead
<1> QED  BY <1>2, <1>3, <1>4 DEF m

\* A packet of the host that nobody has read yet is the one its worker waits for.
LEMMA OutPacket ==
    ASSUME HostTypes, HostInv, DaemonTypes, \A s \in Session : SessionInv(s), OutInv,
           h2d \in Packet, h2d.kind # "reset"
    PROVE  /\ valid /\ host # 0 /\ host = born /\ host \in Session
           /\ worker = "wait" /\ sending # <<>> /\ h2d = Head(sending)
           /\ h2d.s = host /\ h2d.kind \in {"header", "nop", "body"} /\ h2d # Nothing
<1>1. /\ valid /\ host # 0 /\ host = born /\ host \in Session
      /\ worker = "wait" /\ sending # <<>> /\ h2d = Head(sending)
  BY Zero DEF OutInv, HostTypes, HostInv
<1>2. h2d.s = host /\ h2d.kind \in {"header", "nop", "body"} /\ h2d # Nothing
  BY <1>1, Lefts, RestHead, Packing
<1> QED  BY <1>1, <1>2

\* What another session of the daemon does leaves what the host receives as it is.
LEMMA InElsewhere ==
    ASSUME InFlow, UNCHANGED <<valid, host, hgot, hpay, dsession>>, isAlive' => isAlive,
           writer[host] # "writing", writer'[host] = writer[host],
           rest'[host] = rest[host], answered'[host] = answered[host]
    PROVE  InFlow'
BY DEF InFlow, GaveUp

-----------------------------------------------------------------------------

(* The steps of the cable, the host and the workers.                       *)

\* The cable is pulled out: nothing arrives any more on the handle of the host.
LEMMA UnplugStep ==
    ASSUME IInv, Unplug
    PROVE  IInv'
<1> USE DEF IInv
<1>1. HostTypes'
  <2>1. valid' \in BOOLEAN
    BY DEF Unplug
  <2> QED  BY <2>1 DEF HostTypes, Unplug, readerVars, workerVars, freeVars
<1>2. DaemonTypes'
  BY DEF DaemonTypes, Unplug, sessionVars, writerVars
<1>3. CableTypes'
  <2>1. plugged' \in BOOLEAN
    BY DEF Unplug
  <2> QED  BY <2>1, Breaking DEF CableTypes, Packets, Unplug
<1>4. HostInv'
  BY DEF HostInv, Unplug, readerVars, workerVars, freeVars
<1>5. OutInv'
  <2>1. ~valid' /\ h2d' = Broken(h2d) /\ h2d \in Packets
    BY DEF Unplug, CableTypes
  <2>2. h2d' \notin Packet /\ h2d' # Antique /\ (h2d' = Failed => h2d \in Packet \cup {Failed})
    BY <2>1, Breaking
  <2> QED  BY <2>1, <2>2 DEF OutInv, Unplug, readerVars, workerVars, freeVars
<1>6. \A s \in Session : SessionInv(s)'
  BY DEF SessionInv, Unplug, freeVars, sessionVars, writerVars
<1>7. InInv'
  BY DEF InInv, Unplug, Broken, writerVars
<1>8. ReadInv'
  BY DEF ReadInv, AliveIsReading, Stalled, Unplug
<1>9. OutFlow'
  BY DEF OutFlow, Unplug, Broken, workerVars, freeVars, sessionVars
<1>10. InFlow'
  BY DEF InFlow, GaveUp, Unplug, Broken, readerVars, freeVars, sessionVars, writerVars
<1>11. OwnBody'
  BY DEF OwnBody, Unplug, readerVars, freeVars, sessionVars, writerVars
<1>12. NoCrossTalk'
  BY DEF NoCrossTalk, Unplug, freeVars, sessionVars
<1> QED  BY <1>1, <1>2, <1>3, <1>4, <1>5, <1>6, <1>7, <1>8, <1>9, <1>10, <1>11, <1>12

\* The cable is back.
LEMMA ReplugStep ==
    ASSUME IInv, Replug
    PROVE  IInv'
<1> USE DEF IInv
<1>1. HostTypes' /\ HostInv'
  BY HostKept DEF Replug
<1>2. DaemonTypes' /\ \A s \in Session : SessionInv(s)'
  BY DaemonKept DEF Replug, daemonVars, freeVars, hostVars
<1>3. CableTypes'
  BY DEF CableTypes, Packets, Replug
<1>4. OutInv'
  BY DEF OutInv, Replug, readerVars, workerVars, freeVars, loopVars, hostVars,
      daemonVars
<1>5. InInv'
  BY DEF InInv, Replug, writerVars, daemonVars
<1>6. ReadInv'
  BY DEF ReadInv, AliveIsReading, Stalled, Replug, loopVars, daemonVars
<1>7. OutFlow'
  BY DEF OutFlow, Replug, workerVars, freeVars, loopVars, sessionVars, hostVars,
      daemonVars
<1>8. InFlow'
  BY DEF InFlow, GaveUp, Replug, readerVars, freeVars, loopVars, sessionVars,
      writerVars, hostVars, daemonVars
<1>9. OwnBody'
  BY DEF OwnBody, Replug, readerVars, freeVars, sessionVars, writerVars, hostVars,
      daemonVars
<1>10. NoCrossTalk'
  BY DEF NoCrossTalk, Replug, freeVars, sessionVars, hostVars, daemonVars
<1> QED  BY <1>1, <1>2, <1>3, <1>4, <1>5, <1>6, <1>7, <1>8, <1>9, <1>10

\* The function leaves the bus: the handle of the host ends, no worker writes.
LEMMA GadgetDownStep ==
    ASSUME IInv, GadgetDown
    PROVE  IInv'
<1> USE DEF IInv
<1>1. DaemonTypes' /\ \A s \in Session : SessionInv(s)'
  BY DaemonKept DEF GadgetDown, daemonVars, freeVars, hostVars
<1>2. HostTypes'
  <2>1. valid' \in BOOLEAN
    BY DEF GadgetDown
  <2> QED  BY <2>1 DEF HostTypes, GadgetDown, readerVars, workerVars, freeVars
<1>3. CableTypes'
  <2>1. up' \in BOOLEAN
    BY DEF GadgetDown
  <2> QED  BY <2>1, Breaking, Packing DEF CableTypes, Packets, GadgetDown, cableVars
<1>4. HostInv'
  BY DEF HostInv, GadgetDown, readerVars, workerVars, freeVars
<1>5. OutInv'
  <2>1. ~valid' /\ h2d' = Broken(h2d) /\ h2d \in Packets
    BY DEF GadgetDown, CableTypes
  <2>2. h2d' \notin Packet /\ h2d' # Antique /\ (h2d' = Failed => h2d \in Packet \cup {Failed})
    BY <2>1, Breaking
  <2> QED  BY <2>1, <2>2 DEF OutInv, GadgetDown, readerVars, workerVars, freeVars
<1>6. InInv'
  BY DEF InInv, GadgetDown, writerVars, daemonVars
<1>7. ReadInv'
  BY DEF ReadInv, AliveIsReading, Stalled, GadgetDown, cableVars, loopVars, daemonVars
<1>8. OutFlow'
  BY DEF OutFlow, GadgetDown, Broken, workerVars, freeVars, loopVars, sessionVars,
      daemonVars
<1>9. InFlow'
  BY DEF InFlow, GaveUp, GadgetDown, readerVars, freeVars, loopVars, sessionVars,
      writerVars, daemonVars
<1>10. OwnBody'
  BY DEF OwnBody, GadgetDown, readerVars, freeVars, sessionVars, writerVars, daemonVars
<1>11. NoCrossTalk'
  BY DEF NoCrossTalk, GadgetDown, freeVars, sessionVars, daemonVars
<1> QED  BY <1>1, <1>2, <1>3, <1>4, <1>5, <1>6, <1>7, <1>8, <1>9, <1>10, <1>11

\* Another program greets the device: the endpoint was empty, and no session is open.
LEMMA SendAntiqueStep ==
    ASSUME IInv, SendAntique
    PROVE  IInv'
<1> USE DEF IInv
<1>1. HostTypes' /\ HostInv'
  BY HostKept DEF SendAntique
<1>2. DaemonTypes' /\ \A s \in Session : SessionInv(s)'
  BY DaemonKept DEF SendAntique, daemonVars, freeVars, hostVars
<1>3. CableTypes'
  BY DEF CableTypes, Packets, SendAntique
<1>4. OutInv'
  BY Packing DEF CableTypes, OutInv, SendAntique, hostVars, readerVars, workerVars,
      freeVars, loopVars, daemonVars
<1>5. InInv'
  BY DEF InInv, SendAntique, writerVars, daemonVars
<1>6. ReadInv'
  <2>1. antiques' > 0
    BY DEF SendAntique, CableTypes
  <2> QED  BY <2>1 DEF ReadInv, AliveIsReading, Stalled, SendAntique, loopVars, daemonVars
<1>7. OutFlow'
  BY DEF OutFlow, OutInv, SendAntique, freeVars, hostVars
<1>8. InFlow'
  BY DEF InFlow, GaveUp, SendAntique, readerVars, freeVars, loopVars, sessionVars,
      writerVars, hostVars, daemonVars
<1>9. OwnBody'
  BY DEF OwnBody, SendAntique, readerVars, freeVars, sessionVars, writerVars, hostVars,
      daemonVars
<1>10. NoCrossTalk'
  BY DEF NoCrossTalk, SendAntique, freeVars, sessionVars, hostVars, daemonVars
<1> QED  BY <1>1, <1>2, <1>3, <1>4, <1>5, <1>6, <1>7, <1>8, <1>9, <1>10

\* The server is killed: nothing is left of its session.
LEMMA CrashStep ==
    ASSUME IInv, Crash
    PROVE  IInv'
<1> USE DEF IInv
<1>1. DaemonTypes' /\ \A s \in Session : SessionInv(s)'
  BY DaemonKept DEF Crash, daemonVars, freeVars, hostVars
<1>2. HostTypes'
  <2>1. /\ valid' \in BOOLEAN /\ isDead' \in BOOLEAN /\ inShut' \in BOOLEAN
        /\ outShut' \in BOOLEAN /\ cancelIn' \in BOOLEAN /\ resetIO' \in BOOLEAN
    BY DEF Crash, HostGone
  <2> QED  BY <2>1, Zero DEF HostTypes, Crash, HostGone
<1>3. CableTypes'
  BY DEF CableTypes, Packets, Crash
<1>4. HostInv'
  BY BlockIsRest, Zero DEF HostInv, Crash, HostGone
<1>5. OutInv'
  BY Packing DEF OutInv, Crash, HostGone
<1>6. InInv'
  BY DEF InInv, Crash, writerVars, daemonVars
<1>7. ReadInv'
  BY DEF ReadInv, AliveIsReading, Stalled, Crash, loopVars, daemonVars
<1>8. OutFlow'
  BY DEF OutFlow, Crash, HostGone, loopVars, sessionVars, daemonVars
<1>9. InFlow'
  BY DEF InFlow, GaveUp, Crash, HostGone, loopVars, sessionVars, writerVars, daemonVars
<1>10. OwnBody'
  BY DEF OwnBody, Crash, HostGone, sessionVars, writerVars, daemonVars
<1>11. NoCrossTalk'
  BY DEF NoCrossTalk, Crash, HostGone, sessionVars, daemonVars
<1> QED  BY <1>1, <1>2, <1>3, <1>4, <1>5, <1>6, <1>7, <1>8, <1>9, <1>10, <1>11

\* A session of the host begins: the daemon has none of its number yet.
LEMMA ConnectDetectDaemonStep ==
    ASSUME IInv, ConnectDetectDaemon
    PROVE  IInv'
<1> USE DEF IInv
<1>1. HostTypes'
  <2>1. /\ valid' \in BOOLEAN /\ isDead' \in BOOLEAN /\ inShut' \in BOOLEAN
        /\ outShut' \in BOOLEAN /\ cancelIn' \in BOOLEAN /\ resetIO' \in BOOLEAN
    BY DEF ConnectDetectDaemon
  <2>2. born' \in Session /\ host' = born'
    BY UsbAssumption DEF HostTypes, ConnectDetectDaemon, Session
  <2> QED  BY <2>1, <2>2, Zero DEF HostTypes, ConnectDetectDaemon
<1>2. DaemonTypes'
  BY DEF DaemonTypes, ConnectDetectDaemon, loopVars, sessionVars, writerVars,
      daemonVars
<1>3. CableTypes'
  BY DEF CableTypes, Packets, ConnectDetectDaemon, cableVars
<1>4. HostInv'
  <2>1. host' # 0 /\ sending' = <<>> /\ IsRest(<<>>, host', sent')
    BY BlockIsRest, Zero DEF HostTypes, ConnectDetectDaemon
  <2>2. blockLock' \notin {"worker", "reader"}
    BY DEF HostInv, ConnectDetectDaemon
  <2> QED  BY <2>1, <2>2 DEF HostInv, ConnectDetectDaemon
<1>5. OutInv'
  <2>1. host' # 0
    BY Zero DEF HostTypes, ConnectDetectDaemon
  <2>2. h2d \notin Packet \cup {Failed}
    BY DEF HostInv, OutInv, ConnectDetectDaemon
  <2> QED  BY <2>1, <2>2 DEF OutInv, ConnectDetectDaemon, cableVars
<1>6. \A s \in Session : SessionInv(s)'
  <2> SUFFICES ASSUME NEW s \in Session PROVE SessionInv(s)'
    OBVIOUS
  <2>1. born \in Nat /\ s \in Nat /\ born' = born + 1 /\ (dsession[s] # "none" => s # born + 1)
    BY Zero DEF HostTypes, SessionInv, ConnectDetectDaemon
  <2>2. UNCHANGED <<currentSessionId, dsession, dpay, dgot, writer, rest, answered, mutexUsbFfs>>
    BY DEF ConnectDetectDaemon, daemonVars, sessionVars, writerVars
  <2> QED  BY <2>1, <2>2 DEF SessionInv
<1>7. InInv'
  BY DEF InInv, ConnectDetectDaemon, writerVars, daemonVars
<1>8. ReadInv'
  BY DEF ReadInv, AliveIsReading, Stalled, ConnectDetectDaemon, cableVars, loopVars,
      daemonVars
<1>9. OutFlow'
  <2>1. /\ host' \in Session /\ born \in Nat /\ host' = born + 1 /\ sending' = <<>> /\ sent' = 0
        /\ hgot' = <<>> /\ hpay' = 0 /\ worker' = "idle"
    BY UsbAssumption, Zero DEF HostTypes, ConnectDetectDaemon, Session
  <2>2. dsession[host'] = "none"
    BY <2>1 DEF SessionInv
  <2>3. Len(dgot[host']) = 0 /\ dpay[host'] = 0
    BY <2>1, <2>2, Zero DEF SessionInv
  <2>4. UNCHANGED <<dgot, dpay>>
    BY DEF ConnectDetectDaemon, daemonVars, sessionVars, writerVars
  <2> QED  BY <2>1, <2>3, <2>4 DEF OutFlow, Flow
<1>10. InFlow'
  <2>1. /\ host' \in Session /\ born \in Nat /\ host' = born + 1 /\ sending' = <<>> /\ sent' = 0
        /\ hgot' = <<>> /\ hpay' = 0 /\ worker' = "idle"
    BY UsbAssumption, Zero DEF HostTypes, ConnectDetectDaemon, Session
  <2>2. dsession[host'] = "none"
    BY <2>1 DEF SessionInv
  <2>3. rest[host'] = <<>> /\ answered[host'] = 0
    BY <2>1, <2>2, Zero DEF SessionInv
  <2>4. UNCHANGED <<rest, answered>>
    BY DEF ConnectDetectDaemon, daemonVars, sessionVars, writerVars
  <2> QED  BY <2>1, <2>3, <2>4, Zero DEF InFlow, Flow
<1>11. OwnBody'
  BY DEF OwnBody, ConnectDetectDaemon, sessionVars, writerVars, daemonVars
<1>12. NoCrossTalk'
  BY DEF NoCrossTalk, ConnectDetectDaemon, sessionVars, daemonVars
<1> QED  BY <1>1, <1>2, <1>3, <1>4, <1>5, <1>6, <1>7, <1>8, <1>9, <1>10, <1>11, <1>12

\* A session without a device is asked to end.
LEMMA KickoutZombieStep ==
    ASSUME IInv, KickoutZombie
    PROVE  IInv'
<1> USE DEF IInv
<1>1. DaemonTypes' /\ \A s \in Session : SessionInv(s)'
  BY DaemonKept DEF KickoutZombie, daemonVars, freeVars, hostVars
<1>2. HostTypes'
  BY DEF HostTypes, KickoutZombie, FreeSession, readerVars, workerVars
<1>3. CableTypes'
  BY DEF CableTypes, Packets, KickoutZombie, cableVars
<1>4. HostInv'
  BY DEF HostInv, KickoutZombie, readerVars, workerVars
<1>5. OutInv'
  BY DEF OutInv, KickoutZombie, cableVars, readerVars, workerVars, loopVars, daemonVars
<1>6. InInv'
  BY DEF InInv, KickoutZombie, writerVars, daemonVars
<1>7. ReadInv'
  BY DEF ReadInv, AliveIsReading, Stalled, KickoutZombie, cableVars, loopVars,
      daemonVars
<1>8. OutFlow'
  BY DEF OutFlow, KickoutZombie, workerVars, loopVars, sessionVars, daemonVars
<1>9. InFlow'
  BY DEF InFlow, GaveUp, KickoutZombie, readerVars, loopVars, sessionVars, writerVars,
      daemonVars
<1>10. OwnBody'
  BY DEF OwnBody, KickoutZombie, readerVars, sessionVars, writerVars, daemonVars
<1>11. NoCrossTalk'
  BY DEF NoCrossTalk, KickoutZombie, sessionVars, daemonVars
<1> QED  BY <1>1, <1>2, <1>3, <1>4, <1>5, <1>6, <1>7, <1>8, <1>9, <1>10, <1>11

\* The endpoints are shut, then the worker is stopped.
LEMMA FreeSessionOpeateStep ==
    ASSUME IInv, FreeSessionOpeate
    PROVE  IInv'
<1> USE DEF IInv
<1>1. DaemonTypes' /\ \A s \in Session : SessionInv(s)'
  BY DaemonKept DEF FreeSessionOpeate, daemonVars, freeVars, hostVars
<1>2. HostTypes'
  BY DEF HostTypes, FreeSessionOpeate, CancelUsbIo, Referenced, readerVars, workerVars
<1>3. CableTypes'
  BY DEF CableTypes, Packets, FreeSessionOpeate, cableVars
<1>4. HostInv'
  BY DEF HostInv, FreeSessionOpeate, Referenced, readerVars, workerVars
<1>5. OutInv'
  BY DEF OutInv, FreeSessionOpeate, cableVars, readerVars, workerVars, loopVars,
      daemonVars
<1>6. InInv'
  BY DEF InInv, FreeSessionOpeate, writerVars, daemonVars
<1>7. ReadInv'
  BY DEF ReadInv, AliveIsReading, Stalled, FreeSessionOpeate, cableVars, loopVars,
      daemonVars
<1>8. OutFlow'
  BY DEF OutFlow, FreeSessionOpeate, workerVars, loopVars, sessionVars, daemonVars
<1>9. InFlow'
  BY DEF InFlow, GaveUp, FreeSessionOpeate, readerVars, loopVars, sessionVars,
      writerVars, daemonVars
<1>10. OwnBody'
  BY DEF OwnBody, FreeSessionOpeate, readerVars, sessionVars, writerVars, daemonVars
<1>11. NoCrossTalk'
  BY DEF NoCrossTalk, FreeSessionOpeate, sessionVars, daemonVars
<1> QED  BY <1>1, <1>2, <1>3, <1>4, <1>5, <1>6, <1>7, <1>8, <1>9, <1>10, <1>11

\* The session of the host is gone: no write of its was under way.
LEMMA FreeSessionContinueStep ==
    ASSUME IInv, FreeSessionContinue
    PROVE  IInv'
<1> USE DEF IInv
<1>1. DaemonTypes' /\ \A s \in Session : SessionInv(s)'
  BY DaemonKept DEF FreeSessionContinue, daemonVars, freeVars, hostVars
<1>2. HostTypes'
  <2>1. /\ valid' \in BOOLEAN /\ isDead' \in BOOLEAN /\ inShut' \in BOOLEAN
        /\ outShut' \in BOOLEAN /\ cancelIn' \in BOOLEAN /\ resetIO' \in BOOLEAN
    BY DEF FreeSessionContinue, HostGone
  <2> QED  BY <2>1, Zero DEF HostTypes, FreeSessionContinue, HostGone
<1>3. CableTypes'
  BY DEF CableTypes, Packets, FreeSessionContinue, cableVars
<1>4. HostInv'
  BY BlockIsRest, Zero DEF HostInv, FreeSessionContinue, HostGone
<1>5. OutInv'
  <2>1. h2d \notin Packet \cup {Failed}
    BY DEF HostInv, OutInv, FreeSessionContinue
  <2> QED  BY <2>1 DEF OutInv, FreeSessionContinue, HostGone, cableVars
<1>6. InInv'
  BY DEF InInv, FreeSessionContinue, writerVars, daemonVars
<1>7. ReadInv'
  BY DEF ReadInv, AliveIsReading, Stalled, FreeSessionContinue, cableVars, loopVars,
      daemonVars
<1>8. OutFlow'
  BY DEF OutFlow, FreeSessionContinue, HostGone, loopVars, sessionVars, daemonVars
<1>9. InFlow'
  BY DEF InFlow, GaveUp, FreeSessionContinue, HostGone, loopVars, sessionVars,
      writerVars, daemonVars
<1>10. OwnBody'
  BY DEF OwnBody, FreeSessionContinue, HostGone, sessionVars, writerVars, daemonVars
<1>11. NoCrossTalk'
  BY DEF NoCrossTalk, FreeSessionContinue, HostGone, sessionVars, daemonVars
<1> QED  BY <1>1, <1>2, <1>3, <1>4, <1>5, <1>6, <1>7, <1>8, <1>9, <1>10, <1>11

\* The worker has a block to send: the last one was written to its end.
LEMMA SendUSBBlockStep ==
    ASSUME IInv, SendUSBBlock
    PROVE  IInv'
<1> USE DEF IInv
<1>1. DaemonTypes' /\ \A s \in Session : SessionInv(s)'
  BY DaemonKept DEF SendUSBBlock, daemonVars, freeVars, hostVars
<1>2. HostTypes'
  <2>1. sent' \in 0 .. MaxBlocks
    BY UsbAssumption DEF HostTypes, SendUSBBlock
  <2> QED  BY <2>1 DEF HostTypes, SendUSBBlock, readerVars, freeVars
<1>3. CableTypes'
  BY DEF CableTypes, Packets, SendUSBBlock, cableVars
<1>4. HostInv'
  <2>1. IsRest(sending', host, sent') /\ sending' # <<>>
    BY BlockIsRest, Zero DEF HostTypes, SendUSBBlock
  <2> QED  BY <2>1 DEF HostInv, SendUSBBlock, readerVars, freeVars
<1>5. OutInv'
  BY DEF OutInv, SendUSBBlock, cableVars, readerVars, freeVars, loopVars, daemonVars
<1>6. InInv'
  BY DEF InInv, SendUSBBlock, writerVars, daemonVars
<1>7. ReadInv'
  BY DEF ReadInv, AliveIsReading, Stalled, SendUSBBlock, cableVars, loopVars,
      daemonVars
<1>8. OutFlow'
  <2>1. /\ sending = <<>> /\ sent \in Nat /\ sending' = BlockOf(host, sent + 1) /\ sent' = sent + 1
        /\ worker # "wait" /\ worker' # "wait"
    BY Zero DEF HostTypes, HostInv, SendUSBBlock
  <2>2. UNCHANGED <<valid, isAlive, reading, host, dgot, dpay>>
    BY DEF SendUSBBlock, freeVars, loopVars, sessionVars, daemonVars
  <2> QED  BY <2>1, <2>2, NewBlock DEF OutFlow
<1>9. InFlow'
  BY DEF InFlow, GaveUp, SendUSBBlock, readerVars, freeVars, loopVars, sessionVars,
      writerVars, daemonVars
<1>10. OwnBody'
  BY DEF OwnBody, SendUSBBlock, readerVars, freeVars, sessionVars, writerVars,
      daemonVars
<1>11. NoCrossTalk'
  BY DEF NoCrossTalk, SendUSBBlock, freeVars, sessionVars, daemonVars
<1> QED  BY <1>1, <1>2, <1>3, <1>4, <1>5, <1>6, <1>7, <1>8, <1>9, <1>10, <1>11

\* The next packet of the block is submitted.
LEMMA SendPacketStep ==
    ASSUME IInv, SendPacket
    PROVE  IInv'
<1> USE DEF IInv
<1>1. DaemonTypes' /\ \A s \in Session : SessionInv(s)'
  BY DaemonKept DEF SendPacket, daemonVars, freeVars, hostVars
<1>2. HostTypes'
  BY DEF HostTypes, SendPacket, readerVars, freeVars
<1>3. CableTypes'
  <2>1. Head(sending) \in Packet
    BY Lefts, RestHead DEF HostInv, SendPacket
  <2> QED  BY <2>1 DEF CableTypes, Packets, SendPacket, Submit, cableVars
<1>4. HostInv'
  BY DEF HostInv, SendPacket, readerVars, freeVars
<1>5. OutInv'
  <2>1. Head(sending) \in Packet
    BY Lefts, RestHead DEF HostInv, SendPacket
  <2>2. Head(sending) # Failed /\ Head(sending) # Antique /\ Failed \notin Packet /\ Failed # Antique
    BY <2>1, Packing
  <2> QED  BY <2>1, <2>2 DEF OutInv, SendPacket, Submit, cableVars, readerVars, freeVars, loopVars,
              daemonVars
<1>6. InInv'
  BY DEF InInv, SendPacket, writerVars, daemonVars
<1>7. ReadInv'
  BY DEF ReadInv, AliveIsReading, Stalled, SendPacket, cableVars, loopVars, daemonVars
<1>8. OutFlow'
  <2>1. valid => h2d' # Nothing
    <3>1. Head(sending) # Nothing
      BY Lefts, RestHead, Packing DEF HostInv, SendPacket
    <3> QED  BY <3>1 DEF SendPacket, Submit
  <2>2. worker # "wait" /\ UNCHANGED <<valid, isAlive, reading, sending, host, sent, dgot, dpay>>
    BY DEF SendPacket, freeVars, loopVars, sessionVars, daemonVars
  <2> QED  BY <2>1, <2>2 DEF OutFlow
<1>9. InFlow'
  BY DEF InFlow, GaveUp, SendPacket, readerVars, freeVars, loopVars, sessionVars,
      writerVars, daemonVars
<1>10. OwnBody'
  BY DEF OwnBody, SendPacket, readerVars, freeVars, sessionVars, writerVars, daemonVars
<1>11. NoCrossTalk'
  BY DEF NoCrossTalk, SendPacket, freeVars, sessionVars, daemonVars
<1> QED  BY <1>1, <1>2, <1>3, <1>4, <1>5, <1>6, <1>7, <1>8, <1>9, <1>10, <1>11

\* A packet was taken, or failed on a connection that carries nothing any more.
LEMMA PacketSentStep ==
    ASSUME IInv, PacketSent
    PROVE  IInv'
<1> USE DEF IInv
<1>1. DaemonTypes' /\ \A s \in Session : SessionInv(s)'
  BY DaemonKept DEF PacketSent, SendFailed, freeVars
<1>2. HostTypes'
  <2>1. /\ isDead' \in BOOLEAN /\ inShut' \in BOOLEAN
        /\ outShut' \in BOOLEAN /\ cancelIn' \in BOOLEAN
    <3>1. CASE h2d = Failed
      BY <3>1 DEF HostTypes, PacketSent, SendFailed, CancelUsbIo, FreeSession
    <3>2. CASE h2d # Failed
      BY <3>2 DEF HostTypes, PacketSent, freeVars
    <3> QED  BY <3>1, <3>2
  <2>2. UNCHANGED <<host, born, freeing, valid, reader, got, hpay, resetIO, sent, hgot>>
    BY DEF PacketSent, SendFailed, freeVars, readerVars
  <2>3. worker' \in {"stop", "idle", "ready"} /\ blockLock' \in {"none", blockLock}
    BY DEF PacketSent
  <2> QED  BY <2>1, <2>2, <2>3 DEF HostTypes
<1>3. CableTypes'
  BY DEF CableTypes, Packets, PacketSent, cableVars
<1>4. HostInv'
  <2>1. sending # <<>> /\ IsRest(Tail(sending), host, sent) /\ IsRest(<<>>, host, sent)
    BY Lefts, RestHead, BlockIsRest, Zero DEF HostInv, PacketSent
  <2> QED  BY <2>1 DEF HostInv, PacketSent, SendFailed, readerVars, freeVars
<1>5. OutInv'
  BY Packing DEF HostInv, OutInv, PacketSent, SendFailed, cableVars, readerVars, freeVars,
      loopVars, daemonVars
<1>6. InInv'
  BY DEF InInv, PacketSent, writerVars, daemonVars
<1>7. ReadInv'
  BY DEF ReadInv, AliveIsReading, Stalled, PacketSent, cableVars, loopVars, daemonVars
<1>8. OutFlow'
  <2>1. worker = "wait" /\ worker' # "wait" /\ sending # <<>>
    BY DEF HostInv, PacketSent
  <2>2. UNCHANGED <<valid, isAlive, reading, host, sent, dgot, dpay>>
    BY DEF PacketSent, SendFailed, freeVars, loopVars, sessionVars, daemonVars
  <2>3. CASE h2d = Failed
    BY <2>2, <2>3 DEF OutInv, OutFlow
  <2>4. CASE h2d # Failed
    <3>1. h2d = Nothing /\ sending' = Tail(sending)
      BY <2>4 DEF PacketSent
    <3> QED  BY <2>1, <2>2, <3>1, Written DEF OutFlow
  <2> QED  BY <2>3, <2>4
<1>9. InFlow'
  BY DEF InFlow, GaveUp, PacketSent, SendFailed, readerVars, freeVars, loopVars,
      sessionVars, writerVars, daemonVars
<1>10. OwnBody'
  BY DEF OwnBody, PacketSent, SendFailed, readerVars, freeVars, sessionVars,
      writerVars, daemonVars
<1>11. NoCrossTalk'
  BY DEF NoCrossTalk, PacketSent, SendFailed, freeVars, sessionVars, daemonVars
<1> QED  BY <1>1, <1>2, <1>3, <1>4, <1>5, <1>6, <1>7, <1>8, <1>9, <1>10, <1>11

\* A write ends that the daemon does not take.
LEMMA SendTimeoutStep ==
    ASSUME IInv, SendTimeout
    PROVE  IInv'
<1> USE DEF IInv
<1>1. HostTypes' /\ HostInv'
  BY HostKept DEF SendTimeout
<1>2. DaemonTypes' /\ \A s \in Session : SessionInv(s)'
  BY DaemonKept DEF SendTimeout, daemonVars, freeVars, hostVars
<1>3. CableTypes'
  BY DEF CableTypes, Packets, SendTimeout, Broken, cableVars
<1>4. OutInv'
  <2>1. h2d' = Broken(h2d) /\ h2d \in Packets /\ reading = "no"
    BY DEF SendTimeout, CableTypes
  <2>2. h2d' \notin Packet /\ h2d' # Antique /\ (h2d' = Failed => h2d \in Packet \cup {Failed})
    BY <2>1, Breaking
  <2> QED  BY <2>1, <2>2 DEF OutInv, SendTimeout, cableVars, hostVars, readerVars, workerVars, freeVars,
              loopVars, daemonVars
<1>5. InInv'
  BY DEF InInv, SendTimeout, writerVars, daemonVars
<1>6. ReadInv'
  BY DEF ReadInv, AliveIsReading, Stalled, SendTimeout, cableVars, loopVars, daemonVars
<1>7. OutFlow'
  BY DEF OutFlow, SendTimeout, Broken, workerVars, freeVars, loopVars, sessionVars,
      hostVars, daemonVars
<1>8. InFlow'
  BY DEF InFlow, GaveUp, SendTimeout, readerVars, freeVars, loopVars, sessionVars,
      writerVars, hostVars, daemonVars
<1>9. OwnBody'
  BY DEF OwnBody, SendTimeout, readerVars, freeVars, sessionVars, writerVars, hostVars,
      daemonVars
<1>10. NoCrossTalk'
  BY DEF NoCrossTalk, SendTimeout, freeVars, sessionVars, hostVars, daemonVars
<1> QED  BY <1>1, <1>2, <1>3, <1>4, <1>5, <1>6, <1>7, <1>8, <1>9, <1>10

\* The reading thread asks for a reset, while no block is under way.
LEMMA SendResetStep ==
    ASSUME IInv, SendReset
    PROVE  IInv'
<1> USE DEF IInv
<1>1. DaemonTypes' /\ \A s \in Session : SessionInv(s)'
  BY DaemonKept DEF SendReset, daemonVars, freeVars, hostVars
<1>2. HostTypes'
  BY DEF HostTypes, SendReset, workerVars, freeVars
<1>3. CableTypes'
  <2>1. Pack("reset", got.s, 0) \in Packet /\ Pack("reset", got.s, 0).kind = "reset"
    <3>1. got.s \in Session
      BY DEF HostInv, SendReset, Packet
    <3> QED  BY <3>1, Packing, Zero
  <2> QED  BY <2>1 DEF CableTypes, Packets, SendReset, Submit, cableVars
<1>4. HostInv'
  BY DEF HostInv, SendReset, workerVars, freeVars
<1>5. OutInv'
  <2>1. Pack("reset", got.s, 0) \in Packet /\ Pack("reset", got.s, 0).kind = "reset"
    <3>1. got.s \in Session
      BY DEF HostInv, SendReset, Packet
    <3> QED  BY <3>1, Packing, Zero
  <2>2. Failed \notin Packet /\ Antique \notin Packet /\ Failed # Antique
    BY Packing
  <2> QED  BY <2>1, <2>2 DEF OutInv, SendReset, Submit, cableVars, workerVars, freeVars, loopVars,
              daemonVars
<1>6. InInv'
  BY DEF InInv, SendReset, writerVars, daemonVars
<1>7. ReadInv'
  BY DEF ReadInv, AliveIsReading, Stalled, SendReset, cableVars, loopVars, daemonVars
<1>8. OutFlow'
  <2>1. worker # "wait"
    BY DEF HostInv, SendReset
  <2> QED  BY <2>1 DEF OutFlow, SendReset, workerVars, freeVars, loopVars, sessionVars, daemonVars
<1>9. InFlow'
  BY DEF InFlow, GaveUp, SendReset, freeVars, loopVars, sessionVars, writerVars,
      daemonVars
<1>10. OwnBody'
  BY DEF OwnBody, SendReset, freeVars, sessionVars, writerVars, daemonVars
<1>11. NoCrossTalk'
  BY DEF NoCrossTalk, SendReset, freeVars, sessionVars, daemonVars
<1> QED  BY <1>1, <1>2, <1>3, <1>4, <1>5, <1>6, <1>7, <1>8, <1>9, <1>10, <1>11

\* The reset was sent.
LEMMA ResetSentStep ==
    ASSUME IInv, ResetSent
    PROVE  IInv'
<1> USE DEF IInv
<1>1. DaemonTypes' /\ \A s \in Session : SessionInv(s)'
  BY DaemonKept DEF ResetSent, SendFailed, freeVars
<1>2. HostTypes'
  <2>1. /\ isDead' \in BOOLEAN /\ inShut' \in BOOLEAN
        /\ outShut' \in BOOLEAN /\ cancelIn' \in BOOLEAN
    <3>1. CASE h2d = Failed
      BY <3>1 DEF HostTypes, ResetSent, SendFailed, CancelUsbIo, FreeSession
    <3>2. CASE h2d # Failed
      BY <3>2 DEF HostTypes, ResetSent, freeVars
    <3> QED  BY <3>1, <3>2
  <2>2. UNCHANGED <<host, born, freeing, valid, worker, hpay, sent, hgot>>
    BY DEF ResetSent, SendFailed, freeVars, workerVars
  <2>3. blockLock' = "none" /\ resetIO' \in BOOLEAN /\ reader' = "loop" /\ got' = Nothing
    BY DEF ResetSent
  <2> QED  BY <2>1, <2>2, <2>3 DEF HostTypes
<1>3. CableTypes'
  BY DEF CableTypes, Packets, ResetSent, cableVars
<1>4. HostInv'
  BY DEF HostInv, ResetSent, SendFailed, workerVars, freeVars
<1>5. OutInv'
  <2>1. worker # "wait"
    BY DEF HostInv, ResetSent
  <2> QED  BY <2>1, Packing DEF OutInv, ResetSent, SendFailed, cableVars, workerVars, freeVars, loopVars,
              daemonVars
<1>6. InInv'
  BY DEF InInv, ResetSent, writerVars, daemonVars
<1>7. ReadInv'
  BY DEF ReadInv, AliveIsReading, Stalled, ResetSent, cableVars, loopVars, daemonVars
<1>8. OutFlow'
  <2>1. worker # "wait"
    BY DEF HostInv, ResetSent
  <2> QED  BY <2>1 DEF OutFlow, ResetSent, SendFailed, workerVars, freeVars, loopVars, sessionVars,
              daemonVars
<1>9. InFlow'
  BY DEF InFlow, GaveUp, ResetSent, SendFailed, freeVars, loopVars, sessionVars,
      writerVars, daemonVars
<1>10. OwnBody'
  BY DEF OwnBody, ResetSent, SendFailed, freeVars, sessionVars, writerVars, daemonVars
<1>11. NoCrossTalk'
  BY DEF NoCrossTalk, ResetSent, SendFailed, freeVars, sessionVars, daemonVars
<1> QED  BY <1>1, <1>2, <1>3, <1>4, <1>5, <1>6, <1>7, <1>8, <1>9, <1>10, <1>11

\* The reading thread begins a read, or ends.
LEMMA BeginUsbReadStep ==
    ASSUME IInv, BeginUsbRead
    PROVE  IInv'
<1> USE DEF IInv
<1>1. DaemonTypes' /\ \A s \in Session : SessionInv(s)'
  BY DaemonKept DEF BeginUsbRead, daemonVars, freeVars, hostVars
<1>2. HostTypes'
  <2>1. /\ inShut' \in BOOLEAN /\ isDead' \in BOOLEAN /\ reader' \in {"end", "wait"}
    BY DEF HostTypes, BeginUsbRead, EndOfRead, FreeSession
  <2> QED  BY <2>1 DEF HostTypes, BeginUsbRead, workerVars
<1>3. CableTypes'
  BY DEF CableTypes, Packets, BeginUsbRead, cableVars
<1>4. HostInv'
  BY DEF HostInv, BeginUsbRead, EndOfRead, workerVars
<1>5. OutInv'
  BY DEF OutInv, BeginUsbRead, EndOfRead, cableVars, workerVars, loopVars, daemonVars
<1>6. InInv'
  BY DEF InInv, BeginUsbRead, writerVars, daemonVars
<1>7. ReadInv'
  BY DEF ReadInv, AliveIsReading, Stalled, BeginUsbRead, cableVars, loopVars,
      daemonVars
<1>8. OutFlow'
  BY DEF OutFlow, BeginUsbRead, workerVars, loopVars, sessionVars, daemonVars
<1>9. InFlow'
  BY DEF InFlow, GaveUp, BeginUsbRead, loopVars, sessionVars, writerVars, daemonVars
<1>10. OwnBody'
  BY DEF OwnBody, BeginUsbRead, sessionVars, writerVars, daemonVars
<1>11. NoCrossTalk'
  BY DEF NoCrossTalk, BeginUsbRead, sessionVars, daemonVars
<1> QED  BY <1>1, <1>2, <1>3, <1>4, <1>5, <1>6, <1>7, <1>8, <1>9, <1>10, <1>11

\* The read of the host fails.
LEMMA ReadFailsStep ==
    ASSUME IInv, ReadFails
    PROVE  IInv'
<1> USE DEF IInv
<1>1. DaemonTypes' /\ \A s \in Session : SessionInv(s)'
  BY DaemonKept DEF ReadFails, daemonVars, freeVars, hostVars
<1>2. HostTypes'
  BY DEF HostTypes, ReadFails, EndOfRead, FreeSession, workerVars
<1>3. CableTypes'
  BY DEF CableTypes, Packets, ReadFails, cableVars
<1>4. HostInv'
  BY DEF HostInv, ReadFails, EndOfRead, workerVars
<1>5. OutInv'
  BY DEF OutInv, ReadFails, EndOfRead, cableVars, workerVars, loopVars, daemonVars
<1>6. InInv'
  BY DEF InInv, ReadFails, writerVars, daemonVars
<1>7. ReadInv'
  BY DEF ReadInv, AliveIsReading, Stalled, ReadFails, cableVars, loopVars, daemonVars
<1>8. OutFlow'
  BY DEF OutFlow, ReadFails, workerVars, loopVars, sessionVars, daemonVars
<1>9. InFlow'
  BY DEF InFlow, GaveUp, ReadFails, loopVars, sessionVars, writerVars, daemonVars
<1>10. OwnBody'
  BY DEF OwnBody, ReadFails, sessionVars, writerVars, daemonVars
<1>11. NoCrossTalk'
  BY DEF NoCrossTalk, ReadFails, sessionVars, daemonVars
<1> QED  BY <1>1, <1>2, <1>3, <1>4, <1>5, <1>6, <1>7, <1>8, <1>9, <1>10, <1>11

\* The host reads a packet: of another session, a header of its own, or the body after it.
LEMMA ReadUSBStep ==
    ASSUME IInv, ReadUSB
    PROVE  IInv'
<1> USE DEF IInv
<1>a. /\ d2h \in Packet /\ valid /\ d2h' = Nothing
      /\ UNCHANGED <<host, born, valid, worker, sending, sent, blockLock, freeing>>
      /\ UNCHANGED <<writer, rest, answered, dsession, isAlive, mutexUsbFfs, dgot>>
  BY DEF ReadUSB, workerVars, freeVars, daemonVars, writerVars, sessionVars, loopVars
<1>b. PICK m \in Session :
        /\ m = mutexUsbFfs /\ m # 0 /\ writer[m] = "writing" /\ rest[m] # <<>>
        /\ dsession[m] \in {"live", "dead"}
        /\ d2h = Head(rest[m]) /\ d2h.s = m /\ d2h.kind \in {"header", "nop", "body"}
  BY <1>a, InPacket
<1>c. d2h.n \in 0 .. MaxBlocks /\ d2h.s \in Session
  BY <1>a DEF Packet
<1>d. /\ host \in Session /\ answered[host] \in Nat /\ Len(hgot) \in Nat
  BY Lefts, Zero DEF HostTypes
<1>e. ASSUME m = host
      PROVE  /\ d2h.kind = "header" =>
                   /\ d2h.n = answered[host]
                   /\ Flow(rest[host], TRUE, host, answered[host], Len(hgot), answered[host])
             /\ d2h.kind = "nop" =>
                   Flow(rest[host], TRUE, host, answered[host], Len(hgot), hpay)
             /\ d2h.kind = "body" =>
                   /\ hpay # 0 /\ answered[host] = Len(hgot) + 1
                   /\ d2h = Pack("body", host, answered[host])
                   /\ Flow(rest[host], TRUE, host, answered[host], Len(hgot) + 1, 0)
  <2>1. d2h # Nothing /\ rest[host] # <<>> /\ d2h = Head(rest[host]) /\ writer[host] = "writing"
    BY <1>a, <1>b, <1>e, Packing
  <2>2. Flow(rest[host], FALSE, host, answered[host], Len(hgot), hpay)
    BY <1>a, <2>1 DEF InFlow, GaveUp
  <2> DEFINE q == rest[host]
             n == answered[host]
             len == Len(hgot)
  <2>3. q # <<>> /\ n \in Nat /\ len \in Nat /\ Flow(q, FALSE, host, n, len, hpay)
    BY <1>d, <2>1, <2>2
  <2> HIDE DEF q, n, len
  <2>4. Head(q).kind = "header" => Head(q).n = n /\ Flow(q, TRUE, host, n, len, n)
    BY <2>3, Arrives
  <2>5. Head(q).kind = "nop" => Flow(q, TRUE, host, n, len, hpay)
    BY <2>3, Arrives
  <2>6. Head(q).kind = "body" => /\ hpay # 0 /\ n = len + 1 /\ Head(q) = Pack("body", host, n)
                                 /\ Flow(q, TRUE, host, n, len + 1, 0)
    BY <2>3, Arrives
  <2> QED  BY <2>1, <2>4, <2>5, <2>6 DEF q, n, len
<1> DEFINE Refused == /\ m # host /\ reader' \in {"loop", "reset"} /\ got' \in Packet
                      /\ UNCHANGED <<hpay, hgot>>
           Header == /\ m = host /\ d2h.kind \in {"header", "nop"} /\ reader' = "loop"
                     /\ hpay' = IF d2h.kind = "header" THEN d2h.n ELSE hpay
                     /\ UNCHANGED <<got, hgot>>
           Body == /\ m = host /\ d2h.kind = "body" /\ reader' = "loop" /\ hpay' = 0
                   /\ hgot' = Append(hgot, d2h) /\ UNCHANGED got
<1>f. Refused \/ Header \/ Body
  <2>1. CASE d2h.kind \in {"header", "nop"} /\ d2h.s # host
    <3>1. Pack("reset", d2h.s, 0) \in Packet
      BY <1>c, Packing, Zero
    <3> QED  BY <1>b, <2>1, <3>1
              DEF ReadUSB, SendToHdcStream, PreSendUsbSoftReset, IsUsbPacketHeader
  <2>2. CASE d2h.kind \in {"header", "nop"} /\ d2h.s = host
    BY <1>b, <2>2 DEF ReadUSB, SendToHdcStream, IsUsbPacketHeader
  <2>3. CASE d2h.kind = "body" /\ hpay = 0
    <3>1. m # host
      BY <1>e, <2>3
    <3>2. Pack("reset", 0, 0) \in Packet
      BY Packing, Zero
    <3> QED  BY <2>3, <3>1, <3>2
              DEF ReadUSB, SendToHdcStream, PreSendUsbSoftReset, IsUsbPacketHeader
  <2>4. CASE d2h.kind = "body" /\ hpay # 0
    <3>1. m = host
      BY <1>b, <2>4 DEF OwnBody
    <3> QED  BY <2>4, <3>1 DEF ReadUSB, SendToHdcStream, IsUsbPacketHeader
  <2> QED  BY <1>b, <2>1, <2>2, <2>3, <2>4
<1>g. Body => /\ hpay # 0 /\ answered[host] = Len(hgot) + 1
              /\ d2h = Pack("body", host, Len(hgot) + 1)
              /\ Flow(rest[host], TRUE, host, answered[host], Len(hgot) + 1, 0)
  BY <1>e
<1>h. Body => /\ hgot' \in Seq(Packet) /\ Len(hgot') = Len(hgot) + 1
              /\ DOMAIN hgot' = 1 .. (Len(hgot) + 1) /\ hgot'[Len(hgot) + 1] = d2h
              /\ \A i \in DOMAIN hgot : hgot'[i] = hgot[i]
  BY <1>a, Grown DEF HostTypes
<1>1. DaemonTypes' /\ \A s \in Session : SessionInv(s)'
  BY DaemonKept DEF ReadUSB, daemonVars, freeVars, hostVars
<1>2. HostTypes'
  BY <1>a, <1>c, <1>f, <1>h, Zero DEF HostTypes, ReadUSB, freeVars
<1>3. CableTypes'
  BY Packing DEF CableTypes, Packets, ReadUSB, cableVars
<1>4. HostInv'
  BY <1>a, <1>f DEF HostInv, ReadUSB
<1>5. OutInv'
  BY DEF OutInv, ReadUSB, SendToHdcStream, PreSendUsbSoftReset, IsUsbPacketHeader,
      cableVars, workerVars, freeVars, loopVars, daemonVars
<1>6. InInv'
  BY DEF InInv, ReadUSB, writerVars, daemonVars
<1>7. ReadInv'
  BY DEF ReadInv, AliveIsReading, Stalled, ReadUSB, cableVars, loopVars, daemonVars
<1>8. OutFlow'
  BY DEF OutFlow, ReadUSB, workerVars, freeVars, loopVars, sessionVars, daemonVars
<1>9. InFlow'
  <2>1. CASE Refused
    <3>1. writer[host] # "writing"
      BY <1>b, <1>d, <2>1 DEF SessionInv
    <3> QED  BY <1>a, <2>1, <3>1 DEF InFlow, GaveUp
  <2>2. CASE Header
    <3>1. Flow(rest[host], TRUE, host, answered[host], Len(hgot), hpay')
      BY <1>e, <2>2
    <3> QED  BY <1>a, <1>b, <2>2, <3>1 DEF InFlow
  <2>3. CASE Body
    BY <1>a, <1>b, <1>g, <1>h, <2>3 DEF InFlow
  <2> QED  BY <1>f, <2>1, <2>2, <2>3
<1>10. OwnBody'
  BY <1>a, <1>b, <1>f DEF OwnBody
<1>11. NoCrossTalk'
  <2>1. CASE hgot' = hgot
    BY <1>a, <2>1 DEF NoCrossTalk
  <2>2. CASE Body
    <3>1. ASSUME NEW i \in DOMAIN hgot' PROVE hgot'[i] = Pack("body", host, i)
      <4>1. i \in DOMAIN hgot \/ i = Len(hgot) + 1
        BY <1>h, <2>2, <3>1, Grown, <1>a DEF HostTypes
      <4> QED  BY <1>a, <1>d, <1>g, <1>h, <2>2, <4>1 DEF NoCrossTalk, OutInv
    <3> QED  BY <1>a, <3>1 DEF NoCrossTalk
  <2> QED  BY <1>f, <2>1, <2>2
<1> QED  BY <1>1, <1>2, <1>3, <1>4, <1>5, <1>6, <1>7, <1>8, <1>9, <1>10, <1>11

\* The timer closes the endpoints, or opens them: the function was off the bus, so
\* that no host has a handle.
LEMMA WatchEPTimerStep ==
    ASSUME IInv, WatchEPTimer
    PROVE  IInv'
<1> USE DEF IInv
<1>1. HostTypes' /\ HostInv'
  BY HostKept DEF WatchEPTimer
<1>2. DaemonTypes'
  BY DEF DaemonTypes, WatchEPTimer, ConnectEPPoint, sessionVars, writerVars
<1>3. CableTypes'
  BY DEF CableTypes, Packets, WatchEPTimer, ConnectEPPoint, cableVars
<1>4. OutInv'
  BY DEF OutInv, WatchEPTimer, ConnectEPPoint, cableVars, readerVars, workerVars,
      freeVars, hostVars
<1>5. \A s \in Session : SessionInv(s)'
  BY DEF SessionInv, WatchEPTimer, freeVars, sessionVars, writerVars, hostVars
<1>6. InInv'
  BY DEF InInv, WatchEPTimer, writerVars
<1>7. ReadInv'
  BY DEF ReadInv, AliveIsReading, Stalled, WatchEPTimer, ConnectEPPoint, cableVars
<1>8. OutFlow'
  <2>1. isAlive' => ~valid'
    BY DEF WatchEPTimer, ConnectEPPoint, OutInv, hostVars
  <2> QED  BY <2>1 DEF OutFlow, WatchEPTimer
<1>9. InFlow'
  <2>1. CASE isAlive'
    BY <2>1 DEF WatchEPTimer, ConnectEPPoint, OutInv, hostVars, InFlow
  <2>2. CASE ~isAlive'
    BY <2>2 DEF InFlow, GaveUp, WatchEPTimer, hostVars, freeVars, readerVars,
              sessionVars, writerVars
  <2> QED  BY <2>1, <2>2
<1>10. OwnBody'
  BY DEF OwnBody, WatchEPTimer, readerVars, freeVars, sessionVars, writerVars, hostVars
<1>11. NoCrossTalk'
  BY DEF NoCrossTalk, WatchEPTimer, freeVars, sessionVars, hostVars
<1> QED  BY <1>1, <1>2, <1>3, <1>4, <1>5, <1>6, <1>7, <1>8, <1>9, <1>10, <1>11

\* The endpoints are closed.
LEMMA CloseBulkEpStep ==
    ASSUME IInv, CloseBulkEp
    PROVE  IInv'
<1> USE DEF IInv
<1>1. HostTypes' /\ HostInv'
  BY HostKept DEF CloseBulkEp
<1>2. DaemonTypes'
  BY DEF DaemonTypes, CloseBulkEp, sessionVars, writerVars
<1>3. CableTypes'
  BY DEF CableTypes, Packets, CloseBulkEp, cableVars
<1>4. OutInv'
  BY DEF OutInv, CloseBulkEp, cableVars, readerVars, workerVars, freeVars, hostVars
<1>5. \A s \in Session : SessionInv(s)'
  BY DEF SessionInv, CloseBulkEp, freeVars, sessionVars, writerVars, hostVars
<1>6. InInv'
  BY DEF InInv, CloseBulkEp, writerVars
<1>7. ReadInv'
  BY DEF ReadInv, AliveIsReading, Stalled, CloseBulkEp, cableVars
<1>8. OutFlow'
  BY DEF OutFlow, CloseBulkEp, workerVars, freeVars, sessionVars, hostVars
<1>9. InFlow'
  BY DEF InFlow, GaveUp, CloseBulkEp, readerVars, freeVars, sessionVars, writerVars,
      hostVars
<1>10. OwnBody'
  BY DEF OwnBody, CloseBulkEp, readerVars, freeVars, sessionVars, writerVars, hostVars
<1>11. NoCrossTalk'
  BY DEF NoCrossTalk, CloseBulkEp, freeVars, sessionVars, hostVars
<1> QED  BY <1>1, <1>2, <1>3, <1>4, <1>5, <1>6, <1>7, <1>8, <1>9, <1>10, <1>11

\* A session is freed for its worker.
LEMMA AsyncFreeStep ==
    ASSUME IInv, AsyncFree
    PROVE  IInv'
<1> USE DEF IInv
<1>1. HostTypes' /\ HostInv'
  BY HostKept DEF AsyncFree
<1>2. DaemonTypes'
  BY DEF DaemonTypes, AsyncFree, Free, loopVars
<1>3. CableTypes'
  BY DEF CableTypes, Packets, AsyncFree, cableVars
<1>4. OutInv'
  BY DEF OutInv, AsyncFree, cableVars, readerVars, workerVars, freeVars, loopVars,
      hostVars
<1>5. \A s \in Session : SessionInv(s)'
  BY DEF SessionInv, AsyncFree, Free, freeVars, hostVars
<1>6. InInv'
  BY DEF InInv, AsyncFree
<1>7. ReadInv'
  BY DEF ReadInv, AliveIsReading, Stalled, AsyncFree, cableVars, loopVars
<1>8. OutFlow'
  BY DEF OutFlow, AsyncFree, workerVars, freeVars, loopVars, hostVars
<1>9. InFlow'
  BY DEF InFlow, GaveUp, AsyncFree, Free, readerVars, freeVars, loopVars, hostVars
<1>10. OwnBody'
  BY DEF OwnBody, AsyncFree, Free, readerVars, freeVars, hostVars
<1>11. NoCrossTalk'
  BY DEF NoCrossTalk, AsyncFree, freeVars, hostVars
<1> QED  BY <1>1, <1>2, <1>3, <1>4, <1>5, <1>6, <1>7, <1>8, <1>9, <1>10, <1>11

\* A session of the daemon is gone: if it was the host's, the transport is not alive.
LEMMA FreeSessionFinallyStep ==
    ASSUME IInv, FreeSessionFinally
    PROVE  IInv'
<1> USE DEF IInv
<1>a. PICK s \in Session :
        /\ dsession[s] = "dead" /\ writer[s] = "idle"
        /\ dsession' = [dsession EXCEPT ![s] = "gone"]
        /\ dpay' = [dpay EXCEPT ![s] = 0] /\ dgot' = [dgot EXCEPT ![s] = <<>>]
        /\ answered' = [answered EXCEPT ![s] = 0]
        /\ isAlive' = (isAlive /\ currentSessionId # s)
        /\ UNCHANGED <<cableVars, up, h2d, d2h, hostVars, atPollQueue, reading, eps,
                       currentSessionId, writer, rest, mutexUsbFfs, freeq>>
  BY DEF FreeSessionFinally
<1>b. isAlive' \in BOOLEAN /\ (isAlive' => isAlive)
  BY <1>a
<1>c. UNCHANGED <<valid, host, born, sending, worker, sent, hgot, hpay>>
  BY <1>a DEF hostVars, freeVars, workerVars, readerVars
<1>d. s = host => ~isAlive'
  BY <1>a DEF SessionInv, HostTypes
<1>1. HostTypes' /\ HostInv'
  BY <1>a, HostKept
<1>2. DaemonTypes'
  BY <1>a, <1>b, Zero DEF DaemonTypes
<1>3. CableTypes'
  BY <1>a DEF CableTypes, cableVars
<1>4. OutInv'
  BY <1>a DEF OutInv, cableVars, hostVars, freeVars, readerVars, workerVars
<1>5. \A t \in Session : SessionInv(t)'
  <2> SUFFICES ASSUME NEW u \in Session PROVE SessionInv(u)'
    OBVIOUS
  <2>1. CASE u = s
    BY <1>a, <1>c, <2>1, BlockIsRest, Zero DEF SessionInv, DaemonTypes
  <2>2. CASE u # s
    BY <1>a, <1>c, <2>2 DEF SessionInv, DaemonTypes
  <2> QED  BY <2>1, <2>2
<1>6. InInv'
  BY <1>a DEF InInv
<1>7. ReadInv'
  BY <1>a, <1>b DEF ReadInv, AliveIsReading, Stalled, cableVars
<1>8. OutFlow'
  BY <1>a, <1>b, <1>c, <1>d DEF OutFlow, DaemonTypes, HostTypes
<1>9. InFlow'
  <2>1. CASE s = host
    BY <1>a, <1>c, <1>d, <2>1 DEF InFlow, GaveUp
  <2>2. CASE s # host
    BY <1>a, <1>b, <1>c, <2>2 DEF InFlow, GaveUp, DaemonTypes
  <2> QED  BY <2>1, <2>2
<1>10. OwnBody'
  BY <1>a, <1>c DEF OwnBody, DaemonTypes
<1>11. NoCrossTalk'
  BY <1>a, <1>c DEF NoCrossTalk, DaemonTypes
<1> QED  BY <1>1, <1>2, <1>3, <1>4, <1>5, <1>6, <1>7, <1>8, <1>9, <1>10, <1>11

\* A worker has a block to send: what it answers has arrived.
LEMMA AnswerBlockStep ==
    ASSUME NEW t \in Session, IInv, AnswerBlock(t)
    PROVE  IInv'
<1> USE DEF IInv
<1>a. /\ answered[t] \in Nat /\ Len(dgot[t]) \in Nat /\ answered[t] < Len(dgot[t])
      /\ answered[t] + 1 \in 0 .. MaxBlocks /\ answered[t] + 1 <= Len(dgot[t])
  BY Zero DEF AnswerBlock, DaemonTypes, SessionInv
<1>b. /\ IsRest(BlockOf(t, answered[t] + 1), t, answered[t] + 1)
      /\ BlockOf(t, answered[t] + 1) # <<>>
  BY <1>a, BlockIsRest
<1>1. HostTypes' /\ HostInv'
  BY HostKept DEF AnswerBlock
<1>2. DaemonTypes'
  BY <1>a DEF DaemonTypes, AnswerBlock, loopVars, sessionVars
<1>3. CableTypes'
  BY DEF CableTypes, Packets, AnswerBlock, cableVars
<1>4. OutInv'
  BY DEF OutInv, AnswerBlock, cableVars, readerVars, workerVars, freeVars, loopVars,
      hostVars
<1>5. \A s \in Session : SessionInv(s)'
  <2> SUFFICES ASSUME NEW s \in Session PROVE SessionInv(s)'
    OBVIOUS
  <2>1. CASE s = t
    BY <1>a, <1>b, <2>1 DEF SessionInv, DaemonTypes, AnswerBlock, InMap, sessionVars,
                               hostVars, freeVars
  <2>2. CASE s # t
    BY <2>2 DEF SessionInv, DaemonTypes, AnswerBlock, sessionVars, hostVars, freeVars
  <2> QED  BY <2>1, <2>2
<1>6. InInv'
  <2>1. mutexUsbFfs # 0 => mutexUsbFfs # t
    BY DEF AnswerBlock, SessionInv
  <2> QED  BY <2>1 DEF InInv, AnswerBlock, DaemonTypes
<1>7. ReadInv'
  BY DEF ReadInv, AliveIsReading, Stalled, AnswerBlock, cableVars, loopVars
<1>8. OutFlow'
  BY DEF OutFlow, AnswerBlock, workerVars, freeVars, loopVars, sessionVars, hostVars
<1>9. InFlow'
  <2>1. UNCHANGED <<valid, host, hgot, hpay, d2h, isAlive, dsession>>
    BY DEF AnswerBlock, hostVars, freeVars, readerVars, loopVars, sessionVars
  <2>2. CASE t = host /\ ~GaveUp(host) /\ valid
    <3>1. rest[t] = <<>> /\ writer[t] = "idle"
      BY DEF AnswerBlock, SessionInv
    <3>0. Flow(<<>>, writer[t] = "writing" /\ d2h = Nothing, t, answered[t], Len(hgot), hpay)
      BY <2>2, <3>1 DEF InFlow
    <3>2. Flow(BlockOf(t, answered[t] + 1), FALSE, t, answered[t] + 1, Len(hgot), hpay)
      BY <1>a, <3>0, NewBlock
    <3>3. rest'[t] = BlockOf(t, answered[t] + 1) /\ answered'[t] = answered[t] + 1
          /\ writer'[t] = "ready"
      BY DEF AnswerBlock, DaemonTypes, SessionInv
    <3> QED  BY <2>1, <2>2, <3>2, <3>3 DEF InFlow
  <2>3. CASE t # host
    BY <2>1, <2>3 DEF InFlow, GaveUp, AnswerBlock, DaemonTypes
  <2>4. CASE GaveUp(host) /\ t = host
    BY <2>1, <2>4 DEF InFlow, GaveUp, AnswerBlock, DaemonTypes
  <2>5. CASE ~valid
    BY <2>1, <2>5 DEF InFlow
  <2> QED  BY <2>2, <2>3, <2>4, <2>5
<1>10. OwnBody'
  BY DEF OwnBody, AnswerBlock, readerVars, freeVars, sessionVars, hostVars
<1>11. NoCrossTalk'
  BY DEF NoCrossTalk, AnswerBlock, freeVars, sessionVars, hostVars
<1> QED  BY <1>1, <1>2, <1>3, <1>4, <1>5, <1>6, <1>7, <1>8, <1>9, <1>10, <1>11

\* A worker writes its next packet, or gives up its block.
LEMMA SendUSBRawStep ==
    ASSUME NEW t \in Session, IInv, SendUSBRaw(t)
    PROVE  IInv'
<1> USE DEF IInv
<1>a. d2h = Nothing
  BY DEF SendUSBRaw, InInv
<1>b. rest[t] # <<>> /\ Head(rest[t]) \in Packet /\ dsession[t] \in {"live", "dead"} /\ t # 0
  <2>1. rest[t] # <<>> /\ dsession[t] \in {"live", "dead"} /\ t # 0
    BY DEF SendUSBRaw, SessionInv
  <2> QED  BY <2>1, Lefts, RestHead
<1>c. Head(rest[t]) \notin {Nothing, Failed, Antique}
  BY <1>b, Packing
<1>d. UNCHANGED <<valid, host, born, hgot, hpay, isAlive, dsession, answered, currentSessionId>>
  BY DEF SendUSBRaw, hostVars, freeVars, readerVars, loopVars, sessionVars
<1>1. HostTypes' /\ HostInv'
  BY HostKept DEF SendUSBRaw
<1>2. DaemonTypes'
  <2>1. writer' \in [Session -> {"idle", "ready", "writing"}] /\ mutexUsbFfs' \in Session
    BY DEF DaemonTypes, SendUSBRaw, GiveUp
  <2>2. rest' = [s \in Session |-> rest'[s]] /\ freeq' \subseteq Session
    BY DEF DaemonTypes, SendUSBRaw, GiveUp
  <2> QED  BY <2>1, <2>2 DEF DaemonTypes, SendUSBRaw, loopVars, sessionVars
<1>3. CableTypes'
  BY <1>b, <1>c DEF CableTypes, Packets, SendUSBRaw, cableVars
<1>4. OutInv'
  BY DEF OutInv, SendUSBRaw, cableVars, readerVars, workerVars, freeVars, loopVars,
      hostVars
<1>5. \A s \in Session : SessionInv(s)'
  <2> SUFFICES ASSUME NEW s \in Session PROVE SessionInv(s)'
    OBVIOUS
  <2>1. CASE s = t
    BY <1>b, <2>1, BlockIsRest, Lefts, Zero DEF SessionInv, DaemonTypes, SendUSBRaw, GiveUp,
                                               sessionVars, hostVars, freeVars
  <2>2. CASE s # t
    BY <1>b, <2>2 DEF SessionInv, DaemonTypes, SendUSBRaw, GiveUp, sessionVars,
                         hostVars, freeVars
  <2> QED  BY <2>1, <2>2
<1>6. InInv'
  BY <1>a, <1>b, <1>c DEF InInv, SendUSBRaw, GiveUp
<1>7. ReadInv'
  BY DEF ReadInv, AliveIsReading, Stalled, SendUSBRaw, cableVars, loopVars
<1>8. OutFlow'
  BY DEF OutFlow, SendUSBRaw, workerVars, freeVars, loopVars, sessionVars, hostVars
<1>9. InFlow'
  <2>0. t # host => InFlow'
    <3>1. writer[host] # "writing"
      BY Lefts DEF SendUSBRaw, SessionInv
    <3> QED  BY <1>d, <3>1, Lefts, InElsewhere DEF SendUSBRaw, GiveUp, DaemonTypes
  <2>1. CASE MayWrite(t) /\ t = host
    <3>1. ~GaveUp(host) /\ rest' = rest /\ d2h' # Nothing /\ writer[t] # "writing"
      BY <1>c, <2>1 DEF SendUSBRaw, MayWrite, GaveUp
    <3> QED  BY <1>d, <2>1, <3>1 DEF InFlow
  <2>2. CASE ~MayWrite(t) /\ t = host
    BY <1>b, <1>d, <2>2 DEF InFlow, GaveUp, SendUSBRaw, GiveUp, MayWrite, DaemonTypes
  <2> QED  BY <2>0, <2>1, <2>2
<1>10. OwnBody'
  <2>1. CASE MayWrite(t) /\ hpay # 0
    <3>1. t = host
      BY <2>1 DEF MayWrite, OwnBody, SessionInv, HostTypes
    <3> QED  BY <1>d, <2>1, <3>1 DEF OwnBody, SendUSBRaw
  <2>2. CASE ~MayWrite(t) \/ hpay = 0
    BY <1>d, <2>2 DEF OwnBody, SendUSBRaw
  <2> QED  BY <2>1, <2>2
<1>11. NoCrossTalk'
  BY DEF NoCrossTalk, SendUSBRaw, freeVars, sessionVars, hostVars
<1> QED  BY <1>1, <1>2, <1>3, <1>4, <1>5, <1>6, <1>7, <1>8, <1>9, <1>10, <1>11

\* The write is over: the packet was read, or the transport is not alive any more.
LEMMA SendUSBIOSyncStep ==
    ASSUME NEW t \in Session, IInv, SendUSBIOSync(t)
    PROVE  IInv'
<1> USE DEF IInv
<1>a. /\ writer[t] = "writing" /\ rest[t] # <<>> /\ t = mutexUsbFfs /\ t # 0
      /\ dsession[t] \in {"live", "dead"}
  BY DEF SendUSBIOSync, SessionInv
<1>b. IsRest(Tail(rest[t]), t, answered[t]) /\ IsRest(<<>>, t, answered[t])
  BY <1>a, Lefts, RestHead, BlockIsRest, Zero
<1>c. UNCHANGED <<valid, host, born, hgot, hpay, dsession, dgot, dpay, answered, currentSessionId>>
  BY DEF SendUSBIOSync, hostVars, freeVars, readerVars, sessionVars
<1>d. isAlive' \in BOOLEAN /\ (isAlive' => isAlive)
  BY DEF SendUSBIOSync, DaemonTypes
<1>1. HostTypes' /\ HostInv'
  BY HostKept DEF SendUSBIOSync
<1>2. DaemonTypes'
  <2>1. writer' \in [Session -> {"idle", "ready", "writing"}] /\ mutexUsbFfs' \in Session
    BY Zero DEF DaemonTypes, SendUSBIOSync, Unlock, GiveUp
  <2>2. rest' = [s \in Session |-> rest'[s]] /\ freeq' \subseteq Session
    BY DEF DaemonTypes, SendUSBIOSync, GiveUp
  <2> QED  BY <1>d, <2>1, <2>2 DEF DaemonTypes, SendUSBIOSync, sessionVars
<1>3. CableTypes'
  BY Packing DEF CableTypes, Packets, SendUSBIOSync, cableVars
<1>4. OutInv'
  BY DEF OutInv, SendUSBIOSync, cableVars, readerVars, workerVars, freeVars, hostVars
<1>5. \A s \in Session : SessionInv(s)'
  <2> SUFFICES ASSUME NEW s \in Session PROVE SessionInv(s)'
    OBVIOUS
  <2>1. CASE s = t
    <3>1. \/ writer'[t] = "idle" /\ rest'[t] = <<>>
          \/ rest'[t] = Tail(rest[t]) /\ writer'[t] = IF rest'[t] = <<>> THEN "idle" ELSE "ready"
      BY DEF DaemonTypes, SendUSBIOSync, GiveUp
    <3>2. mutexUsbFfs' = 0
      BY DEF SendUSBIOSync, Unlock
    <3> QED  BY <1>a, <1>b, <1>c, <2>1, <3>1, <3>2 DEF SessionInv
  <2>2. CASE s # t
    <3>1. writer'[s] = writer[s] /\ rest'[s] = rest[s] /\ mutexUsbFfs' = 0
      BY <2>2 DEF DaemonTypes, SendUSBIOSync, Unlock, GiveUp
    <3> QED  BY <1>a, <1>c, <2>2, <3>1 DEF SessionInv
  <2> QED  BY <2>1, <2>2
<1>6. InInv'
  BY DEF InInv, SendUSBIOSync, Unlock, GiveUp
<1>7. ReadInv'
  BY DEF ReadInv, AliveIsReading, Stalled, SendUSBIOSync, cableVars
<1>8. OutFlow'
  BY DEF OutFlow, SendUSBIOSync, workerVars, freeVars, sessionVars, hostVars
<1>9. InFlow'
  <2>1. CASE t # host
    <3>1. writer[host] # "writing"
      BY <1>a, <2>1, Lefts DEF SessionInv
    <3> QED  BY <1>c, <1>d, <2>1, <3>1, Lefts, InElsewhere DEF SendUSBIOSync, GiveUp, DaemonTypes
  <2>2. CASE t = host /\ d2h = Failed
    <3>1. ~isAlive' /\ writer'[t] = "idle"
      BY <2>2 DEF SendUSBIOSync, GiveUp, DaemonTypes
    <3> QED  BY <1>c, <2>2, <3>1 DEF InFlow, GaveUp
  <2>3. CASE t = host /\ d2h # Failed /\ valid
    <3>1. d2h = Nothing /\ rest'[t] = Tail(rest[t]) /\ writer'[t] # "writing"
      BY <2>3 DEF SendUSBIOSync, DaemonTypes, SessionInv
    <3>2. Flow(rest[t], TRUE, t, answered[t], Len(hgot), hpay)
      BY <1>a, <2>3, <3>1 DEF InFlow, GaveUp
    <3>3. Flow(Tail(rest[t]), FALSE, t, answered[t], Len(hgot), hpay)
      BY <1>a, <3>2, Written
    <3> QED  BY <1>c, <2>3, <3>1, <3>3 DEF InFlow
  <2>4. CASE ~valid
    BY <1>c, <2>4 DEF InFlow
  <2> QED  BY <2>1, <2>2, <2>3, <2>4
<1>10. OwnBody'
  BY DEF OwnBody, SendUSBIOSync, Unlock, readerVars, freeVars, sessionVars, hostVars
<1>11. NoCrossTalk'
  BY DEF NoCrossTalk, SendUSBIOSync, freeVars, sessionVars, hostVars
<1> QED  BY <1>1, <1>2, <1>3, <1>4, <1>5, <1>6, <1>7, <1>8, <1>9, <1>10, <1>11

-----------------------------------------------------------------------------
(* The read of the daemon.                                                 *)

\* The packet that is read is the host's next one, and the session it is given to is
\* that of the host: a header names it, a body comes after its header.
LEMMA ForHost ==
    ASSUME IInv, reading = "pending", isAlive, h2d \in Packet, h2d.kind # "reset"
    PROVE  /\ valid /\ host \in Session /\ host # 0 /\ host = born
           /\ h2d.kind \in {"header", "nop", "body"} /\ worker = "wait"
           /\ h2d.kind # "body" => h2d.s = host
           /\ h2d.kind = "body" => currentSessionId = host
           /\ h2d.kind = "header" =>
                 Flow(sending, TRUE, host, sent, Len(dgot[host]), h2d.n)
           /\ h2d.kind = "nop" =>
                 Flow(sending, TRUE, host, sent, Len(dgot[host]), dpay[host])
           /\ h2d.kind = "body" =>
                 /\ dpay[host] # 0 /\ Len(dgot[host]) + 1 <= MaxBlocks
                 /\ h2d = Pack("body", host, Len(dgot[host]) + 1)
                 /\ Flow(sending, TRUE, host, sent, Len(dgot[host]) + 1, 0)
<1> USE DEF IInv
<1>1. /\ valid /\ host # 0 /\ host = born /\ host \in Session
      /\ worker = "wait" /\ sending # <<>> /\ h2d = Head(sending)
      /\ h2d.s = host /\ h2d.kind \in {"header", "nop", "body"} /\ h2d # Nothing
  BY OutPacket
<1> DEFINE len == Len(dgot[host])
<1>2. len \in Nat /\ sent \in Nat /\ sent <= MaxBlocks
  BY <1>1, Zero DEF HostTypes, DaemonTypes
<1>3. Flow(sending, FALSE, host, sent, len, dpay[host])
  BY <1>1 DEF OutFlow
<1> HIDE DEF len
<1> DEFINE p == Head(sending)
<1>4. p.kind = "header" => p.n = sent /\ Flow(sending, TRUE, host, sent, len, sent)
  BY <1>1, <1>2, <1>3, Arrives
<1>5. p.kind = "nop" => Flow(sending, TRUE, host, sent, len, dpay[host])
  BY <1>1, <1>2, <1>3, Arrives
<1>6. p.kind = "body" => /\ dpay[host] # 0 /\ sent = len + 1 /\ p = Pack("body", host, sent)
                         /\ Flow(sending, TRUE, host, sent, len + 1, 0)
  BY <1>1, <1>2, <1>3, Arrives
<1>7. h2d.kind = "body" => currentSessionId = host
  BY <1>1, <1>6 DEF SessionInv
<1> QED  BY <1>1, <1>2, <1>4, <1>5, <1>6, <1>7 DEF len

\* A free of a session of the daemon makes it dead if it is live.
LEMMA Freed ==
    ASSUME DaemonTypes, NEW s \in Session
    PROVE  /\ Free(dsession, s) \in [Session -> {"none", "live", "dead", "gone"}]
           /\ \A t \in Session : Free(dsession, s)[t] =
                 IF t = s /\ dsession[t] = "live" THEN "dead" ELSE dsession[t]
BY DEF DaemonTypes, Free

\* What a dispatch to session s does.
Given(s, p) ==
    LET after == RestartOld(s)
        new == after[s] \notin {"live", "dead"}
    IN  /\ currentSessionId' = IF new THEN s ELSE IF s = currentSessionId THEN s ELSE 0
        /\ dsession' = IF new THEN [after EXCEPT ![s] = "live"] ELSE after
        /\ IF after[s] = "dead"
           THEN StopRead /\ UNCHANGED <<dpay, dgot>>
           ELSE /\ LoopUSBRead
                /\ dpay' = [dpay EXCEPT ![s] =
                      CASE p.kind = "header" -> p.n
                        [] p.kind = "body" -> 0
                        [] OTHER -> @]
                /\ dgot' = [dgot EXCEPT ![s] =
                      @ \o (IF p.kind = "body" /\ dpay[s] # 0 THEN <<p>> ELSE <<>>)]

\* The sessions after a dispatch to the session of the host, which becomes the current
\* one: no other is live.
LEMMA Dispatched ==
    ASSUME DaemonTypes, \A s \in Session : SessionInv(s), NEW id, NEW p,
           host \in Session, host # 0, host = born,
           id = host \/ (id = 0 /\ currentSessionId = host), DispatchToWorkThread(id, p)
    PROVE  /\ currentSessionId' = host
           /\ dsession' \in [Session -> {"none", "live", "dead", "gone"}]
           /\ dsession'[host] = IF dsession[host] = "dead" THEN "dead" ELSE "live"
           /\ \A t \in Session \ {host} :
                 /\ dsession'[t] # "live"
                 /\ dsession'[t] = dsession[t] \/ (dsession[t] = "live" /\ dsession'[t] = "dead")
           /\ IF dsession[host] = "dead"
              THEN StopRead /\ UNCHANGED <<dpay, dgot>>
              ELSE /\ LoopUSBRead
                   /\ dpay' = [dpay EXCEPT ![host] =
                         CASE p.kind = "header" -> p.n
                           [] p.kind = "body" -> 0
                           [] OTHER -> @]
                   /\ dgot' = [dgot EXCEPT ![host] =
                         @ \o (IF p.kind = "body" /\ dpay[host] # 0 THEN <<p>> ELSE <<>>)]
<1> DEFINE after == RestartOld(host)
           new == after[host] \notin {"live", "dead"}
<1>1. (IF id = 0 THEN currentSessionId ELSE id) = host
  OBVIOUS
<1>2. currentSessionId \in Session
  BY DEF DaemonTypes
<1>3. /\ after \in [Session -> {"none", "live", "dead", "gone"}] /\ after[host] = dsession[host]
      /\ \A t \in Session \ {host} :
            after[t] = dsession[t] \/ (dsession[t] = "live" /\ after[t] = "dead")
  BY <1>2, Freed DEF RestartOld, DaemonTypes
<1>4. \A t \in Session \ {host} : after[t] # "live"
  BY <1>2, Freed DEF RestartOld, DaemonTypes, SessionInv
<1>5. Given(host, p)
  <2>1. Given(IF id = 0 THEN currentSessionId ELSE id, p)
    BY DEF DispatchToWorkThread, Given
  <2> QED  BY <1>1, <2>1
<1>6. ~new => host = currentSessionId
  BY <1>3 DEF SessionInv
<1>7. /\ currentSessionId' = IF new THEN host ELSE IF host = currentSessionId THEN host ELSE 0
      /\ dsession' = IF new THEN [after EXCEPT ![host] = "live"] ELSE after
  BY <1>5 DEF Given
<1>8. IF dsession[host] = "dead"
      THEN StopRead /\ UNCHANGED <<dpay, dgot>>
      ELSE /\ LoopUSBRead
           /\ dpay' = [dpay EXCEPT ![host] =
                 CASE p.kind = "header" -> p.n
                   [] p.kind = "body" -> 0
                   [] OTHER -> @]
           /\ dgot' = [dgot EXCEPT ![host] =
                 @ \o (IF p.kind = "body" /\ dpay[host] # 0 THEN <<p>> ELSE <<>>)]
  BY <1>3, <1>5 DEF Given
<1> HIDE DEF after
<1> QED  BY <1>3, <1>4, <1>6, <1>7, <1>8

\* The parts that no outcome of a read disturbs.
LEMMA ReadKept ==
    ASSUME IInv, OnUSBRead
    PROVE  /\ HostTypes' /\ HostInv' /\ CableTypes' /\ InInv'
           /\ h2d' = Nothing \/ (h2d' = h2d /\ reading = "error")
           /\ UNCHANGED <<hostVars, cableVars, up, d2h, eps, writerVars>>
<1> USE DEF IInv
<1>1. UNCHANGED <<hostVars, cableVars, up, d2h, eps>>
  BY DEF OnUSBRead
<1>2. UNCHANGED writerVars
  BY DEF OnUSBRead
<1>3. h2d' = Nothing \/ (h2d' = h2d /\ reading = "error")
  BY DEF OnUSBRead
<1>4. HostTypes' /\ HostInv'
  BY <1>1, HostKept
<1>5. CableTypes' /\ InInv'
  BY <1>1, <1>2, <1>3 DEF CableTypes, Packets, InInv, writerVars, cableVars
<1> QED  BY <1>1, <1>2, <1>3, <1>4, <1>5

\* A read that ends with an error, or for a transport that is no longer alive.
LEMMA ReadStopped ==
    ASSUME IInv, OnUSBRead, StopRead, UNCHANGED sessionVars
    PROVE  IInv'
<1> USE DEF IInv
<1>1. /\ HostTypes' /\ HostInv' /\ CableTypes' /\ InInv'
      /\ h2d' = Nothing \/ h2d' = h2d
      /\ UNCHANGED <<hostVars, cableVars, up, d2h, eps, writerVars>>
  BY ReadKept
<1>2. UNCHANGED <<valid, host, born, worker, reader, sending, hpay, hgot, up, antiques>>
  BY <1>1 DEF hostVars, freeVars, workerVars, readerVars, cableVars
<1>3. UNCHANGED <<currentSessionId, dsession, dpay, dgot, writer, rest, answered, mutexUsbFfs,
                  freeq>>
  BY <1>1 DEF sessionVars, writerVars
<1>4. /\ ~isAlive' /\ ~atPollQueue' /\ reading' = "no"
      /\ isAlive' \in BOOLEAN /\ atPollQueue' \in BOOLEAN
  BY DEF StopRead
<1>5. DaemonTypes'
  BY <1>1, <1>3, <1>4 DEF DaemonTypes
<1>6. OutInv'
  BY <1>1, <1>2, <1>4, Packing DEF OutInv
<1>7. \A s \in Session : SessionInv(s)'
  BY <1>2, <1>3 DEF SessionInv
<1>8. ReadInv' /\ OutFlow'
  BY <1>4 DEF ReadInv, AliveIsReading, OutFlow
<1>9. InFlow'
  BY <1>1, <1>2, <1>3, <1>4 DEF InFlow, GaveUp
<1>10. OwnBody' /\ NoCrossTalk'
  BY <1>2, <1>3 DEF OwnBody, NoCrossTalk
<1> QED  BY <1>1, <1>5, <1>6, <1>7, <1>8, <1>9, <1>10

\* JumpAntiquePacket: the read ends, nothing starts another one.
LEMMA ReadAntique ==
    ASSUME IInv, OnUSBRead, reading = "pending", h2d = Antique, reading' = "no",
           UNCHANGED <<isAlive, atPollQueue, sessionVars>>
    PROVE  IInv'
<1> USE DEF IInv
<1>1. /\ HostTypes' /\ HostInv' /\ CableTypes' /\ InInv' /\ h2d' = Nothing
      /\ UNCHANGED <<hostVars, cableVars, up, d2h, eps, writerVars>>
  BY ReadKept
<1>2. UNCHANGED <<valid, host, born, worker, reader, sending, hpay, hgot, up, antiques>>
  BY <1>1 DEF hostVars, freeVars, workerVars, readerVars, cableVars
<1>3. UNCHANGED <<currentSessionId, dsession, dpay, dgot, writer, rest, answered, mutexUsbFfs,
                  freeq>>
  BY <1>1 DEF sessionVars, writerVars
<1>5. DaemonTypes'
  BY <1>1, <1>3 DEF DaemonTypes
<1>6. OutInv'
  BY <1>1, <1>2, Packing DEF OutInv
<1>7. \A s \in Session : SessionInv(s)'
  BY <1>2, <1>3 DEF SessionInv
<1>8. ReadInv' /\ OutFlow'
  BY <1>2 DEF ReadInv, AliveIsReading, Stalled, OutFlow, OutInv
<1>9. InFlow'
  BY <1>1, <1>2, <1>3 DEF InFlow, GaveUp
<1>10. OwnBody' /\ NoCrossTalk'
  BY <1>2, <1>3 DEF OwnBody, NoCrossTalk
<1> QED  BY <1>1, <1>5, <1>6, <1>7, <1>8, <1>9, <1>10

\* A header that asks for a reset.
LEMMA ReadReset ==
    ASSUME IInv, OnUSBRead, reading = "pending", h2d \in Packet, h2d.kind = "reset",
           AvailablePacket
    PROVE  IInv'
<1> USE DEF IInv
<1>1. /\ HostTypes' /\ HostInv' /\ CableTypes' /\ InInv' /\ h2d' = Nothing
      /\ UNCHANGED <<hostVars, cableVars, up, d2h, eps, writerVars>>
  BY ReadKept
<1>2. UNCHANGED <<valid, host, born, worker, reader, sending, sent, hpay, hgot, up, antiques>>
  BY <1>1 DEF hostVars, freeVars, workerVars, readerVars, cableVars
<1>3. /\ UNCHANGED <<isAlive, atPollQueue, currentSessionId, dpay, dgot, writer, rest,
                     answered, mutexUsbFfs, freeq>>
      /\ reading' = "pending"
  BY <1>1 DEF AvailablePacket, LoopUSBRead, writerVars
<1>4. /\ dsession' \in [Session -> {"none", "live", "dead", "gone"}]
      /\ \A t \in Session : \/ dsession'[t] = dsession[t]
                            \/ dsession[t] = "live" /\ dsession'[t] = "dead"
  <2>1. h2d.s \in Session /\ currentSessionId \in Session
    BY DEF Packet, DaemonTypes
  <2> QED  BY <2>1, Freed DEF AvailablePacket, ResetOldSession
<1>5. DaemonTypes'
  BY <1>1, <1>3, <1>4 DEF DaemonTypes
<1>6. worker # "wait"
  <2>1. ASSUME worker = "wait" PROVE FALSE
    <3>1. reader # "resetting" /\ sending # <<>> /\ valid
      BY <2>1 DEF HostInv, OutInv
    <3>2. h2d = Head(sending) /\ Head(sending).kind \in {"header", "nop", "body"}
      BY <3>1, Lefts, RestHead DEF OutInv
    <3> QED  BY <3>2
  <2> QED  BY <2>1
<1>7. OutInv'
  BY <1>1, <1>2, <1>3, Packing DEF OutInv
<1>8. \A s \in Session : SessionInv(s)'
  BY <1>2, <1>3, <1>4 DEF SessionInv
<1>9. ReadInv'
  BY <1>3 DEF ReadInv, AliveIsReading
<1>10. OutFlow'
  BY <1>2, <1>3, <1>6 DEF OutFlow
<1>11. InFlow'
  <2>1. host \in Session
    BY Lefts
  <2> QED  BY <1>1, <1>2, <1>3, <1>4, <2>1 DEF InFlow, GaveUp
<1>12. OwnBody'
  <2>1. host \in Session
    BY Lefts
  <2> QED  BY <1>2, <1>3, <1>4, <2>1 DEF OwnBody
<1>13. NoCrossTalk'
  BY <1>2, <1>3 DEF NoCrossTalk
<1> QED  BY <1>1, <1>5, <1>7, <1>8, <1>9, <1>10, <1>11, <1>12, <1>13

\* A packet for a session.
LEMMA ReadDispatched ==
    ASSUME IInv, OnUSBRead, reading = "pending", isAlive, h2d \in Packet, h2d.kind # "reset",
           DispatchToWorkThread(IF IsUsbPacketHeader(h2d) THEN h2d.s ELSE 0, h2d)
    PROVE  IInv'
<1> USE DEF IInv
<1> DEFINE id == IF IsUsbPacketHeader(h2d) THEN h2d.s ELSE 0
           len == Len(dgot[host])
<1>1. /\ HostTypes' /\ HostInv' /\ CableTypes' /\ InInv' /\ h2d' = Nothing
      /\ UNCHANGED <<hostVars, cableVars, up, d2h, eps, writerVars>>
  BY ReadKept
<1>2. UNCHANGED <<valid, host, born, worker, reader, sending, sent, hpay, hgot, up, antiques>>
  BY <1>1 DEF hostVars, freeVars, workerVars, readerVars, cableVars
<1>3. UNCHANGED <<writer, rest, answered, mutexUsbFfs, freeq>>
  BY <1>1 DEF writerVars
<1>4. /\ valid /\ host \in Session /\ host # 0 /\ host = born
      /\ h2d.kind \in {"header", "nop", "body"} /\ worker = "wait"
      /\ h2d.kind # "body" => h2d.s = host
      /\ h2d.kind = "body" => currentSessionId = host
  BY ForHost
<1>5. id = host \/ (id = 0 /\ currentSessionId = host)
  BY <1>4 DEF IsUsbPacketHeader
<1> HIDE DEF id
<1>6. /\ currentSessionId' = host
      /\ dsession' \in [Session -> {"none", "live", "dead", "gone"}]
      /\ dsession'[host] = IF dsession[host] = "dead" THEN "dead" ELSE "live"
      /\ \A t \in Session \ {host} :
            /\ dsession'[t] # "live"
            /\ dsession'[t] = dsession[t] \/ (dsession[t] = "live" /\ dsession'[t] = "dead")
      /\ IF dsession[host] = "dead"
         THEN StopRead /\ UNCHANGED <<dpay, dgot>>
         ELSE /\ LoopUSBRead
              /\ dpay' = [dpay EXCEPT ![host] =
                    CASE h2d.kind = "header" -> h2d.n
                      [] h2d.kind = "body" -> 0
                      [] OTHER -> @]
              /\ dgot' = [dgot EXCEPT ![host] =
                    @ \o (IF h2d.kind = "body" /\ dpay[host] # 0 THEN <<h2d>> ELSE <<>>)]
  BY <1>4, <1>5, Dispatched DEF id
<1> DEFINE Good == /\ dpay' \in [Session -> 0 .. MaxBlocks] /\ dgot' \in [Session -> Seq(Packet)]
                   /\ \A t \in Session \ {host} : dpay'[t] = dpay[t] /\ dgot'[t] = dgot[t]
                   /\ Len(dgot[host]) <= Len(dgot'[host]) /\ Len(dgot'[host]) <= MaxBlocks
                   /\ \A i \in DOMAIN dgot'[host] : dgot'[host][i] = Pack("body", host, i)
           Stopped == reading' = "no" /\ isAlive' = FALSE /\ atPollQueue' = FALSE
           Goes == /\ reading' = "pending" /\ UNCHANGED <<isAlive, atPollQueue>>
                   /\ Flow(sending, TRUE, host, sent, Len(dgot'[host]), dpay'[host])
<1>7. /\ len \in Nat /\ len <= MaxBlocks
      /\ \A i \in DOMAIN dgot[host] : dgot[host][i] = Pack("body", host, i)
  BY <1>4 DEF DaemonTypes, SessionInv, NoCrossTalk
<1>8. Good /\ (Stopped \/ Goes)
  <2>1. CASE dsession[host] = "dead"
    <3>1. StopRead /\ UNCHANGED <<dpay, dgot>>
      BY <1>6, <2>1
    <3> QED  BY <1>4, <1>7, <3>1 DEF StopRead, DaemonTypes
  <2>2. CASE dsession[host] # "dead"
    <3>1. /\ LoopUSBRead
          /\ dpay' = [dpay EXCEPT ![host] =
                CASE h2d.kind = "header" -> h2d.n
                  [] h2d.kind = "body" -> 0
                  [] OTHER -> @]
          /\ dgot' = [dgot EXCEPT ![host] =
                @ \o (IF h2d.kind = "body" /\ dpay[host] # 0 THEN <<h2d>> ELSE <<>>)]
      BY <1>6, <2>2
    <3>2. dpay \in [Session -> 0 .. MaxBlocks] /\ dgot \in [Session -> Seq(Packet)]
      BY DEF DaemonTypes
    <3>3. dgot[host] \in Seq(Packet) /\ dgot[host] \o <<>> = dgot[host] /\ h2d.n \in 0 .. MaxBlocks
      BY <1>4, <3>2, ConcatEmptySeq DEF Packet
    <3>4. CASE h2d.kind = "header"
      <4>1. dpay' = [dpay EXCEPT ![host] = h2d.n] /\ dgot' = dgot
        BY <1>4, <3>1, <3>2, <3>3, <3>4
      <4>2. Flow(sending, TRUE, host, sent, len, h2d.n)
        BY <3>4, ForHost
      <4>3. Good
        BY <1>4, <1>7, <3>2, <3>3, <4>1
      <4>4. Goes
        BY <1>4, <3>1, <3>2, <4>1, <4>2 DEF LoopUSBRead
      <4> QED  BY <4>3, <4>4
    <3>5. CASE h2d.kind = "nop"
      <4>1. dpay' = dpay /\ dgot' = dgot
        BY <1>4, <3>1, <3>2, <3>3, <3>5
      <4>2. Flow(sending, TRUE, host, sent, len, dpay[host])
        BY <3>5, ForHost
      <4>3. Good
        BY <1>4, <1>7, <3>2, <4>1
      <4>4. Goes
        BY <3>1, <4>1, <4>2 DEF LoopUSBRead
      <4> QED  BY <4>3, <4>4
    <3>6. CASE h2d.kind = "body"
      <4>1. /\ dpay[host] # 0 /\ len + 1 <= MaxBlocks /\ h2d = Pack("body", host, len + 1)
            /\ Flow(sending, TRUE, host, sent, len + 1, 0)
        BY <3>6, ForHost
      <4> DEFINE q == Append(dgot[host], h2d)
      <4>2. /\ q \in Seq(Packet) /\ dgot[host] \o <<h2d>> = q /\ Len(q) = len + 1
            /\ DOMAIN q = 1 .. (len + 1) /\ q[len + 1] = h2d
            /\ DOMAIN dgot[host] = 1 .. len /\ \A i \in DOMAIN dgot[host] : q[i] = dgot[host][i]
        BY <3>3, Grown
      <4> HIDE DEF q
      <4>3. dpay' = [dpay EXCEPT ![host] = 0] /\ dgot' = [dgot EXCEPT ![host] = q]
        BY <3>1, <3>6, <4>1, <4>2
      <4>4. \A i \in DOMAIN q : q[i] = Pack("body", host, i)
        BY <1>7, <4>1, <4>2
      <4>5. /\ dpay' \in [Session -> 0 .. MaxBlocks] /\ dgot' \in [Session -> Seq(Packet)]
            /\ dpay'[host] = 0 /\ dgot'[host] = q
            /\ \A t \in Session \ {host} : dpay'[t] = dpay[t] /\ dgot'[t] = dgot[t]
        BY <1>4, <3>2, <4>2, <4>3, Zero
      <4>6. Good
        BY <1>7, <4>1, <4>2, <4>4, <4>5
      <4>7. Goes
        BY <3>1, <4>1, <4>2, <4>5 DEF LoopUSBRead
      <4> QED  BY <4>6, <4>7
    <3> QED  BY <1>4, <3>4, <3>5, <3>6
  <2> QED  BY <2>1, <2>2
<1> HIDE DEF len
<1>9. DaemonTypes'
  BY <1>1, <1>3, <1>4, <1>6, <1>8 DEF DaemonTypes
<1>10. OutInv'
  BY <1>1, <1>2, <1>4, <1>8, Packing DEF OutInv
<1>11. \A s \in Session : SessionInv(s)'
  <2> SUFFICES ASSUME NEW s \in Session PROVE SessionInv(s)'
    OBVIOUS
  <2>1. CASE s = host
    <3>1. s <= born /\ answered[s] <= Len(dgot[s]) /\ answered[s] \in Nat
      BY <1>4, <2>1, Zero DEF SessionInv, DaemonTypes
    <3>2. answered[s] <= Len(dgot'[s]) /\ Len(dgot[s]) \in Nat /\ Len(dgot'[s]) \in Nat
      BY <1>4, <1>8, <2>1, <3>1 DEF DaemonTypes
    <3> QED  BY <1>2, <1>3, <1>4, <1>6, <1>8, <2>1, <3>1, <3>2 DEF SessionInv
  <2>2. CASE s # host
    <3>1. s # born /\ UNCHANGED <<writer[s], rest[s], answered[s], dpay[s], dgot[s],
                                    mutexUsbFfs, born>>
      BY <1>2, <1>3, <1>4, <1>8, <2>2
    <3>2. /\ dsession'[s] # "live"
          /\ dsession'[s] = dsession[s] \/ (dsession[s] = "live" /\ dsession'[s] = "dead")
      BY <1>6, <2>2
    <3> QED  BY <3>1, <3>2 DEF SessionInv
  <2> QED  BY <2>1, <2>2
<1>12. ReadInv'
  <2>1. CASE Stopped
    BY <2>1 DEF ReadInv, AliveIsReading
  <2>2. CASE Goes
    BY <2>2 DEF ReadInv, AliveIsReading
  <2> QED  BY <1>8, <2>1, <2>2
<1>13. OutFlow'
  BY <1>1, <1>2, <1>4, <1>8 DEF OutFlow
<1>14. InFlow'
  BY <1>1, <1>2, <1>3, <1>6, <1>8 DEF InFlow, GaveUp
<1>15. OwnBody'
  BY <1>2, <1>3, <1>4, <1>6 DEF OwnBody
<1>16. NoCrossTalk'
  BY <1>2, <1>4, <1>8 DEF NoCrossTalk
<1> QED  BY <1>1, <1>9, <1>10, <1>11, <1>12, <1>13, <1>14, <1>15, <1>16

\* The read of the daemon is over, in one of these four ways.
LEMMA OnUSBReadStep ==
    ASSUME IInv, OnUSBRead
    PROVE  IInv'
<1>1. CASE reading = "error" \/ ~isAlive
  <2>1. StopRead /\ UNCHANGED sessionVars
    BY <1>1 DEF OnUSBRead
  <2> QED  BY <2>1, ReadStopped
<1>2. CASE reading = "pending" /\ isAlive /\ h2d = Antique
  <2>1. reading' = "no" /\ UNCHANGED <<isAlive, atPollQueue, sessionVars>>
    BY <1>2 DEF OnUSBRead
  <2> QED  BY <1>2, <2>1, ReadAntique
<1>3. CASE reading = "pending" /\ isAlive /\ h2d \in Packet /\ h2d.kind = "reset"
  <2>1. h2d # Antique
    BY <1>3, Packing
  <2> QED  BY <1>3, <2>1, ReadReset DEF OnUSBRead
<1>4. CASE reading = "pending" /\ isAlive /\ h2d \in Packet /\ h2d.kind # "reset"
  <2>1. h2d # Antique
    BY <1>4, Packing
  <2>2. DispatchToWorkThread(IF IsUsbPacketHeader(h2d) THEN h2d.s ELSE 0, h2d)
    BY <1>4, <2>1 DEF OnUSBRead
  <2> QED  BY <1>4, <2>2, ReadDispatched
<1> QED  BY <1>1, <1>2, <1>3, <1>4 DEF OnUSBRead

-----------------------------------------------------------------------------
(* The invariant and its consequences.                                     *)

\* At first there is no session and nothing is under way.
LEMMA InitHolds == Init => IInv
<1> SUFFICES ASSUME Init PROVE IInv
  OBVIOUS
<1>1. HostTypes /\ CableTypes
  BY Zero DEF Init, HostTypes, CableTypes, Packets
<1>2. DaemonTypes
  BY Zero DEF Init, DaemonTypes
<1>3. HostInv
  BY BlockIsRest, Zero DEF Init, HostInv
<1>4. \A s \in Session : SessionInv(s)
  BY BlockIsRest, Zero DEF Init, SessionInv
<1>5. OutInv /\ InInv /\ ReadInv
  BY Packing DEF Init, OutInv, InInv, ReadInv, AliveIsReading
<1>6. OutFlow /\ InFlow
  BY DEF Init, OutFlow, InFlow
<1>7. OwnBody /\ NoCrossTalk
  BY DEF Init, OwnBody, NoCrossTalk
<1> QED  BY <1>1, <1>2, <1>3, <1>4, <1>5, <1>6, <1>7 DEF IInv

\* A step that changes nothing.
LEMMA StutterStep ==
    ASSUME IInv, UNCHANGED vars
    PROVE  IInv'
<1> USE DEF IInv
<1>1. UNCHANGED <<cableVars, up, h2d, d2h, hostVars, daemonVars>>
  BY DEF vars
<1>2. UNCHANGED <<host, born, valid, worker, sending, sent, reader, hpay, hgot>>
  BY <1>1 DEF hostVars, freeVars, workerVars, readerVars
<1>3. UNCHANGED <<currentSessionId, dsession, dpay, dgot, writer, rest, answered, mutexUsbFfs,
                  isAlive, atPollQueue, reading>>
  BY <1>1 DEF daemonVars, loopVars, sessionVars, writerVars
<1>4. HostTypes' /\ HostInv'
  BY <1>1, HostKept
<1>5. DaemonTypes' /\ \A s \in Session : SessionInv(s)'
  BY <1>1, <1>2, DaemonKept
<1>6. CableTypes' /\ OutInv' /\ InInv' /\ ReadInv'
  BY <1>1, <1>2, <1>3 DEF CableTypes, OutInv, InInv, ReadInv, AliveIsReading, Stalled, cableVars
<1>7. OutFlow' /\ InFlow'
  BY <1>1, <1>2, <1>3 DEF OutFlow, InFlow, GaveUp
<1>8. OwnBody' /\ NoCrossTalk'
  BY <1>2, <1>3 DEF OwnBody, NoCrossTalk
<1> QED  BY <1>4, <1>5, <1>6, <1>7, <1>8

\* Every step keeps the invariant.
LEMMA NextHolds == IInv /\ [Next]_vars => IInv'
<1> SUFFICES ASSUME IInv, [Next]_vars PROVE IInv'
  OBVIOUS
<1>1. CASE HostStep
  BY <1>1, ConnectDetectDaemonStep, KickoutZombieStep, FreeSessionOpeateStep,
     FreeSessionContinueStep, SendUSBBlockStep, SendPacketStep, PacketSentStep,
     SendTimeoutStep, SendResetStep, ResetSentStep, BeginUsbReadStep, ReadFailsStep,
     ReadUSBStep DEF HostStep
<1>2. CASE DaemonStep
  BY <1>2, OnUSBReadStep, WatchEPTimerStep, CloseBulkEpStep, AsyncFreeStep,
     FreeSessionFinallyStep, AnswerBlockStep, SendUSBRawStep, SendUSBIOSyncStep DEF DaemonStep
<1>3. CASE Unplug \/ Replug \/ GadgetDown \/ SendAntique \/ Crash
  BY <1>3, UnplugStep, ReplugStep, GadgetDownStep, SendAntiqueStep, CrashStep
<1>4. CASE UNCHANGED vars
  BY <1>4, StutterStep
<1> QED  BY <1>1, <1>2, <1>3, <1>4 DEF Next

\* The parts of the invariant make the type invariant.
LEMMA TypesFollow == IInv => TypeOK
<1> SUFFICES ASSUME IInv PROVE TypeOK
  OBVIOUS
<1>1. mutexUsbFfs # 0 => writer[mutexUsbFfs] = "writing"
  BY DEF IInv, SessionInv, DaemonTypes
<1>2. {plugged, up, valid, isDead, inShut, outShut, cancelIn, resetIO, isAlive,
       atPollQueue} \subseteq BOOLEAN
  BY DEF IInv, HostTypes, DaemonTypes, CableTypes
<1>3. {h2d, d2h} \subseteq Packet \cup {Nothing, Failed, Antique}
  BY DEF IInv, CableTypes, Packets
<1> QED  BY <1>1, <1>2, <1>3 DEF IInv, TypeOK, HostTypes, DaemonTypes

\* IInv holds in every state.
THEOREM Invariance == Spec => []IInv
BY InitHolds, NextHolds, PTL DEF Spec

\* The variables of both ends have values the code can give them.
THEOREM TypeCorrect == Spec => []TypeOK
BY Invariance, TypesFollow, PTL

\* What a session receives is what its peer sent it, all of it and in order, whatever
\* is unplugged, killed, freed and connected again on the way.
THEOREM NoCrossTalkHolds == Spec => []NoCrossTalk
<1>1. IInv => NoCrossTalk
  BY DEF IInv
<1> QED  BY <1>1, Invariance, PTL

\* A transport of the daemon that counts as alive has its read under way, but for the
\* one return of JumpAntiquePacket.
THEOREM AliveIsReadingHolds == Spec => []AliveIsReading
<1>1. IInv => AliveIsReading
  BY DEF IInv, ReadInv
<1> QED  BY <1>1, Invariance, PTL
=============================================================================
