----------------------------- MODULE UartLinkProofs -----------------------------
(***************************************************************************)
(* Proofs about the link layer of a UART: the ranges of its variables, and *)
(* that it delivers the packages of a session one at a time, in order and  *)
(* once, however many sessions share the cable, packages are lost, sent    *)
(* again and given up.                                                     *)
(***************************************************************************)
EXTENDS UartLink, FiniteSetTheorems, FunctionTheorems, SequenceTheorems, TLAPS

-----------------------------------------------------------------------------
(* The inductive invariant.                                                *)

Data(h) == h.kind = "data" /\ h.sid = Cur
Free(h) == h.kind = "free" /\ h.sid = Cur
Resp(h) == h.kind = "ack" /\ h.sid = Cur

\* The heads in a list and on a wire.
HeadsOf(q) == {q[i].head : i \in DOMAIN q}
Queued(n)  == HeadsOf(outPkgs[n])
OnWire(n)  == {wire[n][i] : i \in DOMAIN wire[n]}

\* A worker numbered a package of the session that is not in the list yet.
Sending(n) == caller[n][Cur] # "idle"

\* Of the packages of one session but the first none was sent.
FirstWaits(q) ==
    \A i, j \in DOMAIN q :
        i < j /\ ~IsResponse(q[i]) /\ ~IsResponse(q[j]) /\ q[i].head.sid = q[j].head.sid
            => ~Waiting(q[j])

ListInv == \A n \in Nodes : FirstWaits(outPkgs[n])

\* The server knows and sends nothing of old sessions, and the daemon nothing of a
\* session it has not created yet.
EndsInv ==
    /\ \A s \in Old : /\ session["host"][s] = "none" /\ created[s] = 0
                      /\ delivered["host"][s] = <<>> /\ delivered["daemon"][s] = <<>>
    /\ \A h \in Queued("host") \cup OnWire("daemon") : h.kind = "data" => h.sid = Cur
    /\ \A s \in Old : caller["host"][s] = "idle"
    /\ created[Cur] = 0 => /\ session["daemon"][Cur] = "none"
                           /\ packageIndex["daemon"][Cur] = 0
                           /\ caller["daemon"][Cur] = "idle"
                           /\ delivered["daemon"][Cur] = <<>>

\* What n numbered, sent to m, keeps apart: data, FREE and what m answered to it.
Numbers(n, m) ==
    /\ Sending(n) => numbered[n][Cur] \in 1..packageIndex[n][Cur]
    /\ \A h \in Queued(n) \cup OnWire(m) : Data(h) \/ Free(h) =>
          /\ h.idx \in 1..packageIndex[n][Cur]
          /\ Sending(n) => h.idx # numbered[n][Cur]
    /\ \A h \in Queued(n) \cup OnWire(m) : Data(h) /\ Sending(n) => h.idx < numbered[n][Cur]
    /\ \A h \in Queued(m) \cup OnWire(n) : Resp(h) =>
          /\ h.idx \in 1..packageIndex[n][Cur]
          /\ Sending(n) => h.idx # numbered[n][Cur]
    /\ \A g \in Queued(n) \cup OnWire(m), h \in Queued(n) :
          Free(g) /\ Data(h) => g.idx # h.idx

\* The data of a list are in the order of their numbers, each once.
Rising(q) ==
    \A i, j \in DOMAIN q : i < j /\ Data(q[i].head) /\ Data(q[j].head)
                              => q[i].head.idx < q[j].head.idx

\* Those of a wire are, too, but may be there more than once.
Climbing(w) ==
    \A i, j \in DOMAIN w : i < j /\ Data(w[i]) /\ Data(w[j]) => w[i].idx <= w[j].idx

\* The order of what is on its way from n to m.
Ordered(n, m) ==
    /\ Rising(outPkgs[n]) /\ Climbing(wire[m])
    /\ \A g \in OnWire(m), h \in Queued(n) : Data(g) /\ Data(h) => g.idx <= h.idx

\* The data m gave to its session or refused with a FREE.
Given(m) == ToSet(delivered[m][Cur]) \cup reported[m][Cur]

\* How far m is with the data of n.
Received(n, m) ==
    LET last == dispatchedPackageIndex[m][Cur]
        got  == delivered[m][Cur]
    IN  /\ last <= packageIndex[n][Cur]
        /\ Sending(n) => last < numbered[n][Cur]
        /\ \A h \in Queued(n) \cup OnWire(m) : Data(h) => last <= h.idx
        /\ last # 0 => last \in Given(m)
        /\ \A i \in DOMAIN got : got[i] <= last
        /\ \A i, j \in DOMAIN got : i < j => got[i] < got[j]

\* What n sees acknowledged, m has taken care of.
Answered(n, m) ==
    /\ \A g \in Queued(m) \cup OnWire(n), h \in Queued(n) :
          Resp(g) /\ Data(h) /\ g.idx = h.idx => h.idx \in Given(m)
    /\ acked[n][Cur] \subseteq Given(m)

Flow(n, m) ==
    created[Cur] <= 1 => /\ Numbers(n, m) /\ Ordered(n, m)
                         /\ ~Mixed(m) => Received(n, m) /\ Answered(n, m)

FlowInv == \A n \in Nodes : Flow(n, Peer(n))

IInv == TypeOK /\ ListInv /\ EndsInv /\ FlowInv

-----------------------------------------------------------------------------
(* Lists of packages.                                                      *)

\* Place numbers the members of a set of positions.
LEMMA Places ==
    ASSUME NEW N \in Nat, NEW I \in SUBSET (1..N)
    PROVE  /\ Cardinality(I) \in Nat
           /\ \A k \in 1..Cardinality(I) : Place(I, k) \in I
           /\ \A j, k \in 1..Cardinality(I) : j < k => Place(I, j) < Place(I, k)
           /\ \A i \in I : \E k \in 1..Cardinality(I) : Place(I, k) = i
<1> DEFINE Upto(i) == {j \in I : j <= i}
           Rank(i) == Cardinality(Upto(i))
           c == Cardinality(I)
<1>0. \A i \in I : i \in Int
  OBVIOUS
<1>1. IsFiniteSet(I) /\ c \in Nat
  <2>1. IsFiniteSet(1..N)
    BY FS_Interval
  <2> QED BY <2>1, FS_Subset, FS_CardinalityType
<1>2. \A i \in I : IsFiniteSet(Upto(i)) /\ Rank(i) \in 1..c
  <2> SUFFICES ASSUME NEW i \in I PROVE IsFiniteSet(Upto(i)) /\ Rank(i) \in 1..c
    OBVIOUS
  <2>1. Upto(i) \in SUBSET I /\ i \in Upto(i)
    OBVIOUS
  <2>2. IsFiniteSet(Upto(i)) /\ Rank(i) <= c
    BY <2>1, <1>1, FS_Subset
  <2>3. Rank(i) \in Nat /\ Rank(i) # 0
    BY <2>1, <2>2, FS_EmptySet, FS_CardinalityType, Zenon
  <2> QED BY <1>1, <2>2, <2>3
<1>3. \A i, j \in I : i < j => Rank(i) < Rank(j)
  <2> SUFFICES ASSUME NEW i \in I, NEW j \in I, i < j PROVE Rank(i) < Rank(j)
    OBVIOUS
  <2>1. /\ \A x \in Upto(i) : x \in Upto(j)
        /\ j \in Upto(j) /\ j \notin Upto(i)
    BY <1>0
  <2>2. Rank(i) <= Rank(j) /\ Rank(i) # Rank(j)
    <3>1. Upto(i) \in SUBSET Upto(j) /\ Upto(i) # Upto(j)
      BY <2>1
    <3> HIDE DEF Upto
    <3> QED BY <3>1, <1>2, FS_Subset
  <2> QED BY <2>2, <1>2, <1>1
<1> HIDE DEF Rank, c
<1>4. \A k \in 1..c : \E i \in I : Rank(i) = k
  <2> DEFINE r == [i \in I |-> Rank(i)]
  <2>1. r \in Injection(I, 1..c)
    <3>1. r \in [I -> 1..c]
      BY <1>2
    <3>2. \A i, j \in I : r[i] = r[j] => i = j
      <4>1. \A i, j \in I : i < j \/ j < i \/ i = j
        BY <1>0
      <4>2. \A i \in I : Rank(i) \in Int /\ r[i] = Rank(i)
        <5>1. \A x \in 1..c : x \in Int
          BY <1>1
        <5> QED BY <5>1, <1>2
      <4> QED BY <4>1, <4>2, <1>3
    <3> QED BY <3>1, <3>2, Fun_IsInj
  <2>2. IsFiniteSet(1..c) /\ Cardinality(1..c) = c
    BY <1>1, FS_Interval
  <2>3. r \in Surjection(I, 1..c)
    <3> HIDE DEF r, c
    <3> QED BY <2>1, <2>2, FS_Injection DEF c
  <2>4. \A k \in 1..c : \E i \in I : r[i] = k
    <3> HIDE DEF r, c
    <3> QED BY <2>3 DEF Surjection
  <2> QED BY <2>4
<1>5. \A k \in 1..c : Place(I, k) \in I /\ Rank(Place(I, k)) = k
  BY <1>4 DEF Place, Rank
<1>6. \A j, k \in 1..c : j < k => Place(I, j) < Place(I, k)
  <2> SUFFICES ASSUME NEW j \in 1..c, NEW k \in 1..c, j < k,
                      ~(Place(I, j) < Place(I, k))
               PROVE  FALSE
    OBVIOUS
  <2>1. /\ Place(I, j) \in I /\ Place(I, k) \in I
        /\ Rank(Place(I, j)) = j /\ Rank(Place(I, k)) = k
    BY <1>5
  <2>2. Place(I, j) \in Int /\ Place(I, k) \in Int /\ j \in Int /\ k \in Int
    <3>1. \A x \in 1..c : x \in Int
      BY <1>1
    <3> QED BY <3>1, <2>1, <1>0
  <2>3. Place(I, k) < Place(I, j) \/ Place(I, k) = Place(I, j)
    BY <2>2
  <2>4. Place(I, k) < Place(I, j) => k < j
    BY <2>1, <1>3
  <2> QED BY <2>1, <2>2, <2>3, <2>4
<1>7. \A i \in I : \E k \in 1..c : Place(I, k) = i
  <2> SUFFICES ASSUME NEW i \in I PROVE Place(I, Rank(i)) = i
    BY <1>2
  <2>1. Place(I, Rank(i)) \in I /\ Rank(Place(I, Rank(i))) = Rank(i)
    BY <1>2, <1>5
  <2>2. \A x \in 1..c : ~(x < x)
    BY <1>1
  <2>3. \A x, y \in I : x < y \/ y < x \/ x = y
    BY <1>0
  <2> QED BY <2>1, <2>2, <2>3, <1>2, <1>3
<1> QED BY <1>1, <1>5, <1>6, <1>7 DEF c

\* The first of a set of positions.
LEMMA First ==
    ASSUME NEW N \in Nat, NEW I \in SUBSET (1..N), I # {}
    PROVE  \E i \in I : \A j \in I : i <= j
<1> DEFINE c == Cardinality(I)
<1>1. /\ c \in Nat
      /\ \A k \in 1..c : Place(I, k) \in I
      /\ \A j, k \in 1..c : j < k => Place(I, j) < Place(I, k)
      /\ \A i \in I : \E k \in 1..c : Place(I, k) = i
  BY Places
<1> HIDE DEF c
<1>2. 1 \in 1..c
  <2>1. PICK k \in 1..c : Place(I, k) \in I
    BY <1>1
  <2> QED BY <1>1, <2>1
<1>3. \A i \in I : i \in Int
  OBVIOUS
<1>4. ASSUME NEW j \in I PROVE Place(I, 1) <= j
  <2>1. PICK k \in 1..c : Place(I, k) = j
    BY <1>1
  <2>2. k = 1 \/ 1 < k
    BY <1>1
  <2>3. Place(I, 1) = j \/ Place(I, 1) < j
    BY <1>1, <1>2, <2>1, <2>2
  <2>4. Place(I, 1) \in Int /\ j \in Int
    BY <1>1, <1>2, <1>3
  <2> QED BY <2>3, <2>4
<1> QED BY <1>1, <1>2, <1>4

\* Keep takes the elements at the positions I, in their order.
LEMMA Kept ==
    ASSUME NEW S, NEW q \in Seq(S), NEW I \in SUBSET DOMAIN q
    PROVE  /\ Keep(q, I) \in Seq(S)
           /\ \A k \in DOMAIN Keep(q, I) :
                Place(I, k) \in I /\ Keep(q, I)[k] = q[Place(I, k)]
           /\ \A j, k \in DOMAIN Keep(q, I) : j < k => Place(I, j) < Place(I, k)
<1>1. Len(q) \in Nat /\ DOMAIN q = 1..Len(q) /\ \A i \in DOMAIN q : q[i] \in S
  BY LenProperties, ElementOfSeq
<1>2. /\ Cardinality(I) \in Nat
      /\ \A k \in 1..Cardinality(I) : Place(I, k) \in I
      /\ \A j, k \in 1..Cardinality(I) : j < k => Place(I, j) < Place(I, k)
  BY <1>1, Places
<1>3. Keep(q, I) \in [1..Cardinality(I) -> S]
  BY <1>1, <1>2 DEF Keep
<1>4. Keep(q, I) \in Seq(S)
  BY <1>2, <1>3, SeqDef
<1>5. DOMAIN Keep(q, I) = 1..Cardinality(I)
  BY DEF Keep
<1>6. \A k \in 1..Cardinality(I) : Keep(q, I)[k] = q[Place(I, k)]
  BY DEF Keep
<1> QED BY <1>2, <1>4, <1>5, <1>6

\* The places and the elements of a sequence.
LEMMA SeqFacts ==
    ASSUME NEW S, NEW q \in Seq(S)
    PROVE  /\ Len(q) \in Nat /\ DOMAIN q = 1..Len(q)
           /\ \A i \in DOMAIN q : i \in Nat /\ q[i] \in S
BY LenProperties, ElementOfSeq

\* Parts of a list.
LEMMA KeptList ==
    ASSUME NEW q \in Seq(Pkgs), NEW I \in SUBSET DOMAIN q
    PROVE  /\ Keep(q, I) \in Seq(Pkgs)
           /\ HeadsOf(Keep(q, I)) \subseteq HeadsOf(q)
           /\ FirstWaits(q) => FirstWaits(Keep(q, I))
           /\ Rising(q) => Rising(Keep(q, I))
<1> DEFINE r == Keep(q, I)
           P(k) == Place(I, k)
<1>1. /\ r \in Seq(Pkgs)
      /\ \A k \in DOMAIN r : P(k) \in DOMAIN q /\ r[k] = q[P(k)]
      /\ \A j, k \in DOMAIN r : j < k => P(j) < P(k)
  BY Kept
<1> HIDE DEF r, P
<1>2. HeadsOf(r) \subseteq HeadsOf(q)
  BY <1>1 DEF HeadsOf
<1>3. FirstWaits(q) => FirstWaits(r)
  BY <1>1 DEF FirstWaits
<1>4. Rising(q) => Rising(r)
  BY <1>1 DEF Rising
<1> QED BY <1>1, <1>2, <1>3, <1>4 DEF r

\* A list without the packages of one session.
LEMMA WithoutList ==
    ASSUME NEW q \in Seq(Pkgs), NEW s
    PROVE  /\ Without(q, s) \in Seq(Pkgs)
           /\ HeadsOf(Without(q, s)) \subseteq HeadsOf(q)
           /\ FirstWaits(q) => FirstWaits(Without(q, s))
           /\ Rising(q) => Rising(Without(q, s))
<1> DEFINE I == {i \in DOMAIN q : q[i].head.sid # s}
<1>1. I \in SUBSET DOMAIN q
  OBVIOUS
<1>2. Without(q, s) = Keep(q, I)
  BY DEF Without
<1> HIDE DEF I
<1> QED BY <1>1, <1>2, KeptList

\* A new package waits to be sent.
LEMMA PackageType ==
    ASSUME NEW h \in Heads
    PROVE  /\ Package(h) \in Pkgs /\ Package(h).head = h
           /\ Package(h).status = "PKG_WAIT_SEND"
BY LinkAssumption DEF Package, Pkgs

\* A list with one more package.
LEMMA AddedList ==
    ASSUME NEW q \in Seq(Pkgs), NEW h \in Heads
    PROVE  /\ AddPkg(q, h) \in Seq(Pkgs)
           /\ HeadsOf(AddPkg(q, h)) \subseteq HeadsOf(q) \cup {h}
           /\ FirstWaits(q) => FirstWaits(AddPkg(q, h))
           /\ Rising(q) /\ (Data(h) => \A g \in HeadsOf(q) : Data(g) => g.idx < h.idx)
                => Rising(AddPkg(q, h))
<1>1. CASE AddPkg(q, h) = q
  BY <1>1
<1>2. CASE AddPkg(q, h) # q
  <2> DEFINE r == Append(q, Package(h))
  <2>1. AddPkg(q, h) = r
    BY <1>2 DEF AddPkg
  <2>2. Package(h) \in Pkgs /\ Package(h).head = h /\ ~Waiting(Package(h))
    BY PackageType DEF Waiting
  <2>3. /\ Len(q) \in Nat /\ DOMAIN q = 1..Len(q)
        /\ \A i \in DOMAIN q : i \in Nat /\ q[i] \in Pkgs
    BY SeqFacts
  <2>4. /\ r \in Seq(Pkgs) /\ DOMAIN r = 1..(Len(q) + 1)
        /\ \A i \in DOMAIN q : r[i] = q[i]
        /\ r[Len(q) + 1] = Package(h)
    BY <2>2, <2>3
  <2> HIDE DEF r
  <2>5. \A i \in DOMAIN r : i \in DOMAIN q \/ i = Len(q) + 1
    BY <2>3, <2>4
  <2>6. \A i, j \in DOMAIN r : i < j => i \in DOMAIN q
    BY <2>3, <2>4
  <2>7. HeadsOf(r) \subseteq HeadsOf(q) \cup {h}
    BY <2>2, <2>4, <2>5 DEF HeadsOf
  <2>8. FirstWaits(q) => FirstWaits(r)
    <3> SUFFICES ASSUME FirstWaits(q), NEW i \in DOMAIN r, NEW j \in DOMAIN r, i < j,
                        ~IsResponse(r[i]), ~IsResponse(r[j]),
                        r[i].head.sid = r[j].head.sid
                 PROVE  ~Waiting(r[j])
      BY DEF FirstWaits
    <3>1. i \in DOMAIN q /\ r[i] = q[i]
      BY <2>4, <2>6
    <3>2. CASE j \in DOMAIN q
      BY <3>1, <3>2, <2>4 DEF FirstWaits
    <3>3. CASE r[j] = Package(h)
      BY <3>3, <2>2
    <3> QED BY <3>2, <3>3, <2>5, <2>4
  <2>9. Rising(q) /\ (Data(h) => \A g \in HeadsOf(q) : Data(g) => g.idx < h.idx)
          => Rising(r)
    <3> SUFFICES ASSUME Rising(q),
                        Data(h) => \A g \in HeadsOf(q) : Data(g) => g.idx < h.idx,
                        NEW i \in DOMAIN r, NEW j \in DOMAIN r, i < j,
                        Data(r[i].head), Data(r[j].head)
                 PROVE  r[i].head.idx < r[j].head.idx
      BY DEF Rising
    <3>1. i \in DOMAIN q /\ r[i] = q[i] /\ q[i].head \in HeadsOf(q)
      BY <2>4, <2>6 DEF HeadsOf
    <3>2. CASE j \in DOMAIN q
      BY <3>1, <3>2, <2>4 DEF Rising
    <3>3. CASE r[j] = Package(h)
      BY <3>1, <3>3, <2>2
    <3> QED BY <3>2, <3>3, <2>5, <2>4
  <2> QED BY <2>1, <2>4, <2>7, <2>8, <2>9
<1> QED BY <1>1, <1>2

\* Where the loop over a list breaks.
LEMMA BreakPlace ==
    ASSUME NEW q \in Seq(Pkgs)
    PROVE  /\ Break(q) \in Nat \ {0}
           /\ LateOnes(q) = {} => Break(q) = Len(q) + 1
           /\ LateOnes(q) # {} => Break(q) \in LateOnes(q)
           /\ ToSend(q) \subseteq DOMAIN q
<1>1. /\ Len(q) \in Nat /\ DOMAIN q = 1..Len(q)
      /\ \A i \in DOMAIN q : i \in Nat
  BY SeqFacts
<1>2. LateOnes(q) \in SUBSET Nat
  BY <1>1 DEF LateOnes
<1>3. LateOnes(q) # {} => \E i \in LateOnes(q) : \A j \in LateOnes(q) : i <= j
  <2>1. LateOnes(q) \in SUBSET (1..Len(q))
    BY <1>1 DEF LateOnes
  <2> QED BY <1>1, <2>1, First
<1>4. LateOnes(q) # {} => Break(q) \in LateOnes(q)
  BY <1>3 DEF Break
<1>5. LateOnes(q) = {} => Break(q) = Len(q) + 1
  BY DEF Break
<1>6. LateOnes(q) \subseteq DOMAIN q
  BY DEF LateOnes
<1>7. Break(q) \in 1..(Len(q) + 1)
  BY <1>1, <1>4, <1>5, <1>6
<1>8. ToSend(q) \subseteq DOMAIN q
  BY <1>1, <1>7 DEF ToSend
<1> QED BY <1>1, <1>4, <1>5, <1>7, <1>8

\* The loop of the write thread sends a package only when its session has nothing
\* before it in the list.
LEMMA LoopList ==
    ASSUME NEW q \in Seq(Pkgs)
    PROVE  /\ AfterLoop(q) \in Seq(Pkgs)
           /\ HeadsOf(AfterLoop(q)) \subseteq HeadsOf(q)
           /\ FirstWaits(q) => FirstWaits(AfterLoop(q))
           /\ Rising(q) => Rising(AfterLoop(q))
<1> DEFINE r == [i \in DOMAIN q |-> Processed(q, i)]
           I == {i \in DOMAIN q : ~(IsResponse(r[i]) /\ Waiting(r[i]))}
<1>1. /\ Len(q) \in Nat /\ DOMAIN q = 1..Len(q)
      /\ \A i \in DOMAIN q : i \in Nat /\ q[i] \in Pkgs
  BY SeqFacts
<1>2. ASSUME NEW i \in DOMAIN q
      PROVE  /\ Processed(q, i) \in Pkgs /\ Processed(q, i).head = q[i].head
             /\ Waiting(Processed(q, i)) => Waiting(q[i]) \/ i \in ToSend(q)
  <2>1. q[i] \in Pkgs
    BY <1>1
  <2>2. q[i].retryChance > 0 => q[i].retryChance - 1 \in 0..RetryChance
    BY <2>1, LinkAssumption DEF Pkgs, LinkAssumption
  <2>3. CASE i \in ToSend(q)
    <3>1. Processed(q, i) = [q[i] EXCEPT !.status = "PKG_WAIT_RESPONSE"]
      <4>1. i # Break(q)
        BY <2>3, BreakPlace DEF ToSend
      <4> QED BY <2>3, <4>1 DEF Processed
    <3> QED BY <2>1, <2>3, <3>1 DEF Pkgs
  <2>4. CASE i \notin ToSend(q) /\ i = Break(q) /\ q[i].retryChance > 0
    <3>1. Processed(q, i) = [q[i] EXCEPT !.status = "PKG_WAIT_SEND", !.late = FALSE,
                                         !.retryChance = @ - 1]
      BY <2>4 DEF Processed
    <3> QED BY <2>1, <2>2, <2>4, <3>1 DEF Pkgs, Waiting
  <2>5. CASE i \notin ToSend(q) /\ ~(i = Break(q) /\ q[i].retryChance > 0)
    BY <2>1, <2>5 DEF Processed
  <2> QED BY <2>3, <2>4, <2>5
<1>3. DOMAIN r = DOMAIN q /\ r \in Seq(Pkgs)
  <2>1. r \in [1..Len(q) -> Pkgs]
    BY <1>1, <1>2
  <2> QED BY <1>1, <2>1, SeqDef
<1>4. \A i \in DOMAIN q : /\ r[i].head = q[i].head
                          /\ Waiting(r[i]) => Waiting(q[i]) \/ i \in ToSend(q)
  BY <1>2
<1>5. AfterLoop(q) = Keep(r, I) /\ I \in SUBSET DOMAIN r
  BY DEF AfterLoop
<1> HIDE DEF r, I
<1>6. HeadsOf(r) \subseteq HeadsOf(q)
  BY <1>3, <1>4 DEF HeadsOf
<1>7. Rising(q) => Rising(r)
  BY <1>3, <1>4 DEF Rising
<1>8. FirstWaits(q) => FirstWaits(r)
  <2> SUFFICES ASSUME FirstWaits(q), NEW i \in DOMAIN r, NEW j \in DOMAIN r, i < j,
                      ~IsResponse(r[i]), ~IsResponse(r[j]),
                      r[i].head.sid = r[j].head.sid, Waiting(r[j])
               PROVE  FALSE
    BY DEF FirstWaits
  <2>1. ~IsResponse(q[i]) /\ ~IsResponse(q[j]) /\ q[i].head.sid = q[j].head.sid
    BY <1>3, <1>4 DEF IsResponse
  <2>2. ~Waiting(q[j])
    BY <1>3, <2>1 DEF FirstWaits
  <2>3. HasTurn(q, j)
    BY <1>3, <1>4, <2>2 DEF ToSend
  <2>4. i \in 1..(j - 1)
    BY <1>1, <1>3
  <2> QED BY <2>1, <2>3, <2>4 DEF HasTurn
<1>9. /\ Keep(r, I) \in Seq(Pkgs)
      /\ HeadsOf(Keep(r, I)) \subseteq HeadsOf(r)
      /\ FirstWaits(r) => FirstWaits(Keep(r, I))
      /\ Rising(r) => Rising(Keep(r, I))
  BY <1>3, <1>5, KeptList
<1> QED BY <1>5, <1>6, <1>7, <1>8, <1>9

\* What the loop puts on the cable: of a session at most one package with data, and
\* none of the list comes before it.
LEMMA CableSeq ==
    ASSUME NEW n, NEW q \in Seq(Pkgs)
    PROVE  /\ OnCable(n, q) \in Seq(Heads)
           /\ \A k \in DOMAIN OnCable(n, q) : OnCable(n, q)[k] \in HeadsOf(q)
           /\ \A j, k \in DOMAIN OnCable(n, q) :
                 Data(OnCable(n, q)[j]) /\ Data(OnCable(n, q)[k]) => j = k
           /\ Rising(q) => \A k \in DOMAIN OnCable(n, q), h \in HeadsOf(q) :
                 Data(OnCable(n, q)[k]) /\ Data(h) => OnCable(n, q)[k].idx <= h.idx
<1> DEFINE I == {i \in ToSend(q) : Written(n, q[i])}
           r == Keep(q, I)
           c == OnCable(n, q)
           P(k) == Place(I, k)
<1>1. /\ Len(q) \in Nat /\ DOMAIN q = 1..Len(q)
      /\ \A i \in DOMAIN q : i \in Nat /\ q[i] \in Pkgs
  BY SeqFacts
<1>2. I \in SUBSET DOMAIN q /\ I \subseteq ToSend(q)
  BY BreakPlace
<1>3. c = [k \in DOMAIN r |-> r[k].head]
  BY DEF OnCable
<1> HIDE DEF I, c
<1>4. /\ r \in Seq(Pkgs)
      /\ \A k \in DOMAIN r : P(k) \in I /\ r[k] = q[P(k)]
      /\ \A j, k \in DOMAIN r : j < k => P(j) < P(k)
  BY <1>2, Kept
<1> HIDE DEF r, P
<1>5. /\ Len(r) \in Nat /\ DOMAIN r = 1..Len(r)
      /\ \A i \in DOMAIN r : i \in Nat /\ r[i] \in Pkgs
  BY <1>4, SeqFacts
<1>6. DOMAIN c = DOMAIN r /\ \A k \in DOMAIN r : c[k] = q[P(k)].head /\ c[k] \in Heads
  BY <1>3, <1>4, <1>5 DEF Pkgs
<1>7. c \in Seq(Heads)
  <2>1. c \in [1..Len(r) -> Heads]
    BY <1>3, <1>5, <1>6
  <2> QED BY <1>5, <2>1, SeqDef
<1>8. \A k \in DOMAIN c : c[k] \in HeadsOf(q)
  BY <1>2, <1>4, <1>6 DEF HeadsOf
<1>9. \A i \in I, j \in DOMAIN q : Data(q[i].head) /\ Data(q[j].head) => i <= j
  <2> SUFFICES ASSUME NEW i \in I, NEW j \in DOMAIN q, Data(q[i].head), Data(q[j].head),
                      ~(i <= j)
               PROVE  FALSE
    OBVIOUS
  <2>1. j \in 1..(i - 1)
    BY <1>1, <1>2
  <2>2. HasTurn(q, i)
    BY <1>2 DEF ToSend
  <2> QED BY <2>1, <2>2 DEF HasTurn, IsResponse, Data
<1>10. \A j, k \in DOMAIN c : Data(c[j]) /\ Data(c[k]) => j = k
  <2> SUFFICES ASSUME NEW j \in DOMAIN c, NEW k \in DOMAIN c, Data(c[j]), Data(c[k]), j < k
               PROVE  FALSE
    BY <1>5, <1>6
  <2>1. P(j) < P(k) /\ P(j) \in I /\ P(k) \in I /\ P(j) \in Nat /\ P(k) \in Nat
    BY <1>1, <1>2, <1>4, <1>6
  <2>2. P(k) <= P(j)
    BY <1>2, <1>6, <1>9, <2>1
  <2> QED BY <2>1, <2>2
<1>11. Rising(q) => \A k \in DOMAIN c, h \in HeadsOf(q) :
          Data(c[k]) /\ Data(h) => c[k].idx <= h.idx
  <2> SUFFICES ASSUME Rising(q), NEW k \in DOMAIN c, NEW h \in HeadsOf(q),
                      Data(c[k]), Data(h)
               PROVE  c[k].idx <= h.idx
    OBVIOUS
  <2>1. PICK j \in DOMAIN q : h = q[j].head
    BY DEF HeadsOf
  <2>2. P(k) \in I /\ P(k) \in DOMAIN q /\ c[k] = q[P(k)].head
    BY <1>2, <1>4, <1>6
  <2>3. P(k) = j \/ P(k) < j
    BY <1>1, <1>9, <2>1, <2>2
  <2>4. c[k].idx = h.idx \/ c[k].idx < h.idx
    BY <2>1, <2>2, <2>3 DEF Rising
  <2>5. c[k].idx \in Nat /\ h.idx \in Nat
    BY <1>1, <2>1, <2>2 DEF Pkgs, Heads
  <2> QED BY <2>4, <2>5
<1> QED BY <1>7, <1>8, <1>10, <1>11 DEF c

-----------------------------------------------------------------------------
(* The ranges of the variables.                                            *)

\* The two ends of the cable.
LEMMA PeerNode == ASSUME NEW n \in Nodes
                  PROVE  /\ Peer(n) \in Nodes /\ Peer(n) # n /\ Peer(Peer(n)) = n
                         /\ Nodes = {n, Peer(n)}
BY DEF Peer, Nodes

\* The server's session is one of the sessions.
LEMMA CurSession == Cur \in Sessions
BY DEF Sessions

\* The head of a package.
LEMMA HeadType ==
    ASSUME NEW s \in Sessions, NEW i \in Nat,
           NEW k \in {"data", "ack", "free", "reset"}
    PROVE  /\ UartHead(k, s, i) \in Heads
           /\ UartHead(k, s, i).kind = k /\ UartHead(k, s, i).sid = s
           /\ UartHead(k, s, i).idx = i
BY DEF UartHead, Heads

\* The head of a response.
LEMMA AckType ==
    ASSUME NEW h \in Heads
    PROVE  /\ Ack(h) \in Heads /\ Ack(h).kind = "ack"
           /\ Ack(h).sid = h.sid /\ Ack(h).idx = h.idx
BY HeadType DEF Ack, Heads, UartHead

\* What a worker that sleeps for a slot is, when others are woken: not idle.
LEMMA SlotsFreed ==
    ASSUME TypeOK, NEW n \in Nodes, NEW s, NEW k, SlotsFree(n, s, k)
    PROVE  /\ slots' \in [Nodes -> SUBSET Sessions]
           /\ caller' \in [Nodes -> [Sessions -> CallerStates]]
           /\ \A m \in Nodes, t \in Sessions :
                 (caller'[m][t] = "idle") <=> (caller[m][t] = "idle")
<1>1. /\ slots \in [Nodes -> SUBSET Sessions]
      /\ caller \in [Nodes -> [Sessions -> CallerStates]]
  BY DEF TypeOK
<1> DEFINE Asleep == {t \in Sessions : caller[n][t] = "asleep"}
<1>2. PICK W \in SUBSET Asleep :
         caller' = [caller EXCEPT ![n] = [t \in Sessions |-> IF t \in W THEN "woken" ELSE @[t]]]
  BY DEF SlotsFree
<1>3. slots' = [slots EXCEPT ![n] = IF k = 0 THEN @ ELSE @ \ {s}]
  BY DEF SlotsFree
<1>4. slots' \in [Nodes -> SUBSET Sessions]
  BY <1>1, <1>3
<1>5. caller' \in [Nodes -> [Sessions -> CallerStates]]
  BY <1>1, <1>2 DEF CallerStates
<1>6. ASSUME NEW m \in Nodes, NEW t \in Sessions
      PROVE  (caller'[m][t] = "idle") <=> (caller[m][t] = "idle")
  <2>1. CASE m # n
    BY <1>1, <1>2, <2>1
  <2>2. CASE m = n /\ t \in W
    BY <1>1, <1>2, <2>2
  <2>3. CASE m = n /\ t \notin W
    BY <1>1, <1>2, <2>3
  <2> QED BY <2>1, <2>2, <2>3
<1> QED BY <1>4, <1>5, <1>6

\* The next package of a wire, and the rest.
LEMMA Taken ==
    ASSUME TypeOK, NEW n \in Nodes, NEW k, Take(n, k)
    PROVE  /\ Head(wire[n]) \in Heads /\ Head(wire[n]).kind = k
           /\ Head(wire[n]) \in OnWire(n)
           /\ wire' \in [Nodes -> Seq(Heads)]
           /\ wire'[n] = Tail(wire[n]) /\ wire'[Peer(n)] = wire[Peer(n)]
BY PeerNode, HeadTailProperties, LenProperties, EmptySeq DEF TypeOK, Take, OnWire

\* What is left of a wire.
LEMMA RestOfWire ==
    ASSUME NEW w \in Seq(Heads), w # <<>>
    PROVE  /\ \A i \in DOMAIN Tail(w) : \E j \in DOMAIN w : Tail(w)[i] = w[j]
           /\ Climbing(w) => Climbing(Tail(w))
           /\ Climbing(w) /\ Data(Head(w))
                => \A i \in DOMAIN Tail(w) : Data(Tail(w)[i]) => Head(w).idx <= Tail(w)[i].idx
<1>1. /\ Len(w) \in Nat \ {0} /\ DOMAIN w = 1..Len(w)
      /\ Tail(w) \in Seq(Heads) /\ Len(Tail(w)) = Len(w) - 1
      /\ \A i \in 1..Len(Tail(w)) : Tail(w)[i] = w[i + 1]
  BY HeadTailProperties, LenProperties, EmptySeq
<1>2. DOMAIN Tail(w) = 1..(Len(w) - 1)
  BY <1>1, LenProperties
<1>3. Head(w) = w[1]
  OBVIOUS
<1> DEFINE t == Tail(w)
<1>4. \A i \in DOMAIN t : i + 1 \in DOMAIN w /\ t[i] = w[i + 1] /\ i \in Nat /\ 1 < i + 1
  BY <1>1, <1>2
<1>5. 1 \in DOMAIN w
  BY <1>1
<1> HIDE DEF t
<1>6. Climbing(w) => Climbing(t)
  <2> SUFFICES ASSUME Climbing(w), NEW i \in DOMAIN t, NEW j \in DOMAIN t, i < j,
                      Data(t[i]), Data(t[j])
               PROVE  t[i].idx <= t[j].idx
    BY DEF Climbing
  <2>1. i + 1 < j + 1
    BY <1>4
  <2> QED BY <1>4, <2>1 DEF Climbing
<1>7. Climbing(w) /\ Data(w[1]) => \A i \in DOMAIN t : Data(t[i]) => w[1].idx <= t[i].idx
  BY <1>4, <1>5 DEF Climbing
<1>8. \A i \in DOMAIN t : \E j \in DOMAIN w : t[i] = w[j]
  BY <1>4
<1> QED BY <1>3, <1>6, <1>7, <1>8 DEF t

\* A wire and what is written to it.
LEMMA Lengthened ==
    ASSUME NEW w \in Seq(Heads), NEW c \in Seq(Heads)
    PROVE  /\ w \o c \in Seq(Heads)
           /\ \A i \in DOMAIN (w \o c) :
                 \/ \E j \in DOMAIN w : (w \o c)[i] = w[j]
                 \/ \E j \in DOMAIN c : (w \o c)[i] = c[j]
           /\ /\ Climbing(w)
              /\ \A j, k \in DOMAIN c : Data(c[j]) /\ Data(c[k]) => j = k
              /\ \A i \in DOMAIN w, j \in DOMAIN c : Data(w[i]) /\ Data(c[j]) => w[i].idx <= c[j].idx
              => Climbing(w \o c)
<1> DEFINE v == w \o c
<1>1. /\ Len(w) \in Nat /\ DOMAIN w = 1..Len(w) /\ Len(c) \in Nat /\ DOMAIN c = 1..Len(c)
      /\ v \in Seq(Heads) /\ Len(v) = Len(w) + Len(c)
      /\ \A i \in 1..(Len(w) + Len(c)) : v[i] = IF i <= Len(w) THEN w[i] ELSE c[i - Len(w)]
  BY LenProperties, ConcatProperties
<1>2. DOMAIN v = 1..(Len(w) + Len(c))
  BY <1>1, LenProperties
<1> HIDE DEF v
<1>3. \A i \in DOMAIN v : \/ i \in DOMAIN w /\ v[i] = w[i]
                          \/ i > Len(w) /\ i - Len(w) \in DOMAIN c /\ v[i] = c[i - Len(w)]
  BY <1>1, <1>2
<1>4. ASSUME Climbing(w),
             \A j, k \in DOMAIN c : Data(c[j]) /\ Data(c[k]) => j = k,
             \A i \in DOMAIN w, j \in DOMAIN c : Data(w[i]) /\ Data(c[j]) => w[i].idx <= c[j].idx
      PROVE  Climbing(v)
  <2> SUFFICES ASSUME NEW i \in DOMAIN v, NEW j \in DOMAIN v, i < j, Data(v[i]), Data(v[j])
               PROVE  v[i].idx <= v[j].idx
    BY DEF Climbing
  <2>1. CASE i \in DOMAIN w /\ v[i] = w[i] /\ j \in DOMAIN w /\ v[j] = w[j]
    BY <1>4, <2>1 DEF Climbing
  <2>2. CASE i \in DOMAIN w /\ v[i] = w[i] /\ j - Len(w) \in DOMAIN c /\ v[j] = c[j - Len(w)]
    BY <1>4, <2>2
  <2>3. CASE /\ i - Len(w) \in DOMAIN c /\ v[i] = c[i - Len(w)]
             /\ j - Len(w) \in DOMAIN c /\ v[j] = c[j - Len(w)]
    <3>1. i - Len(w) # j - Len(w)
      BY <1>1, <1>2
    <3> QED BY <1>4, <2>3, <3>1
  <2>4. CASE i > Len(w) /\ j \in DOMAIN w
    BY <1>1, <1>2, <2>4
  <2> QED BY <1>3, <2>1, <2>2, <2>3, <2>4
<1> QED BY <1>1, <1>3, <1>4 DEF v

\* A change of an index keeps its range.
LEMMA IndexType ==
    ASSUME TypeOK, NEW n \in Nodes, NEW s \in Sessions, NEW i \in Nat
    PROVE  /\ [packageIndex EXCEPT ![n][s] = i] \in [Nodes -> [Sessions -> Nat]]
           /\ [dispatchedPackageIndex EXCEPT ![n][s] = i] \in [Nodes -> [Sessions -> Nat]]
           /\ [packageIndex EXCEPT ![n][s] = @ + 1] \in [Nodes -> [Sessions -> Nat]]
           /\ packageIndex[n][s] \in Nat /\ packageIndex[n][s] + 1 \in Nat
           /\ numbered[n][s] \in Nat
BY DEF TypeOK

\* A change of a list keeps its range.
LEMMA ListType ==
    ASSUME TypeOK, NEW n \in Nodes, NEW q \in Seq(Pkgs)
    PROVE  /\ outPkgs[n] \in Seq(Pkgs)
           /\ [outPkgs EXCEPT ![n] = q] \in [Nodes -> Seq(Pkgs)]
BY DEF TypeOK

\* A FREE keeps the ranges.
LEMMA AnswerFreeType ==
    ASSUME TypeOK, NEW n \in Nodes, NEW s \in Sessions, NEW q \in Seq(Pkgs),
           AnswerFree(n, s, q)
    PROVE  /\ packageIndex' \in [Nodes -> [Sessions -> Nat]]
           /\ outPkgs' \in [Nodes -> Seq(Pkgs)]
BY IndexType, HeadType, AddedList, ListType DEF AnswerFree

\* FreeSession keeps the states of sessions.
LEMMA FreeSessionType ==
    ASSUME TypeOK, NEW n \in Nodes, NEW s \in Sessions, FreeSession(n, s)
    PROVE  session' \in [Nodes -> [Sessions -> SessionStates]]
BY DEF TypeOK, FreeSession, SessionStates

\* ClearUARTOutMap keeps the ranges.
LEMMA ClearType ==
    ASSUME TypeOK, NEW n \in Nodes, NEW s \in Sessions, NEW q \in Seq(Pkgs),
           ClearUARTOutMap(n, q, s)
    PROVE  /\ outPkgs' \in [Nodes -> Seq(Pkgs)]
           /\ slots' \in [Nodes -> SUBSET Sessions]
           /\ caller' \in [Nodes -> [Sessions -> CallerStates]]
BY SlotsFreed, WithoutList, ListType DEF ClearUARTOutMap

\* OnTransferError keeps the ranges.
LEMMA ErrorType ==
    ASSUME TypeOK, NEW n \in Nodes, NEW s \in Sessions, NEW q \in Seq(Pkgs),
           OnTransferError(n, s, q)
    PROVE  /\ session' \in [Nodes -> [Sessions -> SessionStates]]
           /\ portOpen' \in BOOLEAN
           /\ outPkgs' \in [Nodes -> Seq(Pkgs)]
           /\ slots' \in [Nodes -> SUBSET Sessions]
           /\ caller' \in [Nodes -> [Sessions -> CallerStates]]
           /\ requested' \in [Nodes -> BOOLEAN]
<1>1. portOpen' \in BOOLEAN /\ requested' \in [Nodes -> BOOLEAN]
  BY DEF OnTransferError, NotifyTransfer, TypeOK
<1> QED BY <1>1, FreeSessionType, ClearType DEF OnTransferError

\* A caller of slots.Wait is not idle, and the others are what they were.
LEMMA WaitType ==
    ASSUME TypeOK, NEW n \in Nodes, NEW s \in Sessions, Wait(n, s)
    PROVE  /\ slots' \in [Nodes -> SUBSET Sessions]
           /\ caller' \in [Nodes -> [Sessions -> CallerStates]]
           /\ caller'[n][s] # "idle"
           /\ \A m \in Nodes, t \in Sessions :
                 m # n \/ t # s => caller'[m][t] = caller[m][t]
BY DEF TypeOK, Wait, CallerStates

\* The part of the loop that sends keeps the ranges.
LEMMA SendType ==
    ASSUME TypeOK, NEW n \in Nodes, SendPkgs(n)
    PROVE  /\ wire' \in [Nodes -> Seq(Heads)]
           /\ timeout' \in [Nodes -> BOOLEAN]
           /\ outPkgs[n] \in Seq(Pkgs)
<1>1. outPkgs[n] \in Seq(Pkgs)
  BY DEF TypeOK
<1>2. OnCable(n, outPkgs[n]) \in Seq(Heads)
  BY <1>1, CableSeq
<1>3. wire' = [wire EXCEPT ![Peer(n)] = @ \o OnCable(n, outPkgs[n])]
  BY DEF SendPkgs
<1>4. wire \in [Nodes -> Seq(Heads)]
  BY DEF TypeOK
<1>5. wire[Peer(n)] \o OnCable(n, outPkgs[n]) \in Seq(Heads)
  BY <1>2, <1>4, PeerNode, ConcatProperties
<1>6. wire' \in [Nodes -> Seq(Heads)]
  BY <1>3, <1>4, <1>5, PeerNode
<1>7. timeout' \in [Nodes -> BOOLEAN]
  BY DEF TypeOK, SendPkgs, TimeoutSet
<1> QED BY <1>1, <1>6, <1>7

\* The package at which the loop breaks is of a session.
LEMMA BreakSid ==
    ASSUME NEW q \in Seq(Pkgs), LateOnes(q) # {}
    PROVE  q[Break(q)].head.sid \in Sessions
<1>1. Break(q) \in DOMAIN q
  BY BreakPlace DEF LateOnes
<1>2. q[Break(q)] \in Pkgs
  BY <1>1, SeqFacts
<1> QED BY <1>2 DEF Pkgs, Heads

\* The ranges hold at the start.
LEMMA InitType == Init => TypeOK
<1> SUFFICES ASSUME Init PROVE TypeOK
  OBVIOUS
<1>1. /\ <<>> \in Seq(Pkgs) /\ <<>> \in Seq(Heads) /\ <<>> \in Seq(Nat)
  BY EmptySeq
<1>2. /\ session \in [Nodes -> [Sessions -> SessionStates]]
      /\ caller \in [Nodes -> [Sessions -> CallerStates]]
  BY DEF Init, OnAll, SessionStates, CallerStates
<1>3. created \in [Sessions -> 0..MaxNew]
  BY LinkAssumption DEF Init, LinkAssumption
<1> QED BY <1>1, <1>2, <1>3 DEF Init, TypeOK, OnAll

\* Every action keeps the ranges.
LEMMA NextType == TypeOK /\ [Next]_vars => TypeOK'
<1> SUFFICES ASSUME TypeOK, [Next]_vars PROVE TypeOK'
  OBVIOUS
<1> USE DEF vars, listVars, timerVars, indexVars, recvVars, histVars
<1>1. CASE UNCHANGED vars
  BY <1>1 DEF TypeOK
<1>2. CASE ReadFails
  BY <1>2, ErrorType, CurSession, ListType DEF ReadFails, TypeOK, Nodes
<1>3. ASSUME NEW n \in Nodes, SendPkgInUARTOutMap(n) PROVE TypeOK'
  <2>1. AfterLoop(outPkgs[n]) \in Seq(Pkgs)
    BY <1>3, SendType, LoopList DEF SendPkgInUARTOutMap
  <2>2. outPkgs' \in [Nodes -> Seq(Pkgs)]
    BY <1>3, <2>1 DEF SendPkgInUARTOutMap, TypeOK
  <2> QED BY <1>3, <2>2, SendType DEF SendPkgInUARTOutMap, SendPkgs, TypeOK
<1>4. ASSUME NEW n \in Nodes, Resend(n) PROVE TypeOK'
  <2>1. AfterLoop(outPkgs[n]) \in Seq(Pkgs)
    BY <1>4, SendType, LoopList DEF Resend
  <2>2. outPkgs' \in [Nodes -> Seq(Pkgs)]
    BY <1>4, <2>1 DEF Resend, TypeOK
  <2> QED BY <1>4, <2>2, SendType DEF Resend, SendPkgs, NotifyTransfer, TypeOK
<1>5. ASSUME NEW n \in Nodes, GiveUp(n) PROVE TypeOK'
  <2> DEFINE q == outPkgs[n]
             s == q[Break(q)].head.sid
  <2>1. SendPkgs(n) /\ LateOnes(q) # {}
    BY <1>5 DEF GiveUp
  <2>2. /\ wire' \in [Nodes -> Seq(Heads)] /\ timeout' \in [Nodes -> BOOLEAN]
        /\ q \in Seq(Pkgs) /\ s \in Sessions
    BY <2>1, SendType, BreakSid
  <2>3. AfterLoop(q) \in Seq(Pkgs)
    BY <2>2, LoopList
  <2>4. CASE OnTransferError(n, s, AfterLoop(q))
    <3> HIDE DEF q, s
    <3>1. /\ session' \in [Nodes -> [Sessions -> SessionStates]]
          /\ portOpen' \in BOOLEAN
          /\ outPkgs' \in [Nodes -> Seq(Pkgs)]
          /\ slots' \in [Nodes -> SUBSET Sessions]
          /\ caller' \in [Nodes -> [Sessions -> CallerStates]]
          /\ requested' \in [Nodes -> BOOLEAN]
      BY <2>2, <2>3, <2>4, ErrorType
    <3> QED BY <2>1, <2>2, <3>1 DEF SendPkgs, TypeOK
  <2>5. CASE /\ outPkgs' = [outPkgs EXCEPT ![n] = AfterLoop(q)]
             /\ requested' = [requested EXCEPT ![n] = FALSE]
             /\ UNCHANGED <<session, portOpen, slots, caller>>
    <3>1. outPkgs' \in [Nodes -> Seq(Pkgs)]
      BY <2>3, <2>5 DEF TypeOK
    <3> QED BY <2>1, <2>2, <2>5, <3>1 DEF SendPkgs, TypeOK
  <2> QED BY <1>5, <2>4, <2>5 DEF GiveUp
<1>6. ASSUME NEW n \in Nodes, WriteInLoopFails(n) PROVE TypeOK'
  BY <1>6, ErrorType, CurSession, ListType DEF WriteInLoopFails, TypeOK
<1>7. ASSUME NEW n \in Nodes, ProcessResponsePackage(n) PROVE TypeOK'
  <2> DEFINE q == outPkgs[n]
             h == Head(wire[n])
             Found == {i \in DOMAIN q : Answers(q[i], h)}
             First1 == CHOOSE i \in Found : \A j \in Found : i <= j
  <2>1. /\ h \in Heads /\ wire' \in [Nodes -> Seq(Heads)]
    BY <1>7, Taken DEF ProcessResponsePackage
  <2>2. requested' \in [Nodes -> BOOLEAN]
    BY <1>7 DEF ProcessResponsePackage, NotifyTransfer, TypeOK
  <2>3. CASE Found = {} /\ UNCHANGED <<listVars, acked>>
    BY <1>7, <2>1, <2>2, <2>3 DEF ProcessResponsePackage, TypeOK
  <2>4. CASE Found # {}
    <3>1. /\ outPkgs' = [outPkgs EXCEPT ![n] = Keep(q, DOMAIN q \ {First1})]
          /\ SlotsFree(n, h.sid, 1)
          /\ acked' = [acked EXCEPT ![n][h.sid] = @ \cup
                         IF q[First1].head.kind = "data" THEN {q[First1].head.idx} ELSE {}]
      BY <1>7, <2>4 DEF ProcessResponsePackage
    <3>2. q \in Seq(Pkgs) /\ Keep(q, DOMAIN q \ {First1}) \in Seq(Pkgs)
      BY KeptList DEF TypeOK
    <3>3. outPkgs' \in [Nodes -> Seq(Pkgs)]
      BY <3>1, <3>2 DEF TypeOK
    <3>4. First1 \in DOMAIN q
      <4>1. /\ Len(q) \in Nat /\ DOMAIN q = 1..Len(q)
        BY <3>2, SeqFacts
      <4>2. \E i \in Found : \A j \in Found : i <= j
        BY <4>1, <2>4, First
      <4> QED BY <4>2
    <3>5. q[First1].head.idx \in Nat
      <4> HIDE DEF First1
      <4>1. q[First1] \in Pkgs
        BY <3>2, <3>4, SeqFacts
      <4> QED BY <4>1 DEF Pkgs, Heads
    <3>6. acked' \in [Nodes -> [Sessions -> SUBSET Nat]]
      <4> HIDE DEF First1, q
      <4> DEFINE X == IF q[First1].head.kind = "data" THEN {q[First1].head.idx} ELSE {}
      <4>1. X \in SUBSET Nat
        BY <3>5
      <4>2. acked' = [acked EXCEPT ![n][h.sid] = @ \cup X]
        BY <3>1
      <4>3. acked \in [Nodes -> [Sessions -> SUBSET Nat]] /\ h.sid \in Sessions
        BY <2>1 DEF TypeOK, Heads
      <4> HIDE DEF X, h
      <4> QED BY <4>1, <4>2, <4>3
    <3> HIDE DEF First1, q, Found
    <3> QED BY <1>7, <2>1, <2>2, <3>1, <3>3, <3>6, SlotsFreed
            DEF ProcessResponsePackage, TypeOK
  <2> QED BY <1>7, <2>3, <2>4 DEF ProcessResponsePackage
<1>8. ASSUME NEW n \in Nodes, ReceiveFree(n) PROVE TypeOK'
  <2> DEFINE q == outPkgs[n]
             h == Head(wire[n])
  <2>1. /\ h \in Heads /\ wire' \in [Nodes -> Seq(Heads)] /\ h.sid \in Sessions
    BY <1>8, Taken DEF ReceiveFree, Heads
  <2>2. requested' \in [Nodes -> BOOLEAN]
    BY <1>8 DEF ReceiveFree, NotifyTransfer, TypeOK
  <2>3. q \in Seq(Pkgs) /\ Ack(h) \in Heads
    BY <2>1, AckType DEF TypeOK
  <2>4. AddPkg(q, Ack(h)) \in Seq(Pkgs) /\ AddPkg(Without(q, h.sid), Ack(h)) \in Seq(Pkgs)
    BY <2>3, WithoutList, AddedList
  <2> HIDE DEF q, h
  <2>5. CASE /\ outPkgs' = [outPkgs EXCEPT ![n] = AddPkg(q, Ack(h))]
             /\ UNCHANGED <<session, portOpen, slots, caller>>
    BY <1>8, <2>1, <2>2, <2>4, <2>5 DEF ReceiveFree, TypeOK
  <2>6. CASE /\ FreeSession(n, h.sid)
             /\ portOpen' = (portOpen /\ n # "host")
             /\ outPkgs' = [outPkgs EXCEPT ![n] = AddPkg(Without(q, h.sid), Ack(h))]
             /\ SlotsFree(n, h.sid, Cardinality(Normal(q, h.sid)))
    <3>1. /\ session' \in [Nodes -> [Sessions -> SessionStates]]
          /\ slots' \in [Nodes -> SUBSET Sessions]
          /\ caller' \in [Nodes -> [Sessions -> CallerStates]]
      BY <2>1, <2>6, FreeSessionType, SlotsFreed
    <3>2. outPkgs' \in [Nodes -> Seq(Pkgs)] /\ portOpen' \in BOOLEAN
      BY <2>4, <2>6 DEF TypeOK
    <3> QED BY <1>8, <2>1, <2>2, <3>1, <3>2 DEF ReceiveFree, TypeOK
  <2> QED BY <1>8, <2>5, <2>6 DEF ReceiveFree, q, h
<1>9. ASSUME NEW n \in Nodes, ReceiveDup(n) PROVE TypeOK'
  <2> DEFINE h == Head(wire[n])
  <2>1. /\ h \in Heads /\ wire' \in [Nodes -> Seq(Heads)]
    BY <1>9, Taken DEF ReceiveDup
  <2>2. AddPkg(outPkgs[n], Ack(h)) \in Seq(Pkgs)
    BY <2>1, AckType, AddedList DEF TypeOK
  <2>3. outPkgs' = [outPkgs EXCEPT ![n] = AddPkg(@, Ack(h))]
    BY <1>9 DEF ReceiveDup
  <2> HIDE DEF h
  <2>4. outPkgs' \in [Nodes -> Seq(Pkgs)]
    BY <2>2, <2>3 DEF TypeOK
  <2> QED BY <1>9, <2>1, <2>4 DEF ReceiveDup, NotifyTransfer, TypeOK
<1>10. ASSUME NEW n \in Nodes, NEW h, h = Head(wire[n]), Dispatch(n, h)
       PROVE  /\ h \in Heads /\ h.sid \in Sessions /\ h.idx \in Nat
              /\ wire' \in [Nodes -> Seq(Heads)]
              /\ requested' \in [Nodes -> BOOLEAN]
              /\ dispatchedPackageIndex' \in [Nodes -> [Sessions -> Nat]]
              /\ AddPkg(outPkgs[n], Ack(h)) \in Seq(Pkgs)
              /\ \A i \in Nat : [delivered EXCEPT ![n][h.sid] = Append(@, i)]
                                   \in [Nodes -> [Sessions -> Seq(Nat)]]
              /\ [reported EXCEPT ![n][h.sid] = @ \cup {h.idx}]
                      \in [Nodes -> [Sessions -> SUBSET Nat]]
  <2>1. h \in Heads /\ wire' \in [Nodes -> Seq(Heads)] /\ h.sid \in Sessions /\ h.idx \in Nat
    BY <1>10, Taken DEF Dispatch, Heads
  <2>2. requested' \in [Nodes -> BOOLEAN]
    BY <1>10 DEF Dispatch, NotifyTransfer, TypeOK
  <2>3. dispatchedPackageIndex' \in [Nodes -> [Sessions -> Nat]]
    BY <1>10, <2>1, IndexType, CurSession DEF Dispatch, Receiver
  <2>4. AddPkg(outPkgs[n], Ack(h)) \in Seq(Pkgs)
    BY <2>1, AckType, AddedList DEF TypeOK
  <2>5. ASSUME NEW i \in Nat
        PROVE  [delivered EXCEPT ![n][h.sid] = Append(@, i)] \in [Nodes -> [Sessions -> Seq(Nat)]]
    <3>1. delivered[n][h.sid] \in Seq(Nat)
      BY <2>1 DEF TypeOK
    <3>2. Append(delivered[n][h.sid], i) \in Seq(Nat)
      BY <3>1
    <3> QED BY <2>1, <3>2 DEF TypeOK
  <2>6. [reported EXCEPT ![n][h.sid] = @ \cup {h.idx}] \in [Nodes -> [Sessions -> SUBSET Nat]]
    BY <2>1 DEF TypeOK
  <2> QED BY <2>1, <2>2, <2>3, <2>4, <2>5, <2>6
<1>11. ASSUME NEW n \in Nodes, ReceiveData(n) PROVE TypeOK'
  <2> DEFINE h == Head(wire[n])
  <2>1. Dispatch(n, h)
    BY <1>11 DEF ReceiveData
  <2>2. /\ outPkgs' = [outPkgs EXCEPT ![n] = AddPkg(@, Ack(h))]
        /\ delivered' = [delivered EXCEPT ![n][h.sid] = Append(@, h.idx)]
    BY <1>11 DEF ReceiveData
  <2> HIDE DEF h
  <2>3. outPkgs' \in [Nodes -> Seq(Pkgs)] /\ delivered' \in [Nodes -> [Sessions -> Seq(Nat)]]
    BY <1>10, <2>1, <2>2 DEF h, TypeOK
  <2> QED BY <1>10, <1>11, <2>1, <2>3 DEF h, ReceiveData, Dispatch, TypeOK
<1>12. ASSUME NEW n \in Nodes, ReceiveRefused(n) PROVE TypeOK'
  <2> DEFINE h == Head(wire[n])
  <2>1. Dispatch(n, h)
    BY <1>12 DEF ReceiveRefused
  <2>2. /\ AnswerFree(n, h.sid, AddPkg(outPkgs[n], Ack(h)))
        /\ reported' = [reported EXCEPT ![n][h.sid] = @ \cup {h.idx}]
    BY <1>12 DEF ReceiveRefused
  <2> HIDE DEF h
  <2>3. reported' \in [Nodes -> [Sessions -> SUBSET Nat]]
    BY <1>10, <2>1, <2>2 DEF h
  <2>4. outPkgs' \in [Nodes -> Seq(Pkgs)] /\ packageIndex' \in [Nodes -> [Sessions -> Nat]]
    BY <1>10, <2>1, <2>2, AnswerFreeType DEF h
  <2> QED BY <1>10, <1>12, <2>1, <2>3, <2>4 DEF h, ReceiveRefused, Dispatch, TypeOK
<1>13. CASE ReceiveForeign
  <2> DEFINE h == Head(wire["host"])
             q == AddPkg(outPkgs["host"], Ack(h))
  <2>0. "host" \in Nodes
    BY DEF Nodes
  <2>1. Dispatch("host", h)
    BY <1>13 DEF ReceiveForeign
  <2>2. /\ h.sid \in Sessions /\ q \in Seq(Pkgs)
        /\ wire' \in [Nodes -> Seq(Heads)]
        /\ requested' \in [Nodes -> BOOLEAN]
        /\ dispatchedPackageIndex' \in [Nodes -> [Sessions -> Nat]]
    BY <1>10, <2>0, <2>1
  <2>3. AddPkg(q, UartHead("reset", h.sid, 0)) \in Seq(Pkgs)
    BY <2>2, HeadType, AddedList
  <2> HIDE DEF h, q
  <2>4. CASE /\ resetIO' = TRUE
             /\ AnswerFree("host", Cur, AddPkg(q, UartHead("reset", h.sid, 0)))
    <3>1. outPkgs' \in [Nodes -> Seq(Pkgs)] /\ packageIndex' \in [Nodes -> [Sessions -> Nat]]
      BY <2>0, <2>3, <2>4, AnswerFreeType, CurSession
    <3> QED BY <1>13, <2>1, <2>2, <2>4, <3>1 DEF ReceiveForeign, Dispatch, TypeOK
  <2>5. CASE /\ outPkgs' = [outPkgs EXCEPT !["host"] = q]
             /\ UNCHANGED <<packageIndex, resetIO>>
    BY <1>13, <2>0, <2>1, <2>2, <2>5 DEF ReceiveForeign, Dispatch, TypeOK
  <2> QED BY <1>13, <2>4, <2>5 DEF ReceiveForeign, h, q
<1>14. CASE ReceiveFirst
  <2> DEFINE h == Head(wire["daemon"])
  <2>0. "daemon" \in Nodes
    BY DEF Nodes
  <2>1. /\ h \in Heads /\ wire' \in [Nodes -> Seq(Heads)] /\ h.sid \in Sessions /\ h.idx \in Nat
    BY <1>14, <2>0, Taken DEF ReceiveFirst, Heads
  <2>2. /\ PrepareNewSession(h)
        /\ outPkgs' = [outPkgs EXCEPT !["daemon"] = AddPkg(@, Ack(h))]
        /\ packageIndex' = [packageIndex EXCEPT !["daemon"][h.sid] = 0]
        /\ dispatchedPackageIndex' = [dispatchedPackageIndex EXCEPT !["daemon"][h.sid] = h.idx]
        /\ delivered' = [delivered EXCEPT !["daemon"][h.sid] = Append(@, h.idx)]
        /\ NotifyTransfer("daemon")
        /\ UNCHANGED <<portOpen, broken, slots, caller, timeout, numbered, resetIO, reported,
                        acked>>
    BY <1>14 DEF ReceiveFirst
  <2> HIDE DEF h
  <2>3. AddPkg(outPkgs["daemon"], Ack(h)) \in Seq(Pkgs)
    BY <2>0, <2>1, AckType, AddedList DEF TypeOK
  <2>4. outPkgs' \in [Nodes -> Seq(Pkgs)]
    BY <2>0, <2>2, <2>3 DEF TypeOK
  <2>5. /\ packageIndex' \in [Nodes -> [Sessions -> Nat]]
        /\ dispatchedPackageIndex' \in [Nodes -> [Sessions -> Nat]]
    BY <2>0, <2>1, <2>2, IndexType
  <2>6. delivered' \in [Nodes -> [Sessions -> Seq(Nat)]]
    <3>1. delivered["daemon"][h.sid] \in Seq(Nat)
      BY <2>0, <2>1 DEF TypeOK
    <3>2. Append(delivered["daemon"][h.sid], h.idx) \in Seq(Nat)
      BY <2>1, <3>1
    <3> QED BY <2>0, <2>1, <2>2, <3>2 DEF TypeOK
  <2>7. created' \in [Sessions -> 0..MaxNew]
    <3>1. created[h.sid] \in 0..MaxNew /\ created[h.sid] < MaxNew
      BY <2>1, <2>2 DEF TypeOK, PrepareNewSession
    <3>2. created[h.sid] + 1 \in 0..MaxNew
      BY <3>1, LinkAssumption DEF LinkAssumption
    <3>3. created' = [created EXCEPT ![h.sid] = created[h.sid] + 1]
      BY <2>2 DEF PrepareNewSession
    <3> QED BY <2>1, <3>2, <3>3 DEF TypeOK
  <2>8. session' \in [Nodes -> [Sessions -> SessionStates]]
    <3>1. PICK new \in {"live", "dead"} :
            session' = [session EXCEPT !["daemon"] = [s \in Sessions |->
                          IF s = h.sid THEN new ELSE IF @[s] = "live" THEN "dead" ELSE @[s]]]
      BY <2>2 DEF PrepareNewSession
    <3>2. session \in [Nodes -> [Sessions -> SessionStates]]
      BY DEF TypeOK
    <3> QED BY <2>0, <3>1, <3>2 DEF SessionStates
  <2>9. requested' \in [Nodes -> BOOLEAN]
    BY <2>2 DEF NotifyTransfer, TypeOK
  <2> QED BY <2>1, <2>2, <2>4, <2>5, <2>6, <2>7, <2>8, <2>9 DEF TypeOK
<1>15. ASSUME NEW n \in Nodes, Late(n) PROVE TypeOK'
  <2>1. PICK i \in DOMAIN outPkgs[n] : outPkgs' = [outPkgs EXCEPT ![n][i].late = TRUE]
    BY <1>15 DEF Late
  <2> DEFINE q == outPkgs[n]
             p == [q[i] EXCEPT !.late = TRUE]
  <2>2. q \in Seq(Pkgs) /\ i \in 1..Len(q) /\ q[i] \in Pkgs
    BY SeqFacts DEF TypeOK
  <2>3. p \in Pkgs
    BY <2>2 DEF Pkgs
  <2>4. [q EXCEPT ![i] = p] \in Seq(Pkgs)
    <3> HIDE DEF p
    <3> QED BY <2>2, <2>3, ExceptSeq
  <2>5. outPkgs' = [outPkgs EXCEPT ![n] = [q EXCEPT ![i] = p]]
    BY <2>1
  <2> HIDE DEF q, p
  <2>6. outPkgs' \in [Nodes -> Seq(Pkgs)]
    BY <2>4, <2>5 DEF TypeOK
  <2> QED BY <1>15, <2>6 DEF Late, TypeOK
<1>16. ASSUME NEW n \in Nodes, Lose(n) PROVE TypeOK'
  <2>1. wire[n] \in Seq(Heads) /\ wire[n] # <<>>
    BY <1>16 DEF TypeOK, Lose
  <2>2. Tail(wire[n]) \in Seq(Heads)
    BY <2>1, HeadTailProperties
  <2>3. wire' \in [Nodes -> Seq(Heads)]
    BY <1>16, <2>2 DEF TypeOK, Lose
  <2> QED BY <1>16, <2>3 DEF Lose, TypeOK
<1>17. ASSUME NEW n \in Nodes, NEW s \in Sessions, SendUARTData(n, s) PROVE TypeOK'
  <2>1. packageIndex' \in [Nodes -> [Sessions -> Nat]] /\ numbered' \in [Nodes -> [Sessions -> Nat]]
    BY <1>17 DEF SendUARTData, TypeOK
  <2> QED BY <1>17, <2>1, WaitType DEF SendUARTData, TypeOK
<1>18. ASSUME NEW n \in Nodes, NEW s \in Sessions, WakeUp(n, s) PROVE TypeOK'
  BY <1>18, WaitType DEF WakeUp, TypeOK
<1>19. ASSUME NEW n \in Nodes, NEW s \in Sessions, RequestSendPackage(n, s) PROVE TypeOK'
  <2>1. UartHead("data", s, numbered[n][s]) \in Heads
    BY IndexType, HeadType
  <2>2. AddPkg(outPkgs[n], UartHead("data", s, numbered[n][s])) \in Seq(Pkgs)
    BY <2>1, AddedList DEF TypeOK
  <2>3. outPkgs' \in [Nodes -> Seq(Pkgs)]
    BY <1>19, <2>2 DEF RequestSendPackage, TypeOK
  <2>4. caller' \in [Nodes -> [Sessions -> CallerStates]]
    BY <1>19 DEF RequestSendPackage, TypeOK, CallerStates
  <2> QED BY <1>19, <2>3, <2>4 DEF RequestSendPackage, NotifyTransfer, TypeOK
<1>20. ASSUME NEW n \in Nodes, NEW s \in Sessions, ReadDataFromUARTStream(n, s) PROVE TypeOK'
  <2>1. outPkgs[n] \in Seq(Pkgs)
    BY DEF TypeOK
  <2>2. outPkgs' \in [Nodes -> Seq(Pkgs)] /\ packageIndex' \in [Nodes -> [Sessions -> Nat]]
    BY <1>20, <2>1, AnswerFreeType DEF ReadDataFromUARTStream
  <2>3. session' \in [Nodes -> [Sessions -> SessionStates]]
    BY <1>20, FreeSessionType DEF ReadDataFromUARTStream
  <2> QED BY <1>20, <2>2, <2>3 DEF ReadDataFromUARTStream, NotifyTransfer, TypeOK
<1>21. ASSUME NEW n \in Nodes, NEW s \in Sessions, StopSession(n, s) PROVE TypeOK'
  <2>1. outPkgs[n] \in Seq(Pkgs)
    BY DEF TypeOK
  <2>2. session' \in [Nodes -> [Sessions -> SessionStates]]
    BY <1>21 DEF StopSession, TypeOK, SessionStates
  <2> QED BY <1>21, <2>1, <2>2, ClearType DEF StopSession, NotifyTransfer, TypeOK
<1>22. ASSUME NEW n \in Nodes, NEW s \in Sessions, RemoveSession(n, s) PROVE TypeOK'
  <2>1. session' \in [Nodes -> [Sessions -> SessionStates]]
    BY <1>22 DEF RemoveSession, TypeOK, SessionStates
  <2> QED BY <1>22, <2>1 DEF RemoveSession, TypeOK
<1> QED
  BY <1>1, <1>2, <1>3, <1>4, <1>5, <1>6, <1>7, <1>8, <1>9, <1>11, <1>12, <1>13, <1>14,
     <1>15, <1>16, <1>17, <1>18, <1>19, <1>20, <1>21, <1>22
  DEF Next, WriteThread, ReadThread, Worker, Removal

-----------------------------------------------------------------------------
(* The flow of packages in one direction.                                  *)

\* What is in a list or on a wire is a head with a number.
LEMMA HeadsTyped ==
    ASSUME TypeOK, NEW n \in Nodes
    PROVE  /\ \A h \in Queued(n) \cup OnWire(n) : h \in Heads /\ h.idx \in Nat
           /\ outPkgs[n] \in Seq(Pkgs) /\ wire[n] \in Seq(Heads)
<1>1. outPkgs[n] \in Seq(Pkgs) /\ wire[n] \in Seq(Heads)
  BY DEF TypeOK
<1>2. \A i \in DOMAIN outPkgs[n] : outPkgs[n][i].head \in Heads
  <2>1. \A i \in DOMAIN outPkgs[n] : outPkgs[n][i] \in Pkgs
    BY <1>1, SeqFacts
  <2> QED BY <2>1 DEF Pkgs
<1>3. \A i \in DOMAIN wire[n] : wire[n][i] \in Heads
  BY <1>1, SeqFacts
<1>4. \A h \in Heads : h.idx \in Nat
  BY DEF Heads
<1> QED BY <1>1, <1>2, <1>3, <1>4 DEF Queued, HeadsOf, OnWire

\* The indices of the server's session are numbers.
LEMMA Numeric ==
    ASSUME TypeOK, NEW n \in Nodes
    PROVE  /\ packageIndex[n][Cur] \in Nat /\ numbered[n][Cur] \in Nat
           /\ dispatchedPackageIndex[n][Cur] \in Nat
           /\ delivered[n][Cur] \in Seq(Nat)
           /\ \A i \in DOMAIN delivered[n][Cur] : delivered[n][Cur][i] \in Nat
           /\ created[Cur] \in Nat
<1>1. /\ packageIndex[n][Cur] \in Nat /\ numbered[n][Cur] \in Nat
      /\ dispatchedPackageIndex[n][Cur] \in Nat
      /\ delivered[n][Cur] \in Seq(Nat) /\ created[Cur] \in Nat
  BY CurSession, LinkAssumption DEF TypeOK, LinkAssumption
<1> QED BY <1>1, SeqFacts

\* What a step leaves alone that has nothing to do with the flow from n to m.
Still(n, m) ==
    /\ packageIndex'[n][Cur] = packageIndex[n][Cur]
    /\ numbered'[n][Cur] = numbered[n][Cur]
    /\ (caller'[n][Cur] = "idle") <=> (caller[n][Cur] = "idle")
    /\ dispatchedPackageIndex'[m][Cur] = dispatchedPackageIndex[m][Cur]
    /\ delivered'[m][Cur] = delivered[m][Cur]
    /\ reported'[m][Cur] = reported[m][Cur]
    /\ acked'[n][Cur] = acked[n][Cur]
    /\ m = "host" => resetIO' = resetIO
    /\ created'[Cur] <= 1 => created[Cur] <= 1

\* A step that only drops packages, or puts them from a list on the wire.
LEMMA FlowKept ==
    ASSUME NEW n, NEW m, Still(n, m), Flow(n, m),
           \A h \in Queued(n)' : Data(h) \/ Free(h) => h \in Queued(n),
           \A h \in OnWire(m)' : Data(h) \/ Free(h) => h \in OnWire(m) \cup Queued(n),
           \A h \in Queued(m)' \cup OnWire(n)' : Resp(h) => h \in Queued(m) \cup OnWire(n),
           Ordered(n, m) => Ordered(n, m)'
    PROVE  Flow(n, m)'
<1> SUFFICES ASSUME created'[Cur] <= 1
             PROVE  /\ Numbers(n, m)' /\ Ordered(n, m)'
                    /\ ~Mixed(m)' => Received(n, m)' /\ Answered(n, m)'
  BY DEF Flow
<1>0. /\ Sending(n)' <=> Sending(n)
      /\ Given(m)' = Given(m)
      /\ ~Mixed(m)' => ~Mixed(m)
      /\ packageIndex'[n][Cur] = packageIndex[n][Cur]
      /\ numbered'[n][Cur] = numbered[n][Cur]
      /\ dispatchedPackageIndex'[m][Cur] = dispatchedPackageIndex[m][Cur]
      /\ delivered'[m][Cur] = delivered[m][Cur]
      /\ acked'[n][Cur] = acked[n][Cur]
      /\ created[Cur] <= 1
  BY DEF Still, Sending, Given, Mixed
<1>1. /\ Numbers(n, m) /\ Ordered(n, m)
      /\ ~Mixed(m) => Received(n, m) /\ Answered(n, m)
  BY <1>0 DEF Flow
<1>2. Numbers(n, m)'
  BY <1>0, <1>1 DEF Numbers
<1>3. ~Mixed(m)' => ~Mixed(m)
  BY <1>0
<1>4. ASSUME Received(n, m) PROVE Received(n, m)'
  <2>1. \A h \in (Queued(n) \cup OnWire(m))' : Data(h) => h \in Queued(n) \cup OnWire(m)
    OBVIOUS
  <2> QED BY <1>4, <2>1, <1>0 DEF Received
<1>5. ASSUME Answered(n, m) PROVE Answered(n, m)'
  <2>1. \A h \in Queued(n)' : Data(h) => h \in Queued(n)
    OBVIOUS
  <2> QED BY <1>5, <2>1, <1>0 DEF Answered
<1> QED BY <1>1, <1>2, <1>3, <1>4, <1>5

\* The order of a flow whose list and wire lose packages.
LEMMA OrderKept ==
    ASSUME NEW n, NEW m, Ordered(n, m),
           Rising(outPkgs'[n]), Climbing(wire'[m]),
           \A h \in Queued(n)' : Data(h) => h \in Queued(n),
           \A h \in OnWire(m)' : Data(h) => h \in OnWire(m)
    PROVE  Ordered(n, m)'
<1>1. (Rising(outPkgs[n]) /\ Climbing(wire[m]))'
  BY DEF Rising, Climbing, Data
<1>2. (\A g \in OnWire(m), h \in Queued(n) : Data(g) /\ Data(h) => g.idx <= h.idx)'
  <2>1. \A g \in OnWire(m)', h \in Queued(n)' : Data(g) /\ Data(h) => g.idx <= h.idx
    BY DEF Ordered
  <2> QED BY <2>1 DEF Data
<1> QED BY <1>1, <1>2 DEF Ordered

-----------------------------------------------------------------------------
(* Steps that lose packages or send them.                                  *)

\* r is what a step leaves of the list q.
Shrunk(r, q) == /\ HeadsOf(r) \subseteq HeadsOf(q)
                /\ FirstWaits(q) => FirstWaits(r)
                /\ Rising(q) => Rising(r)

\* v is what a step leaves of the wire w.
WireShrunk(v, w) == /\ \A i \in DOMAIN v : \E j \in DOMAIN w : v[i] = w[j]
                    /\ Climbing(w) => Climbing(v)

\* A list or a wire that stays loses nothing.
LEMMA ShrunkSelf == ASSUME NEW q PROVE Shrunk(q, q) /\ WireShrunk(q, q)
BY DEF Shrunk, WireShrunk

\* A change of one list leaves the other.
LEMMA ListChange ==
    ASSUME TypeOK, NEW n \in Nodes, NEW r, outPkgs' = [outPkgs EXCEPT ![n] = r]
    PROVE  /\ outPkgs'[n] = r /\ outPkgs'[Peer(n)] = outPkgs[Peer(n)]
           /\ Queued(n)' = HeadsOf(r) /\ Queued(Peer(n))' = Queued(Peer(n))
BY PeerNode DEF TypeOK, Queued, HeadsOf

\* The two flows are all there are.
LEMMA FlowsOf ==
    ASSUME NEW n \in Nodes, Flow(n, Peer(n))', Flow(Peer(n), n)'
    PROVE  FlowInv'
<1>1. Nodes = {n, Peer(n)} /\ Peer(Peer(n)) = n
  BY PeerNode
<1>2. \A m \in {n, Peer(n)} : Flow(m, Peer(m))'
  BY <1>1
<1> QED BY <1>1, <1>2 DEF FlowInv

\* The two lists are all there are.
LEMMA ListsOf ==
    ASSUME NEW n \in Nodes, FirstWaits(outPkgs'[n]), FirstWaits(outPkgs'[Peer(n)])
    PROVE  ListInv'
<1>1. Nodes = {n, Peer(n)}
  BY PeerNode
<1>2. \A m \in Nodes : FirstWaits(outPkgs'[m])
  BY <1>1
<1> QED BY <1>2 DEF ListInv, FirstWaits, IsResponse, Waiting

\* Nothing is added to a list or a wire.
LEMMA QuietStep ==
    ASSUME ListInv, FlowInv,
           \A n \in Nodes : /\ Still(n, Peer(n))
                            /\ Shrunk(outPkgs'[n], outPkgs[n])
                            /\ WireShrunk(wire'[n], wire[n])
    PROVE  ListInv' /\ FlowInv'
<1>1. ListInv'
  <2>1. \A n \in Nodes : FirstWaits(outPkgs'[n])
    BY DEF ListInv, Shrunk
  <2> QED BY <2>1, ListsOf, PeerNode DEF Nodes
<1>2. ASSUME NEW n \in Nodes PROVE Flow(n, Peer(n))'
  <2> DEFINE m == Peer(n)
  <2>0. m \in Nodes
    BY PeerNode
  <2>1. Flow(n, m) /\ Still(n, m)
    BY DEF FlowInv
  <2>2. Queued(n)' \subseteq Queued(n) /\ Queued(m)' \subseteq Queued(m)
    BY <2>0 DEF Queued, HeadsOf, Shrunk
  <2>3. OnWire(n)' \subseteq OnWire(n) /\ OnWire(m)' \subseteq OnWire(m)
    BY <2>0 DEF OnWire, WireShrunk
  <2>4. Ordered(n, m) => Ordered(n, m)'
    <3> HAVE Ordered(n, m)
    <3>1. Rising(outPkgs'[n]) /\ Climbing(wire'[m])
      BY <2>0 DEF Ordered, Shrunk, WireShrunk
    <3> HIDE DEF m
    <3> QED BY <2>2, <2>3, <3>1, OrderKept
  <2> HIDE DEF m
  <2>5. Flow(n, m)'
    BY <2>1, <2>2, <2>3, <2>4, FlowKept
  <2> QED BY <2>5 DEF m
<1> QED BY <1>1, <1>2, FlowsOf, PeerNode DEF Nodes

\* The write thread of x puts packages of its list on the cable.
LEMMA SendStep ==
    ASSUME TypeOK, ListInv, FlowInv, NEW x \in Nodes,
           \A n \in Nodes : Still(n, Peer(n)),
           Shrunk(outPkgs'[x], outPkgs[x]), outPkgs'[Peer(x)] = outPkgs[Peer(x)],
           wire'[Peer(x)] = wire[Peer(x)] \o OnCable(x, outPkgs[x]), wire'[x] = wire[x]
    PROVE  ListInv' /\ FlowInv'
<1> DEFINE y == Peer(x)
           q == outPkgs[x]
           c == OnCable(x, q)
           w == wire[y]
<1>0. y \in Nodes /\ Peer(y) = x /\ y # x
  BY PeerNode
<1>1. ListInv'
  <2>1. FirstWaits(outPkgs'[x]) /\ FirstWaits(outPkgs'[y])
    BY <1>0 DEF ListInv, Shrunk
  <2> QED BY <2>1, ListsOf
<1>2. /\ Queued(x)' \subseteq Queued(x) /\ Queued(y)' = Queued(y) /\ OnWire(x)' = OnWire(x)
  BY DEF Queued, HeadsOf, Shrunk, OnWire
<1>3. q \in Seq(Pkgs) /\ w \in Seq(Heads)
  BY <1>0 DEF TypeOK
<1>4. /\ c \in Seq(Heads)
      /\ \A k \in DOMAIN c : c[k] \in HeadsOf(q)
      /\ \A j, k \in DOMAIN c : Data(c[j]) /\ Data(c[k]) => j = k
      /\ Rising(q) => \A k \in DOMAIN c, h \in HeadsOf(q) :
            Data(c[k]) /\ Data(h) => c[k].idx <= h.idx
  BY <1>3, CableSeq
<1>5. wire'[y] = w \o c
  OBVIOUS
<1>6. /\ \A i \in DOMAIN (w \o c) :
            \/ \E j \in DOMAIN w : (w \o c)[i] = w[j]
            \/ \E j \in DOMAIN c : (w \o c)[i] = c[j]
      /\ /\ Climbing(w)
         /\ \A j, k \in DOMAIN c : Data(c[j]) /\ Data(c[k]) => j = k
         /\ \A i \in DOMAIN w, j \in DOMAIN c : Data(w[i]) /\ Data(c[j]) => w[i].idx <= c[j].idx
         => Climbing(w \o c)
  <2> HIDE DEF w, c
  <2> QED BY <1>3, <1>4, Lengthened
<1>7. OnWire(y) = {w[i] : i \in DOMAIN w} /\ Queued(x) = HeadsOf(q)
  BY DEF OnWire, Queued
<1>8. OnWire(y)' = {(w \o c)[i] : i \in DOMAIN (w \o c)}
  BY <1>5 DEF OnWire
<1> HIDE DEF y, q, c, w
<1>9. OnWire(y)' \subseteq OnWire(y) \cup Queued(x)
  BY <1>4, <1>6, <1>7, <1>8
<1>10. Ordered(x, y) => Ordered(x, y)'
  <2> HAVE Ordered(x, y)
  <2>1. Rising(q) /\ Climbing(w) /\ \A g \in OnWire(y), h \in Queued(x) :
          Data(g) /\ Data(h) => g.idx <= h.idx
    BY DEF Ordered, q, w
  <2>2. Climbing(w \o c)
    BY <1>4, <1>6, <1>7, <2>1
  <2>3. Rising(outPkgs'[x])
    BY <2>1 DEF Shrunk, q
  <2>4. \A g \in OnWire(y)', h \in Queued(x)' : Data(g) /\ Data(h) => g.idx <= h.idx
    <3> SUFFICES ASSUME NEW g \in OnWire(y)', NEW h \in Queued(x)', Data(g), Data(h)
                 PROVE  g.idx <= h.idx
      OBVIOUS
    <3>1. h \in Queued(x)
      BY <1>2
    <3>2. CASE g \in OnWire(y)
      BY <2>1, <3>1, <3>2
    <3>3. CASE \E k \in DOMAIN c : g = c[k]
      BY <1>4, <1>7, <2>1, <3>1, <3>3
    <3> QED BY <1>6, <1>7, <1>8, <3>2, <3>3
  <2>5. (Rising(outPkgs[x]) /\ Climbing(wire[y]))'
    BY <1>5, <2>2, <2>3 DEF Rising, Climbing, Data
  <2> QED BY <2>4, <2>5 DEF Ordered, Data
<1>11. Ordered(y, x) => Ordered(y, x)'
  <2> HAVE Ordered(y, x)
  <2>1. Rising(outPkgs'[y]) /\ Climbing(wire'[x])
    BY DEF Ordered, y
  <2> QED BY <1>2, <2>1, OrderKept
<1>12. Flow(x, y) /\ Still(x, y) /\ Flow(y, x) /\ Still(y, x)
  BY <1>0 DEF FlowInv, y
<1>13. \A h \in Queued(y)' \cup OnWire(x)' : Resp(h) => h \in Queued(y) \cup OnWire(x)
  BY <1>2
<1>14. Flow(x, y)'
  <2>1. \A h \in OnWire(y)' : h \in OnWire(y) \cup Queued(x)
    BY <1>9
  <2> QED BY <1>2, <1>10, <1>12, <1>13, <2>1, FlowKept
<1>15. Flow(y, x)'
  <2>1. \A h \in Queued(x)' \cup OnWire(y)' : Resp(h) => h \in Queued(x) \cup OnWire(y)
    BY <1>2, <1>9
  <2> QED BY <1>2, <1>11, <1>12, <2>1, FlowKept
<1> QED BY <1>1, <1>14, <1>15, FlowsOf DEF y

-----------------------------------------------------------------------------
(* Steps of one flow that number, add or take a package.                   *)

\* A worker numbers a package.
LEMMA NumberStep ==
    ASSUME NEW n, NEW m, Flow(n, m),
           packageIndex[n][Cur] \in Nat, dispatchedPackageIndex[m][Cur] \in Nat,
           \A h \in Queued(n) \cup OnWire(m) \cup Queued(m) \cup OnWire(n) : h.idx \in Nat,
           packageIndex'[n][Cur] = packageIndex[n][Cur] + 1,
           numbered'[n][Cur] = packageIndex[n][Cur] + 1,
           UNCHANGED <<outPkgs, wire, recvVars, histVars>>
    PROVE  Flow(n, m)'
<1> SUFFICES ASSUME created'[Cur] <= 1
             PROVE  /\ Numbers(n, m)' /\ Ordered(n, m)'
                    /\ ~Mixed(m)' => Received(n, m)' /\ Answered(n, m)'
  BY DEF Flow
<1>0. /\ Queued(n)' = Queued(n) /\ OnWire(m)' = OnWire(m)
      /\ Queued(m)' = Queued(m) /\ OnWire(n)' = OnWire(n)
      /\ Given(m)' = Given(m) /\ (~Mixed(m)' => ~Mixed(m))
      /\ created[Cur] <= 1
      /\ dispatchedPackageIndex'[m][Cur] = dispatchedPackageIndex[m][Cur]
      /\ delivered'[m][Cur] = delivered[m][Cur] /\ acked'[n][Cur] = acked[n][Cur]
  BY DEF Queued, HeadsOf, OnWire, Given, Mixed, recvVars, histVars
<1>1. /\ Numbers(n, m) /\ Ordered(n, m)
      /\ ~Mixed(m) => Received(n, m) /\ Answered(n, m)
  BY <1>0 DEF Flow
<1>2. Numbers(n, m)'
  BY <1>0, <1>1 DEF Numbers
<1>3. Ordered(n, m)'
  BY <1>1 DEF Ordered, Rising, Climbing, Queued, HeadsOf, OnWire
<1>4. ASSUME Received(n, m) PROVE Received(n, m)'
  BY <1>0, <1>4 DEF Received
<1>5. ASSUME Answered(n, m) PROVE Answered(n, m)'
  BY <1>0, <1>5 DEF Answered
<1> QED BY <1>0, <1>1, <1>2, <1>3, <1>4, <1>5

\* The package a worker numbered is added to the list.
LEMMA AddStep ==
    ASSUME NEW n, NEW m, Flow(n, m), NEW d \in Heads,
           Data(d), d.idx = numbered[n][Cur], Sending(n), ~Sending(n)',
           packageIndex[n][Cur] \in Nat, numbered[n][Cur] \in Nat,
           dispatchedPackageIndex[m][Cur] \in Nat,
           \A h \in Queued(n) \cup OnWire(m) : h.idx \in Nat,
           Rising(outPkgs[n]) /\ (\A g \in Queued(n) : Data(g) => g.idx < d.idx)
               => Rising(outPkgs'[n]),
           Queued(n)' \subseteq Queued(n) \cup {d},
           \A h \in Queued(m)' : Resp(h) => h \in Queued(m),
           UNCHANGED <<wire, packageIndex, recvVars, histVars>>
    PROVE  Flow(n, m)'
<1> SUFFICES ASSUME created'[Cur] <= 1
             PROVE  /\ Numbers(n, m)' /\ Ordered(n, m)'
                    /\ ~Mixed(m)' => Received(n, m)' /\ Answered(n, m)'
  BY DEF Flow
<1>0. /\ OnWire(m)' = OnWire(m) /\ OnWire(n)' = OnWire(n)
      /\ Given(m)' = Given(m) /\ (~Mixed(m)' => ~Mixed(m))
      /\ created[Cur] <= 1 /\ packageIndex'[n][Cur] = packageIndex[n][Cur]
      /\ dispatchedPackageIndex'[m][Cur] = dispatchedPackageIndex[m][Cur]
      /\ delivered'[m][Cur] = delivered[m][Cur] /\ acked'[n][Cur] = acked[n][Cur]
  BY DEF OnWire, Given, Mixed, recvVars, histVars
<1>1. /\ Numbers(n, m) /\ Ordered(n, m)
      /\ ~Mixed(m) => Received(n, m) /\ Answered(n, m)
  BY <1>0 DEF Flow
<1>2. /\ d.idx \in 1..packageIndex[n][Cur]
      /\ \A h \in Queued(n) \cup OnWire(m) : Data(h) => h.idx < d.idx
      /\ \A h \in Queued(n) \cup OnWire(m) : Free(h) => h.idx # d.idx
      /\ \A h \in Queued(m) \cup OnWire(n) : Resp(h) => h.idx # d.idx
  BY <1>1 DEF Numbers
<1>3. ~Free(d)
  BY DEF Data, Free
<1>4. Numbers(n, m)'
  <2>1. \A h \in (Queued(n) \cup OnWire(m))' : Data(h) \/ Free(h) =>
            h.idx \in 1..packageIndex'[n][Cur]
    BY <1>0, <1>1, <1>2 DEF Numbers
  <2>2. \A h \in (Queued(m) \cup OnWire(n))' : Resp(h) => h.idx \in 1..packageIndex'[n][Cur]
    BY <1>0, <1>1 DEF Numbers
  <2>3. \A g \in (Queued(n) \cup OnWire(m))', h \in Queued(n)' :
            Free(g) /\ Data(h) => g.idx # h.idx
    <3> SUFFICES ASSUME NEW g \in (Queued(n) \cup OnWire(m))', NEW h \in Queued(n)',
                        Free(g), Data(h)
                 PROVE  g.idx # h.idx
      OBVIOUS
    <3>1. g \in Queued(n) \cup OnWire(m)
      BY <1>0, <1>3
    <3>2. h \in Queued(n) \/ h = d
      OBVIOUS
    <3> QED BY <1>1, <1>2, <3>1, <3>2 DEF Numbers
  <2> QED BY <2>1, <2>2, <2>3 DEF Numbers
<1>5. Ordered(n, m)'
  <2>1. (Rising(outPkgs[n]) /\ Climbing(wire[m]))'
    BY <1>1, <1>2 DEF Ordered, Rising, Climbing, Data
  <2>2. \A g \in OnWire(m)', h \in Queued(n)' : Data(g) /\ Data(h) => g.idx <= h.idx
    BY <1>0, <1>1, <1>2 DEF Ordered
  <2> QED BY <2>1, <2>2 DEF Ordered, Data
<1>6. ASSUME Received(n, m) PROVE Received(n, m)'
  <2>1. dispatchedPackageIndex[m][Cur] <= d.idx
    BY <1>6, <1>2 DEF Received
  <2>2. \A h \in (Queued(n) \cup OnWire(m))' : Data(h) => dispatchedPackageIndex[m][Cur] <= h.idx
    BY <1>6, <1>0, <2>1 DEF Received
  <2> QED BY <1>0, <1>6, <2>2 DEF Received
<1>7. ASSUME Answered(n, m) PROVE Answered(n, m)'
  BY <1>0, <1>2, <1>7 DEF Answered
<1> QED BY <1>0, <1>1, <1>4, <1>5, <1>6, <1>7

\* A FREE is added to the list.
LEMMA FreeStep ==
    ASSUME NEW n, NEW m, Flow(n, m),
           packageIndex[n][Cur] \in Nat, numbered[n][Cur] \in Nat,
           dispatchedPackageIndex[m][Cur] \in Nat,
           \A h \in Queued(n) \cup OnWire(m) \cup Queued(m) \cup OnWire(n) : h.idx \in Nat,
           packageIndex'[n][Cur] = packageIndex[n][Cur] + 1,
           numbered'[n][Cur] = numbered[n][Cur], Sending(n)' <=> Sending(n),
           \A h \in Queued(n)' : Data(h) => h \in Queued(n),
           \A h \in Queued(n)' : Free(h) => h \in Queued(n) \/ h.idx = packageIndex[n][Cur] + 1,
           OnWire(m)' = OnWire(m), Ordered(n, m) => Ordered(n, m)',
           \A h \in Queued(m)' \cup OnWire(n)' : Resp(h) => h \in Queued(m) \cup OnWire(n),
           dispatchedPackageIndex'[m][Cur] = dispatchedPackageIndex[m][Cur],
           delivered'[m][Cur] = delivered[m][Cur], reported'[m][Cur] = reported[m][Cur],
           acked'[n][Cur] = acked[n][Cur], m = "host" => resetIO' = resetIO,
           created' = created
    PROVE  Flow(n, m)'
<1> SUFFICES ASSUME created'[Cur] <= 1
             PROVE  /\ Numbers(n, m)' /\ Ordered(n, m)'
                    /\ ~Mixed(m)' => Received(n, m)' /\ Answered(n, m)'
  BY DEF Flow
<1>0. Given(m)' = Given(m) /\ (~Mixed(m)' => ~Mixed(m)) /\ created[Cur] <= 1
  BY DEF Given, Mixed
<1>1. /\ Numbers(n, m) /\ Ordered(n, m)
      /\ ~Mixed(m) => Received(n, m) /\ Answered(n, m)
  BY <1>0 DEF Flow
<1>2. \A h \in Queued(n) \cup OnWire(m) : Data(h) => h.idx <= packageIndex[n][Cur]
  BY <1>1 DEF Numbers
<1>3. Numbers(n, m)'
  <2>1. Sending(n)' => numbered'[n][Cur] \in 1..packageIndex'[n][Cur]
    BY <1>1 DEF Numbers
  <2>2. \A h \in (Queued(n) \cup OnWire(m))' : Data(h) \/ Free(h) =>
            /\ h.idx \in 1..packageIndex'[n][Cur]
            /\ Sending(n)' => h.idx # numbered'[n][Cur]
    <3> SUFFICES ASSUME NEW h \in (Queued(n) \cup OnWire(m))', Data(h) \/ Free(h)
                 PROVE  /\ h.idx \in 1..packageIndex'[n][Cur]
                        /\ Sending(n)' => h.idx # numbered'[n][Cur]
      OBVIOUS
    <3>1. CASE h \in Queued(n) \cup OnWire(m)
      BY <1>1, <3>1 DEF Numbers
    <3>2. CASE h.idx = packageIndex[n][Cur] + 1
      BY <1>1, <3>2 DEF Numbers
    <3> QED BY <3>1, <3>2
  <2>3. \A h \in (Queued(n) \cup OnWire(m))' : Data(h) /\ Sending(n)' => h.idx < numbered'[n][Cur]
    BY <1>1 DEF Numbers
  <2>4. \A h \in (Queued(m) \cup OnWire(n))' : Resp(h) =>
            /\ h.idx \in 1..packageIndex'[n][Cur]
            /\ Sending(n)' => h.idx # numbered'[n][Cur]
    BY <1>1 DEF Numbers
  <2>5. \A g \in (Queued(n) \cup OnWire(m))', h \in Queued(n)' :
            Free(g) /\ Data(h) => g.idx # h.idx
    BY <1>1, <1>2 DEF Numbers
  <2> QED BY <2>1, <2>2, <2>3, <2>4, <2>5 DEF Numbers
<1>4. ASSUME Received(n, m) PROVE Received(n, m)'
  <2>1. \A h \in (Queued(n) \cup OnWire(m))' : Data(h) => h \in Queued(n) \cup OnWire(m)
    OBVIOUS
  <2> QED BY <1>0, <1>4, <2>1 DEF Received
<1>5. ASSUME Answered(n, m) PROVE Answered(n, m)'
  BY <1>0, <1>5 DEF Answered
<1> QED BY <1>0, <1>1, <1>3, <1>4, <1>5

\* m answers data it dispatched before, or a FREE.
LEMMA AckStep ==
    ASSUME NEW n, NEW m, Still(n, m), Flow(n, m), NEW h \in OnWire(m), NEW a,
           a.sid = h.sid, a.idx = h.idx, a.idx \in Nat,
           \/ Data(h) /\ (~Mixed(m) => dispatchedPackageIndex[m][Cur] = h.idx)
           \/ Free(h),
           Queued(n)' = Queued(n), OnWire(m)' \subseteq OnWire(m), OnWire(n)' = OnWire(n),
           \A g \in Queued(m)' : Resp(g) => g \in Queued(m) \cup {a},
           Ordered(n, m) => Ordered(n, m)'
    PROVE  Flow(n, m)'
<1> SUFFICES ASSUME created'[Cur] <= 1
             PROVE  /\ Numbers(n, m)' /\ Ordered(n, m)'
                    /\ ~Mixed(m)' => Received(n, m)' /\ Answered(n, m)'
  BY DEF Flow
<1>0. /\ Sending(n)' <=> Sending(n)
      /\ Given(m)' = Given(m)
      /\ ~Mixed(m)' => ~Mixed(m)
      /\ packageIndex'[n][Cur] = packageIndex[n][Cur]
      /\ numbered'[n][Cur] = numbered[n][Cur]
      /\ dispatchedPackageIndex'[m][Cur] = dispatchedPackageIndex[m][Cur]
      /\ delivered'[m][Cur] = delivered[m][Cur]
      /\ acked'[n][Cur] = acked[n][Cur]
      /\ created[Cur] <= 1
  BY DEF Still, Sending, Given, Mixed
<1>1. /\ Numbers(n, m) /\ Ordered(n, m)
      /\ ~Mixed(m) => Received(n, m) /\ Answered(n, m)
  BY <1>0 DEF Flow
<1>2. /\ h.idx \in 1..packageIndex[n][Cur]
      /\ Sending(n) => h.idx # numbered[n][Cur]
  BY <1>1 DEF Numbers
<1>3. Numbers(n, m)'
  <2>1. \A g \in (Queued(m) \cup OnWire(n))' : Resp(g) =>
            /\ g.idx \in 1..packageIndex[n][Cur]
            /\ Sending(n) => g.idx # numbered[n][Cur]
    BY <1>0, <1>1, <1>2 DEF Numbers
  <2> QED BY <1>0, <1>1, <2>1 DEF Numbers
<1>4. ASSUME Received(n, m) PROVE Received(n, m)'
  BY <1>0, <1>4 DEF Received
<1>5. ASSUME Received(n, m), Answered(n, m), ~Mixed(m) PROVE Answered(n, m)'
  <2>1. \A g \in Queued(n) : Data(g) /\ g.idx = h.idx => h.idx \in Given(m)
    <3>1. CASE Data(h)
      <4>1. dispatchedPackageIndex[m][Cur] = h.idx
        BY <1>5, <3>1 DEF Data, Free
      <4>2. h.idx # 0
        BY <1>2
      <4> QED BY <1>5, <4>1, <4>2 DEF Received
    <3>2. CASE Free(h)
      BY <1>1, <3>2 DEF Numbers
    <3> QED BY <3>1, <3>2
  <2> QED BY <1>0, <1>5, <2>1 DEF Answered
<1> QED BY <1>0, <1>1, <1>3, <1>4, <1>5

\* m dispatches data.
LEMMA GotStep ==
    ASSUME NEW n, NEW m, Flow(n, m), NEW h \in OnWire(m), Data(h), NEW a,
           a.sid = h.sid, a.idx = h.idx, h.idx \in Nat,
           \A g \in OnWire(m)' : Data(g) => h.idx <= g.idx,
           Queued(n)' = Queued(n), OnWire(m)' \subseteq OnWire(m), OnWire(n)' = OnWire(n),
           \A g \in Queued(m)' : Resp(g) => g \in Queued(m) \cup {a},
           Ordered(n, m) => Ordered(n, m)',
           packageIndex[n][Cur] \in Nat, numbered[n][Cur] \in Nat,
           dispatchedPackageIndex[m][Cur] \in Nat,
           delivered[m][Cur] \in Seq(Nat),
           dispatchedPackageIndex[m][Cur] # h.idx \/ delivered[m][Cur] = <<>>,
           packageIndex'[n][Cur] = packageIndex[n][Cur],
           numbered'[n][Cur] = numbered[n][Cur], Sending(n)' <=> Sending(n),
           dispatchedPackageIndex'[m][Cur] = h.idx,
           \/ /\ delivered'[m][Cur] = Append(delivered[m][Cur], h.idx)
              /\ reported'[m][Cur] = reported[m][Cur]
           \/ /\ delivered'[m][Cur] = delivered[m][Cur]
              /\ reported'[m][Cur] = reported[m][Cur] \cup {h.idx},
           acked'[n][Cur] = acked[n][Cur], resetIO' = resetIO,
           created'[Cur] <= 1 => created[Cur] <= 1
    PROVE  Flow(n, m)'
<1> SUFFICES ASSUME created'[Cur] <= 1
             PROVE  /\ Numbers(n, m)' /\ Ordered(n, m)'
                    /\ ~Mixed(m)' => Received(n, m)' /\ Answered(n, m)'
  BY DEF Flow
<1> DEFINE got  == delivered[m][Cur]
           got1 == delivered'[m][Cur]
           last == dispatchedPackageIndex[m][Cur]
<1>0. ~Mixed(m)' => ~Mixed(m)
  BY DEF Mixed
<1>1. /\ Numbers(n, m) /\ Ordered(n, m)
      /\ ~Mixed(m) => Received(n, m) /\ Answered(n, m)
  BY DEF Flow
<1>2. /\ h.idx \in 1..packageIndex[n][Cur]
      /\ Sending(n) => h.idx < numbered[n][Cur]
      /\ \A g \in Queued(n) : Data(g) => h.idx <= g.idx
  BY <1>1 DEF Numbers, Ordered
<1>3. Numbers(n, m)'
  <2>1. \A g \in (Queued(m) \cup OnWire(n))' : Resp(g) =>
            /\ g.idx \in 1..packageIndex[n][Cur]
            /\ Sending(n) => g.idx # numbered[n][Cur]
    BY <1>1, <1>2 DEF Numbers
  <2> QED BY <1>1, <2>1 DEF Numbers
<1>4. /\ Len(got) \in Nat /\ DOMAIN got = 1..Len(got)
      /\ \A i \in DOMAIN got : i \in Nat /\ got[i] \in Nat
  BY SeqFacts
<1>5. /\ Given(m) \subseteq Given(m)' /\ h.idx \in Given(m)'
      /\ \/ got1 = got
         \/ /\ DOMAIN got1 = 1..(Len(got) + 1)
            /\ \A i \in DOMAIN got : got1[i] = got[i]
            /\ got1[Len(got) + 1] = h.idx
  <2>1. CASE got1 = Append(got, h.idx) /\ reported'[m][Cur] = reported[m][Cur]
    <3>1. /\ DOMAIN got1 = 1..(Len(got) + 1)
          /\ \A i \in DOMAIN got : got1[i] = got[i]
          /\ got1[Len(got) + 1] = h.idx
      BY <2>1, <1>4
    <3>2. \A i \in DOMAIN got : i \in DOMAIN got1
      BY <3>1, <1>4
    <3>3. Len(got) + 1 \in DOMAIN got1
      BY <3>1, <1>4
    <3>4. /\ Given(m) = {got[i] : i \in DOMAIN got} \cup reported[m][Cur]
          /\ Given(m)' = {got1[i] : i \in DOMAIN got1} \cup reported'[m][Cur]
      BY DEF Given, ToSet
    <3> HIDE DEF got, got1
    <3> QED BY <2>1, <3>1, <3>2, <3>3, <3>4
  <2>2. CASE got1 = got /\ reported'[m][Cur] = reported[m][Cur] \cup {h.idx}
    BY <2>2 DEF Given
  <2> QED BY <2>1, <2>2
<1>6. ASSUME Received(n, m) PROVE Received(n, m)'
  <2>1. last <= h.idx /\ last <= packageIndex[n][Cur]
    BY <1>6 DEF Received
  <2>2. /\ \A i \in DOMAIN got : got[i] <= last
        /\ \A i, j \in DOMAIN got : i < j => got[i] < got[j]
    BY <1>6 DEF Received
  <2>3. \A i \in DOMAIN got : got[i] < h.idx
    <3>1. CASE got = <<>>
      BY <3>1, <1>4
    <3>2. CASE last # h.idx
      <4>1. last < h.idx
        BY <3>2, <2>1
      <4> HIDE DEF got, last
      <4>2. last \in Nat
        BY DEF last
      <4> QED BY <4>1, <4>2, <2>2, <1>4
    <3> QED BY <3>1, <3>2
  <2>4. /\ \A i \in DOMAIN got1 : got1[i] <= h.idx
        /\ \A i, j \in DOMAIN got1 : i < j => got1[i] < got1[j]
    <3>1. CASE got1 = got
      <4> HIDE DEF got, got1
      <4> QED BY <3>1, <2>2, <2>3, <1>4
    <3>2. CASE /\ DOMAIN got1 = 1..(Len(got) + 1)
               /\ \A i \in DOMAIN got : got1[i] = got[i]
               /\ got1[Len(got) + 1] = h.idx
      <4> HIDE DEF got, got1
      <4>1. \A i \in DOMAIN got1 : i \in DOMAIN got \/ i = Len(got) + 1
        BY <3>2, <1>4
      <4>2. \A i, j \in DOMAIN got1 : i < j => i \in DOMAIN got
        BY <3>2, <1>4
      <4>3. \A i \in DOMAIN got1 : got1[i] <= h.idx
        BY <3>2, <4>1, <2>3, <1>4
      <4>4. \A i, j \in DOMAIN got1 : i < j => got1[i] < got1[j]
        BY <3>2, <4>1, <4>2, <2>2, <2>3
      <4> QED BY <4>3, <4>4
    <3> QED BY <1>5, <3>1, <3>2
  <2>5. \A g \in (Queued(n) \cup OnWire(m))' : Data(g) => h.idx <= g.idx
    BY <1>2
  <2> QED BY <1>2, <1>5, <2>4, <2>5 DEF Received
<1>7. ASSUME Answered(n, m) PROVE Answered(n, m)'
  BY <1>5, <1>7 DEF Answered
<1> QED BY <1>0, <1>1, <1>3, <1>6, <1>7

-----------------------------------------------------------------------------
(* Actions that lose packages, and the write thread.                       *)

\* A step that creates and delivers nothing keeps EndsInv.
LEMMA EndsKept ==
    ASSUME EndsInv,
           \A n \in Nodes, s \in Sessions :
              /\ session[n][s] = "none" => session'[n][s] = "none"
              /\ caller[n][s] = "idle" => caller'[n][s] = "idle",
           UNCHANGED <<created, delivered>>,
           \/ packageIndex'["daemon"][Cur] = packageIndex["daemon"][Cur]
           \/ session["daemon"][Cur] # "none",
           \A h \in Queued("host")' \cup OnWire("daemon")' : h.kind = "data" => h.sid = Cur
    PROVE  EndsInv'
BY DEF EndsInv, Nodes, Sessions

\* Nothing is added, so the server's data are still those of its session.
LEMMA QuietHeads ==
    ASSUME EndsInv, \A n \in Nodes : /\ Shrunk(outPkgs'[n], outPkgs[n])
                                     /\ WireShrunk(wire'[n], wire[n])
    PROVE  \A h \in Queued("host")' \cup OnWire("daemon")' : h.kind = "data" => h.sid = Cur
<1>1. Queued("host")' \subseteq Queued("host")
  BY DEF Nodes, Shrunk, Queued, HeadsOf
<1>2. OnWire("daemon")' \subseteq OnWire("daemon")
  BY DEF Nodes, WireShrunk, OnWire
<1> QED BY <1>1, <1>2 DEF EndsInv

\* FreeSession makes no session known.
LEMMA FreedNone ==
    ASSUME TypeOK, NEW n \in Nodes, NEW s, FreeSession(n, s)
    PROVE  \A m \in Nodes, t \in Sessions : session[m][t] = "none" => session'[m][t] = "none"
BY DEF TypeOK, FreeSession

\* A step that drops packages and leaves the rest of both flows alone.
LEMMA QuietAct ==
    ASSUME IInv,
           \A n \in Nodes : /\ Shrunk(outPkgs'[n], outPkgs[n])
                            /\ WireShrunk(wire'[n], wire[n]),
           \A n \in Nodes, s \in Sessions :
              /\ session[n][s] = "none" => session'[n][s] = "none"
              /\ (caller'[n][s] = "idle") <=> (caller[n][s] = "idle"),
           UNCHANGED <<indexVars, recvVars, histVars>>
    PROVE  ListInv' /\ FlowInv' /\ EndsInv'
<1>1. \A n \in Nodes : Still(n, Peer(n))
  BY CurSession DEF Still, indexVars, recvVars, histVars
<1>2. ListInv' /\ FlowInv'
  BY <1>1, QuietStep DEF IInv
<1>3. EndsInv'
  BY QuietHeads, EndsKept DEF IInv, indexVars, recvVars, histVars
<1> QED BY <1>2, <1>3

\* A list that loses packages, beside the one that stays.
LEMMA ListDrop ==
    ASSUME TypeOK, NEW n \in Nodes, NEW r, outPkgs' = [outPkgs EXCEPT ![n] = r],
           Shrunk(r, outPkgs[n])
    PROVE  \A m \in Nodes : Shrunk(outPkgs'[m], outPkgs[m])
BY ListChange, ShrunkSelf, PeerNode

\* ClearUARTOutMap drops packages and makes no worker idle or busy.
LEMMA Cleared ==
    ASSUME TypeOK, NEW n \in Nodes, NEW s, NEW q \in Seq(Pkgs), Shrunk(q, outPkgs[n]),
           ClearUARTOutMap(n, q, s)
    PROVE  /\ \A m \in Nodes : Shrunk(outPkgs'[m], outPkgs[m])
           /\ \A m \in Nodes, t \in Sessions :
                 (caller'[m][t] = "idle") <=> (caller[m][t] = "idle")
<1>1. Shrunk(Without(q, s), outPkgs[n])
  BY WithoutList DEF Shrunk
<1>2. \A m \in Nodes : Shrunk(outPkgs'[m], outPkgs[m])
  BY <1>1, ListDrop DEF ClearUARTOutMap
<1>3. \A m \in Nodes, t \in Sessions :
        (caller'[m][t] = "idle") <=> (caller[m][t] = "idle")
  BY SlotsFreed DEF ClearUARTOutMap
<1> QED BY <1>2, <1>3

\* Wires that stay lose nothing.
LEMMA SameWires == ASSUME UNCHANGED wire PROVE \A n \in Nodes : WireShrunk(wire'[n], wire[n])
BY ShrunkSelf

\* Lists that stay lose nothing.
LEMMA SameLists ==
    ASSUME UNCHANGED outPkgs PROVE \A n \in Nodes : Shrunk(outPkgs'[n], outPkgs[n])
BY ShrunkSelf

\* ReadFails keeps the invariant.
LEMMA ReadFailsStep == IInv /\ ReadFails => ListInv' /\ FlowInv' /\ EndsInv'
<1> SUFFICES ASSUME IInv, ReadFails PROVE ListInv' /\ FlowInv' /\ EndsInv'
  OBVIOUS
<1>0. TypeOK /\ "host" \in Nodes
  BY DEF IInv, Nodes
<1>1. /\ FreeSession("host", Cur) /\ ClearUARTOutMap("host", outPkgs["host"], Cur)
      /\ UNCHANGED <<indexVars, recvVars, wire, histVars>>
  BY DEF ReadFails, OnTransferError
<1>2. outPkgs["host"] \in Seq(Pkgs) /\ Shrunk(outPkgs["host"], outPkgs["host"])
  BY <1>0, ShrunkSelf DEF TypeOK
<1>3. /\ \A m \in Nodes : Shrunk(outPkgs'[m], outPkgs[m])
      /\ \A m \in Nodes, t \in Sessions : (caller'[m][t] = "idle") <=> (caller[m][t] = "idle")
  BY <1>0, <1>1, <1>2, Cleared
<1> QED BY <1>0, <1>1, <1>3, FreedNone, SameWires, QuietAct

\* WriteInLoopFails keeps the invariant.
LEMMA WriteInLoopFailsStep ==
    ASSUME IInv, NEW n \in Nodes, WriteInLoopFails(n)
    PROVE  ListInv' /\ FlowInv' /\ EndsInv'
<1>0. TypeOK
  BY DEF IInv
<1>1. /\ FreeSession(n, Cur) /\ ClearUARTOutMap(n, outPkgs[n], Cur)
      /\ UNCHANGED <<indexVars, recvVars, wire, histVars>>
  BY DEF WriteInLoopFails, OnTransferError
<1>2. outPkgs[n] \in Seq(Pkgs) /\ Shrunk(outPkgs[n], outPkgs[n])
  BY <1>0, ShrunkSelf DEF TypeOK
<1>3. /\ \A m \in Nodes : Shrunk(outPkgs'[m], outPkgs[m])
      /\ \A m \in Nodes, t \in Sessions : (caller'[m][t] = "idle") <=> (caller[m][t] = "idle")
  BY <1>0, <1>1, <1>2, Cleared
<1> QED BY <1>0, <1>1, <1>3, FreedNone, SameWires, QuietAct

\* Late keeps the invariant.
LEMMA LateStep ==
    ASSUME IInv, NEW n \in Nodes, Late(n)
    PROVE  ListInv' /\ FlowInv' /\ EndsInv'
<1>0. TypeOK
  BY DEF IInv
<1>1. PICK i \in DOMAIN outPkgs[n] : outPkgs' = [outPkgs EXCEPT ![n][i].late = TRUE]
  BY DEF Late
<1> DEFINE q == outPkgs[n]
           r == [q EXCEPT ![i] = [q[i] EXCEPT !.late = TRUE]]
<1>2. outPkgs' = [outPkgs EXCEPT ![n] = r]
  BY <1>1
<1>3. DOMAIN r = DOMAIN q /\ \A j \in DOMAIN q : q[j] \in Pkgs
  BY <1>0, SeqFacts DEF TypeOK
<1>4. \A j \in DOMAIN q : r[j].head = q[j].head /\ r[j].status = q[j].status
  BY <1>3 DEF Pkgs
<1> HIDE DEF r
<1>5. Shrunk(r, q)
  BY <1>3, <1>4 DEF Shrunk, HeadsOf, FirstWaits, Rising, IsResponse, Waiting
<1>6. \A m \in Nodes : Shrunk(outPkgs'[m], outPkgs[m])
  BY <1>0, <1>2, <1>5, ListDrop
<1> QED BY <1>6, SameWires, QuietAct DEF Late

\* Lose keeps the invariant.
LEMMA LoseStep ==
    ASSUME IInv, NEW n \in Nodes, Lose(n)
    PROVE  ListInv' /\ FlowInv' /\ EndsInv'
<1>0. wire \in [Nodes -> Seq(Heads)]
  BY DEF IInv, TypeOK
<1>1. WireShrunk(Tail(wire[n]), wire[n])
  BY <1>0, RestOfWire DEF Lose, WireShrunk
<1>2. \A m \in Nodes : WireShrunk(wire'[m], wire[m])
  BY <1>0, <1>1, ShrunkSelf DEF Lose
<1> QED BY <1>2, SameLists, QuietAct DEF Lose, listVars

\* WakeUp keeps the invariant.
LEMMA WakeUpStep ==
    ASSUME IInv, NEW n \in Nodes, NEW s \in Sessions, WakeUp(n, s)
    PROVE  ListInv' /\ FlowInv' /\ EndsInv'
<1>0. TypeOK
  BY DEF IInv
<1>1. caller[n][s] # "idle" /\ caller'[n][s] # "idle"
  BY <1>0, WaitType DEF WakeUp
<1>2. \A m \in Nodes, t \in Sessions : (caller'[m][t] = "idle") <=> (caller[m][t] = "idle")
  BY <1>0, <1>1, WaitType DEF WakeUp
<1> QED BY <1>2, SameWires, SameLists, QuietAct DEF WakeUp

\* StopSession keeps the invariant.
LEMMA StopSessionStep ==
    ASSUME IInv, NEW n \in Nodes, NEW s \in Sessions, StopSession(n, s)
    PROVE  ListInv' /\ FlowInv' /\ EndsInv'
<1>0. TypeOK
  BY DEF IInv
<1>1. /\ ClearUARTOutMap(n, outPkgs[n], s)
      /\ UNCHANGED <<indexVars, recvVars, wire, histVars>>
  BY DEF StopSession
<1>2. outPkgs[n] \in Seq(Pkgs) /\ Shrunk(outPkgs[n], outPkgs[n])
  BY <1>0, ShrunkSelf DEF TypeOK
<1>3. /\ \A m \in Nodes : Shrunk(outPkgs'[m], outPkgs[m])
      /\ \A m \in Nodes, t \in Sessions : (caller'[m][t] = "idle") <=> (caller[m][t] = "idle")
  BY <1>0, <1>1, <1>2, Cleared
<1>4. \A m \in Nodes, t \in Sessions : session[m][t] = "none" => session'[m][t] = "none"
  BY <1>0 DEF StopSession, TypeOK
<1> QED BY <1>1, <1>3, <1>4, SameWires, QuietAct

\* RemoveSession keeps the invariant.
LEMMA RemoveSessionStep ==
    ASSUME IInv, NEW n \in Nodes, NEW s \in Sessions, RemoveSession(n, s)
    PROVE  ListInv' /\ FlowInv' /\ EndsInv'
<1>1. \A m \in Nodes, t \in Sessions : session[m][t] = "none" => session'[m][t] = "none"
  BY DEF RemoveSession, IInv, TypeOK
<1> QED BY <1>1, SameWires, SameLists, QuietAct DEF RemoveSession, listVars

\* The write thread.
LEMMA SendAct ==
    ASSUME IInv, NEW n \in Nodes, SendPkgs(n),
           Shrunk(outPkgs'[n], outPkgs[n]), outPkgs'[Peer(n)] = outPkgs[Peer(n)],
           \A m \in Nodes, s \in Sessions :
              /\ session[m][s] = "none" => session'[m][s] = "none"
              /\ (caller'[m][s] = "idle") <=> (caller[m][s] = "idle")
    PROVE  ListInv' /\ FlowInv' /\ EndsInv'
<1>0. /\ TypeOK /\ ListInv /\ FlowInv /\ EndsInv
      /\ Peer(n) \in Nodes /\ Peer(n) # n /\ Peer(Peer(n)) = n
  BY PeerNode DEF IInv
<1>1. \A m \in Nodes : Still(m, Peer(m))
  BY CurSession DEF Still, SendPkgs, indexVars, recvVars, histVars
<1>2. /\ wire'[Peer(n)] = wire[Peer(n)] \o OnCable(n, outPkgs[n])
      /\ wire'[n] = wire[n]
  BY <1>0 DEF SendPkgs, TypeOK
<1>3. ListInv' /\ FlowInv'
  BY <1>0, <1>1, <1>2, SendStep
<1>4. \A h \in Queued("host")' \cup OnWire("daemon")' : h.kind = "data" => h.sid = Cur
  <2>1. CASE n = "host"
    <3>1. Queued("host")' \subseteq Queued("host")
      BY <2>1 DEF Queued, HeadsOf, Shrunk
    <3>2. OnWire("daemon")' \subseteq OnWire("daemon") \cup Queued("host")
      <4> DEFINE w == wire["daemon"]
                 c == OnCable("host", outPkgs["host"])
      <4>1. w \in Seq(Heads) /\ outPkgs["host"] \in Seq(Pkgs)
        BY <1>0 DEF TypeOK, Nodes
      <4>2. c \in Seq(Heads) /\ \A k \in DOMAIN c : c[k] \in Queued("host")
        BY <4>1, CableSeq DEF Queued
      <4>3. wire'["daemon"] = w \o c
        BY <1>2, <2>1 DEF Peer
      <4>4. OnWire("daemon")' = {(w \o c)[i] : i \in DOMAIN (w \o c)}
        BY <4>3 DEF OnWire
      <4>5. OnWire("daemon") = {w[i] : i \in DOMAIN w}
        BY DEF OnWire
      <4> HIDE DEF w, c
      <4>6. \A i \in DOMAIN (w \o c) : \/ \E j \in DOMAIN w : (w \o c)[i] = w[j]
                                      \/ \E j \in DOMAIN c : (w \o c)[i] = c[j]
        BY <4>1, <4>2, Lengthened
      <4> QED BY <4>2, <4>4, <4>5, <4>6
    <3> QED BY <3>1, <3>2, <1>0 DEF EndsInv
  <2>2. CASE n = "daemon"
    <3>1. Queued("host")' = Queued("host") /\ OnWire("daemon")' = OnWire("daemon")
      BY <2>2, <1>2 DEF Peer, Queued, HeadsOf, OnWire
    <3> QED BY <3>1, <1>0 DEF EndsInv
  <2> QED BY <2>1, <2>2 DEF Nodes
<1>5. EndsInv'
  BY <1>0, <1>4, EndsKept DEF SendPkgs, indexVars, recvVars, histVars
<1> QED BY <1>3, <1>5

\* The loop of the write thread leaves a part of the list.
LEMMA LoopShrunk == ASSUME TypeOK, NEW n \in Nodes
                    PROVE  /\ AfterLoop(outPkgs[n]) \in Seq(Pkgs)
                           /\ Shrunk(AfterLoop(outPkgs[n]), outPkgs[n])
BY LoopList DEF TypeOK, Shrunk

\* A loop that ends, or is to start anew, keeps the invariant.
LEMMA SendLoopStep ==
    ASSUME IInv, NEW n \in Nodes, SendPkgInUARTOutMap(n) \/ Resend(n)
    PROVE  ListInv' /\ FlowInv' /\ EndsInv'
<1>0. TypeOK /\ Peer(n) \in Nodes /\ Peer(n) # n
  BY PeerNode DEF IInv
<1>1. outPkgs' = [outPkgs EXCEPT ![n] = AfterLoop(outPkgs[n])]
  BY DEF SendPkgInUARTOutMap, Resend
<1>2. Shrunk(outPkgs'[n], outPkgs[n]) /\ outPkgs'[Peer(n)] = outPkgs[Peer(n)]
  BY <1>0, <1>1, ListChange, LoopShrunk
<1> QED BY <1>2, SendAct DEF SendPkgInUARTOutMap, Resend

\* GiveUp keeps the invariant.
LEMMA GiveUpStep ==
    ASSUME IInv, NEW n \in Nodes, GiveUp(n)
    PROVE  ListInv' /\ FlowInv' /\ EndsInv'
<1> DEFINE q == outPkgs[n]
           s == q[Break(q)].head.sid
<1>0. TypeOK /\ Peer(n) \in Nodes /\ Peer(n) # n /\ SendPkgs(n)
  BY PeerNode DEF IInv, GiveUp
<1>1. CASE OnTransferError(n, s, AfterLoop(q))
  <2> HIDE DEF s
  <2>1. FreeSession(n, s) /\ ClearUARTOutMap(n, AfterLoop(q), s)
    BY <1>1 DEF OnTransferError
  <2>2. /\ \A m \in Nodes : Shrunk(outPkgs'[m], outPkgs[m])
        /\ \A m \in Nodes, t \in Sessions : (caller'[m][t] = "idle") <=> (caller[m][t] = "idle")
    BY <1>0, <2>1, LoopShrunk, Cleared
  <2>3. outPkgs'[Peer(n)] = outPkgs[Peer(n)]
    BY <1>0, <2>1, ListChange DEF ClearUARTOutMap
  <2> QED BY <1>0, <2>1, <2>2, <2>3, FreedNone, SendAct
<1>2. CASE /\ outPkgs' = [outPkgs EXCEPT ![n] = AfterLoop(q)]
           /\ UNCHANGED <<session, portOpen, slots, caller>>
  <2>1. Shrunk(outPkgs'[n], outPkgs[n]) /\ outPkgs'[Peer(n)] = outPkgs[Peer(n)]
    BY <1>0, <1>2, ListChange, LoopShrunk
  <2> QED BY <1>0, <1>2, <2>1, SendAct
<1> QED BY <1>1, <1>2 DEF GiveUp

-----------------------------------------------------------------------------
(* The read thread.                                                        *)

\* The next package leaves the wire.
LEMMA TakenWire ==
    ASSUME TypeOK, NEW n \in Nodes, NEW k, Take(n, k)
    PROVE  /\ Head(wire[n]) \in Heads /\ Head(wire[n]).kind = k
           /\ Head(wire[n]).sid \in Sessions /\ Head(wire[n]).idx \in Nat
           /\ Head(wire[n]) \in OnWire(n)
           /\ OnWire(n)' \subseteq OnWire(n) /\ OnWire(Peer(n))' = OnWire(Peer(n))
           /\ WireShrunk(wire'[n], wire[n]) /\ wire'[Peer(n)] = wire[Peer(n)]
           /\ Climbing(wire[n]) /\ Data(Head(wire[n]))
                => \A g \in OnWire(n)' : Data(g) => Head(wire[n]).idx <= g.idx
<1> DEFINE h == Head(wire[n])
           w == wire[n]
<1>1. /\ h \in Heads /\ h.kind = k /\ h \in OnWire(n)
      /\ wire'[n] = Tail(w) /\ wire'[Peer(n)] = wire[Peer(n)]
  BY Taken
<1>2. h.sid \in Sessions /\ h.idx \in Nat
  BY <1>1 DEF Heads
<1>3. w \in Seq(Heads) /\ w # <<>>
  BY DEF TypeOK, Take
<1>4. /\ \A i \in DOMAIN Tail(w) : \E j \in DOMAIN w : Tail(w)[i] = w[j]
      /\ Climbing(w) => Climbing(Tail(w))
      /\ Climbing(w) /\ Data(h)
           => \A i \in DOMAIN Tail(w) : Data(Tail(w)[i]) => h.idx <= Tail(w)[i].idx
  BY <1>3, RestOfWire
<1>5. OnWire(n)' = {Tail(w)[i] : i \in DOMAIN Tail(w)} /\ OnWire(n) = {w[i] : i \in DOMAIN w}
  BY <1>1 DEF OnWire
<1>6. OnWire(Peer(n))' = OnWire(Peer(n))
  BY <1>1 DEF OnWire
<1> HIDE DEF h, w
<1>7. OnWire(n)' \subseteq OnWire(n) /\ WireShrunk(wire'[n], w)
  BY <1>1, <1>4, <1>5 DEF WireShrunk
<1>8. Climbing(w) /\ Data(h) => \A g \in OnWire(n)' : Data(g) => h.idx <= g.idx
  BY <1>4, <1>5
<1> QED BY <1>1, <1>2, <1>6, <1>7, <1>8 DEF h, w

\* A list with one more package that is no data.
LEMMA AddedOther ==
    ASSUME NEW q \in Seq(Pkgs), NEW a \in Heads, a.kind # "data"
    PROVE  /\ AddPkg(q, a) \in Seq(Pkgs)
           /\ HeadsOf(AddPkg(q, a)) \subseteq HeadsOf(q) \cup {a}
           /\ FirstWaits(q) => FirstWaits(AddPkg(q, a))
           /\ Rising(q) => Rising(AddPkg(q, a))
BY AddedList DEF Data

\* The read thread of n took a package, and left the list r, with no new data.
LEMMA ReadStep ==
    ASSUME TypeOK, ListInv, NEW n \in Nodes, NEW k, Take(n, k), NEW r,
           outPkgs' = [outPkgs EXCEPT ![n] = r],
           FirstWaits(outPkgs[n]) => FirstWaits(r), Rising(outPkgs[n]) => Rising(r),
           \A h \in HeadsOf(r) : h.kind = "data" => h \in Queued(n)
    PROVE  /\ ListInv'
           /\ Queued(n)' = HeadsOf(r) /\ Queued(Peer(n))' = Queued(Peer(n))
           /\ Ordered(n, Peer(n)) => Ordered(n, Peer(n))'
           /\ Ordered(Peer(n), n) => Ordered(Peer(n), n)'
           /\ EndsInv => \A h \in Queued("host")' \cup OnWire("daemon")' :
                            h.kind = "data" => h.sid = Cur
<1> DEFINE m == Peer(n)
<1>0. m \in Nodes /\ Nodes = {n, m}
  BY PeerNode
<1>1. /\ outPkgs'[n] = r /\ outPkgs'[m] = outPkgs[m]
      /\ Queued(n)' = HeadsOf(r) /\ Queued(m)' = Queued(m)
  BY ListChange
<1>2. /\ OnWire(n)' \subseteq OnWire(n) /\ OnWire(m)' = OnWire(m)
      /\ WireShrunk(wire'[n], wire[n]) /\ wire'[m] = wire[m]
  BY TakenWire
<1>3. ListInv'
  BY <1>0, <1>1, ListsOf DEF ListInv
<1> HIDE DEF m
<1>4. Ordered(n, m) => Ordered(n, m)'
  <2> HAVE Ordered(n, m)
  <2>1. Rising(outPkgs'[n]) /\ Climbing(wire'[m])
    BY <1>1, <1>2 DEF Ordered
  <2>2. /\ \A h \in Queued(n)' : Data(h) => h \in Queued(n)
        /\ \A h \in OnWire(m)' : Data(h) => h \in OnWire(m)
    BY <1>1, <1>2 DEF Data
  <2> QED BY <2>1, <2>2, OrderKept
<1>5. Ordered(m, n) => Ordered(m, n)'
  <2> HAVE Ordered(m, n)
  <2>1. Rising(outPkgs'[m]) /\ Climbing(wire'[n])
    BY <1>1, <1>2 DEF Ordered, WireShrunk
  <2>2. /\ \A h \in Queued(m)' : Data(h) => h \in Queued(m)
        /\ \A h \in OnWire(n)' : Data(h) => h \in OnWire(n)
    BY <1>1, <1>2
  <2> QED BY <2>1, <2>2, OrderKept
<1>6. ASSUME EndsInv
      PROVE  \A h \in Queued("host")' \cup OnWire("daemon")' : h.kind = "data" => h.sid = Cur
  <2>1. \A x \in {n, m} : \A h \in Queued(x)' : h.kind = "data" => h \in Queued(x)
    BY <1>1
  <2>2. \A x \in {n, m} : OnWire(x)' \subseteq OnWire(x)
    BY <1>2
  <2>3. "host" \in {n, m} /\ "daemon" \in {n, m}
    BY <1>0 DEF Nodes
  <2> QED BY <1>6, <2>1, <2>2, <2>3 DEF EndsInv
<1> QED BY <1>1, <1>3, <1>4, <1>5, <1>6 DEF m

\* A package is answered that was dispatched before, or has nothing to dispatch.
LEMMA AnswerStep ==
    ASSUME IInv, NEW n \in Nodes, NEW k, Take(n, k),
           NEW q \in Seq(Pkgs), Shrunk(q, outPkgs[n]),
           outPkgs' = [outPkgs EXCEPT ![n] = AddPkg(q, Ack(Head(wire[n])))],
           \A x \in Nodes, s \in Sessions :
              /\ session[x][s] = "none" => session'[x][s] = "none"
              /\ (caller'[x][s] = "idle") <=> (caller[x][s] = "idle"),
           UNCHANGED <<indexVars, recvVars, histVars>>,
           Head(wire[n]).sid = Cur =>
              \/ Data(Head(wire[n])) /\ dispatchedPackageIndex[n][Cur] = Head(wire[n]).idx
              \/ Free(Head(wire[n]))
    PROVE  ListInv' /\ FlowInv' /\ EndsInv'
<1> DEFINE m == Peer(n)
           h == Head(wire[n])
           a == Ack(h)
           r == AddPkg(q, a)
<1>0. /\ TypeOK /\ ListInv /\ FlowInv /\ EndsInv
      /\ m \in Nodes /\ m # n /\ Peer(m) = n
  BY PeerNode DEF IInv
<1>1. /\ h \in Heads /\ h \in OnWire(n) /\ h.idx \in Nat
      /\ OnWire(n)' \subseteq OnWire(n) /\ OnWire(m)' = OnWire(m)
  BY <1>0, TakenWire
<1>2. a \in Heads /\ a.kind = "ack" /\ a.sid = h.sid /\ a.idx = h.idx
  BY <1>1, AckType
<1>3. /\ r \in Seq(Pkgs) /\ HeadsOf(r) \subseteq HeadsOf(q) \cup {a}
      /\ FirstWaits(q) => FirstWaits(r)
      /\ Rising(q) => Rising(r)
  BY <1>2, AddedOther
<1>4. /\ HeadsOf(q) \subseteq Queued(n)
      /\ FirstWaits(outPkgs[n]) => FirstWaits(r)
      /\ Rising(outPkgs[n]) => Rising(r)
  BY <1>3 DEF Shrunk, Queued
<1>5. \A g \in HeadsOf(r) : g \in Queued(n) \/ g = a
  BY <1>3, <1>4
<1>6. \A g \in HeadsOf(r) : g.kind = "data" => g \in Queued(n)
  BY <1>2, <1>5
<1>7. outPkgs' = [outPkgs EXCEPT ![n] = r]
  OBVIOUS
<1>8. Still(n, m) /\ Still(m, n)
  BY <1>0, CurSession DEF Still, indexVars, recvVars, histVars
<1>9. Flow(n, m) /\ Flow(m, n)
  BY <1>0 DEF FlowInv
<1> HIDE DEF m, h, a, r
<1>10. /\ ListInv'
       /\ Queued(n)' = HeadsOf(r) /\ Queued(m)' = Queued(m)
       /\ Ordered(n, m) => Ordered(n, m)'
       /\ Ordered(m, n) => Ordered(m, n)'
       /\ \A g \in Queued("host")' \cup OnWire("daemon")' : g.kind = "data" => g.sid = Cur
  BY <1>0, <1>4, <1>6, <1>7, ReadStep DEF m
<1>11. Flow(n, m)'
  <2>1. \A g \in Queued(n)' : Data(g) \/ Free(g) => g \in Queued(n)
    BY <1>2, <1>5, <1>10 DEF Data, Free
  <2> QED BY <1>1, <1>8, <1>9, <1>10, <2>1, FlowKept
<1>12. Flow(m, n)'
  <2>1. CASE h.sid = Cur
    <3>1. \/ Data(h) /\ dispatchedPackageIndex[n][Cur] = h.idx
          \/ Free(h)
      BY <2>1 DEF h
    <3>2. \A g \in Queued(n)' : Resp(g) => g \in Queued(n) \cup {a}
      BY <1>5, <1>10
    <3> QED BY <1>1, <1>2, <1>8, <1>9, <1>10, <3>1, <3>2, AckStep
  <2>2. CASE h.sid # Cur
    <3>1. \A g \in Queued(n)' : Resp(g) => g \in Queued(n)
      BY <1>2, <1>5, <1>10, <2>2 DEF Resp
    <3> QED BY <1>1, <1>8, <1>9, <1>10, <3>1, FlowKept
  <2> QED BY <2>1, <2>2
<1>13. EndsInv'
  BY <1>0, <1>10, EndsKept DEF indexVars, histVars
<1> QED BY <1>10, <1>11, <1>12, <1>13, FlowsOf DEF m

\* ReceiveDup keeps the invariant.
LEMMA ReceiveDupStep ==
    ASSUME IInv, NEW n \in Nodes, ReceiveDup(n)
    PROVE  ListInv' /\ FlowInv' /\ EndsInv'
<1> DEFINE h == Head(wire[n])
           q == outPkgs[n]
<1>0. TypeOK /\ EndsInv /\ q \in Seq(Pkgs) /\ Shrunk(q, q)
  BY ShrunkSelf DEF IInv, TypeOK
<1>1. /\ Take(n, "data") /\ IsDup(n, h)
      /\ outPkgs' = [outPkgs EXCEPT ![n] = AddPkg(q, Ack(h))]
      /\ UNCHANGED <<session, caller, indexVars, recvVars, histVars>>
  BY DEF ReceiveDup
<1>2. h.kind = "data"
  BY <1>0, <1>1, TakenWire
<1>3. h.sid = Cur => Data(h) /\ dispatchedPackageIndex[n][Cur] = h.idx
  BY <1>1, <1>2 DEF IsDup, Receiver, Data
<1> HIDE DEF q
<1> QED BY <1>0, <1>1, <1>3, AnswerStep DEF q

\* ReceiveFree keeps the invariant.
LEMMA ReceiveFreeStep ==
    ASSUME IInv, NEW n \in Nodes, ReceiveFree(n)
    PROVE  ListInv' /\ FlowInv' /\ EndsInv'
<1> DEFINE h == Head(wire[n])
           q == outPkgs[n]
<1>0. TypeOK /\ q \in Seq(Pkgs)
  BY DEF IInv, TypeOK
<1>1. Take(n, "free") /\ UNCHANGED <<indexVars, recvVars, histVars>>
  BY DEF ReceiveFree
<1>2. h.kind = "free"
  BY <1>0, <1>1, TakenWire
<1>3. h.sid = Cur => Free(h)
  BY <1>2 DEF Free
<1>4. CASE /\ outPkgs' = [outPkgs EXCEPT ![n] = AddPkg(q, Ack(h))]
           /\ UNCHANGED <<session, portOpen, slots, caller>>
  <2>1. Shrunk(q, outPkgs[n])
    BY ShrunkSelf
  <2> HIDE DEF q
  <2> QED BY <1>0, <1>1, <1>3, <1>4, <2>1, AnswerStep
<1>5. CASE /\ FreeSession(n, h.sid)
           /\ outPkgs' = [outPkgs EXCEPT ![n] = AddPkg(Without(q, h.sid), Ack(h))]
           /\ SlotsFree(n, h.sid, Cardinality(Normal(q, h.sid)))
  <2>1. Without(q, h.sid) \in Seq(Pkgs) /\ Shrunk(Without(q, h.sid), outPkgs[n])
    BY <1>0, WithoutList DEF Shrunk
  <2>2. \A x \in Nodes, s \in Sessions :
           /\ session[x][s] = "none" => session'[x][s] = "none"
           /\ (caller'[x][s] = "idle") <=> (caller[x][s] = "idle")
    BY <1>0, <1>5, FreedNone, SlotsFreed
  <2> DEFINE u == Without(q, h.sid)
  <2>3. outPkgs' = [outPkgs EXCEPT ![n] = AddPkg(u, Ack(h))]
    BY <1>5
  <2> HIDE DEF u
  <2> QED BY <1>1, <1>3, <2>1, <2>2, <2>3, AnswerStep DEF u
<1> QED BY <1>4, <1>5 DEF ReceiveFree

\* A response: the first package it answers leaves the list.
LEMMA SeenStep ==
    ASSUME NEW n, NEW m, Flow(n, m), NEW g \in Queued(m) \cup OnWire(n), Resp(g),
           packageIndex'[n][Cur] = packageIndex[n][Cur],
           numbered'[n][Cur] = numbered[n][Cur], Sending(n)' <=> Sending(n),
           UNCHANGED <<recvVars, created, delivered, reported>>,
           acked'[n][Cur] \subseteq
              acked[n][Cur] \cup {d.idx : d \in {d \in Queued(n) : Data(d) /\ d.idx = g.idx}},
           Queued(n)' \subseteq Queued(n), OnWire(m)' = OnWire(m),
           Queued(m)' = Queued(m), OnWire(n)' \subseteq OnWire(n),
           Ordered(n, m) => Ordered(n, m)'
    PROVE  Flow(n, m)'
<1> SUFFICES ASSUME created'[Cur] <= 1
             PROVE  /\ Numbers(n, m)' /\ Ordered(n, m)'
                    /\ ~Mixed(m)' => Received(n, m)' /\ Answered(n, m)'
  BY DEF Flow
<1>0. /\ Given(m)' = Given(m) /\ (~Mixed(m)' => ~Mixed(m)) /\ created[Cur] <= 1
      /\ dispatchedPackageIndex'[m][Cur] = dispatchedPackageIndex[m][Cur]
      /\ delivered'[m][Cur] = delivered[m][Cur]
  BY DEF Given, Mixed, recvVars
<1>1. /\ Numbers(n, m) /\ Ordered(n, m)
      /\ ~Mixed(m) => Received(n, m) /\ Answered(n, m)
  BY <1>0 DEF Flow
<1>2. Numbers(n, m)'
  BY <1>1 DEF Numbers
<1>3. ASSUME Received(n, m) PROVE Received(n, m)'
  <2>1. \A h \in (Queued(n) \cup OnWire(m))' : Data(h) => h \in Queued(n) \cup OnWire(m)
    OBVIOUS
  <2> QED BY <1>0, <1>3, <2>1 DEF Received
<1>4. ASSUME Answered(n, m) PROVE Answered(n, m)'
  <2>1. acked'[n][Cur] \subseteq Given(m)
    BY <1>4 DEF Answered
  <2> QED BY <1>0, <1>4, <2>1 DEF Answered
<1> QED BY <1>0, <1>1, <1>2, <1>3, <1>4

\* ProcessResponsePackage keeps the invariant.
LEMMA ProcessResponseStep ==
    ASSUME IInv, NEW n \in Nodes, ProcessResponsePackage(n)
    PROVE  ListInv' /\ FlowInv' /\ EndsInv'
<1> DEFINE m == Peer(n)
           q == outPkgs[n]
           g == Head(wire[n])
           Found == {i \in DOMAIN q : Answers(q[i], g)}
           f == CHOOSE i \in Found : \A j \in Found : i <= j
           r == Keep(q, DOMAIN q \ {f})
<1>0. /\ TypeOK /\ ListInv /\ FlowInv /\ EndsInv /\ q \in Seq(Pkgs)
      /\ m \in Nodes /\ m # n /\ Peer(m) = n
  BY PeerNode DEF IInv, TypeOK
<1>1. /\ Take(n, "ack")
      /\ UNCHANGED <<session, indexVars, recvVars, created, delivered, reported>>
  BY DEF ProcessResponsePackage
<1>2. /\ g \in Heads /\ g.kind = "ack" /\ g \in OnWire(n) /\ g.idx \in Nat
      /\ OnWire(n)' \subseteq OnWire(n) /\ OnWire(m)' = OnWire(m)
      /\ WireShrunk(wire'[n], wire[n]) /\ wire'[m] = wire[m]
  BY <1>0, <1>1, TakenWire
<1>3. CASE UNCHANGED <<listVars, acked>>
  <2>1. \A x \in Nodes : WireShrunk(wire'[x], wire[x])
    <3>1. \A x \in {n, m} : WireShrunk(wire'[x], wire[x])
      BY <1>2, ShrunkSelf
    <3> QED BY <3>1, PeerNode
  <2> QED BY <1>1, <1>3, <2>1, SameLists, QuietAct DEF listVars, histVars
<1>4. CASE /\ Found # {}
           /\ outPkgs' = [outPkgs EXCEPT ![n] = r]
           /\ SlotsFree(n, g.sid, 1)
           /\ acked' = [acked EXCEPT ![n][g.sid] = @ \cup
                          IF q[f].head.kind = "data" THEN {q[f].head.idx} ELSE {}]
  <2>1. f \in Found
    <3>1. Len(q) \in Nat /\ DOMAIN q = 1..Len(q)
      BY <1>0, SeqFacts
    <3>2. Found \in SUBSET (1..Len(q))
      BY <3>1
    <3> HIDE DEF Found
    <3>3. \E i \in Found : \A j \in Found : i <= j
      BY <1>4, <3>1, <3>2, First
    <3> QED BY <3>3
  <2>2. q[f].head \in Queued(n) /\ q[f].head.sid = g.sid /\ q[f].head.idx = g.idx
    BY <2>1 DEF Answers, Queued, HeadsOf
  <2>3. DOMAIN q \ {f} \in SUBSET DOMAIN q
    OBVIOUS
  <2>4. \A x \in Nodes, s \in Sessions :
           (caller'[x][s] = "idle") <=> (caller[x][s] = "idle")
    BY <1>0, <1>4, SlotsFreed
  <2>5. acked \in [Nodes -> [Sessions -> SUBSET Nat]]
    BY <1>0 DEF TypeOK
  <2>6. acked'[m] = acked[m]
    BY <1>0, <1>4, <2>5
  <2>7. acked'[n][Cur] \subseteq
           acked[n][Cur] \cup (IF g.sid = Cur /\ q[f].head.kind = "data" THEN {q[f].head.idx} ELSE {})
    BY <1>4, <2>5, CurSession
  <2> HIDE DEF f
  <2>8. /\ HeadsOf(r) \subseteq HeadsOf(q)
        /\ FirstWaits(q) => FirstWaits(r)
        /\ Rising(q) => Rising(r)
    BY <1>0, <2>3, KeptList
  <2> HIDE DEF r
  <2>9. HeadsOf(r) \subseteq Queued(n)
    BY <2>8 DEF Queued
  <2>10. outPkgs' = [outPkgs EXCEPT ![n] = r]
    BY <1>4
  <2>11. /\ ListInv'
         /\ Queued(n)' = HeadsOf(r) /\ Queued(m)' = Queued(m)
         /\ Ordered(n, m) => Ordered(n, m)'
         /\ Ordered(m, n) => Ordered(m, n)'
         /\ \A h \in Queued("host")' \cup OnWire("daemon")' : h.kind = "data" => h.sid = Cur
    <3>1. \A h \in HeadsOf(r) : h.kind = "data" => h \in Queued(n)
      BY <2>9
    <3> QED BY <1>0, <1>1, <2>8, <2>10, <3>1, ReadStep
  <2>12. Still(m, n)
    BY <1>0, <1>1, <2>4, <2>6, CurSession DEF Still, indexVars, recvVars
  <2>13. Flow(n, m) /\ Flow(m, n)
    BY <1>0 DEF FlowInv
  <2>14. Sending(n)' <=> Sending(n)
    BY <2>4, CurSession DEF Sending
  <2> DEFINE d == q[f].head
  <2>15. d \in Queued(n) /\ d.sid = g.sid /\ d.idx = g.idx
    BY <2>2
  <2>16. acked'[n][Cur] \subseteq
           acked[n][Cur] \cup (IF g.sid = Cur /\ d.kind = "data" THEN {d.idx} ELSE {})
    BY <2>7
  <2>17. EndsInv'
    BY <1>0, <1>1, <2>4, <2>11, EndsKept DEF indexVars
  <2> HIDE DEF d, g, q, m
  <2>18. Flow(n, m)'
    <3>1. CASE g.sid = Cur
      <4>1. Resp(g)
        BY <1>2, <3>1 DEF Resp
      <4>2. acked'[n][Cur] \subseteq
              acked[n][Cur] \cup {e.idx : e \in {e \in Queued(n) : Data(e) /\ e.idx = g.idx}}
        BY <2>15, <2>16, <3>1 DEF Data
      <4> QED BY <1>1, <1>2, <2>9, <2>11, <2>13, <2>14, <4>1, <4>2, SeenStep DEF indexVars
    <3>2. CASE g.sid # Cur
      <4>1. acked'[n][Cur] = acked[n][Cur]
        BY <1>4, <2>5, <3>2, CurSession
      <4>2. Still(n, m)
        BY <1>0, <1>1, <2>4, <4>1, CurSession DEF Still, indexVars, recvVars
      <4> QED BY <1>2, <2>9, <2>11, <2>13, <4>2, FlowKept
    <3> QED BY <3>1, <3>2
  <2>19. Flow(m, n)'
    BY <1>2, <2>9, <2>11, <2>12, <2>13, FlowKept
  <2> QED BY <2>11, <2>17, <2>18, <2>19, FlowsOf DEF m
<1> QED BY <1>3, <1>4 DEF ProcessResponsePackage

\* The daemon's data belong to the one session of the server.
LEMMA DaemonData ==
    ASSUME EndsInv, NEW h \in OnWire("daemon"), h.kind = "data"
    PROVE  Data(h)
BY DEF EndsInv, Data

\* A package of the session is dispatched: given to it, or refused.
LEMMA DispatchStep ==
    ASSUME IInv, NEW n \in Nodes, Take(n, "data"), Head(wire[n]).sid = Cur, NEW r,
           outPkgs' = [outPkgs EXCEPT ![n] = r],
           FirstWaits(outPkgs[n]) => FirstWaits(r), Rising(outPkgs[n]) => Rising(r),
           \A g \in HeadsOf(r) : g.kind = "data" => g \in Queued(n),
           \A g \in HeadsOf(r) : g.kind = "ack" => g \in Queued(n) \cup {Ack(Head(wire[n]))},
           \/ dispatchedPackageIndex[n][Cur] # Head(wire[n]).idx
           \/ delivered[n][Cur] = <<>>,
           dispatchedPackageIndex' = [dispatchedPackageIndex EXCEPT ![n][Cur] = Head(wire[n]).idx],
           \/ /\ delivered' = [delivered EXCEPT ![n][Cur] = Append(@, Head(wire[n]).idx)]
              /\ UNCHANGED reported
           \/ /\ reported' = [reported EXCEPT ![n][Cur] = @ \cup {Head(wire[n]).idx}]
              /\ UNCHANGED delivered,
           packageIndex'[Peer(n)] = packageIndex[Peer(n)],
           UNCHANGED <<caller, numbered, resetIO, acked>>,
           created'[Cur] <= 1 => created[Cur] <= 1
    PROVE  /\ ListInv' /\ Flow(Peer(n), n)'
           /\ Queued(n)' = HeadsOf(r) /\ Queued(Peer(n))' = Queued(Peer(n))
           /\ OnWire(n)' \subseteq OnWire(n) /\ OnWire(Peer(n))' = OnWire(Peer(n))
           /\ Ordered(n, Peer(n)) => Ordered(n, Peer(n))'
           /\ \A g \in Queued("host")' \cup OnWire("daemon")' : g.kind = "data" => g.sid = Cur
           /\ delivered'[Peer(n)] = delivered[Peer(n)]
           /\ reported'[Peer(n)] = reported[Peer(n)]
           /\ dispatchedPackageIndex'[Peer(n)] = dispatchedPackageIndex[Peer(n)]
<1> DEFINE m == Peer(n)
           h == Head(wire[n])
           a == Ack(h)
<1>0. /\ TypeOK /\ ListInv /\ FlowInv /\ EndsInv
      /\ m \in Nodes /\ m # n /\ Peer(m) = n
  BY PeerNode DEF IInv
<1>1. /\ h \in Heads /\ h.kind = "data" /\ h \in OnWire(n) /\ h.idx \in Nat
      /\ OnWire(n)' \subseteq OnWire(n) /\ OnWire(m)' = OnWire(m)
      /\ Climbing(wire[n]) /\ Data(h) => \A g \in OnWire(n)' : Data(g) => h.idx <= g.idx
  BY <1>0, TakenWire
<1>2. Data(h) /\ a.sid = h.sid /\ a.idx = h.idx
  BY <1>1, AckType DEF Data
<1>3. /\ ListInv'
      /\ Queued(n)' = HeadsOf(r) /\ Queued(m)' = Queued(m)
      /\ Ordered(n, m) => Ordered(n, m)'
      /\ Ordered(m, n) => Ordered(m, n)'
      /\ \A g \in Queued("host")' \cup OnWire("daemon")' : g.kind = "data" => g.sid = Cur
  BY <1>0, ReadStep
<1>4. Flow(m, n)
  BY <1>0 DEF FlowInv
<1>5. /\ delivered \in [Nodes -> [Sessions -> Seq(Nat)]]
      /\ reported \in [Nodes -> [Sessions -> SUBSET Nat]]
      /\ dispatchedPackageIndex \in [Nodes -> [Sessions -> Nat]]
  BY <1>0 DEF TypeOK
<1>6. /\ delivered'[m] = delivered[m] /\ reported'[m] = reported[m]
      /\ dispatchedPackageIndex'[m] = dispatchedPackageIndex[m]
  BY <1>0, <1>5
<1>7. /\ dispatchedPackageIndex'[n][Cur] = h.idx
      /\ \/ /\ delivered'[n][Cur] = Append(delivered[n][Cur], h.idx)
            /\ reported'[n][Cur] = reported[n][Cur]
         \/ /\ delivered'[n][Cur] = delivered[n][Cur]
            /\ reported'[n][Cur] = reported[n][Cur] \cup {h.idx}
  BY <1>5, CurSession
<1>8. /\ packageIndex[m][Cur] \in Nat /\ numbered[m][Cur] \in Nat
      /\ dispatchedPackageIndex[n][Cur] \in Nat /\ delivered[n][Cur] \in Seq(Nat)
  BY <1>0, Numeric
<1>9. \A g \in Queued(n)' : Resp(g) => g \in Queued(n) \cup {a}
  BY <1>3 DEF Resp
<1>10. Flow(m, n)'
  <2>1. CASE created'[Cur] <= 1
    <3>1. Climbing(wire[n])
      BY <1>4, <2>1 DEF Flow, Ordered
    <3>2. \A g \in OnWire(n)' : Data(g) => h.idx <= g.idx
      BY <1>1, <1>2, <3>1
    <3>3. /\ packageIndex'[m][Cur] = packageIndex[m][Cur]
          /\ numbered'[m][Cur] = numbered[m][Cur] /\ (Sending(m)' <=> Sending(m))
          /\ acked'[m][Cur] = acked[m][Cur]
      BY DEF Sending
    <3>4. dispatchedPackageIndex[n][Cur] # h.idx \/ delivered[n][Cur] = <<>>
      OBVIOUS
    <3> HIDE DEF m, h, a
    <3> QED BY <1>1, <1>2, <1>3, <1>4, <1>7, <1>8, <1>9, <3>2, <3>3, <3>4, GotStep
  <2>2. CASE ~(created'[Cur] <= 1)
    BY <2>2 DEF Flow
  <2> QED BY <2>1, <2>2
<1> QED BY <1>1, <1>3, <1>6, <1>10

\* ReceiveData keeps the invariant.
LEMMA ReceiveDataStep ==
    ASSUME IInv, NEW n \in Nodes, ReceiveData(n)
    PROVE  ListInv' /\ FlowInv' /\ EndsInv'
<1> DEFINE m == Peer(n)
           h == Head(wire[n])
           a == Ack(h)
           r == AddPkg(outPkgs[n], a)
<1>0. /\ TypeOK /\ ListInv /\ FlowInv /\ EndsInv /\ outPkgs[n] \in Seq(Pkgs)
      /\ m \in Nodes /\ m # n /\ Peer(m) = n
  BY PeerNode DEF IInv, TypeOK
<1>1. /\ Take(n, "data") /\ h.sid = Receiver(n, h) /\ session[n][h.sid] # "none" /\ ~IsDup(n, h)
      /\ dispatchedPackageIndex' = [dispatchedPackageIndex EXCEPT ![n][h.sid] = h.idx]
      /\ outPkgs' = [outPkgs EXCEPT ![n] = r]
      /\ delivered' = [delivered EXCEPT ![n][h.sid] = Append(@, h.idx)]
      /\ UNCHANGED <<session, caller, indexVars, resetIO, created, acked, reported>>
  BY DEF ReceiveData, Dispatch, indexVars
<1>2. h \in Heads /\ h.kind = "data" /\ h \in OnWire(n)
  BY <1>0, <1>1, TakenWire
<1>3. h.sid = Cur
  BY <1>0, <1>1, <1>2 DEF EndsInv, Receiver, Nodes
<1>4. a \in Heads /\ a.kind = "ack"
  BY <1>2, AckType
<1>5. /\ HeadsOf(r) \subseteq HeadsOf(outPkgs[n]) \cup {a}
      /\ FirstWaits(outPkgs[n]) => FirstWaits(r)
      /\ Rising(outPkgs[n]) => Rising(r)
  BY <1>0, <1>4, AddedOther
<1> HIDE DEF r
<1>6. \A g \in HeadsOf(r) : g \in Queued(n) \/ g = a
  BY <1>5 DEF Queued
<1>7. dispatchedPackageIndex[n][Cur] # h.idx
  BY <1>1, <1>3 DEF IsDup, Receiver
<1>8. /\ ListInv' /\ Flow(m, n)'
      /\ Queued(n)' = HeadsOf(r) /\ Queued(m)' = Queued(m)
      /\ OnWire(n)' \subseteq OnWire(n) /\ OnWire(m)' = OnWire(m)
      /\ Ordered(n, m) => Ordered(n, m)'
      /\ \A g \in Queued("host")' \cup OnWire("daemon")' : g.kind = "data" => g.sid = Cur
      /\ delivered'[m] = delivered[m] /\ reported'[m] = reported[m]
      /\ dispatchedPackageIndex'[m] = dispatchedPackageIndex[m]
  BY <1>1, <1>3, <1>4, <1>5, <1>6, <1>7, DispatchStep DEF indexVars
<1>9. Flow(n, m)'
  <2>1. Flow(n, m)
    BY <1>0 DEF FlowInv
  <2>2. Still(n, m)
    BY <1>1, <1>8 DEF Still, indexVars
  <2>3. \A g \in Queued(n)' : Data(g) \/ Free(g) => g \in Queued(n)
    BY <1>4, <1>6, <1>8 DEF Data, Free
  <2> HIDE DEF m, h, a
  <2> QED BY <1>8, <2>1, <2>2, <2>3, FlowKept
<1>10. EndsInv'
  <2>1. \A x \in Nodes, s \in Old : delivered'[x][s] = delivered[x][s]
    BY <1>0, <1>1, <1>3, LinkAssumption DEF TypeOK, LinkAssumption, Sessions
  <2>2. n = "daemon" => created[Cur] # 0
    BY <1>0, <1>1, <1>3 DEF EndsInv
  <2>3. n = "host" => delivered'["daemon"] = delivered["daemon"]
    BY <1>0, <1>1 DEF TypeOK, Nodes
  <2>4. n = "host" \/ n = "daemon"
    BY DEF Nodes
  <2>5. "host" \in Nodes /\ "daemon" \in Nodes
    BY DEF Nodes
  <2>6. session' = session /\ caller' = caller /\ created' = created /\ packageIndex' = packageIndex
    BY <1>1 DEF indexVars
  <2>7. \A s \in Old : /\ session'["host"][s] = "none" /\ created'[s] = 0
                       /\ delivered'["host"][s] = <<>> /\ delivered'["daemon"][s] = <<>>
                       /\ caller'["host"][s] = "idle"
    BY <1>0, <2>1, <2>5, <2>6 DEF EndsInv
  <2>8. created'[Cur] = 0 => /\ session'["daemon"][Cur] = "none"
                             /\ packageIndex'["daemon"][Cur] = 0
                             /\ caller'["daemon"][Cur] = "idle"
                             /\ delivered'["daemon"][Cur] = <<>>
    BY <1>0, <2>2, <2>3, <2>4, <2>6 DEF EndsInv
  <2> QED BY <1>8, <2>7, <2>8 DEF EndsInv
<1> QED BY <1>8, <1>9, <1>10, FlowsOf

\* ReceiveRefused keeps the invariant.
LEMMA ReceiveRefusedStep ==
    ASSUME IInv, NEW n \in Nodes, ReceiveRefused(n)
    PROVE  ListInv' /\ FlowInv' /\ EndsInv'
<1> DEFINE m == Peer(n)
           h == Head(wire[n])
           a == Ack(h)
           q == AddPkg(outPkgs[n], a)
           i == packageIndex[n][Cur] + 1
           f == UartHead("free", Cur, i)
           r == AddPkg(q, f)
<1>0. /\ TypeOK /\ ListInv /\ FlowInv /\ EndsInv /\ outPkgs[n] \in Seq(Pkgs)
      /\ m \in Nodes /\ m # n /\ Peer(m) = n
  BY PeerNode DEF IInv, TypeOK
<1>1. /\ Take(n, "data") /\ h.sid = Receiver(n, h) /\ session[n][h.sid] # "none" /\ ~IsDup(n, h)
      /\ dispatchedPackageIndex' = [dispatchedPackageIndex EXCEPT ![n][h.sid] = h.idx]
      /\ AnswerFree(n, h.sid, q)
      /\ reported' = [reported EXCEPT ![n][h.sid] = @ \cup {h.idx}]
      /\ UNCHANGED <<session, caller, numbered, resetIO, created, acked, delivered>>
  BY DEF ReceiveRefused, Dispatch
<1>2. h \in Heads /\ h.kind = "data" /\ h \in OnWire(n)
  BY <1>0, <1>1, TakenWire
<1>3. h.sid = Cur
  BY <1>0, <1>1, <1>2 DEF EndsInv, Receiver, Nodes
<1>4. a \in Heads /\ a.kind = "ack"
  BY <1>2, AckType
<1>5. i \in Nat /\ packageIndex \in [Nodes -> [Sessions -> Nat]]
  BY <1>0, CurSession DEF TypeOK
<1>6. /\ f \in Heads /\ f.kind = "free" /\ f.idx = i
  BY <1>5, CurSession, HeadType
<1>7. /\ outPkgs' = [outPkgs EXCEPT ![n] = r]
      /\ packageIndex' = [packageIndex EXCEPT ![n][Cur] = i]
  BY <1>1, <1>3, <1>5, CurSession DEF AnswerFree
<1>8. /\ packageIndex'[n][Cur] = i /\ packageIndex'[m] = packageIndex[m]
  BY <1>0, <1>5, <1>7, CurSession
<1>9. /\ q \in Seq(Pkgs)
      /\ HeadsOf(q) \subseteq HeadsOf(outPkgs[n]) \cup {a}
      /\ FirstWaits(outPkgs[n]) => FirstWaits(q)
      /\ Rising(outPkgs[n]) => Rising(q)
  BY <1>0, <1>4, AddedOther
<1> HIDE DEF q, f
<1>10. /\ HeadsOf(r) \subseteq HeadsOf(q) \cup {f}
       /\ FirstWaits(q) => FirstWaits(r)
       /\ Rising(q) => Rising(r)
  BY <1>6, <1>9, AddedOther
<1> HIDE DEF r
<1>11. \A g \in HeadsOf(r) : g \in Queued(n) \/ g = a \/ g = f
  BY <1>9, <1>10 DEF Queued
<1>12. dispatchedPackageIndex[n][Cur] # h.idx
  BY <1>1, <1>3 DEF IsDup, Receiver
<1>13. /\ ListInv' /\ Flow(m, n)'
       /\ Queued(n)' = HeadsOf(r) /\ Queued(m)' = Queued(m)
       /\ OnWire(n)' \subseteq OnWire(n) /\ OnWire(m)' = OnWire(m)
       /\ Ordered(n, m) => Ordered(n, m)'
       /\ \A g \in Queued("host")' \cup OnWire("daemon")' : g.kind = "data" => g.sid = Cur
       /\ delivered'[m] = delivered[m] /\ reported'[m] = reported[m]
       /\ dispatchedPackageIndex'[m] = dispatchedPackageIndex[m]
  <2>1. \A g \in HeadsOf(r) : g.kind = "data" => g \in Queued(n)
    BY <1>4, <1>6, <1>11
  <2>2. \A g \in HeadsOf(r) : g.kind = "ack" => g \in Queued(n) \cup {a}
    BY <1>4, <1>6, <1>11
  <2> QED BY <1>1, <1>3, <1>7, <1>8, <1>9, <1>10, <1>12, <2>1, <2>2, DispatchStep
<1>14. Flow(n, m)'
  <2>1. Flow(n, m)
    BY <1>0 DEF FlowInv
  <2>2. /\ packageIndex[n][Cur] \in Nat /\ numbered[n][Cur] \in Nat
        /\ dispatchedPackageIndex[m][Cur] \in Nat
        /\ \A g \in Queued(n) \cup OnWire(m) \cup Queued(m) \cup OnWire(n) : g.idx \in Nat
    BY <1>0, Numeric, HeadsTyped
  <2>3. \A g \in Queued(n)' : Data(g) => g \in Queued(n)
    BY <1>4, <1>6, <1>11, <1>13 DEF Data
  <2>4. \A g \in Queued(n)' : Free(g) => g \in Queued(n) \/ g.idx = packageIndex[n][Cur] + 1
    BY <1>4, <1>6, <1>11, <1>13 DEF Free
  <2>5. /\ numbered'[n][Cur] = numbered[n][Cur] /\ (Sending(n)' <=> Sending(n))
        /\ acked'[n][Cur] = acked[n][Cur] /\ resetIO' = resetIO /\ created' = created
    BY <1>1 DEF Sending
  <2>6. /\ delivered'[m][Cur] = delivered[m][Cur] /\ reported'[m][Cur] = reported[m][Cur]
        /\ dispatchedPackageIndex'[m][Cur] = dispatchedPackageIndex[m][Cur]
    BY <1>13
  <2>7. packageIndex'[n][Cur] = packageIndex[n][Cur] + 1
    BY <1>8
  <2>8. \A g \in Queued(m)' \cup OnWire(n)' : Resp(g) => g \in Queued(m) \cup OnWire(n)
    BY <1>13
  <2> HIDE DEF m, h, a, i
  <2> QED BY <1>13, <2>1, <2>2, <2>3, <2>4, <2>5, <2>6, <2>7, <2>8, FreeStep
<1>15. EndsInv'
  <2>1. n = "daemon" => session["daemon"][Cur] # "none"
    BY <1>1, <1>3
  <2>2. n = "host" => packageIndex'["daemon"] = packageIndex["daemon"]
    BY <1>8 DEF Peer
  <2>3. \/ packageIndex'["daemon"][Cur] = packageIndex["daemon"][Cur]
        \/ session["daemon"][Cur] # "none"
    BY <2>1, <2>2 DEF Nodes
  <2> QED BY <1>0, <1>1, <1>13, <2>3, EndsKept
<1> QED BY <1>13, <1>14, <1>15, FlowsOf

\* The server gets data of an old session.
LEMMA ReceiveForeignStep == IInv /\ ReceiveForeign => ListInv' /\ FlowInv' /\ EndsInv'
<1> SUFFICES ASSUME IInv, ReceiveForeign PROVE ListInv' /\ FlowInv' /\ EndsInv'
  OBVIOUS
<1> DEFINE n == "host"
           m == "daemon"
           h == Head(wire[n])
           a == Ack(h)
           b == UartHead("reset", h.sid, 0)
           i == packageIndex[n][Cur] + 1
           f == UartHead("free", Cur, i)
           q == AddPkg(outPkgs[n], a)
           p == AddPkg(q, b)
           r == AddPkg(p, f)
<1>0. /\ TypeOK /\ ListInv /\ FlowInv /\ EndsInv /\ outPkgs[n] \in Seq(Pkgs)
      /\ n \in Nodes /\ m \in Nodes /\ m # n /\ Peer(n) = m /\ Peer(m) = n
  BY DEF IInv, TypeOK, Nodes, Peer
<1>1. /\ Take(n, "data") /\ h.sid # Cur
      /\ dispatchedPackageIndex' = [dispatchedPackageIndex EXCEPT ![n][Cur] = h.idx]
      /\ UNCHANGED <<session, caller, numbered, created, acked, delivered, reported>>
      /\ resetIO'
  BY DEF ReceiveForeign, Dispatch, Receiver
<1>2. /\ h \in Heads /\ h.sid \in Sessions
      /\ OnWire(n)' \subseteq OnWire(n) /\ OnWire(m)' = OnWire(m)
  BY <1>0, <1>1, TakenWire
<1>3. a \in Heads /\ a.kind = "ack" /\ a.sid # Cur
  BY <1>1, <1>2, AckType
<1>4. b \in Heads /\ b.kind = "reset"
  BY <1>2, HeadType
<1>5. /\ i \in Nat /\ packageIndex \in [Nodes -> [Sessions -> Nat]]
      /\ f \in Heads /\ f.kind = "free" /\ f.idx = i
  <2>1. i \in Nat /\ packageIndex \in [Nodes -> [Sessions -> Nat]]
    BY <1>0, CurSession DEF TypeOK
  <2> QED BY <2>1, CurSession, HeadType
<1>6. /\ q \in Seq(Pkgs)
      /\ HeadsOf(q) \subseteq HeadsOf(outPkgs[n]) \cup {a}
      /\ FirstWaits(outPkgs[n]) => FirstWaits(q)
      /\ Rising(outPkgs[n]) => Rising(q)
  BY <1>0, <1>3, AddedOther
<1> HIDE DEF a, b, f, q
<1>7. /\ p \in Seq(Pkgs)
      /\ HeadsOf(p) \subseteq HeadsOf(q) \cup {b}
      /\ FirstWaits(q) => FirstWaits(p)
      /\ Rising(q) => Rising(p)
  BY <1>4, <1>6, AddedOther
<1> HIDE DEF p
<1>8. /\ HeadsOf(r) \subseteq HeadsOf(p) \cup {f}
      /\ FirstWaits(p) => FirstWaits(r)
      /\ Rising(p) => Rising(r)
  BY <1>5, <1>7, AddedOther
<1> HIDE DEF r
<1>9. PICK t : /\ outPkgs' = [outPkgs EXCEPT ![n] = t]
               /\ FirstWaits(outPkgs[n]) => FirstWaits(t)
               /\ Rising(outPkgs[n]) => Rising(t)
               /\ \A g \in HeadsOf(t) : g \in Queued(n) \/ g = a \/ g = b \/ g = f
               /\ \/ t = r /\ packageIndex' = [packageIndex EXCEPT ![n][Cur] = i]
                  \/ t = q /\ packageIndex' = packageIndex
  <2>1. CASE outPkgs' = [outPkgs EXCEPT ![n] = q] /\ packageIndex' = packageIndex
    BY <1>6, <2>1 DEF Queued
  <2>2. CASE AnswerFree(n, Cur, p)
    <3>1. /\ outPkgs' = [outPkgs EXCEPT ![n] = r]
          /\ packageIndex' = [packageIndex EXCEPT ![n][Cur] = i]
      BY <1>5, <2>2, CurSession DEF AnswerFree, r, f
    <3> QED BY <1>6, <1>7, <1>8, <3>1 DEF Queued
  <2>3. \/ outPkgs' = [outPkgs EXCEPT ![n] = q] /\ packageIndex' = packageIndex
        \/ AnswerFree(n, Cur, p)
    BY DEF ReceiveForeign, p, q, a, b
  <2> QED BY <2>1, <2>2, <2>3
<1>10. /\ ListInv'
       /\ Queued(n)' = HeadsOf(t) /\ Queued(m)' = Queued(m)
       /\ Ordered(n, m) => Ordered(n, m)'
       /\ Ordered(m, n) => Ordered(m, n)'
       /\ \A g \in Queued("host")' \cup OnWire("daemon")' : g.kind = "data" => g.sid = Cur
  <2>1. \A g \in HeadsOf(t) : g.kind = "data" => g \in Queued(n)
    BY <1>3, <1>4, <1>5, <1>9
  <2> QED BY <1>0, <1>1, <1>9, <2>1, ReadStep
<1>11. /\ packageIndex'[m] = packageIndex[m]
       /\ dispatchedPackageIndex'[m] = dispatchedPackageIndex[m]
  BY <1>0, <1>1, <1>9 DEF TypeOK
<1>12. Flow(n, m) /\ Flow(m, n)
  BY <1>0 DEF FlowInv
<1>13. \A g \in Queued(n)' : Data(g) => g \in Queued(n)
  BY <1>3, <1>4, <1>5, <1>9, <1>10 DEF Data
<1>14. \A g \in Queued(n)' : Resp(g) => g \in Queued(n)
  BY <1>3, <1>4, <1>5, <1>9, <1>10 DEF Resp
<1>15. \A g \in Queued(m)' \cup OnWire(n)' : Resp(g) => g \in Queued(m) \cup OnWire(n)
  BY <1>2, <1>10
<1>16. Flow(n, m)'
  <2>1. CASE t = r /\ packageIndex' = [packageIndex EXCEPT ![n][Cur] = i]
    <3>1. packageIndex'[n][Cur] = packageIndex[n][Cur] + 1
      BY <1>0, <1>5, <2>1, CurSession
    <3>2. /\ packageIndex[n][Cur] \in Nat /\ numbered[n][Cur] \in Nat
          /\ dispatchedPackageIndex[m][Cur] \in Nat
          /\ \A g \in Queued(n) \cup OnWire(m) \cup Queued(m) \cup OnWire(n) : g.idx \in Nat
      BY <1>0, Numeric, HeadsTyped
    <3>3. \A g \in Queued(n)' : Free(g) => g \in Queued(n) \/ g.idx = packageIndex[n][Cur] + 1
      BY <1>3, <1>4, <1>5, <1>9, <1>10 DEF Free
    <3>4. /\ numbered'[n][Cur] = numbered[n][Cur] /\ (Sending(n)' <=> Sending(n))
          /\ acked'[n][Cur] = acked[n][Cur] /\ created' = created
          /\ delivered'[m][Cur] = delivered[m][Cur] /\ reported'[m][Cur] = reported[m][Cur]
          /\ dispatchedPackageIndex'[m][Cur] = dispatchedPackageIndex[m][Cur]
      BY <1>1, <1>11 DEF Sending
    <3>5. m = "host" => resetIO' = resetIO
      OBVIOUS
    <3> HIDE DEF n, m, i
    <3> QED BY <1>2, <1>10, <1>12, <1>13, <1>15, <3>1, <3>2, <3>3, <3>4, <3>5, FreeStep
  <2>2. CASE t = q /\ packageIndex' = packageIndex
    <3>1. Still(n, m)
      BY <1>1, <1>11, <2>2 DEF Still
    <3>2. \A g \in Queued(n)' : g \in Queued(n) \/ g = a
      BY <1>6, <1>10, <2>2 DEF Queued
    <3>3. \A g \in Queued(n)' : Data(g) \/ Free(g) => g \in Queued(n)
      BY <1>3, <3>2 DEF Data, Free
    <3> HIDE DEF n, m
    <3> QED BY <1>2, <1>10, <1>12, <1>15, <3>1, <3>3, FlowKept
  <2> QED BY <1>9, <2>1, <2>2
<1>17. Flow(m, n)'
  <2>1. Mixed(n)'
    BY <1>1 DEF Mixed
  <2>2. ASSUME Numbers(m, n) PROVE Numbers(m, n)'
    <3>1. /\ packageIndex'[m][Cur] = packageIndex[m][Cur]
          /\ numbered'[m][Cur] = numbered[m][Cur] /\ (Sending(m)' <=> Sending(m))
      BY <1>1, <1>11 DEF Sending
    <3>2. \A g \in (Queued(n) \cup OnWire(m))' : Resp(g) => g \in Queued(n) \cup OnWire(m)
      BY <1>2, <1>14
    <3> HIDE DEF n, m
    <3> QED BY <1>2, <1>10, <2>2, <3>1, <3>2 DEF Numbers
  <2>3. created' = created
    BY <1>1
  <2> HIDE DEF n, m
  <2> QED BY <1>10, <1>12, <2>1, <2>2, <2>3 DEF Flow
<1>18. EndsInv'
  <2> HIDE DEF h
  <2>1. packageIndex'["daemon"][Cur] = packageIndex["daemon"][Cur]
    BY <1>11
  <2> QED BY <1>0, <1>1, <1>10, <2>1, EndsKept
<1> QED BY <1>0, <1>10, <1>16, <1>17, <1>18, FlowsOf

\* The daemon creates the session for its first package.
LEMMA ReceiveFirstStep == IInv /\ ReceiveFirst => ListInv' /\ FlowInv' /\ EndsInv'
<1> SUFFICES ASSUME IInv, ReceiveFirst PROVE ListInv' /\ FlowInv' /\ EndsInv'
  OBVIOUS
<1> DEFINE n == "daemon"
           m == "host"
           h == Head(wire[n])
           a == Ack(h)
           r == AddPkg(outPkgs[n], a)
<1>0. /\ TypeOK /\ ListInv /\ FlowInv /\ EndsInv /\ outPkgs[n] \in Seq(Pkgs)
      /\ n \in Nodes /\ m \in Nodes /\ m # n /\ Peer(n) = m /\ Peer(m) = n
  BY DEF IInv, TypeOK, Nodes, Peer
<1>1. /\ Take(n, "data") /\ PrepareNewSession(h)
      /\ outPkgs' = [outPkgs EXCEPT ![n] = r]
      /\ packageIndex' = [packageIndex EXCEPT ![n][h.sid] = 0]
      /\ dispatchedPackageIndex' = [dispatchedPackageIndex EXCEPT ![n][h.sid] = h.idx]
      /\ delivered' = [delivered EXCEPT ![n][h.sid] = Append(@, h.idx)]
      /\ UNCHANGED <<caller, numbered, resetIO, acked, reported>>
  BY DEF ReceiveFirst
<1>2. h \in Heads /\ h.kind = "data" /\ h \in OnWire(n)
  BY <1>0, <1>1, TakenWire
<1>3. h.sid = Cur
  BY <1>0, <1>2 DEF EndsInv
<1>4. a \in Heads /\ a.kind = "ack"
  BY <1>2, AckType
<1>5. /\ HeadsOf(r) \subseteq HeadsOf(outPkgs[n]) \cup {a}
      /\ FirstWaits(outPkgs[n]) => FirstWaits(r)
      /\ Rising(outPkgs[n]) => Rising(r)
  BY <1>0, <1>4, AddedOther
<1> HIDE DEF r
<1>6. \A g \in HeadsOf(r) : g \in Queued(n) \/ g = a
  BY <1>5 DEF Queued
<1>7. /\ created' = [created EXCEPT ![Cur] = @ + 1]
      /\ session'["host"] = session["host"]
      /\ packageIndex'["host"] = packageIndex["host"]
      /\ created[Cur] \in Nat /\ created'[Cur] = created[Cur] + 1
      /\ \A s \in Old : created'[s] = created[s]
  <2>1. created' = [created EXCEPT ![Cur] = @ + 1]
    BY <1>1, <1>3 DEF PrepareNewSession
  <2>2. session'["host"] = session["host"]
    BY <1>0, <1>1 DEF PrepareNewSession, TypeOK, Nodes
  <2>3. packageIndex'["host"] = packageIndex["host"]
    BY <1>0, <1>1 DEF TypeOK, Nodes
  <2>4. created[Cur] \in Nat
    BY <1>0, Numeric
  <2>5. created'[Cur] = created[Cur] + 1 /\ \A s \in Old : created'[s] = created[s]
    BY <1>0, <2>1, CurSession, LinkAssumption DEF TypeOK, Sessions, LinkAssumption
  <2> QED BY <2>1, <2>2, <2>3, <2>4, <2>5
<1>8. /\ ListInv'
      /\ Queued(n)' = HeadsOf(r) /\ Queued(m)' = Queued(m)
      /\ Ordered(n, m) => Ordered(n, m)'
      /\ \A g \in Queued("host")' \cup OnWire("daemon")' : g.kind = "data" => g.sid = Cur
  <2>1. \A g \in HeadsOf(r) : g.kind = "data" => g \in Queued(n)
    BY <1>4, <1>6
  <2> QED BY <1>0, <1>1, <1>5, <2>1, ReadStep
<1>9. FlowInv'
  <2>1. CASE created[Cur] = 0
    <3>1. delivered[n][Cur] = <<>> /\ packageIndex[n][Cur] = 0
      BY <1>0, <2>1 DEF EndsInv
    <3>2. /\ \A g \in HeadsOf(r) : g.kind = "data" => g \in Queued(n)
          /\ \A g \in HeadsOf(r) : g.kind = "ack" => g \in Queued(n) \cup {a}
      BY <1>4, <1>6
    <3>3. created'[Cur] <= 1 => created[Cur] <= 1
      BY <2>1
    <3>4. /\ dispatchedPackageIndex' = [dispatchedPackageIndex EXCEPT ![n][Cur] = h.idx]
          /\ delivered' = [delivered EXCEPT ![n][Cur] = Append(@, h.idx)]
      BY <1>1, <1>3
    <3>5. /\ Flow(m, n)'
          /\ OnWire(n)' \subseteq OnWire(n) /\ OnWire(m)' = OnWire(m)
          /\ delivered'[m] = delivered[m] /\ reported'[m] = reported[m]
          /\ dispatchedPackageIndex'[m] = dispatchedPackageIndex[m]
      BY <1>0, <1>1, <1>3, <1>5, <1>7, <3>1, <3>2, <3>3, <3>4, DispatchStep
    <3>6. packageIndex'[n][Cur] = packageIndex[n][Cur]
      BY <1>0, <1>1, <1>3, <3>1, CurSession DEF TypeOK
    <3>7. Still(n, m)
      BY <1>1, <3>3, <3>5, <3>6 DEF Still
    <3>8. Flow(n, m)
      BY <1>0 DEF FlowInv
    <3>9. \A g \in Queued(n)' : Data(g) \/ Free(g) => g \in Queued(n)
      BY <1>4, <1>6, <1>8 DEF Data, Free
    <3>10. Flow(n, m)'
      <4> HIDE DEF n, m, h, a
      <4> QED BY <1>8, <3>5, <3>7, <3>8, <3>9, FlowKept
    <3> QED BY <1>0, <3>5, <3>10, FlowsOf
  <2>2. CASE created[Cur] # 0
    <3>1. ~(created'[Cur] <= 1)
      BY <1>7, <2>2
    <3> QED BY <3>1 DEF FlowInv, Flow
  <2> QED BY <2>1, <2>2
<1>10. EndsInv'
  <2>1. created'[Cur] # 0
    BY <1>7
  <2>2. \A s \in Old : /\ delivered'["host"][s] = delivered["host"][s]
                       /\ delivered'["daemon"][s] = delivered["daemon"][s]
    BY <1>0, <1>1, <1>3, LinkAssumption DEF TypeOK, LinkAssumption, Sessions
  <2>3. \A s \in Old : /\ session'["host"][s] = "none" /\ created'[s] = 0
                       /\ delivered'["host"][s] = <<>> /\ delivered'["daemon"][s] = <<>>
    BY <1>0, <1>7, <2>2 DEF EndsInv
  <2>4. \A s \in Old : caller'["host"][s] = "idle"
    BY <1>0, <1>1 DEF EndsInv
  <2> QED BY <1>8, <2>1, <2>3, <2>4 DEF EndsInv
<1> QED BY <1>8, <1>9, <1>10

-----------------------------------------------------------------------------
(* The workers.                                                            *)

\* A worker numbers a package.
LEMMA SendUARTDataStep ==
    ASSUME IInv, NEW n \in Nodes, NEW s \in Sessions, SendUARTData(n, s)
    PROVE  ListInv' /\ FlowInv' /\ EndsInv'
<1> DEFINE m == Peer(n)
<1>0. /\ TypeOK /\ ListInv /\ FlowInv /\ EndsInv
      /\ m \in Nodes /\ m # n /\ Peer(m) = n
  BY PeerNode DEF IInv
<1>1. /\ session[n][s] \in {"live", "dead"} /\ caller[n][s] = "idle"
      /\ packageIndex' = [packageIndex EXCEPT ![n][s] = @ + 1]
      /\ numbered' = [numbered EXCEPT ![n][s] = packageIndex[n][s] + 1]
      /\ Wait(n, s)
      /\ UNCHANGED <<session, outPkgs, wire, recvVars, histVars>>
  BY DEF SendUARTData
<1>2. /\ packageIndex \in [Nodes -> [Sessions -> Nat]]
      /\ numbered \in [Nodes -> [Sessions -> Nat]]
  BY <1>0 DEF TypeOK
<1>3. \A x \in Nodes, t \in Sessions : x # n \/ t # s =>
         /\ caller'[x][t] = caller[x][t]
         /\ packageIndex'[x][t] = packageIndex[x][t] /\ numbered'[x][t] = numbered[x][t]
  BY <1>0, <1>1, <1>2, WaitType
<1>4. n = "host" => s = Cur
  BY <1>0, <1>1 DEF EndsInv, Sessions
<1>5. ListInv'
  BY <1>0, <1>1, SameLists, ListsOf, PeerNode DEF ListInv, Nodes
<1>6. /\ \A x \in Nodes : Queued(x)' = Queued(x) /\ OnWire(x)' = OnWire(x)
      /\ \A x, y \in Nodes : Ordered(x, y) => Ordered(x, y)'
  BY <1>1 DEF Queued, HeadsOf, OnWire, Ordered, Rising, Climbing
<1>7. ASSUME NEW x \in Nodes, x # n \/ s # Cur
      PROVE  Flow(x, Peer(x))'
  <2> DEFINE y == Peer(x)
  <2>0. y \in Nodes
    BY PeerNode
  <2>1. Flow(x, y)
    BY <1>0 DEF FlowInv
  <2>2. Still(x, y)
    BY <1>1, <1>3, <1>7, CurSession DEF Still, recvVars, histVars
  <2>3. /\ Queued(x)' = Queued(x) /\ OnWire(x)' = OnWire(x)
        /\ Queued(y)' = Queued(y) /\ OnWire(y)' = OnWire(y)
        /\ Ordered(x, y) => Ordered(x, y)'
    BY <1>6, <2>0
  <2> HIDE DEF y
  <2>4. Flow(x, y)'
    BY <2>1, <2>2, <2>3, FlowKept
  <2> QED BY <2>4 DEF y
<1>8. ASSUME s = Cur PROVE FlowInv'
  <2>1. Flow(n, m)
    BY <1>0 DEF FlowInv
  <2>2. /\ packageIndex[n][Cur] \in Nat /\ dispatchedPackageIndex[m][Cur] \in Nat
        /\ \A h \in Queued(n) \cup OnWire(m) \cup Queued(m) \cup OnWire(n) : h.idx \in Nat
    BY <1>0, Numeric, HeadsTyped
  <2>3. /\ packageIndex'[n][Cur] = packageIndex[n][Cur] + 1
        /\ numbered'[n][Cur] = packageIndex[n][Cur] + 1
    BY <1>1, <1>2, <1>8, CurSession
  <2>4. Flow(n, m)'
    BY <1>1, <2>1, <2>2, <2>3, NumberStep
  <2>5. Flow(m, n)'
    BY <1>0, <1>7
  <2> QED BY <2>4, <2>5, FlowsOf
<1>9. ASSUME s # Cur PROVE FlowInv'
  <2>1. Flow(n, m)' /\ Flow(m, n)'
    BY <1>0, <1>7, <1>9
  <2> QED BY <2>1, FlowsOf
<1>10. FlowInv'
  BY <1>8, <1>9
<1>11. EndsInv'
  <2>1. "host" \in Nodes /\ "daemon" \in Nodes /\ Old \subseteq Sessions /\ Cur \notin Old
    BY LinkAssumption DEF Nodes, Sessions, LinkAssumption
  <2>2. \A t \in Old : caller'["host"][t] = "idle"
    BY <1>0, <1>3, <1>4, <2>1 DEF EndsInv
  <2>3. /\ session' = session /\ created' = created /\ delivered' = delivered
        /\ Queued("host")' = Queued("host") /\ OnWire("daemon")' = OnWire("daemon")
    BY <1>1, <1>6, <2>1 DEF histVars
  <2>4. created[Cur] = 0 => /\ packageIndex'["daemon"][Cur] = 0
                            /\ caller'["daemon"][Cur] = "idle"
    <3> HAVE created[Cur] = 0
    <3>1. session["daemon"][Cur] = "none"
      BY <1>0 DEF EndsInv
    <3>2. n # "daemon" \/ s # Cur
      BY <1>1, <3>1
    <3> QED BY <1>0, <1>3, <2>1, <3>2, CurSession DEF EndsInv
  <2> QED BY <1>0, <2>2, <2>3, <2>4 DEF EndsInv
<1> QED BY <1>5, <1>10, <1>11

\* A worker adds its package.
LEMMA RequestSendStep ==
    ASSUME IInv, NEW n \in Nodes, NEW s \in Sessions, RequestSendPackage(n, s)
    PROVE  ListInv' /\ FlowInv' /\ EndsInv'
<1> DEFINE m == Peer(n)
           d == UartHead("data", s, numbered[n][s])
           q == outPkgs[n]
           r == AddPkg(q, d)
<1>0. /\ TypeOK /\ ListInv /\ FlowInv /\ EndsInv /\ q \in Seq(Pkgs)
      /\ m \in Nodes /\ m # n /\ Peer(m) = n
  BY PeerNode DEF IInv, TypeOK
<1>1. /\ caller[n][s] = "adding"
      /\ caller' = [caller EXCEPT ![n][s] = "idle"]
      /\ outPkgs' = [outPkgs EXCEPT ![n] = r]
      /\ UNCHANGED <<session, indexVars, recvVars, wire, histVars>>
  BY DEF RequestSendPackage
<1>2. /\ d \in Heads /\ d.kind = "data" /\ d.sid = s /\ d.idx = numbered[n][s]
  BY <1>0, IndexType, HeadType
<1>3. \A x \in Nodes, t \in Sessions :
         /\ x # n \/ t # s => caller'[x][t] = caller[x][t]
         /\ caller[x][t] = "idle" => caller'[x][t] = "idle"
  BY <1>0, <1>1 DEF TypeOK
<1>4. caller'[n][s] = "idle"
  BY <1>0, <1>1 DEF TypeOK
<1>5. /\ HeadsOf(r) \subseteq HeadsOf(q) \cup {d}
      /\ FirstWaits(q) => FirstWaits(r)
      /\ Rising(q) /\ (Data(d) => \A g \in HeadsOf(q) : Data(g) => g.idx < d.idx)
           => Rising(r)
  BY <1>0, <1>2, AddedList
<1> HIDE DEF r
<1>6. /\ outPkgs'[n] = r /\ outPkgs'[m] = outPkgs[m]
      /\ Queued(n)' = HeadsOf(r) /\ Queued(m)' = Queued(m)
  BY <1>0, <1>1, ListChange
<1>7. OnWire(n)' = OnWire(n) /\ OnWire(m)' = OnWire(m)
  BY <1>1 DEF OnWire
<1>8. ListInv'
  BY <1>0, <1>5, <1>6, ListsOf DEF ListInv
<1>9. Queued(n)' \subseteq Queued(n) \cup {d}
  BY <1>5, <1>6 DEF Queued
<1>10. Flow(n, m) /\ Flow(m, n)
  BY <1>0 DEF FlowInv
<1> HIDE DEF d
<1>11. Flow(m, n)'
  <2>1. Still(m, n)
    BY <1>0, <1>1, <1>3, CurSession DEF Still, indexVars, recvVars, histVars
  <2>2. \A g \in Queued(n)' \cup OnWire(m)' : Resp(g) => g \in Queued(n) \cup OnWire(m)
    BY <1>2, <1>7, <1>9 DEF Resp
  <2>3. Ordered(m, n) => Ordered(m, n)'
    <3> HAVE Ordered(m, n)
    <3>1. Rising(outPkgs'[m]) /\ Climbing(wire'[n])
      BY <1>1, <1>6 DEF Ordered
    <3> HIDE DEF m
    <3> QED BY <1>6, <1>7, <3>1, OrderKept
  <2> HIDE DEF m
  <2> QED BY <1>6, <1>7, <1>10, <2>1, <2>2, <2>3, FlowKept
<1>12. Flow(n, m)'
  <2>1. CASE s = Cur
    <3>1. /\ Data(d) /\ d.idx = numbered[n][Cur] /\ Sending(n) /\ ~Sending(n)'
      BY <1>1, <1>2, <1>4, <2>1 DEF Data, Sending
    <3>2. /\ packageIndex[n][Cur] \in Nat /\ numbered[n][Cur] \in Nat
          /\ dispatchedPackageIndex[m][Cur] \in Nat
          /\ \A h \in Queued(n) \cup OnWire(m) : h.idx \in Nat
      BY <1>0, Numeric, HeadsTyped
    <3>3. Rising(outPkgs[n]) /\ (\A g \in Queued(n) : Data(g) => g.idx < d.idx)
             => Rising(outPkgs'[n])
      BY <1>5, <1>6 DEF Queued
    <3>4. UNCHANGED <<wire, packageIndex, recvVars, histVars>>
      BY <1>1 DEF indexVars
    <3>5. \A h \in Queued(m)' : Resp(h) => h \in Queued(m)
      BY <1>6
    <3> HIDE DEF m, q
    <3> QED BY <1>2, <1>9, <1>10, <3>1, <3>2, <3>3, <3>4, <3>5, AddStep
  <2>2. CASE s # Cur
    <3>1. ~Data(d) /\ ~Free(d)
      BY <1>2, <2>2 DEF Data, Free
    <3>2. Still(n, m)
      BY <1>0, <1>1, <1>3, <2>2, CurSession DEF Still, indexVars, recvVars, histVars
    <3>3. \A h \in Queued(n)' : Data(h) \/ Free(h) => h \in Queued(n)
      BY <1>9, <3>1
    <3>4. Ordered(n, m) => Ordered(n, m)'
      <4> HAVE Ordered(n, m)
      <4>1. Rising(outPkgs'[n]) /\ Climbing(wire'[m])
        BY <1>1, <1>5, <1>6, <3>1 DEF Ordered
      <4> HIDE DEF m, q
      <4> QED BY <1>7, <3>3, <4>1, OrderKept
    <3> HIDE DEF m, q
    <3> QED BY <1>6, <1>7, <1>10, <3>2, <3>3, <3>4, FlowKept
  <2> QED BY <2>1, <2>2
<1>13. EndsInv'
  <2>1. \A h \in Queued("host")' \cup OnWire("daemon")' : h.kind = "data" => h.sid = Cur
    <3>1. CASE n = "host"
      <4>1. s = Cur
        BY <1>0, <1>1, <3>1 DEF EndsInv, Sessions
      <4>2. OnWire("daemon")' = OnWire("daemon")
        BY <1>7, <3>1 DEF Peer
      <4> QED BY <1>0, <1>2, <1>9, <3>1, <4>1, <4>2 DEF EndsInv
    <3>2. CASE n = "daemon"
      <4>1. Queued("host")' = Queued("host") /\ OnWire("daemon")' = OnWire("daemon")
        BY <1>6, <1>7, <3>2 DEF Peer
      <4> QED BY <1>0, <4>1 DEF EndsInv
    <3> QED BY <3>1, <3>2 DEF Nodes
  <2> QED BY <1>0, <1>1, <1>3, <2>1, EndsKept DEF indexVars, histVars
<1> QED BY <1>8, <1>11, <1>12, <1>13, FlowsOf

\* A worker that does not understand its data sends a FREE.
LEMMA ReadStreamStep ==
    ASSUME IInv, NEW n \in Nodes, NEW s \in Sessions, ReadDataFromUARTStream(n, s)
    PROVE  ListInv' /\ FlowInv' /\ EndsInv'
<1> DEFINE m == Peer(n)
           i == packageIndex[n][Cur] + 1
           f == UartHead("free", Cur, i)
           q == outPkgs[n]
           r == AddPkg(q, f)
<1>0. /\ TypeOK /\ ListInv /\ FlowInv /\ EndsInv /\ q \in Seq(Pkgs)
      /\ m \in Nodes /\ m # n /\ Peer(m) = n
  BY PeerNode DEF IInv, TypeOK
<1>1. /\ session[n][s] \in {"live", "dead"} /\ delivered[n][s] # <<>>
      /\ AnswerFree(n, s, q) /\ FreeSession(n, s)
      /\ UNCHANGED <<caller, numbered, recvVars, wire, histVars>>
  BY DEF ReadDataFromUARTStream
<1>2. s = Cur
  BY <1>0, <1>1 DEF EndsInv, Sessions, Nodes
<1>3. i \in Nat /\ packageIndex \in [Nodes -> [Sessions -> Nat]]
  <2>1. packageIndex \in [Nodes -> [Sessions -> Nat]]
    BY <1>0 DEF TypeOK
  <2> QED BY <2>1, CurSession
<1>4. f \in Heads /\ f.kind = "free" /\ f.idx = i
  BY <1>3, CurSession, HeadType
<1>5. /\ outPkgs' = [outPkgs EXCEPT ![n] = r]
      /\ packageIndex' = [packageIndex EXCEPT ![n][Cur] = i]
  BY <1>1, <1>2, <1>3, CurSession DEF AnswerFree
<1>6. /\ packageIndex'[n][Cur] = i /\ packageIndex'[m] = packageIndex[m]
  BY <1>0, <1>3, <1>5, CurSession
<1>7. /\ HeadsOf(r) \subseteq HeadsOf(q) \cup {f}
      /\ FirstWaits(q) => FirstWaits(r)
      /\ Rising(q) => Rising(r)
  BY <1>0, <1>4, AddedOther
<1> HIDE DEF r, f
<1>8. /\ outPkgs'[n] = r /\ outPkgs'[m] = outPkgs[m]
      /\ Queued(n)' = HeadsOf(r) /\ Queued(m)' = Queued(m)
  BY <1>0, <1>5, ListChange
<1>9. OnWire(n)' = OnWire(n) /\ OnWire(m)' = OnWire(m)
  BY <1>1 DEF OnWire
<1>10. ListInv'
  BY <1>0, <1>7, <1>8, ListsOf DEF ListInv
<1>11. \A g \in Queued(n)' : g \in Queued(n) \/ g = f
  BY <1>7, <1>8 DEF Queued
<1>12. Flow(n, m) /\ Flow(m, n)
  BY <1>0 DEF FlowInv
<1>13. \A g \in Queued(n)' : g.kind = "data" => g \in Queued(n)
  BY <1>4, <1>11
<1>14. Flow(n, m)'
  <2>1. /\ packageIndex[n][Cur] \in Nat /\ numbered[n][Cur] \in Nat
        /\ dispatchedPackageIndex[m][Cur] \in Nat
        /\ \A g \in Queued(n) \cup OnWire(m) \cup Queued(m) \cup OnWire(n) : g.idx \in Nat
    BY <1>0, Numeric, HeadsTyped
  <2>2. \A g \in Queued(n)' : Data(g) => g \in Queued(n)
    BY <1>13 DEF Data
  <2>3. \A g \in Queued(n)' : Free(g) => g \in Queued(n) \/ g.idx = packageIndex[n][Cur] + 1
    BY <1>4, <1>11
  <2>4. packageIndex'[n][Cur] = packageIndex[n][Cur] + 1
    BY <1>6
  <2>5. Ordered(n, m) => Ordered(n, m)'
    <3> HAVE Ordered(n, m)
    <3>1. Rising(outPkgs'[n]) /\ Climbing(wire'[m])
      BY <1>1, <1>7, <1>8 DEF Ordered
    <3> HIDE DEF m, q
    <3> QED BY <1>9, <2>2, <3>1, OrderKept
  <2>6. \A g \in Queued(m)' \cup OnWire(n)' : Resp(g) => g \in Queued(m) \cup OnWire(n)
    BY <1>8, <1>9
  <2>7. /\ numbered'[n][Cur] = numbered[n][Cur] /\ (Sending(n)' <=> Sending(n))
        /\ acked'[n][Cur] = acked[n][Cur] /\ resetIO' = resetIO /\ created' = created
        /\ delivered'[m][Cur] = delivered[m][Cur] /\ reported'[m][Cur] = reported[m][Cur]
        /\ dispatchedPackageIndex'[m][Cur] = dispatchedPackageIndex[m][Cur]
    BY <1>1 DEF Sending, recvVars, histVars
  <2> HIDE DEF m, q, i
  <2> QED BY <1>9, <1>12, <2>1, <2>2, <2>3, <2>4, <2>5, <2>6, <2>7, FreeStep
<1>15. Flow(m, n)'
  <2>1. Still(m, n)
    BY <1>1, <1>6 DEF Still, recvVars, histVars
  <2>2. \A g \in Queued(n)' \cup OnWire(m)' : Resp(g) => g \in Queued(n) \cup OnWire(m)
    BY <1>4, <1>9, <1>11 DEF Resp
  <2>3. Ordered(m, n) => Ordered(m, n)'
    <3> HAVE Ordered(m, n)
    <3>1. Rising(outPkgs'[m]) /\ Climbing(wire'[n])
      BY <1>1, <1>8 DEF Ordered
    <3> HIDE DEF m
    <3> QED BY <1>8, <1>9, <3>1, OrderKept
  <2> HIDE DEF m
  <2> QED BY <1>8, <1>9, <1>12, <2>1, <2>2, <2>3, FlowKept
<1>16. EndsInv'
  <2>1. \A h \in Queued("host")' \cup OnWire("daemon")' : h.kind = "data" => h.sid = Cur
    <3>1. CASE n = "host"
      BY <1>0, <1>9, <1>13, <3>1 DEF EndsInv, Peer
    <3>2. CASE n = "daemon"
      BY <1>0, <1>8, <1>9, <3>2 DEF EndsInv, Peer
    <3> QED BY <3>1, <3>2 DEF Nodes
  <2>2. \/ packageIndex'["daemon"][Cur] = packageIndex["daemon"][Cur]
        \/ session["daemon"][Cur] # "none"
    <3>1. CASE n = "host"
      BY <1>6, <3>1 DEF Peer
    <3>2. CASE n = "daemon"
      BY <1>1, <1>2, <3>2
    <3> QED BY <3>1, <3>2 DEF Nodes
  <2>3. \A x \in Nodes, t \in Sessions :
           /\ session[x][t] = "none" => session'[x][t] = "none"
           /\ caller[x][t] = "idle" => caller'[x][t] = "idle"
    BY <1>0, <1>1, FreedNone
  <2> QED BY <1>0, <1>1, <2>1, <2>2, <2>3, EndsKept DEF histVars
<1> QED BY <1>10, <1>14, <1>15, <1>16, FlowsOf

-----------------------------------------------------------------------------
(* The theorems.                                                           *)

\* The invariant holds at the start.
LEMMA InitInv == Init => IInv
<1> SUFFICES ASSUME Init PROVE IInv
  OBVIOUS
<1>1. TypeOK
  BY InitType
<1>2. /\ \A n \in Nodes : /\ outPkgs[n] = <<>> /\ wire[n] = <<>>
                          /\ Queued(n) = {} /\ OnWire(n) = {}
  BY DEF Init, Queued, HeadsOf, OnWire
<1>3. \A n \in Nodes, s \in Sessions :
         /\ caller[n][s] = "idle" /\ packageIndex[n][s] = 0 /\ numbered[n][s] = 0
         /\ dispatchedPackageIndex[n][s] = 0 /\ delivered[n][s] = <<>>
         /\ acked[n][s] = {}
  BY DEF Init, OnAll
<1>4. ListInv
  BY <1>2 DEF ListInv, FirstWaits
<1>5. EndsInv
  <2>1. Old \subseteq Sessions /\ Cur \in Sessions /\ Cur \notin Old
        /\ "host" \in Nodes /\ "daemon" \in Nodes
    BY LinkAssumption DEF Sessions, Nodes, LinkAssumption
  <2>2. /\ \A s \in Old : session["host"][s] = "none"
        /\ session["daemon"][Cur] = "none"
        /\ \A s \in Sessions : created[s] = 0
    BY <2>1 DEF Init
  <2> QED BY <1>2, <1>3, <2>1, <2>2 DEF EndsInv
<1>6. ASSUME NEW n \in Nodes PROVE Flow(n, Peer(n))
  <2> DEFINE m == Peer(n)
  <2>1. m \in Nodes /\ Cur \in Sessions
    BY PeerNode, CurSession
  <2>2. ~Sending(n)
    BY <1>3, <2>1 DEF Sending
  <2>3. Numbers(n, m)
    BY <1>2, <2>1, <2>2 DEF Numbers
  <2>4. Ordered(n, m)
    BY <1>2, <2>1 DEF Ordered, Rising, Climbing
  <2>5. Received(n, m)
    BY <1>2, <1>3, <2>1, <2>2 DEF Received
  <2>6. Answered(n, m)
    BY <1>2, <1>3, <2>1 DEF Answered
  <2> QED BY <2>3, <2>4, <2>5, <2>6 DEF Flow
<1> QED BY <1>1, <1>4, <1>5, <1>6 DEF IInv, FlowInv

\* A step that changes nothing keeps the invariant.
LEMMA Stuttering == IInv /\ UNCHANGED vars => ListInv' /\ FlowInv' /\ EndsInv'
<1> SUFFICES ASSUME IInv, UNCHANGED vars PROVE ListInv' /\ FlowInv' /\ EndsInv'
  OBVIOUS
<1>1. UNCHANGED <<session, listVars, indexVars, recvVars, wire, histVars>>
  BY DEF vars
<1> QED BY <1>1, SameWires, SameLists, QuietAct DEF listVars

\* Every step keeps the invariant.
LEMMA NextInv == IInv /\ [Next]_vars => IInv'
<1> SUFFICES ASSUME IInv, [Next]_vars PROVE IInv'
  OBVIOUS
<1>1. TypeOK'
  BY NextType DEF IInv
<1>2. ListInv' /\ FlowInv' /\ EndsInv'
  <2>1. CASE UNCHANGED vars
    BY <2>1, Stuttering
  <2>2. CASE ReadFails
    BY <2>2, ReadFailsStep
  <2>3. ASSUME NEW n \in Nodes, WriteThread(n) PROVE ListInv' /\ FlowInv' /\ EndsInv'
    BY <2>3, SendLoopStep, GiveUpStep, WriteInLoopFailsStep DEF WriteThread
  <2>4. ASSUME NEW n \in Nodes, ReadThread(n) PROVE ListInv' /\ FlowInv' /\ EndsInv'
    BY <2>4, ProcessResponseStep, ReceiveFreeStep, ReceiveDupStep, ReceiveDataStep,
       ReceiveRefusedStep, ReceiveFirstStep, ReceiveForeignStep DEF ReadThread
  <2>5. ASSUME NEW n \in Nodes, Late(n) \/ Lose(n) PROVE ListInv' /\ FlowInv' /\ EndsInv'
    BY <2>5, LateStep, LoseStep
  <2>6. ASSUME NEW n \in Nodes, NEW s \in Sessions, SendUARTData(n, s) \/ Worker(n, s)
        PROVE  ListInv' /\ FlowInv' /\ EndsInv'
    BY <2>6, SendUARTDataStep, WakeUpStep, RequestSendStep DEF Worker
  <2>7. ASSUME NEW n \in Nodes, NEW s \in Sessions,
               ReadDataFromUARTStream(n, s) \/ Removal(n, s)
        PROVE  ListInv' /\ FlowInv' /\ EndsInv'
    BY <2>7, ReadStreamStep, StopSessionStep, RemoveSessionStep DEF Removal
  <2> QED BY <2>1, <2>2, <2>3, <2>4, <2>5, <2>6, <2>7 DEF Next
<1> QED BY <1>1, <1>2 DEF IInv

\* The inductive invariant holds in every state: however many packages are lost, sent
\* again and given up, numbers, order and answers of the two directions fit together.
THEOREM Invariance == Spec => []IInv
BY InitInv, NextInv, PTL DEF Spec

\* The variables of the link keep their ranges: in particular no package has more
\* chances to be sent again than retryChance gives it, and no session is created more
\* often than MaxNew, for every number of old sessions, packages and chances.
THEOREM TypeCorrect == Spec => []TypeOK
<1>1. IInv => TypeOK
  BY DEF IInv
<1> QED BY <1>1, Invariance, PTL

\* Of one session at most one package awaits its response: the loop of
\* SendPkgInUARTOutMap sends none that stands behind another one of its session.
LEMMA FirstOnly == IInv => OneInFlight
<1> SUFFICES ASSUME IInv, NEW n \in Nodes, NEW s \in Sessions
             PROVE  Cardinality({i \in Normal(outPkgs[n], s) : Waiting(outPkgs[n][i])}) <= 1
  BY DEF OneInFlight
<1> DEFINE q == outPkgs[n]
           I == {i \in Normal(q, s) : Waiting(q[i])}
<1>1. q \in Seq(Pkgs) /\ FirstWaits(q)
  BY DEF IInv, TypeOK, ListInv
<1>2. \A i \in DOMAIN q : i \in Nat
  BY <1>1, SeqFacts
<1>3. \A i, j \in I : i = j
  <2> SUFFICES ASSUME NEW i \in I, NEW j \in I, i # j PROVE FALSE
    OBVIOUS
  <2>1. i \in DOMAIN q /\ j \in DOMAIN q /\ (i < j \/ j < i)
    BY <1>2 DEF Normal
  <2> QED BY <1>1, <2>1 DEF FirstWaits, Normal
<1>4. Cardinality(I) <= 1
  <2> HIDE DEF I
  <2>1. CASE I = {}
    BY <2>1, FS_EmptySet
  <2>2. CASE I # {}
    <3>1. PICK i \in I : TRUE
      BY <2>2
    <3>2. I = {i}
      BY <1>3, <3>1
    <3>3. Cardinality({i}) = 1
      BY FS_Singleton
    <3>4. Cardinality(I) = 1
      BY <3>2, <3>3
    <3> QED BY <3>4
  <2> QED BY <2>1, <2>2
<1> QED BY <1>4

\* A session gets each package once and in order, unless the server's reader took a
\* package of an old session for one of its own.
LEMMA Rises == IInv => InOrder
<1> SUFFICES ASSUME IInv, NEW n \in Nodes, NEW s \in Sessions, created[s] <= 1, ~Mixed(n),
                    NEW i \in DOMAIN delivered[n][s], NEW j \in DOMAIN delivered[n][s], i < j
             PROVE  delivered[n][s][i] < delivered[n][s][j]
  BY DEF InOrder
<1>1. CASE s = Cur
  <2>1. Peer(n) \in Nodes /\ Peer(Peer(n)) = n
    BY PeerNode
  <2>2. Flow(Peer(n), n)
    BY <2>1 DEF IInv, FlowInv
  <2>3. Received(Peer(n), n)
    BY <1>1, <2>2 DEF Flow
  <2> QED BY <1>1, <2>3 DEF Received
<1>2. CASE s \in Old
  <2>1. delivered[n][s] = <<>>
    BY <1>2 DEF IInv, EndsInv, Nodes
  <2> QED BY <2>1
<1> QED BY <1>1, <1>2 DEF Sessions

\* What a sender saw acknowledged its peer gave to the session or refused with a FREE.
LEMMA NothingSilent == IInv => NoSilentLoss
<1> SUFFICES ASSUME IInv, NEW n \in Nodes, created[Cur] <= 1, ~Mixed(Peer(n))
             PROVE  Lost(n) = {}
  BY DEF NoSilentLoss
<1>1. Flow(n, Peer(n))
  BY DEF IInv, FlowInv
<1>2. acked[n][Cur] \subseteq Given(Peer(n))
  BY <1>1 DEF Flow, Answered
<1> QED BY <1>2 DEF Lost, Given

\* Stop and wait: at most one package of a session is in flight, and what the sender takes
\* for delivered was delivered, once and in its order, or refused with a FREE.  The loop of
\* SendPkgInUARTOutMap sends nothing behind a package of the same session, and the check of
\* dispatchedPackageIndex (uart.cpp:420) skips what was dispatched, and nothing else, as
\* long as no package of an old session came between.
THEOREM LinkIsFaithful == Spec => []Faithful
<1>1. IInv => Faithful
  BY FirstOnly, Rises, NothingSilent DEF Faithful, StopAndWait
<1> QED BY <1>1, Invariance, PTL

===============================================================================
