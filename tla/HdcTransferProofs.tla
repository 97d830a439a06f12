------------------------- MODULE HdcTransferProofs --------------------------
(***************************************************************************)
(* Proofs about the transfers of HdcTasks, for every number of files and   *)
(* packages, every set of sizes and whatever may fail: a transfer is said  *)
(* to be finished only when all of it is there (XferData, then Careful),   *)
(* and every variable of HdcTasks keeps its type (Typed), for the forwards *)
(* and the processes as well, whose own invariants are those of            *)
(* HdcTasksProofs.                                                         *)
(***************************************************************************)
EXTENDS HdcTasksProofs

-----------------------------------------------------------------------------
(* A transfer: numbers, requests and messages.                             *)

\* The largest size is one of the sizes.
LEMMA Largest == MaxSize \in Nat /\ \A t \in Sizes : t <= MaxSize
BY TransferAssumption DEF MaxSize

\* A product grows with its factor.
LEMMA Grows ==
    ASSUME NEW a \in Nat, NEW b \in Nat, NEW k \in Nat, a < b
    PROVE  a * k \in Nat /\ b * k \in Nat /\ a * k + k <= b * k
<1> DEFINE d == b - a - 1
<1>1. d \in Nat /\ b = a + 1 + d
  OBVIOUS
<1> HIDE DEF d
<1>2. b * k = a * k + k + d * k
  BY <1>1
<1>3. a * k \in Nat /\ b * k \in Nat /\ d * k \in Nat
  BY <1>1
<1> QED BY <1>2, <1>3

\* The pieces there are: none has contents when all files are empty.
Pieces == {p \in Piece : p.len = 1 => MaxSize >= 1}

\* The number of a piece fits into a message, and says which piece it is.
LEMMA Coded ==
    /\ \A p \in Piece : Code(p) \in 0 .. (((NFiles + 1) * (MaxSize + 1)) * 2)
    /\ \A p, q \in Piece : Code(p) = Code(q) => p = q
    /\ \A p \in Piece : PieceOf(Code(p)) = p
<1> DEFINE k == MaxSize + 1
<1>0. k \in Nat /\ NFiles \in Nat /\ MaxSize = k - 1
  BY Largest, TransferAssumption
<1> HIDE DEF k
<1>1. ASSUME NEW p \in Piece
      PROVE  /\ p.f \in 0 .. NFiles /\ p.i \in 0 .. k - 1 /\ p.len \in 0 .. 1
             /\ Code(p) = (p.f * k + p.i) * 2 + p.len
             /\ p = [f |-> p.f, i |-> p.i, len |-> p.len]
  BY <1>0 DEF Piece, Code, k
<1>2. ASSUME NEW p \in Piece PROVE Code(p) \in 0 .. (((NFiles + 1) * k) * 2)
  <2> DEFINE a == p.f * k
             b == (NFiles + 1) * k
  <2>1. p.f \in Nat /\ NFiles + 1 \in Nat /\ p.f < NFiles + 1
    BY <1>0, <1>1
  <2>2. a \in Nat /\ b \in Nat /\ a + k <= b
    BY <2>1, <1>0, Grows
  <2> HIDE DEF a, b
  <2>3. p.i \in Int /\ 0 <= p.i /\ p.i <= k - 1 /\ p.len \in Int /\ 0 <= p.len /\ p.len <= 1
    BY <1>1, <1>0
  <2>4. (a + p.i) * 2 + p.len \in 0 .. (b * 2)
    BY <2>2, <2>3, <1>0
  <2> QED BY <2>4, <1>1 DEF a, b
<1>3. ASSUME NEW p \in Piece, NEW q \in Piece, Code(p) = Code(q) PROVE p = q
  <2> DEFINE a == p.f * k
             b == q.f * k
  <2>1. p.f \in Nat /\ q.f \in Nat
    BY <1>0, <1>1
  <2>2. /\ p.i \in Int /\ 0 <= p.i /\ p.i <= k - 1 /\ p.len \in Int /\ 0 <= p.len /\ p.len <= 1
        /\ q.i \in Int /\ 0 <= q.i /\ q.i <= k - 1 /\ q.len \in Int /\ 0 <= q.len /\ q.len <= 1
    BY <1>1, <1>0
  <2>3. /\ p.f < q.f => a \in Nat /\ b \in Nat /\ a + k <= b
        /\ q.f < p.f => a \in Nat /\ b \in Nat /\ b + k <= a
    BY <2>1, <1>0, Grows
  <2>4. p.f = q.f => a = b
    OBVIOUS
  <2>5. a \in Int /\ b \in Int
    BY <2>1, <1>0
  <2>6. (a + p.i) * 2 + p.len = (b + q.i) * 2 + q.len
    BY <1>1, <1>3
  <2> HIDE DEF a, b
  <2>7. a + p.i = b + q.i /\ p.len = q.len
    <3> DEFINE u == a + p.i
               v == b + q.i
               x == p.len
               y == q.len
    <3>a. x \in {0, 1} /\ y \in {0, 1}
      BY <2>2
    <3>b. u \in Int /\ v \in Int
      BY <2>2, <2>5
    <3>c. u * 2 + x = v * 2 + y
      BY <2>6
    <3>1. u \in Int /\ v \in Int /\ x \in {0, 1} /\ y \in {0, 1} /\ u * 2 + x = v * 2 + y
      BY <3>a, <3>b, <3>c
    <3> HIDE DEF u, v, x, y
    <3>2. u = v /\ x = y
      BY <3>1
    <3> QED BY <3>2 DEF u, v, x, y
  <2>8. p.f = q.f
    BY <2>1, <2>2, <2>3, <2>5, <2>7, <1>0
  <2>9. p.i = q.i
    BY <2>2, <2>4, <2>5, <2>7, <2>8
  <2> QED BY <2>7, <2>8, <2>9, <1>1
<1>4. ASSUME NEW p \in Piece PROVE PieceOf(Code(p)) = p
  <2>1. \E q \in Piece : Code(q) = Code(p)
    OBVIOUS
  <2>2. PieceOf(Code(p)) \in Piece /\ Code(PieceOf(Code(p))) = Code(p)
    BY <2>1 DEF PieceOf
  <2> QED BY <2>2, <1>3
<1> QED BY <1>2, <1>3, <1>4 DEF k

\* A request that is taken out, and one that is put behind the others.
LEMMA TakeOut ==
    ASSUME NEW T, NEW s \in Seq(T), NEW j \in DOMAIN s
    PROVE  LET w == Without(s, j) IN
           /\ w \in Seq(T) /\ w \o <<>> = w /\ Len(w) = Len(s) - 1 /\ s[j] \in T /\ In(s, s[j])
           /\ \A x : In(w, x) => In(s, x)
           /\ \A x : Single(s, x) => Single(w, x)
           /\ Single(s, s[j]) => ~In(w, s[j])
           /\ Len(s) <= 1 => w = <<>>
<1>0. Len(s) \in Nat /\ j \in 1 .. Len(s) /\ j \in Int /\ s[j] \in T
  OBVIOUS
<1> DEFINE a == SubSeq(s, 1, j - 1)
           b == SubSeq(s, j + 1, Len(s))
           w == a \o b
           n == Len(s)
<1>1. a \in Seq(T) /\ Len(a) = j - 1 /\ \A i \in 1 .. j - 1 : a[i] = s[i]
  BY <1>0
<1>2. b \in Seq(T) /\ Len(b) = n - j /\ \A i \in 1 .. n - j : b[i] = s[i + j]
  <2>1. Len(b) = n - j /\ b \in Seq(T)
    BY <1>0
  <2>2. \A i \in 1 .. n - j : b[i] = s[j + 1 + i - 1]
    BY <1>0
  <2>3. \A i \in 1 .. n - j : j + 1 + i - 1 = i + j
    BY <1>0
  <2> QED BY <2>1, <2>2, <2>3
<1>3. /\ w \in Seq(T) /\ Len(w) = Len(a) + Len(b) /\ w \o <<>> = w
      /\ \A i \in 1 .. Len(a) : w[i] = a[i]
      /\ \A i \in Len(a) + 1 .. Len(a) + Len(b) : w[i] = b[i - Len(a)]
  <2> HIDE DEF a, b
  <2>1. a \in Seq(T) /\ b \in Seq(T)
    BY <1>1, <1>2
  <2> QED BY <2>1
<1> HIDE DEF a, b, w
<1>n. n \in Nat /\ j \in 1 .. n
  BY <1>0
<1> HIDE DEF n
<1>4. Len(w) = n - 1
  BY <1>1, <1>2, <1>3, <1>n
<1>5. ASSUME NEW i \in 1 .. n - 1
      PROVE  w[i] = s[IF i < j THEN i ELSE i + 1]
  <2>1. CASE i < j
    BY <2>1, <1>1, <1>3, <1>n
  <2>2. CASE ~(i < j)
    <3>1. i \in Len(a) + 1 .. Len(a) + Len(b) /\ i - Len(a) = i - j + 1
      BY <2>2, <1>1, <1>2, <1>n
    <3>2. w[i] = b[i - j + 1] /\ i - j + 1 \in 1 .. n - j
      BY <3>1, <2>2, <1>3, <1>n
    <3>3. b[i - j + 1] = s[(i - j + 1) + j] /\ (i - j + 1) + j = i + 1
      BY <3>2, <1>2, <1>n
    <3> QED BY <3>2, <3>3, <2>2
  <2> QED BY <2>1, <2>2
<1> DEFINE At(i) == IF i < j THEN i ELSE i + 1
<1>6. /\ \A i \in 1 .. n - 1 : At(i) \in 1 .. n /\ At(i) # j /\ w[i] = s[At(i)]
      /\ \A i, l \in 1 .. n - 1 : At(i) = At(l) => i = l
  BY <1>5, <1>n
<1> HIDE DEF At
<1>7. \A x : In(w, x) => In(s, x)
  BY <1>4, <1>6 DEF In, n
<1>8. \A x : Single(s, x) => Single(w, x)
  BY <1>4, <1>6 DEF Single, n
<1>9. Single(s, s[j]) => ~In(w, s[j])
  <2>1. \A i \in 1 .. n - 1 : Single(s, s[j]) => w[i] # s[j]
    <3> SUFFICES ASSUME NEW i \in 1 .. n - 1, Single(s, s[j]), w[i] = s[j] PROVE FALSE
      OBVIOUS
    <3>1. At(i) \in 1 .. n /\ At(i) # j /\ s[At(i)] = s[j]
      BY <1>6
    <3> QED BY <3>1, <1>n DEF Single, n
  <2> QED BY <2>1, <1>4 DEF In
<1>10. In(s, s[j])
  BY <1>0 DEF In
<1>11. Len(s) <= 1 => w = <<>>
  <2> SUFFICES ASSUME Len(s) <= 1 PROVE w = <<>>
    OBVIOUS
  <2>0. n <= 1
    BY DEF n
  <2>1. n = 1
    BY <2>0, <1>n
  <2>2. Len(w) = 0
    BY <1>4, <2>1
  <2> QED BY <2>2, <1>3
<1> QED BY <1>0, <1>3, <1>4, <1>7, <1>8, <1>9, <1>10, <1>11 DEF Without, w, a, b, n

\* A request that is put behind the others.
LEMMA PutIn ==
    ASSUME NEW T, NEW s \in Seq(T), NEW x \in T
    PROVE  LET w == Append(s, x) IN
           /\ w \in Seq(T) /\ Len(w) = Len(s) + 1
           /\ \A y : In(w, y) => In(s, y) \/ y = x
           /\ \A y : Single(s, y) /\ (y # x \/ ~In(s, x)) => Single(w, y)
<1>1. <<x>> \in Seq(T) /\ Append(s, x) = s \o <<x>>
  OBVIOUS
<1> DEFINE r == <<x>>
           w == s \o r
<1>2. Append(s, x) \in Seq(T) /\ Len(Append(s, x)) = Len(s) + 1
  OBVIOUS
<1>3. \A y : (In(r, y) <=> y = x) /\ Single(r, y)
  BY Few
<1>4. r \in Seq(T)
  BY <1>1
<1> HIDE DEF r
<1>5. /\ \A m : In(s \o r, m) => In(s, m) \/ In(r, m)
      /\ \A m : Single(s, m) /\ ~In(r, m) => Single(s \o r, m)
      /\ \A m : ~In(s, m) /\ Single(r, m) => Single(s \o r, m)
  BY <1>4, Joined
<1>6. /\ \A y : In(w, y) => In(s, y) \/ y = x
      /\ \A y : Single(s, y) /\ (y # x \/ ~In(s, x)) => Single(w, y)
  BY <1>3, <1>5
<1> QED BY <1>1, <1>2, <1>6 DEF r

\* The requests of the master, and of the slave.
Reads == [op : {"read"}, to : 0 .. NFiles, piece : Pieces]
Writes == [op : {"write"}, to : 0 .. NFiles, piece : Pieces]
Sending == kind \in {"file", "dir", "install", "sideload"}

\* What may be on its way to an end.
Init0 == Msg("X_INIT", 0)
Begin0 == Msg("X_BEGIN", 0)
XSays(d) ==
    {h \in XferMsg :
        /\ h.cmd \in {"X_CHECK", "X_DATA", "X_BEGIN"} => Sending
        /\ h.cmd = "X_CHECK" => d = Slave /\ h.n \in 1 .. NumFiles
        /\ h.cmd = "X_DATA" => d = Slave /\ \E p \in Pieces : h.n = Code(p)
        /\ h.cmd = "X_BEGIN" => d = origin /\ h.n = 0
        /\ h.cmd = "X_INIT" => d = origin /\ h.n = 0
        /\ h.cmd = "APP_FINISH" => d = "host" /\ kind \in {"install", "uninstall"}
        /\ h.cmd = "APP_UNINSTALL" => d = "daemon" /\ kind = "uninstall"
        /\ h.cmd = "FILE_FINISH" => IsFile /\ h.n \in 0 .. 1}

\* The variables of a transfer.
XTypes ==
    /\ size \in [File -> Nat] /\ \A g \in File : size[g] \in Sizes \cup {0}
    /\ queue \in 0 .. NumFiles
    /\ cur \in [End -> 0 .. NumFiles] /\ fd \in [End -> 0 .. NumFiles]
    /\ DOMAIN io = End /\ io[origin] \in Seq(Reads) /\ io[Slave] \in Seq(Writes)
    /\ indexIO \in [End -> 0 .. MaxSize]
    /\ \A d \in End : ioFinish[d] \/ indexIO[d] = 0 \/ indexIO[d] < MaxSize
    /\ ioFinish \in [End -> BOOLEAN] /\ closeNotify \in [End -> BOOLEAN]
    /\ lastErrno \in [End -> BOOLEAN] /\ \A d \in End : lastErrno[d] => closeNotify[d]
    /\ disk \in [File -> [0 .. MaxSize -> 0 .. NFiles]]
    /\ opening[origin] > 0 => queue < NumFiles
    /\ owed["host"] = 0 /\ (kind \notin {"install", "uninstall"} => async = 0 /\ owed["daemon"] = 0)
    /\ kind \in {"install", "sideload", "uninstall"} => origin = "host"
    /\ ~Sending => \A d \in End : opening[d] = 0 /\ closing[d] = 0 /\ io[d] = <<>>
XNet ==
    /\ net \in [End -> Seq(XferMsg)]
    /\ \A d \in End : \A i \in 1 .. Len(net[d]) : net[d][i] \in XSays(d)

\* As long as the message that begins a transfer is under way nothing has happened.
FreshInv ==
    In(net[origin], Init0) =>
      /\ Single(net[origin], Init0)
      /\ \A d \in End : \A i \in 1 .. Len(net[d]) : net[d][i] = Init0 \/ net[d][i].cmd = "CLOSE"
      /\ queue = NumFiles /\ async = 0 /\ owed["daemon"] = 0
      /\ \A d \in End : opening[d] = 0 /\ closing[d] = 0 /\ io[d] = <<>> /\ ~lastErrno[d]

\* One thing at a time brings a transfer to the next step of a file, or to the next file,
\* and while it is there no piece is under way.
Begun == NumFiles - queue
TokenMsg ==
    {h \in XferMsg : \/ h.cmd \in {"X_CHECK", "X_BEGIN", "APP_FINISH", "APP_UNINSTALL"}
                     \/ kind = "dir" /\ h.cmd = "FILE_FINISH" /\ h.n = 1}
Carried(M) == Count(net["host"], M) + Count(net["daemon"], M)
Goes ==
    CASE kind = "dir" -> closing[Slave]
      [] kind = "install" -> (IF lastErrno[Slave] THEN 0 ELSE closing[Slave]) + async + owed["daemon"]
      [] kind = "uninstall" -> async + owed["daemon"]
      [] OTHER -> 0
Tok == Carried(TokenMsg) + opening[origin] + opening[Slave] + Goes
Check(n) == In(net[Slave], Msg("X_CHECK", n))
Asks == In(net[origin], Begin0)
DataOf(p) == Msg("X_DATA", Code(p))
Sent(p) == In(net[Slave], DataOf(p))
Wr(p) == \E x \in Writes : In(io[Slave], x) /\ x.piece = p
Way(p) == Sent(p) \/ Wr(p)
NoFlow == io[origin] = <<>> /\ io[Slave] = <<>> /\ \A p \in Pieces : ~Sent(p)
TokenInv ==
    /\ Tok <= 1
    /\ Tok = 1 => NoFlow
    /\ kind = "install" /\ lastErrno[Slave] => Tok = 0

\* Which file both ends are at.
Ahead == cur[Slave] < Begun /\ fd[Slave] < Begun
Announced == cur[origin] = Begun /\ fd[origin] = Begun /\ Begun >= 1
PlacedInv ==
    /\ cur[Slave] <= Begun /\ fd[Slave] <= Begun
    /\ opening[origin] > 0 => Ahead
    /\ \A n \in File : Check(n) =>
          n = Begun /\ Announced /\ Ahead /\ indexIO[origin] = 0
    /\ opening[Slave] > 0 => Announced /\ cur[Slave] = Begun /\ fd[Slave] < Begun /\ indexIO[origin] = 0
    /\ Asks => indexIO[origin] = 0
    /\ Asks \/ ~NoFlow => Announced /\ cur[Slave] = Begun /\ fd[Slave] = Begun

\* The slave counts the pieces it has.
Got(g) == {i \in 0 .. MaxSize : disk[g][i] = g}
CountInv ==
    cur[Slave] # 0 /\ fd[Slave] = cur[Slave] =>
      /\ \A i \in Got(cur[Slave]) : i < size[cur[Slave]]
      /\ indexIO[Slave] = Cardinality(Got(cur[Slave]))
      /\ cur[origin] = cur[Slave] => \A i \in Got(cur[Slave]) : i < indexIO[origin]

\* One read is under way, and each piece once.
Reading(x) ==
    /\ x.to = Begun /\ x.piece.i = indexIO[origin]
    /\ \/ indexIO[origin] < size[Begun]
       \/ size[Begun] = 0 /\ indexIO[origin] = 0 /\ \A p \in Pieces : ~Way(p)
Flying(p) ==
    /\ p.f = Begun
    /\ \/ p.len = 1 /\ p.i < size[Begun] /\ p.i < indexIO[origin] /\ disk[Begun][p.i] # Begun
       \/ p.len = 0 /\ p.i = 0 /\ size[Begun] = 0
FlowInv ==
    /\ Len(io[origin]) <= 1
    /\ \A x \in Reads : In(io[origin], x) => Reading(x)
    /\ \A x \in Writes : Single(io[Slave], x) /\ (In(io[Slave], x) => x.to = Begun)
    /\ \A p \in Pieces : /\ Way(p) => Flying(p)
                         /\ Single(net[Slave], DataOf(p)) /\ ~(Sent(p) /\ Wr(p))
    /\ kind \in {"dir", "install"} /\ ioFinish[Slave]
       /\ (~NoFlow \/ Asks) => lastErrno[Slave]

\* What has happened when a file or the transfer is said to be finished.
OkSaid == "ok" \in told \/ In(net["host"], EchoOf("ok"))
Fin(d, n) == In(net[d], Msg("FILE_FINISH", n))
AllWhole == queue = 0 /\ Tok = 0 /\ \A g \in 1 .. NumFiles : Whole(g)
DirInv == kind = "dir" =>
    /\ \A d \in End : ~lastErrno[d]
    /\ ~closeNotify[origin] /\ ~Fin(Slave, 1) /\ ~Fin(origin, 0)
    /\ closing[Slave] > 0 => closeNotify[Slave]
    /\ \A g \in 1 .. (Begun - 1) : Whole(g)
    /\ (closing[Slave] > 0 \/ Fin(origin, 1)) => Begun >= 1 /\ Whole(Begun) /\ NoFlow
    /\ (Fin(Slave, 0) \/ OkSaid) => AllWhole /\ NoFlow
InstallInv == kind = "install" =>
    /\ closing[Slave] > 0 => closeNotify[Slave]
    /\ ((closing[Slave] > 0 /\ ~lastErrno[Slave]) \/ async > 0) => cur[Slave] >= 1 /\ Whole(cur[Slave])
SmallRead == size[1] = 0 \/ indexIO[origin] < size[1]
FileInv == kind = "file" =>
    /\ (Fin(origin, 1) \/ Fin(Slave, 0) \/ closing[Slave] > 0)
       => Tok = 0 /\ cur[Slave] = 1 /\ fd[Slave] = 1
    /\ closeNotify[origin] => Tok = 0 /\ io[origin] = <<>> /\ cur[origin] = 1 /\ queue = 0 /\ SmallRead
    /\ (Fin(Slave, 1) \/ Fin(origin, 0)) => closeNotify[origin]
    /\ OkSaid => AllWhole

Careful == kind = "dir" => \A op \in {"read", "write"} : ~Fault(op)
SendInv == PlacedInv /\ CountInv /\ FlowInv /\ DirInv /\ InstallInv /\ FileInv
XferData ==
    /\ XTypes /\ XNet /\ FreshInv
    /\ Careful => TokenInv
    /\ Careful /\ Sending => SendInv

\* The ends, and the number of files.
LEMMA XEnds ==
    ASSUME origin \in End, IsTransfer
    PROVE  /\ Slave \in End /\ Slave # origin /\ Other(origin) = Slave /\ Other(Slave) = origin
           /\ \A d \in End : d = origin \/ d = Slave
           /\ origin = "host" => Slave = "daemon"
           /\ origin = "daemon" => Slave = "host"
           /\ Sending \/ kind = "uninstall"
           /\ Sending => kind # "uninstall" /\ NumFiles \in 1 .. NFiles
           /\ kind = "uninstall" => NumFiles = 0
           /\ NumFiles \in 0 .. NFiles /\ NumFiles \in Nat /\ 1 .. NumFiles \subseteq File
           /\ kind \in {"file", "sideload"} => NumFiles = 1
           /\ NFiles \in Nat /\ NFiles >= 1
<1>1. NFiles \in Nat /\ NFiles >= 1
  BY TransferAssumption
<1>2. /\ Sending \/ kind = "uninstall"
      /\ Sending => kind # "uninstall" /\ (NumFiles = NFiles \/ NumFiles = 1)
      /\ kind = "uninstall" => NumFiles = 0
      /\ kind \in {"file", "sideload"} => NumFiles = 1
  BY DEF Sending, IsTransfer, NumFiles
<1>3. /\ Slave \in End /\ Slave # origin /\ Other(origin) = Slave /\ Other(Slave) = origin
      /\ \A d \in End : d = origin \/ d = Slave
      /\ origin = "host" => Slave = "daemon"
      /\ origin = "daemon" => Slave = "host"
  BY DEF Slave, Other, End
<1>4. NumFiles \in 0 .. NFiles /\ NumFiles \in Nat /\ (Sending => NumFiles \in 1 .. NFiles)
  BY <1>1, <1>2
<1>5. 1 .. NumFiles \subseteq File
  BY <1>1, <1>4 DEF File
<1> QED BY <1>1, <1>2, <1>3, <1>4, <1>5

\* These depend on the command only.
LEMMA XConstant ==
    ASSUME UNCHANGED <<kind, origin>>
    PROVE  /\ Slave' = Slave /\ NumFiles' = NumFiles /\ (Sending' <=> Sending)
           /\ (IsFile' <=> IsFile) /\ (IsTransfer' <=> IsTransfer)
           /\ TokenMsg' = TokenMsg /\ (Careful' <=> Careful)
           /\ \A d : XSays(d)' = XSays(d)
<1>1. Slave' = Slave
  BY DEF Slave
<1>2. NumFiles' = NumFiles
  BY DEF NumFiles
<1>3. (Sending' <=> Sending) /\ (IsFile' <=> IsFile) /\ (IsTransfer' <=> IsTransfer)
  BY DEF Sending, IsFile, IsTransfer
<1>4. TokenMsg' = TokenMsg
  BY DEF TokenMsg
<1>5. Careful' <=> Careful
  BY DEF Careful, Fault
<1>6. ASSUME NEW d PROVE XSays(d)' = XSays(d)
  BY <1>1, <1>2, <1>3 DEF XSays
<1> QED BY <1>1, <1>2, <1>3, <1>4, <1>5, <1>6

\* The messages.
XCmds == {"WAKEUP", "X_INIT", "X_CHECK", "X_BEGIN", "X_DATA", "FILE_FINISH", "APP_FINISH",
          "APP_UNINSTALL", "ECHO_OK", "ECHO_FAIL", "CLOSE"}

\* Messages are told apart by their command and their number.
LEMMA XMessages ==
    /\ \A c \in XCmds, n \in 0 .. 1 : Msg(c, n) \in XferMsg
    /\ \A n \in File : Msg("X_CHECK", n) \in XferMsg
    /\ \A p \in Piece : DataOf(p) \in XferMsg
    /\ \A c, n : Msg(c, n).cmd = c /\ Msg(c, n).n = n
    /\ \A c, n, b, l : Msg(c, n) = Msg(b, l) => c = b /\ n = l
    /\ \A h \in XferMsg : h = Msg(h.cmd, h.n) /\ h.cmd \in XCmds /\ h.n \in Nat
<1> DEFINE k == MaxSize + 1
           b == (NFiles + 1) * k
<1>1. k \in Nat /\ k >= 1 /\ NFiles \in Nat
  BY Largest, TransferAssumption
<1>2. b \in Nat /\ NFiles + 1 <= b
  <2> HIDE DEF k
  <2>1. b = k * (NFiles + 1) /\ b \in Nat
    BY <1>1
  <2>2. CASE k = 1
    BY <2>1, <2>2, <1>1
  <2>3. CASE k # 1
    <3>1. 1 < k
      BY <2>3, <1>1
    <3>2. 1 * (NFiles + 1) + (NFiles + 1) <= k * (NFiles + 1)
      BY <3>1, <1>1, Grows
    <3> HIDE DEF b
    <3> QED BY <3>2, <2>1, <1>1
  <2> QED BY <2>2, <2>3
<1> HIDE DEF b
<1>3. 0 .. 1 \subseteq 0 .. (b * 2) /\ File \subseteq 0 .. (b * 2)
  BY <1>1, <1>2 DEF File
<1>4. XferMsg = [cmd : XCmds, n : 0 .. (b * 2)]
  BY DEF XferMsg, XCmds, b
<1>5. \A p \in Piece : Code(p) \in 0 .. (b * 2)
  BY Coded DEF b
<1>6. "X_CHECK" \in XCmds /\ "X_DATA" \in XCmds
  BY DEF XCmds
<1>7. \A n \in 0 .. (b * 2) : n \in Nat
  BY <1>2
<1> QED BY <1>3, <1>4, <1>5, <1>6, <1>7 DEF Msg, DataOf

\* Messages that carry nothing of a transfer.
MuteMsg == {h \in XferMsg : h.cmd \in {"WAKEUP", "CLOSE", "ECHO_OK", "ECHO_FAIL"}}
Mute(out) == out \in Seq(XferMsg) /\ \A m : In(out, m) => m \in MuteMsg

\* They are no token, ask for nothing and say that nothing has finished.
LEMMA MuteFacts ==
    \A h \in MuteMsg : /\ \A d : h \in XSays(d)
                       /\ h \notin TokenMsg /\ h # Init0 /\ h # Begin0
                       /\ \A n : h # Msg("X_CHECK", n) /\ h # Msg("FILE_FINISH", n) /\ h # Msg("X_DATA", n)
BY XMessages DEF MuteMsg, XSays, TokenMsg, Init0, Begin0

\* Most of what handlers send is of this kind.
LEMMA MuteSends ==
    /\ Mute(<<>>) /\ Mute(Finish) /\ Mute(<<Wakeup>>) /\ \A n \in 0 .. 1 : Mute(<<Close(n)>>)
    /\ \A e, lv : Mute(Log(e, lv)) /\ Mute(Log(e, lv) \o Finish)
    /\ \A e : Mute(Fails(e)) /\ Mute(<<Wakeup>> \o Fails(e))
    /\ \A e, lv : Mute(Log(e, lv) \o Out(e, Finish))
    /\ \A m \in MuteMsg : Mute(<<m>>)
<1>1. Mute(<<>>)
  BY Emptied DEF Mute
<1>2. ASSUME NEW m \in MuteMsg PROVE Mute(<<m>>)
  <2>1. <<m>> \in Seq(XferMsg)
    BY DEF MuteMsg
  <2> QED BY <2>1, Few DEF Mute
<1>3. \A c \in {"WAKEUP", "CLOSE", "ECHO_OK", "ECHO_FAIL"}, n \in 0 .. 1 : Msg(c, n) \in MuteMsg
  BY XMessages DEF MuteMsg, XCmds
<1>4. Mute(<<Wakeup>>) /\ \A n \in 0 .. 1 : Mute(<<Close(n)>>)
  BY <1>2, <1>3 DEF Wakeup, Close
<1>5. Mute(Finish)
  BY <1>4 DEF Finish
<1>6. \A e, lv : Mute(Log(e, lv))
  BY <1>1, <1>2, <1>3 DEF Log, EchoOf
<1>7. ASSUME NEW a, NEW b, Mute(a), Mute(b) PROVE Mute(a \o b)
  <2>1. a \in Seq(XferMsg) /\ b \in Seq(XferMsg)
    BY <1>7 DEF Mute
  <2> QED BY <2>1, <1>7, Joined DEF Mute
<1>8. \A e, lv : Mute(Log(e, lv) \o Finish) /\ Mute(Log(e, lv) \o Out(e, Finish))
  BY <1>1, <1>5, <1>6, <1>7 DEF Out
<1>9. \A e : Mute(Fails(e))
  BY <1>8 DEF Fails
<1>10. \A e : Mute(<<Wakeup>> \o Fails(e))
  BY <1>4, <1>9, <1>7
<1> QED BY <1>1, <1>2, <1>4, <1>5, <1>6, <1>8, <1>9, <1>10

\* The message that begins a transfer is under way.
Fresh == In(net[origin], Init0)

\* Nothing else can happen then.
LEMMA NotFresh ==
    ASSUME FreshInv, origin \in End, NEW e \in End, XTypes, XNet,
           \/ net[e] # <<>> /\ Head(net[e]).cmd \notin {"X_INIT", "CLOSE"}
           \/ opening[e] > 0 \/ closing[e] > 0 \/ async > 0
           \/ \E j \in DOMAIN io[e] : TRUE
    PROVE  ~Fresh
<1> SUFFICES ASSUME Fresh PROVE FALSE
  OBVIOUS
<1>1. /\ \A d \in End : \A i \in 1 .. Len(net[d]) : net[d][i] = Init0 \/ net[d][i].cmd = "CLOSE"
      /\ async = 0 /\ opening[e] = 0 /\ closing[e] = 0 /\ io[e] = <<>>
  BY DEF FreshInv, Fresh
<1>2. CASE net[e] # <<>> /\ Head(net[e]).cmd \notin {"X_INIT", "CLOSE"}
  <2>1. net[e] \in Seq(XferMsg)
    BY DEF XNet
  <2>2. 1 \in 1 .. Len(net[e]) /\ Head(net[e]) = net[e][1]
    BY <1>2, <2>1
  <2>3. Init0.cmd = "X_INIT"
    BY XMessages DEF Init0
  <2> QED BY <1>1, <1>2, <2>2, <2>3
<1> QED BY <1>1, <1>2

\* What is under way after a step.
LEMMA XSends ==
    ASSUME XNet, origin \in End, IsTransfer, UNCHANGED <<kind, origin>>, NEW e \in End, NEW rest,
           Rests(e, rest), NEW out \in Seq(XferMsg), Passes(e, rest, out),
           \A m : In(out, m) => m \in XSays(Other(e)) /\ m # Init0
    PROVE  XNet' /\ (Fresh' => Fresh)
<1>1. /\ net' \in [End -> Seq(XferMsg)] /\ rest \in Seq(XferMsg)
      /\ \A m : In(net'[e], m) => In(rest, m)
      /\ \A m : In(rest, m) => In(net[e], m)
      /\ \A m : In(net'[Other(e)], m) => In(net[Other(e)], m) \/ In(out, m)
  BY PassFacts DEF XNet
<1>2. \A d \in End : d = e \/ d = Other(e)
  BY Ends2
<1>3. \A d \in End : \A m : In(net[d], m) => m \in XSays(d)
  BY DEF XNet, In
<1>4. ASSUME NEW d \in End, NEW m, In(net'[d], m) PROVE m \in XSays(d) /\ (m = Init0 => In(net[d], m))
  BY <1>1, <1>2, <1>3, <1>4
<1>5. \A d : XSays(d)' = XSays(d)
  BY XConstant
<1>6. \A d \in End : \A i \in 1 .. Len(net'[d]) : In(net'[d], net'[d][i])
  BY DEF In
<1>7. XNet'
  BY <1>1, <1>4, <1>5, <1>6 DEF XNet
<1>8. Fresh' => Fresh
  <2>1. Init0' = Init0
    BY DEF Init0, Msg
  <2>2. Fresh' <=> In(net'[origin], Init0)
    BY <2>1 DEF Fresh, In
  <2> QED BY <2>2, <1>4 DEF Fresh
<1> QED BY <1>7, <1>8

\* What holds before a step of a transfer, whatever fails.
XBase == IsTransfer /\ IInv /\ TaskTypes /\ XTypes /\ XNet /\ FreshInv
XKept == UNCHANGED <<kind, origin>> /\ XTypes' /\ XNet' /\ FreshInv'


\* In particular.
LEMMA XBaseFacts ==
    ASSUME XBase
    PROVE  /\ origin \in End /\ IsTransfer /\ XTypes /\ XNet /\ FreshInv
           /\ opening \in [End -> Nat] /\ closing \in [End -> Nat] /\ async \in Nat
           /\ owed \in [End -> Int] /\ \A d \in End : owed[d] >= 0
           /\ session \in {"up", "down"} /\ net \in [End -> Seq(XferMsg)]
           /\ \A d \in End : \A m : In(net[d], m) => m \in XSays(d)
           /\ \A d \in End : io[d] = <<>> \/ DOMAIN io[d] # {}
<1>1. /\ origin \in End /\ IsTransfer /\ XTypes /\ XNet /\ FreshInv
      /\ opening \in [End -> Nat] /\ closing \in [End -> Nat] /\ async \in Nat
      /\ owed \in [End -> Int] /\ \A d \in End : owed[d] >= 0
      /\ session \in {"up", "down"} /\ net \in [End -> Seq(XferMsg)]
  BY DEF XBase, IInv, BaseTypes, XferInv, TaskTypes, XNet
<1>2. \A d \in End : \A m : In(net[d], m) => m \in XSays(d)
  BY <1>1 DEF XNet, In
<1>3. \A d \in End : io[d] = <<>> \/ DOMAIN io[d] # {}
  <2>1. \A s \in Seq(Reads) : s = <<>> \/ DOMAIN s # {}
    OBVIOUS
  <2>2. \A s \in Seq(Writes) : s = <<>> \/ DOMAIN s # {}
    OBVIOUS
  <2> QED BY <2>1, <2>2, <1>1, XEnds DEF XTypes
<1> QED BY <1>1, <1>2, <1>3

\* A handler of a message, and one of an event: what is under way then.
LEMMA XHandled ==
    ASSUME XBase, NEW e \in End, NEW lvs, NEW out \in Seq(XferMsg), UNCHANGED <<kind, origin, session>>,
           \/ Emit(e, lvs, out) \/ (Answer(e, lvs, out) /\ net[e] # <<>>),
           \A m : In(out, m) => m \in XSays(Other(e)) /\ m # Init0, ~Fresh
    PROVE  XNet' /\ FreshInv' /\ ~Fresh'
<1>1. PICK rest : Rests(e, rest) /\ Passes(e, rest, out)
  BY XBaseFacts, PassBy
<1>2. XNet' /\ ~Fresh'
  BY <1>1, XBaseFacts, XSends
<1>3. FreshInv'
  BY <1>2 DEF FreshInv, Fresh
<1> QED BY <1>2, <1>3

\* Nothing is sent, or nothing of a transfer.
LEMMA XMute ==
    ASSUME XBase, NEW e \in End, NEW lvs, NEW out, Mute(out), UNCHANGED <<kind, origin, session>>,
           \/ Emit(e, lvs, out) \/ (Answer(e, lvs, out) /\ net[e] # <<>>), ~Fresh
    PROVE  XNet' /\ FreshInv' /\ ~Fresh'
<1>1. out \in Seq(XferMsg) /\ \A m : In(out, m) => m \in XSays(Other(e)) /\ m # Init0
  BY MuteFacts DEF Mute
<1> QED BY <1>1, XHandled

\* No message is sent.
LEMMA XSilent ==
    ASSUME XBase, UNCHANGED <<kind, origin, net>>, ~Fresh
    PROVE  XNet' /\ FreshInv' /\ ~Fresh'
<1>1. "host" \in End
  BY DEF End
<1>2. Rests("host", net["host"]) /\ Passes("host", net["host"], <<>>)
  BY <1>1, XBaseFacts, PassBy
<1>3. <<>> \in Seq(XferMsg) /\ \A m : ~In(<<>>, m)
  BY Emptied
<1>4. XNet' /\ ~Fresh'
  BY <1>1, <1>2, <1>3, XBaseFacts, XSends
<1> QED BY <1>4 DEF FreshInv, Fresh

\* One message.
LEMMA XOne ==
    ASSUME XBase, NEW e \in End, NEW lvs, NEW m \in XSays(Other(e)), m # Init0,
           UNCHANGED <<kind, origin, session>>,
           \/ Emit(e, lvs, <<m>>) \/ (Answer(e, lvs, <<m>>) /\ net[e] # <<>>)
           \/ Emit(e, lvs, Out(e, <<m>>)), ~Fresh
    PROVE  XNet' /\ FreshInv' /\ ~Fresh'
<1>1. <<m>> \in Seq(XferMsg)
  BY DEF XSays
<1>2. \A x : In(<<m>>, x) => x \in XSays(Other(e)) /\ x # Init0
  BY Few
<1>3. CASE Emit(e, lvs, <<m>>) \/ (Answer(e, lvs, <<m>>) /\ net[e] # <<>>)
  BY <1>1, <1>2, <1>3, XHandled
<1>4. CASE Emit(e, lvs, Out(e, <<m>>))
  BY <1>3, <1>4, MuteSends, XMute DEF Out
<1> QED BY <1>3, <1>4

\* The message that was taken.
LEMMA XTaken ==
    ASSUME XBase, NEW e \in End, net[e] # <<>>
    PROVE  LET h == Head(net[e]) IN
           /\ h \in XSays(e) /\ h \in XferMsg /\ In(net[e], h) /\ h = Msg(h.cmd, h.n)
           /\ h.cmd \notin {"X_INIT", "CLOSE"} => ~Fresh
<1>1. net[e] \in Seq(XferMsg)
  BY XBaseFacts
<1>2. In(net[e], Head(net[e]))
  BY <1>1, Taken
<1> QED BY <1>2, XBaseFacts, NotFresh, XMessages DEF XSays

\* The first file is opened, or the command is wrong.
LEMMA XBegin ==
    ASSUME XBase, NEW e \in End, BeginTransfer(e)
    PROVE  XKept /\ e = origin /\ Fresh /\ Sending /\ ~Fresh'
<1> USE XBaseFacts
<1>0. /\ net[e] # <<>> /\ Head(net[e]).cmd = "X_INIT" /\ kind # "uninstall"
      /\ UNCHANGED <<kind, origin, session, owed, size, cur, fd, closing, io, indexIO, ioFinish,
                     closeNotify, lastErrno, disk, async>>
  BY DEF BeginTransfer, Creates
<1>1. e = origin /\ Head(net[e]) = Init0 /\ In(net[e], Init0)
  BY <1>0, XTaken DEF XSays, Init0
<1>2. Fresh /\ Single(net[e], Init0) /\ Sending
  BY <1>0, <1>1, XEnds DEF FreshInv, Fresh
<1>3. PICK out : Mute(out) /\ \E lvs : Answer(e, lvs, out)
  BY MuteSends DEF BeginTransfer
<1>4. Rests(e, Tail(net[e])) /\ Passes(e, Tail(net[e]), out)
  BY <1>0, <1>3, PassBy
<1>5. out \in Seq(XferMsg) /\ \A m : In(out, m) => m \in XSays(Other(e)) /\ m # Init0
  BY <1>3, MuteFacts DEF Mute
<1>6. XNet'
  BY <1>0, <1>4, <1>5, XSends
<1>7. ~Fresh'
  <2>1. \A m : In(net'[e], m) => In(Tail(net[e]), m)
    BY <1>4, <1>5, PassFacts
  <2>2. ~In(Tail(net[e]), Init0)
    BY <1>0, <1>1, <1>2, Taken
  <2>3. Init0' = Init0 /\ origin' = origin
    BY <1>0 DEF Init0, Msg
  <2>4. Fresh' <=> In(net'[origin], Init0)
    BY <2>3 DEF Fresh, In
  <2> QED BY <2>1, <2>2, <2>4, <1>1
<1>8. XTypes'
  <2>1. queue = NumFiles /\ NumFiles \in Nat /\ NumFiles >= 1
    BY <1>2, XEnds DEF FreshInv, Fresh
  <2>2. queue' \in 0 .. NumFiles /\ (opening'[origin] > 0 => queue' < NumFiles)
    <3>1. CASE OpenNext(e)
      BY <3>1, <2>1 DEF OpenNext
    <3>2. CASE UNCHANGED <<queue, opening>>
      BY <3>2 DEF XTypes
    <3> QED BY <3>1, <3>2 DEF BeginTransfer
  <2> QED BY <1>0, <1>2, <2>2, XConstant DEF XTypes
<1> QED BY <1>0, <1>1, <1>2, <1>6, <1>7, <1>8 DEF XKept, FreshInv, Fresh

\* A file is opened.
LEMMA XOpens ==
    ASSUME XBase, NEW e \in End, OnFileOpen(e)
    PROVE  XKept /\ Sending /\ ~Fresh /\ ~Fresh'
<1> USE XBaseFacts
<1>0. /\ opening[e] > 0
      /\ opening' = [opening EXCEPT ![e] = @ - 1]
      /\ UNCHANGED <<kind, origin, session, owed, size, queue, closing, io, async>>
  BY DEF OnFileOpen
<1>1. Sending /\ ~Fresh
  <2>1. Sending
    BY <1>0 DEF XTypes
  <2> QED BY <2>1, <1>0, NotFresh
<1>2. XNet' /\ FreshInv' /\ ~Fresh'
  <2>1. CASE \E lvs : Emit(e, lvs, Log(e, "fail") \o Out(e, Finish))
    BY <2>1, <1>0, <1>1, MuteSends, XMute
  <2>2. CASE e = origin /\ Emit(e, {}, Out(e, <<Msg("X_CHECK", NumFiles - queue)>>))
    <3> DEFINE n == NumFiles - queue
    <3>1. n \in 1 .. NumFiles /\ n \in File
      <4>1. queue \in 0 .. NumFiles /\ queue < NumFiles /\ NumFiles \in 1 .. NFiles
        BY <2>2, <1>0, <1>1, XEnds DEF XTypes
      <4> QED BY <4>1, XEnds
    <3> HIDE DEF n
    <3>2. Msg("X_CHECK", n) \in XSays(Other(e)) /\ Msg("X_CHECK", n) # Init0
      BY <3>1, <2>2, <1>1, XMessages, XEnds DEF XSays, Init0
    <3>3. Emit(e, {}, Out(e, <<Msg("X_CHECK", n)>>))
      BY <2>2 DEF n
    <3> QED BY <3>2, <3>3, <1>0, <1>1, XOne
  <2>3. CASE e # origin /\ Emit(e, {}, Out(e, <<Msg("X_BEGIN", 0)>>))
    <3>1. Msg("X_BEGIN", 0) \in XSays(Other(e)) /\ Msg("X_BEGIN", 0) # Init0
      BY <2>3, <1>1, XMessages, XEnds DEF XSays, Init0, XCmds
    <3> QED BY <3>1, <2>3, <1>0, <1>1, XOne
  <2> QED BY <2>1, <2>2, <2>3 DEF OnFileOpen
<1>3. XTypes'
  <2>0. NumFiles \in 0 .. NFiles /\ NumFiles \in Nat /\ NFiles \in Nat /\ queue \in 0 .. NumFiles
    BY XEnds DEF XTypes
  <2>1. NumFiles - queue \in 0 .. NumFiles
    BY <2>0
  <2>2. cur' \in [End -> 0 .. NumFiles] /\ fd' \in [End -> 0 .. NumFiles]
    <3>1. e = origin => cur' = [cur EXCEPT ![e] = NumFiles - queue] \/ UNCHANGED cur
      BY DEF OnFileOpen
    <3>2. e # origin => UNCHANGED cur
      BY DEF OnFileOpen
    <3>3. \E f \in 0 .. NumFiles : fd' = [fd EXCEPT ![e] = f]
      <4>1. 0 \in 0 .. NumFiles /\ cur[e] \in 0 .. NumFiles
        BY <2>0 DEF XTypes
      <4>2. fd' = [fd EXCEPT ![e] = 0] \/ fd' = [fd EXCEPT ![e] = cur[e]]
            \/ fd' = [fd EXCEPT ![e] = NumFiles - queue]
        BY DEF OnFileOpen
      <4> QED BY <2>1, <4>1, <4>2
    <3>4. cur \in [End -> 0 .. NumFiles] /\ fd \in [End -> 0 .. NumFiles]
      BY DEF XTypes
    <3>5. \A f \in 0 .. NumFiles : /\ [cur EXCEPT ![e] = f] \in [End -> 0 .. NumFiles]
                                  /\ [fd EXCEPT ![e] = f] \in [End -> 0 .. NumFiles]
      BY <3>4
    <3>6. cur' \in [End -> 0 .. NumFiles]
      BY <2>1, <3>1, <3>2, <3>4, <3>5
    <3> QED BY <3>3, <3>5, <3>6
  <2>3. /\ indexIO' \in [End -> 0 .. MaxSize]
        /\ \A d \in End : ioFinish'[d] \/ indexIO'[d] = 0 \/ indexIO'[d] < MaxSize
        /\ ioFinish' \in [End -> BOOLEAN] /\ closeNotify' \in [End -> BOOLEAN]
        /\ lastErrno' \in [End -> BOOLEAN] /\ \A d \in End : lastErrno'[d] => closeNotify'[d]
    <3>1. CASE ResetCtx(e)
      <4>1. 0 \in 0 .. MaxSize
        BY Largest
      <4> QED BY <3>1, <4>1 DEF ResetCtx, XTypes
    <3>2. CASE UNCHANGED <<indexIO, ioFinish, closeNotify, lastErrno>>
      BY <3>2 DEF XTypes
    <3> QED BY <3>1, <3>2 DEF OnFileOpen
  <2>4. disk' \in [File -> [0 .. MaxSize -> 0 .. NFiles]]
    <3>1. Empty \in [0 .. MaxSize -> 0 .. NFiles]
      BY <2>0 DEF Empty
    <3>2. UNCHANGED disk \/ \E g : disk' = [disk EXCEPT ![g] = Empty]
      BY DEF OnFileOpen
    <3> QED BY <3>1, <3>2 DEF XTypes
  <2>5. opening'[origin] > 0 => queue < NumFiles
    BY <1>0 DEF XTypes
  <2> QED BY <1>0, <1>1, <2>2, <2>3, <2>4, <2>5, XConstant DEF XTypes
<1> QED BY <1>0, <1>1, <1>2, <1>3 DEF XKept

\* The slave is told of a file.
LEMMA XChecks ==
    ASSUME XBase, NEW e \in End, SlaveCheckFile(e)
    PROVE  /\ XKept /\ Sending /\ ~Fresh /\ ~Fresh' /\ e = Slave
           /\ Arg(e) \in 1 .. NumFiles /\ In(net[e], Msg("X_CHECK", Arg(e)))
           /\ Head(net[e]) = Msg("X_CHECK", Arg(e)) /\ net[e] # <<>>
<1> USE XBaseFacts
<1>0. /\ net[e] # <<>> /\ Head(net[e]).cmd = "X_CHECK"
      /\ cur' = [cur EXCEPT ![e] = Arg(e)]
      /\ opening' = [opening EXCEPT ![e] = @ + 1] \/ UNCHANGED opening
      /\ UNCHANGED <<kind, origin, session, owed, size, queue, fd, closing, io, indexIO, ioFinish,
                     closeNotify, lastErrno, disk, async>>
  BY DEF SlaveCheckFile, Gets
<1>1. /\ Sending /\ ~Fresh /\ e = Slave /\ Arg(e) \in 1 .. NumFiles
      /\ Head(net[e]) = Msg("X_CHECK", Arg(e)) /\ In(net[e], Msg("X_CHECK", Arg(e)))
  BY <1>0, XTaken DEF XSays, Arg
<1>2. XNet' /\ FreshInv' /\ ~Fresh'
  <2>1. \E out : Mute(out) /\ \E lvs : Answer(e, lvs, out)
    BY MuteSends DEF SlaveCheckFile
  <2> QED BY <2>1, <1>0, <1>1, XMute
<1>3. XTypes'
  <2>1. cur' \in [End -> 0 .. NumFiles]
    <3>1. Arg(e) \in 0 .. NumFiles
      BY <1>1, XEnds
    <3> QED BY <3>1, <1>0 DEF XTypes
  <2>2. opening'[origin] = opening[origin]
    BY <1>0, <1>1, XEnds
  <2> QED BY <1>0, <1>1, <2>1, <2>2, XConstant DEF XTypes
<1> QED BY <1>0, <1>1, <1>2, <1>3 DEF XKept

\* The first read, and a piece for the slave.
LEMMA XBegins ==
    ASSUME XBase, NEW e \in End, MasterBegin(e)
    PROVE  /\ XKept /\ Sending /\ ~Fresh /\ ~Fresh' /\ e = origin
           /\ Head(net[e]) = Begin0 /\ In(net[e], Begin0) /\ net[e] # <<>>
           /\ ReadAt(e, indexIO[e]) \in Reads
<1> USE XBaseFacts
<1>0. /\ net[e] # <<>> /\ Head(net[e]).cmd = "X_BEGIN"
      /\ UNCHANGED <<kind, origin, session, owed, size, queue, cur, fd, opening, closing, indexIO,
                     ioFinish, closeNotify, lastErrno, disk, async>>
      /\ UNCHANGED io \/ io' = [io EXCEPT ![e] = Append(@, ReadAt(e, indexIO[e]))]
  BY DEF MasterBegin, Gets, RefusedIO
<1>1. /\ Sending /\ ~Fresh /\ e = origin /\ Head(net[e]) = Begin0 /\ In(net[e], Begin0)
  <2>1. LET h == Head(net[e]) IN h \in XSays(e) /\ In(net[e], h) /\ h = Msg(h.cmd, h.n) /\ ~Fresh
    BY <1>0, XTaken
  <2>2. Sending /\ e = origin /\ Head(net[e]).n = 0
    BY <2>1, <1>0 DEF XSays
  <2> QED BY <2>1, <2>2, <1>0 DEF Begin0
<1>2. XNet' /\ FreshInv' /\ ~Fresh'
  <2>1. \E out : Mute(out) /\ \E lvs : Answer(e, lvs, out)
    BY MuteSends DEF MasterBegin, RefusedIO
  <2> QED BY <2>1, <1>0, <1>1, XMute
<1>3. ReadAt(e, indexIO[e]) \in Reads
  <2>0. fd[e] \in 0 .. NumFiles /\ indexIO[e] \in 0 .. MaxSize
    BY DEF XTypes
  <2>1. fd[e] \in 0 .. NFiles
    BY <2>0, XEnds
  <2> QED BY <2>0, <2>1 DEF ReadAt, Request, Reads, Pieces, Piece
<1>4. XTypes'
  <2>1. DOMAIN io' = End /\ io'[origin] \in Seq(Reads) /\ io'[Slave] \in Seq(Writes)
    <3>1. CASE UNCHANGED io
      BY <3>1 DEF XTypes
    <3>2. CASE io' = [io EXCEPT ![e] = Append(@, ReadAt(e, indexIO[e]))]
      <4>1. io'[origin] = Append(io[origin], ReadAt(e, indexIO[e])) /\ io'[Slave] = io[Slave]
            /\ DOMAIN io' = End
        BY <3>2, <1>1, XEnds DEF XTypes
      <4>2. Append(io[origin], ReadAt(e, indexIO[e])) \in Seq(Reads)
        BY <1>3, PutIn DEF XTypes
      <4> QED BY <4>1, <4>2 DEF XTypes
    <3> QED BY <1>0, <3>1, <3>2
  <2> QED BY <1>0, <1>1, <2>1, XConstant DEF XTypes
<1> QED BY <1>0, <1>1, <1>2, <1>3, <1>4 DEF XKept

\* A piece for the slave.
Writing(e) == Request(e, "write", PieceOf(Arg(e)))

\* A piece comes to the slave.
LEMMA XPieces ==
    ASSUME XBase, NEW e \in End, SlaveData(e)
    PROVE  /\ XKept /\ Sending /\ ~Fresh /\ ~Fresh' /\ e = Slave /\ net[e] # <<>>
           /\ PieceOf(Arg(e)) \in Pieces /\ Writing(e) \in Writes
           /\ Head(net[e]) = DataOf(PieceOf(Arg(e))) /\ In(net[e], DataOf(PieceOf(Arg(e))))
<1> USE XBaseFacts
<1>0. /\ net[e] # <<>> /\ Head(net[e]).cmd = "X_DATA"
      /\ UNCHANGED <<kind, origin, session, owed, size, queue, cur, fd, opening, closing, indexIO,
                     ioFinish, closeNotify, lastErrno, disk, async>>
      /\ UNCHANGED io \/ io' = [io EXCEPT ![e] = Append(@, Writing(e))]
  BY DEF SlaveData, Gets, RefusedIO, Writing
<1>1. /\ Sending /\ ~Fresh /\ e = Slave /\ In(net[e], Head(net[e]))
      /\ Head(net[e]) = Msg("X_DATA", Arg(e)) /\ \E p \in Pieces : Arg(e) = Code(p)
  BY <1>0, XTaken DEF XSays, Arg
<1>2. PieceOf(Arg(e)) \in Pieces /\ Head(net[e]) = DataOf(PieceOf(Arg(e)))
  <2>1. PICK p \in Pieces : Arg(e) = Code(p)
    BY <1>1
  <2>2. PieceOf(Arg(e)) = p
    BY <2>1, Coded DEF Pieces
  <2> QED BY <2>1, <2>2, <1>1 DEF DataOf
<1>3. XNet' /\ FreshInv' /\ ~Fresh'
  <2>1. \E out : Mute(out) /\ \E lvs : Answer(e, lvs, out)
    BY MuteSends DEF SlaveData, RefusedIO
  <2> QED BY <2>1, <1>0, <1>1, XMute
<1>4. Writing(e) \in Writes
  <2>0. fd[e] \in 0 .. NumFiles
    BY DEF XTypes
  <2>1. fd[e] \in 0 .. NFiles
    BY <2>0, XEnds
  <2> QED BY <2>1, <1>2 DEF Writing, Request, Writes
<1>5. XTypes'
  <2>1. DOMAIN io' = End /\ io'[origin] \in Seq(Reads) /\ io'[Slave] \in Seq(Writes)
    <3>1. CASE UNCHANGED io
      BY <3>1 DEF XTypes
    <3>2. CASE io' = [io EXCEPT ![e] = Append(@, Writing(e))]
      <4>1. io'[Slave] = Append(io[Slave], Writing(e)) /\ io'[origin] = io[origin]
            /\ DOMAIN io' = End
        BY <3>2, <1>1, XEnds DEF XTypes
      <4>2. Append(io[Slave], Writing(e)) \in Seq(Writes)
        BY <1>4, PutIn DEF XTypes
      <4> QED BY <4>1, <4>2 DEF XTypes
    <3> QED BY <1>0, <3>1, <3>2
  <2> QED BY <1>0, <1>1, <2>1, XConstant DEF XTypes
<1> QED BY <1>0, <1>1, <1>2, <1>3, <1>4, <1>5 DEF XKept

\* Sizes are sizes.
LEMMA XSizes ==
    ASSUME XBase
    PROVE  /\ \A g \in File : size[g] \in Nat /\ size[g] <= MaxSize
           /\ \A d \in End : FileSize(d) \in Nat /\ FileSize(d) <= MaxSize
           /\ \A d \in End : cur[d] # 0 => cur[d] \in File /\ FileSize(d) = size[cur[d]]
           /\ \A d \in End : cur[d] \in Nat /\ fd[d] \in Nat /\ cur[d] <= NumFiles /\ fd[d] <= NumFiles
<1>1. \A g \in File : size[g] \in Nat /\ size[g] <= MaxSize
  <2> TAKE g \in File
  <2>1. size[g] \in Nat /\ (size[g] \in Sizes \/ size[g] = 0)
    BY XBaseFacts DEF XTypes
  <2> QED BY <2>1, Largest
<1>2. \A d \in End : cur[d] \in Nat /\ fd[d] \in Nat /\ cur[d] <= NumFiles /\ fd[d] <= NumFiles
  <2>1. \A d \in End : cur[d] \in 0 .. NumFiles /\ fd[d] \in 0 .. NumFiles
    BY XBaseFacts DEF XTypes
  <2>2. NumFiles \in Nat
    BY XBaseFacts, XEnds
  <2> QED BY <2>1, <2>2
<1>3. \A d \in End : cur[d] # 0 => cur[d] \in File
  <2>1. \A d \in End : cur[d] # 0 => cur[d] \in 1 .. NumFiles
    BY <1>2, XBaseFacts, XEnds
  <2> QED BY <2>1, XBaseFacts, XEnds
<1> QED BY <1>1, <1>2, <1>3, Largest DEF FileSize

\* A request comes back, and others may follow.
Returns(e, j, more) == io' = [io EXCEPT ![e] = Without(@, j) \o more]

\* Requests that come back.
LEMMA XReturns ==
    ASSUME XBase, NEW e \in End, NEW j \in DOMAIN io[e], NEW more, Returns(e, j, more),
           more = <<>> \/ (e = origin /\ \E x \in Reads : more = <<x>>)
    PROVE  /\ DOMAIN io' = End /\ io'[origin] \in Seq(Reads) /\ io'[Slave] \in Seq(Writes)
           /\ Sending /\ ~Fresh
           /\ e = origin => io[e][j] \in Reads /\ In(io[e], io[e][j])
           /\ e = Slave => io[e][j] \in Writes /\ In(io[e], io[e][j])
<1> USE XBaseFacts
<1>0. DOMAIN io = End /\ io[origin] \in Seq(Reads) /\ io[Slave] \in Seq(Writes) /\ (e = origin \/ e = Slave)
  BY XEnds DEF XTypes
<1>1. Sending /\ ~Fresh
  <2>1. io[e] # <<>>
    OBVIOUS
  <2> QED BY <2>1, NotFresh, XEnds DEF XTypes
<1>2. DOMAIN io' = End /\ io'[e] = Without(io[e], j) \o more /\ \A d \in End \ {e} : io'[d] = io[d]
  BY <1>0 DEF Returns
<1>3. CASE e = origin
  <2>1. Without(io[e], j) \in Seq(Reads) /\ io[e][j] \in Reads /\ In(io[e], io[e][j])
    BY <1>0, <1>3, TakeOut
  <2>2. more \in Seq(Reads)
    <3>1. <<>> \in Seq(Reads) /\ \A x \in Reads : <<x>> \in Seq(Reads)
      OBVIOUS
    <3> QED BY <3>1
  <2>3. Without(io[e], j) \o more \in Seq(Reads)
    BY <2>1, <2>2
  <2> QED BY <1>0, <1>1, <1>2, <1>3, <2>1, <2>3, XEnds
<1>4. CASE e = Slave
  <2>0. e # origin
    BY <1>4, XEnds
  <2>1. /\ Without(io[e], j) \in Seq(Writes) /\ io[e][j] \in Writes /\ In(io[e], io[e][j])
        /\ Without(io[e], j) \o <<>> = Without(io[e], j)
    BY <1>0, <1>4, TakeOut
  <2> QED BY <1>0, <1>1, <1>2, <1>4, <2>0, <2>1
<1> QED BY <1>0, <1>3, <1>4

\* A request failed, or comes back late.
LEMMA XIOEnds ==
    ASSUME XBase, NEW e \in End, NEW j \in DOMAIN io[e], OnFileIOEnds(e, j)
    PROVE  /\ XKept /\ Sending /\ ~Fresh /\ ~Fresh' /\ Returns(e, j, <<>>)
           /\ e = origin => io[e][j] \in Reads /\ In(io[e], io[e][j])
           /\ e = Slave => io[e][j] \in Writes /\ In(io[e], io[e][j])
<1> USE XBaseFacts
<1>0. /\ Returns(e, j, <<>>) /\ ioFinish' = [ioFinish EXCEPT ![e] = TRUE]
      /\ closing' = [closing EXCEPT ![e] = @ + 1]
      /\ \/ UNCHANGED <<closeNotify, lastErrno>>
         \/ /\ closeNotify' = [closeNotify EXCEPT ![e] = TRUE]
            /\ lastErrno' = [lastErrno EXCEPT ![e] = TRUE]
      /\ UNCHANGED <<kind, origin, session, owed, net, size, queue, cur, fd, opening, indexIO, disk, async>>
  BY DEF OnFileIOEnds, CloseStep1, Returns
<1>1. /\ DOMAIN io' = End /\ io'[origin] \in Seq(Reads) /\ io'[Slave] \in Seq(Writes)
      /\ Sending /\ ~Fresh
      /\ e = origin => io[e][j] \in Reads /\ In(io[e], io[e][j])
      /\ e = Slave => io[e][j] \in Writes /\ In(io[e], io[e][j])
  BY <1>0, XReturns
<1>2. XNet' /\ FreshInv' /\ ~Fresh'
  BY <1>0, <1>1, XSilent
<1>3. XTypes'
  <2>1. /\ ioFinish' \in [End -> BOOLEAN] /\ closeNotify' \in [End -> BOOLEAN]
        /\ lastErrno' \in [End -> BOOLEAN] /\ \A d \in End : lastErrno'[d] => closeNotify'[d]
        /\ \A d \in End : ioFinish'[d] \/ indexIO'[d] = 0 \/ indexIO'[d] < MaxSize
    BY <1>0 DEF XTypes
  <2> QED BY <1>0, <1>1, <2>1, XConstant DEF XTypes
<1> QED BY <1>0, <1>1, <1>2, <1>3 DEF XKept

\* A piece was read.
LEMMA XRead ==
    ASSUME XBase, NEW e \in End, NEW j \in DOMAIN io[e], OnFileRead(e, j)
    PROVE  LET r == io[e][j]
               len == IF r.piece.i < size[r.to] THEN 1 ELSE 0
               at == indexIO[e] + len
               p == [f |-> r.to, i |-> indexIO[e], len |-> len]
               goesOn == CanSend(e) /\ at < FileSize(e)
               more == IF goesOn THEN <<ReadAt(e, at)>> ELSE <<>>
           IN /\ XKept /\ Sending /\ ~Fresh /\ ~Fresh' /\ e = origin
              /\ r \in Reads /\ In(io[e], r) /\ r.to \in File
              /\ p \in Pieces /\ at \in 0 .. MaxSize /\ at \in Nat /\ ReadAt(e, at) \in Reads
              /\ Returns(e, j, more)
              /\ Emit(e, {}, IF CanSend(e) THEN <<DataOf(p)>> ELSE <<>>)
              /\ indexIO' = [indexIO EXCEPT ![e] = at]
              /\ ioFinish' = [ioFinish EXCEPT ![e] = ~goesOn]
              /\ closing' = [closing EXCEPT ![e] = IF ~goesOn THEN @ + 1 ELSE @]
<1> USE XBaseFacts
<1> DEFINE r == io[e][j]
           len == IF r.piece.i < size[r.to] THEN 1 ELSE 0
           at == indexIO[e] + len
           p == [f |-> r.to, i |-> indexIO[e], len |-> len]
           goesOn == CanSend(e) /\ at < FileSize(e)
           more == IF goesOn THEN <<ReadAt(e, at)>> ELSE <<>>
<1>0. /\ r.op = "read" /\ r.to # 0 /\ ~ioFinish[e]
      /\ Returns(e, j, more)
      /\ Emit(e, {}, IF CanSend(e) THEN <<DataOf(p)>> ELSE <<>>)
      /\ indexIO' = [indexIO EXCEPT ![e] = at]
      /\ ioFinish' = [ioFinish EXCEPT ![e] = ~goesOn]
      /\ closing' = [closing EXCEPT ![e] = IF ~goesOn THEN @ + 1 ELSE @]
      /\ UNCHANGED <<kind, origin, session, owed, size, queue, cur, fd, opening, closeNotify, lastErrno,
                     disk, async>>
  BY DEF OnFileRead, CloseStep1, Returns, DataOf
<1>1. e = origin /\ r \in Reads /\ In(io[e], r)
  <2>1. CASE e = origin
    <3>1. io[e] \in Seq(Reads)
      BY <2>1 DEF XTypes
    <3> QED BY <2>1, <3>1, TakeOut
  <2>2. CASE e = Slave
    <3>1. io[e] \in Seq(Writes)
      BY <2>2 DEF XTypes
    <3>2. r \in Writes
      BY <3>1
    <3> QED BY <3>2, <1>0 DEF Writes
  <2> QED BY <2>1, <2>2, XEnds
<1>2. r.to \in File /\ r.piece \in Piece /\ size[r.to] \in Nat /\ size[r.to] <= MaxSize
  <2>1. r.to \in 0 .. NFiles /\ r.piece \in Piece
    BY <1>1 DEF Reads, Pieces
  <2>2. r.to \in File
    BY <2>1, <1>0, TransferAssumption DEF File
  <2> QED BY <2>1, <2>2, XSizes
<1>3. /\ len \in 0 .. 1 /\ (len = 1 => MaxSize >= 1) /\ at \in 0 .. MaxSize /\ at \in Nat
      /\ indexIO[e] \in 0 .. MaxSize
  <2>1. r.piece.i \in Nat /\ MaxSize \in Nat
    BY <1>2, Largest DEF Piece
  <2>2. len \in 0 .. 1 /\ (len = 1 => MaxSize >= 1)
    BY <1>2, <2>1
  <2>3. indexIO[e] \in 0 .. MaxSize /\ (indexIO[e] = 0 \/ indexIO[e] < MaxSize)
    BY <1>0 DEF XTypes
  <2> HIDE DEF len
  <2> QED BY <2>1, <2>2, <2>3
<1> HIDE DEF len
<1>4. p \in Pieces
  <2>1. p \in Piece
    <3>1. r.to \in 0 .. NFiles
      BY <1>1 DEF Reads
    <3> QED BY <1>3, <3>1 DEF Piece
  <2> QED BY <2>1, <1>3 DEF Pieces
<1> HIDE DEF at
<1>5. ReadAt(e, at) \in Reads
  <2>0. fd[e] \in 0 .. NumFiles
    BY DEF XTypes
  <2>1. fd[e] \in 0 .. NFiles
    BY <2>0, XEnds
  <2> QED BY <1>3, <2>1 DEF ReadAt, Request, Reads, Pieces, Piece
<1>6. more = <<>> \/ \E x \in Reads : more = <<x>>
  BY <1>5
<1> HIDE DEF more
<1>7. DOMAIN io' = End /\ io'[origin] \in Seq(Reads) /\ io'[Slave] \in Seq(Writes) /\ Sending /\ ~Fresh
  BY <1>0, <1>1, <1>6, XReturns
<1>8. XNet' /\ FreshInv' /\ ~Fresh'
  <2>1. CASE CanSend(e)
    <3>1. DataOf(p) \in XferMsg /\ DataOf(p).cmd = "X_DATA" /\ DataOf(p).n = Code(p)
      BY <1>4, XMessages DEF DataOf, Pieces
    <3>2. DataOf(p) \in XSays(Other(e)) /\ DataOf(p) # Init0
      BY <3>1, <1>1, <1>4, <1>7, XEnds, XMessages DEF XSays, Init0
    <3> QED BY <2>1, <3>2, <1>0, <1>7, XOne
  <2>2. CASE ~CanSend(e)
    BY <2>2, <1>0, <1>7, MuteSends, XMute
  <2> QED BY <2>1, <2>2
<1>9. XTypes'
  <2>1. indexIO' \in [End -> 0 .. MaxSize] /\ ioFinish' \in [End -> BOOLEAN]
    BY <1>0, <1>3 DEF XTypes
  <2>2. \A d \in End : ioFinish'[d] \/ indexIO'[d] = 0 \/ indexIO'[d] < MaxSize
    <3>1. goesOn => at < MaxSize
      BY <1>3, XSizes, Largest
    <3> HIDE DEF goesOn
    <3>2. ioFinish'[e] \/ indexIO'[e] = 0 \/ indexIO'[e] < MaxSize
      BY <1>0, <3>1 DEF XTypes
    <3>3. \A d \in End \ {e} : ioFinish'[d] \/ indexIO'[d] = 0 \/ indexIO'[d] < MaxSize
      BY <1>0 DEF XTypes
    <3> QED BY <3>2, <3>3
  <2> QED BY <1>0, <1>7, <2>1, <2>2, XConstant DEF XTypes
<1> QED BY <1>0, <1>1, <1>2, <1>3, <1>4, <1>5, <1>7, <1>8, <1>9 DEF XKept, more, at, len

\* A piece was written.
LEMMA XWrite ==
    ASSUME XBase, NEW e \in End, NEW j \in DOMAIN io[e], OnFileWrite(e, j)
    PROVE  LET w == io[e][j]
               at == indexIO[e] + w.piece.len
           IN /\ XKept /\ Sending /\ ~Fresh /\ ~Fresh' /\ e = Slave
              /\ w \in Writes /\ In(io[e], w) /\ w.to \in File /\ w.piece \in Pieces
              /\ at \in 0 .. MaxSize /\ at \in Nat
              /\ Returns(e, j, <<>>)
<1> USE XBaseFacts
<1> DEFINE w == io[e][j]
           at == indexIO[e] + w.piece.len
<1>0. /\ w.op = "write" /\ w.to # 0 /\ ~ioFinish[e]
      /\ Returns(e, j, <<>>)
      /\ indexIO' = [indexIO EXCEPT ![e] = at]
      /\ ioFinish' = [ioFinish EXCEPT ![e] = Written(e, at)]
      /\ closeNotify' = [closeNotify EXCEPT ![e] = @ \/ Written(e, at)]
      /\ closing' = [closing EXCEPT ![e] = IF Written(e, at) THEN @ + 1 ELSE @]
      /\ disk' = (IF w.piece.len = 0 THEN disk ELSE [disk EXCEPT ![w.to][w.piece.i] = w.piece.f])
      /\ UNCHANGED <<kind, origin, session, net, owed, size, queue, cur, fd, opening, lastErrno, async>>
  BY DEF OnFileWrite, CloseStep1, Returns
<1>1. e = Slave /\ w \in Writes /\ In(io[e], w)
  <2>1. CASE e = Slave
    <3>1. io[e] \in Seq(Writes)
      BY <2>1 DEF XTypes
    <3> QED BY <2>1, <3>1, TakeOut
  <2>2. CASE e = origin
    <3>1. io[e] \in Seq(Reads)
      BY <2>2 DEF XTypes
    <3>2. w \in Reads
      BY <3>1
    <3> QED BY <3>2, <1>0 DEF Reads
  <2> QED BY <2>1, <2>2, XEnds
<1>2. w.to \in File /\ w.piece \in Pieces /\ w.piece \in Piece
  <2>1. w.to \in 0 .. NFiles /\ w.piece \in Pieces
    BY <1>1 DEF Writes
  <2> QED BY <2>1, <1>0, TransferAssumption DEF File, Pieces
<1>3. at \in 0 .. MaxSize /\ at \in Nat
  <2>1. w.piece.len \in 0 .. 1 /\ (w.piece.len = 1 => MaxSize >= 1)
    BY <1>2 DEF Pieces, Piece
  <2>2. indexIO[e] \in 0 .. MaxSize /\ (indexIO[e] = 0 \/ indexIO[e] < MaxSize)
    BY <1>0 DEF XTypes
  <2>3. MaxSize \in Nat
    BY Largest
  <2> HIDE DEF w
  <2> QED BY <2>1, <2>2, <2>3
<1>5. /\ DOMAIN io' = End /\ io'[origin] \in Seq(Reads) /\ io'[Slave] \in Seq(Writes) /\ Sending /\ ~Fresh
  BY <1>0, XReturns
<1>6. XNet' /\ FreshInv' /\ ~Fresh'
  BY <1>0, <1>5, XSilent
<1>7. XTypes'
  <2>1. indexIO' \in [End -> 0 .. MaxSize] /\ ioFinish' \in [End -> BOOLEAN]
        /\ closeNotify' \in [End -> BOOLEAN]
    <3>1. Written(e, at) \in BOOLEAN
      BY DEF Written
    <3>2. /\ indexIO \in [End -> 0 .. MaxSize] /\ ioFinish \in [End -> BOOLEAN]
          /\ closeNotify \in [End -> BOOLEAN]
      BY DEF XTypes
    <3> DEFINE fin == Written(e, at)
    <3> HIDE DEF fin, at
    <3>3. indexIO' \in [End -> 0 .. MaxSize]
      BY <1>0, <1>3, <3>2
    <3>4. fin \in BOOLEAN /\ ioFinish' = [ioFinish EXCEPT ![e] = fin]
          /\ closeNotify' = [closeNotify EXCEPT ![e] = @ \/ fin]
      BY <1>0, <3>1 DEF fin
    <3>5. ioFinish' \in [End -> BOOLEAN] /\ closeNotify' \in [End -> BOOLEAN]
      BY <3>2, <3>4
    <3> QED BY <3>3, <3>5
  <2>2. \A d \in End : ioFinish'[d] \/ indexIO'[d] = 0 \/ indexIO'[d] < MaxSize
    <3>1. ~Written(e, at) => at < MaxSize
      BY <1>3, XSizes, Largest DEF Written
    <3>2. ioFinish'[e] \/ indexIO'[e] = 0 \/ indexIO'[e] < MaxSize
      BY <1>0, <3>1 DEF XTypes
    <3>3. \A d \in End \ {e} : ioFinish'[d] \/ indexIO'[d] = 0 \/ indexIO'[d] < MaxSize
      BY <1>0 DEF XTypes
    <3> QED BY <3>2, <3>3
  <2>3. disk' \in [File -> [0 .. MaxSize -> 0 .. NFiles]]
    <3>1. w.piece.i \in 0 .. MaxSize /\ w.piece.f \in 0 .. NFiles
      BY <1>2 DEF Piece
    <3>2. disk \in [File -> [0 .. MaxSize -> 0 .. NFiles]]
      BY DEF XTypes
    <3> QED BY <1>0, <3>1, <3>2
  <2>4. \A d \in End : lastErrno'[d] => closeNotify'[d]
    BY <1>0 DEF XTypes
  <2> QED BY <1>0, <1>5, <2>1, <2>2, <2>3, <2>4, XConstant DEF XTypes
<1> QED BY <1>0, <1>1, <1>2, <1>3, <1>5, <1>6, <1>7 DEF XKept

\* A file is closed.
LEMMA XCloses ==
    ASSUME XBase, NEW e \in End, OnFileClose(e)
    PROVE  XKept /\ Sending /\ ~Fresh /\ ~Fresh'
<1> USE XBaseFacts
<1>0. /\ closing[e] > 0 /\ closing' = [closing EXCEPT ![e] = @ - 1] /\ WhenTransferFinish(e)
      /\ UNCHANGED <<kind, origin, session, size, queue, cur, fd, opening, io, indexIO,
                     ioFinish, closeNotify, lastErrno, disk>>
  BY DEF OnFileClose
<1>1. Sending /\ ~Fresh
  <2>1. Sending
    BY <1>0 DEF XTypes
  <2> QED BY <2>1, <1>0, NotFresh
<1>2. XNet' /\ FreshInv' /\ ~Fresh'
  <2>1. CASE \E out, lvs : Mute(out) /\ Emit(e, lvs, out)
    BY <2>1, <1>0, <1>1, XMute
  <2>2. CASE IsFile /\ Emit(e, {}, Out(e, <<Msg("FILE_FINISH", 1)>>))
    <3>1. Msg("FILE_FINISH", 1) \in XSays(Other(e)) /\ Msg("FILE_FINISH", 1) # Init0
      BY <2>2, XMessages DEF XSays, Init0, XCmds
    <3> QED BY <3>1, <2>2, <1>0, <1>1, XOne
  <2>3. \A lvs, msgs : Mute(msgs) /\ Emit(e, lvs, Out(e, msgs)) => \E out : Mute(out) /\ Emit(e, lvs, out)
    BY MuteSends DEF Out
  <2> QED BY <1>0, <2>1, <2>2, <2>3, MuteSends DEF WhenTransferFinish, PackageShell
<1>3. UNCHANGED <<async, owed>> \/ (kind = "install" /\ e = "daemon")
  BY <1>0 DEF WhenTransferFinish
<1>4. owed'["host"] = 0 /\ (kind \notin {"install", "uninstall"} => async' = 0 /\ owed'["daemon"] = 0)
  <2>1. CASE UNCHANGED <<async, owed>>
    BY <2>1 DEF XTypes
  <2>2. CASE kind = "install" /\ e = "daemon"
    <3>1. UNCHANGED owed \/ Owe("daemon", 1)
      BY <1>0 DEF WhenTransferFinish, PackageShell
    <3> QED BY <2>2, <3>1, Ends2 DEF Owe, XTypes, End
  <2> QED BY <1>3, <2>1, <2>2
<1>5. XTypes'
  BY <1>0, <1>1, <1>4, XConstant DEF XTypes
<1> QED BY <1>0, <1>1, <1>2, <1>5 DEF XKept

\* An end is told that a file is finished.
LEMMA XFinished ==
    ASSUME XBase, NEW e \in End, FileFinish(e)
    PROVE  /\ XKept /\ IsFile /\ ~Fresh /\ ~Fresh' /\ Sending /\ net[e] # <<>>
           /\ Head(net[e]) = Msg("FILE_FINISH", 1) /\ Fin(e, 1)
<1> USE XBaseFacts
<1>0. /\ net[e] # <<>> /\ Head(net[e]).cmd = "FILE_FINISH" /\ Arg(e) = 1
      /\ UNCHANGED <<kind, origin, session, owed, size, cur, fd, closing, io, indexIO, closeNotify,
                     lastErrno, disk, async>>
  BY DEF FileFinish, Gets
<1>1. /\ IsFile /\ ~Fresh /\ Sending /\ Head(net[e]) = Msg("FILE_FINISH", 1) /\ Fin(e, 1)
  BY <1>0, XTaken DEF XSays, Arg, Fin, IsFile, Sending
<1>2. XNet' /\ FreshInv' /\ ~Fresh'
  <2>1. CASE Answer(e, {}, <<>>)
    BY <2>1, <1>0, <1>1, MuteSends, XMute
  <2>2. CASE Answer(e, {}, <<Msg("FILE_FINISH", 0)>>)
    <3>1. Msg("FILE_FINISH", 0) \in XSays(Other(e)) /\ Msg("FILE_FINISH", 0) # Init0
      BY <1>1, XMessages DEF XSays, Init0, XCmds
    <3> QED BY <3>1, <2>2, <1>0, <1>1, XOne
  <2> QED BY <2>1, <2>2 DEF FileFinish
<1>3. queue' \in 0 .. NumFiles /\ (opening'[origin] > 0 => queue' < NumFiles)
      /\ ioFinish' \in [End -> BOOLEAN]
      /\ \A d \in End : ioFinish'[d] \/ indexIO[d] = 0 \/ indexIO[d] < MaxSize
  <2>1. NumFiles \in Nat /\ queue \in 0 .. NumFiles
    BY XEnds DEF XTypes
  <2>2. CASE queue > 0 /\ OpenNext(e) /\ UNCHANGED ioFinish
    <3>1. queue' = queue - 1
      BY <2>2 DEF OpenNext
    <3>2. queue' \in 0 .. NumFiles /\ queue' < NumFiles
      BY <2>1, <2>2, <3>1
    <3> QED BY <2>2, <3>2 DEF XTypes
  <2>3. CASE UNCHANGED <<queue, opening>> /\ ioFinish' = [ioFinish EXCEPT ![e] = TRUE]
    BY <2>3 DEF XTypes
  <2> QED BY <2>2, <2>3 DEF FileFinish
<1>4. XTypes'
  BY <1>0, <1>1, <1>3, XConstant DEF XTypes
<1> QED BY <1>0, <1>1, <1>2, <1>4 DEF XKept

\* An end is told that all is over.
LEMMA XSummary ==
    ASSUME XBase, NEW e \in End, FileSummary(e)
    PROVE  /\ XKept /\ IsFile /\ ~Fresh /\ ~Fresh' /\ Sending /\ net[e] # <<>>
           /\ Head(net[e]) = Msg("FILE_FINISH", 0) /\ Fin(e, 0)
<1> USE XBaseFacts
<1>0. /\ net[e] # <<>> /\ Head(net[e]).cmd = "FILE_FINISH" /\ Arg(e) = 0
      /\ UNCHANGED <<kind, origin, session, owed, xferVars>>
  BY DEF FileSummary, Gets
<1>1. /\ IsFile /\ ~Fresh /\ Sending /\ Head(net[e]) = Msg("FILE_FINISH", 0) /\ Fin(e, 0)
  BY <1>0, XTaken DEF XSays, Arg, Fin, IsFile, Sending
<1>2. XNet' /\ FreshInv' /\ ~Fresh'
  <2>1. \E lvs, out : Mute(out) /\ Answer(e, lvs, out)
    BY MuteSends DEF FileSummary
  <2> QED BY <2>1, <1>0, <1>1, XMute
<1>4. XTypes'
  BY <1>0, <1>1, XConstant DEF XTypes, xferVars, ctxVars
<1> QED BY <1>0, <1>1, <1>2, <1>4 DEF XKept

\* A package was installed, or deleted.
LEMMA XInstalls ==
    ASSUME XBase, AsyncInstallFinish
    PROVE  XKept /\ ~Fresh /\ ~Fresh' /\ kind \in {"install", "uninstall"}
<1> USE XBaseFacts
<1>0. /\ async > 0 /\ async' = async - 1 /\ Emit("daemon", {}, <<Msg("APP_FINISH", 0)>>)
      /\ UNCHANGED <<kind, origin, session, owed, size, queue, cur, fd, opening, closing, io, indexIO,
                     ioFinish, closeNotify, lastErrno, disk>>
      /\ "daemon" \in End
  BY DEF AsyncInstallFinish, ctxVars, End
<1>1. kind \in {"install", "uninstall"} /\ ~Fresh
  <2>1. kind \in {"install", "uninstall"}
    BY <1>0 DEF XTypes
  <2> QED BY <2>1, <1>0, NotFresh
<1>2. XNet' /\ FreshInv' /\ ~Fresh'
  <2>1. Msg("APP_FINISH", 0) \in XSays(Other("daemon")) /\ Msg("APP_FINISH", 0) # Init0
    BY <1>1, XMessages DEF XSays, Init0, XCmds, Other
  <2> QED BY <2>1, <1>0, <1>1, XOne
<1>3. XTypes'
  BY <1>0, <1>1, XConstant DEF XTypes
<1> QED BY <1>0, <1>1, <1>2, <1>3 DEF XKept

\* The server learns of it.
LEMMA XNextApp ==
    ASSUME XBase, AppFinish
    PROVE  /\ XKept /\ ~Fresh /\ ~Fresh' /\ kind \in {"install", "uninstall"} /\ net["host"] # <<>>
           /\ Head(net["host"]).cmd = "APP_FINISH" /\ Head(net["host"]) \in XferMsg
<1> USE XBaseFacts
<1>0. /\ net["host"] # <<>> /\ Head(net["host"]).cmd = "APP_FINISH"
      /\ UNCHANGED <<kind, origin, session, owed, size, cur, fd, closing, io, indexIO, ioFinish,
                     closeNotify, lastErrno, disk, async>>
      /\ "host" \in End
  BY DEF AppFinish, Gets, End
<1>1. ~Fresh /\ kind \in {"install", "uninstall"} /\ Head(net["host"]) \in XferMsg
  BY <1>0, XTaken DEF XSays
<1>2. XNet' /\ FreshInv' /\ ~Fresh'
  <2>1. \E lvs, out : Mute(out) /\ Answer("host", lvs, out)
    BY MuteSends DEF AppFinish
  <2> QED BY <2>1, <1>0, <1>1, XMute
<1>3. queue' \in 0 .. NumFiles /\ (opening'[origin] > 0 => queue' < NumFiles)
      /\ (~Sending => \A d \in End : opening'[d] = 0)
  <2>1. NumFiles \in Nat /\ queue \in 0 .. NumFiles
    BY XEnds DEF XTypes
  <2>2. CASE kind # "uninstall" /\ queue > 0 /\ OpenNext("host")
    <3>1. queue' = queue - 1 /\ Sending
      BY <2>2, <1>1 DEF OpenNext, Sending
    <3>2. queue' \in 0 .. NumFiles /\ queue' < NumFiles
      BY <2>1, <2>2, <3>1
    <3> QED BY <3>1, <3>2
  <2>3. CASE UNCHANGED <<queue, opening>>
    BY <2>3 DEF XTypes
  <2> QED BY <2>2, <2>3 DEF AppFinish
<1>4. XTypes'
  BY <1>0, <1>1, <1>3, XConstant DEF XTypes
<1> QED BY <1>0, <1>1, <1>2, <1>4 DEF XKept

\* A package is to be deleted.
Uninstall0 == Msg("APP_UNINSTALL", 0)

\* The server is told to delete a package.
LEMMA XUninstalls ==
    ASSUME XBase, BeginUninstall
    PROVE  /\ XKept /\ Fresh /\ ~Fresh' /\ kind = "uninstall" /\ origin = "host"
           /\ net["host"] # <<>> /\ Answer("host", {}, <<Wakeup, Uninstall0>>)
<1> USE XBaseFacts
<1>0. /\ net["host"] # <<>> /\ Head(net["host"]).cmd = "X_INIT" /\ kind = "uninstall" /\ "host" \in End
      /\ Answer("host", {}, <<Wakeup, Uninstall0>>) /\ UNCHANGED <<kind, origin, session, owed, xferVars>>
  BY DEF BeginUninstall, Creates, End, Uninstall0
<1>1. origin = "host" /\ Head(net["host"]) = Init0 /\ In(net["host"], Init0)
  BY <1>0, XTaken DEF XSays, Init0
<1>2. Fresh /\ Single(net["host"], Init0)
  BY <1>0, <1>1 DEF FreshInv, Fresh
<1> DEFINE out == <<Wakeup, Uninstall0>>
<1>3. out \in Seq(XferMsg) /\ \A m : In(out, m) => m \in XSays(Other("host")) /\ m # Init0
  <2>1. Wakeup \in XSays(Other("host")) /\ Wakeup # Init0 /\ Wakeup \in XferMsg
    BY XMessages DEF XSays, Wakeup, Init0, XCmds
  <2>2. Uninstall0 \in XSays(Other("host")) /\ Uninstall0 # Init0 /\ Uninstall0 \in XferMsg
    BY <1>0, XMessages DEF XSays, Uninstall0, Init0, XCmds, Other
  <2>3. \A m : In(out, m) <=> (m = Wakeup \/ m = Uninstall0)
    BY Few
  <2>4. out \in Seq(XferMsg)
    BY <2>1, <2>2
  <2> HIDE DEF out
  <2> QED BY <2>1, <2>2, <2>3, <2>4
<1>4. Rests("host", Tail(net["host"])) /\ Passes("host", Tail(net["host"]), out)
  BY <1>0, PassBy
<1> HIDE DEF out
<1>5. XNet'
  BY <1>0, <1>3, <1>4, XSends
<1>6. ~Fresh'
  <2>1. \A m : In(net'["host"], m) => In(Tail(net["host"]), m)
    BY <1>0, <1>3, <1>4, PassFacts
  <2>2. ~In(Tail(net["host"]), Init0)
    BY <1>0, <1>1, <1>2, Taken
  <2>3. Init0' = Init0 /\ origin' = origin
    BY <1>0 DEF Init0, Msg
  <2>4. Fresh' <=> In(net'[origin], Init0)
    BY <2>3 DEF Fresh, In
  <2> QED BY <2>1, <2>2, <2>4, <1>1
<1>7. XTypes'
  BY <1>0, XConstant DEF XTypes, xferVars, ctxVars
<1> QED BY <1>0, <1>1, <1>2, <1>5, <1>6, <1>7 DEF XKept, FreshInv, Fresh

\* The daemon is told.
LEMMA XUninstalled ==
    ASSUME XBase, DaemonUninstall
    PROVE  /\ XKept /\ ~Fresh /\ ~Fresh' /\ kind = "uninstall" /\ net["daemon"] # <<>>
           /\ Head(net["daemon"]).cmd = "APP_UNINSTALL" /\ Head(net["daemon"]) \in XferMsg
<1> USE XBaseFacts
<1>0. /\ net["daemon"] # <<>> /\ Head(net["daemon"]).cmd = "APP_UNINSTALL" /\ "daemon" \in End
      /\ Answer("daemon", {}, <<Wakeup>>)
      /\ \/ async' = async + 1 /\ UNCHANGED owed
         \/ Owe("daemon", 1) /\ UNCHANGED async
      /\ UNCHANGED <<kind, origin, session, size, queue, cur, fd, opening, closing, io, indexIO, ioFinish,
                     closeNotify, lastErrno, disk>>
  BY DEF DaemonUninstall, Creates, PackageShell, End, ctxVars
<1>1. ~Fresh /\ kind = "uninstall" /\ Head(net["daemon"]) \in XferMsg
  BY <1>0, XTaken DEF XSays
<1>2. XNet' /\ FreshInv' /\ ~Fresh'
  BY <1>0, <1>1, MuteSends, XMute
<1>3. owed'["host"] = 0
  BY <1>0, Ends2 DEF XTypes, Owe, End
<1>4. XTypes'
  BY <1>0, <1>1, <1>3, XConstant DEF XTypes
<1> QED BY <1>0, <1>1, <1>2, <1>4 DEF XKept

-----------------------------------------------------------------------------
(* What all commands share.                                                *)

\* Nothing of a transfer changes.
LEMMA XferUntouched ==
    ASSUME IInv, IsTransfer, CommonStep \/ UNCHANGED vars
    PROVE  UNCHANGED <<kind, origin, owed, xferVars>>
<1>1. CASE UNCHANGED vars
  BY <1>1 DEF vars, taskVars
<1>2. CASE CommonStep
  <2>1. BaseTypes /\ ~IsForward
    BY FwdMeaning DEF IInv
  <2>2. /\ UNCHANGED <<kind, origin, owed>>
        /\ Keeping \/ \E e \in End : Stopping(e)
    BY <1>2, <2>1, CommonMoves
  <2>3. UNCHANGED xferVars
    <3>1. CASE Keeping
      BY <3>1 DEF Keeping, ClassVarsKept
    <3>2. ASSUME NEW e \in End, Stopping(e) PROVE UNCHANGED xferVars
      BY <3>2, <2>1 DEF Stopping, StopTask, XferStopTask
    <3> QED BY <2>2, <3>1, <3>2
  <2> QED BY <2>2, <2>3
<1> QED BY <1>1, <1>2

\* A message is taken or dropped, and what is sent is nothing of a transfer.
LEMMA XShared ==
    ASSUME XBase, CommonStep \/ UNCHANGED vars
    PROVE  \E e, rest, out :
              /\ e \in End /\ Rests(e, rest) /\ Mute(out) /\ Passes(e, rest, out)
              /\ \A m : In(out, m) => m.cmd = "CLOSE"
              /\ "ok" \in told' => OkSaid
<1> USE XBaseFacts
<1> DEFINE Goal == \E e, rest, out :
                     /\ e \in End /\ Rests(e, rest) /\ Mute(out) /\ Passes(e, rest, out)
                     /\ \A m : In(out, m) => m.cmd = "CLOSE"
                     /\ "ok" \in told' => OkSaid
<1>e. "host" \in End /\ "daemon" \in End
  BY DEF End
<1>n. Mute(<<>>) /\ \A m : In(<<>>, m) => m.cmd = "CLOSE"
  BY MuteSends, Emptied
<1>c. ASSUME NEW n \in Nat, Close(n) \in XferMsg
      PROVE  Mute(<<Close(n)>>) /\ \A m : In(<<Close(n)>>, m) => m.cmd = "CLOSE"
  <2>1. Close(n) \in MuteMsg /\ Close(n).cmd = "CLOSE"
    BY <1>c, XMessages DEF MuteMsg, Close
  <2> QED BY <2>1, MuteSends, Few
<1>t. \A e : LogTold(e, {}) = told
  BY DEF LogTold
<1>1. ASSUME NEW e \in End, NEW out, Mute(out), \A m : In(out, m) => m.cmd = "CLOSE",
             UNCHANGED session,
             Emit(e, {}, out) \/ (Answer(e, {}, out) /\ net[e] # <<>>)
      PROVE  Goal
  <2>1. PICK rest : Rests(e, rest) /\ Passes(e, rest, out)
    BY <1>1, PassBy
  <2>2. told' = told
    BY <1>1, <1>t DEF Emit, Answer, Sends
  <2> QED BY <1>1, <2>1, <2>2 DEF OkSaid
<1>2. ASSUME UNCHANGED told \/ told' = told \cup {"fail"},
             UNCHANGED net \/ (session' # "up" /\ net' = Both(<<>>))
      PROVE  Goal
  <2>1. Rests("host", net["host"]) /\ Passes("host", net["host"], <<>>)
    BY <1>e, <1>2, PassBy DEF Rests, Passes
  <2>2. "ok" \in told' => OkSaid
    BY <1>2 DEF OkSaid
  <2> QED BY <1>e, <1>n, <2>1, <2>2
<1> HIDE DEF Goal
<1>3. ASSUME NEW e \in End, FetchClose(e) PROVE Goal
  <2>1. net[e] # <<>> /\ Head(net[e]) \in XferMsg /\ UNCHANGED session /\ Head(net[e]).cmd = "CLOSE"
    BY <1>3, XTaken DEF FetchClose
  <2>2. Answer(e, {}, <<>>) \/ (Arg(e) # 0 /\ Answer(e, {}, <<Close(Arg(e) - 1)>>))
    BY <1>3 DEF FetchClose
  <2>3. CASE Answer(e, {}, <<>>)
    BY <2>1, <2>3, <1>n, <1>1
  <2>4. CASE Arg(e) # 0 /\ Answer(e, {}, <<Close(Arg(e) - 1)>>)
    <3>1. PICK b \in Nat : XferMsg = [cmd : XCmds, n : 0 .. b]
      <4>1. (((NFiles + 1) * (MaxSize + 1)) * 2) \in Nat
        BY Largest, TransferAssumption
      <4> QED BY <4>1 DEF XferMsg, XCmds
    <3>2. Arg(e) \in 0 .. b /\ "CLOSE" \in XCmds
      BY <2>1, <3>1 DEF Arg, XCmds
    <3>3. Arg(e) - 1 \in 0 .. b /\ Arg(e) - 1 \in Nat
      BY <2>4, <3>1, <3>2
    <3>4. Close(Arg(e) - 1) \in XferMsg
      BY <3>1, <3>2, <3>3 DEF Close, Msg
    <3> QED BY <2>1, <2>4, <3>3, <3>4, <1>c, <1>1
  <2> QED BY <2>2, <2>3, <2>4
<1>4. ASSUME NEW e \in End, Wake(e) \/ Ignored(e, Taskless) PROVE Goal
  <2>1. net[e] # <<>> /\ Answer(e, {}, <<>>) /\ UNCHANGED session
    BY <1>4 DEF Wake, Ignored, Creates
  <2> QED BY <2>1, <1>1, <1>n
<1>5. ASSUME NEW e \in End, Clear(e) \/ Release(e) PROVE Goal
  <2>1. UNCHANGED <<net, told>>
    BY <1>5 DEF Clear, ClearOwnTasks, Release, TryRemoveTask
  <2> QED BY <2>1, <1>2
<1>6. ASSUME Free \/ Busy \/ Ends PROVE Goal
  <2>1. /\ UNCHANGED told \/ told' = told \cup {"fail"}
        /\ UNCHANGED net \/ (session' # "up" /\ net' = Both(<<>>))
    BY <1>6 DEF Free, Busy, Ends, FreeChannel, PoolBusy, SessionEnd
  <2> QED BY <2>1, <1>2
<1>7. ASSUME Deatch PROVE Goal
  <2>1. Emit("host", {}, <<Close(0)>>) /\ UNCHANGED session
    BY <1>7 DEF Deatch, DeatchChannel
  <2>2. Close(0) \in XferMsg
    BY XMessages DEF Close, XCmds
  <2> QED BY <2>1, <2>2, <1>1, <1>c, <1>e
<1>8. ASSUME FetchUnserved PROVE Goal
  <2>1. UNCHANGED session /\ net["host"] # <<>>
        /\ (Answer("host", {}, <<>>) \/ Answer("host", {}, <<Close(0)>>))
    BY <1>8 DEF FetchUnserved
  <2>2. Close(0) \in XferMsg
    BY XMessages DEF Close, XCmds
  <2> QED BY <2>1, <2>2, <1>1, <1>c, <1>n, <1>e
<1>9. ASSUME FetchEcho PROVE Goal
  <2>1. PICK lv \in {"ok", "fail"} : Head(net["host"]) = EchoOf(lv) /\ told' = told \cup {lv}
    BY <1>9 DEF FetchEcho
  <2>2. net["host"] # <<>> /\ net' = [net EXCEPT !["host"] = Tail(@)]
    BY <1>9 DEF FetchEcho
  <2>3. "ok" \in told' => OkSaid
    <3>1. In(net["host"], Head(net["host"]))
      BY <2>2, <1>e, XTaken
    <3> QED BY <2>1, <3>1 DEF OkSaid
  <2>4. Rests("host", Tail(net["host"])) /\ Passes("host", Tail(net["host"]), <<>>)
    <3>1. \A d \in End : net[d] \o <<>> = net[d]
      <4>1. \A d \in End : net[d] \in Seq(XferMsg)
        OBVIOUS
      <4> QED BY <4>1
    <3>2. net' = [d \in End |-> IF d = "host" THEN Tail(net["host"]) ELSE net[d] \o <<>>]
      BY <2>2, <3>1
    <3> QED BY <2>2, <3>2 DEF Rests, Passes
  <2> QED BY <2>3, <2>4, <1>n, <1>e DEF Goal
<1>10. ASSUME UNCHANGED vars PROVE Goal
  <2>1. UNCHANGED <<net, told>>
    BY <1>10 DEF vars, taskVars
  <2> QED BY <2>1, <1>2
<1>11. Goal
  BY <1>3, <1>4, <1>5, <1>6, <1>7, <1>8, <1>9, <1>10 DEF CommonStep
<1> QED BY <1>11 DEF Goal

\* The types, and the beginning, are as before.
LEMMA XCommon ==
    ASSUME XBase, CommonStep \/ UNCHANGED vars
    PROVE  XKept
<1> USE XBaseFacts
<1>1. UNCHANGED <<kind, origin, owed, xferVars>>
  BY XferUntouched DEF XBase
<1>2. PICK e, rest, out : /\ e \in End /\ Rests(e, rest) /\ Mute(out) /\ Passes(e, rest, out)
                          /\ \A m : In(out, m) => m.cmd = "CLOSE"
  BY XShared
<1>3. out \in Seq(XferMsg) /\ \A m : In(out, m) => m \in XSays(Other(e)) /\ m # Init0
  BY <1>2, MuteFacts DEF Mute
<1>4. XNet' /\ (Fresh' => Fresh)
  BY <1>1, <1>2, <1>3, XSends
<1>5. XTypes'
  BY <1>1, XConstant DEF XTypes, xferVars, ctxVars
<1>6. FreshInv'
  <2> SUFFICES ASSUME Fresh'
               PROVE  /\ Single(net'[origin], Init0)
                      /\ \A d \in End : \A i \in 1 .. Len(net'[d]) :
                            net'[d][i] = Init0 \/ net'[d][i].cmd = "CLOSE"
    <3>1. Init0' = Init0 /\ UNCHANGED <<origin, queue, async, owed, opening, closing, io, lastErrno>>
          /\ NumFiles' = NumFiles
      BY <1>1, XConstant DEF Init0, Msg, xferVars, ctxVars
    <3>2. Fresh' => queue = NumFiles /\ async = 0 /\ owed["daemon"] = 0
                    /\ \A d \in End : opening[d] = 0 /\ closing[d] = 0 /\ io[d] = <<>> /\ ~lastErrno[d]
      BY <1>4 DEF FreshInv, Fresh
    <3>3. Single(net[origin], Init0)' <=> Single(net'[origin], Init0)
      BY <3>1 DEF Single
    <3> QED BY <3>1, <3>2, <3>3 DEF FreshInv, Fresh
  <2>1. /\ Single(net[origin], Init0)
        /\ \A d \in End : \A m : In(net[d], m) => m = Init0 \/ m.cmd = "CLOSE"
    BY <1>4 DEF FreshInv, Fresh, In
  <2>2. /\ \A m : In(net'[e], m) => In(rest, m)
        /\ \A m : In(rest, m) => In(net[e], m)
        /\ \A m : In(net'[Other(e)], m) => In(net[Other(e)], m) \/ In(out, m)
        /\ \A m : Single(net[e], m) => Single(net'[e], m)
        /\ \A m : Single(net[Other(e)], m) /\ ~In(out, m) => Single(net'[Other(e)], m)
    BY <1>2, <1>3, PassFacts
  <2>3. \A d \in End : d = e \/ d = Other(e)
    BY <1>2, Ends2
  <2>4. Other(e) \in End
    BY <1>2, Ends2
  <2>5. Single(net'[origin], Init0)
    BY <2>1, <2>2, <2>3, <1>3
  <2>6. \A d \in End : \A m : In(net'[d], m) => m = Init0 \/ m.cmd = "CLOSE"
    BY <2>1, <2>2, <2>3, <2>4, <1>2
  <2>7. \A d \in End : \A i \in 1 .. Len(net'[d]) : In(net'[d], net'[d][i])
    BY DEF In
  <2> QED BY <2>5, <2>6, <2>7
<1> QED BY <1>1, <1>4, <1>5, <1>6 DEF XKept

-----------------------------------------------------------------------------
(* What is under way after a step.                                         *)

Held == Carried(TokenMsg)
Ok == EchoOf("ok")

\* Of the messages of a transfer only m may be new, at the other end.
Arrives(e, m) ==
    /\ \A n : Check(n)' => Check(n) \/ (m.cmd = "X_CHECK" /\ m.n = n)
    /\ Asks' => Asks \/ m.cmd = "X_BEGIN"
    /\ \A p \in Pieces : Sent(p)' => Sent(p) \/ (m.cmd = "X_DATA" /\ m = DataOf(p))
    /\ \A p \in Pieces : Single(net[Slave], DataOf(p)) /\ (Sent(p) => m.cmd # "X_DATA" \/ m # DataOf(p))
                           => Single(net'[Slave], DataOf(p))
    /\ \A d \in End : \A n : Fin(d, n)' => Fin(d, n) \/ (m.cmd = "FILE_FINISH" /\ m.n = n /\ d = Other(e))
    /\ In(net'["host"], Ok) => In(net["host"], Ok) \/ m.cmd = "ECHO_OK"

\* A message that is one thing that brings a transfer on counts.
Brings(m) == IF m \in TokenMsg THEN 1 ELSE 0

\* The same of a queue.
LEMMA Arrival ==
    ASSUME XBase, UNCHANGED <<kind, origin>>, NEW e \in End, NEW rest, Rests(e, rest),
           NEW out \in Seq(XferMsg), Passes(e, rest, out), NEW m,
           m.cmd = "X_DATA" => Single(out, m), \A y : In(out, y) => y = m \/ (y \in MuteMsg /\ y # Ok),
           Count(out, TokenMsg) <= Brings(m)
    PROVE  /\ Arrives(e, m)
           /\ Held \in Nat /\ Held' \in Nat /\ Held' <= Held + Brings(m)
           /\ net[e] # <<>> /\ rest = Tail(net[e]) =>
                /\ Held' + Brings(Head(net[e])) <= Held + Brings(m)
                /\ Single(net[e], Head(net[e])) => ~In(net'[e], Head(net[e]))
<1> USE XBaseFacts
<1>1. /\ rest \in Seq(XferMsg)
      /\ \A y : In(net'[e], y) => In(rest, y)
      /\ \A y : In(rest, y) => In(net[e], y)
      /\ \A y : In(net'[Other(e)], y) => In(net[Other(e)], y) \/ In(out, y)
      /\ \A y : Single(net[e], y) => Single(net'[e], y)
      /\ \A y : Single(net[Other(e)], y) /\ ~In(out, y) => Single(net'[Other(e)], y)
      /\ \A y : Single(out, y) /\ ~In(net[Other(e)], y) => Single(net'[Other(e)], y)
  BY PassFacts
<1>2. (\A d \in End : d = e \/ d = Other(e)) /\ Other(e) \in End /\ Other(e) # e
  BY Ends2
<1>3. \A d \in End : \A y : In(net'[d], y) =>
        In(net[d], y) \/ (d = Other(e) /\ (y = m \/ (y \in MuteMsg /\ y # Ok)))
  BY <1>1, <1>2
<1>4. /\ \A n, h : h = Msg("X_CHECK", n) => h.cmd = "X_CHECK" /\ h.n = n /\ h \notin MuteMsg
      /\ \A n, h : h = Msg("FILE_FINISH", n) => h.cmd = "FILE_FINISH" /\ h.n = n /\ h \notin MuteMsg
      /\ Begin0.cmd = "X_BEGIN" /\ Begin0 \notin MuteMsg
      /\ \A p : DataOf(p).cmd = "X_DATA" /\ DataOf(p) \notin MuteMsg
      /\ Ok.cmd = "ECHO_OK"
  BY XMessages DEF MuteMsg, Begin0, DataOf, Ok, EchoOf
<1>5. Slave \in End /\ origin \in End /\ "host" \in End /\ Slave' = Slave /\ origin' = origin
  BY XEnds, XConstant DEF End
<1>6. Arrives(e, m)
  <2>0. /\ \A n : Check(n)' <=> In(net'[Slave], Msg("X_CHECK", n))
        /\ Asks' <=> In(net'[origin], Begin0)
        /\ \A p \in Pieces : Sent(p)' <=> In(net'[Slave], DataOf(p))
        /\ \A d \in End : \A n : Fin(d, n)' <=> In(net'[d], Msg("FILE_FINISH", n))
    <3>1. Begin0' = Begin0
      BY DEF Begin0, Msg
    <3>2. \A p \in Pieces : DataOf(p)' = DataOf(p)
      BY DEF DataOf, Msg, Code, MaxSize
    <3>3. \A n : Msg("X_CHECK", n)' = Msg("X_CHECK", n) /\ Msg("FILE_FINISH", n)' = Msg("FILE_FINISH", n)
      BY DEF Msg
    <3> QED BY <1>5, <3>1, <3>2, <3>3 DEF Check, Asks, Sent, Fin, In
  <2>1. ASSUME NEW n, Check(n)' PROVE Check(n) \/ (m.cmd = "X_CHECK" /\ m.n = n)
    BY <2>0, <2>1, <1>3, <1>4, <1>5 DEF Check
  <2>2. Asks' => Asks \/ m.cmd = "X_BEGIN"
    BY <2>0, <1>3, <1>4, <1>5 DEF Asks
  <2>3. ASSUME NEW p \in Pieces, Sent(p)' PROVE Sent(p) \/ (m.cmd = "X_DATA" /\ m = DataOf(p))
    BY <2>0, <2>3, <1>3, <1>4, <1>5 DEF Sent
  <2>4. ASSUME NEW p \in Pieces, Single(net[Slave], DataOf(p)), Sent(p) => m.cmd # "X_DATA" \/ m # DataOf(p)
        PROVE  Single(net'[Slave], DataOf(p))
    <3>1. CASE ~In(out, DataOf(p))
      BY <3>1, <2>4, <1>1, <1>2, <1>5
    <3>2. CASE In(out, DataOf(p))
      <4>1. DataOf(p) = m /\ m.cmd = "X_DATA"
        BY <3>2, <1>4
      <4>2. Single(out, DataOf(p)) /\ ~In(net[Slave], DataOf(p))
        BY <4>1, <2>4 DEF Sent
      <4> QED BY <4>2, <2>4, <1>1, <1>2, <1>5
    <3> QED BY <3>1, <3>2
  <2>5. ASSUME NEW d \in End, NEW n, Fin(d, n)'
        PROVE  Fin(d, n) \/ (m.cmd = "FILE_FINISH" /\ m.n = n /\ d = Other(e))
    BY <2>0, <2>5, <1>3, <1>4 DEF Fin
  <2>6. In(net'["host"], Ok) => In(net["host"], Ok) \/ m.cmd = "ECHO_OK"
    BY <1>3, <1>4, <1>5
  <2> QED BY <2>1, <2>2, <2>3, <2>4, <2>5, <2>6 DEF Arrives
<1>7. Accounts(e, rest, out, TokenMsg)
  BY PassCounts
<1>8. /\ Held = Count(net[e], TokenMsg) + Count(net[Other(e)], TokenMsg)
      /\ Held' = Count(net'[e], TokenMsg) + Count(net'[Other(e)], TokenMsg)
  <2>1. Held = Count(net["host"], TokenMsg) + Count(net["daemon"], TokenMsg)
    BY DEF Held, Carried
  <2>2. Held' = Count(net'["host"], TokenMsg) + Count(net'["daemon"], TokenMsg)
    <3>1. TokenMsg' = TokenMsg
      BY XConstant
    <3> QED BY <3>1 DEF Held, Carried, Count, Places
  <2>3. \A d \in End : Count(net[d], TokenMsg) \in Nat /\ Count(net'[d], TokenMsg) \in Nat
    BY <1>7 DEF Accounts
  <2>4. (e = "host" /\ Other(e) = "daemon") \/ (e = "daemon" /\ Other(e) = "host")
    BY Ends2 DEF Other
  <2> QED BY <2>1, <2>2, <2>3, <2>4, <1>5 DEF End
<1>9. Brings(m) \in 0 .. 1
  BY DEF Brings
<1>10. /\ Held \in Nat /\ Held' \in Nat /\ Held' <= Held + Brings(m)
       /\ net[e] # <<>> /\ rest = Tail(net[e]) => Held' + Brings(Head(net[e])) <= Held + Brings(m)
  <2> DEFINE a == Count(net[e], TokenMsg)
             b == Count(net[Other(e)], TokenMsg)
             c == Count(net'[e], TokenMsg)
             d == Count(net'[Other(e)], TokenMsg)
             r == Count(rest, TokenMsg)
             o == Count(out, TokenMsg)
             t == Brings(Head(net[e]))
  <2>1. /\ a \in Nat /\ b \in Nat /\ c \in Nat /\ d \in Nat /\ r \in Nat /\ o \in Nat
        /\ c <= r /\ d <= b + o /\ r <= a
        /\ net[e] # <<>> /\ rest = Tail(net[e]) => a = r + t
    BY <1>7, <1>2 DEF Accounts, Brings
  <2>2. t \in 0 .. 1
    BY DEF Brings
  <2>3. Held = a + b /\ Held' = c + d /\ o <= Brings(m)
    BY <1>8
  <2> HIDE DEF a, b, c, d, r, o, t
  <2>4. /\ Held \in Nat /\ Held' \in Nat /\ Held' <= Held + Brings(m)
        /\ net[e] # <<>> /\ rest = Tail(net[e]) => Held' + t <= Held + Brings(m)
    BY <2>1, <2>2, <2>3, <1>9
  <2> QED BY <2>4 DEF t
<1>11. net[e] # <<>> /\ rest = Tail(net[e]) /\ Single(net[e], Head(net[e])) => ~In(net'[e], Head(net[e]))
  BY <1>1, Taken
<1> QED BY <1>6, <1>10, <1>11

\* Messages that say nothing, not even that all is well.
Hushed(out) == Mute(out) /\ ~In(out, Ok)

\* What they bring to the other end.
LEMMA HushedSends ==
    /\ Hushed(<<>>) /\ Hushed(Finish) /\ Hushed(<<Wakeup>>)
    /\ \A e : Hushed(Log(e, "fail")) /\ Hushed(Log(e, "fail") \o Finish)
    /\ \A e : Hushed(Fails(e)) /\ Hushed(<<Wakeup>> \o Fails(e))
    /\ \A e : Hushed(Log(e, "fail") \o Out(e, Finish))
<1>0. Ok.cmd = "ECHO_OK" /\ EchoOf("fail").cmd = "ECHO_FAIL" /\ Wakeup.cmd = "WAKEUP" /\ Close(1).cmd = "CLOSE"
  BY XMessages DEF Ok, EchoOf, Wakeup, Close
<1>1. ~In(<<>>, Ok) /\ ~In(Finish, Ok) /\ ~In(<<Wakeup>>, Ok)
  BY <1>0, Few, Emptied DEF Finish
<1>2. \A e : ~In(Log(e, "fail"), Ok)
  BY <1>0, Few, Emptied DEF Log
<1>3. ASSUME NEW a, NEW b, Mute(a), Mute(b), ~In(a, Ok), ~In(b, Ok) PROVE ~In(a \o b, Ok)
  <2>1. a \in Seq(XferMsg) /\ b \in Seq(XferMsg)
    BY <1>3 DEF Mute
  <2> QED BY <2>1, <1>3, Joined
<1>4. \A e : ~In(Log(e, "fail") \o Finish, Ok) /\ ~In(Log(e, "fail") \o Out(e, Finish), Ok)
  BY <1>1, <1>2, <1>3, MuteSends DEF Out
<1>5. \A e : ~In(Fails(e), Ok) /\ ~In(<<Wakeup>> \o Fails(e), Ok)
  BY <1>1, <1>3, <1>4, MuteSends DEF Fails
<1> QED BY <1>1, <1>2, <1>4, <1>5, MuteSends DEF Hushed

\* A message of a transfer stays what it is, and no other comes.
Stays ==
    /\ \A n : Check(n)' => Check(n)
    /\ Asks' => Asks
    /\ \A p \in Pieces : /\ Sent(p)' => Sent(p)
                         /\ Single(net[Slave], DataOf(p)) => Single(net'[Slave], DataOf(p))
    /\ \A d \in End : \A n : Fin(d, n)' => Fin(d, n)

\* After a step that passes nothing of a transfer on.
LEMMA AfterMute ==
    ASSUME XBase, UNCHANGED <<kind, origin>>, NEW e \in End, NEW rest, Rests(e, rest),
           NEW out, Mute(out), Passes(e, rest, out)
    PROVE  /\ Stays /\ Held \in Nat /\ Held' \in Nat /\ Held' <= Held
           /\ ~In(out, Ok) => (In(net'["host"], Ok) => In(net["host"], Ok))
           /\ net[e] # <<>> /\ rest = Tail(net[e]) => Held' + Brings(Head(net[e])) <= Held
<1>0. out \in Seq(XferMsg) /\ \A m : In(out, m) => m \in MuteMsg
  BY DEF Mute
<1>1. Count(out, TokenMsg) = 0
  <2>1. \A m \in TokenMsg : ~In(out, m)
    BY <1>0, MuteFacts
  <2> QED BY <2>1, <1>0, CountNat
<1>2. Ok \in MuteMsg /\ Ok.cmd = "ECHO_OK" /\ Wakeup \in MuteMsg /\ Wakeup.cmd = "WAKEUP" /\ Wakeup # Ok
  BY XMessages DEF Ok, EchoOf, Wakeup, MuteMsg, XCmds
<1>3. ASSUME NEW m \in {Ok, Wakeup}, In(out, Ok) => m = Ok
      PROVE  /\ Arrives(e, m) /\ Brings(m) = 0
             /\ Held \in Nat /\ Held' \in Nat /\ Held' <= Held + Brings(m)
             /\ net[e] # <<>> /\ rest = Tail(net[e]) =>
                  Held' + Brings(Head(net[e])) <= Held + Brings(m)
  <2>1. Brings(m) = 0
    BY <1>2, MuteFacts DEF Brings
  <2>2. \A y : In(out, y) => y = m \/ (y \in MuteMsg /\ y # Ok)
    BY <1>0, <1>3
  <2>3. Count(out, TokenMsg) <= Brings(m)
    BY <1>1, <2>1
  <2>4. m.cmd = "X_DATA" => Single(out, m)
    BY <1>2
  <2> QED BY <1>0, <2>1, <2>2, <2>3, <2>4, Arrival
<1>4. \A k \in Nat : k + 0 = k
  OBVIOUS
<1>5. CASE In(out, Ok)
  <2>1. Arrives(e, Ok)
    BY <1>3, <1>5
  <2>2. Stays
    BY <2>1, <1>2 DEF Arrives, Stays
  <2> QED BY <1>3, <1>4, <1>5, <2>2
<1>6. CASE ~In(out, Ok)
  <2>1. Arrives(e, Wakeup)
    BY <1>3, <1>6
  <2>2. Stays /\ (In(net'["host"], Ok) => In(net["host"], Ok))
    BY <2>1, <1>2 DEF Arrives, Stays
  <2> QED BY <1>3, <1>4, <1>6, <2>2
<1> QED BY <1>5, <1>6

\* After a handler of a message or of an event, that sends nothing of a transfer.
LEMMA MuteStep ==
    ASSUME XBase, UNCHANGED <<kind, origin, session>>, NEW e \in End, NEW lvs, NEW out, Mute(out),
           Emit(e, lvs, out) \/ (Answer(e, lvs, out) /\ net[e] # <<>>)
    PROVE  /\ Stays /\ Held \in Nat /\ Held' \in Nat /\ Held' <= Held
           /\ Answer(e, lvs, out) /\ net[e] # <<>> => Held' + Brings(Head(net[e])) <= Held
           /\ "ok" \notin lvs /\ ~In(out, Ok) => (OkSaid' => OkSaid)
<1> USE XBaseFacts
<1>1. ASSUME NEW rest, Rests(e, rest), Passes(e, rest, out)
      PROVE  /\ Stays /\ Held \in Nat /\ Held' \in Nat /\ Held' <= Held
             /\ ~In(out, Ok) => (In(net'["host"], Ok) => In(net["host"], Ok))
             /\ net[e] # <<>> /\ rest = Tail(net[e]) => Held' + Brings(Head(net[e])) <= Held
  BY <1>1, AfterMute
<1>2. PICK rest : Rests(e, rest) /\ Passes(e, rest, out)
  BY PassBy
<1>3. Answer(e, lvs, out) /\ net[e] # <<>> => Held' + Brings(Head(net[e])) <= Held
  BY <1>1, PassBy
<1>4. "ok" \notin lvs => ("ok" \in told' => "ok" \in told)
  BY DEF Emit, Answer, Sends, LogTold
<1>5. OkSaid' <=> "ok" \in told' \/ In(net'["host"], Ok)
  BY DEF OkSaid, Ok, In, EchoOf, Msg
<1>6. OkSaid <=> "ok" \in told \/ In(net["host"], Ok)
  BY DEF OkSaid, Ok
<1>7. /\ Stays /\ Held \in Nat /\ Held' \in Nat /\ Held' <= Held
      /\ ~In(out, Ok) => (In(net'["host"], Ok) => In(net["host"], Ok))
  BY <1>1, <1>2
<1> QED BY <1>3, <1>4, <1>5, <1>6, <1>7

\* After one that sends a message, and says nothing.
LEMMA OneStep ==
    ASSUME XBase, UNCHANGED <<kind, origin, session>>, NEW e \in End, NEW m \in XSays(Other(e)),
           m.cmd # "ECHO_OK",
           \/ Emit(e, {}, <<m>>) \/ Emit(e, {}, Out(e, <<m>>))
           \/ Answer(e, {}, <<m>>) /\ net[e] # <<>>
    PROVE  /\ Arrives(e, m) /\ Held \in Nat /\ Held' \in Nat /\ Held' <= Held + Brings(m)
           /\ Answer(e, {}, <<m>>) /\ net[e] # <<>> =>
                /\ Held' + Brings(Head(net[e])) <= Held + Brings(m)
                /\ Single(net[e], Head(net[e])) => ~In(net'[e], Head(net[e]))
           /\ OkSaid' => OkSaid
<1> USE XBaseFacts
<1>0. /\ <<m>> \in Seq(XferMsg) /\ m = Msg(m.cmd, m.n) /\ Single(<<m>>, m)
      /\ \A y : In(<<m>>, y) => y = m
  BY Few, XMessages DEF XSays
<1>c. Count(<<m>>, TokenMsg) <= Brings(m)
  <2>1. Count(<<m>>, TokenMsg) = IF m \in TokenMsg THEN 1 ELSE 0
    BY CountFew, Zenon
  <2>2. Count(<<m>>, TokenMsg) = Brings(m)
    BY <2>1 DEF Brings
  <2>3. Brings(m) \in 0 .. 1
    BY DEF Brings
  <2> QED BY <2>2, <2>3
<1>1. ASSUME NEW rest, Rests(e, rest), Passes(e, rest, <<m>>)
      PROVE  /\ Arrives(e, m)
             /\ Held \in Nat /\ Held' \in Nat /\ Held' <= Held + Brings(m)
             /\ net[e] # <<>> /\ rest = Tail(net[e]) =>
                  /\ Held' + Brings(Head(net[e])) <= Held + Brings(m)
                  /\ Single(net[e], Head(net[e])) => ~In(net'[e], Head(net[e]))
  BY <1>0, <1>c, <1>1, Arrival
<1>2. told' = told
  BY DEF Emit, Answer, Sends, LogTold
<1>3. OkSaid' <=> "ok" \in told' \/ In(net'["host"], Ok)
  BY DEF OkSaid, Ok, In, EchoOf, Msg
<1>4. OkSaid <=> "ok" \in told \/ In(net["host"], Ok)
  BY DEF OkSaid, Ok
<1>5. CASE Emit(e, {}, <<m>>) \/ (Answer(e, {}, <<m>>) /\ net[e] # <<>>)
  <2>1. PICK rest : Rests(e, rest) /\ Passes(e, rest, <<m>>)
    BY <1>5, PassBy
  <2>2. Arrives(e, m) /\ Held \in Nat /\ Held' \in Nat /\ Held' <= Held + Brings(m)
    BY <2>1, <1>1
  <2>3. Answer(e, {}, <<m>>) /\ net[e] # <<>> =>
                /\ Held' + Brings(Head(net[e])) <= Held + Brings(m)
                /\ Single(net[e], Head(net[e])) => ~In(net'[e], Head(net[e]))
    BY <1>1, PassBy
  <2>4. In(net'["host"], Ok) => In(net["host"], Ok)
    BY <2>2 DEF Arrives
  <2> QED BY <2>2, <2>3, <2>4, <1>2, <1>3, <1>4
<1>6. CASE Emit(e, {}, <<>>) /\ ~(Answer(e, {}, <<m>>) /\ net[e] # <<>>)
  <2>1. /\ Stays /\ Held \in Nat /\ Held' \in Nat /\ Held' <= Held
        /\ Rests(e, net[e]) /\ Passes(e, net[e], <<>>)
    BY <1>6, HushedSends, MuteStep, PassBy DEF Hushed
  <2>2. In(net'["host"], Ok) => In(net["host"], Ok)
    BY <2>1, HushedSends, AfterMute DEF Hushed
  <2>3. Arrives(e, m)
    BY <2>1, <2>2 DEF Stays, Arrives
  <2>4. Brings(m) \in 0 .. 1
    BY DEF Brings
  <2>5. Held' <= Held + Brings(m)
    BY <2>1, <2>4
  <2> QED BY <1>6, <2>1, <2>2, <2>3, <2>5, <1>2, <1>3, <1>4
<1> QED BY <1>5, <1>6 DEF Out

-----------------------------------------------------------------------------
(* What the invariant of a transfer is made of.                            *)

\* The token, counted.
TokFacts ==
    /\ Held \in Nat /\ Goes \in Nat /\ opening[origin] \in Nat /\ opening[Slave] \in Nat
    /\ closing[origin] \in Nat /\ closing[Slave] \in Nat /\ async \in Nat /\ owed["daemon"] \in Nat
    /\ Tok = Held + opening[origin] + opening[Slave] + Goes
    /\ kind = "dir" => Goes = closing[Slave]
    /\ kind = "install" => /\ Slave = "daemon" /\ origin = "host"
                           /\ Goes = (IF lastErrno[Slave] THEN 0 ELSE closing[Slave]) + async + owed["daemon"]
    /\ kind = "uninstall" => Goes = async + owed["daemon"]
    /\ kind \in {"file", "sideload"} => Goes = 0
    /\ \A n \in File : Check(n) => Held >= 1
    /\ Asks => Held >= 1
    /\ kind = "dir" => \A d \in End : Fin(d, 1) => Held >= 1

\* They hold in every state of a transfer.
LEMMA TokCounted == XBase => TokFacts
<1> SUFFICES ASSUME XBase PROVE TokFacts
  OBVIOUS
<1> USE XBaseFacts
<1>1. /\ opening[origin] \in Nat /\ opening[Slave] \in Nat
      /\ closing[origin] \in Nat /\ closing[Slave] \in Nat /\ async \in Nat /\ owed["daemon"] \in Nat
  BY XEnds DEF End
<1>2. /\ Count(net["host"], TokenMsg) \in Nat /\ Count(net["daemon"], TokenMsg) \in Nat
      /\ \A d \in End : \A m \in TokenMsg : In(net[d], m) => Held >= 1
  <2>1. \A d \in End : /\ Count(net[d], TokenMsg) \in Nat
                       /\ Count(net[d], TokenMsg) = 0 <=> \A m \in TokenMsg : ~In(net[d], m)
    BY CountNat
  <2>2. "host" \in End /\ "daemon" \in End /\ \A d \in End : d = "host" \/ d = "daemon"
    BY DEF End
  <2>3. Held = Count(net["host"], TokenMsg) + Count(net["daemon"], TokenMsg)
    BY DEF Held, Carried
  <2>4. ASSUME NEW d \in End, NEW m \in TokenMsg, In(net[d], m) PROVE Held >= 1
    <3>1. Count(net[d], TokenMsg) # 0
      BY <2>1, <2>4
    <3>2. Count(net["host"], TokenMsg) # 0 \/ Count(net["daemon"], TokenMsg) # 0
      BY <3>1, <2>2
    <3> DEFINE a == Count(net["host"], TokenMsg)
               b == Count(net["daemon"], TokenMsg)
    <3>3. a \in Nat /\ b \in Nat /\ (a # 0 \/ b # 0) /\ Held = a + b
      BY <2>1, <2>2, <2>3, <3>2
    <3> HIDE DEF a, b
    <3> QED BY <3>3
  <2> QED BY <2>1, <2>2, <2>4
<1>3. Held \in Nat
  BY <1>2 DEF Held, Carried
<1>4. /\ \A n \in File : Msg("X_CHECK", n) \in TokenMsg
      /\ Begin0 \in TokenMsg
      /\ kind = "dir" => Msg("FILE_FINISH", 1) \in TokenMsg
  BY XMessages DEF TokenMsg, Begin0, XCmds
<1>5. /\ \A n \in File : Check(n) => Held >= 1
      /\ Asks => Held >= 1
      /\ kind = "dir" => \A d \in End : Fin(d, 1) => Held >= 1
  BY <1>2, <1>4, XEnds DEF Check, Asks, Fin
<1>6. kind = "install" => Slave = "daemon" /\ origin = "host"
  BY XEnds DEF XTypes
<1>7. Goes \in Nat
  <2>1. \A a, b, c \in Nat : a + b + c \in Nat /\ a + b \in Nat /\ 0 + a + b \in Nat
    OBVIOUS
  <2>2. 0 \in Nat
    OBVIOUS
  <2>3. (IF lastErrno[Slave] THEN 0 ELSE closing[Slave]) \in Nat
    BY <1>1, <2>2
  <2> QED BY <1>1, <2>1, <2>2, <2>3, Zenon DEF Goes
<1>8. Tok = Held + opening[origin] + opening[Slave] + Goes
  BY DEF Tok, Held
<1> QED BY <1>1, <1>3, <1>5, <1>6, <1>7, <1>8 DEF TokFacts, Goes

\* These are the same before and after a step.
LEMMA XSame ==
    ASSUME UNCHANGED <<kind, origin>>
    PROVE  /\ Slave' = Slave /\ NumFiles' = NumFiles /\ origin' = origin /\ kind' = kind
           /\ Begin0' = Begin0 /\ MaxSize' = MaxSize /\ Pieces' = Pieces
           /\ Reads' = Reads /\ Writes' = Writes /\ File' = File
           /\ \A p : DataOf(p)' = DataOf(p)
           /\ Begun' = NumFiles - queue'
           /\ (Sending' <=> Sending) /\ (Careful' <=> Careful)
<1>1. MaxSize' = MaxSize /\ File' = File /\ Begin0' = Begin0
  BY DEF MaxSize, File, Begin0, Msg
<1>2. Pieces' = Pieces
  BY <1>1 DEF Pieces, Piece
<1>3. Reads' = Reads /\ Writes' = Writes
  BY <1>2 DEF Reads, Writes
<1>4. \A p : DataOf(p)' = DataOf(p)
  BY <1>1 DEF DataOf, Msg, Code
<1>5. Begun' = NumFiles - queue'
  BY XConstant DEF Begun
<1> QED BY <1>1, <1>2, <1>3, <1>4, <1>5, XConstant

\* Fewer pieces are under way.
Drains ==
    /\ io'[origin] = io[origin] \/ io'[origin] = <<>>
    /\ io[Slave] = <<>> => io'[Slave] = <<>>
    /\ \A x : In(io'[Slave], x) => In(io[Slave], x)
    /\ \A x : Single(io[Slave], x) => Single(io'[Slave], x)
    /\ \A p \in Pieces : Sent(p)' => Sent(p)

\* Nothing new is under way after such a step.
LEMMA Drained ==
    ASSUME XBase, UNCHANGED <<kind, origin>>, Drains
    PROVE  /\ NoFlow => NoFlow'
           /\ \A p \in Pieces : (Wr(p)' => Wr(p)) /\ (Way(p)' => Way(p))
<1>1. NoFlow => NoFlow'
  BY XSame DEF NoFlow, Drains
<1>2. ASSUME NEW p \in Pieces PROVE Wr(p)' => Wr(p)
  <2>1. Wr(p)' <=> \E x \in Writes : In(io'[Slave], x) /\ x.piece = p
    BY XSame DEF Wr, In
  <2> QED BY <2>1 DEF Wr, Drains
<1>3. ASSUME NEW p \in Pieces PROVE Way(p)' => Way(p)
  BY <1>2 DEF Way, Drains
<1> QED BY <1>1, <1>2, <1>3

\* Requests stay as they are.
LEMMA DrainsBy ==
    ASSUME UNCHANGED io, \A p \in Pieces : Sent(p)' => Sent(p)
    PROVE  Drains
BY DEF Drains

\* No new token.
LEMMA TokenStays ==
    ASSUME XBase, XBase', UNCHANGED <<kind, origin>>, TokenInv, Tok' <= Tok, NoFlow => NoFlow',
           kind = "install" /\ lastErrno'[Slave] => lastErrno[Slave] \/ Tok' = 0
    PROVE  TokenInv'
<1>1. TokFacts /\ TokFacts'
  BY TokCounted, PTL
<1>2. Tok \in Nat /\ Tok' \in Nat
  <2>1. Tok \in Nat
    BY <1>1 DEF TokFacts
  <2>2. Tok' \in Nat
    BY <1>1 DEF TokFacts
  <2> QED BY <2>1, <2>2
<1> QED BY <1>2, XSame DEF TokenInv

\* What the token is made of stays, but for its messages.
LEMMA TokenKept ==
    ASSUME XBase, XBase', UNCHANGED <<kind, origin, opening, closing, async, owed, lastErrno>>,
           Held' <= Held
    PROVE  Tok' <= Tok /\ Tok \in Nat /\ Tok' \in Nat
<1>1. TokFacts /\ TokFacts'
  BY TokCounted, PTL
<1>2. Goes' = Goes
  BY XSame DEF Goes
<1>3. Tok = Held + opening[origin] + opening[Slave] + Goes
  BY <1>1 DEF TokFacts
<1>4. Tok' = Held' + opening[origin] + opening[Slave] + Goes
  BY <1>1, <1>2, XSame DEF TokFacts
<1>5. Held \in Nat /\ Goes \in Nat /\ opening[origin] \in Nat /\ opening[Slave] \in Nat /\ Held' \in Nat
  BY <1>1 DEF TokFacts
<1> QED BY <1>3, <1>4, <1>5

\* Both ends stay at their files.
LEMMA PlacedStays ==
    ASSUME XBase, UNCHANGED <<kind, origin, queue, cur, fd>>, PlacedInv,
           opening'[origin] > 0 => opening[origin] > 0,
           opening'[Slave] > 0 => opening[Slave] > 0,
           \A n : Check(n)' => Check(n), Asks' => Asks, ~NoFlow' => ~NoFlow \/ Asks,
           \/ indexIO'[origin] = indexIO[origin]
           \/ opening'[Slave] = 0 /\ ~Asks' /\ \A n \in File : ~Check(n)'
    PROVE  PlacedInv'
<1>1. Begun' = Begun
  BY XSame DEF Begun
<1>2. (Ahead' <=> Ahead) /\ (Announced' <=> Announced)
  BY <1>1, XSame DEF Ahead, Announced
<1> USE <1>1, <1>2, XSame
<1>3. cur'[Slave'] <= Begun' /\ fd'[Slave'] <= Begun' /\ (opening'[origin'] > 0 => Ahead')
  BY DEF PlacedInv
<1>4. \A n \in File' : Check(n)' => n = Begun' /\ Announced' /\ Ahead' /\ indexIO'[origin'] = 0
  BY DEF PlacedInv
<1>5. /\ opening'[Slave'] > 0 => Announced' /\ cur'[Slave'] = Begun' /\ fd'[Slave'] < Begun'
                                 /\ indexIO'[origin'] = 0
      /\ Asks' => indexIO'[origin'] = 0
      /\ Asks' \/ ~NoFlow' => Announced' /\ cur'[Slave'] = Begun' /\ fd'[Slave'] = Begun'
  BY DEF PlacedInv
<1> QED BY <1>3, <1>4, <1>5 DEF PlacedInv

\* The pieces that the slave has stay.
LEMMA CountStays ==
    ASSUME XBase, UNCHANGED <<kind, origin, size, disk>>, CountInv,
           cur'[Slave] = cur[Slave], fd'[Slave] = fd[Slave], indexIO'[Slave] = indexIO[Slave],
           cur'[origin] = cur'[Slave] =>
             /\ cur[origin] = cur[Slave]
             /\ \A i \in 0 .. MaxSize : i < indexIO[origin] => i < indexIO'[origin]
    PROVE  CountInv'
<1>1. \A g : Got(g)' = Got(g) /\ Got(g) \subseteq 0 .. MaxSize
  BY XSame DEF Got
<1>2. Got(cur[Slave])' = Got(cur'[Slave])
  BY XSame DEF Got
<1>3. Got(cur[Slave])' = Got(cur[Slave])
  BY <1>2, XSame
<1> QED BY <1>1, <1>3, XSame DEF CountInv

\* Pieces arrive, or are lost.
LEMMA FlowStays ==
    ASSUME XBase, UNCHANGED <<kind, origin, queue, size, disk>>, FlowInv, Drains,
           indexIO'[origin] = indexIO[origin], Asks' => Asks,
           \A p \in Pieces : Single(net[Slave], DataOf(p)) => Single(net'[Slave], DataOf(p)),
           lastErrno[Slave] => lastErrno'[Slave],
           kind \in {"dir", "install"} /\ ioFinish'[Slave] /\ (~NoFlow' \/ Asks')
             => ioFinish[Slave] \/ lastErrno'[Slave]
    PROVE  FlowInv'
<1>1. Begun' = Begun
  BY XSame DEF Begun
<1>2. /\ NoFlow => NoFlow'
      /\ \A p \in Pieces : (Wr(p)' => Wr(p)) /\ (Way(p)' => Way(p))
  BY Drained
<1>3. Len(io'[origin]) <= 1 /\ \A x : In(io'[origin], x) => In(io[origin], x)
  BY Emptied DEF FlowInv, Drains
<1>4. ASSUME NEW x \in Reads, In(io'[origin], x) PROVE Reading(x)'
  <2>1. Reading(x)
    BY <1>3, <1>4 DEF FlowInv
  <2> QED BY <2>1, <1>1, <1>2, XSame DEF Reading
<1>5. \A x \in Writes : Single(io'[Slave], x) /\ (In(io'[Slave], x) => x.to = Begun)
  BY DEF FlowInv, Drains
<1>6. ASSUME NEW p \in Pieces PROVE /\ Way(p)' => Flying(p)'
                                    /\ Single(net'[Slave], DataOf(p)) /\ ~(Sent(p)' /\ Wr(p)')
  <2>1. Way(p)' => Flying(p)
    BY <1>2 DEF FlowInv
  <2>2. Flying(p) => Flying(p)'
    BY <1>1, XSame DEF Flying
  <2>3. Single(net'[Slave], DataOf(p)) /\ ~(Sent(p)' /\ Wr(p)')
    BY <1>2 DEF FlowInv, Drains
  <2> QED BY <2>1, <2>2, <2>3
<1>7. kind \in {"dir", "install"} /\ ioFinish'[Slave] /\ (~NoFlow' \/ Asks') => lastErrno'[Slave]
  BY <1>2 DEF FlowInv
<1>8. \A x : (In(io[origin], x))' <=> In(io'[origin], x)
  BY XSame DEF In
<1>9. \A x : ((In(io[Slave], x))' <=> In(io'[Slave], x)) /\ ((Single(io[Slave], x))' <=> Single(io'[Slave], x))
  BY XSame DEF In, Single
<1>10. \A p \in Pieces : (Single(net[Slave], DataOf(p)))' <=> Single(net'[Slave], DataOf(p))
  BY XSame DEF Single
<1> QED BY <1>1, <1>3, <1>4, <1>5, <1>6, <1>7, <1>8, <1>9, <1>10, XSame DEF FlowInv

\* The files of the slave stay.
LEMMA WholeStays ==
    ASSUME UNCHANGED <<size, disk>>
    PROVE  \A g : Whole(g)' <=> Whole(g)
BY DEF Whole

\* A directory goes on as before.
LEMMA DirStays ==
    ASSUME XBase, UNCHANGED <<kind, origin, queue, size, disk>>, DirInv,
           kind = "dir" => \A d \in End : ~lastErrno'[d],
           closeNotify'[origin] => closeNotify[origin],
           closeNotify[Slave] => closeNotify'[Slave],
           kind = "dir" => (closing'[Slave] > 0 => closing[Slave] > 0),
           \A d \in End : \A n : Fin(d, n)' => Fin(d, n),
           kind = "dir" => (OkSaid' => OkSaid \/ (AllWhole /\ NoFlow)),
           NoFlow => NoFlow', Tok = 0 => Tok' = 0
    PROVE  DirInv'
<1>1. Begun' = Begun /\ \A g : Whole(g)' <=> Whole(g)
  BY XSame, WholeStays DEF Begun
<1>2. Slave \in End /\ origin \in End /\ Slave' = Slave /\ origin' = origin
  BY XBaseFacts, XEnds, XSame
<1>3. /\ Fin(Slave, 0)' => Fin(Slave, 0)
      /\ Fin(Slave, 1)' => Fin(Slave, 1)
      /\ Fin(origin, 0)' => Fin(origin, 0)
      /\ Fin(origin, 1)' => Fin(origin, 1)
  <2>2. \A n : /\ Fin(Slave, n)' <=> In(net'[Slave], Msg("FILE_FINISH", n))
               /\ Fin(origin, n)' <=> In(net'[origin], Msg("FILE_FINISH", n))
    BY <1>2 DEF Fin, In, Msg
  <2>3. \A d \in End : \A n : Fin(d, n)' <=> In(net'[d], Msg("FILE_FINISH", n))
    BY DEF Fin, In, Msg
  <2> QED BY <1>2, <2>2, <2>3
<1>4. AllWhole => AllWhole'
  BY <1>1, XSame DEF AllWhole
<1>5. SUFFICES ASSUME kind = "dir"
               PROVE  /\ \A d \in End : ~lastErrno'[d]
                      /\ ~closeNotify'[origin] /\ ~Fin(Slave, 1)' /\ ~Fin(origin, 0)'
                      /\ closing'[Slave] > 0 => closeNotify'[Slave]
                      /\ \A g \in 1 .. (Begun - 1) : Whole(g)'
                      /\ (closing'[Slave] > 0 \/ Fin(origin, 1)') => Begun >= 1 /\ Whole(Begun)' /\ NoFlow'
                      /\ (Fin(Slave, 0)' \/ OkSaid') => AllWhole' /\ NoFlow'
  <2>1. (Whole(Begun))' <=> Whole(Begun)
    BY <1>1 DEF Whole
  <2> QED BY <1>1, <1>2, <2>1 DEF DirInv
<1>6. /\ \A d \in End : ~lastErrno'[d]
      /\ ~closeNotify'[origin] /\ ~Fin(Slave, 1)' /\ ~Fin(origin, 0)'
      /\ closing'[Slave] > 0 => closeNotify'[Slave]
  BY <1>3, <1>5 DEF DirInv
<1>7. \A g \in 1 .. (Begun - 1) : Whole(g)'
  BY <1>1, <1>5 DEF DirInv
<1>8. (closing'[Slave] > 0 \/ Fin(origin, 1)') => Begun >= 1 /\ Whole(Begun)' /\ NoFlow'
  <2>1. Whole(Begun)' <=> Whole(Begun)
    BY <1>1 DEF Whole
  <2> QED BY <2>1, <1>3, <1>5 DEF DirInv
<1>9. (Fin(Slave, 0)' \/ OkSaid') => AllWhole' /\ NoFlow'
  BY <1>3, <1>4, <1>5 DEF DirInv
<1> QED BY <1>6, <1>7, <1>8, <1>9

\* A package goes on as before.
LEMMA InstallStays ==
    ASSUME XBase, UNCHANGED <<kind, origin, size>>, InstallInv,
           kind = "install" =>
             /\ closing'[Slave] > 0 => closing[Slave] > 0 /\ closeNotify'[Slave] = closeNotify[Slave]
             /\ \/ ~lastErrno'[Slave] => ~lastErrno[Slave]
                \/ closing'[Slave] = 0
             /\ async' > 0 => async > 0
             /\ UNCHANGED <<cur, disk>> \/ (closing'[Slave] = 0 /\ async' = 0)
                \/ (async' = 0 /\ lastErrno'[Slave])
    PROVE  InstallInv'
<1>1. SUFFICES ASSUME kind = "install"
               PROVE  /\ closing'[Slave] > 0 => closeNotify'[Slave]
                      /\ ((closing'[Slave] > 0 /\ ~lastErrno'[Slave]) \/ async' > 0)
                           => cur'[Slave] >= 1 /\ Whole(cur[Slave])'
  <2>1. Whole(cur[Slave])' <=> (Whole(cur[Slave]))'
    OBVIOUS
  <2> QED BY XSame DEF InstallInv
<1>2. UNCHANGED <<cur, disk>> => (Whole(cur[Slave])' <=> Whole(cur[Slave]))
  BY XSame DEF Whole
<1> QED BY <1>1, <1>2 DEF InstallInv

\* A file goes on as before.
LEMMA FileStays ==
    ASSUME XBase, UNCHANGED <<kind, origin, queue, size>>, FileInv,
           kind = "file" =>
             /\ cur[Slave] = 1 /\ fd[Slave] = 1 /\ Tok = 0 => cur'[Slave] = 1 /\ fd'[Slave] = 1
             /\ cur[origin] = 1 /\ Tok = 0 => cur'[origin] = 1
             /\ closeNotify'[origin] => closeNotify[origin]
             /\ closeNotify[origin] /\ Tok = 0 => closeNotify'[origin]
             /\ io[origin] = <<>> /\ Tok = 0 => io'[origin] = <<>> /\ indexIO'[origin] = indexIO[origin]
             /\ closing'[Slave] > 0 => closing[Slave] > 0
             /\ \A d \in End : \A n : Fin(d, n)' => Fin(d, n)
             /\ OkSaid' => OkSaid \/ AllWhole
             /\ Tok = 0 => Tok' = 0
             /\ Tok = 0 /\ Whole(1) => Whole(1)'
    PROVE  FileInv'
<1>1. SUFFICES ASSUME kind = "file" PROVE FileInv'
  BY XSame DEF FileInv
<1>2. Slave \in End /\ origin \in End /\ Slave' = Slave /\ origin' = origin
  BY XBaseFacts, XEnds, XSame
<1>3. /\ Fin(Slave, 0)' => Fin(Slave, 0)
      /\ Fin(Slave, 1)' => Fin(Slave, 1)
      /\ Fin(origin, 0)' => Fin(origin, 0)
      /\ Fin(origin, 1)' => Fin(origin, 1)
  <2>2. \A n : /\ Fin(Slave, n)' <=> In(net'[Slave], Msg("FILE_FINISH", n))
               /\ Fin(origin, n)' <=> In(net'[origin], Msg("FILE_FINISH", n))
    BY <1>2 DEF Fin, In, Msg
  <2>3. \A d \in End : \A n : Fin(d, n)' <=> In(net'[d], Msg("FILE_FINISH", n))
    BY DEF Fin, In, Msg
  <2> QED BY <1>1, <1>2, <2>2, <2>3
<1>4. NumFiles = 1 /\ NumFiles' = 1
  BY <1>1, XBaseFacts, XEnds, XSame
<1>5. AllWhole => AllWhole'
  <2>1. \A g \in 1 .. NumFiles : g = 1
    BY <1>4
  <2>2. 1 \in 1 .. NumFiles
    BY <1>4
  <2>3. \A g \in 1 .. NumFiles' : g = 1
    BY <1>4
  <2> QED BY <1>1, <2>1, <2>2, <2>3 DEF AllWhole
<1>6. /\ (Fin(origin, 1)' \/ Fin(Slave, 0)' \/ closing'[Slave] > 0)
           => Tok' = 0 /\ cur'[Slave] = 1 /\ fd'[Slave] = 1
      /\ closeNotify'[origin] => Tok' = 0 /\ io'[origin] = <<>> /\ cur'[origin] = 1 /\ queue' = 0
      /\ (Fin(Slave, 1)' \/ Fin(origin, 0)') => closeNotify'[origin]
      /\ OkSaid' => AllWhole'
  BY <1>1, <1>3, <1>5 DEF FileInv
<1>7. closeNotify'[origin] => SmallRead'
  BY <1>1, XSame DEF FileInv, SmallRead
<1> QED BY <1>2, <1>6, <1>7 DEF FileInv

-----------------------------------------------------------------------------
(* A step that says and brings nothing.                                    *)

\* Nothing of a transfer changes, but that messages are taken.
LEMMA XFrame ==
    ASSUME XBase, XBase', UNCHANGED <<kind, origin, owed, xferVars>>, TokenInv,
           Stays, Held' <= Held,
           IsFile /\ OkSaid' => OkSaid \/ (AllWhole /\ (kind = "dir" => NoFlow))
    PROVE  TokenInv' /\ (Sending /\ SendInv => SendInv')
<1>0. UNCHANGED <<size, queue, cur, fd, opening, closing, io, indexIO, ioFinish, closeNotify, lastErrno,
                  disk, async, owed, kind, origin>>
  BY DEF xferVars, ctxVars
<1>1. Tok' <= Tok /\ Tok \in Nat /\ Tok' \in Nat
  BY <1>0, TokenKept
<1>2. Drains /\ (NoFlow => NoFlow')
  BY <1>0, DrainsBy, Drained DEF Stays
<1>3. TokenInv'
  BY <1>0, <1>1, <1>2, TokenStays
<1>4. ASSUME PlacedInv PROVE PlacedInv'
  BY <1>0, <1>2, <1>4, PlacedStays DEF Stays
<1>5. ASSUME CountInv PROVE CountInv'
  BY <1>0, <1>5, CountStays
<1>6. ASSUME FlowInv PROVE FlowInv'
  BY <1>0, <1>2, <1>6, FlowStays DEF Stays
<1>7. Tok = 0 => Tok' = 0
  BY <1>1
<1>8. ASSUME DirInv PROVE DirInv'
  <2>1. kind = "dir" => \A d \in End : ~lastErrno'[d]
    BY <1>0, <1>8 DEF DirInv
  <2>2. kind = "dir" => IsFile
    BY DEF IsFile
  <2> QED BY <1>0, <1>2, <1>7, <1>8, <2>1, <2>2, DirStays DEF Stays
<1>9. ASSUME InstallInv PROVE InstallInv'
  BY <1>0, <1>9, InstallStays
<1>10. ASSUME FileInv PROVE FileInv'
  <2>1. Whole(1)' <=> Whole(1)
    BY <1>0, WholeStays
  <2>2. kind = "file" => IsFile
    BY DEF IsFile
  <2> QED BY <1>0, <1>7, <1>10, <2>1, <2>2, FileStays DEF Stays
<1> QED BY <1>3, <1>4, <1>5, <1>6, <1>8, <1>9, <1>10 DEF SendInv

\* What all commands share.
LEMMA XCommonData ==
    ASSUME XBase, XBase', CommonStep \/ UNCHANGED vars, TokenInv
    PROVE  TokenInv' /\ (Sending /\ SendInv => SendInv')
<1>1. UNCHANGED <<kind, origin, owed, xferVars>>
  BY XferUntouched DEF XBase
<1>2. PICK e, rest, out : /\ e \in End /\ Rests(e, rest) /\ Mute(out) /\ Passes(e, rest, out)
                          /\ \A m : In(out, m) => m.cmd = "CLOSE"
                          /\ "ok" \in told' => OkSaid
  BY XShared
<1>3. ~In(out, Ok)
  <2>1. Ok.cmd = "ECHO_OK"
    BY XMessages DEF Ok, EchoOf
  <2> QED BY <2>1, <1>2
<1>4. Stays /\ Held' <= Held /\ (In(net'["host"], Ok) => In(net["host"], Ok))
  BY <1>1, <1>2, <1>3, AfterMute
<1>5. OkSaid' => OkSaid
  <2>1. OkSaid' <=> "ok" \in told' \/ In(net'["host"], Ok)
    BY DEF OkSaid, Ok, In, EchoOf, Msg
  <2> QED BY <2>1, <1>2, <1>4 DEF OkSaid, Ok
<1> QED BY <1>1, <1>4, <1>5, XFrame

\* Four numbers that add up to one at most.
LEMMA OneOfFour ==
    ASSUME NEW a \in Nat, NEW b \in Nat, NEW c \in Nat, NEW d \in Nat, NEW t, t = a + b + c + d
    PROVE  /\ t <= 1 /\ (a >= 1 \/ b > 0 \/ c > 0 \/ d > 0) => t = 1 /\ a + b + c + d = 1
           /\ t = 0 => a = 0 /\ b = 0 /\ c = 0 /\ d = 0
           /\ t \in Nat /\ (t <= 1 /\ t # 1 => t = 0)
OBVIOUS

\* The one thing there is.
LEMMA TokenOne ==
    ASSUME XBase, TokenInv, Held >= 1 \/ opening[origin] > 0 \/ opening[Slave] > 0 \/ Goes > 0
    PROVE  /\ Tok = 1 /\ NoFlow /\ Held + opening[origin] + opening[Slave] + Goes = 1
           /\ kind = "install" => ~lastErrno[Slave]
           /\ \A p \in Pieces : ~Way(p) /\ ~Sent(p) /\ ~Wr(p)
           /\ io[origin] = <<>> /\ io[Slave] = <<>>
<1>1. /\ Held \in Nat /\ Goes \in Nat /\ opening[origin] \in Nat /\ opening[Slave] \in Nat
      /\ Tok = Held + opening[origin] + opening[Slave] + Goes
  BY TokCounted DEF TokFacts
<1>2. Tok <= 1 /\ (Tok = 1 => NoFlow) /\ (kind = "install" /\ lastErrno[Slave] => Tok = 0)
  BY DEF TokenInv
<1>3. Tok = 1 /\ Held + opening[origin] + opening[Slave] + Goes = 1
  BY <1>1, <1>2, OneOfFour
<1>4. NoFlow /\ (kind = "install" => ~lastErrno[Slave])
  BY <1>2, <1>3
<1>5. \A p \in Pieces : ~Wr(p)
  BY <1>4, Emptied DEF NoFlow, Wr
<1> QED BY <1>3, <1>4, <1>5 DEF NoFlow, Way

\* A piece is under way: there is nothing else.
LEMMA TokenNone ==
    ASSUME XBase, TokenInv, ~NoFlow
    PROVE  /\ Tok = 0 /\ Held = 0 /\ opening[origin] = 0 /\ opening[Slave] = 0 /\ Goes = 0
           /\ ~Asks /\ \A n \in File : ~Check(n)
           /\ kind = "dir" => \A d \in End : ~Fin(d, 1)
<1>1. /\ Held \in Nat /\ Goes \in Nat /\ opening[origin] \in Nat /\ opening[Slave] \in Nat
      /\ Tok = Held + opening[origin] + opening[Slave] + Goes
  BY TokCounted DEF TokFacts
<1>2. Tok <= 1 /\ Tok # 1
  BY DEF TokenInv
<1>3. Tok = 0 /\ Held = 0 /\ opening[origin] = 0 /\ opening[Slave] = 0 /\ Goes = 0
  BY <1>1, <1>2, OneOfFour
<1>4. Held = 0 => ~(Held >= 1)
  OBVIOUS
<1> QED BY <1>3, <1>4, TokCounted DEF TokFacts

-----------------------------------------------------------------------------
(* Opening: a file, the first or the next, at the master.                  *)

\* Before a step of a transfer that sends files.
SendBase == XBase /\ TokenInv /\ SendInv /\ Sending /\ Careful

\* Nothing has been said of the end while something brings the transfer on.
Unsaid ==
    /\ kind = "file" => /\ \A d \in End : \A n \in 0 .. 1 : ~Fin(d, n)
                        /\ closing[Slave] = 0 /\ ~closeNotify[origin] /\ ~OkSaid
    /\ kind = "dir" => /\ ~Fin(Slave, 0) /\ ~Fin(Slave, 1) /\ ~Fin(origin, 0) /\ ~OkSaid
                       /\ ~closeNotify[origin] /\ \A d \in End : ~lastErrno[d]

\* While there is a token nothing has been said of the end.
LEMMA TokenQuiet ==
    ASSUME SendBase, Tok # 0 \/ ~NoFlow
    PROVE  /\ kind = "dir" => Unsaid
           /\ Tok # 0 => Unsaid
<1> USE XBaseFacts DEF SendBase
<1>1. \A d \in End : d = origin \/ d = Slave
  BY XEnds
<1>2. \A n \in 0 .. 1 : n = 0 \/ n = 1
  OBVIOUS
<1>3. closing[Slave] \in Nat /\ Slave \in End /\ origin \in End
  BY XEnds
<1>4. kind = "dir" => /\ ~Fin(Slave, 0) /\ ~Fin(Slave, 1) /\ ~Fin(origin, 0) /\ ~OkSaid
                      /\ ~closeNotify[origin] /\ \A d \in End : ~lastErrno[d]
  BY DEF SendInv, DirInv, AllWhole
<1>5. Tok # 0 /\ kind = "file" => /\ ~Fin(origin, 0) /\ ~Fin(origin, 1) /\ ~Fin(Slave, 0) /\ ~Fin(Slave, 1)
                                  /\ ~(closing[Slave] > 0) /\ ~closeNotify[origin] /\ ~OkSaid
  BY DEF SendInv, FileInv, AllWhole
<1>6. ~(closing[Slave] > 0) => closing[Slave] = 0
  BY <1>3
<1> QED BY <1>1, <1>2, <1>4, <1>5, <1>6 DEF Unsaid

\* No piece is under way, and nobody asks for one.
LEMMA FlowNone ==
    ASSUME XBase, NoFlow, Asks /\ kind \in {"dir", "install"} /\ ioFinish[Slave] => lastErrno[Slave]
    PROVE  FlowInv
<1>1. io[origin] = <<>> /\ io[Slave] = <<>> /\ \A p \in Pieces : ~Sent(p)
  BY DEF NoFlow
<1>2. \A p \in Pieces : ~Wr(p) /\ ~Way(p)
  BY <1>1, Emptied DEF Wr, Way
<1>3. Len(io[origin]) <= 1 /\ \A x : ~In(io[origin], x) /\ ~In(io[Slave], x) /\ Single(io[Slave], x)
  <2>1. \A x : ~In(<<>>, x) /\ Single(<<>>, x) /\ Len(<<>>) <= 1
    BY Emptied DEF Single
  <2> QED BY <1>1, <2>1
<1>4. \A p \in Pieces : Single(net[Slave], DataOf(p))
  <2>1. ASSUME NEW p \in Pieces PROVE Single(net[Slave], DataOf(p))
    BY <1>1 DEF Sent, In, Single
  <2> QED BY <2>1
<1> QED BY <1>1, <1>2, <1>3, <1>4 DEF FlowInv

\* A directory while a file of it is opened.
LEMMA DirEarly ==
    ASSUME kind = "dir" => /\ Unsaid /\ closing[Slave] = 0 /\ ~Fin(origin, 1)
                           /\ \A g \in 1 .. (Begun - 1) : Whole(g)
    PROVE  DirInv
BY DEF DirInv, Unsaid

\* A file while it is opened.
LEMMA FileEarly == ASSUME kind = "file" => Unsaid, origin \in End, IsTransfer PROVE FileInv
<1>1. 0 \in 0 .. 1 /\ 1 \in 0 .. 1 /\ Slave \in End /\ origin \in End
  BY XEnds
<1> QED BY <1>1 DEF FileInv, Unsaid

\* Nothing was said since.
LEMMA QuietStays ==
    ASSUME XBase, UNCHANGED <<kind, origin>>, Unsaid,
           kind = "file" => closing'[Slave] = 0,
           closeNotify'[origin] => closeNotify[origin],
           kind = "dir" => \A d \in End : lastErrno'[d] => lastErrno[d],
           IsFile => \A d \in End : \A n : Fin(d, n)' => Fin(d, n),
           OkSaid' => OkSaid
    PROVE  Unsaid'
<1>1. Slave \in End /\ origin \in End /\ Slave' = Slave /\ origin' = origin
  BY XBaseFacts, XEnds, XSame
<1>2. \A n : /\ Fin(Slave, n)' <=> In(net'[Slave], Msg("FILE_FINISH", n))
             /\ Fin(origin, n)' <=> In(net'[origin], Msg("FILE_FINISH", n))
  BY <1>1 DEF Fin, In, Msg
<1>3. \A d \in End : \A n : Fin(d, n)' <=> In(net'[d], Msg("FILE_FINISH", n))
  BY DEF Fin, In, Msg
<1>4. (kind = "file" => IsFile) /\ (kind = "dir" => IsFile)
  BY DEF IsFile
<1>5. IsFile => /\ Fin(Slave, 0)' => Fin(Slave, 0)
                /\ Fin(Slave, 1)' => Fin(Slave, 1)
                /\ Fin(origin, 0)' => Fin(origin, 0)
  BY <1>1, <1>2, <1>3
<1>6. kind = "file" => /\ \A d \in End : \A n \in 0 .. 1 : ~Fin(d, n)'
                       /\ closing'[Slave] = 0 /\ ~closeNotify'[origin] /\ ~OkSaid'
  BY <1>3, <1>4 DEF Unsaid
<1>7. kind = "dir" => /\ ~Fin(Slave, 0)' /\ ~Fin(Slave, 1)' /\ ~Fin(origin, 0)' /\ ~OkSaid'
                      /\ ~closeNotify'[origin] /\ \A d \in End : ~lastErrno'[d]
  BY <1>4, <1>5 DEF Unsaid
<1> QED BY <1>1, <1>6, <1>7 DEF Unsaid

\* A package while it is opened.
LEMMA InstallEarly ==
    ASSUME kind = "install" => closing[Slave] = 0 /\ async = 0
    PROVE  InstallInv
BY DEF InstallInv

\* The slave has another file open, or none.
LEMMA CountNone ==
    ASSUME cur[Slave] = 0 \/ fd[Slave] # cur[Slave]
    PROVE  CountInv
BY DEF CountInv

\* The token after a step.
LEMMA TokenMoves ==
    ASSUME XBase, XBase', UNCHANGED <<kind, origin>>,
           Held' + opening'[origin] + opening'[Slave] + Goes' <= 1,
           Held' + opening'[origin] + opening'[Slave] + Goes' = 1 => NoFlow',
           kind = "install" /\ lastErrno'[Slave] =>
              Held' + opening'[origin] + opening'[Slave] + Goes' = 0
    PROVE  TokenInv' /\ Tok' = Held' + opening'[origin] + opening'[Slave] + Goes'
<1>1. Tok' = Held' + opening'[origin] + opening'[Slave] + Goes'
  <2>1. TokFacts'
    BY TokCounted, PTL
  <2> QED BY <2>1, XSame DEF TokFacts
<1> QED BY <1>1, XSame DEF TokenInv

\* What goes after a step.
GoesThen(cl, er, as, ow) ==
    CASE kind = "dir" -> cl
      [] kind = "install" -> (IF er THEN 0 ELSE cl) + as + ow
      [] kind = "uninstall" -> as + ow
      [] OTHER -> 0

\* It is so.
LEMMA GoesNext ==
    ASSUME UNCHANGED <<kind, origin>>
    PROVE  /\ Goes' = GoesThen(closing'[Slave], lastErrno'[Slave], async', owed'["daemon"])
           /\ Goes = GoesThen(closing[Slave], lastErrno[Slave], async, owed["daemon"])
BY XSame DEF Goes, GoesThen

\* Nothing is under way yet.
LEMMA FreshFacts ==
    ASSUME XBase, Fresh
    PROVE  /\ Held = 0 /\ queue = NumFiles /\ async = 0 /\ owed["daemon"] = 0 /\ Begun = 0
           /\ \A d \in End : opening[d] = 0 /\ closing[d] = 0 /\ io[d] = <<>> /\ ~lastErrno[d]
           /\ (\A n : ~Check(n)) /\ ~Asks /\ NoFlow /\ \A d \in End : \A n : ~Fin(d, n)
<1> USE XBaseFacts
<1>1. /\ \A d \in End : \A m : In(net[d], m) => m = Init0 \/ m.cmd = "CLOSE"
      /\ queue = NumFiles /\ async = 0 /\ owed["daemon"] = 0
      /\ \A d \in End : opening[d] = 0 /\ closing[d] = 0 /\ io[d] = <<>> /\ ~lastErrno[d]
  BY DEF FreshInv, Fresh, In
<1>2. Slave \in End /\ origin \in End /\ "host" \in End /\ "daemon" \in End /\ NumFiles \in Nat
  BY XEnds DEF End
<1>3. Init0.cmd = "X_INIT" /\ Begin0.cmd = "X_BEGIN"
      /\ (\A p : DataOf(p).cmd = "X_DATA") /\ (\A n : Msg("X_CHECK", n).cmd = "X_CHECK")
      /\ (\A n : Msg("FILE_FINISH", n).cmd = "FILE_FINISH")
  BY XMessages DEF Init0, Begin0, DataOf
<1>4. /\ (\A n : ~Check(n)) /\ ~Asks /\ (\A p \in Pieces : ~Sent(p)) /\ \A d \in End : \A n : ~Fin(d, n)
  <2>1. \A d \in End : \A m : In(net[d], m) => m.cmd \in {"X_INIT", "CLOSE"}
    BY <1>1, <1>3
  <2> QED BY <2>1, <1>2, <1>3 DEF Check, Asks, Sent, Fin
<1>5. NoFlow
  BY <1>1, <1>2, <1>4 DEF NoFlow
<1>6. Held = 0
  <2>1. \A d \in End : \A m \in TokenMsg : ~In(net[d], m)
    BY <1>1, <1>3 DEF TokenMsg
  <2>2. \A d \in End : Count(net[d], TokenMsg) = 0
    BY <2>1, CountNat
  <2> QED BY <2>2, <1>2 DEF Held, Carried
<1>7. Begun = 0
  BY <1>1, <1>2 DEF Begun
<1> QED BY <1>1, <1>4, <1>5, <1>6, <1>7

\* The first file is opened.
LEMMA DataBegin ==
    ASSUME SendBase, XBase', NEW e \in End, BeginTransfer(e)
    PROVE  TokenInv' /\ SendInv'
<1> USE XBaseFacts DEF SendBase
<1>1. XKept /\ e = origin /\ Fresh /\ UNCHANGED <<kind, origin, session>> /\ net[e] # <<>>
  BY XBegin DEF BeginTransfer, Creates
<1>2. /\ Held = 0 /\ queue = NumFiles /\ async = 0 /\ owed["daemon"] = 0 /\ Begun = 0
      /\ \A d \in End : opening[d] = 0 /\ closing[d] = 0 /\ io[d] = <<>> /\ ~lastErrno[d]
      /\ (\A n : ~Check(n)) /\ ~Asks /\ NoFlow /\ \A d \in End : \A n : ~Fin(d, n)
  BY <1>1, FreshFacts
<1>3. UNCHANGED <<kind, origin, session, owed, chan, size, cur, fd, closing, io,
                  indexIO, ioFinish, closeNotify, lastErrno, disk, async>>
  BY DEF BeginTransfer
<1>4. CASE OpenNext(e) /\ Answer(e, {}, <<Wakeup>>)
  <2>1. Stays /\ Held' \in Nat /\ Held' <= Held /\ (OkSaid' => OkSaid)
    BY <1>1, <1>4, HushedSends, MuteStep DEF Hushed
  <2>2. Held' = 0
    BY <2>1, <1>2
  <2>3. origin \in End /\ Slave \in End /\ Slave # origin /\ NumFiles \in Nat /\ NumFiles >= 1
        /\ \A d \in End : d = origin \/ d = Slave
    BY XEnds
  <2>4. queue' = NumFiles - 1 /\ opening'[origin] = 1 /\ opening'[Slave] = 0
        /\ opening = [d \in End |-> 0]
    BY <1>1, <1>2, <1>4, <2>3 DEF OpenNext
  <2>5. Drains /\ NoFlow' /\ ~Asks' /\ (\A n : ~Check(n)') /\ \A d \in End : \A n : ~Fin(d, n)'
    BY <1>1, <1>2, <1>3, <2>1, DrainsBy, Drained DEF Stays
  <2>6. Goes' = 0
    <3>1. closing'[Slave] = 0 /\ async' = 0 /\ owed'["daemon"] = 0
      BY <1>2, <1>3, <2>3
    <3> QED BY <3>1, <1>1, GoesNext DEF GoesThen
  <2>7. Held' + opening'[origin] + opening'[Slave] + Goes' = 1
    BY <2>2, <2>4, <2>6
  <2>8. TokenInv' /\ Tok' = 1
    BY <2>3, <2>5, <2>7, <1>1, <1>2, <1>3, TokenMoves
  <2>9. Begun' = 1
    BY <2>3, <2>4, <1>1, XSame
  <2>10. cur[Slave] = 0 /\ fd[Slave] = 0
    <3>1. cur[Slave] \in Nat /\ fd[Slave] \in Nat
      BY <2>3, XSizes
    <3>2. cur[Slave] <= 0 /\ fd[Slave] <= 0
      BY <1>2 DEF SendInv, PlacedInv
    <3> QED BY <3>1, <3>2
  <2>11. PlacedInv'
    <3>1. cur'[Slave'] = 0 /\ fd'[Slave'] = 0 /\ opening'[Slave'] = 0
      BY <2>10, <2>4, <1>3, XSame
    <3>2. Ahead' /\ cur'[Slave'] <= Begun' /\ fd'[Slave'] <= Begun'
      BY <3>1, <2>9 DEF Ahead
    <3> QED BY <3>1, <3>2, <2>5 DEF PlacedInv
  <2>12. CountInv'
    BY <1>3, <2>3, CountStays DEF SendInv
  <2>13. FlowInv'
    <3>1. XBase' /\ NoFlow' /\ ~Asks'
      BY <2>5
    <3> QED BY <3>1, FlowNone, PTL
  <2>14. Unsaid'
    <3>1. kind \in {"file", "dir"} => ~closeNotify[origin] /\ ~OkSaid
      <4>1. queue # 0
        BY <1>2, <2>3
      <4>2. AllWhole => queue = 0
        BY DEF AllWhole
      <4>3. kind = "file" => ~closeNotify[origin] /\ ~OkSaid
        BY <4>1, <4>2 DEF SendInv, FileInv
      <4>4. kind = "dir" => ~closeNotify[origin] /\ ~OkSaid
        BY <4>1, <4>2 DEF SendInv, DirInv
      <4> QED BY <4>3, <4>4
    <3>2. Unsaid
      BY <3>1, <1>2, <2>3 DEF Unsaid
    <3> QED BY <3>2, <1>2, <1>3, <2>1, <2>3, QuietStays DEF Stays
  <2>15. DirInv'
    <3>1. closing'[Slave'] = 0 /\ ~Fin(origin, 1)' /\ \A g \in 1 .. (Begun' - 1) : Whole(g)'
      <4>1. 1 .. (Begun' - 1) = {}
        BY <2>9
      <4>2. Fin(origin, 1)' <=> In(net'[origin], Msg("FILE_FINISH", 1))
        BY <1>3 DEF Fin, In, Msg
      <4>3. \A d \in End : Fin(d, 1)' <=> In(net'[d], Msg("FILE_FINISH", 1))
        BY <1>3 DEF Fin, In, Msg
      <4> QED BY <4>1, <4>2, <4>3, <1>2, <1>3, <2>3, <2>5, XSame
    <3>2. (kind = "dir" => /\ Unsaid /\ closing[Slave] = 0 /\ ~Fin(origin, 1)
                           /\ \A g \in 1 .. (Begun - 1) : Whole(g))'
      BY <3>1, <2>14
    <3> QED BY <3>2, DirEarly, PTL
  <2>16. InstallInv'
    <3>1. closing'[Slave'] = 0 /\ async' = 0
      BY <1>2, <1>3, <2>3, XSame
    <3>2. (kind = "install" => closing[Slave] = 0 /\ async = 0)'
      BY <3>1
    <3> QED BY <3>2, InstallEarly, PTL
  <2>17. FileInv'
    <3>1. origin' \in End /\ IsTransfer'
      BY <1>3 DEF XBase, IsTransfer
    <3> QED BY <2>14, <3>1, FileEarly, PTL
  <2> QED BY <2>8, <2>11, <2>12, <2>13, <2>15, <2>16, <2>17 DEF SendInv
<1>5. CASE UNCHANGED <<queue, opening>> /\ Answer(e, {"fail"}, <<Wakeup>> \o Fails(e))
  <2>1. Stays /\ Held' <= Held /\ (OkSaid' => OkSaid)
    <3>1. Hushed(<<Wakeup>> \o Fails(e)) /\ "ok" \notin {"fail"}
      BY HushedSends
    <3> QED BY <3>1, <1>1, <1>5, MuteStep DEF Hushed
  <2>2. UNCHANGED <<kind, origin, owed, xferVars>>
    BY <1>3, <1>5 DEF xferVars, ctxVars
  <2> QED BY <2>1, <2>2, XFrame
<1> QED BY <1>1, <1>4, <1>5 DEF BeginTransfer

\* The messages after a step.
LEMMA FinNext ==
    ASSUME XBase, UNCHANGED <<kind, origin>>
    PROVE  /\ \A n : (\A d \in End : ~Fin(d, n)') => ~Fin(origin, n)' /\ ~Fin(Slave, n)'
           /\ \A n : (Fin(origin, n)' <=> In(net'[origin], Msg("FILE_FINISH", n)))
                     /\ (Fin(Slave, n)' <=> In(net'[Slave], Msg("FILE_FINISH", n)))
           /\ \A d \in End : \A n : Fin(d, n)' <=> In(net'[d], Msg("FILE_FINISH", n))
<1>1. Slave \in End /\ origin \in End /\ Slave' = Slave /\ origin' = origin
  BY XBaseFacts, XEnds, XSame
<1>2. \A n : /\ Fin(Slave, n)' <=> In(net'[Slave], Msg("FILE_FINISH", n))
             /\ Fin(origin, n)' <=> In(net'[origin], Msg("FILE_FINISH", n))
  BY <1>1 DEF Fin, In, Msg
<1>3. \A d \in End : \A n : Fin(d, n)' <=> In(net'[d], Msg("FILE_FINISH", n))
  BY DEF Fin, In, Msg
<1> QED BY <1>1, <1>2, <1>3

\* After a step that leaves nothing under way: what is left to show.
LEMMA EarlyNext ==
    ASSUME XBase, XBase', UNCHANGED <<kind, origin>>, NoFlow', Unsaid',
           Asks' /\ kind \in {"dir", "install"} /\ ioFinish'[Slave] => lastErrno'[Slave],
           kind = "dir" => /\ closing'[Slave] = 0 /\ \A d \in End : ~Fin(d, 1)'
                           /\ \A g \in 1 .. (Begun' - 1) : Whole(g)',
           kind = "install" => closing'[Slave] = 0 /\ async' = 0
    PROVE  FlowInv' /\ DirInv' /\ InstallInv' /\ FileInv'
<1>1. FlowInv'
  <2>1. (Asks /\ kind \in {"dir", "install"} /\ ioFinish[Slave] => lastErrno[Slave])'
    BY XSame
  <2> QED BY <2>1, FlowNone, PTL
<1>2. DirInv'
  <2>1. (kind = "dir" => /\ Unsaid /\ closing[Slave] = 0 /\ ~Fin(origin, 1)
                         /\ \A g \in 1 .. (Begun - 1) : Whole(g))'
    BY XSame, FinNext
  <2> QED BY <2>1, DirEarly, PTL
<1>3. InstallInv'
  <2>1. (kind = "install" => closing[Slave] = 0 /\ async = 0)'
    BY XSame
  <2> QED BY <2>1, InstallEarly, PTL
<1>4. FileInv'
  <2>1. (kind = "file" => Unsaid)' /\ (origin \in End)' /\ IsTransfer'
    BY XBaseFacts DEF XBase, IsTransfer
  <2> QED BY <2>1, FileEarly, PTL
<1> QED BY <1>1, <1>2, <1>3, <1>4

\* Before a file is opened, asked for or read nothing else is under way.
LEMMA BeforeOpen ==
    ASSUME SendBase, NEW d \in End, opening[d] > 0
    PROVE  /\ Tok = 1 /\ NoFlow /\ Unsaid /\ opening[d] = 1 /\ Held = 0 /\ Goes = 0
           /\ \A b \in End : b # d => opening[b] = 0
           /\ (\A n \in File : ~Check(n)) /\ ~Asks
           /\ kind = "dir" => closing[Slave] = 0 /\ \A b \in End : ~Fin(b, 1)
           /\ kind = "install" => ~lastErrno[Slave] /\ closing[Slave] = 0 /\ async = 0
           /\ kind = "file" => closing[Slave] = 0
<1> USE XBaseFacts DEF SendBase
<1>1. Slave \in End /\ origin \in End /\ \A b \in End : b = origin \/ b = Slave
  BY XEnds
<1>2. opening[origin] > 0 \/ opening[Slave] > 0
  BY <1>1
<1>3. /\ Tok = 1 /\ NoFlow /\ Held + opening[origin] + opening[Slave] + Goes = 1
      /\ kind = "install" => ~lastErrno[Slave]
  BY <1>2, TokenOne
<1>4. Unsaid
  BY <1>3, TokenQuiet
<1>5. /\ Held \in Nat /\ Goes \in Nat /\ opening[origin] \in Nat /\ opening[Slave] \in Nat
      /\ closing[Slave] \in Nat /\ async \in Nat /\ owed["daemon"] \in Nat
  BY TokCounted DEF TokFacts
<1>6. opening[d] = 1 /\ Held = 0 /\ Goes = 0 /\ \A b \in End : b # d => opening[b] = 0
  <2>1. CASE d = origin
    <3>1. opening[origin] = 1 /\ Held = 0 /\ Goes = 0 /\ opening[Slave] = 0
      BY <2>1, <1>3, <1>5
    <3> QED BY <3>1, <2>1, <1>1
  <2>2. CASE d = Slave
    <3>1. opening[Slave] = 1 /\ Held = 0 /\ Goes = 0 /\ opening[origin] = 0
      BY <2>2, <1>3, <1>5
    <3> QED BY <3>1, <2>2, <1>1
  <2> QED BY <2>1, <2>2, <1>1
<1>7. ~(Held >= 1)
  BY <1>6
<1>8. (\A n \in File : ~Check(n)) /\ ~Asks /\ (kind = "dir" => \A b \in End : ~Fin(b, 1))
  BY <1>7, TokCounted DEF TokFacts
<1>9. kind = "dir" => closing[Slave] = 0
  BY <1>6, TokCounted DEF TokFacts
<1>10. kind = "install" => closing[Slave] = 0 /\ async = 0
  <2>1. kind = "install" => Goes = closing[Slave] + async + owed["daemon"]
    BY <1>3, TokCounted DEF TokFacts
  <2>2. \A a, b, c \in Nat : a + b + c = 0 => a = 0 /\ b = 0
    OBVIOUS
  <2> QED BY <2>1, <2>2, <1>5, <1>6
<1> QED BY <1>3, <1>4, <1>6, <1>8, <1>9, <1>10 DEF Unsaid

\* The master has opened a file.
LEMMA DataOpensMaster ==
    ASSUME SendBase, XBase', OnFileOpen(origin)
    PROVE  TokenInv' /\ SendInv'
<1> USE XBaseFacts DEF SendBase
<1>1. XKept /\ UNCHANGED <<kind, origin, session, owed, size, queue, closing, io, async>>
  BY XOpens DEF OnFileOpen
<1>2. opening[origin] > 0 /\ opening' = [opening EXCEPT ![origin] = @ - 1]
  BY DEF OnFileOpen
<1>3. Slave \in End /\ origin \in End /\ Slave # origin /\ \A b \in End : b = origin \/ b = Slave
  BY XEnds
<1>4. /\ Tok = 1 /\ NoFlow /\ Unsaid /\ opening[origin] = 1 /\ Held = 0 /\ Goes = 0
      /\ opening[Slave] = 0 /\ (\A n \in File : ~Check(n)) /\ ~Asks
      /\ kind = "dir" => closing[Slave] = 0 /\ \A b \in End : ~Fin(b, 1)
      /\ kind = "install" => ~lastErrno[Slave] /\ closing[Slave] = 0 /\ async = 0
      /\ kind = "file" => closing[Slave] = 0
  BY <1>2, <1>3, BeforeOpen
<1>5. opening'[origin] = 0 /\ opening'[Slave] = 0
  BY <1>2, <1>3, <1>4
<1>6. Ahead /\ Begun \in 1 .. NumFiles /\ NumFiles \in Nat /\ Begun' = Begun
  <2>1. queue < NumFiles /\ queue \in 0 .. NumFiles /\ NumFiles \in Nat
    BY <1>2, XEnds DEF XTypes
  <2>2. Ahead
    BY <1>2 DEF SendInv, PlacedInv
  <2>3. Begun = NumFiles - queue /\ Begun' = NumFiles - queue'
    BY <1>1, XSame DEF Begun
  <2> QED BY <1>1, <2>1, <2>2, <2>3
<1>7. cur'[Slave] = cur[Slave] /\ fd'[Slave] = fd[Slave] /\ indexIO'[Slave] = indexIO[Slave]
      /\ lastErrno'[Slave] = lastErrno[Slave] /\ ioFinish'[Slave] = ioFinish[Slave]
      /\ closeNotify'[Slave] = closeNotify[Slave] /\ UNCHANGED disk
      /\ (lastErrno'[origin] => lastErrno[origin]) /\ (closeNotify'[origin] => closeNotify[origin])
  BY <1>3 DEF OnFileOpen, ResetCtx, XTypes
<1>8. Goes' = 0
  BY <1>1, <1>4, <1>7, GoesNext
<1> DEFINE m == Msg("X_CHECK", Begun)
<1>m. m = Msg("X_CHECK", Begun) /\ m.cmd = "X_CHECK" /\ m.n = Begun
  BY XMessages
<1> HIDE DEF m
<1>9. ASSUME Arrives(origin, m) \/ Stays, Held' \in Nat, Held' <= 1, OkSaid' => OkSaid,
             cur'[Slave] <= Begun, fd'[Slave] <= Begun,
             Stays \/ (Announced' /\ indexIO'[origin] = 0),
             cur'[origin] = Begun \/ (cur'[origin] = cur[origin] /\ indexIO'[origin] = indexIO[origin])
      PROVE  TokenInv' /\ SendInv'
  <2>1. /\ \A n \in File : Check(n)' => n = Begun /\ ~Stays
        /\ ~Asks' /\ (\A p \in Pieces : Sent(p)' => Sent(p)) /\ \A d \in End : \A n : Fin(d, n)' => Fin(d, n)
    BY <1>9, <1>4, <1>m DEF Arrives, Stays
  <2>2. NoFlow' /\ Drains
    BY <1>1, <1>4, <2>1, DrainsBy, Drained
  <2>3. TokenInv'
    <3>1. Held' + opening'[origin] + opening'[Slave] + Goes' = Held'
      <4>1. \A a \in Nat : a + 0 + 0 + 0 = a
        OBVIOUS
      <4> QED BY <4>1, <1>5, <1>8, <1>9
    <3>2. kind = "install" => ~lastErrno'[Slave]
      BY <1>4, <1>7
    <3> QED BY <3>1, <3>2, <2>2, <1>1, <1>9, TokenMoves
  <2>4. PlacedInv'
    <3>1. cur'[Slave'] <= Begun' /\ fd'[Slave'] <= Begun' /\ opening'[Slave'] = 0 /\ opening'[origin'] = 0
      BY <1>1, <1>5, <1>6, <1>9, XSame
    <3>2. Ahead'
      BY <1>1, <1>6, <1>7, XSame DEF Ahead
    <3>3. \A n \in File : Check(n)' => n = Begun' /\ Announced' /\ Ahead' /\ indexIO'[origin'] = 0
      BY <1>1, <1>6, <1>9, <2>1, <3>2
    <3> QED BY <1>1, <2>1, <2>2, <3>1, <3>3, XSame DEF PlacedInv
  <2>5. CountInv'
    <3>1. cur'[origin] = cur'[Slave] => cur[origin] = cur[Slave] /\ indexIO'[origin] = indexIO[origin]
      <4>1. cur[Slave] # Begun
        <5>1. cur[Slave] \in Nat /\ cur[Slave] < Begun
          BY <1>3, <1>6, XSizes DEF Ahead
        <5> QED BY <5>1, <1>6
      <4> QED BY <4>1, <1>7, <1>9
    <3> QED BY <3>1, <1>1, <1>7, CountStays DEF SendInv
  <2>6. Unsaid'
    <3>1. kind = "dir" => \A d \in End : lastErrno'[d] => lastErrno[d]
      BY <1>3, <1>7
    <3>2. kind = "file" => closing'[Slave] = 0
      BY <1>1, <1>4
    <3> QED BY <3>1, <3>2, <1>1, <1>4, <1>7, <1>9, <2>1, QuietStays
  <2>7. kind = "dir" => /\ closing'[Slave] = 0 /\ \A d \in End : ~Fin(d, 1)'
                        /\ \A g \in 1 .. (Begun' - 1) : Whole(g)'
    <3>1. kind = "dir" => \A g \in 1 .. (Begun - 1) : Whole(g)
      BY DEF SendInv, DirInv
    <3>2. \A g : Whole(g)' <=> Whole(g)
      BY <1>1, <1>7, WholeStays
    <3> QED BY <3>1, <3>2, <1>1, <1>4, <1>6, <2>1
  <2>8. FlowInv' /\ DirInv' /\ InstallInv' /\ FileInv'
    BY <1>1, <1>4, <2>1, <2>2, <2>6, <2>7, EarlyNext
  <2> QED BY <2>3, <2>4, <2>5, <2>8 DEF SendInv
<1>10. cur[Slave] <= Begun /\ fd[Slave] <= Begun
  BY DEF SendInv, PlacedInv
<1>11. CASE /\ ResetCtx(origin)
            /\ cur' = [cur EXCEPT ![origin] = Begun] /\ fd' = [fd EXCEPT ![origin] = Begun]
            /\ Emit(origin, {}, Out(origin, <<m>>))
  <2>1. m \in XSays(Other(origin)) /\ m.cmd = "X_CHECK"
    <3>1. Begun \in File
      BY <1>6, XEnds
    <3> QED BY <3>1, <1>m, <1>6, XMessages, XEnds DEF XSays
  <2>2. Arrives(origin, m) /\ Held' \in Nat /\ Held' <= Held + Brings(m) /\ (OkSaid' => OkSaid)
    <3>1. m.cmd # "ECHO_OK"
      BY <2>1
    <3> QED BY <3>1, <2>1, <1>1, <1>3, <1>11, OneStep
  <2>3. Held' <= 1
    <3>1. Brings(m) \in 0 .. 1
      BY DEF Brings
    <3> QED BY <3>1, <2>2, <1>4
  <2>4. cur'[origin] = Begun /\ fd'[origin] = Begun /\ indexIO'[origin] = 0
    BY <1>3, <1>11 DEF ResetCtx, XTypes
  <2>5. Announced'
    BY <2>4, <1>1, <1>6, XSame DEF Announced
  <2>6. cur'[Slave] <= Begun /\ fd'[Slave] <= Begun
    BY <1>7, <1>10
  <2>7. Arrives(origin, m) \/ Stays
    BY <2>2
  <2>8. Held' \in Nat /\ Held' <= 1
    BY <2>2, <2>3
  <2>9. OkSaid' => OkSaid
    BY <2>2
  <2>10. Stays \/ (Announced' /\ indexIO'[origin] = 0)
    BY <2>4, <2>5
  <2>11. cur'[origin] = Begun \/ (cur'[origin] = cur[origin] /\ indexIO'[origin] = indexIO[origin])
    BY <2>4
  <2> QED BY <2>6, <2>7, <2>8, <2>9, <2>10, <2>11, <1>9
<1>12. CASE /\ fd' = [fd EXCEPT ![origin] = 0]
            /\ Emit(origin, {"fail"}, Log(origin, "fail") \o Out(origin, Finish))
            /\ UNCHANGED <<cur, indexIO, ioFinish, closeNotify, lastErrno, disk>>
  <2>1. Stays /\ Held' \in Nat /\ Held' <= Held /\ (OkSaid' => OkSaid)
    <3>1. Hushed(Log(origin, "fail") \o Out(origin, Finish)) /\ "ok" \notin {"fail"}
      BY HushedSends
    <3> QED BY <3>1, <1>1, <1>3, <1>12, MuteStep DEF Hushed
  <2>2. Held' <= 1
    BY <2>1, <1>4
  <2> QED BY <2>1, <2>2, <1>7, <1>9, <1>10, <1>12
<1>13. NumFiles - queue = Begun
  BY DEF Begun
<1> QED BY <1>m, <1>11, <1>12, <1>13 DEF OnFileOpen

-----------------------------------------------------------------------------
(* Opening: a file at the slave, that was told of it.                      *)

\* The numbers of both ends.
LEMMA PlacedFacts ==
    ASSUME SendBase
    PROVE  /\ Begun \in 0 .. NumFiles /\ Begun \in Nat /\ NumFiles \in Nat /\ queue \in Nat
           /\ \A d \in End : cur[d] \in Nat /\ fd[d] \in Nat
           /\ cur[Slave] <= Begun /\ fd[Slave] <= Begun /\ queue <= NumFiles
<1> USE XBaseFacts DEF SendBase
<1>1. queue \in 0 .. NumFiles /\ NumFiles \in Nat
  BY XEnds DEF XTypes
<1>2. Begun \in 0 .. NumFiles /\ Begun \in Nat
  BY <1>1 DEF Begun
<1>3. cur[Slave] <= Begun /\ fd[Slave] <= Begun
  BY DEF SendInv, PlacedInv
<1> QED BY <1>1, <1>2, <1>3, XSizes

\* Numbers that are added to nothing.
LEMMA Alone ==
    /\ \A a \in Nat : a + 0 + 0 + 0 = a /\ 0 + a + 0 + 0 = a /\ 0 + 0 + a + 0 = a /\ 0 + 0 + 0 + a = a
    /\ \A a, b, c \in Nat : a + b + c = 0 => a = 0 /\ b = 0 /\ c = 0
OBVIOUS

\* The slave has opened its copy.
LEMMA DataOpensSlave ==
    ASSUME SendBase, XBase', OnFileOpen(Slave)
    PROVE  TokenInv' /\ SendInv'
<1> USE XBaseFacts DEF SendBase
<1>3. Slave \in End /\ origin \in End /\ Slave # origin /\ \A b \in End : b = origin \/ b = Slave
  BY XEnds
<1>1. XKept /\ UNCHANGED <<kind, origin, session, owed, size, queue, closing, io, async, cur>>
  BY <1>3, XOpens DEF OnFileOpen
<1>2. opening[Slave] > 0 /\ opening' = [opening EXCEPT ![Slave] = @ - 1]
  BY <1>3 DEF OnFileOpen
<1>4. /\ Tok = 1 /\ NoFlow /\ Unsaid /\ opening[Slave] = 1 /\ Held = 0 /\ Goes = 0
      /\ opening[origin] = 0 /\ (\A n \in File : ~Check(n)) /\ ~Asks
      /\ kind = "dir" => closing[Slave] = 0 /\ \A b \in End : ~Fin(b, 1)
      /\ kind = "install" => ~lastErrno[Slave] /\ closing[Slave] = 0 /\ async = 0
      /\ kind = "file" => closing[Slave] = 0
  BY <1>2, <1>3, BeforeOpen
<1>5. opening'[origin] = 0 /\ opening'[Slave] = 0
  BY <1>2, <1>3, <1>4
<1>6. /\ Announced /\ cur[Slave] = Begun /\ fd[Slave] < Begun /\ indexIO[origin] = 0
      /\ Begun' = Begun /\ Begun \in 1 .. NumFiles /\ Begun \in File /\ Begun \in Nat
  <2>1. Announced /\ cur[Slave] = Begun /\ fd[Slave] < Begun /\ indexIO[origin] = 0
    BY <1>2 DEF SendInv, PlacedInv
  <2>2. Begun' = Begun
    BY <1>1, XSame DEF Begun
  <2>3. Begun \in 1 .. NumFiles
    BY <2>1, PlacedFacts DEF Announced
  <2>4. Begun \in File
    BY <2>3, XEnds
  <2>5. Begun \in Nat
    BY PlacedFacts
  <2> QED BY ONLY <2>1, <2>2, <2>3, <2>4, <2>5
<1>7. fd'[origin] = fd[origin] /\ indexIO'[origin] = indexIO[origin]
      /\ (\A d \in End : lastErrno'[d] => lastErrno[d]) /\ closeNotify'[origin] = closeNotify[origin]
  BY <1>3 DEF OnFileOpen, ResetCtx, XTypes
<1>8. Goes' = 0
  <2>1. kind = "install" => closing'[Slave] = 0 /\ async' = 0 /\ owed'["daemon"] = 0
    <3>1. kind = "install" => Goes = closing[Slave] + async + owed["daemon"]
          /\ closing[Slave] \in Nat /\ async \in Nat /\ owed["daemon"] \in Nat
      BY <1>4, TokCounted DEF TokFacts
    <3> QED BY <3>1, <1>1, <1>4, Alone
  <2>2. kind = "dir" => closing'[Slave] = 0
    BY <1>1, <1>4
  <2>3. kind # "uninstall"
    BY XEnds
  <2> QED BY <2>1, <2>2, <2>3, <1>1, GoesNext DEF GoesThen
<1>9. ASSUME Held' \in Nat, Held' <= 1, OkSaid' => OkSaid,
             \A n : Check(n)' => Check(n), \A p \in Pieces : Sent(p)' => Sent(p),
             \A d \in End : \A n : Fin(d, n)' => Fin(d, n),
             Asks' => fd'[Slave] = Begun /\ ~ioFinish'[Slave],
             fd'[Slave] = 0 \/ (fd'[Slave] = Begun /\ indexIO'[Slave] = 0 /\ disk'[Begun] = Empty),
             \A g \in File : g # Begun => disk'[g] = disk[g]
      PROVE  TokenInv' /\ SendInv'
  <2>2. NoFlow' /\ Drains
    BY <1>1, <1>4, <1>9, DrainsBy, Drained
  <2>3. TokenInv'
    <3>1. Held' + opening'[origin] + opening'[Slave] + Goes' = Held'
      BY <1>5, <1>8, <1>9, Alone
    <3>2. kind = "install" => ~lastErrno'[Slave]
      BY <1>3, <1>4, <1>7
    <3> QED BY <3>1, <3>2, <2>2, <1>1, <1>9, TokenMoves
  <2>4. PlacedInv'
    <3>1. cur'[Slave'] <= Begun' /\ fd'[Slave'] <= Begun' /\ opening'[Slave'] = 0 /\ opening'[origin'] = 0
      <4>1. fd'[Slave] <= Begun
        BY <1>6, <1>9
      <4> QED BY <4>1, <1>1, <1>5, <1>6, XSame
    <3>2. Announced'
      BY <1>1, <1>6, <1>7, XSame DEF Announced
    <3>3. Asks' => indexIO'[origin'] = 0 /\ cur'[Slave'] = Begun' /\ fd'[Slave'] = Begun'
      BY <1>1, <1>6, <1>7, <1>9, XSame
    <3>4. \A n \in File' : ~Check(n)'
      BY <1>1, <1>4, <1>9, XSame
    <3> QED BY <2>2, <3>1, <3>2, <3>3, <3>4 DEF PlacedInv
  <2>5. CountInv'
    <3>1. CASE fd'[Slave] = 0
      <4>1. (cur[Slave] = 0 \/ fd[Slave] # cur[Slave])'
        BY <3>1, <1>1, <1>6, XSame
      <4> QED BY <4>1, CountNone, PTL
    <3>2. CASE indexIO'[Slave] = 0 /\ disk'[Begun] = Empty
      <4>1. Got(Begun)' = {}
        <5>1. \A i \in 0 .. MaxSize : disk'[Begun][i] = 0
          BY <3>2 DEF Empty
        <5>2. Begun # 0
          BY <1>6
        <5> QED BY <5>1, <5>2, <1>1, <1>6, XSame DEF Got
      <4>2. Got(cur[Slave])' = Got(Begun)'
        BY <1>1, <1>6, XSame DEF Got
      <4>3. Cardinality({}) = 0
        BY FS_EmptySet
      <4> QED BY <4>1, <4>2, <4>3, <3>2, <1>1, XSame DEF CountInv
    <3> QED BY <3>1, <3>2, <1>9
  <2>6. Unsaid'
    <3>1. kind = "dir" => \A d \in End : lastErrno'[d] => lastErrno[d]
      BY <1>7
    <3>2. kind = "file" => closing'[Slave] = 0
      BY <1>1, <1>4
    <3> QED BY <3>1, <3>2, <1>1, <1>4, <1>7, <1>9, QuietStays
  <2>7. kind = "dir" => /\ closing'[Slave] = 0 /\ \A d \in End : ~Fin(d, 1)'
                        /\ \A g \in 1 .. (Begun' - 1) : Whole(g)'
    <3>1. kind = "dir" => \A g \in 1 .. (Begun - 1) : Whole(g)
      BY DEF SendInv, DirInv
    <3>2. \A g \in 1 .. (Begun - 1) : g \in File /\ g # Begun
      BY <1>6, PlacedFacts, XEnds DEF File
    <3>3. \A g \in 1 .. (Begun - 1) : Whole(g) => Whole(g)'
      BY <3>2, <1>1, <1>9 DEF Whole
    <3> QED BY <3>1, <3>3, <1>1, <1>4, <1>6, <1>9
  <2>8. Asks' /\ kind \in {"dir", "install"} /\ ioFinish'[Slave] => lastErrno'[Slave]
    BY <1>9
  <2>9. FlowInv' /\ DirInv' /\ InstallInv' /\ FileInv'
    BY <1>1, <1>4, <2>2, <2>6, <2>7, <2>8, EarlyNext
  <2> QED BY <2>3, <2>4, <2>5, <2>9 DEF SendInv
<1>11. CASE /\ ResetCtx(Slave)
            /\ fd' = [fd EXCEPT ![Slave] = cur[Slave]]
            /\ disk' = [disk EXCEPT ![cur[Slave]] = Empty]
            /\ Emit(Slave, {}, Out(Slave, <<Begin0>>))
  <2>1. Begin0 \in XSays(Other(Slave)) /\ Begin0.cmd = "X_BEGIN"
    <3>1. Begin0 \in XferMsg
      BY XMessages DEF Begin0, XCmds
    <3> QED BY <3>1, XMessages, XEnds DEF XSays, Begin0
  <2>2. Arrives(Slave, Begin0) /\ Held' \in Nat /\ Held' <= Held + Brings(Begin0) /\ (OkSaid' => OkSaid)
    <3>1. Begin0.cmd # "ECHO_OK"
      BY <2>1
    <3> QED BY <3>1, <2>1, <1>1, <1>3, <1>11, OneStep
  <2>3. Held' <= 1
    <3>1. Brings(Begin0) \in 0 .. 1
      BY DEF Brings
    <3> QED BY <3>1, <2>2, <1>4
  <2>4. fd'[Slave] = Begun /\ indexIO'[Slave] = 0 /\ ~ioFinish'[Slave] /\ disk'[Begun] = Empty
        /\ \A g \in File : g # Begun => disk'[g] = disk[g]
    BY <1>3, <1>6, <1>11 DEF ResetCtx, XTypes
  <2>5. /\ \A n : Check(n)' => Check(n)
        /\ \A p \in Pieces : Sent(p)' => Sent(p)
        /\ \A d \in End : \A n : Fin(d, n)' => Fin(d, n)
    BY <2>1, <2>2 DEF Arrives
  <2> QED BY <2>2, <2>3, <2>4, <2>5, <1>9
<1>12. CASE /\ fd' = [fd EXCEPT ![Slave] = 0]
            /\ Emit(Slave, {"fail"}, Log(Slave, "fail") \o Out(Slave, Finish))
            /\ UNCHANGED <<cur, indexIO, ioFinish, closeNotify, lastErrno, disk>>
  <2>1. Stays /\ Held' \in Nat /\ Held' <= Held /\ (OkSaid' => OkSaid)
    <3>1. Hushed(Log(Slave, "fail") \o Out(Slave, Finish)) /\ "ok" \notin {"fail"}
      BY HushedSends
    <3> QED BY <3>1, <1>1, <1>3, <1>12, MuteStep DEF Hushed
  <2>2. Held' <= 1 /\ ~Asks'
    BY <2>1, <1>4 DEF Stays
  <2>3. fd'[Slave] = 0 /\ disk' = disk
    BY <1>3, <1>12 DEF XTypes
  <2>4. /\ \A n : Check(n)' => Check(n)
        /\ \A p \in Pieces : Sent(p)' => Sent(p)
        /\ \A d \in End : \A n : Fin(d, n)' => Fin(d, n)
    BY <2>1 DEF Stays
  <2> QED BY <2>1, <2>2, <2>3, <2>4, <1>9
<1> QED BY <1>3, <1>11, <1>12 DEF OnFileOpen, Begin0

\* Before a message that brings the transfer on is taken nothing else is under way.
LEMMA BeforeTaken ==
    ASSUME SendBase, Held >= 1
    PROVE  /\ Tok = 1 /\ NoFlow /\ Unsaid /\ Held = 1 /\ Goes = 0
           /\ opening[origin] = 0 /\ opening[Slave] = 0
           /\ kind = "dir" => closing[Slave] = 0
           /\ kind = "install" => /\ ~lastErrno[Slave] /\ closing[Slave] = 0 /\ async = 0
                                  /\ owed["daemon"] = 0
           /\ kind = "file" => closing[Slave] = 0
<1> USE XBaseFacts DEF SendBase
<1>3. /\ Tok = 1 /\ NoFlow /\ Held + opening[origin] + opening[Slave] + Goes = 1
      /\ kind = "install" => ~lastErrno[Slave]
  BY TokenOne
<1>4. Unsaid
  BY <1>3, TokenQuiet
<1>5. /\ Held \in Nat /\ Goes \in Nat /\ opening[origin] \in Nat /\ opening[Slave] \in Nat
      /\ closing[Slave] \in Nat /\ async \in Nat /\ owed["daemon"] \in Nat
  BY TokCounted DEF TokFacts
<1>6. Held = 1 /\ Goes = 0 /\ opening[origin] = 0 /\ opening[Slave] = 0
  BY <1>3, <1>5
<1>9. kind = "dir" => closing[Slave] = 0
  BY <1>6, TokCounted DEF TokFacts
<1>10. kind = "install" => closing[Slave] = 0 /\ async = 0 /\ owed["daemon"] = 0
  <2>1. kind = "install" => Goes = closing[Slave] + async + owed["daemon"]
    BY <1>3, TokCounted DEF TokFacts
  <2> QED BY <2>1, <1>5, <1>6, Alone
<1> QED BY <1>3, <1>4, <1>6, <1>9, <1>10 DEF Unsaid

\* After it was taken and no other was sent.
LEMMA AfterTaken ==
    ASSUME XBase, XBase', UNCHANGED <<kind, origin>>, Held' = 0
    PROVE  /\ ~Asks' /\ \A n \in File : ~Check(n)'
           /\ kind = "dir" => \A d \in End : ~Fin(d, 1)'
<1>1. TokFacts'
  BY TokCounted, PTL
<1>2. ~(Held' >= 1)
  OBVIOUS
<1> QED BY <1>1, <1>2, XSame DEF TokFacts

\* The slave is told of a file.
LEMMA DataChecks ==
    ASSUME SendBase, XBase', NEW e \in End, SlaveCheckFile(e)
    PROVE  TokenInv' /\ SendInv'
<1> USE XBaseFacts DEF SendBase
<1>3. Slave \in End /\ origin \in End /\ Slave # origin /\ \A b \in End : b = origin \/ b = Slave
  BY XEnds
<1>1. /\ XKept /\ e = Slave /\ net[e] # <<>> /\ Head(net[e]) = Msg("X_CHECK", Arg(e))
      /\ Arg(e) \in 1 .. NumFiles /\ In(net[e], Msg("X_CHECK", Arg(e)))
  BY XChecks
<1>2. UNCHANGED <<kind, origin, session, owed, size, queue, fd, closing, io, indexIO, ioFinish,
                  closeNotify, lastErrno, disk, async>> /\ cur' = [cur EXCEPT ![Slave] = Arg(e)]
  BY <1>1 DEF SlaveCheckFile
<1>4. Check(Arg(e)) /\ Arg(e) \in File
  BY <1>1, XEnds DEF Check
<1>5. Held >= 1
  BY <1>4, TokCounted DEF TokFacts
<1>6. /\ Tok = 1 /\ NoFlow /\ Unsaid /\ Held = 1 /\ Goes = 0
      /\ opening[origin] = 0 /\ opening[Slave] = 0
      /\ kind = "dir" => closing[Slave] = 0
      /\ kind = "install" => ~lastErrno[Slave] /\ closing[Slave] = 0 /\ async = 0
      /\ kind = "file" => closing[Slave] = 0
  BY <1>5, BeforeTaken
<1>7. /\ Arg(e) = Begun /\ Announced /\ cur[Slave] < Begun /\ fd[Slave] < Begun /\ indexIO[origin] = 0
      /\ Begun' = Begun /\ Begun \in Nat /\ cur'[Slave] = Begun /\ cur'[origin] = cur[origin]
  <2>1. Arg(e) = Begun /\ Announced /\ cur[Slave] < Begun /\ fd[Slave] < Begun /\ indexIO[origin] = 0
    BY <1>4 DEF SendInv, PlacedInv, Ahead
  <2>2. Begun' = Begun
    BY <1>2, XSame DEF Begun
  <2>3. cur'[Slave] = Arg(e) /\ cur'[origin] = cur[origin]
    <3>1. cur \in [End -> 0 .. NumFiles]
      BY DEF XTypes
    <3> QED BY <3>1, <1>2, <1>3
  <2> QED BY <2>1, <2>2, <2>3, PlacedFacts
<1>8. Brings(Head(net[e])) = 1
  BY <1>1, <1>4, XMessages DEF Brings, TokenMsg
<1>9. Goes' = 0
  BY <1>2, <1>6, GoesNext
<1>11. ASSUME NEW lvs, NEW out, Hushed(out), "ok" \notin lvs, Answer(e, lvs, out),
              opening'[origin] = 0, opening'[Slave] \in 0 .. 1
       PROVE  TokenInv' /\ SendInv'
  <2>1. Stays /\ Held' \in Nat /\ Held' + Brings(Head(net[e])) <= Held /\ (OkSaid' => OkSaid)
    BY <1>1, <1>2, <1>11, MuteStep DEF Hushed
  <2>2. Held' = 0
    BY <2>1, <1>6, <1>8
  <2>3. ~Asks' /\ (\A n \in File : ~Check(n)') /\ (kind = "dir" => \A d \in End : ~Fin(d, 1)')
    BY <2>2, <1>2, AfterTaken
  <2>4. NoFlow' /\ Drains
    BY <1>2, <1>6, <2>1, DrainsBy, Drained DEF Stays
  <2>5. TokenInv'
    <3>1. Held' + opening'[origin] + opening'[Slave] + Goes' = opening'[Slave]
      <4>1. opening'[Slave] \in Nat
        BY <1>11
      <4>2. 0 + 0 + opening'[Slave] + 0 = opening'[Slave]
        BY ONLY <4>1, Alone
      <4> QED BY ONLY <4>2, <1>9, <1>11, <2>2
    <3>2. kind = "install" => ~lastErrno'[Slave]
      BY <1>2, <1>6
    <3> QED BY <3>1, <3>2, <2>4, <1>2, <1>11, TokenMoves
  <2>6. PlacedInv'
    <3>1. Announced'
      BY <1>2, <1>7, XSame DEF Announced
    <3>2. cur'[Slave'] = Begun' /\ fd'[Slave'] < Begun' /\ indexIO'[origin'] = 0 /\ Begun' \in Nat
          /\ fd'[Slave'] \in Nat
      BY <1>2, <1>3, <1>7, XSame, XSizes
    <3>3. opening'[origin'] = 0 /\ fd'[Slave'] <= Begun' /\ cur'[Slave'] <= Begun'
      BY <3>2, <1>2, <1>11
    <3>4. \A n \in File' : ~Check(n)'
      BY <2>3, <1>2, XSame
    <3> QED BY <2>3, <2>4, <3>1, <3>2, <3>3, <3>4 DEF PlacedInv
  <2>7. CountInv'
    <3>1. (cur[Slave] = 0 \/ fd[Slave] # cur[Slave])'
      <4>1. fd[Slave] # Begun
        BY <1>3, <1>7, XSizes
      <4> QED BY <4>1, <1>2, <1>7, XSame
    <3> QED BY <3>1, CountNone, PTL
  <2>8. Unsaid'
    <3>1. kind = "dir" => \A d \in End : lastErrno'[d] => lastErrno[d]
      BY <1>2
    <3>2. kind = "file" => closing'[Slave] = 0
      BY <1>2, <1>6
    <3> QED BY <3>1, <3>2, <1>2, <1>6, <2>1, QuietStays DEF Stays
  <2>9. kind = "dir" => \A g \in 1 .. (Begun' - 1) : Whole(g)'
    <3>1. kind = "dir" => \A g \in 1 .. (Begun - 1) : Whole(g)
      BY DEF SendInv, DirInv
    <3>2. \A g : Whole(g)' <=> Whole(g)
      BY <1>2, WholeStays
    <3> QED BY <3>1, <3>2, <1>7
  <2>10. FlowInv' /\ DirInv' /\ InstallInv' /\ FileInv'
    BY <1>2, <1>6, <2>3, <2>4, <2>8, <2>9, EarlyNext
  <2> QED BY <2>5, <2>6, <2>7, <2>10 DEF SendInv
<1>12. CASE opening' = [opening EXCEPT ![e] = @ + 1] /\ Answer(e, {}, <<>>)
  <2>1. opening'[origin] = 0 /\ opening'[Slave] = 1
    BY <1>1, <1>3, <1>6, <1>12
  <2> QED BY <2>1, <1>11, <1>12, HushedSends
<1>13. CASE UNCHANGED opening /\ Answer(e, {"fail"}, Fails(e))
  <2>1. opening'[origin] = 0 /\ opening'[Slave] = 0 /\ "ok" \notin {"fail"}
    BY <1>6, <1>13
  <2> QED BY <2>1, <1>11, <1>13, HushedSends
<1> QED BY <1>12, <1>13 DEF SlaveCheckFile

\* The first read.
LEMMA DataBegins ==
    ASSUME SendBase, XBase', NEW e \in End, MasterBegin(e)
    PROVE  TokenInv' /\ SendInv'
<1> USE XBaseFacts DEF SendBase
<1>3. Slave \in End /\ origin \in End /\ Slave # origin /\ \A b \in End : b = origin \/ b = Slave
  BY XEnds
<1>1. /\ XKept /\ e = origin /\ net[e] # <<>> /\ Head(net[e]) = Begin0 /\ In(net[e], Begin0)
      /\ ReadAt(e, indexIO[e]) \in Reads
  BY XBegins
<1>2. UNCHANGED <<kind, origin, session, owed, size, queue, cur, fd, opening, closing, indexIO, ioFinish,
                  closeNotify, lastErrno, disk, async>>
  BY DEF MasterBegin
<1>4. Asks
  BY <1>1 DEF Asks
<1>5. Held >= 1
  BY <1>4, TokCounted DEF TokFacts
<1>6. /\ Tok = 1 /\ NoFlow /\ Unsaid /\ Held = 1 /\ Goes = 0
      /\ opening[origin] = 0 /\ opening[Slave] = 0
      /\ kind = "dir" => closing[Slave] = 0
      /\ kind = "install" => ~lastErrno[Slave] /\ closing[Slave] = 0 /\ async = 0
      /\ kind = "file" => closing[Slave] = 0
  BY <1>5, BeforeTaken
<1>7. /\ Announced /\ cur[Slave] = Begun /\ fd[Slave] = Begun /\ indexIO[origin] = 0
      /\ Begun' = Begun /\ Begun \in 1 .. NumFiles /\ Begun \in File
  <2>1. Announced /\ cur[Slave] = Begun /\ fd[Slave] = Begun /\ indexIO[origin] = 0
    BY <1>4 DEF SendInv, PlacedInv
  <2>2. Begun' = Begun
    BY <1>2, XSame DEF Begun
  <2>3. Begun \in 1 .. NumFiles
    BY <2>1, PlacedFacts DEF Announced
  <2> QED BY <2>1, <2>2, <2>3, XEnds
<1>8. Brings(Head(net[e])) = 1
  <2>1. Begin0 \in XferMsg /\ Begin0.cmd = "X_BEGIN"
    BY XMessages DEF Begin0, XCmds
  <2> QED BY <2>1, <1>1 DEF Brings, TokenMsg
<1>9. CASE UNCHANGED io /\ Answer(e, {}, IF IsFile THEN <<>> ELSE Finish)
  <2>1. Hushed(IF IsFile THEN <<>> ELSE Finish) /\ "ok" \notin {}
    BY HushedSends
  <2>2. Stays /\ Held' <= Held /\ (OkSaid' => OkSaid)
    BY <2>1, <1>1, <1>2, <1>9, MuteStep DEF Hushed
  <2>3. UNCHANGED <<kind, origin, owed, xferVars>>
    BY <1>2, <1>9 DEF xferVars, ctxVars
  <2> QED BY <2>2, <2>3, XFrame
<1>10. CASE Answer(e, {}, <<>>) /\ io' = [io EXCEPT ![e] = Append(@, ReadAt(e, indexIO[e]))]
  <2>1. Stays /\ Held' \in Nat /\ Held' + Brings(Head(net[e])) <= Held /\ (OkSaid' => OkSaid)
    BY <1>1, <1>2, <1>10, HushedSends, MuteStep DEF Hushed
  <2>2. Held' = 0
    BY <2>1, <1>6, <1>8
  <2>3. ~Asks' /\ (\A n \in File : ~Check(n)') /\ (kind = "dir" => \A d \in End : ~Fin(d, 1)')
    BY <2>2, <1>2, AfterTaken
  <2>4. TokenInv'
    <3>1. Goes' = 0
      BY <1>2, <1>6, GoesNext
    <3>2. Held' + opening'[origin] + opening'[Slave] + Goes' = 0
      BY <3>1, <1>2, <1>6, <2>2
    <3> QED BY <3>2, <1>2, TokenMoves
  <2>0. PICK r : r = ReadAt(origin, 0)
    OBVIOUS
  <2>5. io'[origin] = <<r>> /\ io'[Slave] = <<>> /\ r \in Reads /\ r.to = Begun /\ r.piece.i = 0
    <3>1. io[origin] = <<>> /\ io[Slave] = <<>> /\ DOMAIN io = End
      BY <1>6 DEF NoFlow, XTypes
    <3>2. Append(<<>>, r) = <<r>>
      OBVIOUS
    <3>3. r.to = Begun /\ r.piece.i = 0
      BY <2>0, <1>7 DEF ReadAt, Request, Announced
    <3>4. r = ReadAt(e, indexIO[e])
      BY <2>0, <1>1, <1>7
    <3> QED BY <3>1, <3>2, <3>3, <3>4, <1>1, <1>3, <1>10
  <2>6. \A p \in Pieces : ~Sent(p)' /\ ~Wr(p)' /\ ~Way(p)'
    <3>1. ASSUME NEW p \in Pieces PROVE ~Sent(p)' /\ ~Wr(p)'
      <4>1. ~Sent(p)'
        BY <2>1, <1>6 DEF Stays, NoFlow
      <4>2. Wr(p)' <=> \E x \in Writes : In(io'[Slave], x) /\ x.piece = p
        BY <1>2, XSame DEF Wr, In
      <4> QED BY <4>1, <4>2, <2>5, Emptied
    <3> QED BY <3>1 DEF Way
  <2>7. PlacedInv'
    <3>1. Announced'
      BY <1>2, <1>7, XSame DEF Announced
    <3>2. cur'[Slave'] = Begun' /\ fd'[Slave'] = Begun' /\ indexIO'[origin'] = 0 /\ Begun' \in Nat
      BY <1>2, <1>7, XSame
    <3>3. opening'[origin'] = 0 /\ opening'[Slave'] = 0 /\ fd'[Slave'] <= Begun' /\ cur'[Slave'] <= Begun'
      BY <3>2, <1>2, <1>6, XSame
    <3>4. \A n \in File' : ~Check(n)'
      BY <2>3, <1>2, XSame
    <3> QED BY <2>3, <3>1, <3>2, <3>3, <3>4 DEF PlacedInv
  <2>8. CountInv'
    BY <1>2, CountStays DEF SendInv
  <2>9. FlowInv'
    <3>1. Len(io'[origin']) <= 1 /\ \A x : In(io'[origin'], x) => x = r
      <4>1. Len(<<r>>) <= 1 /\ \A x : In(<<r>>, x) => x = r
        BY Few
      <4> QED BY <4>1, <2>5, <1>2
    <3>2. Reading(r)'
      <4>1. size[Begun] \in Nat
        BY <1>7, XSizes
      <4>2. size[Begun] > 0 \/ size[Begun] = 0
        BY <4>1
      <4>3. size'[Begun'] > 0 \/ size'[Begun'] = 0
        BY <4>2, <1>2, <1>7
      <4>4. r.to = Begun' /\ r.piece.i = indexIO'[origin'] /\ indexIO'[origin'] = 0
        BY <2>5, <1>2, <1>7
      <4>5. \A p \in Pieces' : ~Way(p)'
        BY <2>6, <1>2, XSame
      <4>6. size'[Begun'] > 0 => indexIO'[origin'] < size'[Begun']
        BY <4>1, <4>4, <1>2, <1>7
      <4> QED BY <4>3, <4>4, <4>5, <4>6 DEF Reading
    <3>3. \A x : ~In(io'[Slave'], x) /\ Single(io'[Slave'], x)
      <4>1. \A x : ~In(<<>>, x) /\ Single(<<>>, x)
        BY Emptied DEF Single
      <4> QED BY <4>1, <2>5, <1>2, XSame
    <3>4. \A p \in Pieces : (Single(net[Slave], DataOf(p)))'
      <4>1. ASSUME NEW p \in Pieces PROVE (Single(net[Slave], DataOf(p)))'
        <5>1. (~Sent(p))'
          BY <2>6
        <5> QED BY <5>1 DEF Sent, In, Single
      <4> QED BY <4>1
    <3>5. kind \in {"dir", "install"} /\ ioFinish[Slave] => lastErrno[Slave]
      BY <1>4 DEF SendInv, FlowInv
    <3>6. \A x : (In(io[origin], x))' <=> In(io'[origin'], x)
      BY DEF In
    <3>7. \A x : ((In(io[Slave], x))' <=> In(io'[Slave'], x)) /\ ((Single(io[Slave], x))' <=> Single(io'[Slave'], x))
      BY DEF In, Single
    <3>8. \A x \in Reads' : (In(io[origin], x))' => Reading(x)'
      <4>1. ASSUME NEW x, (In(io[origin], x))' PROVE Reading(x)'
        <5>1. x = r
          BY <4>1, <3>1, <3>6
        <5>2. Reading(x)' <=> Reading(r)'
          BY <5>1 DEF Reading
        <5> QED BY <5>2, <3>2
      <4> QED BY <4>1
    <3> QED BY <3>1, <3>3, <3>4, <3>5, <3>7, <3>8, <2>6, <1>2, XSame DEF FlowInv
  <2>10. Unsaid'
    <3>1. kind = "dir" => \A d \in End : lastErrno'[d] => lastErrno[d]
      BY <1>2
    <3>2. kind = "file" => closing'[Slave] = 0
      BY <1>2, <1>6
    <3> QED BY <3>1, <3>2, <1>2, <1>6, <2>1, QuietStays DEF Stays
  <2>11. DirInv'
    <3>1. kind = "dir" => \A g \in 1 .. (Begun - 1) : Whole(g)
      BY DEF SendInv, DirInv
    <3>2. \A g : Whole(g)' <=> Whole(g)
      BY <1>2, WholeStays
    <3>3. (kind = "dir" => /\ Unsaid /\ closing[Slave] = 0 /\ ~Fin(origin, 1)
                           /\ \A g \in 1 .. (Begun - 1) : Whole(g))'
      BY <3>1, <3>2, <2>3, <2>10, <1>2, <1>6, <1>7, XSame, FinNext
    <3> QED BY <3>3, DirEarly, PTL
  <2>12. InstallInv'
    <3>1. (kind = "install" => closing[Slave] = 0 /\ async = 0)'
      BY <1>2, <1>6, XSame
    <3> QED BY <3>1, InstallEarly, PTL
  <2>13. FileInv'
    <3>1. (kind = "file" => Unsaid)' /\ (origin \in End)' /\ IsTransfer'
      BY <1>2, <2>10 DEF XBase, IsTransfer
    <3> QED BY <3>1, FileEarly, PTL
  <2> QED BY <2>4, <2>7, <2>8, <2>9, <2>11, <2>12, <2>13 DEF SendInv
<1> QED BY <1>9, <1>10 DEF MasterBegin, RefusedIO

-----------------------------------------------------------------------------
(* Pieces: read, sent, written and asked for.                              *)

\* While a piece is under way both ends are at the file, and nothing else happens.
LEMMA BeforePiece ==
    ASSUME SendBase, ~NoFlow
    PROVE  /\ Tok = 0 /\ Held = 0 /\ Goes = 0 /\ opening[origin] = 0 /\ opening[Slave] = 0
           /\ ~Asks /\ \A n \in File : ~Check(n)
           /\ Announced /\ cur[Slave] = Begun /\ fd[Slave] = Begun
           /\ cur[origin] = Begun /\ fd[origin] = Begun
           /\ Begun \in 1 .. NumFiles /\ Begun \in File /\ Begun \in Nat /\ Begun # 0
           /\ size[Begun] \in Nat /\ size[Begun] <= MaxSize
           /\ kind = "dir" => Unsaid /\ closing[Slave] = 0 /\ \A d \in End : ~Fin(d, 1)
           /\ kind = "install" => /\ async = 0 /\ owed["daemon"] = 0
                                  /\ ~lastErrno[Slave] => closing[Slave] = 0
<1> USE XBaseFacts DEF SendBase
<1>1. /\ Tok = 0 /\ Held = 0 /\ opening[origin] = 0 /\ opening[Slave] = 0 /\ Goes = 0
      /\ ~Asks /\ \A n \in File : ~Check(n)
      /\ kind = "dir" => \A d \in End : ~Fin(d, 1)
  BY TokenNone
<1>2. Announced /\ cur[Slave] = Begun /\ fd[Slave] = Begun
  BY DEF SendInv, PlacedInv
<1>3. Begun \in 1 .. NumFiles /\ Begun \in Nat /\ Begun # 0
  BY <1>2, PlacedFacts DEF Announced
<1>4. Begun \in File /\ size[Begun] \in Nat /\ size[Begun] <= MaxSize
  <2>1. Begun \in File
    BY <1>3, XEnds
  <2> QED BY <2>1, XSizes
<1>5. kind = "dir" => Unsaid /\ closing[Slave] = 0
  BY <1>1, TokenQuiet, TokCounted DEF TokFacts
<1>6. kind = "install" => async = 0 /\ owed["daemon"] = 0 /\ (~lastErrno[Slave] => closing[Slave] = 0)
  <2> SUFFICES ASSUME kind = "install"
               PROVE  async = 0 /\ owed["daemon"] = 0 /\ (~lastErrno[Slave] => closing[Slave] = 0)
    OBVIOUS
  <2> DEFINE c == IF lastErrno[Slave] THEN 0 ELSE closing[Slave]
  <2>1. Goes = c + async + owed["daemon"] /\ c \in Nat /\ async \in Nat /\ owed["daemon"] \in Nat
    <3>1. closing[Slave] \in Nat
      BY TokCounted DEF TokFacts
    <3> QED BY <3>1, TokCounted DEF TokFacts
  <2>2. ~lastErrno[Slave] => c = closing[Slave]
    OBVIOUS
  <2> HIDE DEF c
  <2>3. c = 0 /\ async = 0 /\ owed["daemon"] = 0
    BY <1>1, <2>1, Alone
  <2> QED BY <2>2, <2>3
<1> QED BY <1>1, <1>2, <1>3, <1>4, <1>5, <1>6 DEF Announced

\* A message that is taken is not there any more.
LEMMA TakenAway ==
    ASSUME XBase, NEW e \in End, net[e] # <<>>, NEW lvs, NEW out, Answer(e, lvs, out),
           Single(net[e], Head(net[e]))
    PROVE  ~In(net'[e], Head(net[e]))
<1> USE XBaseFacts
<1>1. net[e] \in Seq(XferMsg)
  OBVIOUS
<1>2. ~In(Tail(net[e]), Head(net[e]))
  BY <1>1, Taken
<1>3. net'[e] = <<>> \/ net'[e] = Tail(net[e])
  BY DEF Answer, Sends, Both
<1> QED BY <1>2, <1>3, Emptied

\* A piece comes to the slave.
LEMMA DataPieces ==
    ASSUME SendBase, XBase', NEW e \in End, SlaveData(e)
    PROVE  TokenInv' /\ SendInv'
<1> USE XBaseFacts DEF SendBase
<1>3. Slave \in End /\ origin \in End /\ Slave # origin /\ \A b \in End : b = origin \/ b = Slave
  BY XEnds
<1>0. PICK p : p = PieceOf(Arg(e))
  OBVIOUS
<1>1. /\ XKept /\ e = Slave /\ net[e] # <<>> /\ p \in Pieces /\ Writing(e) \in Writes
      /\ Head(net[e]) = DataOf(p) /\ In(net[e], DataOf(p))
  BY <1>0, XPieces
<1>2. UNCHANGED <<kind, origin, session, owed, size, queue, cur, fd, opening, closing, indexIO, ioFinish,
                  closeNotify, lastErrno, disk, async>>
  BY DEF SlaveData
<1>4. Writing(e).piece = p /\ Writing(e).to = fd[e]
      /\ \A x \in Writes : x.piece = p /\ x.to = fd[e] => x = Writing(e)
  BY <1>0 DEF Writing, Request, Writes
<1>c. Request(e, "write", PieceOf(Arg(e))) = Writing(e)
  BY DEF Writing
<1>5. Sent(p) /\ ~NoFlow
  BY <1>1 DEF Sent, NoFlow
<1>6. /\ Tok = 0 /\ Held = 0 /\ Goes = 0 /\ opening[origin] = 0 /\ opening[Slave] = 0
      /\ ~Asks /\ \A n \in File : ~Check(n)
      /\ cur[Slave] = Begun /\ fd[Slave] = Begun
  BY <1>5, BeforePiece
<1>7. /\ Single(net[Slave], DataOf(p)) /\ ~Wr(p) /\ Flying(p) /\ Begun' = Begun
      /\ \A q \in Pieces : Way(q) => Flying(q)
  BY <1>1, <1>2, <1>5, XSame DEF SendInv, FlowInv, Way, Begun
<1>9. CASE UNCHANGED io /\ Answer(e, {}, IF IsFile THEN <<>> ELSE Finish)
  <2>1. Hushed(IF IsFile THEN <<>> ELSE Finish) /\ "ok" \notin {}
    BY HushedSends
  <2>2. Stays /\ Held' <= Held /\ (OkSaid' => OkSaid)
    BY <2>1, <1>1, <1>2, <1>9, MuteStep DEF Hushed
  <2>3. UNCHANGED <<kind, origin, owed, xferVars>>
    BY <1>2, <1>9 DEF xferVars, ctxVars
  <2> QED BY <2>2, <2>3, XFrame
<1>10. CASE Answer(e, {}, <<>>) /\ io' = [io EXCEPT ![e] = Append(@, Writing(e))]
  <2>1. Stays /\ Held' \in Nat /\ Held' <= Held /\ (OkSaid' => OkSaid)
    BY <1>1, <1>2, <1>10, HushedSends, MuteStep DEF Hushed
  <2>2. Held' = 0
    BY <2>1, <1>6
  <2>3. Tok' = 0 /\ TokenInv'
    <3>1. Goes' = 0
      BY <1>2, <1>6, GoesNext
    <3>2. Held' + opening'[origin] + opening'[Slave] + Goes' = 0
      BY <3>1, <1>2, <1>6, <2>2
    <3> QED BY <3>2, <1>2, TokenMoves
  <2>4. /\ io'[origin] = io[origin] /\ io[Slave] \in Seq(Writes)
        /\ io'[Slave] = Append(io[Slave], Writing(e))
    BY <1>1, <1>3, <1>10 DEF XTypes
  <2>5. /\ \A y : In(io'[Slave], y) => In(io[Slave], y) \/ y = Writing(e)
        /\ \A y : Single(io[Slave], y) /\ (y # Writing(e) \/ ~In(io[Slave], y)) => Single(io'[Slave], y)
    BY <1>1, <2>4, PutIn
  <2>6. ~In(io[Slave], Writing(e))
    BY <1>1, <1>4, <1>7 DEF Wr
  <2>7. ~Sent(p)'
    <3>1. ~In(net'[e], DataOf(p))
      BY <1>1, <1>7, <1>10, TakenAway
    <3> QED BY <3>1, <1>1, <1>2, XSame DEF Sent, In
  <2>8. \A q \in Pieces : /\ Sent(q)' => Sent(q)
                          /\ Wr(q)' => Wr(q) \/ q = p
                          /\ Way(q)' => Way(q)
    <3>1. ASSUME NEW q \in Pieces PROVE Wr(q)' => Wr(q) \/ q = p
      <4>1. Wr(q)' <=> \E x \in Writes : In(io'[Slave], x) /\ x.piece = q
        BY <1>2, XSame DEF Wr, In
      <4> QED BY <4>1, <2>5, <1>4 DEF Wr
    <3>2. \A q \in Pieces : Sent(q)' => Sent(q)
      BY <2>1 DEF Stays
    <3> QED BY <3>1, <3>2, <1>5 DEF Way
  <2>9. PlacedInv'
    <3>1. /\ \A n : Check(n)' => Check(n)
          /\ Asks' => Asks
      BY <2>1 DEF Stays
    <3> QED BY <3>1, <1>2, <1>5, PlacedStays DEF SendInv
  <2>10. CountInv'
    BY <1>2, CountStays DEF SendInv
  <2>11. FlowInv'
    <3>1. Len(io'[origin]) <= 1 /\ \A x \in Reads : In(io'[origin], x) => Reading(x)'
      <4>1. ASSUME NEW x \in Reads, Reading(x) PROVE Reading(x)'
        <5>1. x.to = Begun' /\ x.piece.i = indexIO'[origin']
          BY <4>1, <1>2, <1>7 DEF Reading
        <5>2. \/ indexIO'[origin'] < size'[Begun']
              \/ size'[Begun'] = 0 /\ indexIO'[origin'] = 0 /\ \A q \in Pieces : ~Way(q)
          BY <4>1, <1>2, <1>7 DEF Reading
        <5> QED BY <5>1, <5>2, <1>1, <1>5 DEF Reading, Way
      <4> QED BY <4>1, <2>4 DEF SendInv, FlowInv
    <3>2. \A x \in Writes : Single(io'[Slave], x) /\ (In(io'[Slave], x) => x.to = Begun)
      BY <1>1, <1>4, <1>6, <2>5, <2>6 DEF SendInv, FlowInv
    <3>3. ASSUME NEW q \in Pieces
          PROVE  /\ Way(q)' => Flying(q)'
                 /\ Single(net'[Slave], DataOf(q)) /\ ~(Sent(q)' /\ Wr(q)')
      <4>1. Flying(q) => Flying(q)'
        BY <1>2, <1>7 DEF Flying
      <4>2. Single(net'[Slave], DataOf(q))
        BY <2>1 DEF Stays, SendInv, FlowInv
      <4>3. ~(Sent(q)' /\ Wr(q)')
        BY <2>7, <2>8 DEF SendInv, FlowInv
      <4> QED BY <4>1, <4>2, <4>3, <2>8, <1>7
    <3>4. kind \in {"dir", "install"} /\ ioFinish'[Slave] => lastErrno'[Slave]
      BY <1>2, <1>5 DEF SendInv, FlowInv
    <3>5. \A x : (In(io[origin], x))' <=> In(io'[origin], x)
      BY <1>2, XSame DEF In
    <3>6. \A x : ((In(io[Slave], x))' <=> In(io'[Slave], x)) /\ ((Single(io[Slave], x))' <=> Single(io'[Slave], x))
      BY <1>2, XSame DEF In, Single
    <3>7. \A q \in Pieces : (Single(net[Slave], DataOf(q)))' <=> Single(net'[Slave], DataOf(q))
      BY <1>2, XSame DEF Single
    <3> QED BY <3>1, <3>2, <3>3, <3>4, <3>5, <3>6, <3>7, <1>2, <1>7, XSame DEF FlowInv
  <2>12. DirInv'
    <3>1. NoFlow => NoFlow'
      BY <1>5
    <3>2. kind = "dir" => \A d \in End : ~lastErrno'[d]
      BY <1>2 DEF SendInv, DirInv
    <3> QED BY <3>1, <3>2, <1>2, <2>1, <2>3, DirStays DEF Stays, SendInv
  <2>13. InstallInv'
    BY <1>2, InstallStays DEF SendInv
  <2>14. FileInv'
    <3>1. Whole(1)' <=> Whole(1)
      BY <1>2, WholeStays
    <3> QED BY <3>1, <1>2, <2>1, <2>3, <2>4, FileStays DEF Stays, SendInv
  <2> QED BY <2>3, <2>9, <2>10, <2>11, <2>12, <2>13, <2>14 DEF SendInv
<1> QED BY <1>9, <1>10, <1>c DEF SlaveData, RefusedIO

\* Nothing is sent or taken.
LEMMA NetSame ==
    ASSUME XBase, UNCHANGED <<kind, origin, net>>
    PROVE  /\ Stays /\ Held \in Nat /\ Held' \in Nat /\ Held' <= Held
           /\ told' = told => (OkSaid' => OkSaid)
<1>1. "host" \in End
  BY DEF End
<1>2. Rests("host", net["host"]) /\ Passes("host", net["host"], <<>>)
  BY <1>1, XBaseFacts, PassBy
<1>3. Mute(<<>>)
  BY HushedSends DEF Hushed
<1>4. told' = told => (OkSaid' => OkSaid)
  BY DEF OkSaid, In, EchoOf, Msg
<1> QED BY <1>1, <1>2, <1>3, <1>4, AfterMute

\* A request comes back and no other follows.
LEMMA ReturnDrains ==
    ASSUME SendBase, NEW e \in End, NEW j \in DOMAIN io[e], Returns(e, j, <<>>),
           UNCHANGED <<kind, origin>>
    PROVE  /\ ~NoFlow
           /\ e = origin => io'[origin] = <<>> /\ io'[Slave] = io[Slave]
           /\ e = Slave =>
                /\ io'[origin] = io[origin]
                /\ \A x : In(io'[Slave], x) => In(io[Slave], x)
                /\ \A x : Single(io[Slave], x) => Single(io'[Slave], x)
                /\ Single(io[Slave], io[Slave][j]) => ~In(io'[Slave], io[Slave][j])
           /\ (\A p \in Pieces : Sent(p)' => Sent(p)) => Drains
<1> USE XBaseFacts DEF SendBase
<1>1. Slave \in End /\ origin \in End /\ Slave # origin /\ \A b \in End : b = origin \/ b = Slave
  BY XEnds
<1>2. io[origin] \in Seq(Reads) /\ io[Slave] \in Seq(Writes) /\ DOMAIN io = End
  BY DEF XTypes
<1>3. io[e] # <<>>
  <2>1. DOMAIN <<>> = {}
    OBVIOUS
  <2> QED BY <2>1
<1>4. ~NoFlow
  BY <1>1, <1>3 DEF NoFlow
<1>5. io'[e] = Without(io[e], j) \o <<>> /\ \A b \in End : b # e => io'[b] = io[b]
  BY <1>2 DEF Returns
<1>6. CASE e = origin
  <2>1. Len(io[origin]) <= 1
    BY DEF SendInv, FlowInv
  <2>2. Without(io[origin], j) \o <<>> = <<>>
    BY <1>2, <1>6, <2>1, TakeOut
  <2>3. io'[origin] = <<>> /\ io'[Slave] = io[Slave]
    BY <1>1, <1>5, <1>6, <2>2
  <2> QED BY <1>1, <1>4, <1>6, <2>3 DEF Drains
<1>7. CASE e = Slave
  <2> DEFINE w == Without(io[Slave], j)
  <2>1. /\ w \o <<>> = w
        /\ \A x : In(w, x) => In(io[Slave], x)
        /\ \A x : Single(io[Slave], x) => Single(w, x)
        /\ Single(io[Slave], io[Slave][j]) => ~In(w, io[Slave][j])
    BY <1>2, <1>7, TakeOut
  <2>2. io'[Slave] = w /\ io'[origin] = io[origin]
    BY <1>1, <1>5, <1>7, <2>1
  <2> HIDE DEF w
  <2>3. io[Slave] # <<>>
    BY <1>3, <1>7
  <2> QED BY <1>1, <1>4, <1>7, <2>1, <2>2, <2>3 DEF Drains
<1> QED BY <1>1, <1>6, <1>7

\* A request of the master fails, or comes back late.
LEMMA DataEndsMaster ==
    ASSUME SendBase, XBase', NEW j \in DOMAIN io[origin], OnFileIOEnds(origin, j)
    PROVE  TokenInv' /\ SendInv'
<1> USE XBaseFacts DEF SendBase
<1>1. Slave \in End /\ origin \in End /\ Slave # origin /\ \A b \in End : b = origin \/ b = Slave
  BY XEnds
<1>2. XKept /\ Returns(origin, j, <<>>) /\ io[origin][j] \in Reads /\ In(io[origin], io[origin][j])
  BY <1>1, XIOEnds
<1>3. UNCHANGED <<kind, origin, session, owed, net, told, size, queue, cur, fd, opening, indexIO, disk, async>>
  BY DEF OnFileIOEnds
<1>4. /\ ~NoFlow /\ io'[origin] = <<>> /\ io'[Slave] = io[Slave]
      /\ (\A p \in Pieces : Sent(p)' => Sent(p)) => Drains
  BY <1>1, <1>2, <1>3, ReturnDrains
<1>5. Stays /\ Held' \in Nat /\ Held' <= Held /\ (OkSaid' => OkSaid)
  BY <1>3, NetSame
<1>6. Drains
  BY <1>4, <1>5 DEF Stays
<1>7. /\ Tok = 0 /\ Held = 0 /\ Goes = 0 /\ opening[origin] = 0 /\ opening[Slave] = 0
      /\ cur[Slave] = Begun /\ fd[Slave] = Begun /\ cur[origin] = Begun /\ fd[origin] = Begun
      /\ Begun \in 1 .. NumFiles /\ Begun # 0
      /\ kind = "dir" => Unsaid
  BY <1>4, BeforePiece
<1>8. /\ closing'[Slave] = closing[Slave] /\ closeNotify'[Slave] = closeNotify[Slave]
      /\ lastErrno'[Slave] = lastErrno[Slave] /\ ioFinish'[Slave] = ioFinish[Slave]
      /\ closeNotify[origin] => closeNotify'[origin]
  BY <1>1 DEF OnFileIOEnds, CloseStep1, XTypes
<1>9. Reading(io[origin][j])
  BY <1>2 DEF SendInv, FlowInv
<1>10. kind = "dir" => UNCHANGED <<closeNotify, lastErrno>>
  <2>1. io[origin][j].op = "read" /\ io[origin][j].to = Begun
    BY <1>2, <1>9 DEF Reads, Reading
  <2>2. kind = "dir" => ~Fault("read")
    BY DEF Careful
  <2> QED BY <2>1, <2>2, <1>7 DEF OnFileIOEnds
<1>11. Tok' = 0 /\ TokenInv'
  <2>1. Goes' = 0
    BY <1>3, <1>7, <1>8, GoesNext
  <2>2. Held' + opening'[origin] + opening'[Slave] + Goes' = 0
    <3>1. Held' = 0
      BY <1>5, <1>7
    <3>2. opening'[origin] = 0 /\ opening'[Slave] = 0 /\ 0 + 0 + 0 + 0 = 0
      BY <1>3, <1>7
    <3> QED BY <2>1, <3>1, <3>2
  <2> QED BY <2>2, <1>3, TokenMoves
<1>12. PlacedInv'
  <2>1. /\ \A n : Check(n)' => Check(n)
        /\ Asks' => Asks
    BY <1>5 DEF Stays
  <2> QED BY <2>1, <1>3, <1>4, PlacedStays DEF SendInv
<1>13. CountInv'
  BY <1>3, CountStays DEF SendInv
<1>14. FlowInv'
  BY <1>3, <1>4, <1>5, <1>6, <1>8, FlowStays DEF Stays, SendInv
<1>15. DirInv'
  <2>1. kind = "dir" => \A d \in End : ~lastErrno'[d]
    BY <1>10 DEF SendInv, DirInv
  <2>2. kind = "dir" => (closeNotify'[origin] => closeNotify[origin])
    BY <1>10
  <2>3. CASE kind = "dir"
    BY <2>1, <2>2, <2>3, <1>3, <1>4, <1>5, <1>8, <1>11, DirStays DEF Stays, SendInv
  <2>4. CASE kind # "dir"
    BY <2>4, <1>3 DEF DirInv
  <2> QED BY <2>3, <2>4
<1>16. InstallInv'
  BY <1>3, <1>8, InstallStays DEF SendInv
<1>17. FileInv'
  <2> SUFFICES ASSUME kind = "file" PROVE FileInv'
    BY <1>3 DEF FileInv
  <2>1. NumFiles = 1 /\ Begun = 1 /\ queue = 0
    <3>1. NumFiles = 1 /\ queue \in 0 .. 1
      BY XEnds DEF XTypes
    <3> QED BY <3>1, <1>7 DEF Begun
  <2>2. SmallRead
    BY <1>9, <2>1 DEF Reading, SmallRead
  <2>3. SmallRead'
    BY <2>2, <1>3 DEF SmallRead
  <2>4. /\ Fin(origin, 1)' => Fin(origin, 1)
        /\ Fin(Slave, 0)' => Fin(Slave, 0)
        /\ Fin(Slave, 1)' => Fin(Slave, 1)
        /\ Fin(origin, 0)' => Fin(origin, 0)
    BY <1>1, <1>3, <1>5, FinNext DEF Stays
  <2>5. OkSaid' => AllWhole'
    <3>1. OkSaid' => AllWhole
      BY <1>5 DEF SendInv, FileInv
    <3>2. \A g : Whole(g)' <=> Whole(g)
      BY <1>3, WholeStays
    <3> QED BY <3>1, <3>2, <1>3, <1>11, XSame DEF AllWhole
  <2>6. (Fin(Slave, 1) \/ Fin(origin, 0)) => closeNotify[origin]
    BY DEF SendInv, FileInv
  <2>7. io'[origin'] = <<>> /\ cur'[origin'] = 1 /\ cur'[Slave'] = 1 /\ fd'[Slave'] = 1 /\ queue' = 0
    BY <1>3, <1>4, <1>7, <2>1, XSame
  <2>8. (Fin(Slave, 1)' \/ Fin(origin, 0)') => closeNotify'[origin']
    BY <2>4, <2>6, <1>3, <1>8
  <2> QED BY <2>3, <2>5, <2>7, <2>8, <1>11 DEF FileInv
<1> QED BY <1>11, <1>12, <1>13, <1>14, <1>15, <1>16, <1>17 DEF SendInv

\* A request of the slave.
LEMMA DataEndsSlave ==
    ASSUME SendBase, XBase', NEW j \in DOMAIN io[Slave], OnFileIOEnds(Slave, j)
    PROVE  TokenInv' /\ SendInv'
<1> USE XBaseFacts DEF SendBase
<1>1. Slave \in End /\ origin \in End /\ Slave # origin /\ \A b \in End : b = origin \/ b = Slave
  BY XEnds
<1>2. XKept /\ Returns(Slave, j, <<>>) /\ io[Slave][j] \in Writes /\ In(io[Slave], io[Slave][j])
  BY <1>1, XIOEnds
<1>3. UNCHANGED <<kind, origin, session, owed, net, told, size, queue, cur, fd, opening, indexIO, disk, async>>
  BY <1>1 DEF OnFileIOEnds
<1>4. /\ ~NoFlow /\ io'[origin] = io[origin]
      /\ (\A p \in Pieces : Sent(p)' => Sent(p)) => Drains
  BY <1>1, <1>2, <1>3, ReturnDrains
<1>5. Stays /\ Held' \in Nat /\ Held' <= Held /\ (OkSaid' => OkSaid)
  BY <1>3, NetSame
<1>6. Drains
  BY <1>4, <1>5 DEF Stays
<1>7. /\ Tok = 0 /\ Held = 0 /\ Goes = 0 /\ opening[origin] = 0 /\ opening[Slave] = 0
      /\ cur[Slave] = Begun /\ fd[Slave] = Begun /\ cur[origin] = Begun /\ fd[origin] = Begun
      /\ Begun \in 1 .. NumFiles /\ Begun # 0
      /\ kind = "install" => async = 0 /\ owed["daemon"] = 0
  BY <1>4, BeforePiece
<1>8. /\ closing'[origin] = closing[origin] /\ closeNotify'[origin] = closeNotify[origin]
      /\ lastErrno'[origin] = lastErrno[origin] /\ lastErrno[Slave] => lastErrno'[Slave]
      /\ \/ ioFinish[Slave] /\ UNCHANGED <<closeNotify, lastErrno>>
         \/ lastErrno'[Slave] /\ (Fault(io[Slave][j].op) \/ io[Slave][j].to = 0)
  BY <1>1 DEF OnFileIOEnds, CloseStep1, XTypes
<1>9. io[Slave][j].op = "write" /\ io[Slave][j].to = Begun
  BY <1>2 DEF SendInv, FlowInv, Writes
<1>10. kind # "dir"
  <2>1. kind = "dir" /\ ioFinish[Slave] => lastErrno[Slave]
    BY <1>4 DEF SendInv, FlowInv
  <2>2. kind = "dir" => ~lastErrno[Slave]
    BY <1>1 DEF SendInv, DirInv
  <2>3. kind = "dir" => ~Fault("write")
    BY DEF Careful
  <2> QED BY <2>1, <2>2, <2>3, <1>7, <1>8, <1>9
<1>a. kind = "install" => lastErrno'[Slave]
  <2>1. kind = "install" /\ ioFinish[Slave] => lastErrno[Slave]
    BY <1>4 DEF SendInv, FlowInv
  <2> QED BY <2>1, <1>8
<1>11. Tok' = 0 /\ TokenInv'
  <2>1. Goes' = 0
    <3>1. kind = "install" => Goes' = 0 + async' + owed'["daemon"]
      BY <1>3, <1>a, GoesNext DEF GoesThen
    <3>2. kind # "uninstall"
      BY XEnds
    <3>3. kind # "install" => Goes' = 0
      BY <3>2, <1>3, <1>10, GoesNext DEF GoesThen
    <3>4. kind = "install" => async' = 0 /\ owed'["daemon"] = 0
      BY <1>3, <1>7
    <3>5. 0 + 0 + 0 = 0
      OBVIOUS
    <3>6. CASE kind = "install"
      BY <3>1, <3>4, <3>5, <3>6
    <3> QED BY <3>3, <3>6
  <2>2. Held' + opening'[origin] + opening'[Slave] + Goes' = 0
    <3>1. Held' = 0
      BY <1>5, <1>7
    <3>2. opening'[origin] = 0 /\ opening'[Slave] = 0 /\ 0 + 0 + 0 + 0 = 0
      BY <1>3, <1>7
    <3> QED BY <2>1, <3>1, <3>2
  <2> QED BY <2>2, <1>3, TokenMoves
<1>12. PlacedInv'
  <2>1. /\ \A n : Check(n)' => Check(n)
        /\ Asks' => Asks
    BY <1>5 DEF Stays
  <2> QED BY <2>1, <1>3, <1>4, PlacedStays DEF SendInv
<1>13. CountInv'
  BY <1>3, CountStays DEF SendInv
<1>14. FlowInv'
  <2>1. kind \in {"dir", "install"} => ioFinish[Slave] \/ lastErrno'[Slave]
    BY <1>a, <1>10
  <2> QED BY <2>1, <1>3, <1>4, <1>5, <1>6, <1>8, FlowStays DEF Stays, SendInv
<1>15. DirInv'
  BY <1>3, <1>10 DEF DirInv
<1>16. InstallInv'
  <2>1. kind = "install" => lastErrno'[Slave'] /\ async' = 0 /\ closeNotify'[Slave']
    <3>1. \A d \in End : lastErrno'[d] => closeNotify'[d]
      BY <1>2 DEF XKept, XTypes
    <3> QED BY <3>1, <1>1, <1>3, <1>7, <1>a, XSame
  <2> QED BY <2>1, <1>3 DEF InstallInv
<1>17. FileInv'
  <2> SUFFICES ASSUME kind = "file" PROVE FileInv'
    BY <1>3 DEF FileInv
  <2>1. NumFiles = 1 /\ Begun = 1 /\ queue = 0
    <3>1. NumFiles = 1 /\ queue \in 0 .. 1
      BY XEnds DEF XTypes
    <3> QED BY <3>1, <1>7 DEF Begun
  <2>2. closeNotify'[origin'] => closeNotify[origin] /\ io'[origin'] = <<>> /\ SmallRead'
    <3>1. closeNotify[origin] => io[origin] = <<>> /\ SmallRead
      BY DEF SendInv, FileInv
    <3>2. SmallRead => SmallRead'
      BY <1>3 DEF SmallRead
    <3> QED BY <3>1, <3>2, <1>3, <1>4, <1>8
  <2>4. /\ Fin(Slave, 1)' => Fin(Slave, 1)
        /\ Fin(origin, 0)' => Fin(origin, 0)
    BY <1>1, <1>3, <1>5, FinNext DEF Stays
  <2>5. OkSaid' => AllWhole'
    <3>1. OkSaid' => AllWhole
      BY <1>5 DEF SendInv, FileInv
    <3>2. \A g : Whole(g)' <=> Whole(g)
      BY <1>3, WholeStays
    <3> QED BY <3>1, <3>2, <1>3, <1>11, XSame DEF AllWhole
  <2>6. (Fin(Slave, 1) \/ Fin(origin, 0)) => closeNotify[origin]
    BY DEF SendInv, FileInv
  <2>7. cur'[origin'] = 1 /\ cur'[Slave'] = 1 /\ fd'[Slave'] = 1 /\ queue' = 0
    BY <1>3, <1>7, <2>1, XSame
  <2>8. (Fin(Slave, 1)' \/ Fin(origin, 0)') => closeNotify'[origin']
    BY <2>4, <2>6, <1>3, <1>8
  <2> QED BY <2>2, <2>5, <2>7, <2>8, <1>11 DEF FileInv
<1> QED BY <1>11, <1>12, <1>13, <1>14, <1>15, <1>16, <1>17 DEF SendInv

\* What the master has read and reads next.
LEMMA ReadFacts ==
    ASSUME SendBase, NEW e \in End, NEW j \in DOMAIN io[e], OnFileRead(e, j)
    PROVE  \E r \in Reads, p \in Pieces : \E at \in 0 .. MaxSize : \E goesOn :
             /\ e = origin /\ In(io[origin], r) /\ Reading(r)
             /\ at = indexIO[origin] + p.len /\ p.f = Begun /\ p.i = indexIO[origin]
             /\ \/ indexIO[origin] < size[Begun] /\ p.len = 1
                \/ size[Begun] = 0 /\ indexIO[origin] = 0 /\ p.len = 0 /\ \A q \in Pieces : ~Way(q)
             /\ goesOn \in BOOLEAN /\ (goesOn => at < size[Begun])
             /\ io'[Slave] = io[Slave]
             /\ io'[origin] = IF goesOn THEN <<ReadAt(origin, at)>> ELSE <<>>
             /\ ReadAt(origin, at) \in Reads
             /\ Emit(origin, {}, <<>>) \/ Emit(origin, {}, <<DataOf(p)>>)
             /\ indexIO' = [indexIO EXCEPT ![origin] = at]
             /\ ioFinish' = [ioFinish EXCEPT ![origin] = ~goesOn]
             /\ closing' = [closing EXCEPT ![origin] = IF ~goesOn THEN @ + 1 ELSE @]
<1> USE XBaseFacts DEF SendBase
<1>1. Slave \in End /\ origin \in End /\ Slave # origin /\ \A b \in End : b = origin \/ b = Slave
  BY XEnds
<1>2. PICK r : r = io[e][j]
  OBVIOUS
<1>3. PICK len : len = IF r.piece.i < size[r.to] THEN 1 ELSE 0
  OBVIOUS
<1>4. PICK at : at = indexIO[e] + len
  OBVIOUS
<1>5. PICK p : p = [f |-> r.to, i |-> indexIO[e], len |-> len]
  OBVIOUS
<1>6. PICK goesOn : goesOn = (CanSend(e) /\ at < FileSize(e))
  OBVIOUS
<1>7. PICK more : more = IF goesOn THEN <<ReadAt(e, at)>> ELSE <<>>
  OBVIOUS
<1>8. /\ e = origin /\ r \in Reads /\ In(io[e], r) /\ p \in Pieces /\ at \in 0 .. MaxSize /\ at \in Nat
      /\ ReadAt(e, at) \in Reads /\ Returns(e, j, more)
      /\ Emit(e, {}, IF CanSend(e) THEN <<DataOf(p)>> ELSE <<>>)
      /\ indexIO' = [indexIO EXCEPT ![e] = at]
      /\ ioFinish' = [ioFinish EXCEPT ![e] = ~goesOn]
      /\ closing' = [closing EXCEPT ![e] = IF ~goesOn THEN @ + 1 ELSE @]
  BY <1>2, <1>3, <1>4, <1>5, <1>6, <1>7, XRead
<1>9. Reading(r)
  BY <1>8 DEF SendInv, FlowInv
<1>10. io[origin] # <<>> /\ io[origin] \in Seq(Reads) /\ DOMAIN io = End /\ Len(io[origin]) <= 1
  <2>1. \A x : ~In(<<>>, x)
    BY Emptied
  <2> QED BY <2>1, <1>8 DEF XTypes, SendInv, FlowInv
<1>11. ~NoFlow
  BY <1>10 DEF NoFlow
<1>12. cur[origin] = Begun /\ Begun \in File /\ size[Begun] \in Nat /\ Begun # 0
  BY <1>11, BeforePiece
<1>13. r.to = Begun /\ r.piece.i = indexIO[origin] /\ indexIO[origin] \in Nat
  <2>1. indexIO[origin] \in 0 .. MaxSize /\ MaxSize \in Nat
    BY <1>1, Largest DEF XTypes
  <2> QED BY <2>1, <1>9 DEF Reading
<1>14. p.f = Begun /\ p.i = indexIO[origin] /\ p.len = len /\ at = indexIO[origin] + p.len
  BY <1>4, <1>5, <1>8, <1>13
<1>15. \/ indexIO[origin] < size[Begun] /\ p.len = 1
       \/ size[Begun] = 0 /\ indexIO[origin] = 0 /\ p.len = 0 /\ \A q \in Pieces : ~Way(q)
  <2>1. CASE indexIO[origin] < size[Begun]
    BY <2>1, <1>3, <1>13, <1>14
  <2>2. CASE ~(indexIO[origin] < size[Begun])
    <3>1. size[Begun] = 0 /\ indexIO[origin] = 0 /\ \A q \in Pieces : ~Way(q)
      BY <2>2, <1>9 DEF Reading
    <3> QED BY <3>1, <2>2, <1>3, <1>13, <1>14
  <2> QED BY <2>1, <2>2
<1>16. goesOn \in BOOLEAN /\ (goesOn => at < size[Begun])
  BY <1>6, <1>8, <1>12 DEF FileSize
<1>17. io'[Slave] = io[Slave] /\ io'[origin] = IF goesOn THEN <<ReadAt(origin, at)>> ELSE <<>>
  <2>1. Without(io[origin], j) = <<>>
    BY <1>8, <1>10, TakeOut
  <2>2. io'[origin] = <<>> \o more /\ io'[Slave] = io[Slave]
    BY <2>1, <1>1, <1>8, <1>10 DEF Returns
  <2>3. <<>> \o more = more
    <3>1. more \in Seq(Reads)
      <4>1. <<ReadAt(e, at)>> \in Seq(Reads) /\ <<>> \in Seq(Reads)
        BY <1>8
      <4> QED BY <4>1, <1>7
    <3> QED BY <3>1
  <2> QED BY <2>2, <2>3, <1>7, <1>8
<1>18. Emit(origin, {}, <<>>) \/ Emit(origin, {}, <<DataOf(p)>>)
  BY <1>8
<1> QED BY <1>8, <1>9, <1>14, <1>15, <1>16, <1>17, <1>18

\* A piece was read.
LEMMA DataRead ==
    ASSUME SendBase, XBase', NEW e \in End, NEW j \in DOMAIN io[e], OnFileRead(e, j)
    PROVE  TokenInv' /\ SendInv'
<1> USE XBaseFacts DEF SendBase
<1>1. Slave \in End /\ origin \in End /\ Slave # origin /\ \A b \in End : b = origin \/ b = Slave
  BY XEnds
<1>2. PICK r \in Reads, p \in Pieces : \E at \in 0 .. MaxSize : \E goesOn :
         /\ e = origin /\ In(io[origin], r) /\ Reading(r)
         /\ at = indexIO[origin] + p.len /\ p.f = Begun /\ p.i = indexIO[origin]
         /\ \/ indexIO[origin] < size[Begun] /\ p.len = 1
            \/ size[Begun] = 0 /\ indexIO[origin] = 0 /\ p.len = 0 /\ \A q \in Pieces : ~Way(q)
         /\ goesOn \in BOOLEAN /\ (goesOn => at < size[Begun])
         /\ io'[Slave] = io[Slave]
         /\ io'[origin] = IF goesOn THEN <<ReadAt(origin, at)>> ELSE <<>>
         /\ ReadAt(origin, at) \in Reads
         /\ Emit(origin, {}, <<>>) \/ Emit(origin, {}, <<DataOf(p)>>)
         /\ indexIO' = [indexIO EXCEPT ![origin] = at]
         /\ ioFinish' = [ioFinish EXCEPT ![origin] = ~goesOn]
         /\ closing' = [closing EXCEPT ![origin] = IF ~goesOn THEN @ + 1 ELSE @]
  BY ReadFacts
<1>3. PICK at \in 0 .. MaxSize, goesOn \in BOOLEAN :
         /\ e = origin /\ In(io[origin], r) /\ Reading(r)
         /\ at = indexIO[origin] + p.len /\ p.f = Begun /\ p.i = indexIO[origin]
         /\ \/ indexIO[origin] < size[Begun] /\ p.len = 1
            \/ size[Begun] = 0 /\ indexIO[origin] = 0 /\ p.len = 0 /\ \A q \in Pieces : ~Way(q)
         /\ (goesOn => at < size[Begun])
         /\ io'[Slave] = io[Slave]
         /\ io'[origin] = IF goesOn THEN <<ReadAt(origin, at)>> ELSE <<>>
         /\ ReadAt(origin, at) \in Reads
         /\ Emit(origin, {}, <<>>) \/ Emit(origin, {}, <<DataOf(p)>>)
         /\ indexIO' = [indexIO EXCEPT ![origin] = at]
         /\ ioFinish' = [ioFinish EXCEPT ![origin] = ~goesOn]
         /\ closing' = [closing EXCEPT ![origin] = IF ~goesOn THEN @ + 1 ELSE @]
  BY <1>2
<1>4. XKept /\ UNCHANGED <<kind, origin, session, owed, task, orphan, chan, size, queue, cur,
                           fd, opening, closeNotify, lastErrno, disk, async>>
  BY XRead DEF OnFileRead
<1>5. ~NoFlow
  <2>1. \A x : ~In(<<>>, x)
    BY Emptied
  <2> QED BY <2>1, <1>3 DEF NoFlow
<1>6. /\ Tok = 0 /\ Held = 0 /\ Goes = 0 /\ opening[origin] = 0 /\ opening[Slave] = 0
      /\ ~Asks /\ (\A n \in File : ~Check(n))
      /\ cur[Slave] = Begun /\ fd[Slave] = Begun /\ cur[origin] = Begun /\ fd[origin] = Begun
      /\ Begun \in File /\ Begun # 0 /\ Begun \in Nat
      /\ size[Begun] \in Nat /\ size[Begun] <= MaxSize
  BY <1>5, BeforePiece
<1>7. indexIO[origin] \in Nat /\ at \in Nat /\ MaxSize \in Nat /\ p.len \in 0 .. 1
      /\ indexIO'[origin] = at /\ indexIO'[Slave] = indexIO[Slave] /\ indexIO[origin] <= at
      /\ closing'[Slave] = closing[Slave] /\ ioFinish'[Slave] = ioFinish[Slave] /\ Begun' = Begun
  <2>1. indexIO[origin] \in 0 .. MaxSize /\ MaxSize \in Nat
    BY <1>1, Largest DEF XTypes
  <2>2. p.len \in 0 .. 1
    BY DEF Pieces, Piece
  <2>3. indexIO' = [indexIO EXCEPT ![origin] = at] /\ at = indexIO[origin] + p.len
        /\ ioFinish' = [ioFinish EXCEPT ![origin] = ~goesOn]
        /\ closing' = [closing EXCEPT ![origin] = IF ~goesOn THEN @ + 1 ELSE @]
    BY <1>3
  <2>4. indexIO'[origin] = at /\ indexIO'[Slave] = indexIO[Slave]
    BY <2>3, <1>1 DEF XTypes
  <2>5. ioFinish'[Slave] = ioFinish[Slave] /\ closing'[Slave] = closing[Slave]
    BY <2>3, <1>1 DEF XTypes
  <2>6. Begun' = Begun
    BY <1>4, XSame DEF Begun
  <2> QED BY <2>1, <2>2, <2>3, <2>4, <2>5, <2>6
<1>8. DataOf(p) \in XSays(Other(origin)) /\ DataOf(p).cmd = "X_DATA" /\ DataOf(p) \notin TokenMsg
      /\ \A q \in Pieces : DataOf(q) = DataOf(p) => q = p
  <2>1. DataOf(p) \in XferMsg /\ DataOf(p).cmd = "X_DATA" /\ DataOf(p).n = Code(p)
    BY XMessages DEF Pieces, DataOf
  <2>2. \A q \in Pieces : DataOf(q) = DataOf(p) => q = p
    BY Coded, XMessages DEF Pieces, DataOf
  <2> QED BY <2>1, <2>2, XEnds DEF XSays, TokenMsg
<1>9. ~Way(p)
  <2>1. CASE p.len = 1
    <3>1. Way(p) => Flying(p)
      BY DEF SendInv, FlowInv
    <3>2. p.i = indexIO[origin]
      BY <1>3
    <3>3. ~Flying(p)
      BY <3>2, <2>1, <1>7 DEF Flying
    <3> QED BY <3>1, <3>3
  <2>2. CASE p.len # 1
    BY <2>2, <1>3
  <2> QED BY <2>1, <2>2
<1>10. /\ Arrives(origin, DataOf(p)) \/ Stays
       /\ Held' \in Nat /\ Held' <= Held /\ (OkSaid' => OkSaid)
  <2>1. CASE Emit(origin, {}, <<>>)
    BY <2>1, <1>1, <1>4, HushedSends, MuteStep DEF Hushed
  <2>2. CASE Emit(origin, {}, <<DataOf(p)>>)
    <3>1. DataOf(p).cmd # "ECHO_OK"
      BY <1>8
    <3>2. Brings(DataOf(p)) = 0 /\ \A k \in Nat : k + 0 = k
      BY <1>8 DEF Brings
    <3>3. Arrives(origin, DataOf(p)) /\ Held \in Nat /\ Held' \in Nat /\ Held' <= Held + Brings(DataOf(p))
          /\ (OkSaid' => OkSaid)
      BY <2>2, <3>1, <1>1, <1>4, <1>8, OneStep
    <3> QED BY <3>2, <3>3
  <2> QED BY <2>1, <2>2, <1>3
<1>11. /\ \A n : Check(n)' => Check(n)
       /\ ~Asks' /\ \A d \in End : \A n : Fin(d, n)' => Fin(d, n)
       /\ \A q \in Pieces : /\ Sent(q)' => Sent(q) \/ q = p
                            /\ Single(net'[Slave], DataOf(q))
  <2>1. \A q \in Pieces : Single(net[Slave], DataOf(q))
    BY DEF SendInv, FlowInv
  <2>2. CASE Stays
    BY <2>1, <2>2, <1>6 DEF Stays
  <2>3. CASE Arrives(origin, DataOf(p))
    <3>1. /\ \A n : Check(n)' => Check(n)
          /\ ~Asks' /\ \A d \in End : \A n : Fin(d, n)' => Fin(d, n)
      BY <2>3, <1>6, <1>8 DEF Arrives
    <3>2. ASSUME NEW q \in Pieces PROVE Sent(q)' => Sent(q) \/ q = p
      BY <2>3, <1>8 DEF Arrives
    <3>3. ASSUME NEW q \in Pieces PROVE Single(net'[Slave], DataOf(q))
      <4>1. Sent(q) => DataOf(p) # DataOf(q)
        BY <1>8, <1>9 DEF Way
      <4> QED BY <4>1, <2>1, <2>3 DEF Arrives
    <3> QED BY <3>1, <3>2, <3>3
  <2> QED BY <2>2, <2>3, <1>10
<1>12. \A q \in Pieces : (Wr(q)' => Wr(q)) /\ (Way(q)' => Way(q) \/ q = p)
  <2>1. ASSUME NEW q \in Pieces PROVE Wr(q)' => Wr(q)
    <3>1. Wr(q)' <=> \E x \in Writes : In(io'[Slave], x) /\ x.piece = q
      BY <1>4, XSame DEF Wr, In
    <3>2. io'[Slave] = io[Slave]
      BY <1>3
    <3> QED BY <3>1, <3>2 DEF Wr
  <2> QED BY <2>1, <1>11 DEF Way
<1>13. Tok' = 0 /\ TokenInv'
  <2>1. Goes' = 0
    BY <1>4, <1>6, <1>7, GoesNext
  <2>2. Held' + opening'[origin] + opening'[Slave] + Goes' = 0
    <3>1. Held' = 0
      BY <1>6, <1>10
    <3>2. opening'[origin] = 0 /\ opening'[Slave] = 0 /\ 0 + 0 + 0 + 0 = 0
      BY <1>4, <1>6
    <3> QED BY <2>1, <3>1, <3>2
  <2> QED BY <2>2, <1>4, TokenMoves
<1>14. PlacedInv'
  <2>1. opening'[Slave] = 0 /\ opening'[origin] = 0 /\ \A n \in File : ~Check(n)'
    BY <1>4, <1>6, <1>11
  <2> QED BY <2>1, <1>4, <1>5, <1>11, PlacedStays DEF SendInv
<1>15. CountInv'
  <2>1. \A i \in 0 .. MaxSize : i < indexIO[origin] => i < indexIO'[origin]
    BY <1>7
  <2> QED BY <2>1, <1>4, <1>7, CountStays DEF SendInv
<1>16. FlowInv'
  <2>1. Len(io'[origin]) <= 1 /\ \A x \in Reads : In(io'[origin], x) => Reading(x)'
    <3>1. CASE goesOn
      <4>1. PICK n : n = ReadAt(origin, at)
        OBVIOUS
      <4>2. io'[origin] = <<n>> /\ at < size[Begun]
        BY <3>1, <4>1, <1>3
      <4>3. n.to = Begun /\ n.piece.i = at
        BY <4>1, <1>6 DEF ReadAt, Request
      <4>4. Reading(n)'
        BY <4>2, <4>3, <1>4, <1>7 DEF Reading
      <4>5. Len(<<n>>) <= 1 /\ \A x : In(<<n>>, x) => x = n
        BY Few
      <4> QED BY <4>2, <4>4, <4>5
    <3>2. CASE ~goesOn
      <4>1. io'[origin] = <<>> /\ Len(<<>>) <= 1
        BY <3>2, <1>3
      <4> QED BY <4>1, Emptied
    <3> QED BY <3>1, <3>2
  <2>2. \A x \in Writes : Single(io'[Slave], x) /\ (In(io'[Slave], x) => x.to = Begun)
    <3>1. io'[Slave] = io[Slave]
      BY <1>3
    <3> QED BY <3>1 DEF SendInv, FlowInv
  <2>3. ASSUME NEW q \in Pieces
        PROVE  /\ Way(q)' => Flying(q)'
               /\ Single(net'[Slave], DataOf(q)) /\ ~(Sent(q)' /\ Wr(q)')
    <3>1. ASSUME Flying(q) PROVE Flying(q)'
      <4>1. /\ q.f = Begun'
            /\ \/ q.len = 1 /\ q.i < size'[Begun'] /\ q.i < indexIO[origin] /\ disk'[Begun'][q.i] # Begun'
               \/ q.len = 0 /\ q.i = 0 /\ size'[Begun'] = 0
        BY <3>1, <1>4, <1>7 DEF Flying
      <4>2. q.i \in 0 .. MaxSize
        BY DEF Pieces, Piece
      <4>3. q.i < indexIO[origin] => q.i < indexIO'[origin']
        BY <4>2, <1>4, <1>7
      <4> QED BY <4>1, <4>3 DEF Flying
    <3>2. ASSUME q = p PROVE Flying(q)'
      <4>1. CASE indexIO[origin] < size[Begun] /\ p.len = 1
        <5>1. q.f = Begun' /\ q.len = 1 /\ q.i = indexIO[origin] /\ indexIO'[origin'] = indexIO[origin] + 1
          <6>1. at = indexIO[origin] + p.len /\ p.f = Begun /\ p.i = indexIO[origin]
            BY <1>3
          <6> QED BY <6>1, <3>2, <4>1, <1>4, <1>7
        <5>2. q.i < size'[Begun'] /\ q.i < indexIO'[origin']
          BY <5>1, <4>1, <1>4, <1>7
        <5>3. disk[Begun][q.i] # Begun
          <6>1. \A i \in Got(Begun) : i < indexIO[origin]
            BY <1>6 DEF SendInv, CountInv
          <6>2. ~(q.i < q.i) /\ q.i \in 0 .. MaxSize
            BY <5>1, <1>1, <1>7 DEF XTypes
          <6> QED BY <6>1, <6>2, <5>1 DEF Got
        <5> QED BY <5>1, <5>2, <5>3, <1>4, <1>7 DEF Flying
      <4>2. CASE size[Begun] = 0 /\ indexIO[origin] = 0 /\ p.len = 0
        <5>1. p.f = Begun /\ p.i = indexIO[origin]
          BY <1>3
        <5> QED BY <5>1, <3>2, <4>2, <1>4, <1>7 DEF Flying
      <4> QED BY <4>1, <4>2, <1>3
    <3>3. Way(q)' => Flying(q)'
      BY <3>1, <3>2, <1>12 DEF SendInv, FlowInv
    <3>4. ~(Sent(q)' /\ Wr(q)')
      <4>1. ~(Sent(q) /\ Wr(q))
        BY DEF SendInv, FlowInv
      <4> QED BY <4>1, <1>9, <1>11, <1>12 DEF Way
    <3> QED BY <3>3, <3>4, <1>11
  <2>4. kind \in {"dir", "install"} /\ ioFinish'[Slave] => lastErrno'[Slave]
    BY <1>4, <1>5, <1>7 DEF SendInv, FlowInv
  <2>5. \A x : (In(io[origin], x))' <=> In(io'[origin], x)
    BY <1>4, XSame DEF In
  <2>6. \A x : ((In(io[Slave], x))' <=> In(io'[Slave], x)) /\ ((Single(io[Slave], x))' <=> Single(io'[Slave], x))
    BY <1>4, XSame DEF In, Single
  <2>7. \A q \in Pieces : (Single(net[Slave], DataOf(q)))' <=> Single(net'[Slave], DataOf(q))
    BY <1>4, XSame DEF Single
  <2> QED BY <2>1, <2>2, <2>3, <2>4, <2>5, <2>6, <2>7, <1>4, <1>7, XSame DEF FlowInv
<1>17. DirInv'
  <2>1. NoFlow => NoFlow'
    BY <1>5
  <2>2. kind = "dir" => \A d \in End : ~lastErrno'[d]
    BY <1>4 DEF SendInv, DirInv
  <2> QED BY <2>1, <2>2, <1>4, <1>7, <1>10, <1>11, <1>13, DirStays DEF SendInv
<1>18. InstallInv'
  BY <1>4, <1>7, InstallStays DEF SendInv
<1>19. FileInv'
  <2>1. Whole(1)' <=> Whole(1)
    BY <1>4, WholeStays
  <2>2. io[origin] # <<>>
    <3>1. \A x : ~In(<<>>, x)
      BY Emptied
    <3> QED BY <3>1, <1>3
  <2> QED BY <2>1, <2>2, <1>4, <1>7, <1>10, <1>11, <1>13, FileStays DEF SendInv
<1> QED BY <1>13, <1>14, <1>15, <1>16, <1>17, <1>18, <1>19 DEF SendInv

\* What the slave has written.
LEMMA WriteFacts ==
    ASSUME SendBase, NEW e \in End, NEW j \in DOMAIN io[e], OnFileWrite(e, j)
    PROVE  \E w \in Writes, p \in Pieces : \E at \in Nat :
             /\ e = Slave /\ p = w.piece /\ w = io[Slave][j] /\ In(io[Slave], w) /\ w.to = Begun /\ p.f = Begun
             /\ Wr(p) /\ Flying(p) /\ at = indexIO[Slave] + p.len
             /\ ~NoFlow /\ Returns(Slave, j, <<>>)
             /\ indexIO' = [indexIO EXCEPT ![Slave] = at]
             /\ disk' = IF p.len = 0 THEN disk ELSE [disk EXCEPT ![Begun][p.i] = Begun]
             /\ closeNotify' = [closeNotify EXCEPT ![Slave] = @ \/ at >= size[Begun]]
             /\ ioFinish' = [ioFinish EXCEPT ![Slave] = at >= size[Begun]]
             /\ closing' = [closing EXCEPT ![Slave] = IF at >= size[Begun] THEN @ + 1 ELSE @]
<1> USE XBaseFacts DEF SendBase
<1>1. Slave \in End /\ origin \in End /\ Slave # origin /\ \A b \in End : b = origin \/ b = Slave
  BY XEnds
<1>2. PICK w : w = io[e][j]
  OBVIOUS
<1>3. PICK at : at = indexIO[e] + w.piece.len
  OBVIOUS
<1>4. PICK p : p = w.piece
  OBVIOUS
<1>5. e = Slave /\ w \in Writes /\ In(io[e], w) /\ p \in Pieces /\ at \in Nat /\ Returns(e, j, <<>>)
  BY <1>2, <1>3, <1>4, XWrite
<1>6. w.to = Begun /\ Wr(p) /\ Flying(p)
  <2>1. w.to = Begun
    BY <1>5 DEF SendInv, FlowInv
  <2>2. Wr(p)
    BY <1>4, <1>5 DEF Wr
  <2> QED BY <2>1, <2>2, <1>5 DEF SendInv, FlowInv, Way
<1>7. ~NoFlow
  BY <1>1, <1>5, <1>6, Emptied DEF NoFlow
<1>8. cur[Slave] = Begun /\ Begun # 0 /\ FileSize(Slave) = size[Begun] /\ p.f = Begun
  <2>1. cur[Slave] = Begun /\ Begun # 0
    BY <1>7, BeforePiece
  <2> QED BY <2>1, <1>6 DEF FileSize, Flying
<1>9. /\ indexIO' = [indexIO EXCEPT ![e] = at]
      /\ disk' = IF w.piece.len = 0 THEN disk ELSE [disk EXCEPT ![w.to][w.piece.i] = w.piece.f]
      /\ closeNotify' = [closeNotify EXCEPT ![e] = @ \/ Written(e, at)]
      /\ ioFinish' = [ioFinish EXCEPT ![e] = Written(e, at)]
      /\ closing' = [closing EXCEPT ![e] = IF Written(e, at) THEN @ + 1 ELSE @]
  BY <1>2, <1>3 DEF OnFileWrite, CloseStep1
<1>10. Written(e, at) <=> at >= size[Begun]
  BY <1>5, <1>8 DEF Written
<1>11. Written(e, at) = (at >= size[Begun])
  BY <1>10 DEF Written
<1>12. /\ indexIO' = [indexIO EXCEPT ![Slave] = at]
       /\ disk' = IF p.len = 0 THEN disk ELSE [disk EXCEPT ![Begun][p.i] = Begun]
       /\ closeNotify' = [closeNotify EXCEPT ![Slave] = @ \/ at >= size[Begun]]
       /\ ioFinish' = [ioFinish EXCEPT ![Slave] = at >= size[Begun]]
       /\ closing' = [closing EXCEPT ![Slave] = IF at >= size[Begun] THEN @ + 1 ELSE @]
  <2>1. w.piece = p /\ w.to = Begun /\ p.f = Begun /\ e = Slave
    BY <1>4, <1>5, <1>6, <1>8
  <2> QED BY <1>9, <1>11, <2>1
<1> QED BY <1>2, <1>3, <1>4, <1>5, <1>6, <1>7, <1>8, <1>12

\* As many numbers below a size as the size says are all of them.
LEMMA AllBelow ==
    ASSUME NEW n \in Nat, NEW S, S \subseteq 0 .. (n - 1), Cardinality(S) >= n
    PROVE  S = 0 .. (n - 1)
<1>1. IsFiniteSet(0 .. (n - 1)) /\ Cardinality(0 .. (n - 1)) = n
  <2>1. CASE n = 0
    BY <2>1, FS_Interval, FS_EmptySet
  <2>2. CASE n > 0
    BY <2>2, FS_Interval
  <2> QED BY <2>1, <2>2
<1>2. IsFiniteSet(S) /\ Cardinality(S) <= n /\ Cardinality(S) \in Nat
  BY <1>1, FS_Subset, FS_CardinalityType
<1>3. Cardinality(S) = n
  BY <1>2
<1> QED BY <1>1, <1>3, FS_Subset

\* The pieces of a file that the slave has, after a piece was written.
Now(g) == {i \in 0 .. MaxSize : disk'[g][i] = g}

\* A write adds its piece to what the slave counts.
LEMMA WriteCounts ==
    ASSUME SendBase, ~NoFlow, NEW p \in Pieces, Flying(p), NEW at \in Nat, at = indexIO[Slave] + p.len,
           disk' = IF p.len = 0 THEN disk ELSE [disk EXCEPT ![Begun][p.i] = Begun]
    PROVE  /\ Cardinality(Now(Begun)) = at
           /\ \A i \in Now(Begun) : i < size[Begun] /\ i < indexIO[origin]
           /\ \A g \in File : g # Begun => disk'[g] = disk[g]
           /\ \A i \in 0 .. MaxSize : disk[Begun][i] = Begun => disk'[Begun][i] = Begun
           /\ p.len = 1 => \A i \in 0 .. MaxSize : i # p.i => disk'[Begun][i] = disk[Begun][i]
           /\ p.len = 0 => disk' = disk
           /\ at >= size[Begun] => Now(Begun) = 0 .. (size[Begun] - 1)
<1> USE XBaseFacts DEF SendBase
<1>1. /\ cur[Slave] = Begun /\ fd[Slave] = Begun /\ cur[origin] = Begun
      /\ Begun \in File /\ Begun # 0 /\ Begun \in Nat /\ size[Begun] \in Nat /\ size[Begun] <= MaxSize
  BY BeforePiece
<1>2. /\ \A i \in Got(Begun) : i < size[Begun] /\ i < indexIO[origin]
      /\ indexIO[Slave] = Cardinality(Got(Begun))
  BY <1>1 DEF SendInv, CountInv
<1>3. p.i \in 0 .. MaxSize /\ p.len \in 0 .. 1 /\ MaxSize \in Nat /\ disk \in [File -> [0 .. MaxSize -> 0 .. NFiles]]
  BY Largest DEF Pieces, Piece, XTypes
<1>4. IsFiniteSet(Got(Begun)) /\ Cardinality(Got(Begun)) \in Nat
  <2>1. IsFiniteSet(0 .. MaxSize)
    BY <1>3, FS_Interval
  <2>2. Got(Begun) \in SUBSET (0 .. MaxSize)
    BY DEF Got
  <2> QED BY <2>1, <2>2, FS_Subset, FS_CardinalityType
<1>5. /\ Cardinality(Now(Begun)) = at
      /\ \A i \in Now(Begun) : i < size[Begun] /\ i < indexIO[origin]
      /\ \A g \in File : g # Begun => disk'[g] = disk[g]
      /\ \A i \in 0 .. MaxSize : disk[Begun][i] = Begun => disk'[Begun][i] = Begun
      /\ p.len = 1 => \A i \in 0 .. MaxSize : i # p.i => disk'[Begun][i] = disk[Begun][i]
      /\ p.len = 0 => disk' = disk
  <2>1. CASE p.len = 0
    <3>1. disk' = disk /\ at = indexIO[Slave]
      BY <2>1, <1>2, <1>4
    <3>2. Now(Begun) = Got(Begun)
      BY <3>1 DEF Now, Got
    <3> QED BY <2>1, <3>1, <3>2, <1>2
  <2>2. CASE p.len = 1
    <3>1. disk' = [disk EXCEPT ![Begun][p.i] = Begun]
      BY <2>2
    <3>2. /\ disk'[Begun][p.i] = Begun
          /\ \A i \in 0 .. MaxSize : i # p.i => disk'[Begun][i] = disk[Begun][i]
          /\ \A g \in File : g # Begun => disk'[g] = disk[g]
      BY <3>1, <1>1, <1>3
    <3>3. p.i < size[Begun] /\ p.i < indexIO[origin] /\ disk[Begun][p.i] # Begun
      BY <2>2 DEF Flying
    <3>4. Now(Begun) = Got(Begun) \cup {p.i} /\ p.i \notin Got(Begun)
      BY <3>2, <3>3, <1>3 DEF Now, Got
    <3>5. Cardinality(Now(Begun)) = Cardinality(Got(Begun)) + 1
      BY <3>4, <1>4, FS_AddElement
    <3> QED BY <2>2, <3>2, <3>3, <3>4, <3>5, <1>2
  <2> QED BY <2>1, <2>2, <1>3
<1>6. at >= size[Begun] => Now(Begun) = 0 .. (size[Begun] - 1)
  <2>1. Now(Begun) \subseteq 0 .. (size[Begun] - 1)
    BY <1>1, <1>3, <1>5 DEF Now
  <2> QED BY <2>1, <1>1, <1>5, AllBelow
<1> QED BY <1>5, <1>6

\* A piece is what it consists of, and so is a request.
LEMMA Consists ==
    /\ \A p, q \in Pieces : p.f = q.f /\ p.i = q.i /\ p.len = q.len => p = q
    /\ \A x, y \in Writes : x.to = y.to /\ x.piece = y.piece => x = y
<1>1. \A p \in Pieces : p = [f |-> p.f, i |-> p.i, len |-> p.len]
  BY DEF Pieces, Piece
<1>2. \A x \in Writes : x = [op |-> x.op, to |-> x.to, piece |-> x.piece] /\ x.op = "write"
  BY DEF Writes
<1>3. ASSUME NEW p \in Pieces, NEW q \in Pieces, p.f = q.f, p.i = q.i, p.len = q.len PROVE p = q
  BY <1>1, <1>3
<1>4. ASSUME NEW x \in Writes, NEW y \in Writes, x.to = y.to, x.piece = y.piece PROVE x = y
  <2>1. x.op = y.op
    BY <1>2
  <2> QED BY <2>1, <1>2, <1>4
<1> QED BY <1>3, <1>4

\* A queue that is not empty has a first element.
LEMMA FirstOne ==
    ASSUME NEW T, NEW s \in Seq(T), s # <<>>
    PROVE  s[1] \in T /\ In(s, s[1])
<1>1. 1 \in 1 .. Len(s) /\ s[1] \in T
  OBVIOUS
<1> QED BY <1>1 DEF In

\* The pieces that are under way after one was written.
LEMMA WriteFlow ==
    ASSUME SendBase, NEW j \in DOMAIN io[Slave], NEW w \in Writes, NEW p \in Pieces, NEW at \in Nat,
           p = w.piece, w = io[Slave][j], In(io[Slave], w), w.to = Begun, p.f = Begun,
           Wr(p), Flying(p), at = indexIO[Slave] + p.len, ~NoFlow, Returns(Slave, j, <<>>),
           UNCHANGED <<kind, origin, net, size, queue>>, indexIO'[origin] = indexIO[origin],
           disk' = IF p.len = 0 THEN disk ELSE [disk EXCEPT ![Begun][p.i] = Begun]
    PROVE  /\ io'[origin] = io[origin] /\ Drains
           /\ ~Sent(p)' /\ ~Wr(p)'
           /\ \A q \in Pieces : Way(q)' => Way(q) /\ q # p /\ Flying(q) /\ Flying(q)'
           /\ at >= size[Begun] => NoFlow'
<1> USE XBaseFacts DEF SendBase
<1>1. Slave \in End /\ origin \in End /\ Slave # origin /\ \A b \in End : b = origin \/ b = Slave
  BY XEnds
<1>2. /\ io'[origin] = io[origin]
      /\ \A x : In(io'[Slave], x) => In(io[Slave], x)
      /\ \A x : Single(io[Slave], x) => Single(io'[Slave], x)
      /\ Single(io[Slave], w) => ~In(io'[Slave], w)
      /\ (\A q \in Pieces : Sent(q)' => Sent(q)) => Drains
  BY <1>1, ReturnDrains
<1>3. \A q \in Pieces : (Sent(q)' => Sent(q))
  BY NetSame DEF Stays
<1>4. Drains
  BY <1>2, <1>3
<1>5. ~Sent(p) /\ Single(io[Slave], w) /\ Begun' = Begun /\ \A x \in Writes : In(io[Slave], x) => x.to = Begun
  BY XSame DEF SendInv, FlowInv, Begun
<1>6. ~Sent(p)' /\ ~Wr(p)'
  <2>1. Wr(p)' <=> \E x \in Writes : In(io'[Slave], x) /\ x.piece = p
    BY XSame DEF Wr, In
  <2>2. \A x \in Writes : x.piece = p /\ x.to = Begun => x = w
    BY Consists
  <2> QED BY <2>1, <2>2, <1>2, <1>3, <1>5
<1>7. /\ Cardinality(Now(Begun)) = at
      /\ p.len = 1 => \A i \in 0 .. MaxSize : i # p.i => disk'[Begun][i] = disk[Begun][i]
      /\ p.len = 0 => disk' = disk
      /\ at >= size[Begun] => Now(Begun) = 0 .. (size[Begun] - 1)
  BY WriteCounts
<1>8. ASSUME NEW q \in Pieces, Way(q)' PROVE Way(q) /\ q # p /\ Flying(q) /\ Flying(q)'
  <2>1. Way(q)
    BY <1>4, <1>8, Drained
  <2>2. Flying(q)
    BY <2>1 DEF SendInv, FlowInv
  <2>3. q # p
    <3>1. Way(q)' <=> Sent(q)' \/ Wr(q)'
      BY DEF Way
    <3> QED BY <3>1, <1>6, <1>8
  <2>4. /\ p \in [f : 0 .. NFiles, i : 0 .. MaxSize, len : 0 .. 1]
        /\ q \in [f : 0 .. NFiles, i : 0 .. MaxSize, len : 0 .. 1]
    BY DEF Pieces, Piece
  <2>5. p.f = q.f
    BY <2>2 DEF Flying
  <2>6. p.i # q.i \/ p.len # q.len
    BY <2>3, <2>5, Consists
  <2>7. CASE q.len = 1
    <3>1. q.i < size[Begun] /\ q.i < indexIO[origin] /\ disk[Begun][q.i] # Begun /\ q.f = Begun
      BY <2>2, <2>7 DEF Flying
    <3>2. disk'[Begun][q.i] # Begun
      <4>1. CASE p.len = 0
        BY <4>1, <3>1, <1>7
      <4>2. CASE p.len = 1
        BY <4>2, <2>4, <2>6, <2>7, <3>1, <1>7
      <4> QED BY <4>1, <4>2, <2>4
    <3> QED BY <2>1, <2>2, <2>3, <2>7, <3>1, <3>2, <1>5 DEF Flying
  <2>8. CASE q.len # 1
    <3>1. q.len = 0 /\ q.i = 0 /\ size[Begun] = 0 /\ q.f = Begun
      BY <2>2, <2>8 DEF Flying
    <3> QED BY <2>1, <2>2, <2>3, <3>1, <1>5 DEF Flying
  <2> QED BY <2>7, <2>8
<1>9. ASSUME at >= size[Begun] PROVE NoFlow'
  <2>1. Now(Begun) = 0 .. (size[Begun] - 1) /\ size[Begun] \in Nat /\ size[Begun] <= MaxSize
    BY <1>7, <1>9, BeforePiece
  <2>2. \A q \in Pieces : ~Way(q)'
    <3>1. ASSUME NEW q \in Pieces, Way(q)' PROVE FALSE
      <4>1. q # p /\ Flying(q) /\ Flying(q)'
        BY <3>1, <1>8
      <4>2. /\ p \in [f : 0 .. NFiles, i : 0 .. MaxSize, len : 0 .. 1]
            /\ q \in [f : 0 .. NFiles, i : 0 .. MaxSize, len : 0 .. 1]
        BY DEF Pieces, Piece
      <4>3. CASE q.len = 1
        <5>1. q.i < size[Begun] /\ disk'[Begun][q.i] # Begun
          BY <4>1, <4>3, <1>5 DEF Flying
        <5>2. q.i \in 0 .. (size[Begun] - 1)
          BY <5>1, <4>2, <2>1
        <5> QED BY <5>1, <5>2, <2>1 DEF Now
      <4>4. CASE q.len # 1
        <5>1. q.len = 0 /\ q.i = 0 /\ size[Begun] = 0 /\ q.f = Begun
          BY <4>1, <4>4 DEF Flying
        <5>2. p.f = Begun /\ p.i = 0 /\ p.len = 0
          BY <4>2, <5>1 DEF Flying
        <5> QED BY <4>1, <5>1, <5>2, Consists
      <4> QED BY <4>3, <4>4
    <3> QED BY <3>1
  <2>3. \A q \in Pieces : ~Sent(q)'
    BY <2>2 DEF Way
  <2>4. io'[Slave] = <<>>
    <3>1. io'[Slave] \in Seq(Writes)
      BY XReturns, <1>1
    <3>2. ASSUME io'[Slave] # <<>> PROVE FALSE
      <4>1. io'[Slave][1] \in Writes /\ In(io'[Slave], io'[Slave][1])
        BY <3>1, <3>2, FirstOne
      <4>2. io'[Slave][1].piece \in Pieces
        BY <4>1 DEF Writes
      <4>3. \A q \in Pieces : Wr(q)' <=> \E x \in Writes : In(io'[Slave], x) /\ x.piece = q
        <5>1. ASSUME NEW q \in Pieces PROVE Wr(q)' <=> \E x \in Writes : In(io'[Slave], x) /\ x.piece = q
          BY XSame DEF Wr, In
        <5> QED BY <5>1
      <4>4. \A q \in Pieces : ~Wr(q)'
        BY <2>2 DEF Way
      <4> QED BY <4>1, <4>2, <4>3, <4>4
    <3> QED BY <3>2
  <2>5. io'[origin] = <<>>
    <3>1. ASSUME io[origin] # <<>> PROVE FALSE
      <4>1. io[origin] \in Seq(Reads)
        BY DEF XTypes
      <4>2. io[origin][1] \in Reads /\ In(io[origin], io[origin][1])
        BY <4>1, <3>1, FirstOne
      <4>3. Reading(io[origin][1])
        BY <4>2 DEF SendInv, FlowInv
      <4>4. indexIO[origin] < size[Begun]
        BY <4>3 DEF Reading, Way
      <4>5. indexIO[origin] \in 0 .. (size[Begun] - 1)
        <5>1. indexIO[origin] \in 0 .. MaxSize /\ MaxSize \in Nat
          BY <1>1, Largest DEF XTypes
        <5> QED BY <5>1, <4>4, <2>1
      <4>6. \A i \in Now(Begun) : i < indexIO[origin]
        BY WriteCounts
      <4> QED BY <4>5, <4>6, <2>1
    <3> QED BY <3>1, <1>2
  <2>6. NoFlow' <=> io'[origin'] = <<>> /\ io'[Slave'] = <<>> /\ \A q \in Pieces' : ~Sent(q)'
    BY DEF NoFlow
  <2> QED BY <2>3, <2>4, <2>5, <2>6, XSame
<1> QED BY <1>2, <1>4, <1>6, <1>8, <1>9

\* A piece was written.
LEMMA DataWrite ==
    ASSUME SendBase, XBase', NEW e \in End, NEW j \in DOMAIN io[e], OnFileWrite(e, j)
    PROVE  TokenInv' /\ SendInv'
<1> USE XBaseFacts DEF SendBase
<1>1. Slave \in End /\ origin \in End /\ Slave # origin /\ \A b \in End : b = origin \/ b = Slave
  BY XEnds
<1>2. e = Slave /\ XKept
  BY XWrite
<1>3. PICK w \in Writes, p \in Pieces : \E at \in Nat :
             /\ e = Slave /\ p = w.piece /\ w = io[Slave][j] /\ In(io[Slave], w) /\ w.to = Begun /\ p.f = Begun
             /\ Wr(p) /\ Flying(p) /\ at = indexIO[Slave] + p.len
             /\ ~NoFlow /\ Returns(Slave, j, <<>>)
             /\ indexIO' = [indexIO EXCEPT ![Slave] = at]
             /\ disk' = IF p.len = 0 THEN disk ELSE [disk EXCEPT ![Begun][p.i] = Begun]
             /\ closeNotify' = [closeNotify EXCEPT ![Slave] = @ \/ at >= size[Begun]]
             /\ ioFinish' = [ioFinish EXCEPT ![Slave] = at >= size[Begun]]
             /\ closing' = [closing EXCEPT ![Slave] = IF at >= size[Begun] THEN @ + 1 ELSE @]
  BY WriteFacts
<1>4. PICK at \in Nat :
             /\ p = w.piece /\ w = io[Slave][j] /\ In(io[Slave], w) /\ w.to = Begun /\ p.f = Begun
             /\ Wr(p) /\ Flying(p) /\ at = indexIO[Slave] + p.len
             /\ ~NoFlow /\ Returns(Slave, j, <<>>)
             /\ indexIO' = [indexIO EXCEPT ![Slave] = at]
             /\ disk' = IF p.len = 0 THEN disk ELSE [disk EXCEPT ![Begun][p.i] = Begun]
             /\ closeNotify' = [closeNotify EXCEPT ![Slave] = @ \/ at >= size[Begun]]
             /\ ioFinish' = [ioFinish EXCEPT ![Slave] = at >= size[Begun]]
             /\ closing' = [closing EXCEPT ![Slave] = IF at >= size[Begun] THEN @ + 1 ELSE @]
  BY <1>3
<1>5. UNCHANGED <<kind, origin, session, owed, task, orphan, net, chan, told, size,
                   queue, cur, fd, opening, lastErrno, async>>
  BY DEF OnFileWrite
<1>6. PICK full \in BOOLEAN : full <=> at >= size[Begun]
  OBVIOUS
<1>7. /\ Tok = 0 /\ Held = 0 /\ Goes = 0 /\ opening[origin] = 0 /\ opening[Slave] = 0
      /\ ~Asks /\ \A n \in File : ~Check(n)
      /\ cur[Slave] = Begun /\ fd[Slave] = Begun /\ cur[origin] = Begun /\ fd[origin] = Begun
      /\ Begun \in 1 .. NumFiles /\ Begun \in File /\ Begun \in Nat /\ Begun # 0
      /\ size[Begun] \in Nat /\ size[Begun] <= MaxSize
      /\ kind = "dir" => Unsaid /\ closing[Slave] = 0 /\ \A d \in End : ~Fin(d, 1)
      /\ kind = "install" => /\ async = 0 /\ owed["daemon"] = 0
                             /\ ~lastErrno[Slave] => closing[Slave] = 0
  BY <1>4, BeforePiece
<1>8. /\ indexIO'[origin] = indexIO[origin] /\ indexIO'[Slave] = at
      /\ closeNotify'[origin] = closeNotify[origin]
      /\ closeNotify[Slave] => closeNotify'[Slave]
      /\ full => closeNotify'[Slave]
      /\ ioFinish'[Slave] = full
      /\ full => closing'[Slave] = closing[Slave] + 1
      /\ ~full => closing'[Slave] = closing[Slave]
      /\ Begun' = Begun /\ closing[Slave] \in Nat
  <2>1. DOMAIN indexIO = End /\ DOMAIN closeNotify = End /\ DOMAIN ioFinish = End /\ DOMAIN closing = End
        /\ closing[Slave] \in Nat
    BY <1>1 DEF XTypes
  <2>2. Begun' = Begun
    BY <1>5, XSame DEF Begun
  <2>3. /\ closeNotify' = [closeNotify EXCEPT ![Slave] = @ \/ full]
        /\ ioFinish' = [ioFinish EXCEPT ![Slave] = full]
        /\ closing' = [closing EXCEPT ![Slave] = IF full THEN @ + 1 ELSE @]
    <3>1. full = (at >= size[Begun])
      BY <1>6
    <3> QED BY <1>4, <3>1
  <2>4. closeNotify' = [closeNotify EXCEPT ![Slave] = closeNotify[Slave] \/ full]
    BY <2>3
  <2>5. closeNotify'[Slave] = (closeNotify[Slave] \/ full) /\ closeNotify'[origin] = closeNotify[origin]
    BY <2>1, <2>4, <1>1
  <2>6. ioFinish'[Slave] = full /\ indexIO'[origin] = indexIO[origin] /\ indexIO'[Slave] = at
    BY <1>1, <1>4, <2>1, <2>3
  <2> QED BY <1>1, <2>1, <2>2, <2>3, <2>5, <2>6
<1>9. j \in DOMAIN io[Slave] /\ Returns(Slave, j, <<>>) /\ UNCHANGED <<kind, origin, net, size, queue>>
  BY <1>2, <1>4, <1>5
<1>10. /\ io'[origin] = io[origin] /\ Drains
       /\ ~Sent(p)' /\ ~Wr(p)'
       /\ \A q \in Pieces : Way(q)' => Way(q) /\ q # p /\ Flying(q) /\ Flying(q)'
       /\ full => NoFlow'
  BY <1>4, <1>6, <1>8, <1>9, WriteFlow
<1>11. /\ Cardinality(Now(Begun)) = at
       /\ \A i \in Now(Begun) : i < size[Begun] /\ i < indexIO[origin]
       /\ \A g \in File : g # Begun => disk'[g] = disk[g]
       /\ \A i \in 0 .. MaxSize : disk[Begun][i] = Begun => disk'[Begun][i] = Begun
       /\ full => Now(Begun) = 0 .. (size[Begun] - 1)
  BY <1>4, <1>6, WriteCounts
<1>12. Stays /\ Held' \in Nat /\ Held' <= Held /\ (OkSaid' => OkSaid)
  BY <1>5, NetSame
<1>13. /\ full => Whole(Begun)'
       /\ \A g \in File : g # Begun => (Whole(g)' <=> Whole(g))
       /\ \A g \in 1 .. NumFiles : Whole(g) => Whole(g)'
  <2>1. full => Whole(Begun)'
    BY <1>5, <1>8, <1>11 DEF Whole, Now
  <2>2. \A g \in File : g # Begun => (Whole(g)' <=> Whole(g))
    BY <1>5, <1>11 DEF Whole
  <2>3. Whole(Begun) => Whole(Begun)'
    <3>1. 0 .. (size[Begun] - 1) \subseteq 0 .. MaxSize
      BY <1>7, Largest
    <3> QED BY <3>1, <1>5, <1>8, <1>11 DEF Whole
  <2>4. \A g \in 1 .. NumFiles : Whole(g) => Whole(g)'
    <3>1. ASSUME NEW g \in 1 .. NumFiles, Whole(g) PROVE Whole(g)'
      <4>1. g \in File
        BY XEnds
      <4>2. CASE g = Begun
        BY <2>3, <3>1, <4>2, <1>8 DEF Whole
      <4> QED BY <2>2, <3>1, <4>1, <4>2
    <3> QED BY <3>1
  <2> QED BY <2>1, <2>2, <2>4
<1>14. Held' = 0 /\ opening'[origin] = 0 /\ opening'[Slave] = 0
  BY <1>5, <1>7, <1>12
<1>15. Goes' \in 0 .. 1 /\ (Goes' = 1 => full /\ kind \in {"dir", "install"})
       /\ (kind = "install" /\ lastErrno'[Slave] => Goes' = 0)
  <2>1. kind # "uninstall"
    BY XEnds
  <2>2. CASE kind = "dir"
    <3>1. Goes' = closing'[Slave]
      BY <2>2, <1>5, GoesNext DEF GoesThen
    <3> QED BY <2>2, <3>1, <1>7, <1>8
  <2>3. CASE kind = "install"
    <3>1. Goes' = (IF lastErrno'[Slave] THEN 0 ELSE closing'[Slave]) + 0 + 0
      BY <2>3, <1>5, <1>7, GoesNext DEF GoesThen
    <3>2. lastErrno'[Slave] = lastErrno[Slave] /\ closing'[Slave] \in Nat
      BY <1>5, <1>8
    <3> QED BY <2>3, <3>1, <3>2, <1>7, <1>8
  <2>4. CASE kind \notin {"dir", "install"}
    <3>1. Goes' = 0
      BY <2>1, <2>4, <1>5, GoesNext DEF GoesThen
    <3> QED BY <3>1, <2>4
  <2> QED BY <2>2, <2>3, <2>4
<1>16. TokenInv' /\ Tok' = Goes'
  <2>1. Held' + opening'[origin] + opening'[Slave] + Goes' = Goes'
    <3>1. Goes' \in Nat
      BY <1>15
    <3> QED BY <3>1, <1>14, Alone
  <2>2. Goes' <= 1
    BY <1>15
  <2> QED BY <2>1, <2>2, <1>5, <1>10, <1>15, TokenMoves
<1>17. PlacedInv'
  BY <1>4, <1>5, <1>8, <1>12, PlacedStays DEF Stays, SendInv
<1>18. CountInv'
  <2>1. Got(Begun)' = Now(Begun)
    BY <1>5, <1>8, XSame DEF Got, Now
  <2>2. cur'[Slave'] = Begun /\ cur'[origin'] = Begun
    BY <1>5, <1>7, XSame
  <2>3. Got(cur[Slave])' = Now(Begun)
    <3>1. Got(cur[Slave])' = Got(Begun)'
      BY <2>2, <1>8 DEF Got
    <3> QED BY <3>1, <2>1
  <2> QED BY <2>2, <2>3, <1>5, <1>8, <1>11, XSame DEF CountInv
<1>19. FlowInv'
  <2>1. Len(io'[origin]) <= 1 /\ \A x \in Reads : In(io'[origin], x) => Reading(x)'
    <3>1. Len(io[origin]) <= 1 /\ \A x \in Reads : In(io[origin], x) => Reading(x)
      BY DEF SendInv, FlowInv
    <3>2. ASSUME NEW x \in Reads, In(io[origin], x) PROVE Reading(x)'
      <4>1. x.to = Begun /\ x.piece.i = indexIO[origin] /\ indexIO[origin] < size[Begun]
        BY <3>1, <3>2, <1>4 DEF Reading, Way
      <4> QED BY <4>1, <1>5, <1>8 DEF Reading
    <3> QED BY <3>1, <3>2, <1>10
  <2>2. \A x \in Writes : Single(io'[Slave], x) /\ (In(io'[Slave], x) => x.to = Begun)
    BY <1>10 DEF Drains, SendInv, FlowInv
  <2>3. ASSUME NEW q \in Pieces
        PROVE  /\ Way(q)' => Flying(q)'
               /\ Single(net'[Slave], DataOf(q)) /\ ~(Sent(q)' /\ Wr(q)')
    <3>1. ~(Sent(q) /\ Wr(q)) /\ Single(net[Slave], DataOf(q))
      BY DEF SendInv, FlowInv
    <3>2. (Wr(q)' => Wr(q)) /\ (Sent(q)' => Sent(q))
      BY <1>5, <1>10, <1>12, Drained DEF Stays
    <3> QED BY <3>1, <3>2, <1>5, <1>10
  <2>4. ioFinish'[Slave] => NoFlow' /\ ~Asks'
    BY <1>7, <1>8, <1>10, <1>12 DEF Stays
  <2>5. \A x : (In(io[origin], x))' <=> In(io'[origin], x)
    BY <1>5, XSame DEF In
  <2>6. \A x : ((In(io[Slave], x))' <=> In(io'[Slave], x)) /\ ((Single(io[Slave], x))' <=> Single(io'[Slave], x))
    BY <1>5, XSame DEF In, Single
  <2>7. \A q \in Pieces : (Single(net[Slave], DataOf(q)))' <=> Single(net'[Slave], DataOf(q))
    BY <1>5, XSame DEF Single
  <2> QED BY <2>1, <2>2, <2>3, <2>4, <2>5, <2>6, <2>7, <1>5, <1>8, XSame DEF FlowInv
<1>20. DirInv'
  <2> SUFFICES ASSUME kind = "dir" PROVE DirInv'
    BY <1>5 DEF DirInv
  <2>1. \A d \in End' : ~lastErrno'[d]
    BY <1>5 DEF SendInv, DirInv, End
  <2>2. ~Fin(Slave, 0)' /\ ~Fin(Slave, 1)' /\ ~Fin(origin, 0)' /\ ~Fin(origin, 1)' /\ ~OkSaid'
    <3>1. ~Fin(Slave, 0) /\ ~Fin(Slave, 1) /\ ~Fin(origin, 0) /\ ~Fin(origin, 1) /\ ~OkSaid
      BY <1>1, <1>7 DEF Unsaid
    <3> QED BY <3>1, <1>1, <1>5, <1>12, FinNext DEF Stays
  <2>3. ~closeNotify'[origin'] /\ (closing'[Slave'] > 0 => full /\ closeNotify'[Slave'])
    BY <1>5, <1>7, <1>8, XSame DEF Unsaid
  <2>4. \A g \in 1 .. (Begun' - 1) : Whole(g)'
    <3>1. \A g \in 1 .. (Begun - 1) : Whole(g)
      BY DEF SendInv, DirInv
    <3>2. \A g \in 1 .. (Begun - 1) : g \in 1 .. NumFiles
      BY <1>7, PlacedFacts
    <3> QED BY <3>1, <3>2, <1>8, <1>13
  <2>5. full => Whole(Begun)' /\ NoFlow' /\ Begun' >= 1
    BY <1>7, <1>8, <1>10, <1>13
  <2>7. (Whole(Begun))' <=> Whole(Begun)'
    BY <1>8 DEF Whole
  <2> QED BY <2>1, <2>2, <2>3, <2>4, <2>5, <2>7, <1>5, XSame DEF DirInv
<1>21. InstallInv'
  <2> SUFFICES ASSUME kind = "install" PROVE InstallInv'
    BY <1>5 DEF InstallInv
  <2>1. closing'[Slave'] > 0 => closeNotify'[Slave']
    <3>1. closing[Slave] > 0 => closeNotify[Slave]
      BY DEF SendInv, InstallInv
    <3> QED BY <3>1, <1>5, <1>8, XSame
  <2>2. closing'[Slave'] > 0 /\ ~lastErrno'[Slave'] => full
    BY <1>5, <1>7, <1>8, XSame
  <2>3. cur'[Slave'] = Begun /\ cur'[Slave'] >= 1 /\ async' = 0
    BY <1>5, <1>7, XSame
  <2>4. full => Whole(cur[Slave])'
    <3>1. Whole(cur[Slave])' <=> Whole(Begun)'
      BY <2>3, <1>8 DEF Whole
    <3> QED BY <3>1, <1>13
  <2> QED BY <2>1, <2>2, <2>3, <2>4 DEF InstallInv
<1>22. FileInv'
  <2> SUFFICES ASSUME kind = "file" PROVE FileInv'
    BY <1>5 DEF FileInv
  <2>1. NumFiles = 1 /\ Begun = 1 /\ queue = 0
    <3>1. NumFiles = 1 /\ queue \in 0 .. 1
      BY XEnds DEF XTypes
    <3> QED BY <3>1, <1>7 DEF Begun
  <2>2. closeNotify'[origin'] => closeNotify[origin] /\ io'[origin'] = <<>> /\ SmallRead'
    <3>1. closeNotify[origin] => io[origin] = <<>> /\ SmallRead
      BY DEF SendInv, FileInv
    <3>2. SmallRead => SmallRead'
      BY <1>5, <1>8 DEF SmallRead
    <3> QED BY <3>1, <3>2, <1>5, <1>10, <1>8
  <2>3. Tok' = 0
    BY <1>15, <1>16
  <2>4. /\ Fin(Slave, 1)' => Fin(Slave, 1)
        /\ Fin(origin, 0)' => Fin(origin, 0)
    BY <1>1, <1>5, <1>12, FinNext DEF Stays
  <2>5. OkSaid' => AllWhole'
    <3>1. OkSaid' => AllWhole
      BY <1>12 DEF SendInv, FileInv
    <3> QED BY <3>1, <2>3, <1>5, <1>13, XSame DEF AllWhole
  <2>6. (Fin(Slave, 1) \/ Fin(origin, 0)) => closeNotify[origin]
    BY DEF SendInv, FileInv
  <2>7. cur'[origin'] = 1 /\ cur'[Slave'] = 1 /\ fd'[Slave'] = 1 /\ queue' = 0
    BY <1>5, <1>7, <2>1, XSame
  <2>8. (Fin(Slave, 1)' \/ Fin(origin, 0)') => closeNotify'[origin']
    BY <2>4, <2>6, <1>5, <1>8
  <2> QED BY <2>2, <2>3, <2>5, <2>7, <2>8 DEF FileInv
<1> QED BY <1>16, <1>17, <1>18, <1>19, <1>20, <1>21, <1>22 DEF SendInv

-----------------------------------------------------------------------------
(* Closing: a file is finished, and what follows it.                       *)

\* None of what the token is made of is more than before.
LEMMA TokenLess ==
    ASSUME XBase, XBase', UNCHANGED <<kind, origin>>, Held' <= Held, Goes' <= Goes,
           opening'[origin] <= opening[origin], opening'[Slave] <= opening[Slave]
    PROVE  Tok' <= Tok /\ Tok \in Nat /\ Tok' \in Nat
<1>1. TokFacts /\ TokFacts'
  BY TokCounted, PTL
<1>2. Tok = Held + opening[origin] + opening[Slave] + Goes
  BY <1>1 DEF TokFacts
<1>3. Tok' = Held' + opening'[origin] + opening'[Slave] + Goes'
  BY <1>1, XSame DEF TokFacts
<1>4. /\ Held \in Nat /\ Goes \in Nat /\ opening[origin] \in Nat /\ opening[Slave] \in Nat
      /\ Held' \in Nat /\ Goes' \in Nat /\ opening'[origin] \in Nat /\ opening'[Slave] \in Nat
  BY <1>1, XSame DEF TokFacts
<1> QED BY <1>2, <1>3, <1>4

\* What is left of what goes on when a file is closed that nothing follows.
LEMMA CloseGoes ==
    ASSUME XBase, UNCHANGED <<kind, origin, owed, async, lastErrno>>, NEW e \in End, closing[e] > 0,
           closing' = [closing EXCEPT ![e] = @ - 1]
    PROVE  /\ Goes' <= Goes /\ closing'[Slave] <= closing[Slave] /\ closing'[Slave] \in Nat
           /\ e = Slave => closing'[Slave] = closing[Slave] - 1
           /\ e # Slave => closing'[Slave] = closing[Slave]
<1>1. Slave \in End /\ origin \in End /\ \A b \in End : b = origin \/ b = Slave
  BY XBaseFacts, XEnds
<1>2. /\ closing[Slave] \in Nat /\ async \in Nat /\ owed["daemon"] \in Nat
      /\ closing'[Slave] = IF e = Slave THEN closing[Slave] - 1 ELSE closing[Slave]
  <2>1. TokFacts
    BY TokCounted
  <2> QED BY <2>1, <1>1, XBaseFacts DEF TokFacts
<1>3. closing'[Slave] \in Nat /\ closing'[Slave] <= closing[Slave]
  BY <1>2
<1>4. Goes' <= Goes
  <2>1. /\ Goes' = GoesThen(closing'[Slave], lastErrno[Slave], async, owed["daemon"])
        /\ Goes = GoesThen(closing[Slave], lastErrno[Slave], async, owed["daemon"])
    BY GoesNext
  <2> QED BY <2>1, <1>2, <1>3 DEF GoesThen
<1> QED BY <1>2, <1>3, <1>4

\* A file is closed, and nothing is said or only a command that says nothing.
LEMMA DataClosesMute ==
    ASSUME SendBase, XBase', NEW e \in End, OnFileClose(e), UNCHANGED <<async, owed>>, Stays,
           Held' <= Held, IsFile => (OkSaid' => OkSaid)
    PROVE  TokenInv' /\ SendInv'
<1> USE XBaseFacts DEF SendBase
<1>1. Slave \in End /\ origin \in End /\ \A b \in End : b = origin \/ b = Slave
  BY XEnds
<1>2. UNCHANGED <<kind, origin, owed, size, queue, cur, fd, opening, io, indexIO, ioFinish, closeNotify,
                  lastErrno, disk, async>>
      /\ closing[e] > 0 /\ closing' = [closing EXCEPT ![e] = @ - 1]
  BY DEF OnFileClose
<1>3. Goes' <= Goes /\ closing'[Slave] <= closing[Slave] /\ closing'[Slave] \in Nat /\ closing[Slave] \in Nat
  BY <1>1, <1>2, CloseGoes
<1>4. Tok' <= Tok /\ Tok \in Nat /\ Tok' \in Nat
  <2>1. opening'[origin] <= opening[origin] /\ opening'[Slave] <= opening[Slave]
    BY <1>1, <1>2
  <2> QED BY <2>1, <1>2, <1>3, TokenLess
<1>5. Drains /\ (NoFlow => NoFlow')
  BY <1>2, DrainsBy, Drained DEF Stays
<1>6. TokenInv'
  BY <1>2, <1>4, <1>5, TokenStays
<1>7. Tok = 0 => Tok' = 0
  BY <1>4
<1>8. closing'[Slave] > 0 => closing[Slave] > 0
  BY <1>3
<1>9. PlacedInv'
  BY <1>2, <1>5, PlacedStays DEF Stays, SendInv
<1>10. CountInv'
  BY <1>2, CountStays DEF SendInv
<1>11. FlowInv'
  BY <1>2, <1>5, FlowStays DEF Stays, SendInv
<1>12. DirInv'
  <2>1. kind = "dir" => \A d \in End : ~lastErrno'[d]
    BY <1>2 DEF SendInv, DirInv
  <2>2. kind = "dir" => IsFile
    BY DEF IsFile
  <2> QED BY <1>2, <1>5, <1>7, <1>8, <2>1, <2>2, DirStays DEF Stays, SendInv
<1>13. InstallInv'
  BY <1>2, <1>8, InstallStays DEF SendInv
<1>14. FileInv'
  <2>1. Whole(1)' <=> Whole(1)
    BY <1>2, WholeStays
  <2>2. kind = "file" => IsFile
    BY DEF IsFile
  <2> QED BY <1>2, <1>7, <1>8, <2>1, <2>2, FileStays DEF Stays, SendInv
<1> QED BY <1>6, <1>9, <1>10, <1>11, <1>12, <1>13, <1>14 DEF SendInv

\* A package is all there and is installed now.
LEMMA DataInstalls ==
    ASSUME SendBase, XBase', OnFileClose("daemon"), kind = "install", ~lastErrno["daemon"],
           Stays, Held' \in Nat, Held' <= Held,
           \/ async' = async + 1 /\ UNCHANGED owed
           \/ Owe("daemon", 1) /\ UNCHANGED async
    PROVE  TokenInv' /\ SendInv'
<1> USE XBaseFacts DEF SendBase
<1>1. Slave \in End /\ origin \in End /\ Slave = "daemon" /\ origin = "host"
  BY XEnds DEF XTypes
<1>2. UNCHANGED <<kind, origin, size, queue, cur, fd, opening, io, indexIO, ioFinish, closeNotify,
                  lastErrno, disk>>
      /\ closing["daemon"] > 0 /\ closing' = [closing EXCEPT !["daemon"] = @ - 1]
  BY DEF OnFileClose
<1>3. /\ closing[Slave] \in Nat /\ async \in Nat /\ owed["daemon"] \in Nat
      /\ Goes = closing[Slave] + async + owed["daemon"]
  BY <1>1, TokCounted DEF TokFacts
<1>4. closing'[Slave] = closing[Slave] - 1 /\ closing[Slave] > 0
  BY <1>1, <1>2
<1>5. \/ async' = async + 1 /\ owed'["daemon"] = owed["daemon"]
      \/ async' = async /\ owed'["daemon"] = owed["daemon"] + 1
  <2>1. CASE async' = async + 1 /\ UNCHANGED owed
    BY <2>1
  <2>2. CASE Owe("daemon", 1) /\ UNCHANGED async
    BY <2>2, <1>1 DEF Owe
  <2> QED BY <2>1, <2>2
<1>6. Goes' = Goes
  <2>1. Goes' = closing'[Slave] + async' + owed'["daemon"]
    BY <1>1, <1>2, GoesNext DEF GoesThen
  <2>2. Goes' = (closing[Slave] - 1) + async' + owed'["daemon"]
    BY <2>1, <1>4
  <2>3. (closing[Slave] - 1) + async' + owed'["daemon"] = closing[Slave] + async + owed["daemon"]
    <3>1. PICK c : c = closing[Slave]
      OBVIOUS
    <3>2. PICK o : o = owed["daemon"]
      OBVIOUS
    <3>3. PICK m : m = owed'["daemon"]
      OBVIOUS
    <3>4. c \in Nat /\ o \in Nat /\ async \in Nat
      BY <3>1, <3>2, <1>3
    <3>5. (async' = async + 1 /\ m = o) \/ (async' = async /\ m = o + 1)
      BY <3>2, <3>3, <1>5
    <3>6. (c - 1) + async' + m = c + async + o
      BY ONLY <3>4, <3>5
    <3> QED BY <3>1, <3>2, <3>3, <3>6
  <2> QED BY <2>2, <2>3, <1>3
<1>7. Tok' <= Tok /\ Tok \in Nat /\ Tok' \in Nat
  <2>1. Goes' <= Goes /\ opening'[origin] <= opening[origin] /\ opening'[Slave] <= opening[Slave]
    BY <1>1, <1>2, <1>3, <1>6
  <2> QED BY <2>1, <1>2, TokenLess
<1>8. Drains /\ (NoFlow => NoFlow')
  BY <1>2, DrainsBy, Drained DEF Stays
<1>9. TokenInv'
  BY <1>2, <1>7, <1>8, TokenStays
<1>10. PlacedInv'
  BY <1>2, <1>8, PlacedStays DEF Stays, SendInv
<1>11. CountInv'
  BY <1>2, CountStays DEF SendInv
<1>12. FlowInv'
  BY <1>2, <1>8, FlowStays DEF Stays, SendInv
<1>13. InstallInv'
  <2>1. closeNotify[Slave] /\ cur[Slave] >= 1 /\ Whole(cur[Slave])
    BY <1>1, <1>4 DEF SendInv, InstallInv
  <2>2. closeNotify'[Slave'] /\ cur'[Slave'] >= 1
    BY <2>1, <1>2, XSame
  <2>3. Whole(cur[Slave])'
    BY <2>1, <1>2, XSame DEF Whole
  <2> QED BY <2>2, <2>3 DEF InstallInv
<1>14. DirInv' /\ FileInv'
  BY <1>2 DEF DirInv, FileInv
<1> QED BY <1>9, <1>10, <1>11, <1>12, <1>13, <1>14 DEF SendInv

\* What is said when a file is finished.
Finished1 == Msg("FILE_FINISH", 1)

\* What the message that a file is finished changes.
LEMMA FinishedSays ==
    ASSUME XBase, IsFile
    PROVE  /\ \A d : Finished1 \in XSays(d)
           /\ Finished1.cmd = "FILE_FINISH" /\ Finished1.n = 1
           /\ kind = "dir" => Brings(Finished1) = 1
           /\ kind = "file" => Brings(Finished1) = 0
<1>1. Finished1 \in XferMsg /\ Finished1.cmd = "FILE_FINISH" /\ Finished1.n = 1
  BY XMessages DEF Finished1, XCmds
<1>2. kind = "dir" <=> Finished1 \in TokenMsg
  BY <1>1 DEF TokenMsg
<1>3. \A d : Finished1 \in XSays(d)
  BY <1>1 DEF XSays
<1>4. kind = "file" => kind # "dir"
  OBVIOUS
<1> QED BY <1>1, <1>2, <1>3, <1>4 DEF Brings

\* A file is closed, and the other end is told that it is finished.
LEMMA DataFinishes ==
    ASSUME SendBase, XBase', NEW e \in End, OnFileClose(e), UNCHANGED <<async, owed>>, IsFile,
           closeNotify[e], Emit(e, {}, Out(e, <<Finished1>>))
    PROVE  TokenInv' /\ SendInv'
<1> USE XBaseFacts DEF SendBase
<1>1. Slave \in End /\ origin \in End /\ Slave # origin /\ \A b \in End : b = origin \/ b = Slave
  BY XEnds
<1>2. UNCHANGED <<kind, origin, session, owed, size, queue, cur, fd, opening, io, indexIO, ioFinish, closeNotify,
                  lastErrno, disk, async>>
      /\ closing[e] > 0 /\ closing' = [closing EXCEPT ![e] = @ - 1]
  BY DEF OnFileClose
<1>3. /\ Goes' <= Goes /\ closing'[Slave] <= closing[Slave] /\ closing'[Slave] \in Nat /\ closing[Slave] \in Nat
      /\ e = Slave => closing'[Slave] = closing[Slave] - 1
      /\ e # Slave => closing'[Slave] = closing[Slave]
  BY <1>1, <1>2, CloseGoes
<1>4. /\ Finished1 \in XSays(Other(e)) /\ Finished1.cmd = "FILE_FINISH" /\ Finished1.n = 1
      /\ kind = "dir" => Brings(Finished1) = 1
      /\ kind = "file" => Brings(Finished1) = 0
  BY FinishedSays
<1>5. Arrives(e, Finished1) /\ Held \in Nat /\ Held' \in Nat /\ Held' <= Held + Brings(Finished1)
      /\ (OkSaid' => OkSaid)
  BY <1>2, <1>4, OneStep
<1>6. /\ \A n : Check(n)' => Check(n)
      /\ Asks' => Asks
      /\ \A p \in Pieces : (Sent(p)' => Sent(p)) /\ (Single(net[Slave], DataOf(p)) => Single(net'[Slave], DataOf(p)))
      /\ \A d \in End : \A n : Fin(d, n)' => Fin(d, n) \/ (n = 1 /\ d = Other(e))
  BY <1>4, <1>5 DEF Arrives
<1>7. Drains /\ (NoFlow => NoFlow')
  BY <1>2, <1>6, DrainsBy, Drained
<1>8. PlacedInv'
  BY <1>2, <1>6, <1>7, PlacedStays DEF SendInv
<1>9. CountInv'
  BY <1>2, CountStays DEF SendInv
<1>10. FlowInv'
  BY <1>2, <1>6, <1>7, FlowStays DEF SendInv
<1>11. InstallInv'
  BY <1>2 DEF InstallInv, IsFile
<1>12. ASSUME kind = "dir" PROVE TokenInv' /\ DirInv' /\ FileInv'
  <2>1. e = Slave /\ closing[Slave] > 0
    <3>1. ~closeNotify[origin]
      BY <1>12 DEF SendInv, DirInv
    <3> QED BY <3>1, <1>1, <1>2
  <2>2. Goes = closing[Slave] /\ Goes > 0
    BY <1>12, <2>1, TokCounted DEF TokFacts
  <2>3. Tok = 1 /\ NoFlow /\ Held + opening[origin] + opening[Slave] + Goes = 1
    BY <2>2, TokenOne
  <2>4. Held = 0 /\ opening[origin] = 0 /\ opening[Slave] = 0 /\ Goes = 1
    <3>1. /\ Held \in Nat /\ Goes \in Nat /\ opening[origin] \in Nat /\ opening[Slave] \in Nat
      BY TokCounted DEF TokFacts
    <3> QED BY <3>1, <2>2, <2>3
  <2>5. Goes' = 0 /\ closing'[Slave] = 0
    <3>1. closing'[Slave] = 0
      BY <1>3, <2>1, <2>2, <2>4
    <3> QED BY <3>1, <1>2, <1>12, GoesNext DEF GoesThen
  <2>6. TokenInv'
    <3>1. Held' <= 1 /\ opening'[origin] = 0 /\ opening'[Slave] = 0
      BY <1>2, <1>4, <1>5, <1>12, <2>4
    <3>2. Held' + opening'[origin] + opening'[Slave] + Goes' = Held'
      BY <3>1, <1>5, <2>5, Alone
    <3> QED BY <3>1, <3>2, <1>2, <1>7, <1>12, <2>3, TokenMoves
  <2>7. Unsaid'
    <3>1. Unsaid
      BY <2>3, TokenQuiet
    <3>2. ~Fin(Slave, 0) /\ ~Fin(Slave, 1) /\ ~Fin(origin, 0) /\ ~OkSaid
          /\ ~closeNotify[origin] /\ \A d \in End : ~lastErrno[d]
      BY <3>1, <1>12 DEF Unsaid
    <3>3. Other(e) = origin
      BY <2>1, XEnds
    <3>4. ~Fin(Slave, 0)' /\ ~Fin(Slave, 1)' /\ ~Fin(origin, 0)'
      BY <3>2, <3>3, <1>1, <1>2, <1>6, FinNext
    <3> QED BY <3>2, <3>4, <1>2, <1>5, <1>12, XSame DEF Unsaid
  <2>8. Begun >= 1 /\ Whole(Begun) /\ \A g \in 1 .. (Begun - 1) : Whole(g)
    BY <1>12, <2>1 DEF SendInv, DirInv
  <2>9. Begun' = Begun /\ (\A g : Whole(g)' <=> Whole(g))
    BY <1>2, XSame, WholeStays DEF Begun
  <2>10. (Whole(Begun))'
    BY <2>8, <1>2, XSame DEF Whole, Begun
  <2>11. \A g \in 1 .. (Begun' - 1) : Whole(g)'
    BY <2>8, <2>9
  <2>12. DirInv'
    <3>1. Begun' >= 1 /\ NoFlow'
      BY <2>3, <2>8, <2>9, <1>7
    <3>2. ~(closing'[Slave'] > 0)
      BY <2>5, <1>2, XSame
    <3> QED BY <3>1, <3>2, <2>7, <2>10, <2>11, <1>2, <1>12 DEF DirInv, Unsaid
  <2>13. FileInv'
    BY <1>2, <1>12 DEF FileInv
  <2> QED BY <2>6, <2>12, <2>13
<1>13. ASSUME kind = "file" PROVE TokenInv' /\ DirInv' /\ FileInv'
  <2>1. Held' <= Held
    BY <1>4, <1>5, <1>13
  <2>2. Tok' <= Tok /\ Tok \in Nat /\ Tok' \in Nat
    <3>1. opening'[origin] <= opening[origin] /\ opening'[Slave] <= opening[Slave]
      BY <1>1, <1>2
    <3> QED BY <3>1, <2>1, <1>2, <1>3, TokenLess
  <2>3. TokenInv'
    BY <2>2, <1>2, <1>7, TokenStays
  <2>4. DirInv'
    BY <1>2, <1>13 DEF DirInv
  <2>5. /\ (Fin(origin, 1) \/ Fin(Slave, 0) \/ closing[Slave] > 0)
           => Tok = 0 /\ cur[Slave] = 1 /\ fd[Slave] = 1
        /\ closeNotify[origin] => Tok = 0 /\ io[origin] = <<>> /\ cur[origin] = 1 /\ queue = 0 /\ SmallRead
        /\ (Fin(Slave, 1) \/ Fin(origin, 0)) => closeNotify[origin]
        /\ OkSaid => AllWhole
    BY <1>13 DEF SendInv, FileInv
  <2>6. /\ Fin(origin, 1)' => Fin(origin, 1) \/ e = Slave
        /\ Fin(Slave, 1)' => Fin(Slave, 1) \/ e = origin
        /\ Fin(origin, 0)' => Fin(origin, 0)
        /\ Fin(Slave, 0)' => Fin(Slave, 0)
    BY <1>1, <1>2, <1>6, FinNext, XEnds
  <2>7. closing'[Slave] > 0 => closing[Slave] > 0
    BY <1>3
  <2>8. Tok = 0 => Tok' = 0
    BY <2>2
  <2>9. (Fin(origin, 1)' \/ Fin(Slave, 0)' \/ closing'[Slave'] > 0)
           => Tok' = 0 /\ cur'[Slave'] = 1 /\ fd'[Slave'] = 1
    BY <2>5, <2>6, <2>7, <2>8, <1>2, XSame
  <2>10. closeNotify'[origin'] => Tok' = 0 /\ io'[origin'] = <<>> /\ cur'[origin'] = 1 /\ queue' = 0 /\ SmallRead'
    <3>1. SmallRead => SmallRead'
      BY <1>2 DEF SmallRead
    <3> QED BY <3>1, <2>5, <2>8, <1>2
  <2>11. (Fin(Slave, 1)' \/ Fin(origin, 0)') => closeNotify'[origin']
    BY <2>5, <2>6, <1>2
  <2>12. OkSaid' => AllWhole'
    <3>1. \A g : Whole(g)' <=> Whole(g)
      BY <1>2, WholeStays
    <3> QED BY <3>1, <2>5, <2>8, <1>2, <1>5, XSame DEF AllWhole
  <2>13. FileInv'
    BY <2>9, <2>10, <2>11, <2>12 DEF FileInv
  <2> QED BY <2>3, <2>4, <2>13
<1>14. kind = "dir" \/ kind = "file"
  BY DEF IsFile
<1> QED BY <1>8, <1>9, <1>10, <1>11, <1>12, <1>13, <1>14 DEF SendInv

\* A file is closed.
LEMMA DataCloses ==
    ASSUME SendBase, XBase', NEW e \in End, OnFileClose(e)
    PROVE  TokenInv' /\ SendInv'
<1> USE XBaseFacts DEF SendBase
<1>1. UNCHANGED <<kind, origin, session>> /\ WhenTransferFinish(e)
  BY DEF OnFileClose
<1>2. CASE e = "daemon" /\ closeNotify[e] /\ kind = "install" /\ ~lastErrno[e]
           /\ PackageShell(Emit(e, {}, Out(e, <<>>)))
  <2>1. Hushed(Out(e, <<>>)) /\ "ok" \notin {}
    BY HushedSends DEF Out
  <2>2. Emit(e, {}, Out(e, <<>>))
    BY <1>2 DEF PackageShell
  <2>3. Stays /\ Held' \in Nat /\ Held' <= Held
    BY <2>1, <2>2, <1>1, MuteStep DEF Hushed
  <2>4. \/ async' = async + 1 /\ UNCHANGED owed
        \/ Owe("daemon", 1) /\ UNCHANGED async
    BY <1>2 DEF PackageShell
  <2> QED BY <1>2, <2>3, <2>4, DataInstalls
<1>3. CASE UNCHANGED <<async, owed>> /\ IsFile /\ closeNotify[e] /\ Emit(e, {}, Out(e, <<Finished1>>))
  BY <1>3, DataFinishes
<1>4. CASE UNCHANGED <<async, owed>>
           /\ \E lvs, out : Mute(out) /\ Emit(e, lvs, out) /\ (IsFile => lvs = {} /\ out = <<>>)
  <2>1. PICK lvs, out : Mute(out) /\ Emit(e, lvs, out) /\ (IsFile => lvs = {} /\ out = <<>>)
    BY <1>4
  <2>2. Stays /\ Held' <= Held /\ ("ok" \notin lvs /\ ~In(out, Ok) => (OkSaid' => OkSaid))
    BY <2>1, <1>1, MuteStep
  <2>3. IsFile => "ok" \notin lvs /\ ~In(out, Ok)
    BY <2>1, Emptied
  <2> QED BY <2>2, <2>3, <1>4, DataClosesMute
<1>5. \A lvs, msgs : Mute(msgs) /\ Emit(e, lvs, Out(e, msgs)) => \E out : Mute(out) /\ Emit(e, lvs, out) /\ (out = msgs \/ out = <<>>)
  BY MuteSends DEF Out
<1>6. CASE UNCHANGED <<async, owed>> /\ Emit(e, {}, Out(e, <<>>))
  BY <1>4, <1>5, <1>6, MuteSends
<1>7. CASE UNCHANGED <<async, owed>> /\ ~IsFile /\ Emit(e, {"fail"}, Out(e, Log(e, "fail")))
  BY <1>4, <1>5, <1>7, MuteSends
<1>8. CASE UNCHANGED <<async, owed>> /\ ~IsFile /\ Emit(e, {"ok"}, Out(e, Log(e, "ok") \o Finish))
  BY <1>4, <1>5, <1>8, MuteSends
<1>9. WhenTransferFinish(e) =>
         \/ e = "daemon" /\ closeNotify[e] /\ kind = "install" /\ ~lastErrno[e]
            /\ PackageShell(Emit(e, {}, Out(e, <<>>)))
         \/ UNCHANGED <<async, owed>> /\ IsFile /\ closeNotify[e] /\ Emit(e, {}, Out(e, <<Finished1>>))
         \/ UNCHANGED <<async, owed>> /\ Emit(e, {}, Out(e, <<>>))
         \/ UNCHANGED <<async, owed>> /\ ~IsFile /\ Emit(e, {"fail"}, Out(e, Log(e, "fail")))
         \/ UNCHANGED <<async, owed>> /\ ~IsFile /\ Emit(e, {"ok"}, Out(e, Log(e, "ok") \o Finish))
  BY DEF WhenTransferFinish, Finished1
<1> QED BY <1>1, <1>2, <1>3, <1>6, <1>7, <1>8, <1>9

\* A message that is one thing more to do and is taken.
LEMMA FinishTaken ==
    ASSUME XBase, kind = "dir"
    PROVE  Brings(Msg("FILE_FINISH", 1)) = 1 /\ Brings(Msg("FILE_FINISH", 0)) = 0
<1>1. kind = "dir" => IsFile
  BY DEF IsFile
<1>2. Brings(Msg("FILE_FINISH", 1)) = 1
  BY <1>1, FinishedSays DEF Finished1
<1>3. Msg("FILE_FINISH", 0) \notin TokenMsg
  BY XMessages DEF TokenMsg
<1> QED BY <1>2, <1>3 DEF Brings

\* The next file of a directory, or of a package, is opened.
LEMMA DataOpensNext ==
    ASSUME SendBase, XBase', UNCHANGED <<kind, origin, owed, size, cur, fd, closing, io, indexIO, ioFinish,
                                         closeNotify, lastErrno, disk, async>>,
           queue > 0, OpenNext(origin), Held >= 1, Held' = 0, Stays, OkSaid' => OkSaid,
           kind = "dir" => Begun >= 1 /\ Whole(Begun), kind \in {"dir", "install"}
    PROVE  TokenInv' /\ SendInv'
<1> USE XBaseFacts DEF SendBase
<1>1. Slave \in End /\ origin \in End /\ Slave # origin /\ \A b \in End : b = origin \/ b = Slave
  BY XEnds
<1>2. /\ Tok = 1 /\ NoFlow /\ Unsaid /\ Held = 1 /\ Goes = 0
      /\ opening[origin] = 0 /\ opening[Slave] = 0
      /\ kind = "dir" => closing[Slave] = 0
      /\ kind = "install" => ~lastErrno[Slave] /\ closing[Slave] = 0 /\ async = 0
  BY BeforeTaken
<1>3. queue' = queue - 1 /\ opening'[origin] = 1 /\ opening'[Slave] = 0
  BY <1>1, <1>2 DEF OpenNext
<1>4. ~Asks' /\ (\A n \in File : ~Check(n)') /\ (kind = "dir" => \A d \in End : ~Fin(d, 1)')
  BY AfterTaken
<1>5. Drains /\ NoFlow'
  BY <1>2, DrainsBy, Drained DEF Stays
<1>6. TokenInv'
  <2>1. Goes' = 0
    BY <1>2, GoesNext
  <2>2. Held' + opening'[origin] + opening'[Slave] + Goes' = 1
    BY <2>1, <1>3
  <2> QED BY <2>2, <1>2, <1>5, TokenMoves
<1>7. /\ Begun' = Begun + 1 /\ Begun \in Nat /\ cur[Slave] <= Begun /\ fd[Slave] <= Begun
      /\ cur[Slave] \in Nat /\ fd[Slave] \in Nat
  <2>1. Begun' = NumFiles - queue' /\ queue \in Nat /\ NumFiles \in Nat
    BY XSame, PlacedFacts
  <2> QED BY <2>1, <1>1, <1>3, PlacedFacts DEF Begun
<1>8. PlacedInv'
  <2>1. cur'[Slave'] <= Begun' /\ fd'[Slave'] <= Begun' /\ cur'[Slave'] < Begun' /\ fd'[Slave'] < Begun'
    BY <1>7, XSame
  <2>2. Ahead'
    BY <2>1 DEF Ahead
  <2>3. opening'[Slave'] = 0 /\ \A n \in File' : ~Check(n)'
    BY <1>3, <1>4, XSame
  <2> QED BY <2>1, <2>2, <2>3, <1>4, <1>5 DEF PlacedInv
<1>9. CountInv'
  BY CountStays DEF SendInv
<1>10. Unsaid'
  <2>1. kind = "file" => closing'[Slave] = 0
    OBVIOUS
  <2> QED BY <2>1, <1>2, QuietStays DEF Stays
<1>11. kind = "dir" => \A g \in 1 .. (Begun' - 1) : Whole(g)'
  <2> SUFFICES ASSUME kind = "dir" PROVE \A g \in 1 .. (Begun' - 1) : Whole(g)'
    OBVIOUS
  <2>1. \A g \in 1 .. (Begun - 1) : Whole(g)
    BY DEF SendInv, DirInv
  <2>2. \A g : Whole(g)' <=> Whole(g)
    BY WholeStays
  <2>3. ASSUME NEW g \in 1 .. (Begun' - 1) PROVE Whole(g)
    <3>1. g \in 1 .. (Begun - 1) \/ g = Begun
      BY <1>7
    <3> QED BY <2>1, <3>1
  <2> QED BY <2>2, <2>3
<1>12. FlowInv' /\ DirInv' /\ InstallInv' /\ FileInv'
  <2>1. /\ kind = "dir" => /\ closing'[Slave] = 0 /\ \A d \in End : ~Fin(d, 1)'
                           /\ \A g \in 1 .. (Begun' - 1) : Whole(g)'
        /\ kind = "install" => closing'[Slave] = 0 /\ async' = 0
    BY <1>2, <1>4, <1>11
  <2> QED BY <2>1, <1>4, <1>5, <1>10, EarlyNext
<1> QED BY <1>6, <1>8, <1>9, <1>12 DEF SendInv

\* An end is told that a file is finished: of a directory.
LEMMA DataDirFinish ==
    ASSUME SendBase, XBase', NEW e \in End, FileFinish(e), kind = "dir"
    PROVE  TokenInv' /\ SendInv'
<1> USE XBaseFacts DEF SendBase
<1>1. Slave \in End /\ origin \in End /\ Slave # origin /\ \A b \in End : b = origin \/ b = Slave
  BY XEnds
<1>2. net[e] # <<>> /\ Head(net[e]) = Msg("FILE_FINISH", 1) /\ Fin(e, 1)
  BY XFinished
<1>3. UNCHANGED <<kind, origin, session, owed, size, cur, fd, closing, io, indexIO, closeNotify, lastErrno,
                  disk, async>>
  BY DEF FileFinish
<1>4. e = origin
  BY <1>1, <1>2 DEF SendInv, DirInv
<1>5. Begun >= 1 /\ Whole(Begun) /\ NoFlow /\ \A g \in 1 .. (Begun - 1) : Whole(g)
  BY <1>2, <1>4 DEF SendInv, DirInv
<1>6. Held >= 1
  BY <1>2, TokCounted DEF TokFacts
<1>7. /\ Tok = 1 /\ Unsaid /\ Held = 1 /\ Goes = 0 /\ closing[Slave] = 0
      /\ opening[origin] = 0 /\ opening[Slave] = 0
  BY <1>6, BeforeTaken
<1>8. CASE queue > 0 /\ OpenNext(e) /\ Answer(e, {}, <<>>) /\ UNCHANGED ioFinish
  <2>1. Stays /\ Held' \in Nat /\ Held' + Brings(Head(net[e])) <= Held /\ (OkSaid' => OkSaid)
    BY <1>2, <1>3, <1>8, HushedSends, MuteStep DEF Hushed
  <2>2. Held' = 0
    BY <2>1, <1>2, <1>7, FinishTaken
  <2>3. queue > 0 /\ OpenNext(origin) /\ UNCHANGED ioFinish
    BY <1>4, <1>8
  <2> QED BY <2>1, <2>2, <2>3, <1>3, <1>5, <1>6, DataOpensNext
<1>9. CASE /\ ~(queue > 0) /\ ioFinish' = [ioFinish EXCEPT ![e] = TRUE]
           /\ Answer(e, {}, <<Msg("FILE_FINISH", 0)>>)
           /\ UNCHANGED <<queue, opening>>
  <2> DEFINE m == Msg("FILE_FINISH", 0)
  <2>0. m \in XSays(Other(e)) /\ m.cmd = "FILE_FINISH" /\ m.n = 0 /\ m.cmd # "ECHO_OK" /\ Brings(m) = 0
    <3>1. m \in XferMsg /\ m.cmd = "FILE_FINISH" /\ m.n = 0
      BY XMessages DEF XCmds
    <3>2. IsFile
      BY DEF IsFile
    <3> QED BY <3>1, <3>2, FinishTaken DEF XSays
  <2>1. Answer(e, {}, <<m>>)
    BY <1>9
  <2> HIDE DEF m
  <2>2. /\ Arrives(e, m) /\ Held' \in Nat /\ Held' + Brings(Head(net[e])) <= Held + Brings(m)
        /\ (OkSaid' => OkSaid)
    BY <2>0, <2>1, <1>2, <1>3, OneStep
  <2>3. Held' = 0
    BY <2>0, <2>2, <1>2, <1>7, FinishTaken
  <2>4. /\ \A n : Check(n)' => Check(n)
        /\ Asks' => Asks
        /\ \A p \in Pieces : (Sent(p)' => Sent(p)) /\ (Single(net[Slave], DataOf(p)) => Single(net'[Slave], DataOf(p)))
        /\ \A d \in End : \A n : Fin(d, n)' => Fin(d, n) \/ (n = 0 /\ d = Other(e))
    BY <2>0, <2>2 DEF Arrives
  <2>5. Drains /\ NoFlow'
    BY <1>3, <1>5, <2>4, DrainsBy, Drained
  <2>6. TokenInv' /\ Tok' = 0
    <3>1. Goes' = 0
      BY <1>3, <1>7, GoesNext
    <3>2. Held' + opening'[origin] + opening'[Slave] + Goes' = 0
      <4>1. opening'[origin] = 0 /\ opening'[Slave] = 0 /\ 0 + 0 + 0 + 0 = 0
        BY <1>7, <1>9
      <4> QED BY <4>1, <2>3, <3>1
    <3> QED BY <3>2, <1>3, TokenMoves
  <2>7. PlacedInv'
    BY <1>3, <1>9, <2>4, <2>5, PlacedStays DEF SendInv
  <2>8. CountInv'
    BY <1>3, CountStays DEF SendInv
  <2>9. FlowInv'
    <3>1. ~Asks'
      BY <2>3, <1>3, AfterTaken
    <3> QED BY <1>3, <1>9, <2>4, <2>5, <3>1, FlowStays DEF SendInv
  <2>10. InstallInv' /\ FileInv'
    BY <1>3 DEF InstallInv, FileInv
  <2>11. DirInv'
    <3>1. ~Fin(Slave, 1) /\ ~Fin(origin, 0) /\ ~closeNotify[origin] /\ \A d \in End : ~lastErrno[d]
      BY <1>7 DEF Unsaid
    <3>2. ~Fin(Slave, 1)' /\ ~Fin(origin, 0)' /\ ~Fin(origin, 1)'
      <4>1. Other(e) = Slave /\ (\A d \in End : ~Fin(d, 1)')
        BY <1>3, <1>4, <2>3, AfterTaken, XEnds
      <4> QED BY <4>1, <3>1, <1>1, <1>3, <2>4, FinNext
    <3>3. queue = 0 /\ Begun = NumFiles /\ Begun' = Begun
      <4>1. queue \in Nat /\ NumFiles \in Nat
        BY PlacedFacts
      <4>2. queue = 0
        BY <4>1, <1>9
      <4>3. Begun' = NumFiles - queue'
        BY <1>3, XSame
      <4> QED BY <4>1, <4>2, <4>3, <1>9 DEF Begun
    <3>4. \A g \in 1 .. NumFiles : Whole(g)
      <4>1. ASSUME NEW g \in 1 .. NumFiles PROVE Whole(g)
        <5>1. NumFiles \in Nat
          BY PlacedFacts
        <5>2. g \in 1 .. (NumFiles - 1) \/ g = NumFiles
          BY <5>1
        <5> QED BY <5>2, <1>5, <3>3
      <4> QED BY <4>1
    <3>5. \A g : Whole(g)' <=> Whole(g)
      BY <1>3, WholeStays
    <3>6. AllWhole'
      BY <1>3, <1>9, <2>6, <3>3, <3>4, <3>5, XSame DEF AllWhole
    <3>7. \A g \in 1 .. (Begun' - 1) : Whole(g)'
      BY <1>5, <3>3, <3>5
    <3>8. ~(closing'[Slave'] > 0)
      BY <1>3, <1>7, XSame
    <3> QED BY <1>3, <2>5, <3>1, <3>2, <3>6, <3>7, <3>8 DEF DirInv
  <2> QED BY <2>6, <2>7, <2>8, <2>9, <2>10, <2>11 DEF SendInv
<1> QED BY <1>4, <1>8, <1>9 DEF FileFinish

\* An end is told that a file is finished, and says so: of one file.
LEMMA DataFileFinish ==
    ASSUME SendBase, XBase', NEW e \in End, FileFinish(e), kind = "file"
    PROVE  TokenInv' /\ SendInv'
<1> USE XBaseFacts DEF SendBase
<1>1. Slave \in End /\ origin \in End /\ Slave # origin /\ \A b \in End : b = origin \/ b = Slave
  BY XEnds
<1>2. net[e] # <<>> /\ Head(net[e]) = Msg("FILE_FINISH", 1) /\ Fin(e, 1) /\ IsFile
  BY XFinished
<1> DEFINE m == Msg("FILE_FINISH", 0)
<1>3. UNCHANGED <<kind, origin, session, owed, size, queue, cur, fd, opening, closing, io, indexIO, closeNotify,
                  lastErrno, disk, async>>
      /\ Answer(e, {}, <<m>>)
  BY DEF FileFinish
<1>4. m \in XSays(Other(e)) /\ m.cmd = "FILE_FINISH" /\ m.n = 0 /\ m.cmd # "ECHO_OK" /\ Brings(m) = 0
  <2>1. m \in XferMsg /\ m.cmd = "FILE_FINISH" /\ m.n = 0
    BY XMessages DEF XCmds
  <2>2. m \notin TokenMsg
    BY <2>1 DEF TokenMsg
  <2> QED BY <2>1, <2>2, <1>2 DEF XSays, Brings
<1> HIDE DEF m
<1>5. Arrives(e, m) /\ Held \in Nat /\ Held' \in Nat /\ Held' <= Held + Brings(m) /\ (OkSaid' => OkSaid)
  BY <1>2, <1>3, <1>4, OneStep
<1>6. /\ \A n : Check(n)' => Check(n)
      /\ Asks' => Asks
      /\ \A p \in Pieces : (Sent(p)' => Sent(p)) /\ (Single(net[Slave], DataOf(p)) => Single(net'[Slave], DataOf(p)))
      /\ \A d \in End : \A n : Fin(d, n)' => Fin(d, n) \/ (n = 0 /\ d = Other(e))
  BY <1>4, <1>5 DEF Arrives
<1>7. Drains /\ (NoFlow => NoFlow')
  BY <1>3, <1>6, DrainsBy, Drained
<1>8. Held' <= Held
  BY <1>4, <1>5
<1>9. Tok' <= Tok /\ Tok \in Nat /\ Tok' \in Nat
  BY <1>3, <1>8, TokenKept
<1>10. TokenInv'
  BY <1>3, <1>7, <1>9, TokenStays
<1>11. PlacedInv'
  BY <1>3, <1>6, <1>7, PlacedStays DEF SendInv
<1>12. CountInv'
  BY <1>3, CountStays DEF SendInv
<1>13. FlowInv'
  BY <1>3, <1>6, <1>7, FlowStays DEF SendInv
<1>14. DirInv' /\ InstallInv'
  BY <1>3 DEF DirInv, InstallInv
<1>15. FileInv'
  <2>5. /\ (Fin(origin, 1) \/ Fin(Slave, 0) \/ closing[Slave] > 0)
           => Tok = 0 /\ cur[Slave] = 1 /\ fd[Slave] = 1
        /\ closeNotify[origin] => Tok = 0 /\ io[origin] = <<>> /\ cur[origin] = 1 /\ queue = 0 /\ SmallRead
        /\ (Fin(Slave, 1) \/ Fin(origin, 0)) => closeNotify[origin]
        /\ OkSaid => AllWhole
    BY DEF SendInv, FileInv
  <2>6. /\ Fin(origin, 1)' => Fin(origin, 1)
        /\ Fin(Slave, 1)' => Fin(Slave, 1)
        /\ Fin(origin, 0)' => Fin(origin, 0) \/ Fin(Slave, 1)
        /\ Fin(Slave, 0)' => Fin(Slave, 0) \/ Fin(origin, 1)
    <3>1. /\ \A n : Fin(origin, n)' => Fin(origin, n) \/ (n = 0 /\ origin = Other(e))
          /\ \A n : Fin(Slave, n)' => Fin(Slave, n) \/ (n = 0 /\ Slave = Other(e))
      <4>1. UNCHANGED <<kind, origin>>
        BY <1>3
      <4> QED BY <4>1, <1>1, <1>6, FinNext
    <3>2. /\ origin = Other(e) => e = Slave
          /\ Slave = Other(e) => e = origin
      BY <1>1, XEnds
    <3>3. 1 # 0
      OBVIOUS
    <3> QED BY <3>1, <3>2, <3>3, <1>2
  <2>8. Tok = 0 => Tok' = 0
    BY <1>9
  <2>9. (Fin(origin, 1)' \/ Fin(Slave, 0)' \/ closing'[Slave'] > 0)
           => Tok' = 0 /\ cur'[Slave'] = 1 /\ fd'[Slave'] = 1
    BY <2>5, <2>6, <2>8, <1>3, XSame
  <2>10. closeNotify'[origin'] => Tok' = 0 /\ io'[origin'] = <<>> /\ cur'[origin'] = 1 /\ queue' = 0 /\ SmallRead'
    <3>1. SmallRead => SmallRead'
      BY <1>3 DEF SmallRead
    <3> QED BY <3>1, <2>5, <2>8, <1>3
  <2>11. (Fin(Slave, 1)' \/ Fin(origin, 0)') => closeNotify'[origin']
    BY <2>5, <2>6, <1>3
  <2>12. OkSaid' => AllWhole'
    <3>1. \A g : Whole(g)' <=> Whole(g)
      BY <1>3, WholeStays
    <3> QED BY <3>1, <2>5, <2>8, <1>3, <1>5, XSame DEF AllWhole
  <2> QED BY <2>9, <2>10, <2>11, <2>12 DEF FileInv
<1> QED BY <1>10, <1>11, <1>12, <1>13, <1>14, <1>15 DEF SendInv

\* An end is told that a file is finished.
LEMMA DataFinish ==
    ASSUME SendBase, XBase', NEW e \in End, FileFinish(e)
    PROVE  TokenInv' /\ SendInv'
<1>1. XBase
  BY DEF SendBase
<1>2. kind = "dir" \/ kind = "file"
  BY <1>1, XFinished DEF IsFile
<1> QED BY <1>2, DataDirFinish, DataFileFinish

\* All is there when the end that was told counts and finds it so.
LEMMA CountedWhole ==
    ASSUME SendBase, NEW e \in End, kind = "file", Fin(e, 0), Written(e, indexIO[e])
    PROVE  AllWhole
<1> USE XBaseFacts DEF SendBase
<1>1. Slave \in End /\ origin \in End /\ \A b \in End : b = origin \/ b = Slave
  BY XEnds
<1>2. NumFiles = 1 /\ 1 \in File /\ queue \in 0 .. 1
  <2>1. NumFiles = 1 /\ 1 .. NumFiles \subseteq File
    BY XEnds
  <2> QED BY <2>1 DEF XTypes
<1>3. size[1] \in Nat /\ \A d \in End : cur[d] = 1 => FileSize(d) = size[1]
  <2>1. size[1] \in Nat
    BY <1>2, XSizes
  <2>2. 1 # 0
    OBVIOUS
  <2>3. \A d \in End : cur[d] # 0 => FileSize(d) = size[cur[d]]
    BY XSizes
  <2> QED BY <2>1, <2>2, <2>3
<1>4. CASE e = Slave
  <2>1. Tok = 0 /\ cur[Slave] = 1 /\ fd[Slave] = 1
    BY <1>4 DEF SendInv, FileInv
  <2>2. indexIO[Slave] = Cardinality(Got(1)) /\ \A i \in Got(1) : i < size[1]
    BY <2>1 DEF SendInv, CountInv
  <2>3. Cardinality(Got(1)) >= size[1]
    BY <2>1, <2>2, <1>1, <1>3, <1>4 DEF Written
  <2>4. Got(1) \subseteq 0 .. (size[1] - 1)
    BY <2>2, <1>3, Largest DEF Got
  <2>5. Got(1) = 0 .. (size[1] - 1)
    BY <2>3, <2>4, <1>3, AllBelow
  <2>6. Whole(1)
    BY <2>5 DEF Whole, Got
  <2>7. queue = 0
    <3>1. cur[Slave] <= Begun
      BY PlacedFacts
    <3> QED BY <3>1, <2>1, <1>2 DEF Begun
  <2>8. \A g \in 1 .. NumFiles : g = 1
    BY <1>2
  <2> QED BY <2>1, <2>6, <2>7, <2>8 DEF AllWhole
<1>5. CASE e = origin
  <2>1. Tok = 0 /\ cur[origin] = 1 /\ queue = 0 /\ SmallRead
    BY <1>5 DEF SendInv, FileInv
  <2>2. indexIO[origin] >= size[1]
    BY <2>1, <1>1, <1>3, <1>5 DEF Written
  <2>3. indexIO[origin] \in Nat
    <3>1. indexIO[origin] \in 0 .. MaxSize /\ MaxSize \in Nat
      BY <1>1, Largest DEF XTypes
    <3> QED BY <3>1
  <2>4. size[1] = 0
    BY <2>1, <2>2, <2>3, <1>3 DEF SmallRead
  <2>5. Whole(1)
    BY <2>4 DEF Whole
  <2>6. \A g \in 1 .. NumFiles : g = 1
    BY <1>2
  <2> QED BY <2>1, <2>5, <2>6 DEF AllWhole
<1> QED BY <1>1, <1>4, <1>5

\* An end is told that all is over.
LEMMA DataSummary ==
    ASSUME SendBase, XBase', NEW e \in End, FileSummary(e)
    PROVE  TokenInv' /\ SendInv'
<1> USE XBaseFacts DEF SendBase
<1>1. net[e] # <<>> /\ Fin(e, 0) /\ IsFile
  BY XSummary
<1>2. UNCHANGED <<kind, origin, session, owed, xferVars>>
  BY DEF FileSummary
<1>3. PICK lv : lv = IF Written(e, indexIO[e]) THEN "ok" ELSE "fail"
  OBVIOUS
<1>4. Answer(e, {lv}, Log(e, lv) \o Finish)
  BY <1>3 DEF FileSummary
<1>5. Mute(Log(e, lv) \o Finish)
  BY MuteSends
<1>6. Stays /\ Held' <= Held /\ ("ok" \notin {lv} /\ ~In(Log(e, lv) \o Finish, Ok) => (OkSaid' => OkSaid))
  BY <1>1, <1>2, <1>4, <1>5, MuteStep
<1>7. IsFile /\ OkSaid' => OkSaid \/ (AllWhole /\ (kind = "dir" => NoFlow))
  <2>1. CASE kind = "dir"
    <3>1. ~Fin(origin, 0) /\ (Fin(Slave, 0) => AllWhole /\ NoFlow)
      BY <2>1 DEF SendInv, DirInv
    <3> QED BY <3>1, <1>1, XEnds
  <2>2. CASE kind = "file" /\ Written(e, indexIO[e])
    BY <2>2, <1>1, CountedWhole
  <2>3. CASE kind = "file" /\ ~Written(e, indexIO[e])
    <3>1. lv = "fail"
      BY <2>3, <1>3
    <3>2. ~In(Log(e, "fail") \o Finish, Ok)
      BY HushedSends DEF Hushed
    <3> QED BY <3>1, <3>2, <1>6
  <2> QED BY <2>1, <2>2, <2>3, <1>1 DEF IsFile
<1> QED BY <1>2, <1>6, <1>7, XFrame

-----------------------------------------------------------------------------
(* Packages: installed, and deleted.                                       *)

\* A command that sends no file has no piece under way.
LEMMA NoFileNoFlow == ASSUME XBase, ~Sending PROVE NoFlow
<1> USE XBaseFacts
<1>1. Slave \in End /\ origin \in End
  BY XEnds
<1>2. io[origin] = <<>> /\ io[Slave] = <<>>
  BY <1>1 DEF XTypes
<1>3. ASSUME NEW p \in Pieces, Sent(p) PROVE FALSE
  <2>1. DataOf(p).cmd = "X_DATA"
    BY XMessages DEF DataOf
  <2>2. DataOf(p) \in XSays(Slave)
    BY <1>1, <1>3 DEF Sent
  <2> QED BY <2>1, <2>2 DEF XSays
<1> QED BY <1>2, <1>3 DEF NoFlow

\* The package manager of the daemon is done.
LEMMA DataInstalled ==
    ASSUME XBase, XBase', TokenInv, AsyncInstallFinish
    PROVE  TokenInv' /\ (Sending /\ SendInv => SendInv')
<1> USE XBaseFacts
<1>1. Slave \in End /\ origin \in End /\ Slave # origin /\ \A b \in End : b = origin \/ b = Slave
  BY XEnds
<1>2. kind \in {"install", "uninstall"}
  BY XInstalls
<1> DEFINE m == Msg("APP_FINISH", 0)
<1>3. UNCHANGED <<kind, origin, session, owed, size, queue, cur, fd, opening, closing, io, indexIO,
                  ioFinish, closeNotify, lastErrno, disk>>
      /\ async > 0 /\ async' = async - 1 /\ Emit("daemon", {}, <<m>>)
  BY DEF AsyncInstallFinish, ctxVars
<1>4. m \in XSays(Other("daemon")) /\ m.cmd = "APP_FINISH" /\ m.cmd # "ECHO_OK" /\ Brings(m) \in 0 .. 1
  <2>1. m \in XferMsg /\ m.cmd = "APP_FINISH" /\ m.n = 0
    BY XMessages DEF XCmds
  <2> QED BY <2>1, <1>2 DEF XSays, Brings, Other
<1> HIDE DEF m
<1>5. "daemon" \in End
  BY DEF End
<1>6. Arrives("daemon", m) /\ Held \in Nat /\ Held' \in Nat /\ Held' <= Held + Brings(m)
  BY <1>3, <1>4, <1>5, OneStep
<1>7. /\ \A n : Check(n)' => Check(n)
      /\ Asks' => Asks
      /\ \A p \in Pieces : (Sent(p)' => Sent(p)) /\ (Single(net[Slave], DataOf(p)) => Single(net'[Slave], DataOf(p)))
  BY <1>4, <1>6 DEF Arrives
<1>8. PICK c \in Nat, o \in Nat :
         /\ Goes = c + async + o /\ o = owed["daemon"]
         /\ kind = "uninstall" => c = 0
         /\ kind = "install" => c = IF lastErrno[Slave] THEN 0 ELSE closing[Slave]
  <2>1. /\ closing[Slave] \in Nat /\ async \in Nat /\ owed["daemon"] \in Nat
        /\ kind = "install" => Goes = (IF lastErrno[Slave] THEN 0 ELSE closing[Slave]) + async + owed["daemon"]
        /\ kind = "uninstall" => Goes = async + owed["daemon"]
    BY TokCounted DEF TokFacts
  <2>2. PICK c : c = IF kind = "install" /\ ~lastErrno[Slave] THEN closing[Slave] ELSE 0
    OBVIOUS
  <2>3. \A a, b \in Nat : a + b = 0 + a + b
    OBVIOUS
  <2>4. kind = "uninstall" => Goes = 0 + async + owed["daemon"]
    BY <2>1, <2>3
  <2>5. Goes = c + async + owed["daemon"] /\ c \in Nat
    <3>1. CASE kind = "install"
      BY <2>1, <2>2, <3>1
    <3>2. CASE kind = "uninstall"
      BY <2>1, <2>2, <2>4, <3>2
    <3> QED BY <1>2, <3>1, <3>2
  <2> QED BY <2>1, <2>2, <2>5
<1>9. Goes > 0
  BY <1>3, <1>8
<1>10. /\ Tok = 1 /\ NoFlow /\ Held + opening[origin] + opening[Slave] + Goes = 1
       /\ kind = "install" => ~lastErrno[Slave]
  BY <1>9, TokenOne
<1>11. Held = 0 /\ opening[origin] = 0 /\ opening[Slave] = 0 /\ Goes = 1
  <2>1. /\ Held \in Nat /\ Goes \in Nat /\ opening[origin] \in Nat /\ opening[Slave] \in Nat
    BY TokCounted DEF TokFacts
  <2> QED BY <2>1, <1>9, <1>10
<1>12. c = 0 /\ o = 0 /\ async' = 0
  <2>1. async \in Nat /\ c + async + o = 1
    BY <1>8, <1>11
  <2> QED BY <2>1, <1>3
<1>13. Goes' = 0
  <2>1. owed'["daemon"] = 0 /\ closing'[Slave] = closing[Slave] /\ lastErrno'[Slave] = lastErrno[Slave]
    BY <1>3, <1>8, <1>12
  <2>2. kind = "install" => Goes' = 0 + 0 + 0
    <3>1. kind = "install" => Goes' = (IF lastErrno[Slave] THEN 0 ELSE closing[Slave]) + 0 + 0
      BY <2>1, <1>3, <1>12, GoesNext DEF GoesThen
    <3> QED BY <3>1, <1>8, <1>12
  <2>3. kind = "uninstall" => Goes' = 0 + 0
    BY <2>1, <1>3, <1>12, GoesNext DEF GoesThen
  <2> QED BY <2>2, <2>3, <1>2
<1>14. Drains /\ NoFlow'
  BY <1>3, <1>7, <1>10, DrainsBy, Drained
<1>15. TokenInv'
  <2>1. Held' <= 1 /\ opening'[origin] = 0 /\ opening'[Slave] = 0
    BY <1>3, <1>4, <1>6, <1>11
  <2>2. Held' + opening'[origin] + opening'[Slave] + Goes' = Held'
    BY <2>1, <1>6, <1>13, Alone
  <2> QED BY <2>1, <2>2, <1>3, <1>10, <1>14, TokenMoves
<1>16. ASSUME Sending, SendInv PROVE SendInv'
  <2>1. kind = "install"
    BY <1>2, <1>16 DEF Sending
  <2>2. PlacedInv'
    BY <1>3, <1>7, <1>10, <1>14, <1>16, PlacedStays DEF SendInv
  <2>3. CountInv'
    BY <1>3, <1>16, CountStays DEF SendInv
  <2>4. FlowInv'
    BY <1>3, <1>7, <1>14, <1>16, FlowStays DEF SendInv
  <2>5. InstallInv'
    <3>1. async' > 0 => async > 0
      BY <1>3
    <3> QED BY <3>1, <1>3, <1>16, InstallStays DEF SendInv
  <2>6. DirInv' /\ FileInv'
    BY <2>1, <1>3 DEF DirInv, FileInv
  <2> QED BY <2>2, <2>3, <2>4, <2>5, <2>6 DEF SendInv
<1> QED BY <1>15, <1>16

\* The server learns that a package was installed.
LEMMA DataNextApp ==
    ASSUME XBase, XBase', TokenInv, AppFinish
    PROVE  TokenInv' /\ (Sending /\ SendInv => SendInv')
<1> USE XBaseFacts
<1>1. kind \in {"install", "uninstall"} /\ net["host"] # <<>> /\ Head(net["host"]).cmd = "APP_FINISH"
      /\ Head(net["host"]) \in XferMsg /\ "host" \in End
  BY XNextApp DEF End
<1>2. UNCHANGED <<kind, origin, session, owed, size, cur, fd, closing, io, indexIO, ioFinish, closeNotify,
                  lastErrno, disk, async>>
  BY DEF AppFinish
<1>3. Brings(Head(net["host"])) = 1
  BY <1>1 DEF Brings, TokenMsg
<1>4. CASE kind # "uninstall" /\ queue > 0 /\ OpenNext("host") /\ Answer("host", {}, <<>>)
  <2>1. Stays /\ Held \in Nat /\ Held' \in Nat /\ Held' + Brings(Head(net["host"])) <= Held /\ (OkSaid' => OkSaid)
    BY <1>1, <1>2, <1>4, HushedSends, MuteStep DEF Hushed
  <2>2. Held >= 1 /\ origin = "host" /\ kind = "install" /\ Sending
    BY <1>1, <1>3, <1>4, <2>1 DEF XTypes, Sending
  <2>3. Tok = 1 /\ NoFlow /\ Held + opening[origin] + opening[Slave] + Goes = 1 /\ ~lastErrno[Slave]
    BY <2>2, TokenOne
  <2>4. Held = 1 /\ opening[origin] = 0 /\ opening[Slave] = 0 /\ Goes = 0
    <3>1. /\ Held \in Nat /\ Goes \in Nat /\ opening[origin] \in Nat /\ opening[Slave] \in Nat
      BY TokCounted DEF TokFacts
    <3> QED BY <3>1, <2>2, <2>3
  <2>5. Held' = 0
    BY <2>1, <2>4, <1>3
  <2>6. TokenInv'
    <3>1. opening'[origin] = 1 /\ opening'[Slave] = 0
      BY <2>2, <2>4, <1>4, XEnds DEF OpenNext
    <3>2. Goes' = 0
      BY <1>2, <2>4, GoesNext
    <3>3. Held' + opening'[origin] + opening'[Slave] + Goes' = 1
      BY <2>5, <3>1, <3>2
    <3>4. NoFlow'
      BY <1>2, <2>1, <2>3, DrainsBy, Drained DEF Stays
    <3> QED BY <3>3, <3>4, <1>2, <2>3, TokenMoves
  <2>7. ASSUME SendInv PROVE SendInv'
    <3>1. SendBase
      BY <2>2, <2>7 DEF SendBase, Careful
    <3>2. OpenNext(origin) /\ queue > 0
      BY <1>4, <2>2
    <3>3. /\ kind = "dir" => Begun >= 1 /\ Whole(Begun)
          /\ kind \in {"dir", "install"}
      BY <2>2
    <3> QED BY <1>2, <2>1, <2>2, <2>5, <3>1, <3>2, <3>3, DataOpensNext
  <2> QED BY <2>6, <2>7
<1>5. CASE Answer("host", {"ok"}, Finish) /\ UNCHANGED <<queue, opening>>
  <2>1. Stays /\ Held' <= Held
    BY <1>1, <1>2, <1>5, MuteSends, MuteStep
  <2>2. UNCHANGED <<kind, origin, owed, xferVars>>
    BY <1>2, <1>5 DEF xferVars, ctxVars
  <2>3. ~IsFile
    BY <1>1 DEF IsFile
  <2> QED BY <2>1, <2>2, <2>3, XFrame
<1> QED BY <1>4, <1>5 DEF AppFinish

\* A package is to be deleted.
LEMMA DataUninstalls ==
    ASSUME XBase, XBase', TokenInv, BeginUninstall
    PROVE  TokenInv'
<1> USE XBaseFacts
<1>1. /\ Fresh /\ kind = "uninstall" /\ net["host"] # <<>> /\ Answer("host", {}, <<Wakeup, Uninstall0>>)
      /\ "host" \in End
  BY XUninstalls DEF End
<1>2. UNCHANGED <<kind, origin, session, owed, xferVars>>
  BY DEF BeginUninstall
<1>3. UNCHANGED <<opening, closing, async, lastErrno>>
  BY <1>2 DEF xferVars, ctxVars
<1>4. /\ Held = 0 /\ async = 0 /\ owed["daemon"] = 0 /\ \A d \in End : opening[d] = 0
  BY <1>1, FreshFacts
<1>5. Held' <= 1 /\ Held' \in Nat
  <2>1. PICK out : out = <<Wakeup, Uninstall0>>
    OBVIOUS
  <2>2. Rests("host", Tail(net["host"])) /\ Passes("host", Tail(net["host"]), out)
    BY <2>1, <1>1, <1>2, PassBy
  <2>3. Wakeup \in MuteMsg /\ Wakeup.cmd = "WAKEUP" /\ Uninstall0 \in XferMsg /\ Uninstall0.cmd = "APP_UNINSTALL"
    BY XMessages DEF MuteMsg, Wakeup, Uninstall0, XCmds
  <2>4. Wakeup # Ok
    BY <2>3, XMessages DEF Ok, EchoOf
  <2>5. \A y : In(out, y) => y = Uninstall0 \/ (y \in MuteMsg /\ y # Ok)
    BY <2>1, <2>3, <2>4, Few
  <2>6. Uninstall0 \in TokenMsg /\ Wakeup \notin TokenMsg
    BY <2>3 DEF TokenMsg
  <2>7. Count(out, TokenMsg) <= Brings(Uninstall0) /\ Brings(Uninstall0) = 1
    <3>1. Count(out, TokenMsg) = 0 + 1
      BY <2>1, <2>6, CountTwo
    <3>2. Brings(Uninstall0) = 1
      BY <2>6 DEF Brings
    <3> QED BY <3>1, <3>2
  <2>8. out \in Seq(XferMsg)
    BY <2>1, <2>3 DEF MuteMsg
  <2>9. Uninstall0.cmd = "X_DATA" => Single(out, Uninstall0)
    BY <2>3
  <2>10. Held' \in Nat /\ Held' <= Held + Brings(Uninstall0)
    BY <1>1, <1>2, <2>2, <2>5, <2>7, <2>8, <2>9, Arrival
  <2> QED BY <2>7, <2>10, <1>4
<1>6. Slave \in End /\ origin \in End
  BY XEnds
<1>7. Goes' = 0
  <2>1. async' = 0 /\ owed'["daemon"] = 0
    BY <1>2, <1>3, <1>4
  <2> QED BY <2>1, <1>1, <1>2, GoesNext DEF GoesThen
<1>8. Held' + opening'[origin] + opening'[Slave] + Goes' = Held'
  <2>1. opening'[origin] = 0 /\ opening'[Slave] = 0
    BY <1>3, <1>4, <1>6
  <2> QED BY <2>1, <1>5, <1>7, Alone
<1>9. NoFlow'
  <2>1. (~Sending)'
    BY <1>1, <1>2 DEF Sending
  <2> QED BY <2>1, NoFileNoFlow, PTL
<1> QED BY <1>1, <1>2, <1>5, <1>8, <1>9, TokenMoves

\* The daemon is told to delete it.
LEMMA DataUninstalled ==
    ASSUME XBase, XBase', TokenInv, DaemonUninstall
    PROVE  TokenInv'
<1> USE XBaseFacts
<1>1. /\ kind = "uninstall" /\ net["daemon"] # <<>> /\ Head(net["daemon"]).cmd = "APP_UNINSTALL"
      /\ Head(net["daemon"]) \in XferMsg /\ "daemon" \in End
  BY XUninstalled DEF End
<1>2. /\ UNCHANGED <<kind, origin, session, opening, closing, lastErrno>>
      /\ Answer("daemon", {}, <<Wakeup>>)
      /\ \/ async' = async + 1 /\ UNCHANGED owed
         \/ Owe("daemon", 1) /\ UNCHANGED async
  BY DEF DaemonUninstall, PackageShell, ctxVars
<1>3. Brings(Head(net["daemon"])) = 1
  BY <1>1 DEF Brings, TokenMsg
<1>4. Held \in Nat /\ Held' \in Nat /\ Held' + Brings(Head(net["daemon"])) <= Held
  BY <1>1, <1>2, HushedSends, MuteStep DEF Hushed
<1>5. Held >= 1
  BY <1>3, <1>4
<1>6. Tok = 1 /\ Held + opening[origin] + opening[Slave] + Goes = 1
  BY <1>5, TokenOne
<1>7. /\ Held = 1 /\ opening[origin] = 0 /\ opening[Slave] = 0 /\ Goes = 0
      /\ async \in Nat /\ owed["daemon"] \in Nat /\ Goes = async + owed["daemon"]
  <2>1. /\ Held \in Nat /\ Goes \in Nat /\ opening[origin] \in Nat /\ opening[Slave] \in Nat
        /\ async \in Nat /\ owed["daemon"] \in Nat /\ (kind = "uninstall" => Goes = async + owed["daemon"])
    BY TokCounted DEF TokFacts
  <2>2. \A h, a, b, g \in Nat : h >= 1 /\ h + a + b + g = 1 => h = 1 /\ a = 0 /\ b = 0 /\ g = 0
    OBVIOUS
  <2>3. Held = 1 /\ opening[origin] = 0 /\ opening[Slave] = 0 /\ Goes = 0
    BY ONLY <2>1, <2>2, <1>5, <1>6
  <2> QED BY <2>1, <2>3, <1>1
<1>8. async = 0 /\ owed["daemon"] = 0
  <2>1. \A a, b \in Nat : a + b = 0 => a = 0 /\ b = 0
    OBVIOUS
  <2> QED BY <2>1, <1>7
<1>9. Goes' = 1
  <2>1. Goes' = async' + owed'["daemon"]
    BY <1>1, <1>2, GoesNext DEF GoesThen
  <2>2. CASE async' = async + 1 /\ UNCHANGED owed
    BY <2>1, <2>2, <1>8
  <2>3. CASE Owe("daemon", 1) /\ UNCHANGED async
    <3>1. owed'["daemon"] = owed["daemon"] + 1
      BY <2>3, <1>1 DEF Owe
    <3> QED BY <2>1, <2>3, <3>1, <1>8
  <2> QED BY <2>2, <2>3, <1>2
<1>10. Held' = 0
  BY <1>3, <1>4, <1>7
<1>11. Held' + opening'[origin] + opening'[Slave] + Goes' = 1
  <2>1. opening'[origin] = 0 /\ opening'[Slave] = 0 /\ 0 + 0 + 0 + 1 = 1
    BY <1>2, <1>7
  <2> QED BY <2>1, <1>9, <1>10
<1>12. NoFlow'
  <2>1. (~Sending)'
    BY <1>1, <1>2 DEF Sending
  <2> QED BY <2>1, NoFileNoFlow, PTL
<1> QED BY <1>1, <1>2, <1>11, <1>12, TokenMoves

-----------------------------------------------------------------------------
(* Every step of a transfer; and what follows for what is said.            *)

\* Every step of a transfer keeps what holds whatever fails.
LEMMA XStepKept ==
    ASSUME XBase, NEW e \in End, XferReceive(e) \/ XferCallBack(e)
    PROVE  XKept
<1>1. CASE XferReceive(e)
  <2>1. CASE BeginTransfer(e) BY <2>1, XBegin
  <2>2. CASE SlaveCheckFile(e) BY <2>2, XChecks
  <2>3. CASE MasterBegin(e) BY <2>3, XBegins
  <2>4. CASE SlaveData(e) BY <2>4, XPieces
  <2>5. CASE FileFinish(e) BY <2>5, XFinished
  <2>6. CASE FileSummary(e) BY <2>6, XSummary
  <2>7. CASE AppFinish BY <2>7, XNextApp
  <2>8. CASE BeginUninstall BY <2>8, XUninstalls
  <2>9. CASE DaemonUninstall BY <2>9, XUninstalled
  <2> QED BY <1>1, <2>1, <2>2, <2>3, <2>4, <2>5, <2>6, <2>7, <2>8, <2>9 DEF XferReceive
<1>2. CASE XferCallBack(e)
  <2>1. CASE OnFileOpen(e) BY <2>1, XOpens
  <2>2. CASE OnFileClose(e) BY <2>2, XCloses
  <2>3. CASE AsyncInstallFinish BY <2>3, XInstalls
  <2>4. ASSUME NEW j \in DOMAIN io[e], OnFileIOEnds(e, j) PROVE XKept BY <2>4, XIOEnds
  <2>5. ASSUME NEW j \in DOMAIN io[e], OnFileRead(e, j) PROVE XKept
    <3>1. PICK x : x = XKept
      OBVIOUS
    <3> QED BY <2>5, XRead
  <2>6. ASSUME NEW j \in DOMAIN io[e], OnFileWrite(e, j) PROVE XKept BY <2>6, XWrite
  <2> QED BY <1>2, <2>1, <2>2, <2>3, <2>4, <2>5, <2>6 DEF XferCallBack
<1> QED BY <1>1, <1>2

\* Every step of a transfer of files keeps the rest.
LEMMA SendStep ==
    ASSUME SendBase, XBase', NEW e \in End, XferReceive(e) \/ XferCallBack(e)
    PROVE  TokenInv' /\ SendInv'
<1>0. XBase /\ TokenInv /\ SendInv /\ Sending
  BY DEF SendBase
<1>1. CASE XferReceive(e)
  <2>1. CASE BeginTransfer(e) BY <2>1, DataBegin
  <2>2. CASE SlaveCheckFile(e) BY <2>2, DataChecks
  <2>3. CASE MasterBegin(e) BY <2>3, DataBegins
  <2>4. CASE SlaveData(e) BY <2>4, DataPieces
  <2>5. CASE FileFinish(e) BY <2>5, DataFinish
  <2>6. CASE FileSummary(e) BY <2>6, DataSummary
  <2>7. CASE AppFinish BY <1>0, <2>7, DataNextApp
  <2>8. CASE BeginUninstall BY <1>0, <2>8 DEF BeginUninstall, Sending
  <2>9. CASE DaemonUninstall BY <1>0, <2>9, XUninstalled DEF Sending
  <2> QED BY <1>1, <2>1, <2>2, <2>3, <2>4, <2>5, <2>6, <2>7, <2>8, <2>9 DEF XferReceive
<1>2. CASE XferCallBack(e)
  <2>e. e = origin \/ e = Slave
    BY <1>0, XBaseFacts, XEnds
  <2>1. CASE OnFileOpen(e) BY <2>1, <2>e, DataOpensMaster, DataOpensSlave
  <2>2. CASE OnFileClose(e) BY <2>2, DataCloses
  <2>3. CASE AsyncInstallFinish BY <1>0, <2>3, DataInstalled
  <2>4. ASSUME NEW j \in DOMAIN io[e], OnFileIOEnds(e, j) PROVE TokenInv' /\ SendInv'
    <3>1. CASE e = origin BY <2>4, <3>1, DataEndsMaster
    <3>2. CASE e = Slave BY <2>4, <3>2, DataEndsSlave
    <3> QED BY <2>e, <3>1, <3>2
  <2>5. ASSUME NEW j \in DOMAIN io[e], OnFileRead(e, j) PROVE TokenInv' /\ SendInv' BY <2>5, DataRead
  <2>6. ASSUME NEW j \in DOMAIN io[e], OnFileWrite(e, j) PROVE TokenInv' /\ SendInv' BY <2>6, DataWrite
  <2> QED BY <1>2, <2>1, <2>2, <2>3, <2>4, <2>5, <2>6 DEF XferCallBack
<1> QED BY <1>1, <1>2

\* Every step of an uninstallation keeps what is to be kept of it.
LEMMA UninstallStep ==
    ASSUME XBase, XBase', TokenInv, ~Sending, NEW e \in End, XferReceive(e) \/ XferCallBack(e)
    PROVE  TokenInv'
<1>1. CASE XferReceive(e)
  <2>1. CASE BeginTransfer(e) BY <2>1, XBegin
  <2>2. CASE SlaveCheckFile(e) BY <2>2, XChecks
  <2>3. CASE MasterBegin(e) BY <2>3, XBegins
  <2>4. CASE SlaveData(e) BY <2>4, XPieces
  <2>5. CASE FileFinish(e) BY <2>5, XFinished
  <2>6. CASE FileSummary(e) BY <2>6, XSummary
  <2>7. CASE AppFinish BY <2>7, DataNextApp
  <2>8. CASE BeginUninstall BY <2>8, DataUninstalls
  <2>9. CASE DaemonUninstall BY <2>9, DataUninstalled
  <2> QED BY <1>1, <2>1, <2>2, <2>3, <2>4, <2>5, <2>6, <2>7, <2>8, <2>9 DEF XferReceive
<1>2. CASE XferCallBack(e)
  <2>1. CASE OnFileOpen(e) BY <2>1, XOpens
  <2>2. CASE OnFileClose(e) BY <2>2, XCloses
  <2>3. CASE AsyncInstallFinish BY <2>3, DataInstalled
  <2>4. ASSUME NEW j \in DOMAIN io[e], OnFileIOEnds(e, j) PROVE FALSE BY <2>4, XIOEnds
  <2>5. ASSUME NEW j \in DOMAIN io[e], OnFileRead(e, j) PROVE FALSE BY <2>5, XRead
  <2>6. ASSUME NEW j \in DOMAIN io[e], OnFileWrite(e, j) PROVE FALSE BY <2>6, XWrite
  <2> QED BY <1>2, <2>1, <2>2, <2>3, <2>4, <2>5, <2>6 DEF XferCallBack
<1> QED BY <1>1, <1>2

\* Every step keeps the invariant of the transfers.
LEMMA XDataStep ==
    ASSUME IsTransfer, IInv, TaskTypes, XferData, IInv', TaskTypes',
           (\E e \in End : XferReceive(e) \/ XferCallBack(e)) \/ CommonStep \/ UNCHANGED vars
    PROVE  XferData' /\ UNCHANGED <<kind, origin>>
<1>1. XBase
  BY DEF XBase, XferData
<1>2. XKept
  BY <1>1, XStepKept, XCommon
<1>3. UNCHANGED <<kind, origin>> /\ XTypes' /\ XNet' /\ FreshInv'
  BY <1>2 DEF XKept
<1>4. IsTransfer'
  BY <1>3 DEF IsTransfer
<1>5. XBase'
  BY <1>3, <1>4 DEF XBase
<1>6. (Sending' <=> Sending) /\ (Careful' <=> Careful)
  BY <1>3, XSame
<1>7. ASSUME Careful PROVE TokenInv' /\ (Sending => SendInv')
  <2>1. TokenInv /\ (Sending => SendInv)
    BY <1>7 DEF XferData
  <2>2. CASE CommonStep \/ UNCHANGED vars
    BY <1>1, <1>5, <2>1, <2>2, XCommonData
  <2>3. ASSUME NEW e \in End, XferReceive(e) \/ XferCallBack(e) PROVE TokenInv' /\ (Sending => SendInv')
    <3>1. CASE Sending
      <4>1. SendBase
        BY <1>1, <1>7, <2>1, <3>1 DEF SendBase
      <4> QED BY <4>1, <1>5, <2>3, SendStep
    <3>2. CASE ~Sending
      BY <1>1, <1>5, <2>1, <2>3, <3>2, UninstallStep
    <3> QED BY <3>1, <3>2
  <2> QED BY <2>2, <2>3
<1> QED BY <1>3, <1>6, <1>7 DEF XferData

\* The queues and the variables of a transfer that has not begun.
LEMMA XStart ==
    ASSUME Init, IsTransfer
    PROVE  /\ origin \in End /\ Slave \in End /\ owed = Both(0) /\ told = {}
           /\ (kind \in {"install", "sideload", "uninstall"} => origin = "host")
           /\ net = [d \in End |-> IF d = origin THEN <<Init0>> ELSE <<>>]
           /\ Init0 \in XferMsg
           /\ \A d \in End : \A m : In(net[d], m) => d = origin /\ m = Init0
<1>1. origin \in End
  BY InitInv DEF IInv, BaseTypes
<1>2. Slave \in End
  BY <1>1, XEnds
<1>3. net = [d \in End |-> IF d = origin THEN <<Init0>> ELSE <<>>] /\ owed = Both(0) /\ told = {}
  <2>1. (CASE IsForward -> "FWD_INIT" [] IsTransfer -> "X_INIT" [] OTHER -> ShFirst) = "X_INIT"
    BY FwdMeaning
  <2>2. TaskInit("X_INIT")
    BY <2>1 DEF Init
  <2> QED BY <2>2 DEF TaskInit, Init0
<1>4. kind \in {"install", "sideload", "uninstall"} => origin = "host"
  BY DEF Init
<1>5. Init0 \in XferMsg
  BY XMessages DEF Init0, XCmds
<1>6. ASSUME NEW d \in End, NEW m, In(net[d], m) PROVE d = origin /\ m = Init0
  <2>1. ~In(<<>>, m) /\ (In(<<Init0>>, m) <=> Init0 = m)
    BY Few, Emptied
  <2> QED BY <2>1, <1>3, <1>6
<1> QED BY <1>1, <1>2, <1>3, <1>4, <1>5, <1>6

\* The types hold at the beginning.
LEMMA XInitTypes ==
    ASSUME Init, IsTransfer
    PROVE  XTypes
<1> USE XStart
<1>1. XferInit
  BY DEF Init
<1>2. /\ NumFiles \in Nat /\ NFiles \in Nat /\ NFiles >= 1 /\ MaxSize \in Nat
  BY XEnds, Largest
<1>3. /\ size \in [File -> Sizes \cup {0}] /\ queue = NumFiles
      /\ cur = Both(0) /\ fd = Both(0) /\ opening = Both(0) /\ closing = Both(0)
      /\ io = Both(<<>>) /\ indexIO = Both(0) /\ ioFinish = Both(FALSE)
      /\ closeNotify = Both(FALSE) /\ lastErrno = Both(FALSE)
      /\ disk = [f \in File |-> Empty] /\ async = 0
  BY <1>1 DEF XferInit
<1>4. size \in [File -> Nat] /\ \A g \in File : size[g] \in Sizes \cup {0}
  <2>1. \A g \in File : size[g] \in Sizes \cup {0}
    BY <1>3
  <2>2. \A x \in Sizes \cup {0} : x \in Nat
    BY TransferAssumption
  <2> QED BY <1>3, <2>1, <2>2
<1>5. /\ queue \in 0 .. NumFiles
      /\ cur \in [End -> 0 .. NumFiles] /\ fd \in [End -> 0 .. NumFiles]
      /\ indexIO \in [End -> 0 .. MaxSize]
      /\ \A d \in End : indexIO[d] = 0
      /\ ioFinish \in [End -> BOOLEAN] /\ closeNotify \in [End -> BOOLEAN]
      /\ lastErrno \in [End -> BOOLEAN] /\ \A d \in End : ~lastErrno[d]
  BY <1>2, <1>3 DEF Both
<1>6. DOMAIN io = End /\ (\A d \in End : io[d] = <<>>) /\ io[origin] \in Seq(Reads) /\ io[Slave] \in Seq(Writes)
  <2>1. DOMAIN io = End /\ \A d \in End : io[d] = <<>>
    BY <1>3 DEF Both
  <2>2. <<>> \in Seq(Reads) /\ <<>> \in Seq(Writes)
    OBVIOUS
  <2> QED BY <2>1, <2>2
<1>7. disk \in [File -> [0 .. MaxSize -> 0 .. NFiles]]
  <2>1. Empty \in [0 .. MaxSize -> 0 .. NFiles]
    BY <1>2 DEF Empty
  <2> QED BY <2>1, <1>3
<1>8. /\ \A d \in End : opening[d] = 0 /\ closing[d] = 0 /\ owed[d] = 0
      /\ ~(opening[origin] > 0) /\ async = 0
  BY <1>3 DEF Both
<1>9. owed["host"] = 0 /\ owed["daemon"] = 0
  BY <1>8 DEF End
<1> QED BY <1>4, <1>5, <1>6, <1>7, <1>8, <1>9 DEF XTypes

\* And the rest.
LEMMA XInitBase ==
    ASSUME Init, IsTransfer
    PROVE  XBase /\ Fresh
<1> USE XStart
<1>1. IInv /\ TaskTypes /\ XTypes
  BY InitInv, TaskTypesInit, XInitTypes
<1>2. <<Init0>> \in Seq(XferMsg) /\ <<>> \in Seq(XferMsg)
  OBVIOUS
<1>3. net \in [End -> Seq(XferMsg)]
  BY <1>2
<1>4. Init0 \in XSays(origin)
  BY XMessages DEF XSays, Init0
<1>5. \A d \in End : \A i \in 1 .. Len(net[d]) : net[d][i] = Init0 /\ d = origin
  BY DEF In
<1>6. XNet
  BY <1>3, <1>4, <1>5 DEF XNet
<1>7. Fresh /\ Single(net[origin], Init0)
  BY Few DEF Fresh
<1>8. queue = NumFiles /\ async = 0 /\ owed["daemon"] = 0
      /\ \A d \in End : opening[d] = 0 /\ closing[d] = 0 /\ io[d] = <<>> /\ ~lastErrno[d]
  BY DEF Init, XferInit, Both, End
<1>9. FreshInv
  BY <1>5, <1>7, <1>8 DEF FreshInv
<1> QED BY <1>1, <1>6, <1>7, <1>9 DEF XBase

\* The invariant of the transfers holds at the beginning.
LEMMA XInit ==
    ASSUME Init, IsTransfer
    PROVE  XferData
<1> USE XStart
<1>1. XBase /\ Fresh
  BY XInitBase
<1> USE <1>1, XBaseFacts
<1>2. /\ Held = 0 /\ queue = NumFiles /\ async = 0 /\ owed["daemon"] = 0 /\ Begun = 0
      /\ \A d \in End : opening[d] = 0 /\ closing[d] = 0 /\ io[d] = <<>> /\ ~lastErrno[d]
      /\ (\A n : ~Check(n)) /\ ~Asks /\ NoFlow /\ \A d \in End : \A n : ~Fin(d, n)
  BY FreshFacts
<1>3. /\ opening[origin] = 0 /\ opening[Slave] = 0 /\ closing[Slave] = 0
  BY <1>2
<1>4. Goes = 0
  <2>1. (IF lastErrno[Slave] THEN 0 ELSE closing[Slave]) = 0 /\ 0 + 0 + 0 = 0 /\ 0 + 0 = 0
    BY <1>3
  <2> QED BY <2>1, <1>2, <1>3 DEF Goes
<1>5. Tok = 0
  <2>1. Tok = Held + opening[origin] + opening[Slave] + Goes
    BY TokCounted DEF TokFacts
  <2>2. 0 + 0 + 0 + 0 = 0
    OBVIOUS
  <2> QED BY <2>1, <2>2, <1>2, <1>3, <1>4
<1>6. TokenInv
  BY <1>5 DEF TokenInv
<1>7. cur[Slave] = 0 /\ fd[Slave] = 0 /\ (\A d \in End : ~closeNotify[d]) /\ told = {}
  BY DEF Init, XferInit, Both
<1>8. PlacedInv
  BY <1>2, <1>3, <1>7 DEF PlacedInv
<1>9. CountInv
  BY <1>7, CountNone
<1>10. ~OkSaid
  <2>1. EchoOf("ok") # Init0
    BY XMessages DEF EchoOf, Init0
  <2>2. "host" \in End
    BY DEF End
  <2> QED BY <2>1, <2>2, <1>7 DEF OkSaid
<1>11. Unsaid
  BY <1>2, <1>3, <1>7, <1>10 DEF Unsaid
<1>12. FlowInv
  BY <1>2, FlowNone
<1>13. DirInv
  <2>1. \A g \in 1 .. (Begun - 1) : Whole(g)
    <3>1. \A g \in 1 .. (0 - 1) : FALSE
      OBVIOUS
    <3> QED BY <3>1, <1>2
  <2> QED BY <2>1, <1>2, <1>3, <1>11, DirEarly
<1>14. InstallInv /\ FileInv
  BY <1>2, <1>3, <1>11, InstallEarly, FileEarly
<1> QED BY <1>1, <1>6, <1>8, <1>9, <1>12, <1>13, <1>14 DEF XferData, SendInv, XBase

\* The invariant of the transfers, and of the processes.
XInv == PInv /\ (IsTransfer => XferData)

\* It holds at the beginning.
LEMMA XInvInit == Init => XInv
BY PInvInit, XInit DEF XInv

\* Every step keeps it.
LEMMA XInvNext == XInv /\ [Next]_vars => XInv'
<1> SUFFICES ASSUME XInv, [Next]_vars PROVE XInv'
  OBVIOUS
<1>1. PInv /\ PInv' /\ IInv /\ TaskTypes /\ BaseTypes /\ IInv' /\ TaskTypes'
  BY PInvNext DEF XInv, PInv, IInv
<1>2. IsTransfer' <=> IsTransfer
  BY KindKept DEF IsTransfer
<1>3. ASSUME IsTransfer PROVE XferData'
  <2>1. (\E e \in End : XferReceive(e) \/ XferCallBack(e)) \/ CommonStep \/ UNCHANGED vars
    BY <1>1, <1>3, Steps, FwdMeaning
  <2>2. XferData
    BY <1>3 DEF XInv
  <2> QED BY <1>1, <1>3, <2>1, <2>2, XDataStep
<1> QED BY <1>1, <1>2, <1>3 DEF XInv

\* The invariant has it, but for a directory a piece of which may fail.
LEMMA XInvLoses == XInv /\ Careful => NothingLost
<1>1. XInv => OutputShown
  BY PInvShown DEF XInv
<1>2. XInv /\ Careful => TransferFaithful
  <2> SUFFICES ASSUME XInv, Careful PROVE TransferFaithful
    OBVIOUS
  <2>1. ASSUME kind \in {"file", "dir"}, "ok" \in told, NEW f \in 1 .. NumFiles PROVE Whole(f)
    <3>1. IsTransfer /\ Sending /\ OkSaid
      BY <2>1 DEF IsTransfer, Sending, OkSaid
    <3>2. DirInv /\ FileInv
      BY <3>1 DEF XInv, XferData, SendInv
    <3>3. AllWhole
      BY <2>1, <3>1, <3>2 DEF DirInv, FileInv
    <3> QED BY <3>3 DEF AllWhole
  <2>2. ASSUME kind = "install", async > 0 PROVE Whole(cur["daemon"])
    <3>1. IsTransfer /\ Sending
      BY <2>2 DEF IsTransfer, Sending
    <3>2. InstallInv /\ XTypes
      BY <3>1 DEF XInv, XferData, SendInv
    <3>3. Slave = "daemon"
      BY <2>2, <3>2 DEF XTypes, Slave, Other
    <3> QED BY <2>2, <3>2, <3>3 DEF InstallInv
  <2> QED BY <2>1, <2>2 DEF TransferFaithful
<1> QED BY <1>1, <1>2 DEF NothingLost

\* Whatever fails, the client is told that its files are sent only when every piece of every
\* file is where it belongs, a package is given to the package manager only when all of it
\* is there, and the output of a command is shown before its channel is asked to go; all but
\* for a directory one of whose reads or writes may fail, which is reported as sent.
THEOREM OnlyDirectoriesLose ==
    Spec => [](NothingLost \/ (kind = "dir" /\ (Fault("read") \/ Fault("write"))))
<1>1. XInv => NothingLost \/ (kind = "dir" /\ (Fault("read") \/ Fault("write")))
  BY XInvLoses DEF Careful
<1> QED BY <1>1, XInvInit, XInvNext, PTL DEF Spec

\* When no read and no write of a piece of a directory fails, nothing is lost at all.
THEOREM NothingIsLost ==
    ASSUME <<"dir", "read">> \notin Faults, <<"dir", "write">> \notin Faults
    PROVE  Spec => []NothingLost
<1>1. XInv => NothingLost
  BY XInvLoses DEF Careful, Fault
<1> QED BY <1>1, XInvInit, XInvNext, PTL DEF Spec

-----------------------------------------------------------------------------
(* All types: the forwards, and the variables of the other classes.        *)

\* The messages of a forward, as they are typed, and what of its variables a step may change
\* and no other invariant has.
FwdNet == net \in [End -> Seq(FwdMsg)]
FwdMore == target \in Targets \cup {"tcp"} /\ data \in 0 .. MaxData /\ listed \in BOOLEAN

\* The messages.
LEMMA FwdMessages ==
    /\ \A c \in {"WAKEUP", "FWD_INIT", "FWD_CHECK", "CHECK_RESULT", "ACTIVE_SLAVE", "ACTIVE_MASTER",
                 "DATA", "FREE_CONTEXT", "FWD_SUCCESS", "ECHO_OK", "ECHO_FAIL", "CLOSE"} :
          \A n \in Number \cup {0, 1} : Msg(c, n) \in FwdMsg
    /\ \A h \in FwdMsg : h.n \in Number \cup {0, 1} /\ h.n \in Int
    /\ Conn \subseteq Number /\ 0 \in Number /\ 1 \in Number \cup {0, 1}
    /\ \A n \in Number \cup {0, 1} : n # 0 => n - 1 \in Number \cup {0, 1}
<1>1. Conn \subseteq Number /\ 0 \in Number /\ Number \subseteq Int
  BY ForwardAssumption DEF Conn, Number
<1>2. \A n \in Number \cup {0, 1} : n # 0 => n - 1 \in Number \cup {0, 1}
  BY ForwardAssumption DEF Number
<1>3. \A c, n : c \in {"WAKEUP", "FWD_INIT", "FWD_CHECK", "CHECK_RESULT", "ACTIVE_SLAVE", "ACTIVE_MASTER",
                    "DATA", "FREE_CONTEXT", "FWD_SUCCESS", "ECHO_OK", "ECHO_FAIL", "CLOSE"}
                /\ n \in Number \cup {0, 1} => Msg(c, n) \in FwdMsg
  BY DEF Msg, FwdMsg
<1>4. \A h \in FwdMsg : h.n \in Number \cup {0, 1}
  BY DEF FwdMsg
<1>5. \A h \in FwdMsg : h.n \in Int
  <2>1. \A n \in Number \cup {0, 1} : n \in Int
    BY <1>1
  <2> QED BY <2>1, <1>4
<1> QED BY <1>1, <1>2, <1>3, <1>4, <1>5

\* What handlers send.
LEMMA FwdSends ==
    /\ <<>> \in Seq(FwdMsg) /\ Finish \in Seq(FwdMsg) /\ <<Wakeup>> \in Seq(FwdMsg)
    /\ \A n \in Number \cup {0, 1} : <<Close(n)>> \in Seq(FwdMsg)
    /\ \A e, lv : Log(e, lv) \in Seq(FwdMsg)
    /\ \A e : Fails(e) \in Seq(FwdMsg)
    /\ \A p, q \in Seq(FwdMsg) : p \o q \in Seq(FwdMsg)
<1>1. \A m \in FwdMsg : <<m>> \in Seq(FwdMsg)
  OBVIOUS
<1>2. \A n \in Number \cup {0, 1} : Close(n) \in FwdMsg
  BY FwdMessages DEF Close
<1>3. \A lv : EchoOf(lv) \in FwdMsg
  BY FwdMessages DEF EchoOf
<1>4. <<>> \in Seq(FwdMsg) /\ \A p, q \in Seq(FwdMsg) : p \o q \in Seq(FwdMsg)
  OBVIOUS
<1>5. \A e, lv : Log(e, lv) \in Seq(FwdMsg)
  BY <1>1, <1>3, <1>4 DEF Log
<1>6. Finish \in Seq(FwdMsg) /\ <<Wakeup>> \in Seq(FwdMsg)
  BY <1>1, <1>2, FwdMessages DEF Finish, Wakeup
<1>7. \A e : Fails(e) \in Seq(FwdMsg)
  BY <1>4, <1>5, <1>6 DEF Fails
<1> QED BY <1>1, <1>2, <1>4, <1>5, <1>6, <1>7

\* Sending keeps the types of the queues.
LEMMA FwdSent ==
    ASSUME FwdNet, NEW e \in End, NEW lvs, NEW out \in Seq(FwdMsg),
           Emit(e, lvs, out) \/ (net[e] # <<>> /\ Answer(e, lvs, out))
    PROVE  FwdNet'
<1>1. PICK rest : /\ rest = net[e] \/ (net[e] # <<>> /\ rest = Tail(net[e]))
                  /\ Sends(e, rest, lvs, out)
  BY DEF Emit, Answer
<1>2. net' \in [End -> Seq(FwdMsg)]
  BY <1>1, Passed DEF FwdNet
<1> QED BY <1>2 DEF FwdNet, FwdMsg, Number

\* Losing all, too.
LEMMA FwdLost ==
    ASSUME FwdNet, UNCHANGED net \/ net' = Both(<<>>)
    PROVE  FwdNet'
<1>1. <<>> \in Seq(FwdMsg)
  OBVIOUS
<1>2. net' \in [End -> Seq(FwdMsg)]
  BY <1>1 DEF FwdNet, Both
<1> QED BY <1>2 DEF FwdNet, FwdMsg, Number

\* The steps of HdcTask keep the types of the queues of a forward.
LEMMA FwdCommonNet ==
    ASSUME FwdNet, Common
    PROVE  FwdNet'
<1>e. "host" \in End /\ "daemon" \in End
  BY DEF End
<1>1. ASSUME NEW e \in End, FetchClose(e) PROVE FwdNet'
  <2>1. net[e] # <<>> /\ Arg(e) \in Number \cup {0, 1}
    <3>1. net[e] # <<>> /\ net[e] \in Seq(FwdMsg)
      BY <1>1 DEF FetchClose, FwdNet
    <3>2. Head(net[e]) \in FwdMsg
      BY <3>1
    <3> QED BY <3>1, <3>2, FwdMessages DEF Arg
  <2>2. (IF Arg(e) = 0 THEN <<>> ELSE <<Close(Arg(e) - 1)>>) \in Seq(FwdMsg)
    BY <2>1, FwdMessages, FwdSends
  <2> QED BY <1>1, <2>1, <2>2, FwdSent DEF FetchClose
<1>2. ASSUME NEW e \in End, Wake(e) \/ Ignored(e, Taskless) PROVE FwdNet'
  <2>1. net[e] # <<>> /\ Answer(e, {}, <<>>)
    BY <1>2 DEF Wake, Ignored, Creates
  <2> QED BY <2>1, FwdSends, FwdSent
<1>3. ASSUME NEW e \in End, ClearOwnTasks(e) \/ TryRemoveTask(e, Ready(e)) PROVE FwdNet'
  BY <1>3, FwdLost DEF ClearOwnTasks, TryRemoveTask
<1>4. CASE FetchEcho
  <2>1. net["host"] # <<>> /\ net' = [net EXCEPT !["host"] = Tail(@)]
    BY <1>4 DEF FetchEcho
  <2>2. net["host"] \in Seq(FwdMsg)
    BY <1>e DEF FwdNet
  <2>3. Tail(net["host"]) \in Seq(FwdMsg)
    BY <2>1, <2>2, Taken
  <2>4. net' \in [End -> Seq(FwdMsg)]
    BY <2>1, <2>3, <1>e DEF FwdNet
  <2> QED BY <2>4 DEF FwdNet, FwdMsg, Number
<1>5. CASE FetchUnserved
  <2>1. (IF chan = "gone" THEN <<Close(0)>> ELSE <<>>) \in Seq(FwdMsg)
    BY FwdSends, FwdMessages
  <2> QED BY <1>5, <2>1, <1>e, FwdSent DEF FetchUnserved
<1>6. CASE DeatchChannel
  <2>1. <<Close(0)>> \in Seq(FwdMsg)
    BY FwdSends, FwdMessages
  <2> QED BY <1>6, <2>1, <1>e, FwdSent DEF DeatchChannel
<1>7. CASE FreeChannel \/ SessionEnd \/ PoolBusy(Taskless \ {"CLOSE", "FWD_SUCCESS"})
  BY <1>7, FwdLost DEF FreeChannel, SessionEnd, PoolBusy
<1> QED BY <1>1, <1>2, <1>3, <1>4, <1>5, <1>6, <1>7 DEF Common

\* The handlers of a forward do.
LEMMA FwdHandleNet ==
    ASSUME IInv, IsForward, FwdNet, NEW e \in End, FwdReceive(e) \/ FwdCallBack(e) \/ FwdPeer(e)
    PROVE  FwdNet'
<1>1. FwdTypes /\ OpenInv /\ MapInv
  BY DEF IInv, FwdInv
<1>e. "host" \in End /\ e \in End
  BY DEF End
<1>i. \A k \in Number : id[k] \in Number \cup {0, 1}
  BY <1>1 DEF FwdTypes
<1>m. \A k \in Number : ActiveMaster(k) \in Seq(FwdMsg) /\ FreeMsg(k) \in Seq(FwdMsg)
                        /\ <<Msg("DATA", id[k])>> \in Seq(FwdMsg)
  <2>1. \A m \in FwdMsg : <<m>> \in Seq(FwdMsg)
    OBVIOUS
  <2> QED BY <1>i, <2>1, FwdMessages DEF ActiveMaster, FreeMsg
<1>s. \A d \in End : \A lvs : \A out \in Seq(FwdMsg) :
         Emit(d, lvs, out) \/ (net[d] # <<>> /\ Answer(d, lvs, out)) => FwdNet'
  BY FwdSent
<1>l. UNCHANGED net => FwdNet'
  BY FwdLost
<1>f. /\ <<>> \in Seq(FwdMsg) /\ Finish \in Seq(FwdMsg) /\ <<Wakeup>> \in Seq(FwdMsg)
      /\ \A d, lv : Log(d, lv) \in Seq(FwdMsg)
      /\ Fails(e) \in Seq(FwdMsg)
      /\ \A p, q \in Seq(FwdMsg) : p \o q \in Seq(FwdMsg)
  BY FwdSends
<1>h. net[e] # <<>> => /\ Head(net[e]) \in FwdSays
  BY <1>1 DEF FwdTypes
<1>a. Gets(e, "ACTIVE_SLAVE") => net[e] # <<>> /\ Arg(e) \in Conn /\ Arg(e) \in Number
  <2>1. Gets(e, "ACTIVE_SLAVE") => net[e] # <<>> /\ Head(net[e]).n \in Conn
    BY <1>h DEF Gets, FwdSays
  <2> QED BY <2>1, FwdMessages DEF Arg
<1>t. \A c \in {"ACTIVE_MASTER", "DATA", "FREE_CONTEXT"} :
         Gets(e, c) /\ ~Unknown(e) => net[e] # <<>> /\ Target(e) \in Number
  <2>1. \A c \in {"ACTIVE_MASTER", "DATA", "FREE_CONTEXT"} :
           Gets(e, c) => net[e] # <<>> /\ Head(net[e]).n \in Number
    BY <1>h DEF Gets, FwdSays
  <2>2. \A i \in Number : mapCtx[e][i] \in Number \cup {-1}
    BY <1>1 DEF FwdTypes
  <2> QED BY <2>1, <2>2 DEF Arg, Target, Unknown
<1> HIDE DEF FwdNet
<1>2. CASE BeginForward(e)
  <2>1. net[e] # <<>> /\ <<Wakeup, Msg("FWD_CHECK", 0)>> \in Seq(FwdMsg) /\ <<Wakeup>> \o Fails(e) \in Seq(FwdMsg)
    <3>1. Wakeup \in FwdMsg /\ Msg("FWD_CHECK", 0) \in FwdMsg
      BY FwdMessages DEF Wakeup
    <3> QED BY <3>1, <1>2, <1>f DEF BeginForward, Creates
  <2> QED BY <2>1, <1>2, <1>s DEF BeginForward
<1>3. CASE SlaveCheck(e)
  <2>1. net[e] # <<>> /\ <<Msg("CHECK_RESULT", 0)>> \in Seq(FwdMsg) /\ Answer(e, {}, <<Msg("CHECK_RESULT", 0)>>)
    BY <1>3, FwdMessages DEF SlaveCheck, Gets
  <2> QED BY <2>1, <1>s
<1>4. CASE UnknownContext(e)
  <2>1. net[e] # <<>> /\ Answer(e, {"fail"}, Fails(e))
    BY <1>4 DEF UnknownContext, Gets
  <2> QED BY <2>1, <1>f, <1>s
<1>5. CASE CheckResult(e)
  <2>1. <<Msg("FWD_SUCCESS", 0)>> \in Seq(FwdMsg)
    BY FwdMessages
  <2>2. Log(e, "ok") \o <<Msg("FWD_SUCCESS", 0)>> \in Seq(FwdMsg)
    BY <2>1, <1>f
  <2>3. (IF e = "host" THEN <<>> ELSE Log(e, "ok") \o <<Msg("FWD_SUCCESS", 0)>>) \in Seq(FwdMsg)
    BY <2>2, <1>f
  <2>4. net[e] # <<>> /\ Answer(e, {"ok"}, IF e = "host" THEN <<>> ELSE Log(e, "ok") \o <<Msg("FWD_SUCCESS", 0)>>)
    BY <1>5 DEF CheckResult, Gets
  <2> QED BY <2>3, <2>4, <1>s
<1>6. CASE ForwardSuccess
  <2>1. net["host"] # <<>> /\ Answer("host", {}, <<>>)
    BY <1>6 DEF ForwardSuccess, Creates
  <2> QED BY <2>1, <1>f, <1>s, <1>e
<1>7. CASE SlaveConnect(e)
  <2>1. net[e] # <<>> /\ Arg(e) \in Number /\ SetupPoint(e, Arg(e))
    BY <1>7, <1>a DEF SlaveConnect
  <2>2. FreeMsg(Arg(e)) \o Fails(e) \in Seq(FwdMsg) /\ ActiveMaster(Arg(e)) \in Seq(FwdMsg)
    BY <2>1, <1>m, <1>f
  <2> QED BY <2>1, <2>2, <1>f, <1>s DEF SetupPoint
<1>8. CASE ActivateMaster(e) \/ ForwardData(e) \/ ForwardFree(e)
  <2>1. net[e] # <<>> /\ Target(e) \in Number
    BY <1>8, <1>t DEF ActivateMaster, ForwardData, ForwardFree
  <2>2. Answer(e, {}, <<>>) \/ Answer(e, {}, FreeMsg(Target(e)))
    BY <1>8 DEF ActivateMaster, ForwardData, ForwardFree
  <2> QED BY <2>1, <2>2, <1>m, <1>f, <1>s
<1>9. ASSUME NEW k \in Number,
             FreeContextCallBack(e, k) \/ ConnectTarget(e, k) \/ SetupJdwpPointCallBack(e, k)
      PROVE  FwdNet'
  <2>1. UNCHANGED net \/ Emit(e, {}, ActiveMaster(k)) \/ Emit(e, {}, FreeMsg(k))
    BY <1>9 DEF FreeContextCallBack, ConnectTarget, SetupJdwpPointCallBack
  <2> QED BY <2>1, <1>9, <1>m, <1>s, <1>l
<1>10. ASSUME NEW k \in Conn, Accept(e, k) \/ ReadForwardBuf(e, k) PROVE FwdNet'
  <2>1. k \in Number /\ <<Msg("ACTIVE_SLAVE", k)>> \in Seq(FwdMsg)
    BY <1>10, FwdMessages
  <2>2. \/ UNCHANGED net \/ Emit(e, {}, <<Msg("ACTIVE_SLAVE", k)>>)
        \/ Emit(e, {}, <<Msg("DATA", id[k])>>) \/ Emit(e, {}, FreeMsg(k))
    BY <1>10 DEF Accept, ReadForwardBuf
  <2> QED BY <2>1, <2>2, <1>m, <1>s, <1>l
<1>11. CASE AcceptTooEarly(e)
  BY <1>11, <1>f, <1>s DEF AcceptTooEarly
<1> QED BY <1>2, <1>3, <1>4, <1>5, <1>6, <1>7, <1>8, <1>9, <1>10, <1>11 DEF FwdReceive, FwdCallBack, FwdPeer

\* And the rest of the variables.
LEMMA FwdHandleMore ==
    ASSUME FwdMore, NEW e \in End, FwdReceive(e) \/ FwdCallBack(e) \/ FwdPeer(e)
    PROVE  FwdMore'
<1>1. ASSUME UNCHANGED <<target, data, listed>> PROVE FwdMore'
  BY <1>1 DEF FwdMore
<1>2. CASE BeginForward(e) \/ SlaveCheck(e) \/ UnknownContext(e) \/ SlaveConnect(e)
  BY <1>2, <1>1 DEF BeginForward, SlaveCheck, UnknownContext, SlaveConnect, fwdVars
<1>3. CASE CheckResult(e) \/ ForwardSuccess
  <2>1. UNCHANGED <<target, data>> /\ (listed' = (listed \/ e = "host") \/ listed' = TRUE)
    BY <1>3 DEF CheckResult, ForwardSuccess
  <2>2. listed' \in BOOLEAN
    BY <2>1 DEF FwdMore
  <2> QED BY <2>1, <2>2 DEF FwdMore
<1>4. CASE ActivateMaster(e) \/ ForwardData(e) \/ ForwardFree(e)
  BY <1>4, <1>1 DEF ActivateMaster, ForwardData, ForwardFree
<1>5. ASSUME NEW k \in Number,
             FreeContextCallBack(e, k) \/ ConnectTarget(e, k) \/ SetupJdwpPointCallBack(e, k)
      PROVE  FwdMore'
  BY <1>5, <1>1 DEF FreeContextCallBack, ConnectTarget, SetupJdwpPointCallBack
<1>6. ASSUME NEW k \in Conn, Accept(e, k) \/ ReadForwardBuf(e, k) PROVE FwdMore'
  <2>1. UNCHANGED <<target, listed>> /\ (data' = data \/ (data < MaxData /\ data' = data + 1))
    BY <1>6 DEF Accept, ReadForwardBuf
  <2>2. data' \in 0 .. MaxData
    BY <2>1, ForwardAssumption DEF FwdMore
  <2> QED BY <2>1, <2>2 DEF FwdMore
<1>7. CASE AcceptTooEarly(e)
  BY <1>7, <1>1 DEF AcceptTooEarly
<1> QED BY <1>2, <1>3, <1>4, <1>5, <1>6, <1>7 DEF FwdReceive, FwdCallBack, FwdPeer

\* The variables of the other classes stay what they are.
LEMMA OthersKept ==
    ASSUME BaseTypes, [Next]_vars
    PROVE  /\ ~IsForward => UNCHANGED fwdVars
           /\ ~IsTransfer => UNCHANGED xferVars
           /\ ~IsProcess => UNCHANGED shVars
<1>1. CASE UNCHANGED vars
  BY <1>1 DEF vars
<1>2. CASE CommonStep
  <2>1. Keeping \/ \E e \in End : Stopping(e)
    BY <1>2, CommonMoves
  <2>2. CASE Keeping
    BY <2>2 DEF Keeping, ClassVarsKept
  <2>3. ASSUME NEW e \in End, Stopping(e)
        PROVE  /\ ~IsForward => UNCHANGED fwdVars
               /\ ~IsTransfer => UNCHANGED xferVars
               /\ ~IsProcess => UNCHANGED shVars
    <3>1. task[e] = "run" /\ StopTask(e)
      BY <2>3 DEF Stopping
    <3>2. CASE IsForward
      BY <3>1, <3>2 DEF StopTask
    <3>3. CASE IsTransfer /\ ~IsForward
      BY <3>1, <3>3 DEF StopTask, XferStopTask
    <3>4. CASE ~IsTransfer /\ ~IsForward
      <4>1. IsProcess
        BY <3>4, Classes DEF BaseTypes
      <4> QED BY <3>1, <3>4, <4>1 DEF StopTask
    <3> QED BY <3>2, <3>3, <3>4
  <2> QED BY <2>1, <2>2, <2>3
<1> QED BY <1>1, <1>2, Steps, FwdMeaning

\* The types of all, as far as the other invariants do not have them.
Typed ==
    /\ FwdMore /\ (IsForward => FwdNet)
    /\ ~IsForward => FwdTypeOK
    /\ ~IsTransfer => XferTypeOK
    /\ ~IsProcess => ShTypeOK
TInv == XInv /\ Typed

\* They hold at the beginning.
LEMMA TInvInit == Init => TInv
<1> SUFFICES ASSUME Init PROVE TInv
  OBVIOUS
<1>1. XInv /\ origin \in End
  BY XInvInit, InitInv DEF IInv, BaseTypes
<1>2. FwdInit /\ XferInit /\ ShInit
  BY DEF Init
<1>3. FwdMore
  <2>1. target \in Targets \cup {"tcp"}
    BY <1>2 DEF FwdInit
  <2>2. data = 0 /\ listed = FALSE
    BY <1>2 DEF FwdInit
  <2>3. 0 \in 0 .. MaxData
    BY ForwardAssumption
  <2> QED BY <2>1, <2>2, <2>3 DEF FwdMore
<1>4. FwdTypeOK
  <2>1. /\ ctx = Both([k \in Number |-> "none"]) /\ id = [k \in Number |-> k]
        /\ mapCtx = Both([k \in Number |-> -1]) /\ idle = {}
    BY <1>2 DEF FwdInit
  <2>2. ctx \in [End -> [Number -> CtxStates]] /\ mapCtx \in [End -> [Number -> Number \cup {-1}]]
    BY <2>1 DEF Both, CtxStates
  <2>3. id \in [Number -> Number] /\ idle \in SUBSET Conn
    BY <2>1
  <2> QED BY <1>3, <2>2, <2>3 DEF FwdTypeOK, FwdMore
<1>5. XferTypeOK
  <2>1. /\ size \in [File -> Sizes \cup {0}] /\ queue = NumFiles
        /\ cur = Both(0) /\ fd = Both(0) /\ opening = Both(0) /\ closing = Both(0)
        /\ io = Both(<<>>) /\ indexIO = Both(0) /\ ioFinish = Both(FALSE)
        /\ closeNotify = Both(FALSE) /\ lastErrno = Both(FALSE)
        /\ disk = [f \in File |-> Empty] /\ async = 0
    BY <1>2 DEF XferInit
  <2>2. MaxSize \in Nat /\ NFiles \in Nat /\ NFiles >= 1
    BY Largest, TransferAssumption
  <2>3. NFiles * MaxSize \in Nat /\ 0 \in 0 .. (NFiles * MaxSize)
    <3>1. NFiles * MaxSize \in Nat
      BY <2>2
    <3> QED BY <3>1
  <2>4. queue \in 0 .. NFiles
    BY <2>1, <2>2 DEF NumFiles
  <2>5. cur \in [End -> 0 .. NFiles] /\ fd \in [End -> 0 .. NFiles]
    BY <2>1, <2>2 DEF Both
  <2>6. opening \in [End -> Nat] /\ closing \in [End -> Nat]
    BY <2>1 DEF Both
  <2>7. \A e \in End : \A j \in DOMAIN io[e] :
           io[e][j] \in [op : {"read", "write"}, to : 0..NFiles, piece : Piece]
    <3>1. \A e \in End : io[e] = <<>>
      BY <2>1 DEF Both
    <3> QED BY <3>1
  <2>8. indexIO \in [End -> 0 .. (NFiles * MaxSize)]
    BY <2>1, <2>3 DEF Both
  <2>9. /\ ioFinish \in [End -> BOOLEAN] /\ closeNotify \in [End -> BOOLEAN]
        /\ lastErrno \in [End -> BOOLEAN]
    BY <2>1 DEF Both
  <2>10. disk \in [File -> [0 .. MaxSize -> 0 .. NFiles]]
    <3>1. Empty \in [0 .. MaxSize -> 0 .. NFiles]
      BY <2>2 DEF Empty
    <3> QED BY <2>1, <3>1
  <2>11. async \in 0 .. NFiles
    BY <2>1, <2>2
  <2> QED BY <2>1, <2>4, <2>5, <2>6, <2>7, <2>8, <2>9, <2>10, <2>11 DEF XferTypeOK
<1>6. ShTypeOK
  BY <1>2, ShellAssumption DEF ShInit, ShTypeOK
<1>7. IsForward => FwdNet
  <2> SUFFICES ASSUME IsForward PROVE FwdNet
    OBVIOUS
  <2>1. TaskInit("FWD_INIT")
    <3>1. (CASE IsForward -> "FWD_INIT" [] IsTransfer -> "X_INIT" [] OTHER -> ShFirst) = "FWD_INIT"
      BY FwdMeaning
    <3> QED BY <3>1 DEF Init
  <2>2. net = [e \in End |-> IF e = origin THEN <<Msg("FWD_INIT", 0)>> ELSE <<>>]
    BY <2>1 DEF TaskInit
  <2>3. <<Msg("FWD_INIT", 0)>> \in Seq(FwdMsg) /\ <<>> \in Seq(FwdMsg)
    BY FwdMessages
  <2> QED BY <2>2, <2>3 DEF FwdNet
<1> QED BY <1>1, <1>3, <1>4, <1>5, <1>6, <1>7 DEF TInv, Typed

\* Every step keeps them.
LEMMA TInvNext == TInv /\ [Next]_vars => TInv'
<1> SUFFICES ASSUME TInv, [Next]_vars PROVE TInv'
  OBVIOUS
<1>1. XInv /\ XInv' /\ BaseTypes /\ IInv
  BY XInvNext DEF TInv, XInv, PInv, IInv
<1>2. /\ IsForward' <=> IsForward
      /\ IsTransfer' <=> IsTransfer
      /\ IsProcess' <=> IsProcess
  BY KindKept DEF IsForward, IsTransfer, IsProcess
<1>3. /\ ~IsForward => UNCHANGED fwdVars
      /\ ~IsTransfer => UNCHANGED xferVars
      /\ ~IsProcess => UNCHANGED shVars
  BY <1>1, OthersKept
<1>4. ~IsForward => FwdTypeOK'
  BY <1>3 DEF TInv, Typed, FwdTypeOK, fwdVars, Number, Conn
<1>5. ~IsTransfer => XferTypeOK'
  <2>1. UNCHANGED xferVars /\ XferTypeOK => XferTypeOK'
    BY DEF XferTypeOK, xferVars, ctxVars, File, MaxSize, Piece
  <2> QED BY <1>3, <2>1 DEF TInv, Typed
<1>6. ~IsProcess => ShTypeOK'
  BY <1>3 DEF TInv, Typed, ShTypeOK, shVars
<1>7. FwdMore' /\ (IsForward => FwdNet')
  <2>1. CASE IsForward /\ \E e \in End : FwdReceive(e) \/ FwdCallBack(e) \/ FwdPeer(e)
    BY <1>1, <2>1, FwdHandleNet, FwdHandleMore DEF TInv, Typed
  <2>2. CASE CommonStep
    <3>1. FwdMore'
      <4>1. Keeping \/ \E e \in End : Stopping(e)
        BY <1>1, <2>2, CommonMoves
      <4>2. UNCHANGED <<target, data, listed>>
        <5>1. CASE Keeping
          BY <5>1 DEF Keeping, ClassVarsKept, fwdVars
        <5>2. ASSUME NEW e \in End, Stopping(e) PROVE UNCHANGED <<target, data, listed>>
          <6>1. CASE IsForward
            <7>1. task[e] = "run" /\ StopTask(e)
              BY <5>2 DEF Stopping
            <7>2. FwdStopTask(e)
              BY <7>1, <6>1, FwdMeaning DEF StopTask
            <7> QED BY <7>2 DEF FwdStopTask
          <6>2. CASE ~IsForward
            BY <6>2, <1>3 DEF fwdVars
          <6> QED BY <6>1, <6>2
        <5> QED BY <4>1, <5>1, <5>2
      <4> QED BY <4>2 DEF TInv, Typed, FwdMore
    <3>2. IsForward => FwdNet'
      BY <1>1, <2>2, CommonMoves, FwdCommonNet DEF TInv, Typed
    <3> QED BY <3>1, <3>2
  <2>3. CASE UNCHANGED vars
    <3>1. UNCHANGED <<target, data, listed, net>>
      BY <2>3 DEF vars, fwdVars, taskVars
    <3> QED BY <3>1, FwdLost DEF TInv, Typed, FwdMore
  <2>4. CASE ~IsForward
    <3>1. UNCHANGED <<target, data, listed>>
      BY <2>4, <1>3 DEF fwdVars
    <3> QED BY <2>4, <3>1 DEF TInv, Typed, FwdMore
  <2> QED BY <1>1, <2>1, <2>2, <2>3, <2>4, Steps, FwdMeaning
<1> QED BY <1>1, <1>2, <1>4, <1>5, <1>6, <1>7 DEF TInv, Typed

\* The types of a forward.
LEMMA TypesForward ==
    ASSUME TInv, IsForward
    PROVE  TypeOK
<1>1. /\ IInv /\ BaseTypes /\ TaskTypes /\ FwdTypes /\ FwdMore /\ FwdNet
      /\ XferTypeOK /\ ShTypeOK /\ \A e \in End : owed[e] = 0
  BY FwdMeaning DEF TInv, Typed, XInv, PInv, IInv, FwdInv
<1>2. FwdTypeOK
  BY <1>1 DEF FwdTypes, FwdMore, FwdTypeOK
<1>3. owed \in [End -> -1 .. 1]
  BY <1>1 DEF BaseTypes
<1>4. refCount \in [End -> Nat \cup {-1}]
  <2>1. ASSUME NEW e \in End PROVE refCount[e] \in Nat
    <3>1. Cardinality(Live(e)) \in Nat
      <4>1. IsFiniteSet(Number)
        BY FS_Interval, ForwardAssumption DEF Number
      <4>2. IsFiniteSet(Live(e))
        BY <4>1, FS_Subset DEF Live
      <4> QED BY <4>2, FS_CardinalityType
    <3>2. Cardinality(idle) \in Nat
      BY <1>1, IdleCount
    <3>3. refCount[e] = (Cardinality(Live(e)) + (IF e = Slave THEN Cardinality(idle) ELSE 0)) + owed[e]
      BY <1>1, FwdMeaning DEF IInv
    <3> QED BY <3>1, <3>2, <3>3, <1>1
  <2> QED BY <2>1, <1>1 DEF BaseTypes
<1>5. net \in [End -> Seq(Msgs)]
  <2>1. \A s \in Seq(FwdMsg) : s \in Seq(Msgs)
    BY SeqDef DEF Msgs
  <2> QED BY <2>1, <1>1 DEF FwdNet
<1>6. TaskTypeOK(Msgs)
  BY <1>1, <1>3, <1>4, <1>5 DEF TaskTypeOK, BaseTypes, TaskTypes
<1> QED BY <1>1, <1>2, <1>6 DEF TypeOK

\* The types of a process.
LEMMA TypesProcess ==
    ASSUME TInv, IsProcess
    PROVE  TypeOK
<1>1. /\ IInv /\ BaseTypes /\ TaskTypes /\ ProcInv /\ ShTypes /\ ShCounts
      /\ XferTypeOK /\ FwdTypeOK /\ RefCounted
  BY FwdMeaning DEF TInv, Typed, XInv, PInv, IInv, ShData
<1>e. End = {"host", "daemon"} /\ "host" \in End /\ "daemon" \in End
  BY DEF End
<1>2. Shown \in Nat /\ Typing \in Nat
  <2>1. net["host"] \in Seq(ShMsg) /\ net["daemon"] \in Seq(ShMsg)
    BY <1>1, <1>e DEF ShTypes
  <2> QED BY <2>1, CountNat DEF Shown, Typing
<1>3. /\ printed \in 0 .. MaxOut /\ pipe \in Nat /\ got \in Nat /\ logged \in Nat
      /\ typed \in 0 .. MaxInput /\ rd \in 0 .. 1 /\ wr \in Nat /\ lw \in Nat
      /\ got + Shown + pipe <= printed /\ wr + Typing <= typed /\ lw + logged <= got
  BY <1>1 DEF ShTypes, ShCounts, ProcInv
<1>4. pipe \in 0 .. printed /\ got \in 0 .. printed /\ wr \in 0 .. MaxInput
      /\ lw \in 0 .. MaxOut /\ logged \in 0 .. MaxOut
  <2>1. PICK s, t : s = Shown /\ t = Typing
    OBVIOUS
  <2>2. s \in Nat /\ t \in Nat /\ got + s + pipe <= printed /\ wr + t <= typed
    BY <2>1, <1>2, <1>3
  <2> QED BY ONLY <2>2, <1>3, ShellAssumption
<1>5. cmdRef \in 0 .. 1
  BY <1>1, <1>3 DEF ShTypes
<1>6. ShTypeOK
  BY <1>1, <1>3, <1>4, <1>5 DEF ShTypeOK, ShTypes
<1>7. owed["host"] = 0 /\ owed["daemon"] \in -1 .. 1
  BY <1>1 DEF ProcInv, ShTypes
<1>8. owed \in [End -> -1 .. 1]
  BY <1>1, <1>7, <1>e DEF BaseTypes
<1>9. refCount \in [End -> Nat \cup {-1}]
  <2>1. /\ refCount["daemon"] = rd + owed["daemon"]
        /\ refCount["host"] = (lw + (IF log = "closing" THEN 1 ELSE 0)) + owed["host"]
    BY <1>1, <1>e, FwdMeaning DEF RefCounted, Pending
  <2>2. refCount["daemon"] \in Nat \cup {-1}
    BY <2>1, <1>3, <1>7
  <2>3. refCount["host"] \in Nat
    BY <2>1, <1>3, <1>7
  <2> QED BY <2>2, <2>3, <1>1, <1>e DEF BaseTypes
<1>10. net \in [End -> Seq(Msgs)]
  <2>1. \A s \in Seq(ShMsg) : s \in Seq(Msgs)
    BY SeqDef DEF Msgs
  <2> QED BY <2>1, <1>1 DEF ShTypes
<1>11. TaskTypeOK(Msgs)
  BY <1>1, <1>8, <1>9, <1>10 DEF TaskTypeOK, BaseTypes, TaskTypes
<1> QED BY <1>1, <1>6, <1>11 DEF TypeOK

\* The types of a transfer.
LEMMA TypesTransfer ==
    ASSUME TInv, IsTransfer
    PROVE  TypeOK
<1>1. /\ IInv /\ BaseTypes /\ TaskTypes /\ XferData /\ XTypes /\ XNet
      /\ ShTypeOK /\ FwdTypeOK /\ RefCounted /\ XBase
  BY FwdMeaning DEF TInv, Typed, XInv, PInv, IInv, XferData, XBase
<1>e. End = {"host", "daemon"} /\ "host" \in End /\ "daemon" \in End
  BY DEF End
<1>2. /\ opening \in [End -> Nat] /\ closing \in [End -> Nat] /\ async \in Nat
      /\ owed \in [End -> Int] /\ \A d \in End : owed[d] >= 0
  BY <1>1, XBaseFacts
<1>3. /\ Slave \in End /\ \A d \in End : d = origin \/ d = Slave
      /\ NumFiles \in 0 .. NFiles /\ NFiles \in Nat /\ NFiles >= 1 /\ MaxSize \in Nat
  BY <1>1, XEnds, Largest DEF BaseTypes
<1>4. async <= 1 /\ owed["daemon"] <= 1 /\ owed["host"] = 0
  <2>1. CASE kind \in {"install", "uninstall"}
    <3>1. TokenInv
      BY <2>1, <1>1 DEF XferData, Careful
    <3>2. /\ Held \in Nat /\ Goes \in Nat /\ opening[origin] \in Nat /\ opening[Slave] \in Nat
          /\ closing[Slave] \in Nat /\ async \in Nat /\ owed["daemon"] \in Nat
          /\ Tok = Held + opening[origin] + opening[Slave] + Goes
          /\ kind = "install" => Goes = (IF lastErrno[Slave] THEN 0 ELSE closing[Slave]) + async + owed["daemon"]
          /\ kind = "uninstall" => Goes = async + owed["daemon"]
      BY <1>1, TokCounted DEF TokFacts
    <3>3. Goes <= 1
      <4>1. \A a, b, c, g \in Nat : a + b + c + g <= 1 => g <= 1
        OBVIOUS
      <4>2. Held + opening[origin] + opening[Slave] + Goes <= 1
        BY <3>1, <3>2 DEF TokenInv
      <4> QED BY <4>1, <4>2, <3>2
    <3>4. async + owed["daemon"] <= Goes
      <4>1. \A c, a, b \in Nat : a + b <= c + a + b
        OBVIOUS
      <4>2. (IF lastErrno[Slave] THEN 0 ELSE closing[Slave]) \in Nat
        BY <3>2
      <4> QED BY <2>1, <4>1, <4>2, <3>2
    <3>5. \A a, b, g \in Nat : a + b <= g /\ g <= 1 => a <= 1 /\ b <= 1
      OBVIOUS
    <3> QED BY <3>2, <3>3, <3>4, <3>5, <1>1 DEF XTypes
  <2>2. CASE kind \notin {"install", "uninstall"}
    BY <2>2, <1>1 DEF XTypes
  <2> QED BY <2>1, <2>2
<1>5. XferTypeOK
  <2>1. size \in [File -> Sizes \cup {0}]
    BY <1>1 DEF XTypes
  <2>2. 0 .. NumFiles \subseteq 0 .. NFiles
    BY <1>3
  <2>3. queue \in 0 .. NFiles /\ cur \in [End -> 0 .. NFiles] /\ fd \in [End -> 0 .. NFiles]
    <3>1. queue \in 0 .. NumFiles /\ cur \in [End -> 0 .. NumFiles] /\ fd \in [End -> 0 .. NumFiles]
      BY <1>1 DEF XTypes
    <3> QED BY <3>1, <2>2
  <2>4. \A e \in End : \A j \in DOMAIN io[e] :
           io[e][j] \in [op : {"read", "write"}, to : 0..NFiles, piece : Piece]
    <3>1. io[origin] \in Seq(Reads) /\ io[Slave] \in Seq(Writes)
      BY <1>1 DEF XTypes
    <3>2. (\A j \in DOMAIN io[origin] : io[origin][j] \in Reads) /\ (\A j \in DOMAIN io[Slave] : io[Slave][j] \in Writes)
      BY <3>1
    <3>3. \A r \in Reads \cup Writes : r \in [op : {"read", "write"}, to : 0..NFiles, piece : Piece]
      BY DEF Reads, Writes, Pieces
    <3> QED BY <3>2, <3>3, <1>3
  <2>5. indexIO \in [End -> 0 .. (NFiles * MaxSize)]
    <3>1. NFiles * MaxSize \in Nat /\ MaxSize <= NFiles * MaxSize
      <4>1. 0 * MaxSize + MaxSize <= NFiles * MaxSize /\ NFiles * MaxSize \in Nat
        BY <1>3, Grows
      <4>2. 0 * MaxSize = 0
        BY <1>3
      <4> QED BY <4>1, <4>2, <1>3
    <3>2. PICK m \in Nat : m = NFiles * MaxSize /\ MaxSize <= m
      BY <3>1
    <3>3. \A x \in 0 .. MaxSize : x \in 0 .. m
      BY <3>2, <1>3
    <3>4. indexIO \in [End -> 0 .. MaxSize]
      BY <1>1 DEF XTypes
    <3>5. indexIO \in [End -> 0 .. m]
      BY <3>3, <3>4
    <3> QED BY <3>2, <3>5
  <2>6. /\ ioFinish \in [End -> BOOLEAN] /\ closeNotify \in [End -> BOOLEAN]
        /\ lastErrno \in [End -> BOOLEAN] /\ disk \in [File -> [0 .. MaxSize -> 0 .. NFiles]]
    BY <1>1 DEF XTypes
  <2>7. async \in 0 .. NFiles
    BY <1>2, <1>3, <1>4
  <2> QED BY <1>2, <2>1, <2>3, <2>4, <2>5, <2>6, <2>7 DEF XferTypeOK
<1>6. owed \in [End -> -1 .. 1]
  <2>1. owed["daemon"] \in -1 .. 1 /\ owed["host"] \in -1 .. 1
    BY <1>2, <1>4, <1>e
  <2> QED BY <2>1, <1>2, <1>e
<1>7. refCount \in [End -> Nat \cup {-1}]
  <2>1. ASSUME NEW e \in End PROVE refCount[e] \in Nat
    <3>1. refCount[e] = (opening[e] + closing[e] + Len(io[e]) + (IF e = "daemon" THEN async ELSE 0)) + owed[e]
      BY <1>1, FwdMeaning DEF RefCounted, Pending
    <3>2. Len(io[e]) \in Nat
      <4>1. io[origin] \in Seq(Reads) /\ io[Slave] \in Seq(Writes)
        BY <1>1 DEF XTypes
      <4>2. Len(io[origin]) \in Nat /\ Len(io[Slave]) \in Nat
        BY <4>1
      <4> QED BY <4>2, <1>3
    <3>3. PICK o, c, l, w \in Nat : o = opening[e] /\ c = closing[e] /\ l = Len(io[e]) /\ w = owed[e]
      BY <1>2, <3>2
    <3>4. PICK a \in Nat : a = (IF e = "daemon" THEN async ELSE 0)
      BY <1>2
    <3>5. refCount[e] = (o + c + l + a) + w
      BY <3>1, <3>3, <3>4
    <3> QED BY <3>5
  <2> QED BY <2>1, <1>1 DEF BaseTypes
<1>8. net \in [End -> Seq(Msgs)]
  <2>1. \A s \in Seq(XferMsg) : s \in Seq(Msgs)
    BY SeqDef DEF Msgs
  <2> QED BY <2>1, <1>1 DEF XNet
<1>9. TaskTypeOK(Msgs)
  BY <1>1, <1>6, <1>7, <1>8 DEF TaskTypeOK, BaseTypes, TaskTypes
<1> QED BY <1>1, <1>5, <1>9 DEF TypeOK

\* Every variable keeps its type, whatever fails: a reference count is never more than one
\* below none, no end owes or is owed more than one reference, the queues hold messages of
\* the classes only, and every count stays within its bound.
THEOREM TypeCorrect == Spec => []TypeOK
<1>1. TInv => TypeOK
  <2>1. TInv => IsForward \/ IsTransfer \/ IsProcess
    BY Classes DEF TInv, XInv, PInv, IInv, BaseTypes
  <2> QED BY <2>1, TypesForward, TypesProcess, TypesTransfer
<1> QED BY <1>1, TInvInit, TInvNext, PTL DEF Spec
=============================================================================
