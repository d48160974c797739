-------------------------- MODULE FileTransferProofs --------------------------
(***************************************************************************)
(* Of FileTransfer, for all users, files and lengths of headers, names and *)
(* reads: the types; and that on a connection on which no name, status or  *)
(* size was read in pieces and no file changed under way, a client gets    *)
(* what it asked for, and its copy holds it if it could be written.        *)
(***************************************************************************)
EXTENDS FileTransfer, FiniteSetTheorems, SequenceTheorems, TLAPS

-----------------------------------------------------------------------------
(* Sequences.  Two of the same length with the same elements are equal.    *)
LEMMA Lengths ==
  ASSUME NEW S, NEW seq \in Seq(S)
  PROVE  /\ Len(seq) \in Nat /\ DOMAIN seq = 1..Len(seq)
         /\ seq # <<>> <=> Len(seq) >= 1
         /\ \A k \in 1..Len(seq) : seq[k] \in S
<1>1. Len(seq) \in Nat /\ DOMAIN seq = 1..Len(seq)
  BY LenProperties
<1>2. seq # <<>> => Len(seq) >= 1
  BY EmptySeq
<1>3. seq = <<>> => Len(seq) = 0
  BY EmptySeq
<1>4. \A k \in 1..Len(seq) : seq[k] \in S
  BY ElementOfSeq
<1> QED
  BY <1>1, <1>2, <1>3, <1>4

(* What a read takes and what it leaves.                                   *)
LEMMA Parts ==
  ASSUME NEW S, NEW seq \in Seq(S), NEW n \in Nat, n <= Len(seq)
  PROVE  /\ SubSeq(seq, 1, n) \in Seq(S) /\ Len(SubSeq(seq, 1, n)) = n
         /\ \A k \in 1..n : SubSeq(seq, 1, n)[k] = seq[k]
         /\ Rest(seq, n) \in Seq(S) /\ Len(Rest(seq, n)) = Len(seq) - n
         /\ \A k \in 1..Len(seq) - n : Rest(seq, n)[k] = seq[n + k]
         /\ SubSeq(seq, 1, n) \o Rest(seq, n) = seq
<1> DEFINE m == Len(seq)
           a == SubSeq(seq, 1, n)
           b == SubSeq(seq, n + 1, m)
<1>1. m \in Nat /\ n <= m /\ \A k \in 1..m : seq[k] \in S
  BY Lengths
<1>2. /\ a \in Seq(S) /\ Len(a) = IF 1 <= n THEN n - 1 + 1 ELSE 0
      /\ \A k \in 1..n - 1 + 1 : a[k] = seq[1 + k - 1]
  <2>1. \A k \in 1..n : seq[k] \in S
    BY <1>1
  <2> QED
    BY <2>1, SubSeqProperties
<1>3. /\ b \in Seq(S) /\ Len(b) = IF n + 1 <= m THEN m - (n + 1) + 1 ELSE 0
      /\ \A k \in 1..m - (n + 1) + 1 : b[k] = seq[n + 1 + k - 1]
  <2>1. \A k \in n + 1..m : seq[k] \in S
    BY <1>1
  <2> QED
    BY <1>1, <2>1, SubSeqProperties
<1>4. SubSeq(seq, 1, n) \o SubSeq(seq, n + 1, m) = SubSeq(seq, 1, m)
  <2>1. 1 \in 1..Len(seq) + 1 /\ n \in 1 - 1..Len(seq) /\ m \in n..Len(seq)
    BY <1>1
  <2> QED
    BY <2>1, ConcatAdjacentSubSeq
<1>5. SubSeq(seq, 1, m) = seq
  BY SubSeqFull
<1>6. Rest(seq, n) = b
  BY DEF Rest
<1> HIDE DEF a, b, m
<1>7. Len(a) = n /\ \A k \in 1..n : a[k] = seq[k]
  BY <1>2
<1>8. Len(b) = m - n /\ \A k \in 1..m - n : b[k] = seq[n + k]
  <2>1. Len(b) = m - n
    BY <1>1, <1>3
  <2>2. ASSUME NEW k \in 1..m - n PROVE b[k] = seq[n + k]
    <3>1. k \in 1..m - (n + 1) + 1 /\ n + 1 + k - 1 = n + k
      BY <1>1
    <3> QED
      BY <1>3, <3>1
  <2> QED
    BY <2>1, <2>2
<1> QED
  BY <1>2, <1>3, <1>4, <1>5, <1>6, <1>7, <1>8 DEF a, b, m

(* A concatenation that begins with h, and a read of as much from its      *)
(* first part.                                                             *)
LEMMA ReadFirst ==
  ASSUME NEW S, NEW tc \in Seq(S), NEW due \in Seq(S), NEW h \in Seq(S), NEW r \in Seq(S),
         tc \o due = h \o r, Len(h) <= Len(tc)
  PROVE  SubSeq(tc, 1, Len(h)) = h /\ Rest(tc, Len(h)) \o due = r
<1> DEFINE n == Len(h)
           a == SubSeq(tc, 1, n)
           b == Rest(tc, n)
<1>1. n \in Nat /\ n <= Len(tc)
  BY Lengths
<1>2. /\ a \in Seq(S) /\ Len(a) = n /\ b \in Seq(S) /\ a \o b = tc
  BY <1>1, Parts
<1>3. a \o (b \o due) = h \o r
  <2> HIDE DEF a, b, n
  <2>1. a \in Seq(S) /\ b \in Seq(S)
    BY <1>2
  <2>2. (a \o b) \o due = a \o (b \o due)
    BY <2>1, SMT
  <2> QED
    BY <1>2, <2>2
<1> HIDE DEF a, b, n
<1>4. b \o due \in Seq(S)
  BY <1>2, ConcatProperties
<1>5. ASSUME NEW k \in 1..n PROVE a[k] = h[k]
  <2>1. k <= Len(a) /\ k <= Len(h) /\ k \in 1..Len(a) + Len(b \o due) /\ k \in 1..Len(h) + Len(r)
    <3>1. Len(b \o due) \in Nat /\ Len(r) \in Nat
      BY <1>4, Lengths
    <3> QED
      BY <1>1, <1>2, <3>1 DEF n
  <2>2. (a \o (b \o due))[k] = a[k]
    BY <1>2, <1>4, <2>1, ConcatProperties
  <2>3. (h \o r)[k] = h[k]
    BY <2>1, ConcatProperties
  <2> QED
    BY <1>3, <2>2, <2>3
<1>6. a = h
  BY <1>2, <1>5, SeqEqual DEF n
<1>7. \A s, t, v \in Seq(S) : s \o t = s \o v => t = v
  BY ConcatSimplifications
<1>8. b \o due = r
  BY <1>2, <1>3, <1>4, <1>6, <1>7
<1> QED
  BY <1>6, <1>8 DEF a, b, n

(* Nothing but two empty sequences make an empty one.                      *)
LEMMA BothEmpty ==
  ASSUME NEW S, NEW a \in Seq(S), NEW b \in Seq(S)
  PROVE  Len(a \o b) = Len(a) + Len(b) /\ (a \o b = <<>> => a = <<>> /\ b = <<>>)
<1>1. \A T : \A s, t \in Seq(T) : s \o t = <<>> => s = <<>> /\ t = <<>>
  BY ConcatSimplifications
<1> QED
  BY <1>1, ConcatProperties

-----------------------------------------------------------------------------
(* The units of a message are all different in their part.                 *)
Kinds == {"FILE", "STAT", "EXIT", "name", "FOUND", "NOTFOUND", "size", "data", "count", "file"}
Values == Files \union {NoFile} \union Nat

(* A header is as long as it is meant to be, each unit of its own kind.    *)
LEMMA HeaderFacts ==
  ASSUME NEW kind \in Kinds, NEW value \in Values, NEW len \in Nat
  PROVE  /\ Header(kind, value, len) \in Seq(Units) /\ Len(Header(kind, value, len)) = len
         /\ \A k \in 1..len : Header(kind, value, len)[k] = <<kind, value, k>>
<1> DEFINE f == [k \in 1..len |-> <<kind, value, k>>]
<1>1. f \in [1..len -> Units]
  BY DEF Units, Kinds, Values
<1>2. f \in Seq(Units) /\ Len(f) = len
  BY <1>1
<1> QED
  BY <1>2 DEF Header

(* A header is recognised as its own kind and as no other.                 *)
LEMMA IsHeaderFacts ==
  ASSUME NEW kind \in Kinds, NEW value \in Values, NEW len \in Nat \ {0}, NEW other \in Kinds
  PROVE  /\ IsHeader(Header(kind, value, len), other) <=> kind = other
         /\ Header(kind, value, len) # <<>> /\ Header(kind, value, len)[1] = <<kind, value, 1>>
<1>1. /\ Header(kind, value, len) \in Seq(Units) /\ Len(Header(kind, value, len)) = len
      /\ \A k \in 1..len : Header(kind, value, len)[k] = <<kind, value, k>>
  BY HeaderFacts
<1>2. DOMAIN Header(kind, value, len) = 1..len /\ Header(kind, value, len) # <<>>
  BY <1>1, Lengths
<1>3. 1 \in 1..len
  OBVIOUS
<1>4. IsHeader(Header(kind, value, len), other) <=> kind = other
  BY <1>1, <1>2, <1>3 DEF IsHeader
<1> QED
  BY <1>1, <1>2, <1>3, <1>4

(* Pieces of a file.                                                       *)
LEMMA Pieces ==
  ASSUME NEW f \in Values, NEW a \in Nat, NEW b \in Nat, a <= b
  PROVE  /\ FileUnits(f, a, b) \in Seq(Units) /\ Len(FileUnits(f, a, b)) = b - a
         /\ \A k \in 1..b - a : FileUnits(f, a, b)[k] = <<"data", f, a + k>>
<1> DEFINE n == b - a
           g == [k \in 1..n |-> <<"data", f, a + k>>]
<1>1. n \in Nat
  OBVIOUS
<1>2. FileUnits(f, a, b) = g
  BY DEF FileUnits
<1> HIDE DEF n
<1>3. g \in [1..n -> Units]
  BY <1>1 DEF Units, Values
<1>4. g \in Seq(Units) /\ Len(g) = n
  BY <1>1, <1>3
<1> QED
  BY <1>2, <1>4 DEF n

(* Two pieces of a file that meet are one.                                 *)
LEMMA Joined ==
  ASSUME NEW f \in Values, NEW a \in Nat, NEW b \in Nat, NEW c \in Nat, a <= b, b <= c
  PROVE  FileUnits(f, a, b) \o FileUnits(f, b, c) = FileUnits(f, a, c)
<1> DEFINE x == FileUnits(f, a, b)
           y == FileUnits(f, b, c)
           z == FileUnits(f, a, c)
<1>1. /\ x \in Seq(Units) /\ Len(x) = b - a /\ \A k \in 1..b - a : x[k] = <<"data", f, a + k>>
      /\ y \in Seq(Units) /\ Len(y) = c - b /\ \A k \in 1..c - b : y[k] = <<"data", f, b + k>>
      /\ z \in Seq(Units) /\ Len(z) = c - a /\ \A k \in 1..c - a : z[k] = <<"data", f, a + k>>
  <2>1. a <= c
    OBVIOUS
  <2> QED
    BY <2>1, Pieces
<1> HIDE DEF x, y, z
<1>2. /\ x \o y \in Seq(Units) /\ Len(x \o y) = Len(x) + Len(y)
      /\ \A k \in 1..Len(x) + Len(y) : (x \o y)[k] = IF k <= Len(x) THEN x[k] ELSE y[k - Len(x)]
  BY <1>1, ConcatProperties
<1>3. Len(x \o y) = c - a
  BY <1>1, <1>2
<1>4. ASSUME NEW k \in 1..c - a PROVE (x \o y)[k] = z[k]
  <2>1. k \in 1..Len(x) + Len(y)
    BY <1>1
  <2>2. CASE k <= b - a
    <3>1. (x \o y)[k] = x[k] /\ k \in 1..b - a
      BY <1>1, <1>2, <2>1, <2>2
    <3> QED
      BY <1>1, <3>1
  <2>3. CASE k > b - a
    <3>1. k - (b - a) \in 1..c - b /\ b + (k - (b - a)) = a + k
      BY <2>3
    <3>2. (x \o y)[k] = y[k - (b - a)]
      BY <1>1, <1>2, <2>1, <2>3
    <3> QED
      BY <1>1, <3>1, <3>2
  <2>4. k <= b - a \/ k > b - a
    OBVIOUS
  <2> QED
    BY <2>2, <2>3, <2>4
<1>5. x \o y = z
  BY <1>1, <1>2, <1>3, <1>4, SeqEqual
<1> QED
  BY <1>5 DEF x, y, z

(* The beginning of a file is a piece of it.                               *)
LEMMA FirstPiece ==
  ASSUME NEW f \in Values, NEW n \in Nat, NEW x \in Seq(Units), NEW y \in Seq(Units),
         x \o y = FileUnits(f, 0, n)
  PROVE  x = FileUnits(f, 0, Len(x)) /\ Len(x) + Len(y) = n
<1>1. /\ FileUnits(f, 0, n) \in Seq(Units) /\ Len(FileUnits(f, 0, n)) = n
      /\ \A k \in 1..n : FileUnits(f, 0, n)[k] = <<"data", f, k>>
  <2>1. /\ FileUnits(f, 0, n) \in Seq(Units) /\ Len(FileUnits(f, 0, n)) = n - 0
        /\ \A k \in 1..n - 0 : FileUnits(f, 0, n)[k] = <<"data", f, 0 + k>>
    <3>1. 0 \in Nat /\ 0 <= n
      OBVIOUS
    <3> QED
      BY <3>1, Pieces
  <2>2. n - 0 = n /\ \A k \in 1..n : 0 + k = k
    OBVIOUS
  <2> QED
    BY <2>1, <2>2
<1>2. /\ Len(x \o y) = Len(x) + Len(y) /\ Len(x) \in Nat /\ Len(y) \in Nat
      /\ \A k \in 1..Len(x) + Len(y) : (x \o y)[k] = IF k <= Len(x) THEN x[k] ELSE y[k - Len(x)]
  BY ConcatProperties, Lengths
<1>3. Len(x) + Len(y) = n
  BY <1>1, <1>2
<1> DEFINE m == Len(x)
           z == FileUnits(f, 0, m)
<1>4. /\ m \in Nat /\ z \in Seq(Units) /\ Len(z) = m
      /\ \A k \in 1..m : z[k] = <<"data", f, k>>
  <2>1. /\ z \in Seq(Units) /\ Len(z) = m - 0
        /\ \A k \in 1..m - 0 : z[k] = <<"data", f, 0 + k>>
    <3>1. 0 \in Nat /\ 0 <= m
      BY <1>2
    <3> QED
      BY <1>2, <3>1, Pieces
  <2> HIDE DEF z, m
  <2>2. m - 0 = m /\ \A k \in 1..m : 0 + k = k
    BY <1>2 DEF m
  <2> QED
    BY <1>2, <2>1, <2>2 DEF m
<1> HIDE DEF z
<1>5. ASSUME NEW k \in 1..m PROVE x[k] = z[k]
  <2>1. k \in 1..n /\ k \in 1..Len(x) + Len(y) /\ k <= Len(x)
    BY <1>2, <1>3
  <2> QED
    BY <1>1, <1>2, <1>4, <2>1
<1>6. x = z
  BY <1>4, <1>5, SeqEqual
<1> QED
  BY <1>3, <1>6 DEF z

(* The statistics: the count, and a line for each file.                    *)
LEMMA StatisticsFacts ==
  ASSUME NEW n \in Nat, NEW files \in SUBSET Files
  PROVE  /\ Statistics(n, files) \in Seq(Units)
         /\ Len(Statistics(n, files)) = 1 + Cardinality(files) /\ Cardinality(files) \in Nat
         /\ Statistics(n, files)[1] = <<"count", n, 1>>
         /\ {Statistics(n, files)[k][2] : k \in 2..Len(Statistics(n, files))} = files
         /\ \A k \in 1..Len(Statistics(n, files)) : Statistics(n, files)[k][1] # "size"
<1> DEFINE lines == {<<"file", f, 1>> : f \in files}
           m == Cardinality(lines)
           q == SetToSeq(lines)
           first == <<<<"count", n, 1>>>>
<1>1. IsFiniteSet(files) /\ Cardinality(files) \in Nat
  BY TransferAssumption, FS_Subset, FS_CardinalityType
<1>2. IsFiniteSet(lines) /\ m = Cardinality(files)
  <2> DEFINE g == [f \in files |-> <<"file", f, 1>>]
  <2>1. g \in Bijection(files, lines)
    <3>1. g \in [files -> lines]
      OBVIOUS
    <3>2. \A a, b \in files : g[a] = g[b] => a = b
      OBVIOUS
    <3>3. \A l \in lines : \E f \in files : g[f] = l
      OBVIOUS
    <3> QED
      BY <3>1, <3>2, <3>3 DEF Bijection, Injection, Surjection, IsInjective
  <2>2. ExistsBijection(files, lines)
    BY <2>1 DEF ExistsBijection
  <2> QED
    BY <1>1, <2>2, FS_Bijection
<1>3. m \in Nat
  BY <1>1, <1>2
<1>4. \E p \in [1..m -> lines] : IsInjective(p)
  <2>1. ExistsBijection(1..m, lines)
    BY <1>2, FS_CardinalityType
  <2>2. PICK p : p \in Bijection(1..m, lines)
    BY <2>1 DEF ExistsBijection
  <2> QED
    BY <2>2 DEF Bijection, Injection
<1>5. q \in [1..m -> lines] /\ IsInjective(q)
  BY <1>4 DEF SetToSeq
<1>6. \A l \in lines : \E k \in 1..m : q[k] = l
  <2>1. q \in Injection(1..m, lines)
    BY <1>5 DEF Injection
  <2>2. Cardinality(1..m) = m
    BY <1>3, FS_Interval
  <2>3. q \in Surjection(1..m, lines)
    BY <1>2, <2>1, <2>2, FS_Injection
  <2> QED
    BY <2>3 DEF Surjection
<1>7. lines \subseteq Units
  BY DEF Units
<1> HIDE DEF lines
<1>8. q \in Seq(Units) /\ Len(q) = m
  BY <1>3, <1>5, <1>7
<1>9. first \in Seq(Units) /\ Len(first) = 1 /\ first[1] = <<"count", n, 1>>
  BY DEF Units
<1> HIDE DEF q, m, first
<1> DEFINE text == first \o q
<1>10. /\ text \in Seq(Units) /\ Len(text) = 1 + m
       /\ \A k \in 1..1 + m : text[k] = IF k <= 1 THEN first[k] ELSE q[k - 1]
  <2>1. /\ text \in Seq(Units) /\ Len(text) = Len(first) + Len(q)
        /\ \A k \in 1..Len(first) + Len(q) : text[k] = IF k <= Len(first) THEN first[k] ELSE q[k - Len(first)]
    BY <1>8, <1>9, ConcatProperties
  <2> HIDE DEF text
  <2> QED
    BY <1>3, <1>8, <1>9, <2>1
<1>11. Statistics(n, files) = text
  BY DEF Statistics, first, q, lines
<1> HIDE DEF text
<1>12. text[1] = <<"count", n, 1>>
  BY <1>3, <1>9, <1>10
<1>13. ASSUME NEW k \in 2..1 + m PROVE k - 1 \in 1..m /\ text[k] = q[k - 1] /\ q[k - 1] \in lines
  BY <1>3, <1>5, <1>10
<1>14. {text[k][2] : k \in 2..1 + m} = files
  <2>1. ASSUME NEW k \in 2..1 + m PROVE text[k][2] \in files
    BY <1>13 DEF lines
  <2>2. ASSUME NEW f \in files PROVE \E k \in 2..1 + m : text[k][2] = f
    <3>1. PICK j \in 1..m : q[j] = <<"file", f, 1>>
      BY <1>6 DEF lines
    <3>2. j + 1 \in 2..1 + m /\ (j + 1) - 1 = j
      BY <1>3
    <3>3. text[j + 1] = <<"file", f, 1>>
      BY <1>13, <3>1, <3>2
    <3> QED
      BY <3>2, <3>3
  <2> QED
    BY <2>1, <2>2
<1>15. \A k \in 1..1 + m : text[k][1] # "size"
  <2> TAKE k \in 1..1 + m
  <2>1. CASE k = 1
    BY <1>12, <2>1
  <2>2. CASE k # 1
    <3>1. k \in 2..1 + m
      BY <1>3, <2>2
    <3> QED
      BY <1>13, <3>1 DEF lines
  <2> QED
    BY <2>1, <2>2
<1> QED
  BY <1>1, <1>2, <1>10, <1>11, <1>12, <1>14, <1>15

-----------------------------------------------------------------------------
(* The types, connection by connection: s and c are the states of its two  *)
(* sides, ts and tc what is on its way.  A thread that runs holds its      *)
(* socket; a file that is open, or asked for, is one of the files; only    *)
(* sizes are sent as a size.                                               *)
ServerTyped(s) ==
  /\ s \in ServerStates
  /\ s.pc \notin {"none", "closed"} => s.open >= 1
  /\ s.pc \in {"reopen", "size", "send", "finish"} => s.fname \in Files

ClientTyped(c) ==
  c \in ClientStates /\ (c.pc \in {"name", "status", "size", "data", "saved"} => c.fname \in Files)

Sizes(tc) == \A k \in 1..Len(tc) : tc[k][1] = "size" => tc[k][2] \in Nat

Typed(s, c, ts, tc) == /\ ServerTyped(s) /\ ClientTyped(c)
                       /\ ts \in Seq(Units) /\ tc \in Seq(Units) /\ Sizes(tc)

(* What is sent to a server is commands and, after each "FILE", a name: so *)
(* that what it takes for a name is one, however the reads fall.           *)
EndsFile(unit) == unit[1] = "FILE" /\ unit[3] = HeaderLen

Expected(s, ts) == IF ts = <<>> THEN s.pc = "name" ELSE EndsFile(ts[Len(ts)])

Named(ts) ==
  /\ \A k \in 1..Len(ts) : ts[k][1] = "name" => ts[k][2] \in Files
  /\ \A k \in 1..Len(ts) : k # 1 /\ EndsFile(ts[k - 1]) => ts[k][1] = "name"

Asked(listening, s, c, ts) ==
  /\ Named(ts)
  /\ s.pc = "name" /\ ts # <<>> => ts[1][1] = "name"
  /\ listening /\ Expected(s, ts) => c.pc \in {"name", "gone"}

TypeInv ==
  /\ TypeOK
  /\ \A u \in Users : /\ Typed(server[u], client[u], toServer[u], toClient[u])
                      /\ Asked(Listening(u), server[u], client[u], toServer[u])

(* A step on one connection: the new states of its sides and its streams.  *)
On(u, s, c, ts, tc) == /\ server' = [server EXCEPT ![u] = s] /\ client' = [client EXCEPT ![u] = c]
                       /\ toServer' = [toServer EXCEPT ![u] = ts]
                       /\ toClient' = [toClient EXCEPT ![u] = tc]

(* A step on one connection leaves the others as they were.                *)
LEMMA OnOne ==
  ASSUME TypeOK, NEW u \in Users, NEW s, NEW c, NEW ts, NEW tc, On(u, s, c, ts, tc)
  PROVE  /\ server'[u] = s /\ client'[u] = c /\ toServer'[u] = ts /\ toClient'[u] = tc
         /\ \A v \in Users : v # u => /\ server'[v] = server[v] /\ client'[v] = client[v]
                                      /\ toServer'[v] = toServer[v] /\ toClient'[v] = toClient[v]
BY DEF TypeOK, On

(* What stays as it is was of its type.                                    *)
LEMMA Same ==
  ASSUME TypeOK, NEW u \in Users
  PROVE  /\ server = [server EXCEPT ![u] = server[u]] /\ client = [client EXCEPT ![u] = client[u]]
         /\ toServer = [toServer EXCEPT ![u] = toServer[u]]
         /\ toClient = [toClient EXCEPT ![u] = toClient[u]]
BY DEF TypeOK

(* A step on one connection keeps the types if it keeps them there, and no *)
(* server that had ended runs.                                             *)
LEMMA TypeInvOn ==
  ASSUME TypeInv, NEW u \in Users, NEW s, NEW c, NEW ts, NEW tc, On(u, s, c, ts, tc),
         Typed(s, c, ts, tc), Asked(up' /\ s.pc # "closed", s, c, ts),
         up' \in BOOLEAN, up' => up, disk' = disk,
         mishaps' \in Nat, sound' \in [Users -> BOOLEAN]
  PROVE  TypeInv'
<1>1. /\ server'[u] = s /\ client'[u] = c /\ toServer'[u] = ts /\ toClient'[u] = tc
      /\ \A v \in Users : v # u => /\ server'[v] = server[v] /\ client'[v] = client[v]
                                   /\ toServer'[v] = toServer[v] /\ toClient'[v] = toClient[v]
  BY OnOne DEF TypeInv
<1>2. s \in ServerStates /\ c \in ClientStates /\ ts \in Seq(Units) /\ tc \in Seq(Units)
  BY DEF Typed, ServerTyped, ClientTyped
<1>3. /\ server' \in [Users -> ServerStates] /\ client' \in [Users -> ClientStates]
      /\ toServer' \in [Users -> Seq(Units)] /\ toClient' \in [Users -> Seq(Units)]
  BY <1>2 DEF TypeInv, TypeOK, On
<1>4. TypeOK'
  BY <1>3 DEF TypeInv, TypeOK
<1>5. ASSUME NEW v \in Users
      PROVE  /\ Typed(server'[v], client'[v], toServer'[v], toClient'[v])
             /\ Asked(Listening(v)', server'[v], client'[v], toServer'[v])
  <2>1. CASE v = u
    BY <1>1, <2>1 DEF Listening
  <2>2. CASE v # u
    <3>1. Typed(server'[v], client'[v], toServer'[v], toClient'[v])
      BY <1>1, <2>2 DEF TypeInv
    <3>2. Listening(v)' => Listening(v)
      BY <1>1, <2>2 DEF Listening
    <3>3. Asked(Listening(v), server'[v], client'[v], toServer'[v])
      BY <1>1, <2>2 DEF TypeInv
    <3> QED
      BY <3>1, <3>2, <3>3 DEF Asked
  <2> QED
    BY <2>1, <2>2
<1> QED
  BY <1>4, <1>5 DEF TypeInv

-----------------------------------------------------------------------------
(* A server that goes on without reading, or reads something else.         *)
LEMMA AskedGoesOn ==
  ASSUME NEW before \in BOOLEAN, NEW after \in BOOLEAN, after => before,
         NEW s, NEW s2, NEW c, NEW ts, Asked(before, s, c, ts), s2.pc # "name"
  PROVE  Asked(after, s2, c, ts)
BY DEF Asked, Expected

(* Reading keeps what is asked: only a whole FILE lets the server expect a *)
(* name, and the name is the next thing in the stream.                     *)
LEMMA AskedRead ==
  ASSUME NEW before \in BOOLEAN, NEW after \in BOOLEAN, after => before,
         NEW s, NEW s2, NEW c, NEW ts \in Seq(Units), NEW n \in 1..Len(ts),
         Asked(before, s, c, ts),
         s2.pc = "name" => n = HeaderLen /\ IsHeader(SubSeq(ts, 1, n), "FILE")
  PROVE  Asked(after, s2, c, Rest(ts, n))
<1> DEFINE r == Rest(ts, n)
           l == Len(ts)
<1>1. l \in Nat /\ n \in Nat /\ n >= 1 /\ n <= l
  BY Lengths
<1>2. /\ r \in Seq(Units) /\ Len(r) = l - n /\ \A k \in 1..l - n : r[k] = ts[n + k]
      /\ SubSeq(ts, 1, n) \in Seq(Units) /\ Len(SubSeq(ts, 1, n)) = n
      /\ \A k \in 1..n : SubSeq(ts, 1, n)[k] = ts[k]
  BY <1>1, Parts
<1>3. r # <<>> <=> Len(r) >= 1
  BY <1>2, Lengths
<1>4. ts # <<>> /\ DOMAIN SubSeq(ts, 1, n) = 1..n
  BY <1>1, <1>2, Lengths
<1> HIDE DEF r
<1>5. Named(r)
  <2>1. ASSUME NEW k \in 1..Len(r) PROVE n + k \in 1..l /\ r[k] = ts[n + k]
    BY <1>1, <1>2
  <2>2. ASSUME NEW k \in 1..Len(r), k # 1 PROVE k - 1 \in 1..Len(r) /\ n + (k - 1) = (n + k) - 1 /\ n + k # 1
    BY <1>1, <1>2, <2>2
  <2>3. ASSUME NEW k \in 1..Len(r), r[k][1] = "name" PROVE r[k][2] \in Files
    BY <2>1, <2>3 DEF Asked, Named
  <2>4. ASSUME NEW k \in 1..Len(r), k # 1, EndsFile(r[k - 1]) PROVE r[k][1] = "name"
    <3>1. r[k - 1] = ts[n + (k - 1)]
      BY <2>1, <2>2, <2>4
    <3>2. EndsFile(ts[(n + k) - 1])
      BY <2>2, <2>4, <3>1
    <3> QED
      BY <2>1, <2>2, <2>4, <3>2 DEF Asked, Named
  <2> QED
    BY <2>3, <2>4 DEF Named
<1>6. r # <<>> => r[Len(r)] = ts[l]
  <2>1. r # <<>> => Len(r) \in 1..l - n /\ n + Len(r) = l
    BY <1>1, <1>2, <1>3
  <2> QED
    BY <1>2, <2>1
<1>7. s2.pc = "name" => EndsFile(ts[n])
  <2> SUFFICES ASSUME s2.pc = "name" PROVE EndsFile(ts[n])
    OBVIOUS
  <2>1. n = HeaderLen /\ n \in 1..n
    BY <1>1
  <2>2. ts[n][1] = "FILE" /\ ts[n][3] = n
    BY <1>2, <1>4, <2>1 DEF IsHeader
  <2> QED
    BY <2>1, <2>2 DEF EndsFile
<1>8. s2.pc = "name" /\ r # <<>> => r[1][1] = "name"
  <2> SUFFICES ASSUME s2.pc = "name", r # <<>> PROVE r[1][1] = "name"
    OBVIOUS
  <2>1. n + 1 \in 1..l /\ n + 1 # 1 /\ (n + 1) - 1 = n /\ r[1] = ts[n + 1]
    BY <1>1, <1>2, <1>3
  <2>2. EndsFile(ts[(n + 1) - 1])
    BY <1>7, <2>1
  <2> QED
    BY <2>1, <2>2 DEF Asked, Named
<1>9. r = <<>> => n = l
  BY <1>1, <1>2, <1>3
<1>10. Expected(s2, r) => Expected(s, ts)
  BY <1>4, <1>6, <1>7, <1>9 DEF Expected
<1> QED
  BY <1>5, <1>8, <1>10 DEF Asked, r

(* A client that goes on without writing.                                  *)
LEMMA AskedWaits ==
  ASSUME NEW listening \in BOOLEAN, NEW s, NEW c, NEW c2, NEW ts, Asked(listening, s, c, ts),
         c.pc \in {"name", "gone"} /\ listening => c2.pc \in {"name", "gone"}
  PROVE  Asked(listening, s, c2, ts)
BY DEF Asked

(* Writing a header keeps what is asked: after FILE comes the name of a    *)
(* regular file.                                                           *)
LEMMA AskedWrite ==
  ASSUME NEW s, NEW c, NEW c2, NEW ts \in Seq(Units), Asked(TRUE, s, c, ts),
         NEW kind \in {"FILE", "STAT", "EXIT", "name"}, NEW value \in Values,
         NEW len \in Nat \ {0},
         c.pc # "gone", c.pc = "name" => kind = "name",
         kind = "name" => value \in Files, kind = "FILE" => len = HeaderLen /\ c2.pc = "name"
  PROVE  Asked(TRUE, s, c2, ts \o Header(kind, value, len))
<1> DEFINE h == Header(kind, value, len)
           l == Len(ts)
           r == ts \o h
<1>1. kind \in Kinds /\ len \in Nat /\ len >= 1
  BY DEF Kinds
<1>2. h \in Seq(Units) /\ Len(h) = len /\ \A k \in 1..len : h[k] = <<kind, value, k>>
  BY <1>1, HeaderFacts
<1>3. l \in Nat /\ (ts # <<>> <=> l >= 1)
  BY Lengths
<1> HIDE DEF h, l
<1>4. /\ r \in Seq(Units) /\ Len(r) = l + len
      /\ \A k \in 1..l + len : r[k] = IF k <= l THEN ts[k] ELSE h[k - l]
  <2>1. /\ r \in Seq(Units) /\ Len(r) = Len(ts) + Len(h)
        /\ \A k \in 1..Len(ts) + Len(h) : r[k] = IF k <= Len(ts) THEN ts[k] ELSE h[k - Len(ts)]
    BY <1>2, ConcatProperties
  <2> HIDE DEF r
  <2> QED
    BY <1>2, <2>1 DEF l
<1> HIDE DEF r
<1>5. ASSUME NEW k \in 1..l PROVE k \in 1..l + len /\ r[k] = ts[k]
  BY <1>1, <1>3, <1>4
<1>6. ASSUME NEW k \in 1..len PROVE l + k \in 1..l + len /\ r[l + k] = <<kind, value, k>>
  <2>1. l + k \in 1..l + len /\ ~(l + k <= l) /\ (l + k) - l = k
    BY <1>1, <1>3
  <2>2. r[l + k] = h[(l + k) - l]
    BY <1>4, <2>1
  <2> QED
    BY <1>2, <2>1, <2>2
<1>7. ASSUME NEW k \in 1..l + len, k \notin 1..l PROVE k - l \in 1..len /\ l + (k - l) = k
  BY <1>1, <1>3, <1>7
<1>8. ts # <<>> /\ EndsFile(ts[l]) => kind = "name"
  BY DEF Asked, Expected, l
<1>9. Named(r)
  <2>1. ASSUME NEW k \in 1..l + len, r[k][1] = "name" PROVE r[k][2] \in Files
    <3>1. CASE k \in 1..l
      BY <1>5, <2>1, <3>1 DEF Asked, Named, l
    <3>2. CASE k \notin 1..l
      <4>1. r[k] = <<kind, value, k - l>>
        BY <1>6, <1>7, <3>2
      <4> QED
        BY <2>1, <4>1
    <3> QED
      BY <3>1, <3>2
  <2>2. ASSUME NEW k \in 1..l + len, k # 1, EndsFile(r[k - 1]) PROVE r[k][1] = "name"
    <3>1. CASE k \in 1..l
      <4>1. k - 1 \in 1..l
        BY <1>3, <2>2, <3>1
      <4>2. EndsFile(ts[k - 1]) /\ r[k] = ts[k]
        BY <1>5, <2>2, <3>1, <4>1
      <4> QED
        BY <2>2, <3>1, <4>2 DEF Asked, Named, l
    <3>2. CASE k = l + 1
      <4>1. k - 1 \in 1..l /\ k - 1 = l /\ k - l = 1 /\ k \notin 1..l
        BY <1>3, <2>2, <3>2
      <4>2. EndsFile(ts[l]) /\ ts # <<>>
        BY <1>3, <1>5, <2>2, <4>1
      <4>3. r[k] = <<kind, value, k - l>>
        BY <1>6, <1>7, <4>1
      <4> QED
        BY <1>8, <4>2, <4>3
    <3>3. CASE k \notin 1..l /\ k # l + 1
      <4>1. k - 1 \in 1..l + len /\ k - 1 \notin 1..l /\ (k - 1) - l < len
        BY <1>1, <1>3, <3>3
      <4>2. r[k - 1] = <<kind, value, (k - 1) - l>>
        BY <1>6, <1>7, <4>1
      <4>3. (k - 1) - l = HeaderLen /\ kind = "FILE"
        BY <2>2, <4>2 DEF EndsFile
      <4> QED
        BY <1>1, <4>1, <4>3
    <3> QED
      BY <3>1, <3>2, <3>3
  <2> QED
    BY <1>4, <2>1, <2>2 DEF Named
<1>10. r # <<>> /\ r[Len(r)] = <<kind, value, len>>
  <2>1. r # <<>>
    BY <1>1, <1>3, <1>4, Lengths
  <2> QED
    BY <1>1, <1>4, <1>6, <2>1
<1>11. Expected(s, r) => c2.pc = "name"
  BY <1>10 DEF Expected, EndsFile
<1>12. s.pc = "name" => r[1][1] = "name"
  <2>1. CASE ts # <<>>
    <3>1. 1 \in 1..l
      BY <1>3, <2>1
    <3> QED
      BY <1>5, <2>1, <3>1 DEF Asked
  <2>2. CASE ts = <<>>
    <3>1. s.pc = "name" => kind = "name"
      BY <2>2 DEF Asked, Expected
    <3>2. l = 0 /\ 1 \in 1..len /\ l + 1 = 1
      BY <1>1, <1>3, <2>2
    <3>3. r[1] = <<kind, value, 1>>
      BY <1>6, <3>2
    <3> QED
      BY <3>1, <3>3
  <2> QED
    BY <2>1, <2>2
<1> QED
  BY <1>9, <1>11, <1>12 DEF Asked, r, h

-----------------------------------------------------------------------------
(* Sizes stay sizes: what is left of a stream, and what is added to one.   *)
LEMMA SizesRest ==
  ASSUME NEW tc \in Seq(Units), Sizes(tc), NEW n \in 1..Len(tc)
  PROVE  /\ Rest(tc, n) \in Seq(Units) /\ Sizes(Rest(tc, n))
         /\ SubSeq(tc, 1, n) \in Seq(Units) /\ Sizes(SubSeq(tc, 1, n)) /\ Len(SubSeq(tc, 1, n)) = n
<1>1. n \in Nat /\ n <= Len(tc) /\ Len(tc) \in Nat
  BY Lengths
<1>2. /\ Rest(tc, n) \in Seq(Units) /\ Len(Rest(tc, n)) = Len(tc) - n
      /\ \A k \in 1..Len(tc) - n : Rest(tc, n)[k] = tc[n + k]
      /\ SubSeq(tc, 1, n) \in Seq(Units) /\ Len(SubSeq(tc, 1, n)) = n
      /\ \A k \in 1..n : SubSeq(tc, 1, n)[k] = tc[k]
  BY <1>1, Parts
<1>3. \A k \in 1..Len(tc) - n : n + k \in 1..Len(tc)
  BY <1>1
<1>4. \A k \in 1..n : k \in 1..Len(tc)
  BY <1>1
<1>5. Sizes(Rest(tc, n))
  BY <1>2, <1>3 DEF Sizes
<1>6. Sizes(SubSeq(tc, 1, n))
  BY <1>2, <1>4 DEF Sizes
<1> QED
  BY <1>2, <1>5, <1>6

(* More units, all sizes in bounds, keep the stream's sizes in bounds.     *)
LEMMA SizesMore ==
  ASSUME NEW tc \in Seq(Units), Sizes(tc), NEW units \in Seq(Units), Sizes(units)
  PROVE  tc \o units \in Seq(Units) /\ Sizes(tc \o units)
<1> DEFINE l == Len(tc)
           m == Len(units)
           r == tc \o units
<1>1. /\ r \in Seq(Units) /\ Len(r) = l + m
      /\ \A k \in 1..l + m : r[k] = IF k <= l THEN tc[k] ELSE units[k - l]
  BY ConcatProperties
<1>2. l \in Nat /\ m \in Nat
  BY Lengths
<1> HIDE DEF r, l, m
<1>3. ASSUME NEW k \in 1..l + m PROVE \/ (k \in 1..l /\ r[k] = tc[k])
                                       \/ (k - l \in 1..m /\ r[k] = units[k - l])
  BY <1>1, <1>2
<1>4. Sizes(r)
  BY <1>1, <1>3 DEF Sizes, l, m
<1> QED
  BY <1>1, <1>4 DEF r

(* A header is a stream whose sizes are in bounds.                         *)
LEMMA SizesHeader ==
  ASSUME NEW kind \in Kinds, NEW value \in Values, kind = "size" => value \in Nat
  PROVE  Header(kind, value, HeaderLen) \in Seq(Units) /\ Sizes(Header(kind, value, HeaderLen))
<1>1. HeaderLen \in Nat
  BY TransferAssumption
<1>2. /\ Header(kind, value, HeaderLen) \in Seq(Units) /\ Len(Header(kind, value, HeaderLen)) = HeaderLen
      /\ \A k \in 1..HeaderLen : Header(kind, value, HeaderLen)[k] = <<kind, value, k>>
  BY <1>1, HeaderFacts
<1> QED
  BY <1>2 DEF Sizes

-----------------------------------------------------------------------------
(* A step of the server on one connection that moves no stream, reads or   *)
(* writes.                                                                 *)
LEMMA ServerStays ==
  ASSUME TypeInv, NEW u \in Users, NEW from, NEW new, Serves(u, from, new), ServerTyped(new),
         from # "closed", new.pc # "name", up' \in BOOLEAN, UNCHANGED <<toServer, toClient, mishaps, sound>>
  PROVE  TypeInv'
<1>1. On(u, new, client[u], toServer[u], toClient[u]) /\ up /\ disk' = disk
  BY Same DEF TypeInv, Serves, On
<1>2. Typed(new, client[u], toServer[u], toClient[u])
  BY DEF TypeInv, Typed
<1>3. Asked(up' /\ new.pc # "closed", new, client[u], toServer[u])
  <2>1. Asked(TRUE, server[u], client[u], toServer[u])
    BY <1>1 DEF TypeInv, Listening, Serves
  <2> DEFINE after == up' /\ new.pc # "closed"
  <2>2. after \in BOOLEAN
    OBVIOUS
  <2> HIDE DEF after
  <2>3. Asked(after, new, client[u], toServer[u])
    BY <2>1, <2>2, AskedGoesOn
  <2> QED
    BY <2>3 DEF after
<1> QED
  BY <1>1, <1>2, <1>3, TypeInvOn DEF TypeInv, TypeOK

(* What is noted of mishaps is of its type.                                *)
LEMMA CostsTyped ==
  ASSUME TypeInv, NEW many \in Nat, Costs(many)
  PROVE  mishaps' \in Nat
BY DEF TypeInv, TypeOK, Costs

(* So is what is noted of soundness with it.                              *)
LEMMA NoteTyped ==
  ASSUME TypeInv, NEW u \in Users, NEW still \in BOOLEAN, StaysSound(u, still),
         NEW many \in Nat, Costs(many)
  PROVE  mishaps' \in Nat /\ sound' \in [Users -> BOOLEAN]
<1>1. sound' \in [Users -> BOOLEAN]
  BY DEF TypeInv, TypeOK, StaysSound
<1> QED
  BY <1>1, CostsTyped

(* The steps of the server that read keep the types.                       *)
LEMMA ServerReadsTyped ==
  ASSUME TypeInv, NEW u \in Users, NEW from, NEW new, Serves(u, from, new), ServerTyped(new),
         NEW len \in Nat, NEW n \in ReadLengths(toServer[u], len), NEW still \in BOOLEAN,
         ServerReads(u, n, len, still), from # "closed",
         new.pc = "name" => n = HeaderLen /\ IsHeader(SubSeq(toServer[u], 1, n), "FILE")
  PROVE  TypeInv'
<1>1. toServer[u] \in Seq(Units) /\ n \in 1..Len(toServer[u])
  BY Lengths DEF TypeInv, TypeOK, ReadLengths
<1>2. On(u, new, client[u], Rest(toServer[u], n), toClient[u]) /\ up /\ disk' = disk /\ up' = up
  BY Same DEF TypeInv, Serves, ServerReads, On
<1>3. Typed(new, client[u], Rest(toServer[u], n), toClient[u])
  <2>1. n \in Nat /\ n <= Len(toServer[u])
    BY <1>1, Lengths
  <2>2. Rest(toServer[u], n) \in Seq(Units)
    BY <1>1, <2>1, Parts
  <2> QED
    BY <2>2 DEF TypeInv, Typed
<1>4. Asked(up' /\ new.pc # "closed", new, client[u], Rest(toServer[u], n))
  <2>1. Asked(TRUE, server[u], client[u], toServer[u])
    BY <1>2 DEF TypeInv, Listening, Serves
  <2> DEFINE after == up' /\ new.pc # "closed"
  <2>2. after \in BOOLEAN
    BY <1>2 DEF TypeInv, TypeOK
  <2> HIDE DEF after
  <2>3. Asked(after, new, client[u], Rest(toServer[u], n))
    BY <1>1, <2>1, <2>2, AskedRead
  <2> QED
    BY <2>3 DEF after
<1>5. mishaps' \in Nat /\ sound' \in [Users -> BOOLEAN]
  <2>1. StaysSound(u, still) /\ Costs(If(n < len))
    BY DEF ServerReads
  <2>2. If(n < len) \in Nat
    BY DEF If
  <2> QED
    BY <2>1, <2>2, NoteTyped
<1> QED
  BY <1>2, <1>3, <1>4, <1>5, TypeInvOn DEF TypeInv, TypeOK

(* The steps of the server that write keep the types.                      *)
LEMMA ServerWritesTyped ==
  ASSUME TypeInv, NEW u \in Users, NEW from, NEW new, Serves(u, from, new), ServerTyped(new),
         from # "closed", new.pc # "name", NEW units \in Seq(Units), Sizes(units), ServerWrites(u, units)
  PROVE  TypeInv'
<1>1. toClient[u] \in Seq(Units) /\ Sizes(toClient[u]) /\ Typed(server[u], client[u], toServer[u], toClient[u])
  BY DEF TypeInv, Typed
<1>2. up' \in BOOLEAN /\ up /\ disk' = disk
  BY DEF TypeInv, TypeOK, Serves, ServerWrites
<1>3. Asked(TRUE, server[u], client[u], toServer[u])
  BY <1>2 DEF TypeInv, Listening, Serves
<1>4. Asked(up' /\ new.pc # "closed", new, client[u], toServer[u])
  <2> DEFINE after == up' /\ new.pc # "closed"
  <2>1. after \in BOOLEAN
    BY <1>2
  <2> HIDE DEF after
  <2>2. Asked(after, new, client[u], toServer[u])
    BY <1>3, <2>1, AskedGoesOn
  <2> QED
    BY <2>2 DEF after
<1>5. CASE Gone(u)
  <2>1. On(u, new, client[u], toServer[u], toClient[u])
    BY <1>5, Same DEF TypeInv, Serves, ServerWrites, On
  <2>2. Typed(new, client[u], toServer[u], toClient[u])
    BY <1>1 DEF Typed
  <2> QED
    BY <1>2, <1>4, <2>1, <2>2, TypeInvOn DEF TypeInv, TypeOK, ServerWrites
<1>6. CASE ~Gone(u)
  <2>1. On(u, new, client[u], toServer[u], toClient[u] \o units)
    BY <1>6, Same DEF TypeInv, Serves, ServerWrites, On
  <2>2. Typed(new, client[u], toServer[u], toClient[u] \o units)
    <3>1. toClient[u] \o units \in Seq(Units) /\ Sizes(toClient[u] \o units)
      BY <1>1, SizesMore
    <3> QED
      BY <1>1, <3>1 DEF Typed
  <2> QED
    BY <1>2, <1>4, <2>1, <2>2, TypeInvOn DEF TypeInv, TypeOK, ServerWrites
<1> QED
  BY <1>5, <1>6

-----------------------------------------------------------------------------
(* What the server's thread takes for a command, and where it goes on.     *)
LEMMA ReadCommandTyped ==
  ASSUME TypeInv, NEW u \in Users, ReadCommand(u)
  PROVE  TypeInv'
<1> DEFINE s == server[u]
           taken(n) == SubSeq(toServer[u], 1, n)
<1>1. PICK n \in ReadLengths(toServer[u], HeaderLen) :
        /\ Serves(u, "command", [s EXCEPT !.pc = CommandIn(taken(n)),
                                          !.open = AfterClose(@, CommandIn(taken(n)))])
        /\ ServerReads(u, n, HeaderLen, TRUE)
  BY DEF ReadCommand
<1> DEFINE next == CommandIn(taken(n))
           new == [s EXCEPT !.pc = next, !.open = AfterClose(@, next)]
<1>2. HeaderLen \in Nat \ {0} /\ n \in 1..HeaderLen /\ n <= Len(toServer[u])
  BY TransferAssumption DEF ReadLengths
<1>3. Len(taken(n)) = n
  <2>1. toServer[u] \in Seq(Units) /\ n \in Nat
    BY <1>2 DEF TypeInv, TypeOK
  <2> QED
    BY <1>2, <2>1, Parts
<1>4. /\ next \in {"closed", "name", "stat", "left", "command"}
      /\ next = "name" => n = HeaderLen /\ IsHeader(taken(n), "FILE")
  <2>1. CASE n < HeaderLen
    <3>1. next = "closed"
      BY <1>3, <2>1 DEF CommandIn
    <3> HIDE DEF next
    <3> QED
      BY <3>1
  <2>2. CASE ~(n < HeaderLen)
    <3>1. n = HeaderLen
      BY <1>2, <2>2
    <3>2. next = CASE IsHeader(taken(n), "FILE") -> "name"
                   [] IsHeader(taken(n), "STAT") -> "stat"
                   [] IsHeader(taken(n), "EXIT") -> "left"
                   [] OTHER -> "command"
      BY <1>3, <2>2 DEF CommandIn
    <3> HIDE DEF next, taken
    <3> QED
      BY <3>1, <3>2
  <2> QED
    BY <2>1, <2>2
<1>5. s \in ServerStates /\ s.pc = "command" /\ s.open >= 1
  BY <1>1 DEF TypeInv, Typed, ServerTyped, Serves
<1> HIDE DEF next
<1>6. ServerTyped(new) /\ new.pc = next
  <2>1. s.open \in Nat /\ AfterClose(s.open, next) \in Nat /\ (next # "closed" => AfterClose(s.open, next) >= 1)
    BY <1>5 DEF AfterClose, ServerStates
  <2> QED
    BY <1>4, <1>5, <2>1 DEF ServerTyped, ServerStates
<1>7. Serves(u, "command", new)
  BY <1>1 DEF next
<1>8. ServerReads(u, n, HeaderLen, TRUE)
  BY <1>1
<1> HIDE DEF new, taken
<1>9. new.pc = "name" => n = HeaderLen /\ IsHeader(SubSeq(toServer[u], 1, n), "FILE")
  BY <1>4, <1>6 DEF taken
<1> QED
  <2>1. "command" # "closed" /\ TRUE \in BOOLEAN /\ HeaderLen \in Nat
    BY <1>2
  <2>2. n \in ReadLengths(toServer[u], HeaderLen)
    OBVIOUS
  <2> QED
    BY <1>6, <1>7, <1>8, <1>9, <2>1, <2>2, ServerReadsTyped

(* What ReadName takes for a name is a file's or NoFile.                   *)
LEMMA ReadNameTyped ==
  ASSUME TypeInv, NEW u \in Users, ReadName(u)
  PROVE  TypeInv'
<1> DEFINE s == server[u]
           ts == toServer[u]
<1>1. PICK n \in ReadLengths(ts, NameLen) :
        /\ \E name \in {ts[1][2]} \union (IF n < NameLen THEN {NoFile} ELSE {}) :
             Serves(u, "name", [s EXCEPT !.pc = "measure", !.fname = name])
        /\ ServerReads(u, n, NameLen, n = NameLen)
  BY DEF ReadName
<1>2. PICK name \in {ts[1][2]} \union (IF n < NameLen THEN {NoFile} ELSE {}) :
        Serves(u, "name", [s EXCEPT !.pc = "measure", !.fname = name])
  BY <1>1
<1>3. NameLen \in Nat \ {0} /\ n \in 1..NameLen /\ n <= Len(ts)
  BY TransferAssumption DEF ReadLengths
<1>4. s \in ServerStates /\ s.pc = "name" /\ s.open >= 1
  BY <1>2 DEF TypeInv, Typed, ServerTyped, Serves
<1>5. ts \in Seq(Units) /\ Asked(Listening(u), s, client[u], ts)
  BY DEF TypeInv, TypeOK
<1>6. Len(ts) \in Nat /\ (ts # <<>> <=> Len(ts) >= 1)
  BY <1>5, Lengths
<1>7. ts # <<>> /\ 1 \in 1..Len(ts)
  BY <1>3, <1>6
<1>8. ts[1][2] \in Files
  BY <1>4, <1>5, <1>7 DEF Asked, Named
<1>9. name \in Files \union {NoFile}
  BY <1>8
<1> DEFINE new == [s EXCEPT !.pc = "measure", !.fname = name]
<1>10. ServerTyped(new) /\ new.pc = "measure"
  BY <1>4, <1>9 DEF ServerTyped, ServerStates
<1>11. Serves(u, "name", new) /\ ServerReads(u, n, NameLen, n = NameLen)
  BY <1>1, <1>2
<1>12. (n = NameLen) \in BOOLEAN
  OBVIOUS
<1> HIDE DEF new
<1> QED
  BY <1>3, <1>10, <1>11, <1>12, ServerReadsTyped

(* The steps that move no stream.                                          *)
LEMMA SilentServerTyped ==
  ASSUME TypeInv, NEW u \in Users,
         Accept(u) \/ ReadNothing(u) \/ Measure(u) \/ CloseNull(u) \/ FinishFile(u)
  PROVE  TypeInv'
<1> DEFINE s == server[u]
<1>1. s \in ServerStates /\ ServerTyped(s) /\ up \in BOOLEAN
  BY DEF TypeInv, TypeOK, Typed, ServerTyped
<1>2. CASE Accept(u)
  <2> DEFINE new == [s EXCEPT !.pc = "command", !.open = 1]
  <2>1. Serves(u, "none", new) /\ Silently
    BY <1>2 DEF Accept
  <2>2. new \in ServerStates /\ new.pc = "command" /\ new.open = 1
    BY <1>1 DEF ServerStates
  <2>3. ServerTyped(new)
    BY <2>2 DEF ServerTyped
  <2> HIDE DEF new
  <2> QED
    BY <1>1, <2>1, <2>2, <2>3, ServerStays DEF Silently
<1>3. CASE ReadNothing(u)
  <2>1. CASE Serves(u, "command", [s EXCEPT !.pc = "closed", !.open = AfterClose(@, "closed")])
    <3> DEFINE new == [s EXCEPT !.pc = "closed", !.open = AfterClose(@, "closed")]
    <3>1. s.pc = "command" /\ s.open \in Nat /\ s.open >= 1 /\ s.open - 1 \in Nat
      BY <1>1, <2>1 DEF Serves, ServerTyped, ServerStates
    <3>2. AfterClose(s.open, "closed") = s.open - 1
      BY DEF AfterClose
    <3>3. ServerTyped(new) /\ new.pc = "closed" /\ Serves(u, "command", new) /\ Silently
      BY <1>1, <1>3, <2>1, <3>1, <3>2 DEF ServerTyped, ServerStates, ReadNothing
    <3> HIDE DEF new
    <3> QED
      BY <1>1, <3>3, ServerStays DEF Silently
  <2>2. CASE Serves(u, "name", [s EXCEPT !.pc = "command"])
    <3> DEFINE new == [s EXCEPT !.pc = "command"]
    <3>1. s.pc = "name"
      BY <2>2 DEF Serves
    <3>2. ServerTyped(new) /\ new.pc = "command" /\ Serves(u, "name", new) /\ Silently
      BY <1>1, <1>3, <2>2, <3>1 DEF ServerTyped, ServerStates, ReadNothing
    <3> HIDE DEF new
    <3> QED
      BY <1>1, <3>2, ServerStays DEF Silently
  <2> QED
    BY <1>3, <2>1, <2>2 DEF ReadNothing
<1>4. CASE Measure(u)
  <2> DEFINE new == [s EXCEPT !.pc = "reopen", !.size = disk[s.fname]]
  <2>1. /\ s.fname \in Files /\ disk[s.fname] # -1
        /\ Serves(u, "measure", new) /\ Silently /\ s.pc = "measure"
    BY <1>4 DEF Measure, CanOpen, Exists, Serves
  <2>2. disk[s.fname] \in 0..MaxSize
    <3>1. disk[s.fname] \in -1..MaxSize /\ MaxSize \in Nat
      BY <2>1, TransferAssumption DEF TypeInv, TypeOK
    <3> QED
      BY <2>1, <3>1
  <2>3. ServerTyped(new) /\ new.pc = "reopen"
    BY <1>1, <2>1, <2>2 DEF ServerTyped, ServerStates
  <2> HIDE DEF new
  <2> QED
    BY <1>1, <2>1, <2>3, ServerStays DEF Silently
<1>5. CASE CloseNull(u)
  <2>1. Serves(u, "measure", s) /\ up' = FALSE /\ s.pc = "measure" /\ UNCHANGED <<toServer, toClient, mishaps, sound>>
    BY <1>5 DEF CloseNull, Serves
  <2> HIDE DEF s
  <2> QED
    BY <1>1, <2>1, ServerStays
<1>6. CASE FinishFile(u)
  <2> DEFINE new == [s EXCEPT !.pc = "command", !.filesDownloaded = @ \union {s.fname}]
  <2>1. PICK from \in {"finish", "send"} : Serves(u, from, new)
    BY <1>6 DEF FinishFile
  <2>2. s.fname \in Files /\ s.open >= 1 /\ Silently
    BY <1>1, <1>6, <2>1 DEF FinishFile, Serves, ServerTyped
  <2>3. ServerTyped(new) /\ new.pc = "command"
    BY <1>1, <2>2 DEF ServerTyped, ServerStates
  <2> HIDE DEF new
  <2> QED
    BY <1>1, <2>1, <2>2, <2>3, ServerStays DEF Silently
<1> QED
  BY <1>2, <1>3, <1>4, <1>5, <1>6

(* The steps that write.                                                   *)
LEMMA SendChunkTyped ==
  ASSUME TypeInv, NEW u \in Users, SendChunk(u)
  PROVE  TypeInv'
<1> DEFINE s == server[u]
           ahead == disk[s.fname] - s.offset
<1>1. PICK next \in {"send", "finish"} :
        Serves(u, "send", [s EXCEPT !.pc = next, !.offset = @ + Available(u),
                                    !.numBytesSent = @ + Available(u)])
  BY DEF SendChunk, Turn
<1>2. /\ Available(u) > 0 /\ s.pc = "send"
      /\ ServerWrites(u, FileUnits(s.fname, s.offset, s.offset + Available(u)))
  BY DEF SendChunk, Turn
<1>3. s \in ServerStates /\ s.fname \in Files /\ s.open >= 1
  BY <1>2 DEF TypeInv, Typed, ServerTyped
<1>4. disk[s.fname] \in -1..MaxSize /\ MaxSize \in Nat /\ Chunk \in Nat /\ s.offset \in 0..MaxSize /\ s.numBytesSent \in Nat
  BY <1>3, TransferAssumption DEF TypeInv, TypeOK, ServerStates
<1> DEFINE step == Available(u)
<1>5. step \in Nat /\ s.offset + step \in 0..MaxSize /\ s.numBytesSent + step \in Nat
  <2>1. step = IF disk[s.fname] - s.offset > Chunk THEN Chunk ELSE disk[s.fname] - s.offset
    BY DEF Available
  <2> QED
    BY <1>2, <1>4, <2>1
<1> HIDE DEF step
<1> DEFINE new == [s EXCEPT !.pc = next, !.offset = @ + step, !.numBytesSent = @ + step]
           units == FileUnits(s.fname, s.offset, s.offset + step)
<1>6. ServerTyped(new) /\ new.pc = next
  BY <1>3, <1>5 DEF ServerTyped, ServerStates
<1>7. units \in Seq(Units) /\ Sizes(units)
  <2>1. s.fname \in Values /\ s.offset \in Nat /\ s.offset + step \in Nat /\ s.offset <= s.offset + step
    BY <1>3, <1>4, <1>5 DEF Values
  <2> DEFINE to == s.offset + step
  <2>2. /\ FileUnits(s.fname, s.offset, to) \in Seq(Units) /\ Len(FileUnits(s.fname, s.offset, to)) = to - s.offset
        /\ \A k \in 1..to - s.offset : FileUnits(s.fname, s.offset, to)[k] = <<"data", s.fname, s.offset + k>>
    <3> HIDE DEF to
    <3> QED
      BY <2>1, Pieces DEF to
  <2>3. /\ units \in Seq(Units) /\ Len(units) = to - s.offset
        /\ \A k \in 1..to - s.offset : units[k] = <<"data", s.fname, s.offset + k>>
    BY <2>2
  <2> HIDE DEF units
  <2> QED
    BY <2>3 DEF Sizes
<1>8. Serves(u, "send", new) /\ ServerWrites(u, units)
  BY <1>1, <1>2 DEF step
<1> HIDE DEF new, units
<1> QED
  BY <1>6, <1>7, <1>8, ServerWritesTyped

(* So do the answers other than the bytes of a file.                       *)
LEMMA HeaderServerTyped ==
  ASSUME TypeInv, NEW u \in Users,
         Reopen(u) \/ NotFound(u) \/ SendSize(u) \/ SendStatSize(u) \/ SendStat(u)
  PROVE  TypeInv'
<1> DEFINE s == server[u]
<1>1. s \in ServerStates /\ ServerTyped(s) /\ s.open \in Nat /\ s.size \in Nat /\ s.numBytesSent \in Nat
  BY DEF TypeInv, Typed, ServerTyped, ServerStates
<1>2. {0, s.size, 1 + Cardinality(s.filesDownloaded)} \subseteq Nat /\ Nat \subseteq Values
      /\ s.filesDownloaded \in SUBSET Files
  <2>1. s.filesDownloaded \in SUBSET Files
    BY <1>1 DEF ServerStates
  <2>2. Cardinality(s.filesDownloaded) \in Nat
    BY <2>1, TransferAssumption, FS_Subset, FS_CardinalityType
  <2> QED
    BY <1>1, <2>1, <2>2 DEF Values
<1>3. CASE Reopen(u)
  <2> DEFINE new == [s EXCEPT !.pc = "size", !.offset = 0, !.open = @ + 1]
             units == Header("FOUND", 0, HeaderLen)
  <2>1. Serves(u, "reopen", new) /\ ServerWrites(u, units) /\ s.pc = "reopen"
    BY <1>3 DEF Reopen, Serves
  <2>2. s.open + 1 \in Nat /\ s.open + 1 >= 1 /\ 0 \in 0..MaxSize
    BY <1>1, TransferAssumption
  <2>3. ServerTyped(new) /\ new.pc = "size"
    BY <1>1, <2>1, <2>2 DEF ServerTyped, ServerStates
  <2>4. units \in Seq(Units) /\ Sizes(units)
    BY <1>2, SizesHeader DEF Kinds
  <2> HIDE DEF new, units
  <2> QED
    BY <2>1, <2>3, <2>4, ServerWritesTyped
<1>4. CASE NotFound(u)
  <2> DEFINE new == [s EXCEPT !.pc = "command"]
             units == Header("NOTFOUND", 0, HeaderLen)
  <2>1. Serves(u, "reopen", new) /\ ServerWrites(u, units) /\ s.pc = "reopen"
    BY <1>4 DEF NotFound, Serves
  <2>2. ServerTyped(new) /\ new.pc = "command"
    BY <1>1, <2>1 DEF ServerTyped, ServerStates
  <2>3. units \in Seq(Units) /\ Sizes(units)
    BY <1>2, SizesHeader DEF Kinds
  <2> HIDE DEF new, units
  <2> QED
    BY <2>1, <2>2, <2>3, ServerWritesTyped
<1>5. CASE SendSize(u)
  <2> DEFINE new == [s EXCEPT !.pc = "send"]
             units == Header("size", s.size, HeaderLen)
  <2>1. Serves(u, "size", new) /\ ServerWrites(u, units) /\ s.pc = "size"
    BY <1>5 DEF SendSize, Serves
  <2>2. ServerTyped(new) /\ new.pc = "send"
    BY <1>1, <2>1 DEF ServerTyped, ServerStates
  <2>3. units \in Seq(Units) /\ Sizes(units)
    BY <1>2, SizesHeader DEF Kinds
  <2> HIDE DEF new, units
  <2> QED
    BY <2>1, <2>2, <2>3, ServerWritesTyped
<1>6. CASE SendStatSize(u)
  <2> DEFINE new == [s EXCEPT !.pc = "text"]
             size == 1 + Cardinality(s.filesDownloaded)
             units == Header("size", size, HeaderLen)
  <2>1. Serves(u, "stat", new) /\ ServerWrites(u, units) /\ s.pc = "stat"
    BY <1>6 DEF SendStatSize, SendSizeOfText, Serves
  <2>2. ServerTyped(new) /\ new.pc = "text"
    BY <1>1, <2>1 DEF ServerTyped, ServerStates
  <2>3. units \in Seq(Units) /\ Sizes(units)
    <3>1. size \in Nat /\ size \in Values
      BY <1>2
    <3> HIDE DEF size
    <3> QED
      BY <3>1, SizesHeader DEF Kinds
  <2> HIDE DEF new, units
  <2> QED
    BY <2>1, <2>2, <2>3, ServerWritesTyped
<1>7. CASE SendStat(u)
  <2> DEFINE new == [s EXCEPT !.pc = "command"]
             units == Statistics(s.numBytesSent, s.filesDownloaded)
  <2>1. Serves(u, "text", new) /\ ServerWrites(u, units) /\ s.pc = "text"
    BY <1>7 DEF SendStat, Serves
  <2>2. ServerTyped(new) /\ new.pc = "command"
    BY <1>1, <2>1 DEF ServerTyped, ServerStates
  <2>3. units \in Seq(Units) /\ \A k \in 1..Len(units) : units[k][1] # "size"
    BY <1>1, <1>2, StatisticsFacts
  <2>4. Sizes(units)
    BY <2>3 DEF Sizes
  <2> HIDE DEF new, units
  <2> QED
    BY <2>1, <2>2, <2>3, <2>4, ServerWritesTyped
<1> QED
  BY <1>3, <1>4, <1>5, <1>6, <1>7

(* Every step of the server keeps the types.                               *)
LEMMA ServerTypes ==
  ASSUME TypeInv, NEW u \in Users, serve(u)
  PROVE  TypeInv'
BY ReadCommandTyped, ReadNameTyped, SilentServerTyped, SendChunkTyped, HeaderServerTyped DEF serve

-----------------------------------------------------------------------------
(* A step of the client on its connection that reads, loses what it had to *)
(* read, moves no stream, or writes.                                       *)
LEMMA ClientOn ==
  ASSUME TypeInv, NEW u \in Users, NEW from, NEW new, Acts(u, from, new), ClientTyped(new),
         from \in {"name", "gone"} /\ Listening(u) => new.pc \in {"name", "gone"},
         NEW tc \in Seq(Units), Sizes(tc), toClient' = [toClient EXCEPT ![u] = tc],
         toServer' = toServer, mishaps' \in Nat, sound' \in [Users -> BOOLEAN]
  PROVE  TypeInv'
<1>1. On(u, server[u], new, toServer[u], tc) /\ disk' = disk /\ up' = up /\ client[u].pc = from
  BY Same DEF TypeInv, Acts, On
<1>2. Typed(server[u], new, toServer[u], tc)
  BY DEF TypeInv, Typed
<1>3. Asked(up' /\ server[u].pc # "closed", server[u], new, toServer[u])
  <2>1. Asked(Listening(u), server[u], client[u], toServer[u]) /\ Listening(u) \in BOOLEAN
    BY DEF TypeInv, TypeOK, Listening
  <2>2. Asked(Listening(u), server[u], new, toServer[u])
    BY <1>1, <2>1, AskedWaits
  <2>3. Listening(u) = (up' /\ server[u].pc # "closed")
    BY <1>1 DEF Listening
  <2> QED
    BY <2>2, <2>3
<1> QED
  BY <1>1, <1>2, <1>3, TypeInvOn DEF TypeInv, TypeOK

(* A client that reads keeps the types ...                                 *)
LEMMA ClientReadsTyped ==
  ASSUME TypeInv, NEW u \in Users, NEW from, NEW new, Acts(u, from, new), ClientTyped(new),
         from \notin {"name", "gone"}, NEW max, NEW n \in ReadLengths(toClient[u], max),
         max \in Nat, ClientReads(u, n), mishaps' \in Nat, sound' \in [Users -> BOOLEAN]
  PROVE  TypeInv'
<1>1. toClient[u] \in Seq(Units) /\ Sizes(toClient[u])
  BY DEF TypeInv, Typed
<1>2. n \in 1..Len(toClient[u])
  BY <1>1, Lengths DEF ReadLengths
<1>3. Rest(toClient[u], n) \in Seq(Units) /\ Sizes(Rest(toClient[u], n))
  BY <1>1, <1>2, SizesRest
<1>4. toClient' = [toClient EXCEPT ![u] = Rest(toClient[u], n)] /\ toServer' = toServer
  BY DEF ClientReads
<1> QED
  BY <1>3, <1>4, ClientOn

(* ... as does one that leaves the streams alone.                          *)
LEMMA ClientStaysTyped ==
  ASSUME TypeInv, NEW u \in Users, NEW from, NEW new, Acts(u, from, new), ClientTyped(new),
         from \in {"name", "gone"} /\ Listening(u) => new.pc \in {"name", "gone"},
         UNCHANGED <<toServer, toClient, mishaps, sound>>
  PROVE  TypeInv'
<1>1. toClient[u] \in Seq(Units) /\ Sizes(toClient[u])
  BY DEF TypeInv, Typed
<1>2. toClient' = [toClient EXCEPT ![u] = toClient[u]]
  BY Same DEF TypeInv
<1> QED
  BY <1>1, <1>2, ClientOn DEF TypeInv, TypeOK

(* A client that writes a header keeps the types.                          *)
LEMMA ClientWritesTyped ==
  ASSUME TypeInv, NEW u \in Users, NEW from, NEW new,
         NEW kind \in {"FILE", "STAT", "EXIT", "name"}, NEW value \in Values,
         NEW len \in Nat \ {0}, Writes(u, from, new, Header(kind, value, len)), ClientTyped(new),
         from # "gone", from = "name" => kind = "name", kind = "name" => value \in Files,
         kind = "FILE" => len = HeaderLen /\ new.pc = "name"
  PROVE  TypeInv'
<1> DEFINE h == Header(kind, value, len)
<1>1. h \in Seq(Units)
  BY HeaderFacts DEF Kinds
<1>2. mishaps' = mishaps /\ sound' = sound /\ toClient' = toClient
  BY DEF Writes
<1>3. CASE Listening(u)
  <2>1. Acts(u, from, new) /\ toServer' = [toServer EXCEPT ![u] = @ \o h]
    BY <1>3 DEF Writes
  <2>2. On(u, server[u], new, toServer[u] \o h, toClient[u]) /\ disk' = disk /\ up' = up
        /\ client[u].pc = from
    BY <1>2, <2>1, Same DEF TypeInv, Acts, On
  <2>3. Typed(server[u], client[u], toServer[u], toClient[u])
    BY DEF TypeInv
  <2>4. toServer[u] \o h \in Seq(Units)
    BY <1>1, <2>3, ConcatProperties DEF Typed
  <2>5. Typed(server[u], new, toServer[u] \o h, toClient[u])
    BY <2>3, <2>4 DEF Typed
  <2>6. Asked(TRUE, server[u], client[u], toServer[u]) /\ toServer[u] \in Seq(Units)
    BY <1>3, <2>3 DEF TypeInv, Typed
  <2>7. Asked(TRUE, server[u], new, toServer[u] \o h)
    BY <2>2, <2>6, AskedWrite
  <2>8. (up' /\ server[u].pc # "closed") = TRUE
    BY <1>3, <2>2 DEF Listening
  <2>9. Asked(up' /\ server[u].pc # "closed", server[u], new, toServer[u] \o h)
    BY <2>7, <2>8
  <2> QED
    BY <1>2, <2>2, <2>5, <2>9, TypeInvOn DEF TypeInv, TypeOK
<1>4. CASE ~Listening(u)
  <2>1. UNCHANGED <<toServer, toClient, mishaps, sound>>
    BY <1>2, <1>4 DEF Writes
  <2>2. CASE Acts(u, from, new)
    BY <1>4, <2>1, <2>2, ClientStaysTyped
  <2>3. CASE Acts(u, from, [client[u] EXCEPT !.pc = "gone"])
    <3> DEFINE gone == [client[u] EXCEPT !.pc = "gone"]
    <3>1. client[u] \in ClientStates
      BY DEF TypeInv, TypeOK
    <3>2. ClientTyped(gone) /\ gone.pc = "gone"
      BY <3>1 DEF ClientTyped, ClientStates
    <3>3. Acts(u, from, gone)
      BY <2>3
    <3> HIDE DEF gone
    <3> QED
      BY <2>1, <3>2, <3>3, ClientStaysTyped
  <2> QED
    BY <2>2, <2>3 DEF Writes
<1> QED
  BY <1>3, <1>4

-----------------------------------------------------------------------------
(* What the user types, and the name that follows.                         *)
LEMMA CommandTyped ==
  ASSUME TypeInv, NEW u \in Users, Types(u) \/ SendName(u)
  PROVE  TypeInv'
<1> DEFINE c == client[u]
<1>1. c \in ClientStates /\ ClientTyped(c) /\ HeaderLen \in Nat \ {0} /\ NameLen \in Nat \ {0}
  BY TransferAssumption DEF TypeInv, Typed, ClientTyped
<1>2. 0 \in Values /\ Files \subseteq Values /\ <<>> \in Seq(Units)
  BY DEF Values
<1>3. ASSUME NEW kind \in {"FILE", "STAT", "EXIT"}, NEW typed, Command(u, kind, typed),
             typed \in ClientStates, typed.pc \in {"name", "statsize", "gone"},
             typed.commands = c.commands, typed.pc = "name" => typed.fname \in Files,
             kind = "FILE" => typed.pc = "name"
      PROVE  TypeInv'
  <2> DEFINE new == [typed EXCEPT !.commands = @ - 1, !.response = <<>>]
  <2>1. c.commands > 0 /\ Writes(u, "prompt", new, Header(kind, 0, HeaderLen))
    BY <1>3 DEF Command
  <2>2. typed.commands - 1 \in Nat
    BY <1>1, <1>3, <2>1 DEF ClientStates
  <2>3. new \in ClientStates /\ new.pc = typed.pc /\ new.fname = typed.fname
    BY <1>2, <1>3, <2>2 DEF ClientStates
  <2>4. ClientTyped(new)
    BY <1>3, <2>3 DEF ClientTyped
  <2> HIDE DEF new
  <2> QED
    BY <1>1, <1>2, <1>3, <2>1, <2>3, <2>4, ClientWritesTyped
<1>4. CASE AskStat(u)
  <2> DEFINE typed == [c EXCEPT !.pc = "statsize"]
  <2>1. typed \in ClientStates /\ typed.pc = "statsize" /\ typed.commands = c.commands
    BY <1>1 DEF ClientStates
  <2>2. Command(u, "STAT", typed)
    BY <1>4 DEF AskStat
  <2> HIDE DEF typed, c
  <2> QED
    BY <1>3, <2>1, <2>2
<1>5. CASE Exit(u)
  <2> DEFINE typed == [c EXCEPT !.pc = "gone"]
  <2>1. typed \in ClientStates /\ typed.pc = "gone" /\ typed.commands = c.commands
    BY <1>1 DEF ClientStates
  <2>2. Command(u, "EXIT", typed)
    BY <1>5 DEF Exit
  <2> HIDE DEF typed, c
  <2> QED
    BY <1>3, <2>1, <2>2
<1>6. ASSUME NEW f \in Files, AskFile(u, f) PROVE TypeInv'
  <2> DEFINE typed == [c EXCEPT !.pc = "name", !.fname = f]
  <2>1. typed \in ClientStates /\ typed.pc = "name" /\ typed.commands = c.commands /\ typed.fname = f
    BY <1>1 DEF ClientStates
  <2>2. Command(u, "FILE", typed)
    BY <1>6 DEF AskFile
  <2> HIDE DEF typed, c
  <2> QED
    BY <1>3, <2>1, <2>2
<1>7. CASE SendName(u)
  <2> DEFINE new == [c EXCEPT !.pc = "status"]
  <2>1. Writes(u, "name", new, Header("name", c.fname, NameLen))
    BY <1>7 DEF SendName
  <2>2. c.pc = "name"
    BY <2>1 DEF Writes, Acts
  <2>3. c.fname \in Files
    BY <1>1, <2>2 DEF ClientTyped
  <2>4. new \in ClientStates /\ new.pc = "status" /\ new.fname = c.fname
    BY <1>1 DEF ClientStates
  <2>5. ClientTyped(new)
    BY <2>3, <2>4 DEF ClientTyped
  <2> HIDE DEF new, c
  <2> QED
    BY <1>1, <1>2, <2>1, <2>3, <2>5, ClientWritesTyped
<1> QED
  BY <1>4, <1>5, <1>6, <1>7 DEF Types

(* What the client reads.                                                  *)
LEMMA ReadStatusTyped ==
  ASSUME TypeInv, NEW u \in Users, ReadStatus(u)
  PROVE  TypeInv'
<1> DEFINE c == client[u]
<1>1. PICK n \in ReadLengths(toClient[u], HeaderLen), next \in {"size", "prompt"} :
        /\ Acts(u, "status", [c EXCEPT !.pc = next])
        /\ ClientReads(u, n) /\ StaysSound(u, n = HeaderLen) /\ Costs(If(n < HeaderLen))
  BY DEF ReadStatus
<1> DEFINE new == [c EXCEPT !.pc = next]
<1>2. c \in ClientStates /\ c.pc = "status" /\ ClientTyped(c)
  BY <1>1 DEF TypeInv, Typed, ClientTyped, Acts
<1>3. ClientTyped(new)
  BY <1>2 DEF ClientTyped, ClientStates
<1>4. HeaderLen \in Nat /\ (n = HeaderLen) \in BOOLEAN /\ If(n < HeaderLen) \in Nat
  BY TransferAssumption DEF If
<1>5. Acts(u, "status", new)
  BY <1>1
<1>6. mishaps' \in Nat /\ sound' \in [Users -> BOOLEAN]
  BY <1>1, <1>4, NoteTyped
<1> HIDE DEF new
<1> QED
  BY <1>1, <1>3, <1>4, <1>5, <1>6, ClientReadsTyped

(* The client takes a number for a size, or ends.                          *)
LEMMA ReadSizeTyped ==
  ASSUME TypeInv, NEW u \in Users, ReadFileSize(u) \/ ReadStatSize(u)
  PROVE  TypeInv'
<1> DEFINE c == client[u]
           tc == toClient[u]
           taken(n) == SubSeq(tc, 1, n)
<1>1. c \in ClientStates /\ ClientTyped(c) /\ <<>> \in Seq(Units) /\ HeaderLen \in Nat
  BY TransferAssumption DEF TypeInv, Typed, ClientTyped
<1>2. ASSUME NEW n \in ReadLengths(tc, HeaderLen), NEW size \in stoi(taken(n)) PROVE size \in Int
  <2>1. tc \in Seq(Units) /\ Sizes(tc) /\ n \in 1..Len(tc)
    BY <1>1, Lengths DEF TypeInv, Typed, ReadLengths
  <2>2. taken(n) \in Seq(Units) /\ Sizes(taken(n)) /\ Len(taken(n)) = n
    BY <2>1, SizesRest
  <2>3. 1 \in 1..n /\ DOMAIN taken(n) = 1..n
    BY <2>1, <2>2, Lengths
  <2>4. CASE IsHeader(taken(n), "size")
    <3>1. taken(n)[1][2] \in Nat
      BY <2>2, <2>3, <2>4 DEF Sizes, IsHeader
    <3> HIDE DEF taken
    <3>2. size \in {taken(n)[1][2]} \union 1..taken(n)[1][2]
      BY <1>2, <2>4 DEF stoi
    <3> QED
      BY <3>1, <3>2
  <2>5. CASE ~IsHeader(taken(n), "size")
    <3>1. size \in -1..MaxSize
      BY <1>2, <2>5 DEF stoi
    <3> QED
      BY <3>1, TransferAssumption
  <2> QED
    BY <2>4, <2>5
<1>3. ASSUME NEW from \in {"size", "statsize"}, NEW next, NEW atZero, NEW opened \in ClientStates,
             c.pc = from, opened.fname = c.fname,
             <<next, atZero>> \in {<<"data", "saved">>, <<"stats", "prompt">>},
             next = "data" => from = "size", NEW cost \in Nat,
             ReadSize(u, from, opened, next, atZero, cost)
      PROVE  TypeInv'
  <2>1. PICK n \in ReadLengths(tc, HeaderLen) :
          /\ \/ Acts(u, from, [c EXCEPT !.pc = "gone"])
             \/ \E size \in stoi(taken(n)) :
                  Acts(u, from, [opened EXCEPT !.pc = IF size = 0 THEN atZero ELSE next, !.size = size])
          /\ ClientReads(u, n) /\ StaysSound(u, n = HeaderLen)
          /\ Costs(If(n < HeaderLen) + cost)
    BY <1>3 DEF ReadSize
  <2>2. If(n < HeaderLen) + cost \in Nat /\ (n = HeaderLen) \in BOOLEAN
    BY <1>3 DEF If
  <2>3. mishaps' \in Nat /\ sound' \in [Users -> BOOLEAN]
    <3>1. StaysSound(u, n = HeaderLen) /\ Costs(If(n < HeaderLen) + cost)
      BY <2>1
    <3> QED
      BY <2>2, <3>1, NoteTyped
  <2>4. CASE Acts(u, from, [c EXCEPT !.pc = "gone"])
    <3> DEFINE new == [c EXCEPT !.pc = "gone"]
    <3>1. ClientTyped(new)
      BY <1>1 DEF ClientTyped, ClientStates
    <3>2. Acts(u, from, new)
      BY <2>4
    <3> HIDE DEF new
    <3> QED
      BY <1>1, <2>1, <2>3, <3>1, <3>2, ClientReadsTyped
  <2>5. CASE \E size \in stoi(taken(n)) :
               Acts(u, from, [opened EXCEPT !.pc = IF size = 0 THEN atZero ELSE next, !.size = size])
    <3>1. PICK size \in stoi(taken(n)) :
            Acts(u, from, [opened EXCEPT !.pc = IF size = 0 THEN atZero ELSE next, !.size = size])
      BY <2>5
    <3> DEFINE to == IF size = 0 THEN atZero ELSE next
               new == [opened EXCEPT !.pc = to, !.size = size]
    <3>2. size \in Int
      BY <1>2
    <3>3. to \in {"data", "saved", "stats", "prompt"} /\ (to \in {"data", "saved"} => from = "size")
      BY <1>3
    <3>4. Acts(u, from, new)
      BY <3>1
    <3> HIDE DEF to
    <3>5. new \in ClientStates /\ new.pc = to /\ new.fname = c.fname
      BY <1>3, <3>2, <3>3 DEF ClientStates
    <3>6. ClientTyped(new)
      BY <1>1, <1>3, <3>3, <3>5 DEF ClientTyped
    <3> HIDE DEF new
    <3> QED
      BY <1>1, <1>3, <2>1, <2>3, <3>4, <3>6, ClientReadsTyped
  <2> QED
    BY <2>1, <2>4, <2>5
<1>4. CASE ReadFileSize(u)
  <2>1. PICK there \in BOOLEAN :
          ReadSize(u, "size", [c EXCEPT !.file = <<>>, !.copy = <<>>, !.filefd = there, !.kept = there],
                   "data", "saved", If(~there))
    BY <1>4 DEF ReadFileSize
  <2> DEFINE opened == [c EXCEPT !.file = <<>>, !.copy = <<>>, !.filefd = there, !.kept = there]
  <2>2. opened \in ClientStates /\ opened.fname = c.fname
    BY <1>1 DEF ClientStates
  <2>3. ReadSize(u, "size", opened, "data", "saved", If(~there))
    BY <2>1
  <2>4. c.pc = "size"
    BY <2>3 DEF ReadSize, Acts
  <2>5. If(~there) \in Nat
    BY DEF If
  <2> HIDE DEF opened, c
  <2> QED
    BY <1>3, <2>2, <2>3, <2>4, <2>5
<1>5. CASE ReadStatSize(u)
  <2>1. ReadSize(u, "statsize", c, "stats", "prompt", 0)
    BY <1>5 DEF ReadStatSize
  <2>2. c.pc = "statsize"
    BY <2>1 DEF ReadSize, Acts
  <2>3. 0 \in Nat
    OBVIOUS
  <2> HIDE DEF c
  <2> QED
    BY <1>1, <1>3, <2>1, <2>2, <2>3
<1> QED
  BY <1>4, <1>5

(* A turn of a receiving loop keeps the types, though size may pass below  *)
(* zero.                                                                   *)
LEMMA ReadTurnTyped ==
  ASSUME TypeInv, NEW u \in Users, ReadData(u) \/ ReadStats(u)
  PROVE  TypeInv'
<1> DEFINE c == client[u]
           tc == toClient[u]
<1>1. c \in ClientStates /\ ClientTyped(c) /\ Chunk \in Nat /\ tc \in Seq(Units) /\ Sizes(tc)
  BY TransferAssumption DEF TypeInv, Typed, ClientTyped
<1>2. ASSUME NEW from \in {"data", "stats"}, NEW n \in ReadLengths(tc, Chunk), NEW got \in ClientStates,
             got.fname = c.fname, NEW cost \in Nat, ReadTurn(u, n, from, got, cost)
      PROVE  TypeInv'
  <2> DEFINE left == c.size - n
             to == IF ~(left = 0) THEN from ELSE IF from = "data" THEN "saved" ELSE "prompt"
             new == [got EXCEPT !.pc = to, !.size = left]
  <2>1. Acts(u, from, new) /\ ClientReads(u, n) /\ Costs(cost) /\ UNCHANGED sound
    BY <1>2 DEF ReadTurn, LoopTurn
  <2>2. left \in Int /\ c.pc = from
    <3>1. c.size \in Int /\ n \in Int
      BY <1>1 DEF ClientStates, ReadLengths
    <3> QED
      BY <2>1, <3>1 DEF Acts
  <2>3. to \in {"data", "saved", "stats", "prompt"} /\ (to \in {"data", "saved"} => from = "data")
    BY <1>2
  <2> HIDE DEF left, to
  <2>4. new \in ClientStates /\ new.pc = to /\ new.fname = c.fname
    BY <1>2, <2>2, <2>3 DEF ClientStates
  <2>5. ClientTyped(new)
    BY <1>1, <1>2, <2>2, <2>3, <2>4 DEF ClientTyped
  <2>6. mishaps' \in Nat /\ sound' \in [Users -> BOOLEAN]
    BY <1>2, <2>1, CostsTyped DEF TypeInv, TypeOK
  <2> HIDE DEF new
  <2> QED
    BY <1>1, <1>2, <2>1, <2>5, <2>6, ClientReadsTyped
<1>3. ASSUME NEW n \in 0..Len(tc), NEW x \in Seq(Units)
      PROVE  x \o SubSeq(tc, 1, n) \in Seq(Units)
  <2>1. n \in Nat /\ n <= Len(tc)
    BY <1>1, Lengths
  <2>2. SubSeq(tc, 1, n) \in Seq(Units)
    BY <1>1, <2>1, Parts
  <2> QED
    BY <2>2, ConcatProperties
<1>4. CASE ReadData(u)
  <2>0. PICK n \in ReadLengths(tc, Chunk) : \E m \in Written(c, n) :
          ReadTurn(u, n, "data", [c EXCEPT !.file = @ \o SubSeq(tc, 1, n), !.copy = @ \o SubSeq(tc, 1, m),
                                           !.kept = @ /\ m = n], If(c.filefd /\ m < n))
    BY <1>4 DEF ReadData, Receive
  <2>1. PICK m \in Written(c, n) :
          ReadTurn(u, n, "data", [c EXCEPT !.file = @ \o SubSeq(tc, 1, n), !.copy = @ \o SubSeq(tc, 1, m),
                                           !.kept = @ /\ m = n], If(c.filefd /\ m < n))
    BY <2>0
  <2> DEFINE more == c.file \o SubSeq(tc, 1, n)
             copied == c.copy \o SubSeq(tc, 1, m)
             all == c.kept /\ m = n
             cost == If(c.filefd /\ m < n)
             got == [c EXCEPT !.file = more, !.copy = copied, !.kept = all]
  <2>2. n \in 0..Len(tc) /\ m \in 0..Len(tc)
    <3>1. Len(tc) \in Nat /\ n \in 1..Len(tc)
      BY <1>1, Lengths DEF ReadLengths
    <3> QED
      BY <3>1 DEF Written
  <2>3. more \in Seq(Units) /\ copied \in Seq(Units) /\ all \in BOOLEAN
    BY <1>1, <1>3, <2>2 DEF ClientStates
  <2>4. ReadTurn(u, n, "data", got, cost)
    BY <2>1
  <2>5. cost \in Nat
    BY DEF If
  <2> HIDE DEF more, copied, all, cost
  <2>6. got \in ClientStates /\ got.fname = c.fname
    BY <1>1, <2>3 DEF ClientStates
  <2> HIDE DEF got, c
  <2> QED
    BY <1>2, <2>4, <2>5, <2>6
<1>5. CASE ReadStats(u)
  <2>1. PICK n \in ReadLengths(tc, Chunk) :
          ReadTurn(u, n, "stats", [c EXCEPT !.response = @ \o SubSeq(tc, 1, n)], 0)
    BY <1>5 DEF ReadStats
  <2> DEFINE more == c.response \o SubSeq(tc, 1, n)
             got == [c EXCEPT !.response = more]
  <2>2. more \in Seq(Units)
    <3>1. n \in 0..Len(tc)
      BY <1>1, Lengths DEF ReadLengths
    <3> QED
      BY <1>1, <1>3, <3>1 DEF ClientStates
  <2>3. ReadTurn(u, n, "stats", got, 0) /\ 0 \in Nat
    BY <2>1
  <2> HIDE DEF more
  <2>4. got \in ClientStates /\ got.fname = c.fname
    BY <1>1, <2>2 DEF ClientStates
  <2> HIDE DEF got, c
  <2> QED
    BY <1>2, <2>3, <2>4
<1> QED
  BY <1>4, <1>5

(* The other steps of the client.                                          *)
LEMMA OtherClientTyped ==
  ASSUME TypeInv, NEW u \in Users, Connect(u) \/ Kill(u) \/ Save(u) \/ ReadEof(u)
  PROVE  TypeInv'
<1> DEFINE c == client[u]
<1>1. c \in ClientStates /\ ClientTyped(c) /\ up \in BOOLEAN
  BY DEF TypeInv, TypeOK, Typed, ClientTyped
<1>2. CASE Connect(u)
  <2> DEFINE to == IF up THEN "prompt" ELSE "gone"
             new == [c EXCEPT !.pc = to]
  <2>1. Acts(u, "away", new) /\ UNCHANGED <<toServer, toClient, mishaps, sound>>
    BY <1>2 DEF Connect
  <2>2. ClientTyped(new)
    BY <1>1 DEF ClientTyped, ClientStates
  <2> HIDE DEF new
  <2> QED
    BY <2>1, <2>2, ClientStaysTyped
<1>3. CASE Kill(u)
  <2> DEFINE new == [c EXCEPT !.pc = "gone"]
  <2>1. Acts(u, c.pc, new) /\ UNCHANGED <<toServer, toClient, mishaps, sound>>
    BY <1>3 DEF Kill, Acts, Silently
  <2>2. ClientTyped(new) /\ new.pc = "gone"
    BY <1>1 DEF ClientTyped, ClientStates
  <2> HIDE DEF new
  <2> QED
    BY <2>1, <2>2, ClientStaysTyped
<1>4. CASE Save(u)
  <2> DEFINE new == [c EXCEPT !.pc = "prompt", !.saved = @ \union {c.fname},
                              !.received = @ + Len(c.file)]
  <2>1. Acts(u, "saved", new) /\ UNCHANGED <<toServer, toClient, mishaps, sound>> /\ c.pc = "saved"
    BY <1>4 DEF Save, Acts
  <2>2. c.fname \in Files /\ c.received + Len(c.file) \in Nat
    <3>1. c.file \in Seq(Units) /\ c.received \in Nat
      BY <1>1 DEF ClientStates
    <3>2. Len(c.file) \in Nat
      BY <3>1, Lengths
    <3> QED
      BY <1>1, <2>1, <3>1, <3>2 DEF ClientTyped
  <2>3. ClientTyped(new)
    BY <1>1, <2>2 DEF ClientTyped, ClientStates
  <2> HIDE DEF new
  <2> QED
    BY <2>1, <2>3, ClientStaysTyped
<1>5. CASE ReadEof(u)
  <2>1. PICK point \in {"status", "size", "data", "statsize", "stats"} :
          Acts(u, point, [c EXCEPT !.pc = AfterEof(point)])
    BY <1>5 DEF ReadEof
  <2> DEFINE new == [c EXCEPT !.pc = AfterEof(point)]
  <2>2. c.pc = point /\ AfterEof(point) \in {"prompt", "gone", "saved"}
        /\ (AfterEof(point) = "saved" => point = "data")
    BY <2>1 DEF AfterEof, Acts
  <2>3. ClientTyped(new)
    BY <1>1, <2>2 DEF ClientTyped, ClientStates
  <2>4. /\ Acts(u, point, new) /\ toClient' = [toClient EXCEPT ![u] = <<>>]
        /\ UNCHANGED <<toServer, mishaps, sound>>
    BY <1>5, <2>1 DEF ReadEof
  <2>5. <<>> \in Seq(Units) /\ Sizes(<<>>)
    BY DEF Sizes
  <2>6. mishaps' \in Nat /\ sound' \in [Users -> BOOLEAN]
    BY <2>4 DEF TypeInv, TypeOK
  <2> HIDE DEF new
  <2> QED
    BY <2>3, <2>4, <2>5, <2>6, ClientOn
<1> QED
  BY <1>2, <1>3, <1>4, <1>5

(* A change of a file.                                                     *)
LEMMA ChangeTyped ==
  ASSUME TypeInv, NEW f \in Files, NEW len \in -1..MaxSize, Change(f, len)
  PROVE  TypeInv'
<1>1. /\ disk' \in [Files -> -1..MaxSize] /\ mishaps' \in Nat
      /\ UNCHANGED <<up, server, client, toServer, toClient>>
  BY DEF TypeInv, TypeOK, Change
<1>2. sound' \in [Users -> BOOLEAN]
  BY DEF TypeInv, TypeOK, Change
<1>3. TypeOK'
  BY <1>1, <1>2 DEF TypeInv, TypeOK
<1> QED
  BY <1>1, <1>3 DEF TypeInv, Listening

(* Every step keeps the types ...                                          *)
LEMMA TypesKept == TypeInv /\ [Next]_vars => TypeInv'
<1> SUFFICES ASSUME TypeInv, [Next]_vars PROVE TypeInv'
  OBVIOUS
<1>1. CASE UNCHANGED vars
  BY <1>1 DEF vars, TypeInv, TypeOK, Listening
<1>2. ASSUME NEW u \in Users, Connect(u) \/ Types(u) \/ Kill(u) \/ Receives(u) \/ serve(u)
      PROVE  TypeInv'
  BY <1>2, ServerTypes, CommandTyped, ReadStatusTyped, ReadSizeTyped, ReadTurnTyped, OtherClientTyped
     DEF Receives
<1>3. ASSUME NEW f \in Files, NEW len \in -1..MaxSize, Change(f, len) PROVE TypeInv'
  BY <1>3, ChangeTyped
<1>4. CASE AcceptFails
  <2>1. TypeOK'
    BY <1>4 DEF AcceptFails, TypeInv, TypeOK
  <2>2. ASSUME NEW u \in Users
        PROVE  /\ Typed(server[u], client[u], toServer[u], toClient[u])'
               /\ Asked(Listening(u), server[u], client[u], toServer[u])'
    <3>1. UNCHANGED <<server, client, toServer, toClient>> /\ up' = FALSE /\ up
      BY <1>4 DEF AcceptFails
    <3>2. Typed(server[u], client[u], toServer[u], toClient[u])'
      BY <3>1 DEF TypeInv
    <3>3. Asked(FALSE, server[u], client[u], toServer[u])
      <4>1. Asked(Listening(u), server[u], client[u], toServer[u]) /\ server[u] \in ServerStates
        BY DEF TypeInv, TypeOK
      <4> QED
        BY <3>1, <4>1 DEF Asked, Listening
    <3> QED
      BY <3>1, <3>2, <3>3 DEF Listening
  <2> QED
    BY <2>1, <2>2 DEF TypeInv
<1> QED
  BY <1>1, <1>2, <1>3, <1>4 DEF Next

(* ... and they hold at first.                                             *)
LEMMA TypesInit == Init => TypeInv
<1> SUFFICES ASSUME Init PROVE TypeInv
  OBVIOUS
<1>1. PICK bound \in Bounds :
        /\ client = [u \in Users |-> [pc |-> "away", fname |-> NoFile, size |-> 0, file |-> <<>>,
                                      copy |-> <<>>, filefd |-> FALSE, kept |-> FALSE,
                                      response |-> <<>>, commands |-> bound.commands[u],
                                      received |-> 0, saved |-> {}]]
        /\ mishaps = bound.mishaps
        /\ disk = [f \in Files |-> IF f \in bound.files THEN MaxSize ELSE -1]
  BY DEF Init
<1>2. bound.commands \in [Users -> Nat] /\ bound.mishaps \in Nat /\ MaxSize \in Nat
  BY TransferAssumption
<1>3. <<>> \in Seq(Units)
  OBVIOUS
<1>4. client \in [Users -> ClientStates] /\ disk \in [Files -> -1..MaxSize]
  BY <1>1, <1>2, <1>3 DEF ClientStates
<1>5. server \in [Users -> ServerStates]
  BY <1>2 DEF Init, ServerStates
<1>6. TypeOK
  BY <1>1, <1>2, <1>3, <1>4, <1>5 DEF Init, TypeOK
<1>7. ASSUME NEW u \in Users
      PROVE  /\ Typed(server[u], client[u], toServer[u], toClient[u])
             /\ Asked(Listening(u), server[u], client[u], toServer[u])
  <2>1. server[u].pc = "none" /\ client[u].pc = "away" /\ toServer[u] = <<>> /\ toClient[u] = <<>>
    BY <1>1 DEF Init
  <2>2. ServerTyped(server[u]) /\ ClientTyped(client[u])
    BY <1>6, <2>1 DEF TypeOK, ServerTyped, ClientTyped
  <2> QED
    BY <1>3, <2>1, <2>2 DEF Typed, Asked, Named, Expected, Sizes
<1> QED
  BY <1>6, <1>7 DEF TypeInv

(* The variables keep their types: no thread reads past the end of a file, *)
(* or closes a socket that it does not hold.                               *)
THEOREM TypeCorrect == Spec => []TypeOK
<1>1. Spec => []TypeInv
  BY TypesInit, TypesKept, PTL DEF Spec
<1>2. TypeInv => TypeOK
  BY DEF TypeInv
<1> QED
  BY <1>1, <1>2, PTL

-----------------------------------------------------------------------------
(* What a sound connection is at.  What the server has still to send:      *)
Line(kind, value) == Header(kind, value, HeaderLen)
Whole(s) == FileUnits(s.fname, 0, s.size)
Text(s) == Statistics(s.numBytesSent, s.filesDownloaded)

Due(s) == CASE s.pc = "size" -> Line("size", s.size) \o Whole(s)
            [] s.pc = "send" -> FileUnits(s.fname, s.offset, s.size)
            [] OTHER -> <<>>

(* The server has done with the last command; and the files and bytes that *)
(* it has counted, those of the file under way included, are those that    *)
(* the client has counted.                                                 *)
Free(s) == s.pc \in {"none", "command"} \/ (s.pc = "send" /\ s.offset = s.size)
Counted(s) == s.filesDownloaded \union (IF s.pc \in {"size", "send"} THEN {s.fname} ELSE {})
Even(s, c) == s.numBytesSent = c.received /\ Counted(s) = c.saved

(* The client's last statistics are true.                                  *)
Told(c) == c.response # <<>> /\ c.size = 0 =>
             /\ c.response[1] = <<"count", c.received, 1>>
             /\ {c.response[k][2] : k \in 2..Len(c.response)} = c.saved

AtPrompt(s, c, ts, tc) ==
  /\ c.pc \in {"away", "prompt"} /\ Free(s) /\ Even(s, c) /\ Told(c)
  /\ ts = <<>> /\ tc = <<>>
  /\ c.pc = "away" => s.pc = "none"

(* A command, and the name of the file if it was sent, are on their way or *)
(* have been read.                                                         *)
AskedName(c) == IF c.pc = "status" THEN Header("name", c.fname, NameLen) ELSE <<>>

Asks(s, c, ts, tc) ==
  /\ Even(s, c) /\ tc = <<>> /\ c.response = <<>>
  /\ \/ c.pc \in {"name", "status"} /\ Free(s) /\ ts = Line("FILE", 0) \o AskedName(c)
     \/ c.pc \in {"name", "status"} /\ s.pc = "name" /\ ts = AskedName(c)
     \/ c.pc = "status" /\ s.pc \in {"measure", "reopen"} /\ s.fname = c.fname /\ ts = <<>>
     \/ c.pc = "statsize" /\ Free(s) /\ ts = Line("STAT", 0)
     \/ c.pc = "statsize" /\ s.pc = "stat" /\ ts = <<>>

Misses(s, c, ts, tc) == /\ c.pc = "status" /\ s.pc = "command" /\ Even(s, c) /\ c.response = <<>>
                        /\ ts = <<>> /\ tc = Line("NOTFOUND", 0)

(* What the client has, what is on its way and what is due are the answer. *)
Sent(s) == CASE s.pc = "size" -> 0 [] s.pc = "send" -> s.offset [] OTHER -> s.size

Gets(s, c, ts, tc) ==
  /\ s.pc \in {"size", "send", "command"} /\ s.fname = c.fname
  /\ s.numBytesSent = c.received + Sent(s) /\ Counted(s) = c.saved \union {c.fname}
  /\ ts = <<>> /\ c.response = <<>>
  /\ \/ c.pc = "status" /\ tc \o Due(s) = Line("FOUND", 0) \o (Line("size", s.size) \o Whole(s))
     \/ c.pc = "size" /\ tc \o Due(s) = Line("size", s.size) \o Whole(s)
     \/ /\ c.pc = "data" /\ s.pc # "size" /\ c.file \o (tc \o Due(s)) = Whole(s)
        /\ c.size = s.size - Len(c.file) /\ c.size > 0
     \/ c.pc = "saved" /\ s.pc # "size" /\ Free(s) /\ tc = <<>> /\ c.file = Whole(s)

DueText(s) == IF s.pc = "text" THEN Text(s) ELSE <<>>

Hears(s, c, ts, tc) ==
  /\ s.pc \in {"text", "command"} /\ Even(s, c) /\ ts = <<>>
  /\ \/ /\ c.pc = "statsize" /\ c.response = <<>>
        /\ tc \o DueText(s) = Line("size", 1 + Cardinality(s.filesDownloaded)) \o Text(s)
     \/ /\ c.pc = "stats" /\ c.response \o (tc \o DueText(s)) = Text(s)
        /\ c.size = Len(Text(s)) - Len(c.response) /\ c.size > 0

Connected(s, c, ts, tc) == \/ AtPrompt(s, c, ts, tc) \/ Asks(s, c, ts, tc) \/ Misses(s, c, ts, tc)
                           \/ Gets(s, c, ts, tc) \/ Hears(s, c, ts, tc)

(* The server has ended, or has closed the connection for a command that   *)
(* came in pieces, and the client has noticed, or will: what it has of a   *)
(* file is the beginning of it, what it has of statistics not all.         *)
Cut(c, tc) == /\ tc = <<>> /\ c.pc \in {"prompt", "name", "status", "statsize", "saved"}
              /\ c.response # <<>> => c.pc = "prompt" /\ c.size > 0
              /\ c.pc = "saved" => c.file = FileUnits(c.fname, 0, Len(c.file))

(* The file that is being sent is as long as it was measured.              *)
Measured(d, s) == /\ s.pc = "reopen" => d[s.fname] \in {-1, s.size}
                  /\ s.pc \in {"size", "send"} => d[s.fname] = s.size /\ s.offset <= s.size
                  /\ s.pc = "size" => s.offset = 0

Ended(runs, s) == ~runs \/ s.pc = "closed"

Holds(d, runs, s, c, ts, tc) ==
  Measured(d, s) /\ (Connected(s, c, ts, tc) \/ (Ended(runs, s) /\ Cut(c, tc)))

Sound(u) == Holds(disk, up, server[u], client[u], toServer[u], toClient[u])

SoundInv == TypeInv /\ \A u \in Users : sound[u] /\ ~Gone(u) => Sound(u)

-----------------------------------------------------------------------------
(* Reading the whole header at the beginning of a stream.                  *)
LEMMA ReadLine ==
  ASSUME NEW h \in Seq(Units), NEW r \in Seq(Units), NEW seq, seq = h \o r
  PROVE  SubSeq(seq, 1, Len(h)) = h /\ Rest(seq, Len(h)) = r
<1>1. seq \in Seq(Units) /\ Len(seq) = Len(h) + Len(r) /\ <<>> \in Seq(Units)
  BY ConcatProperties
<1>2. Len(h) \in Nat /\ Len(r) \in Nat
  BY Lengths
<1>3. Len(h) <= Len(seq)
  BY <1>1, <1>2
<1>4. seq \o <<>> = seq
  BY <1>1, ConcatEmptySeq
<1>5. SubSeq(seq, 1, Len(h)) = h /\ Rest(seq, Len(h)) \o <<>> = r
  BY <1>1, <1>3, <1>4, ReadFirst
<1>6. Rest(seq, Len(h)) \in Seq(Units)
  BY <1>1, <1>2, <1>3, Parts
<1>7. Rest(seq, Len(h)) \o <<>> = Rest(seq, Len(h))
  BY <1>6, ConcatEmptySeq
<1> QED
  BY <1>5, <1>7

(* Reading as much as there is takes everything.                           *)
LEMMA ReadAll ==
  ASSUME NEW seq \in Seq(Units)
  PROVE  SubSeq(seq, 1, Len(seq)) = seq /\ Rest(seq, Len(seq)) = <<>>
<1>1. seq \o <<>> = seq /\ <<>> \in Seq(Units)
  BY ConcatEmptySeq
<1> QED
  BY <1>1, ReadLine

(* The lines of the protocol.                                              *)
LEMMA LineFacts ==
  ASSUME NEW kind \in Kinds, NEW value \in Nat
  PROVE  /\ Line(kind, value) \in Seq(Units) /\ Len(Line(kind, value)) = HeaderLen
         /\ HeaderLen \in Nat \ {0} /\ Line(kind, value) # <<>> /\ Line(kind, value)[1] = <<kind, value, 1>>
         /\ \A other \in Kinds : IsHeader(Line(kind, value), other) <=> kind = other
<1>1. HeaderLen \in Nat \ {0} /\ value \in Values
  BY TransferAssumption DEF Values
<1>2. Line(kind, value) \in Seq(Units) /\ Len(Line(kind, value)) = HeaderLen
  BY <1>1, HeaderFacts DEF Line
<1>3. Line(kind, value) # <<>> /\ Line(kind, value)[1] = <<kind, value, 1>>
  BY <1>1, IsHeaderFacts DEF Line
<1>4. \A other \in Kinds : IsHeader(Line(kind, value), other) <=> kind = other
  BY <1>1, IsHeaderFacts DEF Line
<1> QED
  BY <1>1, <1>2, <1>3, <1>4

(* The kinds of header that the protocol has.                              *)
LEMMA LineKinds == {"FILE", "STAT", "EXIT", "name", "FOUND", "NOTFOUND", "size"} \subseteq Kinds /\ 0 \in Nat
BY DEF Kinds

(* A whole command leads where it asks to.                                 *)
LEMMA CommandFacts ==
  CommandIn(Line("FILE", 0)) = "name" /\ CommandIn(Line("STAT", 0)) = "stat"
<1>1. ASSUME NEW kind \in {"FILE", "STAT"}
      PROVE  CommandIn(Line(kind, 0)) = CASE kind = "FILE" -> "name" [] kind = "STAT" -> "stat"
                                          [] kind = "EXIT" -> "left" [] OTHER -> "command"
  <2>1. /\ Len(Line(kind, 0)) = HeaderLen /\ HeaderLen \in Nat
        /\ \A other \in {"FILE", "STAT", "EXIT"} : IsHeader(Line(kind, 0), other) <=> kind = other
    BY LineFacts, LineKinds
  <2>2. ~(Len(Line(kind, 0)) < HeaderLen)
    BY <2>1
  <2> QED
    BY <2>1, <2>2 DEF CommandIn
<1> QED
  BY <1>1

(* What the server has to send.                                            *)
LEMMA DueFacts ==
  ASSUME NEW s \in ServerStates, s.pc = "send" => s.offset <= s.size
  PROVE  /\ Due(s) \in Seq(Units) /\ Whole(s) \in Seq(Units) /\ Len(Whole(s)) = s.size
         /\ s.size \in Nat /\ s.offset \in Nat /\ s.numBytesSent \in Nat /\ s.fname \in Values
         /\ s.pc = "size" => Len(Due(s)) = HeaderLen + s.size
         /\ s.pc = "send" => Len(Due(s)) = s.size - s.offset
         /\ s.pc \notin {"size", "send"} => Due(s) = <<>>
<1>1. /\ s.size \in Nat /\ s.offset \in Nat /\ s.numBytesSent \in Nat /\ s.fname \in Values /\ 0 <= s.size
  BY DEF ServerStates, Values
<1>2. Whole(s) \in Seq(Units) /\ Len(Whole(s)) = s.size - 0
  BY <1>1, Pieces DEF Whole
<1>3. s.pc = "size" => Due(s) \in Seq(Units) /\ Len(Due(s)) = HeaderLen + s.size
  <2>1. Line("size", s.size) \in Seq(Units) /\ Len(Line("size", s.size)) = HeaderLen
    BY <1>1, LineFacts, LineKinds
  <2>2. /\ Line("size", s.size) \o Whole(s) \in Seq(Units)
        /\ Len(Line("size", s.size) \o Whole(s)) = Len(Line("size", s.size)) + Len(Whole(s))
    BY <1>2, <2>1, ConcatProperties
  <2>3. Len(Whole(s)) = s.size
    BY <1>1, <1>2
  <2> QED
    BY <2>1, <2>2, <2>3 DEF Due
<1>4. s.pc = "send" => Due(s) \in Seq(Units) /\ Len(Due(s)) = s.size - s.offset
  BY <1>1, Pieces DEF Due
<1>5. s.pc \notin {"size", "send"} => Due(s) = <<>> /\ Due(s) \in Seq(Units)
  BY DEF Due
<1> QED
  BY <1>1, <1>2, <1>3, <1>4, <1>5

(* The statistics: how long they are, and what they say.                   *)
LEMMA TextFacts ==
  ASSUME NEW s \in ServerStates
  PROVE  /\ Text(s) \in Seq(Units) /\ DueText(s) \in Seq(Units)
         /\ 1 + Cardinality(s.filesDownloaded) \in Nat /\ 1 + Cardinality(s.filesDownloaded) >= 1
         /\ Len(Text(s)) = 1 + Cardinality(s.filesDownloaded)
         /\ Text(s)[1] = <<"count", s.numBytesSent, 1>>
         /\ {Text(s)[k][2] : k \in 2..Len(Text(s))} = s.filesDownloaded
<1>1. s.numBytesSent \in Nat /\ s.filesDownloaded \in SUBSET Files
  BY DEF ServerStates
<1>2. /\ Text(s) \in Seq(Units) /\ Len(Text(s)) = 1 + Cardinality(s.filesDownloaded)
      /\ Cardinality(s.filesDownloaded) \in Nat
      /\ Text(s)[1] = <<"count", s.numBytesSent, 1>>
      /\ {Text(s)[k][2] : k \in 2..Len(Text(s))} = s.filesDownloaded
  BY <1>1, StatisticsFacts DEF Text
<1> QED
  BY <1>2 DEF DueText

-----------------------------------------------------------------------------
(* The steps of the server on a connection that is sound.  One that is     *)
(* free and stays so:                                                      *)
LEMMA FreeKeeps ==
  ASSUME NEW s, NEW s2, NEW c, NEW ts, NEW tc, AtPrompt(s, c, ts, tc) \/ Asks(s, c, ts, tc),
         Free(s), Free(s2), Counted(s2) = Counted(s), s2.numBytesSent = s.numBytesSent,
         s2.pc = "none" \/ c.pc # "away"
  PROVE  AtPrompt(s2, c, ts, tc) \/ Asks(s2, c, ts, tc)
<1>1. s.pc \notin {"name", "measure", "reopen", "stat"}
  BY DEF Free
<1>2. Even(s, c) <=> Even(s2, c)
  BY DEF Even
<1>3. CASE AtPrompt(s, c, ts, tc)
  BY <1>2, <1>3 DEF AtPrompt
<1>4. CASE Asks(s, c, ts, tc)
  BY <1>1, <1>2, <1>4 DEF Asks
<1> QED
  BY <1>3, <1>4

(* The server accepts the connection.                                      *)
LEMMA AcceptSound ==
  ASSUME NEW d, NEW s \in ServerStates, NEW s2, NEW c, NEW ts, NEW tc,
         Measured(d, s), Connected(s, c, ts, tc), s.pc = "none", c.pc # "away",
         NEW open, s2 = [s EXCEPT !.pc = "command", !.open = open]
  PROVE  Measured(d, s2) /\ Connected(s2, c, ts, tc)
<1>1. /\ s2.pc = "command" /\ s2.filesDownloaded = s.filesDownloaded
      /\ s2.numBytesSent = s.numBytesSent
  BY DEF ServerStates
<1>2. AtPrompt(s, c, ts, tc) \/ Asks(s, c, ts, tc)
  BY DEF Connected, Misses, Gets, Hears
<1>3. Free(s) /\ Free(s2) /\ Counted(s2) = Counted(s)
  BY <1>1 DEF Free, Counted
<1>4. AtPrompt(s2, c, ts, tc) \/ Asks(s2, c, ts, tc)
  BY <1>1, <1>2, <1>3, FreeKeeps
<1> QED
  BY <1>1, <1>4 DEF Connected, Measured

(* It reads a whole command, and where it goes on is what was asked.       *)
LEMMA NameFacts ==
  ASSUME NEW c \in ClientStates
  PROVE  /\ AskedName(c) \in Seq(Units) /\ NameLen \in Nat \ {0}
         /\ Header("name", c.fname, NameLen) \in Seq(Units)
         /\ Header("name", c.fname, NameLen)[1] = <<"name", c.fname, 1>>
         /\ c.pc = "status" => Len(AskedName(c)) = NameLen /\ AskedName(c)[1] = <<"name", c.fname, 1>>
<1>1. c.fname \in Values /\ NameLen \in Nat \ {0} /\ "name" \in Kinds
  BY TransferAssumption DEF ClientStates, Values, Kinds
<1> DEFINE h == Header("name", c.fname, NameLen)
<1>2. h \in Seq(Units) /\ Len(h) = NameLen
  BY <1>1, HeaderFacts
<1>3. h[1] = <<"name", c.fname, 1>>
  BY <1>1, IsHeaderFacts
<1> HIDE DEF h
<1>4. AskedName(c) = IF c.pc = "status" THEN h ELSE <<>>
  BY DEF AskedName, h
<1>5. AskedName(c) \in Seq(Units)
  BY <1>2, <1>4
<1> QED
  BY <1>1, <1>2, <1>3, <1>4, <1>5 DEF h

(* It reads a whole command: the client's, not what is left of another.    *)
LEMMA ReadCommandSound ==
  ASSUME NEW d, NEW s \in ServerStates, NEW s2, NEW c \in ClientStates, NEW ts, NEW tc,
         Measured(d, s), Connected(s, c, ts, tc), s.pc = "command", ts # <<>>,
         NEW next, next = CommandIn(SubSeq(ts, 1, HeaderLen)),
         s2 = [s EXCEPT !.pc = next, !.open = AfterClose(@, next)]
  PROVE  Measured(d, s2) /\ Connected(s2, c, Rest(ts, HeaderLen), tc)
<1>1. /\ s2.pc = next /\ s2.filesDownloaded = s.filesDownloaded
      /\ s2.numBytesSent = s.numBytesSent
  BY DEF ServerStates
<1>2. Asks(s, c, ts, tc)
  BY DEF Connected, AtPrompt, Misses, Gets, Hears
<1>3. /\ Line("FILE", 0) \in Seq(Units) /\ Len(Line("FILE", 0)) = HeaderLen
      /\ Line("STAT", 0) \in Seq(Units) /\ Len(Line("STAT", 0)) = HeaderLen
  BY LineFacts, LineKinds
<1>4. next \in {"name", "stat"} =>
        Even(s2, c) /\ Measured(d, s2) /\ tc = <<>> /\ c.response = <<>>
  BY <1>1, <1>2 DEF Asks, Even, Counted, Measured
<1>5. CASE c.pc \in {"name", "status"} /\ ts = Line("FILE", 0) \o AskedName(c)
  <2>1. SubSeq(ts, 1, HeaderLen) = Line("FILE", 0) /\ Rest(ts, HeaderLen) = AskedName(c)
    <3>1. AskedName(c) \in Seq(Units)
      BY NameFacts
    <3>2. /\ SubSeq(ts, 1, Len(Line("FILE", 0))) = Line("FILE", 0)
          /\ Rest(ts, Len(Line("FILE", 0))) = AskedName(c)
      BY <1>3, <1>5, <3>1, ReadLine
    <3> QED
      BY <1>3, <3>2
  <2>2. next = "name"
    BY <2>1, CommandFacts
  <2>3. Asks(s2, c, Rest(ts, HeaderLen), tc)
    BY <1>1, <1>4, <1>5, <2>1, <2>2 DEF Asks
  <2> QED
    BY <1>4, <2>2, <2>3 DEF Connected
<1>6. CASE c.pc = "statsize" /\ ts = Line("STAT", 0)
  <2>1. SubSeq(ts, 1, HeaderLen) = Line("STAT", 0) /\ Rest(ts, HeaderLen) = <<>>
    BY <1>3, <1>6, ReadAll
  <2>2. next = "stat"
    BY <2>1, CommandFacts
  <2>3. Asks(s2, c, Rest(ts, HeaderLen), tc)
    BY <1>1, <1>4, <1>6, <2>1, <2>2 DEF Asks
  <2> QED
    BY <1>4, <2>2, <2>3 DEF Connected
<1> QED
  BY <1>2, <1>5, <1>6 DEF Asks

(* It reads a whole name, which is that of the file asked for.             *)
LEMMA ReadNameSound ==
  ASSUME NEW d, NEW s \in ServerStates, NEW s2, NEW c \in ClientStates, NEW ts, NEW tc,
         Measured(d, s), Connected(s, c, ts, tc), s.pc = "name", ts # <<>>,
         NEW name, name = ts[1][2], s2 = [s EXCEPT !.pc = "measure", !.fname = name]
  PROVE  Measured(d, s2) /\ Connected(s2, c, Rest(ts, NameLen), tc)
<1>1. /\ s2.pc = "measure" /\ s2.filesDownloaded = s.filesDownloaded
      /\ s2.numBytesSent = s.numBytesSent /\ s2.fname = ts[1][2]
  BY DEF ServerStates
<1>2. Asks(s, c, ts, tc)
  BY DEF Connected, AtPrompt, Misses, Gets, Hears, Free
<1>3. c.pc \in {"name", "status"} /\ ts = AskedName(c) /\ Even(s, c) /\ tc = <<>> /\ c.response = <<>>
  BY <1>2 DEF Asks, Free
<1>4. c.pc = "status"
  BY <1>3 DEF AskedName
<1>5. ts \in Seq(Units) /\ Len(ts) = NameLen /\ ts[1][2] = c.fname
  BY <1>3, <1>4, NameFacts
<1>6. Rest(ts, NameLen) = <<>>
  BY <1>5, ReadAll
<1>7. Even(s2, c)
  BY <1>1, <1>3 DEF Even, Counted
<1>8. Asks(s2, c, <<>>, tc)
  BY <1>1, <1>3, <1>4, <1>5, <1>7 DEF Asks
<1> QED
  BY <1>1, <1>6, <1>8 DEF Connected, Measured

(* It measures the file, ...                                               *)
LEMMA MeasureSound ==
  ASSUME NEW d, NEW s \in ServerStates, NEW s2, NEW c, NEW ts, NEW tc,
         Measured(d, s), Connected(s, c, ts, tc), s.pc = "measure",
         s2 = [s EXCEPT !.pc = "reopen", !.size = d[s.fname]]
  PROVE  Measured(d, s2) /\ Connected(s2, c, ts, tc)
<1>1. /\ s2.pc = "reopen" /\ s2.filesDownloaded = s.filesDownloaded
      /\ s2.numBytesSent = s.numBytesSent /\ s2.fname = s.fname /\ s2.size = d[s.fname]
  BY DEF ServerStates
<1>2. Asks(s, c, ts, tc)
  BY DEF Connected, AtPrompt, Misses, Gets, Hears, Free
<1>3. Even(s2, c)
  BY <1>1, <1>2 DEF Asks, Even, Counted
<1>4. Asks(s2, c, ts, tc)
  BY <1>1, <1>2, <1>3 DEF Asks, Free
<1> QED
  BY <1>1, <1>4 DEF Connected, Measured

(* fclose of a file that is not there: the client has still to be told.    *)
LEMMA CloseNullSound ==
  ASSUME NEW s, NEW c, NEW ts, NEW tc, Connected(s, c, ts, tc), s.pc = "measure"
  PROVE  Cut(c, tc)
<1>1. Asks(s, c, ts, tc)
  BY DEF Connected, AtPrompt, Misses, Gets, Hears, Free
<1> QED
  BY <1>1 DEF Asks, Free, Cut

(* ... opens it again and says that it has it, ...                         *)
LEMMA ReopenSound ==
  ASSUME NEW d, NEW s \in ServerStates, NEW s2, NEW c, NEW ts, NEW tc,
         Measured(d, s), Connected(s, c, ts, tc), s.pc = "reopen", d[s.fname] = s.size,
         NEW open, s2 = [s EXCEPT !.pc = "size", !.offset = 0, !.open = open]
  PROVE  Measured(d, s2) /\ Connected(s2, c, ts, tc \o Line("FOUND", 0))
<1>1. /\ s2.pc = "size" /\ s2.filesDownloaded = s.filesDownloaded /\ s2.offset = 0
      /\ s2.numBytesSent = s.numBytesSent /\ s2.fname = s.fname /\ s2.size = s.size
      /\ s.size \in Nat /\ s.numBytesSent \in Nat
  BY DEF ServerStates
<1>2. Asks(s, c, ts, tc)
  BY DEF Connected, AtPrompt, Misses, Gets, Hears, Free
<1>3. /\ c.pc = "status" /\ s.fname = c.fname /\ ts = <<>> /\ tc = <<>> /\ c.response = <<>>
      /\ s.numBytesSent = c.received /\ s.filesDownloaded = c.saved
  BY <1>2 DEF Asks, Free, Even, Counted
<1>4. Measured(d, s2)
  BY <1>1 DEF Measured
<1>5. Due(s2) = Line("size", s2.size) \o Whole(s2)
  BY <1>1 DEF Due
<1>6. tc \o Line("FOUND", 0) = Line("FOUND", 0)
  <2>1. Line("FOUND", 0) \in Seq(Units)
    BY LineFacts, LineKinds
  <2> QED
    BY <1>3, <2>1, ConcatEmptySeq
<1>7. s2.numBytesSent = c.received + Sent(s2) /\ Counted(s2) = c.saved \union {c.fname}
  BY <1>1, <1>3 DEF Sent, Counted
<1>8. Gets(s2, c, ts, tc \o Line("FOUND", 0))
  BY <1>1, <1>3, <1>5, <1>6, <1>7 DEF Gets
<1> QED
  BY <1>4, <1>8 DEF Connected

(* ... or says that it has not.                                            *)
LEMMA NotFoundSound ==
  ASSUME NEW d, NEW s \in ServerStates, NEW s2, NEW c, NEW ts, NEW tc,
         Measured(d, s), Connected(s, c, ts, tc), s.pc = "reopen",
         s2 = [s EXCEPT !.pc = "command"]
  PROVE  Measured(d, s2) /\ Connected(s2, c, ts, tc \o Line("NOTFOUND", 0))
<1>1. /\ s2.pc = "command" /\ s2.filesDownloaded = s.filesDownloaded
      /\ s2.numBytesSent = s.numBytesSent
  BY DEF ServerStates
<1>2. Asks(s, c, ts, tc)
  BY DEF Connected, AtPrompt, Misses, Gets, Hears, Free
<1>3. c.pc = "status" /\ ts = <<>> /\ tc = <<>> /\ c.response = <<>> /\ Even(s2, c)
  BY <1>1, <1>2 DEF Asks, Free, Even, Counted
<1>4. tc \o Line("NOTFOUND", 0) = Line("NOTFOUND", 0)
  <2>1. Line("NOTFOUND", 0) \in Seq(Units)
    BY LineFacts, LineKinds
  <2> QED
    BY <1>3, <2>1, ConcatEmptySeq
<1>5. Misses(s2, c, ts, tc \o Line("NOTFOUND", 0))
  BY <1>1, <1>3, <1>4 DEF Misses
<1> QED
  BY <1>1, <1>5 DEF Connected, Measured

(* What is on its way and what is due make up the same when a part of what *)
(* is due is sent.                                                         *)
LEMMA Regroup ==
  ASSUME NEW a \in Seq(Units), NEW b \in Seq(Units), NEW c \in Seq(Units)
  PROVE  (a \o b) \o c = a \o (b \o c)
BY SMT

(* An answer is under way as long as what is in the stream and what is due *)
(* stay the same together.                                                 *)
LEMMA GetsKeeps ==
  ASSUME NEW s, NEW s2, NEW c, NEW ts, NEW tc, NEW tc2, Gets(s, c, ts, tc),
         s2.pc \in {"send", "command"}, s2.fname = s.fname, s2.size = s.size,
         s2.numBytesSent - Sent(s2) = s.numBytesSent - Sent(s), Counted(s2) = Counted(s),
         s.numBytesSent \in Int, s2.numBytesSent \in Int, Sent(s) \in Int, Sent(s2) \in Int,
         c.received \in Int, tc2 \o Due(s2) = tc \o Due(s), c.pc # "saved"
  PROVE  Gets(s2, c, ts, tc2)
<1>1. s2.numBytesSent = c.received + Sent(s2)
  BY DEF Gets
<1>2. Whole(s2) = Whole(s)
  BY DEF Whole
<1> QED
  BY <1>1, <1>2 DEF Gets

(* It sends the size that it measured, ...                                 *)
LEMMA SendSizeSound ==
  ASSUME NEW d, NEW s \in ServerStates, NEW s2, NEW c \in ClientStates, NEW ts, NEW tc \in Seq(Units),
         Measured(d, s), Connected(s, c, ts, tc), s.pc = "size",
         s2 = [s EXCEPT !.pc = "send"]
  PROVE  Measured(d, s2) /\ Connected(s2, c, ts, tc \o Line("size", s.size))
<1>1. /\ s2.pc = "send" /\ s2.filesDownloaded = s.filesDownloaded /\ s2.offset = s.offset
      /\ s2.numBytesSent = s.numBytesSent /\ s2.fname = s.fname /\ s2.size = s.size
      /\ s.numBytesSent \in Nat /\ s.offset = 0 /\ c.received \in Nat /\ s.size \in Nat
  BY DEF ServerStates, ClientStates, Measured
<1>2. Gets(s, c, ts, tc) /\ c.pc # "saved"
  BY DEF Connected, AtPrompt, Asks, Misses, Hears, Gets, Free
<1>3. Measured(d, s2)
  BY <1>1 DEF Measured
<1>4. Due(s) = Line("size", s.size) \o Whole(s) /\ Due(s2) = Whole(s)
  BY <1>1 DEF Due, Whole
<1>5. (tc \o Line("size", s.size)) \o Due(s2) = tc \o Due(s)
  <2>1. Line("size", s.size) \in Seq(Units) /\ Whole(s) \in Seq(Units)
    BY <1>1, LineFacts, LineKinds, DueFacts
  <2>2. (tc \o Line("size", s.size)) \o Whole(s) = tc \o (Line("size", s.size) \o Whole(s))
    BY <2>1, Regroup
  <2> QED
    BY <1>4, <2>2
<1>6. Sent(s) = 0 /\ Sent(s2) = 0 /\ Counted(s2) = Counted(s)
  BY <1>1 DEF Sent, Counted
<1>7. s2.numBytesSent - Sent(s2) = s.numBytesSent - Sent(s)
  BY <1>1, <1>6
<1>8. s2.numBytesSent \in Int /\ Sent(s2) \in Int /\ s.numBytesSent \in Int /\ Sent(s) \in Int /\ c.received \in Int
  BY <1>1, <1>6
<1>9. Gets(s2, c, ts, tc \o Line("size", s.size))
  BY <1>1, <1>2, <1>5, <1>6, <1>7, <1>8, GetsKeeps
<1> QED
  BY <1>3, <1>9 DEF Connected

(* ... then the next bytes, which join those already sent, ...             *)
LEMMA SendChunkSound ==
  ASSUME NEW d, NEW s \in ServerStates, NEW s2, NEW c \in ClientStates, NEW ts, NEW tc \in Seq(Units),
         Measured(d, s), Connected(s, c, ts, tc), s.pc = "send",
         NEW from \in Nat, from = s.offset, NEW sent \in Nat, sent = s.numBytesSent,
         NEW size \in Nat, size = s.size, NEW n \in Nat, n > 0, from + n <= size,
         s2 = [s EXCEPT !.pc = "send", !.offset = from + n, !.numBytesSent = sent + n]
  PROVE  Measured(d, s2) /\ Connected(s2, c, ts, tc \o FileUnits(s.fname, from, from + n))
<1> DEFINE to == s.offset + n
           units == FileUnits(s.fname, s.offset, to)
           rest == FileUnits(s.fname, to, s.size)
<1>1. /\ s2.pc = "send" /\ s2.filesDownloaded = s.filesDownloaded /\ s2.offset = to
      /\ s2.numBytesSent = s.numBytesSent + n /\ s2.fname = s.fname /\ s2.size = s.size
      /\ s.numBytesSent \in Nat /\ s.offset \in Nat /\ c.received \in Nat /\ s.size \in Nat
      /\ s.fname \in Values /\ d[s.fname] = s.size
  BY DEF ServerStates, ClientStates, Measured, Values
<1>2. to \in Nat /\ s.offset <= to /\ to <= s.size /\ s.offset # s.size
  BY <1>1
<1>3. Gets(s, c, ts, tc) /\ c.pc # "saved"
  <2>1. ~Free(s)
    BY <1>2 DEF Free
  <2> QED
    BY <2>1 DEF Connected, AtPrompt, Asks, Misses, Hears, Gets
<1>4. Measured(d, s2)
  BY <1>1, <1>2 DEF Measured
<1> HIDE DEF to
<1>5. Due(s) = units \o rest
  <2>1. FileUnits(s.fname, s.offset, to) \o FileUnits(s.fname, to, s.size)
          = FileUnits(s.fname, s.offset, s.size)
    <3> DEFINE f == s.fname
    <3>1. f \in Values /\ to \in Nat /\ from <= to /\ to <= size
      BY <1>1, <1>2
    <3> HIDE DEF f
    <3>2. FileUnits(f, from, to) \o FileUnits(f, to, size) = FileUnits(f, from, size)
      BY ONLY <3>1, Joined
    <3> QED
      BY <3>2 DEF f
  <2> QED
    BY <2>1 DEF Due
<1>6. Due(s2) = rest
  BY <1>1 DEF Due
<1>7. units \in Seq(Units) /\ rest \in Seq(Units)
  BY <1>1, <1>2, Pieces
<1> HIDE DEF units, rest
<1>8. (tc \o units) \o Due(s2) = tc \o Due(s)
  BY <1>5, <1>6, <1>7, Regroup
<1>9. Sent(s) = s.offset /\ Sent(s2) = to /\ Counted(s2) = Counted(s)
  BY <1>1 DEF Sent, Counted
<1>10. s2.numBytesSent - Sent(s2) = s.numBytesSent - Sent(s)
  BY <1>1, <1>9 DEF to
<1>11. s2.numBytesSent \in Int /\ Sent(s2) \in Int /\ s.numBytesSent \in Int /\ Sent(s) \in Int /\ c.received \in Int
  BY <1>1, <1>2, <1>9
<1>12. Gets(s2, c, ts, tc \o units)
  BY <1>1, <1>3, <1>8, <1>9, <1>10, <1>11, GetsKeeps
<1> QED
  BY <1>4, <1>12 DEF Connected, units, to

(* ... until there are none: it goes back to the commands having sent all, *)
(* and the file is counted as the client counts it.                        *)
LEMMA FinishFileSound ==
  ASSUME NEW d, NEW s \in ServerStates, NEW s2, NEW c \in ClientStates, NEW ts, NEW tc \in Seq(Units),
         Measured(d, s), Connected(s, c, ts, tc), s.pc = "send", s.offset = s.size,
         s2 = [s EXCEPT !.pc = "command", !.filesDownloaded = @ \union {s.fname}]
  PROVE  Measured(d, s2) /\ Connected(s2, c, ts, tc)
<1>1. /\ s2.pc = "command" /\ s2.filesDownloaded = s.filesDownloaded \union {s.fname}
      /\ s2.numBytesSent = s.numBytesSent /\ s2.fname = s.fname /\ s2.size = s.size
      /\ s.numBytesSent \in Nat /\ s.offset \in Nat /\ c.received \in Nat /\ s.size \in Nat
      /\ s.fname \in Values /\ d[s.fname] = s.size /\ s.offset <= s.size
  BY DEF ServerStates, ClientStates, Measured, Values
<1>2. s.offset = s.size
  OBVIOUS
<1>3. Free(s) /\ Free(s2) /\ Counted(s2) = Counted(s) /\ Sent(s) = s.size /\ Sent(s2) = s.size
  BY <1>1, <1>2 DEF Free, Counted, Sent
<1>4. Measured(d, s2)
  BY <1>1 DEF Measured
<1>5. Due(s) = <<>> /\ Due(s2) = <<>>
  <2>1. Due(s) \in Seq(Units) /\ Len(Due(s)) = s.size - s.offset
    BY <1>1, DueFacts
  <2>2. Len(Due(s)) = 0
    BY <1>1, <1>2, <2>1
  <2> QED
    BY <1>1, <2>1, <2>2, EmptySeq DEF Due
<1>6. CASE AtPrompt(s, c, ts, tc) \/ Asks(s, c, ts, tc)
  <2>1. c.pc # "away"
    BY <1>6 DEF AtPrompt, Asks
  <2>2. AtPrompt(s2, c, ts, tc) \/ Asks(s2, c, ts, tc)
    BY <1>1, <1>3, <1>6, <2>1, FreeKeeps
  <2> QED
    BY <1>4, <2>2 DEF Connected
<1>7. CASE Gets(s, c, ts, tc)
  <2>1. CASE c.pc = "saved"
    <3>1. Whole(s2) = Whole(s)
      BY <1>1 DEF Whole
    <3>2. Gets(s2, c, ts, tc)
      BY <1>1, <1>3, <1>7, <2>1, <3>1 DEF Gets
    <3> QED
      BY <1>4, <3>2 DEF Connected
  <2>2. CASE c.pc # "saved"
    <3>1. /\ s2.numBytesSent \in Int /\ Sent(s2) \in Int /\ s.numBytesSent \in Int /\ Sent(s) \in Int
          /\ c.received \in Int /\ s2.numBytesSent - Sent(s2) = s.numBytesSent - Sent(s)
      BY <1>1, <1>3
    <3>2. tc \o Due(s2) = tc \o Due(s) /\ s2.pc \in {"send", "command"}
      BY <1>1, <1>5
    <3>3. Gets(s2, c, ts, tc)
      BY <1>1, <1>3, <1>7, <2>2, <3>1, <3>2, GetsKeeps
    <3> QED
      BY <1>4, <3>3 DEF Connected
  <2> QED
    BY <2>1, <2>2
<1> QED
  BY <1>6, <1>7 DEF Connected, Misses, Hears

(* It sends the size of the statistics, ...                                *)
LEMMA SendStatSizeSound ==
  ASSUME NEW d, NEW s \in ServerStates, NEW s2, NEW c, NEW ts, NEW tc \in Seq(Units),
         Measured(d, s), Connected(s, c, ts, tc), s.pc = "stat",
         s2 = [s EXCEPT !.pc = "text"]
  PROVE  /\ Measured(d, s2)
         /\ Connected(s2, c, ts, tc \o Line("size", 1 + Cardinality(s.filesDownloaded)))
<1> DEFINE size == 1 + Cardinality(s.filesDownloaded)
           line == Line("size", size)
<1>1. /\ s2.pc = "text" /\ s2.filesDownloaded = s.filesDownloaded
      /\ s2.numBytesSent = s.numBytesSent
  BY DEF ServerStates
<1>2. Asks(s, c, ts, tc)
  BY DEF Connected, AtPrompt, Misses, Gets, Hears, Free
<1>3. c.pc = "statsize" /\ ts = <<>> /\ tc = <<>> /\ c.response = <<>> /\ Even(s2, c)
  BY <1>1, <1>2 DEF Asks, Free, Even, Counted
<1>4. Measured(d, s2)
  BY <1>1 DEF Measured
<1>5. size \in Nat
  BY TextFacts
<1> HIDE DEF size
<1>6. line \in Seq(Units)
  BY <1>5, LineFacts, LineKinds
<1> HIDE DEF line
<1>7. tc \o line = line
  BY <1>3, <1>6, ConcatEmptySeq
<1>8. DueText(s2) = Text(s2) /\ line = Line("size", 1 + Cardinality(s2.filesDownloaded))
  BY <1>1 DEF DueText, line, size
<1>9. Hears(s2, c, ts, tc \o line)
  BY <1>1, <1>3, <1>7, <1>8 DEF Hears
<1> QED
  BY <1>4, <1>9 DEF Connected, line, size

(* ... then their text.                                                    *)
LEMMA SendStatSound ==
  ASSUME NEW d, NEW s \in ServerStates, NEW s2, NEW c, NEW ts, NEW tc \in Seq(Units),
         Measured(d, s), Connected(s, c, ts, tc), s.pc = "text",
         s2 = [s EXCEPT !.pc = "command"]
  PROVE  Measured(d, s2) /\ Connected(s2, c, ts, tc \o Text(s))
<1>1. /\ s2.pc = "command" /\ s2.filesDownloaded = s.filesDownloaded
      /\ s2.numBytesSent = s.numBytesSent
  BY DEF ServerStates
<1>2. Hears(s, c, ts, tc)
  BY DEF Connected, AtPrompt, Asks, Misses, Gets, Free
<1>3. Measured(d, s2) /\ Even(s2, c) /\ ts = <<>>
  BY <1>1, <1>2 DEF Measured, Hears, Even, Counted
<1>4. Text(s2) = Text(s) /\ DueText(s) = Text(s) /\ DueText(s2) = <<>>
  BY <1>1 DEF Text, DueText
<1>5. (tc \o Text(s)) \o DueText(s2) = tc \o DueText(s)
  <2>1. tc \o Text(s) \in Seq(Units)
    BY TextFacts, ConcatProperties
  <2>2. (tc \o Text(s)) \o <<>> = tc \o Text(s)
    BY <2>1, ConcatEmptySeq
  <2> QED
    BY <1>4, <2>2
<1>6. Hears(s2, c, ts, tc \o Text(s))
  BY <1>1, <1>2, <1>3, <1>4, <1>5 DEF Hears
<1> QED
  BY <1>3, <1>6 DEF Connected

-----------------------------------------------------------------------------
(* The steps of the client on a connection that is sound: it asks, ...     *)
LEMMA AskSound ==
  ASSUME NEW s, NEW c, NEW c2, NEW ts, NEW tc, Connected(s, c, ts, tc), c.pc = "prompt",
         NEW kind, <<kind, c2.pc>> \in {<<"FILE", "name">>, <<"STAT", "statsize">>},
         c2.received = c.received, c2.saved = c.saved, c2.response = <<>>
  PROVE  Connected(s, c2, ts \o Line(kind, 0), tc)
<1>1. AtPrompt(s, c, ts, tc)
  BY DEF Connected, Asks, Misses, Gets, Hears
<1>2. Even(s, c2) /\ tc = <<>> /\ ts = <<>> /\ Free(s)
  BY <1>1 DEF AtPrompt, Even
<1>3. kind \in Kinds /\ kind \in {"FILE", "STAT"}
  BY DEF Kinds
<1>4. Line(kind, 0) \in Seq(Units)
  BY <1>3, LineFacts
<1>5. ts \o Line(kind, 0) = Line(kind, 0) /\ Line(kind, 0) \o <<>> = Line(kind, 0)
  BY <1>2, <1>4, ConcatEmptySeq
<1>6. CASE kind = "FILE"
  <2>1. c2.pc = "name" /\ AskedName(c2) = <<>>
    BY <1>6 DEF AskedName
  <2>2. Asks(s, c2, ts \o Line(kind, 0), tc)
    BY <1>2, <1>5, <1>6, <2>1 DEF Asks
  <2> QED
    BY <2>2 DEF Connected
<1>7. CASE kind = "STAT"
  <2>1. c2.pc = "statsize"
    BY <1>7
  <2>2. Asks(s, c2, ts \o Line(kind, 0), tc)
    BY <1>2, <1>5, <1>7, <2>1 DEF Asks
  <2> QED
    BY <2>2 DEF Connected
<1> QED
  BY <1>3, <1>6, <1>7

(* The client sends the name of the file.                                  *)
LEMMA SendNameSound ==
  ASSUME NEW s, NEW c \in ClientStates, NEW c2, NEW ts, NEW tc, Connected(s, c, ts, tc),
         c.pc = "name", c2 = [c EXCEPT !.pc = "status"]
  PROVE  Connected(s, c2, ts \o Header("name", c.fname, NameLen), tc)
<1> DEFINE name == Header("name", c.fname, NameLen)
<1>1. /\ c2 \in ClientStates /\ c2.pc = "status" /\ c2.fname = c.fname /\ c2.received = c.received
      /\ c2.saved = c.saved /\ c2.response = c.response
  BY DEF ClientStates
<1>2. Asks(s, c, ts, tc)
  BY DEF Connected, AtPrompt, Misses, Gets, Hears
<1>3. name \in Seq(Units)
  BY NameFacts
<1>4. AskedName(c) = <<>> /\ AskedName(c2) = name
  BY <1>1 DEF AskedName
<1> HIDE DEF name
<1>5. Line("FILE", 0) \in Seq(Units)
  BY LineFacts, LineKinds
<1>6. Line("FILE", 0) \o <<>> = Line("FILE", 0) /\ <<>> \o name = name
  BY <1>3, <1>5, ConcatEmptySeq
<1>7. Even(s, c2) /\ tc = <<>> /\ c2.response = <<>>
  BY <1>1, <1>2 DEF Asks, Even
<1>8. Asks(s, c2, ts \o name, tc)
  BY <1>1, <1>2, <1>4, <1>6, <1>7 DEF Asks
<1> QED
  BY <1>8 DEF Connected, name

(* ... reads whether there is the file, ...                                *)
LEMMA ReadStatusSound ==
  ASSUME NEW d, NEW s \in ServerStates, NEW c \in ClientStates, NEW c2, NEW ts,
         NEW tc \in Seq(Units), Measured(d, s),
         Connected(s, c, ts, tc), c.pc = "status", HeaderLen <= Len(tc),
         NEW next, c2 = [c EXCEPT !.pc = next],
         next = IF IsHeader(SubSeq(tc, 1, HeaderLen), "FOUND") THEN "size" ELSE "prompt"
  PROVE  Connected(s, c2, ts, Rest(tc, HeaderLen))
<1>1. /\ c2.pc = next /\ c2.fname = c.fname /\ c2.received = c.received /\ c2.file = c.file
      /\ c2.saved = c.saved /\ c2.response = c.response /\ c2.size = c.size
  BY DEF ClientStates
<1>2. HeaderLen \in Nat \ {0} /\ Line("FOUND", 0) \in Seq(Units) /\ Len(Line("FOUND", 0)) = HeaderLen
      /\ Line("NOTFOUND", 0) \in Seq(Units) /\ Len(Line("NOTFOUND", 0)) = HeaderLen
      /\ IsHeader(Line("FOUND", 0), "FOUND") /\ ~IsHeader(Line("NOTFOUND", 0), "FOUND")
  BY LineFacts, LineKinds
<1>3. tc # <<>>
  BY <1>2, EmptySeq
<1>4. Misses(s, c, ts, tc) \/ Gets(s, c, ts, tc)
  BY <1>3 DEF Connected, AtPrompt, Asks, Hears
<1>5. CASE Misses(s, c, ts, tc)
  <2>1. SubSeq(tc, 1, HeaderLen) = Line("NOTFOUND", 0) /\ Rest(tc, HeaderLen) = <<>>
    BY <1>2, <1>5, ReadAll DEF Misses
  <2>2. next = "prompt"
    BY <1>2, <2>1
  <2>3. AtPrompt(s, c2, ts, <<>>)
    BY <1>1, <1>5, <2>2 DEF Misses, AtPrompt, Free, Even, Told
  <2> QED
    BY <2>1, <2>3 DEF Connected
<1>6. CASE Gets(s, c, ts, tc)
  <2> DEFINE r == Line("size", s.size) \o Whole(s)
  <2>1. Due(s) \in Seq(Units) /\ Whole(s) \in Seq(Units) /\ s.size \in Nat
    BY DueFacts DEF Measured
  <2>2. r \in Seq(Units)
    <3>1. Line("size", s.size) \in Seq(Units)
      BY <2>1, LineFacts, LineKinds
    <3> QED
      BY <2>1, <3>1, ConcatProperties
  <2>3. tc \o Due(s) = Line("FOUND", 0) \o r
    BY <1>6 DEF Gets
  <2> HIDE DEF r
  <2>4. /\ SubSeq(tc, 1, Len(Line("FOUND", 0))) = Line("FOUND", 0)
        /\ Rest(tc, Len(Line("FOUND", 0))) \o Due(s) = r
    <3>1. Line("FOUND", 0) \in Seq(Units) /\ Len(Line("FOUND", 0)) <= Len(tc)
      BY <1>2
    <3> QED
      BY <2>1, <2>2, <2>3, <3>1, ReadFirst
  <2>5. SubSeq(tc, 1, HeaderLen) = Line("FOUND", 0) /\ Rest(tc, HeaderLen) \o Due(s) = r
    BY <1>2, <2>4
  <2>6. next = "size"
    BY <1>2, <2>5
  <2>7. Gets(s, c2, ts, Rest(tc, HeaderLen))
    BY <1>1, <1>6, <2>5, <2>6 DEF Gets, r
  <2> QED
    BY <2>7 DEF Connected
<1> QED
  BY <1>4, <1>5, <1>6

(* ... how long it is, ...                                                 *)
LEMMA stoiOf ==
  ASSUME NEW size \in Nat
  PROVE  stoi(Line("size", size)) = {size} /\ IsHeader(Line("size", size), "size")
<1>1. /\ Len(Line("size", size)) = HeaderLen /\ HeaderLen \in Nat
      /\ Line("size", size)[1] = <<"size", size, 1>> /\ IsHeader(Line("size", size), "size")
  BY LineFacts, LineKinds
<1>2. ~(Len(Line("size", size)) < HeaderLen) /\ Line("size", size)[1][2] = size
  BY <1>1
<1> QED
  BY <1>1, <1>2 DEF stoi

(* It reads the whole size: the one that the server measured.              *)
LEMMA ReadFileSizeSound ==
  ASSUME NEW d, NEW s \in ServerStates, NEW c \in ClientStates, NEW c2, NEW ts,
         NEW tc \in Seq(Units), Measured(d, s),
         Connected(s, c, ts, tc), c.pc = "size", HeaderLen <= Len(tc),
         NEW size \in stoi(SubSeq(tc, 1, HeaderLen)),
         c2.pc = (IF size = 0 THEN "saved" ELSE "data"), c2.size = size, c2.file = <<>>,
         c2.fname = c.fname, c2.received = c.received, c2.saved = c.saved, c2.response = c.response
  PROVE  Connected(s, c2, ts, Rest(tc, HeaderLen))
<1> DEFINE line == Line("size", s.size)
           more == Rest(tc, HeaderLen)
<1>1. /\ c2.pc = (IF size = 0 THEN "saved" ELSE "data") /\ c2.fname = c.fname
      /\ c2.received = c.received /\ c2.file = <<>>
      /\ c2.saved = c.saved /\ c2.response = c.response /\ c2.size = size
  OBVIOUS
<1>2. Gets(s, c, ts, tc)
  BY DEF Connected, AtPrompt, Asks, Misses, Hears
<1>3. /\ Due(s) \in Seq(Units) /\ Whole(s) \in Seq(Units) /\ Len(Whole(s)) = s.size
      /\ s.size \in Nat /\ s.offset \in Nat
      /\ s.pc = "size" => Len(Due(s)) = HeaderLen + s.size
      /\ s.pc = "send" => Len(Due(s)) = s.size - s.offset
  BY DueFacts DEF Measured
<1>4. line \in Seq(Units) /\ Len(line) = HeaderLen /\ HeaderLen \in Nat \ {0}
  BY <1>3, LineFacts, LineKinds
<1>5. tc \o Due(s) = line \o Whole(s)
  BY <1>2 DEF Gets
<1> HIDE DEF line
<1>6. SubSeq(tc, 1, Len(line)) = line /\ Rest(tc, Len(line)) \o Due(s) = Whole(s)
  BY <1>3, <1>4, <1>5, ReadFirst
<1>7. SubSeq(tc, 1, HeaderLen) = line /\ more \o Due(s) = Whole(s)
  BY <1>4, <1>6
<1>8. size = s.size
  BY <1>3, <1>7, stoiOf DEF line
<1>9. more \in Seq(Units)
  BY <1>4, Parts
<1> HIDE DEF more
<1>10. Len(more) + Len(Due(s)) = s.size /\ Len(more) \in Nat /\ Len(Due(s)) \in Nat
  <2>1. Len(more \o Due(s)) = Len(more) + Len(Due(s))
    BY <1>3, <1>9, ConcatProperties
  <2>2. Len(more) \in Nat /\ Len(Due(s)) \in Nat
    BY <1>3, <1>9, Lengths
  <2> QED
    BY <1>3, <1>7, <2>1, <2>2
<1>11. s.pc # "size"
  BY <1>3, <1>4, <1>10
<1>12. CASE size = 0
  <2>1. Len(more) = 0 /\ Len(Due(s)) = 0 /\ Len(Whole(s)) = 0
    BY <1>3, <1>8, <1>10, <1>12
  <2>2. more = <<>> /\ Whole(s) = <<>>
    BY <1>3, <1>9, <2>1, EmptySeq
  <2>3. Free(s)
    BY <1>2, <1>3, <1>11, <2>1 DEF Free, Gets
  <2>4. Gets(s, c2, ts, more)
    BY <1>1, <1>2, <1>11, <1>12, <2>2, <2>3 DEF Gets
  <2> QED
    BY <2>4 DEF Connected, more
<1>13. CASE size # 0
  <2>1. c2.file \o (more \o Due(s)) = Whole(s)
    <3>1. more \o Due(s) \in Seq(Units)
      BY <1>3, <1>7
    <3> QED
      BY <1>1, <1>7, <3>1, ConcatEmptySeq
  <2>2. c2.size = s.size - Len(c2.file) /\ c2.size > 0
    <3>1. Len(c2.file) = 0
      BY <1>1, EmptySeq
    <3> QED
      BY <1>1, <1>3, <1>8, <1>13, <3>1
  <2>3. Gets(s, c2, ts, more)
    BY <1>1, <1>2, <1>11, <1>13, <2>1, <2>2 DEF Gets
  <2> QED
    BY <2>3 DEF Connected, more
<1> QED
  BY <1>12, <1>13

(* ... and what has come of it, whatever the read takes ...                *)
(* \o and Len, by names that hide from the provers how they are defined.   *)
Cat(a, b) == a \o b
Size(a) == Len(a)

(* Sequences written so that the provers take them as wholes.              *)
LEMMA CatFacts ==
  ASSUME NEW a \in Seq(Units), NEW b \in Seq(Units)
  PROVE  /\ Cat(a, b) \in Seq(Units) /\ Size(Cat(a, b)) = Size(a) + Size(b)
         /\ Size(a) \in Nat /\ Size(b) \in Nat
         /\ Size(a) = 0 => a = <<>>
BY ConcatProperties, EmptySeq DEF Cat, Size

(* Nothing after a sequence adds nothing, ...                              *)
LEMMA CatEmpty ==
  ASSUME NEW a \in Seq(Units), NEW b, b = <<>>
  PROVE  Cat(a, b) = a
BY ConcatEmptySeq DEF Cat

(* ... and three parts may be put together either way.                     *)
LEMMA CatCat ==
  ASSUME NEW a \in Seq(Units), NEW b \in Seq(Units), NEW c \in Seq(Units)
  PROVE  Cat(Cat(a, b), c) = Cat(a, Cat(b, c))
BY SMT DEF Cat

(* What is left to read is what is on its way and what is due.             *)
LEMMA TakePart ==
  ASSUME NEW x \in Seq(Units), NEW a \in Seq(Units), NEW b \in Seq(Units), NEW due \in Seq(Units),
         NEW all, all = Cat(x, Cat(Cat(a, b), due)), NEW y, y = Cat(x, a)
  PROVE  /\ Cat(y, Cat(b, due)) = all
         /\ (Size(all) - Size(x)) - Size(a) = Size(all) - Size(y)
         /\ Size(all) - Size(y) \in Nat
         /\ Size(all) - Size(y) = 0 => y = all /\ b = <<>> /\ due = <<>>
<1> DEFINE z == Cat(b, due)
<1>1. /\ y \in Seq(Units) /\ Size(y) = Size(x) + Size(a)
      /\ z \in Seq(Units) /\ Size(z) = Size(b) + Size(due)
  BY CatFacts
<1>2. Cat(y, z) = all
  BY <1>1, CatCat
<1> HIDE DEF z
<1>3. Size(all) = Size(y) + Size(z)
  BY <1>1, <1>2, CatFacts
<1>4. /\ Size(x) \in Nat /\ Size(a) \in Nat /\ Size(b) \in Nat /\ Size(due) \in Nat
  BY CatFacts
<1>5. (Size(all) - Size(x)) - Size(a) = Size(all) - Size(y) /\ Size(all) - Size(y) \in Nat
  BY <1>1, <1>3, <1>4
<1>6. ASSUME Size(all) - Size(y) = 0 PROVE y = all /\ b = <<>> /\ due = <<>>
  <2>1. Size(b) = 0 /\ Size(due) = 0
    BY <1>1, <1>3, <1>4, <1>6
  <2>2. b = <<>> /\ due = <<>>
    BY <2>1, CatFacts
  <2>3. z = b
    BY <2>2, CatEmpty DEF z
  <2> QED
    BY <1>1, <1>2, <2>2, <2>3, CatEmpty
<1> QED
  BY <1>2, <1>5, <1>6 DEF z

(* A turn of the loop that receives a file moves bytes from the stream to  *)
(* the file and ends exactly with the last.                                *)
LEMMA ReadDataSound ==
  ASSUME NEW d, NEW s \in ServerStates, NEW c \in ClientStates, NEW c2, NEW ts,
         NEW tc \in Seq(Units), Measured(d, s),
         Connected(s, c, ts, tc), c.pc = "data", NEW n \in Nat, n <= Len(tc),
         c2.size = c.size - n, c2.file = c.file \o SubSeq(tc, 1, n),
         c2.pc = IF c2.size = 0 THEN "saved" ELSE "data",
         c2.fname = c.fname, c2.received = c.received, c2.saved = c.saved, c2.response = c.response
  PROVE  Connected(s, c2, ts, Rest(tc, n))
<1> DEFINE a == SubSeq(tc, 1, n)
           more == Rest(tc, n)
<1>1. c.file \in Seq(Units)
  BY DEF ClientStates
<1>2. Gets(s, c, ts, tc)
  BY DEF Connected, AtPrompt, Asks, Misses, Hears
<1>3. /\ s.pc # "size" /\ c.file \o (tc \o Due(s)) = Whole(s)
      /\ c.size = s.size - Len(c.file)
  BY <1>2 DEF Gets
<1>4. /\ Due(s) \in Seq(Units) /\ Whole(s) \in Seq(Units) /\ Len(Whole(s)) = s.size
      /\ s.size \in Nat /\ s.offset \in Nat
      /\ s.pc = "send" => Len(Due(s)) = s.size - s.offset
  BY DueFacts DEF Measured
<1>5. a \in Seq(Units) /\ Len(a) = n /\ more \in Seq(Units) /\ a \o more = tc
  BY Parts
<1>6. c2.file = c.file \o a
  OBVIOUS
<1> HIDE DEF a, more
<1>7. /\ c2.file \o (more \o Due(s)) = Whole(s)
      /\ c2.size = s.size - Len(c2.file) /\ c2.size \in Nat
      /\ c2.size = 0 => c2.file = Whole(s) /\ more = <<>> /\ Due(s) = <<>>
  <2> DEFINE x == c.file
             due == Due(s)
             all == Whole(s)
             left == c2.size
  <2>1. /\ x \in Seq(Units) /\ due \in Seq(Units) /\ a \in Seq(Units) /\ more \in Seq(Units)
        /\ Cat(a, more) = tc
    BY <1>1, <1>4, <1>5 DEF Cat
  <2>2. all = Cat(x, Cat(tc, due))
    BY <1>3 DEF Cat
  <2>3. left = (Size(all) - Size(x)) - Size(a)
    BY <1>3, <1>4, <1>5 DEF Size
  <2> HIDE DEF x, due, all, left
  <2>4. /\ Cat(Cat(x, a), Cat(more, due)) = all
        /\ left = Size(all) - Size(Cat(x, a)) /\ left \in Nat
        /\ left = 0 => Cat(x, a) = all /\ more = <<>> /\ due = <<>>
    BY ONLY <2>1, <2>2, <2>3, TakePart, SMTT(60)
  <2>5. /\ (x \o a) \o (more \o due) = all
        /\ left = Len(all) - Len(x \o a) /\ left \in Nat
        /\ left = 0 => x \o a = all /\ more = <<>> /\ due = <<>>
    BY ONLY <2>4 DEF Cat, Size
  <2> QED
    BY <1>4, <1>6, <2>5 DEF x, due, all, left
<1>8. CASE c2.size # 0
  <2>1. c2.size > 0 /\ c2.pc = "data"
    BY <1>7, <1>8
  <2>2. Gets(s, c2, ts, more)
    BY <1>2, <1>3, <1>7, <2>1 DEF Gets
  <2> QED
    BY <2>2 DEF Connected, more
<1>9. CASE c2.size = 0
  <2>1. more = <<>> /\ Due(s) = <<>> /\ c2.file = Whole(s) /\ c2.pc = "saved"
    BY <1>7, <1>9
  <2>2. Len(Due(s)) = 0
    BY <2>1, EmptySeq
  <2>3. Free(s)
    BY <1>2, <1>3, <1>4, <2>2 DEF Free, Gets
  <2>4. Gets(s, c2, ts, more)
    BY <1>2, <1>3, <2>1, <2>3 DEF Gets
  <2> QED
    BY <2>4 DEF Connected, more
<1> QED
  BY <1>8, <1>9

(* The file is saved, and client and server have counted the same.         *)
LEMMA SaveSound ==
  ASSUME NEW d, NEW s \in ServerStates, NEW c \in ClientStates, NEW c2, NEW ts, NEW tc,
         Measured(d, s), Connected(s, c, ts, tc), c.pc = "saved",
         c2 = [c EXCEPT !.pc = "prompt", !.saved = @ \union {c.fname}, !.received = @ + Len(c.file)]
  PROVE  Connected(s, c2, ts, tc)
<1>1. /\ c2.pc = "prompt" /\ c2.fname = c.fname /\ c2.received = c.received + Len(c.file)
      /\ c2.saved = c.saved \union {c.fname} /\ c2.response = c.response
  BY DEF ClientStates
<1>2. Gets(s, c, ts, tc)
  BY DEF Connected, AtPrompt, Asks, Misses, Hears
<1>3. Len(c.file) = s.size
  <2>1. Len(Whole(s)) = s.size
    BY DueFacts DEF Measured
  <2> QED
    BY <1>2, <2>1 DEF Gets
<1>4. Sent(s) = s.size
  BY <1>2 DEF Gets, Free, Sent
<1>5. Even(s, c2)
  BY <1>1, <1>2, <1>3, <1>4 DEF Gets, Even
<1>6. Told(c2)
  BY <1>1, <1>2 DEF Gets, Told
<1>7. AtPrompt(s, c2, ts, tc)
  BY <1>1, <1>2, <1>5, <1>6 DEF Gets, AtPrompt
<1> QED
  BY <1>7 DEF Connected

(* ... or how long the statistics are, and these.                          *)
LEMMA ReadStatSizeSound ==
  ASSUME NEW s \in ServerStates, NEW c \in ClientStates, NEW c2, NEW ts,
         NEW tc \in Seq(Units),
         Connected(s, c, ts, tc), c.pc = "statsize", HeaderLen <= Len(tc),
         NEW size \in stoi(SubSeq(tc, 1, HeaderLen)),
         c2 = [c EXCEPT !.pc = IF size = 0 THEN "prompt" ELSE "stats", !.size = size]
  PROVE  Connected(s, c2, ts, Rest(tc, HeaderLen))
<1> DEFINE lines == 1 + Cardinality(s.filesDownloaded)
           line == Line("size", lines)
           more == Rest(tc, HeaderLen)
<1>1. /\ c2.pc = (IF size = 0 THEN "prompt" ELSE "stats")
      /\ c2.received = c.received
      /\ c2.saved = c.saved /\ c2.response = c.response /\ c2.size = size
  BY DEF ClientStates
<1>2. Text(s) \in Seq(Units) /\ DueText(s) \in Seq(Units) /\ lines \in Nat /\ lines >= 1 /\ Len(Text(s)) = lines
  BY TextFacts
<1> HIDE DEF lines
<1>3. line \in Seq(Units) /\ Len(line) = HeaderLen /\ HeaderLen \in Nat \ {0}
  BY <1>2, LineFacts, LineKinds
<1>4. tc # <<>>
  BY <1>3, EmptySeq
<1>5. Hears(s, c, ts, tc)
  BY <1>4 DEF Connected, AtPrompt, Asks, Misses, Gets
<1>6. tc \o DueText(s) = line \o Text(s) /\ c.response = <<>>
  BY <1>5 DEF Hears, line, lines
<1> HIDE DEF line
<1>7. SubSeq(tc, 1, Len(line)) = line /\ Rest(tc, Len(line)) \o DueText(s) = Text(s)
  BY <1>2, <1>3, <1>6, ReadFirst
<1>8. SubSeq(tc, 1, HeaderLen) = line /\ more \o DueText(s) = Text(s)
  BY <1>3, <1>7
<1>9. size = lines
  BY <1>2, <1>8, stoiOf DEF line
<1> HIDE DEF more
<1>10. c2.response \o (more \o DueText(s)) = Text(s)
  BY <1>1, <1>2, <1>6, <1>8, ConcatEmptySeq
<1>11. c2.size = Len(Text(s)) - Len(c2.response) /\ c2.size > 0 /\ c2.pc = "stats"
  <2>1. Len(c2.response) = 0
    BY <1>1, <1>6, EmptySeq
  <2> QED
    BY <1>1, <1>2, <1>9, <2>1
<1>12. Hears(s, c2, ts, more)
  BY <1>1, <1>5, <1>10, <1>11 DEF Hears, Even
<1> QED
  BY <1>12 DEF Connected, more

(* A turn of the loop that receives the statistics.                        *)
LEMMA ReadStatsSound ==
  ASSUME NEW s \in ServerStates, NEW c \in ClientStates, NEW c2, NEW ts,
         NEW tc \in Seq(Units),
         Connected(s, c, ts, tc), c.pc = "stats", NEW n \in Nat, n <= Len(tc),
         c2.size = c.size - n, c2.response = c.response \o SubSeq(tc, 1, n),
         c2.pc = IF c2.size = 0 THEN "prompt" ELSE "stats",
         c2.received = c.received, c2.saved = c.saved
  PROVE  Connected(s, c2, ts, Rest(tc, n))
<1> DEFINE a == SubSeq(tc, 1, n)
           more == Rest(tc, n)
           due == DueText(s)
<1>1. c.response \in Seq(Units)
  BY DEF ClientStates
<1>2. Hears(s, c, ts, tc)
  BY DEF Connected, AtPrompt, Asks, Misses, Gets
<1>3. c.response \o (tc \o due) = Text(s) /\ c.size = Len(Text(s)) - Len(c.response)
  BY <1>2 DEF Hears
<1>4. /\ Text(s) \in Seq(Units) /\ due \in Seq(Units) /\ Len(Text(s)) \in Nat /\ Len(Text(s)) >= 1
      /\ Text(s)[1] = <<"count", s.numBytesSent, 1>>
      /\ {Text(s)[k][2] : k \in 2..Len(Text(s))} = s.filesDownloaded
  BY TextFacts
<1> HIDE DEF due
<1>5. a \in Seq(Units) /\ Len(a) = n /\ more \in Seq(Units) /\ a \o more = tc
  BY Parts
<1>6. c2.response = c.response \o a
  OBVIOUS
<1> HIDE DEF a, more
<1>7. /\ c2.response \o (more \o due) = Text(s)
      /\ c2.size = Len(Text(s)) - Len(c2.response) /\ c2.size \in Nat
      /\ c2.size = 0 => c2.response = Text(s) /\ more = <<>> /\ due = <<>>
  <2> DEFINE x == c.response
             all == Text(s)
             left == c2.size
  <2>1. /\ x \in Seq(Units) /\ due \in Seq(Units) /\ a \in Seq(Units) /\ more \in Seq(Units)
        /\ Cat(a, more) = tc
    BY <1>1, <1>4, <1>5 DEF Cat
  <2>2. all = Cat(x, Cat(tc, due))
    BY <1>3 DEF Cat
  <2>3. left = (Size(all) - Size(x)) - Size(a)
    BY <1>3, <1>4, <1>5 DEF Size
  <2> HIDE DEF x, all, left
  <2>4. /\ Cat(Cat(x, a), Cat(more, due)) = all
        /\ left = Size(all) - Size(Cat(x, a)) /\ left \in Nat
        /\ left = 0 => Cat(x, a) = all /\ more = <<>> /\ due = <<>>
    BY ONLY <2>1, <2>2, <2>3, TakePart, SMTT(60)
  <2>5. /\ (x \o a) \o (more \o due) = all
        /\ left = Len(all) - Len(x \o a) /\ left \in Nat
        /\ left = 0 => x \o a = all /\ more = <<>> /\ due = <<>>
    BY ONLY <2>4 DEF Cat, Size
  <2> QED
    BY <1>4, <1>6, <2>5 DEF x, all, left
<1>8. CASE c2.size # 0
  <2>1. c2.size > 0 /\ c2.pc = "stats"
    BY <1>7, <1>8
  <2>2. Hears(s, c2, ts, more)
    BY <1>2, <1>7, <2>1 DEF Hears, Even, due
  <2> QED
    BY <2>2 DEF Connected, more
<1>9. CASE c2.size = 0
  <2>1. more = <<>> /\ due = <<>> /\ c2.response = Text(s) /\ c2.pc = "prompt"
    BY <1>7, <1>9
  <2>2. s.pc = "command"
    <3>1. Text(s) # <<>>
      BY <1>4, EmptySeq
    <3> QED
      BY <1>2, <2>1, <3>1 DEF Hears, due, DueText
  <2>3. Even(s, c2) /\ Counted(s) = s.filesDownloaded
    BY <1>2, <2>2 DEF Hears, Even, Counted
  <2>4. Told(c2)
    BY <1>4, <2>1, <2>3 DEF Told, Even
  <2>5. AtPrompt(s, c2, ts, more)
    BY <1>2, <2>1, <2>2, <2>3, <2>4 DEF AtPrompt, Free, Hears
  <2> QED
    BY <2>5 DEF Connected, more
<1> QED
  BY <1>8, <1>9

-----------------------------------------------------------------------------
(* When the server has ended, what is written is lost, and a read that     *)
(* finds the end of the stream is the last.                                *)
LEMMA NotClosed ==
  ASSUME NEW s, NEW c, NEW ts, NEW tc, Connected(s, c, ts, tc)
  PROVE  s.pc \notin {"closed", "finish", "left"}
BY DEF Connected, AtPrompt, Asks, Misses, Gets, Hears, Free

(* A client that writes to a server that has ended is cut off, ...         *)
LEMMA LostSound ==
  ASSUME NEW s, NEW c, NEW c2, NEW ts, NEW tc, Connected(s, c, ts, tc) \/ Cut(c, tc),
         \/ c.pc = "prompt" /\ c2.response = <<>> /\ c2.pc \in {"name", "statsize"}
         \/ c.pc = "name" /\ c2.response = c.response /\ c2.pc = "status"
  PROVE  Cut(c2, tc)
<1>1. tc = <<>> /\ (c.pc = "name" => c.response = <<>>)
  BY DEF Connected, AtPrompt, Asks, Misses, Gets, Hears, Cut
<1> QED
  BY <1>1 DEF Cut

(* ... finds nothing to read, ...                                          *)
LEMMA CutReads ==
  ASSUME NEW c, NEW tc, Cut(c, tc), NEW n, n \in ReadLengths(tc, HeaderLen) \/ n \in ReadLengths(tc, Chunk)
  PROVE  FALSE
<1>1. tc = <<>> /\ n \in Nat /\ n >= 1 /\ n <= Len(tc)
  BY TransferAssumption DEF Cut, ReadLengths
<1>2. Len(tc) = 0
  BY <1>1, EmptySeq
<1> QED
  BY <1>1, <1>2

(* (the beginning of a file is the file up to there)                       *)
LEMMA FirstCat ==
  ASSUME NEW f \in Values, NEW n \in Nat, NEW x \in Seq(Units), NEW y \in Seq(Units),
         Cat(x, y) = FileUnits(f, 0, n)
  PROVE  x = FileUnits(f, 0, Len(x)) /\ Len(x) + Len(y) = n
<1>1. x \o y = FileUnits(f, 0, n)
  BY DEF Cat
<1> QED
  BY ONLY <1>1, FirstPiece

(* ... and takes the end of the stream for the end of the answer: what it  *)
(* has of a file is the beginning of it.                                   *)
LEMMA EofSound ==
  ASSUME NEW d, NEW s \in ServerStates, NEW c \in ClientStates, NEW c2, NEW ts, NEW tc \in Seq(Units),
         Measured(d, s), Connected(s, c, ts, tc) \/ Cut(c, tc),
         c.pc \in {"status", "size", "data", "statsize", "stats"},
         c2 = [c EXCEPT !.pc = AfterEof(c.pc)], c2.pc # "gone"
  PROVE  Cut(c2, <<>>)
<1>1. /\ c2.pc = AfterEof(c.pc) /\ c2.fname = c.fname /\ c2.file = c.file
      /\ c2.response = c.response /\ c2.size = c.size
  BY DEF ClientStates
<1>2. CASE c.pc = "status"
  <2>1. c2.pc = "prompt"
    BY <1>1, <1>2 DEF AfterEof
  <2>2. c.response = <<>>
    BY <1>2 DEF Connected, AtPrompt, Asks, Misses, Gets, Hears, Cut
  <2> QED
    BY <1>1, <2>1, <2>2 DEF Cut
<1>3. CASE c.pc = "data"
  <2>1. c2.pc = "saved"
    BY <1>1, <1>3 DEF AfterEof
  <2>2. Gets(s, c, ts, tc)
    BY <1>3 DEF Connected, AtPrompt, Asks, Misses, Hears, Cut
  <2>3. /\ Due(s) \in Seq(Units) /\ s.size \in Nat /\ c.fname \in Values /\ c.file \in Seq(Units)
        /\ tc \o Due(s) \in Seq(Units)
    <3>1. Due(s) \in Seq(Units) /\ s.size \in Nat
      BY DueFacts DEF Measured
    <3>2. tc \o Due(s) \in Seq(Units)
      BY <3>1, ConcatProperties
    <3> QED
      BY <3>1, <3>2 DEF ClientStates, Values
  <2> DEFINE rest == tc \o Due(s)
             f == c.fname
             x == c.file
             n == s.size
  <2>4. c.file \o rest = FileUnits(f, 0, n)
    BY <1>3, <2>2 DEF Gets, Whole
  <2>5. f \in Values /\ n \in Nat /\ x \in Seq(Units) /\ rest \in Seq(Units)
    BY <2>3
  <2>6. Cat(x, rest) = FileUnits(f, 0, n)
    BY <2>4 DEF Cat
  <2> HIDE DEF rest, f, x, n
  <2>7. x = FileUnits(f, 0, Len(x))
    BY ONLY <2>5, <2>6, FirstCat
  <2>8. c.file = FileUnits(c.fname, 0, Len(c.file))
    BY <2>7 DEF x, f
  <2>9. c.response = <<>>
    BY <2>2 DEF Gets
  <2> QED
    BY <1>1, <2>1, <2>8, <2>9 DEF Cut
<1>4. CASE c.pc = "stats"
  <2>1. c2.pc = "prompt"
    BY <1>1, <1>4 DEF AfterEof
  <2>2. Hears(s, c, ts, tc)
    BY <1>4 DEF Connected, AtPrompt, Asks, Misses, Gets, Cut
  <2>3. c.size > 0
    BY <1>4, <2>2 DEF Hears
  <2> QED
    BY <1>1, <2>1, <2>3 DEF Cut
<1>5. CASE c.pc \in {"size", "statsize"}
  BY <1>1, <1>5 DEF AfterEof
<1> QED
  BY <1>2, <1>3, <1>4, <1>5

-----------------------------------------------------------------------------
(* A step on one connection keeps them all sound if it keeps that one.     *)
LEMMA SoundOn ==
  ASSUME SoundInv, TypeInv', NEW u \in Users, NEW s, NEW c, NEW ts, NEW tc, On(u, s, c, ts, tc),
         NEW still \in BOOLEAN, sound' = [sound EXCEPT ![u] = still],
         up' => up, disk' = disk, still /\ c.pc # "gone" => Holds(disk, up', s, c, ts, tc)
  PROVE  SoundInv'
<1>1. /\ server'[u] = s /\ client'[u] = c /\ toServer'[u] = ts /\ toClient'[u] = tc
      /\ \A v \in Users : v # u => /\ server'[v] = server[v] /\ client'[v] = client[v]
                                   /\ toServer'[v] = toServer[v] /\ toClient'[v] = toClient[v]
  BY OnOne DEF SoundInv, TypeInv
<1>2. sound \in [Users -> BOOLEAN] /\ up \in BOOLEAN /\ up' \in BOOLEAN
  BY DEF SoundInv, TypeInv, TypeOK
<1>3. ASSUME NEW v \in Users, sound'[v], ~Gone(v)' PROVE Sound(v)'
  <2>1. CASE v = u
    <3>1. still /\ c.pc # "gone"
      BY <1>1, <1>2, <1>3, <2>1 DEF Gone
    <3> QED
      BY <1>1, <2>1, <3>1 DEF Sound
  <2>2. CASE v # u
    <3>1. sound[v] /\ ~Gone(v)
      BY <1>1, <1>2, <1>3, <2>2 DEF Gone
    <3>2. Sound(v)
      BY <3>1 DEF SoundInv
    <3> QED
      BY <1>1, <2>2, <3>2 DEF Sound, Holds, Ended
  <2> QED
    BY <2>1, <2>2
<1> QED
  BY <1>3 DEF SoundInv

(* What the invariant says of one connection.                              *)
LEMMA IsSound ==
  ASSUME SoundInv, NEW u \in Users, sound[u], ~Gone(u)
  PROVE  /\ server[u] \in ServerStates /\ client[u] \in ClientStates
         /\ toServer[u] \in Seq(Units) /\ toClient[u] \in Seq(Units)
         /\ Holds(disk, up, server[u], client[u], toServer[u], toClient[u])
BY DEF SoundInv, TypeInv, TypeOK, Sound

-----------------------------------------------------------------------------
(* A step of the server that moves no stream, reads or writes keeps the    *)
(* connections sound if it keeps its own connected.                        *)
LEMMA ServerStaysSound ==
  ASSUME SoundInv, TypeInv', NEW u \in Users, NEW from, NEW new, Serves(u, from, new),
         from # "closed", UNCHANGED <<toServer, toClient, mishaps, sound>>,
         /\ sound[u] /\ ~Gone(u)
         /\ Measured(disk, server[u])
         /\ Connected(server[u], client[u], toServer[u], toClient[u])
         => Holds(disk, up', new, client[u], toServer[u], toClient[u])
  PROVE  SoundInv'
<1>1. On(u, new, client[u], toServer[u], toClient[u]) /\ up /\ disk' = disk /\ server[u].pc # "closed"
  BY Same DEF SoundInv, TypeInv, Serves, On
<1>2. sound' = [sound EXCEPT ![u] = sound[u]] /\ sound[u] \in BOOLEAN
  BY DEF SoundInv, TypeInv, TypeOK
<1>3. sound[u] /\ client[u].pc # "gone" => Holds(disk, up', new, client[u], toServer[u], toClient[u])
  <2> SUFFICES ASSUME sound[u], client[u].pc # "gone"
               PROVE  Holds(disk, up', new, client[u], toServer[u], toClient[u])
    OBVIOUS
  <2>1. Measured(disk, server[u]) /\ Connected(server[u], client[u], toServer[u], toClient[u])
    BY <1>1, IsSound DEF Gone, Holds, Ended
  <2> QED
    BY <2>1 DEF Gone
<1> QED
  BY <1>1, <1>2, <1>3, SoundOn

(* As ServerStaysSound, of a step that reads.                              *)
LEMMA ServerReadsSound ==
  ASSUME SoundInv, TypeInv', NEW u \in Users, NEW from, NEW new, Serves(u, from, new),
         NEW n, NEW len, NEW still \in BOOLEAN, ServerReads(u, n, len, still), from # "closed",
         /\ still /\ sound[u] /\ ~Gone(u)
         /\ Measured(disk, server[u])
         /\ Connected(server[u], client[u], toServer[u], toClient[u])
         => Holds(disk, up, new, client[u], Rest(toServer[u], n), toClient[u])
  PROVE  SoundInv'
<1>1. /\ On(u, new, client[u], Rest(toServer[u], n), toClient[u]) /\ up /\ disk' = disk /\ up' = up
      /\ server[u].pc # "closed"
  BY Same DEF SoundInv, TypeInv, Serves, ServerReads, On
<1> DEFINE remains == sound[u] /\ still
<1>2. sound' = [sound EXCEPT ![u] = remains] /\ remains \in BOOLEAN
  BY DEF SoundInv, TypeInv, TypeOK, ServerReads, StaysSound
<1>3. remains /\ client[u].pc # "gone" => Holds(disk, up', new, client[u], Rest(toServer[u], n), toClient[u])
  <2> SUFFICES ASSUME sound[u], still, client[u].pc # "gone"
               PROVE  Holds(disk, up', new, client[u], Rest(toServer[u], n), toClient[u])
    OBVIOUS
  <2>1. Measured(disk, server[u]) /\ Connected(server[u], client[u], toServer[u], toClient[u])
    BY <1>1, IsSound DEF Gone, Holds, Ended
  <2> QED
    BY <1>1, <2>1 DEF Gone
<1> HIDE DEF remains
<1> QED
  BY <1>1, <1>2, <1>3, SoundOn

(* As ServerStaysSound, of a step that writes.                             *)
LEMMA ServerWritesSound ==
  ASSUME SoundInv, TypeInv', NEW u \in Users, NEW from, NEW new, Serves(u, from, new),
         NEW units, ServerWrites(u, units), from # "closed",
         /\ sound[u] /\ ~Gone(u)
         /\ Measured(disk, server[u])
         /\ Connected(server[u], client[u], toServer[u], toClient[u])
         => Measured(disk, new) /\ Connected(new, client[u], toServer[u], toClient[u] \o units)
  PROVE  SoundInv'
<1>1. /\ sound' = [sound EXCEPT ![u] = sound[u]] /\ sound[u] \in BOOLEAN /\ up /\ disk' = disk
      /\ server[u].pc # "closed"
  BY DEF SoundInv, TypeInv, TypeOK, ServerWrites, Serves
<1>2. CASE Gone(u)
  <2>1. On(u, new, client[u], toServer[u], toClient[u])
    BY <1>2, Same DEF SoundInv, TypeInv, Serves, ServerWrites, On
  <2> QED
    BY <1>1, <1>2, <2>1, SoundOn DEF Gone
<1>3. CASE ~Gone(u)
  <2> DEFINE tc == toClient[u] \o units
  <2>1. On(u, new, client[u], toServer[u], tc) /\ up' = up
    BY <1>3, Same DEF SoundInv, TypeInv, Serves, ServerWrites, On
  <2>2. sound[u] => Holds(disk, up', new, client[u], toServer[u], tc)
    <3>1. sound[u] => /\ Measured(disk, server[u])
                      /\ Connected(server[u], client[u], toServer[u], toClient[u])
      BY <1>1, <1>3, IsSound DEF Holds, Ended
    <3> QED
      BY <1>3, <3>1 DEF Holds
  <2> HIDE DEF tc
  <2> QED
    BY <1>1, <2>1, <2>2, SoundOn
<1> QED
  BY <1>2, <1>3

-----------------------------------------------------------------------------
(* The steps of the server keep the connections sound: what it reads, ...  *)
LEMMA ServerReadingSound ==
  ASSUME SoundInv, TypeInv', NEW u \in Users, ReadCommand(u) \/ ReadName(u)
  PROVE  SoundInv'
<1> DEFINE s == server[u]
           c == client[u]
           ts == toServer[u]
           tc == toClient[u]
<1>1. s \in ServerStates /\ c \in ClientStates /\ ts \in Seq(Units)
  BY DEF SoundInv, TypeInv, TypeOK
<1>2. ASSUME NEW max \in Nat, NEW n \in ReadLengths(ts, max) PROVE ts # <<>>
  <2>1. n >= 1 /\ n <= Len(ts) /\ n \in Nat /\ Len(ts) \in Nat
    BY <1>1, <1>2, Lengths DEF ReadLengths
  <2>2. Len(ts) >= 1
    BY <2>1
  <2> QED
    BY <1>1, <2>2, Lengths
<1>3. HeaderLen \in Nat /\ NameLen \in Nat
  BY TransferAssumption
<1>4. CASE ReadCommand(u)
  <2>1. PICK n \in ReadLengths(ts, HeaderLen) :
          LET next == CommandIn(SubSeq(ts, 1, n)) IN
          /\ Serves(u, "command", [s EXCEPT !.pc = next, !.open = AfterClose(@, next)])
          /\ ServerReads(u, n, HeaderLen, TRUE)
    BY <1>4 DEF ReadCommand
  <2> DEFINE next == CommandIn(SubSeq(ts, 1, n))
             new == [s EXCEPT !.pc = next, !.open = AfterClose(@, next)]
  <2>2. Serves(u, "command", new) /\ ServerReads(u, n, HeaderLen, TRUE) /\ s.pc = "command" /\ ts # <<>>
    BY <1>2, <1>3, <2>1 DEF Serves
  <2>3. ASSUME n = HeaderLen, Measured(disk, s), Connected(s, c, ts, tc)
        PROVE  Measured(disk, new) /\ Connected(new, c, Rest(ts, n), tc)
    <3>1. next = CommandIn(SubSeq(ts, 1, HeaderLen)) /\ new = [s EXCEPT !.pc = next, !.open = AfterClose(@, next)]
      BY <2>3
    <3> HIDE DEF new, next, s, c, ts, tc
    <3>2. Measured(disk, new) /\ Connected(new, c, Rest(ts, HeaderLen), tc)
      BY <1>1, <2>2, <2>3, <3>1, ReadCommandSound
    <3> QED
      BY <2>3, <3>2
  <2>4. ASSUME n # HeaderLen, Measured(disk, s), Connected(s, c, ts, tc)
        PROVE  Measured(disk, new) /\ new.pc = "closed" /\ Cut(c, tc)
    <3>1. n \in Nat /\ n <= Len(ts) /\ n < HeaderLen
      BY <1>3, <2>4 DEF ReadLengths
    <3>2. Len(SubSeq(ts, 1, n)) = n
      BY <1>1, <3>1, Parts
    <3>3. next = "closed"
      BY <3>1, <3>2 DEF CommandIn
    <3> HIDE DEF next
    <3>4. new.pc = "closed"
      BY <1>1, <3>3 DEF ServerStates
    <3> HIDE DEF new, s, c, ts, tc
    <3>5. Measured(disk, new)
      BY <3>4 DEF Measured
    <3>6. Asks(s, c, ts, tc)
      BY <2>2, <2>4 DEF Connected, AtPrompt, Misses, Gets, Hears
    <3>7. Cut(c, tc)
      BY <3>6 DEF Asks, Cut
    <3> QED
      BY <3>4, <3>5, <3>7
  <2>5. Measured(disk, s) /\ Connected(s, c, ts, tc) => Holds(disk, up, new, c, Rest(ts, n), tc)
    BY <2>3, <2>4 DEF Holds, Ended
  <2> HIDE DEF new
  <2> QED
    BY <2>2, <2>5, ServerReadsSound
<1>5. CASE ReadName(u)
  <2>1. PICK n \in ReadLengths(ts, NameLen) :
          /\ \E name \in {ts[1][2]} \union (IF n < NameLen THEN {NoFile} ELSE {}) :
               Serves(u, "name", [s EXCEPT !.pc = "measure", !.fname = name])
          /\ ServerReads(u, n, NameLen, n = NameLen)
    BY <1>5 DEF ReadName
  <2>2. PICK name \in {ts[1][2]} \union (IF n < NameLen THEN {NoFile} ELSE {}) :
          Serves(u, "name", [s EXCEPT !.pc = "measure", !.fname = name])
    BY <2>1
  <2> DEFINE new == [s EXCEPT !.pc = "measure", !.fname = name]
  <2>3. Serves(u, "name", new) /\ ServerReads(u, n, NameLen, n = NameLen) /\ s.pc = "name" /\ ts # <<>>
    BY <1>2, <1>3, <2>1, <2>2 DEF Serves
  <2>4. ASSUME n = NameLen, Measured(disk, s), Connected(s, c, ts, tc)
        PROVE  Measured(disk, new) /\ Connected(new, c, Rest(ts, n), tc)
    <3>1. name = ts[1][2]
      BY <1>3, <2>2, <2>4
    <3>2. /\ name = ts[1][2] /\ new = [s EXCEPT !.pc = "measure", !.fname = name]
          /\ Measured(disk, s) /\ Connected(s, c, ts, tc) /\ s.pc = "name" /\ ts # <<>>
      BY <2>3, <2>4, <3>1
    <3> HIDE DEF new, s, c, ts, tc
    <3>3. Measured(disk, new) /\ Connected(new, c, Rest(ts, NameLen), tc)
      BY ONLY <1>1, <3>2, ReadNameSound
    <3> QED
      BY <2>4, <3>3
  <2>5. n = NameLen /\ Measured(disk, s) /\ Connected(s, c, ts, tc)
        => Holds(disk, up, new, c, Rest(ts, n), tc)
    BY <2>4 DEF Holds
  <2>6. (n = NameLen) \in BOOLEAN
    OBVIOUS
  <2> HIDE DEF new
  <2> QED
    BY <2>3, <2>5, <2>6, ServerReadsSound
<1> QED
  BY <1>4, <1>5

(* ... what it does without a word, ...                                    *)
LEMMA ServerSilentSound ==
  ASSUME SoundInv, TypeInv', NEW u \in Users,
         Accept(u) \/ ReadNothing(u) \/ Measure(u) \/ CloseNull(u) \/ FinishFile(u)
  PROVE  SoundInv'
<1> DEFINE s == server[u]
           c == client[u]
           ts == toServer[u]
           tc == toClient[u]
           good == /\ sound[u] /\ ~Gone(u)
                   /\ Measured(disk, s)
                   /\ Connected(s, c, ts, tc)
<1>1. s \in ServerStates /\ c \in ClientStates /\ ts \in Seq(Units) /\ tc \in Seq(Units)
  BY DEF SoundInv, TypeInv, TypeOK
<1>2. CASE Accept(u)
  <2> DEFINE open == 1
             new == [s EXCEPT !.pc = "command", !.open = open]
  <2>1. /\ Serves(u, "none", new) /\ s.pc = "none" /\ c.pc # "away"
        /\ UNCHANGED <<toServer, toClient, mishaps, sound>>
    BY <1>2 DEF Accept, Serves, Silently
  <2>2. ASSUME good PROVE Measured(disk, new) /\ Connected(new, c, ts, tc)
    <3>1. /\ new = [s EXCEPT !.pc = "command", !.open = open] /\ s.pc = "none" /\ c.pc # "away"
          /\ Measured(disk, s) /\ Connected(s, c, ts, tc)
      BY <2>1, <2>2
    <3> HIDE DEF new, open, s, c, ts, tc
    <3> QED
      BY ONLY <1>1, <3>1, AcceptSound
  <2> HIDE DEF new
  <2> QED
    BY <2>1, <2>2, ServerStaysSound DEF Holds
<1>3. CASE ReadNothing(u)
  <2>1. Gone(u) /\ UNCHANGED <<toServer, toClient, mishaps, sound>>
    BY <1>3 DEF ReadNothing, Silently
  <2>2. PICK from, new : Serves(u, from, new) /\ from # "closed"
    BY <1>3 DEF ReadNothing
  <2> QED
    BY <2>1, <2>2, ServerStaysSound
<1>4. CASE Measure(u)
  <2> DEFINE new == [s EXCEPT !.pc = "reopen", !.size = disk[s.fname]]
  <2>1. Serves(u, "measure", new) /\ s.pc = "measure" /\ UNCHANGED <<toServer, toClient, mishaps, sound>>
    BY <1>4 DEF Measure, Serves, Silently
  <2>2. ASSUME good PROVE Measured(disk, new) /\ Connected(new, c, ts, tc)
    <3> HIDE DEF s, c, ts, tc
    <3> QED
      BY <1>1, <2>1, <2>2, MeasureSound
  <2> HIDE DEF new
  <2> QED
    BY <2>1, <2>2, ServerStaysSound DEF Holds
<1>5. CASE CloseNull(u)
  <2>1. Serves(u, "measure", s) /\ up' = FALSE /\ s.pc = "measure" /\ UNCHANGED <<toServer, toClient, mishaps, sound>>
    BY <1>5 DEF CloseNull, Serves
  <2>2. ASSUME good PROVE Cut(c, tc)
    BY <2>1, <2>2, CloseNullSound
  <2>3. good => Holds(disk, up', s, c, ts, tc)
    BY <2>1, <2>2 DEF Holds, Ended
  <2> QED
    BY <2>1, <2>3, ServerStaysSound
<1>6. CASE FinishFile(u)
  <2> DEFINE new == [s EXCEPT !.pc = "command", !.filesDownloaded = @ \union {s.fname}]
  <2>1. PICK from \in {"finish", "send"} : Serves(u, from, new) /\ (from = "send" => Available(u) <= 0)
    BY <1>6 DEF FinishFile
  <2>2. s.pc = from /\ UNCHANGED <<toServer, toClient, mishaps, sound>>
    BY <1>6, <2>1 DEF FinishFile, Serves, Silently
  <2>3. ASSUME good PROVE Measured(disk, new) /\ Connected(new, c, ts, tc)
    <3>1. s.pc = "send"
      BY <2>2, <2>3, NotClosed
    <3>2. s.offset = s.size
      <4>1. /\ s.size \in Int /\ s.offset \in Int /\ s.offset <= s.size
            /\ disk[s.fname] = s.size /\ Chunk \in Nat \ {0}
        BY <1>1, <2>3, <3>1, TransferAssumption DEF Measured, ServerStates
      <4> DEFINE ahead == disk[s.fname] - s.offset
      <4>2. ahead \in Int /\ (IF ahead > Chunk THEN Chunk ELSE ahead) <= 0
        BY <2>1, <2>2, <3>1, <4>1 DEF Available
      <4> HIDE DEF ahead
      <4>4. Chunk \in Nat \ {0}
        BY <4>1
      <4>3. ahead <= 0
        BY ONLY <4>2, <4>4
      <4> QED
        BY <4>1, <4>3 DEF ahead
    <3>3. /\ new = [s EXCEPT !.pc = "command", !.filesDownloaded = @ \union {s.fname}]
          /\ Measured(disk, s) /\ Connected(s, c, ts, tc)
      BY <2>3
    <3> HIDE DEF new, s, c, ts, tc
    <3> QED
      BY ONLY <1>1, <3>1, <3>2, <3>3, FinishFileSound
  <2> HIDE DEF new
  <2> QED
    BY <2>1, <2>2, <2>3, ServerStaysSound DEF Holds
<1> QED
  BY <1>2, <1>3, <1>4, <1>5, <1>6

(* ... and what it writes.                                                 *)
LEMMA ServerWritingSound ==
  ASSUME SoundInv, TypeInv', NEW u \in Users,
         \/ Reopen(u) \/ NotFound(u) \/ SendSize(u) \/ SendChunk(u) \/ SendStatSize(u) \/ SendStat(u)
  PROVE  SoundInv'
<1> DEFINE s == server[u]
           c == client[u]
           ts == toServer[u]
           tc == toClient[u]
           good == /\ sound[u] /\ ~Gone(u)
                   /\ Measured(disk, s)
                   /\ Connected(s, c, ts, tc)
<1>1. s \in ServerStates /\ c \in ClientStates /\ ts \in Seq(Units) /\ tc \in Seq(Units)
  BY DEF SoundInv, TypeInv, TypeOK
<1>2. CASE Reopen(u)
  <2> DEFINE open == s.open + 1
             new == [s EXCEPT !.pc = "size", !.offset = 0, !.open = open]
             units == Line("FOUND", 0)
  <2>1. Serves(u, "reopen", new) /\ ServerWrites(u, units) /\ s.pc = "reopen" /\ disk[s.fname] # -1
    BY <1>2 DEF Reopen, CanOpen, Exists, Serves, Line
  <2>2. ASSUME good PROVE Measured(disk, new) /\ Connected(new, c, ts, tc \o units)
    <3>1. /\ new = [s EXCEPT !.pc = "size", !.offset = 0, !.open = open] /\ units = Line("FOUND", 0)
          /\ Measured(disk, s) /\ Connected(s, c, ts, tc) /\ s.pc = "reopen" /\ disk[s.fname] = s.size
      BY <2>1, <2>2 DEF Measured
    <3> HIDE DEF new, units, s, c, ts, tc, open
    <3> QED
      BY ONLY <1>1, <3>1, ReopenSound
  <2> HIDE DEF new, units
  <2> QED
    BY <2>1, <2>2, ServerWritesSound
<1>3. CASE NotFound(u)
  <2> DEFINE new == [s EXCEPT !.pc = "command"]
             units == Line("NOTFOUND", 0)
  <2>1. Serves(u, "reopen", new) /\ ServerWrites(u, units) /\ s.pc = "reopen"
    BY <1>3 DEF NotFound, Serves, Line
  <2>2. ASSUME good PROVE Measured(disk, new) /\ Connected(new, c, ts, tc \o units)
    <3>1. /\ new = [s EXCEPT !.pc = "command"] /\ units = Line("NOTFOUND", 0)
          /\ Measured(disk, s) /\ Connected(s, c, ts, tc) /\ s.pc = "reopen"
      BY <2>1, <2>2
    <3> HIDE DEF new, units, s, c, ts, tc
    <3> QED
      BY ONLY <1>1, <3>1, NotFoundSound
  <2> HIDE DEF new, units
  <2> QED
    BY <2>1, <2>2, ServerWritesSound
<1>4. CASE SendSize(u)
  <2> DEFINE new == [s EXCEPT !.pc = "send"]
             units == Line("size", s.size)
  <2>1. Serves(u, "size", new) /\ ServerWrites(u, units) /\ s.pc = "size"
    BY <1>4 DEF SendSize, Serves, Line
  <2>2. ASSUME good PROVE Measured(disk, new) /\ Connected(new, c, ts, tc \o units)
    <3>1. /\ new = [s EXCEPT !.pc = "send"] /\ units = Line("size", s.size)
          /\ Measured(disk, s) /\ Connected(s, c, ts, tc) /\ s.pc = "size"
      BY <2>1, <2>2
    <3> HIDE DEF new, units, s, c, ts, tc
    <3> QED
      BY ONLY <1>1, <3>1, SendSizeSound
  <2> HIDE DEF new, units
  <2> QED
    BY <2>1, <2>2, ServerWritesSound
<1>5. CASE SendChunk(u)
  <2> DEFINE from == s.offset
             sent == s.numBytesSent
             size == s.size
             n == Available(u)
             units == FileUnits(s.fname, from, from + n)
  <2>1. PICK next \in {"send"} \union (IF Gone(u) THEN {"finish"} ELSE {}) :
          Serves(u, "send", [s EXCEPT !.pc = next, !.offset = from + n, !.numBytesSent = sent + n])
    BY <1>5 DEF SendChunk, Turn
  <2> DEFINE new == [s EXCEPT !.pc = next, !.offset = from + n, !.numBytesSent = sent + n]
  <2>2. Serves(u, "send", new) /\ ServerWrites(u, units) /\ s.pc = "send" /\ n > 0
    BY <1>5, <2>1 DEF SendChunk, Turn, Serves
  <2>3. ASSUME good PROVE Measured(disk, new) /\ Connected(new, c, ts, tc \o units)
    <3>1. from \in Nat /\ sent \in Nat /\ size \in Nat /\ disk[s.fname] = size /\ Chunk \in Nat
      BY <1>1, <2>2, <2>3, TransferAssumption DEF Measured, ServerStates
    <3>2. n = IF size - from > Chunk THEN Chunk ELSE size - from
      BY <3>1 DEF Available
    <3>3. next = "send"
      BY <2>1, <2>3
    <3>4. /\ new = [s EXCEPT !.pc = "send", !.offset = from + n, !.numBytesSent = sent + n]
          /\ from = s.offset /\ sent = s.numBytesSent /\ size = s.size
          /\ units = FileUnits(s.fname, from, from + n)
          /\ Measured(disk, s) /\ Connected(s, c, ts, tc) /\ s.pc = "send" /\ n > 0
      BY <2>2, <2>3, <3>3
    <3> HIDE DEF from, sent, size, n
    <3>5. n \in Nat /\ n > 0 /\ from + n <= size
      BY <3>1, <3>2, <3>4
    <3>6. from \in Nat /\ sent \in Nat /\ size \in Nat
      BY <3>1
    <3> HIDE DEF new, units, s, c, ts, tc
    <3> QED
      BY ONLY <1>1, <3>4, <3>5, <3>6, SendChunkSound
  <2> HIDE DEF new, units
  <2> QED
    BY <2>2, <2>3, ServerWritesSound
<1>6. CASE SendStatSize(u)
  <2> DEFINE new == [s EXCEPT !.pc = "text"]
             units == Line("size", 1 + Cardinality(s.filesDownloaded))
  <2>1. Serves(u, "stat", new) /\ ServerWrites(u, units) /\ s.pc = "stat"
    BY <1>6 DEF SendStatSize, SendSizeOfText, Serves, Line
  <2>2. ASSUME good PROVE Measured(disk, new) /\ Connected(new, c, ts, tc \o units)
    <3>1. /\ new = [s EXCEPT !.pc = "text"] /\ units = Line("size", 1 + Cardinality(s.filesDownloaded))
          /\ Measured(disk, s) /\ Connected(s, c, ts, tc) /\ s.pc = "stat"
      BY <2>1, <2>2
    <3> HIDE DEF new, units, s, c, ts, tc
    <3> QED
      BY ONLY <1>1, <3>1, SendStatSizeSound
  <2> HIDE DEF new, units
  <2> QED
    BY <2>1, <2>2, ServerWritesSound
<1>7. CASE SendStat(u)
  <2> DEFINE new == [s EXCEPT !.pc = "command"]
             units == Text(s)
  <2>1. Serves(u, "text", new) /\ ServerWrites(u, units) /\ s.pc = "text"
    BY <1>7 DEF SendStat, Serves, Text
  <2>2. ASSUME good PROVE Measured(disk, new) /\ Connected(new, c, ts, tc \o units)
    <3>1. /\ new = [s EXCEPT !.pc = "command"] /\ units = Text(s)
          /\ Measured(disk, s) /\ Connected(s, c, ts, tc) /\ s.pc = "text"
      BY <2>1, <2>2
    <3> HIDE DEF new, units, s, c, ts, tc
    <3> QED
      BY ONLY <1>1, <3>1, SendStatSound
  <2> HIDE DEF new, units
  <2> QED
    BY <2>1, <2>2, ServerWritesSound
<1> QED
  BY <1>2, <1>3, <1>4, <1>5, <1>6, <1>7

(* Every step of the server keeps the connections sound.                   *)
LEMMA ServerSound ==
  ASSUME SoundInv, TypeInv', NEW u \in Users, serve(u)
  PROVE  SoundInv'
BY ServerReadingSound, ServerSilentSound, ServerWritingSound DEF serve

-----------------------------------------------------------------------------
(* A step of a client keeps the connections sound if it keeps its own      *)
(* connected, or cut.                                                      *)
LEMMA ClientOnSound ==
  ASSUME SoundInv, TypeInv', NEW u \in Users, NEW from, NEW new, Acts(u, from, new), from # "gone",
         NEW ts, NEW tc, toServer' = [toServer EXCEPT ![u] = ts], toClient' = [toClient EXCEPT ![u] = tc],
         NEW still \in BOOLEAN, sound' = [sound EXCEPT ![u] = still], still => sound[u],
         /\ still /\ new.pc # "gone"
         /\ Measured(disk, server[u])
         /\ \/ Connected(server[u], client[u], toServer[u], toClient[u])
            \/ Ended(up, server[u]) /\ Cut(client[u], toClient[u])
         => Connected(server[u], new, ts, tc) \/ (Ended(up, server[u]) /\ Cut(new, tc))
  PROVE  SoundInv'
<1>1. On(u, server[u], new, ts, tc) /\ up' = up /\ disk' = disk /\ client[u].pc = from
  BY Same DEF SoundInv, TypeInv, Acts, On
<1>2. still /\ new.pc # "gone" => Holds(disk, up', server[u], new, ts, tc)
  BY <1>1, IsSound DEF Gone, Holds
<1> QED
  BY <1>1, <1>2, SoundOn

(* What a client that is cut off reads is the end of the stream alone.     *)
LEMMA ClientReadsSound ==
  ASSUME SoundInv, TypeInv', NEW u \in Users, NEW from, NEW new, Acts(u, from, new), from # "gone",
         NEW n, ClientReads(u, n),
         n \in ReadLengths(toClient[u], HeaderLen) \/ n \in ReadLengths(toClient[u], Chunk),
         NEW still \in BOOLEAN, sound' = [sound EXCEPT ![u] = still], still => sound[u],
         /\ still /\ new.pc # "gone"
         /\ Measured(disk, server[u])
         /\ Connected(server[u], client[u], toServer[u], toClient[u])
         => Connected(server[u], new, toServer[u], Rest(toClient[u], n))
  PROVE  SoundInv'
<1> DEFINE ts == toServer[u]
           tc == Rest(toClient[u], n)
<1>1. toServer' = [toServer EXCEPT ![u] = ts] /\ toClient' = [toClient EXCEPT ![u] = tc]
  BY Same DEF SoundInv, TypeInv, ClientReads
<1>2. ~Cut(client[u], toClient[u])
  BY CutReads
<1>3. /\ still /\ new.pc # "gone"
      /\ Measured(disk, server[u])
      /\ \/ Connected(server[u], client[u], toServer[u], toClient[u])
         \/ Ended(up, server[u]) /\ Cut(client[u], toClient[u])
      => Connected(server[u], new, ts, tc) \/ (Ended(up, server[u]) /\ Cut(new, tc))
  BY <1>2
<1> HIDE DEF ts, tc
<1> QED
  BY <1>1, <1>3, ClientOnSound

(* As ClientOnSound, of a step that leaves the streams alone.              *)
LEMMA ClientStaysSound ==
  ASSUME SoundInv, TypeInv', NEW u \in Users, NEW from, NEW new, Acts(u, from, new), from # "gone",
         UNCHANGED <<toServer, toClient, mishaps, sound>>,
         /\ new.pc # "gone"
         /\ Measured(disk, server[u])
         /\ \/ Connected(server[u], client[u], toServer[u], toClient[u])
            \/ Ended(up, server[u]) /\ Cut(client[u], toClient[u])
         => \/ Connected(server[u], new, toServer[u], toClient[u])
            \/ Ended(up, server[u]) /\ Cut(new, toClient[u])
  PROVE  SoundInv'
<1>1. /\ toServer' = [toServer EXCEPT ![u] = toServer[u]]
      /\ toClient' = [toClient EXCEPT ![u] = toClient[u]]
      /\ sound' = [sound EXCEPT ![u] = sound[u]] /\ sound[u] \in BOOLEAN
  BY Same DEF SoundInv, TypeInv, TypeOK
<1> DEFINE still == sound[u]
           ts == toServer[u]
           tc == toClient[u]
<1>2. /\ still /\ new.pc # "gone"
      /\ Measured(disk, server[u])
      /\ \/ Connected(server[u], client[u], toServer[u], toClient[u])
         \/ Ended(up, server[u]) /\ Cut(client[u], toClient[u])
      => Connected(server[u], new, ts, tc) \/ (Ended(up, server[u]) /\ Cut(new, tc))
  OBVIOUS
<1>3. /\ toServer' = [toServer EXCEPT ![u] = ts] /\ toClient' = [toClient EXCEPT ![u] = tc]
      /\ sound' = [sound EXCEPT ![u] = still] /\ still \in BOOLEAN /\ (still => sound[u])
  BY <1>1
<1> HIDE DEF still, ts, tc
<1> QED
  BY <1>2, <1>3, ClientOnSound

(* What a client writes comes to the server, or is lost because the server *)
(* has ended or closed the connection.                                     *)
LEMMA ClientWritesSound ==
  ASSUME SoundInv, TypeInv', NEW u \in Users, NEW from, NEW new, NEW units,
         Writes(u, from, new, units), from # "gone",
         new.pc # "gone" /\ Connected(server[u], client[u], toServer[u], toClient[u])
         => Connected(server[u], new, toServer[u] \o units, toClient[u]),
         /\ new.pc # "gone"
         /\ \/ Connected(server[u], client[u], toServer[u], toClient[u])
            \/ Cut(client[u], toClient[u])
         => Cut(new, toClient[u])
  PROVE  SoundInv'
<1>1. /\ toClient' = [toClient EXCEPT ![u] = toClient[u]]
      /\ sound' = [sound EXCEPT ![u] = sound[u]] /\ sound[u] \in BOOLEAN
      /\ toServer = [toServer EXCEPT ![u] = toServer[u]]
  BY Same DEF SoundInv, TypeInv, TypeOK, Writes
<1>2. CASE Listening(u)
  <2> DEFINE ts == toServer[u] \o units
  <2>1. Acts(u, from, new) /\ toServer' = [toServer EXCEPT ![u] = ts] /\ ~Ended(up, server[u])
    BY <1>2 DEF Writes, Listening, Ended
  <2>2. /\ new.pc # "gone"
        /\ \/ Connected(server[u], client[u], toServer[u], toClient[u])
           \/ Ended(up, server[u]) /\ Cut(client[u], toClient[u])
        => Connected(server[u], new, ts, toClient[u])
    BY <2>1
  <2> HIDE DEF ts
  <2> QED
    BY <1>1, <2>1, <2>2, ClientOnSound
<1>3. CASE ~Listening(u)
  <2>1. toServer' = [toServer EXCEPT ![u] = toServer[u]]
    BY <1>1, <1>3 DEF Writes
  <2> DEFINE end == [client[u] EXCEPT !.pc = "gone"]
  <2>2. CASE Acts(u, from, end)
    <3>1. end.pc = "gone"
      BY DEF SoundInv, TypeInv, TypeOK, ClientStates
    <3> HIDE DEF end
    <3> QED
      BY <1>1, <2>1, <2>2, <3>1, ClientOnSound
  <2>3. CASE Acts(u, from, new)
    <3>1. Ended(up, server[u])
      BY <1>3 DEF Listening, Ended
    <3>2. /\ new.pc # "gone"
          /\ \/ Connected(server[u], client[u], toServer[u], toClient[u])
             \/ Ended(up, server[u]) /\ Cut(client[u], toClient[u])
          => Ended(up, server[u]) /\ Cut(new, toClient[u])
      BY <3>1
    <3> QED
      BY <1>1, <2>1, <2>3, <3>2, ClientOnSound
  <2> QED
    BY <2>2, <2>3 DEF Writes
<1> QED
  BY <1>2, <1>3

-----------------------------------------------------------------------------
(* The steps of a client keep the connections sound: its commands, ...     *)
LEMMA CommandSound ==
  ASSUME SoundInv, TypeInv', NEW u \in Users, Types(u) \/ SendName(u)
  PROVE  SoundInv'
<1> DEFINE s == server[u]
           c == client[u]
           ts == toServer[u]
           tc == toClient[u]
<1>1. s \in ServerStates /\ c \in ClientStates /\ ts \in Seq(Units) /\ tc \in Seq(Units)
  BY DEF SoundInv, TypeInv, TypeOK
<1>2. ASSUME NEW kind, NEW to, NEW new, new.pc = to, new.received = c.received, new.saved = c.saved,
             new.response = <<>>, Writes(u, "prompt", new, Line(kind, 0)),
             <<kind, to>> \in {<<"FILE", "name">>, <<"STAT", "statsize">>}
      PROVE  SoundInv'
  <2>1. c.pc = "prompt"
    BY <1>2 DEF Writes, Acts
  <2>2. Connected(s, c, ts, tc) => Connected(s, new, ts \o Line(kind, 0), tc)
    <3> HIDE DEF s, c, ts, tc
    <3> QED
      BY <1>2, <2>1, AskSound
  <2>3. Connected(s, c, ts, tc) \/ Cut(c, tc) => Cut(new, tc)
    <3>1. new.response = <<>> /\ new.pc \in {"name", "statsize"}
      BY <1>2
    <3> HIDE DEF s, c, ts, tc
    <3> QED
      BY <2>1, <3>1, LostSound
  <2> QED
    BY <1>2, <2>2, <2>3, ClientWritesSound
<1>3. CASE Types(u)
  <2>1. CASE AskStat(u)
    <3> DEFINE new == [c EXCEPT !.pc = "statsize", !.commands = c.commands - 1, !.response = <<>>]
    <3>1. Writes(u, "prompt", new, Line("STAT", 0))
      BY <1>1, <2>1 DEF AskStat, Command, Line, ClientStates
    <3>2. /\ new.pc = "statsize" /\ new.received = c.received /\ new.saved = c.saved
          /\ new.response = <<>>
      BY <1>1 DEF ClientStates
    <3> HIDE DEF new
    <3> QED
      BY <1>2, <3>1, <3>2
  <2>2. CASE Exit(u)
    <3> DEFINE new == [c EXCEPT !.pc = "gone", !.commands = c.commands - 1, !.response = <<>>]
    <3>1. Writes(u, "prompt", new, Line("EXIT", 0))
      BY <1>1, <2>2 DEF Exit, Command, Line, ClientStates
    <3>2. new.pc = "gone"
      BY <1>1 DEF ClientStates
    <3> HIDE DEF new
    <3> QED
      BY <3>1, <3>2, ClientWritesSound
  <2>3. CASE \E f \in Files : AskFile(u, f)
    <3>1. PICK f \in Files : AskFile(u, f)
      BY <2>3
    <3> DEFINE new == [c EXCEPT !.pc = "name", !.fname = f, !.commands = c.commands - 1, !.response = <<>>]
    <3>2. Writes(u, "prompt", new, Line("FILE", 0))
      BY <1>1, <3>1 DEF AskFile, Command, Line, ClientStates
    <3>3. /\ new.pc = "name" /\ new.received = c.received /\ new.saved = c.saved
          /\ new.response = <<>>
      BY <1>1 DEF ClientStates
    <3> HIDE DEF new
    <3> QED
      BY <1>2, <3>2, <3>3
  <2> QED
    BY <1>3, <2>1, <2>2, <2>3 DEF Types
<1>4. CASE SendName(u)
  <2> DEFINE new == [c EXCEPT !.pc = "status"]
             units == Header("name", c.fname, NameLen)
  <2>1. Writes(u, "name", new, units) /\ c.pc = "name"
    BY <1>4 DEF SendName, Writes, Acts
  <2>2. Connected(s, c, ts, tc) => Connected(s, new, ts \o units, tc)
    <3>1. new = [c EXCEPT !.pc = "status"] /\ units = Header("name", c.fname, NameLen) /\ c.pc = "name"
      BY <2>1
    <3> HIDE DEF s, c, ts, tc, new, units
    <3> QED
      BY <1>1, <3>1, SendNameSound
  <2>3. Connected(s, c, ts, tc) \/ Cut(c, tc) => Cut(new, tc)
    <3>1. new.response = c.response /\ new.pc = "status"
      BY <1>1 DEF ClientStates
    <3> HIDE DEF s, c, ts, tc, new
    <3> QED
      BY <2>1, <3>1, LostSound
  <2> HIDE DEF new, units
  <2> QED
    BY <2>1, <2>2, <2>3, ClientWritesSound
<1> QED
  BY <1>3, <1>4

(* ... what it does by itself, and the end of the stream, ...              *)
LEMMA ClientAloneSound ==
  ASSUME SoundInv, TypeInv', NEW u \in Users, Connect(u) \/ Kill(u) \/ Save(u) \/ ReadEof(u)
  PROVE  SoundInv'
<1> DEFINE s == server[u]
           c == client[u]
           ts == toServer[u]
           tc == toClient[u]
<1>1. s \in ServerStates /\ c \in ClientStates /\ ts \in Seq(Units) /\ tc \in Seq(Units)
  BY DEF SoundInv, TypeInv, TypeOK
<1>2. CASE Connect(u)
  <2> DEFINE to == IF up THEN "prompt" ELSE "gone"
             new == [c EXCEPT !.pc = to]
  <2>1. Acts(u, "away", new) /\ c.pc = "away" /\ UNCHANGED <<toServer, toClient, mishaps, sound>>
    BY <1>2 DEF Connect, Acts
  <2>2. /\ new.pc = to /\ new.received = c.received /\ new.saved = c.saved
        /\ new.response = c.response /\ new.size = c.size
    BY <1>1 DEF ClientStates
  <2>3. ASSUME new.pc # "gone", Connected(s, c, ts, tc) \/ (Ended(up, s) /\ Cut(c, tc))
        PROVE  Connected(s, new, ts, tc)
    <3>1. new.pc = "prompt"
      BY <2>2, <2>3
    <3>2. AtPrompt(s, c, ts, tc)
      BY <2>1, <2>3 DEF Connected, Asks, Misses, Gets, Hears, Cut
    <3>3. Even(s, new) /\ Told(new)
      BY <2>2, <3>2 DEF AtPrompt, Even, Told
    <3> QED
      BY <3>1, <3>2, <3>3 DEF AtPrompt, Connected
  <2> HIDE DEF new
  <2> QED
    BY <2>1, <2>3, ClientStaysSound
<1>3. CASE Kill(u)
  <2> DEFINE new == [c EXCEPT !.pc = "gone"]
  <2>1. Acts(u, c.pc, new) /\ c.pc # "gone" /\ UNCHANGED <<toServer, toClient, mishaps, sound>>
    BY <1>3 DEF Kill, Acts, Silently
  <2>2. new.pc = "gone"
    BY <1>1 DEF ClientStates
  <2> HIDE DEF new
  <2> QED
    BY <2>1, <2>2, ClientStaysSound
<1>4. CASE Save(u)
  <2> DEFINE new == [c EXCEPT !.pc = "prompt", !.saved = @ \union {c.fname}, !.received = @ + Len(c.file)]
  <2>1. Acts(u, "saved", new) /\ c.pc = "saved" /\ UNCHANGED <<toServer, toClient, mishaps, sound>>
    BY <1>4 DEF Save, Acts
  <2>2. ASSUME Measured(disk, s), Connected(s, c, ts, tc) PROVE Connected(s, new, ts, tc)
    BY <1>1, <2>1, <2>2, SaveSound
  <2>3. ASSUME Cut(c, tc) PROVE Cut(new, tc)
    <3>1. new.pc = "prompt" /\ new.response = c.response
      BY <1>1 DEF ClientStates
    <3> QED
      BY <2>1, <2>3, <3>1 DEF Cut
  <2> HIDE DEF new
  <2> QED
    BY <2>1, <2>2, <2>3, ClientStaysSound
<1>5. CASE ReadEof(u)
  <2>1. PICK point \in {"status", "size", "data", "statsize", "stats"} :
          Acts(u, point, [c EXCEPT !.pc = AfterEof(point)])
    BY <1>5 DEF ReadEof
  <2> DEFINE new == [c EXCEPT !.pc = AfterEof(c.pc)]
  <2>2. Acts(u, c.pc, new) /\ c.pc \in {"status", "size", "data", "statsize", "stats"}
    BY <2>1 DEF Acts
  <2>3. /\ toServer' = [toServer EXCEPT ![u] = ts] /\ toClient' = [toClient EXCEPT ![u] = <<>>]
        /\ sound' = [sound EXCEPT ![u] = sound[u]] /\ sound[u] \in BOOLEAN /\ ~Listening(u)
    BY <1>5, Same DEF SoundInv, TypeInv, TypeOK, ReadEof
  <2>4. ASSUME Measured(disk, s), new.pc # "gone", Connected(s, c, ts, tc) \/ (Ended(up, s) /\ Cut(c, tc))
        PROVE  Ended(up, s) /\ Cut(new, <<>>)
    <3>1. Ended(up, s)
      BY <2>3 DEF Listening, Ended
    <3>2. new = [c EXCEPT !.pc = AfterEof(c.pc)]
      OBVIOUS
    <3> HIDE DEF s, c, ts, tc, new
    <3>3. Cut(new, <<>>)
      BY <1>1, <2>2, <2>4, <3>2, EofSound
    <3> QED
      BY <2>4, <3>1, <3>3
  <2> HIDE DEF new
  <2> QED
    BY <2>2, <2>3, <2>4, ClientOnSound
<1> QED
  BY <1>2, <1>3, <1>4, <1>5

(* ... the headers that it reads, ...                                      *)
LEMMA NoteSound ==
  ASSUME SoundInv, NEW u \in Users, NEW n, NEW len, StaysSound(u, n = len), NEW still, still = (sound[u] /\ n = len)
  PROVE  still \in BOOLEAN /\ sound' = [sound EXCEPT ![u] = still] /\ (still => sound[u] /\ n = len)
BY DEF SoundInv, TypeInv, TypeOK, StaysSound

(* A status or a size, read whole, is the one that was sent.               *)
LEMMA ReadHeaderSound ==
  ASSUME SoundInv, TypeInv', NEW u \in Users, ReadStatus(u) \/ ReadFileSize(u) \/ ReadStatSize(u)
  PROVE  SoundInv'
<1> DEFINE s == server[u]
           c == client[u]
           ts == toServer[u]
           tc == toClient[u]
<1>1. s \in ServerStates /\ c \in ClientStates /\ ts \in Seq(Units) /\ tc \in Seq(Units)
  BY DEF SoundInv, TypeInv, TypeOK
<1>2. ASSUME NEW n \in ReadLengths(tc, HeaderLen), NEW from, from # "gone", NEW new, Acts(u, from, new),
             ClientReads(u, n), StaysSound(u, n = HeaderLen),
             /\ n = HeaderLen /\ HeaderLen <= Len(tc) /\ new.pc # "gone"
             /\ Measured(disk, s) /\ Connected(s, c, ts, tc)
             => Connected(s, new, ts, Rest(tc, HeaderLen))
      PROVE  SoundInv'
  <2> DEFINE still == sound[u] /\ n = HeaderLen
  <2>1. still \in BOOLEAN /\ sound' = [sound EXCEPT ![u] = still] /\ (still => sound[u] /\ n = HeaderLen)
    BY <1>2, NoteSound
  <2>2. n = HeaderLen => HeaderLen <= Len(tc)
    BY <1>2 DEF ReadLengths
  <2> HIDE DEF still
  <2>3. /\ still /\ new.pc # "gone" /\ Measured(disk, s) /\ Connected(s, c, ts, tc)
        => Connected(s, new, ts, Rest(tc, n))
    BY <1>2, <2>1, <2>2
  <2> QED
    BY <1>2, <2>1, <2>3, ClientReadsSound
<1>3. CASE ReadStatus(u)
  <2> DEFINE found(n) == IsHeader(SubSeq(tc, 1, n), "FOUND")
  <2>1. PICK n \in ReadLengths(tc, HeaderLen) :
          /\ \E next \in (IF found(n) THEN {"size"} ELSE {})
                         \union (IF found(n) /\ n = HeaderLen THEN {} ELSE {"prompt"}) :
               Acts(u, "status", [c EXCEPT !.pc = next])
          /\ ClientReads(u, n) /\ StaysSound(u, n = HeaderLen)
    BY <1>3 DEF ReadStatus
  <2>2. PICK next \in (IF found(n) THEN {"size"} ELSE {})
                      \union (IF found(n) /\ n = HeaderLen THEN {} ELSE {"prompt"}) :
          Acts(u, "status", [c EXCEPT !.pc = next])
    BY <2>1
  <2> DEFINE new == [c EXCEPT !.pc = next]
  <2>3. Acts(u, "status", new) /\ c.pc = "status"
    BY <2>2 DEF Acts
  <2>4. ASSUME n = HeaderLen, HeaderLen <= Len(tc), Measured(disk, s), Connected(s, c, ts, tc)
        PROVE  Connected(s, new, ts, Rest(tc, HeaderLen))
    <3>1. next = IF IsHeader(SubSeq(tc, 1, HeaderLen), "FOUND") THEN "size" ELSE "prompt"
      BY <2>2, <2>4
    <3>2. new = [c EXCEPT !.pc = next] /\ c.pc = "status"
      BY <2>3
    <3> HIDE DEF s, c, ts, tc, new
    <3> QED
      BY ONLY <1>1, <2>4, <3>1, <3>2, ReadStatusSound
  <2> HIDE DEF new
  <2> QED
    BY <1>2, <2>1, <2>3, <2>4
<1>4. CASE ReadFileSize(u)
  <2>0. PICK there \in BOOLEAN :
          ReadSize(u, "size", [c EXCEPT !.file = <<>>, !.copy = <<>>, !.filefd = there, !.kept = there],
                   "data", "saved", If(~there))
    BY <1>4 DEF ReadFileSize
  <2> DEFINE new(size) == [c EXCEPT !.file = <<>>, !.copy = <<>>, !.filefd = there, !.kept = there,
                                    !.pc = IF size = 0 THEN "saved" ELSE "data", !.size = size]
             end == [c EXCEPT !.pc = "gone"]
  <2>1. PICK n \in ReadLengths(tc, HeaderLen) :
          /\ \/ Acts(u, "size", end)
             \/ \E size \in stoi(SubSeq(tc, 1, n)) : Acts(u, "size", new(size))
          /\ ClientReads(u, n) /\ StaysSound(u, n = HeaderLen)
    BY <1>1, <2>0 DEF ReadSize, ClientStates
  <2>2. CASE Acts(u, "size", end)
    <3>1. end.pc = "gone"
      BY <1>1 DEF ClientStates
    <3> HIDE DEF end
    <3> QED
      BY <1>2, <2>1, <2>2, <3>1
  <2>3. ASSUME NEW size \in stoi(SubSeq(tc, 1, n)), Acts(u, "size", new(size)) PROVE SoundInv'
    <3> DEFINE to == new(size)
    <3>1. Acts(u, "size", to) /\ c.pc = "size"
      BY <2>3 DEF Acts
    <3>2. ASSUME n = HeaderLen, HeaderLen <= Len(tc), Measured(disk, s), Connected(s, c, ts, tc)
          PROVE  Connected(s, to, ts, Rest(tc, HeaderLen))
      <4>1. /\ to.file = <<>> /\ to.pc = (IF size = 0 THEN "saved" ELSE "data") /\ to.size = size
            /\ to.fname = c.fname /\ to.received = c.received /\ to.saved = c.saved
            /\ to.response = c.response
            /\ c.pc = "size" /\ size \in stoi(SubSeq(tc, 1, HeaderLen))
        BY <1>1, <3>1, <3>2 DEF ClientStates
      <4> HIDE DEF s, c, ts, tc, new, to
      <4> QED
        BY ONLY <1>1, <3>2, <4>1, ReadFileSizeSound
    <3> HIDE DEF to
    <3> QED
      BY <1>2, <2>1, <3>1, <3>2
  <2> QED
    BY <2>1, <2>2, <2>3
<1>5. CASE ReadStatSize(u)
  <2> DEFINE new(size) == [c EXCEPT !.pc = IF size = 0 THEN "prompt" ELSE "stats", !.size = size]
             end == [c EXCEPT !.pc = "gone"]
  <2>1. PICK n \in ReadLengths(tc, HeaderLen) :
          /\ \/ Acts(u, "statsize", end)
             \/ \E size \in stoi(SubSeq(tc, 1, n)) : Acts(u, "statsize", new(size))
          /\ ClientReads(u, n) /\ StaysSound(u, n = HeaderLen)
    BY <1>1, <1>5 DEF ReadStatSize, ReadSize, ClientStates
  <2>2. CASE Acts(u, "statsize", end)
    <3>1. end.pc = "gone"
      BY <1>1 DEF ClientStates
    <3> HIDE DEF end
    <3> QED
      BY <1>2, <2>1, <2>2, <3>1
  <2>3. ASSUME NEW size \in stoi(SubSeq(tc, 1, n)), Acts(u, "statsize", new(size)) PROVE SoundInv'
    <3> DEFINE to == new(size)
    <3>1. Acts(u, "statsize", to) /\ c.pc = "statsize"
      BY <2>3 DEF Acts
    <3>2. ASSUME n = HeaderLen, HeaderLen <= Len(tc), Connected(s, c, ts, tc)
          PROVE  Connected(s, to, ts, Rest(tc, HeaderLen))
      <4>1. /\ to = [c EXCEPT !.pc = IF size = 0 THEN "prompt" ELSE "stats", !.size = size]
            /\ c.pc = "statsize" /\ size \in stoi(SubSeq(tc, 1, HeaderLen))
        BY <3>1, <3>2
      <4> HIDE DEF s, c, ts, tc, new, to
      <4> QED
        BY ONLY <1>1, <3>2, <4>1, ReadStatSizeSound
    <3> HIDE DEF to
    <3> QED
      BY <1>2, <2>1, <3>1, <3>2
  <2> QED
    BY <2>1, <2>2, <2>3
<1> QED
  BY <1>3, <1>4, <1>5

(* ... and the turns of its loops.                                         *)
LEMMA ReadTurnSound ==
  ASSUME SoundInv, TypeInv', NEW u \in Users, ReadData(u) \/ ReadStats(u)
  PROVE  SoundInv'
<1> DEFINE s == server[u]
           c == client[u]
           ts == toServer[u]
           tc == toClient[u]
<1>1. s \in ServerStates /\ c \in ClientStates /\ ts \in Seq(Units) /\ tc \in Seq(Units)
  BY DEF SoundInv, TypeInv, TypeOK
<1>2. ASSUME NEW n \in ReadLengths(tc, Chunk)
      PROVE  n \in Nat /\ n <= Len(tc)
  BY <1>2, TransferAssumption DEF ReadLengths
<1>3. sound[u] \in BOOLEAN /\ sound = [sound EXCEPT ![u] = sound[u]]
  BY DEF SoundInv, TypeInv, TypeOK
<1>4. CASE ReadData(u)
  <2>0. PICK n \in ReadLengths(tc, Chunk) :
          \E m \in Written(c, n) :
            ReadTurn(u, n, "data", [c EXCEPT !.file = c.file \o SubSeq(tc, 1, n),
                                             !.copy = c.copy \o SubSeq(tc, 1, m),
                                             !.kept = c.kept /\ m = n], If(c.filefd /\ m < n))
    BY <1>1, <1>4 DEF ReadData, Receive, ClientStates
  <2>1. PICK m \in Written(c, n) :
          ReadTurn(u, n, "data", [c EXCEPT !.file = c.file \o SubSeq(tc, 1, n),
                                           !.copy = c.copy \o SubSeq(tc, 1, m),
                                           !.kept = c.kept /\ m = n], If(c.filefd /\ m < n))
    BY <2>0
  <2> DEFINE file == c.file \o SubSeq(tc, 1, n)
             copied == c.copy \o SubSeq(tc, 1, m)
             all == c.kept /\ m = n
             left == c.size - n
             got == [c EXCEPT !.file = file, !.copy = copied, !.kept = all]
             new == [got EXCEPT !.pc = IF left = 0 THEN "saved" ELSE "data", !.size = left]
  <2>2. Acts(u, "data", new) /\ ClientReads(u, n) /\ sound' = sound /\ c.pc = "data"
    BY <2>1 DEF ReadTurn, LoopTurn, Acts
  <2>3. /\ new.size = left /\ new.file = file /\ new.pc = IF left = 0 THEN "saved" ELSE "data"
        /\ new.fname = c.fname /\ new.received = c.received /\ new.saved = c.saved
        /\ new.response = c.response
    <3> HIDE DEF file, copied, all, left
    <3> QED
      BY <1>1 DEF ClientStates
  <2>4. ASSUME Measured(disk, s), Connected(s, c, ts, tc)
        PROVE  Connected(s, new, ts, Rest(tc, n))
    <3>1. /\ new.size = c.size - n /\ new.file = c.file \o SubSeq(tc, 1, n)
          /\ new.pc = IF new.size = 0 THEN "saved" ELSE "data"
          /\ new.fname = c.fname /\ new.received = c.received /\ new.saved = c.saved
          /\ new.response = c.response
      BY <2>3
    <3>2. n \in Nat /\ n <= Len(tc) /\ c.pc = "data"
      BY <1>2, <2>2
    <3> HIDE DEF s, c, ts, tc, new
    <3> QED
      BY ONLY <1>1, <2>4, <3>1, <3>2, ReadDataSound
  <2> HIDE DEF new
  <2> QED
    BY <1>3, <2>2, <2>4, ClientReadsSound
<1>5. CASE ReadStats(u)
  <2>1. PICK n \in ReadLengths(tc, Chunk) :
          ReadTurn(u, n, "stats", [c EXCEPT !.response = c.response \o SubSeq(tc, 1, n)], 0)
    BY <1>1, <1>5 DEF ReadStats, ClientStates
  <2> DEFINE response == c.response \o SubSeq(tc, 1, n)
             left == c.size - n
             got == [c EXCEPT !.response = response]
             new == [got EXCEPT !.pc = IF left = 0 THEN "prompt" ELSE "stats", !.size = left]
  <2>2. Acts(u, "stats", new) /\ ClientReads(u, n) /\ sound' = sound /\ c.pc = "stats"
    BY <2>1 DEF ReadTurn, LoopTurn, Acts
  <2>3. /\ new.size = left /\ new.response = response /\ new.pc = IF left = 0 THEN "prompt" ELSE "stats"
        /\ new.received = c.received /\ new.saved = c.saved
    <3> HIDE DEF response, left
    <3> QED
      BY <1>1 DEF ClientStates
  <2>4. ASSUME Connected(s, c, ts, tc)
        PROVE  Connected(s, new, ts, Rest(tc, n))
    <3>1. /\ new.size = c.size - n /\ new.response = c.response \o SubSeq(tc, 1, n)
          /\ new.pc = IF new.size = 0 THEN "prompt" ELSE "stats"
          /\ new.received = c.received /\ new.saved = c.saved
      BY <2>3
    <3>2. n \in Nat /\ n <= Len(tc) /\ c.pc = "stats"
      BY <1>2, <2>2
    <3> HIDE DEF s, c, ts, tc, new
    <3> QED
      BY ONLY <1>1, <2>4, <3>1, <3>2, ReadStatsSound
  <2> HIDE DEF new
  <2> QED
    BY <1>3, <2>2, <2>4, ClientReadsSound
<1> QED
  BY <1>4, <1>5

(* A file that gets another length makes the transfers that use it unsound *)
(* and leaves the others as they were.                                     *)
LEMMA ChangeSound ==
  ASSUME SoundInv, TypeInv', NEW f \in Files, NEW len \in -1..MaxSize, Change(f, len)
  PROVE  SoundInv'
<1>1. /\ disk' = [disk EXCEPT ![f] = len] /\ disk \in [Files -> -1..MaxSize]
      /\ len = -1 => Using(f, {"size", "send"}) = {}
      /\ sound' = [u \in Users |-> /\ sound[u]
                                   /\ len = -1 \/ u \notin Using(f, {"reopen", "size", "send"})]
      /\ UNCHANGED <<up, server, client, toServer, toClient>>
  BY DEF SoundInv, TypeInv, TypeOK, Change
<1>2. ASSUME NEW u \in Users, sound'[u], ~Gone(u)' PROVE Sound(u)'
  <2> DEFINE s == server[u]
             points == {"reopen", "size", "send"}
  <2>1. sound[u] /\ ~Gone(u) /\ (len = -1 \/ u \notin Using(f, points))
    BY <1>1, <1>2 DEF Gone
  <2>2. Measured(disk, s) /\ Sound(u)
    BY <2>1 DEF SoundInv, Sound, Holds
  <2>3. disk'[s.fname] = disk[s.fname] \/ (s.fname = f /\ disk'[s.fname] = len)
    BY <1>1
  <2>4. s.fname = f /\ s.pc \in points => len = -1 /\ s.pc = "reopen"
    BY <1>1, <2>1 DEF Using
  <2>5. Measured(disk', s)
    <3>1. CASE s.fname = f /\ s.pc \in points
      BY <2>2, <2>3, <2>4, <3>1 DEF Measured
    <3>2. CASE s.pc \notin points
      BY <3>2 DEF Measured
    <3>3. CASE s.fname # f
      BY <2>2, <2>3, <3>3 DEF Measured
    <3> QED
      BY <3>1, <3>2, <3>3
  <2> QED
    BY <1>1, <2>2, <2>5 DEF Sound, Holds
<1> QED
  BY <1>2 DEF SoundInv

-----------------------------------------------------------------------------
(* The inductive invariant.                                                *)
LEMMA SoundInit == Init => SoundInv
<1> SUFFICES ASSUME Init PROVE SoundInv
  OBVIOUS
<1>1. TypeInv
  BY TypesInit
<1>2. ASSUME NEW u \in Users PROVE Sound(u)
  <2>1. /\ server[u].pc = "none" /\ server[u].numBytesSent = 0 /\ server[u].filesDownloaded = {}
        /\ client[u].pc = "away" /\ client[u].received = 0 /\ client[u].saved = {}
        /\ client[u].response = <<>>
        /\ toServer[u] = <<>> /\ toClient[u] = <<>>
    BY DEF Init
  <2>2. Free(server[u]) /\ Even(server[u], client[u]) /\ Told(client[u])
    BY <2>1 DEF Free, Even, Counted, Told
  <2>3. AtPrompt(server[u], client[u], toServer[u], toClient[u])
    BY <2>1, <2>2 DEF AtPrompt
  <2>4. Measured(disk, server[u])
    BY <2>1 DEF Measured
  <2> QED
    BY <2>3, <2>4 DEF Sound, Holds, Connected
<1> QED
  BY <1>1, <1>2 DEF SoundInv

(* Every step keeps the connections sound.                                 *)
LEMMA SoundKept == SoundInv /\ [Next]_vars => SoundInv'
<1> SUFFICES ASSUME SoundInv, [Next]_vars PROVE SoundInv'
  OBVIOUS
<1>1. TypeInv'
  BY TypesKept DEF SoundInv
<1>2. CASE UNCHANGED vars
  BY <1>1, <1>2 DEF SoundInv, Sound, Gone, vars
<1>3. ASSUME NEW u \in Users, Connect(u) \/ Types(u) \/ Kill(u) \/ Receives(u) \/ serve(u)
      PROVE  SoundInv'
  BY <1>1, <1>3, CommandSound, ClientAloneSound, ReadHeaderSound, ReadTurnSound, ServerSound DEF Receives
<1>4. ASSUME NEW f \in Files, NEW len \in -1..MaxSize, Change(f, len) PROVE SoundInv'
  BY <1>1, <1>4, ChangeSound
<1>5. CASE AcceptFails
  <2>1. UNCHANGED <<disk, server, client, toServer, toClient, sound>> /\ up' = FALSE
    BY <1>5 DEF AcceptFails
  <2>2. ASSUME NEW u \in Users, sound'[u], ~Gone(u)' PROVE Sound(u)'
    <3>1. Sound(u)
      BY <2>1, <2>2 DEF SoundInv, Gone
    <3> QED
      BY <2>1, <3>1 DEF Sound, Holds, Ended
  <2> QED
    BY <1>1, <2>2 DEF SoundInv
<1> QED
  BY <1>2, <1>3, <1>4, <1>5 DEF Next

(* The invariant holds of every reachable state.                           *)
LEMMA SoundAlways == Spec => []SoundInv
BY SoundInit, SoundKept, PTL DEF Spec

(* The two loops of a transfer on a sound connection, the server's that    *)
(* moves forward in the file and the client's that counts down to zero,    *)
(* together hold the file at every step: of what the server read no byte   *)
(* is lost or repeated between its write, the stream and the client's      *)
(* reads.                                                                  *)
THEOREM StreamIsAlwaysFile == Spec => []StreamIsFile
<1>1. SoundInv => StreamIsFile
  <2> SUFFICES ASSUME SoundInv, NEW u \in Users, up, sound[u], client[u].pc = "data"
               PROVE  LET s == server[u]
                          rest == IF s.pc = "send" THEN FileUnits(s.fname, s.offset, s.size) ELSE <<>>
                      IN client[u].file \o toClient[u] \o rest = FileUnits(client[u].fname, 0, s.size)
    BY DEF StreamIsFile
  <2> DEFINE s == server[u]
             rest == IF s.pc = "send" THEN FileUnits(s.fname, s.offset, s.size) ELSE <<>>
             x == client[u].file
             tc == toClient[u]
  <2>1. /\ s \in ServerStates /\ x \in Seq(Units) /\ tc \in Seq(Units)
        /\ Holds(disk, up, s, client[u], toServer[u], tc)
    BY IsSound DEF Gone, ClientStates
  <2>2. Gets(s, client[u], toServer[u], tc) /\ Measured(disk, s)
    BY <2>1 DEF Holds, Connected, AtPrompt, Asks, Misses, Hears, Cut
  <2>3. /\ Due(s) = rest /\ Whole(s) = FileUnits(client[u].fname, 0, s.size)
        /\ x \o (tc \o Due(s)) = Whole(s)
    BY <2>2 DEF Gets, Due, Whole
  <2>4. Due(s) \in Seq(Units)
    BY <2>1, <2>2, DueFacts DEF Measured
  <2> HIDE DEF x, tc, rest, s
  <2>5. (x \o tc) \o rest = x \o (tc \o rest)
    BY <2>1, <2>3, <2>4, Regroup
  <2>6. (x \o tc) \o rest = FileUnits(client[u].fname, 0, s.size)
    BY <2>3, <2>5
  <2> QED
    BY <2>6 DEF x, tc, rest, s
<1> QED
  BY <1>1, SoundAlways, PTL

(* As long as every write to the copy was complete, it holds what the      *)
(* client has received.                                                    *)
CopyInv == \A u \in Users : client[u].kept => client[u].copy = client[u].file

(* The copy starts with the file, ...                                      *)
LEMMA CopyStarts ==
  ASSUME TypeInv, CopyInv, NEW u \in Users, ReadFileSize(u)
  PROVE  CopyInv'
<1> DEFINE c == client[u]
<1>1. c \in ClientStates /\ client \in [Users -> ClientStates]
  BY DEF TypeInv, TypeOK
<1>2. PICK there \in BOOLEAN :
        ReadSize(u, "size", [c EXCEPT !.file = <<>>, !.copy = <<>>, !.filefd = there, !.kept = there],
                 "data", "saved", If(~there))
  BY DEF ReadFileSize
<1>3. CASE Acts(u, "size", [c EXCEPT !.pc = "gone"])
  BY <1>1, <1>3 DEF Acts, CopyInv, ClientStates
<1>4. ASSUME NEW new, Acts(u, "size", new), new.copy = new.file PROVE CopyInv'
  BY <1>1, <1>4 DEF Acts, CopyInv
<1>5. ASSUME NEW size, NEW to,
             Acts(u, "size", [c EXCEPT !.file = <<>>, !.copy = <<>>, !.filefd = there, !.kept = there,
                                       !.pc = to, !.size = size])
      PROVE  CopyInv'
  <2> DEFINE new == [c EXCEPT !.file = <<>>, !.copy = <<>>, !.filefd = there, !.kept = there,
                              !.pc = to, !.size = size]
  <2>1. new.copy = new.file
    BY <1>1 DEF ClientStates
  <2> QED
    BY <1>4, <1>5, <2>1
<1> QED
  BY <1>1, <1>2, <1>3, <1>5 DEF ReadSize, ClientStates

(* ... and grows as it does, or is no longer kept.                         *)
LEMMA CopyGrows ==
  ASSUME TypeInv, CopyInv, NEW u \in Users, ReadData(u)
  PROVE  CopyInv'
<1> DEFINE c == client[u]
           tc == toClient[u]
<1>1. c \in ClientStates /\ client \in [Users -> ClientStates]
  BY DEF TypeInv, TypeOK
<1>2. PICK n \in ReadLengths(tc, Chunk) : \E m \in Written(c, n) :
        ReadTurn(u, n, "data", [c EXCEPT !.file = @ \o SubSeq(tc, 1, n), !.copy = @ \o SubSeq(tc, 1, m),
                                         !.kept = @ /\ m = n], If(c.filefd /\ m < n))
  BY DEF ReadData, Receive
<1>3. PICK m \in Written(c, n) :
        ReadTurn(u, n, "data", [c EXCEPT !.file = @ \o SubSeq(tc, 1, n), !.copy = @ \o SubSeq(tc, 1, m),
                                         !.kept = @ /\ m = n], If(c.filefd /\ m < n))
  BY <1>2
<1> DEFINE file == c.file \o SubSeq(tc, 1, n)
           copied == c.copy \o SubSeq(tc, 1, m)
           all == c.kept /\ m = n
           left == c.size - n
           to == IF ~(left = 0) THEN "data" ELSE "saved"
           new == [c EXCEPT !.file = file, !.copy = copied, !.kept = all, !.pc = to, !.size = left]
<1>4. Acts(u, "data", new)
  BY <1>1, <1>3 DEF ReadTurn, LoopTurn, ClientStates
<1>5. all => copied = file
  BY DEF CopyInv
<1> HIDE DEF file, copied, all, left, to
<1>6. new.kept => new.copy = new.file
  BY <1>1, <1>5 DEF ClientStates
<1> HIDE DEF new
<1> QED
  BY <1>1, <1>4, <1>6 DEF Acts, CopyInv

(* No other step touches the copy, or what the client has received.        *)
LEMMA CopyStays ==
  ASSUME TypeInv, CopyInv, NEW u \in Users, NEW new, client' = [client EXCEPT ![u] = new],
         new.kept = client[u].kept, new.copy = client[u].copy, new.file = client[u].file
  PROVE  CopyInv'
BY DEF TypeInv, TypeOK, CopyInv

(* Every step keeps the copy.                                              *)
LEMMA CopyKept == TypeInv /\ CopyInv /\ [Next]_vars => CopyInv'
<1> SUFFICES ASSUME TypeInv, CopyInv, [Next]_vars PROVE CopyInv'
  OBVIOUS
<1>1. CASE UNCHANGED client
  BY <1>1 DEF CopyInv
<1>2. ASSUME NEW u \in Users, serve(u) PROVE UNCHANGED client
  BY <1>2 DEF serve, Accept, ReadCommand, ReadName, ReadNothing, Measure, CloseNull, Reopen, NotFound,
              SendSize, SendChunk, Turn, FinishFile, SendStatSize, SendSizeOfText, SendStat, Serves
<1>3. client \in [Users -> ClientStates]
  BY DEF TypeInv, TypeOK
<1>4. ASSUME NEW u \in Users, NEW from, NEW new, Acts(u, from, new), new.kept = client[u].kept,
             new.copy = client[u].copy, new.file = client[u].file
      PROVE  CopyInv'
  BY <1>4, CopyStays DEF Acts
<1>5. ASSUME NEW u \in Users, NEW from, NEW new, NEW units, Writes(u, from, new, units),
             new.kept = client[u].kept, new.copy = client[u].copy, new.file = client[u].file
      PROVE  CopyInv'
  <2>1. CASE Acts(u, from, new)
    BY <1>4, <1>5, <2>1
  <2>2. CASE Acts(u, from, [client[u] EXCEPT !.pc = "gone"])
    <3> DEFINE end == [client[u] EXCEPT !.pc = "gone"]
    <3>1. end.kept = client[u].kept /\ end.copy = client[u].copy /\ end.file = client[u].file
      BY <1>3 DEF ClientStates
    <3> QED
      BY <1>4, <2>2, <3>1
  <2> QED
    BY <1>5, <2>1, <2>2 DEF Writes
<1>6. ASSUME NEW u \in Users, Connect(u) \/ Types(u) \/ Kill(u) \/ Receives(u) PROVE CopyInv'
  <2> DEFINE c == client[u]
  <2>1. c \in ClientStates
    BY <1>3
  <2>2. CASE Connect(u)
    <3> DEFINE new == [c EXCEPT !.pc = IF up THEN "prompt" ELSE "gone"]
    <3>1. new.kept = c.kept /\ new.copy = c.copy /\ new.file = c.file
      BY <2>1 DEF ClientStates
    <3> QED
      BY <1>4, <2>2, <3>1 DEF Connect
  <2>3. CASE Kill(u)
    <3> DEFINE new == [c EXCEPT !.pc = "gone"]
    <3>1. new.kept = c.kept /\ new.copy = c.copy /\ new.file = c.file
      BY <2>1 DEF ClientStates
    <3> QED
      BY <2>3, <3>1, CopyStays DEF Kill
  <2>4. CASE Types(u)
    <3>1. ASSUME NEW kind, NEW typed, Command(u, kind, typed), typed \in ClientStates,
                 typed.kept = c.kept, typed.copy = c.copy, typed.file = c.file
          PROVE  CopyInv'
      <4> DEFINE new == [typed EXCEPT !.commands = @ - 1, !.response = <<>>]
      <4>1. new.kept = c.kept /\ new.copy = c.copy /\ new.file = c.file
        BY <3>1 DEF ClientStates
      <4> QED
        BY <1>5, <3>1, <4>1 DEF Command
    <3>2. ASSUME NEW to \in {"statsize", "gone"}, NEW kind, Command(u, kind, [c EXCEPT !.pc = to])
          PROVE  CopyInv'
      <4>1. [c EXCEPT !.pc = to] \in ClientStates
        BY <2>1 DEF ClientStates
      <4>2. /\ [c EXCEPT !.pc = to].kept = c.kept /\ [c EXCEPT !.pc = to].copy = c.copy
            /\ [c EXCEPT !.pc = to].file = c.file
        BY <2>1 DEF ClientStates
      <4> QED
        BY <3>1, <3>2, <4>1, <4>2
    <3>3. ASSUME NEW f \in Files, AskFile(u, f) PROVE CopyInv'
      <4> DEFINE typed == [c EXCEPT !.pc = "name", !.fname = f]
      <4>1. typed \in ClientStates
        BY <2>1 DEF ClientStates
      <4>2. typed.kept = c.kept /\ typed.copy = c.copy /\ typed.file = c.file
        BY <2>1 DEF ClientStates
      <4> QED
        BY <3>1, <3>3, <4>1, <4>2 DEF AskFile
    <3> QED
      BY <2>4, <3>2, <3>3 DEF Types, AskStat, Exit
  <2>5. CASE SendName(u)
    <3> DEFINE new == [c EXCEPT !.pc = "status"]
    <3>1. new.kept = c.kept /\ new.copy = c.copy /\ new.file = c.file
      BY <2>1 DEF ClientStates
    <3> QED
      BY <1>5, <2>5, <3>1 DEF SendName
  <2>6. CASE ReadStatus(u) \/ ReadEof(u)
    <3>1. PICK from, to : Acts(u, from, [c EXCEPT !.pc = to])
      BY <2>6 DEF ReadStatus, ReadEof
    <3> DEFINE new == [c EXCEPT !.pc = to]
    <3>2. new.kept = c.kept /\ new.copy = c.copy /\ new.file = c.file
      BY <2>1 DEF ClientStates
    <3> QED
      BY <1>4, <3>1, <3>2
  <2>7. CASE ReadStatSize(u)
    <3>1. CASE Acts(u, "statsize", [c EXCEPT !.pc = "gone"])
      <4>1. /\ [c EXCEPT !.pc = "gone"].kept = c.kept /\ [c EXCEPT !.pc = "gone"].copy = c.copy
            /\ [c EXCEPT !.pc = "gone"].file = c.file
        BY <2>1 DEF ClientStates
      <4> QED
        BY <1>4, <3>1, <4>1
    <3>2. ASSUME NEW to, NEW size, Acts(u, "statsize", [c EXCEPT !.pc = to, !.size = size]) PROVE CopyInv'
      <4> DEFINE new == [c EXCEPT !.pc = to, !.size = size]
      <4>1. new.kept = c.kept /\ new.copy = c.copy /\ new.file = c.file
        BY <2>1 DEF ClientStates
      <4> QED
        BY <1>4, <3>2, <4>1
    <3> QED
      BY <2>7, <3>1, <3>2 DEF ReadStatSize, ReadSize
  <2>8. CASE ReadStats(u)
    <3>1. PICK response, to, left : Acts(u, "stats", [[c EXCEPT !.response = response]
                                                        EXCEPT !.pc = to, !.size = left])
      BY <2>1, <2>8 DEF ReadStats, ReadTurn, LoopTurn, ClientStates
    <3> DEFINE new == [[c EXCEPT !.response = response] EXCEPT !.pc = to, !.size = left]
    <3>2. new.kept = c.kept /\ new.copy = c.copy /\ new.file = c.file
      BY <2>1 DEF ClientStates
    <3> QED
      BY <1>4, <3>1, <3>2
  <2>9. CASE Save(u)
    <3> DEFINE new == [c EXCEPT !.pc = "prompt", !.saved = @ \union {c.fname}, !.received = @ + Len(c.file)]
    <3>1. new.kept = c.kept /\ new.copy = c.copy /\ new.file = c.file
      BY <2>1 DEF ClientStates
    <3> QED
      BY <1>4, <2>9, <3>1 DEF Save
  <2> QED
    BY <1>6, <2>2, <2>3, <2>4, <2>5, <2>6, <2>7, <2>8, <2>9, CopyStarts, CopyGrows DEF Receives
<1>7. AcceptFails \/ (\E f \in Files, len \in -1..MaxSize : Change(f, len)) => UNCHANGED client
  BY DEF AcceptFails, Change
<1> QED
  BY <1>1, <1>2, <1>6, <1>7 DEF Next, vars

(* On a connection on which no name, status or size was read in pieces and *)
(* no file changed under way, and where the copy was opened and no write   *)
(* to it fell short: what a client reports as saved is in the copy, it is  *)
(* the beginning of the file that it asked for, and all that the server    *)
(* measured while the server's end is open.                                *)
THEOREM CopyIsAlwaysFile == Spec => []CopyIsFile
<1>1. SoundInv /\ CopyInv => CopyIsFile
  <2> SUFFICES ASSUME SoundInv, CopyInv, NEW u \in Users, sound[u], client[u].kept, client[u].pc = "saved"
               PROVE  /\ client[u].copy = FileUnits(client[u].fname, 0, Len(client[u].copy))
                      /\ Listening(u) => Len(client[u].copy) = server[u].size
    BY DEF CopyIsFile
  <2> DEFINE s == server[u]
             c == client[u]
             tc == toClient[u]
  <2>1. s \in ServerStates /\ Holds(disk, up, s, c, toServer[u], tc)
    BY IsSound DEF Gone
  <2>2. c.copy = c.file
    BY DEF CopyInv
  <2>3. CASE Connected(s, c, toServer[u], tc)
    <3>1. Gets(s, c, toServer[u], tc) /\ Measured(disk, s)
      BY <2>1, <2>3 DEF Holds, Connected, AtPrompt, Asks, Misses, Hears
    <3>2. c.file = Whole(s) /\ Whole(s) = FileUnits(c.fname, 0, s.size)
      BY <3>1 DEF Gets, Whole
    <3>3. Len(Whole(s)) = s.size
      BY <2>1, <3>1, DueFacts DEF Measured
    <3> QED
      BY <2>2, <3>2, <3>3
  <2>4. CASE Ended(up, s) /\ Cut(c, tc)
    BY <2>2, <2>4 DEF Cut, Ended, Listening
  <2> QED
    BY <2>1, <2>3, <2>4 DEF Holds
<1>2. Init => CopyInv
  BY DEF Init, CopyInv
<1>3. SoundInv => TypeInv
  BY DEF SoundInv
<1>4. Spec => []CopyInv
  BY <1>2, <1>3, CopyKept, SoundAlways, PTL DEF Spec
<1> QED
  BY <1>1, <1>4, SoundAlways, PTL

(* A client at its prompt that finds bytes of an earlier answer in its     *)
(* stream has had a name, a status or a size of its own connection read in *)
(* pieces, or the file it asked for changed while it was sent.  Nothing    *)
(* else puts the two sides out of step: not data or commands that come in  *)
(* pieces, a client or server that ends at any point, a copy that cannot   *)
(* be written, or what other users do.                                     *)
THEOREM NeverLeftovers == Spec => []NoLeftovers
<1>1. SoundInv => NoLeftovers
  <2> SUFFICES ASSUME SoundInv, NEW u \in Users, sound[u], client[u].pc = "prompt"
               PROVE  toClient[u] = <<>>
    BY DEF NoLeftovers
  <2>1. Holds(disk, up, server[u], client[u], toServer[u], toClient[u])
    BY IsSound DEF Gone
  <2> QED
    BY <2>1 DEF Holds, Connected, AtPrompt, Asks, Misses, Gets, Hears, Cut
<1> QED
  BY <1>1, SoundAlways, PTL

(* The statistics that a client got to their end on a connection that is   *)
(* sound (no name, status or size in pieces, no file changed under way)    *)
(* tell what it received:                                                  *)
(* the thread's count and set of files agree with the client's own, though *)
(* they are counted at other moments of a transfer.                        *)
THEOREM StatIsAlwaysTrue == Spec => []StatIsTrue
<1>1. SoundInv => StatIsTrue
  <2> SUFFICES ASSUME SoundInv, NEW u \in Users, sound[u], client[u].pc = "prompt",
                      client[u].response # <<>>, client[u].size = 0
               PROVE  /\ client[u].response[1] = <<"count", client[u].received, 1>>
                      /\ {client[u].response[k][2] : k \in 2..Len(client[u].response)} = client[u].saved
    BY DEF StatIsTrue
  <2> DEFINE c == client[u]
  <2>1. Holds(disk, up, server[u], c, toServer[u], toClient[u])
    BY IsSound DEF Gone
  <2>2. ~Cut(c, toClient[u])
    BY DEF Cut
  <2>3. AtPrompt(server[u], c, toServer[u], toClient[u])
    BY <2>1, <2>2 DEF Holds, Connected, Asks, Misses, Gets, Hears
  <2>4. Told(c)
    BY <2>3 DEF AtPrompt
  <2> QED
    BY <2>4 DEF Told
<1> QED
  BY <1>1, SoundAlways, PTL
=============================================================================
