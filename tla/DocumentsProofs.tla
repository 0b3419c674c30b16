---------------------------- MODULE DocumentsProofs ----------------------------
(* Theorems about the modeller: the canvas of the task page while batches   *)
(* of the delegate agent are carried out on it (Canvas), the replies of the *)
(* AI service as they are parsed and counted (Replies), and the validator   *)
(* over any diagram that can be drawn (Diagram, Validator).                 *)
(*                                                                          *)
(* Three arguments carry most of it. A batch under way has left the canvas  *)
(* with just what its operations so far ask for, as long as nobody else has *)
(* touched it (Carried, below). A list is gone through one item at a time   *)
(* (GoneThrough), so what a fold makes of a reply is known item by item.    *)
(* And the worklist of the reachability check keeps everything it owes      *)
(* either visited or queued (Sound), hence ends with exactly what paths of  *)
(* flows lead to.                                                           *)
EXTENDS Validator, Canvas, Replies, FiniteSetTheorems, SequenceTheorems, WellFoundedInduction, TLAPS

-----------------------------------------------------------------------------
(* Lists *)

\* What holds at 0 and is passed on by each number to the next holds up to N.
LEMMA UpTo ==
    ASSUME NEW N \in Nat, NEW P, 0 \in P, \A n \in 1..N : n - 1 \in P => n \in P
    PROVE  0..N \subseteq P
<1> DEFINE Q == (0..N) \ P
<1>1. SUFFICES ASSUME Q # {} PROVE FALSE OBVIOUS
<1>2. Q \subseteq Nat OBVIOUS
<1>3. PICK m \in Q : \A n \in Q : ~(<<n, m>> \in OpToRel(<, Nat))
  BY <1>1, <1>2, NatLessThanWellFounded, WFMin
<1>4. \A n \in Q : ~(n < m) BY <1>2, <1>3 DEF OpToRel
<1>5. m \in 0..N /\ m \notin P /\ m # 0 OBVIOUS
<1>6. m \in 1..N /\ m - 1 \in 0..N /\ m - 1 < m BY <1>5
<1>7. m - 1 \in P BY <1>4, <1>6
<1>8. QED BY <1>5, <1>6, <1>7

\* N steps, one after the other, each from what the one before has made of a value
\* of S; the first is taken from b.
Steps(N, S) == [1..N -> [S -> S]]
Results(N, S, b, g, f) ==
    f \in [0..N -> S] /\ f[0] = b /\ \A n \in 1..N : f[n] = g[n][f[n - 1]]

\* A list can be gone through from the front: what is made of its first n items
\* follows from what was made of the first n - 1.
LEMMA GoneThrough ==
    ASSUME NEW N \in Nat, NEW S, NEW b \in S, NEW g \in Steps(N, S)
    PROVE  \E f : Results(N, S, b, g, f)
<1> USE DEF Steps
<1> DEFINE Upto(m, f) == f[0] = b /\ \A n \in 1..m : f[n] = g[n][f[n - 1]]
           P == {m \in 0..N : \E f \in [0..m -> S] : Upto(m, f)}
<1>1. 0 \in P
  <2> DEFINE f == [n \in 0..0 |-> b]
  <2>1. f \in [0..0 -> S] /\ Upto(0, f) OBVIOUS
  <2>2. \E e \in [0..0 -> S] : Upto(0, e)
    <3> HIDE DEF f, Upto
    <3>1. QED BY <2>1
  <2>3. QED BY <2>2
<1>2. ASSUME NEW m \in 1..N, m - 1 \in P PROVE m \in P
  <2>1. PICK e \in [0..(m - 1) -> S] : Upto(m - 1, e) BY <1>2
  <2> DEFINE f == [n \in 0..m |-> IF n = m THEN g[m][e[m - 1]] ELSE e[n]]
  <2>2. m - 1 \in 0..(m - 1) /\ \A n \in 0..m : n # m => n \in 0..(m - 1) OBVIOUS
  <2>3. e[m - 1] \in S BY <2>1, <2>2
  <2>4. g[m][e[m - 1]] \in S BY <2>3
  <2>5. f \in [0..m -> S] BY <2>1, <2>2, <2>4
  <2>6. f[0] = b BY <2>1
  <2>7. ASSUME NEW n \in 1..m PROVE f[n] = g[n][f[n - 1]]
    <3>1. n - 1 \in 0..m /\ n \in 0..m /\ n - 1 # m BY <2>7
    <3>2. f[n - 1] = e[n - 1] BY <3>1
    <3>3. CASE n = m BY <3>1, <3>2, <3>3
    <3>4. CASE n # m
      <4>1. n \in 1..(m - 1) BY <3>4
      <4>2. f[n] = e[n] BY <3>1, <3>4
      <4>3. QED BY <2>1, <3>2, <4>1, <4>2
    <3>5. QED BY <3>3, <3>4
  <2>8. Upto(m, f) BY <2>6, <2>7
  <2>9. \E e1 \in [0..m -> S] : Upto(m, e1)
    <3> HIDE DEF f, Upto
    <3>1. QED BY <2>5, <2>8
  <2>10. QED BY <2>9
<1>3. 0..N \subseteq P
  <2> HIDE DEF P
  <2>1. QED BY <1>1, <1>2, UpTo
<1>4. N \in P
  <2>1. N \in 0..N OBVIOUS
  <2> HIDE DEF P
  <2>2. QED BY <1>3, <2>1
<1>5. QED BY <1>4 DEF Results

\* Array.filter keeps what is at the places and nothing else.
LEMMA PickedItems ==
    ASSUME NEW S, NEW s \in Seq(S), NEW I
    PROVE  /\ Picked(s, I) \in Seq(S)
           /\ \A i \in DOMAIN s : i \in I => s[i] \in ToSet(Picked(s, I))
           /\ \A x \in ToSet(Picked(s, I)) : \E i \in DOMAIN s : i \in I /\ x = s[i]
<1> DEFINE N == Len(s)
           g == [n \in 1..N |-> [t \in Seq(S) |-> IF n \in I THEN Append(t, s[n]) ELSE t]]
           F(f) == [n \in 0..N |->
                    IF n = 0 THEN <<>>
                    ELSE IF n \in I THEN Append(f[n - 1], s[n]) ELSE f[n - 1]]
<1>1. N \in Nat /\ DOMAIN s = 1..N /\ \A n \in 1..N : s[n] \in S OBVIOUS
<1>2. g \in [1..N -> [Seq(S) -> Seq(S)]]
  <2>1. \A n \in 1..N : \A t \in Seq(S) : (IF n \in I THEN Append(t, s[n]) ELSE t) \in Seq(S)
    BY <1>1, AppendProperties
  <2>2. QED BY <2>1
<1>3. PICK f0 \in [0..N -> Seq(S)] :
         f0[0] = <<>> /\ \A n \in 1..N : f0[n] = g[n][f0[n - 1]]
  <2>1. PICK T, b, M, k : T = Seq(S) /\ b = <<>> /\ M = N /\ k = g OBVIOUS
  <2>2. M \in Nat /\ b \in T /\ k \in Steps(M, T)
    <3> HIDE DEF g, N
    <3>1. <<>> \in Seq(S) OBVIOUS
    <3>2. QED BY <1>1, <1>2, <2>1, <3>1 DEF Steps
  <2>3. \E h : Results(M, T, b, k, h) BY <2>2, GoneThrough
  <2> HIDE DEF g, N
  <2>4. QED BY <2>1, <2>3 DEF Results
<1>4. \A n \in 1..N : f0[n] = IF n \in I THEN Append(f0[n - 1], s[n]) ELSE f0[n - 1]
  <2> SUFFICES ASSUME NEW n \in 1..N
               PROVE  f0[n] = IF n \in I THEN Append(f0[n - 1], s[n]) ELSE f0[n - 1]
    OBVIOUS
  <2>1. n - 1 \in 0..N BY <1>1
  <2>2. f0[n - 1] \in Seq(S) BY <1>3, <2>1
  <2>3. QED BY <1>3, <2>2
<1>5. f0 = F(f0)
  <2>1. \A n \in 0..N : n # 0 => n \in 1..N BY <1>1
  <2>2. QED BY <1>3, <1>4, <2>1
<1>6. PICK f : f = CHOOSE h : h = F(h) OBVIOUS
<1>7. f = F(f) BY <1>5, <1>6
<1>8. Picked(s, I) = f[N] BY <1>6 DEF Picked
<1>9. f[0] = <<>> /\ \A n \in 1..N : f[n] = IF n \in I THEN Append(f[n - 1], s[n]) ELSE f[n - 1]
  <2>1. 0 \in 0..N /\ \A n \in 1..N : n \in 0..N /\ n # 0 BY <1>1
  <2>2. QED BY <1>7, <2>1
<1> DEFINE P == {n \in 0..N :
                   /\ f[n] \in Seq(S)
                   /\ \A i \in 1..n : i \in I => s[i] \in ToSet(f[n])
                   /\ \A x \in ToSet(f[n]) : \E i \in 1..n : i \in I /\ x = s[i]}
<1>10. 0 \in P
  <2>1. f[0] = <<>> /\ ToSet(<<>>) = {} /\ 1..0 = {} BY <1>9 DEF ToSet
  <2>2. 0 \in 0..N BY <1>1
  <2>3. f[0] \in Seq(S) BY <2>1
  <2>4. \A i \in 1..0 : FALSE OBVIOUS
  <2>5. \A x \in ToSet(f[0]) : FALSE BY <2>1
  <2>6. QED BY <2>2, <2>3, <2>4, <2>5
<1>11. ASSUME NEW n \in 1..N, n - 1 \in P PROVE n \in P
  <2>1. PICK t, u : t = f[n - 1] /\ u = f[n] OBVIOUS
  <2>2. /\ t \in Seq(S)
        /\ \A i \in 1..(n - 1) : i \in I => s[i] \in ToSet(t)
        /\ \A x \in ToSet(t) : \E i \in 1..(n - 1) : i \in I /\ x = s[i]
    BY <1>11, <2>1
  <2>3. n \in 0..N /\ s[n] \in S /\ \A i \in 1..n : i = n \/ i \in 1..(n - 1) BY <1>1
  <2>4. CASE n \in I
    <3>1. u = Append(t, s[n]) BY <1>9, <2>1, <2>4
    <3>2. /\ u \in Seq(S) /\ Len(u) = Len(t) + 1 /\ u[Len(t) + 1] = s[n]
          /\ \A i \in 1..Len(t) : u[i] = t[i]
          /\ DOMAIN t = 1..Len(t) /\ DOMAIN u = 1..Len(u) /\ Len(t) \in Nat
      BY <2>2, <2>3, <3>1, AppendProperties
    <3>3. \A x : x \in ToSet(u) <=> x \in ToSet(t) \/ x = s[n]
      <4>1. \A x \in ToSet(t) : x \in ToSet(u) BY <3>2 DEF ToSet
      <4>2. s[n] \in ToSet(u) BY <3>2 DEF ToSet
      <4>3. \A x \in ToSet(u) : x \in ToSet(t) \/ x = s[n]
        <5> SUFFICES ASSUME NEW i \in 1..Len(u) PROVE u[i] \in ToSet(t) \/ u[i] = s[n]
          BY <3>2 DEF ToSet
        <5>1. i \in 1..Len(t) \/ i = Len(t) + 1 BY <3>2
        <5>2. QED BY <3>2, <5>1 DEF ToSet
      <4>4. QED BY <4>1, <4>2, <4>3
    <3>4. \A i \in 1..n : i \in I => s[i] \in ToSet(u) BY <2>2, <2>3, <3>3
    <3>5. \A x \in ToSet(u) : \E i \in 1..n : i \in I /\ x = s[i]
      <4>1. \A i \in 1..(n - 1) : i \in 1..n BY <1>1
      <4>2. n \in 1..n BY <1>1
      <4>3. QED BY <2>2, <2>4, <3>3, <4>1, <4>2
    <3>6. QED BY <2>1, <2>3, <3>2, <3>4, <3>5
  <2>5. CASE n \notin I
    <3>1. u = t BY <1>9, <2>1, <2>5
    <3>2. \A i \in 1..n : i \in I => s[i] \in ToSet(u) BY <2>2, <2>3, <2>5, <3>1
    <3>3. \A i \in 1..(n - 1) : i \in 1..n BY <1>1
    <3>4. \A x \in ToSet(u) : \E i \in 1..n : i \in I /\ x = s[i] BY <2>2, <3>1, <3>3
    <3>5. QED BY <2>1, <2>2, <2>3, <3>1, <3>2, <3>4
  <2>6. QED BY <2>4, <2>5
<1>12. N \in P
  <2>1. N \in 0..N BY <1>1
  <2> HIDE DEF P, N
  <2>2. QED BY <1>1, <1>10, <1>11, <2>1, UpTo
<1>13. QED BY <1>1, <1>8, <1>12

\* FlattenSeq makes one list of lists.
LEMMA Flattened == ASSUME NEW S, NEW ss \in Seq(Seq(S)) PROVE FlattenSeq(ss) \in Seq(S)
<1> DEFINE N == Len(ss)
           g == [n \in 1..N |-> [t \in Seq(S) |-> t \o ss[n]]]
           F(f) == [n \in 1..N |-> IF n = 1 THEN ss[n] ELSE f[n - 1] \o ss[n]]
<1>1. N \in Nat /\ \A n \in 1..N : ss[n] \in Seq(S) OBVIOUS
<1>2. CASE N = 0
  <2>1. FlattenSeq(ss) = ss BY <1>2 DEF FlattenSeq
  <2>2. ss = <<>> /\ <<>> \in Seq(S) BY <1>2
  <2>3. QED BY <2>1, <2>2
<1>3. CASE N # 0
  <2>1. PICK T, b, M, k : T = Seq(S) /\ b = <<>> /\ M = N /\ k = g OBVIOUS
  <2>2. M \in Nat /\ b \in T /\ k \in Steps(M, T)
    <3>1. \A n \in 1..N : \A t \in Seq(S) : t \o ss[n] \in Seq(S) BY <1>1, ConcatProperties
    <3>2. g \in [1..N -> [Seq(S) -> Seq(S)]] BY <3>1
    <3> HIDE DEF g, N
    <3>3. <<>> \in Seq(S) OBVIOUS
    <3>4. QED BY <1>1, <2>1, <3>2, <3>3 DEF Steps
  <2>3. PICK f0 : Results(M, T, b, k, f0) BY <2>2, GoneThrough
  <2>4. f0 \in [0..N -> Seq(S)] /\ f0[0] = <<>> /\ \A n \in 1..N : f0[n] = g[n][f0[n - 1]]
    <3> HIDE DEF g, N
    <3>1. QED BY <2>1, <2>3 DEF Results
  <2>5. \A n \in 1..N : f0[n] = f0[n - 1] \o ss[n]
    <3> SUFFICES ASSUME NEW n \in 1..N PROVE f0[n] = f0[n - 1] \o ss[n] OBVIOUS
    <3>1. n - 1 \in 0..N BY <1>1
    <3>2. f0[n - 1] \in Seq(S) BY <2>4, <3>1
    <3>3. QED BY <2>4, <3>2
  <2> DEFINE f1 == [n \in 1..N |-> f0[n]]
  <2>6. f1 = F(f1)
    <3>1. \A n \in 1..N : n # 1 => n - 1 \in 1..N BY <1>1
    <3>2. 1 \in 1..N => f0[1] = ss[1]
      <4> SUFFICES ASSUME 1 \in 1..N PROVE f0[1] = ss[1] OBVIOUS
      <4>1. PICK n \in 1..N : n = 1 OBVIOUS
      <4>2. n - 1 = 0 BY <4>1
      <4>3. f0[n] = <<>> \o ss[n] BY <2>4, <2>5, <4>2
      <4>4. ss[n] \in Seq(S) BY <1>1
      <4>5. QED BY <4>1, <4>3, <4>4, ConcatEmptySeq
    <3>3. QED BY <2>5, <3>1, <3>2
  <2>7. PICK f : f = CHOOSE h : h = F(h) OBVIOUS
  <2>8. f = F(f)
    <3> HIDE DEF f1, F
    <3>1. QED BY <2>6, <2>7
  <2>9. FlattenSeq(ss) = f[N] BY <1>3, <2>7 DEF FlattenSeq
  <2> DEFINE P == {n \in 0..N : n = 0 \/ f[n] \in Seq(S)}
  <2>10. 0 \in P BY <1>1
  <2>11. ASSUME NEW n \in 1..N, n - 1 \in P PROVE n \in P
    <3>1. n \in 0..N BY <1>1
    <3>2. CASE n = 1 BY <1>1, <2>8, <3>1, <3>2
    <3>3. CASE n # 1
      <4>1. f[n] = f[n - 1] \o ss[n] BY <2>8, <3>3
      <4>2. f[n - 1] \in Seq(S) /\ ss[n] \in Seq(S) BY <1>1, <2>11, <3>3
      <4>3. f[n] \in Seq(S) BY <4>1, <4>2, ConcatProperties
      <4>4. QED BY <3>1, <4>3
    <3>4. QED BY <3>2, <3>3
  <2>12. N \in P
    <3>1. N \in 0..N BY <1>1
    <3> HIDE DEF P, N
    <3>2. QED BY <1>1, <2>10, <2>11, <3>1, UpTo
  <2>13. QED BY <1>3, <2>9, <2>12
<1>4. QED BY <1>2, <1>3

\* RemoveAt leaves a list.
LEMMA Shortened ==
    ASSUME NEW S, NEW s \in Seq(S), NEW k \in DOMAIN s
    PROVE  /\ RemoveAt(s, k) \in Seq(S) /\ Len(RemoveAt(s, k)) = Len(s) - 1
           /\ \A j \in 1..(Len(s) - 1) : RemoveAt(s, k)[j] = IF j < k THEN s[j] ELSE s[j + 1]
<1>1. Len(s) \in Nat /\ k \in 1..Len(s) /\ \A i \in 1..Len(s) : s[i] \in S OBVIOUS
<1>2. PICK a, b : a = SubSeq(s, 1, k - 1) /\ b = SubSeq(s, k + 1, Len(s)) OBVIOUS
<1>3. /\ a \in Seq(S) /\ Len(a) = k - 1
      /\ \A i \in 1..(k - 1) : a[i] = s[i]
  <2>1. 1 \in Int /\ k - 1 \in Int /\ \A i \in 1..(k - 1) : s[i] \in S BY <1>1
  <2>2. /\ a \in Seq(S) /\ Len(a) = IF 1 <= k - 1 THEN k - 1 - 1 + 1 ELSE 0
        /\ \A i \in 1..(k - 1 - 1 + 1) : a[i] = s[1 + i - 1]
    BY <1>2, <2>1, SubSeqProperties
  <2>3. QED BY <1>1, <2>2
<1>4. /\ b \in Seq(S) /\ Len(b) = Len(s) - k
      /\ \A i \in 1..(Len(s) - k) : b[i] = s[i + k]
  <2>1. k + 1 \in Int /\ Len(s) \in Int /\ \A i \in (k + 1)..Len(s) : s[i] \in S BY <1>1
  <2>2. /\ b \in Seq(S) /\ Len(b) = IF k + 1 <= Len(s) THEN Len(s) - (k + 1) + 1 ELSE 0
        /\ \A i \in 1..(Len(s) - (k + 1) + 1) : b[i] = s[k + 1 + i - 1]
    BY <1>2, <2>1, SubSeqProperties
  <2>3. QED BY <1>1, <2>2
<1>5. RemoveAt(s, k) = a \o b BY <1>2 DEF RemoveAt
<1>6. /\ a \o b \in Seq(S) /\ Len(a \o b) = Len(a) + Len(b)
      /\ \A i \in 1..(Len(a) + Len(b)) : (a \o b)[i] = IF i <= Len(a) THEN a[i] ELSE b[i - Len(a)]
  BY <1>3, <1>4, ConcatProperties
<1>7. Len(a) + Len(b) = Len(s) - 1 BY <1>1, <1>3, <1>4
<1>8. ASSUME NEW j \in 1..(Len(s) - 1) PROVE (a \o b)[j] = IF j < k THEN s[j] ELSE s[j + 1]
  <2>1. CASE j < k
    <3>1. j \in 1..(k - 1) BY <1>1, <2>1
    <3>2. (a \o b)[j] = a[j] BY <1>3, <1>6, <1>7, <3>1
    <3>3. QED BY <1>3, <2>1, <3>1, <3>2
  <2>2. CASE ~(j < k)
    <3>1. j - (k - 1) \in 1..(Len(s) - k) BY <1>1, <2>2
    <3>2. (a \o b)[j] = b[j - (k - 1)] BY <1>1, <1>3, <1>6, <1>7, <2>2
    <3>3. j - (k - 1) + k = j + 1 BY <1>1
    <3>4. QED BY <1>4, <2>2, <3>1, <3>2, <3>3
  <2>3. QED BY <2>1, <2>2
<1>9. QED BY <1>5, <1>6, <1>7, <1>8

-----------------------------------------------------------------------------
(* Canvas *)

\* A row of the list of issues (canvasIssues), an operation as expandConnectTo leaves
\* it, a batch being applied (applyOps), a message from the server.
Listed == [el : Targets, text : Nat]
ExpandedOp == [op : ToSet(ORDER), id : Targets \cup (Targets \X Shapes), to : Seq(Shapes)]
Job == [asked : Batches, todo : Seq(ExpandedOp), atOnce : BOOLEAN, undisturbed : BOOLEAN,
        lost : SUBSET (Targets \cup (Targets \X Shapes))]
Messages == [issues : Reports] \cup [ops : Batches]

\* Only the first message on its way can be a report.
OnItsWay ==
    /\ down \in Seq(Messages) /\ Len(down) <= 2
    /\ \A i \in DOMAIN down : i > 1 => down[i] \in [ops : Batches]
    /\ up \in Seq(Nat) /\ Len(up) <= 1

\* What the page keeps has the form the client gives it.
CanvasTypes ==
    /\ shapes \subseteq Shapes /\ links \subseteq Links
    /\ current \in Seq(Listed)
    /\ jobs \in Seq(Job)
    /\ OnItsWay

\* Batches that meet are all disturbed.
MetAreDisturbed == Len(jobs) > 1 => \A i \in DOMAIN jobs : ~jobs[i].undisturbed

\* As long as the session and the page are in step, the message on its way is all
\* that sets them apart.
InStep ==
    inStep =>
        IF down # <<>> /\ "issues" \in DOMAIN Head(down)
        THEN up = <<>> /\ last = Head(down).issues
        ELSE current = IF up # <<>> /\ Head(up) \in DOMAIN last THEN RemoveAt(last, Head(up)) ELSE last

\* What an operation has to leave behind among the shapes S and the links L.
LeftBehind(job, o, S, L) ==
    /\ IsShapeOp(o) /\ o.id \in Shapes \ Exempt(job) => o.id \in S
    /\ o.op = "connect" /\ o.id \in (Drawn(job) \X Drawn(job)) \ Exempt(job) => o.id \in L

\* An undisturbed batch draws its shapes first; what it has done stays done.
Carried(job, S, L) ==
    /\ ToSet(job.todo) \subseteq Operations(job)
    /\ \A m, n \in DOMAIN job.todo : m < n /\ IsShapeOp(job.todo[n]) => IsShapeOp(job.todo[m])
    /\ \A o \in Operations(job) : o \in ToSet(job.todo) \/ LeftBehind(job, o, S, L)
    /\ job.todo # <<>> /\ IsShapeOp(Head(job.todo))
         => \A o \in Operations(job) : IsShapeOp(o) \/ o \in ToSet(job.todo)
Underway == \A i \in DOMAIN jobs : jobs[i].undisturbed /\ ~Clears(jobs[i]) => Carried(jobs[i], shapes, links)

\* What holds on the page at any time: the three properties, and what they rest on.
CanvasInv == CanvasTypes /\ MarkersLive /\ OwnOpsStamped /\ MetAreDisturbed /\ InStep /\ Underway

\* A batch is a list of operations, in whichever form it comes (normalizeOps,
\* expandConnectTo).
LEMMA Expanded ==
    ASSUME NEW raw \in Batches PROVE ExpandConnectTo(NormalizeOps(raw)) \in Seq(ExpandedOp)
<1> DEFINE X == Seq(Operation)
<1>1. NormalizeOps(raw) \in Seq(Operation)
  <2>1. CASE "array" \in DOMAIN raw BY <2>1, MessageAssumption DEF NormalizeOps
  <2>2. CASE "array" \notin DOMAIN raw
    <3> DEFINE gs == [i \in DOMAIN ORDER |->
                        IF ORDER[i] \in DOMAIN raw.groups THEN raw.groups[ORDER[i]] ELSE <<>>]
    <3>1. \A op \in DOMAIN raw.groups : raw.groups[op] \in X BY <2>2, MessageAssumption
    <3>2. DOMAIN ORDER = 1..12 BY DEF ORDER
    <3>3. gs \in [1..12 -> X] BY <3>1, <3>2
    <3>4. gs \in Seq(X) BY <3>3, SeqDef
    <3>5. NormalizeOps(raw) = FlattenSeq(gs) BY <2>2 DEF NormalizeOps
    <3> HIDE DEF gs
    <3>6. QED BY <3>4, <3>5, Flattened
  <2>3. QED BY <2>1, <2>2
<1>2. PICK ops : ops = NormalizeOps(raw) OBVIOUS
<1> DEFINE Into(o) == [j \in DOMAIN o.to |-> [op |-> "connect", id |-> <<o.id, o.to[j]>>, to |-> <<>>]]
           Both(o) == <<o>> \o (IF o.op \notin {"draw", "create"} THEN <<>> ELSE Into(o))
           es == [i \in DOMAIN ops |-> Both(ops[i])]
<1>3. \A o \in Operation : Both(o) \in Seq(ExpandedOp)
  <2> SUFFICES ASSUME NEW o \in Operation PROVE Both(o) \in Seq(ExpandedOp) OBVIOUS
  <2>1. o \in ExpandedOp BY DEF Operation, ExpandedOp
  <2>2. <<o>> \in Seq(ExpandedOp) /\ <<>> \in Seq(ExpandedOp) BY <2>1
  <2>3. Into(o) \in Seq(ExpandedOp)
    <3>1. "connect" \in ToSet(ORDER)
      <4>1. 10 \in DOMAIN ORDER /\ ORDER[10] = "connect" BY DEF ORDER
      <4>2. QED BY <4>1 DEF ToSet
    <3>2. o.to \in Seq(Shapes) /\ o.id \in Targets BY DEF Operation
    <3>3. Len(o.to) \in Nat /\ DOMAIN o.to = 1..Len(o.to) /\ \A j \in 1..Len(o.to) : o.to[j] \in Shapes
      BY <3>2
    <3>4. \A j \in 1..Len(o.to) : [op |-> "connect", id |-> <<o.id, o.to[j]>>, to |-> <<>>] \in ExpandedOp
      <4> SUFFICES ASSUME NEW j \in 1..Len(o.to)
                   PROVE  [op |-> "connect", id |-> <<o.id, o.to[j]>>, to |-> <<>>] \in ExpandedOp
        OBVIOUS
      <4>1. <<o.id, o.to[j]>> \in Targets \X Shapes BY <3>2, <3>3
      <4>2. <<>> \in Seq(Shapes) OBVIOUS
      <4>3. QED BY <3>1, <4>1, <4>2 DEF ExpandedOp
    <3>5. Into(o) \in [1..Len(o.to) -> ExpandedOp] BY <3>3, <3>4
    <3>6. QED BY <3>3, <3>5, SeqDef
  <2>4. QED BY <2>2, <2>3, ConcatProperties
<1>4. es \in Seq(Seq(ExpandedOp))
  <2>1. Len(ops) \in Nat /\ DOMAIN ops = 1..Len(ops) /\ \A i \in 1..Len(ops) : ops[i] \in Operation
    BY <1>1, <1>2
  <2> HIDE DEF Both
  <2>2. es \in [1..Len(ops) -> Seq(ExpandedOp)] BY <1>3, <2>1
  <2>3. QED BY <2>1, <2>2, SeqDef
<1>5. ExpandConnectTo(NormalizeOps(raw)) = FlattenSeq(es) BY <1>2 DEF ExpandConnectTo
<1> HIDE DEF es
<1>6. QED BY <1>4, <1>5, Flattened

\* The shapes come first, and nothing is lost or added (executeBpmnOps).
LEMMA ShapesFirst ==
    ASSUME NEW raw \in Batches
    PROVE  /\ Ordered(raw) \in Seq(ExpandedOp)
           /\ ToSet(Ordered(raw)) = ToSet(ExpandConnectTo(NormalizeOps(raw)))
           /\ \A m, n \in DOMAIN Ordered(raw) :
                 m < n /\ IsShapeOp(Ordered(raw)[n]) => IsShapeOp(Ordered(raw)[m])
<1>1. PICK e : e = ExpandConnectTo(NormalizeOps(raw)) OBVIOUS
<1>2. e \in Seq(ExpandedOp) BY <1>1, Expanded
<1>3. PICK I, J : I = {i \in DOMAIN e : IsShapeOp(e[i])} /\ J = DOMAIN e \ I OBVIOUS
<1>4. PICK a, b, o : a = Picked(e, I) /\ b = Picked(e, J) /\ o = Ordered(raw) OBVIOUS
<1>5. o = a \o b BY <1>1, <1>3, <1>4 DEF Ordered
<1>6. /\ a \in Seq(ExpandedOp) /\ b \in Seq(ExpandedOp)
      /\ \A i \in DOMAIN e : i \in I => e[i] \in ToSet(a)
      /\ \A i \in DOMAIN e : i \in J => e[i] \in ToSet(b)
      /\ \A x \in ToSet(a) : \E i \in DOMAIN e : i \in I /\ x = e[i]
      /\ \A x \in ToSet(b) : \E i \in DOMAIN e : i \in J /\ x = e[i]
  BY <1>2, <1>4, PickedItems
<1>7. /\ o \in Seq(ExpandedOp) /\ Len(o) = Len(a) + Len(b) /\ Len(a) \in Nat /\ Len(b) \in Nat
      /\ \A i \in 1..(Len(a) + Len(b)) : o[i] = IF i <= Len(a) THEN a[i] ELSE b[i - Len(a)]
      /\ DOMAIN o = 1..Len(o) /\ DOMAIN a = 1..Len(a) /\ DOMAIN b = 1..Len(b)
  BY <1>5, <1>6, ConcatProperties
<1>8. \A x \in ToSet(a) : IsShapeOp(x) BY <1>3, <1>6
<1>9. \A x \in ToSet(b) : ~IsShapeOp(x) BY <1>3, <1>6
<1>10. ASSUME NEW n \in DOMAIN o
       PROVE  IF n <= Len(a) THEN o[n] \in ToSet(a) ELSE o[n] \in ToSet(b)
  <2>1. CASE n <= Len(a)
    <3>1. n \in 1..Len(a) /\ o[n] = a[n] BY <1>7, <2>1
    <3>2. QED BY <1>7, <2>1, <3>1 DEF ToSet
  <2>2. CASE ~(n <= Len(a))
    <3>1. n - Len(a) \in 1..Len(b) /\ o[n] = b[n - Len(a)] BY <1>7, <2>2
    <3>2. QED BY <1>7, <2>2, <3>1 DEF ToSet
  <2>3. QED BY <2>1, <2>2
<1>11. \A m, n \in DOMAIN o : m < n /\ IsShapeOp(o[n]) => IsShapeOp(o[m])
  <2> SUFFICES ASSUME NEW m \in DOMAIN o, NEW n \in DOMAIN o, m < n, IsShapeOp(o[n])
               PROVE  IsShapeOp(o[m])
    OBVIOUS
  <2>1. n <= Len(a) BY <1>9, <1>10
  <2>2. m <= Len(a) BY <1>7, <2>1
  <2>3. QED BY <1>8, <1>10, <2>2
<1>12. ToSet(a) \subseteq ToSet(o)
  <2> SUFFICES ASSUME NEW i \in 1..Len(a) PROVE a[i] \in ToSet(o) BY <1>7 DEF ToSet
  <2>1. i \in DOMAIN o /\ o[i] = a[i] BY <1>7
  <2>2. QED BY <2>1 DEF ToSet
<1>13. ToSet(b) \subseteq ToSet(o)
  <2> SUFFICES ASSUME NEW i \in 1..Len(b) PROVE b[i] \in ToSet(o) BY <1>7 DEF ToSet
  <2>1. i + Len(a) \in 1..(Len(a) + Len(b)) /\ ~(i + Len(a) <= Len(a)) /\ i + Len(a) - Len(a) = i
    BY <1>7
  <2>2. i + Len(a) \in DOMAIN o /\ o[i + Len(a)] = b[i] BY <1>7, <2>1
  <2>3. QED BY <2>2 DEF ToSet
<1>14. \A x \in ToSet(o) : x \in ToSet(e)
  <2>1. \A x \in ToSet(o) : x \in ToSet(a) \/ x \in ToSet(b) BY <1>10 DEF ToSet
  <2>2. \A x \in ToSet(a) \cup ToSet(b) : x \in ToSet(e) BY <1>6 DEF ToSet
  <2>3. QED BY <2>1, <2>2
<1>15. \A x \in ToSet(e) : x \in ToSet(o)
  <2>1. \A i \in DOMAIN e : i \in I \/ i \in J BY <1>3
  <2>2. QED BY <1>6, <1>12, <1>13, <2>1 DEF ToSet
<1>16. ToSet(o) = ToSet(e) BY <1>14, <1>15
<1>17. QED BY <1>1, <1>4, <1>7, <1>11, <1>16

\* What an operation other than clear takes away.
LEMMA WhatGoes ==
    ASSUME shapes \subseteq Shapes, links \subseteq Links, NEW h, h.op # "clear",
           NEW inside \in Contents(h)
    PROVE  /\ \A x \in Removed(h, inside) : x \in Shapes => x = h.id \/ x \in inside
           /\ \A l \in Removed(h, inside) : l \in Links =>
                 l = h.id \/ l[1] = h.id \/ l[2] = h.id \/ l[1] \in inside \/ l[2] \in inside
           /\ IsShapeOp(h) \/ h.op \in {"delete", "remove"} \/ Removed(h, inside) = {}
<1>1. Targeted(h) = IF IsShapeOp(h) \/ h.op \in {"delete", "remove"} THEN {h.id} \cap shapes ELSE {}
  BY DEF Targeted
<1>2. PICK those : those = Targeted(h) \cup inside OBVIOUS
<1>3. Removed(h, inside) = those \cup LinksAt(those) \cup
                           (IF h.op \in {"delete", "remove"} THEN {h.id} \cap links ELSE {})
  BY <1>2 DEF Removed
<1>4. \A x \in those : (x = h.id \/ x \in inside) /\ x \in Shapes
  BY <1>1, <1>2 DEF Contents
<1>5. \A l \in LinksAt(those) : l \in Links /\ (l[1] \in those \/ l[2] \in those) BY DEF LinksAt
<1>6. \A x \in Links : x \notin Shapes BY MessageAssumption
<1>7. \A x \in Removed(h, inside) : x \in Shapes => x = h.id \/ x \in inside
  BY <1>3, <1>4, <1>5, <1>6
<1>8. \A l \in Removed(h, inside) : l \in Links =>
          l = h.id \/ l[1] = h.id \/ l[2] = h.id \/ l[1] \in inside \/ l[2] \in inside
  BY <1>3, <1>4, <1>5, <1>6
<1>9. IsShapeOp(h) \/ h.op \in {"delete", "remove"} \/ Removed(h, inside) = {}
  <2> SUFFICES ASSUME ~IsShapeOp(h), h.op \notin {"delete", "remove"} PROVE Removed(h, inside) = {}
    OBVIOUS
  <2>1. Targeted(h) = {} BY <1>1
  <2>2. inside = {} BY <2>1 DEF Contents
  <2>3. those = {} BY <1>2, <2>1, <2>2
  <2>4. LinksAt({}) = {} BY DEF LinksAt
  <2>5. QED BY <1>3, <2>3, <2>4
<1>10. QED BY <1>7, <1>8, <1>9

\* The markers follow whatever changes.
LEMMA Executed ==
    ASSUME CanvasTypes, MarkersLive, NEW gone, NEW new, NEW relabelled, Change(gone, new, relabelled)
    PROVE  /\ shapes' \subseteq Shapes /\ links' \subseteq Links /\ current' \in Seq(Listed)
           /\ MarkersLive' /\ (inStep' => inStep /\ current' = current)
<1> USE DEF CanvasTypes
<1>1. PICK cleared : cleared = gone \cup relabelled OBVIOUS
<1>2. /\ current' = Without(cleared) /\ badges' = {b \in badges : b.issue.el \notin cleared}
  BY <1>1 DEF Change, ClearIssuesFor
<1>3. /\ shapes' = (((shapes \cup links) \ gone) \cup new) \cap Shapes
      /\ links' = (((shapes \cup links) \ gone) \cup new) \cap Links
      /\ inStep' = (inStep /\ current' = current)
  BY DEF Change
<1>4. PICK I : I = {i \in DOMAIN current : current[i].el \notin cleared} OBVIOUS
<1>5. current' = Picked(current, I) BY <1>2, <1>4 DEF Without
<1>6. /\ current' \in Seq(Listed)
      /\ \A i \in DOMAIN current : i \in I => current[i] \in ToSet(current')
  BY <1>5, PickedItems
<1>7. MarkersLive'
  <2> SUFFICES ASSUME NEW b \in badges'
               PROVE  b.issue.el \in shapes' \cup links' /\ b.issue \in ToSet(current')
    BY DEF MarkersLive
  <2>1. b \in badges /\ b.issue.el \notin cleared BY <1>2
  <2>2. b.issue.el \in shapes \cup links /\ b.issue \in ToSet(current) BY <2>1 DEF MarkersLive
  <2>3. b.issue.el \in shapes' \cup links' BY <1>1, <1>3, <2>1, <2>2
  <2>4. PICK i \in DOMAIN current : b.issue = current[i] BY <2>2 DEF ToSet
  <2>5. i \in I BY <1>4, <2>1, <2>4
  <2>6. QED BY <1>6, <2>3, <2>4, <2>5
<1>8. QED BY <1>3, <1>6, <1>7

\* What becomes of an operation whose timer runs: something goes, something new may
\* be there, and lost is what is lost from then on.  Either what the operation was
\* to draw is there, as far as it could be, or it is lost (execOne).
Becomes(h, inside, before, gone, new, lost) ==
    /\ gone \subseteq Removed(h, inside) /\ new \subseteq Added(h)
    /\ (before \cup inside) \ new \subseteq lost /\ lost \subseteq before \cup inside \cup Asked(h)
    /\ new = Added(h) \/ Asked(h) \subseteq lost

\* The next operation of a batch has had its turn, whatever became of it: nothing
\* of what was done is undone, save what is lost.
LEMMA OneDone ==
    ASSUME CanvasTypes, NEW a \in Job, NEW b \in Job, a.todo # <<>>, b.asked = a.asked,
           b.todo = Tail(a.todo), ~Clears(a), Carried(a, shapes, links),
           NEW inside \in Contents(Head(a.todo)), NEW gone, NEW new,
           Becomes(Head(a.todo), inside, a.lost, gone, new, b.lost),
           shapes' = (((shapes \cup links) \ gone) \cup new) \cap Shapes,
           links' = (((shapes \cup links) \ gone) \cup new) \cap Links
    PROVE  Carried(b, shapes', links')
<1>0. \A x \in Shapes : x \notin Links BY MessageAssumption
<1>1. PICK h, t, u : h = Head(a.todo) /\ t = a.todo /\ u = b.todo OBVIOUS
<1>2. PICK Os : Os = Operations(a) OBVIOUS
<1>3. Operations(b) = Os BY <1>2 DEF Operations
<1>4. PICK D, A, B, W, X : /\ D = Deleted(a) /\ A = Exempt(a) /\ B = Exempt(b)
                           /\ W = Drawn(a) /\ X = Drawn(b)
  OBVIOUS
<1>5. A = D \cup a.lost /\ B = D \cup b.lost BY <1>2, <1>3, <1>4 DEF Deleted, Exempt
<1>6. /\ t \in Seq(ExpandedOp) /\ t # <<>> /\ u = Tail(t) /\ h = t[1]
  BY <1>1 DEF Job
<1>7. /\ Len(t) \in Nat \ {0} /\ Len(u) = Len(t) - 1 /\ u \in Seq(ExpandedOp)
      /\ DOMAIN t = 1..Len(t) /\ DOMAIN u = 1..Len(u)
      /\ \A i \in 1..Len(u) : u[i] = t[i + 1]
  BY <1>6, HeadTailProperties
<1>8. h \in ToSet(t) BY <1>6, <1>7 DEF ToSet
<1>9. \A x \in ToSet(u) : x \in ToSet(t)
  <2> SUFFICES ASSUME NEW i \in 1..Len(u) PROVE u[i] \in ToSet(t) BY <1>7 DEF ToSet
  <2>1. i + 1 \in DOMAIN t BY <1>7
  <2>2. QED BY <1>7, <2>1 DEF ToSet
<1>10. \A x \in ToSet(t) : x = h \/ x \in ToSet(u)
  <2> SUFFICES ASSUME NEW i \in 1..Len(t) PROVE t[i] = h \/ t[i] \in ToSet(u) BY <1>7 DEF ToSet
  <2>1. CASE i = 1 BY <1>6, <2>1
  <2>2. CASE i # 1
    <3>1. i - 1 \in DOMAIN u /\ u[i - 1] = t[i]
      <4>1. i - 1 \in 1..Len(u) /\ i - 1 + 1 = i BY <1>7, <2>2
      <4>2. QED BY <1>7, <4>1
    <3>2. QED BY <3>1 DEF ToSet
  <2>3. QED BY <2>1, <2>2
<1>11. /\ ToSet(t) \subseteq Os
       /\ \A m, n \in DOMAIN t : m < n /\ IsShapeOp(t[n]) => IsShapeOp(t[m])
       /\ \A o \in Os : o \in ToSet(t) \/ LeftBehind(a, o, shapes, links)
       /\ IsShapeOp(h) => \A o \in Os : IsShapeOp(o) \/ o \in ToSet(t)
  BY <1>1, <1>2, <1>6 DEF Carried
<1>12. h \in Os /\ h.op # "clear" BY <1>2, <1>8, <1>11 DEF Clears
<1>13. h.op \in {"delete", "remove"} => h.id \in D BY <1>2, <1>4, <1>12 DEF Deleted
<1>14. /\ shapes \subseteq Shapes /\ links \subseteq Links BY DEF CanvasTypes
<1>15. /\ \A x \in gone : x \in Shapes => x = h.id \/ x \in inside
       /\ \A l \in gone : l \in Links =>
             l = h.id \/ l[1] = h.id \/ l[2] = h.id \/ l[1] \in inside \/ l[2] \in inside
       /\ IsShapeOp(h) \/ h.op \in {"delete", "remove"} \/ gone = {}
  <2>1. gone \subseteq Removed(h, inside) BY <1>1 DEF Becomes
  <2>2. inside \in Contents(h) BY <1>1
  <2>3. QED BY <1>12, <1>14, <2>1, <2>2, WhatGoes
<1>16. \A o : o.op = "connect" => ~IsShapeOp(o) BY DEF IsShapeOp
<1>17. /\ new \subseteq Added(h) /\ \A x \in a.lost \cup inside : x \in new \/ x \in b.lost
       /\ new = Added(h) \/ Asked(h) \subseteq b.lost
  BY <1>1 DEF Becomes
<1>18. ~IsShapeOp(h) => \A x \in new : x \notin Shapes
  <2>1. ~IsShapeOp(h) => Added(h) \subseteq Links \cap {h.id} BY DEF Added
  <2>2. QED BY <1>0, <1>17, <2>1
<1>19. IsShapeOp(h) /\ h.id \in Shapes \ B => h.id \in new
  <2> SUFFICES ASSUME IsShapeOp(h), h.id \in Shapes \ B PROVE h.id \in new OBVIOUS
  <2>1. Asked(h) = {h.id} BY DEF Asked
  <2>2. new = Added(h) BY <1>5, <1>17, <2>1
  <2>3. Added(h) = {h.id} BY <1>0 DEF Added
  <2>4. QED BY <2>2, <2>3
<1>20. X \subseteq Shapes \ B /\ W \subseteq Shapes \ A BY <1>4 DEF Drawn
<1>21. ASSUME ~IsShapeOp(h) PROVE X \subseteq W /\ \A x \in X : x \notin inside
  <2> SUFFICES ASSUME NEW x \in X PROVE x \in W /\ x \notin inside OBVIOUS
  <2>1. x \notin new /\ x \notin b.lost /\ x \notin D BY <1>5, <1>18, <1>20, <1>21
  <2>2. x \notin a.lost /\ x \notin inside BY <1>17, <2>1
  <2>3. x \in {o.id : o \in {p \in Os : IsShapeOp(p)}} /\ x \in Shapes BY <1>3, <1>4 DEF Drawn
  <2>4. x \in Shapes \ A BY <1>5, <2>1, <2>2, <2>3
  <2>5. x \in W BY <1>2, <1>4, <2>3, <2>4 DEF Drawn
  <2>6. QED BY <2>2, <2>5
<1>22. ASSUME NEW o \in Os PROVE o \in ToSet(u) \/ LeftBehind(b, o, shapes', links')
  <2>1. SUFFICES ASSUME o \notin ToSet(u)
                 PROVE  /\ IsShapeOp(o) /\ o.id \in Shapes \ B => o.id \in shapes'
                        /\ o.op = "connect" /\ o.id \in (X \X X) \ B => o.id \in links'
    BY <1>4 DEF LeftBehind
  <2>2. CASE o = h
    <3>1. ASSUME IsShapeOp(h), h.id \in Shapes \ B PROVE h.id \in shapes' BY <1>19, <3>1
    <3>2. ASSUME h.op = "connect", h.id \in (X \X X) \ B PROVE h.id \in links'
      <4>1. ~IsShapeOp(h) BY <1>16, <3>2
      <4>2. \A p \in Os : IsShapeOp(p) => p \notin ToSet(t)
        <5> SUFFICES ASSUME NEW n \in 1..Len(t), IsShapeOp(t[n]) PROVE FALSE BY <1>7 DEF ToSet
        <5>1. ~IsShapeOp(t[1]) BY <1>6, <4>1
        <5>2. 1 \in DOMAIN t /\ n \in DOMAIN t /\ (n = 1 \/ 1 < n) BY <1>7
        <5>3. QED BY <1>11, <5>1, <5>2
      <4>3. W \subseteq shapes
        <5> SUFFICES ASSUME NEW w \in W PROVE w \in shapes OBVIOUS
        <5>1. PICK p \in Os : IsShapeOp(p) /\ p.id = w BY <1>2, <1>4 DEF Drawn
        <5>2. LeftBehind(a, p, shapes, links) BY <1>11, <4>2, <5>1
        <5>3. QED BY <1>4, <1>20, <5>1, <5>2 DEF LeftBehind
      <4>4. h.id \in Links /\ h.id[1] \in shapes /\ h.id[2] \in shapes
        BY <1>14, <1>21, <3>2, <4>1, <4>3 DEF Links
      <4>5. h.id \in Added(h) BY <3>2, <4>1, <4>4 DEF Added
      <4>6. Asked(h) = {h.id} BY <3>2 DEF Asked
      <4>7. new = Added(h) BY <1>5, <1>17, <3>2, <4>6
      <4>8. QED BY <4>4, <4>5, <4>7
    <3>3. QED BY <2>2, <3>1, <3>2
  <2>3. CASE o # h
    <3>1. o \notin ToSet(t) BY <1>10, <2>1, <2>3
    <3>2. LeftBehind(a, o, shapes, links) BY <1>11, <3>1
    <3>3. ASSUME IsShapeOp(o), o.id \in Shapes \ B PROVE o.id \in shapes'
      <4>1. CASE o.id \in new BY <3>3, <4>1
      <4>2. CASE o.id \notin new
        <5>1. o.id \notin inside /\ o.id \in Shapes \ A BY <1>5, <1>17, <3>3, <4>2
        <5>2. o.id \in shapes BY <1>4, <3>2, <3>3, <5>1 DEF LeftBehind
        <5>3. o.id \notin gone
          <6> SUFFICES ASSUME o.id \in gone PROVE FALSE OBVIOUS
          <6>1. o.id = h.id BY <1>15, <3>3, <5>1
          <6>2. h.id \notin D BY <1>5, <3>3, <6>1
          <6>3. IsShapeOp(h) BY <1>13, <1>15, <6>2
          <6>4. QED BY <1>19, <3>3, <4>2, <6>1, <6>3
        <5>4. QED BY <3>3, <5>2, <5>3
      <4>3. QED BY <4>1, <4>2
    <3>4. ASSUME o.op = "connect", o.id \in (X \X X) \ B PROVE o.id \in links'
      <4>1. ~IsShapeOp(h) BY <1>11, <1>16, <3>1, <3>4
      <4>2. o.id \in (W \X W) /\ o.id \in Links /\ o.id[1] \notin inside /\ o.id[2] \notin inside
        BY <1>20, <1>21, <3>4, <4>1 DEF Links
      <4>3. CASE o.id \in new BY <4>2, <4>3
      <4>4. CASE o.id \notin new
        <5>1. o.id \notin A BY <1>5, <1>17, <3>4, <4>4
        <5>2. o.id \in links BY <1>4, <3>2, <3>4, <4>2, <5>1 DEF LeftBehind
        <5>3. o.id \notin gone
          <6> SUFFICES ASSUME o.id \in gone PROVE FALSE OBVIOUS
          <6>1. o.id = h.id \/ o.id[1] = h.id \/ o.id[2] = h.id BY <1>15, <4>2
          <6>2. h.id \in D BY <1>13, <1>15, <4>1
          <6>3. o.id[1] \notin D /\ o.id[2] \notin D /\ o.id \notin D BY <1>5, <1>20, <3>4
          <6>4. QED BY <6>1, <6>2, <6>3
        <5>4. QED BY <4>2, <5>2, <5>3
      <4>5. QED BY <4>3, <4>4
    <3>5. QED BY <3>3, <3>4
  <2>4. QED BY <2>2, <2>3
<1>23. \A m, n \in DOMAIN u : m < n /\ IsShapeOp(u[n]) => IsShapeOp(u[m])
  <2> SUFFICES ASSUME NEW m \in 1..Len(u), NEW n \in 1..Len(u), m < n, IsShapeOp(u[n])
               PROVE  IsShapeOp(u[m])
    BY <1>7
  <2>1. m + 1 \in DOMAIN t /\ n + 1 \in DOMAIN t /\ m + 1 < n + 1 BY <1>7
  <2>2. IsShapeOp(t[n + 1]) BY <1>7
  <2>3. IsShapeOp(t[m + 1]) BY <1>11, <2>1, <2>2
  <2>4. QED BY <1>7, <2>3
<1>24. ASSUME u # <<>>, IsShapeOp(Head(u)), NEW o \in Os PROVE IsShapeOp(o) \/ o \in ToSet(u)
  <2>1. Head(u) = t[2] /\ 1 \in DOMAIN t /\ 2 \in DOMAIN t
    <3>1. Len(u) \in Nat \ {0} BY <1>7, <1>24
    <3>2. Head(u) = u[1] /\ 1 \in 1..Len(u) BY <1>7, <1>24, <3>1
    <3>3. 1 + 1 = 2 OBVIOUS
    <3>4. QED BY <1>7, <3>1, <3>2, <3>3
  <2>2. IsShapeOp(h) BY <1>6, <1>11, <1>24, <2>1
  <2>3. QED BY <1>10, <1>11, <2>2
<1>25. ToSet(u) \subseteq Os BY <1>9, <1>11
<1>26. PICK c : c = b.todo /\ c = u BY <1>1
<1>27. QED BY <1>3, <1>22, <1>23, <1>24, <1>25, <1>26 DEF Carried

\* Only the shapes, the links and the batches bear on what is underway.
LEMMA DrawingKept ==
    ASSUME UNCHANGED drawing, OwnOpsStamped, MetAreDisturbed, Underway
    PROVE  OwnOpsStamped' /\ MetAreDisturbed' /\ Underway'
BY DEF drawing, OwnOpsStamped, MetAreDisturbed, Underway

\* Showing a report marks only what is there.
LEMMA MarksShown ==
    ASSUME NEW issues \in Seq(Listed), ShowIssues(issues), UNCHANGED <<shapes, links>>
    PROVE  current' = issues /\ MarkersLive'
<1>1. current' = issues BY DEF ShowIssues
<1>2. ASSUME NEW b \in badges' PROVE b.issue.el \in shapes' \cup links' /\ b.issue \in ToSet(current')
  <2>1. PICK i \in DOMAIN issues : issues[i].el \in shapes \cup links /\ b = [issue |-> issues[i], at |-> i]
    BY DEF ShowIssues
  <2>2. b.issue = issues[i] BY <2>1
  <2>3. QED BY <1>1, <2>1, <2>2 DEF ToSet
<1>3. QED BY <1>1, <1>2 DEF MarkersLive

\* The page is loaded with no issue and no batch.
LEMMA CanvasBegins == CanvasInit => CanvasInv
<1> SUFFICES ASSUME CanvasInit PROVE CanvasInv OBVIOUS
<1> USE DEF CanvasInit
<1>1. CanvasTypes BY DEF CanvasTypes, OnItsWay
<1>2. MarkersLive /\ OwnOpsStamped /\ MetAreDisturbed /\ InStep /\ Underway
  BY DEF MarkersLive, OwnOpsStamped, MetAreDisturbed, InStep, Underway
<1>3. QED BY <1>1, <1>2 DEF CanvasInv

\* Answer.
LEMMA Answered ==
    ASSUME CanvasInv, NEW issues \in Reports,
           NEW sent \in {<<>>} \cup {<<[ops |-> raw]>> : raw \in Batches}, Answer(issues, sent)
    PROVE  CanvasInv'
<1> USE DEF CanvasInv, Answer
<1>1. OwnOpsStamped' /\ MetAreDisturbed' /\ Underway' BY DrawingKept
<1>2. MarkersLive' BY DEF MarkersLive, drawing, marking
<1>3. down' = (IF issues = <<>> THEN <<>> ELSE <<[issues |-> issues]>>) \o sent OBVIOUS
<1>4. /\ sent \in Seq(Messages) /\ Len(sent) <= 1
      /\ \A i \in DOMAIN sent : sent[i] \in [ops : Batches]
  <2>1. CASE sent = <<>> BY <2>1
  <2>2. CASE sent # <<>>
    <3>1. PICK raw \in Batches : sent = <<[ops |-> raw]>> BY <2>2
    <3>2. [ops |-> raw] \in [ops : Batches] /\ [ops |-> raw] \in Messages BY DEF Messages
    <3>3. PICK m : m = [ops |-> raw] OBVIOUS
    <3>4. sent = <<m>> /\ m \in [ops : Batches] /\ m \in Messages BY <3>1, <3>2, <3>3
    <3>5. QED BY <3>4
  <2>3. QED BY <2>1, <2>2
<1>5. CASE issues = <<>>
  <2>1. down' = sent BY <1>3, <1>4, <1>5, ConcatEmptySeq
  <2>2. OnItsWay' BY <1>4, <2>1 DEF CanvasTypes, OnItsWay
  <2>3. InStep'
    <3>1. down' # <<>> => "issues" \notin DOMAIN Head(down')
      <4>1. ASSUME down' # <<>> PROVE Head(down') \in [ops : Batches]
        <5>1. Head(sent) = sent[1] /\ 1 \in DOMAIN sent BY <1>4, <2>1, <4>1
        <5>2. QED BY <1>4, <2>1, <5>1
      <4>2. QED BY <4>1
    <3>2. down = <<>> /\ last' = last /\ current' = current /\ up' = up /\ inStep' = inStep
      BY <1>5 DEF marking
    <3>3. QED BY <3>1, <3>2 DEF InStep
  <2>4. QED BY <1>1, <1>2, <2>2, <2>3 DEF CanvasTypes, drawing, marking
<1>6. CASE issues # <<>>
  <2>1. PICK m : m = [issues |-> issues] OBVIOUS
  <2>2. m \in [issues : Reports] /\ m \in Messages /\ DOMAIN m = {"issues"} /\ m.issues = issues
    BY <2>1 DEF Messages
  <2>3. down' = <<m>> \o sent BY <1>3, <1>6, <2>1
  <2>4. <<m>> \in Seq(Messages) /\ Len(<<m>>) = 1 /\ <<m>>[1] = m BY <2>2
  <2>5. /\ down' \in Seq(Messages) /\ Len(down') = 1 + Len(sent)
        /\ \A i \in 1..(1 + Len(sent)) : down'[i] = IF i <= 1 THEN m ELSE sent[i - 1]
    <3>1. /\ <<m>> \o sent \in Seq(Messages)
          /\ Len(<<m>> \o sent) = Len(<<m>>) + Len(sent)
          /\ \A i \in 1..(Len(<<m>>) + Len(sent)) :
                (<<m>> \o sent)[i] = IF i <= Len(<<m>>) THEN <<m>>[i] ELSE sent[i - Len(<<m>>)]
      BY <1>4, <2>4, ConcatProperties
    <3>2. ASSUME NEW i \in 1..(1 + Len(sent)) PROVE down'[i] = IF i <= 1 THEN m ELSE sent[i - 1]
      <4>1. i <= 1 => i = 1 OBVIOUS
      <4>2. QED BY <2>3, <2>4, <3>1, <4>1
    <3>3. QED BY <2>3, <2>4, <3>1, <3>2
  <2>6. Len(sent) \in Nat /\ DOMAIN sent = 1..Len(sent) BY <1>4
  <2>7. OnItsWay'
    <3>1. Len(down') <= 2 /\ DOMAIN down' = 1..(1 + Len(sent)) BY <1>4, <2>5, <2>6
    <3>2. ASSUME NEW i \in 1..(1 + Len(sent)), i > 1 PROVE down'[i] \in [ops : Batches]
      <4>1. i - 1 \in DOMAIN sent /\ ~(i <= 1) BY <2>6, <3>2
      <4>2. QED BY <1>4, <2>5, <4>1
    <3>3. QED BY <2>5, <3>1, <3>2 DEF CanvasTypes, OnItsWay
  <2>8. InStep'
    <3>1. down' # <<>> /\ Head(down') = m
      <4>1. 1 \in 1..(1 + Len(sent)) BY <2>6
      <4>2. down'[1] = m BY <2>5, <4>1
      <4>3. QED BY <2>5, <2>6, <4>2
    <3>2. last' = issues /\ up' = up /\ inStep' = (up = <<>>) BY <1>6
    <3>3. QED BY <2>2, <3>1, <3>2 DEF InStep
  <2>9. QED BY <1>1, <1>2, <2>7, <2>8 DEF CanvasTypes, drawing, marking
<1>7. QED BY <1>5, <1>6

\* The message at the head of those on their way.
LEMMA NextMessage ==
    ASSUME OnItsWay, down # <<>>
    PROVE  /\ Head(down) \in Messages
           /\ Tail(down) \in Seq(Messages) /\ Len(Tail(down)) <= 1
           /\ \A i \in DOMAIN Tail(down) : Tail(down)[i] \in [ops : Batches]
           /\ Tail(down) # <<>> => "issues" \notin DOMAIN Head(Tail(down))
<1>1. down \in Seq(Messages) /\ Len(down) \in 1..2
  <2>1. down \in Seq(Messages) /\ Len(down) <= 2 BY DEF OnItsWay
  <2>2. PICK n : n = Len(down) OBVIOUS
  <2>3. n \in Nat BY <2>1, <2>2, LenProperties
  <2>4. n # 0 BY <2>1, <2>2, EmptySeq
  <2>5. n \in 1..2 BY <2>1, <2>2, <2>3, <2>4
  <2>6. QED BY <2>1, <2>2, <2>5
<1>2. PICK t : t = Tail(down) OBVIOUS
<1>3. /\ t \in Seq(Messages) /\ Len(t) = Len(down) - 1
      /\ \A i \in 1..Len(t) : t[i] = down[i + 1]
  BY <1>1, <1>2, HeadTailProperties
<1>4. Head(down) = down[1] /\ 1 \in DOMAIN down BY <1>1
<1>5. ASSUME NEW i \in DOMAIN t PROVE t[i] \in [ops : Batches]
  <2>1. i \in 1..Len(t) /\ i + 1 \in DOMAIN down /\ i + 1 > 1 BY <1>1, <1>3
  <2>2. QED BY <1>3, <2>1 DEF OnItsWay
<1>6. ASSUME t # <<>> PROVE "issues" \notin DOMAIN Head(t)
  <2>1. Head(t) = t[1] /\ 1 \in DOMAIN t BY <1>3, <1>6
  <2>2. Head(t) \in [ops : Batches] BY <1>5, <2>1
  <2>3. QED BY <2>2
<1>7. Head(down) \in Messages BY <1>1, <1>4
<1>8. QED BY <1>1, <1>2, <1>3, <1>5, <1>6, <1>7

\* ReceiveIssues.
LEMMA IssuesReceived == ASSUME CanvasInv, ReceiveIssues PROVE CanvasInv'
<1> USE DEF CanvasInv, ReceiveIssues
<1>1. OwnOpsStamped' /\ MetAreDisturbed' /\ Underway' BY DrawingKept
<1>2. /\ Head(down) \in Messages
      /\ Tail(down) \in Seq(Messages) /\ Len(Tail(down)) <= 1
      /\ \A i \in DOMAIN Tail(down) : Tail(down)[i] \in [ops : Batches]
      /\ Tail(down) # <<>> => "issues" \notin DOMAIN Head(Tail(down))
  BY NextMessage DEF CanvasTypes
<1>3. PICK r : r = Head(down).issues OBVIOUS
<1>4. r \in Seq(Listed)
  <2>1. Head(down) \in [issues : Reports] BY <1>2 DEF Messages
  <2>2. r \in Reports BY <1>3, <2>1
  <2>3. QED BY <2>2, MessageAssumption DEF Listed
<1>5. current' = r /\ MarkersLive' BY <1>3, <1>4, MarksShown DEF drawing
<1>6. OnItsWay' BY <1>2 DEF CanvasTypes, OnItsWay
<1>7. InStep'
  <2>1. inStep => up = <<>> /\ last = r BY <1>3 DEF InStep
  <2>2. QED BY <1>2, <1>5, <2>1 DEF InStep
<1>8. QED BY <1>1, <1>4, <1>5, <1>6, <1>7 DEF CanvasTypes, drawing

\* Of batches that are all disturbed nothing is asked.
LEMMA AllDisturbed ==
    ASSUME \A i \in DOMAIN jobs' : ~jobs'[i].undisturbed
    PROVE  MetAreDisturbed' /\ Underway'
BY DEF MetAreDisturbed, Underway

\* The batches once something else has touched the canvas.
Disturbed(js) == [i \in DOMAIN js |-> [js[i] EXCEPT !.undisturbed = FALSE]]
\* They are the same batches, none of them undisturbed.
LEMMA Disturbance ==
    ASSUME NEW js \in Seq(Job)
    PROVE  /\ Disturbed(js) \in Seq(Job) /\ Len(Disturbed(js)) = Len(js)
           /\ \A i \in DOMAIN Disturbed(js) : ~Disturbed(js)[i].undisturbed
<1>1. Len(js) \in Nat /\ DOMAIN js = 1..Len(js) /\ \A i \in 1..Len(js) : js[i] \in Job OBVIOUS
<1>2. \A j \in Job : [j EXCEPT !.undisturbed = FALSE] \in Job
                     /\ ~[j EXCEPT !.undisturbed = FALSE].undisturbed
  BY DEF Job
<1>3. \A i \in 1..Len(js) : [js[i] EXCEPT !.undisturbed = FALSE] \in Job
                            /\ ~[js[i] EXCEPT !.undisturbed = FALSE].undisturbed
  BY <1>1, <1>2
<1>4. Disturbed(js) \in [1..Len(js) -> Job] BY <1>1, <1>3 DEF Disturbed
<1>5. \A i \in 1..Len(js) : ~Disturbed(js)[i].undisturbed BY <1>1, <1>3 DEF Disturbed
<1>6. QED BY <1>1, <1>4, <1>5, SeqDef

\* ReceiveOps.
LEMMA OpsReceived == ASSUME CanvasInv, NEW cursor \in BOOLEAN, ReceiveOps(cursor) PROVE CanvasInv'
<1> USE DEF CanvasInv
<1>1. /\ down # <<>> /\ "ops" \in DOMAIN Head(down) /\ down' = Tail(down) /\ aiIsModeling' = TRUE
      /\ UNCHANGED <<shapes, links, marking, last, up, inStep>>
  BY DEF ReceiveOps
<1>2. /\ Head(down) \in Messages
      /\ Tail(down) \in Seq(Messages) /\ Len(Tail(down)) <= 1
      /\ \A i \in DOMAIN Tail(down) : Tail(down)[i] \in [ops : Batches]
      /\ Tail(down) # <<>> => "issues" \notin DOMAIN Head(Tail(down))
  BY <1>1, NextMessage DEF CanvasTypes
<1>3. PICK raw : raw = Head(down).ops OBVIOUS
<1>4. raw \in Batches /\ "issues" \notin DOMAIN Head(down)
  <2>1. Head(down) \in [ops : Batches] BY <1>1, <1>2 DEF Messages
  <2>2. QED BY <1>3, <2>1
<1>5. OnItsWay' BY <1>1, <1>2 DEF CanvasTypes, OnItsWay
<1>6. InStep'
  <2>1. inStep => current = IF up # <<>> /\ Head(up) \in DOMAIN last THEN RemoveAt(last, Head(up)) ELSE last
    BY <1>4 DEF InStep
  <2>2. QED BY <1>1, <1>2, <2>1 DEF InStep, marking
<1>7. MarkersLive' BY <1>1 DEF MarkersLive, marking
<1>8. OwnOpsStamped' BY <1>1 DEF OwnOpsStamped
<1>9. shapes' \subseteq Shapes /\ links' \subseteq Links /\ current' \in Seq(Listed)
  BY <1>1 DEF CanvasTypes, marking
<1>10. jobs' \in Seq(Job) /\ MetAreDisturbed' /\ Underway'
  <2>1. CASE Ordered(raw) = <<>>
    <3>1. jobs' = jobs BY <1>3, <2>1 DEF ReceiveOps
    <3>2. QED BY <1>1, <3>1 DEF CanvasTypes, MetAreDisturbed, Underway
  <2>2. CASE Ordered(raw) # <<>>
    <3>1. PICK todo : todo = Ordered(raw) OBVIOUS
    <3>2. PICK u : u = (jobs = <<>>) OBVIOUS
    <3>3. PICK job : job = [asked |-> raw, todo |-> todo, atOnce |-> ~cursor,
                              undisturbed |-> u, lost |-> {}] OBVIOUS
    <3>4. PICK js : js = Disturbed(jobs) OBVIOUS
    <3>5. jobs' = Append(js, job) BY <1>3, <2>2, <3>1, <3>2, <3>3, <3>4 DEF ReceiveOps, Disturbed
    <3>6. /\ todo \in Seq(ExpandedOp)
          /\ ToSet(todo) = Operations(job)
          /\ \A m, n \in DOMAIN todo : m < n /\ IsShapeOp(todo[n]) => IsShapeOp(todo[m])
      BY <1>4, <3>1, <3>3, ShapesFirst DEF Operations
    <3>7. job \in Job BY <1>4, <3>2, <3>3, <3>6 DEF Job
    <3>8. /\ js \in Seq(Job) /\ Len(js) = Len(jobs) /\ \A i \in DOMAIN js : ~js[i].undisturbed
      BY <3>4, Disturbance DEF CanvasTypes
    <3>9. PICK n : n = Len(js) OBVIOUS
    <3>10. n \in Nat /\ DOMAIN js = 1..n BY <3>8, <3>9, LenProperties
    <3>11. /\ jobs' \in Seq(Job) /\ Len(jobs') = n + 1 /\ jobs'[n + 1] = job
           /\ \A i \in 1..n : jobs'[i] = js[i]
      BY <3>5, <3>7, <3>8, <3>9, AppendProperties
    <3>12. DOMAIN jobs' = 1..(n + 1) BY <3>11, LenProperties
    <3>13. Carried(job, shapes', links')
      <4>1. job.todo = todo BY <3>3
      <4>2. QED BY <3>6, <4>1 DEF Carried
    <3>14. u => n = 0 BY <3>2, <3>8, <3>9
    <3>15. ASSUME NEW i \in DOMAIN jobs', jobs'[i].undisturbed PROVE i = n + 1 /\ n = 0
      <4>1. i \in 1..n \/ i = n + 1 BY <3>10, <3>12
      <4>2. i \notin 1..n BY <3>8, <3>10, <3>11, <3>15
      <4>3. i = n + 1 BY <4>1, <4>2
      <4>4. job.undisturbed BY <3>11, <3>15, <4>3
      <4>5. QED BY <3>3, <3>14, <4>3, <4>4
    <3>16. MetAreDisturbed' BY <3>11, <3>15 DEF MetAreDisturbed
    <3>17. Underway'
      <4> SUFFICES ASSUME NEW i \in DOMAIN jobs', jobs'[i].undisturbed
                   PROVE  Carried(jobs'[i], shapes', links')
        BY DEF Underway
      <4>1. jobs'[i] = job BY <3>11, <3>15
      <4>2. QED BY <3>13, <4>1
    <3>18. QED BY <3>11, <3>16, <3>17
  <2>3. QED BY <2>1, <2>2
<1>11. QED BY <1>5, <1>6, <1>7, <1>8, <1>9, <1>10 DEF CanvasTypes

\* An edit leaves the page in step only when it leaves the list alone.
LEMMA StillInStep ==
    ASSUME InStep, UNCHANGED <<last, down, up>>, inStep' => inStep /\ current' = current
    PROVE  InStep'
BY DEF InStep

\* RunTimer.
LEMMA TimerRun == ASSUME CanvasInv, NEW i \in DOMAIN jobs, RunTimer(i) PROVE CanvasInv'
<1> USE DEF CanvasInv
<1>1. PICK a, h : a = jobs[i] /\ h = Head(jobs[i].todo) OBVIOUS
<1>2. PICK inside \in Contents(h) :
          \/ ExecOne(h, inside) /\ Advance(i, (a.lost \cup inside) \ Added(h))
          \/ Failed(h, inside) /\ Advance(i, a.lost \cup inside \cup Asked(h))
  BY <1>1 DEF RunTimer
<1>3. PICK gone, new, relabelled, lost :
          /\ Change(gone, new, relabelled) /\ Becomes(h, inside, a.lost, gone, new, lost)
          /\ Advance(i, lost)
  <2>1. CASE ExecOne(h, inside) /\ Advance(i, (a.lost \cup inside) \ Added(h))
    <3>1. Change(Removed(h, inside), Added(h), Relabelled(h)) BY <2>1 DEF ExecOne
    <3>2. Becomes(h, inside, a.lost, Removed(h, inside), Added(h), (a.lost \cup inside) \ Added(h))
      BY DEF Becomes
    <3>3. QED BY <2>1, <3>1, <3>2
  <2>2. CASE Failed(h, inside) /\ Advance(i, a.lost \cup inside \cup Asked(h))
    <3>1. PICK g : Change(g, {}, {}) /\ g \subseteq Removed(h, inside) BY <2>2 DEF Failed
    <3>2. Becomes(h, inside, a.lost, g, {}, a.lost \cup inside \cup Asked(h)) BY <3>1 DEF Becomes
    <3>3. QED BY <2>2, <3>1, <3>2
  <2>3. QED BY <1>2, <2>1, <2>2
<1>4. PICK b : b = [jobs[i] EXCEPT !.todo = Tail(jobs[i].todo), !.lost = lost] OBVIOUS
<1>5. /\ a.todo # <<>> /\ jobs' = [jobs EXCEPT ![i] = b] /\ UNCHANGED <<aiIsModeling, last, down, up>>
  <2>1. a.todo # <<>> /\ UNCHANGED <<aiIsModeling, last, down, up>> BY <1>1 DEF RunTimer
  <2>2. jobs' = [jobs EXCEPT ![i] = b] BY <1>3, <1>4 DEF Advance
  <2>3. QED BY <2>1, <2>2
<1>6. /\ shapes' \subseteq Shapes /\ links' \subseteq Links /\ current' \in Seq(Listed)
      /\ MarkersLive' /\ (inStep' => inStep /\ current' = current)
  BY <1>3, Executed
<1>7. InStep' /\ OnItsWay' BY <1>5, <1>6, StillInStep DEF CanvasTypes, OnItsWay
<1>8. /\ jobs \in Seq(Job) /\ Len(jobs) \in Nat /\ DOMAIN jobs = 1..Len(jobs) /\ a \in Job
  BY <1>1 DEF CanvasTypes
<1>9. b \in Job /\ b.asked = a.asked /\ b.undisturbed = a.undisturbed /\ b.todo = Tail(a.todo)
      /\ b.lost = lost
  <2>1. a.todo \in Seq(ExpandedOp) BY <1>8 DEF Job
  <2>2. h \in ExpandedOp
    <3>1. 1 \in DOMAIN a.todo /\ h = a.todo[1] BY <1>1, <1>5, <2>1
    <3>2. QED BY <2>1, <3>1
  <2>3. Tail(a.todo) \in Seq(ExpandedOp) BY <1>5, <2>1, HeadTailProperties
  <2>4. lost \in SUBSET (Targets \cup (Targets \X Shapes))
    <3>1. inside \subseteq Targets BY DEF Contents, CanvasTypes, Targets
    <3>2. Asked(h) \subseteq Targets \cup (Targets \X Shapes) BY <2>2 DEF Asked, ExpandedOp
    <3>3. a.lost \in SUBSET (Targets \cup (Targets \X Shapes)) BY <1>8 DEF Job
    <3>4. lost \subseteq a.lost \cup inside \cup Asked(h) BY <1>3 DEF Becomes
    <3>5. QED BY <3>1, <3>2, <3>3, <3>4
  <2>5. a = [asked |-> a.asked, todo |-> a.todo, atOnce |-> a.atOnce,
             undisturbed |-> a.undisturbed, lost |-> a.lost]
    BY <1>8 DEF Job
  <2>6. b = [asked |-> a.asked, todo |-> Tail(a.todo), atOnce |-> a.atOnce,
             undisturbed |-> a.undisturbed, lost |-> lost]
    BY <1>1, <1>4, <2>5
  <2>7. a.asked \in Batches /\ a.atOnce \in BOOLEAN /\ a.undisturbed \in BOOLEAN BY <1>8 DEF Job
  <2>8. QED BY <2>3, <2>4, <2>6, <2>7 DEF Job
<1>10. /\ jobs' \in Seq(Job) /\ Len(jobs') = Len(jobs) /\ DOMAIN jobs' = DOMAIN jobs
       /\ \A j \in DOMAIN jobs : jobs'[j] = IF j = i THEN b ELSE jobs[j]
  <2>1. /\ jobs' \in Seq(Job) /\ Len(jobs') = Len(jobs)
        /\ \A j \in 1..Len(jobs) : jobs'[j] = IF j = i THEN b ELSE jobs[j]
    BY <1>5, <1>8, <1>9, ExceptSeq
  <2>2. QED BY <1>5, <1>8, <2>1
<1>11. \A j \in DOMAIN jobs : jobs'[j].undisturbed = jobs[j].undisturbed
  BY <1>1, <1>9, <1>10
<1>12. OwnOpsStamped'
  <2>1. jobs' # <<>> => jobs # <<>> BY <1>8, <1>10
  <2>2. QED BY <1>5, <1>10, <1>11, <2>1 DEF OwnOpsStamped
<1>13. MetAreDisturbed' BY <1>10, <1>11 DEF MetAreDisturbed
<1>14. Underway'
  <2> SUFFICES ASSUME NEW j \in DOMAIN jobs', jobs'[j].undisturbed, ~Clears(jobs'[j])
               PROVE  Carried(jobs'[j], shapes', links')
    BY DEF Underway
  <2>1. jobs[j].undisturbed /\ j \in DOMAIN jobs BY <1>10, <1>11
  <2>2. ~(Len(jobs) > 1) BY <2>1 DEF MetAreDisturbed
  <2>3. j = i BY <1>8, <2>1, <2>2
  <2>4. jobs'[j] = b BY <1>10, <2>1, <2>3
  <2>5. ~Clears(b) BY <2>4
  <2>6. ~Clears(a) BY <1>9, <2>5 DEF Clears, Operations
  <2>7. Carried(a, shapes, links) BY <1>1, <2>1, <2>3, <2>6 DEF Underway
  <2>8. Carried(b, shapes', links')
    <3>1. /\ shapes' = (((shapes \cup links) \ gone) \cup new) \cap Shapes
          /\ links' = (((shapes \cup links) \ gone) \cup new) \cap Links
      BY <1>3 DEF Change
    <3>2. inside \in Contents(Head(a.todo)) /\ Becomes(Head(a.todo), inside, a.lost, gone, new, b.lost)
      BY <1>1, <1>3, <1>9
    <3>3. QED BY <1>5, <1>8, <1>9, <2>6, <2>7, <3>1, <3>2, OneDone
  <2>9. QED BY <2>4, <2>8
<1>15. QED BY <1>6, <1>7, <1>10, <1>12, <1>13, <1>14 DEF CanvasTypes

\* Settle.
LEMMA Settled == ASSUME CanvasInv, NEW i \in DOMAIN jobs, Settle(i) PROVE CanvasInv'
<1> USE DEF CanvasInv
<1>1. jobs' = RemoveAt(jobs, i) /\ UNCHANGED <<shapes, links, marking, wires>> BY DEF Settle
<1>2. PICK n : n = Len(jobs) OBVIOUS
<1>3. jobs \in Seq(Job) /\ n \in Nat \ {0} /\ DOMAIN jobs = 1..n BY <1>2 DEF CanvasTypes
<1>4. /\ jobs' \in Seq(Job) /\ Len(jobs') = n - 1
      /\ \A j \in 1..(n - 1) : jobs'[j] = IF j < i THEN jobs[j] ELSE jobs[j + 1]
  BY <1>1, <1>2, <1>3, Shortened
<1>5. DOMAIN jobs' = 1..(n - 1) BY <1>4
<1>6. ASSUME NEW j \in DOMAIN jobs' PROVE n > 1 /\ ~jobs'[j].undisturbed
  <2>1. j \in DOMAIN jobs /\ j + 1 \in DOMAIN jobs /\ n > 1 BY <1>3, <1>5
  <2>2. \A k \in DOMAIN jobs : ~jobs[k].undisturbed BY <1>2, <2>1 DEF MetAreDisturbed
  <2>3. QED BY <1>4, <1>5, <2>1, <2>2
<1>7. MetAreDisturbed' /\ Underway' BY <1>6, AllDisturbed
<1>8. OwnOpsStamped'
  <2>1. jobs' # <<>> => 1 \in DOMAIN jobs' BY <1>4
  <2>2. QED BY <1>6, <2>1 DEF OwnOpsStamped
<1>9. MarkersLive' /\ InStep' /\ OnItsWay'
  BY <1>1 DEF MarkersLive, InStep, CanvasTypes, OnItsWay, marking, wires
<1>10. QED BY <1>1, <1>4, <1>7, <1>8, <1>9 DEF CanvasTypes, marking

\* Touch.
LEMMA Touched == ASSUME CanvasInv, NEW o, Touch(o) PROVE CanvasInv'
<1> USE DEF CanvasInv
<1>1. jobs' = Disturbed(jobs) /\ UNCHANGED <<last, down, up>> BY DEF Touch, Disturbed
<1>2. /\ shapes' \subseteq Shapes /\ links' \subseteq Links /\ current' \in Seq(Listed)
      /\ MarkersLive' /\ (inStep' => inStep /\ current' = current)
  <2>1. PICK inside : ExecOne(o, inside) BY DEF Touch
  <2>2. QED BY <2>1, Executed DEF ExecOne
<1>3. InStep' BY <1>1, <1>2, StillInStep
<1>4. OnItsWay' BY <1>1 DEF CanvasTypes, OnItsWay
<1>5. jobs' \in Seq(Job) /\ \A i \in DOMAIN jobs' : ~jobs'[i].undisturbed
  BY <1>1, Disturbance DEF CanvasTypes
<1>6. MetAreDisturbed' /\ Underway' BY <1>5, AllDisturbed
<1>7. OwnOpsStamped'
  <2>1. jobs' # <<>> => 1 \in DOMAIN jobs' BY <1>5
  <2>2. QED BY <1>5, <2>1 DEF OwnOpsStamped
<1>8. QED BY <1>2, <1>3, <1>4, <1>5, <1>6, <1>7 DEF CanvasTypes

\* DismissIssue.
LEMMA DismissedInPage == ASSUME CanvasInv, DismissIssue PROVE CanvasInv'
<1> USE DEF CanvasInv
<1>1. PICK k : k = popup.at OBVIOUS
<1>2. /\ k \in DOMAIN current /\ up = <<>> /\ up' = <<k>> /\ ShowIssues(RemoveAt(current, k))
      /\ inStep' = (inStep /\ \A i \in DOMAIN down : "issues" \notin DOMAIN down[i])
      /\ UNCHANGED <<drawing, last, down>>
  BY <1>1 DEF DismissIssue
<1>3. OwnOpsStamped' /\ MetAreDisturbed' /\ Underway' BY <1>2, DrawingKept
<1>4. current \in Seq(Listed) /\ k \in Nat BY <1>2 DEF CanvasTypes
<1>5. RemoveAt(current, k) \in Seq(Listed) BY <1>2, <1>4, Shortened
<1>6. current' = RemoveAt(current, k) /\ MarkersLive' BY <1>2, <1>5, MarksShown DEF drawing
<1>7. OnItsWay' BY <1>2, <1>4 DEF CanvasTypes, OnItsWay
<1>8. InStep'
  <2> SUFFICES ASSUME inStep' PROVE InStep' BY DEF InStep
  <2>1. inStep /\ \A i \in DOMAIN down : "issues" \notin DOMAIN down[i] BY <1>2
  <2>2. ~(down # <<>> /\ "issues" \in DOMAIN Head(down))
    <3> SUFFICES ASSUME down # <<>> PROVE "issues" \notin DOMAIN Head(down) OBVIOUS
    <3>1. down \in Seq(Messages) BY DEF CanvasTypes, OnItsWay
    <3>2. 1 \in DOMAIN down /\ Head(down) = down[1] BY <3>1
    <3>3. QED BY <2>1, <3>2
  <2>3. current = last BY <1>2, <2>1, <2>2 DEF InStep
  <2>4. up' # <<>> /\ Head(up') = k BY <1>2
  <2>5. QED BY <1>2, <1>6, <2>2, <2>3, <2>4 DEF InStep
<1>9. QED BY <1>2, <1>3, <1>5, <1>6, <1>7, <1>8 DEF CanvasTypes, drawing

\* DismissAtServer.
LEMMA DismissedThere == ASSUME CanvasInv, DismissAtServer PROVE CanvasInv'
<1> USE DEF CanvasInv
<1>1. /\ up # <<>> /\ up' = Tail(up) /\ UNCHANGED <<drawing, marking, down, inStep>>
      /\ last' = IF Head(up) \in DOMAIN last THEN RemoveAt(last, Head(up)) ELSE last
  BY DEF DismissAtServer
<1>2. OwnOpsStamped' /\ MetAreDisturbed' /\ Underway' BY <1>1, DrawingKept
<1>3. MarkersLive' BY <1>1 DEF MarkersLive, drawing, marking
<1>4. up' = <<>>
  <2>1. up \in Seq(Nat) /\ Len(up) <= 1 BY DEF CanvasTypes, OnItsWay
  <2>2. PICK t, n : t = Tail(up) /\ n = Len(up) OBVIOUS
  <2>3. n \in Nat /\ n # 0 BY <1>1, <2>1, <2>2, EmptySeq
  <2>4. t \in Seq(Nat) /\ Len(t) = n - 1 BY <1>1, <2>1, <2>2, HeadTailProperties
  <2>5. Len(t) = 0 BY <2>1, <2>2, <2>3, <2>4
  <2>6. t = <<>> BY <2>4, <2>5, EmptySeq
  <2>7. QED BY <1>1, <2>2, <2>6
<1>5. OnItsWay' BY <1>1, <1>4 DEF CanvasTypes, OnItsWay
<1>6. InStep' BY <1>1, <1>4 DEF InStep, marking
<1>7. QED BY <1>1, <1>2, <1>3, <1>5, <1>6 DEF CanvasTypes, drawing, marking

\* OpenBadge, CloseBadge, and steps that leave the canvas alone.
LEMMA LookedAt ==
    ASSUME CanvasInv, UNCHANGED <<drawing, current, badges, wires>>
    PROVE  CanvasInv'
<1> USE DEF CanvasInv
<1>1. OwnOpsStamped' /\ MetAreDisturbed' /\ Underway' BY DrawingKept
<1>2. CanvasTypes' /\ MarkersLive' /\ InStep'
  BY DEF CanvasTypes, OnItsWay, MarkersLive, InStep, drawing, wires
<1>3. QED BY <1>1, <1>2

\* Every step of the page and of the server preserves the invariant.
LEMMA CanvasStep == ASSUME CanvasInv, [CanvasNext]_canvasVars PROVE CanvasInv'
<1>1. ASSUME NEW issues \in Reports,
             NEW sent \in {<<>>} \cup {<<[ops |-> raw]>> : raw \in Batches}, Answer(issues, sent)
      PROVE  CanvasInv'
  BY <1>1, Answered
<1>2. CASE ReceiveIssues BY <1>2, IssuesReceived
<1>3. ASSUME NEW cursor \in BOOLEAN, ReceiveOps(cursor) PROVE CanvasInv' BY <1>3, OpsReceived
<1>4. ASSUME NEW i \in DOMAIN jobs, RunTimer(i) \/ Settle(i) PROVE CanvasInv'
  BY <1>4, TimerRun, Settled
<1>5. ASSUME NEW o, Touch(o) PROVE CanvasInv' BY <1>5, Touched
<1>6. ASSUME NEW b, OpenBadge(b) PROVE CanvasInv' BY <1>6, LookedAt DEF OpenBadge
<1>7. CASE CloseBadge BY <1>7, LookedAt DEF CloseBadge
<1>8. CASE DismissIssue BY <1>8, DismissedInPage
<1>9. CASE DismissAtServer BY <1>9, DismissedThere
<1>10. CASE UNCHANGED canvasVars BY <1>10, LookedAt DEF canvasVars, marking
<1>11. QED BY <1>1, <1>2, <1>3, <1>4, <1>5, <1>6, <1>7, <1>8, <1>9, <1>10 DEF CanvasNext

\* The canvas, the batches under way and the messages go together as CanvasInv
\* says, in every state.
THEOREM CanvasHolds == CanvasSpec => []CanvasInv
BY CanvasBegins, CanvasStep, PTL DEF CanvasSpec

\* Every marker is on an element that exists and belongs to an issue that is still
\* listed: whoever removes or relabels, the listeners of task.js clear both.
THEOREM MarkersStayLive == CanvasSpec => []MarkersLive
<1>1. CanvasInv => MarkersLive BY DEF CanvasInv
<1>2. QED BY <1>1, CanvasHolds, PTL

\* The operations of a batch that no other one meets are recorded as the tutor's:
\* only a batch that meets another can run on after window._aiIsModeling has fallen.
THEOREM FlagCoversBatch == CanvasSpec => []OwnOpsStamped
<1>1. CanvasInv => OwnOpsStamped BY DEF CanvasInv
<1>2. QED BY <1>1, CanvasHolds, PTL

\* The page and the session list the same issues whenever nothing is on its way:
\* an index means the same issue on both sides (dismissIssue, handle_dismiss_issue).
THEOREM SameIssues == CanvasSpec => []DismissedAlike
<1>1. CanvasInv => DismissedAlike BY DEF CanvasInv, InStep, DismissedAlike
<1>2. QED BY <1>1, CanvasHolds, PTL

\* An undisturbed batch leaves behind the shapes and flows it asks for, in whatever
\* order and form the tutor names them, save what it deletes, what goes along with a
\* pool it removes, and what fails or is refused (executeBpmnOps, execOne).
THEOREM BatchesBuild == CanvasSpec => []BatchBuilt
<1>1. CanvasInv => BatchBuilt
  <2> SUFFICES ASSUME CanvasInv, NEW i \in DOMAIN jobs,
                      jobs[i].undisturbed, jobs[i].todo = <<>>, ~Clears(jobs[i])
               PROVE  Built(jobs[i])
    BY DEF BatchBuilt
  <2>1. PICK a : a = jobs[i] OBVIOUS
  <2>2. Carried(a, shapes, links) BY <2>1 DEF CanvasInv, Underway
  <2>3. ToSet(a.todo) = {}
    <3>1. a.todo = <<>> BY <2>1
    <3>2. QED BY <3>1 DEF ToSet
  <2>4. \A o \in Operations(a) : LeftBehind(a, o, shapes, links) BY <2>2, <2>3 DEF Carried
  <2>5. Drawn(a) \subseteq shapes BY <2>4 DEF Drawn, LeftBehind
  <2>6. Connected(a) \subseteq links BY <2>4 DEF Connected, LeftBehind
  <2>7. QED BY <2>1, <2>5, <2>6 DEF Built
<1>2. QED BY <1>1, CanvasHolds, PTL

-----------------------------------------------------------------------------
(* Replies *)

\* An issue as the parser passes it on (_normalize_issue), and a list that has one
\* for each element (_dedupe_issues).
Found == [el : STRING, severity : {"syntax", "semantic", "info"}]
OnePerElement(best) == \A i, j \in DOMAIN best : best[i].el = best[j].el => i = j

\* Severities are ranked by numbers, whatever word the model has used for them.
LEMMA Ranks ==
    /\ \A s \in {"syntax", "semantic", "info"} : Rank(s) \in Nat
    /\ \A e \in RawIssue : Normalised(e) \in Found
                           /\ Normalised(e).el = e.el /\ Normalised(e).severity = Normal(e.severity)
<1>1. \A s \in {"syntax", "semantic", "info"} : Rank(s) \in Nat BY DEF Rank
<1>2. ASSUME NEW e \in RawIssue PROVE Normal(e.severity) \in {"syntax", "semantic", "info"}
  BY DEF Normal
<1>3. QED BY <1>1, <1>2 DEF Normalised, Found, RawIssue

\* A list after one more issue: no issue of it has become less severe, and a new
\* place is for an element that had none.
Improved(best, issue, k) ==
    /\ \E i \in DOMAIN k : k[i].el = issue.el
    /\ \A i \in DOMAIN k : k[i].el = issue.el => Rank(k[i].severity) <= Rank(issue.severity)
    /\ \A i \in DOMAIN best : /\ i \in DOMAIN k /\ k[i].el = best[i].el
                              /\ Rank(k[i].severity) <= Rank(best[i].severity)
    /\ \A i \in DOMAIN k : i \in DOMAIN best
                           \/ (k[i] = issue /\ \A j \in DOMAIN best : best[j].el # issue.el)

\* One more issue, the list having one of each element: it takes the place of the
\* one of its element when it is more severe.
LEMMA OneMore ==
    ASSUME NEW best \in Seq(Found), OnePerElement(best), NEW issue \in Found,
           NEW k, k = KeptOne(best, issue)
    PROVE  k \in Seq(Found) /\ OnePerElement(k) /\ Improved(best, issue, k)
<1> USE DEF Improved
<1>1. PICK n : n = Len(best) OBVIOUS
<1>2. n \in Nat /\ DOMAIN best = 1..n /\ \A i \in 1..n : best[i] \in Found BY <1>1
<1>3. \A x \in Found : Rank(x.severity) \in Nat BY Ranks DEF Found
<1>4. PICK at : at = {i \in DOMAIN best : best[i].el = issue.el} OBVIOUS
<1>5. CASE at = {}
  <2>1. k = Append(best, issue) BY <1>4, <1>5 DEF KeptOne
  <2>2. /\ k \in Seq(Found) /\ Len(k) = n + 1 /\ k[n + 1] = issue
        /\ \A i \in 1..n : k[i] = best[i]
    BY <1>1, <2>1, AppendProperties
  <2>3. DOMAIN k = 1..(n + 1) BY <2>2, LenProperties
  <2>4. \A i \in 1..n : best[i].el # issue.el BY <1>2, <1>4, <1>5
  <2>5. \A i \in 1..(n + 1) : i \in 1..n \/ i = n + 1 BY <1>2
  <2>6. n + 1 \in 1..(n + 1) /\ \A i \in 1..n : i \in 1..(n + 1) BY <1>2
  <2>7. OnePerElement(k)
    <3> SUFFICES ASSUME NEW i \in 1..(n + 1), NEW j \in 1..(n + 1), k[i].el = k[j].el PROVE i = j
      BY <2>3 DEF OnePerElement
    <3>1. CASE i \in 1..n /\ j \in 1..n BY <1>2, <2>2, <3>1 DEF OnePerElement
    <3>2. CASE i \in 1..n /\ j = n + 1 BY <2>2, <2>4, <3>2
    <3>3. CASE i = n + 1 /\ j \in 1..n BY <2>2, <2>4, <3>3
    <3>4. QED BY <2>5, <3>1, <3>2, <3>3
  <2>8. \E i \in DOMAIN k : k[i].el = issue.el BY <2>2, <2>3, <2>6
  <2>9. ASSUME NEW i \in DOMAIN k, k[i].el = issue.el
        PROVE  Rank(k[i].severity) <= Rank(issue.severity)
    <3>1. k[i] = issue BY <2>2, <2>3, <2>4, <2>5, <2>9
    <3>2. QED BY <1>3, <3>1
  <2>10. ASSUME NEW i \in DOMAIN best
         PROVE  /\ i \in DOMAIN k /\ k[i].el = best[i].el
                /\ Rank(k[i].severity) <= Rank(best[i].severity)
    <3>1. i \in DOMAIN k /\ k[i] = best[i] BY <1>2, <2>2, <2>3, <2>6
    <3>2. QED BY <1>2, <1>3, <3>1
  <2>11. \A i \in DOMAIN k : i \in DOMAIN best
                             \/ (k[i] = issue /\ \A j \in DOMAIN best : best[j].el # issue.el)
    BY <1>2, <2>2, <2>3, <2>4, <2>5
  <2>12. QED BY <2>2, <2>7, <2>8, <2>9, <2>10, <2>11
<1>6. CASE at # {}
  <2>1. k = [i \in DOMAIN best |->
               IF i \in at /\ Rank(issue.severity) < Rank(best[i].severity) THEN issue ELSE best[i]]
    BY <1>4, <1>6 DEF KeptOne
  <2>2. DOMAIN k = 1..n /\ \A i \in 1..n : k[i] \in Found BY <1>2, <2>1
  <2>3. k \in Seq(Found)
    <3>1. k \in [1..n -> Found] BY <1>2, <2>1
    <3>2. QED BY <1>2, <3>1, SeqDef
  <2>4. ASSUME NEW i \in 1..n
        PROVE  /\ k[i].el = best[i].el
               /\ Rank(k[i].severity) <= Rank(best[i].severity)
               /\ best[i].el = issue.el => Rank(k[i].severity) <= Rank(issue.severity)
    <3>1. PICK r, s : r = Rank(issue.severity) /\ s = Rank(best[i].severity) OBVIOUS
    <3>2. r \in Nat /\ s \in Nat BY <1>2, <1>3, <3>1
    <3>3. CASE i \in at /\ r < s
      <4>1. k[i] = issue /\ best[i].el = issue.el BY <1>2, <1>4, <2>1, <3>1, <3>3
      <4>2. QED BY <3>1, <3>2, <3>3, <4>1
    <3>4. CASE ~(i \in at /\ r < s)
      <4>1. k[i] = best[i] BY <1>2, <2>1, <3>1, <3>4
      <4>2. best[i].el = issue.el => i \in at BY <1>2, <1>4
      <4>3. QED BY <3>1, <3>2, <3>4, <4>1, <4>2
    <3>5. QED BY <3>3, <3>4
  <2>5. OnePerElement(k) BY <1>2, <2>2, <2>4 DEF OnePerElement
  <2>6. \E i \in DOMAIN k : k[i].el = issue.el
    <3>1. PICK i \in at : TRUE BY <1>6
    <3>2. QED BY <1>2, <1>4, <2>2, <2>4, <3>1
  <2>7. ASSUME NEW i \in DOMAIN k, k[i].el = issue.el
        PROVE  Rank(k[i].severity) <= Rank(issue.severity)
    BY <2>2, <2>4, <2>7
  <2>8. \A i \in DOMAIN best : /\ i \in DOMAIN k /\ k[i].el = best[i].el
                               /\ Rank(k[i].severity) <= Rank(best[i].severity)
    BY <1>2, <2>2, <2>4
  <2>9. \A i \in DOMAIN k : i \in DOMAIN best BY <1>2, <2>2
  <2>10. QED BY <2>3, <2>5, <2>6, <2>7, <2>8, <2>9
<1>7. QED BY <1>5, <1>6

\* parse_issues: of each element one issue, and the most severe that was named.
LEMMA IssuesParsed ==
    ASSUME NEW raw \in Seq(RawIssue), NEW r, r = ParseIssues(raw)
    PROVE  /\ OnePerElement(r)
           /\ \A i \in DOMAIN r : \A e \in ToSet(raw) :
                 Usable(e) /\ e.el = r[i].el => Rank(r[i].severity) <= Rank(Normal(e.severity))
<1> DEFINE N == Len(raw)
           Next1(best, n) == IF Usable(raw[n]) THEN KeptOne(best, Normalised(raw[n])) ELSE best
           One1 == {best \in Seq(Found) : OnePerElement(best)}
           g == [n \in 1..N |-> [best \in One1 |-> Next1(best, n)]]
           F(f) == [n \in 0..N |->
                      IF n = 0 THEN <<>>
                      ELSE IF Usable(raw[n]) THEN KeptOne(f[n - 1], Normalised(raw[n])) ELSE f[n - 1]]
<1>1. N \in Nat /\ DOMAIN raw = 1..N /\ \A n \in 1..N : raw[n] \in RawIssue OBVIOUS
<1>2. ASSUME NEW n \in 1..N, NEW best \in One1 PROVE Next1(best, n) \in One1
  <2>1. Normalised(raw[n]) \in Found BY <1>1, Ranks
  <2>2. PICK k : k = KeptOne(best, Normalised(raw[n])) OBVIOUS
  <2>3. k \in Seq(Found) /\ OnePerElement(k) BY <2>1, <2>2, OneMore
  <2>4. QED BY <2>2, <2>3
<1>3. PICK f0 \in [0..N -> One1] :
         f0[0] = <<>> /\ \A n \in 1..N : f0[n] = Next1(f0[n - 1], n)
  <2>1. PICK T, b, M, s : T = One1 /\ b = <<>> /\ M = N /\ s = g OBVIOUS
  <2>2. <<>> \in One1 BY DEF OnePerElement
  <2>3. g \in [1..N -> [One1 -> One1]]
    <3> HIDE DEF One1, Next1
    <3>1. QED BY <1>2
  <2>4. M \in Nat /\ b \in T /\ s \in Steps(M, T)
    <3> HIDE DEF g, N, One1
    <3>1. QED BY <1>1, <2>1, <2>2, <2>3 DEF Steps
  <2>5. \E h : Results(M, T, b, s, h) BY <2>4, GoneThrough
  <2>6. PICK h \in [0..N -> One1] : h[0] = <<>> /\ \A n \in 1..N : h[n] = g[n][h[n - 1]]
    <3> HIDE DEF g, N, One1
    <3>1. QED BY <2>1, <2>5 DEF Results
  <2>7. ASSUME NEW n \in 1..N PROVE h[n] = Next1(h[n - 1], n)
    <3>1. n - 1 \in 0..N BY <1>1
    <3> HIDE DEF One1, Next1
    <3>2. h[n - 1] \in One1 BY <2>6, <3>1
    <3>3. QED BY <2>6, <3>2
  <2> HIDE DEF One1, Next1, g, N
  <2>8. QED BY <2>6, <2>7
<1>4. f0 = F(f0)
  <2>1. \A n \in 0..N : n # 0 => n \in 1..N BY <1>1
  <2>2. QED BY <1>3, <2>1
<1>5. PICK f : f = CHOOSE h : h = F(h) OBVIOUS
<1>6. f = F(f)
  <2> HIDE DEF F
  <2>1. QED BY <1>4, <1>5
<1>7. r = f[N] BY <1>5 DEF ParseIssues
<1>8. f[0] = <<>> /\ \A n \in 1..N : f[n] = Next1(f[n - 1], n)
  <2>1. 0 \in 0..N /\ \A n \in 1..N : n \in 0..N /\ n # 0 BY <1>1
  <2>2. QED BY <1>6, <2>1
<1> DEFINE Named1(n, best) ==
               \A m \in 1..n : Usable(raw[m]) => \E i \in DOMAIN best : best[i].el = raw[m].el
           Severe(n, best) ==
               \A i \in DOMAIN best : \A m \in 1..n :
                  Usable(raw[m]) /\ raw[m].el = best[i].el
                    => Rank(best[i].severity) <= Rank(Normal(raw[m].severity))
           Good(n, best) ==
               best \in Seq(Found) /\ OnePerElement(best) /\ Named1(n, best) /\ Severe(n, best)
           P == {n \in 0..N : Good(n, f[n])}
<1>9. 0 \in P
  <2>1. f[0] = <<>> /\ 0 \in 0..N BY <1>1, <1>8
  <2>2. OnePerElement(<<>>) BY DEF OnePerElement
  <2>3. Named1(0, <<>>) /\ Severe(0, <<>>) OBVIOUS
  <2>4. <<>> \in Seq(Found) OBVIOUS
  <2>5. Good(0, <<>>) BY <2>2, <2>3, <2>4
  <2> HIDE DEF Good
  <2>6. QED BY <2>1, <2>5
<1>10. ASSUME NEW n \in 1..N, n - 1 \in P PROVE n \in P
  <2>1. PICK t, u, e : t = f[n - 1] /\ u = f[n] /\ e = raw[n] OBVIOUS
  <2>2. t \in Seq(Found) /\ OnePerElement(t) /\ Named1(n - 1, t) /\ Severe(n - 1, t)
    <3>1. Good(n - 1, t)
      <4> HIDE DEF Good
      <4>1. QED BY <1>10, <2>1
    <3> HIDE DEF Named1, Severe
    <3>2. QED BY <3>1
  <2>3. n \in 0..N /\ e \in RawIssue /\ \A m \in 1..n : m = n \/ m \in 1..(n - 1) BY <1>1, <2>1
  <2>4. CASE ~Usable(e)
    <3>1. u = t BY <1>8, <2>1, <2>4
    <3>2. Named1(n, u) BY <2>1, <2>2, <2>3, <2>4, <3>1
    <3>3. Severe(n, u) BY <2>1, <2>2, <2>3, <2>4, <3>1
    <3>4. Good(n, u)
      <4> HIDE DEF Named1, Severe
      <4>1. QED BY <2>2, <3>1, <3>2, <3>3
    <3> HIDE DEF Good
    <3>5. QED BY <2>1, <2>3, <3>4
  <2>5. CASE Usable(e)
    <3>1. PICK issue : issue = Normalised(e) OBVIOUS
    <3>2. issue \in Found /\ issue.el = e.el /\ issue.severity = Normal(e.severity)
      BY <2>3, <3>1, Ranks
    <3>3. u = KeptOne(t, issue) BY <1>8, <2>1, <2>5, <3>1
    <3>4. /\ u \in Seq(Found) /\ OnePerElement(u)
          /\ \E i \in DOMAIN u : u[i].el = issue.el
          /\ \A i \in DOMAIN u : u[i].el = issue.el => Rank(u[i].severity) <= Rank(issue.severity)
          /\ \A i \in DOMAIN t : /\ i \in DOMAIN u /\ u[i].el = t[i].el
                                 /\ Rank(u[i].severity) <= Rank(t[i].severity)
          /\ \A i \in DOMAIN u : i \in DOMAIN t
                                 \/ (u[i] = issue /\ \A j \in DOMAIN t : t[j].el # issue.el)
      <4> HIDE DEF Named1, Severe
      <4>1. t \in Seq(Found) /\ OnePerElement(t) BY <2>2
      <4>2. u \in Seq(Found) /\ OnePerElement(u) /\ Improved(t, issue, u)
        BY <3>2, <3>3, <4>1, OneMore
      <4>3. QED BY <4>2 DEF Improved
    <3>5. Named1(n, u)
      <4> SUFFICES ASSUME NEW m \in 1..n, Usable(raw[m])
                   PROVE  \E i \in DOMAIN u : u[i].el = raw[m].el
        OBVIOUS
      <4>1. CASE m = n BY <2>1, <3>2, <3>4, <4>1
      <4>2. CASE m \in 1..(n - 1)
        <5>1. PICK i \in DOMAIN t : t[i].el = raw[m].el BY <2>2, <4>2
        <5>2. QED BY <3>4, <5>1
      <4>3. QED BY <2>3, <4>1, <4>2
    <3>6. Severe(n, u)
      <4> SUFFICES ASSUME NEW i \in DOMAIN u, NEW m \in 1..n, Usable(raw[m]), raw[m].el = u[i].el
                   PROVE  Rank(u[i].severity) <= Rank(Normal(raw[m].severity))
        OBVIOUS
      <4>1. CASE m = n BY <2>1, <3>2, <3>4, <4>1
      <4>2. CASE m \in 1..(n - 1)
        <5>1. i \in DOMAIN t
          <6>1. PICK j \in DOMAIN t : t[j].el = raw[m].el BY <2>2, <4>2
          <6>2. QED BY <3>4, <6>1
        <5>2. u[i].el = t[i].el /\ Rank(u[i].severity) <= Rank(t[i].severity) BY <3>4, <5>1
        <5>3. Rank(t[i].severity) <= Rank(Normal(raw[m].severity)) BY <2>2, <4>2, <5>1, <5>2
        <5>4. PICK a, b, c : a = Rank(u[i].severity) /\ b = Rank(t[i].severity)
                             /\ c = Rank(Normal(raw[m].severity))
          OBVIOUS
        <5>5. a \in Nat /\ b \in Nat /\ c \in Nat
          <6>1. \A x \in Found : Rank(x.severity) \in Nat BY Ranks DEF Found
          <6>2. u[i] \in Found /\ t[i] \in Found BY <2>2, <3>4, <5>1
          <6>3. raw[m] \in RawIssue BY <1>1, <4>2
          <6>4. Normal(raw[m].severity) \in {"syntax", "semantic", "info"} BY DEF Normal
          <6>5. QED BY <5>4, <6>1, <6>2, <6>4, Ranks
        <5>6. a <= b /\ b <= c BY <5>2, <5>3, <5>4
        <5>7. a <= c BY <5>5, <5>6
        <5>8. QED BY <5>4, <5>7
      <4>3. QED BY <2>3, <4>1, <4>2
    <3>7. Good(n, u)
      <4> HIDE DEF Named1, Severe
      <4>1. QED BY <3>4, <3>5, <3>6
    <3> HIDE DEF Good
    <3>8. QED BY <2>1, <2>3, <3>7
  <2>6. QED BY <2>4, <2>5
<1>11. N \in P
  <2>1. N \in 0..N BY <1>1
  <2> HIDE DEF P, N
  <2>2. QED BY <1>1, <1>9, <1>10, <2>1, UpTo
<1>12. OnePerElement(r) /\ Severe(N, r)
  <2> HIDE DEF Severe, Named1
  <2>1. QED BY <1>7, <1>11
<1>13. ASSUME NEW i \in DOMAIN r, NEW e \in ToSet(raw), Usable(e), e.el = r[i].el
       PROVE  Rank(r[i].severity) <= Rank(Normal(e.severity))
  <2>1. PICK m \in 1..N : e = raw[m] BY <1>1 DEF ToSet
  <2>2. QED BY <1>12, <1>13, <2>1
<1>14. QED BY <1>12, <1>13

\* preprocess swallows no field that it knows as a delimiter.
LEMMA DelimitersKept ==
    ASSUME NEW lines \in Seq(Line), "phase" \in Parsed(lines)
    PROVE  Named(lines) \ {"bpmn_ops"} \subseteq Parsed(lines)
<1>1. ASSUME NEW i \in DOMAIN lines, lines[i].key \in Delimiters PROVE lines[i].key \in Parsed(lines)
  <2>1. i \in Nat BY LenProperties
  <2>2. i \notin Swallowed(lines)
    <3> SUFFICES ASSUME NEW j \in 1..(i - 1), \A k \in (j + 1)..i : lines[k].key \notin Delimiters
                 PROVE  FALSE
      BY DEF Swallowed
    <3>1. i \in (j + 1)..i BY <2>1
    <3>2. QED BY <1>1, <3>1
  <2>3. i \in Kept(lines) BY <2>2 DEF Kept
  <2>4. Parsed(lines) = {lines[k].key : k \in Kept(lines)} BY DEF Parsed
  <2>5. QED BY <2>3, <2>4
<1>2. ASSUME NEW x \in Named(lines) \ {"bpmn_ops"}
      PROVE  \E i \in DOMAIN lines : x = lines[i].key /\ x \in Delimiters
  <2>1. PICK i \in DOMAIN lines : x = lines[i].key /\ x \notin {""} BY DEF Named
  <2>2. lines[i] \in Line BY LenProperties, ElementOfSeq
  <2>3. x \in Delimiters BY <2>1, <2>2 DEF Line, Delimiters, ScalarKeys
  <2>4. QED BY <2>1, <2>3
<1>3. QED BY <1>1, <1>2

\* A reply is what has been made of an answer; what is counted and logged is what
\* was answered.
RepliesTypes ==
    /\ tokens \in Nat /\ log \in Seq(Kinds)
    /\ served \in [all : Nat, usage : Nat, written : Nat]
    /\ request = None \/ request.kind \in Kinds
\* A reply that is served is one of the answers, as it is parsed.
RepliesInv ==
    /\ RepliesTypes
    /\ AnswersCounted
    /\ outcome.kind = "reply" => \E a \in Answers : outcome = Structured(a)

\* No request has been made at first.
LEMMA RepliesBegin == RepliesInit => RepliesInv
BY DEF RepliesInit, RepliesInv, RepliesTypes, AnswersCounted, None

\* What is served is recorded.
LEMMA Recorded ==
    ASSUME RepliesTypes, AnswersCounted, request.kind \in Kinds,
           NEW usage \in BOOLEAN, NEW written \in BOOLEAN,
           Serve(usage, written), Record(usage, written)
    PROVE  /\ tokens' \in Nat /\ log' \in Seq(Kinds)
           /\ served' \in [all : Nat, usage : Nat, written : Nat]
           /\ AnswersCounted'
<1> USE DEF RepliesTypes
<1>1. PICK a, u, w : a = One(usage) /\ u = One(written) /\ w = served OBVIOUS
<1>2. a \in Nat /\ u \in Nat /\ (written => u = 1) /\ (~written => u = 0) BY <1>1 DEF One
<1>3. /\ w.all \in Nat /\ w.usage \in Nat /\ w.written \in Nat
      /\ served' = [all |-> w.all + 1, usage |-> w.usage + a, written |-> w.written + u]
  BY <1>1 DEF Serve
<1>4. tokens' = tokens + a BY <1>1 DEF Record
<1>5. log' \in Seq(Kinds) /\ Len(log') = Len(log) + u
  <2>1. CASE written
    <3>1. log' = Append(log, request.kind) BY <2>1 DEF Record
    <3>2. QED BY <1>2, <2>1, <3>1, AppendProperties
  <2>2. CASE ~written
    <3>1. log' = log BY <2>2 DEF Record
    <3>2. Len(log) \in Nat OBVIOUS
    <3>3. QED BY <1>2, <2>2, <3>1, <3>2
  <2>3. QED BY <2>1, <2>2
<1>6. tokens = w.usage /\ Len(log) = w.written BY <1>1 DEF AnswersCounted
<1>7. tokens' = served'.usage /\ Len(log') = served'.written BY <1>3, <1>4, <1>5, <1>6
<1>8. tokens' \in Nat BY <1>2, <1>4
<1>9. served' \in [all : Nat, usage : Nat, written : Nat] BY <1>2, <1>3
<1>10. QED BY <1>5, <1>7, <1>8, <1>9 DEF AnswersCounted

\* Every step of the service preserves the invariant.
LEMMA RepliesStep == ASSUME RepliesInv, [RepliesNext]_repliesVars PROVE RepliesInv'
<1> USE DEF RepliesInv
<1>1. ASSUME NEW kind \in Kinds, Ask(kind) PROVE RepliesInv'
  BY <1>1 DEF Ask, RepliesTypes, AnswersCounted, None
<1>2. ASSUME NEW answer \in Answers, NEW usage \in BOOLEAN, NEW written \in BOOLEAN,
             MentorAnswered(answer, usage, written)
      PROVE  RepliesInv'
  <2>1. request.kind = "mentor" /\ Serve(usage, written) /\ Record(usage, written)
    BY <1>2 DEF MentorAnswered
  <2>2. /\ tokens' \in Nat /\ log' \in Seq(Kinds)
        /\ served' \in [all : Nat, usage : Nat, written : Nat]
        /\ AnswersCounted'
    BY <2>1, Recorded DEF Kinds
  <2>3. CASE Accepted(answer) \/ request.attempt = 2
    <3>1. request' = None /\ outcome' = Structured(answer) BY <1>2, <2>3 DEF MentorAnswered, Finish
    <3>2. QED BY <2>2, <3>1 DEF RepliesTypes
  <2>4. CASE ~(Accepted(answer) \/ request.attempt = 2)
    <3>1. request' = [request EXCEPT !.attempt = 2] /\ outcome' = outcome
      BY <1>2, <2>4 DEF MentorAnswered
    <3>2. request' = None \/ request'.kind \in Kinds BY <3>1 DEF RepliesTypes, None
    <3>3. QED BY <2>2, <3>1, <3>2 DEF RepliesTypes
  <2>5. QED BY <2>3, <2>4
<1>3. ASSUME NEW answer \in Answers, NEW usage \in BOOLEAN, NEW written \in BOOLEAN,
             Greeted(answer, usage, written)
      PROVE  RepliesInv'
  <2>1. request.kind = "greeting" /\ Serve(usage, written) /\ Record(usage, written)
        /\ request' = None /\ outcome'.kind = "greeting"
    BY <1>3 DEF Greeted, Finish
  <2>2. /\ tokens' \in Nat /\ log' \in Seq(Kinds)
        /\ served' \in [all : Nat, usage : Nat, written : Nat]
        /\ AnswersCounted'
    BY <2>1, Recorded DEF Kinds
  <2>3. QED BY <2>1, <2>2 DEF RepliesTypes
<1>4. ASSUME request' = None, outcome'.kind # "reply", UNCHANGED <<tokens, log, served>>
      PROVE  RepliesInv'
  BY <1>4 DEF RepliesTypes, AnswersCounted
<1>5. ASSUME NEW valid \in BOOLEAN, Graded(valid) PROVE RepliesInv' BY <1>4, <1>5 DEF Graded, Finish
<1>6. CASE ServiceFails BY <1>4, <1>6 DEF ServiceFails, Finish
<1>7. CASE Unreadable BY <1>4, <1>7 DEF Unreadable, Finish
<1>8. CASE UNCHANGED repliesVars BY <1>8 DEF repliesVars, RepliesTypes, AnswersCounted
<1>9. QED BY <1>1, <1>2, <1>3, <1>5, <1>6, <1>7, <1>8 DEF RepliesNext

\* What is counted and logged is what was answered, and every reply is made of an
\* answer, in every state.
THEOREM RepliesHold == RepliesSpec => []RepliesInv
BY RepliesBegin, RepliesStep, PTL DEF RepliesSpec

\* Every answer that says what it cost is counted and every one that could be logged
\* is in the log, the first of two as well (get_mentor_response).
THEOREM EveryAnswerCounted == RepliesSpec => []AnswersCounted
<1>1. RepliesInv => AnswersCounted BY DEF RepliesInv
<1>2. QED BY <1>1, RepliesHold, PTL

\* Whatever the service answers: every named field but bpmn_ops reaches the page
\* when a phase does, and of the issues of an element the most severe (preprocess,
\* parse_issues).
THEOREM RepliesKept == RepliesSpec => []ReplyKept
<1>1. RepliesInv => ReplyKept
  <2> SUFFICES ASSUME RepliesInv, outcome.kind = "reply" PROVE FieldsKept /\ OneOfEach /\ MostSevere
    BY DEF ReplyKept
  <2>1. PICK a \in Answers : outcome = Structured(a) BY DEF RepliesInv
  <2>2. PICK o : o = outcome OBVIOUS
  <2>3. o.answer = a BY <2>1, <2>2 DEF Structured
  <2>4. a.lines \in Seq(Line) /\ a.issues \in Seq(RawIssue) BY RepliesAssumption
  <2>5. FieldsKept
    <3> SUFFICES ASSUME "phase" \in Parsed(a.lines)
                 PROVE  Named(a.lines) \ {"bpmn_ops"} \subseteq o.fields
      BY <2>2, <2>3 DEF FieldsKept
    <3>1. o.fields = Parsed(a.lines) \cup {"message"} BY <2>1, <2>2 DEF Structured
    <3>2. QED BY <2>4, <3>1, DelimitersKept
  <2>6. PICK r : r = ParseIssues(a.issues) OBVIOUS
  <2>7. o.issues = <<>> \/ o.issues = r BY <2>1, <2>2, <2>6 DEF Structured
  <2>8. OnePerElement(r)
        /\ \A i \in DOMAIN r : \A e \in ToSet(a.issues) :
              Usable(e) /\ e.el = r[i].el => Rank(r[i].severity) <= Rank(Normal(e.severity))
    BY <2>4, <2>6, IssuesParsed
  <2>9. OneOfEach BY <2>2, <2>7, <2>8 DEF OneOfEach, OnePerElement
  <2>10. MostSevere BY <2>2, <2>3, <2>7, <2>8 DEF MostSevere
  <2>11. QED BY <2>5, <2>9, <2>10
<1>2. QED BY <1>1, RepliesHold, PTL

-----------------------------------------------------------------------------
(* Diagram and validator *)

\* A flow from x to y that the extractor keeps; a walk of k elements inside S; a set
\* no flow leaves.
Flow(x, y) == \E f \in OwnFlows : f.src = x /\ f.tgt = y
Walk(p, k, a, b, S) ==
    /\ p \in [1..k -> S] /\ p[1] = a /\ p[k] = b
    /\ \A i \in 1..(k - 1) : Flow(p[i], p[i + 1])
Closed(U) == \A x \in U : \A y : Flow(x, y) => y \in U

\* A walk that is at one element twice can be cut short.
LEMMA CutShort ==
    ASSUME NEW S, NEW a, NEW b, NEW k \in Nat \ {0}, NEW p, Walk(p, k, a, b, S),
           NEW i \in 1..k, NEW j \in 1..k, i < j, p[i] = p[j]
    PROVE  k - (j - i) \in Nat \ {0} /\ \E q : Walk(q, k - (j - i), a, b, S)
<1>1. PICK d, l : d = j - i /\ l = k - d OBVIOUS
<1>2. d \in Nat \ {0} /\ l \in Nat \ {0} /\ l < k /\ i <= l /\ l + d = k /\ i + d = j BY <1>1
<1> DEFINE q == [x \in 1..l |-> IF x <= i THEN p[x] ELSE p[x + d]]
<1>3. p \in [1..k -> S] /\ p[1] = a /\ p[k] = b BY DEF Walk
<1>4. \A x \in 1..l : x \in 1..k /\ x + d \in 1..k BY <1>2
<1>5. q \in [1..l -> S] BY <1>3, <1>4
<1>6. 1 \in 1..l /\ l \in 1..l /\ 1 <= i BY <1>2
<1>7. q[1] = a BY <1>3, <1>6
<1>8. q[l] = b
  <2>1. CASE l <= i
    <3>1. l = i /\ j = k BY <1>2, <2>1
    <3>2. q[l] = p[i] BY <1>6, <2>1, <3>1
    <3>3. QED BY <1>3, <3>1, <3>2
  <2>2. CASE ~(l <= i) BY <1>2, <1>3, <1>6, <2>2
  <2>3. QED BY <2>1, <2>2
<1>9. ASSUME NEW x \in 1..(l - 1) PROVE Flow(q[x], q[x + 1])
  <2>1. x \in 1..l /\ x + 1 \in 1..l /\ x \in 1..(k - 1) /\ x + d \in 1..(k - 1) BY <1>2
  <2>2. \A y \in 1..(k - 1) : Flow(p[y], p[y + 1]) BY DEF Walk
  <2>3. CASE x < i
    <3>1. q[x] = p[x] /\ q[x + 1] = p[x + 1] BY <2>1, <2>3
    <3>2. QED BY <2>1, <2>2, <3>1
  <2>4. CASE x = i
    <3>1. q[x] = p[j] BY <2>1, <2>4
    <3>2. ~(x + 1 <= i) /\ x + 1 + d = j + 1 /\ j \in 1..(k - 1) BY <1>2, <2>1, <2>4
    <3>3. q[x + 1] = p[j + 1] BY <2>1, <3>2
    <3>4. QED BY <2>2, <3>1, <3>2, <3>3
  <2>5. CASE x > i
    <3>1. ~(x <= i) /\ ~(x + 1 <= i) /\ x + 1 + d = (x + d) + 1 BY <1>2, <2>1, <2>5
    <3>2. q[x] = p[x + d] /\ q[x + 1] = p[(x + d) + 1] BY <2>1, <3>1
    <3>3. QED BY <2>1, <2>2, <3>2
  <2>6. QED BY <1>2, <2>1, <2>3, <2>4, <2>5
<1>10. Walk(q, l, a, b, S) BY <1>5, <1>7, <1>8, <1>9 DEF Walk
<1> HIDE DEF q
<1>11. QED BY <1>1, <1>2, <1>10

\* Whatever a walk connects is connected by one that is no longer than S is large.
LEMMA ShortWalk ==
    ASSUME NEW S, IsFiniteSet(S), NEW a, NEW b, NEW m \in Nat \ {0}, NEW p, Walk(p, m, a, b, S)
    PROVE  Leads(a, b, S)
<1> DEFINE Q == {k \in Nat \ {0} : \E q : Walk(q, k, a, b, S)}
<1>1. Q \subseteq Nat /\ Q # {} OBVIOUS
<1>2. PICK k \in Q : \A n \in Q : ~(<<n, k>> \in OpToRel(<, Nat))
  <2> HIDE DEF Q
  <2>1. QED BY <1>1, NatLessThanWellFounded, WFMin
<1>3. k \in Nat \ {0} OBVIOUS
<1>4. \A n \in Q : ~(n < k)
  <2> HIDE DEF Q
  <2>1. QED BY <1>1, <1>2 DEF OpToRel
<1>5. PICK q : Walk(q, k, a, b, S) OBVIOUS
<1>6. PICK c : c = Cardinality(S) OBVIOUS
<1>7. c \in Nat BY <1>6, FS_CardinalityType
<1>8. k <= c
  <2>1. SUFFICES ASSUME c < k PROVE FALSE BY <1>3, <1>7
  <2>2. PICK T : T = 1..k OBVIOUS
  <2>3. IsFiniteSet(T) /\ Cardinality(T) = k
    <3>1. 1 \in Int /\ k \in Int /\ ~(1 > k) /\ k - 1 + 1 = k BY <1>3
    <3>2. QED BY <2>2, <3>1, FS_Interval
  <2>4. q \in [T -> S] BY <1>5, <2>2 DEF Walk
  <2>5. PICK x, y \in T : x # y /\ q[x] = q[y] BY <1>6, <2>1, <2>3, <2>4, FS_PigeonHole
  <2>6. PICK i, j \in T : i < j /\ q[i] = q[j]
    <3>1. x < y \/ y < x BY <1>3, <2>2, <2>5
    <3>2. QED BY <2>5, <3>1
  <2>7. i \in 1..k /\ j \in 1..k BY <2>2
  <2>8. k - (j - i) \in Nat \ {0} /\ \E r : Walk(r, k - (j - i), a, b, S)
    BY <1>3, <1>5, <2>6, <2>7, CutShort
  <2>9. k - (j - i) \in Q BY <2>8
  <2>10. k - (j - i) < k BY <1>3, <2>6, <2>7
  <2>11. QED BY <1>4, <2>9, <2>10
<1>9. k \in 1..Cardinality(S) BY <1>3, <1>6, <1>7, <1>8
<1>10. /\ q \in [1..k -> S] /\ q[1] = a /\ q[k] = b
       /\ \A i \in 1..(k - 1) : \E f \in OwnFlows : f.src = q[i] /\ f.tgt = q[i + 1]
  BY <1>5 DEF Walk, Flow
<1>11. QED BY <1>9, <1>10 DEF Leads

\* An element leads to itself.
LEMMA LeadsHere == ASSUME NEW S, IsFiniteSet(S), NEW a \in S PROVE Leads(a, a, S)
<1> DEFINE p == [i \in 1..1 |-> a]
<1>1. Walk(p, 1, a, a, S) BY DEF Walk
<1> HIDE DEF p
<1>2. 1 \in Nat \ {0} OBVIOUS
<1>3. QED BY <1>1, <1>2, ShortWalk

\* A path goes on along one more flow.
LEMMA LeadsOn ==
    ASSUME NEW S, IsFiniteSet(S), NEW a, NEW x, NEW y \in S, Leads(a, x, S), Flow(x, y)
    PROVE  Leads(a, y, S)
<1>1. PICK k \in 1..Cardinality(S) : \E p : Walk(p, k, a, x, S) BY DEF Leads, Walk, Flow
<1>2. PICK p : Walk(p, k, a, x, S) BY <1>1
<1>3. k \in Nat \ {0} /\ k + 1 \in Nat \ {0} BY FS_CardinalityType
<1> DEFINE q == [i \in 1..(k + 1) |-> IF i = k + 1 THEN y ELSE p[i]]
<1>4. p \in [1..k -> S] /\ p[1] = a /\ p[k] = x BY <1>2 DEF Walk
<1>5. \A i \in 1..(k + 1) : i # k + 1 => i \in 1..k BY <1>3
<1>6. q \in [1..(k + 1) -> S] BY <1>4, <1>5
<1>7. q[1] = a /\ q[k + 1] = y
  <2>1. 1 \in 1..(k + 1) /\ k + 1 \in 1..(k + 1) /\ 1 # k + 1 BY <1>3
  <2>2. QED BY <1>4, <2>1
<1>8. ASSUME NEW i \in 1..k PROVE Flow(q[i], q[i + 1])
  <2>1. i \in 1..(k + 1) /\ i + 1 \in 1..(k + 1) /\ i # k + 1 BY <1>3
  <2>2. q[i] = p[i] BY <2>1
  <2>3. CASE i = k BY <1>4, <2>1, <2>2, <2>3
  <2>4. CASE i # k
    <3>1. i \in 1..(k - 1) /\ i + 1 # k + 1 BY <1>3, <2>4
    <3>2. q[i + 1] = p[i + 1] BY <2>1, <3>1
    <3>3. QED BY <1>2, <2>2, <3>1, <3>2 DEF Walk
  <2>5. QED BY <2>3, <2>4
<1>9. Walk(q, k + 1, a, y, S)
  <2>1. k + 1 - 1 = k BY <1>3
  <2>2. QED BY <1>6, <1>7, <1>8, <2>1 DEF Walk
<1> HIDE DEF q
<1>10. QED BY <1>3, <1>9, ShortWalk

\* A path inside S ends in S.
LEMMA LeadsEnds ==
    ASSUME NEW S, IsFiniteSet(S), NEW a, NEW b, Leads(a, b, S)
    PROVE  b \in S
<1>1. PICK k \in 1..Cardinality(S) : \E p : Walk(p, k, a, b, S) BY DEF Leads, Walk, Flow
<1>2. PICK p : Walk(p, k, a, b, S) BY <1>1
<1>3. k \in 1..k BY FS_CardinalityType
<1>4. QED BY <1>2, <1>3 DEF Walk

\* No path leads out of what the flows do not lead out of.
LEMMA LeadsInside ==
    ASSUME NEW S, IsFiniteSet(S), NEW a, NEW b, Leads(a, b, S), NEW U, a \in U,
           \A x \in U : \A y \in S : Flow(x, y) => y \in U
    PROVE  b \in U
<1>1. PICK k \in 1..Cardinality(S) : \E p : Walk(p, k, a, b, S) BY DEF Leads, Walk, Flow
<1>2. PICK p : Walk(p, k, a, b, S) BY <1>1
<1>3. k \in Nat \ {0} BY FS_CardinalityType
<1> DEFINE P == {n \in 0..k : n = 0 \/ p[n] \in U}
<1>4. 0 \in P BY <1>3
<1>5. ASSUME NEW n \in 1..k, n - 1 \in P PROVE n \in P
  <2>1. n \in 0..k BY <1>3
  <2>2. p \in [1..k -> S] /\ p[1] = a BY <1>2 DEF Walk
  <2>3. CASE n = 1 BY <2>1, <2>2, <2>3
  <2>4. CASE n # 1
    <3>1. p[n - 1] \in U BY <1>5, <2>4
    <3>2. n - 1 \in 1..(k - 1) /\ n - 1 + 1 = n BY <1>3, <2>4
    <3>3. Flow(p[n - 1], p[n])
      <4>1. Flow(p[n - 1], p[n - 1 + 1]) BY <1>2, <3>2 DEF Walk
      <4>2. QED BY <3>2, <4>1
    <3>4. p[n] \in S BY <2>2
    <3>5. QED BY <2>1, <3>1, <3>3, <3>4
  <2>5. QED BY <2>3, <2>4
<1>6. k \in P
  <2>1. k \in 0..k BY <1>3
  <2> HIDE DEF P
  <2>2. QED BY <1>3, <1>4, <1>5, <2>1, UpTo
<1>7. QED BY <1>2, <1>3, <1>6 DEF Walk

\* What the loop of _validate_reachability keeps to at every turn.
Searching == [visited : SUBSET Ends, queue : SUBSET Ends]
\* The worklist at any turn: it has lost nothing and gone nowhere else.
Sound(search, starts) ==
    /\ search.visited \cap search.queue = {}
    /\ starts \subseteq search.visited \cup search.queue
    /\ \A x \in search.visited : \A y : Flow(x, y) => y \in search.visited \cup search.queue
    /\ \A U \in SUBSET Ends :
          starts \subseteq U /\ Closed(U) => search.visited \cup search.queue \subseteq U

\* A turn visits one element more.
LEMMA OneTurn ==
    ASSUME IsFiniteSet(Ends), NEW starts \in SUBSET Ends,
           NEW s \in Searching, Sound(s, starts), s.queue # {}, NEW t, t = Visit(s)
    PROVE  /\ t \in Searching /\ Sound(t, starts)
           /\ Cardinality(t.visited) = Cardinality(s.visited) + 1
<1>1. PICK c : c = CHOOSE n \in s.queue : TRUE OBVIOUS
<1>2. c \in s.queue BY <1>1
<1>3. PICK next : next = {f.tgt : f \in {g \in OwnFlows : g.src = c}} OBVIOUS
<1>4. PICK V : V = s.visited \cup {c} OBVIOUS
<1>5. t = [visited |-> V, queue |-> (s.queue \cup next) \ V] BY <1>1, <1>3, <1>4 DEF Visit
<1>6. t.visited = V /\ t.queue = (s.queue \cup next) \ V BY <1>5
<1>7. s.visited \subseteq Ends /\ s.queue \subseteq Ends BY DEF Searching
<1>8. next \subseteq Ends BY <1>3 DEF Ends
<1>9. t \in Searching BY <1>2, <1>4, <1>5, <1>7, <1>8 DEF Searching
<1>10. \A y : Flow(c, y) <=> y \in next BY <1>3 DEF Flow
<1>11. t.visited \cup t.queue = s.visited \cup s.queue \cup next BY <1>2, <1>4, <1>6
<1>12. t.visited \cap t.queue = {} BY <1>6
<1>13. starts \subseteq t.visited \cup t.queue BY <1>11 DEF Sound
<1>14. ASSUME NEW x \in t.visited, NEW y, Flow(x, y) PROVE y \in t.visited \cup t.queue
  <2>1. CASE x = c BY <1>10, <1>11, <1>14, <2>1
  <2>2. CASE x # c
    <3>1. x \in s.visited BY <1>4, <1>6, <2>2
    <3>2. y \in s.visited \cup s.queue BY <1>14, <3>1 DEF Sound
    <3>3. QED BY <1>11, <3>2
  <2>3. QED BY <2>1, <2>2
<1>15. ASSUME NEW U \in SUBSET Ends, starts \subseteq U, Closed(U)
       PROVE  t.visited \cup t.queue \subseteq U
  <2>1. s.visited \cup s.queue \subseteq U BY <1>15 DEF Sound
  <2>2. next \subseteq U BY <1>2, <1>10, <1>15, <2>1 DEF Closed
  <2>3. QED BY <1>11, <2>1, <2>2
<1>16. Sound(t, starts) BY <1>12, <1>13, <1>14, <1>15 DEF Sound
<1>17. Cardinality(t.visited) = Cardinality(s.visited) + 1
  <2>1. c \notin s.visited BY <1>2 DEF Sound
  <2>2. IsFiniteSet(s.visited) BY <1>7, FS_Subset
  <2>3. Cardinality(s.visited \cup {c}) = Cardinality(s.visited) + 1
    BY <2>1, <2>2, FS_AddElement
  <2>4. QED BY <1>4, <1>6, <2>3
<1>18. QED BY <1>9, <1>16, <1>17

\* The loop visits what can be reached and nothing else (_validate_reachability).
LEMMA Reached ==
    ASSUME IsFiniteSet(Ends), NEW starts \in SUBSET Ends, NEW V, V = Visited(starts)
    PROVE  /\ starts \subseteq V /\ V \subseteq Ends /\ Closed(V)
           /\ \A U \in SUBSET Ends : starts \subseteq U /\ Closed(U) => V \subseteq U
<1> DEFINE N == Cardinality(Ends)
           Begin == [visited |-> {}, queue |-> starts]
           Turn(s) == IF s.queue = {} THEN s ELSE Visit(s)
           Fit == {s \in Searching : Sound(s, starts)}
           g == [n \in 1..N |-> [s \in Fit |-> Turn(s)]]
           F(f) == [n \in 0..N |-> IF n = 0 THEN Begin
                                   ELSE IF f[n - 1].queue = {} THEN f[n - 1] ELSE Visit(f[n - 1])]
<1>1. N \in Nat BY FS_CardinalityType
<1>2. Begin \in Fit
  <2>1. Begin \in Searching BY DEF Searching
  <2>2. Sound(Begin, starts) BY DEF Sound
  <2>3. QED BY <2>1, <2>2
<1>3. ASSUME NEW s \in Fit PROVE Turn(s) \in Fit
  <2>1. CASE s.queue = {} BY <2>1
  <2>2. CASE s.queue # {}
    <3>1. PICK t : t = Visit(s) OBVIOUS
    <3>2. t \in Searching /\ Sound(t, starts) BY <2>2, <3>1, OneTurn
    <3>3. QED BY <2>2, <3>1, <3>2
  <2>3. QED BY <2>1, <2>2
<1>4. PICK f0 \in [0..N -> Fit] : f0[0] = Begin /\ \A n \in 1..N : f0[n] = Turn(f0[n - 1])
  <2>1. PICK T, b, M, k : T = Fit /\ b = Begin /\ M = N /\ k = g OBVIOUS
  <2>2. g \in [1..N -> [Fit -> Fit]]
    <3> HIDE DEF Fit, Turn, N
    <3>1. QED BY <1>3
  <2>3. M \in Nat /\ b \in T /\ k \in Steps(M, T)
    <3> HIDE DEF g, N, Fit, Begin
    <3>1. QED BY <1>1, <1>2, <2>1, <2>2 DEF Steps
  <2>4. \E h : Results(M, T, b, k, h) BY <2>3, GoneThrough
  <2>5. PICK h \in [0..N -> Fit] : h[0] = Begin /\ \A n \in 1..N : h[n] = g[n][h[n - 1]]
    <3> HIDE DEF g, N, Fit, Begin
    <3>1. QED BY <2>1, <2>4 DEF Results
  <2>6. ASSUME NEW n \in 1..N PROVE h[n] = Turn(h[n - 1])
    <3>1. n - 1 \in 0..N
      <4> HIDE DEF N
      <4>1. QED BY <1>1
    <3> HIDE DEF Fit, Turn, N
    <3>2. h[n - 1] \in Fit BY <2>5, <3>1
    <3>3. QED BY <2>5, <3>2
  <2> HIDE DEF Fit, Turn, g, N, Begin
  <2>7. QED BY <2>5, <2>6
<1>5. f0 = F(f0)
  <2> HIDE DEF N, Begin, Fit
  <2>1. \A n \in 0..N : n # 0 => n \in 1..N BY <1>1
  <2>2. QED BY <1>4, <2>1
<1>6. PICK f : f = CHOOSE h : h = F(h) OBVIOUS
<1>7. f = F(f)
  <2> HIDE DEF F
  <2>1. QED BY <1>5, <1>6
<1>8. V = f[N].visited BY <1>6 DEF Visited
<1>9. f[0] = Begin /\ \A n \in 1..N : f[n] = Turn(f[n - 1])
  <2> HIDE DEF N, Begin
  <2>1. 0 \in 0..N /\ \A n \in 1..N : n \in 0..N /\ n # 0 BY <1>1
  <2>2. QED BY <1>7, <2>1
<1> DEFINE Good(n, s) == s \in Fit /\ (s.queue = {} \/ Cardinality(s.visited) = n)
           P == {n \in 0..N : Good(n, f[n])}
<1>10. 0 \in P
  <2>1. Begin.visited = {} /\ Cardinality({}) = 0 BY FS_EmptySet
  <2>2. Good(0, Begin)
    <3> HIDE DEF Fit
    <3>1. QED BY <1>2, <2>1
  <2>3. 0 \in 0..N BY <1>1
  <2> HIDE DEF Good, Begin
  <2>4. QED BY <1>9, <2>2, <2>3
<1>11. ASSUME NEW n \in 1..N, n - 1 \in P PROVE n \in P
  <2>1. PICK s, t : s = f[n - 1] /\ t = f[n] OBVIOUS
  <2>2. Good(n - 1, s)
    <3> HIDE DEF Good
    <3>1. QED BY <1>11, <2>1
  <2>3. t = Turn(s)
    <3> HIDE DEF Turn
    <3>1. QED BY <1>9, <2>1
  <2>4. Good(n, t)
    <3>1. CASE s.queue = {} BY <2>2, <2>3, <3>1
    <3>2. CASE s.queue # {}
      <4>1. s \in Searching /\ Sound(s, starts) /\ Cardinality(s.visited) = n - 1 /\ t = Visit(s)
        BY <2>2, <2>3, <3>2
      <4>2. /\ t \in Searching /\ Sound(t, starts)
            /\ Cardinality(t.visited) = Cardinality(s.visited) + 1
        BY <3>2, <4>1, OneTurn
      <4>3. n \in Nat
        <5> HIDE DEF N
        <5>1. QED BY <1>1
      <4>4. Cardinality(t.visited) = n BY <4>1, <4>2, <4>3
      <4>5. QED BY <4>2, <4>4
    <3>3. QED BY <3>1, <3>2
  <2>5. n \in 0..N
    <3> HIDE DEF N
    <3>1. QED BY <1>1
  <2> HIDE DEF Good
  <2>6. QED BY <2>1, <2>4, <2>5
<1>12. Good(N, f[N])
  <2>1. N \in 0..N BY <1>1
  <2>2. N \in P
    <3> HIDE DEF P, N
    <3>1. QED BY <1>1, <1>10, <1>11, <2>1, UpTo
  <2> HIDE DEF Good, N
  <2>3. QED BY <2>2
<1>13. PICK s : s = f[N] OBVIOUS
<1>14. /\ s \in Searching /\ Sound(s, starts) /\ V = s.visited
       /\ s.queue = {} \/ Cardinality(s.visited) = Cardinality(Ends)
  BY <1>8, <1>12, <1>13
<1>15. s.queue = {}
  <2>1. s.visited \in SUBSET Ends /\ s.queue \subseteq Ends BY <1>14 DEF Searching
  <2>2. Cardinality(s.visited) = Cardinality(Ends) => s.visited = Ends BY <2>1, FS_Subset
  <2>3. s.visited \cap s.queue = {} BY <1>14 DEF Sound
  <2>4. QED BY <1>14, <2>1, <2>2, <2>3
<1>16. V \subseteq Ends BY <1>14 DEF Searching
<1>17. starts \subseteq V BY <1>14, <1>15 DEF Sound
<1>18. Closed(V) BY <1>14, <1>15 DEF Sound, Closed
<1>19. \A U \in SUBSET Ends : starts \subseteq U /\ Closed(U) => V \subseteq U
  BY <1>14, <1>15 DEF Sound
<1>20. QED BY <1>16, <1>17, <1>18, <1>19

\* A document keeps its shape: its pools are of its processes, and what is drawn
\* has one of the known tags.
DiagramInv ==
    /\ doc = [pools |-> doc.pools, nodes |-> doc.nodes, flows |-> doc.flows,
              messages |-> doc.messages]
    /\ IsFiniteSet(Nodes) /\ IsFiniteSet(doc.flows)
    /\ DOMAIN doc.pools \subseteq Processes
    /\ \A n \in Nodes : Tag(n) \in FlowNodeTags \cup Unlisted

\* The empty diagram is well formed.
LEMMA DiagramBegins == DiagramInit => DiagramInv
<1> SUFFICES ASSUME NEW pools \in Layouts, doc = [NoNodes EXCEPT !.pools = pools] PROVE DiagramInv
  BY DEF DiagramInit
<1>1. doc = [pools |-> pools, nodes |-> <<>>, flows |-> {}, messages |-> {}] BY DEF NoNodes
<1>2. Nodes = {} BY <1>1 DEF Nodes
<1>3. DOMAIN pools \subseteq Processes BY DiagramAssumption
<1>4. /\ doc = [pools |-> doc.pools, nodes |-> doc.nodes, flows |-> doc.flows,
                messages |-> doc.messages]
      /\ doc.pools = pools /\ doc.flows = {}
  <2>1. PICK d : d = [pools |-> pools, nodes |-> <<>>, flows |-> {}, messages |-> {}] OBVIOUS
  <2>2. d.pools = pools /\ d.nodes = <<>> /\ d.flows = {} /\ d.messages = {} BY <2>1
  <2>3. QED BY <1>1, <2>1, <2>2
<1>5. \A n \in Nodes : FALSE BY <1>2
<1>6. QED BY <1>2, <1>3, <1>4, <1>5, FS_EmptySet DEF DiagramInv

\* An element that is drawn has an id of its own.
LEMMA Inserted == ASSUME DiagramInv, NEW e \in Elements, Insert(e) PROVE DiagramInv'
<1> USE DEF DiagramInv
<1>1. PICK id : id = Ids[Cardinality(Nodes) + 1] OBVIOUS
<1>2. PICK ns : ns = [n \in Nodes \cup {id} |-> IF n = id THEN e ELSE doc.nodes[n]] OBVIOUS
<1>3. doc' = [doc EXCEPT !.nodes = ns] BY <1>1, <1>2 DEF Insert
<1>4. doc' = [pools |-> doc.pools, nodes |-> ns, flows |-> doc.flows, messages |-> doc.messages]
  BY <1>2, <1>3
<1>5. /\ DOMAIN ns = Nodes \cup {id}
      /\ \A n \in Nodes \cup {id} : ns[n] = IF n = id THEN e ELSE doc.nodes[n]
  BY <1>2
<1>6. Nodes' = Nodes \cup {id} BY <1>4, <1>5 DEF Nodes
<1>7. IsFiniteSet(Nodes') BY <1>6, FS_AddElement
<1>8. e.tag \in FlowNodeTags \cup Unlisted BY DiagramAssumption DEF Element
<1>9. ASSUME NEW n \in Nodes' PROVE Tag(n)' \in FlowNodeTags \cup Unlisted
  <2>1. Tag(n)' = ns[n].tag BY <1>4 DEF Tag
  <2>2. CASE n = id BY <1>5, <1>8, <2>1, <2>2
  <2>3. CASE n # id
    <3>1. n \in Nodes /\ ns[n] = doc.nodes[n] BY <1>5, <1>6, <2>3
    <3>2. QED BY <2>1, <3>1 DEF Tag
  <2>4. QED BY <2>2, <2>3
<1>10. QED BY <1>4, <1>7, <1>9

\* Flows and messages may come and go, as long as they are finitely many.
LEMMA Redrawn ==
    ASSUME DiagramInv, NEW flows, NEW messages, IsFiniteSet(flows),
           doc' = [pools |-> doc.pools, nodes |-> doc.nodes, flows |-> flows, messages |-> messages]
    PROVE  DiagramInv'
<1>1. Nodes' = Nodes BY DEF Nodes
<1>2. \A n : Tag(n)' = Tag(n) BY <1>1 DEF Tag
<1>3. QED BY <1>1, <1>2 DEF DiagramInv

\* Every edit leaves the diagram well formed.
LEMMA DiagramStep == ASSUME DiagramInv, [DiagramNext]_doc PROVE DiagramInv'
<1>1. ASSUME NEW e \in Elements, Insert(e) PROVE DiagramInv' BY <1>1, Inserted
<1>2. ASSUME NEW a, NEW b, NEW named, Link(a, b, named) PROVE DiagramInv'
  <2>1. PICK fs : fs = doc.flows \cup {[src |-> a, tgt |-> b, named |-> named]} OBVIOUS
  <2>2. IsFiniteSet(fs) BY <2>1, FS_AddElement DEF DiagramInv
  <2>3. doc' = [pools |-> doc.pools, nodes |-> doc.nodes, flows |-> fs, messages |-> doc.messages]
    BY <1>2, <2>1 DEF Link, DiagramInv
  <2>4. QED BY <2>2, <2>3, Redrawn
<1>3. ASSUME NEW a, NEW b, Send(a, b) PROVE DiagramInv'
  <2>1. PICK ms : ms = {[src |-> a, tgt |-> b, named |-> TRUE]} OBVIOUS
  <2>2. doc' = [pools |-> doc.pools, nodes |-> doc.nodes, flows |-> doc.flows, messages |-> ms]
    BY <1>3, <2>1 DEF Send, DiagramInv
  <2>3. IsFiniteSet(doc.flows) BY DEF DiagramInv
  <2>4. QED BY <2>2, <2>3, Redrawn
<1>4. CASE UNCHANGED doc BY <1>4 DEF DiagramInv, Nodes, Tag
<1>5. QED BY <1>1, <1>2, <1>3, <1>4 DEF DiagramNext

\* Every document that can be drawn is one of its processes, of known elements.
THEOREM DiagramsHold == DiagramSpec => []DiagramInv
BY DiagramBegins, DiagramStep, PTL DEF DiagramSpec

\* The worklist has finitely many elements to visit.
LEMMA EndsAreFinite == ASSUME DiagramInv PROVE IsFiniteSet(Ends)
<1>1. PICK T : T = {f.tgt : f \in OwnFlows} OBVIOUS
<1>2. IsFiniteSet(OwnFlows) BY FS_Subset DEF OwnFlows, DiagramInv
<1> DEFINE tgt == [f \in OwnFlows |-> f.tgt]
<1>3. tgt \in Surjection(OwnFlows, T) BY <1>1 DEF Surjection
<1>4. IsFiniteSet(T)
  <2> HIDE DEF tgt
  <2>1. QED BY <1>2, <1>3, FS_Surjection
<1>5. QED BY <1>1, <1>4, FS_Union DEF Ends, DiagramInv

\* What every rule but that of reachability reports.
Ruled(i) == i.severity \in {1, 2, 3} /\ i.what # "not reachable"
\* What a rule calls out carries the severity and the words of the rule.
LEMMA EachRuled ==
    ASSUME NEW S, NEW severity \in {1, 2, 3}, NEW what, what # "not reachable"
    PROVE  \A i \in Each(S, severity, what) : Ruled(i)
<1> SUFFICES ASSUME NEW i \in Each(S, severity, what) PROVE Ruled(i) OBVIOUS
<1>1. PICK x \in S : i = Issue(x, severity, what) BY DEF Each
<1>2. i.severity = severity /\ i.what = what BY <1>1 DEF Issue
<1>3. QED BY <1>2 DEF Ruled

\* So do the rules for gateways (_validate_gateways).
LEMMA GatewaysRuled == \A i \in GatewayIssues : Ruled(i)
<1> DEFINE gateways == Tagged(GatewayTags \ {"complexGateway"})
           splitting == {n \in Tagged({"exclusiveGateway", "inclusiveGateway"}) : Cardinality(Out(n)) > 1}
           parallel(p) == {n \in Of(p) : Tag(n) = "parallelGateway"}
           splits(p) == {n \in parallel(p) : Cardinality(Out(n)) > 1}
           joins(p) == {n \in parallel(p) : Cardinality(In(n)) > 1}
           wrong(f) == Own(f.src) /\ Tag(f.tgt) \notin {"intermediateCatchEvent", "receiveTask"}
           few == Each({n \in gateways : Cardinality(In(n)) + Cardinality(Out(n)) <= 2}, Major, "few flows")
           into == Each({n \in gateways : In(n) = {}}, Critical, "no incoming")
           out == Each({n \in gateways : Out(n) = {}}, Critical, "no outgoing")
           named == Each(Unnamed(splitting), Minor, "no name")
           flows == Each({f \in UNION {Out(n) : n \in splitting} : ~f.named}, Minor, "no name")
           silent == Each({n \in Tagged({"parallelGateway", "eventBasedGateway"}) : doc.nodes[n].named},
                          Minor, "name")
           next == Each({n \in Tagged({"eventBasedGateway"}) : \E f \in Out(n) : wrong(f)},
                        Major, "successor")
           join(p) == Each(IF Cardinality(splits(p)) > Cardinality(joins(p)) THEN splits(p) ELSE {},
                           Major, "no join")
<1>1. Critical = 1 /\ Major = 2 /\ Minor = 3 BY DEF Critical, Major, Minor
<1>2. \A i \in few : Ruled(i) BY <1>1, EachRuled
<1>3. \A i \in into : Ruled(i) BY <1>1, EachRuled
<1>4. \A i \in out : Ruled(i) BY <1>1, EachRuled
<1>5. \A i \in named : Ruled(i) BY <1>1, EachRuled
<1>6. \A i \in flows : Ruled(i) BY <1>1, EachRuled
<1>7. \A i \in silent : Ruled(i) BY <1>1, EachRuled
<1>8. \A i \in next : Ruled(i) BY <1>1, EachRuled
<1>9. \A p \in Processes : \A i \in join(p) : Ruled(i) BY <1>1, EachRuled
<1>10. GatewayIssues = few \cup into \cup out \cup named \cup flows \cup silent \cup next
                       \cup UNION {join(p) : p \in Processes}
  BY DEF GatewayIssues
<1> HIDE DEF few, into, out, named, flows, silent, next, join
<1>11. QED BY <1>2, <1>3, <1>4, <1>5, <1>6, <1>7, <1>8, <1>9, <1>10

\* Every issue is critical, major or minor, and only one rule says "not reachable".
LEMMA Judged ==
    /\ \A i \in Issues : i.severity \in {1, 2, 3}
    /\ \A i \in Issues : i.what = "not reachable" => i \in ReachabilityIssues
<1>1. Critical = 1 /\ Major = 2 /\ Minor = 3 BY DEF Critical, Major, Minor
<1>2. \A i \in PoolIssues : Ruled(i) BY <1>1, EachRuled DEF PoolIssues
<1>3. \A i \in LaneIssues : Ruled(i) BY <1>1, EachRuled DEF LaneIssues
<1>4. \A i \in EventIssues : Ruled(i) BY <1>1, EachRuled DEF EventIssues
<1>5. \A i \in GatewayIssues : Ruled(i) BY GatewaysRuled
<1>6. \A i \in TaskIssues : Ruled(i) BY <1>1, EachRuled DEF TaskIssues
<1>7. \A i \in SequenceFlowIssues : Ruled(i) BY <1>1, EachRuled DEF SequenceFlowIssues
<1>8. \A i \in MessageFlowIssues : Ruled(i) BY <1>1, EachRuled DEF MessageFlowIssues
<1>9. \A i \in ReachabilityIssues : i.severity = 1
  <2> SUFFICES ASSUME NEW p \in Processes, NEW i \in Each(Unreachable(p), Critical, "not reachable")
               PROVE  i.severity = 1
    BY DEF ReachabilityIssues
  <2>1. PICK x \in Unreachable(p) : i = Issue(x, Critical, "not reachable") BY DEF Each
  <2>2. QED BY <1>1, <2>1 DEF Issue
<1>10. \A i \in Issues : Ruled(i) \/ i \in ReachabilityIssues
  BY <1>2, <1>3, <1>4, <1>5, <1>6, <1>7, <1>8 DEF Issues
<1>11. QED BY <1>9, <1>10 DEF Ruled

\* What a process holds is what the loop can visit.
LEMMA StartsAreEnds == \A p : StartsOf(p) \subseteq Of(p) /\ Of(p) \subseteq Ends /\ Of(p) \subseteq Nodes
BY DEF StartsOf, Of, Ends

\* An element of a process is called unreachable by the rule for its own process.
LEMMA CalledUnreachable ==
    ASSUME NEW p \in Processes, NEW n \in Of(p)
    PROVE  Issue(n, Critical, "not reachable") \in Issues <=> n \in Unreachable(p)
<1>1. PICK i : i = Issue(n, Critical, "not reachable") OBVIOUS
<1>2. i.el = n /\ i.what = "not reachable" BY <1>1 DEF Issue
<1>3. ASSUME n \in Unreachable(p) PROVE i \in Issues
  <2>1. i \in Each(Unreachable(p), Critical, "not reachable") BY <1>1, <1>3 DEF Each
  <2>2. QED BY <2>1 DEF Issues, ReachabilityIssues
<1>4. ASSUME i \in Issues PROVE n \in Unreachable(p)
  <2>1. i \in ReachabilityIssues BY <1>2, <1>4, Judged
  <2>2. PICK q \in Processes : i \in Each(Unreachable(q), Critical, "not reachable")
    BY <2>1 DEF ReachabilityIssues
  <2>3. PICK x \in Unreachable(q) : i = Issue(x, Critical, "not reachable") BY <2>2 DEF Each
  <2>4. x = n BY <1>2, <2>3 DEF Issue
  <2>5. n \in Of(q) BY <2>4 DEF Unreachable
  <2>6. q = p BY <2>5 DEF Of
  <2>7. QED BY <2>4, <2>6
<1>5. QED BY <1>1, <1>3, <1>4

\* The loop visits an element exactly when a path leads to it from a start event.
LEMMA VisitedExactly ==
    ASSUME DiagramInv, NEW p, NEW n \in Ends
    PROVE  n \in Visited(StartsOf(p)) <=> \E s \in StartsOf(p) : Leads(s, n, Ends)
<1>1. IsFiniteSet(Ends) BY EndsAreFinite
<1>2. PICK V : V = Visited(StartsOf(p)) OBVIOUS
<1>3. StartsOf(p) \in SUBSET Ends BY StartsAreEnds
<1>4. /\ StartsOf(p) \subseteq V /\ Closed(V)
      /\ \A U \in SUBSET Ends : StartsOf(p) \subseteq U /\ Closed(U) => V \subseteq U
  BY <1>1, <1>2, <1>3, Reached
<1>5. ASSUME NEW s \in StartsOf(p), Leads(s, n, Ends) PROVE n \in V
  <2>1. s \in V /\ \A x \in V : \A y \in Ends : Flow(x, y) => y \in V BY <1>4 DEF Closed
  <2>2. QED BY <1>1, <1>5, <2>1, LeadsInside
<1>6. ASSUME n \in V PROVE \E s \in StartsOf(p) : Leads(s, n, Ends)
  <2>1. PICK U : U = {x \in Ends : \E s \in StartsOf(p) : Leads(s, x, Ends)} OBVIOUS
  <2>2. U \in SUBSET Ends BY <2>1
  <2>3. StartsOf(p) \subseteq U
    <3> SUFFICES ASSUME NEW s \in StartsOf(p) PROVE s \in U OBVIOUS
    <3>1. s \in Ends BY <1>3
    <3>2. Leads(s, s, Ends) BY <1>1, <3>1, LeadsHere
    <3>3. QED BY <2>1, <3>1, <3>2
  <2>4. Closed(U)
    <3> SUFFICES ASSUME NEW x \in U, NEW y, Flow(x, y) PROVE y \in U BY DEF Closed
    <3>1. y \in Ends BY DEF Flow, Ends
    <3>2. PICK s \in StartsOf(p) : Leads(s, x, Ends) BY <2>1
    <3>3. Leads(s, y, Ends) BY <1>1, <3>1, <3>2, LeadsOn
    <3>4. QED BY <2>1, <3>1, <3>3
  <2>5. n \in U BY <1>4, <1>6, <2>2, <2>3, <2>4
  <2>6. QED BY <2>1, <2>5
<1>7. QED BY <1>2, <1>5, <1>6

\* An element is called unreachable exactly when no path of flows leads to it from
\* a start event of its process: the worklist of _validate_reachability is right
\* for every document.
THEOREM ReachabilityExact == DiagramSpec => []UnreachableExact
<1>1. DiagramInv => UnreachableExact
  <2> SUFFICES ASSUME DiagramInv, NEW p \in Processes, StartsOf(p) # {}, NEW n \in Of(p)
               PROVE  Issue(n, Critical, "not reachable") \in Issues <=>
                          Tag(n) \in FlowNodeTags /\ ~\E s \in StartsOf(p) : Leads(s, n, Ends)
    BY DEF UnreachableExact
  <2>1. n \in Ends BY StartsAreEnds
  <2>2. n \in Visited(StartsOf(p)) <=> \E s \in StartsOf(p) : Leads(s, n, Ends)
    BY <2>1, VisitedExactly
  <2>3. n \in Unreachable(p) <=> Tag(n) \in FlowNodeTags /\ n \notin Visited(StartsOf(p))
    BY DEF Unreachable
  <2>4. QED BY <2>2, <2>3, CalledUnreachable
<1>2. QED BY <1>1, DiagramsHold, PTL

\* What is critical is in the report: nothing about the same element is more severe.
LEMMA CriticalReported == ASSUME NEW i \in Issues, i.severity = Critical PROVE i \in Report
<1>1. i.severity = 1 BY DEF Critical
<1>2. ASSUME NEW j \in Issues PROVE i.severity <= j.severity
  <2>1. j.severity \in {1, 2, 3} BY Judged
  <2>2. QED BY <1>1, <2>1
<1>3. QED BY <1>2 DEF Report

\* A flow with an end that is neither an element nor a pool is called not found.
LEMMA NotFound ==
    ASSUME NEW f \in doc.flows \cup doc.messages, NEW x \in {f.src, f.tgt},
           x \notin Nodes, x \notin DOMAIN doc.pools
    PROVE  Issue(f, Critical, "not found") \in Report
<1>1. PICK i : i = Issue(f, Critical, "not found") OBVIOUS
<1>2. i \in Issues
  <2>1. CASE f \in doc.flows
    <3>1. PICK F : F = {g \in doc.flows : {g.src, g.tgt} \ Nodes # {}} OBVIOUS
    <3>2. f \in F BY <2>1, <3>1
    <3>3. i \in Each(F, Critical, "not found") BY <1>1, <3>2 DEF Each
    <3>4. QED BY <3>1, <3>3 DEF Issues, SequenceFlowIssues
  <2>2. CASE f \in doc.messages
    <3>1. PICK F : F = {m \in doc.messages : {m.src, m.tgt} \ (Nodes \cup DOMAIN doc.pools) # {}}
      OBVIOUS
    <3>2. f \in F BY <2>2, <3>1
    <3>3. i \in Each(F, Critical, "not found") BY <1>1, <3>2 DEF Each
    <3>4. QED BY <3>1, <3>3 DEF Issues, MessageFlowIssues
  <2>3. QED BY <2>1, <2>2
<1>3. i.severity = Critical BY <1>1 DEF Issue
<1>4. QED BY <1>1, <1>2, <1>3, CriticalReported

\* A flow the tutor is shown ends at what he is shown as well, at an activity the
\* parser has no list for or a part of one, or the report he is given calls the
\* end not found (BPMNParser.parse, _validate_sequence_flows).
THEOREM FlowsEnd == DiagramSpec => []ShownFlowsEnd
<1>1. DiagramInv => ShownFlowsEnd
  <2> SUFFICES ASSUME DiagramInv, NEW f \in Shown.flows, NEW x \in {f.src, f.tgt}
               PROVE  \/ x \in {e.id : e \in Shown.nodes} \cup {e.pool : e \in Shown.pools}
                      \/ Tag(x) \in Unlisted \/ (x \in Nodes /\ ~Own(x))
                      \/ Issue(f, Critical, "not found") \in Report
    BY DEF ShownFlowsEnd
  <2>1. CASE x \in DOMAIN doc.pools
    <3>1. PICK e : e = [pool |-> x, expanded |-> ShownExpanded(x)] OBVIOUS
    <3>2. e \in Shown.pools /\ e.pool = x BY <2>1, <3>1 DEF Shown
    <3>3. QED BY <3>2
  <2>2. CASE x \in Nodes /\ Own(x)
    <3>1. Tag(x) \in Unlisted \/ x \in ShownNodes BY <2>2 DEF DiagramInv, ShownNodes
    <3>2. ASSUME x \in ShownNodes PROVE x \in {e.id : e \in Shown.nodes}
      <4>1. PICK e : e = [id |-> x, tag |-> Tag(x), parent |-> doc.nodes[x].at] OBVIOUS
      <4>2. e \in Shown.nodes /\ e.id = x BY <3>2, <4>1 DEF Shown
      <4>3. QED BY <4>2
    <3>3. QED BY <3>1, <3>2
  <2>3. CASE x \notin Nodes /\ x \notin DOMAIN doc.pools
    <3>1. f \in doc.flows \cup doc.messages BY DEF Shown, ShownFlows, OwnFlows
    <3>2. QED BY <2>3, <3>1, NotFound
  <2>4. QED BY <2>1, <2>2, <2>3
<1>2. QED BY <1>1, DiagramsHold, PTL

\* When nothing critical is reported of a pool that has a start event, each of its
\* elements lies on a path that begins in the pool and stays in it: no rule alone
\* says so (validate, format_for_prompt).
THEOREM CleanPoolsRun == DiagramSpec => []CleanPoolRuns
<1>1. DiagramInv => CleanPoolRuns
  <2> SUFFICES ASSUME DiagramInv, NEW p \in DOMAIN doc.pools, StartsOf(p) # {},
                      \A i \in Report : Touches(i.el, p) => i.severity # Critical,
                      NEW n \in Of(p), Tag(n) \in FlowNodeTags
               PROVE  \E s \in StartsOf(p) : Leads(s, n, Of(p))
    BY DEF CleanPoolRuns
  <2>1. p \in Processes /\ IsFiniteSet(Nodes) BY DEF DiagramInv
  <2>2. IsFiniteSet(Of(p)) BY <2>1, StartsAreEnds, FS_Subset
  <2>3. n \notin Unreachable(p)
    <3> SUFFICES ASSUME n \in Unreachable(p) PROVE FALSE OBVIOUS
    <3>1. PICK i : i = Issue(n, Critical, "not reachable") OBVIOUS
    <3>2. i \in Issues BY <2>1, <3>1, CalledUnreachable
    <3>3. i.el = n /\ i.severity = Critical BY <3>1 DEF Issue
    <3>4. i \in Report BY <3>2, <3>3, CriticalReported
    <3>5. Touches(i.el, p) BY <3>3 DEF Touches
    <3>6. QED BY <3>3, <3>4, <3>5
  <2>4. \E s \in StartsOf(p) : Leads(s, n, Ends)
    <3>1. n \in Visited(StartsOf(p)) BY <2>3 DEF Unreachable
    <3>2. n \in Ends BY StartsAreEnds
    <3>3. QED BY <3>1, <3>2, VisitedExactly
  <2>5. ASSUME NEW f \in OwnFlows, f.src \in Of(p) PROVE f.tgt \in Of(p) \/ ~Own(f.tgt)
    <3>1. f \in doc.flows BY DEF OwnFlows
    <3>2. Touches(f, p) BY <2>5, <3>1 DEF Touches
    <3>3. ASSUME NEW what, Issue(f, Critical, what) \in SequenceFlowIssues PROVE FALSE
      <4>1. PICK i : i = Issue(f, Critical, what) OBVIOUS
      <4>2. i \in Issues BY <3>3, <4>1 DEF Issues
      <4>3. i.el = f /\ i.severity = Critical BY <4>1 DEF Issue
      <4>4. i \in Report BY <4>2, <4>3, CriticalReported
      <4>5. QED BY <3>2, <4>3, <4>4
    <3>4. SUFFICES ASSUME Own(f.tgt), f.tgt \notin Of(p) PROVE FALSE OBVIOUS
    <3>5. Own(f.src) /\ doc.nodes[f.src].at = p BY <2>1, <2>5 DEF Own, Of
    <3>6. p \in ProcessOf(f.src) BY <3>5 DEF ProcessOf
    <3>7. doc.nodes[f.tgt].at \in ProcessOf(f.tgt) /\ doc.nodes[f.tgt].at # p
      BY <3>4 DEF ProcessOf, Of, Own
    <3>8. Issue(f, Critical, "crosses pools") \in SequenceFlowIssues
      BY <3>1, <3>6, <3>7 DEF SequenceFlowIssues, Each
    <3>9. QED BY <3>3, <3>8
  <2>6. PICK U : U = {x \in Ends : ~Own(x) \/ \E s \in StartsOf(p) : Leads(s, x, Of(p))} OBVIOUS
  <2>7. ASSUME NEW x \in U, NEW y \in Ends, Flow(x, y) PROVE y \in U
    <3>1. PICK f \in OwnFlows : f.src = x /\ f.tgt = y BY <2>7 DEF Flow
    <3>2. Own(x) BY <3>1 DEF OwnFlows
    <3>3. PICK s \in StartsOf(p) : Leads(s, x, Of(p)) BY <2>6, <3>2
    <3>4. x \in Of(p) BY <2>2, <3>3, LeadsEnds
    <3>5. CASE ~Own(y) BY <2>6, <3>5
    <3>6. CASE Own(y)
      <4>1. y \in Of(p) BY <2>5, <3>1, <3>4, <3>6
      <4>2. Leads(s, y, Of(p)) BY <2>2, <2>7, <3>3, <4>1, LeadsOn
      <4>3. QED BY <2>6, <4>2
    <3>7. QED BY <3>5, <3>6
  <2>8. PICK s \in StartsOf(p) : Leads(s, n, Ends) BY <2>4
  <2>9. s \in U
    <3>1. s \in Of(p) /\ s \in Ends BY StartsAreEnds
    <3>2. Leads(s, s, Of(p)) BY <2>2, <3>1, LeadsHere
    <3>3. QED BY <2>6, <3>1, <3>2
  <2>10. n \in U BY <2>7, <2>8, <2>9, EndsAreFinite, LeadsInside
  <2>11. Own(n) BY <2>1 DEF Own, Of
  <2>12. QED BY <2>6, <2>10, <2>11
<1>2. QED BY <1>1, DiagramsHold, PTL
=============================================================================
