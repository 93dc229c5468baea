------------------------- MODULE PipeChannel_proofs -------------------------
(***************************************************************************)
(* Proofs about PipeChannel: what its four invariants say holds for any    *)
(* messages of any lengths, any size of the read buffer and any limit.     *)
(*                                                                         *)
(* The argument follows a stream from one end to the other.  What an end   *)
(* has posted is, in order: what its peer has dispatched; what is on the   *)
(* wire, cut off anywhere; what is queued; what the tasks of its loop will *)
(* queue (InStream).  Parsing is a recursion over a buffer; that it finds  *)
(* just the whole messages of a stretch of a stream is proved by climbing  *)
(* from the end of the buffer (Climb), and each operation on a channel has *)
(* a lemma of its own that says what it does to a stream.  With who waits  *)
(* for whom (ConnectInv) this is inductive and gives DeliveredInOrder and  *)
(* NeverIdle (ChannelInv).                                                 *)
(*                                                                         *)
(* Three invariants stand on it: that a failed end releases its callers    *)
(* (ErrorInv), that an end posts what is its own and once (PostedInv), and *)
(* from both that a reply arrives once and is in one place (ReplyInv).     *)
(***************************************************************************)
EXTENDS PipeChannel, SequenceTheorems, WellFoundedInduction, TLAPS

(* What travels on a wire.                                                 *)
Sent == Message \union {Hello}

(* buf begins with message first + 1 of the list ms and holds the messages *)
(* up to the last one, which may be cut off; pos says where each begins.   *)
Framed(buf, ms, first, last, pos) ==
  /\ pos[first + 1] = 1
  /\ \A j \in first + 1 .. last + 1 : pos[j] \in Nat \ {0}
  /\ \A i, j \in first + 1 .. last + 1 : i <= j => pos[i] <= pos[j]
  /\ \A j \in first + 1 .. last :
       /\ pos[j + 1] = pos[j] + Size[ms[j]]
       /\ \A k \in 1 .. Size[ms[j]] :
            pos[j] + k - 1 <= Len(buf) => buf[pos[j] + k - 1] = <<ms[j], k>>
  /\ Len(buf) < pos[last + 1]

(* Where the whole messages begin, and the messages themselves.            *)
Positions(pos, first, whole) == [i \in 1 .. whole - first |-> pos[first + i]]

Wires(ms, first, whole) == [i \in 1 .. whole - first |-> Wire(ms[first + i])]

(* The sender's side of a stream ms: b of its messages have been popped,   *)
(* n are written, the queue holds the next and its tasks those after.      *)
Queued(ms, c, tasks, n, b) ==
  /\ c.pipe_ = "none" =>
       /\ n = 0 /\ ms = <<Hello>> /\ tasks = <<>>
       /\ c.output_queue_ = <<>> /\ ~c.output_pending /\ c.wire = <<>>
  /\ c.pipe_ = "open" =>
       /\ n = IF c.output_pending THEN b + 1 ELSE b
       /\ c.output_pending => c.output_queue_ # <<>>
       /\ b + Len(c.output_queue_) <= Len(ms)
       /\ \A i \in 1 .. Len(c.output_queue_) : c.output_queue_[i] = ms[b + i]
       /\ \A i \in 1 .. Len(tasks) : (\A j \in 1 .. i : tasks[j] # CloseTask) =>
            /\ b + Len(c.output_queue_) + i <= Len(ms)
            /\ tasks[i] = ms[b + Len(c.output_queue_) + i]
       /\ (\A i \in 1 .. Len(tasks) : tasks[i] # CloseTask) =>
            b + Len(c.output_queue_) + Len(tasks) = Len(ms)

(* The receiver's: got is dispatched, and while it reads, what it holds    *)
(* back and what is in the pipe go on from there, as far as is written.    *)
Arrives(ms, got, c, over, reads, n, pos) ==
  /\ Len(got) <= Len(ms) /\ got = Wires(ms, 0, Len(got))
  /\ reads =>
       /\ Len(got) <= n /\ n <= Len(ms)
       /\ Framed(over \o c.wire, ms, Len(got), n, pos)
       /\ c.pipe_ # "closed" => pos[n + 1] = Len(over \o c.wire) + 1

(* A stream from its sender's tasks to what its receiver has dispatched.   *)
InStream(ms, got, c, tasks, over, reads) ==
  \E n \in Nat, b \in Nat : \E pos :
    Queued(ms, c, tasks, n, b) /\ Arrives(ms, got, c, over, reads, n, pos)

-----------------------------------------------------------------------------
(* Induction                                                               *)

(* A set of numbers has a least element.                                   *)
LEMMA LeastNumber ==
  ASSUME NEW T \in SUBSET Nat, T # {}
  PROVE  \E n \in T : \A m \in T : n <= m
<1> DEFINE R == OpToRel(<, Nat)
<1>1. IsWellFoundedOn(R, Nat)
  BY NatLessThanWellFounded
<1>2. R = {ss \in Nat \X Nat : ss[1] < ss[2]}
  BY DEF OpToRel
<1> HIDE DEF R
<1>3. PICK n \in T : \A m \in T : ~(<<m, n>> \in R)
  BY <1>1, WFMin
<1>4. \A m \in T : ~(m < n)
  BY <1>2, <1>3
<1>5. QED
  BY <1>4

(* Hence a set is all of the numbers up to n if it can be climbed.         *)
LEMMA Climb ==
  ASSUME NEW n \in Nat, NEW T, 0 \in T, \A d \in 0 .. n - 1 : d \in T => d + 1 \in T
  PROVE  \A d \in 0 .. n : d \in T
<1>1. SUFFICES ASSUME \E d \in 0 .. n : d \notin T
               PROVE  FALSE
  OBVIOUS
<1> DEFINE Bad == {d \in 0 .. n : d \notin T}
<1>2. Bad \in SUBSET Nat /\ Bad # {}
  BY <1>1
<1>3. PICK d \in Bad : \A m \in Bad : d <= m
  BY <1>2, LeastNumber
<1>4. d # 0 /\ d - 1 \in 0 .. n - 1 /\ d - 1 \notin Bad
  BY <1>3
<1>5. (d - 1) + 1 \in T
  BY <1>4
<1>6. QED
  BY <1>3, <1>5

-----------------------------------------------------------------------------
(* Parsing                                                                 *)

(* A message has at least the cell of its header.                          *)
LEMMA SizeType ==
  ASSUME NEW m \in Sent
  PROVE  Size[m] \in Nat \ {0}
BY ChannelAssumption DEF Sent

(* A cell says to which message it belongs.                                *)
LEMMA CellType ==
  ASSUME NEW c \in Cells
  PROVE  c[1] \in Sent
BY DEF Cells, Sent

(* FindNext at a cell i, and a function that follows it from first on.     *)
WholeAt(buf, i) == i <= Len(buf) /\ i + Size[buf[i][1]] - 1 <= Len(buf)

StartsFrom(buf, first, from) ==
  from = [i \in first .. Len(buf) + 1 |->
            IF WholeAt(buf, i) THEN <<i>> \o from[i + Size[buf[i][1]]] ELSE <<>>]

(* The recursion of FindNext ends, since every step goes forward: Starts is*)
(* the value at 1 of a function that solves its equation.                  *)
LEMMA StartsEquation ==
  ASSUME NEW buf \in Seq(Cells)
  PROVE  \E from : StartsFrom(buf, 1, from) /\ Starts(buf) = from[1]
<1>1. Len(buf) \in Nat
  BY LenProperties
<1>2. ASSUME NEW i \in 1 .. Len(buf)
      PROVE  Size[buf[i][1]] \in Nat \ {0}
  <2>1. buf[i] \in Cells
    BY ElementOfSeq
  <2>2. QED
    BY <2>1, CellType, SizeType
<1> DEFINE T == {d \in Nat : \E from : StartsFrom(buf, Len(buf) + 1 - d, from)}
<1>3. 0 \in T
  <2>1. StartsFrom(buf, Len(buf) + 1, [i \in Len(buf) + 1 .. Len(buf) + 1 |-> <<>>])
    BY <1>1 DEF StartsFrom, WholeAt
  <2>2. QED
    BY <1>1, <2>1
<1>4. ASSUME NEW d \in 0 .. Len(buf) - 1, d \in T
      PROVE  d + 1 \in T
  <2>1. PICK f : StartsFrom(buf, Len(buf) + 1 - d, f)
    BY <1>4
  <2> DEFINE at == Len(buf) - d
             g == [i \in at .. Len(buf) + 1 |->
                     IF i = at THEN IF WholeAt(buf, i) THEN <<i>> \o f[i + Size[buf[i][1]]] ELSE <<>>
                     ELSE f[i]]
  <2>2. at \in 1 .. Len(buf) /\ at + 1 = Len(buf) + 1 - d /\ at = Len(buf) + 1 - (d + 1)
    BY <1>1
  <2>3. ASSUME NEW i \in at .. Len(buf) + 1, WholeAt(buf, i)
        PROVE  i + Size[buf[i][1]] \in at + 1 .. Len(buf) + 1
    BY <1>1, <1>2, <2>2, <2>3, SMTT(30) DEF WholeAt
  <2>4. f = [i \in at + 1 .. Len(buf) + 1 |-> IF WholeAt(buf, i) THEN <<i>> \o f[i + Size[buf[i][1]]] ELSE <<>>]
    BY <2>1, <2>2 DEF StartsFrom
  <2> HIDE DEF at
  <2>5. ASSUME NEW i \in at .. Len(buf) + 1, WholeAt(buf, i)
        PROVE  g[i + Size[buf[i][1]]] = f[i + Size[buf[i][1]]]
    BY <1>1, <2>2, <2>3, <2>5
  <2>6. ASSUME NEW i \in at + 1 .. Len(buf) + 1
        PROVE  g[i] = IF WholeAt(buf, i) THEN <<i>> \o f[i + Size[buf[i][1]]] ELSE <<>>
    <3>1. g[i] = f[i]
      BY <1>1, <2>2
    <3>2. f[i] = IF WholeAt(buf, i) THEN <<i>> \o f[i + Size[buf[i][1]]] ELSE <<>>
      BY <2>4
    <3>3. QED
      BY <3>1, <3>2
  <2>7. g[at] = IF WholeAt(buf, at) THEN <<at>> \o f[at + Size[buf[at][1]]] ELSE <<>>
    BY <1>1, <2>2
  <2>8. \A i \in at .. Len(buf) + 1 : i = at \/ i \in at + 1 .. Len(buf) + 1
    BY <1>1, <2>2
  <2>9. ASSUME NEW i \in at .. Len(buf) + 1
        PROVE  g[i] = IF WholeAt(buf, i) THEN <<i>> \o g[i + Size[buf[i][1]]] ELSE <<>>
    <3> HIDE DEF g
    <3>1. QED
      BY <2>5, <2>6, <2>7, <2>8
  <2>10. g = [i \in at .. Len(buf) + 1 |-> g[i]]
    OBVIOUS
  <2> HIDE DEF g
  <2>11. g = [i \in at .. Len(buf) + 1 |-> IF WholeAt(buf, i) THEN <<i>> \o g[i + Size[buf[i][1]]] ELSE <<>>]
    BY <2>9, <2>10
  <2>12. StartsFrom(buf, at, g)
    BY <2>11 DEF StartsFrom
  <2>13. QED
    BY <2>2, <2>12
<1>5. Len(buf) \in T
  <2> HIDE DEF T
  <2>1. \A d \in 0 .. Len(buf) - 1 : d \in T => d + 1 \in T
    BY <1>4
  <2>2. \A d \in 0 .. Len(buf) : d \in T
    BY <1>1, <1>3, <2>1, Climb
  <2>3. QED
    BY <1>1, <2>2
<1>6. Len(buf) + 1 - Len(buf) = 1
  BY <1>1
<1>7. \E from : StartsFrom(buf, 1, from)
  BY <1>5, <1>6
<1> DEFINE follows == CHOOSE from : StartsFrom(buf, 1, from)
<1>8. StartsFrom(buf, 1, follows)
  BY <1>7
<1>9. Starts(buf) = follows[1]
  BY DEF Starts, StartsFrom, WholeAt
<1>10. QED
  BY <1>8, <1>9

(* If the buffer is a stretch of a stream of messages, what is parsed is   *)
(* as many of its messages as are whole, and the rest is what is left.     *)
LEMMA StartsOfFramed ==
  ASSUME NEW buf \in Seq(Cells), NEW ms \in Seq(Sent), NEW pos,
         NEW last \in 0 .. Len(ms), NEW first \in 0 .. last, Framed(buf, ms, first, last, pos)
  PROVE  \E whole \in first .. last :
           /\ pos[whole + 1] <= Len(buf) + 1
           /\ Starts(buf) = Positions(pos, first, whole)
<1>1. Len(buf) \in Nat /\ Len(ms) \in Nat /\ first \in Nat /\ last \in Nat
  BY LenProperties
<1>2. \A j \in first + 1 .. last : ms[j] \in Sent /\ Size[ms[j]] \in Nat \ {0}
  <2> SUFFICES ASSUME NEW j \in first + 1 .. last
               PROVE  ms[j] \in Sent /\ Size[ms[j]] \in Nat \ {0}
    OBVIOUS
  <2>1. j \in 1 .. Len(ms)
    BY <1>1
  <2>2. ms[j] \in Sent
    BY <2>1, ElementOfSeq
  <2>3. QED
    BY <2>2, SizeType
<1>3. PICK from : StartsFrom(buf, 1, from) /\ Starts(buf) = from[1]
  BY StartsEquation
<1>4. \A i \in 1 .. Len(buf) + 1 :
        from[i] = IF WholeAt(buf, i) THEN <<i>> \o from[i + Size[buf[i][1]]] ELSE <<>>
  BY <1>3 DEF StartsFrom
<1> DEFINE T == {j \in first .. last : j = last \/ pos[j + 2] > Len(buf) + 1}
<1>5. PICK whole \in T : \A j \in T : whole <= j
  <2>1. last \in T /\ T \in SUBSET Nat
    BY <1>1
  <2>2. QED
    BY <2>1, LeastNumber
<1>6. \A j \in first + 1 .. whole + 1 : pos[j] \in 1 .. Len(buf) + 1
  <2> SUFFICES ASSUME NEW j \in first + 1 .. whole + 1
               PROVE  pos[j] \in 1 .. Len(buf) + 1
    OBVIOUS
  <2>1. CASE j = first + 1
    BY <1>1, <2>1 DEF Framed
  <2>2. CASE j # first + 1
    <3>1. j - 2 \in first .. last /\ j - 2 \notin T /\ j - 2 # last /\ (j - 2) + 2 = j
      BY <1>1, <1>5, <2>2
    <3>2. j \in first + 1 .. last + 1
      BY <1>1, <1>5, <2>2
    <3>3. ~(pos[j] > Len(buf) + 1)
      BY <3>1
    <3>4. pos[j] \in Nat \ {0}
      BY <3>2 DEF Framed
    <3>5. QED
      BY <1>1, <3>3, <3>4
  <2>3. QED
    BY <2>1, <2>2
<1>7. whole \in first .. last /\ (whole = last \/ pos[whole + 2] > Len(buf) + 1)
  BY <1>5
<1> HIDE DEF T
<1>8. ASSUME NEW j \in first + 1 .. last, pos[j] <= Len(buf)
      PROVE  buf[pos[j]][1] = ms[j] /\ pos[j] + Size[ms[j]] = pos[j + 1]
  <2>1. pos[j] \in Nat /\ 1 \in 1 .. Size[ms[j]] /\ pos[j] + 1 - 1 = pos[j]
    BY <1>1, <1>2 DEF Framed
  <2>2. buf[pos[j]] = <<ms[j], 1>> /\ pos[j] + Size[ms[j]] = pos[j + 1]
    BY <1>1, <1>8, <2>1 DEF Framed
  <2>3. <<ms[j], 1>>[1] = ms[j]
    OBVIOUS
  <2>4. QED
    BY <2>2, <2>3
<1> DEFINE Suffix(d) == [i \in 1 .. d |-> pos[whole - d + i]]
           D == {d \in 0 .. whole - first : from[pos[whole + 1 - d]] = Suffix(d)}
<1>9. 0 \in D
  <2>1. pos[whole + 1] \in 1 .. Len(buf) + 1
    BY <1>1, <1>6, <1>7
  <2>2. ~WholeAt(buf, pos[whole + 1])
    <3>1. SUFFICES ASSUME pos[whole + 1] <= Len(buf)
                   PROVE  ~(pos[whole + 1] + Size[buf[pos[whole + 1]][1]] - 1 <= Len(buf))
      BY DEF WholeAt
    <3>2. whole # last
      BY <1>1, <2>1, <3>1 DEF Framed
    <3>3. whole + 1 \in first + 1 .. last /\ (whole + 1) + 1 = whole + 2
      BY <1>1, <1>7, <3>2
    <3>4. buf[pos[whole + 1]][1] = ms[whole + 1]
      BY <1>8, <3>1, <3>3
    <3>5. pos[whole + 1] + Size[ms[whole + 1]] = pos[whole + 2]
      BY <1>8, <3>1, <3>3
    <3>6. pos[whole + 2] > Len(buf) + 1
      BY <1>7, <3>2
    <3>7. Size[ms[whole + 1]] \in Nat
      BY <1>2, <3>3
    <3>8. QED
      BY <1>1, <2>1, <3>4, <3>5, <3>6, <3>7
  <2>3. from[pos[whole + 1]] = <<>>
    BY <1>4, <2>1, <2>2
  <2>4. whole + 1 - 0 = whole + 1 /\ 0 \in 0 .. whole - first
    BY <1>1, <1>7
  <2>5. Suffix(0) = <<>>
    OBVIOUS
  <2>6. QED
    BY <2>3, <2>4, <2>5
<1>10. ASSUME NEW d \in 0 .. (whole - first) - 1, d \in D
       PROVE  d + 1 \in D
  <2> DEFINE j == whole - d
  <2>1. j \in first + 1 .. whole /\ j + 1 = whole + 1 - d /\ j = whole + 1 - (d + 1)
    BY <1>1, <1>7
  <2>2. j \in first + 1 .. last /\ j + 1 \in first + 1 .. whole + 1 /\ j \in first + 1 .. whole + 1
    BY <1>1, <1>7, <2>1
  <2>3. from[pos[j + 1]] = Suffix(d)
    BY <1>10, <2>1
  <2> HIDE DEF j
  <2>4. Size[ms[j]] \in Nat \ {0} /\ pos[j + 1] = pos[j] + Size[ms[j]] /\ pos[j] \in 1 .. Len(buf) + 1
        /\ pos[j + 1] \in 1 .. Len(buf) + 1
    BY <1>2, <1>6, <2>2 DEF Framed
  <2>5. pos[j] <= Len(buf)
    BY <1>1, <2>4
  <2>6. buf[pos[j]][1] = ms[j]
    BY <1>8, <2>2, <2>5
  <2>7. WholeAt(buf, pos[j])
    BY <1>1, <2>4, <2>5, <2>6, SMTT(30) DEF WholeAt
  <2>8. from[pos[j]] = <<pos[j]>> \o Suffix(d)
    <3>1. from[pos[j]] = <<pos[j]>> \o from[pos[j] + Size[buf[pos[j]][1]]]
      BY <1>4, <2>4, <2>7
    <3>2. pos[j] + Size[buf[pos[j]][1]] = pos[j + 1]
      BY <2>4, <2>6
    <3> HIDE DEF Suffix
    <3>3. QED
      BY <2>3, <3>1, <3>2, Zenon
  <2>9. <<pos[j]>> \o Suffix(d) = Suffix(d + 1)
    <3>1. \A i \in 1 .. d : whole - d + i \in first + 1 .. last + 1
      BY <1>1, <1>7
    <3>2. \A i \in 1 .. d : pos[whole - d + i] \in Nat
      BY <3>1 DEF Framed
    <3>3. Suffix(d) \in Seq(Nat) /\ Len(Suffix(d)) = d /\ \A i \in 1 .. d : Suffix(d)[i] = pos[whole - d + i]
      BY <3>2
    <3>4. <<pos[j]>> \in Seq(Nat) /\ Len(<<pos[j]>>) = 1 /\ <<pos[j]>>[1] = pos[j]
      BY <2>4
    <3> HIDE DEF Suffix
    <3>5. /\ <<pos[j]>> \o Suffix(d) \in Seq(Nat)
          /\ Len(<<pos[j]>> \o Suffix(d)) = 1 + d
          /\ \A i \in 1 .. 1 + d : (<<pos[j]>> \o Suffix(d))[i] = IF i <= 1 THEN <<pos[j]>>[i] ELSE Suffix(d)[i - 1]
      BY <3>3, <3>4, ConcatProperties
    <3>6. \A i \in 1 .. 1 + d : (<<pos[j]>> \o Suffix(d))[i] = pos[whole - (d + 1) + i]
      <4> SUFFICES ASSUME NEW i \in 1 .. 1 + d
                   PROVE  (<<pos[j]>> \o Suffix(d))[i] = pos[whole - (d + 1) + i]
        OBVIOUS
      <4>1. CASE i = 1
        <5>1. whole - (d + 1) + i = j
          BY <1>1, <1>7, <2>1, <4>1
        <5>2. QED
          BY <3>4, <3>5, <4>1, <5>1
      <4>2. CASE i # 1
        <5>1. i - 1 \in 1 .. d /\ whole - (d + 1) + i = whole - d + (i - 1) /\ ~(i <= 1)
          BY <1>1, <1>7, <4>2
        <5>2. QED
          BY <3>3, <3>5, <5>1
      <4>3. QED
        BY <4>1, <4>2
    <3>7. <<pos[j]>> \o Suffix(d) = [i \in 1 .. 1 + d |-> (<<pos[j]>> \o Suffix(d))[i]]
      BY <3>5, LenProperties
    <3>8. 1 + d = d + 1
      OBVIOUS
    <3>9. QED
      BY <3>6, <3>7, <3>8 DEF Suffix
  <2>10. d + 1 \in 0 .. whole - first
    BY <1>1, <1>7
  <2>11. QED
    BY <2>1, <2>8, <2>9, <2>10
<1>11. whole - first \in D
  <2> HIDE DEF D
  <2>1. \A d \in 0 .. (whole - first) - 1 : d \in D => d + 1 \in D
    BY <1>10
  <2>2. whole - first \in Nat
    BY <1>1, <1>7
  <2>3. \A d \in 0 .. whole - first : d \in D
    BY <1>9, <2>1, <2>2, Climb
  <2>4. QED
    BY <2>2, <2>3
<1>12. whole + 1 - (whole - first) = first + 1 /\ whole - (whole - first) = first
  BY <1>1, <1>7
<1>13. Starts(buf) = Positions(pos, first, whole)
  BY <1>3, <1>11, <1>12 DEF Framed, Positions
<1>14. pos[whole + 1] <= Len(buf) + 1
  BY <1>1, <1>6, <1>7
<1>15. QED
  BY <1>7, <1>13, <1>14

(* The wire of a message, and where it is cut out of a buffer.             *)
LEMMA WireProperties ==
  ASSUME NEW m \in Sent
  PROVE  /\ Wire(m) \in Seq(Cells)
         /\ Len(Wire(m)) = Size[m]
         /\ \A k \in 1 .. Size[m] : Wire(m)[k] = <<m, k>>
         /\ 1 \in 1 .. Len(Wire(m)) /\ Wire(m)[1][1] = m
<1>1. Size[m] \in Nat \ {0}
  BY SizeType
<1>2. \A k \in 1 .. Size[m] : <<m, k>> \in Cells
  BY DEF Cells, Sent
<1>3. Wire(m) \in [1 .. Size[m] -> Cells] /\ \A k \in 1 .. Size[m] : Wire(m)[k] = <<m, k>>
  BY <1>2 DEF Wire
<1>4. Wire(m) \in Seq(Cells) /\ Len(Wire(m)) = Size[m]
  BY <1>1, <1>3
<1>5. 1 \in 1 .. Size[m] /\ <<m, 1>>[1] = m
  BY <1>1
<1>6. QED
  BY <1>3, <1>4, <1>5

(* What lies from a cell on.                                               *)
Beyond(buf, at) == SubSeq(buf, at, Len(buf))

(* Of a stretch of a stream the whole messages are what is dispatched, and *)
(* what lies beyond them is kept for the next read.                        *)
LEMMA ParseOfFramed ==
  ASSUME NEW buf \in Seq(Cells), NEW ms \in Seq(Sent), NEW pos,
         NEW last \in 0 .. Len(ms), NEW first \in 0 .. last, Framed(buf, ms, first, last, pos)
  PROVE  \E whole \in first .. last :
           /\ pos[whole + 1] <= Len(buf) + 1
           /\ WholeMessages(buf) = Wires(ms, first, whole)
           /\ Partial(buf) = Beyond(buf, pos[whole + 1])
<1>1. Len(buf) \in Nat /\ Len(ms) \in Nat /\ first \in Nat /\ last \in Nat
  BY LenProperties
<1>2. PICK whole \in first .. last :
        /\ pos[whole + 1] <= Len(buf) + 1
        /\ Starts(buf) = Positions(pos, first, whole)
  BY StartsOfFramed
<1>3. ASSUME NEW i \in 1 .. whole - first
      PROVE  /\ buf[Starts(buf)[i]][1] = ms[first + i]
             /\ Starts(buf)[i] + Size[ms[first + i]] = pos[first + i + 1]
             /\ SubSeq(buf, Starts(buf)[i], Starts(buf)[i] + Size[ms[first + i]] - 1) = Wire(ms[first + i])
  <2> DEFINE j == first + i
             at == pos[first + i]
  <2>1. Starts(buf)[i] = at
    BY <1>2 DEF Positions
  <2>2. j \in first + 1 .. last /\ j \in 1 .. Len(ms) /\ j + 1 \in first + 1 .. whole + 1 /\ j + 1 <= whole + 1
        /\ j + 1 \in first + 1 .. last + 1 /\ j \in first + 1 .. last + 1 /\ whole + 1 \in first + 1 .. last + 1
    BY <1>1, <1>2
  <2>3. ms[j] \in Sent
    BY <2>2, ElementOfSeq
  <2>4. Size[ms[j]] \in Nat \ {0}
    BY <2>3, SizeType
  <2>5. at \in Nat \ {0} /\ pos[j + 1] = at + Size[ms[j]] /\ pos[j + 1] <= pos[whole + 1]
    BY <2>2 DEF Framed
  <2>6. pos[whole + 1] \in Nat
    BY <2>2 DEF Framed
  <2>7. \A k \in 1 .. Size[ms[j]] : at + k - 1 \in 1 .. Len(buf) /\ buf[at + k - 1] = <<ms[j], k>>
    <3> HIDE DEF j
    <3>1. \A k \in 1 .. Size[ms[j]] : at + k - 1 \in 1 .. Len(buf)
      <4>1. at + Size[ms[j]] <= Len(buf) + 1
        BY <1>1, <1>2, <2>4, <2>5, <2>6 DEF j
      <4> HIDE DEF at
      <4>2. QED
        BY <1>1, <2>4, <2>5, <4>1
    <3>2. \A k \in 1 .. Size[ms[j]] : pos[j] + k - 1 <= Len(buf) => buf[pos[j] + k - 1] = <<ms[j], k>>
      BY <2>2 DEF Framed
    <3>3. at = pos[j]
      BY DEF j
    <3>4. QED
      BY <1>1, <3>1, <3>2, <3>3
  <2> HIDE DEF at
  <2>8. buf[at][1] = ms[j]
    <3>1. 1 \in 1 .. Size[ms[j]] /\ at + 1 - 1 = at
      BY <2>4, <2>5
    <3>2. buf[at] = <<ms[j], 1>>
      BY <2>7, <3>1
    <3>3. QED
      BY <3>2
  <2>9. SubSeq(buf, at, at + Size[ms[j]] - 1) = Wire(ms[j])
    <3> DEFINE part == SubSeq(buf, at, at + Size[ms[j]] - 1)
    <3>1. \A x \in at .. at + Size[ms[j]] - 1 : buf[x] \in Cells
      <4> SUFFICES ASSUME NEW x \in at .. at + Size[ms[j]] - 1
                   PROVE  buf[x] \in Cells
        OBVIOUS
      <4>1. x - at + 1 \in 1 .. Size[ms[j]] /\ at + (x - at + 1) - 1 = x
        BY <2>4, <2>5
      <4>2. x \in 1 .. Len(buf)
        BY <2>7, <4>1
      <4>3. QED
        BY <4>2, ElementOfSeq
    <3>2. at \in Int /\ at + Size[ms[j]] - 1 \in Int /\ at <= at + Size[ms[j]] - 1
      BY <2>4, <2>5, SMTT(30)
    <3>3. /\ part \in Seq(Cells)
          /\ Len(part) = (at + Size[ms[j]] - 1) - at + 1
          /\ \A k \in 1 .. (at + Size[ms[j]] - 1) - at + 1 : part[k] = buf[at + k - 1]
      BY <3>1, <3>2, SubSeqProperties
    <3> HIDE DEF part, j
    <3>4. (at + Size[ms[j]] - 1) - at + 1 = Size[ms[j]]
      BY <2>4, <2>5
    <3>5. \A k \in 1 .. Len(part) : part[k] = Wire(ms[j])[k]
      <4>1. \A k \in 1 .. Size[ms[j]] : part[k] = <<ms[j], k>>
        BY <2>7, <3>3, <3>4
      <4>2. \A k \in 1 .. Size[ms[j]] : Wire(ms[j])[k] = <<ms[j], k>>
        BY <2>3, WireProperties
      <4>3. QED
        BY <3>3, <3>4, <4>1, <4>2
    <3>6. Len(part) = Len(Wire(ms[j])) /\ Wire(ms[j]) \in Seq(Cells)
      BY <2>3, <3>3, <3>4, WireProperties
    <3>7. part = Wire(ms[j])
      BY <3>3, <3>5, <3>6, SeqEqual
    <3>8. QED
      BY <3>7 DEF part
  <2>10. QED
    BY <2>1, <2>5, <2>8, <2>9
<1>4. DOMAIN Starts(buf) = 1 .. whole - first
  BY <1>2 DEF Positions
<1>5. WholeMessages(buf) = Wires(ms, first, whole)
  <2>1. WholeMessages(buf) =
          [i \in 1 .. whole - first |->
             SubSeq(buf, Starts(buf)[i], Starts(buf)[i] + Size[buf[Starts(buf)[i]][1]] - 1)]
    BY <1>4 DEF WholeMessages
  <2>2. QED
    BY <1>3, <2>1 DEF Wires
<1>6. Partial(buf) = Beyond(buf, pos[whole + 1])
  <2>1. CASE whole = first
    <3>1. Starts(buf) = <<>>
      BY <1>1, <1>2, <2>1 DEF Positions
    <3>2. pos[whole + 1] = 1
      BY <2>1 DEF Framed
    <3>3. SubSeq(buf, 1, Len(buf)) = buf
      BY SubSeqFull
    <3>4. QED
      BY <3>1, <3>2, <3>3 DEF Partial, Beyond
  <2>2. CASE whole # first
    <3>1. whole - first \in Nat \ {0} /\ whole - first \in 1 .. whole - first
          /\ first + (whole - first) = whole
      BY <1>1, <1>2, <2>2
    <3>2. \A i \in 1 .. whole - first : first + i \in first + 1 .. last + 1
      BY <1>1, <1>2
    <3>3. \A i \in 1 .. whole - first : pos[first + i] \in Nat
      BY <3>2 DEF Framed
    <3>4. Starts(buf) \in Seq(Nat) /\ Len(Starts(buf)) = whole - first
      BY <1>2, <3>1, <3>3 DEF Positions
    <3>5. Starts(buf) # <<>>
      BY <3>1, <3>4, EmptySeq
    <3>6. Last(Starts(buf)) = Starts(buf)[whole - first]
      BY <3>4 DEF Last
    <3>7. Last(Starts(buf)) + Size[buf[Last(Starts(buf))][1]] = pos[whole + 1]
      BY <1>3, <3>1, <3>6
    <3>8. QED
      BY <3>5, <3>7 DEF Partial, Beyond
  <2>3. QED
    BY <2>1, <2>2
<1>7. QED
  BY <1>2, <1>5, <1>6

-----------------------------------------------------------------------------
(* What happens to a framed buffer                                         *)

(* Cells at its end get lost, or have not been read yet; the stream grows. *)
LEMMA FramedPrefix ==
  ASSUME NEW buf \in Seq(Cells), NEW short \in Seq(Cells),
         NEW ms \in Seq(Sent), NEW more \in Seq(Sent), NEW pos,
         NEW last \in 0 .. Len(ms), NEW first \in 0 .. last, Framed(buf, ms, first, last, pos),
         Len(short) <= Len(buf), \A i \in 1 .. Len(short) : short[i] = buf[i],
         \A j \in 1 .. Len(ms) : more[j] = ms[j]
  PROVE  Framed(short, more, first, last, pos)
<1>1. Len(buf) \in Nat /\ Len(short) \in Nat /\ Len(ms) \in Nat /\ first \in Nat /\ last \in Nat
  BY LenProperties
<1>2. Len(short) < pos[last + 1]
  <2>1. last + 1 \in first + 1 .. last + 1
    BY <1>1
  <2>2. pos[last + 1] \in Nat /\ Len(buf) < pos[last + 1]
    BY <2>1 DEF Framed
  <2>3. QED
    BY <1>1, <2>2
<1>3. ASSUME NEW j \in first + 1 .. last
      PROVE  /\ pos[j + 1] = pos[j] + Size[more[j]]
             /\ \A k \in 1 .. Size[more[j]] :
                  pos[j] + k - 1 <= Len(short) => short[pos[j] + k - 1] = <<more[j], k>>
  <2>1. j \in 1 .. Len(ms) /\ j \in first + 1 .. last + 1
    BY <1>1
  <2>2. more[j] = ms[j] /\ ms[j] \in Sent
    BY <2>1, ElementOfSeq
  <2>3. pos[j] \in Nat \ {0} /\ Size[ms[j]] \in Nat
    BY <2>1, <2>2, SizeType DEF Framed
  <2>4. pos[j + 1] = pos[j] + Size[ms[j]]
    BY DEF Framed
  <2>5. ASSUME NEW k \in 1 .. Size[ms[j]], pos[j] + k - 1 <= Len(short)
        PROVE  short[pos[j] + k - 1] = <<ms[j], k>>
    <3>1. pos[j] + k - 1 \in 1 .. Len(short) /\ pos[j] + k - 1 <= Len(buf)
      BY <1>1, <2>3, <2>5
    <3>2. buf[pos[j] + k - 1] = <<ms[j], k>>
      BY <3>1 DEF Framed
    <3>3. QED
      BY <3>1, <3>2
  <2>6. QED
    BY <2>2, <2>4, <2>5
<1>4. QED
  BY <1>2, <1>3 DEF Framed

(* Where the messages begin when those up to whole are taken off.          *)
Shifted(pos, whole, last) == [j \in whole + 1 .. last + 1 |-> pos[j] - pos[whole + 1] + 1]

(* What is left then is a stretch of the stream again, and begins with the *)
(* next message.                                                           *)
LEMMA FramedRest ==
  ASSUME NEW buf \in Seq(Cells), NEW rest \in Seq(Cells), NEW ms \in Seq(Sent), NEW pos,
         NEW last \in 0 .. Len(ms), NEW first \in 0 .. last, Framed(buf, ms, first, last, pos),
         NEW whole \in first .. last, Len(rest) = Len(buf) - pos[whole + 1] + 1,
         \A i \in 1 .. Len(rest) : rest[i] = buf[pos[whole + 1] - 1 + i]
  PROVE  Framed(rest, ms, whole, last, Shifted(pos, whole, last))
<1> DEFINE new == Shifted(pos, whole, last)
<1>1. /\ Len(buf) \in Nat /\ Len(rest) \in Nat /\ Len(ms) \in Nat
      /\ first \in Nat /\ last \in Nat /\ whole \in Nat /\ first <= whole /\ whole <= last
  BY LenProperties
<1>2. \A j \in whole + 1 .. last + 1 :
        /\ j \in first + 1 .. last + 1
        /\ pos[j] \in Nat \ {0}
        /\ pos[whole + 1] \in Nat \ {0}
        /\ pos[whole + 1] <= pos[j]
        /\ new[j] = pos[j] - pos[whole + 1] + 1
  <2> SUFFICES ASSUME NEW j \in whole + 1 .. last + 1
               PROVE  /\ j \in first + 1 .. last + 1
                      /\ pos[j] \in Nat \ {0}
                      /\ pos[whole + 1] \in Nat \ {0}
                      /\ pos[whole + 1] <= pos[j]
                      /\ new[j] = pos[j] - pos[whole + 1] + 1
    OBVIOUS
  <2>1. j \in first + 1 .. last + 1 /\ whole + 1 \in first + 1 .. last + 1 /\ whole + 1 <= j
    BY <1>1
  <2>2. QED
    BY <2>1 DEF Framed, Shifted
<1>3. new[whole + 1] = 1 /\ \A j \in whole + 1 .. last + 1 : new[j] \in Nat \ {0}
  <2> HIDE DEF new
  <2>1. ASSUME NEW j \in whole + 1 .. last + 1
        PROVE  new[j] \in Nat \ {0}
    <3>1. PICK a \in Nat, b \in Nat : b <= a /\ new[j] = a - b + 1
      <4>1. /\ pos[j] \in Nat /\ pos[whole + 1] \in Nat /\ pos[whole + 1] <= pos[j]
            /\ new[j] = pos[j] - pos[whole + 1] + 1
        BY <1>2
      <4>2. QED
        BY <4>1
    <3>2. a - b + 1 \in Nat \ {0}
      BY <3>1
    <3>3. QED
      BY <3>1, <3>2
  <2>2. whole + 1 \in whole + 1 .. last + 1
    BY <1>1
  <2>3. new[whole + 1] = pos[whole + 1] - pos[whole + 1] + 1 /\ pos[whole + 1] \in Nat
    BY <1>2, <2>2
  <2>4. new[whole + 1] = 1
    BY <2>3
  <2>5. QED
    BY <2>1, <2>4
<1>4. ASSUME NEW i \in whole + 1 .. last + 1, NEW j \in whole + 1 .. last + 1, i <= j
      PROVE  new[i] <= new[j]
  <2>1. pos[i] <= pos[j]
    BY <1>2, <1>4 DEF Framed
  <2> HIDE DEF new
  <2>2. QED
    BY <1>2, <2>1, SMTT(30)
<1>5. ASSUME NEW j \in whole + 1 .. last
      PROVE  /\ new[j + 1] = new[j] + Size[ms[j]]
             /\ \A k \in 1 .. Size[ms[j]] :
                  new[j] + k - 1 <= Len(rest) => rest[new[j] + k - 1] = <<ms[j], k>>
  <2>1. /\ j \in 1 .. Len(ms) /\ j \in first + 1 .. last
        /\ j \in whole + 1 .. last + 1 /\ j + 1 \in whole + 1 .. last + 1
    BY <1>1
  <2>2. Size[ms[j]] \in Nat
    BY <2>1, ElementOfSeq, SizeType
  <2>3. pos[j + 1] = pos[j] + Size[ms[j]]
    BY <2>1 DEF Framed
  <2> HIDE DEF new
  <2>4. PICK a \in Nat, b \in Nat, size \in Nat : a = pos[j] /\ b = pos[whole + 1] /\ size = Size[ms[j]]
    BY <1>2, <2>1, <2>2
  <2>5. b \in Nat \ {0} /\ b <= a
    BY <1>2, <2>1, <2>4
  <2>6. new[j] = a - b + 1 /\ new[j + 1] = (a + size) - b + 1
    BY <1>2, <2>1, <2>3, <2>4
  <2>7. (a + size) - b + 1 = (a - b + 1) + size
    OBVIOUS
  <2>8. new[j + 1] = new[j] + Size[ms[j]]
    BY <2>4, <2>6, <2>7
  <2>9. ASSUME NEW k \in 1 .. Size[ms[j]], new[j] + k - 1 <= Len(rest)
        PROVE  rest[new[j] + k - 1] = <<ms[j], k>>
    <3>0. k \in Nat \ {0} /\ (a - b + 1) + k - 1 <= Len(rest) /\ Len(rest) = Len(buf) - b + 1
      <4>1. k \in Nat \ {0}
        BY <2>2
      <4>2. Len(rest) = Len(buf) - b + 1
        BY <2>4
      <4>3. (a - b + 1) + k - 1 <= Len(rest)
        BY <2>6, <2>9
      <4>4. QED
        BY <4>1, <4>2, <4>3
    <3>1. (a - b + 1) + k - 1 \in 1 .. Len(rest)
      BY <1>1, <2>5, <3>0
    <3>2. b - 1 + ((a - b + 1) + k - 1) = a + k - 1 /\ a + k - 1 <= Len(buf)
      BY <1>1, <2>5, <3>0
    <3>3. buf[a + k - 1] = <<ms[j], k>>
      BY <2>1, <2>4, <3>2 DEF Framed
    <3>4. rest[(a - b + 1) + k - 1] = buf[b - 1 + ((a - b + 1) + k - 1)]
      BY <2>4, <3>1
    <3>5. QED
      BY <2>6, <3>2, <3>3, <3>4
  <2>10. QED
    BY <2>8, <2>9
<1>6. Len(rest) < new[last + 1]
  <2>1. last + 1 \in whole + 1 .. last + 1
    BY <1>1
  <2>2. Len(buf) < pos[last + 1]
    BY DEF Framed
  <2> HIDE DEF new
  <2>3. QED
    BY <1>1, <1>2, <2>1, <2>2
<1>7. QED
  BY <1>3, <1>4, <1>5, <1>6 DEF Framed

(* Where they begin when one more is written behind them.                  *)
Extended(pos, last, size) == [j \in 1 .. last + 2 |-> IF j = last + 2 THEN pos[last + 1] + size ELSE pos[j]]

(* What is in the pipe stays a stretch of the stream when the next message *)
(* is written, and ends with that message.                                 *)
LEMMA FramedWrite ==
  ASSUME NEW buf \in Seq(Cells), NEW ms \in Seq(Sent), NEW pos,
         NEW last \in 0 .. Len(ms) - 1, NEW first \in 0 .. last, Framed(buf, ms, first, last, pos),
         pos[last + 1] = Len(buf) + 1
  PROVE  LET longer == buf \o Wire(ms[last + 1])
             new    == Extended(pos, last, Size[ms[last + 1]])
         IN  Framed(longer, ms, first, last + 1, new) /\ new[(last + 1) + 1] = Len(longer) + 1
<1> DEFINE m == ms[last + 1]
           longer == buf \o Wire(m)
           new == Extended(pos, last, Size[m])
<1>1. Len(buf) \in Nat /\ Len(ms) \in Nat /\ first \in Nat /\ last \in Nat
  BY LenProperties
<1>2. m \in Sent
  <2>1. last + 1 \in 1 .. Len(ms)
    BY <1>1
  <2>2. QED
    BY <2>1, ElementOfSeq
<1> HIDE DEF m
<1>3. Size[m] \in Nat \ {0}
  BY <1>2, SizeType
<1>4. Wire(m) \in Seq(Cells) /\ Len(Wire(m)) = Size[m] /\ \A k \in 1 .. Size[m] : Wire(m)[k] = <<m, k>>
  BY <1>2, WireProperties
<1>5. /\ longer \in Seq(Cells) /\ Len(longer) = Len(buf) + Size[m]
      /\ \A i \in 1 .. Len(buf) + Size[m] :
           longer[i] = IF i <= Len(buf) THEN buf[i] ELSE Wire(m)[i - Len(buf)]
  <2>1. /\ longer \in Seq(Cells) /\ Len(longer) = Len(buf) + Len(Wire(m))
        /\ \A i \in 1 .. Len(buf) + Len(Wire(m)) :
             longer[i] = IF i <= Len(buf) THEN buf[i] ELSE Wire(m)[i - Len(buf)]
    BY <1>4, ConcatProperties
  <2> HIDE DEF longer
  <2>2. QED
    BY <1>4, <2>1
<1> HIDE DEF longer
<1>6. /\ \A j \in first + 1 .. last + 1 : new[j] = pos[j] /\ pos[j] \in Nat \ {0}
      /\ new[last + 2] = Len(buf) + 1 + Size[m]
  <2>1. \A j \in first + 1 .. last + 1 : j \in 1 .. last + 2 /\ j # last + 2
    BY <1>1
  <2>2. last + 2 \in 1 .. last + 2
    BY <1>1
  <2>3. \A j \in first + 1 .. last + 1 : new[j] = pos[j]
    BY <2>1 DEF Extended
  <2>4. new[last + 2] = pos[last + 1] + Size[m]
    BY <2>2 DEF Extended
  <2> HIDE DEF new
  <2>5. QED
    BY <2>3, <2>4 DEF Framed
<1> HIDE DEF new
<1>7. \A j \in first + 1 .. last + 1 : pos[j] <= Len(buf) + 1
  <2>1. \A j \in first + 1 .. last + 1 : j <= last + 1 /\ last + 1 \in first + 1 .. last + 1
    BY <1>1
  <2>2. QED
    BY <2>1 DEF Framed
<1>8. (last + 1) + 1 = last + 2
  BY <1>1
<1>9. \A j \in first + 1 .. last + 2 : j \in first + 1 .. last + 1 \/ j = last + 2
  BY <1>1
<1>10. /\ new[first + 1] = 1
       /\ \A j \in first + 1 .. last + 2 : new[j] \in Nat \ {0}
  <2>1. first + 1 \in first + 1 .. last + 1
    BY <1>1
  <2>2. pos[first + 1] = 1
    BY DEF Framed
  <2>3. new[first + 1] = 1
    BY <1>6, <2>1, <2>2
  <2>4. new[last + 2] \in Nat \ {0}
    BY <1>1, <1>3, <1>6
  <2>5. QED
    BY <1>6, <1>9, <2>3, <2>4
<1>11. ASSUME NEW i \in first + 1 .. last + 2, NEW j \in first + 1 .. last + 2, i <= j
       PROVE  new[i] <= new[j]
  <2>1. CASE j = last + 2 /\ i # last + 2
    BY <1>1, <1>3, <1>6, <1>7, <1>9, <2>1
  <2>2. CASE j = last + 2 /\ i = last + 2
    BY <1>1, <1>3, <1>6, <2>2
  <2>3. CASE j # last + 2
    <3>1. i \in first + 1 .. last + 1 /\ j \in first + 1 .. last + 1
      BY <1>1, <1>11, <2>3
    <3>2. pos[i] <= pos[j]
      BY <1>11, <3>1 DEF Framed
    <3>3. QED
      BY <1>6, <3>1, <3>2
  <2>4. QED
    BY <2>1, <2>2, <2>3
<1>12. ASSUME NEW j \in first + 1 .. last + 1
       PROVE  /\ new[j + 1] = new[j] + Size[ms[j]]
              /\ \A k \in 1 .. Size[ms[j]] :
                   new[j] + k - 1 <= Len(longer) => longer[new[j] + k - 1] = <<ms[j], k>>
  <2>1. CASE j = last + 1
    <3>1. ms[j] = m /\ new[j] = Len(buf) + 1 /\ new[j + 1] = Len(buf) + 1 + Size[m]
      BY <1>6, <1>8, <2>1 DEF m
    <3>2. ASSUME NEW k \in 1 .. Size[m]
          PROVE  longer[new[j] + k - 1] = <<m, k>>
      <4>1. PICK l \in Nat, n \in Nat : l = Len(buf) /\ n = Size[m]
        BY <1>1, <1>3
      <4>2. k \in 1 .. n /\ new[j] + k - 1 = (l + 1) + k - 1
        BY <3>1, <4>1, Zenon
      <4>3. (l + 1) + k - 1 = l + k /\ l + k \in 1 .. l + n /\ ~(l + k <= l) /\ (l + k) - l = k
        BY <4>2
      <4>4. longer[l + k] = Wire(m)[(l + k) - l]
        BY <1>5, <4>1, <4>3, Zenon
      <4>5. Wire(m)[k] = <<m, k>>
        BY <1>4
      <4>6. QED
        BY <4>2, <4>3, <4>4, <4>5, Zenon
    <3>3. QED
      BY <1>1, <1>3, <3>1, <3>2
  <2>2. CASE j # last + 1
    <3>1. j \in first + 1 .. last /\ j \in 1 .. Len(ms) /\ j + 1 \in first + 1 .. last + 1
      BY <1>1, <2>2
    <3>2. Size[ms[j]] \in Nat
      BY <3>1, ElementOfSeq, SizeType
    <3>3. pos[j + 1] = pos[j] + Size[ms[j]] /\ pos[j + 1] <= Len(buf) + 1
      BY <1>7, <3>1 DEF Framed
    <3>4. new[j] = pos[j] /\ new[j + 1] = pos[j + 1] /\ pos[j] \in Nat \ {0}
      BY <1>6, <3>1
    <3>5. ASSUME NEW k \in 1 .. Size[ms[j]]
          PROVE  longer[new[j] + k - 1] = <<ms[j], k>>
      <4>0. PICK a \in Nat \ {0}, size \in Nat :
              a = pos[j] /\ size = Size[ms[j]] /\ a + size <= Len(buf) + 1
        BY <3>2, <3>3, <3>4
      <4>1. a + k - 1 \in 1 .. Len(buf) /\ a + k - 1 <= Len(buf)
        <5>1. k \in Nat \ {0} /\ k <= size /\ a + size <= Len(buf) + 1
          BY <4>0
        <5>2. QED
          BY <1>1, <5>1
      <4>2. buf[a + k - 1] = <<ms[j], k>>
        BY <3>1, <4>0, <4>1 DEF Framed
      <4>3. a + k - 1 \in 1 .. Len(buf) + Size[m]
        BY <1>1, <1>3, <4>1
      <4>4. longer[a + k - 1] = buf[a + k - 1]
        BY <1>5, <4>1, <4>3
      <4>5. QED
        BY <3>4, <4>0, <4>2, <4>4
    <3>6. QED
      BY <3>3, <3>4, <3>5
  <2>3. QED
    BY <2>1, <2>2
<1>13. new[last + 2] = Len(longer) + 1 /\ Len(longer) < new[last + 2]
  BY <1>1, <1>3, <1>5, <1>6
<1>14. Framed(longer, ms, first, last + 1, new)
  BY <1>8, <1>10, <1>11, <1>12, <1>13 DEF Framed
<1>15. QED
  BY <1>8, <1>13, <1>14 DEF longer, new, m

-----------------------------------------------------------------------------
(* What the operations do to a stream                                      *)

(* What is posted to a loop.                                               *)
Tasks == Seq(Message \union {CloseTask})

(* The sender closes: what its last write had not brought over is lost.    *)
LEMMA InStreamEnds ==
  ASSUME NEW ms \in Seq(Sent), NEW got \in Seq(Seq(Cells)), NEW c \in Channel, NEW d \in Channel,
         NEW tasks, NEW over \in Seq(Cells), NEW reads \in BOOLEAN,
         InStream(ms, got, c, tasks, over, reads),
         d.pipe_ = "closed", NEW lost \in 0 .. Len(c.wire), d.wire = SubSeq(c.wire, 1, Len(c.wire) - lost)
  PROVE  InStream(ms, got, d, tasks, over, reads)
<1>1. PICK n \in Nat, b \in Nat : \E pos :
        Queued(ms, c, tasks, n, b) /\ Arrives(ms, got, c, over, reads, n, pos)
  BY DEF InStream
<1>2. PICK pos : Arrives(ms, got, c, over, reads, n, pos)
  BY <1>1
<1>3. Queued(ms, d, tasks, n, b)
  BY DEF Queued
<1>4. ASSUME reads
      PROVE  Framed(over \o d.wire, ms, Len(got), n, pos)
  <2>1. c.wire \in Seq(Cells) /\ d.wire \in Seq(Cells)
    BY DEF Channel
  <2>2. Len(c.wire) \in Nat /\ Len(over) \in Nat /\ Len(got) \in Nat /\ Len(ms) \in Nat
    BY <2>1, LenProperties
  <2>3. \A i \in 1 .. Len(c.wire) - lost : c.wire[i] \in Cells
    <3>1. \A i \in 1 .. Len(c.wire) - lost : i \in 1 .. Len(c.wire)
      BY <2>2
    <3>2. QED
      BY <2>1, <3>1, ElementOfSeq
  <2>4. Len(d.wire) = Len(c.wire) - lost /\ \A i \in 1 .. Len(c.wire) - lost : d.wire[i] = c.wire[i]
    <3> DEFINE to == Len(c.wire) - lost
    <3>1. to \in Nat
      BY <2>2
    <3> HIDE DEF to
    <3>2. /\ Len(SubSeq(c.wire, 1, to)) = IF 1 <= to THEN to - 1 + 1 ELSE 0
          /\ \A i \in 1 .. to - 1 + 1 : SubSeq(c.wire, 1, to)[i] = c.wire[1 + i - 1]
      BY <2>3, <3>1, SubSeqProperties DEF to
    <3>3. (to - 1 + 1 = to) /\ (1 <= to \/ to = 0) /\ \A i \in 1 .. to : 1 + i - 1 = i
      BY <3>1
    <3>4. d.wire = SubSeq(c.wire, 1, to)
      BY DEF to
    <3>5. Len(d.wire) = to /\ \A i \in 1 .. to : d.wire[i] = c.wire[i]
      BY <3>2, <3>3, <3>4
    <3>6. QED
      BY <3>5 DEF to
  <2>5. /\ over \o c.wire \in Seq(Cells) /\ Len(over \o c.wire) = Len(over) + Len(c.wire)
        /\ \A i \in 1 .. Len(over) + Len(c.wire) :
             (over \o c.wire)[i] = IF i <= Len(over) THEN over[i] ELSE c.wire[i - Len(over)]
    BY <2>1, ConcatProperties
  <2>6. /\ over \o d.wire \in Seq(Cells) /\ Len(over \o d.wire) = Len(over) + (Len(c.wire) - lost)
        /\ \A i \in 1 .. Len(over) + (Len(c.wire) - lost) :
             (over \o d.wire)[i] = IF i <= Len(over) THEN over[i] ELSE d.wire[i - Len(over)]
    <3>1. /\ over \o d.wire \in Seq(Cells) /\ Len(over \o d.wire) = Len(over) + Len(d.wire)
          /\ \A i \in 1 .. Len(over) + Len(d.wire) :
               (over \o d.wire)[i] = IF i <= Len(over) THEN over[i] ELSE d.wire[i - Len(over)]
      BY <2>1, ConcatProperties
    <3>2. QED
      BY <2>4, <3>1
  <2>7. \A i \in 1 .. Len(over \o d.wire) : (over \o d.wire)[i] = (over \o c.wire)[i]
    <3> SUFFICES ASSUME NEW i \in 1 .. Len(over \o d.wire)
                 PROVE  (over \o d.wire)[i] = (over \o c.wire)[i]
      OBVIOUS
    <3>1. i \in 1 .. Len(over) + (Len(c.wire) - lost) /\ i \in 1 .. Len(over) + Len(c.wire)
      BY <2>2, <2>6
    <3>2. CASE i <= Len(over)
      BY <2>5, <2>6, <3>1, <3>2
    <3>3. CASE ~(i <= Len(over))
      <4>1. i - Len(over) \in 1 .. Len(c.wire) - lost
        BY <2>2, <3>1, <3>3
      <4>2. QED
        BY <2>4, <2>5, <2>6, <3>1, <3>3, <4>1
    <3>4. QED
      BY <3>2, <3>3
  <2>8. Len(over \o d.wire) <= Len(over \o c.wire)
    BY <2>2, <2>5, <2>6
  <2>9. Framed(over \o c.wire, ms, Len(got), n, pos) /\ n \in 0 .. Len(ms) /\ Len(got) \in 0 .. n
    BY <1>2, <1>4, <2>2 DEF Arrives
  <2>10. \A j \in 1 .. Len(ms) : ms[j] = ms[j]
    OBVIOUS
  <2>11. QED
    BY <2>5, <2>6, <2>7, <2>8, <2>9, <2>10, FramedPrefix
<1>5. Arrives(ms, got, d, over, reads, n, pos)
  BY <1>2, <1>4 DEF Arrives
<1>6. QED
  BY <1>3, <1>5 DEF InStream

(* The receiver goes on as it was, or closes and will read no more.        *)
LEMMA InStreamStops ==
  ASSUME NEW ms, NEW got, NEW c, NEW d, NEW tasks, NEW over, NEW over2, NEW reads, NEW reads2,
         InStream(ms, got, c, tasks, over, reads),
         reads2 => reads /\ over2 = over /\ d = c,
         d.pipe_ = c.pipe_, d.output_pending = c.output_pending, d.output_queue_ = c.output_queue_,
         c.wire = <<>> => d.wire = <<>>
  PROVE  InStream(ms, got, d, tasks, over2, reads2)
<1>1. ASSUME NEW n, NEW b, Queued(ms, c, tasks, n, b)
      PROVE  Queued(ms, d, tasks, n, b)
  <2>1. CASE c.pipe_ = "none"
    BY <1>1, <2>1 DEF Queued
  <2>2. CASE c.pipe_ # "none"
    BY <1>1, <2>2 DEF Queued
  <2>3. QED
    BY <2>1, <2>2
<1>2. ASSUME NEW n, NEW pos, Arrives(ms, got, c, over, reads, n, pos)
      PROVE  Arrives(ms, got, d, over2, reads2, n, pos)
  BY <1>2 DEF Arrives
<1>3. QED
  BY <1>1, <1>2 DEF InStream

(* Nothing the stream is about changes in the sender.                      *)
LEMMA InStreamStays ==
  ASSUME NEW ms, NEW got, NEW c, NEW d, NEW tasks, NEW over, NEW reads,
         InStream(ms, got, c, tasks, over, reads),
         d.pipe_ = c.pipe_, d.output_pending = c.output_pending,
         d.output_queue_ = c.output_queue_, d.wire = c.wire
  PROVE  InStream(ms, got, d, tasks, over, reads)
<1>1. ASSUME NEW n, NEW b, Queued(ms, c, tasks, n, b)
      PROVE  Queued(ms, d, tasks, n, b)
  BY <1>1 DEF Queued
<1>2. ASSUME NEW n, NEW pos, Arrives(ms, got, c, over, reads, n, pos)
      PROVE  Arrives(ms, got, d, over, reads, n, pos)
  BY <1>2 DEF Arrives
<1>3. QED
  BY <1>1, <1>2 DEF InStream

(* A closed sender goes on running its tasks.                              *)
LEMMA InStreamIgnores ==
  ASSUME NEW ms, NEW got, NEW c, NEW d, NEW tasks, NEW tasks2, NEW over, NEW reads,
         InStream(ms, got, c, tasks, over, reads),
         c.pipe_ = "closed", d.pipe_ = "closed", d.wire = c.wire
  PROVE  InStream(ms, got, d, tasks2, over, reads)
BY DEF InStream, Queued, Arrives

(* The pipe is created, with the HELLO in its queue.                       *)
LEMMA InStreamBegins ==
  ASSUME NEW ms, NEW got, NEW c, NEW d, NEW tasks, NEW over, NEW reads,
         InStream(ms, got, c, tasks, over, reads),
         c.pipe_ = "none", d.pipe_ = "open", d.output_pending = c.output_pending,
         d.output_queue_ = <<Hello>>, d.wire = c.wire
  PROVE  InStream(ms, got, d, tasks, over, reads)
<1>1. PICK n \in Nat, b \in Nat : \E pos :
        Queued(ms, c, tasks, n, b) /\ Arrives(ms, got, c, over, reads, n, pos)
  BY DEF InStream
<1>2. PICK pos : Arrives(ms, got, c, over, reads, n, pos)
  BY <1>1
<1>3. n = 0 /\ ms = <<Hello>> /\ tasks = <<>> /\ ~c.output_pending
  BY <1>1 DEF Queued
<1>4. Queued(ms, d, tasks, n, n)
  BY <1>3 DEF Queued
<1>5. Arrives(ms, got, d, over, reads, n, pos)
  BY <1>2 DEF Arrives
<1>6. QED
  BY <1>4, <1>5 DEF InStream

(* A stream is longer than any part of it that is dispatched or written.   *)
LEMMA WiresOfLonger ==
  ASSUME NEW ms \in Seq(Sent), NEW m \in Sent, NEW k \in 0 .. Len(ms)
  PROVE  /\ Append(ms, m) \in Seq(Sent) /\ Len(Append(ms, m)) = Len(ms) + 1
         /\ \A j \in 1 .. Len(ms) : Append(ms, m)[j] = ms[j]
         /\ Append(ms, m)[Len(ms) + 1] = m
         /\ Wires(Append(ms, m), 0, k) = Wires(ms, 0, k)
<1>1. Len(ms) \in Nat
  BY LenProperties
<1>2. /\ Append(ms, m) \in Seq(Sent) /\ Len(Append(ms, m)) = Len(ms) + 1
      /\ \A j \in 1 .. Len(ms) : Append(ms, m)[j] = ms[j]
      /\ Append(ms, m)[Len(ms) + 1] = m
  BY AppendProperties
<1>3. \A i \in 1 .. k - 0 : 0 + i \in 1 .. Len(ms)
  BY <1>1
<1>4. \A i \in 1 .. k - 0 : Append(ms, m)[0 + i] = ms[0 + i]
  BY <1>2, <1>3
<1>5. Wires(Append(ms, m), 0, k) = Wires(ms, 0, k)
  BY <1>4 DEF Wires
<1>6. QED
  BY <1>2, <1>5

(* A message more at the end of the stream changes nothing for its         *)
(* receiver.                                                               *)
LEMMA ArrivesOfLonger ==
  ASSUME NEW ms \in Seq(Sent), NEW m \in Sent, NEW got \in Seq(Seq(Cells)), NEW c \in Channel,
         NEW over \in Seq(Cells), NEW reads, NEW n \in Nat, NEW pos,
         Arrives(ms, got, c, over, reads, n, pos)
  PROVE  Arrives(Append(ms, m), got, c, over, reads, n, pos)
<1>1. /\ Len(got) \in Nat /\ Len(ms) \in Nat
      /\ c.wire \in Seq(Cells) /\ over \o c.wire \in Seq(Cells) /\ Len(over \o c.wire) \in Nat
  BY LenProperties, ConcatProperties DEF Channel
<1>2. Len(got) \in 0 .. Len(ms)
  BY <1>1 DEF Arrives
<1>3. Len(Append(ms, m)) = Len(ms) + 1 /\ Wires(Append(ms, m), 0, Len(got)) = Wires(ms, 0, Len(got))
  BY <1>2, WiresOfLonger
<1>4. ASSUME reads
      PROVE  Framed(over \o c.wire, Append(ms, m), Len(got), n, pos)
  <2>1. n \in 0 .. Len(ms) /\ Len(got) \in 0 .. n /\ Framed(over \o c.wire, ms, Len(got), n, pos)
    BY <1>1, <1>4 DEF Arrives
  <2>2. Append(ms, m) \in Seq(Sent) /\ \A j \in 1 .. Len(ms) : Append(ms, m)[j] = ms[j]
    BY <1>2, WiresOfLonger
  <2>3. Len(over \o c.wire) <= Len(over \o c.wire)
    BY <1>1
  <2>4. QED
    BY <1>1, <2>1, <2>2, <2>3, FramedPrefix
<1>5. Len(got) <= Len(Append(ms, m)) /\ (n <= Len(ms) => n <= Len(Append(ms, m)))
  BY <1>1, <1>2, <1>3
<1>6. QED
  BY <1>3, <1>4, <1>5 DEF Arrives

(* A message is posted: it goes behind all that is queued or posted.       *)
LEMMA InStreamPosts ==
  ASSUME NEW ms \in Seq(Sent), NEW m \in Message, NEW got \in Seq(Seq(Cells)), NEW c \in Channel,
         NEW tasks \in Tasks, NEW over \in Seq(Cells), NEW reads,
         InStream(ms, got, c, tasks, over, reads), c.pipe_ = "open"
  PROVE  InStream(Append(ms, m), got, c, Append(tasks, m), over, reads)
<1>1. PICK n \in Nat, b \in Nat : \E pos :
        Queued(ms, c, tasks, n, b) /\ Arrives(ms, got, c, over, reads, n, pos)
  BY DEF InStream
<1>2. PICK pos : Arrives(ms, got, c, over, reads, n, pos)
  BY <1>1
<1>3. m \in Sent /\ m # CloseTask
  BY ChannelAssumption DEF Sent
<1>4. Arrives(Append(ms, m), got, c, over, reads, n, pos)
  BY <1>2, <1>3, ArrivesOfLonger
<1> DEFINE more == Append(ms, m)
           work2 == Append(tasks, m)
           out == c.output_queue_
<1>5. Len(out) \in Nat /\ Len(tasks) \in Nat /\ Len(ms) \in Nat /\ out \in Seq(Sent)
  <2>1. out \in Seq(Sent) /\ tasks \in Seq(Message \union {CloseTask})
    BY DEF Channel, Sent, Tasks
  <2>2. QED
    BY <2>1, LenProperties
<1>6. /\ Len(more) = Len(ms) + 1 /\ more[Len(ms) + 1] = m
      /\ \A j \in 1 .. Len(ms) : more[j] = ms[j]
  BY <1>3, AppendProperties
<1>7. /\ Len(work2) = Len(tasks) + 1 /\ work2[Len(tasks) + 1] = m
      /\ \A j \in 1 .. Len(tasks) : work2[j] = tasks[j]
  BY AppendProperties DEF Tasks
<1> HIDE DEF more, work2
<1>8. /\ n = IF c.output_pending THEN b + 1 ELSE b
      /\ c.output_pending => out # <<>>
      /\ b + Len(out) <= Len(ms)
      /\ \A i \in 1 .. Len(out) : out[i] = ms[b + i]
      /\ \A i \in 1 .. Len(tasks) : (\A j \in 1 .. i : tasks[j] # CloseTask) =>
           b + Len(out) + i <= Len(ms) /\ tasks[i] = ms[b + Len(out) + i]
      /\ (\A i \in 1 .. Len(tasks) : tasks[i] # CloseTask) => b + Len(out) + Len(tasks) = Len(ms)
  BY <1>1 DEF Queued
<1> HIDE DEF out
<1>9. \A i \in 1 .. Len(out) : out[i] = more[b + i]
  <2>1. \A i \in 1 .. Len(out) : b + i \in 1 .. Len(ms)
    BY <1>5, <1>8
  <2>2. QED
    BY <1>6, <1>8, <2>1
<1>10. ASSUME NEW i \in 1 .. Len(work2), \A j \in 1 .. i : work2[j] # CloseTask
       PROVE  b + Len(out) + i <= Len(more) /\ work2[i] = more[b + Len(out) + i]
  <2>1. CASE i = Len(tasks) + 1
    <3>1. \A j \in 1 .. Len(tasks) : j \in 1 .. i
      BY <1>5, <2>1
    <3>2. \A j \in 1 .. Len(tasks) : tasks[j] # CloseTask
      BY <1>7, <1>10, <3>1
    <3>3. b + Len(out) + Len(tasks) = Len(ms)
      BY <1>8, <3>2
    <3>4. b + Len(out) + i = Len(ms) + 1
      BY <1>5, <2>1, <3>3
    <3>5. QED
      BY <1>5, <1>6, <1>7, <2>1, <3>4
  <2>2. CASE i # Len(tasks) + 1
    <3>1. i \in 1 .. Len(tasks) /\ \A j \in 1 .. i : j \in 1 .. Len(tasks)
      BY <1>5, <1>7, <2>2
    <3>2. \A j \in 1 .. i : tasks[j] # CloseTask
      BY <1>7, <1>10, <3>1
    <3>3. b + Len(out) + i <= Len(ms) /\ tasks[i] = ms[b + Len(out) + i]
      BY <1>8, <3>1, <3>2
    <3>4. b + Len(out) + i \in 1 .. Len(ms) /\ b + Len(out) + i <= Len(ms) + 1
      BY <1>5, <3>1, <3>3
    <3>5. QED
      BY <1>6, <1>7, <3>1, <3>3, <3>4
  <2>3. QED
    BY <2>1, <2>2
<1>11. ASSUME \A i \in 1 .. Len(work2) : work2[i] # CloseTask
       PROVE  b + Len(out) + Len(work2) = Len(more)
  <2>1. \A j \in 1 .. Len(tasks) : j \in 1 .. Len(work2)
    BY <1>5, <1>7
  <2>2. \A j \in 1 .. Len(tasks) : tasks[j] # CloseTask
    BY <1>7, <1>11, <2>1
  <2>3. b + Len(out) + Len(tasks) = Len(ms)
    BY <1>8, <2>2
  <2>4. QED
    BY <1>5, <1>6, <1>7, <2>3
<1>12. b + Len(out) <= Len(more)
  BY <1>5, <1>6, <1>8
<1>13. Queued(more, c, work2, n, b)
  BY <1>8, <1>9, <1>10, <1>11, <1>12 DEF Queued, out
<1>14. QED
  BY <1>4, <1>13 DEF InStream, more, work2

(* So is the task that closes: what comes behind it is not sent any more.  *)
LEMMA InStreamPostsClose ==
  ASSUME NEW ms \in Seq(Sent), NEW got, NEW c \in Channel,
         NEW tasks \in Tasks, NEW over, NEW reads,
         InStream(ms, got, c, tasks, over, reads), c.pipe_ = "open"
  PROVE  InStream(ms, got, c, Append(tasks, CloseTask), over, reads)
<1>1. PICK n \in Nat, b \in Nat : \E pos :
        Queued(ms, c, tasks, n, b) /\ Arrives(ms, got, c, over, reads, n, pos)
  BY DEF InStream
<1> DEFINE work2 == Append(tasks, CloseTask)
           out == c.output_queue_
<1>2. Len(tasks) \in Nat
  BY LenProperties DEF Tasks
<1>3. /\ Len(work2) = Len(tasks) + 1 /\ work2[Len(tasks) + 1] = CloseTask
      /\ \A j \in 1 .. Len(tasks) : work2[j] = tasks[j]
  BY AppendProperties DEF Tasks
<1> HIDE DEF work2
<1>4. /\ n = IF c.output_pending THEN b + 1 ELSE b
      /\ c.output_pending => out # <<>>
      /\ b + Len(out) <= Len(ms)
      /\ \A i \in 1 .. Len(out) : out[i] = ms[b + i]
      /\ \A i \in 1 .. Len(tasks) : (\A j \in 1 .. i : tasks[j] # CloseTask) =>
           b + Len(out) + i <= Len(ms) /\ tasks[i] = ms[b + Len(out) + i]
  BY <1>1 DEF Queued
<1> HIDE DEF out
<1>5. ASSUME NEW i \in 1 .. Len(work2), \A j \in 1 .. i : work2[j] # CloseTask
      PROVE  b + Len(out) + i <= Len(ms) /\ work2[i] = ms[b + Len(out) + i]
  <2>1. i # Len(tasks) + 1
    BY <1>2, <1>3, <1>5
  <2>2. i \in 1 .. Len(tasks) /\ \A j \in 1 .. i : j \in 1 .. Len(tasks)
    BY <1>2, <1>3, <2>1
  <2>3. \A j \in 1 .. i : tasks[j] # CloseTask
    BY <1>3, <1>5, <2>2
  <2>4. QED
    BY <1>3, <1>4, <2>2, <2>3
<1>6. ~ \A i \in 1 .. Len(work2) : work2[i] # CloseTask
  BY <1>2, <1>3
<1>7. Queued(ms, c, work2, n, b)
  BY <1>4, <1>5, <1>6 DEF Queued, out
<1>8. QED
  BY <1>1, <1>7 DEF InStream, work2

(* The loop runs OnSendMessage: the task in front goes into the queue.     *)
LEMMA InStreamQueues ==
  ASSUME NEW ms \in Seq(Sent), NEW got, NEW c \in Channel, NEW d \in Channel,
         NEW tasks \in Tasks, NEW over, NEW reads,
         InStream(ms, got, c, tasks, over, reads), c.pipe_ = "open",
         tasks # <<>>, Head(tasks) # CloseTask,
         d.pipe_ = c.pipe_, d.output_pending = c.output_pending, d.wire = c.wire,
         d.output_queue_ = Append(c.output_queue_, Head(tasks))
  PROVE  InStream(ms, got, d, Tail(tasks), over, reads)
<1>1. PICK n \in Nat, b \in Nat : \E pos :
        Queued(ms, c, tasks, n, b) /\ Arrives(ms, got, c, over, reads, n, pos)
  BY DEF InStream
<1>2. PICK pos : Arrives(ms, got, c, over, reads, n, pos)
  BY <1>1
<1>3. Arrives(ms, got, d, over, reads, n, pos)
  BY <1>2 DEF Arrives
<1> DEFINE out == c.output_queue_
           out2 == d.output_queue_
           work2 == Tail(tasks)
<1>4. /\ Len(tasks) \in Nat \ {0} /\ Len(work2) = Len(tasks) - 1 /\ Head(tasks) = tasks[1]
      /\ \A i \in 1 .. Len(work2) : work2[i] = tasks[i + 1]
      /\ Head(tasks) \in Message \union {CloseTask}
  BY HeadTailProperties, EmptySeq DEF Tasks
<1>5. out \in Seq(Sent) /\ Head(tasks) \in Sent
  BY <1>4 DEF Channel, Sent
<1>6. Len(out) \in Nat /\ Len(ms) \in Nat
  BY <1>5, LenProperties
<1>7. /\ Len(out2) = Len(out) + 1 /\ out2[Len(out) + 1] = Head(tasks) /\ out2 # <<>>
      /\ \A i \in 1 .. Len(out) : out2[i] = out[i]
  BY <1>5, AppendProperties
<1>8. /\ n = IF c.output_pending THEN b + 1 ELSE b
      /\ b + Len(out) <= Len(ms)
      /\ \A i \in 1 .. Len(out) : out[i] = ms[b + i]
      /\ \A i \in 1 .. Len(tasks) : (\A j \in 1 .. i : tasks[j] # CloseTask) =>
           b + Len(out) + i <= Len(ms) /\ tasks[i] = ms[b + Len(out) + i]
      /\ (\A i \in 1 .. Len(tasks) : tasks[i] # CloseTask) => b + Len(out) + Len(tasks) = Len(ms)
  BY <1>1 DEF Queued
<1> HIDE DEF out, out2, work2
<1>9. b + Len(out) + 1 <= Len(ms) /\ Head(tasks) = ms[b + Len(out) + 1]
  <2>1. 1 \in 1 .. Len(tasks) /\ \A j \in 1 .. 1 : tasks[j] # CloseTask
    BY <1>4
  <2>2. QED
    BY <1>4, <1>8, <2>1
<1>10. b + Len(out2) <= Len(ms)
  BY <1>6, <1>7, <1>9
<1>11. \A i \in 1 .. Len(out2) : out2[i] = ms[b + i]
  <2> SUFFICES ASSUME NEW i \in 1 .. Len(out2)
               PROVE  out2[i] = ms[b + i]
    OBVIOUS
  <2>1. CASE i = Len(out) + 1
    BY <1>6, <1>7, <1>9, <2>1
  <2>2. CASE i # Len(out) + 1
    <3>1. i \in 1 .. Len(out)
      BY <1>6, <1>7, <2>2
    <3>2. QED
      BY <1>7, <1>8, <3>1
  <2>3. QED
    BY <2>1, <2>2
<1>12. ASSUME NEW i \in 1 .. Len(work2), \A j \in 1 .. i : work2[j] # CloseTask
       PROVE  b + Len(out2) + i <= Len(ms) /\ work2[i] = ms[b + Len(out2) + i]
  <2>1. i + 1 \in 1 .. Len(tasks)
    BY <1>4
  <2>2. ASSUME NEW j \in 1 .. i + 1
        PROVE  tasks[j] # CloseTask
    <3>1. CASE j = 1
      BY <1>4, <3>1
    <3>2. CASE j # 1
      <4>1. j - 1 \in 1 .. i /\ j - 1 \in 1 .. Len(work2) /\ (j - 1) + 1 = j
        BY <1>4, <3>2
      <4>2. QED
        BY <1>4, <1>12, <4>1
    <3>3. QED
      BY <3>1, <3>2
  <2>3. b + Len(out) + (i + 1) <= Len(ms) /\ tasks[i + 1] = ms[b + Len(out) + (i + 1)]
    BY <1>8, <2>1, <2>2
  <2>4. b + Len(out) + (i + 1) = b + Len(out2) + i
    BY <1>6, <1>7
  <2>5. QED
    BY <1>4, <2>3, <2>4
<1>13. ASSUME \A i \in 1 .. Len(work2) : work2[i] # CloseTask
       PROVE  b + Len(out2) + Len(work2) = Len(ms)
  <2>1. ASSUME NEW j \in 1 .. Len(tasks)
        PROVE  tasks[j] # CloseTask
    <3>1. CASE j = 1
      BY <1>4, <3>1
    <3>2. CASE j # 1
      <4>1. j - 1 \in 1 .. Len(work2) /\ (j - 1) + 1 = j
        BY <1>4, <3>2
      <4>2. QED
        BY <1>4, <1>13, <4>1
    <3>3. QED
      BY <3>1, <3>2
  <2>2. b + Len(out) + Len(tasks) = Len(ms)
    BY <1>8, <2>1
  <2>3. b + (Len(out) + 1) + (Len(tasks) - 1) = b + Len(out) + Len(tasks)
    BY <1>4, <1>6
  <2>4. QED
    BY <1>4, <1>7, <2>2, <2>3
<1>14. Queued(ms, d, work2, n, b)
  BY <1>7, <1>8, <1>10, <1>11, <1>12, <1>13 DEF Queued, out2
<1>15. QED
  BY <1>3, <1>14 DEF InStream, work2

(* A write is started: the message in front of the queue is on the wire.   *)
LEMMA InStreamWrites ==
  ASSUME NEW ms \in Seq(Sent), NEW got \in Seq(Seq(Cells)), NEW c \in Channel, NEW d \in Channel,
         NEW tasks, NEW over \in Seq(Cells), NEW reads,
         InStream(ms, got, c, tasks, over, reads), c.pipe_ = "open",
         ~c.output_pending, c.output_queue_ # <<>>,
         d.pipe_ = "open", d.output_pending, d.output_queue_ = c.output_queue_,
         d.wire = c.wire \o Wire(Head(c.output_queue_))
  PROVE  InStream(ms, got, d, tasks, over, reads)
<1>1. PICK n \in Nat, b \in Nat : \E pos :
        Queued(ms, c, tasks, n, b) /\ Arrives(ms, got, c, over, reads, n, pos)
  BY DEF InStream
<1>2. PICK pos : Arrives(ms, got, c, over, reads, n, pos)
  BY <1>1
<1> DEFINE out == c.output_queue_
<1>3. out \in Seq(Sent) /\ c.wire \in Seq(Cells)
  BY DEF Channel, Sent
<1>4. Len(out) \in Nat \ {0} /\ Len(ms) \in Nat /\ Head(out) = out[1] /\ Len(got) \in Nat
  BY <1>3, EmptySeq, LenProperties, HeadTailProperties
<1>5. n = b /\ b + Len(out) <= Len(ms) /\ \A i \in 1 .. Len(out) : out[i] = ms[b + i]
  BY <1>1 DEF Queued
<1> HIDE DEF out
<1>6. Head(out) = ms[n + 1] /\ n + 1 <= Len(ms) /\ n + 1 \in 1 .. Len(ms)
  <2>1. 1 \in 1 .. Len(out)
    BY <1>4
  <2>2. QED
    BY <1>4, <1>5, <2>1
<1>7. Queued(ms, d, tasks, n + 1, b)
  BY <1>1, <1>5 DEF Queued, out
<1>8. ASSUME reads
      PROVE  \E new : /\ Framed(over \o d.wire, ms, Len(got), n + 1, new)
                      /\ new[(n + 1) + 1] = Len(over \o d.wire) + 1
  <2>1. /\ Len(got) \in 0 .. n /\ n \in 0 .. Len(ms) - 1
        /\ Framed(over \o c.wire, ms, Len(got), n, pos) /\ pos[n + 1] = Len(over \o c.wire) + 1
    BY <1>2, <1>4, <1>6, <1>8 DEF Arrives
  <2>2. over \o c.wire \in Seq(Cells)
    BY <1>3, ConcatProperties
  <2>3. ms[n + 1] \in Sent
    BY <1>6, ElementOfSeq
  <2>4. d.wire = c.wire \o Wire(ms[n + 1])
    BY <1>6 DEF out
  <2>5. over \o d.wire = (over \o c.wire) \o Wire(ms[n + 1])
    <3> DEFINE v == c.wire
               w == Wire(ms[n + 1])
    <3>1. v \in Seq(Cells) /\ w \in Seq(Cells)
      BY <1>3, <2>3, WireProperties
    <3>2. d.wire = v \o w
      BY <2>4
    <3> HIDE DEF v, w
    <3>3. (over \o v) \o w = over \o (v \o w)
      BY <3>1, ConcatAssociative
    <3>4. over \o d.wire = (over \o v) \o w
      BY <3>2, <3>3
    <3>5. QED
      BY <3>4 DEF v, w
  <2> DEFINE new == Extended(pos, n, Size[ms[n + 1]])
             longer == (over \o c.wire) \o Wire(ms[n + 1])
  <2>6. Framed(longer, ms, Len(got), n + 1, new) /\ new[(n + 1) + 1] = Len(longer) + 1
    <3> HIDE DEF new, longer
    <3>1. QED
      BY <2>1, <2>2, FramedWrite DEF new, longer
  <2> HIDE DEF new
  <2>7. QED
    BY <2>5, <2>6
<1>9. \E new : Arrives(ms, got, d, over, reads, n + 1, new)
  <2>1. CASE reads
    <3>1. PICK new : /\ Framed(over \o d.wire, ms, Len(got), n + 1, new)
                     /\ new[(n + 1) + 1] = Len(over \o d.wire) + 1
      BY <1>8, <2>1
    <3>2. Len(got) <= n + 1
      BY <1>2, <1>4, <2>1 DEF Arrives
    <3>3. Arrives(ms, got, d, over, reads, n + 1, new)
      BY <1>2, <1>6, <3>1, <3>2 DEF Arrives
    <3>4. QED
      BY <3>3
  <2>2. CASE ~reads
    <3>1. Arrives(ms, got, d, over, reads, n + 1, pos)
      BY <1>2, <2>2 DEF Arrives
    <3>2. QED
      BY <3>1
  <2>3. QED
    BY <2>1, <2>2
<1>10. n + 1 \in Nat
  OBVIOUS
<1>11. QED
  BY <1>7, <1>9, <1>10 DEF InStream

(* A write has completed: the message leaves the queue.                    *)
LEMMA InStreamPops ==
  ASSUME NEW ms \in Seq(Sent), NEW got, NEW c \in Channel, NEW d \in Channel,
         NEW tasks, NEW over, NEW reads,
         InStream(ms, got, c, tasks, over, reads), c.pipe_ = "open", c.output_pending,
         d.pipe_ = "open", ~d.output_pending, d.output_queue_ = Tail(c.output_queue_), d.wire = c.wire
  PROVE  InStream(ms, got, d, tasks, over, reads)
<1>1. PICK n \in Nat, b \in Nat : \E pos :
        Queued(ms, c, tasks, n, b) /\ Arrives(ms, got, c, over, reads, n, pos)
  BY DEF InStream
<1>2. PICK pos : Arrives(ms, got, c, over, reads, n, pos)
  BY <1>1
<1>3. Arrives(ms, got, d, over, reads, n, pos)
  BY <1>2 DEF Arrives
<1> DEFINE out == c.output_queue_
           out2 == d.output_queue_
<1>4. /\ n = b + 1 /\ out # <<>> /\ b + Len(out) <= Len(ms)
      /\ \A i \in 1 .. Len(out) : out[i] = ms[b + i]
      /\ \A i \in 1 .. Len(tasks) : (\A j \in 1 .. i : tasks[j] # CloseTask) =>
           b + Len(out) + i <= Len(ms) /\ tasks[i] = ms[b + Len(out) + i]
      /\ (\A i \in 1 .. Len(tasks) : tasks[i] # CloseTask) => b + Len(out) + Len(tasks) = Len(ms)
  BY <1>1 DEF Queued
<1>5. out \in Seq(Sent)
  BY DEF Channel, Sent
<1>6. /\ Len(out) \in Nat \ {0} /\ Len(out2) = Len(out) - 1
      /\ \A i \in 1 .. Len(out2) : out2[i] = out[i + 1]
  BY <1>4, <1>5, EmptySeq, HeadTailProperties
<1> HIDE DEF out, out2
<1>7. n + Len(out2) = b + Len(out)
  BY <1>4, <1>6
<1>8. \A i \in 1 .. Len(out2) : out2[i] = ms[n + i]
  <2> SUFFICES ASSUME NEW i \in 1 .. Len(out2)
               PROVE  out2[i] = ms[n + i]
    OBVIOUS
  <2>1. i + 1 \in 1 .. Len(out) /\ b + (i + 1) = n + i
    BY <1>4, <1>6
  <2>2. QED
    BY <1>4, <1>6, <2>1
<1>9. Queued(ms, d, tasks, n, n)
  BY <1>4, <1>7, <1>8 DEF Queued, out2
<1>10. QED
  BY <1>3, <1>9 DEF InStream

(* A chunk is read: the whole messages in it, with what was held back, are *)
(* the next of the stream, and the rest is held back.                      *)
LEMMA InStreamReads ==
  ASSUME NEW ms \in Seq(Sent), NEW got \in Seq(Seq(Cells)), NEW c \in Channel, NEW d \in Channel,
         NEW tasks, NEW over \in Seq(Cells),
         InStream(ms, got, c, tasks, over, TRUE), NEW k \in 0 .. Len(c.wire),
         d.pipe_ = c.pipe_, d.output_pending = c.output_pending, d.output_queue_ = c.output_queue_,
         d.wire = SubSeq(c.wire, k + 1, Len(c.wire))
  PROVE  LET buf == over \o SubSeq(c.wire, 1, k)
         IN  /\ WholeMessages(buf) \in Seq(Seq(Cells))
             /\ \A j \in 1 .. Len(WholeMessages(buf)) : \E m \in Sent : WholeMessages(buf)[j] = Wire(m)
             /\ Partial(buf) \in Seq(Cells)
             /\ InStream(ms, got \o WholeMessages(buf), d, tasks, Partial(buf), TRUE)
<1> DEFINE buf == over \o SubSeq(c.wire, 1, k)
           full == over \o c.wire
<1>1. PICK n \in Nat, b \in Nat : \E pos :
        Queued(ms, c, tasks, n, b) /\ Arrives(ms, got, c, over, TRUE, n, pos)
  BY DEF InStream
<1>2. PICK pos : Arrives(ms, got, c, over, TRUE, n, pos)
  BY <1>1
<1>3. Queued(ms, d, tasks, n, b)
  <2>1. CASE c.pipe_ = "none"
    <3>1. c.wire = <<>>
      BY <1>1, <2>1 DEF Queued
    <3>2. d.wire = <<>>
      BY <3>1
    <3>3. QED
      BY <1>1, <2>1, <3>1, <3>2 DEF Queued
  <2>2. CASE c.pipe_ # "none"
    BY <1>1, <2>2 DEF Queued
  <2>3. QED
    BY <2>1, <2>2
<1>4. c.wire \in Seq(Cells) /\ d.wire \in Seq(Cells)
  BY DEF Channel
<1>5. Len(c.wire) \in Nat /\ Len(over) \in Nat /\ Len(got) \in Nat /\ Len(ms) \in Nat /\ k \in Nat /\ k <= Len(c.wire)
  BY <1>4, LenProperties
<1>6. /\ full \in Seq(Cells) /\ Len(full) = Len(over) + Len(c.wire)
      /\ \A i \in 1 .. Len(over) + Len(c.wire) :
           full[i] = IF i <= Len(over) THEN over[i] ELSE c.wire[i - Len(over)]
  BY <1>4, ConcatProperties
<1>7. /\ SubSeq(c.wire, 1, k) \in Seq(Cells) /\ Len(SubSeq(c.wire, 1, k)) = k
      /\ \A i \in 1 .. k : SubSeq(c.wire, 1, k)[i] = c.wire[i]
  <2>1. \A i \in 1 .. k : i \in 1 .. Len(c.wire)
    BY <1>5
  <2>2. \A i \in 1 .. k : c.wire[i] \in Cells
    BY <1>4, <2>1, ElementOfSeq
  <2>3. /\ SubSeq(c.wire, 1, k) \in Seq(Cells)
        /\ Len(SubSeq(c.wire, 1, k)) = IF 1 <= k THEN k - 1 + 1 ELSE 0
        /\ \A i \in 1 .. k - 1 + 1 : SubSeq(c.wire, 1, k)[i] = c.wire[1 + i - 1]
    <3>1. 1 \in Int /\ k \in Int
      BY <1>5
    <3>2. QED
      BY <2>2, <3>1, SubSeqProperties
  <2>4. (k - 1 + 1 = k) /\ (1 <= k \/ k = 0) /\ \A i \in 1 .. k : 1 + i - 1 = i
    BY <1>5
  <2>5. QED
    BY <2>3, <2>4
<1>8. /\ buf \in Seq(Cells) /\ Len(buf) = Len(over) + k
      /\ \A i \in 1 .. Len(over) + k : buf[i] = IF i <= Len(over) THEN over[i] ELSE c.wire[i - Len(over)]
  <2>1. /\ buf \in Seq(Cells) /\ Len(buf) = Len(over) + Len(SubSeq(c.wire, 1, k))
        /\ \A i \in 1 .. Len(over) + Len(SubSeq(c.wire, 1, k)) :
             buf[i] = IF i <= Len(over) THEN over[i] ELSE SubSeq(c.wire, 1, k)[i - Len(over)]
    BY <1>7, ConcatProperties
  <2>2. ASSUME NEW i \in 1 .. Len(over) + k, ~(i <= Len(over))
        PROVE  i - Len(over) \in 1 .. k
    BY <1>5, <2>2
  <2> HIDE DEF buf
  <2>3. QED
    BY <1>7, <2>1, <2>2
<1>9. /\ Len(d.wire) = Len(c.wire) - k
      /\ \A i \in 1 .. Len(c.wire) - k : d.wire[i] = c.wire[k + i]
  <2> DEFINE from == k + 1
             to == Len(c.wire)
  <2>1. from \in Int /\ to \in Int
    BY <1>5
  <2>2. \A i \in from .. to : i \in 1 .. Len(c.wire)
    BY <1>5
  <2>3. \A i \in from .. to : c.wire[i] \in Cells
    BY <1>4, <2>2, ElementOfSeq
  <2> HIDE DEF from, to
  <2>4. /\ Len(SubSeq(c.wire, from, to)) = IF from <= to THEN to - from + 1 ELSE 0
        /\ \A i \in 1 .. to - from + 1 : SubSeq(c.wire, from, to)[i] = c.wire[from + i - 1]
    BY <2>1, <2>3, SubSeqProperties
  <2>5. /\ to - from + 1 = Len(c.wire) - k
        /\ ~(from <= to) => Len(c.wire) - k = 0
        /\ \A i \in 1 .. to - from + 1 : from + i - 1 = k + i
    BY <1>5 DEF from, to
  <2>6. d.wire = SubSeq(c.wire, from, to)
    BY DEF from, to
  <2>7. QED
    BY <2>4, <2>5, <2>6
<1> HIDE DEF buf, full
<1>10. Framed(full, ms, Len(got), n, pos) /\ n \in 0 .. Len(ms) /\ Len(got) \in 0 .. n
       /\ Len(got) \in 0 .. Len(ms) /\ got = Wires(ms, 0, Len(got))
       /\ (c.pipe_ # "closed" => pos[n + 1] = Len(full) + 1)
  BY <1>2, <1>5 DEF Arrives, full
<1>11. Framed(buf, ms, Len(got), n, pos)
  <2>1. Len(buf) <= Len(full)
    BY <1>5, <1>6, <1>8
  <2>2. \A i \in 1 .. Len(buf) : i \in 1 .. Len(over) + k /\ i \in 1 .. Len(over) + Len(c.wire)
    BY <1>5, <1>8
  <2>3. \A i \in 1 .. Len(buf) : buf[i] = full[i]
    BY <1>6, <1>8, <2>2
  <2>4. \A j \in 1 .. Len(ms) : ms[j] = ms[j]
    OBVIOUS
  <2>5. QED
    BY <1>6, <1>8, <1>10, <2>1, <2>3, <2>4, FramedPrefix
<1>12. PICK whole \in Len(got) .. n :
         /\ pos[whole + 1] <= Len(buf) + 1
         /\ WholeMessages(buf) = Wires(ms, Len(got), whole)
         /\ Partial(buf) = Beyond(buf, pos[whole + 1])
  <2>1. PICK last \in 0 .. Len(ms) : last = n
    BY <1>10
  <2>2. PICK first \in 0 .. last : first = Len(got)
    BY <1>10, <2>1
  <2>3. Framed(buf, ms, first, last, pos)
    BY <1>11, <2>1, <2>2
  <2>4. \E whole \in first .. last :
          /\ pos[whole + 1] <= Len(buf) + 1
          /\ WholeMessages(buf) = Wires(ms, first, whole)
          /\ Partial(buf) = Beyond(buf, pos[whole + 1])
    BY <1>8, <2>3, ParseOfFramed
  <2>5. QED
    BY <2>1, <2>2, <2>4
<1>13. whole \in Nat /\ whole \in Len(got) .. Len(ms) /\ whole \in 0 .. n /\ whole \in 0 .. Len(ms)
  BY <1>5, <1>10, <1>12
<1> DEFINE at == pos[whole + 1]
           rest == Partial(buf) \o d.wire
<1>14. at \in Nat \ {0} /\ at <= Len(buf) + 1
  <2>1. whole + 1 \in Len(got) + 1 .. n + 1
    BY <1>5, <1>10, <1>12
  <2>2. QED
    BY <1>11, <1>12, <2>1 DEF Framed
<1>15. Partial(buf) = SubSeq(buf, at, Len(buf))
  BY <1>12 DEF Beyond
<1> HIDE DEF at
<1>16. /\ Partial(buf) \in Seq(Cells) /\ Len(Partial(buf)) = Len(buf) + 1 - at
       /\ \A i \in 1 .. Len(buf) + 1 - at : Partial(buf)[i] = buf[at - 1 + i]
  <2>1. Len(buf) \in Nat
    BY <1>5, <1>8
  <2>2. \A i \in at .. Len(buf) : i \in 1 .. Len(buf)
    BY <1>14, <2>1
  <2>3. \A i \in at .. Len(buf) : buf[i] \in Cells
    BY <1>8, <2>2, ElementOfSeq
  <2>4. /\ Partial(buf) \in Seq(Cells)
        /\ Len(Partial(buf)) = IF at <= Len(buf) THEN Len(buf) - at + 1 ELSE 0
        /\ \A i \in 1 .. Len(buf) - at + 1 : Partial(buf)[i] = buf[at + i - 1]
    BY <1>14, <1>15, <2>1, <2>3, SubSeqProperties
  <2>5. /\ Len(buf) - at + 1 = Len(buf) + 1 - at
        /\ ~(at <= Len(buf)) => Len(buf) + 1 - at = 0
        /\ \A i \in 1 .. Len(buf) - at + 1 : at + i - 1 = at - 1 + i
    BY <1>14, <2>1
  <2>6. QED
    BY <2>4, <2>5
<1>17. /\ rest \in Seq(Cells) /\ Len(rest) = Len(full) - at + 1
       /\ \A i \in 1 .. Len(rest) : rest[i] = full[at - 1 + i]
  <2>1. /\ rest \in Seq(Cells) /\ Len(rest) = Len(Partial(buf)) + Len(d.wire)
        /\ \A i \in 1 .. Len(Partial(buf)) + Len(d.wire) :
             rest[i] = IF i <= Len(Partial(buf)) THEN Partial(buf)[i] ELSE d.wire[i - Len(Partial(buf))]
    BY <1>4, <1>16, ConcatProperties
  <2> HIDE DEF rest
  <2>2. Len(rest) = (Len(over) + k + 1 - at) + (Len(c.wire) - k)
    <3>1. Len(Partial(buf)) = Len(over) + k + 1 - at
      BY <1>8, <1>16
    <3>2. Len(d.wire) = Len(c.wire) - k
      BY <1>9
    <3>3. Len(rest) = Len(Partial(buf)) + Len(d.wire)
      BY <2>1
    <3>4. QED
      BY <3>1, <3>2, <3>3
  <2>3. (Len(over) + k + 1 - at) + (Len(c.wire) - k) = (Len(over) + Len(c.wire)) - at + 1
    <3>1. PICK o \in Nat, w \in Nat, a \in Nat : o = Len(over) /\ w = Len(c.wire) /\ a = at
      BY <1>5, <1>14
    <3>2. (o + k + 1 - a) + (w - k) = (o + w) - a + 1
      BY <1>5
    <3>3. QED
      BY <3>1, <3>2, Zenon
  <2>4. Len(rest) = Len(full) - at + 1
    BY <1>6, <2>2, <2>3
  <2>5. ASSUME NEW i \in 1 .. Len(rest)
        PROVE  rest[i] = full[at - 1 + i]
    <3> DEFINE held == Len(over) + k + 1 - at
    <3>1. held = Len(Partial(buf)) /\ held \in Nat
      BY <1>5, <1>8, <1>14, <1>16
    <3>2. i \in 1 .. Len(Partial(buf)) + Len(d.wire) /\ i \in 1 .. held + (Len(c.wire) - k)
      BY <2>1, <2>2
    <3>3. CASE i <= held
      <4>1. i \in 1 .. held
        BY <3>1, <3>3
      <4>2. i \in 1 .. Len(buf) + 1 - at
        BY <1>8, <4>1
      <4>3. rest[i] = buf[at - 1 + i]
        BY <1>16, <2>1, <3>1, <3>2, <3>3, <4>2
      <4>4. at - 1 + i \in 1 .. Len(over) + k /\ at - 1 + i \in 1 .. Len(over) + Len(c.wire)
        BY <1>5, <1>14, <4>1
      <4>5. QED
        BY <1>6, <1>8, <4>3, <4>4
    <3>4. CASE ~(i <= held)
      <4>1. i - held \in 1 .. Len(c.wire) - k
        BY <1>5, <3>1, <3>2, <3>4, SMTT(30)
      <4>2. rest[i] = d.wire[i - held]
        BY <2>1, <3>1, <3>2, <3>4
      <4>3. rest[i] = c.wire[k + (i - held)]
        BY <1>9, <4>1, <4>2
      <4>4. /\ at - 1 + i \in 1 .. Len(over) + Len(c.wire)
            /\ ~(at - 1 + i <= Len(over))
            /\ (at - 1 + i) - Len(over) = k + (i - held)
        <5>1. held = Len(over) + k + 1 - at
          OBVIOUS
        <5> HIDE DEF held
        <5>2. held \in Nat /\ i \in 1 .. held + (Len(c.wire) - k) /\ ~(i <= held)
          BY <3>1, <3>2, <3>4
        <5>3. at \in Nat \ {0} /\ Len(over) \in Nat /\ Len(c.wire) \in Nat /\ k \in Nat /\ k <= Len(c.wire)
          BY <1>5, <1>14
        <5>4. PICK o \in Nat, w \in Nat, a \in Nat \ {0}, h \in Nat :
                o = Len(over) /\ w = Len(c.wire) /\ a = at /\ h = held
          BY <5>2, <5>3
        <5>5. h = o + k + 1 - a /\ i \in 1 .. h + (w - k) /\ ~(i <= h) /\ k \in Nat /\ k <= w
          BY <5>1, <5>2, <5>3, <5>4, Zenon
        <5>6. /\ a - 1 + i \in 1 .. o + w
              /\ ~(a - 1 + i <= o)
              /\ (a - 1 + i) - o = k + (i - h)
          BY <5>5
        <5>7. QED
          BY <5>4, <5>6, Zenon
      <4>5. QED
        BY <1>6, <4>3, <4>4
    <3>5. QED
      BY <3>3, <3>4
  <2>6. QED
    BY <2>1, <2>4, <2>5
<1> DEFINE new == Shifted(pos, whole, n)
<1>18. Framed(rest, ms, whole, n, new)
  <2> HIDE DEF rest, new
  <2>1. Len(rest) = Len(full) - pos[whole + 1] + 1 /\ \A i \in 1 .. Len(rest) : rest[i] = full[pos[whole + 1] - 1 + i]
    BY <1>17 DEF at
  <2>2. QED
    BY <1>6, <1>10, <1>12, <1>17, <2>1, FramedRest DEF new
<1>19. c.pipe_ # "closed" => new[n + 1] = Len(rest) + 1
  <2>1. n + 1 \in whole + 1 .. n + 1
    BY <1>13
  <2>2. new[n + 1] = pos[n + 1] - at + 1
    BY <2>1 DEF Shifted, at
  <2> HIDE DEF new, rest
  <2>3. Len(full) \in Nat
    BY <1>6, LenProperties
  <2>4. SUFFICES ASSUME c.pipe_ # "closed"
                 PROVE  new[n + 1] = Len(rest) + 1
    OBVIOUS
  <2>5. pos[n + 1] = Len(full) + 1
    BY <1>10, <2>4
  <2>6. Len(rest) = Len(full) - at + 1
    BY <1>17
  <2>7. (Len(full) + 1) - at + 1 = (Len(full) - at + 1) + 1
    BY <1>14, <2>3
  <2>8. QED
    BY <2>2, <2>5, <2>6, <2>7
<1>20. /\ WholeMessages(buf) \in Seq(Seq(Cells)) /\ Len(WholeMessages(buf)) = whole - Len(got)
       /\ \A i \in 1 .. whole - Len(got) : WholeMessages(buf)[i] = Wire(ms[Len(got) + i])
  <2>1. \A i \in 1 .. whole - Len(got) : Len(got) + i \in 1 .. Len(ms)
    BY <1>5, <1>10, <1>12
  <2>2. \A i \in 1 .. whole - Len(got) : Wire(ms[Len(got) + i]) \in Seq(Cells)
    BY <2>1, ElementOfSeq, WireProperties
  <2>3. whole - Len(got) \in Nat
    BY <1>5, <1>12
  <2>4. Wires(ms, Len(got), whole) \in [1 .. whole - Len(got) -> Seq(Cells)]
    BY <2>2 DEF Wires
  <2>5. WholeMessages(buf) \in Seq(Seq(Cells)) /\ Len(WholeMessages(buf)) = whole - Len(got)
    <3> DEFINE m == whole - Len(got)
               f == Wires(ms, Len(got), whole)
    <3>1. m \in Nat /\ f \in [1 .. m -> Seq(Cells)]
      BY <2>3, <2>4
    <3> HIDE DEF m, f
    <3>2. f \in Seq(Seq(Cells)) /\ Len(f) = m
      BY <3>1
    <3>3. WholeMessages(buf) = f
      BY <1>12 DEF f
    <3>4. QED
      BY <3>2, <3>3 DEF m
  <2>6. QED
    BY <1>12, <2>5 DEF Wires
<1> DEFINE got2 == got \o WholeMessages(buf)
<1>21. /\ got2 \in Seq(Seq(Cells)) /\ Len(got2) = whole
       /\ \A i \in 1 .. whole : got2[i] = IF i <= Len(got) THEN got[i] ELSE WholeMessages(buf)[i - Len(got)]
  <2>1. /\ got2 \in Seq(Seq(Cells)) /\ Len(got2) = Len(got) + Len(WholeMessages(buf))
        /\ \A i \in 1 .. Len(got) + Len(WholeMessages(buf)) :
             got2[i] = IF i <= Len(got) THEN got[i] ELSE WholeMessages(buf)[i - Len(got)]
    BY <1>20, ConcatProperties
  <2>2. Len(got) + Len(WholeMessages(buf)) = whole
    BY <1>5, <1>13, <1>20
  <2> HIDE DEF got2
  <2>3. QED
    BY <2>1, <2>2
<1>22. got2 = Wires(ms, 0, whole)
  <2>1. ASSUME NEW i \in 1 .. whole
        PROVE  got2[i] = Wire(ms[i])
    <3>1. CASE i <= Len(got)
      <4>1. i \in 1 .. Len(got) - 0 /\ 0 + i = i
        BY <1>5, <3>1
      <4>2. Wires(ms, 0, Len(got))[i] = Wire(ms[0 + i])
        BY <4>1 DEF Wires
      <4>3. QED
        BY <1>10, <1>21, <3>1, <4>1, <4>2
    <3>2. CASE ~(i <= Len(got))
      <4>1. i - Len(got) \in 1 .. whole - Len(got) /\ Len(got) + (i - Len(got)) = i
        BY <1>5, <1>13, <3>2
      <4>2. QED
        BY <1>20, <1>21, <3>2, <4>1
    <3>3. QED
      BY <3>1, <3>2
  <2>2. got2 = [i \in 1 .. whole |-> got2[i]]
    BY <1>21, LenProperties
  <2>3. whole - 0 = whole /\ \A i \in 1 .. whole : 0 + i = i
    BY <1>13
  <2> HIDE DEF got2
  <2>4. got2 = [i \in 1 .. whole |-> Wire(ms[i])]
    BY <2>1, <2>2
  <2>5. Wires(ms, 0, whole) = [i \in 1 .. whole |-> Wire(ms[i])]
    BY <2>3 DEF Wires
  <2>6. QED
    BY <2>4, <2>5
<1>23. Arrives(ms, got2, d, Partial(buf), TRUE, n, new)
  <2> HIDE DEF got2, new
  <2>1. Len(got2) = whole /\ whole <= Len(ms) /\ whole <= n /\ n <= Len(ms)
    BY <1>5, <1>10, <1>13, <1>21
  <2>2. QED
    BY <1>18, <1>19, <1>22, <2>1 DEF Arrives
<1>24. InStream(ms, got2, d, tasks, Partial(buf), TRUE)
  <2> HIDE DEF got2, new
  <2>1. QED
    BY <1>3, <1>23 DEF InStream
<1>25. \A j \in 1 .. Len(WholeMessages(buf)) : \E m \in Sent : WholeMessages(buf)[j] = Wire(m)
  <2>1. \A j \in 1 .. whole - Len(got) : Len(got) + j \in 1 .. Len(ms)
    BY <1>5, <1>13
  <2>2. \A j \in 1 .. whole - Len(got) : ms[Len(got) + j] \in Sent
    BY <2>1, ElementOfSeq
  <2>3. QED
    BY <1>20, <2>2
<1>26. QED
  BY <1>16, <1>20, <1>24, <1>25 DEF buf

-----------------------------------------------------------------------------
(* The invariant of the two channels                                       *)

(* What e has to send, and what becomes of it.                             *)
Stream(e) == <<Hello>> \o posted[e]

StreamFrom(e) ==
  InStream(Stream(e), received[Peer(e)], channel[e], work[e],
           channel[Peer(e)].input_overflow_buf_, channel[Peer(e)].pipe_ # "closed")

StreamInv == \A e \in End : StreamFrom(e)

(* Who waits for a connection, and where the loops are.                    *)
ConnectInv ==
  /\ ~channel["client"].waiting_connect_
  /\ channel["server"].waiting_connect_ => ~channel["server"].output_pending
  /\ ~channel["server"].waiting_connect_ => channel["client"].pipe_ # "none"
  /\ channel["client"].pipe_ # "none" => channel["server"].pipe_ # "none"
  /\ loop["server"] = "connect" => channel["server"].waiting_connect_
  /\ \A e \in End :
       /\ loop[e] = "connect" => channel[e].pipe_ = "open" /\ ~channel[e].output_pending
       /\ loop[e] \in {"delete", "clear", "signal"} => channel[e].pipe_ = "closed"

ChannelInv == TypeOK /\ StreamInv /\ ConnectInv /\ NeverIdle

(* There are two ends.                                                     *)
LEMMA PeerType ==
  ASSUME NEW e \in End
  PROVE  /\ Peer(e) \in End /\ Peer(e) # e /\ Peer(Peer(e)) = e
         /\ \A x \in End : x = e \/ x = Peer(e)
BY DEF End, Peer

(* A stream is HELLO and the posted messages in their order.               *)
LEMMA StreamType ==
  ASSUME TypeOK, NEW e \in End
  PROVE  Stream(e) \in Seq(Sent) /\ Len(Stream(e)) = Len(posted[e]) + 1
         /\ Stream(e)[1] = Hello /\ \A i \in 1 .. Len(posted[e]) : Stream(e)[i + 1] = posted[e][i]
<1>1. posted[e] \in Seq(Sent) /\ Len(posted[e]) \in Nat
  <2>1. posted[e] \in Seq(Message)
    BY DEF TypeOK
  <2>2. posted[e] \in Seq(Sent)
    BY <2>1 DEF Sent
  <2>3. QED
    BY <2>2, LenProperties
<1>2. <<Hello>> \in Seq(Sent) /\ Len(<<Hello>>) = 1 /\ <<Hello>>[1] = Hello
  BY DEF Sent
<1> DEFINE hello == <<Hello>>
<1>3. hello \in Seq(Sent) /\ Len(hello) = 1 /\ hello[1] = Hello
  BY <1>2
<1> HIDE DEF hello
<1>4. /\ hello \o posted[e] \in Seq(Sent)
      /\ Len(hello \o posted[e]) = 1 + Len(posted[e])
      /\ \A i \in 1 .. 1 + Len(posted[e]) :
           (hello \o posted[e])[i] = IF i <= 1 THEN hello[i] ELSE posted[e][i - 1]
  BY <1>1, <1>3, ConcatProperties
<1>5. ASSUME NEW i \in 1 .. Len(posted[e])
      PROVE  (hello \o posted[e])[i + 1] = posted[e][i]
  <2>1. i + 1 \in 1 .. 1 + Len(posted[e]) /\ ~(i + 1 <= 1) /\ (i + 1) - 1 = i
    BY <1>1
  <2>2. QED
    BY <1>4, <2>1
<1>6. (hello \o posted[e])[1] = Hello /\ Len(hello \o posted[e]) = Len(posted[e]) + 1
  BY <1>1, <1>3, <1>4
<1>7. QED
  BY <1>4, <1>5, <1>6 DEF Stream, hello

(* d is c, with a write started if there is one to start.                  *)
Writes(e, c, d) ==
  /\ d \in Channel /\ d.pipe_ = c.pipe_ /\ d.output_queue_ = c.output_queue_
  /\ d.waiting_connect_ = c.waiting_connect_ /\ d.input_pending = c.input_pending
  /\ d.input_overflow_buf_ = c.input_overflow_buf_
  /\ \/ /\ c.output_queue_ # <<>> /\ c.pipe_ = "open" /\ WritePossible(e)
        /\ d.output_pending
        /\ d.wire = c.wire \o Wire(Head(c.output_queue_))
     \/ /\ ~(c.output_queue_ # <<>> /\ c.pipe_ = "open" /\ WritePossible(e))
        /\ d = c

(* A write is started or nothing happens.                                  *)
LEMMA StartsWriteEffect ==
  ASSUME NEW e \in End, NEW c \in Channel
  PROVE  Writes(e, c, StartsWrite(e, c))
<1>1. CASE ~(c.output_queue_ # <<>> /\ c.pipe_ = "open" /\ WritePossible(e))
  BY <1>1 DEF StartsWrite, Writes
<1>2. CASE c.output_queue_ # <<>> /\ c.pipe_ = "open" /\ WritePossible(e)
  <2> DEFINE w == c.wire \o Wire(Head(c.output_queue_))
  <2>1. w \in Seq(Cells)
    <3>1. c.output_queue_ \in Seq(Sent) /\ c.wire \in Seq(Cells)
      BY DEF Channel, Sent
    <3>2. Head(c.output_queue_) \in Sent
      BY <1>2, <3>1, HeadTailProperties
    <3>3. Wire(Head(c.output_queue_)) \in Seq(Cells)
      BY <3>2, WireProperties
    <3>4. QED
      BY <3>1, <3>3, ConcatProperties
  <2>2. StartsWrite(e, c) = [c EXCEPT !.output_pending = TRUE, !.wire = w]
    BY <1>2 DEF StartsWrite
  <2> HIDE DEF w
  <2>3. StartsWrite(e, c) \in Channel /\ StartsWrite(e, c).wire = w
    BY <2>1, <2>2 DEF Channel
  <2>4. QED
    BY <1>2, <2>2, <2>3 DEF Channel, Writes, w
<1>3. QED
  BY <1>1, <1>2

(* Close keeps the type, empties the queue and cuts what is lost off the   *)
(* pipe.                                                                   *)
LEMMA ClosedEffect ==
  ASSUME NEW c \in Channel, NEW lost \in 0 .. Len(c.wire)
  PROVE  /\ Closed(c, lost) \in Channel
         /\ Closed(c, lost).pipe_ = "closed"
         /\ Closed(c, lost).waiting_connect_ = c.waiting_connect_
         /\ Closed(c, lost).output_pending = c.output_pending
         /\ Closed(c, lost).wire = SubSeq(c.wire, 1, Len(c.wire) - lost)
<1> DEFINE w == SubSeq(c.wire, 1, Len(c.wire) - lost)
<1>1. w \in Seq(Cells)
  <2>1. c.wire \in Seq(Cells)
    BY DEF Channel
  <2>2. Len(c.wire) \in Nat
    BY <2>1, LenProperties
  <2>3. \A i \in 1 .. Len(c.wire) - lost : i \in 1 .. Len(c.wire)
    BY <2>2
  <2>4. \A i \in 1 .. Len(c.wire) - lost : c.wire[i] \in Cells
    BY <2>1, <2>3, ElementOfSeq
  <2>5. 1 \in Int /\ Len(c.wire) - lost \in Int
    BY <2>2
  <2>6. QED
    BY <2>4, <2>5, SubSeqProperties
<1>2. Closed(c, lost) = [c EXCEPT !.pipe_ = "closed", !.output_queue_ = <<>>, !.wire = w]
  BY DEF Closed
<1> HIDE DEF w
<1>3. <<>> \in Seq(Message \union {Hello})
  OBVIOUS
<1>4. QED
  BY <1>1, <1>2, <1>3 DEF Channel, w

(* A close loses no more cells than are in the pipe.                       *)
LEMMA UnwrittenBound ==
  ASSUME NEW c \in Channel, c.output_pending => c.output_queue_ # <<>>
  PROVE  Unwritten(c) \subseteq 0 .. Len(c.wire)
<1>1. Len(c.wire) \in Nat
  BY LenProperties DEF Channel
<1>2. CASE c.output_pending
  <2>1. c.output_queue_ \in Seq(Sent)
    BY DEF Channel, Sent
  <2>2. Head(c.output_queue_) \in Sent
    BY <1>2, <2>1, HeadTailProperties
  <2>3. Size[Head(c.output_queue_)] \in Nat
    BY <2>2, SizeType
  <2> DEFINE s == Size[Head(c.output_queue_)]
             l == Len(c.wire)
  <2>4. s \in Nat /\ l \in Nat /\ Unwritten(c) = 0 .. IF l <= s THEN l ELSE s
    BY <1>1, <1>2, <2>3 DEF Unwritten
  <2> HIDE DEF s, l
  <2>5. Unwritten(c) \subseteq 0 .. l
    BY <2>4
  <2>6. QED
    BY <2>5 DEF l
<1>3. CASE ~c.output_pending
  BY <1>1, <1>3 DEF Unwritten
<1>4. QED
  BY <1>2, <1>3

(* ProcessConnection with a client begins to read and to write, and without*)
(* one leaves the server waiting.                                          *)
LEMMA ProcessConnectionEffect ==
  ASSUME NEW c \in Channel, channel["client"].pipe_ \in {"none", "open", "closed"}
  PROVE  /\ ProcessConnection(c) \in Channel
         /\ ProcessConnection(c).pipe_ = c.pipe_
         /\ ProcessConnection(c).output_queue_ = c.output_queue_
         /\ ProcessConnection(c).input_overflow_buf_ = c.input_overflow_buf_
         /\ \/ /\ channel["client"].pipe_ = "open"
               /\ ~ProcessConnection(c).waiting_connect_
               /\ ProcessConnection(c).input_pending
               /\ c.output_queue_ # <<>> /\ c.pipe_ = "open" => ProcessConnection(c).output_pending
               /\ \/ /\ c.output_queue_ # <<>> /\ c.pipe_ = "open"
                     /\ ProcessConnection(c).output_pending
                     /\ ProcessConnection(c).wire = c.wire \o Wire(Head(c.output_queue_))
                  \/ /\ ProcessConnection(c).output_pending = c.output_pending
                     /\ ProcessConnection(c).wire = c.wire
            \/ /\ channel["client"].pipe_ # "open"
               /\ ProcessConnection(c).waiting_connect_ = c.waiting_connect_
               /\ ProcessConnection(c).input_pending <=> channel["client"].pipe_ = "none"
               /\ ProcessConnection(c).output_pending = c.output_pending
               /\ ProcessConnection(c).wire = c.wire
<1>1. CASE channel["client"].pipe_ # "open"
  BY <1>1 DEF ProcessConnection, Channel
<1>2. CASE channel["client"].pipe_ = "open"
  <2> DEFINE b == [c EXCEPT !.waiting_connect_ = FALSE, !.input_pending = TRUE]
  <2>1. /\ b \in Channel /\ b.pipe_ = c.pipe_ /\ ~b.waiting_connect_ /\ b.input_pending /\ b.wire = c.wire
        /\ b.output_queue_ = c.output_queue_ /\ b.input_overflow_buf_ = c.input_overflow_buf_
        /\ b.output_pending = c.output_pending
    BY DEF Channel
  <2>2. ProcessConnection(c) = StartsWrite("server", b)
    BY <1>2 DEF ProcessConnection
  <2>3. WritePossible("server")
    BY <1>2 DEF WritePossible, Peer
  <2> HIDE DEF b
  <2>4. "server" \in End
    BY DEF End
  <2>5. Writes("server", b, ProcessConnection(c))
    BY <2>1, <2>2, <2>4, StartsWriteEffect
  <2>6. QED
    BY <1>2, <2>1, <2>3, <2>5 DEF Writes
<1>3. QED
  BY <1>1, <1>2

(* The types of what belongs to one end.                                   *)
LEMMA TypedEnd ==
  ASSUME TypeOK, NEW e \in End
  PROVE  /\ channel[e] \in Channel /\ work[e] \in Tasks /\ received[e] \in Seq(Seq(Cells))
         /\ channel[e].pipe_ \in {"none", "open", "closed"} /\ channel[e].input_overflow_buf_ \in Seq(Cells)
         /\ channel[e].wire \in Seq(Cells)
<1>1. channel[e] \in Channel /\ work[e] \in Tasks /\ received[e] \in Seq(Seq(Cells))
  BY DEF TypeOK, Tasks
<1>2. QED
  BY <1>1 DEF Channel

(* A channel that is not created has posted nothing.                       *)
LEMMA NoneIsEmpty ==
  ASSUME NEW e \in End, StreamFrom(e), channel[e].pipe_ = "none"
  PROVE  work[e] = <<>> /\ ~channel[e].output_pending /\ channel[e].output_queue_ = <<>>
BY DEF StreamFrom, InStream, Queued

(* What is being written is in front of the queue.                         *)
LEMMA PendingIsQueued ==
  ASSUME NEW e \in End, StreamFrom(e), channel[e].pipe_ = "open", channel[e].output_pending
  PROVE  channel[e].output_queue_ # <<>>
BY DEF StreamFrom, InStream, Queued

(* A stream stays as it is if its sender and its receiver do.              *)
LEMMA StreamFrame ==
  ASSUME NEW e \in End, StreamFrom(e),
         posted'[e] = posted[e], received'[Peer(e)] = received[Peer(e)], work'[e] = work[e],
         channel'[e] = channel[e],
         channel'[Peer(e)].pipe_ # "closed" =>
           /\ channel[Peer(e)].pipe_ # "closed"
           /\ channel'[Peer(e)].input_overflow_buf_ = channel[Peer(e)].input_overflow_buf_
  PROVE  StreamFrom(e)'
<1> DEFINE p == Peer(e)
           ms == Stream(e)
           got == received[p]
           c == channel[e]
           tasks == work[e]
           over == channel[p].input_overflow_buf_
           over2 == channel'[p].input_overflow_buf_
           reads == channel[p].pipe_ # "closed"
           reads2 == channel'[p].pipe_ # "closed"
<1>1. InStream(ms, got, c, tasks, over, reads)
  BY DEF StreamFrom
<1>2. reads2 => reads /\ over2 = over
  OBVIOUS
<1>3. StreamFrom(e)' <=> InStream(ms, got, c, tasks, over2, reads2)
  BY DEF StreamFrom, Stream
<1> HIDE DEF ms, got, c, tasks, over, over2, reads, reads2
<1>4. InStream(ms, got, c, tasks, over2, reads2)
  BY <1>1, <1>2, InStreamStops
<1>5. QED
  BY <1>3, <1>4

(* An end closes its channel, on the error path or for a task.             *)
Closes(e) ==
  /\ channel' \in [End -> Channel]
  /\ channel'[e].pipe_ = "closed" /\ channel'[e].waiting_connect_ = channel[e].waiting_connect_
  /\ channel'[e].output_pending => channel[e].output_pending
  /\ \E lost \in 0 .. Len(channel[e].wire) :
       channel'[e].wire = SubSeq(channel[e].wire, 1, Len(channel[e].wire) - lost)
  /\ channel'[Peer(e)].pipe_ = channel[Peer(e)].pipe_
  /\ channel'[Peer(e)].waiting_connect_ = channel[Peer(e)].waiting_connect_
  /\ channel'[Peer(e)].input_pending = channel[Peer(e)].input_pending
  /\ channel'[Peer(e)].output_pending = channel[Peer(e)].output_pending
  /\ channel'[Peer(e)].output_queue_ = channel[Peer(e)].output_queue_
  /\ channel'[Peer(e)].input_overflow_buf_ = channel[Peer(e)].input_overflow_buf_
  /\ loop'[e] \in {"run", "delete"} /\ loop'[Peer(e)] = loop[Peer(e)]

(* Closing one end keeps who waits for whom, and what it had written is    *)
(* still the beginning of its stream.                                      *)
LEMMA ClosesKeeps ==
  ASSUME ChannelInv, NEW e \in End, channel[e].pipe_ = "open", Closes(e),
         posted'[e] = posted[e], received'[Peer(e)] = received[Peer(e)]
  PROVE  ConnectInv' /\ NeverIdle' /\ StreamFrom(e)'
<1>1. Peer(e) \in End /\ Peer(e) # e /\ Peer(Peer(e)) = e /\ \A x \in End : x = e \/ x = Peer(e)
  BY PeerType
<1>2. ConnectInv'
  <2>1. CASE e = "server"
    BY <2>1 DEF ChannelInv, ConnectInv, Closes, Peer, End
  <2>2. CASE e = "client"
    BY <2>2 DEF ChannelInv, ConnectInv, Closes, Peer, End
  <2>3. QED
    BY <2>1, <2>2 DEF End
<1>3. NeverIdle'
  <2>1. CASE e = "server"
    BY <2>1 DEF ChannelInv, NeverIdle, Completes, WritePossible, Closes, Peer, End
  <2>2. CASE e = "client"
    BY <2>2 DEF ChannelInv, NeverIdle, Completes, WritePossible, Closes, Peer, End
  <2>3. QED
    BY <2>1, <2>2 DEF End
<1>4. StreamFrom(e)'
  <2> DEFINE ms == Stream(e)
             got == received[Peer(e)]
             c == channel[e]
             d == channel'[e]
             tasks == work[e]
             tasks2 == work'[e]
             over == channel[Peer(e)].input_overflow_buf_
             reads == channel[Peer(e)].pipe_ # "closed"
  <2>1. ms \in Seq(Sent)
    BY StreamType DEF ChannelInv
  <2>2. got \in Seq(Seq(Cells)) /\ c \in Channel /\ d \in Channel /\ over \in Seq(Cells) /\ reads \in BOOLEAN
    BY <1>1, TypedEnd DEF ChannelInv, Closes
  <2>3. InStream(ms, got, c, tasks, over, reads)
    BY DEF ChannelInv, StreamInv, StreamFrom
  <2>4. PICK lost \in 0 .. Len(c.wire) : d.wire = SubSeq(c.wire, 1, Len(c.wire) - lost)
    BY DEF Closes
  <2>5. d.pipe_ = "closed"
    BY DEF Closes
  <2>6. StreamFrom(e)' <=> InStream(ms, got, d, tasks2, over, reads)
    BY DEF StreamFrom, Stream, Closes
  <2> HIDE DEF ms, got, c, d, tasks, tasks2, over, reads
  <2>7. InStream(ms, got, d, tasks, over, reads)
    BY <2>1, <2>2, <2>3, <2>4, <2>5, InStreamEnds
  <2>8. InStream(ms, got, d, tasks2, over, reads)
    BY <2>5, <2>7, InStreamIgnores
  <2>9. QED
    BY <2>6, <2>8
<1>5. QED
  BY <1>2, <1>3, <1>4

(* The error path closes.                                                  *)
LEMMA FailsEffect ==
  ASSUME TypeOK, NEW e \in End, NEW ch \in [End -> Channel], Fails(ch, e),
         ch[e].output_pending => ch[e].output_queue_ # <<>> /\ channel[e].output_pending,
         ch[e].wire = channel[e].wire, ch[e].waiting_connect_ = channel[e].waiting_connect_,
         ch[Peer(e)].pipe_ = channel[Peer(e)].pipe_,
         ch[Peer(e)].waiting_connect_ = channel[Peer(e)].waiting_connect_,
         ch[Peer(e)].input_pending = channel[Peer(e)].input_pending,
         ch[Peer(e)].output_pending = channel[Peer(e)].output_pending,
         ch[Peer(e)].output_queue_ = channel[Peer(e)].output_queue_,
         ch[Peer(e)].input_overflow_buf_ = channel[Peer(e)].input_overflow_buf_
  PROVE  Closes(e) /\ channel'[Peer(e)] = ch[Peer(e)] /\ failed' \subseteq End
         /\ loop' \in [End -> {"run", "connect", "delete", "clear", "signal"}]
<1>1. Peer(e) \in End /\ Peer(e) # e
  BY PeerType
<1>2. PICK lost \in Unwritten(ch[e]) : channel' = [ch EXCEPT ![e] = Closed(@, lost)]
  BY DEF Fails
<1>3. ch[e] \in Channel
  OBVIOUS
<1>4. lost \in 0 .. Len(ch[e].wire)
  BY <1>3, UnwrittenBound
<1> DEFINE d == Closed(ch[e], lost)
<1>5. /\ d \in Channel /\ d.pipe_ = "closed" /\ d.waiting_connect_ = ch[e].waiting_connect_
      /\ d.output_pending = ch[e].output_pending
      /\ d.wire = SubSeq(ch[e].wire, 1, Len(ch[e].wire) - lost)
  BY <1>3, <1>4, ClosedEffect
<1> HIDE DEF d
<1>6. channel' = [ch EXCEPT ![e] = d]
  BY <1>2 DEF d
<1>7. channel' \in [End -> Channel] /\ channel'[e] = d /\ channel'[Peer(e)] = ch[Peer(e)]
  BY <1>1, <1>5, <1>6
<1>8. loop' = [loop EXCEPT ![e] = "delete"] /\ failed' = failed \union {e}
  BY DEF Fails
<1>9. /\ loop'[e] = "delete" /\ loop'[Peer(e)] = loop[Peer(e)] /\ failed' \subseteq End
      /\ loop' \in [End -> {"run", "connect", "delete", "clear", "signal"}]
  BY <1>1, <1>8 DEF TypeOK
<1>10. Closes(e)
  BY <1>4, <1>5, <1>7, <1>9 DEF Closes
<1>11. QED
  BY <1>7, <1>9, <1>10

(* The action that creates an end.                                         *)
LEMMA CreatePipeKeeps ==
  ASSUME ChannelInv, NEW e \in End, CreatePipe(e)
  PROVE  ChannelInv'
<1> DEFINE c == channel[e]
           d == [channel[e] EXCEPT !.pipe_ = "open", !.output_queue_ = <<Hello>>]
<1>1. /\ Peer(e) \in End /\ Peer(e) # e /\ Peer(Peer(e)) = e /\ \A x \in End : x = e \/ x = Peer(e)
      /\ c \in Channel
  BY PeerType, TypedEnd DEF ChannelInv
<1>2. /\ d \in Channel /\ d.pipe_ = "open" /\ d.output_queue_ = <<Hello>>
      /\ d.waiting_connect_ = c.waiting_connect_ /\ d.output_pending = c.output_pending
      /\ d.input_overflow_buf_ = c.input_overflow_buf_ /\ d.wire = c.wire
  <2>1. <<Hello>> \in Seq(Message \union {Hello})
    OBVIOUS
  <2>2. QED
    BY <1>1, <2>1 DEF Channel
<1>3. channel' = [channel EXCEPT ![e] = d]
  BY DEF CreatePipe
<1>4. c.pipe_ = "none" /\ (e = "client" => channel["server"].pipe_ = "open")
      /\ loop' = [loop EXCEPT ![e] = "connect"] /\ UNCHANGED <<work, syncVars, history>>
  BY DEF CreatePipe
<1>5. StreamFrom(e) /\ ~c.output_pending
  BY <1>4, NoneIsEmpty DEF ChannelInv, StreamInv
<1> HIDE DEF d
<1>6. /\ channel'[e] = d /\ channel'[Peer(e)] = channel[Peer(e)]
      /\ loop'[e] = "connect" /\ loop'[Peer(e)] = loop[Peer(e)]
  BY <1>1, <1>3, <1>4 DEF ChannelInv, TypeOK
<1>7. TypeOK'
  BY <1>2, <1>3, <1>4 DEF ChannelInv, TypeOK, syncVars, history
<1>8. StreamFrom(Peer(e))'
  <2>1. StreamFrom(Peer(e))
    BY <1>1 DEF ChannelInv, StreamInv
  <2>2. QED
    BY <1>1, <1>2, <1>4, <1>6, <2>1, StreamFrame DEF history
<1>9. StreamFrom(e)'
  <2> DEFINE ms == Stream(e)
             got == received[Peer(e)]
             tasks == work[e]
             over == channel[Peer(e)].input_overflow_buf_
             reads == channel[Peer(e)].pipe_ # "closed"
  <2>1. InStream(ms, got, c, tasks, over, reads)
    BY <1>5 DEF StreamFrom
  <2>2. StreamFrom(e)' <=> InStream(ms, got, d, tasks, over, reads)
    BY <1>4, <1>6 DEF StreamFrom, Stream, history
  <2> HIDE DEF ms, got, c, tasks, over, reads
  <2>3. InStream(ms, got, d, tasks, over, reads)
    BY <1>2, <1>4, <2>1, InStreamBegins
  <2>4. QED
    BY <2>2, <2>3
<1>10. ConnectInv' /\ NeverIdle'
  <2>1. CASE e = "server"
    BY <1>2, <1>4, <1>5, <1>6, <2>1 DEF ChannelInv, ConnectInv, NeverIdle, Completes, WritePossible, Peer, End
  <2>2. CASE e = "client"
    BY <1>2, <1>4, <1>5, <1>6, <2>2 DEF ChannelInv, ConnectInv, NeverIdle, Completes, WritePossible, Peer, End
  <2>3. QED
    BY <2>1, <2>2 DEF End
<1>11. QED
  BY <1>1, <1>7, <1>8, <1>9, <1>10 DEF ChannelInv, StreamInv

(* A channel whose sender starts a write, or not, after which its other    *)
(* fields are at most the connection and the read.                         *)
LEMMA StreamOfWriter ==
  ASSUME ChannelInv, NEW e \in End, NEW c, NEW d, c = channel[e], d = channel'[e], d \in Channel,
         channel'[Peer(e)].pipe_ = channel[Peer(e)].pipe_,
         channel'[Peer(e)].input_overflow_buf_ = channel[Peer(e)].input_overflow_buf_,
         posted'[e] = posted[e], received'[Peer(e)] = received[Peer(e)], work'[e] = work[e],
         d.pipe_ = c.pipe_, d.output_queue_ = c.output_queue_,
         \/ /\ c.pipe_ = "open" /\ ~c.output_pending /\ c.output_queue_ # <<>>
            /\ d.output_pending /\ d.wire = c.wire \o Wire(Head(c.output_queue_))
         \/ d.output_pending = c.output_pending /\ d.wire = c.wire
  PROVE  StreamFrom(e)'
<1> DEFINE ms == Stream(e)
           got == received[Peer(e)]
           tasks == work[e]
           over == channel[Peer(e)].input_overflow_buf_
           reads == channel[Peer(e)].pipe_ # "closed"
<1>1. ms \in Seq(Sent)
  BY StreamType DEF ChannelInv
<1>2. got \in Seq(Seq(Cells)) /\ c \in Channel /\ over \in Seq(Cells)
  BY PeerType, TypedEnd DEF ChannelInv
<1>3. InStream(ms, got, c, tasks, over, reads)
  BY DEF ChannelInv, StreamInv, StreamFrom
<1>4. StreamFrom(e)' <=> InStream(ms, got, d, tasks, over, reads)
  BY DEF StreamFrom, Stream
<1> HIDE DEF ms, got, tasks, over, reads
<1>5. CASE d.output_pending = c.output_pending /\ d.wire = c.wire
  BY <1>3, <1>4, <1>5, InStreamStays
<1>6. CASE /\ c.pipe_ = "open" /\ ~c.output_pending /\ c.output_queue_ # <<>>
           /\ d.output_pending /\ d.wire = c.wire \o Wire(Head(c.output_queue_))
  <2>1. InStream(ms, got, d, tasks, over, reads)
    BY <1>1, <1>2, <1>3, <1>6, InStreamWrites
  <2>2. QED
    BY <1>4, <2>1
<1>7. QED
  BY <1>5, <1>6

(* The server looks for its client.                                        *)
LEMMA ProcessConnectionKeeps ==
  ASSUME ChannelInv, channel["server"].pipe_ = "open", channel["server"].waiting_connect_,
         channel' = [channel EXCEPT !["server"] = ProcessConnection(@)],
         loop["server"] \in {"connect", "run"}, loop' = [loop EXCEPT !["server"] = "run"],
         UNCHANGED <<work, syncVars, history>>
  PROVE  ChannelInv'
<1> DEFINE c == channel["server"]
           d == ProcessConnection(channel["server"])
<1>1. /\ "server" \in End /\ Peer("server") = "client" /\ Peer("client") = "server" /\ "client" \in End
      /\ "server" # "client" /\ \A x \in End : x = "server" \/ x = "client"
  BY DEF End, Peer
<1>2. c \in Channel /\ channel["client"].pipe_ \in {"none", "open", "closed"}
  BY <1>1, TypedEnd DEF ChannelInv
<1>3. ~c.output_pending
  BY DEF ChannelInv, ConnectInv
<1>4. /\ d \in Channel /\ d.pipe_ = c.pipe_ /\ d.output_queue_ = c.output_queue_
      /\ d.input_overflow_buf_ = c.input_overflow_buf_
      /\ \/ /\ channel["client"].pipe_ = "open" /\ ~d.waiting_connect_ /\ d.input_pending
            /\ c.output_queue_ # <<>> /\ c.pipe_ = "open" => d.output_pending
            /\ \/ /\ c.output_queue_ # <<>> /\ c.pipe_ = "open"
                  /\ d.output_pending /\ d.wire = c.wire \o Wire(Head(c.output_queue_))
               \/ d.output_pending = c.output_pending /\ d.wire = c.wire
         \/ /\ channel["client"].pipe_ # "open" /\ d.waiting_connect_ = c.waiting_connect_
            /\ d.input_pending <=> channel["client"].pipe_ = "none"
            /\ d.output_pending = c.output_pending /\ d.wire = c.wire
  BY <1>2, ProcessConnectionEffect
<1> HIDE DEF d
<1>5. /\ channel'["server"] = d /\ channel'["client"] = channel["client"]
      /\ loop'["server"] = "run" /\ loop'["client"] = loop["client"]
  BY <1>1 DEF ChannelInv, TypeOK, d
<1>6. TypeOK'
  BY <1>1, <1>4 DEF ChannelInv, TypeOK, syncVars, history, d
<1>7. StreamFrom("server")'
  BY <1>1, <1>2, <1>3, <1>4, <1>5, StreamOfWriter DEF history
<1>8. StreamFrom("client")'
  <2>1. StreamFrom("client")
    BY <1>1 DEF ChannelInv, StreamInv
  <2>2. QED
    BY <1>1, <1>4, <1>5, <2>1, StreamFrame DEF history
<1>9. ConnectInv'
  <2>1. CASE channel["client"].pipe_ = "open"
    BY <1>1, <1>4, <1>5, <2>1 DEF ChannelInv, ConnectInv
  <2>2. CASE channel["client"].pipe_ # "open"
    <3>1. d.waiting_connect_ /\ ~d.output_pending
      BY <1>3, <1>4, <2>2
    <3>2. QED
      BY <1>1, <1>4, <1>5, <3>1 DEF ChannelInv, ConnectInv
  <2>3. QED
    BY <2>1, <2>2
<1>10. NeverIdle'
  <2>1. CASE channel["client"].pipe_ = "open"
    BY <1>1, <1>4, <1>5, <2>1 DEF ChannelInv, NeverIdle, Completes, WritePossible
  <2>2. CASE channel["client"].pipe_ # "open"
    BY <1>1, <1>2, <1>4, <1>5, <2>2 DEF ChannelInv, NeverIdle, Completes, WritePossible
  <2>3. QED
    BY <2>1, <2>2
<1>11. QED
  BY <1>1, <1>6, <1>7, <1>8, <1>9, <1>10 DEF ChannelInv, StreamInv

(* The client begins to read, and to write if it has something to write.   *)
LEMMA ConnectKeeps ==
  ASSUME ChannelInv, NEW e \in End, Connect(e)
  PROVE  ChannelInv'
<1>1. /\ Peer(e) \in End /\ Peer(e) # e /\ Peer(Peer(e)) = e /\ \A x \in End : x = e \/ x = Peer(e)
      /\ "server" \in End /\ "client" \in End /\ Peer("client") = "server" /\ "client" # "server"
  BY PeerType DEF End, Peer
<1>2. /\ loop[e] = "connect" /\ UNCHANGED <<work, syncVars, posted, received, listened, fetched, deleted>>
      /\ channel[e].pipe_ = "open" /\ ~channel[e].output_pending
  BY DEF Connect, ChannelInv, ConnectInv
<1>3. CASE /\ e = "server" /\ channel' = [channel EXCEPT ![e] = ProcessConnection(@)]
           /\ loop' = [loop EXCEPT ![e] = "run"] /\ UNCHANGED failed
  <2>1. channel["server"].waiting_connect_
    BY <1>2, <1>3 DEF ChannelInv, ConnectInv
  <2>2. UNCHANGED <<work, syncVars, history>>
    BY <1>2, <1>3 DEF history
  <2>3. QED
    BY <1>2, <1>3, <2>1, <2>2, ProcessConnectionKeeps
<1>4. CASE /\ e = "client" /\ channel' = [channel EXCEPT ![e] = StartsWrite(e, [@ EXCEPT !.input_pending = TRUE])]
           /\ loop' = [loop EXCEPT ![e] = "run"] /\ UNCHANGED failed
  <2> DEFINE c == channel["client"]
             b == [channel["client"] EXCEPT !.input_pending = TRUE]
             d == StartsWrite("client", b)
  <2>1. /\ b \in Channel /\ b.pipe_ = "open" /\ b.output_queue_ = c.output_queue_ /\ b.input_pending
        /\ b.waiting_connect_ = c.waiting_connect_ /\ b.input_overflow_buf_ = c.input_overflow_buf_
        /\ b.wire = c.wire /\ ~b.output_pending /\ c \in Channel
    <3>1. channel["client"] \in Channel
      BY <1>1, TypedEnd DEF ChannelInv
    <3>2. QED
      BY <1>2, <1>4, <3>1 DEF Channel
  <2> HIDE DEF b
  <2>2. Writes("client", b, d)
    BY <1>1, <2>1, StartsWriteEffect
  <2>3. /\ channel' = [channel EXCEPT !["client"] = d]
        /\ loop' = [loop EXCEPT !["client"] = "run"]
    BY <1>4 DEF b
  <2> HIDE DEF d
  <2>4. d \in Channel /\ d.pipe_ = "open" /\ d.output_queue_ = c.output_queue_
        /\ d.waiting_connect_ = c.waiting_connect_ /\ d.input_overflow_buf_ = c.input_overflow_buf_
        /\ d.input_pending
        /\ (c.output_queue_ # <<>> /\ WritePossible("client") => d.output_pending)
        /\ \/ /\ c.output_queue_ # <<>> /\ d.output_pending
              /\ d.wire = c.wire \o Wire(Head(c.output_queue_))
           \/ ~d.output_pending /\ d.wire = c.wire
    BY <2>1, <2>2 DEF Writes
  <2>5. channel'["client"] = d /\ channel'["server"] = channel["server"]
        /\ loop'["client"] = "run" /\ loop'["server"] = loop["server"]
    BY <1>1, <2>3 DEF ChannelInv, TypeOK
  <2>6. c.pipe_ = "open" /\ ~c.output_pending /\ c = channel["client"] /\ Peer("server") = "client"
    BY <1>2, <1>4 DEF Peer
  <2>7. TypeOK'
    BY <1>1, <1>2, <1>4, <2>3, <2>4 DEF ChannelInv, TypeOK, syncVars, history
  <2> HIDE DEF c
  <2>8. StreamFrom("client")'
    <3>1. \/ /\ c.pipe_ = "open" /\ ~c.output_pending /\ c.output_queue_ # <<>>
             /\ d.output_pending /\ d.wire = c.wire \o Wire(Head(c.output_queue_))
          \/ d.output_pending = c.output_pending /\ d.wire = c.wire
      <4>1. c.output_pending \in BOOLEAN /\ d.output_pending \in BOOLEAN
        BY <2>1, <2>4 DEF Channel
      <4>2. QED
        BY <2>4, <2>6, <4>1
    <3>2. d.pipe_ = c.pipe_ /\ c = channel["client"] /\ d = channel'["client"]
      BY <2>4, <2>5, <2>6
    <3>3. QED
      BY <1>1, <1>2, <2>4, <2>5, <3>1, <3>2, StreamOfWriter
  <2>9. StreamFrom("server")'
    <3>1. StreamFrom("server")
      BY <1>1 DEF ChannelInv, StreamInv
    <3>2. channel'["client"].pipe_ = channel["client"].pipe_
          /\ channel'["client"].input_overflow_buf_ = channel["client"].input_overflow_buf_
      BY <2>4, <2>5, <2>6
    <3>3. QED
      BY <1>1, <1>2, <2>5, <2>6, <3>1, <3>2, StreamFrame
  <2>10. ConnectInv'
    BY <1>1, <2>4, <2>5, <2>6 DEF ChannelInv, ConnectInv
  <2>11. NeverIdle'
    <3>1. WritePossible("client")' <=> WritePossible("client")
      BY <1>1, <2>5 DEF WritePossible
    <3>2. NeverIdle
      BY DEF ChannelInv
    <3>3. channel'["client"].pipe_ = channel["client"].pipe_
      BY <2>4, <2>5, <2>6
    <3>4. /\ channel'["client"].input_pending
          /\ channel'["client"].output_queue_ # <<>> /\ WritePossible("client")' => channel'["client"].output_pending
      BY <2>4, <2>5, <3>1
    <3>5. /\ Completes("server")' <=> Completes("server")
          /\ WritePossible("server")' <=> WritePossible("server")
      BY <2>5, <2>6, <3>3 DEF Completes, WritePossible
    <3>6. QED
      BY <1>1, <2>5, <3>2, <3>3, <3>4, <3>5 DEF NeverIdle
  <2>12. QED
    BY <1>1, <1>4, <2>7, <2>8, <2>9, <2>10, <2>11 DEF ChannelInv, StreamInv
<1>5. CASE Fails(channel, e)
  <2>1. channel \in [End -> Channel] /\ TypeOK
    BY DEF ChannelInv, TypeOK
  <2>2. Closes(e) /\ channel'[Peer(e)] = channel[Peer(e)] /\ failed' \subseteq End
        /\ loop' \in [End -> {"run", "connect", "delete", "clear", "signal"}]
    BY <1>2, <1>5, <2>1, FailsEffect
  <2>3. TypeOK'
    BY <1>2, <2>1, <2>2 DEF TypeOK, syncVars, Closes
  <2>4. StreamFrom(Peer(e))'
    <3>1. StreamFrom(Peer(e)) /\ channel'[e].pipe_ = "closed"
      BY <1>1, <2>2 DEF ChannelInv, StreamInv, Closes
    <3>2. QED
      BY <1>1, <1>2, <2>2, <3>1, StreamFrame
  <2>5. ConnectInv' /\ NeverIdle' /\ StreamFrom(e)'
    BY <1>1, <1>2, <2>2, ClosesKeeps
  <2>6. QED
    BY <1>1, <2>3, <2>4, <2>5 DEF ChannelInv, StreamInv
<1>6. QED
  BY <1>3, <1>4, <1>5 DEF Connect

(* The wait for a client ends.                                             *)
LEMMA ConnectionCompletesKeeps ==
  ASSUME ChannelInv, ConnectionCompletes
  PROVE  ChannelInv'
<1>1. /\ channel["server"].pipe_ = "open" /\ channel["server"].waiting_connect_ /\ loop["server"] = "run"
      /\ channel' = [channel EXCEPT !["server"] = ProcessConnection(@)]
      /\ loop' = loop /\ failed' = failed
  BY DEF ConnectionCompletes, Completes, Succeeds
<1>2. loop' = [loop EXCEPT !["server"] = "run"]
  BY <1>1 DEF ChannelInv, TypeOK
<1>3. UNCHANGED <<work, syncVars, history>>
  BY <1>1 DEF ConnectionCompletes, history
<1>4. QED
  BY <1>1, <1>2, <1>3, ProcessConnectionKeeps

(* A failure of a read or a write that left the other end as it was.       *)
LEMMA FailureKeeps ==
  ASSUME ChannelInv, NEW e \in End, NEW ch \in [End -> Channel], Fails(ch, e), channel[e].pipe_ = "open",
         ch[e].output_pending => ch[e].output_queue_ # <<>> /\ channel[e].output_pending,
         ch[e].wire = channel[e].wire, ch[e].waiting_connect_ = channel[e].waiting_connect_,
         ch[Peer(e)] = channel[Peer(e)],
         UNCHANGED <<work, syncVars, posted, received, listened, fetched, deleted>>
  PROVE  ChannelInv'
<1>1. Peer(e) \in End /\ Peer(e) # e /\ Peer(Peer(e)) = e /\ \A x \in End : x = e \/ x = Peer(e)
  BY PeerType
<1>2. TypeOK
  BY DEF ChannelInv
<1>3. Closes(e) /\ channel'[Peer(e)] = channel[Peer(e)] /\ failed' \subseteq End
      /\ loop' \in [End -> {"run", "connect", "delete", "clear", "signal"}]
  BY <1>2, FailsEffect
<1>4. TypeOK'
  BY <1>2, <1>3 DEF TypeOK, syncVars, Closes
<1>5. StreamFrom(Peer(e))'
  <2>1. StreamFrom(Peer(e)) /\ channel'[e].pipe_ = "closed"
    BY <1>1, <1>3 DEF ChannelInv, StreamInv, Closes
  <2>2. QED
    BY <1>1, <1>3, <2>1, StreamFrame
<1>6. ConnectInv' /\ NeverIdle' /\ StreamFrom(e)'
  BY <1>1, <1>3, ClosesKeeps
<1>7. QED
  BY <1>1, <1>4, <1>5, <1>6 DEF ChannelInv, StreamInv

(* A read fails, the other end being closed and nothing left of it.        *)
LEMMA ReadFailsKeeps ==
  ASSUME ChannelInv, NEW e \in End, ReadFails(e)
  PROVE  ChannelInv'
<1> DEFINE d == [channel[e] EXCEPT !.input_pending = FALSE]
           ch == [channel EXCEPT ![e] = d]
<1>1. channel[e] \in Channel /\ channel \in [End -> Channel] /\ Peer(e) # e /\ Peer(e) \in End
  BY TypedEnd, PeerType DEF ChannelInv, TypeOK
<1>2. /\ d \in Channel /\ d.output_pending = channel[e].output_pending /\ d.wire = channel[e].wire
      /\ d.output_queue_ = channel[e].output_queue_ /\ d.waiting_connect_ = channel[e].waiting_connect_
  BY <1>1 DEF Channel
<1>3. channel[e].pipe_ = "open" /\ Fails(ch, e)
      /\ UNCHANGED <<work, syncVars, posted, received, listened, fetched, deleted>>
  BY DEF ReadFails, Completes
<1>4. channel[e].output_pending => channel[e].output_queue_ # <<>>
  BY <1>3, PendingIsQueued DEF ChannelInv, StreamInv
<1> HIDE DEF d
<1>5. ch \in [End -> Channel] /\ ch[e] = d /\ ch[Peer(e)] = channel[Peer(e)]
  BY <1>1, <1>2
<1> HIDE DEF ch
<1>6. QED
  BY <1>2, <1>3, <1>4, <1>5, FailureKeeps

(* A write fails, the other end being closed.                              *)
LEMMA WriteFailsKeeps ==
  ASSUME ChannelInv, NEW e \in End, WriteFails(e)
  PROVE  ChannelInv'
<1> DEFINE d == [channel[e] EXCEPT !.output_pending = FALSE]
           ch == [channel EXCEPT ![e] = d]
<1>1. channel[e] \in Channel /\ channel \in [End -> Channel] /\ Peer(e) # e /\ Peer(e) \in End
  BY TypedEnd, PeerType DEF ChannelInv, TypeOK
<1>2. /\ d \in Channel /\ ~d.output_pending /\ d.wire = channel[e].wire
      /\ d.waiting_connect_ = channel[e].waiting_connect_
  BY <1>1 DEF Channel
<1>3. channel[e].pipe_ = "open" /\ Fails(ch, e)
      /\ UNCHANGED <<work, syncVars, posted, received, listened, fetched, deleted>>
  BY DEF WriteFails, Completes
<1> HIDE DEF d
<1>4. ch \in [End -> Channel] /\ ch[e] = d /\ ch[Peer(e)] = channel[Peer(e)]
  BY <1>1, <1>2
<1> HIDE DEF ch
<1>5. QED
  BY <1>2, <1>3, <1>4, FailureKeeps

(* The written message leaves the queue and the next is written.           *)
LEMMA WriteCompletesKeeps ==
  ASSUME ChannelInv, NEW e \in End, WriteCompletes(e)
  PROVE  ChannelInv'
<1> DEFINE c == channel[e]
           b == Popped(channel[e])
           written == [channel EXCEPT ![e] = b]
<1>1. /\ Peer(e) \in End /\ Peer(e) # e /\ Peer(Peer(e)) = e /\ \A x \in End : x = e \/ x = Peer(e)
      /\ c \in Channel /\ channel \in [End -> Channel]
  BY PeerType, TypedEnd DEF ChannelInv, TypeOK
<1>2. c.pipe_ = "open" /\ c.output_pending /\ c.output_queue_ # <<>> /\ loop[e] = "run"
      /\ UNCHANGED <<work, syncVars, posted, received, listened, fetched, deleted>>
  <2>1. c.pipe_ = "open" /\ c.output_pending /\ loop[e] = "run"
        /\ UNCHANGED <<work, syncVars, posted, received, listened, fetched, deleted>>
    BY DEF WriteCompletes, Completes
  <2>2. QED
    BY <2>1, PendingIsQueued DEF ChannelInv, StreamInv
<1>3. /\ b \in Channel /\ b.pipe_ = "open" /\ ~b.output_pending /\ b.output_queue_ = Tail(c.output_queue_)
      /\ b.wire = c.wire /\ b.waiting_connect_ = c.waiting_connect_ /\ b.input_pending = c.input_pending
      /\ b.input_overflow_buf_ = c.input_overflow_buf_
  <2>1. c.output_queue_ \in Seq(Message \union {Hello})
    BY <1>1 DEF Channel
  <2>2. Tail(c.output_queue_) \in Seq(Message \union {Hello})
    BY <1>2, <2>1, HeadTailProperties
  <2>3. QED
    BY <1>1, <1>2, <2>2 DEF Popped, Channel
<1>4. \/ /\ b.output_queue_ = <<>> \/ WritePossible(e)
         /\ Succeeds([written EXCEPT ![e] = StartsWrite(e, @)])
      \/ Fails(written, e)
  <2>1. written[e] = b
    BY <1>1
  <2>2. QED
    BY <2>1 DEF WriteCompletes
<1> HIDE DEF b
<1>5. written \in [End -> Channel] /\ written[e] = b /\ written[Peer(e)] = channel[Peer(e)]
  BY <1>1, <1>3
<1>6. CASE Fails(written, e)
  <2> HIDE DEF written
  <2>1. QED
    BY <1>2, <1>3, <1>5, <1>6, FailureKeeps
<1>7. CASE Succeeds([written EXCEPT ![e] = StartsWrite(e, @)])
  <2> DEFINE d == StartsWrite(e, b)
  <2>1. Writes(e, b, d)
    BY <1>3, StartsWriteEffect
  <2>2. channel' = [channel EXCEPT ![e] = d] /\ loop' = loop /\ failed' = failed
    BY <1>1, <1>5, <1>7 DEF Succeeds
  <2> HIDE DEF d, written
  <2>3. /\ d \in Channel /\ d.pipe_ = "open" /\ d.output_queue_ = b.output_queue_ /\ d.input_pending = c.input_pending
        /\ d.waiting_connect_ = c.waiting_connect_ /\ d.input_overflow_buf_ = c.input_overflow_buf_
        /\ d.output_queue_ # <<>> /\ WritePossible(e) => d.output_pending
        /\ \/ /\ b.output_queue_ # <<>> /\ d.output_pending
              /\ d.wire = b.wire \o Wire(Head(b.output_queue_))
           \/ d.output_pending = b.output_pending /\ d.wire = b.wire
    BY <1>3, <2>1 DEF Writes
  <2>4. channel'[e] = d /\ channel'[Peer(e)] = channel[Peer(e)]
    BY <1>1, <2>2
  <2>5. TypeOK'
    BY <1>1, <1>2, <2>2, <2>3 DEF ChannelInv, TypeOK, syncVars
  <2>6. channel'[e].pipe_ = channel[e].pipe_
        /\ channel'[e].input_overflow_buf_ = channel[e].input_overflow_buf_
    BY <1>2, <2>3, <2>4
  <2>7. StreamFrom(Peer(e))'
    <3>1. StreamFrom(Peer(e))
      BY <1>1 DEF ChannelInv, StreamInv
    <3>2. QED
      BY <1>1, <1>2, <2>4, <2>6, <3>1, StreamFrame
  <2>8. StreamFrom(e)'
    <3> DEFINE ms == Stream(e)
               got == received[Peer(e)]
               tasks == work[e]
               over == channel[Peer(e)].input_overflow_buf_
               reads == channel[Peer(e)].pipe_ # "closed"
    <3>1. ms \in Seq(Sent)
      BY StreamType DEF ChannelInv
    <3>2. got \in Seq(Seq(Cells)) /\ over \in Seq(Cells)
      BY <1>1, TypedEnd DEF ChannelInv
    <3>3. InStream(ms, got, c, tasks, over, reads)
      BY DEF ChannelInv, StreamInv, StreamFrom
    <3>4. StreamFrom(e)' <=> InStream(ms, got, d, tasks, over, reads)
      BY <1>2, <2>4 DEF StreamFrom, Stream
    <3> HIDE DEF ms, got, tasks, over, reads, c
    <3>5. InStream(ms, got, b, tasks, over, reads)
      BY <1>1, <1>2, <1>3, <3>1, <3>3, InStreamPops
    <3>6. CASE d.output_pending = b.output_pending /\ d.wire = b.wire
      BY <1>3, <2>3, <3>4, <3>5, <3>6, InStreamStays
    <3>7. CASE /\ b.output_queue_ # <<>> /\ d.output_pending
               /\ d.wire = b.wire \o Wire(Head(b.output_queue_))
      <4>1. InStream(ms, got, d, tasks, over, reads)
        BY <1>3, <2>3, <3>1, <3>2, <3>5, <3>7, InStreamWrites
      <4>2. QED
        BY <3>4, <4>1
    <3>8. QED
      BY <2>3, <3>6, <3>7
  <2>9. ~channel[e].waiting_connect_
    BY <1>2 DEF ChannelInv, ConnectInv, End
  <2>10. ConnectInv' /\ NeverIdle'
    <3>1. CASE e = "server"
      <4>1. ConnectInv'
        BY <1>2, <2>2, <2>3, <2>4, <2>6, <2>9, <3>1 DEF ChannelInv, ConnectInv, End, Peer
      <4>2. NeverIdle'
        BY <1>2, <2>2, <2>3, <2>4, <2>6, <2>9, <3>1 DEF ChannelInv, NeverIdle, Completes, WritePossible, End, Peer
      <4>3. QED
        BY <4>1, <4>2
    <3>2. CASE e = "client"
      <4>1. ConnectInv'
        BY <1>2, <2>2, <2>3, <2>4, <2>6, <2>9, <3>2 DEF ChannelInv, ConnectInv, End, Peer
      <4>2. NeverIdle'
        BY <1>2, <2>2, <2>3, <2>4, <2>6, <2>9, <3>2 DEF ChannelInv, NeverIdle, Completes, WritePossible, End, Peer
      <4>3. QED
        BY <4>1, <4>2
    <3>3. QED
      BY <3>1, <3>2 DEF End
  <2>11. QED
    BY <1>1, <2>5, <2>7, <2>8, <2>10 DEF ChannelInv, StreamInv
<1>8. QED
  BY <1>4, <1>6, <1>7

(* What is dispatched has its place, and keeps the types.                  *)
LEMMA DispatchTypes ==
  ASSUME TypeOK, NEW e \in End, NEW messages \in Seq(Seq(Cells)),
         \A j \in 1 .. Len(messages) : \E m \in Sent : messages[j] = Wire(m),
         DispatchIPCMessages(e, messages)
  PROVE  /\ received' \in [End -> Seq(Seq(Cells))]
         /\ received'[e] = received[e] \o messages /\ \A x \in End : x # e => received'[x] = received[x]
         /\ replay_messages_' \in [End -> SUBSET {Reply[r] : r \in Request}]
         /\ done_event' \subseteq Request /\ listened' \subseteq Message
         /\ UNCHANGED <<pending_sync_messages_, call>>
<1> DEFINE arrived == {messages[j][1][1] : j \in DOMAIN messages} \ {Hello}
           awaited == {m \in arrived : AwaitedBy(m) # {}}
<1>1. arrived \subseteq Message
  <2>1. DOMAIN messages = 1 .. Len(messages)
    BY LenProperties
  <2>2. ASSUME NEW j \in 1 .. Len(messages)
        PROVE  messages[j][1][1] \in Sent
    <3>1. PICK m \in Sent : messages[j] = Wire(m)
      OBVIOUS
    <3>2. Wire(m)[1][1] = m
      BY WireProperties
    <3>3. QED
      BY <3>1, <3>2
  <2>3. QED
    BY <2>1, <2>2 DEF Sent
<1>2. /\ received' = [received EXCEPT ![e] = @ \o messages]
      /\ replay_messages_' = [replay_messages_ EXCEPT ![e] = @ \union awaited]
      /\ done_event' = done_event \union UNION {AwaitedBy(m) : m \in awaited}
      /\ listened' = listened \union (arrived \ awaited)
      /\ UNCHANGED <<pending_sync_messages_, call>>
  BY DEF DispatchIPCMessages
<1>3. awaited \subseteq {Reply[r] : r \in Request}
  BY DEF AwaitedBy, TypeOK
<1>4. UNION {AwaitedBy(m) : m \in awaited} \subseteq Request
  BY DEF AwaitedBy, TypeOK
<1>5. received[e] \o messages \in Seq(Seq(Cells))
  BY ConcatProperties DEF TypeOK
<1> HIDE DEF arrived, awaited
<1>6. received' \in [End -> Seq(Seq(Cells))] /\ received'[e] = received[e] \o messages
      /\ \A x \in End : x # e => received'[x] = received[x]
  BY <1>2, <1>5 DEF TypeOK
<1>7. replay_messages_' \in [End -> SUBSET {Reply[r] : r \in Request}]
  BY <1>2, <1>3 DEF TypeOK
<1>8. done_event' \subseteq Request /\ listened' \subseteq Message
  BY <1>1, <1>2, <1>4 DEF TypeOK
<1>9. QED
  BY <1>2, <1>6, <1>7, <1>8

(* A chunk of the stream to e is read and its whole messages dispatched.   *)
LEMMA ReadDispatches ==
  ASSUME ChannelInv, NEW e \in End, NEW n \in Nat, ReadCompletes(e, n)
  PROVE  \E messages \in Seq(Seq(Cells)), over2 \in Seq(Cells), d \in Channel :
           /\ \A j \in 1 .. Len(messages) : \E m \in Sent : messages[j] = Wire(m)
           /\ DispatchIPCMessages(e, messages)
           /\ d = [channel[Peer(e)] EXCEPT !.wire = SubSeq(@, n + 1, Len(@))]
           /\ InStream(Stream(Peer(e)), received[e] \o messages, d, work[Peer(e)], over2, FALSE)
           /\ \/ /\ InStream(Stream(Peer(e)), received[e] \o messages, d, work[Peer(e)], over2, TRUE)
                 /\ Succeeds([channel EXCEPT ![Peer(e)] = d, ![e].input_overflow_buf_ = over2])
              \/ Fails([channel EXCEPT ![Peer(e)] = d, ![e].input_overflow_buf_ = over2, ![e].input_pending = FALSE], e)
<1> DEFINE p == Peer(e)
           over == channel[e].input_overflow_buf_
           c == channel[p]
           d == [c EXCEPT !.wire = SubSeq(@, n + 1, Len(@))]
           buf == over \o SubSeq(c.wire, 1, n)
           tooLong == over # <<>> /\ Len(buf) > kMaximumMessageSize
           refused == Oversized(over, buf, Partial(buf))
           messages == IF tooLong THEN <<>> ELSE WholeMessages(buf)
           rest == IF refused THEN <<>> ELSE Partial(buf)
           read == [channel EXCEPT ![p].wire = SubSeq(@, n + 1, Len(@)), ![e].input_overflow_buf_ = rest]
           ms == Stream(p)
           got == received[e]
           tasks == work[p]
<1>1. /\ p \in End /\ p # e /\ Peer(p) = e /\ \A x \in End : x = e \/ x = p
      /\ c \in Channel /\ channel[e] \in Channel /\ channel \in [End -> Channel]
      /\ over \in Seq(Cells) /\ got \in Seq(Seq(Cells)) /\ ms \in Seq(Sent)
      /\ c.wire \in Seq(Cells)
  BY PeerType, TypedEnd, StreamType DEF ChannelInv, TypeOK
<1>2. channel[e].pipe_ = "open" /\ n <= Len(c.wire) /\ DispatchIPCMessages(e, messages)
  BY DEF ReadCompletes, Completes
<1>3. \/ ~refused /\ Succeeds(read)
      \/ Fails([read EXCEPT ![e].input_pending = FALSE], e)
  BY DEF ReadCompletes
<1>4. tooLong => refused
  BY DEF Oversized
<1>5. n \in 0 .. Len(c.wire)
  BY <1>1, <1>2, LenProperties
<1>6. /\ d \in Channel /\ d.pipe_ = c.pipe_ /\ d.output_pending = c.output_pending
      /\ d.output_queue_ = c.output_queue_ /\ d.wire = SubSeq(c.wire, n + 1, Len(c.wire))
      /\ c.wire = <<>> => d.wire = <<>>
  <2> DEFINE w == SubSeq(c.wire, n + 1, Len(c.wire))
  <2>1. w \in Seq(Cells)
    <3>1. Len(c.wire) \in Nat
      BY <1>1, LenProperties
    <3>2. \A i \in n + 1 .. Len(c.wire) : i \in 1 .. Len(c.wire)
      BY <3>1
    <3>3. \A i \in n + 1 .. Len(c.wire) : c.wire[i] \in Cells
      BY <1>1, <3>2, ElementOfSeq
    <3>4. n + 1 \in Int /\ Len(c.wire) \in Int
      BY <3>1
    <3>5. QED
      BY <3>3, <3>4, SubSeqProperties
  <2>2. c.wire = <<>> => w = <<>>
    <3>1. SUFFICES ASSUME c.wire = <<>>
                   PROVE  SubSeq(<<>>, n + 1, 0) = <<>>
      BY EmptySeq
    <3>2. ~(n + 1 <= 0)
      OBVIOUS
    <3>3. QED
      BY <3>2
  <2> HIDE DEF w
  <2>3. d = [c EXCEPT !.wire = w]
    BY DEF w
  <2> HIDE DEF d, c
  <2>4. d \in Channel /\ d.pipe_ = c.pipe_ /\ d.output_pending = c.output_pending
        /\ d.output_queue_ = c.output_queue_ /\ d.wire = w
    BY <1>1, <2>1, <2>3 DEF Channel
  <2>5. QED
    BY <2>2, <2>4 DEF w
<1>7. read = [channel EXCEPT ![p] = d, ![e].input_overflow_buf_ = rest]
  BY <1>1
<1>8. InStream(ms, got, c, tasks, over, TRUE)
  BY <1>1, <1>2 DEF ChannelInv, StreamInv, StreamFrom
<1> HIDE DEF d, c, ms, got, tasks, over
<1>9. /\ WholeMessages(buf) \in Seq(Seq(Cells))
      /\ \A j \in 1 .. Len(WholeMessages(buf)) : \E m \in Sent : WholeMessages(buf)[j] = Wire(m)
      /\ Partial(buf) \in Seq(Cells)
      /\ InStream(ms, got \o WholeMessages(buf), d, tasks, Partial(buf), TRUE)
  BY <1>1, <1>5, <1>6, <1>8, InStreamReads
<1> HIDE DEF buf
<1>10. messages \in Seq(Seq(Cells)) /\ \A j \in 1 .. Len(messages) : \E m \in Sent : messages[j] = Wire(m)
  <2>1. CASE tooLong
    BY <2>1, EmptySeq
  <2>2. CASE ~tooLong
    BY <1>9, <2>2
  <2>3. QED
    BY <2>1, <2>2
<1>11. rest \in Seq(Cells)
  BY <1>9
<1>12. ~refused => InStream(ms, got \o messages, d, tasks, rest, TRUE)
  BY <1>4, <1>9
<1>13. InStream(ms, got \o messages, d, tasks, rest, FALSE)
  <2>1. CASE tooLong
    <3>1. got \o messages = got
      BY <1>1, <2>1, ConcatEmptySeq
    <3>2. InStream(ms, got, d, tasks, rest, FALSE)
      BY <1>6, <1>8, InStreamStops
    <3>3. QED
      BY <3>1, <3>2
  <2>2. CASE ~tooLong
    <3>1. InStream(ms, got \o messages, d, tasks, Partial(buf), TRUE)
      BY <1>9, <2>2
    <3> HIDE DEF messages, rest
    <3>2. QED
      BY <3>1, InStreamStops
  <2>3. QED
    BY <2>1, <2>2
<1> HIDE DEF messages, rest, refused, tooLong
<1>14. \/ /\ InStream(ms, got \o messages, d, tasks, rest, TRUE)
          /\ Succeeds([channel EXCEPT ![p] = d, ![e].input_overflow_buf_ = rest])
       \/ Fails([channel EXCEPT ![p] = d, ![e].input_overflow_buf_ = rest, ![e].input_pending = FALSE], e)
  <2>1. [read EXCEPT ![e].input_pending = FALSE]
          = [channel EXCEPT ![p] = d, ![e].input_overflow_buf_ = rest, ![e].input_pending = FALSE]
    BY <1>1, <1>7
  <2> HIDE DEF read
  <2>2. QED
    BY <1>3, <1>7, <1>12, <2>1
<1>15. QED
  BY <1>2, <1>6, <1>10, <1>11, <1>13, <1>14 DEF ms, got, tasks, d, c

(* A read completes: the receiver has more of the stream, in order, and    *)
(* both channels go on.                                                    *)
LEMMA ReadCompletesKeeps ==
  ASSUME ChannelInv, NEW e \in End, NEW n \in Nat, ReadCompletes(e, n)
  PROVE  ChannelInv'
<1> DEFINE p == Peer(e)
<1>1. /\ p \in End /\ p # e /\ Peer(p) = e /\ \A x \in End : x = e \/ x = p
      /\ channel[p] \in Channel /\ channel[e] \in Channel /\ channel \in [End -> Channel] /\ TypeOK
  BY PeerType, TypedEnd DEF ChannelInv, TypeOK
<1>2. channel[e].pipe_ = "open" /\ loop[e] = "run" /\ UNCHANGED <<work, posted, fetched, deleted>>
  BY DEF ReadCompletes, Completes
<1>3. PICK messages \in Seq(Seq(Cells)), over2 \in Seq(Cells), d \in Channel :
        /\ \A j \in 1 .. Len(messages) : \E m \in Sent : messages[j] = Wire(m)
        /\ DispatchIPCMessages(e, messages)
        /\ d = [channel[p] EXCEPT !.wire = SubSeq(@, n + 1, Len(@))]
        /\ InStream(Stream(p), received[e] \o messages, d, work[p], over2, FALSE)
        /\ \/ /\ InStream(Stream(p), received[e] \o messages, d, work[p], over2, TRUE)
              /\ Succeeds([channel EXCEPT ![p] = d, ![e].input_overflow_buf_ = over2])
           \/ Fails([channel EXCEPT ![p] = d, ![e].input_overflow_buf_ = over2, ![e].input_pending = FALSE], e)
  BY ReadDispatches
<1>4. /\ received' \in [End -> Seq(Seq(Cells))]
      /\ received'[e] = received[e] \o messages /\ received'[p] = received[p]
      /\ replay_messages_' \in [End -> SUBSET {Reply[r] : r \in Request}]
      /\ done_event' \subseteq Request /\ listened' \subseteq Message
      /\ UNCHANGED <<pending_sync_messages_, call>>
  BY <1>1, <1>3, DispatchTypes
<1>5. /\ d.pipe_ = channel[p].pipe_ /\ d.waiting_connect_ = channel[p].waiting_connect_
      /\ d.input_pending = channel[p].input_pending /\ d.output_pending = channel[p].output_pending
      /\ d.output_queue_ = channel[p].output_queue_ /\ d.input_overflow_buf_ = channel[p].input_overflow_buf_
  BY <1>1, <1>3 DEF Channel
<1> HIDE DEF p
<1>6. CASE /\ InStream(Stream(p), received[e] \o messages, d, work[p], over2, TRUE)
           /\ Succeeds([channel EXCEPT ![p] = d, ![e].input_overflow_buf_ = over2])
  <2> DEFINE b == [channel[e] EXCEPT !.input_overflow_buf_ = over2]
  <2>1. /\ b \in Channel /\ b.pipe_ = "open" /\ b.waiting_connect_ = channel[e].waiting_connect_
        /\ b.input_pending = channel[e].input_pending /\ b.output_pending = channel[e].output_pending
        /\ b.output_queue_ = channel[e].output_queue_ /\ b.wire = channel[e].wire
        /\ b.input_overflow_buf_ = over2
    BY <1>1, <1>2 DEF Channel
  <2>2. channel' = [channel EXCEPT ![p] = d, ![e] = b] /\ loop' = loop /\ failed' = failed
    BY <1>1, <1>6 DEF Succeeds
  <2> HIDE DEF b
  <2>3. channel' \in [End -> Channel] /\ channel'[e] = b /\ channel'[p] = d
    BY <1>1, <2>1, <2>2
  <2>4. TypeOK'
    BY <1>1, <1>2, <1>4, <2>2, <2>3 DEF TypeOK
  <2>5. StreamFrom(p)'
    <3>1. StreamFrom(p)' <=> InStream(Stream(p), received[e] \o messages, d, work[p], over2, b.pipe_ # "closed")
      BY <1>1, <1>2, <1>4, <2>1, <2>3 DEF StreamFrom, Stream
    <3>2. (b.pipe_ # "closed") = TRUE
      BY <2>1
    <3>3. QED
      BY <1>6, <3>1, <3>2
  <2>6. StreamFrom(e)'
    <3>1. /\ b.pipe_ = channel[e].pipe_ /\ b.output_queue_ = channel[e].output_queue_
          /\ b.output_pending = channel[e].output_pending /\ b.wire = channel[e].wire
      BY <1>2, <2>1
    <3>2. Peer(e) = p
      BY DEF p
    <3>3. /\ posted'[e] = posted[e] /\ received'[p] = received[p] /\ work'[e] = work[e]
          /\ channel'[p].pipe_ = channel[p].pipe_
          /\ channel'[p].input_overflow_buf_ = channel[p].input_overflow_buf_
      BY <1>2, <1>4, <1>5, <2>3
    <3>4. b = channel'[e]
      BY <2>3
    <3>5. QED
      BY <2>1, <3>1, <3>2, <3>3, <3>4, StreamOfWriter
  <2>7. /\ \A x \in End : /\ channel'[x].pipe_ = channel[x].pipe_
                          /\ channel'[x].waiting_connect_ = channel[x].waiting_connect_
                          /\ channel'[x].input_pending = channel[x].input_pending
                          /\ channel'[x].output_pending = channel[x].output_pending
                          /\ channel'[x].output_queue_ = channel[x].output_queue_
        /\ loop' = loop
    BY <1>1, <1>2, <1>5, <2>1, <2>2, <2>3
  <2>8. ConnectInv' /\ NeverIdle'
    <3>1. ConnectInv'
      BY <2>7 DEF ChannelInv, ConnectInv, End
    <3>2. NeverIdle'
      BY <1>1, <2>7, PeerType DEF ChannelInv, NeverIdle, Completes, WritePossible, End
    <3>3. QED
      BY <3>1, <3>2
  <2>9. QED
    BY <1>1, <2>4, <2>5, <2>6, <2>8 DEF ChannelInv, StreamInv
<1>7. CASE Fails([channel EXCEPT ![p] = d, ![e].input_overflow_buf_ = over2, ![e].input_pending = FALSE], e)
  <2> DEFINE b == [channel[e] EXCEPT !.input_overflow_buf_ = over2, !.input_pending = FALSE]
             ch == [channel EXCEPT ![p] = d, ![e] = b]
  <2>1. /\ b \in Channel /\ b.waiting_connect_ = channel[e].waiting_connect_
        /\ b.output_pending = channel[e].output_pending
        /\ b.output_queue_ = channel[e].output_queue_ /\ b.wire = channel[e].wire
    BY <1>1, <1>2 DEF Channel
  <2>2. ch = [channel EXCEPT ![p] = d, ![e].input_overflow_buf_ = over2, ![e].input_pending = FALSE]
    BY <1>1
  <2>3. Fails(ch, e)
    BY <1>7, <2>2
  <2> HIDE DEF b
  <2>4. ch \in [End -> Channel] /\ ch[e] = b /\ ch[p] = d
    BY <1>1, <2>1
  <2> HIDE DEF ch
  <2>5. channel[e].output_pending => channel[e].output_queue_ # <<>>
    BY <1>2, PendingIsQueued DEF ChannelInv, StreamInv
  <2>6. Closes(e) /\ channel'[p] = d /\ failed' \subseteq End
        /\ loop' \in [End -> {"run", "connect", "delete", "clear", "signal"}]
    BY <1>1, <1>5, <2>1, <2>3, <2>4, <2>5, FailsEffect DEF p
  <2>7. TypeOK'
    BY <1>1, <1>2, <1>4, <2>6 DEF TypeOK, Closes
  <2>8. ConnectInv' /\ NeverIdle' /\ StreamFrom(e)'
    BY <1>2, <1>4, <2>6, ClosesKeeps DEF p
  <2>9. StreamFrom(p)'
    <3> DEFINE ms == Stream(p)
               got == received[e] \o messages
               tasks == work[p]
               over3 == channel'[e].input_overflow_buf_
               reads == channel'[e].pipe_ # "closed"
    <3>1. InStream(ms, got, d, tasks, over2, FALSE)
      BY <1>3
    <3>2. reads = FALSE
      BY <2>6 DEF Closes
    <3>3. StreamFrom(p)' <=> InStream(ms, got, d, tasks, over3, reads)
      BY <1>1, <1>2, <1>4, <2>6 DEF StreamFrom, Stream
    <3> HIDE DEF ms, got, tasks, over3, reads
    <3>4. InStream(ms, got, d, tasks, over3, reads)
      BY <3>1, <3>2, InStreamStops
    <3>5. QED
      BY <3>3, <3>4
  <2>10. QED
    BY <1>1, <2>7, <2>8, <2>9 DEF ChannelInv, StreamInv
<1>8. QED
  BY <1>3, <1>6, <1>7

(* A step that leaves both channels alone, but for the way of a closed     *)
(* end's loop through the error.                                           *)
LEMMA QuietKeeps ==
  ASSUME ChannelInv, TypeOK', StreamInv', channel' = channel,
         \A e \in End : loop'[e] = loop[e] \/ (loop'[e] # "connect" /\ channel[e].pipe_ = "closed")
  PROVE  ChannelInv'
<1>1. "server" \in End /\ "client" \in End /\ \A e \in End : Peer(e) \in End
  BY PeerType DEF End
<1>2. ConnectInv'
  BY <1>1 DEF ChannelInv, ConnectInv
<1>3. NeverIdle'
  <2>1. ASSUME NEW e \in End
        PROVE  /\ Completes(e)' => Completes(e)
               /\ WritePossible(e)' = WritePossible(e)
    BY <2>1 DEF Completes, WritePossible
  <2>2. QED
    BY <2>1 DEF ChannelInv, NeverIdle
<1>4. QED
  BY <1>2, <1>3 DEF ChannelInv

(* The loop runs a task: the message in front of the tasks goes to the end *)
(* of the queue, or the end is closed.                                     *)
LEMMA RunTaskKeeps ==
  ASSUME ChannelInv, NEW e \in End, RunTask(e)
  PROVE  ChannelInv'
<1> DEFINE p == Peer(e)
           c == channel[e]
           ms == Stream(e)
           got == received[p]
           tasks == work[e]
           over == channel[p].input_overflow_buf_
           reads == channel[p].pipe_ # "closed"
<1>1. /\ p \in End /\ p # e /\ Peer(p) = e /\ \A x \in End : x = e \/ x = p
      /\ c \in Channel /\ channel \in [End -> Channel] /\ TypeOK
      /\ ms \in Seq(Sent) /\ got \in Seq(Seq(Cells)) /\ tasks \in Tasks /\ over \in Seq(Cells)
      /\ c.pipe_ \in {"none", "open", "closed"}
  BY PeerType, TypedEnd, StreamType DEF ChannelInv, TypeOK
<1>2. /\ loop[e] = "run" /\ tasks # <<>> /\ work' = [work EXCEPT ![e] = Tail(tasks)]
      /\ UNCHANGED <<loop, syncVars, history>>
  BY DEF RunTask
<1>3. StreamFrom(e) /\ c.pipe_ # "none"
  BY <1>2, NoneIsEmpty DEF ChannelInv, StreamInv
<1>4. InStream(ms, got, c, tasks, over, reads)
  BY <1>3 DEF StreamFrom
<1>5. /\ work' \in [End -> Seq(Message \union {CloseTask})] /\ work'[e] = Tail(tasks) /\ work'[p] = work[p]
      /\ Head(tasks) \in Message \union {CloseTask}
  <2>1. Head(tasks) \in Message \union {CloseTask} /\ Tail(tasks) \in Seq(Message \union {CloseTask})
    BY <1>1, <1>2, HeadTailProperties DEF Tasks
  <2>2. QED
    BY <1>1, <1>2, <2>1 DEF TypeOK
<1>6. /\ posted' = posted /\ received' = received /\ loop' = loop /\ failed' = failed
      /\ StreamFrom(p)
  BY <1>1, <1>2 DEF history, ChannelInv, StreamInv
<1>7. ASSUME TypeOK', channel'[p] = channel[p], channel'[e].pipe_ = c.pipe_ \/ channel'[e].pipe_ = "closed",
             channel'[e].pipe_ = "open" => channel'[e].input_overflow_buf_ = c.input_overflow_buf_
      PROVE  StreamFrom(p)'
  <2>1. channel'[e].pipe_ # "closed" =>
          c.pipe_ # "closed" /\ channel'[e].input_overflow_buf_ = c.input_overflow_buf_
    BY <1>1, <1>3, <1>7
  <2>2. QED
    BY <1>1, <1>5, <1>6, <1>7, <2>1, StreamFrame
<1>8. CASE Head(tasks) # CloseTask /\ channel' = [channel EXCEPT ![e] = SendData(e, Head(tasks))]
  <2> DEFINE b == [c EXCEPT !.output_queue_ = Append(c.output_queue_, Head(tasks))]
             d == SendData(e, Head(tasks))
  <2>1. /\ b \in Channel /\ b.pipe_ = c.pipe_ /\ b.output_queue_ = Append(c.output_queue_, Head(tasks))
        /\ b.waiting_connect_ = c.waiting_connect_ /\ b.input_pending = c.input_pending
        /\ b.output_pending = c.output_pending /\ b.input_overflow_buf_ = c.input_overflow_buf_
        /\ b.wire = c.wire /\ b.output_queue_ # <<>>
    <3>1. c.output_queue_ \in Seq(Message \union {Hello}) /\ Head(tasks) \in Message \union {Hello}
      BY <1>1, <1>5, <1>8 DEF Channel
    <3> DEFINE queue == Append(c.output_queue_, Head(tasks))
    <3>2. queue \in Seq(Message \union {Hello}) /\ queue # <<>>
      BY <3>1, AppendProperties
    <3>3. b = [c EXCEPT !.output_queue_ = queue]
      OBVIOUS
    <3> HIDE DEF queue, b
    <3>4. /\ b \in Channel /\ b.pipe_ = c.pipe_ /\ b.output_queue_ = queue
          /\ b.waiting_connect_ = c.waiting_connect_ /\ b.input_pending = c.input_pending
          /\ b.output_pending = c.output_pending /\ b.input_overflow_buf_ = c.input_overflow_buf_
          /\ b.wire = c.wire
      BY <1>1, <3>2, <3>3 DEF Channel
    <3>5. QED
      BY <3>2, <3>4 DEF queue
  <2>2. /\ d = IF b.waiting_connect_ \/ b.output_pending THEN b ELSE StartsWrite(e, b)
        /\ Writes(e, b, StartsWrite(e, b))
    <3>1. d = IF b.waiting_connect_ \/ b.output_pending THEN b ELSE StartsWrite(e, b)
      BY DEF SendData
    <3> HIDE DEF b, d
    <3>2. QED
      BY <2>1, <3>1, StartsWriteEffect
  <2>3. channel' = [channel EXCEPT ![e] = d]
    BY <1>8
  <2> HIDE DEF b, d
  <2>4. /\ d \in Channel /\ d.pipe_ = c.pipe_ /\ d.output_queue_ = b.output_queue_
        /\ d.waiting_connect_ = c.waiting_connect_ /\ d.input_pending = c.input_pending
        /\ d.input_overflow_buf_ = c.input_overflow_buf_
        /\ c.pipe_ = "open" /\ ~c.waiting_connect_ /\ WritePossible(e) => d.output_pending
        /\ c.waiting_connect_ \/ loop[e] = "connect" => d.output_pending = c.output_pending
        /\ \/ /\ b.pipe_ = "open" /\ ~b.output_pending
              /\ d.output_pending /\ d.wire = b.wire \o Wire(Head(b.output_queue_))
           \/ d.output_pending = b.output_pending /\ d.wire = b.wire
    <3>1. CASE b.waiting_connect_ \/ b.output_pending
      <4>1. d = b
        BY <2>2, <3>1
      <4>2. QED
        BY <2>1, <3>1, <4>1
    <3>2. CASE ~(b.waiting_connect_ \/ b.output_pending)
      <4>1. Writes(e, b, d)
        BY <2>2, <3>2
      <4>2. QED
        BY <1>2, <2>1, <3>2, <4>1 DEF Writes
    <3>3. QED
      BY <3>1, <3>2
  <2>5. channel'[e] = d /\ channel'[p] = channel[p]
    BY <1>1, <2>3
  <2>6. TypeOK'
    BY <1>1, <1>2, <1>5, <2>3, <2>4 DEF TypeOK, syncVars, history
  <2>7. StreamFrom(p)'
    BY <1>7, <2>4, <2>5, <2>6
  <2>8. StreamFrom(e)'
    <3>1. StreamFrom(e)' <=> InStream(ms, got, d, Tail(tasks), over, reads)
      BY <1>5, <1>6, <2>5 DEF StreamFrom, Stream
    <3> HIDE DEF ms, got, over, reads, tasks, c
    <3>2. CASE c.pipe_ = "open"
      <4>1. InStream(ms, got, b, Tail(tasks), over, reads)
        <5>1. Head(tasks) # CloseTask
          BY <1>8
        <5>2. QED
          BY <1>1, <1>2, <1>4, <2>1, <3>2, <5>1, InStreamQueues
      <4>2. CASE d.output_pending = b.output_pending /\ d.wire = b.wire
        BY <2>1, <2>4, <3>1, <4>1, <4>2, InStreamStays
      <4>3. CASE /\ b.pipe_ = "open" /\ ~b.output_pending
                 /\ d.output_pending /\ d.wire = b.wire \o Wire(Head(b.output_queue_))
        <5>1. d.pipe_ = "open" /\ d.output_queue_ = b.output_queue_ /\ b.output_queue_ # <<>>
          BY <2>1, <2>4, <3>2
        <5>2. InStream(ms, got, d, Tail(tasks), over, reads)
          BY <1>1, <2>1, <2>4, <4>1, <4>3, <5>1, InStreamWrites
        <5>3. QED
          BY <3>1, <5>2
      <4>4. QED
        BY <2>4, <4>2, <4>3
    <3>3. CASE c.pipe_ = "closed"
      <4>1. d.pipe_ = "closed" /\ d.wire = c.wire
        BY <2>1, <2>4, <3>3
      <4>2. InStream(ms, got, d, Tail(tasks), over, reads)
        BY <1>4, <3>3, <4>1, InStreamIgnores
      <4>3. QED
        BY <3>1, <4>2
    <3>4. QED
      BY <1>1, <1>3, <3>2, <3>3
  <2>9. channel'[e].pipe_ = channel[e].pipe_ /\ channel'[e].waiting_connect_ = channel[e].waiting_connect_
        /\ channel'[e].input_pending = channel[e].input_pending
        /\ (channel[e].waiting_connect_ => channel'[e].output_pending = channel[e].output_pending)
        /\ (channel[e].pipe_ = "open" /\ ~channel[e].waiting_connect_ /\ WritePossible(e) => channel'[e].output_pending)
    BY <2>4, <2>5
  <2>10. ConnectInv'
    <3>1. CASE e = "server"
      BY <1>2, <2>5, <2>9, <3>1 DEF ChannelInv, ConnectInv, End, Peer
    <3>2. CASE e = "client"
      BY <1>2, <2>5, <2>9, <3>2 DEF ChannelInv, ConnectInv, End, Peer
    <3>3. QED
      BY <3>1, <3>2 DEF End
  <2>11. NeverIdle'
    <3>1. \A x \in End : Completes(x)' = Completes(x) /\ WritePossible(x)' = WritePossible(x)
      <4>1. \A x \in End : channel'[x].pipe_ = channel[x].pipe_ /\ Peer(x) \in End
        BY <1>1, <2>5, <2>9, PeerType
      <4>2. QED
        BY <1>6, <4>1 DEF Completes, WritePossible
    <3>2. channel'["client"].pipe_ = channel["client"].pipe_
      BY <1>1, <2>5, <2>9 DEF End
    <3>3. Completes(e) => channel[e].pipe_ = "open"
      BY DEF Completes
    <3> HIDE DEF p, c, tasks
    <3>4. QED
      BY <1>1, <2>5, <2>9, <3>1, <3>2, <3>3 DEF ChannelInv, NeverIdle
  <2>12. QED
    BY <1>1, <2>6, <2>7, <2>8, <2>10, <2>11 DEF ChannelInv, StreamInv
<1>9. CASE /\ c.pipe_ = "open"
           /\ \E lost \in Unwritten(c) : channel' = [channel EXCEPT ![e] = Closed(@, lost)]
  <2>1. PICK lost \in Unwritten(c) : channel' = [channel EXCEPT ![e] = Closed(@, lost)]
    BY <1>9
  <2>2. lost \in 0 .. Len(c.wire)
    <3>1. c.output_pending => c.output_queue_ # <<>>
      BY <1>3, <1>9, PendingIsQueued
    <3> HIDE DEF c
    <3>2. QED
      BY <1>1, <3>1, UnwrittenBound
  <2> DEFINE d == Closed(c, lost)
  <2>3. /\ d \in Channel /\ d.pipe_ = "closed" /\ d.waiting_connect_ = c.waiting_connect_
        /\ d.output_pending = c.output_pending
        /\ d.wire = SubSeq(c.wire, 1, Len(c.wire) - lost)
    <3> HIDE DEF c
    <3>1. QED
      BY <1>1, <2>2, ClosedEffect
  <2>4. channel' = [channel EXCEPT ![e] = d]
    BY <2>1
  <2> HIDE DEF d
  <2>5. channel' \in [End -> Channel] /\ channel'[e] = d /\ channel'[p] = channel[p]
    BY <1>1, <2>3, <2>4
  <2>6. Closes(e)
    BY <1>2, <1>6, <2>2, <2>3, <2>5 DEF Closes
  <2>7. TypeOK'
    BY <1>1, <1>2, <1>5, <2>5 DEF TypeOK, syncVars, history
  <2>8. StreamFrom(p)'
    BY <1>7, <2>3, <2>5, <2>7
  <2>9. ConnectInv' /\ NeverIdle' /\ StreamFrom(e)'
    BY <1>6, <1>9, <2>6, ClosesKeeps
  <2>10. QED
    BY <1>1, <2>7, <2>8, <2>9 DEF ChannelInv, StreamInv
<1>10. CASE c.pipe_ # "open" /\ UNCHANGED channel
  <2>1. TypeOK'
    BY <1>1, <1>2, <1>5, <1>10 DEF TypeOK, syncVars, history
  <2>2. StreamFrom(p)'
    BY <1>7, <1>10, <2>1
  <2>3. StreamFrom(e)'
    <3>1. StreamFrom(e)' <=> InStream(ms, got, c, Tail(tasks), over, reads)
      BY <1>5, <1>6, <1>10 DEF StreamFrom, Stream
    <3>2. c.pipe_ = "closed"
      BY <1>1, <1>3, <1>10
    <3> HIDE DEF ms, got, over, reads, tasks, c
    <3>3. QED
      BY <1>4, <3>1, <3>2, InStreamIgnores
  <2>4. StreamInv'
    BY <1>1, <2>2, <2>3 DEF StreamInv
  <2>5. QED
    BY <1>6, <1>10, <2>1, <2>4, QuietKeeps
<1>11. QED
  BY <1>8, <1>9, <1>10 DEF RunTask

(* A message is posted at an end that is open.                             *)
LEMMA PostMessageKeeps ==
  ASSUME ChannelInv, NEW e \in End, NEW m \in Message, channel[e].pipe_ = "open", Post(e, m),
         posted' = [posted EXCEPT ![e] = Append(@, m)], UNCHANGED <<ioVars, received>>, TypeOK'
  PROVE  ChannelInv'
<1> DEFINE p == Peer(e)
           c == channel[e]
           ms == Stream(e)
           got == received[p]
           tasks == work[e]
           over == channel[p].input_overflow_buf_
           reads == channel[p].pipe_ # "closed"
<1>1. /\ p \in End /\ p # e /\ Peer(p) = e /\ \A x \in End : x = e \/ x = p
      /\ c \in Channel /\ ms \in Seq(Sent) /\ got \in Seq(Seq(Cells)) /\ tasks \in Tasks /\ over \in Seq(Cells)
      /\ posted[e] \in Seq(Sent) /\ m \in Sent
  <2>1. posted[e] \in Seq(Message)
    BY DEF ChannelInv, TypeOK
  <2>2. posted[e] \in Seq(Sent)
    BY <2>1 DEF Sent
  <2>3. QED
    BY <2>2, PeerType, TypedEnd, StreamType DEF ChannelInv, TypeOK, Sent
<1>2. /\ channel' = channel /\ loop' = loop /\ received' = received
      /\ work'[e] = Append(tasks, m) /\ work'[p] = work[p]
      /\ posted'[e] = Append(posted[e], m) /\ posted'[p] = posted[p]
  BY <1>1 DEF Post, ioVars, ChannelInv, TypeOK
<1>3. StreamFrom(p)'
  <2>1. StreamFrom(p)
    BY <1>1 DEF ChannelInv, StreamInv
  <2>2. QED
    BY <1>1, <1>2, <2>1, StreamFrame
<1>4. Stream(e)' = Append(ms, m)
  <2> DEFINE hello == <<Hello>>
             last == <<m>>
             s == posted[e]
  <2>1. hello \in Seq(Sent) /\ last \in Seq(Sent) /\ s \in Seq(Sent)
    BY <1>1 DEF Sent
  <2>2. Append(s, m) = s \o last /\ Append(ms, m) = ms \o last
    BY <1>1, AppendIsConcat
  <2>3. ms = hello \o s /\ Stream(e)' = hello \o Append(s, m)
    BY <1>2 DEF Stream
  <2> HIDE DEF hello, last, s, ms
  <2>4. (hello \o s) \o last = hello \o (s \o last)
    BY <2>1, ConcatAssociative
  <2>5. QED
    BY <2>2, <2>3, <2>4
<1>5. StreamFrom(e)'
  <2>1. InStream(ms, got, c, tasks, over, reads)
    BY DEF ChannelInv, StreamInv, StreamFrom
  <2>2. StreamFrom(e)' <=> InStream(Append(ms, m), got, c, Append(tasks, m), over, reads)
    BY <1>2, <1>4 DEF StreamFrom
  <2>3. c.pipe_ = "open"
    OBVIOUS
  <2> HIDE DEF ms, got, c, tasks, over, reads
  <2>4. InStream(Append(ms, m), got, c, Append(tasks, m), over, reads)
    BY <1>1, <2>1, <2>3, InStreamPosts
  <2>5. QED
    BY <2>2, <2>4
<1>6. StreamInv'
  BY <1>1, <1>3, <1>5 DEF StreamInv
<1>7. QED
  BY <1>2, <1>6, QuietKeeps

(* OnClose is posted at an end that is open.                               *)
LEMMA CloseChannelKeeps ==
  ASSUME ChannelInv, NEW e \in End, CloseChannel(e)
  PROVE  ChannelInv'
<1> DEFINE p == Peer(e)
           c == channel[e]
           ms == Stream(e)
           got == received[p]
           tasks == work[e]
           over == channel[p].input_overflow_buf_
           reads == channel[p].pipe_ # "closed"
<1>1. /\ p \in End /\ p # e /\ Peer(p) = e /\ \A x \in End : x = e \/ x = p
      /\ c \in Channel /\ ms \in Seq(Sent) /\ tasks \in Tasks
  BY PeerType, TypedEnd, StreamType DEF ChannelInv
<1>2. /\ channel' = channel /\ loop' = loop /\ received' = received /\ posted' = posted
      /\ work' = [work EXCEPT ![e] = Append(tasks, CloseTask)]
      /\ c.pipe_ = "open" /\ UNCHANGED <<syncVars, history>>
  BY DEF CloseChannel, Post, ioVars, history
<1>3. work' \in [End -> Seq(Message \union {CloseTask})] /\ work'[e] = Append(tasks, CloseTask) /\ work'[p] = work[p]
  <2>1. Append(tasks, CloseTask) \in Seq(Message \union {CloseTask})
    BY <1>1, AppendProperties DEF Tasks
  <2>2. QED
    BY <1>1, <1>2, <2>1 DEF ChannelInv, TypeOK
<1>4. TypeOK'
  BY <1>2, <1>3 DEF ChannelInv, TypeOK, syncVars, history
<1>5. StreamFrom(p)'
  <2>1. StreamFrom(p)
    BY <1>1 DEF ChannelInv, StreamInv
  <2>2. QED
    BY <1>1, <1>2, <1>3, <2>1, StreamFrame
<1>6. StreamFrom(e)'
  <2>1. InStream(ms, got, c, tasks, over, reads)
    BY DEF ChannelInv, StreamInv, StreamFrom
  <2>2. StreamFrom(e)' <=> InStream(ms, got, c, Append(tasks, CloseTask), over, reads)
    BY <1>2, <1>3 DEF StreamFrom, Stream
  <2>3. c.pipe_ = "open"
    BY <1>2
  <2> HIDE DEF ms, got, c, tasks, over, reads
  <2>4. InStream(ms, got, c, Append(tasks, CloseTask), over, reads)
    BY <1>1, <2>1, <2>3, InStreamPostsClose
  <2>5. QED
    BY <2>2, <2>4
<1>7. StreamInv'
  BY <1>1, <1>5, <1>6 DEF StreamInv
<1>8. QED
  BY <1>2, <1>4, <1>7, QuietKeeps

(* The steps that touch neither the streams nor the channels.              *)
LEMMA SyncStepKeeps ==
  ASSUME ChannelInv, TypeOK', UNCHANGED <<channel, work, posted, received>>,
         \A e \in End : loop'[e] = loop[e] \/ (loop'[e] # "connect" /\ channel[e].pipe_ = "closed")
  PROVE  ChannelInv'
<1>1. StreamInv'
  BY DEF ChannelInv, StreamInv, StreamFrom, Stream
<1>2. QED
  BY <1>1, QuietKeeps

(* The loop goes its way through the error.                                *)
LEMMA ErrorStepKeeps ==
  ASSUME ChannelInv, NEW e \in End, ErrorStep(e)
  PROVE  ChannelInv'
<1>1. /\ loop[e] \in {"delete", "clear", "signal"} /\ UNCHANGED <<channel, work, posted, received>>
      /\ \E to \in {"clear", "signal", "run"} : loop' = [loop EXCEPT ![e] = to]
  BY DEF ErrorStep, DeleteReplays, ClearReplays, SignalAllEvents, history
<1>2. channel[e].pipe_ = "closed"
  BY <1>1 DEF ChannelInv, ConnectInv
<1>3. \A x \in End : loop'[x] = loop[x] \/ (loop'[x] # "connect" /\ channel[x].pipe_ = "closed")
  BY <1>1, <1>2 DEF ChannelInv, TypeOK
<1>4. TypeOK'
  <2>1. CASE DeleteReplays(e)
    <3>1. \A r \in Request : Reply[r] \in Message
      BY ChannelAssumption
    <3>2. replay_messages_[e] \subseteq Message
      BY <3>1 DEF ChannelInv, TypeOK
    <3>3. QED
      BY <2>1, <3>2 DEF DeleteReplays, ChannelInv, TypeOK, syncVars
  <2>2. CASE ClearReplays(e)
    BY <2>2 DEF ClearReplays, ChannelInv, TypeOK, history
  <2>3. CASE SignalAllEvents(e)
    BY <2>3 DEF SignalAllEvents, ChannelInv, TypeOK, history
  <2>4. QED
    BY <2>1, <2>2, <2>3 DEF ErrorStep
<1>5. QED
  BY <1>1, <1>3, <1>4, SyncStepKeeps

(* A user sends a message.                                                 *)
LEMMA SendKeeps ==
  ASSUME ChannelInv, NEW m \in Message, Send(m)
  PROVE  ChannelInv'
<1> DEFINE e == From[m]
<1>1. e \in End
  BY ChannelAssumption
<1>2. /\ channel[e].pipe_ = "open" /\ Post(e, m) /\ posted' = [posted EXCEPT ![e] = Append(@, m)]
      /\ UNCHANGED <<ioVars, syncVars, received, listened, fetched, deleted, failed>>
  BY DEF Send
<1> HIDE DEF e
<1>3. TypeOK'
  <2>1. Append(work[e], m) \in Seq(Message \union {CloseTask}) /\ Append(posted[e], m) \in Seq(Message)
    BY <1>1, AppendProperties DEF ChannelInv, TypeOK
  <2>2. QED
    BY <1>1, <1>2, <2>1 DEF ChannelInv, TypeOK, Post, ioVars, syncVars
<1>4. QED
  BY <1>1, <1>2, <1>3, PostMessageKeeps

(* A caller does a step; a request is posted like a message.               *)
LEMMA CallKeeps ==
  ASSUME ChannelInv, NEW r \in Request, InsertPending(r) \/ CallStep(r)
  PROVE  ChannelInv'
<1>1. CASE InsertPending(r) \/ WaitEnds(r) \/ ErasePending(r) \/ GetReplayMessage(r)
  <2>1. TypeOK'
    <3>1. CASE InsertPending(r)
      BY <3>1 DEF InsertPending, Goes, ChannelInv, TypeOK, ioVars, history
    <3>2. CASE WaitEnds(r)
      BY <3>2 DEF WaitEnds, Goes, ChannelInv, TypeOK, ioVars, history
    <3>3. CASE ErasePending(r)
      BY <3>3 DEF ErasePending, Goes, ChannelInv, TypeOK, ioVars, history
    <3>4. CASE GetReplayMessage(r)
      BY <3>4 DEF GetReplayMessage, Goes, ChannelInv, TypeOK, ioVars
    <3>5. QED
      BY <1>1, <3>1, <3>2, <3>3, <3>4
  <2>2. UNCHANGED <<ioVars, work, posted, received>>
    BY <1>1 DEF InsertPending, WaitEnds, ErasePending, GetReplayMessage, history
  <2>3. QED
    BY <2>1, <2>2, SyncStepKeeps DEF ioVars
<1>2. CASE SendRequest(r)
  <2> DEFINE e == From[r]
  <2>1. e \in End /\ r \in Message
    BY ChannelAssumption
  <2>2. CASE channel[e].pipe_ = "open" /\ Goes(r, "send", "wait") /\ Post(e, r)
             /\ posted' = [posted EXCEPT ![e] = Append(@, r)]
    <3>1. UNCHANGED <<ioVars, pending_sync_messages_, replay_messages_, done_event,
                      received, listened, fetched, deleted, failed>>
      BY <1>2 DEF SendRequest
    <3> HIDE DEF e
    <3>2. TypeOK'
      <4>1. Append(work[e], r) \in Seq(Message \union {CloseTask}) /\ Append(posted[e], r) \in Seq(Message)
        BY <2>1, AppendProperties DEF ChannelInv, TypeOK
      <4>2. QED
        BY <2>1, <2>2, <3>1, <4>1 DEF ChannelInv, TypeOK, Post, Goes, ioVars
    <3>3. QED
      BY <2>1, <2>2, <3>1, <3>2, PostMessageKeeps
  <2>3. CASE Goes(r, "send", "erase") /\ UNCHANGED <<work, posted>>
    <3>1. UNCHANGED <<ioVars, pending_sync_messages_, replay_messages_, done_event,
                      received, listened, fetched, deleted, failed>>
      BY <1>2 DEF SendRequest
    <3>2. TypeOK'
      BY <2>3, <3>1 DEF ChannelInv, TypeOK, Goes, ioVars
    <3>3. QED
      BY <2>3, <3>1, <3>2, SyncStepKeeps DEF ioVars
  <2>4. QED
    BY <1>2, <2>2, <2>3 DEF SendRequest
<1>3. QED
  BY <1>1, <1>2 DEF CallStep

(* It holds at first: each end has its HELLO to send.                      *)
LEMMA ChannelStart == Init => ChannelInv
<1> SUFFICES ASSUME Init
             PROVE  ChannelInv
  OBVIOUS
<1>1. \A e \in End : Peer(e) \in End
  BY PeerType
<1>2. TypeOK
  <2>1. \A e \in End : channel[e] \in Channel
    BY DEF Init, Channel
  <2>2. channel \in [End -> Channel]
    BY <2>1 DEF Init
  <2>3. QED
    BY <2>2 DEF Init, TypeOK
<1>3. ASSUME NEW e \in End
      PROVE  StreamFrom(e)
  <2> DEFINE c == channel[e]
             got == received[Peer(e)]
             over == channel[Peer(e)].input_overflow_buf_
             ms == Stream(e)
             pos == [j \in 1 .. 1 |-> 1]
  <2>1. /\ c.pipe_ = "none" /\ c.output_queue_ = <<>> /\ ~c.output_pending /\ c.wire = <<>>
        /\ got = <<>> /\ over = <<>> /\ work[e] = <<>> /\ posted[e] = <<>>
    BY <1>1 DEF Init
  <2>2. ms = <<Hello>> /\ Len(ms) = 1
    BY <2>1 DEF Stream
  <2>3. over \o c.wire = <<>>
    BY <2>1
  <2>4. pos[1] = 1
    OBVIOUS
  <2> HIDE DEF c, got, over, ms, pos
  <2>5. Framed(<<>>, ms, 0, 0, pos)
    BY <2>4, EmptySeq DEF Framed
  <2>6. got = Wires(ms, 0, 0) /\ Len(got) = 0
    BY <2>1 DEF Wires
  <2>7. Arrives(ms, got, c, over, channel[Peer(e)].pipe_ # "closed", 0, pos)
    BY <2>2, <2>3, <2>4, <2>5, <2>6 DEF Arrives
  <2>8. Queued(ms, c, work[e], 0, 0)
    BY <2>1, <2>2 DEF Queued
  <2>9. QED
    BY <2>7, <2>8 DEF StreamFrom, InStream, c, got, over, ms
<1>4. ConnectInv /\ NeverIdle
  BY DEF Init, ConnectInv, NeverIdle, Completes, End
<1>5. QED
  BY <1>2, <1>3, <1>4 DEF ChannelInv, StreamInv

(* Every step keeps the invariant of the channels.                         *)
LEMMA ChannelStep == ChannelInv /\ [Next]_vars => ChannelInv'
<1> SUFFICES ASSUME ChannelInv, [Next]_vars
             PROVE  ChannelInv'
  OBVIOUS
<1>1. ASSUME NEW e \in End, CreatePipe(e)
      PROVE  ChannelInv'
  BY <1>1, CreatePipeKeeps
<1>2. ASSUME NEW e \in End, Connect(e)
      PROVE  ChannelInv'
  BY <1>2, ConnectKeeps
<1>3. ASSUME NEW e \in End, Completion(e)
      PROVE  ChannelInv'
  <2>1. CASE ConnectionCompletes
    BY <2>1, ConnectionCompletesKeeps
  <2>2. ASSUME NEW n \in 1 .. kReadBufferSize, ReadCompletes(e, n)
        PROVE  ChannelInv'
    <3>1. n \in Nat
      BY ChannelAssumption
    <3>2. QED
      BY <2>2, <3>1, ReadCompletesKeeps
  <2>3. CASE ReadFails(e)
    BY <2>3, ReadFailsKeeps
  <2>4. QED
    BY <1>3, <2>1, <2>2, <2>3 DEF Completion
<1>4. ASSUME NEW e \in End, WriteCompletion(e)
      PROVE  ChannelInv'
  BY <1>4, WriteCompletesKeeps, WriteFailsKeeps DEF WriteCompletion
<1>5. ASSUME NEW e \in End, RunTask(e)
      PROVE  ChannelInv'
  BY <1>5, RunTaskKeeps
<1>6. ASSUME NEW e \in End, ErrorStep(e)
      PROVE  ChannelInv'
  BY <1>6, ErrorStepKeeps
<1>7. ASSUME NEW e \in End, CloseChannel(e)
      PROVE  ChannelInv'
  BY <1>7, CloseChannelKeeps
<1>8. ASSUME NEW m \in Message, Send(m)
      PROVE  ChannelInv'
  BY <1>8, SendKeeps
<1>9. ASSUME NEW r \in Request, InsertPending(r) \/ CallStep(r)
      PROVE  ChannelInv'
  BY <1>9, CallKeeps
<1>10. CASE UNCHANGED vars
  <2>1. UNCHANGED <<channel, loop, work, syncVars, history>>
    BY <1>10 DEF vars, ioVars
  <2>2. TypeOK'
    BY <2>1 DEF ChannelInv, TypeOK, syncVars, history
  <2>3. QED
    BY <2>1, <2>2, SyncStepKeeps DEF history
<1>11. QED
  BY <1>1, <1>2, <1>3, <1>4, <1>5, <1>6, <1>7, <1>8, <1>9, <1>10 DEF Next

(* The invariant of the channels: on every wire lies a stretch of what its *)
(* end has posted, which begins where the receiver has got to.             *)
THEOREM ChannelInvariant == Spec => []ChannelInv
<1>1. QED
  BY ChannelStart, ChannelStep, PTL DEF Spec

(* The channels keep their types.                                          *)
THEOREM ChannelTypeCorrect == Spec => []TypeOK
<1>1. ChannelInv => TypeOK
  BY DEF ChannelInv
<1>2. QED
  BY <1>1, ChannelInvariant, PTL

(* An open channel always has the read or the write pending that keeps it  *)
(* going (ipc_channel_pipe.cpp:146-245, 371-384, 428-461).                 *)
THEOREM ChannelNeverIdle == Spec => []NeverIdle
<1>1. ChannelInv => NeverIdle
  BY DEF ChannelInv
<1>2. QED
  BY <1>1, ChannelInvariant, PTL

(* However the stream is cut into reads and whoever closes when, the       *)
(* messages dispatched are the first of those posted, whole and in order   *)
(* (ipc_channel_pipe.cpp:205-310).                                         *)
THEOREM ChannelDeliveredInOrder == Spec => []DeliveredInOrder
<1>1. ChannelInv => DeliveredInOrder
  <2> SUFFICES ASSUME ChannelInv, NEW e \in End
               PROVE  IsPrefix(received[e],
                               [j \in 1 .. Len(posted[Peer(e)]) + 1 |-> Wire((<<Hello>> \o posted[Peer(e)])[j])])
    BY DEF DeliveredInOrder
  <2> DEFINE ms == Stream(Peer(e))
             got == received[e]
             all == [j \in 1 .. Len(posted[Peer(e)]) + 1 |-> Wire((<<Hello>> \o posted[Peer(e)])[j])]
             k == Len(got)
  <2>1. Peer(e) \in End /\ Peer(Peer(e)) = e /\ got \in Seq(Seq(Cells)) /\ k \in Nat
    BY PeerType, TypedEnd, LenProperties DEF ChannelInv
  <2>2. ms \in Seq(Sent) /\ Len(ms) = Len(posted[Peer(e)]) + 1 /\ Len(ms) \in Nat
    BY <2>1, StreamType, LenProperties DEF ChannelInv
  <2>3. k <= Len(ms) /\ got = Wires(ms, 0, k)
    BY <2>1 DEF ChannelInv, StreamInv, StreamFrom, InStream, Arrives
  <2>4. all = [j \in 1 .. Len(ms) |-> Wire(ms[j])]
    BY <2>2 DEF Stream
  <2>5. \A j \in 1 .. Len(ms) : Wire(ms[j]) \in Seq(Cells)
    BY <2>2, ElementOfSeq, WireProperties
  <2> HIDE DEF ms, got, all, k
  <2>6. all \in Seq(Seq(Cells)) /\ Len(all) = Len(ms)
    <3> DEFINE n == Len(ms)
    <3>1. n \in Nat /\ all \in [1 .. n -> Seq(Cells)]
      BY <2>2, <2>4, <2>5
    <3> HIDE DEF n
    <3>2. all \in Seq(Seq(Cells)) /\ Len(all) = n
      BY <3>1
    <3>3. QED
      BY <3>2 DEF n
  <2>7. SubSeq(got, 1, k) = got
    BY <2>1, SubSeqFull DEF k
  <2>8. SubSeq(all, 1, k) = got
    <3>1. \A j \in 1 .. k : j \in 1 .. Len(ms)
      BY <2>1, <2>2, <2>3
    <3>2. \A j \in 1 .. k : all[j] = Wire(ms[j]) /\ all[j] \in Seq(Cells)
      BY <2>4, <2>5, <3>1
    <3>3. 1 \in Int /\ k \in Int
      BY <2>1
    <3>4. /\ SubSeq(all, 1, k) \in Seq(Seq(Cells))
          /\ Len(SubSeq(all, 1, k)) = IF 1 <= k THEN k - 1 + 1 ELSE 0
          /\ \A j \in 1 .. k - 1 + 1 : SubSeq(all, 1, k)[j] = all[1 + j - 1]
      BY <3>2, <3>3, SubSeqProperties
    <3>5. k - 1 + 1 = k /\ (1 <= k \/ k = 0) /\ k - 0 = k /\ \A j \in 1 .. k : 1 + j - 1 = j /\ 0 + j = j
      BY <2>1
    <3>6. Len(SubSeq(all, 1, k)) = Len(got)
      BY <3>4, <3>5 DEF k
    <3>7. \A j \in 1 .. Len(got) : SubSeq(all, 1, k)[j] = got[j]
      <4>1. \A j \in 1 .. k : got[j] = Wire(ms[j])
        BY <2>3, <3>5 DEF Wires
      <4>2. \A j \in 1 .. k : SubSeq(all, 1, k)[j] = Wire(ms[j])
        BY <3>2, <3>4, <3>5
      <4>3. QED
        BY <4>1, <4>2 DEF k
    <3>8. QED
      BY <2>1, <3>4, <3>6, <3>7, SeqEqual
  <2>9. IsPrefix(got, all)
    BY <2>3, <2>6, <2>7, <2>8 DEF IsPrefix, k
  <2>10. QED
    BY <2>9 DEF got, all
<1>2. QED
  BY <1>1, ChannelInvariant, PTL

-----------------------------------------------------------------------------
(* What a failure does for the callers                                     *)

(* A failed end is closed; a request is pending from its insertion to its  *)
(* erasure; and who waits at a failed end without being told will be told  *)
(* by a loop that is still on its way through the error.                   *)
ErrorInv ==
  /\ \A e \in failed : channel[e].pipe_ = "closed"
  /\ \A r \in Request : call[r] \in {"send", "wait", "erase"} <=> r \in pending_sync_messages_
  /\ \A r \in Request : From[r] \in failed /\ call[r] = "wait" /\ r \notin done_event =>
       loop[From[r]] \in {"delete", "clear", "signal"}

(* An end that has failed is closed, and either it has failed in this step *)
(* or its loop stays where it is.                                          *)
FailedStays ==
  \A x \in failed' :
    channel'[x].pipe_ = "closed" /\ (loop'[x] = "delete" \/ (x \in failed /\ loop'[x] = loop[x]))

(* Steps that leave the requests alone, but may set events.                *)
LEMMA FailedStaysKeeps ==
  ASSUME ErrorInv, FailedStays, UNCHANGED <<pending_sync_messages_, call>>, done_event \subseteq done_event'
  PROVE  ErrorInv'
BY DEF ErrorInv, FailedStays

(* A step of an end that has not failed, for its own channel.              *)
LEMMA OpenEndStays ==
  ASSUME ErrorInv, NEW e \in End, channel[e].pipe_ # "closed", failed' = failed,
         \A x \in End \ {e} : channel'[x].pipe_ = channel[x].pipe_ /\ loop'[x] = loop[x],
         failed \subseteq End
  PROVE  FailedStays
BY DEF ErrorInv, FailedStays

(* A failure closes its end and sends its loop through the error.          *)
LEMMA FailureStays ==
  ASSUME ErrorInv, TypeOK, NEW e \in End, NEW ch \in [End -> Channel], Fails(ch, e),
         ch[Peer(e)].pipe_ = channel[Peer(e)].pipe_
  PROVE  FailedStays
<1>1. Peer(e) \in End /\ Peer(e) # e /\ \A x \in End : x = e \/ x = Peer(e)
  BY PeerType
<1>2. PICK lost \in Unwritten(ch[e]) : channel' = [ch EXCEPT ![e] = Closed(@, lost)]
  BY DEF Fails
<1>3. ch[e] \in Channel
  OBVIOUS
<1>4. Closed(ch[e], lost).pipe_ = "closed"
  BY <1>3 DEF Closed, Channel
<1>5. channel'[e].pipe_ = "closed" /\ channel'[Peer(e)] = ch[Peer(e)]
  BY <1>1, <1>2, <1>4
<1>6. loop'[e] = "delete" /\ loop'[Peer(e)] = loop[Peer(e)] /\ failed' = failed \union {e} /\ failed \subseteq End
  BY <1>1 DEF Fails, TypeOK
<1>7. QED
  BY <1>1, <1>5, <1>6 DEF ErrorInv, FailedStays

(* Connecting touches no end that has failed, or fails itself.             *)
LEMMA ConnectStays ==
  ASSUME ErrorInv, ChannelInv, NEW e \in End, Connect(e)
  PROVE  FailedStays
<1>1. channel[e].pipe_ = "open" /\ channel \in [End -> Channel] /\ failed \subseteq End
      /\ loop \in [End -> {"run", "connect", "delete", "clear", "signal"}]
  BY DEF Connect, ChannelInv, ConnectInv, TypeOK
<1>2. CASE Fails(channel, e)
  BY <1>1, <1>2, FailureStays DEF ChannelInv
<1>3. ASSUME NEW d, channel' = [channel EXCEPT ![e] = d], loop' = [loop EXCEPT ![e] = "run"], failed' = failed
      PROVE  FailedStays
  <2>1. \A x \in End \ {e} : channel'[x].pipe_ = channel[x].pipe_ /\ loop'[x] = loop[x]
    BY <1>1, <1>3
  <2>2. QED
    BY <1>1, <1>3, <2>1, OpenEndStays
<1>4. QED
  BY <1>2, <1>3 DEF Connect

(* So does a read; it sets events and takes none back.                     *)
LEMMA ReadStays ==
  ASSUME ErrorInv, ChannelInv, NEW e \in End, NEW n \in Nat, ReadCompletes(e, n)
  PROVE  FailedStays /\ UNCHANGED <<pending_sync_messages_, call>> /\ done_event \subseteq done_event'
<1>1. Peer(e) \in End /\ Peer(e) # e /\ \A x \in End : x = e \/ x = Peer(e)
  BY PeerType
<1>2. channel[e].pipe_ = "open" /\ channel \in [End -> Channel] /\ failed \subseteq End
      /\ loop \in [End -> {"run", "connect", "delete", "clear", "signal"}] /\ channel[e] \in Channel /\ channel[Peer(e)] \in Channel
  BY <1>1 DEF ReadCompletes, Completes, ChannelInv, TypeOK
<1>3. PICK messages \in Seq(Seq(Cells)), over2 \in Seq(Cells), d \in Channel :
        /\ DispatchIPCMessages(e, messages)
        /\ d = [channel[Peer(e)] EXCEPT !.wire = SubSeq(@, n + 1, Len(@))]
        /\ \/ Succeeds([channel EXCEPT ![Peer(e)] = d, ![e].input_overflow_buf_ = over2])
           \/ Fails([channel EXCEPT ![Peer(e)] = d, ![e].input_overflow_buf_ = over2, ![e].input_pending = FALSE], e)
  BY ReadDispatches
<1>4. d.pipe_ = channel[Peer(e)].pipe_
  BY <1>2, <1>3 DEF Channel
<1>5. UNCHANGED <<pending_sync_messages_, call>> /\ done_event \subseteq done_event'
  BY <1>3 DEF DispatchIPCMessages
<1>6. CASE Succeeds([channel EXCEPT ![Peer(e)] = d, ![e].input_overflow_buf_ = over2])
  <2>1. loop' = loop /\ failed' = failed /\ channel'[Peer(e)].pipe_ = channel[Peer(e)].pipe_
    BY <1>1, <1>2, <1>4, <1>6 DEF Succeeds
  <2>2. \A x \in End \ {e} : channel'[x].pipe_ = channel[x].pipe_ /\ loop'[x] = loop[x]
    BY <1>1, <2>1
  <2>3. channel[e].pipe_ # "closed"
    BY <1>2
  <2>4. FailedStays
    BY <1>2, <2>1, <2>2, <2>3, OpenEndStays
  <2>5. QED
    BY <1>5, <2>4
<1>7. CASE Fails([channel EXCEPT ![Peer(e)] = d, ![e].input_overflow_buf_ = over2, ![e].input_pending = FALSE], e)
  <2> DEFINE b == [channel[e] EXCEPT !.input_overflow_buf_ = over2, !.input_pending = FALSE]
             ch == [channel EXCEPT ![Peer(e)] = d, ![e] = b]
  <2>1. b \in Channel
    BY <1>2 DEF Channel
  <2>2. Fails(ch, e)
    <3>1. ch = [channel EXCEPT ![Peer(e)] = d, ![e].input_overflow_buf_ = over2, ![e].input_pending = FALSE]
      BY <1>1, <1>2
    <3> HIDE DEF ch
    <3>2. QED
      BY <1>7, <3>1
  <2> HIDE DEF b
  <2>3. ch \in [End -> Channel] /\ ch[Peer(e)] = d
    BY <1>1, <1>2, <2>1
  <2> HIDE DEF ch
  <2>4. FailedStays
    BY <1>4, <2>2, <2>3, FailureStays DEF ChannelInv
  <2>5. QED
    BY <1>5, <2>4
<1>8. QED
  BY <1>3, <1>6, <1>7

(* So do the other completions.                                            *)
LEMMA CompletionStays ==
  ASSUME ErrorInv, ChannelInv, NEW e \in End,
         (e = "server" /\ ConnectionCompletes) \/ ReadFails(e) \/ WriteCompletion(e)
  PROVE  FailedStays
<1>1. /\ channel[e].pipe_ = "open" /\ channel \in [End -> Channel] /\ channel[e] \in Channel /\ failed \subseteq End
      /\ Peer(e) \in End /\ Peer(e) # e
  BY PeerType DEF ConnectionCompletes, ReadFails, WriteCompletion, WriteCompletes, WriteFails, Completes,
                  ChannelInv, TypeOK
<1>2. ASSUME NEW d, Succeeds([channel EXCEPT ![e] = d])
      PROVE  FailedStays
  <2>1. \A x \in End \ {e} : channel'[x].pipe_ = channel[x].pipe_ /\ loop'[x] = loop[x]
    BY <1>1, <1>2 DEF Succeeds
  <2>2. channel[e].pipe_ # "closed" /\ failed' = failed
    BY <1>1, <1>2 DEF Succeeds
  <2>3. QED
    BY <1>1, <2>1, <2>2, OpenEndStays
<1>3. ASSUME NEW d \in Channel, Fails([channel EXCEPT ![e] = d], e)
      PROVE  FailedStays
  <2> DEFINE ch == [channel EXCEPT ![e] = d]
  <2>1. ch \in [End -> Channel] /\ ch[Peer(e)] = channel[Peer(e)] /\ Fails(ch, e)
    BY <1>1, <1>3
  <2> HIDE DEF ch
  <2>2. QED
    BY <2>1, FailureStays DEF ChannelInv
<1>4. CASE e = "server" /\ ConnectionCompletes
  BY <1>2, <1>4 DEF ConnectionCompletes
<1>5. CASE ReadFails(e)
  <2>1. [channel[e] EXCEPT !.input_pending = FALSE] \in Channel
    BY <1>1 DEF Channel
  <2>2. Fails([channel EXCEPT ![e] = [channel[e] EXCEPT !.input_pending = FALSE]], e)
    BY <1>5 DEF ReadFails
  <2>3. QED
    BY <1>3, <2>1, <2>2
<1>6. CASE WriteFails(e)
  <2>1. [channel[e] EXCEPT !.output_pending = FALSE] \in Channel
    BY <1>1 DEF Channel
  <2>2. Fails([channel EXCEPT ![e] = [channel[e] EXCEPT !.output_pending = FALSE]], e)
    BY <1>6 DEF WriteFails
  <2>3. QED
    BY <1>3, <2>1, <2>2
<1>7. CASE WriteCompletes(e)
  <2> DEFINE b == Popped(channel[e])
             written == [channel EXCEPT ![e] = b]
  <2>1. b \in Channel
    <3>1. StreamFrom(e)
      BY DEF ChannelInv, StreamInv
    <3>2. channel[e].output_queue_ # <<>>
      BY <1>1, <1>7, <3>1, PendingIsQueued DEF WriteCompletes
    <3>3. channel[e].output_queue_ \in Seq(Message \union {Hello})
      BY <1>1 DEF Channel
    <3>4. Tail(channel[e].output_queue_) \in Seq(Message \union {Hello})
      BY <3>2, <3>3, HeadTailProperties
    <3> DEFINE queue == Tail(channel[e].output_queue_)
    <3>5. b = [channel[e] EXCEPT !.output_pending = FALSE, !.output_queue_ = queue]
      BY DEF Popped
    <3> HIDE DEF queue
    <3>6. QED
      BY <1>1, <3>4, <3>5 DEF Channel, queue
  <2>2. \/ Succeeds([written EXCEPT ![e] = StartsWrite(e, @)])
        \/ Fails(written, e)
    BY <1>7 DEF WriteCompletes
  <2> HIDE DEF b
  <2>3. [written EXCEPT ![e] = StartsWrite(e, @)] = [channel EXCEPT ![e] = StartsWrite(e, b)]
    BY <1>1
  <2>4. QED
    BY <1>2, <1>3, <2>1, <2>2, <2>3
<1>8. QED
  BY <1>4, <1>5, <1>6, <1>7, Zenon DEF WriteCompletion

(* A task run at a closed end does not open it.                            *)
LEMMA RunTaskStays ==
  ASSUME ErrorInv, ChannelInv, NEW e \in End, RunTask(e)
  PROVE  FailedStays
<1>1. channel \in [End -> Channel] /\ channel[e] \in Channel /\ failed \subseteq End
  BY DEF ChannelInv, TypeOK
<1>2. failed' = failed /\ loop' = loop
  BY DEF RunTask, history
<1>3. SUFFICES ASSUME NEW x \in failed
               PROVE  channel'[x].pipe_ = "closed"
  BY <1>2 DEF FailedStays
<1>4. x \in End /\ channel[x].pipe_ = "closed"
  BY <1>1 DEF ErrorInv
<1>5. ASSUME NEW d, channel' = [channel EXCEPT ![e] = d], x = e => d.pipe_ = "closed"
      PROVE  channel'[x].pipe_ = "closed"
  BY <1>1, <1>4, <1>5
<1>6. CASE channel' = [channel EXCEPT ![e] = SendData(e, Head(work[e]))]
  <2>1. ASSUME channel[e].pipe_ = "closed"
        PROVE  SendData(e, Head(work[e])).pipe_ = "closed"
    <3> DEFINE queue == Append(channel[e].output_queue_, Head(work[e]))
               b == [channel[e] EXCEPT !.output_queue_ = queue]
    <3>1. b.pipe_ = "closed"
      <4> HIDE DEF queue
      <4>1. QED
        BY <1>1, <2>1 DEF Channel
    <3>2. SendData(e, Head(work[e])) = IF b.waiting_connect_ \/ b.output_pending THEN b ELSE StartsWrite(e, b)
      BY DEF SendData
    <3> HIDE DEF b
    <3>3. StartsWrite(e, b) = b
      BY <3>1 DEF StartsWrite
    <3>4. QED
      BY <3>1, <3>2, <3>3
  <2>2. QED
    BY <1>4, <1>5, <1>6, <2>1
<1>7. CASE \E lost \in Unwritten(channel[e]) : channel' = [channel EXCEPT ![e] = Closed(@, lost)]
  <2>1. PICK lost \in Unwritten(channel[e]) : channel' = [channel EXCEPT ![e] = Closed(@, lost)]
    BY <1>7
  <2>2. Closed(channel[e], lost).pipe_ = "closed"
    BY <1>1 DEF Closed, Channel
  <2>3. QED
    BY <1>5, <2>1, <2>2
<1>8. CASE UNCHANGED channel
  BY <1>4, <1>8
<1>9. QED
  BY <1>6, <1>7, <1>8 DEF RunTask

(* The way through the error, at whose end the callers are told.           *)
LEMMA ErrorStepTells ==
  ASSUME ErrorInv, ChannelInv, NEW e \in End, ErrorStep(e)
  PROVE  ErrorInv'
<1>1. /\ UNCHANGED <<channel, pending_sync_messages_, call, failed>>
      /\ done_event \subseteq done_event'
      /\ \/ loop[e] = "delete" /\ loop' = [loop EXCEPT ![e] = "clear"]
         \/ loop[e] = "clear" /\ loop' = [loop EXCEPT ![e] = "signal"]
         \/ /\ loop[e] = "signal" /\ loop' = [loop EXCEPT ![e] = "run"]
            /\ done_event' = done_event \union {r \in pending_sync_messages_ : From[r] = e}
  BY DEF ErrorStep, DeleteReplays, ClearReplays, SignalAllEvents, syncVars, history
<1>2. /\ \A x \in failed' : channel'[x].pipe_ = "closed"
      /\ \A r \in Request : call'[r] \in {"send", "wait", "erase"} <=> r \in pending_sync_messages_'
  BY <1>1 DEF ErrorInv
<1>3. ASSUME NEW r \in Request, From[r] \in failed', call'[r] = "wait", r \notin done_event'
      PROVE  loop'[From[r]] \in {"delete", "clear", "signal"}
  <2>1. r \in pending_sync_messages_ /\ From[r] \in End /\ loop[From[r]] \in {"delete", "clear", "signal"}
        /\ loop \in [End -> {"run", "connect", "delete", "clear", "signal"}]
    BY <1>1, <1>3 DEF ErrorInv, ChannelInv, TypeOK
  <2>2. CASE From[r] = e
    <3>1. ~(loop[e] = "signal" /\ loop' = [loop EXCEPT ![e] = "run"]
              /\ done_event' = done_event \union {s \in pending_sync_messages_ : From[s] = e})
      BY <1>3, <2>1, <2>2
    <3>2. QED
      BY <1>1, <2>1, <2>2, <3>1
  <2>3. CASE From[r] # e
    BY <1>1, <2>1, <2>3
  <2>4. QED
    BY <2>2, <2>3
<1>4. QED
  BY <1>2, <1>3 DEF ErrorInv

(* The callers' steps: who begins to wait has found the end open.          *)
LEMMA CallTells ==
  ASSUME ErrorInv, ChannelInv, NEW r \in Request, InsertPending(r) \/ CallStep(r)
  PROVE  ErrorInv'
<1>1. UNCHANGED <<ioVars, done_event, failed>>
      /\ call \in [Request -> {"idle", "send", "wait", "erase", "reply", "done"}]
  BY DEF InsertPending, CallStep, SendRequest, WaitEnds, ErasePending, GetReplayMessage, history, ChannelInv, TypeOK
<1>2. UNCHANGED <<channel, loop>>
  BY <1>1 DEF ioVars
<1>3. CASE InsertPending(r)
  BY <1>1, <1>2, <1>3 DEF InsertPending, Goes, ErrorInv
<1>4. CASE SendRequest(r)
  <2>1. pending_sync_messages_' = pending_sync_messages_
    BY <1>4 DEF SendRequest
  <2>2. CASE channel[From[r]].pipe_ = "open" /\ Goes(r, "send", "wait")
    <3>1. From[r] \notin failed
      BY <2>2 DEF ErrorInv
    <3>2. QED
      BY <1>1, <1>2, <2>1, <2>2, <3>1 DEF Goes, ErrorInv
  <2>3. CASE Goes(r, "send", "erase")
    BY <1>1, <1>2, <2>1, <2>3 DEF Goes, ErrorInv
  <2>4. QED
    BY <1>4, <2>2, <2>3 DEF SendRequest
<1>5. CASE WaitEnds(r)
  BY <1>1, <1>2, <1>5 DEF WaitEnds, Goes, ErrorInv
<1>6. CASE ErasePending(r)
  BY <1>1, <1>2, <1>6 DEF ErasePending, Goes, ErrorInv
<1>7. CASE GetReplayMessage(r)
  BY <1>1, <1>2, <1>7 DEF GetReplayMessage, Goes, ErrorInv
<1>8. QED
  BY <1>3, <1>4, <1>5, <1>6, <1>7 DEF CallStep

(* Every step keeps what is said about failures and callers.               *)
LEMMA ErrorInvStep == ErrorInv /\ ChannelInv /\ [Next]_vars => ErrorInv'
<1> SUFFICES ASSUME ErrorInv, ChannelInv, [Next]_vars
             PROVE  ErrorInv'
  OBVIOUS
<1>1. ASSUME FailedStays, UNCHANGED <<pending_sync_messages_, done_event, call>>
      PROVE  ErrorInv'
  BY <1>1, FailedStaysKeeps
<1>2. ASSUME NEW e \in End, CreatePipe(e)
      PROVE  ErrorInv'
  <2>1. /\ channel[e].pipe_ # "closed" /\ failed' = failed /\ failed \subseteq End
        /\ \A x \in End \ {e} : channel'[x].pipe_ = channel[x].pipe_ /\ loop'[x] = loop[x]
    BY <1>2 DEF CreatePipe, history, ChannelInv, TypeOK
  <2>2. FailedStays
    BY <2>1, OpenEndStays
  <2>3. QED
    BY <1>1, <1>2, <2>2 DEF CreatePipe, syncVars
<1>3. ASSUME NEW e \in End, Connect(e)
      PROVE  ErrorInv'
  BY <1>1, <1>3, ConnectStays DEF Connect, syncVars
<1>4. ASSUME NEW e \in End, Completion(e)
      PROVE  ErrorInv'
  <2>1. ASSUME NEW n \in 1 .. kReadBufferSize, ReadCompletes(e, n)
        PROVE  ErrorInv'
    <3>1. n \in Nat
      BY ChannelAssumption
    <3>2. QED
      BY <2>1, <3>1, ReadStays, FailedStaysKeeps
  <2>2. CASE (e = "server" /\ ConnectionCompletes) \/ ReadFails(e)
    BY <1>1, <2>2, CompletionStays DEF ConnectionCompletes, ReadFails, syncVars
  <2>3. QED
    BY <1>4, <2>1, <2>2 DEF Completion
<1>5. ASSUME NEW e \in End, WriteCompletion(e)
      PROVE  ErrorInv'
  BY <1>1, <1>5, CompletionStays DEF WriteCompletion, WriteCompletes, WriteFails, syncVars
<1>6. ASSUME NEW e \in End, RunTask(e)
      PROVE  ErrorInv'
  BY <1>1, <1>6, RunTaskStays DEF RunTask, syncVars
<1>7. ASSUME NEW e \in End, ErrorStep(e)
      PROVE  ErrorInv'
  BY <1>7, ErrorStepTells
<1>8. ASSUME UNCHANGED <<ioVars, syncVars, failed>>
      PROVE  ErrorInv'
  BY <1>8 DEF ErrorInv, ioVars, syncVars
<1>9. ASSUME NEW e \in End, CloseChannel(e)
      PROVE  ErrorInv'
  BY <1>8, <1>9 DEF CloseChannel, history
<1>10. ASSUME NEW m \in Message, Send(m)
       PROVE  ErrorInv'
  BY <1>8, <1>10 DEF Send
<1>11. ASSUME NEW r \in Request, InsertPending(r) \/ CallStep(r)
       PROVE  ErrorInv'
  BY <1>11, CallTells
<1>12. CASE UNCHANGED vars
  BY <1>8, <1>12 DEF vars, history
<1>13. QED
  BY <1>2, <1>3, <1>4, <1>5, <1>6, <1>7, <1>9, <1>10, <1>11, <1>12 DEF Next

(* It holds in every reachable state.                                      *)
THEOREM ErrorInvariant == Spec => []ErrorInv
<1>1. Init => ErrorInv
  BY DEF Init, ErrorInv
<1>2. QED
  BY <1>1, ErrorInvStep, ChannelInvariant, PTL DEF Spec

(* When the loop has got through the error, the event of everybody who     *)
(* waits at that end is set, whenever the error fell                       *)
(* (ipc_sync_channel_pipe.cpp:24-36, 144-161).                             *)
THEOREM ChannelErrorReleasesCallers == Spec => []ErrorReleasesCallers
<1>1. ErrorInv => ErrorReleasesCallers
  BY DEF ErrorInv, ErrorReleasesCallers
<1>2. QED
  BY <1>1, ErrorInvariant, PTL

-----------------------------------------------------------------------------
(* What is posted                                                          *)

(* What push_back adds to the elements of a list.                          *)
LEMMA RangeOfAppend ==
  ASSUME NEW S, NEW s \in Seq(S), NEW e \in S
  PROVE  Range(Append(s, e)) = Range(s) \union {e}
<1> DEFINE last == <<e>>
<1>1. Append(s, e) = s \o last
  BY AppendIsConcat
<1>2. last \in Seq(S) /\ Range(last) = {e}
  BY DEF Range
<1> HIDE DEF last
<1>3. Range(s \o last) = Range(s) \union Range(last)
  BY <1>2, RangeConcatenation
<1>4. QED
  BY <1>1, <1>2, <1>3

(* A list without repetitions stays one when a new element is put behind.  *)
LEMMA InjectiveAppend ==
  ASSUME NEW S, NEW s \in Seq(S), NEW e \in S, IsInjective(s), e \notin Range(s)
  PROVE  IsInjective(Append(s, e))
<1>1. DOMAIN Append(s, e) = 1 .. (Len(s) + 1) /\ DOMAIN s = 1 .. Len(s) /\ Len(s) \in Nat
  BY AppendProperties, LenProperties
<1>2. \A i \in 1 .. Len(s) : Append(s, e)[i] = s[i] /\ s[i] # e
  BY <1>1, AppendProperties DEF Range
<1>3. Append(s, e)[Len(s) + 1] = e
  BY AppendProperties
<1>4. SUFFICES ASSUME NEW i \in 1 .. (Len(s) + 1), NEW j \in 1 .. (Len(s) + 1),
                      Append(s, e)[i] = Append(s, e)[j]
               PROVE  i = j
  BY <1>1 DEF IsInjective
<1>5. CASE i \in 1 .. Len(s) /\ j \in 1 .. Len(s)
  BY <1>1, <1>2, <1>4, <1>5 DEF IsInjective
<1>6. CASE i = Len(s) + 1 \/ j = Len(s) + 1
  BY <1>1, <1>2, <1>3, <1>4, <1>6
<1>7. QED
  BY <1>1, <1>5, <1>6

(* An end posts its own messages, each once, and a request when its sender *)
(* begins to wait.                                                         *)
PostedInv ==
  /\ \A e \in End : IsInjective(posted[e]) /\ \A m \in Range(posted[e]) : From[m] = e
  /\ \A r \in Request : call[r] \in {"idle", "send"} => r \notin Range(posted[From[r]])

(* A message that was not posted before is posted at its end.              *)
LEMMA PostsOwn ==
  ASSUME ChannelInv, PostedInv, NEW m \in Message, m \notin Range(posted[From[m]]),
         posted' = [posted EXCEPT ![From[m]] = Append(@, m)],
         \A r \in Request : call'[r] \in {"idle", "send"} => r # m /\ call[r] \in {"idle", "send"}
  PROVE  PostedInv'
<1> DEFINE e == From[m]
<1>1. e \in End /\ posted[e] \in Seq(Message) /\ posted \in [End -> Seq(Message)]
  BY ChannelAssumption DEF ChannelInv, TypeOK
<1>2. IsInjective(posted[e]) /\ m \notin Range(posted[e])
  BY <1>1 DEF PostedInv
<1>3. posted'[e] = Append(posted[e], m) /\ \A x \in End \ {e} : posted'[x] = posted[x]
  BY <1>1
<1>4. IsInjective(posted'[e]) /\ Range(posted'[e]) = Range(posted[e]) \union {m}
  <2> DEFINE s == posted[e]
  <2>1. s \in Seq(Message) /\ IsInjective(s) /\ m \notin Range(s) /\ posted'[e] = Append(s, m)
    BY <1>1, <1>2, <1>3
  <2> HIDE DEF s, e
  <2>2. IsInjective(Append(s, m)) /\ Range(Append(s, m)) = Range(s) \union {m}
    BY <2>1, InjectiveAppend, RangeOfAppend
  <2>3. QED
    BY <2>1, <2>2 DEF s
<1> HIDE DEF e
<1>5. ASSUME NEW x \in End
      PROVE  IsInjective(posted'[x]) /\ \A y \in Range(posted'[x]) : From[y] = x
  <2>1. CASE x = e
    <3>1. \A y \in Range(posted[e]) : From[y] = e
      BY <1>1 DEF PostedInv
    <3>2. QED
      BY <1>4, <2>1, <3>1 DEF e
  <2>2. CASE x # e
    BY <1>3, <2>2 DEF PostedInv
  <2>3. QED
    BY <2>1, <2>2
<1>6. ASSUME NEW r \in Request, call'[r] \in {"idle", "send"}
      PROVE  r \notin Range(posted'[From[r]])
  <2>1. r # m /\ r \notin Range(posted[From[r]]) /\ From[r] \in End
    BY <1>6, ChannelAssumption DEF PostedInv
  <2>2. Range(posted'[From[r]]) \subseteq Range(posted[From[r]]) \union {m}
    BY <1>3, <1>4, <2>1
  <2>3. QED
    BY <2>1, <2>2
<1>7. QED
  BY <1>5, <1>6 DEF PostedInv

(* Every step keeps it.                                                    *)
LEMMA PostedInvStep == PostedInv /\ ChannelInv /\ [Next]_vars => PostedInv'
<1> SUFFICES ASSUME PostedInv, ChannelInv, [Next]_vars
             PROVE  PostedInv'
  OBVIOUS
<1>1. ASSUME NEW m \in Message, Send(m)
      PROVE  PostedInv'
  <2>1. /\ m \notin Range(posted[From[m]]) /\ m \notin Request /\ call' = call
        /\ posted' = [posted EXCEPT ![From[m]] = Append(@, m)]
    BY <1>1 DEF Send, syncVars
  <2>2. \A r \in Request : r # m
    BY <2>1
  <2>3. QED
    BY <2>1, <2>2, PostsOwn
<1>2. ASSUME NEW r \in Request, SendRequest(r)
      PROVE  PostedInv'
  <2>1. r \in Message /\ call[r] = "send" /\ r \notin Range(posted[From[r]])
        /\ call \in [Request -> {"idle", "send", "wait", "erase", "reply", "done"}]
    BY <1>2, ChannelAssumption DEF SendRequest, Goes, PostedInv, ChannelInv, TypeOK
  <2>2. CASE Goes(r, "send", "wait") /\ posted' = [posted EXCEPT ![From[r]] = Append(@, r)]
    <3>1. \A s \in Request : call'[s] \in {"idle", "send"} => s # r /\ call[s] \in {"idle", "send"}
      BY <2>1, <2>2 DEF Goes
    <3>2. QED
      BY <2>1, <2>2, <3>1, PostsOwn
  <2>3. CASE Goes(r, "send", "erase") /\ UNCHANGED posted
    BY <2>1, <2>3 DEF Goes, PostedInv
  <2>4. QED
    BY <1>2, <2>2, <2>3 DEF SendRequest
<1>3. ASSUME UNCHANGED posted, \A r \in Request : call'[r] \in {"idle", "send"} => call[r] \in {"idle", "send"}
      PROVE  PostedInv'
  BY <1>3 DEF PostedInv
<1>4. ASSUME NEW r \in Request, InsertPending(r) \/ WaitEnds(r) \/ ErasePending(r) \/ GetReplayMessage(r)
      PROVE  PostedInv'
  <2>1. UNCHANGED posted
    BY <1>4 DEF InsertPending, WaitEnds, ErasePending, GetReplayMessage, history
  <2>2. \A s \in Request : call'[s] \in {"idle", "send"} => call[s] \in {"idle", "send"}
    BY <1>4 DEF InsertPending, WaitEnds, ErasePending, GetReplayMessage, Goes, ChannelInv, TypeOK
  <2>3. QED
    BY <1>3, <2>1, <2>2
<1>5. ASSUME UNCHANGED <<posted, call>>
      PROVE  PostedInv'
  BY <1>5 DEF PostedInv
<1>6. ASSUME NEW e \in End, CreatePipe(e) \/ Connect(e) \/ RunTask(e) \/ CloseChannel(e)
      PROVE  PostedInv'
  <2>1. UNCHANGED <<posted, call>>
    BY <1>6, SMTT(30) DEF CreatePipe, Connect, RunTask, CloseChannel, syncVars, history
  <2>2. QED
    BY <1>5, <2>1
<1>7. ASSUME NEW e \in End, Completion(e)
      PROVE  PostedInv'
  <2>1. UNCHANGED <<posted, call>>
    BY <1>7, Zenon DEF Completion, ConnectionCompletes, ReadCompletes, DispatchIPCMessages, ReadFails, syncVars
  <2>2. QED
    BY <1>5, <2>1
<1>8. ASSUME NEW e \in End, WriteCompletion(e) \/ ErrorStep(e)
      PROVE  PostedInv'
  <2>1. UNCHANGED <<posted, call>>
    BY <1>8 DEF WriteCompletion, WriteCompletes, WriteFails, ErrorStep, DeleteReplays, ClearReplays,
                SignalAllEvents, syncVars, history
  <2>2. QED
    BY <1>5, <2>1
<1>9. CASE UNCHANGED vars
  BY <1>5, <1>9 DEF vars, syncVars, history
<1>10. QED
  BY <1>1, <1>2, <1>4, <1>6, <1>7, <1>8, <1>9 DEF Next, CallStep

(* No end posts a message twice, or one of the other end.                  *)
THEOREM PostedInvariant == Spec => []PostedInv
<1>1. Init => PostedInv
  <2>1. ASSUME Init
        PROVE  \A e \in End : posted[e] = <<>>
    BY <2>1 DEF Init
  <2>2. Range(<<>>) = {} /\ IsInjective(<<>>)
    BY DEF Range, IsInjective
  <2>3. \A r \in Request : From[r] \in End
    BY ChannelAssumption
  <2>4. QED
    BY <2>1, <2>2, <2>3 DEF PostedInv
<1>2. QED
  BY <1>1, PostedInvStep, ChannelInvariant, PTL DEF Spec

-----------------------------------------------------------------------------
(* What becomes of the replies                                             *)

(* The reply to r has been dispatched at its caller's end.                 *)
Arrived(r) == Wire(Reply[r]) \in Range(received[From[r]])

(* A reply that is anywhere has arrived; with the listener it is nowhere   *)
(* else; one that has arrived is somewhere; nobody who has gone has one    *)
(* kept; and the error clears only what it has deleted.                    *)
Placed(r) ==
  /\ Reply[r] \in listened \/ Reply[r] \in replay_messages_[From[r]] \/ r \in fetched => Arrived(r)
  /\ Reply[r] \in listened => Reply[r] \notin replay_messages_[From[r]] /\ r \notin fetched
  /\ Arrived(r) =>
       Reply[r] \in listened \/ r \in fetched \/ Reply[r] \in replay_messages_[From[r]] \union deleted
  /\ call[r] = "done" => Reply[r] \notin replay_messages_[From[r]]
  /\ loop[From[r]] = "clear" /\ Reply[r] \in replay_messages_[From[r]] => Reply[r] \in deleted

ReplyInv == \A r \in Request : Placed(r)

(* A stream says nothing twice, and all but its HELLO is its end's own.    *)
LEMMA StreamInjective ==
  ASSUME ChannelInv, PostedInv, NEW p \in End
  PROVE  /\ \A i, j \in 1 .. Len(Stream(p)) : Stream(p)[i] = Stream(p)[j] => i = j
         /\ \A i \in 1 .. Len(Stream(p)) :
              Stream(p)[i] # Hello => Stream(p)[i] \in Message /\ From[Stream(p)[i]] = p
<1> DEFINE s == Stream(p)
           q == posted[p]
<1>1. Len(s) = Len(q) + 1 /\ s[1] = Hello /\ (\A i \in 1 .. Len(q) : s[i + 1] = q[i])
  BY StreamType DEF ChannelInv
<1>2. q \in Seq(Message) /\ IsInjective(q) /\ \A m \in Range(q) : From[m] = p
  BY DEF ChannelInv, TypeOK, PostedInv
<1> HIDE DEF s, q
<1>3. Len(q) \in Nat /\ DOMAIN q = 1 .. Len(q) /\ Hello \notin Message
  BY <1>2, LenProperties, ChannelAssumption
<1>4. ASSUME NEW i \in 1 .. Len(s), i # 1
      PROVE  i - 1 \in DOMAIN q /\ s[i] = q[i - 1]
  <2>1. i - 1 \in 1 .. Len(q) /\ (i - 1) + 1 = i
    BY <1>1, <1>3, <1>4
  <2>2. s[(i - 1) + 1] = q[i - 1]
    BY <1>1, <2>1
  <2>3. QED
    BY <1>3, <2>1, <2>2
<1>5. ASSUME NEW i \in 1 .. Len(s), i # 1
      PROVE  s[i] \in Message /\ From[s[i]] = p /\ s[i] # Hello
  <2>1. i - 1 \in DOMAIN q /\ s[i] = q[i - 1]
    BY <1>4, <1>5
  <2>2. q[i - 1] \in Range(q)
    BY <2>1 DEF Range
  <2>3. q[i - 1] \in Message
    BY <1>2, <1>3, <2>1, ElementOfSeq
  <2>4. QED
    BY <1>2, <1>3, <2>1, <2>2, <2>3
<1>6. ASSUME NEW i \in 1 .. Len(s), NEW j \in 1 .. Len(s), s[i] = s[j]
      PROVE  i = j
  <2>1. CASE i = 1 \/ j = 1
    BY <1>1, <1>5, <1>6, <2>1
  <2>2. CASE i # 1 /\ j # 1
    <3>1. i - 1 \in DOMAIN q /\ j - 1 \in DOMAIN q /\ q[i - 1] = q[j - 1]
      BY <1>4, <1>6, <2>2
    <3>2. i - 1 = j - 1
      BY <1>2, <3>1 DEF IsInjective
    <3>3. QED
      BY <3>2
  <2>3. QED
    BY <2>1, <2>2
<1>7. QED
  BY <1>1, <1>5, <1>6 DEF s

(* got holds the messages with which the stream to e begins.               *)
Begins(e, got) ==
  /\ Len(got) <= Len(Stream(Peer(e)))
  /\ \A i \in 1 .. Len(got) : got[i] = Wire(Stream(Peer(e))[i])

(* What is dispatched, one message at a time.                              *)
LEMMA ReceivedBegins ==
  ASSUME NEW s, NEW got \in Seq(Seq(Cells)), got = Wires(s, 0, Len(got))
  PROVE  \A i \in 1 .. Len(got) : got[i] = Wire(s[i])
<1>1. PICK k \in Nat : k = Len(got)
  BY LenProperties
<1>2. got = [i \in 1 .. k - 0 |-> Wire(s[0 + i])]
  BY <1>1 DEF Wires
<1>3. k - 0 = k /\ \A i \in 1 .. k : 0 + i = i
  OBVIOUS
<1>4. \A i \in 1 .. k : got[i] = Wire(s[i])
  BY <1>2, <1>3
<1>5. QED
  BY <1>1, <1>4

(* A read takes the messages that follow, which are the other end's own    *)
(* and had not arrived.                                                    *)
LEMMA DispatchedIsNew ==
  ASSUME ChannelInv, PostedInv, NEW e \in End, NEW messages \in Seq(Seq(Cells)),
         Begins(e, received[e]), Begins(e, received[e] \o messages), NEW m \in Message,
         NEW j \in DOMAIN messages, messages[j][1][1] = m
  PROVE  From[m] = Peer(e) /\ messages[j] = Wire(m) /\ Wire(m) \notin Range(received[e])
<1> DEFINE s == Stream(Peer(e))
           got == received[e]
           all == got \o messages
<1>1. Peer(e) \in End /\ got \in Seq(Seq(Cells))
  BY PeerType, TypedEnd DEF ChannelInv
<1>2. /\ \A i, k \in 1 .. Len(s) : s[i] = s[k] => i = k
      /\ \A i \in 1 .. Len(s) : s[i] # Hello => s[i] \in Message /\ From[s[i]] = Peer(e)
      /\ s \in Seq(Sent)
  BY <1>1, StreamInjective, StreamType DEF ChannelInv
<1>3. /\ Len(got) <= Len(s) /\ \A i \in 1 .. Len(got) : got[i] = Wire(s[i])
      /\ Len(all) <= Len(s) /\ \A i \in 1 .. Len(all) : all[i] = Wire(s[i])
  BY DEF Begins
<1>4. PICK k \in Nat, l \in Nat, w \in Nat : k = Len(got) /\ l = Len(messages) /\ w = Len(s)
  BY <1>1, <1>2, LenProperties
<1>5. Len(all) = k + l /\ j \in 1 .. l /\ all[k + j] = messages[j]
  <2>1. DOMAIN messages = 1 .. Len(messages)
    BY LenProperties
  <2>2. j \in 1 .. l
    BY <1>4, <2>1
  <2>3. k + j \in 1 .. k + l /\ ~(k + j <= k) /\ (k + j) - k = j
    BY <2>2
  <2>4. /\ Len(got \o messages) = Len(got) + Len(messages)
        /\ \A i \in 1 .. Len(got) + Len(messages) :
             (got \o messages)[i] = IF i <= Len(got) THEN got[i] ELSE messages[i - Len(got)]
    BY <1>1, ConcatProperties
  <2> HIDE DEF got, s, all
  <2>5. QED
    BY <1>4, <2>2, <2>3, <2>4 DEF all
<1> HIDE DEF s, got, all
<1>6. k + j \in 1 .. k + l /\ k + j \in 1 .. w /\ k + l <= w
  BY <1>3, <1>4, <1>5
<1>7. messages[j] = Wire(s[k + j]) /\ s[k + j] \in Sent
  BY <1>2, <1>3, <1>4, <1>5, <1>6, ElementOfSeq
<1>8. s[k + j] = m
  <2>1. Wire(s[k + j])[1][1] = s[k + j]
    BY <1>7, WireProperties
  <2>2. QED
    BY <1>7, <2>1
<1>9. From[m] = Peer(e)
  <2>1. m # Hello
    BY ChannelAssumption
  <2>2. QED
    BY <1>2, <1>4, <1>6, <1>8, <2>1
<1>10. ASSUME Wire(m) \in Range(got)
       PROVE  FALSE
  <2>1. DOMAIN got = 1 .. k
    BY <1>1, <1>4, LenProperties DEF got
  <2>2. PICK i \in 1 .. k : got[i] = Wire(m)
    BY <1>10, <2>1 DEF Range
  <2>3. i \in 1 .. w /\ i # k + j
    BY <1>3, <1>4, <1>5
  <2>4. Wire(s[i]) = Wire(m) /\ s[i] \in Sent /\ m \in Sent
    BY <1>2, <1>3, <1>4, <2>2, <2>3, ElementOfSeq DEF Sent
  <2>5. Wire(s[i])[1][1] = s[i] /\ Wire(m)[1][1] = m
    BY <2>4, WireProperties
  <2>6. s[i] = s[k + j]
    BY <1>8, <2>4, <2>5
  <2>7. QED
    BY <1>2, <1>4, <1>6, <2>3, <2>6
<1>11. QED
  BY <1>7, <1>8, <1>9, <1>10 DEF got

(* What a dispatch gives to the listener and what it keeps.                *)
Fresh(messages) == {messages[j][1][1] : j \in DOMAIN messages} \ {Hello}

(* A dispatch puts every reply it brings in one place: with the listener,  *)
(* or kept if its request is pending.                                      *)
LEMMA DispatchPlaces ==
  ASSUME ChannelInv, PostedInv, ErrorInv, ReplyInv, NEW e \in End, NEW messages \in Seq(Seq(Cells)),
         Begins(e, received[e]), Begins(e, received[e] \o messages),
         \A j \in 1 .. Len(messages) : \E m \in Sent : messages[j] = Wire(m),
         DispatchIPCMessages(e, messages), UNCHANGED <<fetched, deleted>>,
         loop[e] = "run", loop'[e] # "clear", \A x \in End \ {e} : loop'[x] = loop[x]
  PROVE  ReplyInv'
<1> DEFINE arrived == Fresh(messages)
           awaited == {m \in arrived : AwaitedBy(m) # {}}
<1>1. /\ received' \in [End -> Seq(Seq(Cells))] /\ received'[e] = received[e] \o messages
      /\ \A x \in End : x # e => received'[x] = received[x]
      /\ replay_messages_ \in [End -> SUBSET {Reply[r] : r \in Request}]
      /\ UNCHANGED <<pending_sync_messages_, call>>
  BY DispatchTypes DEF ChannelInv, TypeOK
<1>2. /\ replay_messages_' = [replay_messages_ EXCEPT ![e] = @ \union awaited]
      /\ listened' = listened \union (arrived \ awaited)
  BY DEF DispatchIPCMessages, Fresh
<1>3. ASSUME NEW m \in Message, m \in arrived
      PROVE  From[m] = Peer(e) /\ Wire(m) \in Range(messages) /\ Wire(m) \notin Range(received[e])
  <2>1. PICK j \in DOMAIN messages : messages[j][1][1] = m
    BY <1>3 DEF Fresh
  <2>2. From[m] = Peer(e) /\ messages[j] = Wire(m) /\ Wire(m) \notin Range(received[e])
    BY <2>1, DispatchedIsNew
  <2>3. QED
    BY <2>2 DEF Range
<1>4. ASSUME NEW m \in Message, Wire(m) \in Range(messages)
      PROVE  m \in arrived
  <2>1. PICK j \in DOMAIN messages : messages[j] = Wire(m)
    BY <1>4 DEF Range
  <2>2. m \in Sent /\ m # Hello
    BY ChannelAssumption DEF Sent
  <2>3. messages[j][1][1] = m
    BY <2>1, <2>2, WireProperties
  <2>4. QED
    BY <2>2, <2>3 DEF Fresh
<1>5. Range(received[e] \o messages) = Range(received[e]) \union Range(messages)
  <2> DEFINE got == received[e]
  <2>1. got \in Seq(Seq(Cells))
    BY TypedEnd DEF ChannelInv
  <2> HIDE DEF got
  <2>2. QED
    BY <2>1, RangeConcatenation DEF got
<1>6. \A m \in Message : awaited \subseteq arrived /\ (m \in awaited <=> m \in arrived /\ AwaitedBy(m) # {})
  OBVIOUS
<1> HIDE DEF arrived, awaited
<1>7. ASSUME NEW r \in Request, From[r] = e
      PROVE  Placed(r)'
  <2> DEFINE m == Reply[r]
             kept == replay_messages_[e]
             kept2 == replay_messages_'[e]
  <2>1. m \in Message
    BY ChannelAssumption
  <2>2. kept2 = kept \union awaited /\ replay_messages_'[From[r]] = kept2 /\ replay_messages_[From[r]] = kept
    BY <1>1, <1>2, <1>7
  <2>3. Arrived(r)' <=> Arrived(r) \/ m \in arrived
    <3>1. Arrived(r) <=> Wire(m) \in Range(received[e])
      BY <1>7 DEF Arrived
    <3>2. Arrived(r)' <=> Wire(m) \in Range(received'[e])
      BY <1>7 DEF Arrived
    <3>3. QED
      BY <1>1, <1>3, <1>4, <1>5, <2>1, <3>1, <3>2
  <2>4. Placed(r) /\ loop'[From[r]] # "clear" /\ fetched' = fetched /\ deleted' = deleted /\ call' = call
    BY <1>1, <1>7 DEF ReplyInv
  <2>5. m \in listened' <=> m \in listened \/ (m \in arrived /\ m \notin awaited)
    BY <1>2
  <2>6. m \in awaited <=> m \in arrived /\ AwaitedBy(m) # {}
    BY <1>6, <2>1
  <2>7. m \in arrived => ~Arrived(r)
    BY <1>3, <1>7, <2>1 DEF Arrived
  <2>8. AwaitedBy(m) # {} => call[r] # "done"
    <3>1. SUFFICES ASSUME NEW s \in AwaitedBy(m)
                   PROVE  call[r] # "done"
      OBVIOUS
    <3>2. s \in Request /\ Reply[s] = Reply[r] /\ s \in pending_sync_messages_
      BY DEF AwaitedBy, ChannelInv, TypeOK
    <3>3. s = r
      BY <3>2, RepliesDiffer
    <3>4. QED
      BY <3>2, <3>3 DEF ErrorInv
  <2>9. Placed(r)' <=>
          /\ m \in listened' \/ m \in kept2 \/ r \in fetched => Arrived(r)'
          /\ m \in listened' => m \notin kept2 /\ r \notin fetched
          /\ Arrived(r)' => m \in listened' \/ r \in fetched \/ m \in kept2 \union deleted
          /\ call[r] = "done" => m \notin kept2
          /\ loop'[From[r]] = "clear" /\ m \in kept2 => m \in deleted
    BY <2>2, <2>4 DEF Placed
  <2>10. Placed(r) <=>
          /\ m \in listened \/ m \in kept \/ r \in fetched => Arrived(r)
          /\ m \in listened => m \notin kept /\ r \notin fetched
          /\ Arrived(r) => m \in listened \/ r \in fetched \/ m \in kept \union deleted
          /\ call[r] = "done" => m \notin kept
          /\ loop[From[r]] = "clear" /\ m \in kept => m \in deleted
    BY <2>2 DEF Placed
  <2> HIDE DEF m, kept, kept2
  <2>11. QED
    BY <2>2, <2>3, <2>4, <2>5, <2>6, <2>7, <2>8, <2>9, <2>10
<1>8. ASSUME NEW r \in Request, From[r] # e
      PROVE  Placed(r)'
  <2>1. From[r] \in End /\ Reply[r] \in Message /\ From[Reply[r]] # From[r] /\ From[Reply[r]] \in End
    BY ChannelAssumption
  <2>2. From[r] = Peer(e) /\ From[Reply[r]] # Peer(e)
    BY <1>8, <2>1, PeerType
  <2>3. Reply[r] \notin arrived
    BY <1>3, <2>1, <2>2
  <2>4. Reply[r] \in listened' <=> Reply[r] \in listened
    BY <1>2, <2>3
  <2>5. /\ replay_messages_'[From[r]] = replay_messages_[From[r]] /\ received'[From[r]] = received[From[r]]
        /\ loop'[From[r]] = loop[From[r]] /\ fetched' = fetched /\ deleted' = deleted /\ call' = call
    BY <1>1, <1>2, <1>8, <2>1
  <2>6. QED
    BY <2>4, <2>5 DEF ReplyInv, Placed, Arrived
<1>9. QED
  BY <1>7, <1>8 DEF ReplyInv

(* So does a read, whatever becomes of the channel in it.                  *)
LEMMA ReadPlaces ==
  ASSUME ChannelInv, PostedInv, ErrorInv, ReplyInv, NEW e \in End, NEW n \in Nat, ReadCompletes(e, n)
  PROVE  ReplyInv'
<1>1. Peer(e) \in End /\ Peer(e) # e /\ Peer(Peer(e)) = e /\ \A x \in End : x = e \/ x = Peer(e)
  BY PeerType
<1>2. loop[e] = "run" /\ loop \in [End -> {"run", "connect", "delete", "clear", "signal"}]
      /\ UNCHANGED <<posted, fetched, deleted>>
  BY DEF ReadCompletes, Completes, ChannelInv, TypeOK
<1>3. PICK messages \in Seq(Seq(Cells)), over2 \in Seq(Cells), d \in Channel :
        /\ \A j \in 1 .. Len(messages) : \E m \in Sent : messages[j] = Wire(m)
        /\ DispatchIPCMessages(e, messages)
        /\ \/ Succeeds([channel EXCEPT ![Peer(e)] = d, ![e].input_overflow_buf_ = over2])
           \/ Fails([channel EXCEPT ![Peer(e)] = d, ![e].input_overflow_buf_ = over2, ![e].input_pending = FALSE], e)
  BY ReadDispatches
<1>4. loop'[e] # "clear" /\ \A x \in End \ {e} : loop'[x] = loop[x]
  BY <1>2, <1>3 DEF Succeeds, Fails
<1>5. received'[e] = received[e] \o messages /\ received' \in [End -> Seq(Seq(Cells))]
  BY <1>3, DispatchTypes DEF ChannelInv
<1>6. ChannelInv'
  BY ReadCompletesKeeps
<1>7. Begins(e, received[e])
  <2> DEFINE s == Stream(Peer(e))
             got == received[e]
  <2>1. Len(got) <= Len(s) /\ got = Wires(s, 0, Len(got))
    BY <1>1 DEF ChannelInv, StreamInv, StreamFrom, InStream, Arrives
  <2>2. got \in Seq(Seq(Cells))
    BY TypedEnd DEF ChannelInv
  <2> HIDE DEF s, got
  <2>3. \A i \in 1 .. Len(got) : got[i] = Wire(s[i])
    BY <2>1, <2>2, ReceivedBegins
  <2>4. QED
    BY <2>1, <2>3 DEF Begins, s, got
<1>8. Begins(e, received[e] \o messages)
  <2> DEFINE s == Stream(Peer(e))
             got == received'[e]
  <2>1. StreamFrom(Peer(e))'
    BY <1>1, <1>6 DEF ChannelInv, StreamInv
  <2>2. Stream(Peer(e))' = s
    BY <1>2 DEF Stream
  <2>3. Len(got) <= Len(s) /\ got = Wires(s, 0, Len(got))
    BY <1>1, <2>1, <2>2 DEF StreamFrom, InStream, Arrives
  <2>4. got \in Seq(Seq(Cells)) /\ got = received[e] \o messages
    BY <1>5
  <2> HIDE DEF s, got
  <2>5. \A i \in 1 .. Len(got) : got[i] = Wire(s[i])
    BY <2>3, <2>4, ReceivedBegins
  <2>6. QED
    BY <2>3, <2>4, <2>5 DEF Begins, s
<1>9. QED
  BY <1>2, <1>3, <1>4, <1>7, <1>8, DispatchPlaces

(* Steps that touch no reply, and start no clearing.                       *)
LEMMA PlacesStay ==
  ASSUME ReplyInv, UNCHANGED <<received, listened, fetched, deleted, replay_messages_>>,
         \A r \in Request : call'[r] = "done" => call[r] = "done",
         \A e \in End : loop'[e] = "clear" => loop[e] = "clear"
  PROVE  ReplyInv'
<1>1. \A r \in Request : From[r] \in End
  BY ChannelAssumption
<1>2. QED
  BY <1>1 DEF ReplyInv, Placed, Arrived

(* The error deletes the replies and then forgets them.                    *)
LEMMA ErrorStepPlaces ==
  ASSUME ReplyInv, ChannelInv, NEW e \in End, ErrorStep(e)
  PROVE  ReplyInv'
<1>1. /\ loop \in [End -> {"run", "connect", "delete", "clear", "signal"}]
      /\ replay_messages_ \in [End -> SUBSET {Reply[r] : r \in Request}]
      /\ \A r \in Request : From[r] \in End
  BY ChannelAssumption DEF ChannelInv, TypeOK
<1>2. CASE DeleteReplays(e)
  <2>1. /\ UNCHANGED <<received, listened, fetched, replay_messages_, call>>
        /\ deleted' = deleted \union replay_messages_[e] /\ loop' = [loop EXCEPT ![e] = "clear"]
    BY <1>2 DEF DeleteReplays, syncVars
  <2>2. ASSUME NEW r \in Request
        PROVE  Placed(r)'
    BY <1>1, <2>1 DEF ReplyInv, Placed, Arrived
  <2>3. QED
    BY <2>2 DEF ReplyInv
<1>3. CASE ClearReplays(e)
  <2>1. /\ UNCHANGED <<received, listened, fetched, deleted, call>> /\ loop[e] = "clear"
        /\ replay_messages_' = [replay_messages_ EXCEPT ![e] = {}] /\ loop' = [loop EXCEPT ![e] = "signal"]
    BY <1>3 DEF ClearReplays, history
  <2>2. ASSUME NEW r \in Request
        PROVE  Placed(r)'
    <3>1. CASE From[r] = e
      <4>1. replay_messages_'[From[r]] = {} /\ loop'[From[r]] = "signal"
        BY <1>1, <2>1, <3>1
      <4>2. QED
        BY <2>1, <3>1, <4>1 DEF ReplyInv, Placed, Arrived
    <3>2. CASE From[r] # e
      <4>1. replay_messages_'[From[r]] = replay_messages_[From[r]] /\ loop'[From[r]] = loop[From[r]]
        BY <1>1, <2>1, <3>2
      <4>2. QED
        BY <2>1, <4>1 DEF ReplyInv, Placed, Arrived
    <3>3. QED
      BY <3>1, <3>2
  <2>3. QED
    BY <2>2 DEF ReplyInv
<1>4. CASE SignalAllEvents(e)
  <2>1. UNCHANGED <<received, listened, fetched, deleted, replay_messages_, call>>
    BY <1>4 DEF SignalAllEvents, history
  <2>2. \A x \in End : loop'[x] = "clear" => loop[x] = "clear"
    BY <1>1, <1>4 DEF SignalAllEvents
  <2>3. QED
    BY <2>1, <2>2, PlacesStay
<1>5. QED
  BY <1>2, <1>3, <1>4 DEF ErrorStep

(* A caller takes its reply with it.                                       *)
LEMMA FetchPlaces ==
  ASSUME ReplyInv, ChannelInv, NEW s \in Request, GetReplayMessage(s)
  PROVE  ReplyInv'
<1>1. /\ replay_messages_ \in [End -> SUBSET {Reply[r] : r \in Request}]
      /\ \A r \in Request : From[r] \in End
      /\ call \in [Request -> {"idle", "send", "wait", "erase", "reply", "done"}]
  BY ChannelAssumption DEF ChannelInv, TypeOK
<1>2. /\ UNCHANGED <<loop, received, listened, deleted>> /\ call' = [call EXCEPT ![s] = "done"]
      /\ fetched' = IF Reply[s] \in replay_messages_[From[s]] THEN fetched \union {s} ELSE fetched
      /\ replay_messages_' = [replay_messages_ EXCEPT ![From[s]] = @ \ {Reply[s]}]
  BY DEF GetReplayMessage, Goes, ioVars
<1>3. Placed(s)'
  <2>1. replay_messages_'[From[s]] = replay_messages_[From[s]] \ {Reply[s]}
    BY <1>1, <1>2
  <2>2. Placed(s) /\ (s \in fetched' <=> s \in fetched \/ Reply[s] \in replay_messages_[From[s]])
    BY <1>2 DEF ReplyInv
  <2>3. QED
    BY <1>2, <2>1, <2>2 DEF Placed, Arrived
<1>4. ASSUME NEW r \in Request, r # s
      PROVE  Placed(r)'
  <2>1. Reply[r] # Reply[s]
    BY <1>4, RepliesDiffer
  <2>2. Reply[r] \in replay_messages_'[From[r]] <=> Reply[r] \in replay_messages_[From[r]]
    BY <1>1, <1>2, <2>1
  <2>3. Placed(r) /\ call'[r] = call[r] /\ (r \in fetched' <=> r \in fetched)
    BY <1>1, <1>2, <1>4 DEF ReplyInv
  <2>4. QED
    BY <1>2, <2>2, <2>3 DEF Placed, Arrived
<1>5. QED
  BY <1>3, <1>4 DEF ReplyInv

(* Every step keeps the replies in their places.                           *)
LEMMA ReplyInvStep == ReplyInv /\ ErrorInv /\ PostedInv /\ ChannelInv /\ [Next]_vars => ReplyInv'
<1> SUFFICES ASSUME ReplyInv, ErrorInv, PostedInv, ChannelInv, [Next]_vars
             PROVE  ReplyInv'
  OBVIOUS
<1> USE DEF syncVars, history, ioVars
<1>1. /\ loop \in [End -> {"run", "connect", "delete", "clear", "signal"}]
      /\ call \in [Request -> {"idle", "send", "wait", "erase", "reply", "done"}]
  BY DEF ChannelInv, TypeOK
<1>2. ASSUME UNCHANGED <<received, listened, fetched, deleted, replay_messages_, call>>,
             \/ loop' = loop
             \/ \E e \in End, to \in {"run", "connect", "delete"} : loop' = [loop EXCEPT ![e] = to]
      PROVE  ReplyInv'
  <2>1. \A x \in End : loop'[x] = "clear" => loop[x] = "clear"
    BY <1>1, <1>2
  <2>2. QED
    BY <1>2, <2>1, PlacesStay
<1>3. ASSUME NEW e \in End, CreatePipe(e) \/ Connect(e)
      PROVE  ReplyInv'
  <2>1. /\ UNCHANGED <<received, listened, fetched, deleted, replay_messages_, call>>
        /\ \E to \in {"run", "connect", "delete"} : loop' = [loop EXCEPT ![e] = to]
    BY <1>3 DEF CreatePipe, Connect, Fails
  <2>2. QED
    BY <1>2, <2>1
<1>4. ASSUME NEW e \in End, Completion(e)
      PROVE  ReplyInv'
  <2>1. ASSUME NEW n \in 1 .. kReadBufferSize, ReadCompletes(e, n)
        PROVE  ReplyInv'
    <3>1. n \in Nat
      BY ChannelAssumption
    <3>2. QED
      BY <2>1, <3>1, ReadPlaces
  <2>2. CASE ConnectionCompletes
    BY <1>2, <2>2 DEF ConnectionCompletes, Succeeds
  <2>3. CASE ReadFails(e)
    <3>1. /\ UNCHANGED <<received, listened, fetched, deleted, replay_messages_, call>>
          /\ loop' = [loop EXCEPT ![e] = "delete"]
      BY <2>3 DEF ReadFails, Fails
    <3>2. QED
      BY <1>2, <3>1
  <2>4. QED
    BY <1>4, <2>1, <2>2, <2>3 DEF Completion
<1>5. ASSUME NEW e \in End, WriteCompletion(e)
      PROVE  ReplyInv'
  <2>1. /\ UNCHANGED <<received, listened, fetched, deleted, replay_messages_, call>>
        /\ loop' = loop \/ loop' = [loop EXCEPT ![e] = "delete"]
    BY <1>5 DEF WriteCompletion, WriteCompletes, WriteFails, Succeeds, Fails
  <2>2. QED
    BY <1>2, <2>1
<1>6. ASSUME NEW e \in End, RunTask(e) \/ CloseChannel(e)
      PROVE  ReplyInv'
  BY <1>2, <1>6 DEF RunTask, CloseChannel
<1>7. ASSUME NEW e \in End, ErrorStep(e)
      PROVE  ReplyInv'
  BY <1>7, ErrorStepPlaces
<1>8. ASSUME NEW m \in Message, Send(m)
      PROVE  ReplyInv'
  BY <1>2, <1>8 DEF Send
<1>9. ASSUME NEW r \in Request, InsertPending(r) \/ SendRequest(r) \/ WaitEnds(r) \/ ErasePending(r)
      PROVE  ReplyInv'
  <2>1. UNCHANGED <<loop, received, listened, fetched, deleted, replay_messages_>>
    BY <1>9 DEF InsertPending, SendRequest, WaitEnds, ErasePending
  <2>2. \A s \in Request : call'[s] = "done" => call[s] = "done"
    BY <1>1, <1>9 DEF InsertPending, SendRequest, WaitEnds, ErasePending, Goes
  <2>3. QED
    BY <2>1, <2>2, PlacesStay
<1>10. ASSUME NEW r \in Request, GetReplayMessage(r)
       PROVE  ReplyInv'
  BY <1>10, FetchPlaces
<1>11. CASE UNCHANGED vars
  BY <1>2, <1>11 DEF vars
<1>12. QED
  BY <1>3, <1>4, <1>5, <1>6, <1>7, <1>8, <1>9, <1>10, <1>11 DEF Next, CallStep

(* The replies are in their places in every reachable state.               *)
THEOREM ReplyInvariant == Spec => []ReplyInv
<1>1. Init => ReplyInv
  <2> SUFFICES ASSUME Init, NEW r \in Request
               PROVE  Placed(r)
    BY DEF ReplyInv
  <2>1. From[r] \in End
    BY ChannelAssumption
  <2>2. received[From[r]] = <<>> /\ replay_messages_[From[r]] = {} /\ loop[From[r]] = "run"
        /\ listened = {} /\ fetched = {}
    BY <2>1 DEF Init
  <2>3. Range(<<>>) = {}
    BY DEF Range
  <2>4. QED
    BY <2>2, <2>3 DEF Placed, Arrived
<1>2. QED
  BY <1>1, ReplyInvStep, ErrorInvariant, PostedInvariant, ChannelInvariant, PTL DEF Spec

(* A reply that arrived is with the listener, kept, fetched or deleted by  *)
(* an error, in one of these places only, and none is kept for a caller    *)
(* that has gone (ipc_sync_channel_pipe.cpp:18-48, 106-142).               *)
THEOREM ChannelReplyAccounted == Spec => []ReplyAccounted
<1>1. ReplyInv => ReplyAccounted
  BY DEF ReplyInv, Placed, Arrived, ReplyAccounted
<1>2. QED
  BY <1>1, ReplyInvariant, PTL
=============================================================================
