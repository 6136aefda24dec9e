---------------------------- MODULE PartsProofs ----------------------------
(***************************************************************************)
(* The safety of the write-ahead log, of the certificates, of the          *)
(* terminal UI and of the WebSocket frames for any constants.              *)
(*                                                                         *)
(* The log: the number that an open log goes on with is above every number *)
(* of its process whose file holds an entry that it knows of (Fits), so    *)
(* that an append replaces no such entry, and what a capture is about to   *)
(* mark flushed is its own or one that a log did not know of (Owned).  The *)
(* numbers stay below twice the number of the exchanges that were captured *)
(* (Enough), so that there always is a next one.                           *)
(*                                                                         *)
(* The frames: as long as no residue is dropped the stream is parsed up to *)
(* the end of a frame (Aligned).  Up to there the messages are handed on   *)
(* (Exact), and the assembler has the fragments of the one under way or    *)
(* has given it up because it is too long (Gathered).                      *)
(***************************************************************************)
EXTENDS Parts, SequenceTheorems, FiniteSetTheorems, WellFoundedInduction, TLAPS

-----------------------------------------------------------------------------
(* Numbers and sequences.                                                  *)

\* A set of numbers has a least member.
LEMMA LeastNumber ==
    ASSUME NEW A \in SUBSET Nat, A # {}
    PROVE  \E m \in A : \A n \in A : m <= n
<1>1. PICK m \in A : \A n \in A : ~ (<< n, m >> \in OpToRel(<, Nat))
  BY NatLessThanWellFounded, WFMin
<1>2. ASSUME NEW n \in A PROVE m <= n
  <2>1. << n, m >> \notin OpToRel(<, Nat)
    BY <1>1
  <2>2. m \in Nat /\ n \in Nat
    OBVIOUS
  <2>3. << n, m >> \in Nat \X Nat /\ << n, m >>[1] = n /\ << n, m >>[2] = m
    BY <2>2
  <2>4. ~(n < m)
    BY <2>1, <2>3 DEF OpToRel
  <2>5. QED
    BY <2>2, <2>4
<1>3. QED
  BY <1>2

\* A bounded set of numbers has a greatest member.
LEMMA GreatestNumber ==
    ASSUME NEW A \in SUBSET Nat, A # {}, NEW b \in Nat, \A n \in A : n <= b
    PROVE  \E m \in A : \A n \in A : n <= m
<1> DEFINE Bounds == {k \in Nat : \A n \in A : n <= k}
<1>1. PICK m \in Bounds : \A n \in Bounds : m <= n
  BY LeastNumber
<1>2. CASE m \in A
  BY <1>1, <1>2
<1>3. CASE m \notin A
  <2>1. PICK n \in A : TRUE
    OBVIOUS
  <2>2. \A k \in A : k < m
    BY <1>1, <1>3
  <2>3. m - 1 \in Bounds
    BY <1>1, <2>1, <2>2
  <2>4. QED
    BY <1>1, <2>3
<1>4. QED
  BY <1>2, <1>3

(* Functions of the numbers up to n that are defined by a base and a step. *)

Iterated(V, base, n, G) ==
    \E f \in [0 .. n -> V] : f[0] = base /\ \A i \in 1 .. n : f[i] = G[<< f[i - 1], i >>]

\* There is one.
LEMMA IterationExists ==
    ASSUME NEW V, NEW base \in V, NEW n \in Nat, NEW G \in [V \X (1 .. n) -> V]
    PROVE  Iterated(V, base, n, G)
<1> DEFINE Is(f, m) == f[0] = base /\ \A i \in 1 .. m : f[i] = G[<< f[i - 1], i >>]
           Missing == {m \in 0 .. n : ~ \E f \in [0 .. m -> V] : Is(f, m)}
<1> HIDE DEF Is, Missing
<1>1. SUFFICES ASSUME Missing # {} PROVE FALSE
  <2>1. n \in 0 .. n
    OBVIOUS
  <2>2. n \notin Missing
    BY <1>1
  <2>3. QED
    BY <2>1, <2>2 DEF Missing, Is, Iterated
<1>a. Missing \subseteq 0 .. n
  BY DEF Missing
<1>b. Missing \in SUBSET Nat
  BY <1>a
<1>2. PICK m \in Missing : \A k \in Missing : m <= k
  BY <1>1, <1>b, LeastNumber
<1>c. ASSUME NEW f \in [0 .. m -> V], Is(f, m) PROVE FALSE
  BY <1>2, <1>c DEF Missing
<1>3. CASE m = 0
  <2> DEFINE f == [i \in 0 .. 0 |-> base]
  <2>1. f \in [0 .. 0 -> V] /\ Is(f, 0)
    BY DEF Is
  <2>2. QED
    BY <1>c, <1>3, <2>1
<1>4. CASE m # 0
  <2>1. m \in 1 .. n /\ m - 1 \in 0 .. n /\ m - 1 \notin Missing
    BY <1>2, <1>a, <1>4
  <2>2. PICK f \in [0 .. m - 1 -> V] : Is(f, m - 1)
    BY <2>1 DEF Missing
  <2> DEFINE g == [i \in 0 .. m |-> IF i = m THEN G[<< f[m - 1], m >>] ELSE f[i]]
  <2>3. f[m - 1] \in V /\ << f[m - 1], m >> \in V \X (1 .. n)
    BY <2>1, <2>2
  <2>4. g \in [0 .. m -> V]
    BY <2>1, <2>2, <2>3
  <2>5. g[0] = base
    <3>1. f[0] = base /\ 0 \in 0 .. m /\ 0 # m
      BY <2>1, <2>2 DEF Is
    <3>2. QED
      BY <3>1
  <2>6. ASSUME NEW i \in 1 .. m PROVE g[i] = G[<< g[i - 1], i >>]
    <3>1. CASE i = m
      <4>1. m \in 0 .. m /\ m - 1 \in 0 .. m /\ m - 1 # m
        BY <2>1
      <4>2. g[m] = G[<< f[m - 1], m >>] /\ g[m - 1] = f[m - 1]
        BY <4>1
      <4>3. QED
        BY <3>1, <4>2
    <3>2. CASE i # m
      <4>1. i \in 1 .. m - 1 /\ i - 1 \in 0 .. m - 1 /\ i - 1 # m /\ i \in 0 .. m /\ i - 1 \in 0 .. m
        BY <2>1, <3>2
      <4>2. g[i] = f[i] /\ g[i - 1] = f[i - 1]
        BY <3>2, <4>1
      <4>3. f[i] = G[<< f[i - 1], i >>]
        BY <2>2, <4>1 DEF Is
      <4>4. QED
        BY <4>2, <4>3
    <3>3. QED
      BY <3>1, <3>2
  <2>7. Is(g, m)
    BY <2>5, <2>6 DEF Is
  <2>8. QED
    BY <1>c, <2>4, <2>7
<1>5. QED
  BY <1>3, <1>4

\* There is no other.
LEMMA SameIteration ==
    ASSUME NEW n \in Nat, NEW f, NEW g, f[0] = g[0],
           \A i \in 1 .. n : f[i - 1] = g[i - 1] => f[i] = g[i]
    PROVE  \A i \in 0 .. n : f[i] = g[i]
<1> DEFINE Bad == {i \in 0 .. n : f[i] # g[i]}
<1>1. ASSUME Bad # {} PROVE FALSE
  <2>1. Bad \in SUBSET Nat
    OBVIOUS
  <2>2. PICK m \in Bad : \A k \in Bad : m <= k
    <3> HIDE DEF Bad
    <3> QED
      BY <1>1, <2>1, LeastNumber
  <2>3. m \in 1 .. n /\ m - 1 \in 0 .. n /\ m - 1 \notin Bad
    BY <2>2
  <2>4. QED
    BY <2>2, <2>3
<1>2. QED
  BY <1>1

-----------------------------------------------------------------------------
(* Running sums.                                                           *)

Numbers(n, t) == n \in Nat /\ \A i \in 1 .. n : t[i] \in Nat

SumOf(n, t, h) == h = [i \in 0 .. n |-> IF i = 0 THEN 0 ELSE h[i - 1] + t[i]]

Running(n, t, h) ==
    /\ h \in [0 .. n -> Nat]
    /\ h[0] = 0
    /\ \A i \in 1 .. n : h[i] = h[i - 1] + t[i]

\* SameIteration, with its hypothesis in one.
SameSteps(n, f, g) ==
    n \in Nat /\ f[0] = g[0] /\ \A i \in 1 .. n : f[i - 1] = g[i - 1] => f[i] = g[i]

Same(n, f, g) == \A i \in 0 .. n : f[i] = g[i]

LEMMA SameFrom == \A n, f, g : SameSteps(n, f, g) => Same(n, f, g)
<1>1. SUFFICES ASSUME NEW n, NEW f, NEW g, SameSteps(n, f, g)
               PROVE  Same(n, f, g)
  OBVIOUS
<1>2. n \in Nat /\ f[0] = g[0] /\ \A i \in 1 .. n : f[i - 1] = g[i - 1] => f[i] = g[i]
  BY <1>1 DEF SameSteps
<1>3. \A i \in 0 .. n : f[i] = g[i]
  BY <1>2, SameIteration
<1>4. QED
  BY <1>3 DEF Same

\* There is one, of numbers.
LEMMA RunningSum ==
    ASSUME NEW n, NEW t, Numbers(n, t)
    PROVE  \E h \in [0 .. n -> Nat] : SumOf(n, t, h)
<1> USE DEF Numbers
<1> DEFINE G == [q \in Nat \X (1 .. n) |-> q[1] + t[q[2]]]
<1>1. G \in [Nat \X (1 .. n) -> Nat]
  OBVIOUS
<1>2. PICK f \in [0 .. n -> Nat] : f[0] = 0 /\ \A i \in 1 .. n : f[i] = G[<< f[i - 1], i >>]
  <2> HIDE DEF G
  <2>1. Iterated(Nat, 0, n, G)
    BY <1>1, IterationExists
  <2>2. QED
    BY <2>1 DEF Iterated
<1>3. ASSUME NEW i \in 1 .. n PROVE f[i] = f[i - 1] + t[i]
  <2>1. i - 1 \in 0 .. n
    OBVIOUS
  <2>2. f[i - 1] \in Nat
    <3> HIDE DEF G
    <3> QED
      BY <2>1
  <2>3. << f[i - 1], i >> \in Nat \X (1 .. n)
    BY <2>2
  <2>4. QED
    BY <1>2, <2>3
<1>4. f = [i \in 0 .. n |-> IF i = 0 THEN 0 ELSE f[i - 1] + t[i]]
  BY <1>2, <1>3
<1>5. QED
  BY <1>2, <1>4 DEF SumOf

\* What is one, is of numbers and goes up.
LEMMA RunningSumFacts ==
    \A n, t, h : Numbers(n, t) /\ SumOf(n, t, h) => Running(n, t, h)
<1>1. SUFFICES ASSUME NEW n, NEW t, NEW h, Numbers(n, t), SumOf(n, t, h)
               PROVE  Running(n, t, h)
  OBVIOUS
<1>2. PICK f \in [0 .. n -> Nat] : SumOf(n, t, f)
  BY <1>1, RunningSum
<1>3. f[0] = 0 /\ \A i \in 1 .. n : f[i] = f[i - 1] + t[i]
  BY <1>1, <1>2 DEF SumOf, Numbers
<1>4. h[0] = 0 /\ \A i \in 1 .. n : h[i] = h[i - 1] + t[i]
  BY <1>1 DEF SumOf, Numbers
<1>5. \A i \in 0 .. n : f[i] = h[i]
  <2>1. SameSteps(n, f, h)
    BY <1>1, <1>3, <1>4 DEF SameSteps, Numbers
  <2>2. Same(n, f, h)
    BY <2>1, SameFrom
  <2>3. QED
    BY <2>2 DEF Same
<1>6. h = [i \in 0 .. n |-> h[i]]
  BY <1>1, Zenon DEF SumOf
<1>7. h \in [0 .. n -> Nat]
  BY <1>2, <1>5, <1>6
<1>8. QED
  BY <1>4, <1>7 DEF Running

\* A running sum never goes down.
LEMMA SumGrows ==
    ASSUME NEW n \in Nat, NEW h \in [0 .. n -> Nat], \A i \in 1 .. n : h[i - 1] <= h[i],
           NEW k \in 0 .. n, NEW l \in k .. n
    PROVE  h[k] <= h[l]
<1> DEFINE Bad == {i \in k .. n : ~(h[k] <= h[i])}
<1>1. ASSUME Bad # {} PROVE FALSE
  <2>1. Bad \in SUBSET Nat
    OBVIOUS
  <2>2. PICK m \in Bad : \A i \in Bad : m <= i
    <3> HIDE DEF Bad
    <3> QED
      BY <1>1, <2>1, LeastNumber
  <2>3. m # k /\ m \in 1 .. n /\ m - 1 \in k .. n /\ m - 1 \notin Bad
    BY <2>2
  <2>4. h[k] <= h[m - 1] /\ h[m - 1] <= h[m] /\ h[m] \in Nat /\ h[m - 1] \in Nat /\ h[k] \in Nat
    BY <2>3
  <2>5. QED
    BY <2>2, <2>4
<1>2. QED
  BY <1>1

-----------------------------------------------------------------------------
(* Sequences.                                                              *)

\* A sequence without the element at position k.
Cut(s, k) == SubSeq(s, 1, k - 1) \o SubSeq(s, k + 1, Len(s))

LEMMA CutFacts ==
    ASSUME NEW V, NEW s \in Seq(V), NEW k \in 1 .. Len(s)
    PROVE  /\ Cut(s, k) \in Seq(V) /\ Len(Cut(s, k)) = Len(s) - 1
           /\ \A j \in 1 .. Len(s) - 1 : Cut(s, k)[j] = IF j < k THEN s[j] ELSE s[j + 1]
<1> DEFINE x == SubSeq(s, 1, k - 1)
           y == SubSeq(s, k + 1, Len(s))
           r == Cut(s, k)
<1>1. Len(s) \in Nat /\ k \in Nat /\ k >= 1 /\ k <= Len(s)
  OBVIOUS
<1>2. \A i \in 1 .. Len(s) : s[i] \in V
  OBVIOUS
<1>3. x \in Seq(V) /\ Len(x) = k - 1 /\ \A i \in 1 .. k - 1 : x[i] = s[i]
  BY <1>1, <1>2, SubSeqProperties
<1>4. y \in Seq(V) /\ Len(y) = Len(s) - k /\ \A i \in 1 .. Len(s) - k : y[i] = s[k + i]
  BY <1>1, <1>2, SubSeqProperties
<1>5. r = x \o y
  BY DEF Cut
<1> HIDE DEF x, y, r
<1>6. x \in Seq(V) /\ y \in Seq(V)
  BY <1>3, <1>4
<1>7. /\ r \in Seq(V) /\ Len(r) = Len(x) + Len(y)
      /\ \A i \in 1 .. Len(x) + Len(y) : r[i] = IF i <= Len(x) THEN x[i] ELSE y[i - Len(x)]
  BY <1>5, <1>6, ConcatProperties
<1>8. Len(x) = k - 1 /\ Len(y) = Len(s) - k /\ Len(r) = Len(s) - 1
  BY <1>1, <1>3, <1>4, <1>7
<1>9. ASSUME NEW j \in 1 .. Len(s) - 1 PROVE r[j] = IF j < k THEN s[j] ELSE s[j + 1]
  <2>1. r[j] = IF j <= k - 1 THEN x[j] ELSE y[j - (k - 1)]
    BY <1>1, <1>7, <1>8
  <2>2. CASE j < k
    BY <1>1, <1>3, <2>1, <2>2
  <2>3. CASE ~(j < k)
    <3>1. j - (k - 1) \in 1 .. Len(s) - k /\ k + (j - (k - 1)) = j + 1
      BY <1>1, <2>3
    <3>2. y[j - (k - 1)] = s[j + 1]
      BY <1>4, <3>1
    <3>3. QED
      BY <1>1, <2>1, <2>3, <3>2
  <2>4. QED
    BY <2>2, <2>3
<1>10. QED
  BY <1>7, <1>8, <1>9 DEF r

-----------------------------------------------------------------------------
(* The write-ahead log.                                                    *)

\* Appends the capture of a connection still has to make.
Pending(c) == IF doing[c] = "request" THEN 2 ELSE IF doing[c] = "response" THEN 1 ELSE 0

WalTypes ==
    /\ pid \in Pid
    /\ wal \in [W!Name -> W!Entry \cup {None}]
    /\ flushed \in [W!Name -> W!Entry \cup {None}]
    /\ open \subseteq Conn
    /\ next_seq \in [Conn -> Nat]
    /\ work \in [Conn -> Exchange \cup {None}]
    /\ doing \in [Conn -> W!Step]
    /\ mine \in [Conn -> [W!Body -> W!Name \cup {None}]]
    /\ started \subseteq Exchange
    /\ acked \subseteq W!Entry
    /\ written \subseteq Exchange
    /\ exposed \subseteq W!Entry

\* An entry of which the logs of its process know.
Safe(e) == e # None /\ e \notin exposed

\* A file that holds such an entry is flushed or not.
Apart == \A n \in W!Name : Safe(flushed[n]) => wal[n] = None

Enough == \A n \in W!InUse : n[1] <= 2 * Cardinality(started)

Fits(c) ==
    c \in open =>
        /\ next_seq[c] >= 1
        /\ next_seq[c] + Pending(c) <= 1 + 2 * Cardinality(started)
        /\ \A n \in W!Name :
            n[2] = pid /\ (Safe(wal[n]) \/ Safe(flushed[n])) => n[1] < next_seq[c]

\* What is still to be marked is the capture's own, or another log of the
\* process took the name, or has marked it.
Own(c, b) ==
    mine[c][b] # None =>
        /\ mine[c][b][1] < next_seq[c]
        /\ Safe(wal[mine[c][b]]) => wal[mine[c][b]] = << work[c], b >>

Owned(c) ==
    /\ c \notin open => doing[c] = "idle" /\ \A b \in W!Body : mine[c][b] = None
    /\ doing[c] # "idle" => work[c] \in started
    /\ doing[c] = "mark" => work[c] \in written
    /\ \A b \in W!Body : Own(c, b)

WalInv ==
    /\ WalTypes /\ Apart /\ Enough
    /\ \A c \in Conn : Fits(c) /\ Owned(c)
    /\ NothingBuried /\ EntriesSurvive

USE WalAssumption

\* Cardinality is the same in Wal.
LEMMA SameCardinality == \A A : W!Cardinality(A) = Cardinality(A)
BY DEF W!Cardinality, Cardinality

\* The number of captured exchanges.
LEMMA StartedCount ==
    ASSUME WalTypes
    PROVE  /\ IsFiniteSet(started)
           /\ Cardinality(started) \in Nat /\ Cardinality(Exchange) \in Nat
           /\ Cardinality(started) <= Cardinality(Exchange)
           /\ \A x \in Exchange \ started :
                Cardinality(started \cup {x}) = Cardinality(started) + 1
BY FS_CardinalityType, FS_Subset, FS_AddElement DEF WalTypes

\* The scan of the directory finds a number above all that it sees.
LEMMA NextSeqFits ==
    ASSUME WalTypes, Enough, NEW found \in SUBSET W!InUse
    PROVE  /\ W!NextSeq(found) \in Nat
           /\ 1 <= W!NextSeq(found) /\ W!NextSeq(found) <= 1 + 2 * Cardinality(started)
           /\ \A n \in found : n[1] < W!NextSeq(found)
<1> DEFINE N == 2 * Cardinality(started)
           SeqsFound == {n[1] : n \in found}
<1>1. N \in Nat
  BY StartedCount
<1>2. \A n \in found : n[1] \in Nat /\ n[1] <= N
  BY DEF Enough, W!InUse, W!Name, W!Seq
<1>3. {0} \cup SeqsFound \in SUBSET Nat /\ \A k \in {0} \cup SeqsFound : k <= N
  BY <1>1, <1>2
<1>4. \E m \in {0} \cup SeqsFound : \A k \in {0} \cup SeqsFound : k <= m
  BY <1>1, <1>3, GreatestNumber
<1>5. \E m \in {0} \cup SeqsFound : \A k \in SeqsFound : k <= m
  BY <1>4
<1> DEFINE top == CHOOSE m \in {0} \cup SeqsFound : \A k \in SeqsFound : k <= m
<1>6. top \in {0} \cup SeqsFound /\ \A k \in SeqsFound : k <= top
  BY <1>5
<1>7. W!NextSeq(found) = 1 + top
  BY DEF W!NextSeq, W!Above
<1> HIDE DEF top
<1>8. top \in Nat /\ top <= N
  BY <1>3, <1>6
<1>9. \A n \in found : n[1] <= top /\ n[1] \in Nat
  BY <1>2, <1>6
<1>10. QED
  BY <1>1, <1>7, <1>8, <1>9

\* The initial states satisfy the invariant.
LEMMA WalInit == W!Init => WalInv
<1> SUFFICES ASSUME W!Init PROVE WalInv
  OBVIOUS
<1>1. WalTypes
  BY DEF W!Init, WalTypes, W!Step
<1>2. W!InUse = {} /\ \A n \in W!Name : ~Safe(wal[n]) /\ ~Safe(flushed[n])
  BY DEF W!Init, W!InUse, Safe
<1>3. QED
  BY <1>1, <1>2 DEF W!Init, WalInv, Apart, Enough, Fits, Owned, Own, NothingBuried,
       W!NothingBuried, EntriesSurvive, W!EntriesSurvive

\* A step that leaves the files alone keeps what is said of them.
LEMMA FilesKept ==
    ASSUME WalInv, WalTypes', UNCHANGED << wal, flushed, acked >>, exposed \subseteq exposed',
           started \subseteq started', written \subseteq written'
    PROVE  /\ \A e : Safe(e)' => Safe(e)
           /\ Cardinality(started) <= Cardinality(started')
           /\ Cardinality(started) \in Nat /\ Cardinality(started') \in Nat
           /\ Apart' /\ Enough' /\ NothingBuried' /\ EntriesSurvive'
<1> USE DEF WalInv
<1>1. W!InUse' = W!InUse
  BY DEF W!InUse
<1>2. IsFiniteSet(started') /\ Cardinality(started') \in Nat
  BY FS_CardinalityType, FS_Subset DEF WalTypes
<1>3. Cardinality(started) <= Cardinality(started') /\ Cardinality(started) \in Nat
  BY <1>2, FS_CardinalityType, FS_Subset
<1>4. \A n \in W!InUse : n[1] \in Nat
  BY DEF W!InUse, W!Name, W!Seq
<1>5. Enough'
  BY <1>1, <1>2, <1>3, <1>4 DEF Enough
<1>6. \A e : Safe(e)' => Safe(e)
  BY DEF Safe
<1>7. Apart'
  BY <1>6 DEF Apart, Safe
<1>8. NothingBuried' /\ EntriesSurvive'
  BY DEF NothingBuried, W!NothingBuried, EntriesSurvive, W!EntriesSurvive
<1>9. QED
  BY <1>2, <1>3, <1>5, <1>6, <1>7, <1>8

\* A connection is not disturbed by a step of another one that leaves the
\* files alone.
LEMMA OtherConnection ==
    ASSUME WalInv, WalTypes', UNCHANGED << pid, wal, flushed, acked >>,
           exposed \subseteq exposed',
           started \subseteq started', written \subseteq written', NEW c \in Conn,
           c \in open' => c \in open, c \notin open => c \notin open',
           c \in open \ open' => doing[c] = "idle" /\ \A b \in W!Body : mine[c][b] = None,
           next_seq'[c] = next_seq[c], doing'[c] = doing[c], work'[c] = work[c],
           mine'[c] = mine[c]
    PROVE  Fits(c)' /\ Owned(c)'
<1> USE DEF WalInv
<1>1. /\ Cardinality(started) <= Cardinality(started')
      /\ Cardinality(started) \in Nat /\ Cardinality(started') \in Nat
  BY FilesKept
<1>2. next_seq[c] \in Nat /\ Pending(c)' = Pending(c) /\ Pending(c) \in Nat
  BY DEF WalTypes, Pending
<1>3. Fits(c)'
  BY <1>1, <1>2 DEF Fits, Safe
<1>4. \A b \in W!Body : Own(c, b)'
  BY DEF Owned, Own, Safe
<1>5. Owned(c)'
  BY <1>4 DEF Owned
<1>6. QED
  BY <1>3, <1>5

\* Opening and closing a log.
LEMMA OpenCloseInv ==
    ASSUME WalInv, NEW c \in Conn, W!OpenWal(c) \/ W!CloseWal(c)
    PROVE  WalInv'
<1> USE DEF WalInv
<1>1. CASE W!OpenWal(c)
  <2>1. PICK found \in W!Seen :
            /\ next_seq' = [next_seq EXCEPT ![c] = W!NextSeq(found)]
            /\ exposed' = exposed \cup W!Overlooked(found)
    BY <1>1 DEF W!OpenWal
  <2>2. /\ c \notin open /\ open' = open \cup {c}
        /\ UNCHANGED << pid, wal, flushed, work, doing, mine, started, acked, written >>
    BY <1>1 DEF W!OpenWal, W!files
  <2>3. found \in SUBSET W!InUse
    BY <2>1 DEF W!Seen
  <2>4. /\ W!NextSeq(found) \in Nat
        /\ 1 <= W!NextSeq(found) /\ W!NextSeq(found) <= 1 + 2 * Cardinality(started)
        /\ \A n \in found : n[1] < W!NextSeq(found)
    BY <2>3, NextSeqFits
  <2>5. WalTypes'
    <3>1. W!Overlooked(found) \subseteq W!Entry
      BY DEF W!Overlooked
    <3>2. QED
      BY <2>1, <2>2, <2>4, <3>1 DEF WalTypes
  <2>6. Apart' /\ Enough' /\ NothingBuried' /\ EntriesSurvive'
    BY <2>1, <2>2, <2>5, FilesKept
  <2>7. \A k \in Conn \ {c} : Fits(k)' /\ Owned(k)'
    <3> SUFFICES ASSUME NEW k \in Conn \ {c} PROVE Fits(k)' /\ Owned(k)'
      OBVIOUS
    <3>1. next_seq'[k] = next_seq[k]
      BY <2>1 DEF WalTypes
    <3>2. QED
      BY <2>1, <2>2, <2>5, <3>1, OtherConnection
  <2>8. Fits(c)'
    <3>1. doing[c] = "idle" /\ next_seq'[c] = W!NextSeq(found)
      BY <2>1, <2>2 DEF Owned, WalTypes
    <3>2. Pending(c)' = 0
      BY <2>2, <3>1 DEF Pending
    <3>3. ASSUME NEW n \in W!Name, n[2] = pid, Safe(wal[n])' \/ Safe(flushed[n])'
          PROVE  n \in found
      <4>1. PICK e \in {wal[n], flushed[n]} : e # None /\ e \notin exposed'
        BY <2>2, <3>3 DEF Safe
      <4>2. n \in W!InUse /\ e \in W!Entry
        BY <4>1 DEF W!InUse, WalTypes
      <4>3. e \notin W!Overlooked(found)
        BY <2>1, <4>1
      <4>4. QED
        BY <3>3, <4>1, <4>2, <4>3 DEF W!Overlooked
    <3>4. QED
      BY <2>2, <2>4, <3>1, <3>2, <3>3, StartedCount DEF Fits
  <2>9. Owned(c)'
    BY <2>2 DEF Owned, Own
  <2>10. QED
    BY <2>5, <2>6, <2>7, <2>8, <2>9
<1>2. CASE W!CloseWal(c)
  <2>1. /\ open' = open \ {c} /\ doing[c] = "idle"
        /\ next_seq' = [next_seq EXCEPT ![c] = 1]
        /\ mine' = [mine EXCEPT ![c] = [b \in W!Body |-> None]]
        /\ work' = [work EXCEPT ![c] = None]
        /\ UNCHANGED << pid, wal, flushed, doing, started, acked, written, exposed >>
    BY <1>2 DEF W!CloseWal, W!files, W!past
  <2>2. WalTypes'
    BY <2>1 DEF WalTypes
  <2>3. Apart' /\ Enough' /\ NothingBuried' /\ EntriesSurvive'
    BY <2>1, <2>2, FilesKept
  <2>5. \A k \in Conn \ {c} : Fits(k)' /\ Owned(k)'
    <3> SUFFICES ASSUME NEW k \in Conn \ {c} PROVE Fits(k)' /\ Owned(k)'
      OBVIOUS
    <3>1. next_seq'[k] = next_seq[k] /\ mine'[k] = mine[k] /\ work'[k] = work[k]
      BY <2>1 DEF WalTypes
    <3>2. QED
      BY <2>1, <2>2, <3>1, OtherConnection
  <2>6. Fits(c)'
    BY <2>1 DEF Fits
  <2>7. Owned(c)'
    <3>1. mine'[c] = [b \in W!Body |-> None]
      BY <2>1 DEF WalTypes
    <3>2. QED
      BY <2>1, <3>1 DEF Owned, Own
  <2>8. QED
    BY <2>2, <2>3, <2>5, <2>6, <2>7
<1>3. QED
  BY <1>1, <1>2

\* A step of the capture of c that leaves the files alone.
LEMMA CaptureKept ==
    ASSUME WalInv, NEW c \in open, WalTypes',
           UNCHANGED << pid, wal, flushed, acked, open, exposed >>,
           started \subseteq started', written \subseteq written',
           \A k \in Conn \ {c} : /\ next_seq'[k] = next_seq[k] /\ doing'[k] = doing[k]
                                 /\ work'[k] = work[k] /\ mine'[k] = mine[k],
           Fits(c)', Owned(c)'
    PROVE  WalInv'
<1> USE DEF WalInv
<1>1. \A k \in Conn \ {c} : Fits(k)' /\ Owned(k)'
  BY OtherConnection
<1>2. QED
  BY <1>1, FilesKept

\* The beginning of a capture makes room for two numbers.
LEMMA StartInv ==
    ASSUME WalInv, NEW c \in Conn, NEW x \in Exchange, W!StartCapture(c, x)
    PROVE  WalInv'
<1> USE DEF WalInv
<1>1. /\ c \in open /\ doing[c] = "idle" /\ x \in Exchange \ started
      /\ started' = started \cup {x}
      /\ work' = [work EXCEPT ![c] = x]
      /\ mine' = [mine EXCEPT ![c] = [b \in W!Body |-> None]]
      /\ doing' = [doing EXCEPT ![c] = "request"]
      /\ UNCHANGED << pid, wal, flushed, open, next_seq, acked, written, exposed >>
  BY DEF W!StartCapture, W!files, W!Goto
<1>2. WalTypes'
  BY <1>1 DEF WalTypes, W!Step
<1>3. doing'[c] = "request" /\ work'[c] = x /\ mine'[c] = [b \in W!Body |-> None]
  BY <1>1 DEF WalTypes
<1>4. Fits(c)'
  <2>1. Pending(c) = 0 /\ Pending(c)' = 2
    BY <1>1, <1>3 DEF Pending
  <2>2. Cardinality(started') = Cardinality(started) + 1 /\ Cardinality(started) \in Nat
    BY <1>1, StartedCount
  <2>3. next_seq[c] \in Nat
    BY DEF WalTypes
  <2>4. QED
    BY <1>1, <2>1, <2>2, <2>3 DEF Fits, Safe
<1>5. Owned(c)'
  BY <1>1, <1>3 DEF Owned, Own
<1>6. \A k \in Conn \ {c} : /\ next_seq'[k] = next_seq[k] /\ doing'[k] = doing[k]
                            /\ work'[k] = work[k] /\ mine'[k] = mine[k]
  BY <1>1 DEF WalTypes
<1>7. QED
  BY <1>1, <1>2, <1>4, <1>5, <1>6, CaptureKept

\* The steps of a capture between and after its appends, and a failed append.
LEMMA CaptureInv ==
    ASSUME WalInv, NEW c \in Conn,
           \/ \E b \in W!Body : W!AppendFails(c, b)
           \/ W!GraphWrites(c) \/ W!GraphFails(c) \/ W!MarkFails(c) \/ W!EndCapture(c)
    PROVE  WalInv'
<1> USE DEF WalInv
<1>1. /\ doing[c] \in {"request", "response", "graph", "mark"} /\ c \in open
      /\ next_seq[c] \in Nat
  BY DEF W!AppendFails, W!GraphWrites, W!GraphFails, W!MarkFails, W!EndCapture, W!Body, Owned,
         WalTypes
<1>2. UNCHANGED << pid, wal, flushed, open, work, started, acked, exposed >>
  BY DEF W!AppendFails, W!GraphWrites, W!GraphFails, W!MarkFails, W!EndCapture, W!files,
         W!past
<1>3. \A k \in Conn \ {c} : /\ next_seq'[k] = next_seq[k] /\ doing'[k] = doing[k]
                            /\ work'[k] = work[k] /\ mine'[k] = mine[k]
  BY <1>2 DEF W!AppendFails, W!GraphWrites, W!GraphFails, W!MarkFails, W!EndCapture, W!Goto,
         W!AfterAppend, WalTypes
<1>4. ASSUME NEW b \in W!Body, W!AppendFails(c, b) PROVE WalInv'
  <2>1. doing[c] = b /\ UNCHANGED << mine, written >>
        /\ next_seq' = [next_seq EXCEPT ![c] = @ + 1]
    BY <1>4 DEF W!AppendFails, W!past
  <2>2. \/ doing' = [doing EXCEPT ![c] = IF b = "request" THEN "response" ELSE "graph"]
        \/ doing' = [doing EXCEPT ![c] = "idle"]
    BY <1>4 DEF W!AppendFails, W!AfterAppend, W!Goto
  <2>3. WalTypes'
    BY <1>2, <2>1, <2>2 DEF WalTypes, W!Step
  <2>4. next_seq'[c] = next_seq[c] + 1 /\ doing'[c] \in {"response", "graph", "idle"}
        /\ (doing'[c] = "response" => b = "request")
    BY <2>1, <2>2 DEF WalTypes
  <2>5. Fits(c)'
    <3>1. Pending(c)' <= Pending(c) - 1 /\ Pending(c) \in Nat /\ Pending(c)' \in Nat
      BY <2>1, <2>4 DEF Pending, W!Body
    <3>2. Cardinality(started) \in Nat
      BY StartedCount
    <3>3. \A n \in W!Name : n[1] \in Nat
      BY DEF W!Name, W!Seq
    <3>4. QED
      BY <1>1, <1>2, <2>4, <3>1, <3>2, <3>3 DEF Fits, Safe
  <2>6. Owned(c)'
    <3>1. \A d \in W!Body : mine[c][d] # None => mine[c][d][1] \in Nat
      BY DEF WalTypes, W!Name, W!Seq
    <3>2. ASSUME NEW d \in W!Body PROVE Own(c, d)'
      <4>1. CASE mine[c][d] = None
        BY <2>1, <4>1 DEF Own
      <4>2. CASE mine[c][d] # None
        <5>1. mine[c][d][1] < next_seq'[c]
          <6>1. mine[c][d][1] < next_seq[c]
            BY <4>2 DEF Owned, Own
          <6>2. QED
            BY <1>1, <2>4, <3>1, <4>2, <6>1
        <5>2. Safe(wal[mine[c][d]]) => wal[mine[c][d]] = << work[c], d >>
          BY <4>2 DEF Owned, Own
        <5>3. QED
          BY <1>2, <2>1, <5>1, <5>2 DEF Own, Safe
      <4>3. QED
        BY <4>1, <4>2
    <3>3. QED
      BY <1>1, <1>2, <2>1, <2>4, <3>2 DEF Owned
  <2>7. QED
    BY <1>1, <1>2, <1>3, <2>1, <2>3, <2>5, <2>6, CaptureKept
<1>5. CASE \/ W!GraphWrites(c) \/ W!GraphFails(c) \/ W!MarkFails(c) \/ W!EndCapture(c)
  <2>1. UNCHANGED next_seq /\ doing[c] \in {"graph", "mark"} /\ written \subseteq written'
    BY <1>5 DEF W!GraphWrites, W!GraphFails, W!MarkFails, W!EndCapture, W!past
  <2>2. /\ UNCHANGED doing \/ doing' = [doing EXCEPT ![c] = "idle"]
           \/ doing' = [doing EXCEPT ![c] = "mark"]
        /\ doing'[c] = "mark" => work[c] \in written'
    BY <1>5 DEF W!GraphWrites, W!GraphFails, W!MarkFails, W!EndCapture, W!Goto,
         W!past, Owned, WalTypes
  <2>3. written' \subseteq Exchange
    BY <1>1, <1>5 DEF W!GraphWrites, W!GraphFails, W!MarkFails, W!EndCapture, W!past,
         Owned, WalTypes
  <2>4. mine' = mine \/ \E b \in W!Body : mine' = [mine EXCEPT ![c][b] = None]
    BY <1>5 DEF W!GraphWrites, W!GraphFails, W!MarkFails, W!EndCapture, W!NextMark
  <2>5. mine' \in [Conn -> [W!Body -> W!Name \cup {None}]]
        /\ \A b \in W!Body : mine'[c][b] \in {mine[c][b], None}
    <3>1. mine \in [Conn -> [W!Body -> W!Name \cup {None}]]
      BY DEF WalTypes
    <3>2. CASE mine' = mine
      BY <3>1, <3>2
    <3>3. ASSUME NEW b \in W!Body, mine' = [mine EXCEPT ![c][b] = None]
          PROVE  /\ mine' \in [Conn -> [W!Body -> W!Name \cup {None}]]
                 /\ \A k \in W!Body : mine'[c][k] \in {mine[c][k], None}
      <4>1. [mine[c] EXCEPT ![b] = None] \in [W!Body -> W!Name \cup {None}]
        BY <3>1
      <4>2. mine'[c] = [mine[c] EXCEPT ![b] = None]
        BY <3>1, <3>3
      <4>3. QED
        BY <3>1, <3>3, <4>1, <4>2
    <3>4. QED
      BY <2>4, <3>2, <3>3
  <2>6. WalTypes'
    BY <1>2, <2>1, <2>2, <2>3, <2>5 DEF WalTypes, W!Step
  <2>7. doing'[c] \in {"graph", "mark", "idle"}
    BY <2>1, <2>2 DEF WalTypes
  <2>8. Fits(c)'
    <3>1. Pending(c)' = 0 /\ Pending(c) = 0
      BY <2>1, <2>7 DEF Pending
    <3>2. QED
      BY <1>1, <1>2, <2>1, <3>1 DEF Fits, Safe
  <2>9. Owned(c)'
    <3>1. ASSUME NEW d \in W!Body PROVE Own(c, d)'
      <4>1. CASE mine'[c][d] = None
        BY <4>1 DEF Own
      <4>2. CASE mine'[c][d] # None
        <5>1. mine'[c][d] = mine[c][d]
          BY <2>5, <4>2
        <5>2. Own(c, d)
          BY DEF Owned
        <5>3. QED
          BY <1>2, <2>1, <5>1, <5>2 DEF Own, Safe
      <4>3. QED
        BY <4>1, <4>2
    <3>2. QED
      BY <1>1, <1>2, <2>1, <2>2, <3>1 DEF Owned
  <2>10. QED
    BY <1>1, <1>2, <1>3, <2>1, <2>6, <2>8, <2>9, CaptureKept
<1>6. QED
  BY <1>4, <1>5

\* A restart closes every log and leaves the files.
LEMMA RestartInv ==
    ASSUME WalInv, NEW p \in Pid, W!Restart(p)
    PROVE  WalInv'
<1> USE DEF WalInv
<1>1. /\ pid' = p /\ open' = {} /\ doing' = [c \in Conn |-> "idle"]
      /\ work' = [c \in Conn |-> None]
      /\ mine' = [c \in Conn |-> [b \in W!Body |-> None]]
      /\ next_seq' = [c \in Conn |-> 1]
      /\ UNCHANGED << wal, flushed, started, acked, written, exposed >>
  BY DEF W!Restart, W!files, W!past
<1>2. WalTypes'
  BY <1>1 DEF WalTypes, W!Step
<1>3. \A c \in Conn : Fits(c)' /\ Owned(c)'
  BY <1>1 DEF Fits, Owned, Own
<1>4. QED
  BY <1>1, <1>2, <1>3, FilesKept

\* An append takes a name that no entry has of which the log knows.
LEMMA AppendInv ==
    ASSUME WalInv, NEW c \in Conn, NEW b \in W!Body, W!Append(c, b)
    PROVE  WalInv'
<1> USE DEF WalInv
<1> DEFINE name == << next_seq[c], pid >>
           entry == << work[c], b >>
           N == Cardinality(started)
<1>1. /\ doing[c] = b /\ c \in open /\ work[c] \in started
      /\ wal' = [wal EXCEPT ![name] = entry]
      /\ mine' = [mine EXCEPT ![c][b] = name]
      /\ next_seq' = [next_seq EXCEPT ![c] = @ + 1]
      /\ acked' = acked \cup {entry}
      /\ exposed' = IF open = {c} THEN exposed ELSE exposed \cup {entry}
      /\ doing' = [doing EXCEPT ![c] = IF b = "request" THEN "response" ELSE "graph"]
      /\ UNCHANGED << pid, flushed, open, work, started, written >>
  BY DEF W!Append, W!AfterAppend, W!Goto, W!Body, Owned
<1>2. N \in Nat /\ N <= Cardinality(Exchange) /\ Cardinality(Exchange) \in Nat
  BY StartedCount
<1>3. /\ next_seq[c] \in Nat /\ next_seq[c] >= 1
      /\ next_seq[c] + Pending(c) <= 1 + 2 * N
      /\ Pending(c) = IF b = "request" THEN 2 ELSE 1
  BY <1>1 DEF Fits, Pending, WalTypes, W!Body
<1>4. next_seq[c] <= 2 * N
  BY <1>2, <1>3
<1>5. name \in W!Name
  BY <1>2, <1>3, <1>4, SameCardinality DEF W!Name, W!Seq, WalTypes
<1>6. ~Safe(wal[name]) /\ ~Safe(flushed[name])
  <2>1. name[2] = pid /\ name[1] = next_seq[c]
    OBVIOUS
  <2>2. ~(name[1] < next_seq[c])
    BY <1>3, <2>1
  <2>3. Fits(c)
    OBVIOUS
  <2>4. QED
    BY <1>1, <1>5, <2>1, <2>2, <2>3 DEF Fits
<1>7. entry \in W!Entry /\ entry # None
  BY <1>1 DEF W!Entry, WalTypes
<1>8. WalTypes'
  <2>1. wal' \in [W!Name -> W!Entry \cup {None}] /\ acked' \subseteq W!Entry
        /\ exposed' \subseteq W!Entry
    BY <1>1, <1>5, <1>7 DEF WalTypes
  <2>2. mine' \in [Conn -> [W!Body -> W!Name \cup {None}]]
    BY <1>1, <1>5 DEF WalTypes
  <2>3. next_seq' \in [Conn -> Nat] /\ doing' \in [Conn -> W!Step]
    BY <1>1 DEF WalTypes, W!Step
  <2>4. QED
    BY <1>1, <2>1, <2>2, <2>3 DEF WalTypes
<1>9. /\ wal'[name] = entry
      /\ \A n \in W!Name \ {name} : wal'[n] = wal[n]
  BY <1>1, <1>5 DEF WalTypes
<1>10. W!InUse' = W!InUse \cup {name}
  BY <1>1, <1>5, <1>7, <1>9 DEF W!InUse
<1>11. \A n \in W!Name : n[1] \in Nat
  BY DEF W!Name, W!Seq
<1>12. /\ exposed \subseteq exposed'
       /\ \A e : Safe(e)' => Safe(e)
       /\ open # {c} => ~Safe(entry)'
  BY <1>1 DEF Safe
<1>13. Apart'
  BY <1>1, <1>6, <1>9, <1>12 DEF Apart, Safe
<1>14. Enough'
  BY <1>1, <1>4, <1>10 DEF Enough
<1>15. next_seq'[c] = next_seq[c] + 1
       /\ doing'[c] = (IF b = "request" THEN "response" ELSE "graph")
       /\ \A k \in Conn \ {c} : next_seq'[k] = next_seq[k] /\ doing'[k] = doing[k]
  BY <1>1 DEF WalTypes
<1>16. ASSUME NEW k \in Conn \ {c} PROVE Fits(k)'
  <2> SUFFICES ASSUME k \in open PROVE Fits(k)'
    BY <1>1 DEF Fits
  <2>1. Fits(k) /\ next_seq'[k] = next_seq[k] /\ open # {c}
    BY <1>15
  <2>2. Pending(k)' = Pending(k)
    BY <1>15 DEF Pending
  <2>3. ASSUME NEW n \in W!Name, n[2] = pid, Safe(wal[n])' \/ Safe(flushed[n])'
        PROVE  n[1] < next_seq'[k]
    <3>1. Safe(wal[n]) \/ Safe(flushed[n])
      <4>1. CASE n = name
        BY <1>1, <1>9, <1>12, <2>1, <2>3, <4>1
      <4>2. CASE n # name
        BY <1>1, <1>9, <1>12, <2>3, <4>2
      <4>3. QED
        BY <4>1, <4>2
    <3>2. QED
      BY <2>1, <2>3, <3>1 DEF Fits
  <2>4. QED
    BY <1>1, <2>1, <2>2, <2>3 DEF Fits, Safe
<1>17. Fits(c)'
  <2>1. Pending(c)' = Pending(c) - 1
    BY <1>3, <1>15 DEF Pending, W!Body
  <2>2. next_seq'[c] + Pending(c)' <= 1 + 2 * N
    BY <1>2, <1>3, <1>15, <2>1
  <2>3. ASSUME NEW n \in W!Name, n[2] = pid, Safe(wal[n])' \/ Safe(flushed[n])'
        PROVE  n[1] < next_seq'[c]
    <3>1. CASE n = name
      BY <1>3, <1>15, <3>1
    <3>2. CASE n # name
      <4>1. Safe(wal[n]) \/ Safe(flushed[n])
        BY <1>1, <1>9, <1>12, <2>3, <3>2
      <4>2. n[1] < next_seq[c]
        BY <1>1, <2>3, <4>1 DEF Fits
      <4>3. QED
        BY <1>3, <1>11, <1>15, <4>2
    <3>3. QED
      BY <3>1, <3>2
  <2>4. QED
    BY <1>1, <1>3, <1>15, <2>2, <2>3 DEF Fits, Safe
<1>18. \A k \in Conn : Owned(k)'
  <2> SUFFICES ASSUME NEW k \in Conn PROVE Owned(k)'
    OBVIOUS
  <2>1. \A d \in W!Body : mine'[k][d] = IF k = c /\ d = b THEN name ELSE mine[k][d]
    BY <1>1 DEF WalTypes
  <2>2. doing'[k] = IF k = c THEN (IF b = "request" THEN "response" ELSE "graph") ELSE doing[k]
    BY <1>1 DEF WalTypes
  <2>3. ASSUME NEW d \in W!Body PROVE Own(k, d)'
    <3>1. CASE k = c /\ d = b
      <4>1. mine'[k][d] = name /\ wal'[name] = entry
        BY <1>9, <2>1, <3>1
      <4>2. name[1] < next_seq'[k]
        BY <1>3, <1>15, <3>1
      <4>3. QED
        BY <1>1, <3>1, <4>1, <4>2 DEF Own
    <3>2. CASE ~(k = c /\ d = b) /\ mine[k][d] # None
      <4>1. PICK m \in W!Name : mine'[k][d] = m /\ mine[k][d] = m
        BY <2>1, <3>2 DEF WalTypes
      <4>2. /\ m[1] < next_seq[k]
            /\ Safe(wal[m]) => wal[m] = << work[k], d >>
        BY <3>2, <4>1 DEF Owned, Own
      <4>3. m[1] < next_seq'[k]
        BY <1>3, <1>11, <1>15, <4>1, <4>2
      <4>4. Safe(wal[m])' => wal'[m] = << work[k], d >>
        <5>1. CASE m # name
          <6>1. wal'[m] = wal[m]
            BY <1>9, <4>1, <5>1
          <6>2. Safe(wal[m])' => Safe(wal[m])
            BY <1>12, <6>1 DEF Safe
          <6>3. QED
            BY <4>2, <6>1, <6>2
        <5>2. CASE m = name
          <6>1. k # c
            <7>1. ~(next_seq[c] < next_seq[c])
              BY <1>3
            <7>2. QED
              BY <4>2, <5>2, <7>1
          <6>2. open # {c}
            BY <3>2, <6>1 DEF Owned
          <6>3. wal'[m] = entry /\ entry \in exposed'
            BY <1>1, <1>9, <5>2, <6>2
          <6>4. QED
            BY <6>3 DEF Safe
        <5>3. QED
          BY <5>1, <5>2
      <4>5. QED
        BY <1>1, <4>1, <4>3, <4>4 DEF Own, Safe
    <3>3. CASE ~(k = c /\ d = b) /\ mine[k][d] = None
      BY <2>1, <3>3 DEF Own
    <3>4. QED
      BY <3>1, <3>2, <3>3
  <2>4. k \notin open' => doing'[k] = "idle" /\ \A d \in W!Body : mine'[k][d] = None
    BY <1>1, <2>1, <2>2 DEF Owned
  <2>5. doing'[k] # "idle" => work'[k] \in started'
    BY <1>1, <2>2 DEF Owned
  <2>6. doing'[k] = "mark" => work'[k] \in written'
    BY <1>1, <2>2 DEF Owned
  <2>7. QED
    BY <2>3, <2>4, <2>5, <2>6 DEF Owned
<1>19. NothingBuried' /\ EntriesSurvive'
  <2>1. \A e \in acked' : e = entry \/ e \in acked
    BY <1>1
  <2>2. \A k \in W!Name, e \in acked \ exposed' : wal[k] = e => wal'[k] = e
    <3>1. \A e \in acked \ exposed' : Safe(e)
      BY <1>12 DEF WalTypes, Safe
    <3>2. QED
      BY <1>6, <1>9, <3>1
  <2>3. ASSUME NEW e \in acked' \ exposed', e[1] \notin written
        PROVE  \E k \in W!Name : wal'[k] = e
    <3>1. CASE e = entry
      BY <1>5, <1>9, <3>1
    <3>2. CASE e \in acked
      <4>1. PICK k \in W!Name : wal[k] = e
        BY <1>12, <2>3, <3>2 DEF NothingBuried, W!NothingBuried
      <4>2. QED
        BY <2>2, <3>2, <4>1
    <3>3. QED
      BY <2>1, <3>1, <3>2
  <2>4. ASSUME NEW e \in acked' \ exposed' PROVE \E k \in W!Name : e \in {wal'[k], flushed'[k]}
    <3>1. CASE e = entry
      BY <1>5, <1>9, <3>1
    <3>2. CASE e \in acked
      <4>1. PICK k \in W!Name : e \in {wal[k], flushed[k]}
        BY <1>12, <3>2 DEF EntriesSurvive, W!EntriesSurvive
      <4>2. QED
        BY <1>1, <2>2, <3>2, <4>1
    <3>3. QED
      BY <2>1, <3>1, <3>2
  <2>5. NothingBuried'
    BY <1>1, <2>3 DEF NothingBuried, W!NothingBuried
  <2>6. EntriesSurvive'
    BY <2>4 DEF EntriesSurvive, W!EntriesSurvive
  <2>7. QED
    BY <2>5, <2>6
<1>20. QED
  BY <1>8, <1>13, <1>14, <1>16, <1>17, <1>18, <1>19

\* What is marked flushed belongs to an exchange that is stored, or to one
\* that took the name without the log's knowledge.
LEMMA MarkInv ==
    ASSUME WalInv, NEW c \in Conn, W!MarkFlushed(c)
    PROVE  WalInv'
<1> USE DEF WalInv
<1>1. PICK b \in W!Body :
        /\ mine[c][b] # None
        /\ mine' = [mine EXCEPT ![c][b] = None]
        /\ IF wal[mine[c][b]] = None
           THEN UNCHANGED << wal, flushed >>
           ELSE /\ wal' = [wal EXCEPT ![mine[c][b]] = None]
                /\ flushed' = [flushed EXCEPT ![mine[c][b]] = wal[mine[c][b]]]
  BY DEF W!MarkFlushed, W!NextMark, W!files
<1> DEFINE n == mine[c][b]
<1>2. /\ doing[c] = "mark" /\ c \in open /\ work[c] \in started /\ work[c] \in written
      /\ UNCHANGED << pid, open, next_seq, work, doing, started, acked, written, exposed >>
  BY DEF W!MarkFlushed, W!past, Owned
<1>3. n \in W!Name /\ (Safe(wal[n]) => wal[n] = << work[c], b >>)
  BY <1>1 DEF WalTypes, Owned, Own
<1>4. \A k \in Conn, d \in W!Body : mine'[k][d] = IF k = c /\ d = b THEN None ELSE mine[k][d]
  BY <1>1 DEF WalTypes
<1>5. mine' \in [Conn -> [W!Body -> W!Name \cup {None}]]
  BY <1>1 DEF WalTypes
<1>6. \A e : Safe(e)' <=> Safe(e)
  BY <1>2 DEF Safe
<1>7. CASE wal[n] = None
  <2>1. UNCHANGED << wal, flushed >>
    BY <1>1, <1>7
  <2>2. WalTypes'
    BY <1>2, <1>5, <2>1 DEF WalTypes
  <2>3. Apart' /\ Enough' /\ NothingBuried' /\ EntriesSurvive'
    BY <1>2, <2>1, <2>2, FilesKept
  <2>4. \A k \in Conn : Fits(k)'
    BY <1>2, <2>1 DEF Fits, Pending, Safe
  <2>5. ASSUME NEW k \in Conn PROVE Owned(k)'
    <3>1. ASSUME NEW d \in W!Body PROVE Own(k, d)'
      <4>1. CASE k = c /\ d = b
        BY <1>4, <4>1 DEF Own
      <4>2. CASE ~(k = c /\ d = b)
        <5>1. mine'[k][d] = mine[k][d]
          BY <1>4, <4>2
        <5>2. Own(k, d)
          BY DEF Owned
        <5>3. QED
          BY <1>2, <2>1, <5>1, <5>2 DEF Own, Safe
      <4>3. QED
        BY <4>1, <4>2
    <3>2. k \notin open' => doing'[k] = "idle" /\ \A d \in W!Body : mine'[k][d] = None
      BY <1>2, <1>4 DEF Owned
    <3>3. QED
      BY <1>2, <3>1, <3>2 DEF Owned
  <2>6. QED
    BY <2>2, <2>3, <2>4, <2>5
<1>8. CASE wal[n] # None
  <2>1. /\ wal' = [wal EXCEPT ![n] = None]
        /\ flushed' = [flushed EXCEPT ![n] = wal[n]]
    BY <1>1, <1>8
  <2>2. ~Safe(flushed[n])
    BY <1>3, <1>8 DEF Apart
  <2>3. WalTypes'
    BY <1>2, <1>3, <1>5, <2>1 DEF WalTypes
  <2>4. \A k \in W!Name : /\ wal'[k] = IF k = n THEN None ELSE wal[k]
                          /\ flushed'[k] = IF k = n THEN wal[n] ELSE flushed[k]
    BY <2>1 DEF WalTypes
  <2>5. W!InUse' = W!InUse
    BY <1>3, <1>8, <2>4 DEF W!InUse
  <2>6. ~Safe(None)
    BY DEF Safe
  <2>7. Apart'
    BY <1>6, <2>4 DEF Apart, Safe
  <2>8. Enough'
    BY <1>2, <2>5 DEF Enough
  <2>9. ASSUME NEW k \in Conn PROVE Fits(k)'
    <3>1. \A m \in W!Name : Safe(wal[m])' \/ Safe(flushed[m])' => Safe(wal[m]) \/ Safe(flushed[m])
      BY <1>6, <2>4, <2>6
    <3>2. Pending(k)' = Pending(k)
      BY <1>2 DEF Pending
    <3>3. QED
      BY <1>2, <3>1, <3>2 DEF Fits, Safe
  <2>10. ASSUME NEW k \in Conn PROVE Owned(k)'
    <3>1. ASSUME NEW d \in W!Body PROVE Own(k, d)'
      <4>1. CASE k = c /\ d = b
        BY <1>4, <4>1 DEF Own
      <4>2. CASE ~(k = c /\ d = b) /\ mine[k][d] # None
        <5>1. PICK m \in W!Name : mine'[k][d] = m /\ mine[k][d] = m
          BY <1>4, <4>2 DEF WalTypes
        <5>2. /\ m[1] < next_seq[k]
              /\ Safe(wal[m]) => wal[m] = << work[k], d >>
          BY <4>2, <5>1 DEF Owned, Own
        <5>3. Safe(wal[m])' => wal'[m] = << work[k], d >>
          BY <1>6, <2>4, <2>6, <5>1, <5>2
        <5>4. QED
          BY <1>2, <5>1, <5>2, <5>3 DEF Own, Safe
      <4>3. CASE ~(k = c /\ d = b) /\ mine[k][d] = None
        BY <1>4, <4>3 DEF Own
      <4>4. QED
        BY <4>1, <4>2, <4>3
    <3>2. k \notin open' => doing'[k] = "idle" /\ \A d \in W!Body : mine'[k][d] = None
      BY <1>2, <1>4 DEF Owned
    <3>3. QED
      BY <1>2, <3>1, <3>2 DEF Owned
  <2>11. \A e \in acked \ exposed : Safe(e)
    BY DEF WalTypes, Safe
  <2>12. NothingBuried'
    <3> SUFFICES ASSUME NEW e \in acked \ exposed, e[1] \notin written
                 PROVE  \E k \in W!Name : wal'[k] = e
      BY <1>2 DEF NothingBuried, W!NothingBuried
    <3>1. PICK k \in W!Name : wal[k] = e
      BY DEF NothingBuried, W!NothingBuried
    <3>2. k # n
      BY <1>2, <1>3, <2>11, <3>1
    <3>3. QED
      BY <2>4, <3>1, <3>2
  <2>13. EntriesSurvive'
    <3> SUFFICES ASSUME NEW e \in acked \ exposed
                 PROVE  \E k \in W!Name : e \in {wal'[k], flushed'[k]}
      BY <1>2 DEF EntriesSurvive, W!EntriesSurvive
    <3>1. PICK k \in W!Name : e \in {wal[k], flushed[k]}
      BY DEF EntriesSurvive, W!EntriesSurvive
    <3>2. k = n => wal[k] = e
      BY <2>2, <2>11, <3>1
    <3>3. QED
      BY <2>4, <3>1, <3>2
  <2>14. QED
    BY <2>3, <2>7, <2>8, <2>9, <2>10, <2>12, <2>13
<1>9. QED
  BY <1>7, <1>8

\* Every step of the log keeps the invariant, and so does a stutter.
LEMMA WalStep ==
    ASSUME WalInv, W!Next \/ UNCHANGED walVars
    PROVE  WalInv'
<1>1. CASE W!Next
  <2>1. ASSUME NEW c \in Conn, NEW x \in Exchange, W!StartCapture(c, x) PROVE WalInv'
    BY <2>1, StartInv
  <2>2. ASSUME NEW c \in Conn, NEW b \in W!Body, W!Append(c, b) PROVE WalInv'
    BY <2>2, AppendInv
  <2>3. ASSUME NEW p \in Pid, W!Restart(p) PROVE WalInv'
    BY <2>3, RestartInv
  <2>4. QED
    BY <1>1, <2>1, <2>2, <2>3, OpenCloseInv, CaptureInv, MarkInv DEF W!Next
<1>2. CASE UNCHANGED walVars
  <2>1. W!InUse' = W!InUse /\ \A c \in Conn : Pending(c)' = Pending(c)
    BY <1>2 DEF walVars, W!InUse, Pending
  <2>2. WalTypes' /\ Apart' /\ Enough' /\ NothingBuried' /\ EntriesSurvive'
    BY <1>2, <2>1 DEF walVars, WalInv, WalTypes, Apart, Safe, Enough, NothingBuried,
       W!NothingBuried, EntriesSurvive, W!EntriesSurvive
  <2>3. \A c \in Conn : Fits(c)' /\ Owned(c)'
    BY <1>2, <2>1 DEF walVars, WalInv, Fits, Owned, Own, Safe
  <2>4. QED
    BY <2>2, <2>3 DEF WalInv
<1>3. QED
  BY <1>1, <1>2

\* The invariant holds.
LEMMA WalSafe == PartsSpec => []WalInv
<1>1. PartsInit => WalInv
  BY WalInit DEF PartsInit
<1>2. WalInv /\ [PartsNext]_allVars => WalInv'
  BY WalStep DEF PartsNext, allVars, walVars
<1>3. QED
  BY <1>1, <1>2, PTL DEF PartsSpec

\* Whichever connections are open, captures fail, scans of the directory
\* overlook files and processes die, an entry of which the logs of its process
\* know stays unflushed until its exchange is in the graph: mark_flushed gets
\* the files of its own capture, and no other log takes their names
\* (append_entry, mark_flushed).
THEOREM UnflushedUntilStored == PartsSpec => []NothingBuried
<1>1. WalInv => NothingBuried
  BY DEF WalInv
<1>2. QED
  BY <1>1, WalSafe, PTL

\* Such an entry stays on disk for good, flushed or not: the next_seq of every
\* open log is above its number (open_with_mode, append_entry).
THEOREM LogKeepsEntries == PartsSpec => []EntriesSurvive
<1>1. WalInv => EntriesSurvive
  BY DEF WalInv
<1>2. QED
  BY <1>1, WalSafe, PTL

\* The log, its captures and its connections keep their types: in particular
\* only captured exchanges are acknowledged or stored, and no file has a number
\* above twice that of the exchanges begun, so that there always is a next one
\* (Wal::append_entry).
THEOREM LogTyped == PartsSpec => [](WalTypes /\ Enough)
<1>1. WalInv => WalTypes /\ Enough
  BY DEF WalInv
<1>2. QED
  BY <1>1, WalSafe, PTL

-----------------------------------------------------------------------------
(* The certificate authority.  A process that writes the CA holds the lock *)
(* file, so that the files it renames are its own; and while nobody takes  *)
(* the lock after the CA was made (late), key and certificate are of one   *)
(* maker as soon as there is a certificate, and stay as they are.          *)

Making == {"write", "key", "cert"}
Steps == Making \cup {"check", "lock", "wait", "unlock", "give up", "clean", "clean and fail",
                      "load", "load key", "serving", "failed", "crashed"}
Maker == Process \cup {None}

CaTypes ==
    /\ key \in Maker /\ cert \in Maker /\ keyTmp \in Maker /\ certTmp \in Maker
    /\ lock \in Maker
    /\ proc \in [Process -> Steps]
    /\ loaded \in [Process -> [cert : Maker, key : Maker]]
    /\ late \in BOOLEAN

Locked(p) ==
    /\ proc[p] \in Making \cup {"unlock", "give up"} => lock = p
    /\ proc[p] = "key" => keyTmp \in {None, p}
    /\ proc[p] \in {"key", "cert"} => certTmp \in {None, p}
    /\ proc[p] = "cert" => key # None

InTime(p) ==
    /\ proc[p] \in Making => cert = None
    /\ proc[p] = "cert" => key = p
    /\ proc[p] \in {"unlock", "clean", "load", "load key", "serving"} => cert # None
    /\ proc[p] \in {"load key", "serving"} => loaded[p].cert = cert
    /\ proc[p] = "serving" => loaded[p].key = key

OneMaker == (cert # None => key = cert) /\ \A p \in Process : InTime(p)

CaInv ==
    /\ CaTypes
    /\ cert # None => key # None
    /\ \A p \in Process : Locked(p)
    /\ ~late => OneMaker

caVars == << key, cert, keyTmp, certTmp, lock, proc, loaded, late >>

USE CertificatesAssumption

\* The initial states satisfy the invariant.
LEMMA CaInit == S!Init => CaInv
<1> SUFFICES ASSUME S!Init PROVE CaInv
  OBVIOUS
<1>1. /\ key = None /\ cert = None /\ keyTmp = None /\ certTmp = None /\ lock = None
      /\ proc = [p \in Process |-> "check"] /\ late = FALSE
      /\ loaded = [p \in Process |-> [cert |-> None, key |-> None]]
  BY DEF S!Init
<1>2. proc \in [Process -> Steps] /\ loaded \in [Process -> [cert : Maker, key : Maker]]
  BY <1>1 DEF Steps, Maker
<1>3. late \in BOOLEAN
  BY <1>1, Zenon
<1>4. CaTypes
  BY <1>1, <1>2, <1>3 DEF CaTypes, Maker
<1>5. \A p \in Process : Locked(p) /\ InTime(p)
  BY <1>1 DEF Locked, InTime, Making
<1>6. QED
  BY <1>1, <1>4, <1>5 DEF CaInv, OneMaker

\* A step that goes on without the CA's files, and holds no lock.
LEMMA CaElsewhere ==
    ASSUME CaInv, NEW p \in Process, UNCHANGED << key, cert, loaded, late >>,
           lock' = lock \/ (lock' = None /\ proc[p] \in {"unlock", "give up"}),
           keyTmp' \in {keyTmp, None}, certTmp' \in {certTmp, None},
           \E s \in Steps \ (Making \cup {"unlock", "give up", "load key", "serving"}) :
                /\ proc' = [proc EXCEPT ![p] = s]
                /\ s \in {"clean", "load"} =>
                    cert # None \/ proc[p] \in {"unlock", "clean"}
    PROVE  CaInv'
<1> USE DEF CaInv
<1>1. CaTypes'
  <2>1. proc' \in [Process -> Steps]
    BY DEF CaTypes
  <2>2. late' \in BOOLEAN
    BY Zenon DEF CaTypes
  <2>3. None \in Maker
    BY DEF Maker
  <2>4. /\ key \in Maker /\ cert \in Maker /\ keyTmp \in Maker /\ certTmp \in Maker
        /\ lock \in Maker /\ loaded \in [Process -> [cert : Maker, key : Maker]]
    BY Zenon DEF CaTypes
  <2>5. keyTmp' \in Maker /\ certTmp' \in Maker /\ lock' \in Maker
    BY <2>3, <2>4
  <2>6. key' \in Maker /\ cert' \in Maker /\ loaded' \in [Process -> [cert : Maker, key : Maker]]
    BY <2>4, Zenon
  <2>7. QED
    BY <2>1, <2>2, <2>5, <2>6, Zenon DEF CaTypes
<1>2. \A q \in Process \ {p} : proc'[q] = proc[q]
  BY DEF CaTypes
<1>3. proc'[p] \in Steps \ (Making \cup {"unlock", "give up", "load key", "serving"})
      /\ (proc'[p] \in {"clean", "load"} => cert # None \/ proc[p] \in {"unlock", "clean"})
  BY DEF CaTypes
<1>4. ASSUME NEW q \in Process PROVE Locked(q)'
  <2>1. CASE q = p
    BY <1>3, <2>1 DEF Locked, Making
  <2>2. CASE q # p
    BY <1>2, <2>2 DEF Locked, Making
  <2>3. QED
    BY <2>1, <2>2
<1>5. ASSUME ~late PROVE OneMaker'
  <2>1. OneMaker
    BY <1>5, Zenon
  <2>2. ASSUME NEW q \in Process PROVE InTime(q)'
    <3>1. CASE q = p
      BY <1>3, <2>1, <3>1 DEF InTime, OneMaker, Making
    <3>2. CASE q # p
      BY <1>2, <2>1, <3>2 DEF InTime, OneMaker, Making
    <3>3. QED
      BY <3>1, <3>2
  <2>3. QED
    BY <2>1, <2>2 DEF OneMaker
<1>6. ~late' => OneMaker'
  BY <1>5, Zenon
<1>7. QED
  BY <1>1, <1>4, <1>6

\* A process that holds the lock is the only one among those that need it.
LEMMA LockHeld ==
    ASSUME CaInv, NEW p \in Process, NEW q \in Process \ {p}, lock \in {None, p}
    PROVE  proc[q] \notin Making \cup {"unlock", "give up"}
BY DEF CaInv, Locked

\* What a step of process p leaves alone of the types.
LEMMA CaTypesKept ==
    ASSUME CaInv, NEW p \in Process, NEW s \in Steps, proc' = [proc EXCEPT ![p] = s],
           key' \in Maker, cert' \in Maker, keyTmp' \in Maker, certTmp' \in Maker,
           lock' \in Maker,
           loaded' \in [Process -> [cert : Maker, key : Maker]], late' \in BOOLEAN
    PROVE  /\ CaTypes' /\ proc'[p] = s
           /\ \A q \in Process \ {p} : proc'[q] = proc[q]
<1>1. proc' \in [Process -> Steps] /\ proc'[p] = s
      /\ \A q \in Process \ {p} : proc'[q] = proc[q]
  BY DEF CaInv, CaTypes
<1>2. QED
  BY <1>1, Zenon DEF CaTypes

\* Taking the lock: nobody writes, and in time there is no certificate yet.
LEMMA LockInv ==
    ASSUME CaInv, NEW p \in Process, S!Lock(p)
    PROVE  CaInv'
<1> USE DEF CaInv
<1>1. CASE S!Unlocked
  <2>1. /\ lock = None /\ lock' = p /\ proc' = [proc EXCEPT ![p] = "write"]
        /\ UNCHANGED << key, cert, keyTmp, certTmp, loaded >>
    BY <1>1 DEF S!Lock, S!Unlocked, S!Goto
  <2>2. late' = (late \/ S!Exists)
    BY <1>1 DEF S!Lock
  <2>3. late' \in BOOLEAN /\ (~late' => ~late /\ ~S!Exists)
    BY <2>2, Zenon
  <2>4. /\ key' \in Maker /\ cert' \in Maker /\ keyTmp' \in Maker /\ certTmp' \in Maker
        /\ lock' \in Maker /\ loaded' \in [Process -> [cert : Maker, key : Maker]]
        /\ "write" \in Steps
    BY <2>1 DEF CaTypes, Maker, Steps, Making
  <2>5. /\ CaTypes' /\ proc'[p] = "write"
        /\ \A q \in Process \ {p} : proc'[q] = proc[q]
    BY <2>1, <2>3, <2>4, CaTypesKept
  <2>6. \A q \in Process \ {p} : proc[q] \notin Making \cup {"unlock", "give up"}
    BY <2>1, LockHeld
  <2>7. \A q \in Process : Locked(q)'
    BY <2>1, <2>5, <2>6 DEF Locked, Making
  <2>8. ASSUME ~late' PROVE OneMaker'
    <3>1. OneMaker
      BY <2>3, <2>8, Zenon
    <3>2. cert = None
      BY <2>3, <2>8 DEF S!Exists
    <3>3. \A q \in Process : InTime(q)'
      BY <2>1, <2>5, <3>1, <3>2 DEF InTime, OneMaker, Making
    <3>4. QED
      BY <2>1, <3>2, <3>3 DEF OneMaker
  <2>9. ~late' => OneMaker'
    BY <2>8, Zenon
  <2>10. QED
    BY <2>1, <2>5, <2>7, <2>9
<1>2. CASE ~S!Unlocked
  <2>1. proc' = [proc EXCEPT ![p] = "wait"]
        /\ UNCHANGED << key, cert, keyTmp, certTmp, lock, loaded, late >>
    BY <1>2 DEF S!Lock, S!Goto
  <2>2. "wait" \in Steps \ (Making \cup {"unlock", "give up", "load key", "serving"})
    BY DEF Steps, Making
  <2>3. QED
    BY <2>1, <2>2, CaElsewhere
<1>3. QED
  BY <1>1, <1>2

\* The steps under the lock.
LEMMA MakeInv ==
    ASSUME CaInv, NEW p \in Process,
           S!Write(p) \/ S!RenameKey(p) \/ S!RenameCert(p) \/ S!GenerateFails(p)
    PROVE  CaInv'
<1> USE DEF CaInv
<1>1. /\ proc[p] \in Making /\ UNCHANGED << lock, loaded, late >>
      /\ lock = p
  <2>1. proc[p] \in Making
    BY DEF S!Write, S!RenameKey, S!RenameCert, S!GenerateFails, Making
  <2>2. UNCHANGED << lock, loaded, late >>
    BY DEF S!Write, S!RenameKey, S!RenameCert, S!GenerateFails, S!files
  <2>3. QED
    BY <2>1, <2>2 DEF Locked
<1>2. \A q \in Process \ {p} : proc[q] \notin Making \cup {"unlock", "give up"}
  BY <1>1, LockHeld
<1>3. late' \in BOOLEAN
  BY <1>1, Zenon DEF CaTypes
<1>4. loaded' \in [Process -> [cert : Maker, key : Maker]] /\ lock' \in Maker
  BY <1>1 DEF CaTypes
<1>5. ASSUME ~late' PROVE OneMaker /\ cert = None
  <2>1. OneMaker
    BY <1>1, <1>5, Zenon
  <2>2. QED
    BY <1>1, <2>1 DEF OneMaker, InTime
<1>6. ASSUME proc' = [proc EXCEPT ![p] = "give up"], UNCHANGED << key, cert, keyTmp, certTmp >>
      PROVE  CaInv'
  <2>1. /\ key' \in Maker /\ cert' \in Maker /\ keyTmp' \in Maker /\ certTmp' \in Maker
        /\ "give up" \in Steps
    BY <1>6 DEF CaTypes, Steps
  <2>2. CaTypes' /\ proc'[p] = "give up" /\ \A q \in Process \ {p} : proc'[q] = proc[q]
    BY <1>3, <1>4, <1>6, <2>1, CaTypesKept
  <2>3. \A q \in Process : Locked(q)'
    BY <1>1, <1>2, <1>6, <2>2 DEF Locked, Making
  <2>4. ASSUME ~late' PROVE OneMaker'
    <3>1. \A q \in Process : InTime(q)'
      BY <1>1, <1>5, <1>6, <2>2, <2>4 DEF InTime, OneMaker, Making
    <3>2. QED
      BY <1>5, <1>6, <2>4, <3>1 DEF OneMaker
  <2>5. ~late' => OneMaker'
    BY <2>4, Zenon
  <2>6. QED
    BY <1>6, <2>2, <2>3, <2>5
<1>7. CASE S!Write(p)
  <2>1. /\ keyTmp' = p /\ certTmp' = p /\ UNCHANGED << key, cert >>
        /\ proc' = [proc EXCEPT ![p] = "key"] /\ "key" \in Steps
        /\ keyTmp' \in Maker /\ certTmp' \in Maker /\ key' \in Maker /\ cert' \in Maker
    BY <1>7 DEF S!Write, S!Goto, Maker, CaTypes, Steps, Making
  <2>2. CaTypes' /\ proc'[p] = "key" /\ \A q \in Process \ {p} : proc'[q] = proc[q]
    BY <1>3, <1>4, <2>1, CaTypesKept
  <2>3. \A q \in Process : Locked(q)'
    BY <1>1, <1>2, <2>1, <2>2 DEF Locked, Making
  <2>4. ASSUME ~late' PROVE OneMaker'
    <3>1. \A q \in Process : InTime(q)'
      BY <1>1, <1>5, <2>1, <2>2, <2>4 DEF InTime, OneMaker, Making
    <3>2. QED
      BY <1>5, <2>1, <2>4, <3>1 DEF OneMaker
  <2>5. ~late' => OneMaker'
    BY <2>4, Zenon
  <2>6. QED
    BY <2>1, <2>2, <2>3, <2>5
<1>8. CASE S!RenameKey(p) /\ keyTmp # None
  <2>1. /\ proc[p] = "key" /\ key' = p /\ keyTmp' = None /\ UNCHANGED << cert, certTmp >>
        /\ proc' = [proc EXCEPT ![p] = "cert"] /\ "cert" \in Steps
    BY <1>8 DEF S!RenameKey, S!Goto, Locked, Steps, Making
  <2>2. keyTmp' \in Maker /\ certTmp' \in Maker /\ key' \in Maker /\ cert' \in Maker
    BY <2>1 DEF CaTypes, Maker
  <2>3. CaTypes' /\ proc'[p] = "cert" /\ \A q \in Process \ {p} : proc'[q] = proc[q]
    BY <1>3, <1>4, <2>1, <2>2, CaTypesKept
  <2>4. \A q \in Process : Locked(q)'
    BY <1>1, <1>2, <2>1, <2>3 DEF Locked, Making
  <2>5. ASSUME ~late' PROVE OneMaker'
    <3>1. \A q \in Process : InTime(q)'
      BY <1>1, <1>2, <1>5, <2>1, <2>3, <2>5 DEF InTime, OneMaker, Making
    <3>2. QED
      BY <1>5, <2>1, <2>5, <3>1 DEF OneMaker
  <2>6. ~late' => OneMaker'
    BY <2>5, Zenon
  <2>7. QED
    BY <2>1, <2>3, <2>4, <2>6
<1>9. CASE S!RenameCert(p) /\ certTmp # None
  <2>1. /\ proc[p] = "cert" /\ cert' = p /\ certTmp' = None /\ UNCHANGED << key, keyTmp >>
        /\ key # None
        /\ proc' = [proc EXCEPT ![p] = "unlock"] /\ "unlock" \in Steps
    BY <1>9 DEF S!RenameCert, S!Goto, Locked, Steps
  <2>2. keyTmp' \in Maker /\ certTmp' \in Maker /\ key' \in Maker /\ cert' \in Maker
    BY <2>1 DEF CaTypes, Maker
  <2>3. CaTypes' /\ proc'[p] = "unlock" /\ \A q \in Process \ {p} : proc'[q] = proc[q]
    BY <1>3, <1>4, <2>1, <2>2, CaTypesKept
  <2>4. \A q \in Process : Locked(q)'
    BY <1>1, <1>2, <2>1, <2>3 DEF Locked, Making
  <2>5. ASSUME ~late' PROVE OneMaker'
    <3>1. key = p
      BY <1>5, <2>1, <2>5 DEF OneMaker, InTime
    <3>2. \A q \in Process : InTime(q)'
      BY <1>1, <1>2, <1>5, <2>1, <2>3, <2>5 DEF InTime, OneMaker, Making
    <3>3. QED
      BY <2>1, <3>1, <3>2 DEF OneMaker
  <2>6. ~late' => OneMaker'
    BY <2>5, Zenon
  <2>7. QED
    BY <2>1, <2>3, <2>4, <2>6
<1>10. CASE \/ S!GenerateFails(p)
            \/ S!RenameKey(p) /\ keyTmp = None
            \/ S!RenameCert(p) /\ certTmp = None
  BY <1>6, <1>10 DEF S!GenerateFails, S!RenameKey, S!RenameCert, S!Goto, S!files
<1>11. QED
  BY <1>7, <1>8, <1>9, <1>10

\* Loading: the certificate, then the key of the same maker.
LEMMA LoadInv ==
    ASSUME CaInv, NEW p \in Process, S!LoadCert(p) \/ S!LoadKey(p)
    PROVE  CaInv'
<1> USE DEF CaInv
<1>1. UNCHANGED << key, cert, keyTmp, certTmp, lock, late >>
  BY DEF S!LoadCert, S!LoadKey, S!files
<1>2. late' \in BOOLEAN
  BY <1>1, Zenon DEF CaTypes
<1>3. /\ key' \in Maker /\ cert' \in Maker /\ keyTmp' \in Maker /\ certTmp' \in Maker
      /\ lock' \in Maker
  BY <1>1 DEF CaTypes
<1>4. ASSUME NEW s \in Steps \ (Making \cup {"unlock", "give up"}),
             proc' = [proc EXCEPT ![p] = s],
             loaded' \in [Process -> [cert : Maker, key : Maker]],
             \A q \in Process \ {p} : loaded'[q] = loaded[q],
             ASSUME proc'[p] = s, OneMaker PROVE InTime(p)'
      PROVE  CaInv'
  <2>1. CaTypes' /\ proc'[p] = s /\ \A q \in Process \ {p} : proc'[q] = proc[q]
    BY <1>2, <1>3, <1>4, CaTypesKept
  <2>2. \A q \in Process : Locked(q)'
    BY <1>1, <2>1 DEF Locked, Making
  <2>3. ASSUME ~late' PROVE OneMaker'
    <3>1. OneMaker
      BY <1>1, <2>3, Zenon
    <3>2. \A q \in Process \ {p} : InTime(q)'
      BY <1>1, <1>4, <2>1, <3>1 DEF InTime, OneMaker, Making
    <3>3. InTime(p)'
      BY <1>4, <2>1, <3>1
    <3>4. QED
      BY <1>1, <3>1, <3>2, <3>3 DEF OneMaker
  <2>4. ~late' => OneMaker'
    BY <2>3, Zenon
  <2>5. QED
    BY <1>1, <2>1, <2>2, <2>4
<1>5. CASE S!LoadCert(p)
  <2>1. proc[p] = "load" /\ proc' = [proc EXCEPT ![p] = "load key"]
        /\ loaded' = [loaded EXCEPT ![p].cert = cert]
    BY <1>5 DEF S!LoadCert, S!Goto
  <2>2. loaded' \in [Process -> [cert : Maker, key : Maker]] /\ loaded'[p].cert = cert
        /\ \A q \in Process \ {p} : loaded'[q] = loaded[q]
    BY <2>1 DEF CaTypes
  <2>3. ASSUME proc'[p] = "load key", OneMaker PROVE InTime(p)'
    BY <1>1, <2>1, <2>2, <2>3 DEF InTime, OneMaker, Making
  <2>4. "load key" \in Steps \ (Making \cup {"unlock", "give up"})
    BY DEF Steps, Making
  <2>5. QED
    BY <1>4, <2>1, <2>2, <2>3, <2>4
<1>6. CASE S!LoadKey(p)
  <2>1. proc[p] = "load key" /\ proc' = [proc EXCEPT ![p] = "serving"]
        /\ loaded' = [loaded EXCEPT ![p].key = key]
    BY <1>6 DEF S!LoadKey, S!Goto
  <2>2. loaded' \in [Process -> [cert : Maker, key : Maker]]
        /\ loaded'[p].key = key /\ loaded'[p].cert = loaded[p].cert
        /\ \A q \in Process \ {p} : loaded'[q] = loaded[q]
    BY <2>1 DEF CaTypes
  <2>3. ASSUME proc'[p] = "serving", OneMaker PROVE InTime(p)'
    BY <1>1, <2>1, <2>2, <2>3 DEF InTime, OneMaker, Making
  <2>4. "serving" \in Steps \ (Making \cup {"unlock", "give up"})
    BY DEF Steps, Making
  <2>5. QED
    BY <1>4, <2>1, <2>2, <2>3, <2>4
<1>7. QED
  BY <1>5, <1>6

\* The steps that leave the CA's files, or have nothing to do with them.
LEMMA CaRestInv ==
    ASSUME CaInv, NEW p \in Process,
           S!Check(p) \/ S!Unlock(p) \/ S!Clean(p) \/ S!Wait(p) \/ S!Crash(p)
    PROVE  CaInv'
<1> USE DEF CaInv
<1> DEFINE Rest == Steps \ (Making \cup {"unlock", "give up", "load key", "serving"})
<1>1. /\ "lock" \in Rest /\ "load" \in Rest /\ "clean" \in Rest /\ "clean and fail" \in Rest
      /\ "failed" \in Rest /\ "wait" \in Rest /\ "crashed" \in Rest
  BY DEF Steps, Making
<1>2. UNCHANGED << key, cert, loaded, late >>
  BY DEF S!Check, S!Unlock, S!Clean, S!Wait, S!Crash, S!files
<1>3. lock' = lock \/ (lock' = None /\ proc[p] \in {"unlock", "give up"})
  BY DEF S!Check, S!Unlock, S!Clean, S!Wait, S!Crash, S!files
<1>4. keyTmp' \in {keyTmp, None} /\ certTmp' \in {certTmp, None}
  BY DEF S!Check, S!Unlock, S!Clean, S!Wait, S!Crash, S!files
<1>5. \E s \in Rest : /\ proc' = [proc EXCEPT ![p] = s]
                      /\ s \in {"clean", "load"} => cert # None \/ proc[p] \in {"unlock", "clean"}
  <2>1. CASE S!Check(p)
    BY <1>1, <2>1 DEF S!Check, S!Goto, S!Exists
  <2>2. CASE S!Unlock(p)
    BY <1>1, <2>2 DEF S!Unlock, S!Goto
  <2>3. CASE S!Clean(p)
    BY <1>1, <2>3 DEF S!Clean, S!Goto
  <2>4. CASE S!Wait(p)
    BY <1>1, <2>4 DEF S!Wait, S!Goto, S!Exists
  <2>5. CASE S!Crash(p)
    BY <1>1, <2>5 DEF S!Crash, S!Goto
  <2>6. QED
    BY <2>1, <2>2, <2>3, <2>4, <2>5
<1>6. QED
  BY <1>2, <1>3, <1>4, <1>5, CaElsewhere

\* A step that changes nothing of the CA but a lock nobody needs.
LEMMA CaSame ==
    ASSUME CaInv, UNCHANGED << key, cert, keyTmp, certTmp, proc, loaded, late >>,
           UNCHANGED lock \/ (lock' = None /\ lock # None /\ proc[lock] = "crashed")
    PROVE  CaInv'
<1> USE DEF CaInv
<1>1. late' \in BOOLEAN
  BY Zenon DEF CaTypes
<1>2. /\ key' \in Maker /\ cert' \in Maker /\ keyTmp' \in Maker /\ certTmp' \in Maker
      /\ lock' \in Maker /\ proc' \in [Process -> Steps]
      /\ loaded' \in [Process -> [cert : Maker, key : Maker]]
  BY DEF CaTypes, Maker
<1>3. CaTypes'
  BY <1>1, <1>2, Zenon DEF CaTypes
<1>4. \A q \in Process : Locked(q)'
  BY DEF Locked, Making
<1>5. ASSUME ~late' PROVE OneMaker'
  <2>1. OneMaker
    BY <1>5, Zenon
  <2>2. QED
    BY <2>1 DEF OneMaker, InTime
<1>6. ~late' => OneMaker'
  BY <1>5, Zenon
<1>7. QED
  BY <1>3, <1>4, <1>6

\* Every step keeps the invariant of the CA.
LEMMA CaStep ==
    ASSUME CaInv, S!Next \/ UNCHANGED certificateVars
    PROVE  CaInv'
<1>1. ASSUME NEW p \in Process,
             \/ S!Check(p) \/ S!Lock(p) \/ S!Write(p) \/ S!RenameKey(p) \/ S!RenameCert(p)
             \/ S!GenerateFails(p) \/ S!Unlock(p) \/ S!Clean(p) \/ S!Wait(p) \/ S!Crash(p)
             \/ S!LoadCert(p) \/ S!LoadKey(p)
      PROVE  CaInv'
  BY <1>1, LockInv, MakeInv, LoadInv, CaRestInv
<1>2. CASE S!RemoveLock
  BY <1>2, CaSame DEF S!RemoveLock
<1>3. ASSUME NEW t \in Thread,
             S!Connect(t) \/ S!Generate(t) \/ S!InsertLeaf(t) \/ S!Disconnect(t)
      PROVE  CaInv'
  BY <1>3, CaSame DEF S!Connect, S!Generate, S!InsertLeaf, S!Disconnect, S!files
<1>4. CASE S!Tick \/ UNCHANGED certificateVars
  BY <1>4, CaSame DEF S!Tick, S!files, certificateVars
<1>5. QED
  BY <1>1, <1>2, <1>3, <1>4 DEF S!Next

-----------------------------------------------------------------------------
(* The leaf certificates.  A host has one entry in the cache of a gateway  *)
(* (OnePerHost), inserted in the instant its leaf was made; a thread that  *)
(* serves has the leaf of the entry of its host (Offers), which no other   *)
(* thread replaces while it is fresh, and which is not evicted while there *)
(* is room for all hosts.                                                  *)

Leaf == [maker : Thread, made : Nat]
CacheEntry == [host : Host, leaf : Leaf, created : Nat]

OnePerHost(s) == \A i, j \in 1 .. Len(s) : s[i].host = s[j].host => i = j

Stamped(s) == \A i \in 1 .. Len(s) : s[i].leaf.made = s[i].created

Offers(s, h, l) ==
    \E i \in 1 .. Len(s) : s[i].host = h /\ s[i].leaf = l /\ now - s[i].created < MaxAge

Holds(s, e) == \E i \in 1 .. Len(s) : s[i] = e

\* A cache all of whose entries are of a stamped one is stamped.
LEMMA StampedPart ==
    ASSUME NEW c, Stamped(c), NEW s, \A j \in 1 .. Len(s) : Holds(c, s[j])
    PROVE  Stamped(s)
<1>1. ASSUME NEW j \in 1 .. Len(s) PROVE s[j].leaf.made = s[j].created
  <2>1. PICK i \in 1 .. Len(c) : c[i] = s[j]
    BY DEF Holds
  <2>2. c[i].leaf.made = c[i].created
    BY DEF Stamped
  <2>3. QED
    BY <2>1, <2>2
<1>2. QED
  BY <1>1 DEF Stamped

\* The entries of other hosts are all that the cache holds of them.
LEMMA OthersFacts ==
    ASSUME NEW p \in Process, NEW h, cache[p] \in Seq(CacheEntry), OnePerHost(cache[p]),
           NEW o, o = S!Others(p, h)
    PROVE  /\ o \in Seq(CacheEntry) /\ OnePerHost(o)
           /\ \A j \in 1 .. Len(o) : o[j].host # h /\ Holds(cache[p], o[j])
           /\ \A i \in 1 .. Len(cache[p]) : cache[p][i].host # h => Holds(o, cache[p][i])
<1> DEFINE c == cache[p]
<1>1. c \in Seq(CacheEntry) /\ OnePerHost(c) /\ Len(c) \in Nat
  OBVIOUS
<1>2. S!Entries(p, h) = {i \in 1 .. Len(c) : c[i].host = h}
  BY DEF S!Entries
<1>3. CASE S!Entries(p, h) = {}
  <2>1. o = c
    BY <1>3 DEF S!Others
  <2>2. QED
    BY <1>1, <1>2, <1>3, <2>1 DEF Holds
<1>4. CASE S!Entries(p, h) # {}
  <2> DEFINE k == CHOOSE i \in S!Entries(p, h) : TRUE
  <2>1. k \in S!Entries(p, h)
    BY <1>4
  <2>2. o = Cut(c, k)
    BY <1>4 DEF S!Others, Cut
  <2> HIDE DEF k, c
  <2>3. k \in 1 .. Len(c) /\ c[k].host = h
    BY <1>2, <2>1
  <2>4. /\ o \in Seq(CacheEntry) /\ Len(o) = Len(c) - 1
        /\ \A j \in 1 .. Len(o) : o[j] = IF j < k THEN c[j] ELSE c[j + 1]
    <3>1. c \in Seq(CacheEntry) /\ k \in 1 .. Len(c)
      BY <1>1, <2>3
    <3>2. /\ Cut(c, k) \in Seq(CacheEntry) /\ Len(Cut(c, k)) = Len(c) - 1
          /\ \A j \in 1 .. Len(c) - 1 : Cut(c, k)[j] = IF j < k THEN c[j] ELSE c[j + 1]
      BY <3>1, CutFacts
    <3>3. QED
      BY <2>2, <3>2
  <2>5. ASSUME NEW j \in 1 .. Len(o) PROVE o[j].host # h /\ Holds(c, o[j])
    <3> DEFINE i == IF j < k THEN j ELSE j + 1
    <3>1. i \in 1 .. Len(c) /\ i # k /\ o[j] = c[i]
      BY <1>1, <2>3, <2>4
    <3> HIDE DEF i
    <3>2. QED
      BY <1>1, <2>3, <3>1 DEF OnePerHost, Holds
  <2>6. ASSUME NEW i \in 1 .. Len(c), c[i].host # h PROVE Holds(o, c[i])
    <3>1. CASE i < k
      BY <1>1, <2>3, <2>4, <3>1 DEF Holds
    <3>2. CASE i > k
      <4>1. i - 1 \in 1 .. Len(o) /\ o[i - 1] = c[i]
        BY <1>1, <2>3, <2>4, <3>2
      <4>2. QED
        BY <4>1 DEF Holds
    <3>3. i # k
      BY <2>3, <2>6
    <3>4. QED
      BY <1>1, <2>3, <3>1, <3>2, <3>3
  <2>7. OnePerHost(o)
    <3>1. ASSUME NEW i \in 1 .. Len(o), NEW j \in 1 .. Len(o), o[i].host = o[j].host
          PROVE  i = j
      <4> DEFINE Before(m) == IF m < k THEN m ELSE m + 1
      <4>1. \A m \in 1 .. Len(o) : Before(m) \in 1 .. Len(c) /\ o[m] = c[Before(m)]
        BY <1>1, <2>3, <2>4
      <4>2. Before(i) = Before(j) => i = j
        BY <2>3
      <4> HIDE DEF Before
      <4>3. Before(i) = Before(j)
        BY <1>1, <3>1, <4>1 DEF OnePerHost
      <4>4. QED
        BY <4>2, <4>3
    <3>2. QED
      BY <3>1 DEF OnePerHost
  <2>8. QED
    BY <2>4, <2>5, <2>6, <2>7 DEF c
<1>5. QED
  BY <1>3, <1>4

\* Looking at an entry keeps what the cache holds.
LEMMA TouchedFacts ==
    ASSUME NEW p \in Process, NEW h, cache[p] \in Seq(CacheEntry), OnePerHost(cache[p]),
           NEW s, s = S!Touched(p, h)
    PROVE  /\ s \in Seq(CacheEntry) /\ OnePerHost(s)
           /\ \A j \in 1 .. Len(s) : Holds(cache[p], s[j])
           /\ \A i \in 1 .. Len(cache[p]) : Holds(s, cache[p][i])
<1> DEFINE c == cache[p]
           o == S!Others(p, h)
<1>1. c \in Seq(CacheEntry) /\ OnePerHost(c) /\ Len(c) \in Nat
  OBVIOUS
<1>2. S!Entries(p, h) = {i \in 1 .. Len(c) : c[i].host = h}
  BY DEF S!Entries
<1>3. CASE S!Entries(p, h) = {}
  <2>1. s = c
    BY <1>3 DEF S!Touched
  <2>2. QED
    BY <1>1, <2>1 DEF Holds
<1>4. CASE S!Entries(p, h) # {}
  <2> DEFINE k == CHOOSE i \in S!Entries(p, h) : TRUE
  <2>1. k \in S!Entries(p, h)
    BY <1>4
  <2>2. s = Append(o, c[k])
    BY <1>4 DEF S!Touched
  <2>3. /\ o \in Seq(CacheEntry) /\ OnePerHost(o)
        /\ \A j \in 1 .. Len(o) : o[j].host # h /\ Holds(c, o[j])
        /\ \A i \in 1 .. Len(c) : c[i].host # h => Holds(o, c[i])
    BY OthersFacts
  <2> HIDE DEF k, c, o
  <2>4. k \in 1 .. Len(c) /\ c[k].host = h /\ c[k] \in CacheEntry
    BY <1>1, <1>2, <2>1
  <2>5. /\ s \in Seq(CacheEntry) /\ Len(s) = Len(o) + 1
        /\ \A j \in 1 .. Len(o) : s[j] = o[j]
        /\ s[Len(o) + 1] = c[k] /\ Len(o) \in Nat
    BY <2>2, <2>3, <2>4, AppendProperties
  <2>6. OnePerHost(s)
    <3> SUFFICES ASSUME NEW i \in 1 .. Len(s), NEW j \in 1 .. Len(s), s[i].host = s[j].host
                 PROVE  i = j
      BY DEF OnePerHost
    <3>1. CASE i \in 1 .. Len(o) /\ j \in 1 .. Len(o)
      BY <2>3, <2>5, <3>1 DEF OnePerHost
    <3>2. CASE i = Len(o) + 1 /\ j \in 1 .. Len(o)
      BY <2>3, <2>4, <2>5, <3>2
    <3>3. CASE j = Len(o) + 1 /\ i \in 1 .. Len(o)
      BY <2>3, <2>4, <2>5, <3>3
    <3>4. QED
      BY <2>5, <3>1, <3>2, <3>3
  <2>7. ASSUME NEW j \in 1 .. Len(s) PROVE Holds(c, s[j])
    <3>1. CASE j \in 1 .. Len(o)
      <4>1. Holds(c, o[j])
        BY <2>3, <3>1
      <4>2. s[j] = o[j]
        BY <2>5, <3>1
      <4>3. QED
        BY <4>1, <4>2
    <3>2. CASE j = Len(o) + 1
      <4>1. s[j] = c[k]
        BY <2>5, <3>2
      <4>2. QED
        BY <2>4, <4>1 DEF Holds
    <3>3. QED
      BY <2>5, <3>1, <3>2
  <2>8. ASSUME NEW i \in 1 .. Len(c) PROVE Holds(s, c[i])
    <3>1. CASE c[i].host = h
      <4>1. i = k
        BY <1>1, <2>4, <3>1 DEF OnePerHost
      <4>2. QED
        BY <2>5, <4>1 DEF Holds
    <3>2. CASE c[i].host # h
      BY <2>3, <2>5, <3>2 DEF Holds
    <3>3. QED
      BY <3>1, <3>2
  <2>9. QED
    BY <2>5, <2>6, <2>7, <2>8 DEF c
<1>5. QED
  BY <1>3, <1>4

\* The new entry is in the cache, and while there is room for all hosts so are
\* the entries of the others.
LEMMA InsertedFacts ==
    ASSUME NEW p \in Process, NEW e \in CacheEntry,
           cache[p] \in Seq(CacheEntry), OnePerHost(cache[p]),
           NEW s, s = S!Inserted(p, e)
    PROVE  /\ s \in Seq(CacheEntry) /\ OnePerHost(s) /\ Holds(s, e)
           /\ \A j \in 1 .. Len(s) : s[j] = e \/ Holds(cache[p], s[j])
           /\ Cardinality(Host) <= Capacity =>
                \A i \in 1 .. Len(cache[p]) :
                    cache[p][i].host # e.host => Holds(s, cache[p][i])
<1> DEFINE c == cache[p]
           o == S!Others(p, e.host)
           kept == IF Len(o) = Capacity THEN Tail(o) ELSE o
<1>1. /\ o \in Seq(CacheEntry) /\ OnePerHost(o)
      /\ \A j \in 1 .. Len(o) : o[j].host # e.host /\ Holds(c, o[j])
      /\ \A i \in 1 .. Len(c) : c[i].host # e.host => Holds(o, c[i])
  BY OthersFacts
<1>2. s = Append(kept, e)
  BY DEF S!Inserted
<1> HIDE DEF o, c
<1>3. Len(o) \in Nat
  BY <1>1
<1>4. /\ kept \in Seq(CacheEntry) /\ OnePerHost(kept)
      /\ \A j \in 1 .. Len(kept) : \E i \in 1 .. Len(o) : kept[j] = o[i]
  <2>1. CASE Len(o) = Capacity
    <3>1. o # << >>
      BY <2>1, CertificatesAssumption
    <3>2. /\ Tail(o) \in Seq(CacheEntry) /\ Len(Tail(o)) = Len(o) - 1
          /\ \A i \in 1 .. Len(Tail(o)) : Tail(o)[i] = o[i + 1]
      BY <1>1, <3>1, HeadTailProperties
    <3>3. OnePerHost(Tail(o))
      BY <1>1, <1>3, <3>2 DEF OnePerHost
    <3>4. \A j \in 1 .. Len(Tail(o)) : \E i \in 1 .. Len(o) : Tail(o)[j] = o[i]
      BY <1>3, <3>2
    <3>5. QED
      BY <2>1, <3>2, <3>3, <3>4
  <2>2. CASE Len(o) # Capacity
    BY <1>1, <2>2
  <2>3. QED
    BY <2>1, <2>2
<1>5. Cardinality(Host) <= Capacity => kept = o
  <2> SUFFICES ASSUME Cardinality(Host) <= Capacity, Len(o) = Capacity PROVE FALSE
    OBVIOUS
  <2> DEFINE f == [i \in 1 .. Len(o) |-> o[i].host]
             H == Host \ {e.host}
  <2>1. e.host \in Host
    BY DEF CacheEntry
  <2>2. IsFiniteSet(H) /\ Cardinality(H) = Cardinality(Host) - 1 /\ Cardinality(Host) \in Nat
    BY <2>1, FS_RemoveElement, FS_CardinalityType
  <2>3. ASSUME NEW i \in 1 .. Len(o) PROVE o[i].host \in H
    <3>1. o[i] \in CacheEntry /\ o[i].host # e.host
      BY <1>1
    <3>2. QED
      BY <3>1 DEF CacheEntry
  <2>4. f \in [1 .. Len(o) -> H] /\ \A i \in 1 .. Len(o) : f[i] = o[i].host
    BY <2>3
  <2> HIDE DEF f, H
  <2>5. IsFiniteSet(1 .. Len(o)) /\ Cardinality(1 .. Len(o)) = Len(o)
    BY <1>3, FS_Interval
  <2>6. Cardinality(H) < Cardinality(1 .. Len(o))
    BY <1>3, <2>2, <2>5
  <2>7. \E i, j \in 1 .. Len(o) : i # j /\ f[i] = f[j]
    BY <2>2, <2>4, <2>5, <2>6, FS_PigeonHole
  <2>8. QED
    BY <1>1, <2>4, <2>7 DEF OnePerHost
<1> HIDE DEF kept
<1>6. /\ s \in Seq(CacheEntry) /\ Len(s) = Len(kept) + 1
      /\ \A j \in 1 .. Len(kept) : s[j] = kept[j]
      /\ s[Len(kept) + 1] = e /\ Len(kept) \in Nat
  BY <1>2, <1>4, AppendProperties
<1>7. Holds(s, e)
  BY <1>6 DEF Holds
<1>8. \A j \in 1 .. Len(kept) : kept[j].host # e.host /\ Holds(c, kept[j])
  BY <1>1, <1>4
<1>9. OnePerHost(s)
  <2> SUFFICES ASSUME NEW i \in 1 .. Len(s), NEW j \in 1 .. Len(s), s[i].host = s[j].host
               PROVE  i = j
    BY DEF OnePerHost
  <2>1. CASE i \in 1 .. Len(kept) /\ j \in 1 .. Len(kept)
    BY <1>4, <1>6, <2>1 DEF OnePerHost
  <2>2. CASE i = Len(kept) + 1 /\ j \in 1 .. Len(kept)
    BY <1>6, <1>8, <2>2
  <2>3. CASE j = Len(kept) + 1 /\ i \in 1 .. Len(kept)
    BY <1>6, <1>8, <2>3
  <2>4. QED
    BY <1>6, <2>1, <2>2, <2>3
<1>10. \A j \in 1 .. Len(s) : s[j] = e \/ Holds(c, s[j])
  BY <1>6, <1>8
<1>11. ASSUME Cardinality(Host) <= Capacity, NEW i \in 1 .. Len(c), c[i].host # e.host
       PROVE  Holds(s, c[i])
  <2>1. kept = o
    BY <1>5, <1>11
  <2>2. QED
    BY <1>1, <1>6, <1>11, <2>1 DEF Holds
<1>12. QED
  BY <1>6, <1>7, <1>9, <1>10, <1>11 DEF c

ThreadSteps == {"idle", "generate", "insert", "served"}

LeafTypes ==
    /\ cache \in [Process -> Seq(CacheEntry)]
    /\ step \in [Thread -> ThreadSteps]
    /\ host \in [Thread -> Host \cup {None}]
    /\ leaf \in [Thread -> Leaf \cup {None}]
    /\ now \in Nat

Given(t) ==
    /\ step[t] # "idle" => proc[GatewayOf[t]] = "serving" /\ host[t] \in Host
    /\ step[t] \in {"insert", "served"} => leaf[t] \in Leaf
    /\ step[t] = "insert" => leaf[t].made = now
    /\ step[t] = "served" => now - leaf[t].made < MaxAge
    /\ step[t] = "served" /\ Cardinality(Host) <= Capacity =>
            Offers(cache[GatewayOf[t]], host[t], leaf[t])

LeafInv ==
    /\ LeafTypes
    /\ \A p \in Process : OnePerHost(cache[p]) /\ Stamped(cache[p])
    /\ \A t \in Thread : Given(t)

\* The initial states satisfy the invariant.
LEMMA LeafInit == S!Init => LeafInv
<1> SUFFICES ASSUME S!Init PROVE LeafInv
  OBVIOUS
<1>1. cache = [p \in Process |-> << >>] /\ << >> \in Seq(CacheEntry) /\ Len(<< >>) = 0
  BY DEF S!Init
<1>2. LeafTypes
  BY <1>1 DEF S!Init, LeafTypes, ThreadSteps
<1>3. QED
  BY <1>1, <1>2 DEF S!Init, LeafInv, OnePerHost, Stamped, Given

\* A step of one thread, after which its gateway's cache is s.
LEMMA ThreadStep ==
    ASSUME LeafInv, LeafTypes', NEW t \in Thread, UNCHANGED << proc, now >>,
           NEW s, OnePerHost(s), Stamped(s), cache' = [cache EXCEPT ![GatewayOf[t]] = s],
           \A u \in Thread \ {t} :
                /\ step'[u] = step[u] /\ host'[u] = host[u] /\ leaf'[u] = leaf[u]
                /\ step[u] = "served" /\ GatewayOf[u] = GatewayOf[t]
                        /\ Cardinality(Host) <= Capacity => Offers(s, host[u], leaf[u]),
           Given(t)'
    PROVE  LeafInv'
<1>1. \A p \in Process : cache'[p] = IF p = GatewayOf[t] THEN s ELSE cache[p]
  BY DEF LeafInv, LeafTypes
<1>2. \A p \in Process : OnePerHost(cache'[p]) /\ Stamped(cache'[p])
  BY <1>1 DEF LeafInv
<1>3. ASSUME NEW u \in Thread \ {t} PROVE Given(u)'
  <2>1. Given(u) /\ GatewayOf[u] \in Process
    BY CertificatesAssumption DEF LeafInv
  <2>2. step[u] = "served" /\ Cardinality(Host) <= Capacity =>
            Offers(cache'[GatewayOf[u]], host[u], leaf[u])
    BY <1>1, <2>1 DEF Given
  <2>3. \A x, h, l : Offers(x, h, l) => Offers(x, h, l)'
    BY DEF Offers
  <2>4. QED
    BY <2>1, <2>2, <2>3 DEF Given, Offers
<1>4. QED
  BY <1>2, <1>3 DEF LeafInv, OnePerHost, Stamped

\* What a cache that holds the entries of another offers.
LEMMA OffersKept ==
    ASSUME NEW c \in Seq(CacheEntry), NEW s, NEW h, NEW l, Offers(c, h, l),
           \A i \in 1 .. Len(c) : c[i].host = h => Holds(s, c[i])
    PROVE  Offers(s, h, l)
BY DEF Offers, Holds

\* A thread that is given an entry of the cache.
LEMMA HitInv ==
    ASSUME LeafInv, NEW t \in Thread, NEW h \in Host, S!Hit(t, h),
           proc[GatewayOf[t]] = "serving", UNCHANGED << proc, now >>,
           host' = [host EXCEPT ![t] = h]
    PROVE  LeafInv'
<1> DEFINE p == GatewayOf[t]
           c == cache[p]
           s == S!Touched(p, h)
<1>1. p \in Process /\ c \in Seq(CacheEntry) /\ OnePerHost(c) /\ Stamped(c)
  BY CertificatesAssumption DEF LeafInv, LeafTypes
<1>2. /\ s \in Seq(CacheEntry) /\ OnePerHost(s)
      /\ \A j \in 1 .. Len(s) : Holds(c, s[j])
      /\ \A i \in 1 .. Len(c) : Holds(s, c[i])
  BY <1>1, TouchedFacts
<1>3. PICK i \in S!Entries(p, h) :
        /\ S!Fresh(c[i])
        /\ leaf' = [leaf EXCEPT ![t] = c[i].leaf]
        /\ cache' = [cache EXCEPT ![p] = s]
        /\ step' = [step EXCEPT ![t] = "served"]
  BY DEF S!Hit, S!Became
<1> HIDE DEF s
<1>4. i \in 1 .. Len(c) /\ c[i].host = h /\ c[i] \in CacheEntry /\ now - c[i].created < MaxAge
  BY <1>1, <1>3 DEF S!Entries, S!Fresh
<1>5. c[i].leaf \in Leaf /\ c[i].leaf.made = c[i].created
  BY <1>1, <1>4 DEF CacheEntry, Stamped
<1>6. LeafTypes'
  BY <1>1, <1>2, <1>3, <1>5 DEF LeafInv, LeafTypes, ThreadSteps
<1>7. step'[t] = "served" /\ host'[t] = h /\ leaf'[t] = c[i].leaf /\ cache'[p] = s
  BY <1>1, <1>3 DEF LeafInv, LeafTypes
<1>8. Stamped(s)
  <2>1. \A j \in 1 .. Len(s) : Holds(c, s[j])
    BY <1>2
  <2>2. Stamped(c)
    BY <1>1
  <2>3. QED
    BY <2>1, <2>2, StampedPart
<1>9. Offers(s, h, c[i].leaf)
  BY <1>2, <1>4 DEF Offers, Holds
<1>10. Given(t)'
  BY <1>4, <1>5, <1>7, <1>9 DEF Given, Offers
<1>11. ASSUME NEW u \in Thread \ {t}
       PROVE  /\ step'[u] = step[u] /\ host'[u] = host[u] /\ leaf'[u] = leaf[u]
              /\ step[u] = "served" /\ GatewayOf[u] = GatewayOf[t]
                        /\ Cardinality(Host) <= Capacity => Offers(s, host[u], leaf[u])
  <2>1. step'[u] = step[u] /\ host'[u] = host[u] /\ leaf'[u] = leaf[u]
    BY <1>3 DEF LeafInv, LeafTypes
  <2>2. ASSUME step[u] = "served", GatewayOf[u] = GatewayOf[t], Cardinality(Host) <= Capacity
        PROVE  Offers(s, host[u], leaf[u])
    <3>1. Offers(c, host[u], leaf[u])
      BY <2>2 DEF LeafInv, Given
    <3>2. QED
      BY <1>1, <1>2, <3>1, OffersKept
  <2>3. QED
    BY <2>1, <2>2
<1>12. QED
  BY <1>2, <1>3, <1>6, <1>8, <1>10, <1>11, ThreadStep

\* A thread takes a leaf from the cache, or goes to make one.
LEMMA ConnectInv ==
    ASSUME LeafInv, NEW t \in Thread, S!Connect(t)
    PROVE  LeafInv'
<1> DEFINE p == GatewayOf[t]
           c == cache[p]
<1>1. PICK h \in Host :
        /\ host' = [host EXCEPT ![t] = h]
        /\ \/ S!Hit(t, h)
           \/ /\ cache' = [cache EXCEPT ![p] = S!Touched(p, h)]
              /\ step' = [step EXCEPT ![t] = "generate"] /\ UNCHANGED leaf
  BY DEF S!Connect, S!Became
<1>2. proc[p] = "serving" /\ UNCHANGED << proc, now >>
  BY DEF S!Connect
<1>3. CASE S!Hit(t, h)
  BY <1>1, <1>2, <1>3, HitInv
<1>4. CASE /\ cache' = [cache EXCEPT ![p] = S!Touched(p, h)]
           /\ step' = [step EXCEPT ![t] = "generate"] /\ UNCHANGED leaf
  <2> DEFINE s == S!Touched(p, h)
  <2>1. p \in Process /\ c \in Seq(CacheEntry) /\ OnePerHost(c) /\ Stamped(c)
    BY CertificatesAssumption DEF LeafInv, LeafTypes
  <2>2. /\ s \in Seq(CacheEntry) /\ OnePerHost(s)
        /\ \A j \in 1 .. Len(s) : Holds(c, s[j])
        /\ \A i \in 1 .. Len(c) : Holds(s, c[i])
    BY <2>1, TouchedFacts
  <2>3. cache' = [cache EXCEPT ![p] = s]
    BY <1>4
  <2> HIDE DEF s
  <2>4. LeafTypes'
    BY <1>1, <1>2, <1>4, <2>2, <2>3 DEF LeafInv, LeafTypes, ThreadSteps
  <2>5. step'[t] = "generate" /\ host'[t] = h
    BY <1>1, <1>4 DEF LeafInv, LeafTypes
  <2>6. Stamped(s)
    <3>1. \A j \in 1 .. Len(s) : Holds(c, s[j])
      BY <2>2
    <3>2. Stamped(c)
      BY <2>1
    <3>3. QED
      BY <3>1, <3>2, StampedPart
  <2>7. Given(t)'
    BY <1>2, <2>5 DEF Given
  <2>8. ASSUME NEW u \in Thread \ {t}
        PROVE  /\ step'[u] = step[u] /\ host'[u] = host[u] /\ leaf'[u] = leaf[u]
               /\ step[u] = "served" /\ GatewayOf[u] = GatewayOf[t]
                        /\ Cardinality(Host) <= Capacity => Offers(s, host[u], leaf[u])
    <3>1. step'[u] = step[u] /\ host'[u] = host[u] /\ leaf'[u] = leaf[u]
      BY <1>1, <1>4 DEF LeafInv, LeafTypes
    <3>2. ASSUME step[u] = "served", GatewayOf[u] = GatewayOf[t], Cardinality(Host) <= Capacity
          PROVE  Offers(s, host[u], leaf[u])
      <4>1. Offers(c, host[u], leaf[u])
        BY <3>2 DEF LeafInv, Given
      <4>2. QED
        BY <2>1, <2>2, <4>1, OffersKept
    <3>3. QED
      BY <3>1, <3>2
  <2>9. QED
    BY <1>2, <2>2, <2>3, <2>4, <2>6, <2>7, <2>8, ThreadStep
<1>5. QED
  BY <1>1, <1>3, <1>4

\* The leaf goes into the cache unless there is a fresh one.
LEMMA InsertInv ==
    ASSUME LeafInv, NEW t \in Thread, S!InsertLeaf(t)
    PROVE  LeafInv'
<1> DEFINE p == GatewayOf[t]
           c == cache[p]
           e == [host |-> host[t], leaf |-> leaf[t], created |-> now]
           s == S!Inserted(p, e)
<1>1. /\ step[t] = "insert" /\ proc[p] = "serving" /\ host[t] \in Host
      /\ leaf[t] \in Leaf /\ leaf[t].made = now
      /\ UNCHANGED << proc, now, host >>
  BY DEF S!InsertLeaf, LeafInv, Given
<1>2. p \in Process /\ c \in Seq(CacheEntry) /\ OnePerHost(c) /\ Stamped(c)
  BY CertificatesAssumption DEF LeafInv, LeafTypes
<1>3. CASE S!Hit(t, host[t])
  <2>1. host' = [host EXCEPT ![t] = host[t]]
    BY <1>1 DEF LeafInv, LeafTypes
  <2>2. QED
    BY <1>1, <1>3, <2>1, HitInv
<1>4. CASE /\ S!Miss(t, host[t])
           /\ cache' = [cache EXCEPT ![p] = s]
           /\ step' = [step EXCEPT ![t] = "served"] /\ UNCHANGED leaf
  <2>1. e \in CacheEntry
    BY <1>1 DEF CacheEntry, LeafInv, LeafTypes
  <2>2. /\ s \in Seq(CacheEntry) /\ OnePerHost(s) /\ Holds(s, e)
        /\ \A j \in 1 .. Len(s) : s[j] = e \/ Holds(c, s[j])
        /\ Cardinality(Host) <= Capacity =>
            \A i \in 1 .. Len(c) : c[i].host # e.host => Holds(s, c[i])
    BY <1>2, <2>1, InsertedFacts
  <2>3. e.host = host[t] /\ e.leaf = leaf[t] /\ e.created = now
    OBVIOUS
  <2>4. cache' = [cache EXCEPT ![p] = s]
    BY <1>4
  <2>5. \A i \in 1 .. Len(c) : c[i].host = host[t] => ~(now - c[i].created < MaxAge)
    BY <1>2, <1>4 DEF S!Miss, S!Entries, S!Fresh
  <2> HIDE DEF s, e
  <2>6. Stamped(s)
    <3>1. e.leaf.made = e.created
      BY <1>1, <2>3
    <3>2. ASSUME NEW j \in 1 .. Len(s) PROVE s[j].leaf.made = s[j].created
      <4>1. CASE s[j] = e
        BY <3>1, <4>1
      <4>2. CASE Holds(c, s[j])
        <5>1. PICK i \in 1 .. Len(c) : c[i] = s[j]
          BY <4>2 DEF Holds
        <5>2. c[i].leaf.made = c[i].created
          BY <1>2 DEF Stamped
        <5>3. QED
          BY <5>1, <5>2
      <4>3. QED
        BY <2>2, <4>1, <4>2
    <3>3. QED
      BY <3>2 DEF Stamped
  <2>7. LeafTypes'
    BY <1>1, <1>4, <2>2, <2>4 DEF LeafInv, LeafTypes, ThreadSteps
  <2>8. step'[t] = "served" /\ host'[t] = host[t] /\ leaf'[t] = leaf[t] /\ cache'[p] = s
    BY <1>1, <1>2, <1>4, <2>4 DEF LeafInv, LeafTypes
  <2>9. now \in Nat /\ MaxAge \in Nat /\ MaxAge > 0
    BY CertificatesAssumption DEF LeafInv, LeafTypes
  <2>10. now - now < MaxAge
    BY <2>9
  <2>11. Offers(s, host[t], leaf[t])
    BY <2>2, <2>3, <2>10 DEF Offers, Holds
  <2>12. Given(t)'
    BY <1>1, <2>8, <2>10, <2>11 DEF Given, Offers
  <2>13. ASSUME NEW u \in Thread \ {t}
         PROVE  /\ step'[u] = step[u] /\ host'[u] = host[u] /\ leaf'[u] = leaf[u]
                /\ step[u] = "served" /\ GatewayOf[u] = GatewayOf[t]
                        /\ Cardinality(Host) <= Capacity => Offers(s, host[u], leaf[u])
    <3>1. step'[u] = step[u] /\ host'[u] = host[u] /\ leaf'[u] = leaf[u]
      BY <1>1, <1>4 DEF LeafInv, LeafTypes
    <3>2. ASSUME step[u] = "served", GatewayOf[u] = GatewayOf[t], Cardinality(Host) <= Capacity
          PROVE  Offers(s, host[u], leaf[u])
      <4>1. Offers(c, host[u], leaf[u])
        BY <3>2 DEF LeafInv, Given
      <4>2. host[u] # host[t]
        BY <2>5, <4>1 DEF Offers
      <4>3. QED
        BY <1>2, <2>2, <2>3, <3>2, <4>1, <4>2, OffersKept
    <3>3. QED
      BY <3>1, <3>2
  <2>14. QED
    BY <1>1, <2>2, <2>4, <2>6, <2>7, <2>12, <2>13, ThreadStep
<1>5. QED
  BY <1>3, <1>4 DEF S!InsertLeaf, S!Became

\* A thread makes a leaf, or leaves.
LEMMA OwnStepInv ==
    ASSUME LeafInv, NEW t \in Thread, S!Generate(t) \/ S!Disconnect(t)
    PROVE  LeafInv'
<1> DEFINE c == cache[GatewayOf[t]]
<1>1. UNCHANGED << proc, now, cache >>
  BY DEF S!Generate, S!Disconnect
<1>2. /\ c \in Seq(CacheEntry) /\ OnePerHost(c) /\ Stamped(c)
      /\ cache' = [cache EXCEPT ![GatewayOf[t]] = c]
  BY <1>1, CertificatesAssumption DEF LeafInv, LeafTypes
<1>3. \A u \in Thread \ {t} :
        /\ step'[u] = step[u] /\ host'[u] = host[u] /\ leaf'[u] = leaf[u]
        /\ step[u] = "served" /\ GatewayOf[u] = GatewayOf[t]
                /\ Cardinality(Host) <= Capacity => Offers(c, host[u], leaf[u])
  BY DEF S!Generate, S!Disconnect, S!Became, LeafInv, LeafTypes, Given
<1>4. CASE S!Generate(t)
  <2>1. /\ step[t] = "generate" /\ UNCHANGED host
        /\ leaf' = [leaf EXCEPT ![t] = [maker |-> t, made |-> now]]
        /\ step' = [step EXCEPT ![t] = "insert"]
    BY <1>4 DEF S!Generate, S!Became
  <2>2. [maker |-> t, made |-> now] \in Leaf
    BY DEF Leaf, LeafInv, LeafTypes
  <2>3. LeafTypes'
    BY <1>1, <2>1, <2>2 DEF LeafInv, LeafTypes, ThreadSteps
  <2>4. step'[t] = "insert" /\ leaf'[t] = [maker |-> t, made |-> now]
    BY <2>1 DEF LeafInv, LeafTypes
  <2>5. Given(t)'
    BY <1>1, <2>1, <2>2, <2>4 DEF LeafInv, Given
  <2> HIDE DEF c
  <2>6. QED
    BY <1>1, <1>2, <1>3, <2>3, <2>5, ThreadStep
<1>5. CASE S!Disconnect(t)
  <2>1. /\ step' = [step EXCEPT ![t] = "idle"] /\ host' = [host EXCEPT ![t] = None]
        /\ leaf' = [leaf EXCEPT ![t] = None]
    BY <1>5 DEF S!Disconnect, S!Became
  <2>2. LeafTypes'
    BY <1>1, <2>1 DEF LeafInv, LeafTypes, ThreadSteps
  <2>3. step'[t] = "idle"
    BY <2>1 DEF LeafInv, LeafTypes
  <2>4. Given(t)'
    BY <2>3 DEF Given
  <2> HIDE DEF c
  <2>5. QED
    BY <1>1, <1>2, <1>3, <2>2, <2>4, ThreadStep
<1>6. QED
  BY <1>4, <1>5

\* A gateway that serves goes on to, and the clock stands while a thread is busy.
LEMMA LeafElsewhere ==
    ASSUME LeafInv, CaTypes, UNCHANGED << cache, step, host, leaf >>,
           \/ UNCHANGED << proc, now >>
           \/ UNCHANGED now /\ \E p \in Process, s \in Steps :
                proc[p] # "serving" /\ proc' = [proc EXCEPT ![p] = s]
           \/ UNCHANGED proc /\ now' = now + 1 /\ \A t \in Thread : step[t] = "idle"
    PROVE  LeafInv'
<1>1. LeafTypes'
  BY DEF LeafInv, LeafTypes
<1>2. \A p \in Process : proc[p] = "serving" => proc'[p] = "serving"
  BY DEF CaTypes
<1>3. ASSUME NEW t \in Thread PROVE Given(t)'
  <2>1. GatewayOf[t] \in Process
    BY CertificatesAssumption
  <2>2. CASE UNCHANGED now
    BY <1>2, <2>1, <2>2 DEF LeafInv, Given, Offers
  <2>3. CASE step[t] = "idle"
    BY <2>3 DEF Given
  <2>4. QED
    BY <2>2, <2>3
<1>4. QED
  BY <1>1, <1>3 DEF LeafInv, OnePerHost, Stamped

\* Every step keeps the invariant of the leaves.
LEMMA LeafStep ==
    ASSUME LeafInv, CaInv, S!Next \/ UNCHANGED certificateVars
    PROVE  LeafInv'
<1> USE DEF CaInv
<1>1. ASSUME NEW p \in Process,
             \/ S!Check(p) \/ S!Lock(p) \/ S!Write(p) \/ S!RenameKey(p) \/ S!RenameCert(p)
             \/ S!GenerateFails(p) \/ S!Unlock(p) \/ S!Clean(p) \/ S!Wait(p) \/ S!Crash(p)
             \/ S!LoadCert(p) \/ S!LoadKey(p)
      PROVE  LeafInv'
  <2>1. UNCHANGED << cache, step, host, leaf, now >> /\ proc[p] # "serving"
    BY <1>1 DEF S!Check, S!Lock, S!Write, S!RenameKey, S!RenameCert, S!GenerateFails, S!Unlock,
           S!Clean, S!Wait, S!Crash, S!LoadCert, S!LoadKey, S!threads
  <2>2. \E s \in Steps : proc' = [proc EXCEPT ![p] = s]
    BY <1>1 DEF S!Check, S!Lock, S!Write, S!RenameKey, S!RenameCert, S!GenerateFails, S!Unlock,
           S!Clean, S!Wait, S!Crash, S!LoadCert, S!LoadKey, S!Goto, Steps, Making
  <2>3. QED
    BY <2>1, <2>2, LeafElsewhere
<1>2. CASE S!RemoveLock \/ S!Tick \/ UNCHANGED certificateVars
  <2>1. UNCHANGED << cache, step, host, leaf, proc >>
        /\ (UNCHANGED now \/ (now' = now + 1 /\ \A t \in Thread : step[t] = "idle"))
    BY <1>2 DEF S!RemoveLock, S!Tick, S!threads, certificateVars
  <2>2. QED
    BY <2>1, LeafElsewhere
<1>3. ASSUME NEW t \in Thread,
             S!Connect(t) \/ S!Generate(t) \/ S!InsertLeaf(t) \/ S!Disconnect(t)
      PROVE  LeafInv'
  BY <1>3, ConnectInv, InsertInv, OwnStepInv
<1>4. QED
  BY <1>1, <1>2, <1>3 DEF S!Next

\* The two invariants hold in every state.
LEMMA CertificatesSafe == PartsSpec => [](CaInv /\ LeafInv)
<1>1. PartsInit => CaInv /\ LeafInv
  BY CaInit, LeafInit DEF PartsInit
<1>2. CaInv /\ LeafInv /\ [PartsNext]_allVars => CaInv' /\ LeafInv'
  BY CaStep, LeafStep DEF PartsNext, allVars, certificateVars
<1>3. QED
  BY <1>1, <1>2, PTL DEF PartsSpec

\* Unless a process takes the lock after another one made the CA, the gateway
\* serves with a certificate and a key of one maker, that of ca.crt, and with
\* leaves that have not expired (ensure_ca, CertCache::new, get_or_generate).
THEOREM ServedChainsVerify == PartsSpec => []ChainsVerify
<1>1. CaInv /\ LeafInv => ChainsVerify
  <2> SUFFICES ASSUME CaInv, LeafInv, ~late, NEW t \in Thread, step[t] = "served"
               PROVE  /\ loaded[GatewayOf[t]].cert = loaded[GatewayOf[t]].key
                      /\ loaded[GatewayOf[t]].cert = cert
                      /\ now - leaf[t].made < Validity
    BY DEF ChainsVerify, S!ChainsVerify
  <2>1. OneMaker
    BY Zenon DEF CaInv
  <2>2. GatewayOf[t] \in Process /\ proc[GatewayOf[t]] = "serving"
    BY CertificatesAssumption DEF LeafInv, Given
  <2>3. InTime(GatewayOf[t]) /\ (cert # None => key = cert)
    BY <2>1, <2>2 DEF OneMaker
  <2>4. /\ loaded[GatewayOf[t]].cert = cert /\ loaded[GatewayOf[t]].key = key
        /\ key = cert
    BY <2>2, <2>3 DEF InTime
  <2>5. leaf[t] \in Leaf /\ now \in Nat /\ now - leaf[t].made < MaxAge
    BY DEF LeafInv, LeafTypes, Given
  <2>6. now - leaf[t].made < Validity
    BY <2>5, CertificatesAssumption DEF Leaf
  <2>7. QED
    BY <2>4, <2>6
<1>2. QED
  BY <1>1, CertificatesSafe, PTL

\* Threads of a gateway that serve one host at the same time serve one leaf,
\* however many of them made one, unless the cache is too small for the hosts
\* (the second look of get_or_generate).
THEOREM ThreadsServeOneLeaf == PartsSpec => []OneLeafKept
<1>1. LeafInv => OneLeafKept
  <2> SUFFICES ASSUME LeafInv, NEW t \in Thread, NEW u \in Thread,
                      GatewayOf[t] = GatewayOf[u], host[t] = host[u],
                      step[t] = "served", step[u] = "served",
                      S!Cardinality(Host) <= Capacity
               PROVE  leaf[t] = leaf[u]
    BY DEF OneLeafKept, S!OneLeafKept
  <2>1. Cardinality(Host) <= Capacity
    BY DEF S!Cardinality, Cardinality
  <2>2. /\ Offers(cache[GatewayOf[t]], host[t], leaf[t])
        /\ Offers(cache[GatewayOf[t]], host[t], leaf[u])
    BY <2>1 DEF LeafInv, Given
  <2>3. OnePerHost(cache[GatewayOf[t]])
    BY CertificatesAssumption DEF LeafInv
  <2>4. QED
    BY <2>2, <2>3 DEF OnePerHost, Offers
<1>2. QED
  BY <1>1, CertificatesSafe, PTL

\* At most one process makes the CA of a directory at a time, whichever
\* processes die with the lock file and whenever the operator removes one that
\* was left (ensure_ca, .ca.lock).
MakersExclude ==
    \A p, q \in Process : proc[p] \in Making /\ proc[q] \in Making => p = q

THEOREM OneProcessMakesCa == PartsSpec => []MakersExclude
<1>1. CaInv => MakersExclude
  BY DEF CaInv, Locked, MakersExclude
<1>2. QED
  BY <1>1, CertificatesSafe, PTL

\* A CA that is complete stays as it is: no process that starts beside those
\* that serve with it replaces its key or its certificate, unless one takes the
\* lock after another one made the CA (ensure_ca looks only before the lock).
CaIsKept == [][cert # None /\ ~late' => UNCHANGED << key, cert >>]_certificateVars

LEMMA CaKeptStep ==
    ASSUME CaInv, S!Next, cert # None, ~late'
    PROVE  UNCHANGED << key, cert >>
<1>1. CASE UNCHANGED << key, cert >>
  BY <1>1
<1>2. ASSUME NEW p \in Process, S!RenameKey(p) \/ S!RenameCert(p)
      PROVE  FALSE
  <2>1. UNCHANGED late /\ proc[p] \in Making
    BY <1>2 DEF S!RenameKey, S!RenameCert, Making
  <2>2. ~late
    BY <2>1
  <2>3. OneMaker
    BY <2>2, Zenon DEF CaInv
  <2>4. cert = None
    BY <2>1, <2>3 DEF OneMaker, InTime
  <2>5. QED
    BY <2>4
<1>3. ASSUME NEW p \in Process,
             \/ S!Check(p) \/ S!Lock(p) \/ S!Write(p) \/ S!GenerateFails(p) \/ S!Unlock(p)
             \/ S!Clean(p) \/ S!Wait(p) \/ S!Crash(p) \/ S!LoadCert(p) \/ S!LoadKey(p)
      PROVE  UNCHANGED << key, cert >>
  BY <1>3 DEF S!Check, S!Lock, S!Write, S!GenerateFails, S!Unlock, S!Clean, S!Wait, S!Crash,
              S!LoadCert, S!LoadKey, S!files
<1>4. ASSUME NEW t \in Thread,
             S!Connect(t) \/ S!Generate(t) \/ S!InsertLeaf(t) \/ S!Disconnect(t)
      PROVE  UNCHANGED << key, cert >>
  BY <1>4 DEF S!Connect, S!Generate, S!InsertLeaf, S!Disconnect, S!files
<1>5. CASE S!RemoveLock \/ S!Tick
  BY <1>5 DEF S!RemoveLock, S!Tick, S!files
<1>6. QED
  BY <1>2, <1>3, <1>4, <1>5 DEF S!Next

THEOREM MadeCaIsKept == PartsSpec => CaIsKept
<1>1. ASSUME CaInv, [PartsNext]_allVars
      PROVE  [cert # None /\ ~late' => UNCHANGED << key, cert >>]_certificateVars
  <2>1. S!Next \/ UNCHANGED certificateVars
    BY <1>1 DEF PartsNext, allVars
  <2>2. QED
    BY <1>1, <2>1, CaKeptStep
<1>2. QED
  BY <1>1, CertificatesSafe, PTL DEF PartsSpec, CaIsKept

\* What Others leaves of a cache.
LEMMA OthersShorter ==
    ASSUME NEW p \in Process, NEW h, cache[p] \in Seq(CacheEntry)
    PROVE  /\ S!Others(p, h) \in Seq(CacheEntry)
           /\ Len(S!Others(p, h)) <= Len(cache[p])
           /\ S!Entries(p, h) # {} => Len(S!Others(p, h)) = Len(cache[p]) - 1
<1> DEFINE c == cache[p]
<1>1. c \in Seq(CacheEntry) /\ Len(c) \in Nat
  OBVIOUS
<1>2. CASE S!Entries(p, h) = {}
  <2>1. S!Others(p, h) = c
    BY <1>2 DEF S!Others
  <2>2. QED
    BY <1>1, <1>2, <2>1
<1>3. CASE S!Entries(p, h) # {}
  <2>1. PICK k \in S!Entries(p, h) : S!Others(p, h) = Cut(c, k)
    <3> DEFINE k == CHOOSE i \in S!Entries(p, h) : TRUE
    <3>1. k \in S!Entries(p, h)
      BY <1>3
    <3>2. S!Others(p, h) = Cut(c, k)
      BY <1>3 DEF S!Others, Cut
    <3>3. QED
      BY <3>1, <3>2
  <2>2. k \in 1 .. Len(c)
    BY <2>1, <1>1 DEF S!Entries
  <2> HIDE DEF c
  <2>3. Cut(c, k) \in Seq(CacheEntry) /\ Len(Cut(c, k)) = Len(c) - 1
    BY <1>1, <2>2, CutFacts
  <2>4. QED
    BY <1>1, <2>1, <2>3 DEF c
<1>4. QED
  BY <1>2, <1>3

\* No step makes a cache that is within its capacity exceed it.
LEMMA RoomKept ==
    ASSUME NEW p \in Process, cache[p] \in Seq(CacheEntry), Len(cache[p]) <= Capacity
    PROVE  /\ \A h : Len(S!Touched(p, h)) <= Capacity
           /\ \A e \in CacheEntry : Len(S!Inserted(p, e)) <= Capacity
<1>1. ASSUME NEW h PROVE Len(S!Touched(p, h)) <= Capacity
  <2>1. CASE S!Entries(p, h) = {}
    BY <2>1 DEF S!Touched
  <2>2. CASE S!Entries(p, h) # {}
    <3>1. PICK o \in Seq(CacheEntry) : o = S!Others(p, h) /\ Len(o) = Len(cache[p]) - 1
      BY <2>2, OthersShorter
    <3>2. PICK k \in S!Entries(p, h) : S!Touched(p, h) = Append(o, cache[p][k])
      <4> DEFINE k == CHOOSE i \in S!Entries(p, h) : TRUE
      <4>1. k \in S!Entries(p, h)
        BY <2>2
      <4>2. S!Touched(p, h) = Append(o, cache[p][k])
        BY <2>2, <3>1 DEF S!Touched
      <4>3. QED
        BY <4>1, <4>2
    <3>3. cache[p][k] \in CacheEntry
      BY <3>2 DEF S!Entries
    <3>4. Len(Append(o, cache[p][k])) = Len(o) + 1
      BY <3>1, <3>3, AppendProperties
    <3>5. QED
      BY <3>1, <3>2, <3>4
  <2>3. QED
    BY <2>1, <2>2
<1>2. ASSUME NEW e \in CacheEntry PROVE Len(S!Inserted(p, e)) <= Capacity
  <2>1. PICK o \in Seq(CacheEntry) : o = S!Others(p, e.host) /\ Len(o) <= Len(cache[p])
    BY OthersShorter
  <2>2. Len(o) \in Nat /\ Len(o) <= Capacity
    BY <2>1
  <2>3. CASE Len(o) = Capacity
    <3>1. S!Inserted(p, e) = Append(Tail(o), e)
      BY <2>1, <2>3 DEF S!Inserted
    <3>2. o # << >>
      BY <2>3
    <3>3. Tail(o) \in Seq(CacheEntry) /\ Len(Tail(o)) = Len(o) - 1
      BY <3>2, HeadTailProperties
    <3>4. Len(Append(Tail(o), e)) = Len(Tail(o)) + 1
      BY <3>3, AppendProperties
    <3>5. QED
      BY <2>2, <3>1, <3>3, <3>4
  <2>4. CASE Len(o) # Capacity
    <3>1. S!Inserted(p, e) = Append(o, e)
      BY <2>1, <2>4 DEF S!Inserted
    <3>2. Len(Append(o, e)) = Len(o) + 1
      BY AppendProperties
    <3>3. QED
      BY <2>2, <2>4, <3>1, <3>2
  <2>5. QED
    BY <2>3, <2>4
<1>3. QED
  BY <1>1, <1>2

\* The cache of a gateway holds one leaf of a host at most, and not more leaves
\* than its capacity, whatever hosts its threads are asked for and in which
\* order they insert (CertCache with its LruCache).
CacheBounded ==
    \A p \in Process : Len(cache[p]) <= Capacity /\ OnePerHost(cache[p])

LEMMA BoundStep ==
    ASSUME LeafInv, CacheBounded, LeafInv', S!Next \/ UNCHANGED certificateVars
    PROVE  CacheBounded'
<1>1. cache \in [Process -> Seq(CacheEntry)]
  BY DEF LeafInv, LeafTypes
<1>2. CASE UNCHANGED cache
  BY <1>2 DEF CacheBounded, OnePerHost
<1>3. ASSUME NEW g \in Process, NEW s, cache' = [cache EXCEPT ![g] = s], Len(s) <= Capacity
      PROVE  CacheBounded'
  <2>1. \A p \in Process : Len(cache'[p]) <= Capacity
    BY <1>1, <1>3 DEF CacheBounded
  <2>2. \A p \in Process : OnePerHost(cache'[p])
    BY DEF LeafInv, OnePerHost
  <2>3. QED
    BY <2>1, <2>2 DEF CacheBounded, OnePerHost
<1>4. ASSUME NEW t \in Thread, NEW h, cache' = [cache EXCEPT ![GatewayOf[t]] = S!Touched(GatewayOf[t], h)]
      PROVE  CacheBounded'
  <2>1. PICK g \in Process : g = GatewayOf[t]
    OBVIOUS
  <2>2. PICK s : s = S!Touched(g, h)
    OBVIOUS
  <2>3. Len(s) <= Capacity
    BY <1>1, <2>2, RoomKept DEF CacheBounded
  <2>4. QED
    BY <1>3, <1>4, <2>1, <2>2, <2>3
<1>5. ASSUME NEW t \in Thread, S!Connect(t)
      PROVE  CacheBounded'
  BY <1>4, <1>5 DEF S!Connect, S!Hit
<1>6. ASSUME NEW t \in Thread, S!InsertLeaf(t)
      PROVE  CacheBounded'
  <2>1. CASE S!Hit(t, host[t])
    BY <1>4, <2>1 DEF S!Hit
  <2>2. CASE cache' = [cache EXCEPT ![GatewayOf[t]] =
                S!Inserted(GatewayOf[t], [host |-> host[t], leaf |-> leaf[t], created |-> now])]
    <3>1. PICK e \in CacheEntry : e = [host |-> host[t], leaf |-> leaf[t], created |-> now]
      <4>1. step[t] = "insert"
        BY <1>6 DEF S!InsertLeaf
      <4>2. host[t] \in Host /\ leaf[t] \in Leaf /\ now \in Nat
        BY <4>1 DEF LeafInv, LeafTypes, Given
      <4>3. QED
        BY <4>2 DEF CacheEntry
    <3>2. PICK g \in Process : g = GatewayOf[t]
      OBVIOUS
    <3>3. PICK s : s = S!Inserted(g, e)
      OBVIOUS
    <3>4. Len(s) <= Capacity
      BY <1>1, <3>3, RoomKept DEF CacheBounded
    <3>5. QED
      BY <1>3, <2>2, <3>1, <3>2, <3>3, <3>4
  <2>3. QED
    BY <1>6, <2>1, <2>2 DEF S!InsertLeaf
<1>7. ASSUME NEW t \in Thread, S!Generate(t) \/ S!Disconnect(t)
      PROVE  UNCHANGED cache
  BY <1>7 DEF S!Generate, S!Disconnect
<1>8. ASSUME NEW p \in Process,
             \/ S!Check(p) \/ S!Lock(p) \/ S!Write(p) \/ S!RenameKey(p) \/ S!RenameCert(p)
             \/ S!GenerateFails(p) \/ S!Unlock(p) \/ S!Clean(p) \/ S!Wait(p) \/ S!Crash(p)
             \/ S!LoadCert(p) \/ S!LoadKey(p)
      PROVE  UNCHANGED cache
  BY <1>8 DEF S!Check, S!Lock, S!Write, S!RenameKey, S!RenameCert, S!GenerateFails, S!Unlock,
              S!Clean, S!Wait, S!Crash, S!LoadCert, S!LoadKey
<1>9. CASE S!RemoveLock \/ S!Tick \/ UNCHANGED certificateVars
  BY <1>2, <1>9 DEF S!RemoveLock, S!Tick, certificateVars
<1>10. QED
  BY <1>2, <1>5, <1>6, <1>7, <1>8, <1>9 DEF S!Next

THEOREM CacheStaysBounded == PartsSpec => []CacheBounded
<1>1. PartsInit => CacheBounded
  <2> SUFFICES ASSUME PartsInit PROVE CacheBounded
    OBVIOUS
  <2>1. \A p \in Process : cache[p] = << >>
    BY DEF PartsInit, S!Init
  <2>2. Len(<< >>) = 0
    OBVIOUS
  <2>3. QED
    BY <2>1, <2>2 DEF CacheBounded, OnePerHost
<1>2. LeafInv /\ LeafInv' /\ CacheBounded /\ [PartsNext]_allVars => CacheBounded'
  BY BoundStep DEF PartsNext, allVars, certificateVars
<1>3. QED
  BY <1>1, <1>2, CertificatesSafe, PTL DEF PartsSpec

\* The files of the CA, the gateways and their threads keep their types: in
\* particular a file is of one process as a whole, as the renames are atomic.
THEOREM CertificatesTyped == PartsSpec => [](CaTypes /\ LeafTypes)
<1>1. CaInv /\ LeafInv => CaTypes /\ LeafTypes
  BY DEF CaInv, LeafInv
<1>2. QED
  BY <1>1, CertificatesSafe, PTL

-----------------------------------------------------------------------------
(* The terminal UI.                                                        *)

\* Every task has a lens.
AllShown == DOMAIN shown = Tasks

LEMMA ShownStep ==
    ASSUME AllShown, [PartsNext]_allVars
    PROVE  AllShown'
<1> USE DEF AllShown
<1>1. CASE T!Next
  <2>1. ASSUME NEW k \in Tasks, T!Ask(k) \/ T!Fail(k) \/ T!Apply(k)
        PROVE  AllShown'
    BY <2>1 DEF T!Ask, T!Fail, T!Apply
  <2>2. CASE T!DrillSession
    BY <2>2 DEF T!DrillSession, T!Cleared
  <2>3. CASE T!DrillFeed \/ T!DrillTurn
    BY <2>3 DEF T!DrillFeed, T!DrillTurn
  <2>4. ASSUME T!Open \/ T!Pin \/ T!Back \/ T!Forward \/ T!CycleFilter \/ T!CycleGroup
                  \/ T!SetWindow \/ T!Search \/ T!Move \/ T!DrillCost \/ T!Quit
        PROVE  UNCHANGED shown
    BY <2>4 DEF T!Open, T!Pin, T!Back, T!Forward, T!CycleFilter, T!CycleGroup, T!SetWindow,
       T!Search, T!Move, T!DrillCost, T!Quit
  <2>5. QED
    BY <1>1, <2>1, <2>2, <2>3, <2>4 DEF T!Next, T!Press
<1>2. CASE UNCHANGED tuiVars
  BY <1>2 DEF tuiVars
<1>3. QED
  BY <1>1, <1>2 DEF PartsNext, allVars, tuiVars

\* The answer of a refresh finds its turn in the list.
LEMMA RefreshKeeps ==
    ASSUME AllShown, T!Apply("detail"), Head(coming["detail"]) = shown["detail"],
           ~filtered, T!SelectedTurn # None
    PROVE  T!SelectedTurn' = T!SelectedTurn
<1>1. PICK s : s = shown["detail"]
  OBVIOUS
<1>2. PICK t : t = T!SelectedTurn
  OBVIOUS
<1>3. /\ s # None /\ cursor \in DOMAIN TurnsOf[s] /\ t = TurnsOf[s][cursor]
  BY <1>1, <1>2 DEF T!SelectedTurn, T!Visible
<1>4. /\ shown' = [shown EXCEPT !["detail"] = Head(coming["detail"])]
      /\ T!ApplyDetail(s)
  BY <1>1 DEF T!Apply
<1>5. shown'["detail"] = s
  BY <1>1, <1>4, TuiAssumption DEF AllShown
<1>6. cursor' = T!PositionOf(t, s) /\ ~filtered'
  BY <1>1, <1>2, <1>4 DEF T!ApplyDetail, T!Focus
<1>7. cursor' \in DOMAIN TurnsOf[s] /\ TurnsOf[s][cursor'] = t
  BY <1>3, <1>6 DEF T!PositionOf
<1>8. QED
  BY <1>2, <1>3, <1>5, <1>6, <1>7 DEF T!SelectedTurn, T!Visible

\* An answer that refreshes the details of a session leaves the cursor on its
\* turn, wherever the user moved it (set_selected_to_id in lens_update), for any
\* sessions, keys and order of the answers.
THEOREM RefreshLeavesCursor == PartsSpec => RefreshKeepsTurn
<1>1. PartsInit => AllShown
  BY DEF PartsInit, T!Init, AllShown
<1> DEFINE Kept ==
        T!Apply("detail") /\ Head(coming["detail"]) = shown["detail"]
            /\ ~filtered /\ T!SelectedTurn # None
        => T!SelectedTurn' = T!SelectedTurn
<1>2. ASSUME AllShown PROVE [Kept]_T!vars
  BY <1>2, RefreshKeeps
<1>3. QED
  BY <1>1, <1>2, ShownStep, PTL DEF PartsSpec, RefreshKeepsTurn, T!RefreshKeepsTurn

-----------------------------------------------------------------------------
(* Positions and sizes in a stream of frames.                              *)

USE FramesAssumption

LEMMA FrameFacts ==
    ASSUME frames \in Seq(F!Frame)
    PROVE  /\ Len(frames) \in Nat /\ DOMAIN frames = 1 .. Len(frames)
           /\ \A n \in 1 .. Len(frames) :
                /\ frames[n] \in F!Frame /\ frames[n].size \in Nat \ {0}
                /\ frames[n].opcode \in Data => F!IsData(n)
<1>1. \A n \in 1 .. Len(frames) : frames[n] \in F!Frame
  OBVIOUS
<1>2. \A f \in F!Frame : f.size \in Nat \ {0}
  BY DEF F!Frame
<1>3. \A n : frames[n].opcode \in Data => F!IsData(n)
  BY DEF F!IsData
<1>4. QED
  BY <1>1, <1>2, <1>3

\* EndOf is a running sum, and goes up.
LEMMA EndOfFacts ==
    ASSUME frames \in Seq(F!Frame)
    PROVE  /\ F!EndOf \in [0 .. Len(frames) -> Nat]
           /\ F!EndOf[0] = 0
           /\ \A n \in 1 .. Len(frames) : F!EndOf[n] = F!EndOf[n - 1] + frames[n].size
           /\ \A k, l \in 0 .. Len(frames) : k < l => F!EndOf[k] < F!EndOf[l]
<1> DEFINE n == Len(frames)
           t == [i \in 1 .. n |-> frames[i].size]
           h == F!EndOf
<1>1. n \in Nat /\ \A i \in 1 .. n : t[i] = frames[i].size /\ t[i] \in Nat /\ t[i] > 0
  BY FrameFacts
<1>2. PICK f \in [0 .. n -> Nat] : SumOf(n, t, f)
  <2> HIDE DEF n, t
  <2>1. Numbers(n, t)
    BY <1>1 DEF Numbers
  <2>2. QED
    BY <2>1, RunningSum
<1>3. f = [i \in 0 .. n |-> IF i = 0 THEN 0 ELSE f[i - 1] + frames[i].size]
  <2>1. f = [i \in 0 .. n |-> IF i = 0 THEN 0 ELSE f[i - 1] + t[i]]
    BY <1>2 DEF SumOf
  <2> HIDE DEF n, t
  <2>2. \A i \in 0 .. n : i = 0 \/ i \in 1 .. n
    BY <1>1
  <2>3. QED
    BY <1>1, <2>1, <2>2
<1>4. h = [i \in 0 .. n |-> IF i = 0 THEN 0 ELSE h[i - 1] + frames[i].size]
  BY <1>3, Zenon DEF F!EndOf
<1>5. SumOf(n, t, h)
  <2> HIDE DEF h, n, t
  <2>1. \A i \in 0 .. n : i = 0 \/ i \in 1 .. n
    BY <1>1
  <2>2. QED
    BY <1>1, <1>4, <2>1 DEF SumOf
<1>6. h \in [0 .. n -> Nat] /\ h[0] = 0 /\ \A i \in 1 .. n : h[i] = h[i - 1] + t[i]
  <2> HIDE DEF n, t, h
  <2>1. Numbers(n, t)
    BY <1>1 DEF Numbers
  <2>2. Running(n, t, h)
    BY <1>5, <2>1, RunningSumFacts
  <2>3. QED
    BY <2>2 DEF Running
<1> HIDE DEF h, n, t
<1>7. \A i \in 1 .. n : h[i - 1] < h[i]
  <2>1. TAKE i \in 1 .. n
  <2>2. i - 1 \in 0 .. n /\ t[i] \in Nat /\ t[i] > 0 /\ h[i] = h[i - 1] + t[i]
    BY <1>1, <1>6
  <2>3. h[i - 1] \in Nat
    BY <1>6, <2>2
  <2>4. QED
    BY <2>2, <2>3
<1>8. ASSUME NEW k \in 0 .. n, NEW l \in 0 .. n, k < l PROVE h[k] < h[l]
  <2>1. k + 1 \in 1 .. n /\ k + 1 \in 0 .. n /\ l \in k + 1 .. n /\ k + 1 - 1 = k
    BY <1>1, <1>8
  <2>2. h[k] < h[k + 1]
    BY <1>7, <2>1
  <2>3. \A i \in 1 .. n : h[i - 1] <= h[i]
    <3>1. TAKE i \in 1 .. n
    <3>2. i - 1 \in 0 .. n /\ i \in 0 .. n
      BY <1>1
    <3>3. h[i - 1] \in Nat /\ h[i] \in Nat
      BY <1>6, <3>2
    <3>4. QED
      BY <1>7, <3>3
  <2>4. h[k + 1] <= h[l]
    BY <1>1, <1>6, <2>1, <2>3, SumGrows
  <2>5. h[k] \in Nat /\ h[k + 1] \in Nat /\ h[l] \in Nat
    BY <1>6, <2>1
  <2>6. QED
    BY <2>2, <2>4, <2>5
<1>9. QED
  BY <1>1, <1>6, <1>8 DEF h, n

\* DataTo is one too.
LEMMA DataToFacts ==
    ASSUME frames \in Seq(F!Frame)
    PROVE  /\ F!DataTo \in [0 .. Len(frames) -> Nat]
           /\ \A n \in 1 .. Len(frames) :
                F!DataTo[n] = IF F!IsData(n) THEN F!DataTo[n - 1] + frames[n].size
                              ELSE F!DataTo[n - 1]
<1> DEFINE n == Len(frames)
           t == [i \in 1 .. n |-> IF F!IsData(i) THEN frames[i].size ELSE 0]
           h == F!DataTo
           Then(g, i) == IF F!IsData(i) THEN g[i - 1] + frames[i].size ELSE g[i - 1]
<1>1. /\ n \in Nat
      /\ \A i \in 0 .. n : i = 0 \/ i \in 1 .. n
      /\ \A i \in 1 .. n : t[i] = (IF F!IsData(i) THEN frames[i].size ELSE 0) /\ t[i] \in Nat
  BY FrameFacts
<1>2. PICK f \in [0 .. n -> Nat] : SumOf(n, t, f)
  <2> HIDE DEF n, t
  <2>1. Numbers(n, t)
    BY <1>1 DEF Numbers
  <2>2. QED
    BY <2>1, RunningSum
<1>3. f[0] = 0 /\ \A i \in 1 .. n : f[i] = Then(f, i)
  <2> HIDE DEF n, t
  <2>a. Numbers(n, t)
    BY <1>1 DEF Numbers
  <2>b. Running(n, t, f)
    BY <1>2, <2>a, RunningSumFacts
  <2>1. f \in [0 .. n -> Nat] /\ f[0] = 0 /\ \A i \in 1 .. n : f[i] = f[i - 1] + t[i]
    BY <2>b DEF Running
  <2>2. ASSUME NEW i \in 1 .. n PROVE f[i] = Then(f, i)
    <3>1. i - 1 \in 0 .. n
      BY <1>1
    <3>2. f[i - 1] \in Nat /\ f[i] = f[i - 1] + t[i]
      BY <2>1, <3>1
    <3>3. QED
      BY <1>1, <3>2
  <2>3. QED
    BY <2>1, <2>2
<1>4. f = [i \in 0 .. n |-> IF i = 0 THEN 0 ELSE Then(f, i)]
  <2> HIDE DEF n, t, Then
  <2>1. f = [i \in 0 .. n |-> f[i]]
    BY <1>2
  <2>2. \A i \in 0 .. n : f[i] = IF i = 0 THEN 0 ELSE Then(f, i)
    BY <1>1, <1>3
  <2>3. QED
    BY <2>1, <2>2, Zenon
<1>5. h = [i \in 0 .. n |-> IF i = 0 THEN 0 ELSE Then(h, i)]
  BY <1>4, Zenon DEF F!DataTo
<1>6. h[0] = 0 /\ \A i \in 1 .. n : h[i] = Then(h, i)
  <2> HIDE DEF h, t, n, Then
  <2>1. 0 \in 0 .. n /\ \A i \in 1 .. n : i \in 0 .. n /\ i # 0
    BY <1>1
  <2>2. QED
    BY <1>5, <2>1
<1>7. \A i \in 0 .. n : f[i] = h[i]
  <2> HIDE DEF h, n, t
  <2>1. SameSteps(n, f, h)
    BY <1>1, <1>3, <1>6 DEF SameSteps
  <2>2. Same(n, f, h)
    BY <2>1, SameFrom
  <2>3. QED
    BY <2>2 DEF Same
<1>8. h \in [0 .. n -> Nat]
  <2> HIDE DEF h, n, t, Then
  <2>1. h = [i \in 0 .. n |-> h[i]]
    BY <1>5, Zenon
  <2>2. QED
    BY <1>2, <1>7, <2>1
<1>9. QED
  BY <1>6, <1>8

\* A frame in the buffer: its number and its size.
Piece == Nat \X Nat

\* SizeOf is a running sum at its end.
LEMMA SizeRuns ==
    ASSUME NEW q \in Seq(Piece), NEW n, n = Len(q), NEW t, t = [i \in 1 .. n |-> q[i][2]]
    PROVE  \E h : Running(n, t, h) /\ F!SizeOf(q) = h[n]
<1> DEFINE h == CHOOSE g : g = [i \in 0 .. n |-> IF i = 0 THEN 0 ELSE g[i - 1] + q[i][2]]
<1>1. Numbers(n, t)
  BY DEF Numbers, Piece
<1>2. n \in Nat /\ \A i \in 0 .. n : i = 0 \/ i \in 1 .. n
  OBVIOUS
<1>3. PICK f \in [0 .. n -> Nat] : SumOf(n, t, f)
  BY <1>1, RunningSum
<1>4. f = [i \in 0 .. n |-> IF i = 0 THEN 0 ELSE f[i - 1] + q[i][2]]
  <2>1. f = [i \in 0 .. n |-> IF i = 0 THEN 0 ELSE f[i - 1] + t[i]]
    BY <1>3 DEF SumOf
  <2>2. \A i \in 1 .. n : t[i] = q[i][2]
    OBVIOUS
  <2>3. QED
    BY <1>2, <2>1, <2>2
<1>5. h = [i \in 0 .. n |-> IF i = 0 THEN 0 ELSE h[i - 1] + q[i][2]]
  BY <1>4, Zenon
<1>6. F!SizeOf(q) = h[n]
  BY Zenon DEF F!SizeOf
<1>7. SumOf(n, t, h)
  <2> HIDE DEF h
  <2>1. \A i \in 1 .. n : t[i] = q[i][2]
    OBVIOUS
  <2>2. QED
    BY <1>2, <1>5, <2>1 DEF SumOf
<1>8. Running(n, t, h)
  BY <1>1, <1>7, RunningSumFacts
<1>9. QED
  BY <1>6, <1>8

\* The size of a sequence with one more piece.
LEMMA SizeOfAppend ==
    ASSUME NEW q \in Seq(Piece), NEW x \in Piece
    PROVE  /\ F!SizeOf(q) \in Nat
           /\ F!SizeOf(Append(q, x)) = F!SizeOf(q) + x[2]
           /\ F!SizeOf(<< x >>) = x[2]
<1> DEFINE Sizing(r, n, t) == n = Len(r) /\ t = [i \in 1 .. n |-> r[i][2]]
<1>1. ASSUME NEW r \in Seq(Piece)
      PROVE  /\ F!SizeOf(r) \in Nat
             /\ F!SizeOf(Append(r, x)) = F!SizeOf(r) + x[2]
             /\ r = << >> => F!SizeOf(r) = 0
  <2>1. PICK p : p = Append(r, x)
    OBVIOUS
  <2>2. PICK n, m, t, u : Sizing(r, n, t) /\ Sizing(p, m, u)
    OBVIOUS
  <2>3. /\ p \in Seq(Piece) /\ n \in Nat /\ m = n + 1 /\ p[m] = x /\ \A i \in 1 .. n : p[i] = r[i]
    BY <2>1, <2>2
  <2>4. PICK h : Running(n, t, h) /\ F!SizeOf(r) = h[n]
    BY <2>2, SizeRuns
  <2>5. PICK g : Running(m, u, g) /\ F!SizeOf(p) = g[m]
    <3>1. p \in Seq(Piece) /\ m = Len(p) /\ u = [i \in 1 .. m |-> p[i][2]]
      BY <2>2, <2>3
    <3>2. QED
      BY <3>1, SizeRuns
  <2>6. u[m] = x[2] /\ \A i \in 1 .. n : u[i] = t[i]
    BY <2>2, <2>3
  <2>7. g[m] = g[n] + x[2]
    <3>1. m \in 1 .. m /\ m - 1 = n
      BY <2>3
    <3>2. QED
      BY <2>5, <2>6, <3>1 DEF Running
  <2>8. SameSteps(n, h, g)
    <3>1. \A i \in 1 .. n : i \in 1 .. m
      BY <2>3
    <3>2. QED
      BY <2>3, <2>4, <2>5, <2>6, <3>1 DEF SameSteps, Running
  <2>9. h[n] = g[n]
    <3>1. Same(n, h, g) /\ n \in 0 .. n
      BY <2>3, <2>8, SameFrom
    <3>2. QED
      BY <3>1 DEF Same
  <2>10. h[n] \in Nat
    BY <2>3, <2>4 DEF Running
  <2>11. ASSUME r = << >> PROVE F!SizeOf(r) = 0
    BY <2>2, <2>4, <2>11 DEF Running
  <2>12. QED
    BY <2>1, <2>4, <2>5, <2>7, <2>9, <2>10, <2>11
<1>2. PICK z \in Seq(Piece) : z = << >>
  <2>1. << >> \in Seq(Piece)
    OBVIOUS
  <2>2. QED
    BY <2>1
<1>3. F!SizeOf(z) = 0 /\ F!SizeOf(Append(z, x)) = F!SizeOf(z) + x[2]
  BY <1>1, <1>2
<1>4. Append(z, x) = << x >> /\ x[2] \in Nat
  BY <1>2 DEF Piece
<1>5. QED
  BY <1>1, <1>3, <1>4

-----------------------------------------------------------------------------
(* The messages of a stream.                                               *)

\* Frame n starts a message that is not over at frame l.
Begun(n, l) ==
    /\ frames[n].opcode \in Data
    /\ \A m \in n + 1 .. l : frames[m].opcode \notin Data
    /\ \A m \in n .. l : F!IsData(m) => ~frames[m].fin

Awaited == \E n \in 1 .. Len(frames) : Begun(n, Len(frames))

\* What the peer sends: a continuation goes on with a message that has begun,
\* and a message begins when none is under way.
Sent ==
    /\ frames \in Seq(F!Frame)
    /\ F!Fragmented <=> Awaited
    /\ \A m \in 1 .. Len(frames) :
        /\ frames[m].opcode # "unknown"
        /\ frames[m].opcode \in Data => \A n \in 1 .. m - 1 : ~Begun(n, m - 1)
        /\ frames[m].opcode = "continuation" => \E n \in 1 .. m - 1 : Begun(n, m - 1)

LEMMA SentStep ==
    ASSUME Sent, NEW f \in F!Frame, F!Legal(f), frames' = Append(frames, f)
    PROVE  Sent'
<1>0. PICK L \in Nat, K \in Nat : L = Len(frames) /\ K = L + 1
  BY DEF Sent
<1>1. /\ L \in Nat /\ frames' \in Seq(F!Frame) /\ Len(frames') = K /\ frames'[K] = f
      /\ \A m \in 1 .. L : frames'[m] = frames[m]
      /\ DOMAIN frames = 1 .. L /\ DOMAIN frames' = 1 .. K
  BY <1>0 DEF Sent
<1>2. \A m \in 1 .. K : F!IsData(m)' <=> frames'[m].opcode # "control"
  BY DEF F!IsData
<1>3. \A m \in 1 .. L : F!IsData(m)' <=> F!IsData(m)
  <2>1. TAKE m \in 1 .. L
  <2>2. m \in 1 .. K /\ frames'[m] = frames[m]
    BY <1>0, <1>1
  <2>3. QED
    BY <1>2, <2>2 DEF F!IsData
<1>4. F!IsData(K)' <=> f.opcode # "control"
  BY <1>0, <1>1, <1>2
<1>5. ASSUME NEW l \in 0 .. L, NEW n \in 1 .. l PROVE Begun(n, l)' <=> Begun(n, l)
  <2>1. \A m \in n .. l : frames'[m] = frames[m] /\ (F!IsData(m)' <=> F!IsData(m))
    BY <1>0, <1>1, <1>3
  <2>2. n \in n .. l /\ \A m \in n + 1 .. l : m \in n .. l
    OBVIOUS
  <2>3. Begun(n, l)' <=> /\ frames'[n].opcode \in Data
                         /\ \A m \in n + 1 .. l : frames'[m].opcode \notin Data
                         /\ \A m \in n .. l : F!IsData(m)' => ~frames'[m].fin
    BY DEF Begun
  <2>4. QED
    BY <2>1, <2>2, <2>3 DEF Begun
<1>6. ASSUME NEW n \in 1 .. L
      PROVE  Begun(n, K)' <=> /\ Begun(n, L) /\ f.opcode \notin Data
                              /\ f.opcode # "control" => ~f.fin
  <2>1. \A m : m \in n .. K <=> m \in n .. L \/ m = K
    BY <1>0, <1>1
  <2>2. \A m : m \in n + 1 .. K <=> m \in n + 1 .. L \/ m = K
    BY <1>0, <1>1
  <2>3. Begun(n, L)' <=> Begun(n, L)
    BY <1>0, <1>1, <1>5
  <2>4. Begun(n, K)' <=> /\ frames'[n].opcode \in Data
                         /\ \A m \in n + 1 .. K : frames'[m].opcode \notin Data
                         /\ \A m \in n .. K : F!IsData(m)' => ~frames'[m].fin
    BY DEF Begun
  <2>5. Begun(n, L)' <=> /\ frames'[n].opcode \in Data
                         /\ \A m \in n + 1 .. L : frames'[m].opcode \notin Data
                         /\ \A m \in n .. L : F!IsData(m)' => ~frames'[m].fin
    BY DEF Begun
  <2>6. QED
    BY <1>0, <1>1, <1>4, <2>1, <2>2, <2>3, <2>4, <2>5
<1>7. Begun(K, K)' <=> f.opcode \in Data /\ ~f.fin
  <2>1. \A m : m \in K .. K <=> m = K
    BY <1>0, <1>1
  <2>2. \A m : m \notin K + 1 .. K
    BY <1>0, <1>1
  <2>3. Begun(K, K)' <=> /\ frames'[K].opcode \in Data
                         /\ \A m \in K + 1 .. K : frames'[m].opcode \notin Data
                         /\ \A m \in K .. K : F!IsData(m)' => ~frames'[m].fin
    BY DEF Begun
  <2>4. f.opcode \in Data => f.opcode # "control"
    OBVIOUS
  <2>5. QED
    BY <1>0, <1>1, <1>4, <2>1, <2>2, <2>3, <2>4
<1>8. F!Fragmented' <=> \/ f.opcode # "control" /\ ~f.fin
                        \/ f.opcode = "control" /\ F!Fragmented
  <2>1. F!Fragmented <=> \E n \in 1 .. L :
            F!IsData(n) /\ ~frames[n].fin /\ \A m \in n + 1 .. L : ~F!IsData(m)
    BY <1>0, <1>1 DEF F!Fragmented
  <2>2. F!Fragmented' <=> \E n \in 1 .. K :
            F!IsData(n)' /\ ~frames'[n].fin /\ \A m \in n + 1 .. K : ~F!IsData(m)'
    BY <1>0, <1>1 DEF F!Fragmented
  <2>3. ASSUME NEW n \in 1 .. L
        PROVE  (\A m \in n + 1 .. K : ~F!IsData(m)')
                 <=> f.opcode = "control" /\ \A m \in n + 1 .. L : ~F!IsData(m)
    <3>1. \A m : m \in n + 1 .. K <=> m \in n + 1 .. L \/ m = K
      BY <1>0, <1>1
    <3>2. \A m \in n + 1 .. L : m \in 1 .. L
      BY <1>0, <1>1
    <3>3. QED
      BY <1>3, <1>4, <3>1, <3>2
  <2>4. \A n : n \in 1 .. K <=> n \in 1 .. L \/ n = K
    BY <1>0, <1>1
  <2>5. \A m : m \notin K + 1 .. K
    BY <1>0, <1>1
  <2>6. QED
    BY <1>0, <1>1, <1>3, <1>4, <2>1, <2>2, <2>3, <2>4, <2>5
<1>9. F!Fragmented <=> \E n \in 1 .. L : Begun(n, L)
  BY <1>0 DEF Sent, Awaited
<1>10. \/ f.opcode = "control"
       \/ f.opcode = "continuation" /\ F!Fragmented
       \/ f.opcode \in Data /\ ~F!Fragmented
  BY DEF F!Legal
<1>11. F!Fragmented' <=> \E n \in 1 .. K : Begun(n, K)'
  <2>1. \A n : n \in 1 .. K <=> n \in 1 .. L \/ n = K
    BY <1>0, <1>1
  <2>2. "control" \notin Data /\ "continuation" \notin Data
    OBVIOUS
  <2>3. QED
    BY <1>6, <1>7, <1>8, <1>9, <1>10, <2>1, <2>2
<1>12. ASSUME NEW m \in 1 .. K
       PROVE  /\ frames'[m].opcode # "unknown"
              /\ frames'[m].opcode \in Data => \A n \in 1 .. m - 1 : ~Begun(n, m - 1)'
              /\ frames'[m].opcode = "continuation" => \E n \in 1 .. m - 1 : Begun(n, m - 1)'
  <2>1. m - 1 \in 0 .. L /\ \A n \in 1 .. m - 1 : Begun(n, m - 1)' <=> Begun(n, m - 1)
    BY <1>0, <1>1, <1>5
  <2>2. CASE m \in 1 .. L
    BY <1>0, <1>1, <2>1, <2>2 DEF Sent
  <2>3. CASE m = K
    <3>1. m - 1 = L /\ frames'[m] = f
      BY <1>0, <1>1, <2>3
    <3>2. "unknown" \notin Data /\ "continuation" \notin Data
      OBVIOUS
    <3>3. QED
      BY <1>9, <1>10, <2>1, <3>1, <3>2
  <2>4. QED
    BY <1>0, <1>1, <2>2, <2>3
<1>13. Awaited' <=> \E n \in 1 .. K : Begun(n, K)'
  BY <1>0, <1>1 DEF Awaited, Begun
<1>14. QED
  BY <1>0, <1>1, <1>11, <1>12, <1>13 DEF Sent

\* Which messages are under way after one more frame, and which are over.
LEMMA BegunStep ==
    ASSUME frames \in Seq(F!Frame), NEW q \in 1 .. Len(frames), NEW n \in 1 .. q
    PROVE  /\ Begun(n, q) <=>
                IF n = q THEN frames[q].opcode \in Data /\ ~frames[q].fin
                ELSE /\ Begun(n, q - 1) /\ frames[q].opcode \notin Data
                     /\ F!IsData(q) => ~frames[q].fin
           /\ F!Message(n, q) <=>
                IF n = q THEN frames[q].opcode \in Data /\ frames[q].fin
                ELSE /\ Begun(n, q - 1) /\ frames[q].opcode \notin Data
                     /\ F!IsData(q) /\ frames[q].fin
                     /\ F!DataTo[q] - F!DataTo[n - 1] <= MaxMessage
<1>1. frames[q].opcode \in Data => F!IsData(q)
  BY FrameFacts
<1>2. CASE n = q
  <2>1. \A m : m \in n .. q <=> m = q
    BY <1>2
  <2>2. \A m : m \notin n + 1 .. q /\ m \notin n .. q - 1
    BY <1>2
  <2>3. ~(n < q)
    BY <1>2
  <2>4. QED
    BY <1>1, <1>2, <2>1, <2>2, <2>3 DEF Begun, F!Message
<1>3. CASE n # q
  <2>1. \A m : m \in n .. q <=> m \in n .. q - 1 \/ m = q
    BY <1>3
  <2>2. \A m : m \in n + 1 .. q <=> m \in n + 1 .. q - 1 \/ m = q
    BY <1>3
  <2>3. n < q
    BY <1>3
  <2>4. QED
    BY <1>3, <2>1, <2>2, <2>3 DEF Begun, F!Message
<1>4. QED
  BY <1>2, <1>3

\* One message is under way.
LEMMA BegunOnce ==
    ASSUME NEW l \in Nat, NEW n \in 1 .. l, NEW k \in 1 .. l, Begun(n, l), Begun(k, l)
    PROVE  n = k
<1>1. ASSUME n < k PROVE FALSE
  <2>1. k \in n + 1 .. l
    BY <1>1
  <2>2. QED
    BY <2>1 DEF Begun
<1>2. ASSUME k < n PROVE FALSE
  <2>1. n \in k + 1 .. l
    BY <1>2
  <2>2. QED
    BY <2>1 DEF Begun
<1>3. QED
  BY <1>1, <1>2

\* What the frames up to the next one bring.
LEMMA BringsMore ==
    ASSUME frames \in Seq(F!Frame), NEW q \in 1 .. Len(frames), NEW n \in 1 .. q - 1,
           NEW x \in Seq(Piece), F!Brings(x, n, q - 1)
    PROVE  /\ F!IsData(q) => F!Brings(Append(x, << q, frames[q].size >>), n, q)
           /\ ~F!IsData(q) => F!Brings(x, n, q)
<1> DEFINE Of(l) == {<< m, frames[m].size >> : m \in {c \in n .. l : F!IsData(c)}}
           All(y) == {y[i] : i \in DOMAIN y}
<1>1. \A m : m \in n .. q <=> m \in n .. q - 1 \/ m = q
  OBVIOUS
<1>2. All(x) = Of(q - 1) /\ \A i, j \in DOMAIN x : i < j => x[i][1] < x[j][1]
  BY DEF F!Brings
<1>3. CASE ~F!IsData(q)
  <2>1. Of(q) = Of(q - 1)
    BY <1>1, <1>3
  <2>2. QED
    BY <1>2, <1>3, <2>1 DEF F!Brings
<1>4. CASE F!IsData(q)
  <2>1. PICK z : z = << q, frames[q].size >>
    OBVIOUS
  <2>2. z[1] = q /\ z \in Piece
    BY <2>1, FrameFacts DEF Piece
  <2>3. PICK y \in Seq(Piece) : y = Append(x, z)
    <3>1. Append(x, z) \in Seq(Piece)
      BY <2>2
    <3>2. QED
      BY <3>1
  <2>4. PICK k \in Nat : k = Len(x)
    OBVIOUS
  <2>5. /\ DOMAIN x = 1 .. k /\ DOMAIN y = 1 .. k + 1
        /\ y[k + 1] = z /\ \A i \in 1 .. k : y[i] = x[i]
    BY <2>2, <2>3, <2>4
  <2>6. \A i : i \in 1 .. k + 1 <=> i \in 1 .. k \/ i = k + 1
    OBVIOUS
  <2>7. Of(q) = Of(q - 1) \cup {z}
    BY <1>1, <1>4, <2>1
  <2>8. All(y) = All(x) \cup {z}
    BY <2>5, <2>6
  <2>9. ASSUME NEW i \in 1 .. k PROVE x[i][1] < q
    <3>1. x[i] \in Of(q - 1)
      BY <1>2, <2>5
    <3>2. PICK m \in n .. q - 1 : x[i] = << m, frames[m].size >>
      BY <3>1
    <3>3. x[i][1] = m
      BY <3>2
    <3>4. QED
      BY <3>2, <3>3
  <2>10. ASSUME NEW i \in 1 .. k + 1, NEW j \in 1 .. k + 1, i < j PROVE y[i][1] < y[j][1]
    <3>1. i \in 1 .. k /\ y[i] = x[i]
      BY <2>5, <2>10
    <3>2. CASE j = k + 1
      BY <2>2, <2>5, <2>9, <3>1, <3>2
    <3>3. CASE j # k + 1
      <4>1. j \in 1 .. k /\ y[j] = x[j]
        BY <2>5, <3>3
      <4>2. QED
        BY <1>2, <2>5, <2>10, <3>1, <4>1
    <3>4. QED
      BY <3>2, <3>3
  <2>11. All(y) = Of(q)
    BY <1>2, <2>7, <2>8
  <2>12. F!Brings(y, n, q)
    <3> HIDE <1>1, <1>2
    <3>1. \A i, j \in DOMAIN y : i < j => y[i][1] < y[j][1]
      BY <2>5, <2>10
    <3>2. QED
      BY <2>11, <3>1 DEF F!Brings
  <2>13. QED
    BY <1>4, <2>1, <2>3, <2>12
<1>5. QED
  BY <1>3, <1>4

\* A frame alone.
LEMMA BringsOne ==
    ASSUME frames \in Seq(F!Frame), NEW q \in 1 .. Len(frames), F!IsData(q)
    PROVE  F!Brings(<< << q, frames[q].size >> >>, q, q)
<1>1. PICK z : z = << q, frames[q].size >>
  OBVIOUS
<1>2. PICK y : y = << z >>
  OBVIOUS
<1>3. DOMAIN y = {1} /\ y[1] = z
  BY <1>2
<1>4. {<< m, frames[m].size >> : m \in {c \in q .. q : F!IsData(c)}} = {z}
  <2>1. \A m : m \in q .. q <=> m = q
    OBVIOUS
  <2>2. QED
    BY <1>1, <2>1
<1>5. {y[i] : i \in DOMAIN y} = {z}
  BY <1>3
<1>6. QED
  BY <1>1, <1>2, <1>3, <1>4, <1>5 DEF F!Brings

-----------------------------------------------------------------------------
(* The messages that were handed on, and the one under way.                *)

\* a has the messages up to frame p.
Exact(a, p) ==
    /\ a \in Seq(Seq(Piece))
    /\ \A i \in 1 .. Len(a) : \E l \in 1 .. p : \E n \in 1 .. l :
            F!Message(n, l) /\ F!Brings(a[i], n, l)
    /\ \A l \in 1 .. p : \A n \in 1 .. l :
            F!Message(n, l) => \E i \in 1 .. Len(a) : F!Brings(a[i], n, l)
    /\ \A i, j \in 1 .. Len(a) : i < j => F!Precedes(a[i], a[j])

\* The buffer b has the fragments of the message under way at frame p, unless
\* that is too long already; st is start_opcode.
Gathered(st, b, p) ==
    /\ b \in Seq(Piece)
    /\ st = NoOpcode => b = << >>
    /\ st # NoOpcode => \E n \in 1 .. p : Begun(n, p)
    /\ \A n \in 1 .. p : Begun(n, p) =>
        IF st = NoOpcode THEN F!DataTo[p] - F!DataTo[n - 1] > MaxMessage
        ELSE F!Brings(b, n, p) /\ F!SizeOf(b) = F!DataTo[p] - F!DataTo[n - 1]

\* A frame that ends no message.
LEMMA ExactSame ==
    ASSUME frames \in Seq(F!Frame), NEW q \in 1 .. Len(frames), NEW a, Exact(a, q - 1),
           \A n \in 1 .. q : ~F!Message(n, q)
    PROVE  Exact(a, q)
<1>1. \A l : l \in 1 .. q <=> l \in 1 .. q - 1 \/ l = q
  OBVIOUS
<1>2. QED
  BY <1>1 DEF Exact

\* A frame that ends one.
LEMMA ExactMore ==
    ASSUME frames \in Seq(F!Frame), NEW q \in 1 .. Len(frames), NEW a, Exact(a, q - 1),
           NEW n \in 1 .. q, F!Message(n, q), NEW x \in Seq(Piece), F!Brings(x, n, q)
    PROVE  Exact(Append(a, x), q)
<1>1. PICK k \in Nat, b \in Seq(Seq(Piece)) : k = Len(a) /\ b = Append(a, x)
  <2>1. Append(a, x) \in Seq(Seq(Piece)) /\ Len(a) \in Nat
    BY DEF Exact
  <2>2. QED
    BY <2>1
<1>2. Len(b) = k + 1 /\ b[k + 1] = x /\ \A i \in 1 .. k : b[i] = a[i]
  BY <1>1 DEF Exact
<1>3. \A i : i \in 1 .. k + 1 <=> i \in 1 .. k \/ i = k + 1
  OBVIOUS
<1>4. \A l : l \in 1 .. q <=> l \in 1 .. q - 1 \/ l = q
  OBVIOUS
<1>5. ASSUME NEW i \in 1 .. k
      PROVE  \E l \in 1 .. q - 1 : \E m \in 1 .. l : F!Message(m, l) /\ F!Brings(a[i], m, l)
  BY <1>1 DEF Exact
<1>6. ASSUME NEW i \in 1 .. k + 1
      PROVE  \E l \in 1 .. q : \E m \in 1 .. l : F!Message(m, l) /\ F!Brings(b[i], m, l)
  <2>1. CASE i \in 1 .. k
    BY <1>2, <1>4, <1>5, <2>1
  <2>2. CASE i = k + 1
    BY <1>2, <2>2
  <2>3. QED
    BY <1>3, <2>1, <2>2
<1>7. ASSUME NEW l \in 1 .. q, NEW m \in 1 .. l, F!Message(m, l)
      PROVE  \E i \in 1 .. k + 1 : F!Brings(b[i], m, l)
  <2>1. CASE l \in 1 .. q - 1
    <3>1. PICK i \in 1 .. k : F!Brings(a[i], m, l)
      BY <1>1, <1>7, <2>1 DEF Exact
    <3>2. i \in 1 .. k + 1 /\ b[i] = a[i]
      BY <1>2, <1>3
    <3>3. F!Brings(b[i], m, l)
      BY <3>1, <3>2
    <3>4. QED
      BY <3>2, <3>3
  <2>2. CASE l = q
    <3>1. m = n
      <4>1. CASE m = q \/ n = q
        BY <1>7, <2>2, <4>1, BegunStep
      <4>2. CASE m # q /\ n # q
        <5>1. m \in 1 .. q - 1 /\ n \in 1 .. q - 1 /\ q - 1 \in Nat
          BY <2>2, <4>2
        <5>2. Begun(m, q - 1) /\ Begun(n, q - 1)
          BY <1>7, <2>2, <4>2, BegunStep
        <5>3. QED
          BY <5>1, <5>2, BegunOnce
      <4>3. QED
        BY <4>1, <4>2
    <3>2. k + 1 \in 1 .. k + 1
      OBVIOUS
    <3>3. QED
      BY <1>2, <2>2, <3>1, <3>2
  <2>3. QED
    BY <1>4, <2>1, <2>2
<1>8. ASSUME NEW i \in 1 .. k PROVE F!Precedes(a[i], x)
  <2>1. PICK l \in 1 .. q - 1 : \E m \in 1 .. l : F!Message(m, l) /\ F!Brings(a[i], m, l)
    BY <1>5
  <2>2. PICK m \in 1 .. l : F!Message(m, l) /\ F!Brings(a[i], m, l)
    BY <2>1
  <2>3. l < n
    <3>1. F!IsData(l) /\ frames[l].fin
      BY <2>2 DEF F!Message
    <3>2. CASE n = q
      BY <3>2
    <3>3. CASE n # q
      <4>1. Begun(n, q - 1)
        BY <3>3, BegunStep
      <4>2. ~(l \in n .. q - 1)
        BY <3>1, <4>1 DEF Begun
      <4>3. QED
        BY <4>2
    <3>4. QED
      BY <3>2, <3>3
  <2>4. ASSUME NEW u, NEW h, NEW g, F!Brings(u, h, g), NEW c \in DOMAIN u
        PROVE  \E j \in h .. g : u[c][1] = j
    <3>1. u[c] \in {<< j, frames[j].size >> : j \in {o \in h .. g : F!IsData(o)}}
      BY <2>4 DEF F!Brings
    <3>2. PICK j \in h .. g : u[c] = << j, frames[j].size >>
      BY <3>1
    <3>3. u[c][1] = j
      BY <3>2
    <3>4. QED
      BY <3>3
  <2>5. ASSUME NEW c \in DOMAIN a[i], NEW d \in DOMAIN x PROVE a[i][c][1] < x[d][1]
    <3>1. PICK j \in m .. l : a[i][c][1] = j
      <4>1. PICK u : u = a[i]
        OBVIOUS
      <4>2. F!Brings(u, m, l) /\ c \in DOMAIN u
        BY <2>2, <4>1
      <4>3. \E j \in m .. l : u[c][1] = j
        BY <2>4, <4>2
      <4>4. QED
        BY <4>1, <4>3
    <3>2. PICK o \in n .. q : x[d][1] = o
      BY <2>4
    <3>3. QED
      BY <2>3, <3>1, <3>2
  <2>6. QED
    BY <2>5 DEF F!Precedes
<1>9. ASSUME NEW i \in 1 .. k + 1, NEW j \in 1 .. k + 1, i < j PROVE F!Precedes(b[i], b[j])
  <2>1. i \in 1 .. k /\ b[i] = a[i]
    BY <1>2, <1>9
  <2>2. CASE j = k + 1
    BY <1>2, <1>8, <2>1, <2>2
  <2>3. CASE j # k + 1
    <3>1. j \in 1 .. k /\ b[j] = a[j]
      BY <1>2, <1>3, <2>3
    <3>2. QED
      BY <1>1, <1>9, <2>1, <3>1 DEF Exact
  <2>4. QED
    BY <2>2, <2>3
<1>10. Exact(b, q)
  BY <1>1, <1>2, <1>6, <1>7, <1>9 DEF Exact
<1>11. QED
  BY <1>1, <1>10

\* MessageAssembler::push of the next frame of the stream.
LEMMA PushStep ==
    ASSUME Sent, NEW q \in 1 .. Len(frames), F!Push(frames[q], q),
           Exact(captured, q - 1), Gathered(start, buffer, q - 1),
           NEW a, a = captured', NEW st, st = start', NEW b, b = buffer'
    PROVE  Exact(a, q) /\ Gathered(st, b, q)
<1> DEFINE f == frames[q]
           x == << q, f.size >>
           Due(n) == F!DataTo[q] - F!DataTo[n - 1]
<1>1. /\ frames \in Seq(F!Frame) /\ f \in F!Frame /\ x \in Piece /\ f.size \in Nat \ {0}
      /\ f.opcode \in Data \/ f.opcode = "continuation" \/ f.opcode = "control"
      /\ f.fin \in BOOLEAN
  <2>1. frames \in Seq(F!Frame) /\ f \in F!Frame /\ f.opcode # "unknown"
    BY DEF Sent
  <2>2. f.size \in Nat \ {0}
    BY <2>1, FrameFacts
  <2>3. f.opcode \in F!Opcode /\ f.fin \in BOOLEAN
    BY <2>1 DEF F!Frame
  <2>4. QED
    BY <2>1, <2>2, <2>3 DEF F!Opcode, Piece
<1>2. F!IsData(q) <=> f.opcode # "control"
  BY DEF F!IsData
<1>3. "control" \notin Data /\ "continuation" \notin Data /\ "control" # "continuation"
  OBVIOUS
<1>4. \A n \in 1 .. q :
        /\ Begun(n, q) <=> IF n = q THEN f.opcode \in Data /\ ~f.fin
                           ELSE /\ Begun(n, q - 1) /\ f.opcode \notin Data
                                /\ F!IsData(q) => ~f.fin
        /\ F!Message(n, q) <=> IF n = q THEN f.opcode \in Data /\ f.fin
                               ELSE /\ Begun(n, q - 1) /\ f.opcode \notin Data
                                    /\ F!IsData(q) /\ f.fin /\ Due(n) <= MaxMessage
  BY <1>1, BegunStep
<1>5. /\ \A n : n \in 1 .. q <=> n \in 1 .. q - 1 \/ n = q
      /\ \A n \in 1 .. q - 1 : n # q /\ n - 1 \in 0 .. Len(frames)
      /\ q - 1 \in Nat /\ q - 1 \in 0 .. Len(frames) /\ q \in 0 .. Len(frames)
  BY FrameFacts
<1>6. /\ \A n \in 0 .. Len(frames) : F!DataTo[n] \in Nat
      /\ F!DataTo[q] = IF F!IsData(q) THEN F!DataTo[q - 1] + f.size ELSE F!DataTo[q - 1]
  BY <1>1, DataToFacts
<1>7. buffer \in Seq(Piece) /\ (start = NoOpcode => buffer = << >>)
  BY DEF Gathered
<1>8. << >> \in Seq(Piece)
  OBVIOUS
<1>9. CASE f.opcode = "control"
  <2>1. a = captured /\ st = start /\ b = buffer
    BY <1>3, <1>9 DEF F!Push, F!assembler
  <2>2. ~F!IsData(q)
    BY <1>2, <1>9
  <2>3. \A n \in 1 .. q : ~F!Message(n, q)
    BY <1>3, <1>4, <1>9, <2>2
  <2>4. Exact(a, q)
    BY <1>1, <2>1, <2>3, ExactSame
  <2>5. \A n : n \in 1 .. q /\ Begun(n, q) <=> n \in 1 .. q - 1 /\ Begun(n, q - 1)
    BY <1>3, <1>4, <1>5, <1>9, <2>2
  <2>6. ASSUME NEW n \in 1 .. q - 1, F!Brings(buffer, n, q - 1) PROVE F!Brings(buffer, n, q)
    BY <1>1, <1>7, <2>2, <2>6, BringsMore
  <2>7. F!DataTo[q] = F!DataTo[q - 1]
    BY <1>6, <2>2
  <2>8. QED
    BY <2>1, <2>4, <2>5, <2>6, <2>7 DEF Gathered
<1>10. CASE f.opcode \in Data
  <2>1. \A n \in 1 .. q - 1 : ~Begun(n, q - 1)
    BY <1>10 DEF Sent
  <2>2. start = NoOpcode /\ buffer = << >>
    BY <2>1 DEF Gathered
  <2>3. F!Brings(<< x >>, q, q) /\ << x >> \in Seq(Piece)
    BY <1>1, <1>2, <1>3, <1>10, BringsOne
  <2>4. q \in 1 .. q
    BY <1>5
  <2>5. IF f.fin THEN a = Append(captured, << x >>) /\ st = start /\ b = buffer
        ELSE a = captured /\ st = f.opcode /\ b = << x >>
    BY <1>3, <1>10 DEF F!Push
  <2>6. CASE f.fin
    <3>1. F!Message(q, q) /\ \A n \in 1 .. q : ~Begun(n, q)
      BY <1>4, <1>5, <1>10, <2>4, <2>6
    <3>2. Exact(a, q)
      <4> DEFINE y == << x >>
      <4>1. y \in Seq(Piece) /\ F!Brings(y, q, q) /\ a = Append(captured, y)
        BY <2>3, <2>5, <2>6
      <4> HIDE DEF y
      <4>2. Exact(Append(captured, y), q)
        BY <1>1, <2>4, <3>1, <4>1, ExactMore
      <4>3. QED
        BY <4>1, <4>2
    <3>3. QED
      BY <1>8, <2>2, <2>5, <2>6, <3>1, <3>2 DEF Gathered
  <2>7. CASE ~f.fin
    <3>1. Begun(q, q)
      BY <1>4, <1>10, <2>4, <2>7
    <3>2. \A n \in 1 .. q : ~F!Message(n, q) /\ (Begun(n, q) => n = q)
      BY <1>4, <1>10, <2>7
    <3>3. Exact(a, q)
      BY <1>1, <2>5, <2>7, <3>2, ExactSame
    <3>4. F!SizeOf(<< x >>) = F!DataTo[q] - F!DataTo[q - 1]
      <4>1. F!SizeOf(<< x >>) = x[2] /\ x[2] = f.size
        <5>1. PICK y : y = x
          OBVIOUS
        <5>2. F!SizeOf(<< y >>) = y[2] /\ y \in Piece
          BY <1>1, <1>8, <5>1, SizeOfAppend
        <5>3. QED
          BY <5>1, <5>2
      <4>2. F!DataTo[q] = F!DataTo[q - 1] + f.size
        BY <1>2, <1>3, <1>6, <1>10
      <4>3. F!DataTo[q - 1] \in Nat
        BY <1>5, <1>6
      <4>4. QED
        BY <1>1, <4>1, <4>2, <4>3
    <3>5. st # NoOpcode /\ b = << x >>
      BY <1>10, <2>5, <2>7
    <3>6. QED
      <4> HIDE DEF x
      <4> QED
        BY <2>3, <2>4, <3>1, <3>2, <3>3, <3>4, <3>5 DEF Gathered
  <2>8. QED
    BY <2>6, <2>7
<1>11. CASE f.opcode = "continuation"
  <2>1. PICK n \in 1 .. q - 1 : Begun(n, q - 1)
    BY <1>11 DEF Sent
  <2>2. \A k \in 1 .. q - 1 : Begun(k, q - 1) => k = n
    BY <1>5, <2>1, BegunOnce
  <2>3. n \in 1 .. q /\ n # q /\ F!IsData(q) /\ f.opcode \notin Data
    BY <1>2, <1>3, <1>5, <1>11
  <2>4. \A k \in 1 .. q : /\ Begun(k, q) => k = n /\ ~f.fin
                          /\ F!Message(k, q) => k = n /\ f.fin /\ Due(n) <= MaxMessage
    BY <1>4, <1>5, <2>2, <2>3
  <2>5. /\ Begun(n, q) <=> ~f.fin
        /\ F!Message(n, q) <=> f.fin /\ Due(n) <= MaxMessage
    BY <1>4, <2>1, <2>3
  <2>6. /\ F!DataTo[q - 1] \in Nat /\ F!DataTo[n - 1] \in Nat /\ f.size \in Nat
        /\ F!DataTo[q] = F!DataTo[q - 1] + f.size
    BY <1>1, <1>5, <1>6, <2>3
  <2>7. Due(n) \in Int /\ Due(n) = F!DataTo[q - 1] - F!DataTo[n - 1] + f.size
    BY <2>6
  <2>8. CASE Due(n) > MaxMessage /\ a = captured /\ st = NoOpcode /\ b = << >>
    <3>1. \A k \in 1 .. q : ~F!Message(k, q)
      BY <2>4, <2>7, <2>8
    <3>2. Exact(a, q)
      BY <1>1, <2>8, <3>1, ExactSame
    <3>3. QED
      BY <1>8, <2>4, <2>8, <3>2 DEF Gathered
  <2>9. CASE start = NoOpcode
    <3>1. a = captured /\ st = start /\ b = buffer
      BY <1>3, <1>11, <2>9 DEF F!Push, F!assembler
    <3>2. F!DataTo[q - 1] - F!DataTo[n - 1] > MaxMessage
      BY <2>1, <2>9 DEF Gathered
    <3>3. \A i, j, k, m \in Nat : i - j > m => i - j + k > m
      OBVIOUS
    <3>4. MaxMessage \in Nat
      BY FramesAssumption
    <3>5. Due(n) > MaxMessage
      BY <2>6, <2>7, <3>2, <3>3, <3>4, Zenon
    <3>6. QED
      BY <1>7, <2>8, <2>9, <3>1, <3>5
  <2>10. CASE start # NoOpcode
    <3>1. PICK all : all = Append(buffer, x)
      OBVIOUS
    <3>2. /\ all \in Seq(Piece) /\ F!Brings(all, n, q)
          /\ F!SizeOf(all) = Due(n)
      <4>1. /\ F!Brings(buffer, n, q - 1)
            /\ F!SizeOf(buffer) = F!DataTo[q - 1] - F!DataTo[n - 1]
        BY <2>1, <2>10 DEF Gathered
      <4>2. F!Brings(all, n, q)
        BY <1>1, <1>7, <2>3, <3>1, <4>1, BringsMore
      <4>3. F!SizeOf(all) = F!SizeOf(buffer) + f.size
        <5>1. PICK y : y = x
          OBVIOUS
        <5>2. y \in Piece /\ y[2] = f.size
          BY <1>1, <5>1
        <5>3. F!SizeOf(Append(buffer, y)) = F!SizeOf(buffer) + y[2]
          BY <1>7, <5>2, SizeOfAppend
        <5>4. QED
          BY <3>1, <5>1, <5>2, <5>3
      <4>4. all \in Seq(Piece)
        BY <1>1, <1>7, <3>1
      <4>5. QED
        BY <2>6, <2>7, <4>1, <4>2, <4>3, <4>4
    <3>3. /\ st = IF Due(n) > MaxMessage \/ f.fin THEN NoOpcode ELSE start
          /\ b = IF Due(n) > MaxMessage \/ f.fin THEN << >> ELSE all
          /\ a = IF Due(n) <= MaxMessage /\ f.fin THEN Append(captured, all) ELSE captured
      <4>1. buffer \o << x >> = all
        BY <1>1, <1>7, <3>1
      <4>2. f.opcode \notin Data \cup {"control", "unknown"}
        BY <1>3, <1>11
      <4>3. QED
        <5> HIDE DEF Due
        <5> QED
          BY <1>11, <2>10, <3>2, <4>1, <4>2 DEF F!Push
    <3>4. CASE Due(n) > MaxMessage
      BY <2>7, <2>8, <3>3, <3>4
    <3>5. CASE ~(Due(n) > MaxMessage) /\ f.fin
      <4>1. Due(n) <= MaxMessage /\ F!Message(n, q)
        BY <2>5, <2>7, <3>5
      <4>2. Exact(a, q)
        BY <1>1, <2>3, <3>2, <3>3, <3>5, <4>1, ExactMore
      <4>3. \A k \in 1 .. q : ~Begun(k, q)
        BY <2>4, <3>5
      <4>4. st = NoOpcode /\ b = << >>
        BY <3>3, <3>5
      <4>5. QED
        BY <1>8, <4>2, <4>3, <4>4 DEF Gathered
    <3>6. CASE ~(Due(n) > MaxMessage) /\ ~f.fin
      <4>1. a = captured /\ st = start /\ b = all
        BY <3>3, <3>6
      <4>2. \A k \in 1 .. q : ~F!Message(k, q)
        BY <2>4, <3>6
      <4>3. Exact(a, q)
        BY <1>1, <4>1, <4>2, ExactSame
      <4>4. Begun(n, q)
        BY <2>5, <3>6
      <4>5. QED
        BY <2>3, <2>4, <2>10, <3>2, <4>1, <4>3, <4>4 DEF Gathered
    <3>7. QED
      BY <3>4, <3>5, <3>6
  <2>11. QED
    BY <2>9, <2>10
<1>12. QED
  BY <1>1, <1>9, <1>10, <1>11

-----------------------------------------------------------------------------
(* The invariant of the frames.                                            *)

\* No frames came with the headers, and none exceeds the residue that is kept.
Undisturbed == headless = 0 /\ \A n \in 1 .. Len(frames) : frames[n].size <= MaxAccum

\* The stream was parsed up to a frame.
Aligned(p) ==
    /\ parsed = F!EndOf[p]
    /\ got \in Nat /\ parsed <= got /\ got <= F!EndOf[Len(frames)]
    /\ Exact(captured, p)
    /\ Gathered(start, buffer, p)

FramesInv ==
    /\ Sent
    /\ loop = "headers" =>
        got = 0 /\ parsed = 0 /\ start = NoOpcode /\ buffer = << >> /\ captured = << >>
    /\ Undisturbed /\ loop # "headers" => \E p \in 0 .. Len(frames) : Aligned(p)

\* What frames alone determines.
LEMMA SameFrames ==
    ASSUME frames' = frames
    PROVE  /\ Sent' <=> Sent
           /\ F!EndOf' = F!EndOf /\ F!DataTo' = F!DataTo
           /\ \A a, p : Exact(a, p)' <=> Exact(a, p)
           /\ \A st, b, p : Gathered(st, b, p)' <=> Gathered(st, b, p)
<1>1. F!EndOf' = F!EndOf
  BY Zenon DEF F!EndOf
<1>2. \A n : F!IsData(n)' <=> F!IsData(n)
  BY DEF F!IsData
<1>3. F!DataTo' = F!DataTo
  BY Zenon DEF F!DataTo, F!IsData
<1>4. \A n, l : (Begun(n, l)' <=> Begun(n, l)) /\ (F!Message(n, l)' <=> F!Message(n, l))
  BY <1>2, <1>3 DEF Begun, F!Message
<1>5. \A x, n, l : F!Brings(x, n, l)' <=> F!Brings(x, n, l)
  BY <1>2 DEF F!Brings
<1>6. \A x, y : F!Precedes(x, y)' <=> F!Precedes(x, y)
  BY DEF F!Precedes
<1>7. \A a, p : Exact(a, p)' <=> Exact(a, p)
  BY <1>4, <1>5, <1>6 DEF Exact
<1>8. \A st, b, p : Gathered(st, b, p)' <=> Gathered(st, b, p)
  BY <1>3, <1>4, <1>5 DEF Gathered, F!SizeOf
<1>9. Sent' <=> Sent
  BY <1>2, <1>4 DEF Sent, Awaited, F!Fragmented
<1>10. QED
  BY <1>1, <1>3, <1>7, <1>8, <1>9

\* The invariant for given values.
LEMMA AlignedNext ==
    ASSUME frames' = frames, NEW p, NEW a, a = captured', NEW st, st = start',
           NEW b, b = buffer',
           parsed' = F!EndOf[p], got' \in Nat, parsed' <= got', got' <= F!EndOf[Len(frames)],
           Exact(a, p), Gathered(st, b, p)
    PROVE  Aligned(p)'
<1>1. Exact(captured, p)'
  <2>1. Exact(a, p)'
    BY SameFrames
  <2>2. QED
    BY <2>1 DEF Exact
<1>2. Gathered(start, buffer, p)'
  <2>1. Gathered(st, b, p)'
    BY SameFrames
  <2>2. QED
    BY <2>1 DEF Gathered
<1>3. F!EndOf' = F!EndOf
  BY SameFrames
<1>4. QED
  BY <1>1, <1>2, <1>3 DEF Aligned

\* The initial states satisfy the invariant.
LEMMA FramesInit == F!Init => FramesInv
<1> SUFFICES ASSUME F!Init PROVE FramesInv
  OBVIOUS
<1>1. frames = << >> /\ frames \in Seq(F!Frame) /\ Len(frames) = 0 /\ DOMAIN frames = {}
  BY DEF F!Init
<1>2. ~F!Fragmented /\ ~Awaited
  BY <1>1 DEF F!Fragmented, Awaited
<1>3. Sent
  BY <1>1, <1>2 DEF Sent
<1>4. QED
  BY <1>3 DEF F!Init, FramesInv

\* SendFrame and ReadHeaders.
LEMMA HeadersInv ==
    ASSUME FramesInv, F!SendFrame \/ F!ReadHeaders
    PROVE  FramesInv'
<1>1. CASE F!SendFrame
  <2>1. PICK f \in F!Frame : F!Legal(f) /\ frames' = Append(frames, f)
    BY <1>1 DEF F!SendFrame
  <2>2. Sent'
    BY <2>1, SentStep DEF FramesInv
  <2>3. loop = "headers" /\ UNCHANGED << loop, got, parsed, start, buffer, captured >>
    BY <1>1 DEF F!SendFrame, F!assembler
  <2>4. QED
    BY <2>2, <2>3 DEF FramesInv
<1>2. CASE F!ReadHeaders
  <2>1. /\ loop = "headers" /\ loop' = "read" /\ frames' = frames
        /\ parsed' = headless' /\ got' = headless'
        /\ start' = start /\ buffer' = buffer /\ captured' = captured
    BY <1>2 DEF F!ReadHeaders, F!assembler
  <2>2. Sent /\ Sent'
    BY <2>1, SameFrames DEF FramesInv
  <2>3. ASSUME Undisturbed' PROVE \E p \in 0 .. Len(frames') : Aligned(p)'
    <3>1. headless' = 0
      BY <2>3 DEF Undisturbed
    <3>2. frames \in Seq(F!Frame) /\ Len(frames) \in Nat
      BY <2>2 DEF Sent
    <3>3. F!EndOf[0] = 0 /\ F!EndOf[Len(frames)] \in Nat
      BY <3>2, EndOfFacts
    <3>4. PICK a, st, b : a = << >> /\ st = NoOpcode /\ b = << >>
      OBVIOUS
    <3>5. a = captured' /\ st = start' /\ b = buffer'
      BY <2>1, <3>4 DEF FramesInv
    <3>6. Exact(a, 0)
      BY <3>4 DEF Exact
    <3>7. Gathered(st, b, 0)
      BY <3>4 DEF Gathered
    <3>8. Aligned(0)'
      BY <2>1, <3>1, <3>3, <3>5, <3>6, <3>7, AlignedNext
    <3>9. QED
      BY <2>1, <3>2, <3>8
  <2>4. QED
    BY <2>1, <2>2, <2>3 DEF FramesInv
<1>3. QED
  BY <1>1, <1>2

\* Read, Close, ParseFrame, ParseGarbage and ParseStops.
LEMMA LoopInv ==
    ASSUME FramesInv, loop # "headers",
           F!Read \/ F!Close \/ F!ParseFrame \/ F!ParseGarbage \/ F!ParseStops
    PROVE  FramesInv'
<1>1. frames' = frames /\ headless' = headless /\ loop' # "headers"
  BY DEF F!Read, F!Close, F!ParseFrame, F!ParseGarbage, F!ParseStops
<1>2. Sent /\ Sent'
  BY <1>1, SameFrames DEF FramesInv
<1>3. frames \in Seq(F!Frame) /\ Len(frames) \in Nat /\ DOMAIN frames = 1 .. Len(frames)
  BY <1>2 DEF Sent
<1>4. Undisturbed' <=> Undisturbed
  BY <1>1 DEF Undisturbed
<1>5. ASSUME Undisturbed PROVE \E p \in 0 .. Len(frames) : Aligned(p)'
  <2>1. PICK p \in 0 .. Len(frames) : Aligned(p)
    BY <1>5 DEF FramesInv
  <2>2. /\ F!EndOf \in [0 .. Len(frames) -> Nat]
        /\ \A n \in 1 .. Len(frames) : F!EndOf[n] = F!EndOf[n - 1] + frames[n].size
        /\ \A k, l \in 0 .. Len(frames) : k < l => F!EndOf[k] < F!EndOf[l]
    BY <1>3, EndOfFacts
  <2>3. PICK a, st, b : a = captured' /\ st = start' /\ b = buffer'
    OBVIOUS
  <2>4. /\ parsed = F!EndOf[p] /\ parsed \in Nat /\ got \in Nat /\ parsed <= got
        /\ got <= F!EndOf[Len(frames)]
        /\ Exact(captured, p) /\ Gathered(start, buffer, p)
    BY <2>1, <2>2 DEF Aligned
  <2>5. F!EndOf[Len(frames)] \in Nat
    BY <1>3, <2>2
  <2>6. CASE UNCHANGED << parsed, start, buffer, captured >> /\ got' \in Nat /\ got <= got'
              /\ got' <= F!EndOf[Len(frames)]
    <3>1. Exact(a, p) /\ Gathered(st, b, p) /\ parsed' = F!EndOf[p] /\ parsed' <= got'
      BY <2>3, <2>4, <2>6
    <3>2. Aligned(p)'
      BY <1>1, <2>3, <2>6, <3>1, AlignedNext
    <3>3. QED
      BY <3>2
  <2>7. CASE F!Read
    <3>1. PICK k \in 1 .. ReadSize : got + k <= F!EndOf[Len(frames)] /\ got' = got + k
      BY <2>7 DEF F!Read
    <3>2. got' \in Nat /\ got <= got'
      BY <2>4, <3>1
    <3>3. UNCHANGED << parsed, start, buffer, captured >>
      BY <2>7 DEF F!Read, F!assembler
    <3>4. QED
      BY <2>6, <3>1, <3>2, <3>3
  <2>8. CASE F!Close
    <3>1. UNCHANGED << got, parsed, start, buffer, captured >>
      BY <2>8 DEF F!Close, F!assembler
    <3>2. QED
      BY <2>4, <2>6, <3>1
  <2>9. CASE F!ParseFrame
    <3>1. PICK q \in 1 .. Len(frames) :
            /\ parsed = F!EndOf[q - 1] /\ F!EndOf[q] <= got
            /\ F!Push(frames[q], q) /\ parsed' = F!EndOf[q]
      BY <1>3, <2>9 DEF F!ParseFrame
    <3>2. q - 1 \in 0 .. Len(frames) /\ q \in 0 .. Len(frames)
      BY <1>3
    <3>3. q - 1 = p
      <4>1. PICK k \in 0 .. Len(frames) : k = q - 1
        BY <3>2
      <4>2. F!EndOf[k] = F!EndOf[p] /\ F!EndOf[k] \in Nat
        BY <2>2, <2>4, <3>1, <4>1
      <4>3. ~(k < p) /\ ~(p < k)
        BY <2>2, <4>2
      <4>4. QED
        BY <1>3, <4>1, <4>3
    <3>4. Exact(a, q) /\ Gathered(st, b, q)
      BY <1>2, <2>3, <2>4, <3>1, <3>3, PushStep
    <3>5. got' = got
      BY <2>9 DEF F!ParseFrame
    <3>6. Aligned(q)'
      BY <1>1, <2>3, <2>4, <3>1, <3>4, <3>5, AlignedNext
    <3>7. QED
      BY <3>2, <3>6
  <2>10. CASE F!ParseGarbage
    BY <2>4, <2>10 DEF F!ParseGarbage, F!Misplaced
  <2>11. CASE F!ParseStops
    <3>1. ~F!Excess
      <4>1. \A n \in 1 .. Len(frames) : parsed = F!EndOf[n - 1] => got < F!EndOf[n]
        BY <1>3, <2>4, <2>11 DEF F!ParseStops, F!Misplaced
      <4>2. CASE p = Len(frames)
        BY <2>4, <4>2 DEF F!Excess
      <4>3. CASE p # Len(frames)
        <5>1. PICK q \in 1 .. Len(frames) : q - 1 = p
          <6>1. PICK m \in Nat : m = Len(frames)
            BY <1>3
          <6>2. p \in 0 .. m /\ p # m
            BY <4>3, <6>1
          <6>3. p + 1 \in 1 .. m /\ p + 1 - 1 = p
            BY <6>2
          <6>4. QED
            BY <6>1, <6>3
        <5>2. got < F!EndOf[q] /\ F!EndOf[q] = parsed + frames[q].size
          BY <2>2, <2>4, <4>1, <5>1
        <5>3. frames[q].size \in Nat /\ frames[q].size <= MaxAccum
          BY <1>3, <1>5, FrameFacts DEF Undisturbed
        <5>4. QED
          BY <2>4, <5>2, <5>3 DEF F!Excess
      <4>4. QED
        BY <4>2, <4>3
    <3>2. UNCHANGED << got, parsed, start, buffer, captured >>
      BY <2>11, <3>1 DEF F!ParseStops, F!assembler
    <3>3. QED
      BY <2>4, <2>6, <3>2
  <2>12. QED
    BY <2>7, <2>8, <2>9, <2>10, <2>11
<1>6. QED
  BY <1>1, <1>2, <1>4, <1>5 DEF FramesInv

\* A step of the parts preserves the invariant.
LEMMA FramesStep ==
    ASSUME FramesInv, [PartsNext]_allVars
    PROVE  FramesInv'
<1>1. CASE F!Next
  <2>1. CASE F!SendFrame \/ F!ReadHeaders
    BY <2>1, HeadersInv
  <2>2. CASE F!Read \/ F!Close \/ F!ParseFrame \/ F!ParseGarbage \/ F!ParseStops
    <3>1. loop # "headers"
      BY <2>2 DEF F!Read, F!Close, F!ParseFrame, F!ParseGarbage, F!ParseStops
    <3>2. QED
      BY <2>2, <3>1, LoopInv
  <2>3. QED
    BY <1>1, <2>1, <2>2 DEF F!Next
<1>2. CASE UNCHANGED frameVars
  <2>1. frames' = frames /\ UNCHANGED << got, parsed, start, buffer, captured, headless, loop >>
    BY <1>2 DEF frameVars
  <2>2. Sent' /\ (Undisturbed' <=> Undisturbed)
    BY <2>1, SameFrames DEF FramesInv, Undisturbed
  <2>3. ASSUME NEW p, Aligned(p) PROVE Aligned(p)'
    <3>1. PICK a, st, b : a = captured /\ st = start /\ b = buffer
      OBVIOUS
    <3>2. Exact(a, p) /\ Gathered(st, b, p)
      BY <2>3, <3>1 DEF Aligned
    <3>3. a = captured' /\ st = start' /\ b = buffer'
      BY <2>1, <3>1
    <3>4. QED
      BY <2>1, <2>3, <3>2, <3>3, AlignedNext DEF Aligned
  <2>4. QED
    BY <2>1, <2>2, <2>3 DEF FramesInv
<1>3. QED
  BY <1>1, <1>2 DEF PartsNext, allVars

\* Exactly the complete messages within the limit are handed on, whole and in
\* their order (parse_frame, MessageAssembler::push, websocket_relay), for any
\* legal stream, sizes and cuts into reads.
THEOREM MessagesCaptured == PartsSpec => []CapturedExactly
<1>1. PartsInit => FramesInv
  BY FramesInit DEF PartsInit
<1>2. FramesInv /\ [PartsNext]_allVars => FramesInv'
  BY FramesStep
<1>3. FramesInv => CapturedExactly
  <2> SUFFICES ASSUME FramesInv, headless = 0,
                      \A n \in DOMAIN frames : frames[n].size <= MaxAccum
               PROVE  /\ \A i \in DOMAIN captured : \E l \in DOMAIN frames : \E n \in 1 .. l :
                            /\ F!Message(n, l) /\ F!EndOf[l] <= parsed
                            /\ F!Brings(captured[i], n, l)
                      /\ \A l \in DOMAIN frames : \A n \in 1 .. l :
                            F!Message(n, l) /\ F!EndOf[l] <= parsed
                                => \E i \in DOMAIN captured : F!Brings(captured[i], n, l)
                      /\ \A i, j \in DOMAIN captured :
                            i < j => F!Precedes(captured[i], captured[j])
    BY DEF CapturedExactly, F!CapturedExactly
  <2>1. Sent /\ frames \in Seq(F!Frame) /\ DOMAIN frames = 1 .. Len(frames) /\ Len(frames) \in Nat
    BY DEF FramesInv, Sent
  <2>2. Undisturbed
    BY <2>1 DEF Undisturbed
  <2>3. /\ F!EndOf \in [0 .. Len(frames) -> Nat] /\ F!EndOf[0] = 0
        /\ \A k, l \in 0 .. Len(frames) : k < l => F!EndOf[k] < F!EndOf[l]
    BY <2>1, EndOfFacts
  <2>4. PICK p \in 0 .. Len(frames) : parsed = F!EndOf[p] /\ Exact(captured, p)
    <3>1. CASE loop = "headers"
      <4>1. parsed = F!EndOf[0] /\ captured = << >>
        BY <2>3, <3>1 DEF FramesInv
      <4>2. Exact(captured, 0)
        BY <4>1 DEF Exact
      <4>3. 0 \in 0 .. Len(frames)
        BY <2>1
      <4>4. QED
        BY <4>1, <4>2, <4>3
    <3>2. CASE loop # "headers"
      BY <2>2, <3>2 DEF FramesInv, Aligned
    <3>3. QED
      BY <3>1, <3>2
  <2>5. \A l \in 1 .. Len(frames) : F!EndOf[l] <= parsed <=> l \in 1 .. p
    <3>1. TAKE l \in 1 .. Len(frames)
    <3>2. l \in 0 .. Len(frames) /\ F!EndOf[l] \in Nat /\ F!EndOf[p] \in Nat
      BY <2>1, <2>3
    <3>3. (l < p => F!EndOf[l] < F!EndOf[p]) /\ (p < l => F!EndOf[p] < F!EndOf[l])
      BY <2>3, <3>2
    <3>4. l < p \/ l = p \/ p < l
      BY <2>1
    <3>5. QED
      BY <2>1, <2>4, <3>2, <3>3, <3>4
  <2>6. DOMAIN captured = 1 .. Len(captured) /\ \A l \in 1 .. p : l \in 1 .. Len(frames)
    BY <2>1, <2>4 DEF Exact
  <2>7. QED
    BY <2>1, <2>4, <2>5, <2>6 DEF Exact
<1>4. QED
  BY <1>1, <1>2, <1>3, PTL DEF PartsSpec
=============================================================================
