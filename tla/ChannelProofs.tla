--------------------------- MODULE ChannelProofs ---------------------------
(***************************************************************************)
(* Lemmas about the operations of Channel, for any set Rs of readers and S *)
(* of samples: the order in which samples are kept and handed on.          *)
(***************************************************************************)
EXTENDS Channel, FiniteSetTheorems, SequenceTheorems, WellFoundedInduction, TLAPS

Samples(S) == {s \in S : s.id \in Nat}
ReaderRecord(S) ==
  [state : EndpointState, matched : BOOLEAN, joined : Nat, owed : Seq(Samples(S)),
   cache : Seq(Samples(S)), delivered : Seq(Samples(S))]
ChannelRecord(Rs, S) ==
  [writerQos : QosProfile, readerQos : QosProfile, writer : EndpointState,
   written : Nat, history : Seq(Samples(S)), reader : [Rs -> ReaderRecord(S)]]

DueOf(rd) == Ids(rd.owed) \union Ids(rd.cache) \union Ids(rd.delivered)

-----------------------------------------------------------------------------
(* Profiles.                                                               *)

LEMMA DefaultsAreProfiles == WriterDefaults \in QosProfile /\ ReaderDefaults \in QosProfile
<1>1. Infinite \in Nat
  BY SMT DEF Infinite
<1>2. QED BY <1>1 DEF WriterDefaults, ReaderDefaults, DdsDefaults, QosProfile

\* apply_writer_qos and apply_reader_qos keep what the profile says of these.
LEMMA AppliedQos ==
  ASSUME NEW p \in QosProfile, NEW dds \in QosProfile
  PROVE  /\ ApplyQos(p, dds) \in QosProfile
         /\ ApplyQos(p, dds).reliable = p.reliable
         /\ ApplyQos(p, dds).durable = p.durable
         /\ ApplyQos(p, dds).keepAll = p.keepAll
<1> DEFINE d == [dds EXCEPT !.reliable = p.reliable, !.durable = p.durable,
                            !.keepAll = p.keepAll,
                            !.depth = IF p.keepAll THEN @ ELSE p.depth]
<1>1. /\ d \in QosProfile /\ d.reliable = p.reliable /\ d.durable = p.durable
      /\ d.keepAll = p.keepAll
  BY DEF QosProfile
<1>2. ApplyQos(p, dds) = ApplyExtras(p, d)
  BY DEF ApplyQos
<1> HIDE DEF d
<1>3. /\ ApplyExtras(p, d) \in QosProfile /\ ApplyExtras(p, d).reliable = d.reliable
      /\ ApplyExtras(p, d).durable = d.durable /\ ApplyExtras(p, d).keepAll = d.keepAll
  BY <1>1 DEF ApplyExtras, QosProfile
<1>4. QED BY <1>1, <1>2, <1>3

-----------------------------------------------------------------------------
(* Sequences of samples.                                                   *)

LEMMA IdsEmpty == Ids(<<>>) = {} /\ Increasing(<<>>)
BY DEF Ids, Increasing

LEMMA IdsAppend ==
  ASSUME NEW S, NEW q \in Seq(Samples(S)), NEW s \in Samples(S)
  PROVE  /\ Append(q, s) \in Seq(Samples(S))
         /\ Ids(Append(q, s)) = Ids(q) \union {s.id}
<1>1. /\ Append(q, s) \in Seq(Samples(S)) /\ Len(Append(q, s)) = Len(q) + 1
      /\ \A i \in 1 .. Len(q) : Append(q, s)[i] = q[i]
      /\ Append(q, s)[Len(q) + 1] = s
  BY AppendProperties
<1>2. /\ Len(q) \in Nat /\ DOMAIN q = 1 .. Len(q)
      /\ DOMAIN Append(q, s) = 1 .. Len(q) + 1
  BY <1>1, LenProperties
<1>3. DOMAIN Append(q, s) = DOMAIN q \union {Len(q) + 1}
  BY <1>2
<1>4. QED BY <1>1, <1>2, <1>3 DEF Ids

LEMMA IdsTail ==
  ASSUME NEW S, NEW q \in Seq(Samples(S)), q # <<>>
  PROVE  /\ Head(q) \in Samples(S) /\ Tail(q) \in Seq(Samples(S))
         /\ Head(q) = q[1] /\ 1 \in DOMAIN q
         /\ \A i \in DOMAIN Tail(q) : i + 1 \in DOMAIN q /\ Tail(q)[i] = q[i + 1]
         /\ Ids(q) = Ids(Tail(q)) \union {Head(q).id}
<1>1. /\ Head(q) \in Samples(S) /\ Tail(q) \in Seq(Samples(S))
      /\ Len(Tail(q)) = Len(q) - 1
      /\ \A i \in 1 .. Len(Tail(q)) : Tail(q)[i] = q[i + 1]
  BY HeadTailProperties
<1>2. /\ Len(q) \in Nat \ {0} /\ DOMAIN q = 1 .. Len(q)
      /\ DOMAIN Tail(q) = 1 .. Len(q) - 1
  BY <1>1, LenProperties, EmptySeq
<1>3. Head(q) = q[1]
  OBVIOUS
<1>4. \A i \in DOMAIN q : i = 1 \/ (i - 1 \in DOMAIN Tail(q) /\ q[i] = Tail(q)[i - 1])
  BY <1>1, <1>2
<1>5. \A i \in DOMAIN Tail(q) : i + 1 \in DOMAIN q /\ Tail(q)[i] = q[i + 1]
  BY <1>1, <1>2
<1>6. Ids(q) = Ids(Tail(q)) \union {Head(q).id}
  <2>1. ASSUME NEW i \in DOMAIN q
        PROVE  q[i].id \in Ids(Tail(q)) \union {Head(q).id}
    BY <1>3, <1>4 DEF Ids
  <2>2. ASSUME NEW i \in DOMAIN Tail(q)
        PROVE  Tail(q)[i].id \in Ids(q)
    BY <1>5 DEF Ids
  <2>3. Head(q).id \in Ids(q)
    BY <1>2, <1>3 DEF Ids
  <2>4. QED BY <2>1, <2>2, <2>3 DEF Ids
<1>7. QED BY <1>1, <1>2, <1>3, <1>5, <1>6

LEMMA IdsType ==
  ASSUME NEW S, NEW q \in Seq(Samples(S))
  PROVE  Ids(q) \subseteq Nat
<1>1. \A T : \A p \in Seq(T) : \A i \in DOMAIN p : p[i] \in T
  OBVIOUS
<1>2. \A i \in DOMAIN q : q[i] \in Samples(S)
  BY <1>1
<1>3. QED BY <1>2 DEF Ids, Samples

Below(A, B) == \A m \in A, n \in B : m < n

LEMMA IncreasingAppend ==
  ASSUME NEW S, NEW q \in Seq(Samples(S)), NEW s \in Samples(S),
         Increasing(q), Below(Ids(q), {s.id})
  PROVE  Increasing(Append(q, s))
<1>1. /\ Len(q) \in Nat /\ DOMAIN q = 1 .. Len(q)
      /\ DOMAIN Append(q, s) = 1 .. Len(q) + 1
      /\ \A i \in 1 .. Len(q) : Append(q, s)[i] = q[i]
      /\ Append(q, s)[Len(q) + 1] = s
  BY AppendProperties, LenProperties
<1>2. \A i \in 1 .. Len(q) : q[i].id < s.id
  BY <1>1 DEF Below, Ids
<1>3. QED BY <1>1, <1>2 DEF Increasing

LEMMA IncreasingTail ==
  ASSUME NEW S, NEW q \in Seq(Samples(S)), q # <<>>, Increasing(q)
  PROVE  Increasing(Tail(q)) /\ Below({Head(q).id}, Ids(Tail(q)))
<1>1. /\ Head(q) = q[1] /\ 1 \in DOMAIN q
      /\ \A i \in DOMAIN Tail(q) : i + 1 \in DOMAIN q /\ Tail(q)[i] = q[i + 1]
  BY IdsTail
<1>2. DOMAIN Tail(q) \subseteq Nat \ {0}
  BY LenProperties, IdsTail
<1>3. Increasing(Tail(q))
  BY <1>1, <1>2 DEF Increasing
<1>4. Below({Head(q).id}, Ids(Tail(q)))
  BY <1>1, <1>2 DEF Increasing, Below, Ids
<1>5. QED BY <1>3, <1>4

\* The least of a set of positions.
LEMMA Smallest ==
  ASSUME NEW S \in SUBSET Nat, S # {}
  PROVE  Min(S) \in S /\ \A m \in S : Min(S) <= m
<1>1. IsWellFoundedOn({ss \in Nat \X Nat : ss[1] < ss[2]}, Nat)
  BY NatLessThanWellFounded DEF OpToRel
<1> DEFINE R == {ss \in Nat \X Nat : ss[1] < ss[2]}
<1>2. \E n \in S : \A m \in S : <<m, n>> \notin R
  BY <1>1, WFMin
<1>3. \A m, n \in Nat : m < n => <<m, n>> \in R
  OBVIOUS
<1> HIDE DEF R
<1>4. PICK n \in S : \A m \in S : <<m, n>> \notin R
  BY <1>2
<1>5. ASSUME NEW m \in S
      PROVE  n <= m
  <2>1. m \in Nat /\ n \in Nat /\ ~(m < n)
    BY <1>3, <1>4
  <2>2. QED BY <2>1
<1>6. \E x \in S : \A y \in S : x <= y
  BY <1>5
<1>7. QED BY <1>6 DEF Min

LEMMA Removed ==
  ASSUME NEW S, NEW q \in Seq(Samples(S)), NEW n \in DOMAIN q
  PROVE  /\ RemoveAt(q, n) \in Seq(Samples(S))
         /\ Ids(RemoveAt(q, n)) \subseteq Ids(q)
         /\ Increasing(q) => Increasing(RemoveAt(q, n))
         /\ ToSet(q) = ToSet(RemoveAt(q, n)) \union {q[n]}
<1> DEFINE L == Len(q)
           a == SubSeq(q, 1, n - 1)
           b == SubSeq(q, n + 1, L)
           f(i) == IF i < n THEN i ELSE i + 1
<1>1. L \in Nat /\ DOMAIN q = 1 .. L /\ n \in 1 .. L
  BY LenProperties
<1>2. /\ a \in Seq(Samples(S)) /\ Len(a) = n - 1 /\ \A i \in 1 .. n - 1 : a[i] = q[i]
  BY <1>1, SubSeqProperties
<1>3. /\ b \in Seq(Samples(S)) /\ Len(b) = L - n /\ \A i \in 1 .. L - n : b[i] = q[n + i]
  BY <1>1, SubSeqProperties
<1> HIDE DEF a, b
<1>4. /\ a \o b \in Seq(Samples(S)) /\ Len(a \o b) = L - 1
      /\ \A i \in 1 .. L - 1 : (a \o b)[i] = q[f(i)]
  <2>1. /\ a \o b \in Seq(Samples(S)) /\ Len(a \o b) = Len(a) + Len(b)
        /\ \A i \in 1 .. Len(a) + Len(b) :
             (a \o b)[i] = IF i <= Len(a) THEN a[i] ELSE b[i - Len(a)]
    BY <1>2, <1>3, ConcatProperties
  <2>2. Len(a) + Len(b) = L - 1
    BY <1>1, <1>2, <1>3
  <2>3. ASSUME NEW i \in 1 .. L - 1
        PROVE  (a \o b)[i] = q[f(i)]
    <3>1. CASE i < n
      BY <1>1, <1>2, <2>1, <2>2, <3>1
    <3>2. CASE ~(i < n)
      <4>1. i - (n - 1) \in 1 .. L - n
        BY <1>1, <3>2
      <4>2. (a \o b)[i] = b[i - (n - 1)]
        BY <1>1, <1>2, <2>1, <2>2, <3>2
      <4>3. b[i - (n - 1)] = q[n + (i - (n - 1))] /\ n + (i - (n - 1)) = i + 1
        BY <1>1, <1>3, <4>1
      <4>4. QED BY <3>2, <4>2, <4>3
    <3>3. QED BY <3>1, <3>2
  <2>4. QED BY <2>1, <2>2, <2>3
<1>5. DOMAIN (a \o b) = 1 .. L - 1
  BY <1>4, LenProperties
<1>6. /\ \A i \in 1 .. L - 1 : f(i) \in DOMAIN q
      /\ \A i, j \in 1 .. L - 1 : i < j => f(i) < f(j)
  BY <1>1
<1> HIDE DEF f
<1>7. RemoveAt(q, n) = a \o b
  BY DEF RemoveAt, a, b
<1>8. Ids(a \o b) \subseteq Ids(q) /\ (Increasing(q) => Increasing(a \o b))
  BY <1>4, <1>5, <1>6 DEF Ids, Increasing
<1>9. ASSUME NEW j \in DOMAIN q, j # n
      PROVE  q[j] \in ToSet(a \o b)
  <2> DEFINE i == IF j < n THEN j ELSE j - 1
  <2>1. i \in 1 .. L - 1 /\ f(i) = j
    BY <1>1, <1>9 DEF f
  <2>2. (a \o b)[i] = q[j]
    BY <1>4, <2>1
  <2>3. QED BY <1>5, <2>1, <2>2 DEF ToSet
<1>10. ToSet(q) = ToSet(a \o b) \union {q[n]}
  BY <1>4, <1>5, <1>6, <1>9 DEF ToSet
<1>11. QED BY <1>4, <1>7, <1>8, <1>10

\* What is remembered is new at the end and came before in the same order.
LEMMA Remembering ==
  ASSUME NEW S, NEW q \in Seq(Samples(S)), NEW s \in Samples(S), NEW qos
  PROVE  /\ Remember(q, s, qos) \in Seq(Samples(S))
         /\ Ids(Remember(q, s, qos)) \subseteq Ids(q) \union {s.id}
         /\ Increasing(q) /\ Below(Ids(q), {s.id}) => Increasing(Remember(q, s, qos))
<1> DEFINE same == {i \in DOMAIN q : q[i].key = s.key}
           p == IF qos.keepAll \/ same = {} \/ Cardinality(same) < qos.depth
                  THEN q ELSE RemoveAt(q, Min(same))
<1>1. Remember(q, s, qos) = Append(p, s)
  BY DEF Remember
<1>2. same # {} => Min(same) \in DOMAIN q
  <2>1. same \in SUBSET Nat /\ same \subseteq DOMAIN q
    BY LenProperties
  <2> HIDE DEF same
  <2>2. QED BY <2>1, Smallest
<1>3. /\ p \in Seq(Samples(S)) /\ Ids(p) \subseteq Ids(q)
      /\ Increasing(q) => Increasing(p)
  BY <1>2, Removed
<1> HIDE DEF p
<1>4. QED BY <1>1, <1>3, IdsAppend, IncreasingAppend DEF Below

LEMMA KeptTail ==
  ASSUME NEW S, NEW q \in Seq(Samples(S)), q # <<>>
  PROVE  ToSet(Tail(q)) \subseteq ToSet(q) /\ Head(q) \in ToSet(q)
BY IdsTail DEF ToSet

LEMMA KeptAppend ==
  ASSUME NEW S, NEW q \in Seq(Samples(S)), NEW s \in Samples(S)
  PROVE  ToSet(Append(q, s)) = ToSet(q) \union {s}
<1>1. /\ Len(q) \in Nat /\ DOMAIN q = 1 .. Len(q)
      /\ DOMAIN Append(q, s) = 1 .. Len(q) + 1
      /\ \A i \in 1 .. Len(q) : Append(q, s)[i] = q[i]
      /\ Append(q, s)[Len(q) + 1] = s
  BY AppendProperties, LenProperties
<1>2. DOMAIN Append(q, s) = DOMAIN q \union {Len(q) + 1}
  BY <1>1
<1>3. QED BY <1>1, <1>2 DEF ToSet

\* The new sample is remembered, and all others but, at most, the oldest of its key.
LEMMA RememberNewest ==
  ASSUME NEW S, NEW q \in Seq(Samples(S)), NEW s \in Samples(S), NEW qos, Increasing(q)
  PROVE  LET p == Remember(q, s, qos) IN
         /\ s \in ToSet(p) /\ ToSet(p) \subseteq ToSet(q) \union {s}
         /\ \A e \in ToSet(q) \ ToSet(p) :
              e.key = s.key /\ \A x \in ToSet(q) : x.key = s.key => e.id <= x.id
<1> DEFINE same == {i \in DOMAIN q : q[i].key = s.key}
           n == Min(same)
<1>1. CASE qos.keepAll \/ same = {} \/ Cardinality(same) < qos.depth
  <2>1. Remember(q, s, qos) = Append(q, s)
    BY <1>1 DEF Remember
  <2>2. QED BY <2>1, KeptAppend
<1>2. CASE ~(qos.keepAll \/ same = {} \/ Cardinality(same) < qos.depth)
  <2>1. same \in SUBSET Nat /\ same \subseteq DOMAIN q /\ same # {}
    BY <1>2, LenProperties
  <2>2. n \in same /\ \A i \in same : n <= i
    <3> HIDE DEF same
    <3>1. QED BY <2>1, Smallest
  <2>3. n \in DOMAIN q /\ q[n].key = s.key
    BY <2>2
  <2>4. ASSUME NEW x \in ToSet(q), x.key = s.key
        PROVE  q[n].id <= x.id
    <3>1. PICK i \in DOMAIN q : x = q[i]
      BY DEF ToSet
    <3>2. i \in Nat /\ n \in Nat /\ n <= i
      <4>1. i \in same
        BY <2>4, <3>1
      <4> HIDE DEF same, n
      <4>2. QED BY <2>1, <2>2, <4>1
    <3>3. q[n].id \in Nat /\ q[i].id \in Nat
      BY <2>3, <3>1, IdsType DEF Ids
    <3> HIDE DEF n, same
    <3>4. n = i \/ n < i
      BY <3>2
    <3>5. QED BY <2>3, <3>1, <3>3, <3>4 DEF Increasing
  <2>5. Remember(q, s, qos) = Append(RemoveAt(q, n), s)
    BY <1>2 DEF Remember
  <2> HIDE DEF n
  <2>6. /\ RemoveAt(q, n) \in Seq(Samples(S))
        /\ ToSet(q) = ToSet(RemoveAt(q, n)) \union {q[n]}
    BY <2>3, Removed
  <2>7. ToSet(Remember(q, s, qos)) = ToSet(RemoveAt(q, n)) \union {s}
    BY <2>5, <2>6, KeptAppend
  <2>8. QED BY <2>3, <2>4, <2>6, <2>7
<1>3. QED BY <1>1, <1>2

LEMMA RememberAll ==
  ASSUME NEW q, NEW s, NEW qos, qos.keepAll
  PROVE  Remember(q, s, qos) = Append(q, s)
BY DEF Remember

-----------------------------------------------------------------------------
(* The order of samples, whatever the two profiles.                        *)

\* A reader has nothing before it matches; what it took comes before what it
\* has received and that before what it is still to get, each in order; unless
\* both sides are durable nothing of it is older than the match.
ReaderInOrder(c, rd) ==
  /\ rd.joined <= c.written
  /\ rd.matched => rd.state # "absent" /\ c.writer = "up"
  /\ ~rd.matched /\ rd.state # "gone" /\ c.writer # "gone" =>
       rd.owed = <<>> /\ rd.cache = <<>> /\ rd.delivered = <<>>
  /\ Increasing(rd.owed) /\ Increasing(rd.cache) /\ Increasing(rd.delivered)
  /\ Below(Ids(rd.delivered), Ids(rd.cache))
  /\ Below(Ids(rd.delivered) \union Ids(rd.cache), Ids(rd.owed))
  /\ \A n \in DueOf(rd) : n <= c.written
  /\ ~DurablePair(c) => \A n \in DueOf(rd) : rd.joined < n

InOrder(Rs, S, c) ==
  /\ c \in ChannelRecord(Rs, S)
  /\ Increasing(c.history) /\ Ids(c.history) \subseteq 1 .. c.written
  /\ \A r \in Rs : ReaderInOrder(c, c.reader[r])

\* Operations of a reader change its record, and no other.
OneReader(c, r, n) == [c EXCEPT !.reader = [@ EXCEPT ![r] = n]]

LEMMA OneReaderChanges ==
  ASSUME NEW Rs, NEW S, NEW c \in ChannelRecord(Rs, S), NEW r \in Rs,
         NEW n \in ReaderRecord(S)
  PROVE  LET d == OneReader(c, r, n) IN
         /\ d \in ChannelRecord(Rs, S)
         /\ d.writerQos = c.writerQos /\ d.readerQos = c.readerQos
         /\ d.writer = c.writer /\ d.written = c.written /\ d.history = c.history
         /\ d.reader[r] = n /\ \A x \in Rs : x # r => d.reader[x] = c.reader[x]
BY DEF ChannelRecord, OneReader

LEMMA OneReaderInOrder ==
  ASSUME NEW Rs, NEW S, NEW c, InOrder(Rs, S, c), NEW r \in Rs,
         NEW n \in ReaderRecord(S), ReaderInOrder(c, n)
  PROVE  InOrder(Rs, S, OneReader(c, r, n))
<1> DEFINE d == OneReader(c, r, n)
<1>1. /\ d \in ChannelRecord(Rs, S)
      /\ d.writerQos = c.writerQos /\ d.readerQos = c.readerQos
      /\ d.writer = c.writer /\ d.written = c.written /\ d.history = c.history
      /\ d.reader[r] = n /\ \A x \in Rs : x # r => d.reader[x] = c.reader[x]
  BY OneReaderChanges DEF InOrder
<1> HIDE DEF d
<1>2. \A x \in Rs : ReaderInOrder(d, d.reader[x])
  BY <1>1 DEF InOrder, ReaderInOrder, DurablePair
<1>3. QED BY <1>1, <1>2 DEF InOrder, d

\* The reader's record after each operation.
Opened(rd)   == [rd EXCEPT !.state = "up"]
Joined(c, rd) ==
  [rd EXCEPT !.matched = TRUE, !.joined = c.written,
             !.owed = IF DurablePair(c) THEN c.history ELSE <<>>]
Left(rd)     == [rd EXCEPT !.matched = FALSE, !.owed = <<>>]
Received(c, rd) ==
  [rd EXCEPT !.owed = Tail(@), !.cache = Remember(@, Head(rd.owed), c.readerQos)]
Lost(rd)     == [rd EXCEPT !.owed = Tail(@)]
Taken(rd)    == [rd EXCEPT !.cache = Tail(@),
                           !.delivered = Append(@, Head(rd.cache))]
Closed(rd)   == [rd EXCEPT !.state = "gone", !.cache = <<>>]

LEMMA ReaderOperations ==
  ASSUME NEW Rs, NEW S, NEW c \in ChannelRecord(Rs, S), NEW r \in Rs
  PROVE  LET rd == c.reader[r] IN
         /\ OpenReader(c, r)  = OneReader(c, r, Opened(rd))
         /\ Match(c, r)       = OneReader(c, r, Joined(c, rd))
         /\ Unmatch(c, r)     = OneReader(c, r, Left(rd))
         /\ Arrive(c, r)      = OneReader(c, r, Received(c, rd))
         /\ Lose(c, r)        = OneReader(c, r, Lost(rd))
         /\ TakeSample(c, r)  = OneReader(c, r, Taken(rd))
         /\ CloseReader(c, r) = OneReader(c, r, Closed(rd))
<1> DEFINE rd == c.reader[r]
<1>1. rd \in ReaderRecord(S)
  BY DEF ChannelRecord
<1>2. OpenReader(c, r) = OneReader(c, r, Opened(rd))
  BY <1>1 DEF ChannelRecord, ReaderRecord, OneReader, OpenReader, Opened
<1>3. Match(c, r) = OneReader(c, r, Joined(c, rd))
  <2> DEFINE h == IF DurablePair(c) THEN c.history ELSE <<>>
             w == c.written
  <2>1. /\ Match(c, r) = [c EXCEPT !.reader[r].matched = TRUE,
                                   !.reader[r].joined = w, !.reader[r].owed = h]
        /\ Joined(c, rd) = [rd EXCEPT !.matched = TRUE, !.joined = w, !.owed = h]
    BY DEF Match, Joined
  <2> HIDE DEF h, w
  <2> DEFINE n == [rd EXCEPT !.matched = TRUE, !.joined = w, !.owed = h]
  <2>2. [c EXCEPT !.reader[r].matched = TRUE, !.reader[r].joined = w, !.reader[r].owed = h]
          = [c EXCEPT !.reader = [c.reader EXCEPT ![r] = n]]
    BY DEF ChannelRecord, ReaderRecord
  <2> HIDE DEF n
  <2>3. QED BY <2>1, <2>2 DEF OneReader, n
<1>4. Unmatch(c, r) = OneReader(c, r, Left(rd))
  BY <1>1 DEF ChannelRecord, ReaderRecord, OneReader, Unmatch, Left
<1>5. Arrive(c, r) = OneReader(c, r, Received(c, rd))
  BY <1>1 DEF ChannelRecord, ReaderRecord, OneReader, Arrive, Received
<1>6. Lose(c, r) = OneReader(c, r, Lost(rd))
  BY <1>1 DEF ChannelRecord, ReaderRecord, OneReader, Lose, Lost
<1>7. TakeSample(c, r) = OneReader(c, r, Taken(rd))
  BY <1>1 DEF ChannelRecord, ReaderRecord, OneReader, TakeSample, Taken
<1>8. CloseReader(c, r) = OneReader(c, r, Closed(rd))
  BY <1>1 DEF ChannelRecord, ReaderRecord, OneReader, CloseReader, Closed
<1>9. QED BY <1>2, <1>3, <1>4, <1>5, <1>6, <1>7, <1>8

LEMMA JoinedInOrder ==
  ASSUME NEW Rs, NEW S, NEW c, InOrder(Rs, S, c), NEW r \in Rs, CanMatch(c, r)
  PROVE  /\ Joined(c, c.reader[r]) \in ReaderRecord(S)
         /\ ReaderInOrder(c, Joined(c, c.reader[r]))
<1> DEFINE rd == c.reader[r]
           n == Joined(c, rd)
           h == IF DurablePair(c) THEN c.history ELSE <<>>
<1>1. /\ rd \in ReaderRecord(S) /\ ReaderInOrder(c, rd) /\ c.written \in Nat
      /\ c.writer = "up" /\ rd.state = "up" /\ ~rd.matched
  BY DEF InOrder, ChannelRecord, CanMatch
<1>2. /\ h \in Seq(Samples(S)) /\ Increasing(h) /\ Ids(h) \subseteq 1 .. c.written
      /\ ~DurablePair(c) => Ids(h) = {}
  BY IdsEmpty DEF InOrder, ChannelRecord
<1>3. rd.cache = <<>> /\ rd.delivered = <<>>
  BY <1>1 DEF ReaderInOrder
<1>4. n = [rd EXCEPT !.matched = TRUE, !.joined = c.written, !.owed = h]
  BY DEF Joined
<1> HIDE DEF h, n
<1>5. /\ n \in ReaderRecord(S) /\ n.matched /\ n.state = "up" /\ n.joined = c.written
      /\ n.owed = h /\ n.cache = <<>> /\ n.delivered = <<>>
  BY <1>1, <1>2, <1>3, <1>4 DEF ReaderRecord
<1>6. DueOf(n) = Ids(h)
  BY <1>5, IdsEmpty DEF DueOf
<1>7. ReaderInOrder(c, n)
  BY <1>1, <1>2, <1>5, <1>6, IdsEmpty DEF ReaderInOrder, Below
<1>8. QED BY <1>5, <1>7 DEF n

LEMMA ReceivedInOrder ==
  ASSUME NEW Rs, NEW S, NEW c, InOrder(Rs, S, c), NEW r \in Rs, CanArrive(c, r)
  PROVE  /\ Received(c, c.reader[r]) \in ReaderRecord(S)
         /\ ReaderInOrder(c, Received(c, c.reader[r]))
<1> DEFINE rd == c.reader[r]
           n == Received(c, rd)
           s == Head(rd.owed)
           q == Remember(rd.cache, s, c.readerQos)
<1>1. /\ rd \in ReaderRecord(S) /\ ReaderInOrder(c, rd) /\ c.written \in Nat
      /\ rd.state = "up" /\ rd.owed # <<>>
      /\ rd.owed \in Seq(Samples(S)) /\ rd.cache \in Seq(Samples(S))
  BY DEF InOrder, ChannelRecord, ReaderRecord, CanArrive
<1>2. /\ s \in Samples(S) /\ Tail(rd.owed) \in Seq(Samples(S))
      /\ Ids(rd.owed) = Ids(Tail(rd.owed)) \union {s.id}
      /\ Increasing(Tail(rd.owed)) /\ Below({s.id}, Ids(Tail(rd.owed)))
  BY <1>1, IdsTail, IncreasingTail DEF ReaderInOrder
<1>3. Increasing(rd.cache) /\ Below(Ids(rd.cache), {s.id})
  BY <1>1, <1>2 DEF ReaderInOrder, Below
<1>4. /\ q \in Seq(Samples(S)) /\ Ids(q) \subseteq Ids(rd.cache) \union {s.id}
      /\ Increasing(q)
  BY <1>1, <1>2, <1>3, Remembering
<1>5. n = [rd EXCEPT !.owed = Tail(rd.owed), !.cache = q]
  BY DEF Received
<1> HIDE DEF q, s, n
<1>6. /\ n \in ReaderRecord(S) /\ n.matched = rd.matched /\ n.state = rd.state
      /\ n.joined = rd.joined /\ n.owed = Tail(rd.owed) /\ n.cache = q
      /\ n.delivered = rd.delivered
  BY <1>1, <1>2, <1>4, <1>5 DEF ReaderRecord
<1> HIDE DEF rd
<1>7. /\ Below(Ids(n.delivered), Ids(n.cache))
      /\ Below(Ids(n.delivered) \union Ids(n.cache), Ids(n.owed))
  BY <1>1, <1>2, <1>4, <1>6 DEF ReaderInOrder, Below
<1>8. DueOf(n) \subseteq DueOf(rd)
  BY <1>2, <1>4, <1>6 DEF DueOf
<1>9. rd.matched \/ c.writer = "gone"
  BY <1>1 DEF ReaderInOrder
<1>10. ReaderInOrder(c, n)
  BY <1>1, <1>2, <1>4, <1>6, <1>7, <1>8, <1>9 DEF ReaderInOrder
<1>11. QED BY <1>6, <1>10 DEF n, rd

LEMMA TakenInOrder ==
  ASSUME NEW Rs, NEW S, NEW c, InOrder(Rs, S, c), NEW r \in Rs, CanTake(c, r)
  PROVE  /\ Taken(c.reader[r]) \in ReaderRecord(S)
         /\ ReaderInOrder(c, Taken(c.reader[r]))
<1> DEFINE rd == c.reader[r]
           n == Taken(rd)
           s == Head(rd.cache)
           q == Append(rd.delivered, s)
<1>1. /\ rd \in ReaderRecord(S) /\ ReaderInOrder(c, rd) /\ c.written \in Nat
      /\ rd.state = "up" /\ rd.cache # <<>>
      /\ rd.cache \in Seq(Samples(S)) /\ rd.delivered \in Seq(Samples(S))
  BY DEF InOrder, ChannelRecord, ReaderRecord, CanTake
<1>2. /\ s \in Samples(S) /\ Tail(rd.cache) \in Seq(Samples(S))
      /\ Ids(rd.cache) = Ids(Tail(rd.cache)) \union {s.id}
      /\ Increasing(Tail(rd.cache)) /\ Below({s.id}, Ids(Tail(rd.cache)))
  BY <1>1, IdsTail, IncreasingTail DEF ReaderInOrder
<1>3. Increasing(rd.delivered) /\ Below(Ids(rd.delivered), {s.id})
  BY <1>1, <1>2 DEF ReaderInOrder, Below
<1>4. /\ q \in Seq(Samples(S)) /\ Ids(q) = Ids(rd.delivered) \union {s.id}
      /\ Increasing(q)
  BY <1>1, <1>2, <1>3, IdsAppend, IncreasingAppend
<1>5. n = [rd EXCEPT !.cache = Tail(rd.cache), !.delivered = q]
  BY DEF Taken
<1> HIDE DEF q, s, n
<1>6. /\ n \in ReaderRecord(S) /\ n.matched = rd.matched /\ n.state = rd.state
      /\ n.joined = rd.joined /\ n.owed = rd.owed /\ n.cache = Tail(rd.cache)
      /\ n.delivered = q
  BY <1>1, <1>2, <1>4, <1>5 DEF ReaderRecord
<1> HIDE DEF rd
<1>7. /\ Below(Ids(n.delivered), Ids(n.cache))
      /\ Below(Ids(n.delivered) \union Ids(n.cache), Ids(n.owed))
  BY <1>1, <1>2, <1>4, <1>6 DEF ReaderInOrder, Below
<1>8. DueOf(n) = DueOf(rd)
  BY <1>2, <1>4, <1>6 DEF DueOf
<1>9. rd.matched \/ c.writer = "gone"
  BY <1>1 DEF ReaderInOrder
<1>10. ReaderInOrder(c, n)
  BY <1>1, <1>2, <1>4, <1>6, <1>7, <1>8, <1>9 DEF ReaderInOrder
<1>11. QED BY <1>6, <1>10 DEF n, rd

\* A queue that loses its head, or is emptied, leaves the others in order.
LEMMA FewerInOrder ==
  ASSUME NEW S, NEW c, NEW rd \in ReaderRecord(S), ReaderInOrder(c, rd),
         NEW n \in ReaderRecord(S), n.joined = rd.joined, n.delivered = rd.delivered,
         n.owed \in {rd.owed, <<>>} \/ (rd.owed # <<>> /\ n.owed = Tail(rd.owed)),
         n.cache \in {rd.cache, <<>>} \/ (rd.cache # <<>> /\ n.cache = Tail(rd.cache)),
         n.state = "gone" \/ (n.state = rd.state /\ n.matched = rd.matched),
         n.matched => rd.matched
  PROVE  ReaderInOrder(c, n)
<1>1. rd.owed \in Seq(Samples(S)) /\ rd.cache \in Seq(Samples(S))
  BY DEF ReaderRecord
<1>2. Increasing(n.owed) /\ Ids(n.owed) \subseteq Ids(rd.owed)
  BY <1>1, IdsEmpty, IdsTail, IncreasingTail DEF ReaderInOrder
<1>3. Increasing(n.cache) /\ Ids(n.cache) \subseteq Ids(rd.cache)
  BY <1>1, IdsEmpty, IdsTail, IncreasingTail DEF ReaderInOrder
<1>4. /\ Below(Ids(n.delivered), Ids(n.cache))
      /\ Below(Ids(n.delivered) \union Ids(n.cache), Ids(n.owed))
  BY <1>2, <1>3 DEF ReaderInOrder, Below
<1>5. DueOf(n) \subseteq DueOf(rd)
  BY <1>2, <1>3 DEF DueOf
<1>6. ~n.matched /\ n.state # "gone" /\ c.writer # "gone" =>
        n.owed = <<>> /\ n.cache = <<>> /\ n.delivered = <<>>
  BY DEF ReaderInOrder
<1>7. n.matched => n.state # "absent" /\ c.writer = "up"
  BY DEF ReaderInOrder
<1>8. QED BY <1>2, <1>3, <1>4, <1>5, <1>6, <1>7 DEF ReaderInOrder

\* The operations of readers, and what they leave alone.
SameWriter(c, d) ==
  /\ d.writerQos = c.writerQos /\ d.readerQos = c.readerQos
  /\ d.writer = c.writer /\ d.written = c.written /\ d.history = c.history

ReaderOperation(c, r, d) ==
  \/ c.reader[r].state = "absent" /\ d = OpenReader(c, r)
  \/ CanMatch(c, r) /\ d = Match(c, r)
  \/ CanUnmatch(c, r) /\ d = Unmatch(c, r)
  \/ CanArrive(c, r) /\ d = Arrive(c, r)
  \/ CanLose(c, r) /\ d = Lose(c, r)
  \/ CanTake(c, r) /\ d = TakeSample(c, r)
  \/ d = CloseReader(c, r)

LEMMA ReadersInOrder ==
  ASSUME NEW Rs, NEW S, NEW c, InOrder(Rs, S, c), NEW r \in Rs, NEW d,
         ReaderOperation(c, r, d)
  PROVE  InOrder(Rs, S, d) /\ SameWriter(c, d)
<1> DEFINE rd == c.reader[r]
<1>1. c \in ChannelRecord(Rs, S) /\ rd \in ReaderRecord(S) /\ ReaderInOrder(c, rd)
  BY DEF InOrder, ChannelRecord
<1>2. ASSUME NEW n \in ReaderRecord(S), ReaderInOrder(c, n), d = OneReader(c, r, n)
      PROVE  InOrder(Rs, S, d) /\ SameWriter(c, d)
  BY <1>1, <1>2, OneReaderChanges, OneReaderInOrder DEF SameWriter
<1>3. ASSUME NEW q \in Seq(Samples(S))
      PROVE  q # <<>> => Tail(q) \in Seq(Samples(S))
  BY IdsTail
<1>4. CASE c.reader[r].state = "absent" /\ d = OpenReader(c, r)
  <2>1. d = OneReader(c, r, Opened(rd))
    BY <1>1, <1>4, ReaderOperations
  <2>2. /\ Opened(rd) \in ReaderRecord(S) /\ Opened(rd).state = "up"
        /\ Opened(rd).matched = rd.matched /\ Opened(rd).joined = rd.joined
        /\ Opened(rd).owed = rd.owed /\ Opened(rd).cache = rd.cache
        /\ Opened(rd).delivered = rd.delivered
    BY <1>1 DEF Opened, ReaderRecord, EndpointState
  <2>3. ReaderInOrder(c, Opened(rd))
    BY <1>1, <1>4, <2>2 DEF ReaderInOrder, DueOf
  <2>4. QED BY <1>2, <2>1, <2>2, <2>3
<1>5. CASE CanMatch(c, r) /\ d = Match(c, r)
  <2>1. d = OneReader(c, r, Joined(c, rd))
    BY <1>1, <1>5, ReaderOperations
  <2>2. QED BY <1>2, <1>5, <2>1, JoinedInOrder
<1>6. CASE CanUnmatch(c, r) /\ d = Unmatch(c, r)
  <2> DEFINE n == Left(rd)
  <2>1. d = OneReader(c, r, n)
    BY <1>1, <1>6, ReaderOperations
  <2>2. <<>> \in Seq(Samples(S)) /\ rd.state = "gone"
    BY <1>6 DEF CanUnmatch
  <2>3. /\ n \in ReaderRecord(S) /\ n.state = "gone" /\ ~n.matched
        /\ n.joined = rd.joined /\ n.owed = <<>> /\ n.cache = rd.cache
        /\ n.delivered = rd.delivered
    BY <1>1, <2>2 DEF Left, ReaderRecord
  <2> HIDE DEF n
  <2>4. ReaderInOrder(c, n)
    BY <1>1, <2>3, FewerInOrder
  <2>5. QED BY <1>2, <2>1, <2>3, <2>4
<1>7. CASE CanArrive(c, r) /\ d = Arrive(c, r)
  <2>1. d = OneReader(c, r, Received(c, rd))
    BY <1>1, <1>7, ReaderOperations
  <2>2. QED BY <1>2, <1>7, <2>1, ReceivedInOrder
<1>8. CASE CanLose(c, r) /\ d = Lose(c, r)
  <2> DEFINE n == Lost(rd)
  <2>1. d = OneReader(c, r, n)
    BY <1>1, <1>8, ReaderOperations
  <2>2. rd.owed # <<>> /\ Tail(rd.owed) \in Seq(Samples(S))
    BY <1>1, <1>3, <1>8 DEF CanLose, ReaderRecord
  <2>3. /\ n \in ReaderRecord(S) /\ n.state = rd.state /\ n.matched = rd.matched
        /\ n.joined = rd.joined /\ n.owed = Tail(rd.owed) /\ n.cache = rd.cache
        /\ n.delivered = rd.delivered
    BY <1>1, <2>2 DEF Lost, ReaderRecord
  <2> HIDE DEF n
  <2>4. ReaderInOrder(c, n)
    BY <1>1, <2>2, <2>3, FewerInOrder
  <2>5. QED BY <1>2, <2>1, <2>3, <2>4
<1>9. CASE CanTake(c, r) /\ d = TakeSample(c, r)
  <2>1. d = OneReader(c, r, Taken(rd))
    BY <1>1, <1>9, ReaderOperations
  <2>2. QED BY <1>2, <1>9, <2>1, TakenInOrder
<1>10. CASE d = CloseReader(c, r)
  <2> DEFINE n == Closed(rd)
  <2>1. d = OneReader(c, r, n)
    BY <1>1, <1>10, ReaderOperations
  <2>2. <<>> \in Seq(Samples(S)) /\ "gone" \in EndpointState
    BY DEF EndpointState
  <2>3. /\ n \in ReaderRecord(S) /\ n.state = "gone" /\ n.matched = rd.matched
        /\ n.joined = rd.joined /\ n.owed = rd.owed /\ n.cache = <<>>
        /\ n.delivered = rd.delivered
    BY <1>1, <2>2 DEF Closed, ReaderRecord
  <2> HIDE DEF n
  <2>4. ReaderInOrder(c, n)
    BY <1>1, <2>3, FewerInOrder
  <2>5. QED BY <1>2, <2>1, <2>3, <2>4
<1>11. QED BY <1>4, <1>5, <1>6, <1>7, <1>8, <1>9, <1>10 DEF ReaderOperation

\* The writer's operations.
LEMMA OpenedInOrder ==
  ASSUME NEW Rs, NEW S, NEW c, InOrder(Rs, S, c), c.writer = "absent"
  PROVE  InOrder(Rs, S, OpenWriter(c))
<1> DEFINE d == OpenWriter(c)
<1>1. /\ d \in ChannelRecord(Rs, S) /\ d.writerQos = c.writerQos
      /\ d.readerQos = c.readerQos /\ d.writer = "up" /\ d.written = c.written
      /\ d.history = c.history /\ d.reader = c.reader
  BY DEF InOrder, ChannelRecord, OpenWriter, EndpointState
<1> HIDE DEF d
<1>2. \A r \in Rs : ReaderInOrder(d, d.reader[r])
  BY <1>1 DEF InOrder, ReaderInOrder, DurablePair
<1>3. QED BY <1>1, <1>2 DEF InOrder, d

LEMMA ClosedInOrder ==
  ASSUME NEW Rs, NEW S, NEW c, InOrder(Rs, S, c)
  PROVE  InOrder(Rs, S, CloseWriter(c))
<1> DEFINE d == CloseWriter(c)
           f == [r \in Rs |-> [c.reader[r] EXCEPT !.matched = FALSE]]
<1>1. \A r \in Rs : c.reader[r] \in ReaderRecord(S) /\ ReaderInOrder(c, c.reader[r])
  BY DEF InOrder, ChannelRecord
<1>2. /\ f \in [Rs -> ReaderRecord(S)]
      /\ \A r \in Rs : /\ ~f[r].matched /\ f[r].joined = c.reader[r].joined
                        /\ f[r].state = c.reader[r].state /\ f[r].owed = c.reader[r].owed
                        /\ f[r].cache = c.reader[r].cache
                        /\ f[r].delivered = c.reader[r].delivered
  BY <1>1 DEF ReaderRecord
<1>3. d = [c EXCEPT !.writer = "gone", !.history = <<>>, !.reader = f]
  BY DEF InOrder, ChannelRecord, CloseWriter
<1> HIDE DEF f, d
<1>4. /\ d \in ChannelRecord(Rs, S) /\ d.writerQos = c.writerQos
      /\ d.readerQos = c.readerQos /\ d.writer = "gone" /\ d.written = c.written
      /\ d.history = <<>> /\ d.reader = f
  <2>1. <<>> \in Seq(Samples(S)) /\ "gone" \in EndpointState
    BY DEF EndpointState
  <2>2. QED BY <1>2, <1>3, <2>1 DEF InOrder, ChannelRecord
<1>5. \A r \in Rs : ReaderInOrder(d, f[r])
  BY <1>1, <1>2, <1>4 DEF ReaderInOrder, DurablePair, DueOf
<1>6. QED BY <1>4, <1>5, IdsEmpty DEF InOrder, d

LEMMA WrittenInOrder ==
  ASSUME NEW Rs, NEW S, NEW c, InOrder(Rs, S, c), c.writer = "up",
         NEW k, [id |-> c.written + 1, key |-> k] \in S
  PROVE  InOrder(Rs, S, WriteSample(c, k))
<1> DEFINE d == WriteSample(c, k)
           s == [id |-> c.written + 1, key |-> k]
           h == Remember(c.history, s, c.writerQos)
           Sent(r) == [c.reader[r] EXCEPT !.owed = Append(@, s)]
           f == [r \in Rs |-> IF c.reader[r].matched THEN Sent(r) ELSE c.reader[r]]
<1>1. c.written \in Nat /\ s \in Samples(S) /\ s.id = c.written + 1
  BY DEF InOrder, ChannelRecord, Samples
<1>2. /\ h \in Seq(Samples(S)) /\ Ids(h) \subseteq 1 .. c.written + 1 /\ Increasing(h)
  <2>1. /\ c.history \in Seq(Samples(S)) /\ Increasing(c.history)
        /\ Ids(c.history) \subseteq 1 .. c.written
    BY DEF InOrder, ChannelRecord
  <2>2. Below(Ids(c.history), {s.id})
    BY <1>1, <2>1 DEF Below
  <2>3. QED BY <1>1, <2>1, <2>2, Remembering
<1>3. d = [c EXCEPT !.written = c.written + 1, !.history = h, !.reader = f]
  BY DEF InOrder, ChannelRecord, WriteSample
<1> HIDE DEF d, s, h
<1>4. ASSUME NEW r \in Rs
      PROVE  /\ f[r] \in ReaderRecord(S)
             /\ f[r].joined = c.reader[r].joined /\ f[r].matched = c.reader[r].matched
             /\ f[r].state = c.reader[r].state /\ f[r].cache = c.reader[r].cache
             /\ f[r].delivered = c.reader[r].delivered
             /\ f[r].owed = IF c.reader[r].matched THEN Append(c.reader[r].owed, s)
                                                    ELSE c.reader[r].owed
             /\ c.reader[r] \in ReaderRecord(S) /\ ReaderInOrder(c, c.reader[r])
  <2>1. c.reader[r] \in ReaderRecord(S) /\ ReaderInOrder(c, c.reader[r])
    BY DEF InOrder, ChannelRecord
  <2>2. Append(c.reader[r].owed, s) \in Seq(Samples(S))
    BY <1>1, <2>1, IdsAppend DEF ReaderRecord
  <2>3. QED BY <2>1, <2>2 DEF ReaderRecord
<1>5. f \in [Rs -> ReaderRecord(S)]
  BY <1>4
<1> HIDE DEF f
<1>6. /\ d \in ChannelRecord(Rs, S) /\ d.writerQos = c.writerQos
      /\ d.readerQos = c.readerQos /\ d.writer = c.writer /\ d.written = c.written + 1
      /\ d.history = h /\ d.reader = f
  <2>1. c.written + 1 \in Nat /\ c \in ChannelRecord(Rs, S)
    BY <1>1 DEF InOrder
  <2>2. QED BY <1>2, <1>3, <1>5, <2>1 DEF ChannelRecord
<1>7. ASSUME NEW r \in Rs
      PROVE  ReaderInOrder(d, f[r])
  <2> DEFINE rd == c.reader[r]
             n == f[r]
  <2>1. /\ rd \in ReaderRecord(S) /\ ReaderInOrder(c, rd)
        /\ rd.owed \in Seq(Samples(S)) /\ rd.joined \in Nat
        /\ n.joined = rd.joined /\ n.matched = rd.matched /\ n.state = rd.state
        /\ n.cache = rd.cache /\ n.delivered = rd.delivered
        /\ n.owed = IF rd.matched THEN Append(rd.owed, s) ELSE rd.owed
    BY <1>4 DEF ReaderRecord
  <2> HIDE DEF n, rd
  <2>2. Below(DueOf(rd), {s.id}) /\ DueOf(rd) \subseteq Int
    <3>1. DueOf(rd) \subseteq Nat
      BY <2>1, IdsType DEF DueOf, ReaderRecord
    <3>2. QED BY <1>1, <2>1, <3>1 DEF ReaderInOrder, Below
  <2>3. Increasing(n.owed) /\ Ids(n.owed) \subseteq Ids(rd.owed) \union {s.id}
    BY <1>1, <2>1, <2>2, IdsAppend, IncreasingAppend DEF ReaderInOrder, DueOf, Below
  <2>4. Below(Ids(n.delivered) \union Ids(n.cache), Ids(n.owed))
    BY <2>1, <2>2, <2>3 DEF ReaderInOrder, DueOf, Below
  <2>5. DueOf(n) \subseteq DueOf(rd) \union {s.id}
    BY <2>1, <2>3 DEF DueOf
  <2>6. \A m \in DueOf(n) : m <= d.written /\ (~DurablePair(d) => n.joined < m)
    <3>1. DurablePair(d) = DurablePair(c)
      BY <1>6 DEF DurablePair
    <3>2. QED BY <1>1, <1>6, <2>1, <2>2, <2>5, <3>1 DEF ReaderInOrder
  <2>7. n.joined <= d.written
    BY <1>1, <1>6, <2>1 DEF ReaderInOrder
  <2>8. ReaderInOrder(d, n)
    BY <1>6, <2>1, <2>3, <2>4, <2>6, <2>7 DEF ReaderInOrder
  <2>9. QED BY <2>8 DEF n
<1>8. QED BY <1>2, <1>6, <1>7 DEF InOrder, d

LEMMA NewChannelInOrder ==
  ASSUME NEW Rs, NEW S, NEW w \in QosProfile, NEW q \in QosProfile
  PROVE  InOrder(Rs, S, NewChannel(w, q, Rs))
<1> DEFINE c == NewChannel(w, q, Rs)
<1>1. <<>> \in Seq(Samples(S)) /\ "absent" \in EndpointState
  BY DEF EndpointState
<1>2. NewReader \in ReaderRecord(S)
  BY <1>1 DEF NewReader, ReaderRecord
<1>3. /\ c \in ChannelRecord(Rs, S) /\ c.writer = "absent" /\ c.written = 0
      /\ c.history = <<>> /\ \A r \in Rs : c.reader[r] = NewReader
  BY <1>1, <1>2 DEF NewChannel, ChannelRecord
<1> HIDE DEF c
<1>4. /\ NewReader.joined = 0 /\ ~NewReader.matched /\ NewReader.owed = <<>>
      /\ NewReader.cache = <<>> /\ NewReader.delivered = <<>>
  BY DEF NewReader
<1>5. ReaderInOrder(c, NewReader)
  BY <1>3, <1>4, IdsEmpty DEF ReaderInOrder, DueOf, Below
<1>6. QED BY <1>3, <1>5, IdsEmpty DEF InOrder, c

-----------------------------------------------------------------------------
(* What reliable KEEP_ALL endpoints deliver.                               *)

\* A sample that the writer has sent and not delivered is still in its history.
Kept(c, rd) == ToSet(rd.owed) \subseteq ToSet(c.history)
First(c, rd) == IF DurablePair(c) THEN 1 ELSE rd.joined + 1

\* A matched reader has, or is owed by a writer that still holds it, everything
\* since it matched, but for a set m of samples that were taken and let go of.
ReaderComplete(c, rd, m) ==
  /\ rd.matched => Kept(c, rd)
  /\ ~rd.matched /\ rd.state # "gone" /\ c.writer # "gone" => m = {}
  /\ rd.matched /\ rd.state = "up" => DueOf(rd) \union m = First(c, rd) .. c.written

KeepsAll(c) ==
  /\ c.writerQos.keepAll /\ c.readerQos.keepAll /\ ReliablePair(c)
  /\ c.writer # "gone" => Ids(c.history) = 1 .. c.written

Complete(Rs, S, r, m, c) ==
  InOrder(Rs, S, c) /\ KeepsAll(c) /\ r \in Rs /\ ReaderComplete(c, c.reader[r], m)

LEMMA OneReaderComplete ==
  ASSUME NEW Rs, NEW S, NEW r, NEW m, NEW c, Complete(Rs, S, r, m, c), NEW x \in Rs,
         NEW n \in ReaderRecord(S), ReaderInOrder(c, n),
         NEW l, IF x = r THEN ReaderComplete(c, n, l) ELSE l = m
  PROVE  Complete(Rs, S, r, l, OneReader(c, x, n))
<1> DEFINE d == OneReader(c, x, n)
<1>1. /\ InOrder(Rs, S, d) /\ SameWriter(c, d) /\ d.reader[x] = n
      /\ \A y \in Rs : y # x => d.reader[y] = c.reader[y]
  BY OneReaderInOrder, OneReaderChanges DEF Complete, InOrder, SameWriter
<1> HIDE DEF d
<1>2. ReaderComplete(c, d.reader[r], l) /\ KeepsAll(c) /\ r \in Rs
  BY <1>1 DEF Complete
<1>3. ReaderComplete(d, d.reader[r], l)
  BY <1>1, <1>2 DEF ReaderComplete, SameWriter, Kept, First, DurablePair
<1>4. KeepsAll(d)
  BY <1>1, <1>2 DEF KeepsAll, SameWriter, ReliablePair
<1>5. QED BY <1>1, <1>2, <1>3, <1>4 DEF Complete, d

\* The operations of a reader.
LEMMA ReadersComplete ==
  ASSUME NEW Rs, NEW S, NEW r, NEW m, NEW c, Complete(Rs, S, r, m, c), NEW x \in Rs,
         NEW d, ReaderOperation(c, x, d)
  PROVE  Complete(Rs, S, r, m, d)
<1> DEFINE rd == c.reader[x]
<1>1. /\ InOrder(Rs, S, c) /\ c \in ChannelRecord(Rs, S) /\ rd \in ReaderRecord(S)
      /\ ReaderInOrder(c, rd) /\ KeepsAll(c) /\ r \in Rs
      /\ c.history \in Seq(Samples(S)) /\ c.written \in Nat
      /\ rd.owed \in Seq(Samples(S)) /\ rd.cache \in Seq(Samples(S))
      /\ rd.delivered \in Seq(Samples(S)) /\ rd.joined \in Nat
  BY DEF Complete, InOrder, ChannelRecord, ReaderRecord
<1>2. x = r => ReaderComplete(c, rd, m)
  BY DEF Complete
<1>3. InOrder(Rs, S, d) /\ SameWriter(c, d)
  BY <1>1, ReadersInOrder
<1>4. ASSUME NEW n \in ReaderRecord(S), d = OneReader(c, x, n),
             x = r => ReaderComplete(c, n, m)
      PROVE  Complete(Rs, S, r, m, d)
  <2>1. d.reader[x] = n
    BY <1>1, <1>4, OneReaderChanges
  <2>2. ReaderInOrder(d, n)
    BY <1>3, <2>1 DEF InOrder
  <2>3. ReaderInOrder(c, n)
    BY <1>3, <2>2 DEF ReaderInOrder, SameWriter, DurablePair
  <2>4. QED BY <1>4, <2>3, OneReaderComplete
<1>5. CASE c.reader[x].state = "absent" /\ d = OpenReader(c, x)
  <2> DEFINE n == Opened(rd)
  <2>1. d = OneReader(c, x, n)
    BY <1>1, <1>5, ReaderOperations
  <2>2. /\ n \in ReaderRecord(S) /\ n.state = "up" /\ n.matched = rd.matched
    BY <1>1 DEF Opened, ReaderRecord, EndpointState
  <2> HIDE DEF n
  <2>3. ~rd.matched
    BY <1>1, <1>5 DEF ReaderInOrder
  <2>4. x = r => ReaderComplete(c, n, m)
    BY <1>2, <1>5, <2>2, <2>3 DEF ReaderComplete
  <2>5. QED BY <1>4, <2>1, <2>2, <2>4
<1>6. CASE CanMatch(c, x) /\ d = Match(c, x)
  <2> DEFINE n == Joined(c, rd)
             h == IF DurablePair(c) THEN c.history ELSE <<>>
  <2>1. d = OneReader(c, x, n) /\ n \in ReaderRecord(S)
    BY <1>1, <1>6, ReaderOperations, JoinedInOrder
  <2>2. /\ c.writer = "up" /\ rd.state = "up" /\ ~rd.matched
        /\ rd.cache = <<>> /\ rd.delivered = <<>>
    BY <1>1, <1>6 DEF CanMatch, ReaderInOrder
  <2>3. /\ n.matched /\ n.joined = c.written /\ n.state = "up" /\ n.owed = h
        /\ n.cache = <<>> /\ n.delivered = <<>>
    <3>1. n = [rd EXCEPT !.matched = TRUE, !.joined = c.written, !.owed = h]
      BY DEF Joined
    <3> HIDE DEF h
    <3>2. QED BY <1>1, <2>2, <3>1 DEF ReaderRecord
  <2> HIDE DEF n
  <2>4. ToSet(h) \subseteq ToSet(c.history)
    BY DEF ToSet
  <2>5. DueOf(n) = First(c, n) .. c.written
    BY <1>1, <2>2, <2>3, IdsEmpty DEF DueOf, First, KeepsAll
  <2>6. x = r => ReaderComplete(c, n, m)
    BY <1>2, <2>2, <2>3, <2>4, <2>5 DEF ReaderComplete, Kept
  <2>7. QED BY <1>4, <2>1, <2>6
<1>7. CASE CanUnmatch(c, x) /\ d = Unmatch(c, x)
  <2> DEFINE n == Left(rd)
  <2>1. d = OneReader(c, x, n)
    BY <1>1, <1>7, ReaderOperations
  <2>2. <<>> \in Seq(Samples(S)) /\ rd.state = "gone"
    BY <1>7 DEF CanUnmatch
  <2>3. n \in ReaderRecord(S) /\ n.state = "gone" /\ ~n.matched
    BY <1>1, <2>2 DEF Left, ReaderRecord
  <2> HIDE DEF n
  <2>4. QED BY <1>4, <2>1, <2>3 DEF ReaderComplete
<1>8. CASE CanArrive(c, x) /\ d = Arrive(c, x)
  <2> DEFINE n == Received(c, rd)
             s == Head(rd.owed)
  <2>1. d = OneReader(c, x, n) /\ n \in ReaderRecord(S) /\ rd.owed # <<>>
    BY <1>1, <1>8, ReaderOperations, ReceivedInOrder DEF CanArrive
  <2>2. Remember(rd.cache, s, c.readerQos) = Append(rd.cache, s)
    BY <1>1, RememberAll DEF KeepsAll
  <2>3. /\ n.matched = rd.matched /\ n.state = rd.state /\ n.joined = rd.joined
        /\ n.owed = Tail(rd.owed) /\ n.cache = Append(rd.cache, s)
        /\ n.delivered = rd.delivered
    BY <1>1, <2>2 DEF Received, ReaderRecord
  <2> HIDE DEF n
  <2>4. DueOf(n) = DueOf(rd) /\ (Kept(c, rd) => Kept(c, n))
    <3>1. /\ Ids(rd.owed) = Ids(Tail(rd.owed)) \union {s.id} /\ s \in Samples(S)
          /\ ToSet(Tail(rd.owed)) \subseteq ToSet(rd.owed)
      BY <1>1, <2>1, IdsTail, KeptTail
    <3>2. Ids(Append(rd.cache, s)) = Ids(rd.cache) \union {s.id}
      BY <1>1, <3>1, IdsAppend
    <3>3. QED BY <2>3, <3>1, <3>2 DEF DueOf, Kept
  <2>5. First(c, n) = First(c, rd)
    BY <2>3 DEF First
  <2>6. x = r => ReaderComplete(c, n, m)
    BY <1>2, <2>3, <2>4, <2>5 DEF ReaderComplete
  <2>7. QED BY <1>4, <2>1, <2>6
<1>9. CASE CanLose(c, x) /\ d = Lose(c, x)
  <2> DEFINE n == Lost(rd)
  <2>1. d = OneReader(c, x, n) /\ rd.owed # <<>>
    BY <1>1, <1>9, ReaderOperations DEF CanLose
  <2>2. ~Kept(c, rd)
    BY <1>1, <1>9, <2>1, KeptTail DEF CanLose, Kept, KeepsAll
  <2>3. Tail(rd.owed) \in Seq(Samples(S))
    BY <1>1, <2>1, IdsTail
  <2>4. n \in ReaderRecord(S) /\ n.matched = rd.matched /\ n.state = rd.state
    BY <1>1, <2>3 DEF Lost, ReaderRecord
  <2> HIDE DEF n
  <2>5. x = r => ReaderComplete(c, n, m)
    BY <1>2, <2>2, <2>4 DEF ReaderComplete
  <2>6. QED BY <1>4, <2>1, <2>4, <2>5
<1>10. CASE CanTake(c, x) /\ d = TakeSample(c, x)
  <2> DEFINE n == Taken(rd)
             s == Head(rd.cache)
  <2>1. d = OneReader(c, x, n) /\ n \in ReaderRecord(S) /\ rd.cache # <<>>
    BY <1>1, <1>10, ReaderOperations, TakenInOrder DEF CanTake
  <2>2. /\ n.matched = rd.matched /\ n.state = rd.state /\ n.joined = rd.joined
        /\ n.owed = rd.owed /\ n.cache = Tail(rd.cache)
        /\ n.delivered = Append(rd.delivered, s)
    BY <1>1 DEF Taken, ReaderRecord
  <2> HIDE DEF n
  <2>3. DueOf(n) = DueOf(rd)
    <3>1. Ids(rd.cache) = Ids(Tail(rd.cache)) \union {s.id} /\ s \in Samples(S)
      BY <1>1, <2>1, IdsTail
    <3>2. Ids(Append(rd.delivered, s)) = Ids(rd.delivered) \union {s.id}
      BY <1>1, <3>1, IdsAppend
    <3>3. QED BY <2>2, <3>1, <3>2 DEF DueOf
  <2>4. x = r => ReaderComplete(c, n, m)
    BY <1>2, <2>2, <2>3 DEF ReaderComplete, Kept, First
  <2>5. QED BY <1>4, <2>1, <2>4
<1>11. CASE d = CloseReader(c, x)
  <2> DEFINE n == Closed(rd)
  <2>1. d = OneReader(c, x, n)
    BY <1>1, <1>11, ReaderOperations
  <2>2. <<>> \in Seq(Samples(S)) /\ "gone" \in EndpointState
    BY DEF EndpointState
  <2>3. /\ n \in ReaderRecord(S) /\ n.state = "gone" /\ n.matched = rd.matched
        /\ n.owed = rd.owed
    BY <1>1, <2>2 DEF Closed, ReaderRecord
  <2> HIDE DEF n
  <2>4. x = r => ReaderComplete(c, n, m)
    BY <1>2, <2>3 DEF ReaderComplete, Kept
  <2>5. QED BY <1>4, <2>1, <2>3, <2>4
<1>12. QED BY <1>5, <1>6, <1>7, <1>8, <1>9, <1>10, <1>11 DEF ReaderOperation

\* The operations of the writer.
LEMMA WriterComplete ==
  ASSUME NEW Rs, NEW S, NEW r, NEW m, NEW c, Complete(Rs, S, r, m, c), NEW d,
         \/ c.writer = "absent" /\ d = OpenWriter(c)
         \/ c.writer = "up" /\ \E k : /\ [id |-> c.written + 1, key |-> k] \in S
                                      /\ d = WriteSample(c, k)
         \/ c.writer = "up" /\ d = CloseWriter(c)
  PROVE  Complete(Rs, S, r, m, d)
<1> DEFINE rd == c.reader[r]
<1>1. /\ InOrder(Rs, S, c) /\ c \in ChannelRecord(Rs, S) /\ rd \in ReaderRecord(S)
      /\ ReaderInOrder(c, rd) /\ KeepsAll(c) /\ r \in Rs /\ ReaderComplete(c, rd, m)
      /\ c.history \in Seq(Samples(S)) /\ c.written \in Nat
      /\ rd.owed \in Seq(Samples(S)) /\ rd.joined \in Nat
  BY DEF Complete, InOrder, ChannelRecord, ReaderRecord
<1>2. CASE c.writer = "absent" /\ d = OpenWriter(c)
  <2>1. /\ d.writerQos = c.writerQos /\ d.readerQos = c.readerQos /\ d.writer = "up"
        /\ d.written = c.written /\ d.history = c.history /\ d.reader = c.reader
    BY <1>1, <1>2 DEF ChannelRecord, OpenWriter
  <2>2. InOrder(Rs, S, d)
    BY <1>1, <1>2, OpenedInOrder
  <2>3. ReaderComplete(d, rd, m) /\ KeepsAll(d)
    BY <1>1, <1>2, <2>1
       DEF ReaderComplete, ReaderInOrder, KeepsAll, ReliablePair, Kept, First, DurablePair
  <2>4. QED BY <1>1, <2>1, <2>2, <2>3 DEF Complete
<1>3. ASSUME c.writer = "up", NEW k, [id |-> c.written + 1, key |-> k] \in S,
             d = WriteSample(c, k)
      PROVE  Complete(Rs, S, r, m, d)
  <2> DEFINE s == [id |-> c.written + 1, key |-> k]
             n == d.reader[r]
  <2>1. s \in Samples(S) /\ s.id = c.written + 1
    BY <1>1, <1>3 DEF Samples
  <2>2. InOrder(Rs, S, d)
    BY <1>1, <1>3, WrittenInOrder
  <2>3. Remember(c.history, s, c.writerQos) = Append(c.history, s)
    BY <1>1, RememberAll DEF KeepsAll
  <2>4. /\ d.writerQos = c.writerQos /\ d.readerQos = c.readerQos /\ d.writer = c.writer
        /\ d.written = c.written + 1 /\ d.history = Append(c.history, s)
        /\ n = IF rd.matched THEN [rd EXCEPT !.owed = Append(@, s)] ELSE rd
    BY <1>1, <1>3, <2>3 DEF ChannelRecord, WriteSample
  <2> HIDE DEF s
  <2>5. /\ n.matched = rd.matched /\ n.state = rd.state /\ n.joined = rd.joined
        /\ n.cache = rd.cache /\ n.delivered = rd.delivered
        /\ n.owed = IF rd.matched THEN Append(rd.owed, s) ELSE rd.owed
    BY <1>1, <2>4 DEF ReaderRecord
  <2>6. /\ Ids(d.history) = Ids(c.history) \union {c.written + 1}
        /\ ToSet(c.history) \subseteq ToSet(d.history) /\ s \in ToSet(d.history)
    BY <1>1, <2>1, <2>4, IdsAppend, KeptAppend
  <2>7. KeepsAll(d)
    <3>1. (1 .. c.written) \union {c.written + 1} = 1 .. c.written + 1
      BY <1>1
    <3>2. QED BY <1>1, <1>3, <2>4, <2>6, <3>1 DEF KeepsAll, ReliablePair
  <2>8. Kept(c, rd) => Kept(d, n)
    BY <1>1, <2>1, <2>5, <2>6, KeptAppend DEF Kept
  <2>9. ASSUME rd.matched
        PROVE  DueOf(n) = DueOf(rd) \union {c.written + 1}
    BY <1>1, <2>1, <2>5, <2>9, IdsAppend DEF DueOf
  <2>10. /\ First(d, n) = First(c, rd) /\ First(c, rd) \in Nat
         /\ First(c, rd) <= c.written + 1
    BY <1>1, <2>4, <2>5 DEF First, DurablePair, ReaderInOrder
  <2>11. (First(c, rd) .. c.written) \union {c.written + 1} = First(c, rd) .. c.written + 1
    BY <1>1, <2>10
  <2>12. ReaderComplete(d, n, m)
    <3>1. n.matched => Kept(d, n)
      BY <1>1, <2>5, <2>8 DEF ReaderComplete
    <3>2. ~n.matched /\ n.state # "gone" /\ d.writer # "gone" => m = {}
      BY <1>1, <2>4, <2>5 DEF ReaderComplete
    <3>3. n.matched /\ n.state = "up" => DueOf(n) \union m = First(d, n) .. d.written
      BY <1>1, <2>4, <2>5, <2>9, <2>10, <2>11 DEF ReaderComplete
    <3>4. QED BY <3>1, <3>2, <3>3 DEF ReaderComplete
  <2>13. QED BY <1>1, <2>2, <2>7, <2>12 DEF Complete
<1>4. CASE c.writer = "up" /\ d = CloseWriter(c)
  <2>1. /\ d.writerQos = c.writerQos /\ d.readerQos = c.readerQos /\ d.writer = "gone"
        /\ d.reader[r].matched = FALSE
    BY <1>1, <1>4 DEF ChannelRecord, ReaderRecord, CloseWriter
  <2>2. InOrder(Rs, S, d)
    BY <1>1, <1>4, ClosedInOrder
  <2>3. ReaderComplete(d, d.reader[r], m) /\ KeepsAll(d)
    BY <1>1, <2>1 DEF ReaderComplete, KeepsAll, ReliablePair
  <2>4. QED BY <1>1, <2>2, <2>3 DEF Complete
<1>5. QED BY <1>2, <1>3, <1>4

\* The sample at the head of the cache is let go of.
LEMMA MissedComplete ==
  ASSUME NEW Rs, NEW S, NEW r, NEW m, NEW c, Complete(Rs, S, r, m, c), CanTake(c, r)
  PROVE  LET n == [c.reader[r] EXCEPT !.cache = Tail(@)] IN
         Complete(Rs, S, r, m \union {Head(c.reader[r].cache).id}, OneReader(c, r, n))
<1> DEFINE rd == c.reader[r]
           s == Head(rd.cache)
           n == [rd EXCEPT !.cache = Tail(@)]
           l == m \union {s.id}
<1>1. /\ rd \in ReaderRecord(S) /\ ReaderInOrder(c, rd) /\ ReaderComplete(c, rd, m)
      /\ rd.cache \in Seq(Samples(S)) /\ rd.cache # <<>> /\ rd.state = "up" /\ r \in Rs
  BY DEF Complete, InOrder, ChannelRecord, ReaderRecord, CanTake
<1>2. Tail(rd.cache) \in Seq(Samples(S)) /\ Ids(rd.cache) = Ids(Tail(rd.cache)) \union {s.id}
  BY <1>1, IdsTail
<1>3. /\ n \in ReaderRecord(S) /\ n.state = rd.state /\ n.matched = rd.matched
      /\ n.joined = rd.joined /\ n.owed = rd.owed /\ n.cache = Tail(rd.cache)
      /\ n.delivered = rd.delivered
  BY <1>1, <1>2 DEF ReaderRecord
<1> HIDE DEF n, s, rd
<1>4. ReaderInOrder(c, n)
  BY <1>1, <1>3, FewerInOrder
<1>5. DueOf(n) \union l = DueOf(rd) \union m
  BY <1>2, <1>3 DEF DueOf
<1>6. ~rd.matched => c.writer = "gone"
  BY <1>1 DEF ReaderInOrder
<1>7. ReaderComplete(c, n, l)
  BY <1>1, <1>3, <1>5, <1>6 DEF ReaderComplete, Kept, First
<1>8. QED BY <1>1, <1>3, <1>4, <1>7, OneReaderComplete DEF n, s, rd

LEMMA NewComplete ==
  ASSUME NEW Rs, NEW S, NEW w \in QosProfile, NEW q \in QosProfile, NEW r \in Rs,
         w.keepAll, q.keepAll, w.reliable, q.reliable
  PROVE  Complete(Rs, S, r, {}, NewChannel(w, q, Rs))
<1> DEFINE c == NewChannel(w, q, Rs)
<1>1. InOrder(Rs, S, c)
  BY NewChannelInOrder
<1>2. /\ c.writerQos = w /\ c.readerQos = q /\ c.history = <<>> /\ c.written = 0
      /\ c.reader[r].matched = FALSE
  BY DEF NewChannel, NewReader
<1> HIDE DEF c
<1>3. KeepsAll(c) /\ ReaderComplete(c, c.reader[r], {})
  BY <1>2, IdsEmpty DEF KeepsAll, ReliablePair, ReaderComplete
<1>4. QED BY <1>1, <1>3 DEF Complete, c
-----------------------------------------------------------------------------
(* What reliable endpoints keep, with any history depth.                   *)

\* A connected reader has or will get the newest sample of each key, but for a
\* set m that was taken and let go of.  This is kept because what the writer
\* holds of a key is the end of what it wrote of it (so what displaces a sample
\* at the reader is still held), and because samples are told apart by their id.
ReaderCurrent(c, rd, m) ==
  rd.matched /\ rd.state = "up" =>
    /\ \A s \in Newest(c.history) :
         DurablePair(c) \/ rd.joined < s.id => s.id \in DueOf(rd) \union m
    /\ \A x \in ToSet(c.history), y \in ToSet(rd.owed) :
         x.key = y.key /\ x.id < y.id => y \in ToSet(c.history)
    /\ \A x \in ToSet(c.history), y \in ToSet(rd.owed) \union ToSet(rd.cache) :
         x.id = y.id => x = y

CurrentPair(Rs, S, r, m, c) ==
  InOrder(Rs, S, c) /\ ReliablePair(c) /\ r \in Rs /\ ReaderCurrent(c, c.reader[r], m)

LEMMA SetIds ==
  ASSUME NEW S, NEW q \in Seq(Samples(S))
  PROVE  \A s \in ToSet(q) : s \in Samples(S) /\ s.id \in Ids(q) /\ s.id \in Nat
<1>1. \A T : \A p \in Seq(T) : \A i \in DOMAIN p : p[i] \in T
  OBVIOUS
<1>2. \A i \in DOMAIN q : q[i] \in Samples(S)
  BY <1>1
<1>3. QED BY <1>2 DEF ToSet, Ids, Samples

LEMMA IncreasingIds ==
  ASSUME NEW S, NEW q \in Seq(Samples(S)), Increasing(q)
  PROVE  \A x, y \in ToSet(q) : x.id = y.id => x = y
<1>1. SUFFICES ASSUME NEW i \in DOMAIN q, NEW j \in DOMAIN q, q[i].id = q[j].id
               PROVE  i = j
  BY DEF ToSet
<1>2. i \in Nat /\ j \in Nat /\ q[i].id \in Nat /\ q[j].id \in Nat
  BY LenProperties, IdsType DEF Ids
<1>3. ~(i < j) /\ ~(j < i)
  BY <1>1, <1>2 DEF Increasing
<1>4. QED BY <1>2, <1>3

LEMMA OneReaderCurrent ==
  ASSUME NEW Rs, NEW S, NEW r, NEW m, NEW c, CurrentPair(Rs, S, r, m, c), NEW x \in Rs,
         NEW n \in ReaderRecord(S), ReaderInOrder(c, n),
         NEW l, IF x = r THEN ReaderCurrent(c, n, l) ELSE l = m
  PROVE  CurrentPair(Rs, S, r, l, OneReader(c, x, n))
<1> DEFINE d == OneReader(c, x, n)
<1>1. /\ InOrder(Rs, S, d) /\ SameWriter(c, d) /\ d.reader[x] = n
      /\ \A y \in Rs : y # x => d.reader[y] = c.reader[y]
  BY OneReaderInOrder, OneReaderChanges DEF CurrentPair, InOrder, SameWriter
<1> HIDE DEF d
<1>2. ReaderCurrent(c, d.reader[r], l) /\ ReliablePair(c) /\ r \in Rs
  BY <1>1 DEF CurrentPair
<1>3. ReaderCurrent(d, d.reader[r], l) /\ ReliablePair(d)
  BY <1>1, <1>2 DEF ReaderCurrent, SameWriter, DurablePair, ReliablePair
<1>4. QED BY <1>1, <1>2, <1>3 DEF CurrentPair, d

\* What arrives displaces an older sample of its key, at most.
LEMMA ReceivedCurrent ==
  ASSUME NEW Rs, NEW S, NEW r, NEW m, NEW c, CurrentPair(Rs, S, r, m, c), CanArrive(c, r)
  PROVE  ReaderCurrent(c, Received(c, c.reader[r]), m)
<1> DEFINE rd == c.reader[r]
           n == Received(c, rd)
           s == Head(rd.owed)
           p == Remember(rd.cache, s, c.readerQos)
<1>1. /\ rd \in ReaderRecord(S) /\ ReaderInOrder(c, rd) /\ ReaderCurrent(c, rd, m)
      /\ rd.owed \in Seq(Samples(S)) /\ rd.cache \in Seq(Samples(S)) /\ rd.owed # <<>>
      /\ c.history \in Seq(Samples(S))
  BY DEF CurrentPair, InOrder, ChannelRecord, ReaderRecord, CanArrive
<1>2. /\ s \in Samples(S) /\ Ids(rd.owed) = Ids(Tail(rd.owed)) \union {s.id}
      /\ ToSet(Tail(rd.owed)) \subseteq ToSet(rd.owed) /\ s \in ToSet(rd.owed)
      /\ s.id \in Ids(rd.owed)
  BY <1>1, IdsTail, KeptTail
<1>3. /\ s \in ToSet(p) /\ ToSet(p) \subseteq ToSet(rd.cache) \union {s}
      /\ \A e \in ToSet(rd.cache) \ ToSet(p) : e.key = s.key
  BY <1>1, <1>2, RememberNewest DEF ReaderInOrder
<1>4. /\ n.matched = rd.matched /\ n.state = rd.state /\ n.joined = rd.joined
      /\ n.owed = Tail(rd.owed) /\ n.cache = p /\ n.delivered = rd.delivered
  BY <1>1 DEF Received, ReaderRecord
<1> HIDE DEF p, s, n, rd
<1>5. ASSUME rd.matched, rd.state = "up", NEW x \in Newest(c.history), x.id \in DueOf(rd)
      PROVE  x.id \in DueOf(n)
  <2>1. CASE x.id \in Ids(rd.cache)
    <3>1. PICK e \in ToSet(rd.cache) : e.id = x.id
      BY <2>1 DEF Ids, ToSet
    <3>2. x \in ToSet(c.history)
      BY DEF Newest
    <3>3. e = x
      BY <1>1, <1>5, <3>1, <3>2 DEF ReaderCurrent
    <3>4. CASE e \in ToSet(p)
      BY <1>4, <3>1, <3>4 DEF DueOf, Ids, ToSet
    <3>5. CASE e \notin ToSet(p)
      <4>1. x.key = s.key
        BY <1>3, <3>1, <3>3, <3>5
      <4>2. x.id < s.id
        BY <1>1, <1>2, <2>1 DEF ReaderInOrder, Below
      <4>3. s \in ToSet(c.history)
        BY <1>1, <1>2, <1>5, <3>2, <4>1, <4>2 DEF ReaderCurrent
      <4>4. s.id <= x.id /\ x.id \in Nat /\ s.id \in Nat
        BY <1>1, <3>2, <4>1, <4>3, SetIds DEF Newest
      <4>5. QED BY <4>2, <4>4
    <3>6. QED BY <3>4, <3>5
  <2>2. CASE x.id = s.id
    BY <1>3, <1>4, <2>2 DEF DueOf, Ids, ToSet
  <2>3. CASE x.id \in Ids(rd.delivered) \union Ids(Tail(rd.owed))
    BY <1>4, <2>3 DEF DueOf
  <2>4. QED BY <1>2, <1>5, <2>1, <2>2, <2>3 DEF DueOf
<1>6. ReaderCurrent(c, n, m)
  BY <1>1, <1>2, <1>3, <1>4, <1>5 DEF ReaderCurrent
<1>7. QED BY <1>6 DEF n, rd

\* The operations of a reader.
LEMMA ReadersCurrent ==
  ASSUME NEW Rs, NEW S, NEW r, NEW m, NEW c, CurrentPair(Rs, S, r, m, c), NEW x \in Rs,
         NEW d, ReaderOperation(c, x, d)
  PROVE  CurrentPair(Rs, S, r, m, d)
<1> DEFINE rd == c.reader[x]
<1>1. /\ InOrder(Rs, S, c) /\ c \in ChannelRecord(Rs, S) /\ rd \in ReaderRecord(S)
      /\ ReaderInOrder(c, rd) /\ ReliablePair(c) /\ r \in Rs
      /\ c.history \in Seq(Samples(S)) /\ c.written \in Nat
      /\ rd.owed \in Seq(Samples(S)) /\ rd.cache \in Seq(Samples(S))
      /\ rd.delivered \in Seq(Samples(S)) /\ rd.joined \in Nat
  BY DEF CurrentPair, InOrder, ChannelRecord, ReaderRecord
<1>2. x = r => ReaderCurrent(c, rd, m)
  BY DEF CurrentPair
<1>3. InOrder(Rs, S, d) /\ SameWriter(c, d)
  BY <1>1, ReadersInOrder
<1>4. ASSUME NEW n \in ReaderRecord(S), d = OneReader(c, x, n),
             x = r => ReaderCurrent(c, n, m)
      PROVE  CurrentPair(Rs, S, r, m, d)
  <2>1. d.reader[x] = n
    BY <1>1, <1>4, OneReaderChanges
  <2>2. ReaderInOrder(d, n)
    BY <1>3, <2>1 DEF InOrder
  <2>3. ReaderInOrder(c, n)
    BY <1>3, <2>2 DEF ReaderInOrder, SameWriter, DurablePair
  <2>4. QED BY <1>4, <2>3, OneReaderCurrent
<1>5. CASE c.reader[x].state = "absent" /\ d = OpenReader(c, x)
  <2> DEFINE n == Opened(rd)
  <2>1. d = OneReader(c, x, n)
    BY <1>1, <1>5, ReaderOperations
  <2>2. /\ n \in ReaderRecord(S) /\ n.matched = rd.matched
    BY <1>1 DEF Opened, ReaderRecord, EndpointState
  <2> HIDE DEF n
  <2>3. ~rd.matched
    BY <1>1, <1>5 DEF ReaderInOrder
  <2>4. QED BY <1>4, <2>1, <2>2, <2>3 DEF ReaderCurrent
<1>6. CASE CanMatch(c, x) /\ d = Match(c, x)
  <2> DEFINE n == Joined(c, rd)
             h == IF DurablePair(c) THEN c.history ELSE <<>>
  <2>1. d = OneReader(c, x, n) /\ n \in ReaderRecord(S)
    BY <1>1, <1>6, ReaderOperations, JoinedInOrder
  <2>2. rd.cache = <<>> /\ rd.delivered = <<>>
    BY <1>1, <1>6 DEF CanMatch, ReaderInOrder
  <2>3. /\ n.matched /\ n.joined = c.written /\ n.owed = h
        /\ n.cache = <<>> /\ n.delivered = <<>>
    <3>1. n = [rd EXCEPT !.matched = TRUE, !.joined = c.written, !.owed = h]
      BY DEF Joined
    <3> HIDE DEF h
    <3>2. QED BY <1>1, <2>2, <3>1 DEF ReaderRecord
  <2> HIDE DEF n
  <2>4. ToSet(h) \subseteq ToSet(c.history) /\ ToSet(n.cache) = {}
    BY <2>3 DEF ToSet
  <2>5. \A s \in Newest(c.history) :
          DurablePair(c) \/ n.joined < s.id => s.id \in DueOf(n) \union m
    <3>1. TAKE s \in Newest(c.history)
    <3>2. s \in ToSet(c.history)
      BY DEF Newest
    <3>3. s.id \in Ids(c.history) /\ s.id <= c.written /\ s.id \in Nat
      BY <1>1, <3>2, SetIds DEF InOrder
    <3>4. CASE DurablePair(c)
      BY <2>3, <3>3, <3>4 DEF DueOf
    <3>5. CASE ~DurablePair(c)
      BY <1>1, <2>3, <3>3, <3>5
    <3>6. QED BY <3>4, <3>5
  <2>6. ReaderCurrent(c, n, m)
    <3>1. \A y \in ToSet(n.owed) : y \in ToSet(c.history)
      BY <2>3, <2>4
    <3>2. \A y, z \in ToSet(c.history) : y.id = z.id => y = z
      BY <1>1, IncreasingIds DEF InOrder
    <3>3. QED BY <2>4, <2>5, <3>1, <3>2 DEF ReaderCurrent
  <2>7. QED BY <1>4, <2>1, <2>6
<1>7. CASE CanUnmatch(c, x) /\ d = Unmatch(c, x)
  <2> DEFINE n == Left(rd)
  <2>1. d = OneReader(c, x, n)
    BY <1>1, <1>7, ReaderOperations
  <2>2. <<>> \in Seq(Samples(S))
    OBVIOUS
  <2>3. n \in ReaderRecord(S) /\ ~n.matched
    BY <1>1, <2>2 DEF Left, ReaderRecord
  <2> HIDE DEF n
  <2>4. QED BY <1>4, <2>1, <2>3 DEF ReaderCurrent
<1>8. CASE CanArrive(c, x) /\ d = Arrive(c, x)
  <2>1. d = OneReader(c, x, Received(c, rd)) /\ Received(c, rd) \in ReaderRecord(S)
    BY <1>1, <1>8, ReaderOperations, ReceivedInOrder
  <2>2. x = r => ReaderCurrent(c, Received(c, rd), m)
    BY <1>8, ReceivedCurrent
  <2>3. QED BY <1>4, <2>1, <2>2
<1>9. CASE CanLose(c, x) /\ d = Lose(c, x)
  <2> DEFINE n == Lost(rd)
             s == Head(rd.owed)
  <2>1. d = OneReader(c, x, n) /\ rd.owed # <<>> /\ s \notin ToSet(c.history)
    BY <1>1, <1>9, ReaderOperations DEF CanLose
  <2>2. /\ Tail(rd.owed) \in Seq(Samples(S)) /\ s \in ToSet(rd.owed)
        /\ ToSet(Tail(rd.owed)) \subseteq ToSet(rd.owed)
        /\ Ids(rd.owed) = Ids(Tail(rd.owed)) \union {s.id}
    BY <1>1, <2>1, IdsTail, KeptTail
  <2>3. /\ n \in ReaderRecord(S) /\ n.state = rd.state /\ n.matched = rd.matched
        /\ n.joined = rd.joined /\ n.owed = Tail(rd.owed) /\ n.cache = rd.cache
        /\ n.delivered = rd.delivered
    BY <1>1, <2>2 DEF Lost, ReaderRecord
  <2> HIDE DEF n, s
  <2>4. \A y \in DueOf(rd) : y = s.id \/ y \in DueOf(n)
    BY <2>2, <2>3 DEF DueOf
  <2>5. ASSUME x = r
        PROVE  ReaderCurrent(c, n, m)
    <3>1. SUFFICES ASSUME rd.matched, rd.state = "up"
                   PROVE  ReaderCurrent(c, n, m)
      BY <2>3 DEF ReaderCurrent
    <3>2. \A y \in ToSet(c.history) : y.id # s.id
      BY <1>2, <2>1, <2>2, <2>5, <3>1 DEF ReaderCurrent
    <3>3. QED BY <1>2, <2>2, <2>3, <2>4, <2>5, <3>1, <3>2 DEF ReaderCurrent, Newest
  <2>6. QED BY <1>4, <2>1, <2>3, <2>5
<1>10. CASE CanTake(c, x) /\ d = TakeSample(c, x)
  <2> DEFINE n == Taken(rd)
             s == Head(rd.cache)
  <2>1. d = OneReader(c, x, n) /\ n \in ReaderRecord(S) /\ rd.cache # <<>>
    BY <1>1, <1>10, ReaderOperations, TakenInOrder DEF CanTake
  <2>2. /\ n.matched = rd.matched /\ n.state = rd.state /\ n.joined = rd.joined
        /\ n.owed = rd.owed /\ n.cache = Tail(rd.cache)
        /\ n.delivered = Append(rd.delivered, s)
    BY <1>1 DEF Taken, ReaderRecord
  <2> HIDE DEF n
  <2>3. DueOf(n) = DueOf(rd) /\ ToSet(n.cache) \subseteq ToSet(rd.cache)
    <3>1. /\ Ids(rd.cache) = Ids(Tail(rd.cache)) \union {s.id} /\ s \in Samples(S)
          /\ ToSet(Tail(rd.cache)) \subseteq ToSet(rd.cache)
      BY <1>1, <2>1, IdsTail, KeptTail
    <3>2. Ids(Append(rd.delivered, s)) = Ids(rd.delivered) \union {s.id}
      BY <1>1, <3>1, IdsAppend
    <3>3. QED BY <2>2, <3>1, <3>2 DEF DueOf
  <2>4. x = r => ReaderCurrent(c, n, m)
    BY <1>2, <2>2, <2>3 DEF ReaderCurrent
  <2>5. QED BY <1>4, <2>1, <2>4
<1>11. CASE d = CloseReader(c, x)
  <2> DEFINE n == Closed(rd)
  <2>1. d = OneReader(c, x, n)
    BY <1>1, <1>11, ReaderOperations
  <2>2. <<>> \in Seq(Samples(S)) /\ "gone" \in EndpointState
    BY DEF EndpointState
  <2>3. n \in ReaderRecord(S) /\ n.state = "gone"
    BY <1>1, <2>2 DEF Closed, ReaderRecord
  <2> HIDE DEF n
  <2>4. QED BY <1>4, <2>1, <2>3 DEF ReaderCurrent
<1>12. QED BY <1>5, <1>6, <1>7, <1>8, <1>9, <1>10, <1>11 DEF ReaderOperation

\* The operations of the writer.
LEMMA WriterCurrent ==
  ASSUME NEW Rs, NEW S, NEW r, NEW m, NEW c, CurrentPair(Rs, S, r, m, c), NEW d,
         \/ c.writer = "absent" /\ d = OpenWriter(c)
         \/ c.writer = "up" /\ \E k : /\ [id |-> c.written + 1, key |-> k] \in S
                                      /\ d = WriteSample(c, k)
         \/ c.writer = "up" /\ d = CloseWriter(c)
  PROVE  CurrentPair(Rs, S, r, m, d)
<1> DEFINE rd == c.reader[r]
<1>1. /\ InOrder(Rs, S, c) /\ c \in ChannelRecord(Rs, S) /\ rd \in ReaderRecord(S)
      /\ ReaderInOrder(c, rd) /\ ReliablePair(c) /\ r \in Rs /\ ReaderCurrent(c, rd, m)
      /\ c.history \in Seq(Samples(S)) /\ c.written \in Nat
      /\ rd.owed \in Seq(Samples(S)) /\ rd.cache \in Seq(Samples(S))
  BY DEF CurrentPair, InOrder, ChannelRecord, ReaderRecord
<1>2. CASE c.writer = "absent" /\ d = OpenWriter(c)
  <2>1. /\ d.writerQos = c.writerQos /\ d.readerQos = c.readerQos
        /\ d.history = c.history /\ d.reader = c.reader
    BY <1>1, <1>2 DEF ChannelRecord, OpenWriter
  <2>2. InOrder(Rs, S, d)
    BY <1>1, <1>2, OpenedInOrder
  <2>3. ReaderCurrent(d, rd, m) /\ ReliablePair(d)
    BY <1>1, <2>1 DEF ReaderCurrent, ReliablePair, DurablePair
  <2>4. QED BY <1>1, <2>1, <2>2, <2>3 DEF CurrentPair
<1>3. ASSUME c.writer = "up", NEW k, [id |-> c.written + 1, key |-> k] \in S,
             d = WriteSample(c, k)
      PROVE  CurrentPair(Rs, S, r, m, d)
  <2> DEFINE s == [id |-> c.written + 1, key |-> k]
             n == d.reader[r]
             h == c.history
             p == Remember(h, s, c.writerQos)
  <2>1. s \in Samples(S) /\ s.id = c.written + 1 /\ s.key = k /\ s.id \in Nat
    BY <1>1, <1>3 DEF Samples
  <2>2. InOrder(Rs, S, d)
    BY <1>1, <1>3, WrittenInOrder
  <2>3. /\ d.writerQos = c.writerQos /\ d.readerQos = c.readerQos /\ d.history = p
        /\ n = IF rd.matched THEN [rd EXCEPT !.owed = Append(@, s)] ELSE rd
    BY <1>1, <1>3 DEF ChannelRecord, WriteSample
  <2>4. /\ s \in ToSet(p) /\ ToSet(p) \subseteq ToSet(h) \union {s}
        /\ \A e \in ToSet(h) \ ToSet(p) :
             e.key = s.key /\ \A x \in ToSet(h) : x.key = s.key => e.id <= x.id
    BY <1>1, <2>1, RememberNewest DEF InOrder
  <2>5. /\ n.matched = rd.matched /\ n.state = rd.state /\ n.joined = rd.joined
        /\ n.cache = rd.cache /\ n.delivered = rd.delivered
        /\ n.owed = IF rd.matched THEN Append(rd.owed, s) ELSE rd.owed
    BY <1>1, <2>3 DEF ReaderRecord
  <2>6. /\ \A x \in ToSet(h) : x.id < s.id /\ x.id \in Nat
        /\ \A x \in ToSet(rd.owed) \union ToSet(rd.cache) : x.id < s.id /\ x.id \in Nat
    <3>1. /\ \A x \in ToSet(h) : x.id \in Ids(h) /\ x.id \in Nat
          /\ \A x \in ToSet(rd.owed) : x.id \in DueOf(rd) /\ x.id \in Nat
          /\ \A x \in ToSet(rd.cache) : x.id \in DueOf(rd) /\ x.id \in Nat
      BY <1>1, SetIds DEF DueOf
    <3>2. QED BY <1>1, <2>1, <3>1 DEF InOrder, ReaderInOrder
  <2> HIDE DEF s, n, p
  <2>7. SUFFICES ASSUME rd.matched, rd.state = "up"
                 PROVE  ReaderCurrent(d, n, m)
    <3>1. ~(rd.matched /\ rd.state = "up") => ReaderCurrent(d, n, m)
      BY <2>5 DEF ReaderCurrent
    <3>2. ReliablePair(d)
      BY <1>1, <2>3 DEF ReliablePair
    <3>3. QED BY <1>1, <2>2, <2>7, <3>1, <3>2 DEF CurrentPair, n
  <2>8. /\ ToSet(n.owed) = ToSet(rd.owed) \union {s}
        /\ DueOf(n) = DueOf(rd) \union {s.id}
        /\ DurablePair(d) = DurablePair(c)
    <3>1. /\ ToSet(Append(rd.owed, s)) = ToSet(rd.owed) \union {s}
          /\ Ids(Append(rd.owed, s)) = Ids(rd.owed) \union {s.id}
      BY <1>1, <2>1, KeptAppend, IdsAppend
    <3>2. QED BY <2>3, <2>5, <2>7, <3>1 DEF DueOf, DurablePair
  <2>9. ASSUME NEW x \in Newest(d.history), DurablePair(d) \/ n.joined < x.id
        PROVE  x.id \in DueOf(n) \union m
    <3>1. x \in ToSet(p) /\ \A y \in ToSet(p) : y.key = x.key => y.id <= x.id
      BY <2>3 DEF Newest
    <3>2. CASE x = s
      BY <2>8, <3>2
    <3>3. CASE x # s
      <4>1. x \in ToSet(h) /\ x.key # s.key
        <5>1. x \in ToSet(h)
          BY <2>4, <3>1, <3>3
        <5>2. x.id < s.id /\ x.id \in Nat
          BY <2>6, <5>1
        <5>3. x.key = s.key => s.id <= x.id
          BY <2>4, <3>1
        <5>4. QED BY <2>1, <5>1, <5>2, <5>3
      <4>2. \A y \in ToSet(h) : y.key = x.key => y \in ToSet(p)
        BY <2>4, <4>1
      <4>3. x \in Newest(h)
        BY <3>1, <4>1, <4>2 DEF Newest
      <4>4. QED BY <1>1, <2>5, <2>7, <2>8, <2>9, <4>3 DEF ReaderCurrent
    <3>4. QED BY <3>2, <3>3
  <2>10. ASSUME NEW x \in ToSet(d.history), NEW y \in ToSet(n.owed),
                x.key = y.key, x.id < y.id
         PROVE  y \in ToSet(d.history)
    <3>1. CASE y = s
      BY <2>3, <2>4, <3>1
    <3>2. CASE y # s
      <4>1. y \in ToSet(rd.owed) /\ y.id < s.id
        BY <2>6, <2>8, <3>2
      <4>2. x \in ToSet(h)
        <5>1. x \in ToSet(h) \/ x = s
          BY <2>3, <2>4
        <5>2. y.id \in Nat /\ ~(s.id < y.id)
          BY <2>1, <2>6, <4>1
        <5>3. QED BY <2>10, <5>1, <5>2
      <4>3. y \in ToSet(h)
        BY <1>1, <2>7, <2>10, <4>1, <4>2 DEF ReaderCurrent
      <4>4. CASE y \notin ToSet(p)
        <5>1. y.id <= x.id
          BY <2>4, <2>10, <4>2, <4>3, <4>4
        <5>2. QED BY <2>6, <2>10, <4>2, <4>3, <5>1
      <4>5. QED BY <2>3, <4>4
    <3>3. QED BY <3>1, <3>2
  <2>11. ASSUME NEW x \in ToSet(d.history), NEW y \in ToSet(n.owed) \union ToSet(n.cache),
                x.id = y.id
         PROVE  x = y
    <3>1. /\ x \in ToSet(h) \/ x = s
          /\ y \in ToSet(rd.owed) \union ToSet(rd.cache) \/ y = s
      BY <2>3, <2>4, <2>5, <2>8
    <3>2. CASE x = s \/ y = s
      BY <2>1, <2>6, <2>11, <3>1, <3>2
    <3>3. CASE ~(x = s \/ y = s)
      BY <1>1, <2>7, <2>11, <3>1, <3>3 DEF ReaderCurrent
    <3>4. QED BY <3>2, <3>3
  <2>12. QED BY <2>9, <2>10, <2>11 DEF ReaderCurrent
<1>4. CASE c.writer = "up" /\ d = CloseWriter(c)
  <2>1. /\ d.writerQos = c.writerQos /\ d.readerQos = c.readerQos
        /\ d.reader[r].matched = FALSE
    BY <1>1, <1>4 DEF ChannelRecord, ReaderRecord, CloseWriter
  <2>2. InOrder(Rs, S, d)
    BY <1>1, <1>4, ClosedInOrder
  <2>3. ReaderCurrent(d, d.reader[r], m) /\ ReliablePair(d)
    BY <1>1, <2>1 DEF ReaderCurrent, ReliablePair
  <2>4. QED BY <1>1, <2>2, <2>3 DEF CurrentPair
<1>5. QED BY <1>2, <1>3, <1>4

\* The sample at the head of the cache is let go of.
LEMMA MissedCurrent ==
  ASSUME NEW Rs, NEW S, NEW r, NEW m, NEW c, CurrentPair(Rs, S, r, m, c), CanTake(c, r)
  PROVE  LET n == [c.reader[r] EXCEPT !.cache = Tail(@)] IN
         CurrentPair(Rs, S, r, m \union {Head(c.reader[r].cache).id}, OneReader(c, r, n))
<1> DEFINE rd == c.reader[r]
           s == Head(rd.cache)
           n == [rd EXCEPT !.cache = Tail(@)]
           l == m \union {s.id}
<1>1. /\ rd \in ReaderRecord(S) /\ ReaderInOrder(c, rd) /\ ReaderCurrent(c, rd, m)
      /\ rd.cache \in Seq(Samples(S)) /\ rd.cache # <<>> /\ r \in Rs
  BY DEF CurrentPair, InOrder, ChannelRecord, ReaderRecord, CanTake
<1>2. /\ Tail(rd.cache) \in Seq(Samples(S)) /\ ToSet(Tail(rd.cache)) \subseteq ToSet(rd.cache)
      /\ Ids(rd.cache) = Ids(Tail(rd.cache)) \union {s.id}
  BY <1>1, IdsTail, KeptTail
<1>3. /\ n \in ReaderRecord(S) /\ n.state = rd.state /\ n.matched = rd.matched
      /\ n.joined = rd.joined /\ n.owed = rd.owed /\ n.cache = Tail(rd.cache)
      /\ n.delivered = rd.delivered
  BY <1>1, <1>2 DEF ReaderRecord
<1> HIDE DEF n, s, rd
<1>4. ReaderInOrder(c, n)
  BY <1>1, <1>3, FewerInOrder
<1>5. DueOf(n) \union l = DueOf(rd) \union m
  BY <1>2, <1>3 DEF DueOf
<1>6. ReaderCurrent(c, n, l)
  BY <1>1, <1>2, <1>3, <1>5 DEF ReaderCurrent
<1>7. QED BY <1>1, <1>3, <1>4, <1>6, OneReaderCurrent DEF n, s, rd

LEMMA NewCurrent ==
  ASSUME NEW Rs, NEW S, NEW w \in QosProfile, NEW q \in QosProfile, NEW r \in Rs, NEW m,
         w.reliable, q.reliable
  PROVE  CurrentPair(Rs, S, r, m, NewChannel(w, q, Rs))
<1> DEFINE c == NewChannel(w, q, Rs)
<1>1. InOrder(Rs, S, c)
  BY NewChannelInOrder
<1>2. c.writerQos = w /\ c.readerQos = q /\ c.reader[r].matched = FALSE
  BY DEF NewChannel, NewReader
<1> HIDE DEF c
<1>3. ReliablePair(c) /\ ReaderCurrent(c, c.reader[r], m)
  BY <1>2 DEF ReliablePair, ReaderCurrent
<1>4. QED BY <1>1, <1>3 DEF CurrentPair, c

=============================================================================
