--------------------------- MODULE PipelineProofs ---------------------------
(***************************************************************************)
(* Proofs about Pipeline, for any requests, keys, sizes, consumers, batch  *)
(* limits, deliveries and faults, and about Delivery, which each of its    *)
(* chunks goes through.                                                    *)
(*                                                                         *)
(* That a message is acknowledged only when all of it has landed is not    *)
(* inductive: it is decided at the end of an invocation from what the      *)
(* consumer remembers.  SafetyInv adds what makes the decision right: a    *)
(* message is in one place (InPlace), its log does not change once it is   *)
(* published (Unpublished), a consumer that has lost nothing has delivered *)
(* all that is not in a chunk before it (Delivered), and what is left to   *)
(* count was not counted before (TriesRight, CountedOnceInv).  That needs  *)
(* the chunks of Split to cover its batch (SplitCovers) and the logs that  *)
(* the deduplication strips to be in the same batch as the ones that keep  *)
(* the assignment (DedupedCovers).  MetricsPart adds that the base of an   *)
(* update nothing overlapped is still there, and the sums of SnapshotExact *)
(* are followed one message at a time with the lemmas of FoldProofs.       *)
(*                                                                         *)
(* That a stalled destination leaves the next one its time is shown with a *)
(* schedule: how much of the budget is left at each attempt if every one   *)
(* before it was stalled.  No behaviour falls behind it (OnSchedule).      *)
(***************************************************************************)
EXTENDS Pipeline, Delivery, FoldProofs, TLAPS

\* The requests whose messages go through the queue of a pipeline.
Of(p) == IF p = "events" THEN EventRequests ELSE Requests

LogType == [applies : SUBSET Keys, resolves : {0, 1}, any : BOOLEAN]
JobType == [pc : {"idle", "deliver", "write", "answer"}, of : Pipelines,
            batch : SUBSET Messages, chunks : Seq(Seq(Messages)), ok : BOOLEAN,
            lost : BOOLEAN, base : Nat, stale : BOOLEAN]

TypeInv ==
  /\ unreadable \in SUBSET Messages
  /\ req \in [Messages -> {"new", "reading", "ship", "publish", "done"}]
  /\ seen \in SUBSET Keys
  /\ log \in [Messages -> LogType]
  /\ queue \in [Pipelines -> SUBSET Messages]
  /\ tries \in [Messages -> Nat]
  /\ job \in [Jobs -> JobType]
  /\ kv \in [Pipelines -> Nat]
  /\ acked \in SUBSET Messages /\ dead \in SUBSET Messages
  /\ dropped \in SUBSET Requests /\ evicted \in SUBSET Requests
  /\ assigned \in SUBSET Keys
  /\ counted \in [Messages -> Nat]
  /\ recounted \in SUBSET Messages
  /\ faults \in Nat
  /\ raced \in SUBSET Pipelines
  /\ missed \in SUBSET Messages

\* The message of a request that is still served is nowhere yet, and its log
\* is empty until the resolver has answered.
Unpublished ==
  \A r \in Messages :
    /\ req[r] # "done" => /\ ~Queued(r) /\ ~InHand(r)
                          /\ r \notin acked \cup dead \cup dropped \cup evicted
                          /\ tries[r] = 0 /\ counted[r] = 0
    /\ req[r] \in {"new", "reading"} => log[r] = NoLog
    /\ ~log[r].any => log[r].applies = {}
    /\ r \in EventRequests => req[r] \in {"new", "done"}

\* A message waits in its own queue, or is in the hands of one consumer.
InPlace ==
  /\ \A p \in Pipelines : queue[p] \subseteq Of(p)
  /\ \A j \in Jobs : /\ job[j].batch \subseteq Of(job[j].of)
                     /\ job[j].pc = "idle" => job[j].batch = {}
  /\ \A j \in Jobs, p \in Pipelines : job[j].batch \cap queue[p] = {}
  /\ \A i, j \in Jobs : i # j => job[i].batch \cap job[j].batch = {}

\* The consumer of a batch may still count it.
Counting(j) == job[j].pc \in {"deliver", "write"}

\* What was counted was delivered before, and delivered messages have an end.
TriesRight ==
  /\ \A r \in Messages : counted[r] <= tries[r] /\ tries[r] <= MaxTries
  /\ \A p \in Pipelines : \A r \in queue[p] : tries[r] < MaxTries
  /\ \A j \in Jobs : Counting(j) => \A r \in job[j].batch : counted[r] < tries[r]

\* A message that will be counted, or redelivered, was not counted yet.
CountedOnceInv ==
  /\ CountedAtMostOnce
  /\ \A p \in Pipelines : \A r \in queue[p] : r \notin recounted => counted[r] = 0
  /\ \A j \in Jobs : Counting(j) \/ job[j].lost =>
       \A r \in job[j].batch : r \notin recounted => counted[r] = 0

\* A consumer that has lost nothing has delivered what is in none of the
\* chunks it still has to deliver.
HasLanded(batch, r) ==
  /\ <<"log", r>> \in landed
  /\ \A k \in Deduped(batch, r) : <<"apply", k>> \in landed

Waiting(j, r) ==
  job[j].pc = "deliver" /\ \E i \in DOMAIN job[j].chunks : r \in Range(job[j].chunks[i])

Delivered ==
  \A j \in Jobs : ~job[j].lost =>
    \A r \in job[j].batch \ unreadable : Waiting(j, r) \/ HasLanded(job[j].batch, r)

SafetyInv == TypeInv /\ Unpublished /\ InPlace /\ TriesRight /\ CountedOnceInv /\ Delivered /\ AckedLanded

\* A consumer about to write the snapshot has read what is still there.
BaseExact ==
  \A j \in Jobs : job[j].pc = "write" /\ ~job[j].stale => job[j].base = kv[job[j].of]

-----------------------------------------------------------------------------
(* Readable returns what can be parsed of a batch, all of it, in order.    *)
LEMMA ReadableSeq ==
  ASSUME NEW batch \in SUBSET Messages
  PROVE  /\ Readable(batch) \in Seq(Messages)
         /\ Range(Readable(batch)) = batch \ unreadable
<1> DEFINE S == batch \ unreadable
           n == Cardinality(S)
           Inc(ms) == \A i, k \in DOMAIN ms : i < k => ms[i] < ms[k]
<1>1. IsFiniteSet(S) /\ n \in Nat /\ S \in SUBSET Nat /\ S \subseteq Messages
  BY PipelineAssumption, FS_Subset, FS_CardinalityType
<1>2. \E ms \in [1 .. n -> S] : Inc(ms)
  <2> HIDE DEF S
  <2> QED BY <1>1, IncreasingExists
<1>3. Readable(batch) = CHOOSE ms \in [1 .. n -> S] : Inc(ms)
  BY DEF Readable
<1>4. Readable(batch) \in [1 .. n -> S] /\ Inc(Readable(batch))
  <2> HIDE DEF S, n, Inc
  <2> QED BY <1>2, <1>3
<1> DEFINE f == Readable(batch)
<1>b. f \in [1 .. n -> S] /\ DOMAIN f = 1 .. n /\ \A i, k \in 1 .. n : i < k => f[i] < f[k]
  BY <1>4
<1>5. f \in Injection(1 .. n, S)
  <2>1. ASSUME NEW i \in 1 .. n, NEW k \in 1 .. n, f[i] = f[k] PROVE i = k
    <3>1. f[i] \in Nat /\ f[k] \in Nat
      <4> HIDE DEF f, S
      <4> QED BY <1>1, <1>b
    <3>2. ~(i < k) /\ ~(k < i)
      <4>1. DOMAIN f = 1 .. n
        BY <1>4
      <4>2. (i < k => f[i] < f[k]) /\ (k < i => f[k] < f[i])
        BY <1>b
      <4> HIDE DEF f
      <4> QED BY <2>1, <3>1, <4>2
    <3> QED BY <3>2, <1>1
  <2>2. f \in [1 .. n -> S]
    BY <1>4
  <2> HIDE DEF f, S, n
  <2> QED BY <2>1, <2>2 DEF Injection, IsInjective
<1>6. f \in Surjection(1 .. n, S)
  <2>1. IsFiniteSet(1 .. n) /\ Cardinality(1 .. n) = n
    <3> HIDE DEF n
    <3>1. Cardinality(1 .. n) = IF 1 > n THEN 0 ELSE n - 1 + 1
      BY <1>1, FS_Interval
    <3> QED BY <3>1, <1>1, FS_Interval
  <2>2. Cardinality(1 .. n) = Cardinality(S)
    BY <2>1
  <2> HIDE DEF f, S, n
  <2> QED BY <2>2, <1>1, <1>5, FS_Injection
<1>7. f \in Seq(Messages)
  <2>1. f \in [1 .. n -> Messages]
    <3> HIDE DEF f, n, S
    <3> QED BY <1>1, <1>b
  <2> HIDE DEF f, n
  <2> QED BY <1>1, <2>1
<1>8. Range(f) = S
  <2>1. DOMAIN f = 1 .. n
    BY <1>4
  <2> HIDE DEF f, n, S
  <2> QED BY <1>b, <1>6 DEF Surjection, Range
<1> QED BY <1>7, <1>8

-----------------------------------------------------------------------------
\* Where Split halves the messages i to k.
Mid(i, k) == i + (k - i + 1) \div 2 - 1

LEMMA MidWithin ==
  ASSUME NEW i \in Nat, NEW k \in Nat, i < k
  PROVE  Mid(i, k) \in i .. k - 1 /\ Mid(i, k) - i < k - i /\ k - (Mid(i, k) + 1) < k - i
<1>1. PICK d \in Nat : d = k - i /\ d >= 1
  OBVIOUS
<1>2. (d + 1) \div 2 >= 1 /\ (d + 1) \div 2 <= d /\ (d + 1) \div 2 \in Nat
  BY <1>1
<1>3. Mid(i, k) = i + (d + 1) \div 2 - 1
  BY <1>1 DEF Mid
<1> QED BY <1>1, <1>2, <1>3

\* g computes the chunks of all runs of fewer than d + 1 messages.
SplitFcn(g, ms, big, d) ==
  /\ g \in [(1 .. Len(ms)) \X (1 .. Len(ms)) -> Seq(Seq(Messages))]
  /\ \A i, k \in 1 .. Len(ms) : k - i < d =>
       g[<<i, k>>] = IF big[<<i, k>>] /\ i < k
                     THEN g[<<i, Mid(i, k)>>] \o g[<<Mid(i, k) + 1, k>>]
                     ELSE <<SubSeq(ms, i, k)>>

LEMMA SplitExists ==
  ASSUME NEW ms \in Seq(Messages), NEW big
  PROVE  \E g : SplitFcn(g, ms, big, Len(ms))
<1> DEFINE n == Len(ms)
           Bad == {d \in Nat : ~ \E g : SplitFcn(g, ms, big, d)}
<1>0. n \in Nat
  OBVIOUS
<1> SUFFICES ASSUME Bad # {} PROVE FALSE
  BY <1>0
<1>1. PICK d \in Bad : \A c \in Bad : d <= c
  <2>1. Bad \in SUBSET Nat
    OBVIOUS
  <2> HIDE DEF Bad
  <2> QED BY <2>1, LeastNumber
<1>a. \A i, k \in 1 .. n : SubSeq(ms, i, k) \in Seq(Messages)
  OBVIOUS
<1>2. PICK g : /\ g \in [(1 .. n) \X (1 .. n) -> Seq(Seq(Messages))]
               /\ d = 0 \/ SplitFcn(g, ms, big, d - 1)
  <2>1. CASE d = 0
    <3>1. [b \in (1 .. n) \X (1 .. n) |-> << >>] \in [(1 .. n) \X (1 .. n) -> Seq(Seq(Messages))]
      OBVIOUS
    <3> QED BY <2>1, <3>1
  <2>2. CASE d # 0
    <3>1. d \in Nat /\ d - 1 \in Nat
      BY <2>2
    <3>2. d - 1 \notin Bad
      <4> HIDE DEF Bad
      <4>1. d - 1 \in Bad => d <= d - 1
        BY <1>1
      <4> QED BY <4>1, <3>1
    <3> QED BY <3>1, <3>2 DEF SplitFcn
  <2> QED BY <2>1, <2>2
<1> DEFINE Half(i, k) == g[<<i, Mid(i, k)>>] \o g[<<Mid(i, k) + 1, k>>]
           h == [b \in (1 .. n) \X (1 .. n) |->
                   IF big[b] /\ b[1] < b[2] THEN Half(b[1], b[2]) ELSE <<SubSeq(ms, b[1], b[2])>>]
<1>3. \A i, k \in 1 .. n : i < k => /\ Mid(i, k) \in 1 .. n /\ Mid(i, k) + 1 \in 1 .. n
                                    /\ Mid(i, k) - i < k - i /\ k - (Mid(i, k) + 1) < k - i
  <2> TAKE i, k \in 1 .. n
  <2> HAVE i < k
  <2>1. i \in Nat /\ k \in Nat
    BY <1>0
  <2>2. Mid(i, k) \in i .. k - 1 /\ Mid(i, k) - i < k - i /\ k - (Mid(i, k) + 1) < k - i
    BY <2>1, MidWithin
  <2>3. Mid(i, k) \in 1 .. n /\ Mid(i, k) + 1 \in 1 .. n
    BY <2>2, <1>0
  <2> QED BY <2>2, <2>3
<1>4. \A i, k \in 1 .. n : h[<<i, k>>] = IF big[<<i, k>>] /\ i < k THEN Half(i, k) ELSE <<SubSeq(ms, i, k)>>
  OBVIOUS
<1>5. h \in [(1 .. n) \X (1 .. n) -> Seq(Seq(Messages))]
  <2>1. ASSUME NEW i \in 1 .. n, NEW k \in 1 .. n
        PROVE  (IF big[<<i, k>>] /\ i < k THEN Half(i, k) ELSE <<SubSeq(ms, i, k)>>) \in Seq(Seq(Messages))
    <3>1. CASE big[<<i, k>>] /\ i < k
      <4>1. g[<<i, Mid(i, k)>>] \in Seq(Seq(Messages)) /\ g[<<Mid(i, k) + 1, k>>] \in Seq(Seq(Messages))
        BY <3>1, <1>2, <1>3
      <4> HIDE DEF n
      <4> QED BY <3>1, <4>1
    <3>2. CASE ~(big[<<i, k>>] /\ i < k)
      BY <3>2, <1>a
    <3> QED BY <3>1, <3>2
  <2>2. h = [b \in (1 .. n) \X (1 .. n) |-> h[b]]
    OBVIOUS
  <2>3. ASSUME NEW b \in (1 .. n) \X (1 .. n) PROVE h[b] \in Seq(Seq(Messages))
    <3>1. PICK i, k \in 1 .. n : b = <<i, k>>
      OBVIOUS
    <3>2. h[<<i, k>>] \in Seq(Seq(Messages))
      <4> HIDE DEF h, Half, n
      <4> QED BY <2>1, <1>4, ZenonT(30)
    <3> HIDE DEF h
    <3> QED BY <3>1, <3>2
  <2> HIDE DEF h
  <2> QED BY <2>2, <2>3
<1>6. ASSUME NEW i \in 1 .. n, NEW k \in 1 .. n, k - i < d
      PROVE  h[<<i, k>>] = IF big[<<i, k>>] /\ i < k
                           THEN h[<<i, Mid(i, k)>>] \o h[<<Mid(i, k) + 1, k>>]
                           ELSE <<SubSeq(ms, i, k)>>
  <2>1. CASE ~(big[<<i, k>>] /\ i < k)
    <3> HIDE DEF h
    <3> QED BY <2>1, <1>4
  <2>2. CASE big[<<i, k>>] /\ i < k
    <3>1. /\ Mid(i, k) \in 1 .. n /\ Mid(i, k) + 1 \in 1 .. n
          /\ Mid(i, k) - i < k - i /\ k - (Mid(i, k) + 1) < k - i
      BY <2>2, <1>3
    <3>2. d \in Nat /\ d # 0 /\ SplitFcn(g, ms, big, d - 1)
      <4>1. d \in Nat /\ d # 0
        BY <1>6, <2>2, <1>0
      <4> QED BY <4>1, <1>2
    <3>3. \A p, q \in 1 .. n : q - p < d - 1 => h[<<p, q>>] = g[<<p, q>>]
      <4> TAKE p, q \in 1 .. n
      <4> HAVE q - p < d - 1
      <4>1. g[<<p, q>>] = IF big[<<p, q>>] /\ p < q THEN Half(p, q) ELSE <<SubSeq(ms, p, q)>>
        BY <3>2 DEF SplitFcn
      <4> HIDE DEF h, Half
      <4> QED BY <4>1, <1>4
    <3>4. Mid(i, k) - i < d - 1 /\ k - (Mid(i, k) + 1) < d - 1
      <4>1. Mid(i, k) \in Int /\ d \in Int
        BY <3>1, <3>2
      <4> QED BY <4>1, <3>1, <1>6
    <3>5. h[<<i, Mid(i, k)>>] = g[<<i, Mid(i, k)>>] /\ h[<<Mid(i, k) + 1, k>>] = g[<<Mid(i, k) + 1, k>>]
      <4> HIDE DEF h
      <4> QED BY <3>1, <3>3, <3>4
    <3>6. h[<<i, k>>] = Half(i, k)
      <4> HIDE DEF h, Half
      <4> QED BY <2>2, <1>4
    <3> HIDE DEF h
    <3> QED BY <2>2, <3>5, <3>6
  <2> QED BY <2>1, <2>2
<1>7. SplitFcn(h, ms, big, d)
  <2> HIDE DEF h
  <2> QED BY <1>5, <1>6 DEF SplitFcn
<1> QED BY <1>7, <1>1

\* The chunks that Split makes of each run of messages, given those of the
\* shorter ones.
SplitBody(c, ms) ==
  [b \in (1 .. Len(ms)) \X (1 .. Len(ms)) |->
     IF Encoded(SubSeq(ms, b[1], b[2])) > PROTO_CHUNK /\ b[1] < b[2]
     THEN c[<<b[1], Mid(b[1], b[2])>>] \o c[<<Mid(b[1], b[2]) + 1, b[2]>>]
     ELSE <<SubSeq(ms, b[1], b[2])>>]

LEMMA SplitChoice ==
  ASSUME NEW ms
  PROVE  Split(ms) = IF Len(ms) = 0 THEN << >> ELSE (CHOOSE c : c = SplitBody(c, ms))[<<1, Len(ms)>>]
BY DEF Split, SplitBody, Mid

(* Split loses no message: each is in some chunk.                          *)
LEMMA SplitCovers ==
  ASSUME NEW ms \in Seq(Messages)
  PROVE  /\ Split(ms) \in Seq(Seq(Messages))
         /\ \A r \in Range(ms) : \E q \in DOMAIN Split(ms) : r \in Range(Split(ms)[q])
<1> DEFINE n == Len(ms)
           big == [b \in (1 .. n) \X (1 .. n) |-> Encoded(SubSeq(ms, b[1], b[2])) > PROTO_CHUNK]
<1>0. n \in Nat /\ ms \in [1 .. n -> Messages]
  OBVIOUS
<1>1. CASE n = 0
  <2>1. Split(ms) = << >>
    BY <1>1, SplitChoice
  <2>2. DOMAIN ms = {}
    BY <1>0, <1>1
  <2> QED BY <2>1, <2>2 DEF Range
<1>2. CASE n # 0
  <2>1. PICK g : SplitFcn(g, ms, big, n)
    BY SplitExists
  <2>2. g = SplitBody(g, ms)
    <3>1. ASSUME NEW i \in 1 .. n, NEW k \in 1 .. n
          PROVE  g[<<i, k>>] = SplitBody(g, ms)[<<i, k>>]
      <4>1. k - i < n
        BY <1>0
      <4>2. big[<<i, k>>] = (Encoded(SubSeq(ms, i, k)) > PROTO_CHUNK)
        OBVIOUS
      <4> HIDE DEF big
      <4>3. g[<<i, k>>] = IF big[<<i, k>>] /\ i < k
                          THEN g[<<i, Mid(i, k)>>] \o g[<<Mid(i, k) + 1, k>>]
                          ELSE <<SubSeq(ms, i, k)>>
        BY <4>1, <2>1 DEF SplitFcn
      <4> QED BY <4>2, <4>3 DEF SplitBody
    <3>2. /\ g = [b \in (1 .. n) \X (1 .. n) |-> g[b]]
          /\ SplitBody(g, ms) = [b \in (1 .. n) \X (1 .. n) |-> SplitBody(g, ms)[b]]
      BY <2>1 DEF SplitFcn, SplitBody
    <3>3. \A b \in (1 .. n) \X (1 .. n) : g[b] = SplitBody(g, ms)[b]
      <4> TAKE b \in (1 .. n) \X (1 .. n)
      <4>1. PICK i, k \in 1 .. n : b = <<i, k>>
        OBVIOUS
      <4> QED BY <3>1, <4>1
    <3> QED BY <3>2, <3>3
  <2> DEFINE c == CHOOSE c : c = SplitBody(c, ms)
  <2>3. c = SplitBody(c, ms)
    <3>1. \E d : d = SplitBody(d, ms)
      BY <2>2
    <3> QED BY <3>1
  <2>4. Split(ms) = c[<<1, n>>]
    BY <1>2, SplitChoice
  <2> HIDE DEF c
  <2> DEFINE In(x, s) == \E q \in DOMAIN s : x \in Range(s[q])
             Good(i, k) == /\ c[<<i, k>>] \in Seq(Seq(Messages))
                           /\ \A x \in i .. k : In(ms[x], c[<<i, k>>])
             Bad == {d \in Nat : \E i, k \in 1 .. n : i <= k /\ d = k - i /\ ~Good(i, k)}
  <2>5. ASSUME NEW i \in 1 .. n, NEW k \in 1 .. n
        PROVE  c[<<i, k>>] = IF Encoded(SubSeq(ms, i, k)) > PROTO_CHUNK /\ i < k
                             THEN c[<<i, Mid(i, k)>>] \o c[<<Mid(i, k) + 1, k>>]
                             ELSE <<SubSeq(ms, i, k)>>
    BY <2>3 DEF SplitBody
  <2>6. ASSUME Bad # {} PROVE FALSE
    <3>1. PICK d \in Bad : \A e \in Bad : d <= e
      <4>1. Bad \in SUBSET Nat
        OBVIOUS
      <4> HIDE DEF Bad
      <4> QED BY <2>6, <4>1, LeastNumber
    <3>2. PICK i \in 1 .. n, k \in 1 .. n : i <= k /\ d = k - i /\ ~Good(i, k)
      <4> HIDE DEF Good
      <4> QED BY <3>1
    <3>3. CASE Encoded(SubSeq(ms, i, k)) > PROTO_CHUNK /\ i < k
      <4> DEFINE m == Mid(i, k)
                 a == c[<<i, m>>]
                 b == c[<<m + 1, k>>]
      <4>1. m \in i .. k - 1 /\ m - i < d /\ k - (m + 1) < d
        <5>1. i \in Nat /\ k \in Nat
          BY <1>0
        <5> QED BY <5>1, <3>2, <3>3, MidWithin
      <4>2. m \in 1 .. n /\ m + 1 \in 1 .. n /\ i <= m /\ m + 1 <= k /\ m - i \in Nat /\ k - (m + 1) \in Nat
        <5> HIDE DEF m
        <5> QED BY <4>1, <1>0
      <4>3. Good(i, m) /\ Good(m + 1, k)
        <5> HIDE DEF Good, m
        <5>1. m - i \notin Bad /\ k - (m + 1) \notin Bad
          <6> HIDE DEF Bad
          <6>1. (m - i \in Bad => d <= m - i) /\ (k - (m + 1) \in Bad => d <= k - (m + 1))
            BY <3>1
          <6>2. d \in Int
            BY <3>2
          <6> QED BY <6>1, <6>2, <4>1, <4>2
        <5> QED BY <5>1, <4>2
      <4>4. c[<<i, k>>] = a \o b
        BY <2>5, <3>3
      <4>5. a \in Seq(Seq(Messages)) /\ b \in Seq(Seq(Messages))
        BY <4>3
      <4>6. a \o b \in Seq(Seq(Messages))
        <5> HIDE DEF a, b
        <5> QED BY <4>5
      <4>7. ASSUME NEW x, In(x, a) \/ In(x, b) PROVE In(x, a \o b)
        <5> HIDE DEF a, b
        <5>1. CASE In(x, a)
          <6>1. PICK q \in DOMAIN a : x \in Range(a[q])
            BY <5>1
          <6>2. q \in DOMAIN (a \o b) /\ (a \o b)[q] = a[q]
            BY <4>5
          <6> QED BY <6>1, <6>2
        <5>2. CASE In(x, b)
          <6>1. PICK q \in DOMAIN b : x \in Range(b[q])
            BY <5>2
          <6>2. Len(a) + q \in DOMAIN (a \o b) /\ (a \o b)[Len(a) + q] = b[q]
            BY <4>5
          <6> QED BY <6>1, <6>2
        <5> QED BY <4>7, <5>1, <5>2
      <4>8. ASSUME NEW x \in i .. k PROVE In(ms[x], a \o b)
        <5>1. x \in i .. m \/ x \in m + 1 .. k
          <6> HIDE DEF m
          <6> QED BY <4>1
        <5>2. In(ms[x], a) \/ In(ms[x], b)
          <6> HIDE DEF In, m
          <6> QED BY <5>1, <4>3
        <5> HIDE DEF In, a, b
        <5> QED BY <5>2, <4>7
      <4>9. Good(i, k)
        <5> HIDE DEF In, a, b
        <5> QED BY <4>4, <4>6, <4>8
      <4> QED BY <4>9, <3>2
    <3>4. CASE ~(Encoded(SubSeq(ms, i, k)) > PROTO_CHUNK /\ i < k)
      <4>1. c[<<i, k>>] = <<SubSeq(ms, i, k)>>
        BY <2>5, <3>4
      <4>2. SubSeq(ms, i, k) \in Seq(Messages) /\ Len(SubSeq(ms, i, k)) = k - i + 1
        BY <3>2, <1>0
      <4>3. ASSUME NEW x \in i .. k PROVE ms[x] \in Range(SubSeq(ms, i, k))
        <5>1. x - i + 1 \in 1 .. k - i + 1 /\ SubSeq(ms, i, k)[x - i + 1] = ms[x]
          BY <1>0, <3>2
        <5>2. DOMAIN SubSeq(ms, i, k) = 1 .. k - i + 1
          BY <4>2
        <5> QED BY <5>1, <5>2 DEF Range
      <4> DEFINE s == <<SubSeq(ms, i, k)>>
      <4>4. s \in Seq(Seq(Messages)) /\ 1 \in DOMAIN s /\ s[1] = SubSeq(ms, i, k)
        BY <4>2, SMTT(30)
      <4>5. \A x \in i .. k : In(ms[x], s)
        <5> HIDE DEF s
        <5> QED BY <4>3, <4>4
      <4>6. Good(i, k)
        <5> HIDE DEF In, s
        <5>1. c[<<i, k>>] = s
          BY <4>1 DEF s
        <5> QED BY <5>1, <4>4, <4>5
      <4> QED BY <4>6, <3>2
    <3> QED BY <3>3, <3>4
  <2>7. Good(1, n)
    <3> HIDE DEF Good
    <3>1. n - 1 \in Nat /\ 1 \in 1 .. n /\ n \in 1 .. n /\ 1 <= n
      BY <1>0, <1>2
    <3> QED BY <2>6, <3>1
  <2>8. \A r \in Range(ms) : \E x \in 1 .. n : r = ms[x]
    BY <1>0 DEF Range
  <2>9. \A r \in Range(ms) : In(r, Split(ms))
    <3> HIDE DEF In
    <3> QED BY <2>4, <2>7, <2>8
  <2> QED BY <2>4, <2>7, <2>9
<1> QED BY <1>1, <1>2

-----------------------------------------------------------------------------
\* The sums of the snapshots, over counts c and logs l.
CountedSum(c, l, S) == MapThenSumSet(LAMBDA r : c[r] * l[r].resolves, S)
AddedSum(l, S) == MapThenSumSet(LAMBDA r : l[r].resolves, S)

Counts(c, l) == [r \in Messages |-> c[r] * l[r].resolves]
Added(l) == [r \in Messages |-> l[r].resolves]

LEMMA SnapshotSums ==
  /\ SnapshotExact <=> \A p \in Pipelines : p \notin raced => kv[p] = CountedSum(counted, log, Of(p))
  /\ \A j : Updated(j) = job[j].base + AddedSum(log, Accounted(j))
<1>1. SnapshotExact <=> \A p \in Pipelines : p \notin raced => kv[p] = CountedSum(counted, log, Of(p))
  BY DEF SnapshotExact, Of, CountedSum
<1>2. \A j : Updated(j) = job[j].base + AddedSum(log, Accounted(j))
  BY DEF Updated, AddedSum, Resolves
<1> QED BY <1>1, <1>2

LEMMA CountedTotal ==
  ASSUME NEW c \in [Messages -> Nat],
         NEW l \in [Messages -> LogType],
         NEW S \in SUBSET Messages
  PROVE  CountedSum(c, l, S) = SumOver(Counts(c, l), S)
<1> DEFINE Body(h) == [s \in SUBSET S |-> IF s = {} THEN 0
                        ELSE c[CHOOSE x \in s : TRUE] * l[CHOOSE x \in s : TRUE].resolves
                             + h[s \ {CHOOSE x \in s : TRUE}]]
           w == Counts(c, l)
<1>1. CountedSum(c, l, S) = (CHOOSE h : h = Body(h))[S]
  BY DEF CountedSum, MapThenSumSet, MapThenFoldSet
<1>2. IsFiniteSet(S) /\ \A x \in S : w[x] \in Nat
  <2>1. ASSUME NEW x \in S PROVE w[x] \in Nat
    <3>1. l[x].resolves \in {0, 1} /\ c[x] \in Nat /\ w[x] = c[x] * l[x].resolves
      BY DEF Counts, LogType
    <3>2. c[x] * 0 = 0 /\ c[x] * 1 = c[x]
      BY <3>1
    <3> QED BY <3>1, <3>2
  <2> QED BY <2>1, PipelineAssumption, FS_Subset
<1>3. \A h : Body(h) = SetSumBody(h, w, S)
  <2> TAKE h
  <2>1. ASSUME NEW s \in SUBSET S, s # {}
        PROVE  c[FirstOf(s)] * l[FirstOf(s)].resolves = w[FirstOf(s)]
    <3>1. FirstOf(s) \in Messages
      BY <2>1, FirstIn
    <3> QED BY <3>1 DEF Counts
  <2> HIDE DEF w
  <2> QED BY <2>1 DEF SetSumBody, FirstOf
<1>4. \E h : h = Body(h)
  <2> HIDE DEF Body, w
  <2> QED BY <1>2, <1>3, SetSumSolution
<1>5. (CHOOSE h : h = Body(h)) = Body(CHOOSE h : h = Body(h))
  <2> HIDE DEF Body
  <2> QED BY <1>4
<1> HIDE DEF Body, w
<1> DEFINE h == CHOOSE h : h = Body(h)
<1>6. h = SetSumBody(h, w, S)
  BY <1>3, <1>5
<1> HIDE DEF h
<1>7. SumOver(w, S) = h[S]
  BY <1>2, <1>6, SetSumSolution
<1> QED BY <1>1, <1>7 DEF h, w

LEMMA AddedTotal ==
  ASSUME NEW l \in [Messages -> LogType],
         NEW S \in SUBSET Messages
  PROVE  AddedSum(l, S) = SumOver(Added(l), S)
<1> DEFINE Body(h) == [s \in SUBSET S |-> IF s = {} THEN 0
                        ELSE l[CHOOSE x \in s : TRUE].resolves
                             + h[s \ {CHOOSE x \in s : TRUE}]]
           w == Added(l)
<1>1. AddedSum(l, S) = (CHOOSE h : h = Body(h))[S]
  BY DEF AddedSum, MapThenSumSet, MapThenFoldSet
<1>2. IsFiniteSet(S) /\ \A x \in S : w[x] \in Nat
  <2>1. ASSUME NEW x \in S PROVE w[x] \in Nat
    <3>1. l[x].resolves \in {0, 1} /\ w[x] = l[x].resolves
      BY DEF Added, LogType
    <3> QED BY <3>1
  <2> QED BY <2>1, PipelineAssumption, FS_Subset
<1>3. \A h : Body(h) = SetSumBody(h, w, S)
  <2> TAKE h
  <2>1. ASSUME NEW s \in SUBSET S, s # {}
        PROVE  l[FirstOf(s)].resolves = w[FirstOf(s)]
    <3>1. FirstOf(s) \in Messages
      BY <2>1, FirstIn
    <3> QED BY <3>1 DEF Added
  <2> HIDE DEF w
  <2> QED BY <2>1 DEF SetSumBody, FirstOf
<1>4. \E h : h = Body(h)
  <2> HIDE DEF Body, w
  <2> QED BY <1>2, <1>3, SetSumSolution
<1>5. (CHOOSE h : h = Body(h)) = Body(CHOOSE h : h = Body(h))
  <2> HIDE DEF Body
  <2> QED BY <1>4
<1> HIDE DEF Body, w
<1> DEFINE h == CHOOSE h : h = Body(h)
<1>6. h = SetSumBody(h, w, S)
  BY <1>3, <1>5
<1> HIDE DEF h
<1>7. SumOver(w, S) = h[S]
  BY <1>2, <1>6, SetSumSolution
<1> QED BY <1>1, <1>7 DEF h, w

-----------------------------------------------------------------------------
(* Every variable keeps its type: the requests ...                         *)

LEMMA TypeInit == Init => TypeInv
<1> SUFFICES ASSUME Init PROVE TypeInv
  OBVIOUS
<1>1. NoLog \in LogType
  BY DEF NoLog, LogType
<1>2. IdleJob \in JobType
  BY DEF IdleJob, JobType, Pipelines
<1>3. unreadable \in SUBSET Messages
  BY PipelineAssumption DEF Init
<1> QED BY <1>1, <1>2, <1>3 DEF Init, TypeInv

\* The handlers of the requests keep the types.
LEMMA LogAssignTypes ==
  ASSUME TypeInv, NEW r \in Messages, NEW keys \in SUBSET Keys, NEW n \in {0, 1}, LogAssign(r, keys, n)
  PROVE  log' \in [Messages -> LogType] /\ seen' \in SUBSET Keys /\ assigned' \in SUBSET Keys
<1>1. [applies |-> Kept(keys), resolves |-> n, any |-> TRUE] \in LogType
  BY DEF LogType, Kept
<1> QED BY <1>1 DEF LogAssign, TypeInv

RequestStep ==
  \/ \E r \in ResolveRequests : Resolve(r) \/ Resume(r)
  \/ \E r \in ApplyRequests : Apply(r)
  \/ \E r \in Requests : Ship(r) \/ Publish(r)
  \/ \E r \in EventRequests : PublishEvents(r)
  \/ Evict

JobStep ==
  \/ \E j \in Jobs, p \in Pipelines : Take(j, p)
  \/ \E j \in Jobs : DeliverChunk(j) \/ ReadSnapshot(j) \/ WriteSnapshot(j) \/ Answer(j) \/ Interrupt(j)

LEMMA StepSplit ==
  [Next]_vars =>
    \/ RequestStep /\ UNCHANGED unreadable
    \/ JobStep /\ UNCHANGED unreadable
    \/ UNCHANGED vars
BY DEF Next, Step, RequestStep, JobStep

LEMMA RequestTypes ==
  ASSUME TypeInv, RequestStep, UNCHANGED unreadable
  PROVE  TypeInv'
<1> USE DEF metrics
<1>0. Requests \subseteq Messages /\ EventRequests \subseteq Messages /\ ResolveRequests \subseteq Requests /\ ApplyRequests \subseteq Requests
  BY DEF Requests, Messages
<1>1. ASSUME NEW r \in ResolveRequests, Resolve(r) PROVE TypeInv'
  <2>1. log' \in [Messages -> LogType] /\ seen' \in SUBSET Keys /\ assigned' \in SUBSET Keys
    BY <1>0, <1>1, LogAssignTypes DEF Resolve, TypeInv
  <2>2. req' \in [Messages -> {"new", "reading", "ship", "publish", "done"}]
    BY <1>0, <1>1 DEF Resolve, TypeInv
  <2> QED BY <2>1, <2>2, <1>1 DEF Resolve, TypeInv
<1>2. ASSUME NEW r \in ResolveRequests, Resume(r) PROVE TypeInv'
  <2>1. log' \in [Messages -> LogType] /\ seen' \in SUBSET Keys /\ assigned' \in SUBSET Keys
    BY <1>0, <1>2, LogAssignTypes DEF Resume
  <2>2. req' \in [Messages -> {"new", "reading", "ship", "publish", "done"}]
    BY <1>0, <1>2 DEF Resume, TypeInv
  <2> QED BY <2>1, <2>2, <1>2 DEF Resume, TypeInv
<1>3. ASSUME NEW r \in ApplyRequests, Apply(r) PROVE TypeInv'
  <2>1. log' \in [Messages -> LogType] /\ seen' \in SUBSET Keys /\ assigned' \in SUBSET Keys
    BY <1>0, <1>3, LogAssignTypes DEF Apply, TypeInv
  <2>2. req' \in [Messages -> {"new", "reading", "ship", "publish", "done"}]
    BY <1>0, <1>3 DEF Apply, TypeInv
  <2> QED BY <2>1, <2>2, <1>3 DEF Apply, TypeInv
<1>4. ASSUME NEW r \in Requests, Ship(r) PROVE TypeInv'
  <2>1. seen' \in SUBSET Keys
    BY <1>4 DEF Ship, Swept, TypeInv
  <2>2. req' \in [Messages -> {"new", "reading", "ship", "publish", "done"}]
    BY <1>0, <1>4 DEF Ship, TypeInv
  <2> QED BY <2>1, <2>2, <1>4 DEF Ship, TypeInv
<1>5. ASSUME NEW r \in Requests, Publish(r) PROVE TypeInv'
  <2>1. queue' \in [Pipelines -> SUBSET Messages] /\ dropped' \in SUBSET Requests
    BY <1>0, <1>5 DEF Publish, TypeInv, Pipelines
  <2>2. req' \in [Messages -> {"new", "reading", "ship", "publish", "done"}]
    BY <1>0, <1>5 DEF Publish, TypeInv
  <2> QED BY <2>1, <2>2, <1>5 DEF Publish, TypeInv
<1>6. ASSUME NEW r \in EventRequests, PublishEvents(r) PROVE TypeInv'
  <2>1. queue' \in [Pipelines -> SUBSET Messages]
    BY <1>0, <1>6 DEF PublishEvents, TypeInv, Pipelines
  <2>2. log' \in [Messages -> LogType]
    <3>0. log[r] \in LogType
      BY <1>0 DEF TypeInv
    <3>1. [log[r] EXCEPT !.resolves = 1, !.any = TRUE] \in LogType
      BY <3>0 DEF LogType
    <3>2. [log EXCEPT ![r].resolves = 1, ![r].any = TRUE] = [log EXCEPT ![r] = [log[r] EXCEPT !.resolves = 1, !.any = TRUE]]
      BY <1>0 DEF LogType, TypeInv
    <3> QED BY <3>1, <3>2, <1>6 DEF PublishEvents, TypeInv
  <2>3. req' \in [Messages -> {"new", "reading", "ship", "publish", "done"}]
    BY <1>0, <1>6 DEF PublishEvents, TypeInv
  <2> QED BY <2>1, <2>2, <2>3, <1>6 DEF PublishEvents, TypeInv
<1>7. CASE Evict
  <2>1. req' \in [Messages -> {"new", "reading", "ship", "publish", "done"}]
    BY <1>7 DEF Evict, TypeInv
  <2>2. evicted' \in SUBSET Requests /\ faults' \in Nat /\ seen' \in SUBSET Keys
    BY <1>7 DEF Evict, TypeInv, Running
  <2> QED BY <2>1, <2>2, <1>7 DEF Evict, TypeInv
<1> QED BY <1>1, <1>2, <1>3, <1>4, <1>5, <1>6, <1>7 DEF RequestStep

-----------------------------------------------------------------------------
(* ... and the consumers.                                                  *)

\* What an update adds to a snapshot.
LEMMA UpdatedType ==
  ASSUME TypeInv, NEW j \in Jobs
  PROVE  /\ Updated(j) = job[j].base + SumOver(Added(log), Accounted(j))
         /\ Accounted(j) \in SUBSET Messages
         /\ SumOver(Added(log), Accounted(j)) \in Nat /\ Updated(j) \in Nat
<1>1. job[j] \in JobType /\ log \in [Messages -> LogType]
  BY DEF TypeInv
<1>2. Accounted(j) \in SUBSET Messages /\ job[j].base \in Nat
  BY <1>1 DEF Accounted, JobType
<1>3. Updated(j) = job[j].base + AddedSum(log, Accounted(j))
  BY SnapshotSums
<1>4. AddedSum(log, Accounted(j)) = SumOver(Added(log), Accounted(j))
  BY <1>1, <1>2, AddedTotal
<1>5. SumOver(Added(log), Accounted(j)) \in Nat
  <2>1. \A r \in Accounted(j) : Added(log)[r] \in Nat
    BY <1>1, <1>2 DEF Added, LogType
  <2>2. IsFiniteSet(Accounted(j))
    BY <1>2, PipelineAssumption, FS_Subset
  <2> QED BY <2>1, <2>2, TotalType
<1> QED BY <1>2, <1>3, <1>4, <1>5

\* The chunks a consumer is given are those of what can be parsed.
LEMMA TakeChunks ==
  ASSUME TypeInv, NEW batch \in SUBSET Messages, NEW p \in Pipelines,
         NEW chunks, chunks = IF p = "events" THEN <<Readable(batch)>> ELSE Split(Readable(batch))
  PROVE  /\ chunks \in Seq(Seq(Messages))
         /\ \A r \in batch \ unreadable : \E q \in DOMAIN chunks : r \in Range(chunks[q])
<1>1. Readable(batch) \in Seq(Messages) /\ Range(Readable(batch)) = batch \ unreadable
  BY ReadableSeq
<1>2. CASE p = "events"
  <2> DEFINE ms == Readable(batch)
  <2>1. chunks = <<ms>>
    BY <1>2
  <2> HIDE DEF ms
  <2>2. ms \in Seq(Messages) /\ Range(ms) = batch \ unreadable
    BY <1>1 DEF ms
  <2>3. DOMAIN chunks = {1} /\ chunks[1] = ms
    BY <2>1
  <2>4. chunks \in Seq(Seq(Messages))
    <3>1. ASSUME NEW M, NEW s \in M PROVE <<s>> \in Seq(M)
      OBVIOUS
    <3>2. <<ms>> \in Seq(Seq(Messages))
      BY <2>2, <3>1
    <3> QED BY <2>1, <3>2
  <2>5. \A r \in batch \ unreadable : 1 \in DOMAIN chunks /\ r \in Range(chunks[1])
    BY <2>2, <2>3
  <2> QED BY <2>4, <2>5
<1>3. CASE p # "events"
  BY <1>1, <1>3, SplitCovers
<1> QED BY <1>2, <1>3

\* What a step of consumer j does to the jobs.
LEMMA JobTypes ==
  ASSUME TypeInv, JobStep, UNCHANGED unreadable
  PROVE  TypeInv'
<1> USE DEF metrics, reqVars
<1>1. ASSUME NEW j \in Jobs, NEW p \in Pipelines, Take(j, p) PROVE TypeInv'
  <2>1. PICK batch \in SUBSET queue[p] :
          /\ queue' = [queue EXCEPT ![p] = @ \ batch]
          /\ tries' = [r \in Messages |-> tries[r] + IF r \in batch THEN 1 ELSE 0]
          /\ job' = [job EXCEPT ![j] = [IdleJob EXCEPT
               !.of = p, !.batch = batch,
               !.pc = IF p = "events" /\ batch \subseteq unreadable THEN "answer" ELSE "deliver",
               !.chunks = IF p = "events" THEN <<Readable(batch)>> ELSE Split(Readable(batch))]]
    BY <1>1 DEF Take
  <2>2. batch \in SUBSET Messages /\ queue' \in [Pipelines -> SUBSET Messages]
    BY <2>1 DEF TypeInv
  <2>3. tries' \in [Messages -> Nat]
    BY <2>1 DEF TypeInv
  <2> DEFINE chunks == IF p = "events" THEN <<Readable(batch)>> ELSE Split(Readable(batch))
  <2>4. chunks \in Seq(Seq(Messages))
    BY <2>2, TakeChunks
  <2> HIDE DEF chunks
  <2>5. job' = [job EXCEPT ![j] = [IdleJob EXCEPT
               !.of = p, !.batch = batch,
               !.pc = IF p = "events" /\ batch \subseteq unreadable THEN "answer" ELSE "deliver",
               !.chunks = chunks]]
    BY <2>1 DEF chunks
  <2>6. [IdleJob EXCEPT
               !.of = p, !.batch = batch,
               !.pc = IF p = "events" /\ batch \subseteq unreadable THEN "answer" ELSE "deliver",
               !.chunks = chunks] \in JobType
    BY <2>2, <2>4 DEF IdleJob, JobType
  <2>7. job' \in [Jobs -> JobType]
    BY <2>5, <2>6 DEF TypeInv
  <2> QED BY <2>2, <2>3, <2>7, <1>1 DEF Take, TypeInv
<1>2. ASSUME NEW j \in Jobs, DeliverChunk(j) PROVE TypeInv'
  <2>1. job[j] \in JobType /\ Tail(job[j].chunks) \in Seq(Seq(Messages))
    <3>1. job[j] \in JobType /\ job[j].chunks # << >>
      BY <1>2 DEF TypeInv, DeliverChunk
    <3>2. job[j].chunks \in Seq(Seq(Messages))
      BY <3>1 DEF JobType
    <3> QED BY <3>1, <3>2
  <2>2. /\ [job[j] EXCEPT !.chunks = Tail(@), !.ok = TRUE] \in JobType
        /\ [job[j] EXCEPT !.chunks = Tail(@), !.lost = TRUE] \in JobType
    BY <2>1 DEF JobType
  <2>3. \/ job' = [job EXCEPT ![j] = [job[j] EXCEPT !.chunks = Tail(@), !.ok = TRUE]]
        \/ job' = [job EXCEPT ![j] = [job[j] EXCEPT !.chunks = Tail(@), !.lost = TRUE]]
    BY <1>2, <2>1 DEF DeliverChunk, TypeInv, JobType
  <2>4. job' \in [Jobs -> JobType]
    BY <2>2, <2>3 DEF TypeInv
  <2> QED BY <2>4, <1>2 DEF DeliverChunk, TypeInv
<1>3. ASSUME NEW j \in Jobs, ReadSnapshot(j) PROVE TypeInv'
  <2>1. PICK failed \in BOOLEAN :
          /\ faults' = faults + IF failed THEN 1 ELSE 0
          /\ job' = [job EXCEPT ![j].pc = "write", ![j].stale = failed,
                             ![j].base = IF failed THEN 0 ELSE kv[SnapshotKey(job[j].of)]]
    BY <1>3 DEF ReadSnapshot
  <2> DEFINE base == IF failed THEN 0 ELSE kv[SnapshotKey(job[j].of)]
  <2>2. job[j] \in JobType /\ base \in Nat /\ faults' \in Nat
    BY <2>1 DEF TypeInv, JobType, SnapshotKey
  <2> HIDE DEF base
  <2>3. [job[j] EXCEPT !.pc = "write", !.stale = failed, !.base = base] \in JobType
    BY <2>2 DEF JobType
  <2>4. job' = [job EXCEPT ![j] = [job[j] EXCEPT !.pc = "write", !.stale = failed, !.base = base]]
    BY <2>1, <2>2 DEF TypeInv, JobType, base
  <2>5. job' \in [Jobs -> JobType]
    BY <2>3, <2>4 DEF TypeInv
  <2> QED BY <2>2, <2>5, <1>3 DEF ReadSnapshot, TypeInv
<1>4. ASSUME NEW j \in Jobs, WriteSnapshot(j) PROVE TypeInv'
  <2>1. job[j] \in JobType /\ Updated(j) \in Nat
    BY UpdatedType DEF TypeInv
  <2>2. [job[j] EXCEPT !.pc = "answer"] \in JobType
    BY <2>1 DEF JobType
  <2>3. CASE /\ job' = [job EXCEPT ![j].pc = "answer"] /\ faults' = faults + 1
             /\ missed' = missed \cup Accounted(j) /\ UNCHANGED <<kv, counted, raced>>
    <3>1. job' = [job EXCEPT ![j] = [job[j] EXCEPT !.pc = "answer"]]
      BY <2>1, <2>3 DEF TypeInv, JobType
    <3>2. job' \in [Jobs -> JobType] /\ faults' \in Nat
      BY <2>2, <2>3, <3>1 DEF TypeInv
    <3>3. missed' \in SUBSET Messages
      BY <2>1, <2>3 DEF Accounted, TypeInv, JobType
    <3> QED BY <3>2, <3>3, <2>3, <1>4 DEF WriteSnapshot, TypeInv
  <2>4. CASE /\ kv' = [kv EXCEPT ![SnapshotKey(job[j].of)] = Updated(j)]
             /\ counted' = [r \in Messages |-> counted[r] + IF r \in Accounted(j) THEN 1 ELSE 0]
             /\ raced' = IF job[j].stale THEN raced \cup {job[j].of} ELSE raced
             /\ job' = [i \in Jobs |->
                  IF i = j THEN [job[j] EXCEPT !.pc = "answer"]
                  ELSE [job[i] EXCEPT !.stale = @ \/ (job[i].pc = "write" /\ job[i].of = job[j].of)]]
             /\ UNCHANGED <<faults, missed>>
    <3>1. kv' \in [Pipelines -> Nat] /\ raced' \in SUBSET Pipelines
      BY <2>1, <2>4 DEF TypeInv, JobType, SnapshotKey
    <3>2. counted' \in [Messages -> Nat]
      BY <2>4 DEF TypeInv
    <3>3. ASSUME NEW i \in Jobs
          PROVE  [job[i] EXCEPT !.stale = @ \/ (job[i].pc = "write" /\ job[i].of = job[j].of)] \in JobType
      <4>1. job[i] \in JobType
        BY DEF TypeInv
      <4>2. (job[i].stale \/ (job[i].pc = "write" /\ job[i].of = job[j].of)) \in BOOLEAN
        BY Zenon
      <4> DEFINE b == job[i].stale \/ (job[i].pc = "write" /\ job[i].of = job[j].of)
      <4>3. [job[i] EXCEPT !.stale = b] \in JobType
        <5> HIDE DEF b
        <5>1. b \in BOOLEAN
          BY <4>2 DEF b
        <5> QED BY <4>1, <5>1 DEF JobType
      <4> QED BY <4>3
    <3>4. job' \in [Jobs -> JobType]
      BY <2>2, <2>4, <3>3
    <3> QED BY <3>1, <3>2, <3>4, <2>4, <1>4 DEF WriteSnapshot, TypeInv
  <2> QED BY <2>3, <2>4, <1>4 DEF WriteSnapshot
<1>0. IdleJob \in JobType
  BY DEF IdleJob, JobType, Pipelines
<1>5. ASSUME NEW j \in Jobs, Redeliver(j)
      PROVE  queue' \in [Pipelines -> SUBSET Messages] /\ dead' \in SUBSET Messages
  <2>1. job[j] \in JobType
    BY DEF TypeInv
  <2>2. job[j].batch \in SUBSET Messages /\ job[j].of \in Pipelines
    BY <2>1 DEF JobType
  <2> QED BY <1>5, <2>2 DEF Redeliver, TypeInv
<1>6. ASSUME NEW j \in Jobs, Answer(j) PROVE TypeInv'
  <2>1. job' \in [Jobs -> JobType]
    BY <1>0, <1>6 DEF Answer, TypeInv
  <2>2. CASE Acknowledge(j)
    <3>1. acked' = acked \cup job[j].batch /\ UNCHANGED <<dead, queue>>
      BY <1>6, <2>2 DEF Answer
    <3>2. acked' \in SUBSET Messages
      BY <3>1 DEF TypeInv, JobType
    <3> QED BY <2>1, <3>1, <3>2, <1>6 DEF Answer, TypeInv
  <2>3. CASE ~Acknowledge(j)
    <3>1. Redeliver(j) /\ UNCHANGED acked
      BY <1>6, <2>3 DEF Answer
    <3>2. queue' \in [Pipelines -> SUBSET Messages] /\ dead' \in SUBSET Messages
      BY <3>1, <1>5
    <3> QED BY <2>1, <3>1, <3>2, <1>6 DEF Answer, TypeInv
  <2> QED BY <2>2, <2>3
<1>7. ASSUME NEW j \in Jobs, Interrupt(j) PROVE TypeInv'
  <2>1. job' \in [Jobs -> JobType] /\ faults' \in Nat
    BY <1>0, <1>7 DEF Interrupt, TypeInv
  <2>2. queue' \in [Pipelines -> SUBSET Messages] /\ dead' \in SUBSET Messages
    BY <1>5, <1>7 DEF Interrupt
  <2>3. recounted' \in SUBSET Messages
    BY <1>7 DEF Interrupt, TypeInv, JobType
  <2> QED BY <2>1, <2>2, <2>3, <1>7 DEF Interrupt, TypeInv
<1> QED BY <1>1, <1>2, <1>3, <1>4, <1>6, <1>7 DEF JobStep

LEMMA TypeStep == TypeInv /\ [Next]_vars => TypeInv'
<1> SUFFICES ASSUME TypeInv, [Next]_vars PROVE TypeInv'
  OBVIOUS
<1>1. CASE UNCHANGED vars
  BY <1>1 DEF vars, reqVars, metrics, TypeInv
<1> QED BY <1>1, StepSplit, RequestTypes, JobTypes

-----------------------------------------------------------------------------
(* What the handlers of the requests do to the messages.                   *)

\* What the handlers of the requests may do to the messages: publish, drop
\* or lose the one of a request that ends with this step.
Ends(r) == req[r] # "done" /\ req'[r] = "done"

RequestEffect ==
  /\ UNCHANGED <<tries, job, landed, acked, dead, kv, counted, raced, missed, recounted>>
  /\ \A r \in Messages : req[r] = "done" => req'[r] = "done" /\ log'[r] = log[r]
  /\ \A p \in Pipelines : /\ queue[p] \subseteq queue'[p]
                          /\ \A r \in queue'[p] \ queue[p] : r \in Of(p) /\ Ends(r)
  /\ dropped \subseteq dropped' /\ \A r \in dropped' \ dropped : Ends(r)
  /\ evicted \subseteq evicted' /\ \A r \in evicted' \ evicted : Ends(r)
  /\ \A r \in Messages : /\ req'[r] \in {"new", "reading"} => req[r] \in {"new", "reading"} /\ log'[r] = log[r]
                         /\ ~log'[r].any => log'[r].applies = {}
                         /\ r \in EventRequests => req'[r] \in {"new", "done"}

\* A request whose log is made of what the resolver reports.
LEMMA LogAssignEffect ==
  ASSUME TypeInv, NEW r \in Messages, NEW keys, NEW n, LogAssign(r, keys, n)
  PROVE  /\ log'[r].any
         /\ \A q \in Messages \ {r} : log'[q] = log[q]
<1>1. log'[r] = [applies |-> Kept(keys), resolves |-> n, any |-> TRUE]
  BY DEF LogAssign, TypeInv
<1>2. \A q \in Messages \ {r} : log'[q] = log[q]
  BY DEF LogAssign, TypeInv
<1> QED BY <1>1, <1>2

LEMMA RequestEffects ==
  ASSUME TypeInv, Unpublished, RequestStep
  PROVE  RequestEffect
<1> USE DEF metrics
<1>0. /\ Requests \subseteq Messages /\ EventRequests \subseteq Messages
      /\ ResolveRequests \subseteq Requests /\ ApplyRequests \subseteq Requests
      /\ Requests \cap EventRequests = {}
  BY PipelineAssumption DEF Requests, Messages
<1>a. ASSUME NEW r \in Messages, NEW s, req[r] # "done",
             req' = [req EXCEPT ![r] = s]
      PROVE  req'[r] = s /\ \A q \in Messages \ {r} : req'[q] = req[q]
  BY <1>a DEF TypeInv
<1>b. \A r \in Messages : /\ ~log[r].any => log[r].applies = {}
                          /\ r \in EventRequests => req[r] \in {"new", "done"}
  BY DEF Unpublished
<1>1. ASSUME NEW r \in ResolveRequests, NEW keys, LogAssign(r, keys, 1), req[r] \in {"new", "reading"},
             req' = [req EXCEPT ![r] = "ship"],
             UNCHANGED <<queue, tries, job, landed, acked, dead, dropped, evicted, metrics, recounted, faults>>
      PROVE  RequestEffect
  <2>1. r \in Messages /\ r \notin EventRequests /\ req[r] # "done"
    BY <1>0, <1>1
  <2>2. log'[r].any /\ \A q \in Messages \ {r} : log'[q] = log[q]
    BY <1>1, <2>1, LogAssignEffect
  <2>3. req'[r] = "ship" /\ \A q \in Messages \ {r} : req'[q] = req[q]
    BY <1>1, <1>a, <2>1
  <2> QED BY <1>1, <1>b, <2>1, <2>2, <2>3 DEF RequestEffect
<1>2. ASSUME NEW r \in Requests, NEW s \in {"reading", "done", "ship"}, req[r] = "new",
             req' = [req EXCEPT ![r] = s], UNCHANGED log,
             UNCHANGED <<queue, tries, job, landed, acked, dead, dropped, evicted, metrics, recounted, faults>>
      PROVE  RequestEffect
  <2>1. r \in Messages /\ r \notin EventRequests /\ req[r] # "done"
    BY <1>0, <1>2
  <2>2. req'[r] = s /\ \A q \in Messages \ {r} : req'[q] = req[q]
    BY <1>2, <1>a, <2>1
  <2> QED BY <1>2, <1>b, <2>1, <2>2 DEF RequestEffect
<1>3. ASSUME NEW r \in ResolveRequests, Resolve(r) PROVE RequestEffect
  <2>1. CASE \E keys \in SUBSET Keys : LogAssign(r, keys, 1) /\ req' = [req EXCEPT ![r] = "ship"]
    BY <2>1, <1>1, <1>3 DEF Resolve
  <2>2. CASE req' = [req EXCEPT ![r] = "reading"] /\ UNCHANGED <<log, seen, assigned>>
    BY <2>2, <1>0, <1>2, <1>3 DEF Resolve
  <2>3. CASE req' = [req EXCEPT ![r] = "done"] /\ UNCHANGED <<log, seen, assigned>>
    BY <2>3, <1>0, <1>2, <1>3 DEF Resolve
  <2> QED BY <2>1, <2>2, <2>3, <1>3 DEF Resolve
<1>4. ASSUME NEW r \in ResolveRequests, Resume(r) PROVE RequestEffect
  BY <1>1, <1>4 DEF Resume
<1>5. ASSUME NEW r \in ApplyRequests, Apply(r) PROVE RequestEffect
  <2>0. r \in Messages /\ r \notin EventRequests /\ req[r] = "new" /\ r \in Requests
    BY <1>0, <1>5 DEF Apply
  <2>1. CASE \E keys \in (SUBSET Keys) \ {{}} : LogAssign(r, keys, 0) /\ req' = [req EXCEPT ![r] = "ship"]
    <3>1. PICK keys \in SUBSET Keys : LogAssign(r, keys, 0) /\ req' = [req EXCEPT ![r] = "ship"]
      BY <2>1
    <3>2. log'[r].any /\ \A q \in Messages \ {r} : log'[q] = log[q]
      BY <3>1, <2>0, LogAssignEffect
    <3>3. req'[r] = "ship" /\ \A q \in Messages \ {r} : req'[q] = req[q]
      BY <3>1, <1>a, <2>0
    <3>4. UNCHANGED <<queue, tries, job, landed, acked, dead, dropped, evicted, metrics, recounted, faults>>
      BY <1>5 DEF Apply
    <3> QED BY <1>b, <2>0, <3>2, <3>3, <3>4 DEF RequestEffect
  <2>2. CASE req' = [req EXCEPT ![r] = "ship"] /\ UNCHANGED <<log, seen, assigned>>
    BY <2>2, <2>0, <1>2, <1>5 DEF Apply
  <2>3. CASE req' = [req EXCEPT ![r] = "done"] /\ UNCHANGED <<log, seen, assigned>>
    BY <2>3, <2>0, <1>2, <1>5 DEF Apply
  <2> QED BY <2>1, <2>2, <2>3, <1>5 DEF Apply
<1>6. ASSUME NEW r \in Requests, Ship(r) PROVE RequestEffect
  <2>1. r \in Messages /\ r \notin EventRequests /\ req[r] = "ship"
    BY <1>0, <1>6 DEF Ship
  <2>2. req'[r] \in {"publish", "done"} /\ \A q \in Messages \ {r} : req'[q] = req[q]
    BY <1>6, <2>1 DEF Ship, TypeInv
  <2> QED BY <1>6, <1>b, <2>1, <2>2 DEF Ship, RequestEffect
<1>7. ASSUME NEW r \in Requests, Publish(r) PROVE RequestEffect
  <2>1. r \in Messages /\ r \notin EventRequests /\ req[r] = "publish"
    BY <1>0, <1>7 DEF Publish
  <2>2. req'[r] = "done" /\ \A q \in Messages \ {r} : req'[q] = req[q]
    BY <1>7, <2>1 DEF Publish, TypeInv
  <2>3. /\ \A p \in Pipelines : /\ queue[p] \subseteq queue'[p]
                                /\ \A q \in queue'[p] \ queue[p] : q = r /\ p = "flaglogs"
        /\ dropped \subseteq dropped' /\ \A q \in dropped' \ dropped : q = r
    BY <1>7, <2>1 DEF Publish, TypeInv, Pipelines
  <2>4. Ends(r) /\ r \in Of("flaglogs")
    BY <2>1, <2>2, <1>7 DEF Ends, Of
  <2> QED BY <1>7, <1>b, <2>1, <2>2, <2>3, <2>4 DEF Publish, RequestEffect
<1>8. ASSUME NEW r \in EventRequests, PublishEvents(r) PROVE RequestEffect
  <2>1. r \in Messages /\ req[r] = "new"
    BY <1>0, <1>8 DEF PublishEvents
  <2>2. req'[r] = "done" /\ \A q \in Messages \ {r} : req'[q] = req[q]
    BY <1>8, <2>1 DEF PublishEvents, TypeInv
  <2>3. \A p \in Pipelines : /\ queue[p] \subseteq queue'[p]
                             /\ \A q \in queue'[p] \ queue[p] : q = r /\ p = "events"
    BY <1>8, <2>1 DEF PublishEvents, TypeInv, Pipelines
  <2>4. Ends(r) /\ r \in Of("events")
    BY <2>1, <2>2, <1>8 DEF Ends, Of
  <2>5. log[r] = NoLog /\ log[r] \in LogType
    BY <2>1 DEF Unpublished, TypeInv
  <2>6. log'[r].applies = {} /\ \A q \in Messages \ {r} : log'[q] = log[q]
    BY <1>8, <2>1, <2>5 DEF PublishEvents, TypeInv, NoLog, LogType
  <2> QED BY <1>8, <1>b, <2>1, <2>2, <2>3, <2>4, <2>6 DEF PublishEvents, RequestEffect
<1>9. CASE Evict
  <2>1. \A r \in Messages : req'[r] = IF r \in Running THEN "done" ELSE req[r]
    BY <1>9 DEF Evict
  <2>2. \A r \in Running : r \in Messages /\ req[r] \in {"reading", "ship", "publish"}
    BY <1>0 DEF Running
  <2>3. \A r \in evicted' \ evicted : Ends(r)
    BY <2>1, <2>2, <1>9 DEF Evict, Ends
  <2> QED BY <1>9, <1>b, <2>1, <2>2, <2>3 DEF Evict, RequestEffect
<1> QED BY <1>3, <1>4, <1>5, <1>6, <1>7, <1>8, <1>9 DEF RequestStep

-----------------------------------------------------------------------------
\* Every part of the invariant survives the steps of the requests.
LEMMA RequestKeepsPlaces ==
  ASSUME TypeInv, Unpublished, InPlace, RequestEffect
  PROVE  Unpublished' /\ InPlace'
<1>1. Unpublished'
  <2> SUFFICES ASSUME NEW r \in Messages
               PROVE  /\ req'[r] # "done" => /\ ~Queued(r)' /\ ~InHand(r)'
                                             /\ r \notin acked' \cup dead' \cup dropped' \cup evicted'
                                             /\ tries'[r] = 0 /\ counted'[r] = 0
                      /\ req'[r] \in {"new", "reading"} => log'[r] = NoLog
                      /\ ~log'[r].any => log'[r].applies = {}
                      /\ r \in EventRequests => req'[r] \in {"new", "done"}
    BY DEF Unpublished
  <2>1. ASSUME req'[r] # "done"
        PROVE  /\ ~Queued(r)' /\ ~InHand(r)'
               /\ r \notin acked' \cup dead' \cup dropped' \cup evicted'
               /\ tries'[r] = 0 /\ counted'[r] = 0
    <3>1. req[r] # "done" /\ ~Ends(r)
      BY <2>1 DEF RequestEffect, Ends
    <3>2. /\ ~Queued(r) /\ ~InHand(r)
          /\ r \notin acked \cup dead \cup dropped \cup evicted
          /\ tries[r] = 0 /\ counted[r] = 0
      BY <3>1 DEF Unpublished
    <3>3. ~Queued(r)'
      BY <3>1, <3>2 DEF RequestEffect, Queued
    <3>4. ~InHand(r)'
      BY <3>2 DEF RequestEffect, InHand
    <3> QED BY <3>1, <3>2, <3>3, <3>4 DEF RequestEffect
  <2>2. req'[r] \in {"new", "reading"} => log'[r] = NoLog
    BY DEF RequestEffect, Unpublished
  <2> QED BY <2>1, <2>2 DEF RequestEffect
<1>2. ASSUME NEW j \in Jobs, NEW p \in Pipelines PROVE job[j].batch \cap queue'[p] = {}
  <2>1. job[j].batch \cap queue[p] = {}
    BY DEF InPlace
  <2>2. ASSUME NEW r \in job[j].batch, r \in queue'[p] \ queue[p] PROVE FALSE
    <3>1. Ends(r) /\ r \in Messages
      BY <2>2 DEF RequestEffect, TypeInv, JobType
    <3>2. ~InHand(r)
      BY <3>1 DEF Ends, Unpublished
    <3> QED BY <3>2 DEF InHand
  <2> QED BY <2>1, <2>2
<1>3. ASSUME NEW p \in Pipelines PROVE queue'[p] \subseteq Of(p)
  BY DEF InPlace, RequestEffect
<1>4. InPlace'
  BY <1>2, <1>3 DEF InPlace, RequestEffect
<1> QED BY <1>1, <1>4

LEMMA RequestKeepsCounts ==
  ASSUME TypeInv, TypeInv', Unpublished, TriesRight, CountedOnceInv, RequestEffect
  PROVE  TriesRight' /\ CountedOnceInv'
<1>1. ASSUME NEW p \in Pipelines, NEW r \in queue'[p], r \notin queue[p]
      PROVE  tries[r] = 0 /\ counted[r] = 0
  <2>1. Ends(r) /\ r \in Messages
    BY <1>1 DEF RequestEffect, TypeInv
  <2> QED BY <2>1 DEF Ends, Unpublished
<1>2. MaxTries \in Nat \ {0}
  BY PipelineAssumption
<1>3. \A p \in Pipelines : \A r \in queue'[p] : tries[r] < MaxTries
  BY <1>1, <1>2 DEF TriesRight
<1>4. TriesRight'
  BY <1>3 DEF TriesRight, RequestEffect, Counting
<1>5. \A p \in Pipelines : \A r \in queue'[p] : r \notin recounted => counted[r] = 0
  BY <1>1 DEF CountedOnceInv
<1>6. CountedOnceInv'
  BY <1>5 DEF CountedOnceInv, CountedAtMostOnce, RequestEffect, Counting
<1> QED BY <1>4, <1>6

\* The logs of messages on their way, or acknowledged, do not change.
LEMMA RequestKeepsLogs ==
  ASSUME TypeInv, Unpublished, RequestEffect, NEW r \in Messages,
         Queued(r) \/ InHand(r) \/ r \in acked \/ r \in dead \/ r \in dropped \/ r \in evicted
  PROVE  req[r] = "done" /\ log'[r] = log[r]
BY DEF Unpublished, RequestEffect

LEMMA RequestKeepsDelivered ==
  ASSUME TypeInv, Unpublished, Delivered, AckedLanded, RequestEffect, UNCHANGED unreadable
  PROVE  Delivered' /\ AckedLanded'
<1>1. ASSUME NEW j \in Jobs, NEW r \in job[j].batch PROVE r \in Messages /\ log'[r] = log[r]
  <2>1. r \in Messages /\ InHand(r)
    BY DEF TypeInv, JobType, InHand
  <2> QED BY <2>1, RequestKeepsLogs
<1>2. ASSUME NEW j \in Jobs, NEW r \in job[j].batch PROVE Deduped(job[j].batch, r)' = Deduped(job[j].batch, r)
  BY <1>1 DEF Deduped, RequestEffect
<1>3. ASSUME NEW j \in Jobs, ~job[j].lost, NEW r \in job[j].batch \ unreadable
      PROVE  (Waiting(j, r) \/ HasLanded(job[j].batch, r))'
  <2>1. Waiting(j, r) \/ HasLanded(job[j].batch, r)
    BY <1>3 DEF Delivered
  <2>2. Waiting(j, r)' <=> Waiting(j, r)
    BY DEF Waiting, RequestEffect
  <2>3. HasLanded(job[j].batch, r) => HasLanded(job[j].batch, r)'
    BY <1>2 DEF HasLanded, RequestEffect
  <2> QED BY <2>1, <2>2, <2>3
<1>4. Delivered'
  BY <1>3 DEF Delivered, RequestEffect
<1>5. \A r \in acked : log'[r] = log[r]
  BY RequestKeepsLogs DEF TypeInv
<1>6. AckedLanded'
  BY <1>5 DEF AckedLanded, RequestEffect
<1> QED BY <1>4, <1>6

-----------------------------------------------------------------------------
(* What the consumers do to the messages.                                  *)

\* Consumer j takes a batch from the queue of p.
TakeEffect(j, p, batch) ==
  /\ job[j].pc = "idle" /\ batch \subseteq queue[p]
  /\ \A q \in Pipelines : queue'[q] = IF q = p THEN queue[q] \ batch ELSE queue[q]
  /\ \A r \in Messages : tries'[r] = IF r \in batch THEN tries[r] + 1 ELSE tries[r]
  /\ job'[j].of = p /\ job'[j].batch = batch /\ ~job'[j].lost /\ job'[j].pc \in {"deliver", "answer"}
  /\ \A r \in batch \ unreadable : Waiting(j, r)'
  /\ \A i \in Jobs \ {j} : job'[i] = job[i]
  /\ UNCHANGED <<reqVars, landed, acked, dead, dropped, evicted, metrics, recounted>>

\* A consumer works on: it stays with its batch.
WorkEffect ==
  /\ \A i \in Jobs : /\ job'[i].batch = job[i].batch /\ job'[i].of = job[i].of
                     /\ job'[i].pc = "idle" => job[i].pc = "idle"
                     /\ Counting(i)' => Counting(i)
                     /\ job[i].lost => job'[i].lost
                     /\ job'[i].lost => job[i].lost \/ Counting(i)
  /\ UNCHANGED <<reqVars, queue, tries, acked, dead, dropped, evicted, recounted>>

\* Consumer j ends: its batch is acknowledged, or all of it is queued again
\* or dead.
EndEffect(j) ==
  /\ job'[j] = IdleJob
  /\ \A i \in Jobs \ {j} : job'[i] = job[i]
  /\ \A q \in Pipelines : /\ queue[q] \subseteq queue'[q]
                          /\ \A r \in queue'[q] \ queue[q] : r \in job[j].batch /\ q = job[j].of /\ tries[r] < MaxTries
  /\ acked \subseteq acked' /\ dead \subseteq dead'
  /\ \A r \in (acked' \ acked) \cup (dead' \ dead) : r \in job[j].batch
  /\ UNCHANGED <<reqVars, tries, landed, dropped, evicted, metrics>>

LEMMA TakeHas ==
  ASSUME TypeInv, UNCHANGED unreadable, NEW j \in Jobs, NEW p \in Pipelines, Take(j, p)
  PROVE  \E batch \in SUBSET Messages : TakeEffect(j, p, batch)
<1>1. PICK batch \in SUBSET queue[p] :
        /\ queue' = [queue EXCEPT ![p] = @ \ batch]
        /\ tries' = [r \in Messages |-> tries[r] + IF r \in batch THEN 1 ELSE 0]
        /\ job' = [job EXCEPT ![j] = [IdleJob EXCEPT
             !.of = p, !.batch = batch,
             !.pc = IF p = "events" /\ batch \subseteq unreadable THEN "answer" ELSE "deliver",
             !.chunks = IF p = "events" THEN <<Readable(batch)>> ELSE Split(Readable(batch))]]
  BY DEF Take
<1>2. batch \in SUBSET Messages
  BY DEF TypeInv
<1> DEFINE chunks == IF p = "events" THEN <<Readable(batch)>> ELSE Split(Readable(batch))
<1>3. \A r \in batch \ unreadable : \E q \in DOMAIN chunks : r \in Range(chunks[q])
  BY <1>2, TakeChunks
<1>4. /\ job'[j].of = p /\ job'[j].batch = batch /\ ~job'[j].lost
      /\ job'[j].pc = (IF p = "events" /\ batch \subseteq unreadable THEN "answer" ELSE "deliver")
      /\ job'[j].chunks = chunks
  <2>1. job' = [job EXCEPT ![j] = [IdleJob EXCEPT
             !.of = p, !.batch = batch,
             !.pc = IF p = "events" /\ batch \subseteq unreadable THEN "answer" ELSE "deliver",
             !.chunks = chunks]]
    BY <1>1
  <2> HIDE DEF chunks
  <2> QED BY <2>1 DEF TypeInv, IdleJob
<1>5. \A i \in Jobs \ {j} : job'[i] = job[i]
  BY <1>1 DEF TypeInv
<1> HIDE DEF chunks
<1>6. \A r \in batch \ unreadable : Waiting(j, r)'
  BY <1>3, <1>4 DEF Waiting
<1>7. \A r \in Messages : tries'[r] = IF r \in batch THEN tries[r] + 1 ELSE tries[r]
  BY <1>1 DEF TypeInv
<1>8. \A q \in Pipelines : queue'[q] = IF q = p THEN queue[q] \ batch ELSE queue[q]
  BY <1>1 DEF TypeInv
<1>9. job[j].pc = "idle" /\ UNCHANGED <<reqVars, landed, acked, dead, dropped, evicted, metrics, recounted>>
  BY DEF Take
<1> QED BY <1>1, <1>2, <1>4, <1>5, <1>6, <1>7, <1>8, <1>9 DEF TakeEffect

LEMMA DeliverHas ==
  ASSUME TypeInv, NEW j \in Jobs, DeliverChunk(j)
  PROVE  /\ WorkEffect
         /\ job[j].pc = "deliver" /\ job[j].chunks # << >>
         /\ job[j].chunks \in Seq(Seq(Messages))
         /\ job'[j].chunks = Tail(job[j].chunks) /\ job'[j].pc = "deliver"
         /\ ~job'[j].lost => landed' = landed \cup Content(job[j].batch, Head(job[j].chunks))
         /\ landed \subseteq landed'
         /\ \A i \in Jobs \ {j} : job'[i] = job[i]
         /\ UNCHANGED metrics
<1>1. job[j] \in JobType
  BY DEF TypeInv
<1>2. \/ /\ job' = [job EXCEPT ![j] = [job[j] EXCEPT !.chunks = Tail(@), !.ok = TRUE]]
         /\ landed' = landed \cup Content(job[j].batch, Head(job[j].chunks))
      \/ /\ job' = [job EXCEPT ![j] = [job[j] EXCEPT !.chunks = Tail(@), !.lost = TRUE]]
         /\ landed' \in {landed, landed \cup Content(job[j].batch, Head(job[j].chunks))}
  BY <1>1 DEF DeliverChunk, TypeInv, JobType
<1> DEFINE Got == landed' = landed \cup Content(job[j].batch, Head(job[j].chunks))
<1>3. /\ job'[j].batch = job[j].batch /\ job'[j].of = job[j].of /\ job'[j].pc = job[j].pc
      /\ job'[j].chunks = Tail(job[j].chunks)
      /\ \/ job'[j].lost = job[j].lost /\ Got
         \/ job'[j].lost = TRUE
      /\ \A i \in Jobs \ {j} : job'[i] = job[i]
  <2> DEFINE rest == Tail(job[j].chunks)
  <2>1. CASE job' = [job EXCEPT ![j] = [job[j] EXCEPT !.chunks = rest, !.ok = TRUE]] /\ Got
    <3> HIDE DEF Got, rest
    <3>1. job'[j] = [job[j] EXCEPT !.chunks = rest, !.ok = TRUE] /\ \A i \in Jobs \ {j} : job'[i] = job[i]
      BY <2>1 DEF TypeInv
    <3>2. /\ job'[j].batch = job[j].batch /\ job'[j].of = job[j].of /\ job'[j].pc = job[j].pc
          /\ job'[j].chunks = rest /\ job'[j].lost = job[j].lost
      BY <1>1, <3>1 DEF JobType
    <3> QED BY <2>1, <3>1, <3>2 DEF rest
  <2>2. CASE job' = [job EXCEPT ![j] = [job[j] EXCEPT !.chunks = rest, !.lost = TRUE]]
    <3> HIDE DEF Got, rest
    <3>1. job'[j] = [job[j] EXCEPT !.chunks = rest, !.lost = TRUE] /\ \A i \in Jobs \ {j} : job'[i] = job[i]
      BY <2>2 DEF TypeInv
    <3>2. /\ job'[j].batch = job[j].batch /\ job'[j].of = job[j].of /\ job'[j].pc = job[j].pc
          /\ job'[j].chunks = rest /\ job'[j].lost = TRUE
      BY <1>1, <3>1 DEF JobType
    <3> QED BY <3>1, <3>2 DEF rest
  <2> QED BY <1>2, <2>1, <2>2
<1>4. job[j].pc = "deliver" /\ job[j].chunks # << >>
      /\ UNCHANGED <<reqVars, queue, tries, acked, dead, dropped, evicted, metrics, recounted>>
  BY DEF DeliverChunk
<1>5. WorkEffect
  BY <1>3, <1>4 DEF WorkEffect, Counting
<1> QED BY <1>1, <1>2, <1>3, <1>4, <1>5 DEF JobType

LEMMA ReadHas ==
  ASSUME TypeInv, NEW j \in Jobs, ReadSnapshot(j)
  PROVE  /\ WorkEffect
         /\ job[j].pc = "deliver" /\ job[j].chunks = << >>
         /\ job'[j].lost = job[j].lost /\ job'[j].pc = "write"
         /\ ~job'[j].stale => job'[j].base = kv[job[j].of]
         /\ \A i \in Jobs \ {j} : job'[i] = job[i]
         /\ UNCHANGED <<metrics, landed>>
<1>1. job[j] \in JobType
  BY DEF TypeInv
<1>2. PICK failed \in BOOLEAN :
        job' = [job EXCEPT ![j].pc = "write", ![j].stale = failed,
                           ![j].base = IF failed THEN 0 ELSE kv[SnapshotKey(job[j].of)]]
  BY DEF ReadSnapshot
<1>3. job' = [job EXCEPT ![j] = [job[j] EXCEPT !.pc = "write", !.stale = failed,
                                   !.base = IF failed THEN 0 ELSE kv[SnapshotKey(job[j].of)]]]
  BY <1>1, <1>2 DEF TypeInv, JobType
<1>4. /\ job'[j].batch = job[j].batch /\ job'[j].of = job[j].of /\ job'[j].pc = "write"
      /\ job'[j].lost = job[j].lost /\ job'[j].stale = failed
      /\ job'[j].base = IF failed THEN 0 ELSE kv[SnapshotKey(job[j].of)]
      /\ \A i \in Jobs \ {j} : job'[i] = job[i]
  BY <1>1, <1>3 DEF TypeInv, JobType
<1>5. job[j].pc = "deliver" /\ job[j].chunks = << >>
      /\ UNCHANGED <<reqVars, queue, tries, landed, acked, dead, dropped, evicted, metrics, recounted>>
  BY DEF ReadSnapshot
<1>6. WorkEffect
  BY <1>4, <1>5 DEF WorkEffect, Counting
<1> QED BY <1>4, <1>5, <1>6 DEF SnapshotKey

LEMMA WriteHas ==
  ASSUME TypeInv, NEW j \in Jobs, WriteSnapshot(j)
  PROVE  /\ WorkEffect
         /\ job[j].pc = "write" /\ job'[j].pc = "answer" /\ job'[j].lost = job[j].lost
         /\ \A i \in Jobs \ {j} : /\ job'[i].pc = job[i].pc /\ job'[i].chunks = job[i].chunks
                                  /\ job'[i].base = job[i].base /\ job'[i].lost = job[i].lost
         /\ \/ /\ UNCHANGED <<kv, counted, raced>> /\ missed' = missed \cup Accounted(j)
               /\ \A i \in Jobs \ {j} : job'[i].stale = job[i].stale
            \/ /\ kv' = [kv EXCEPT ![job[j].of] = Updated(j)]
               /\ \A r \in Messages : counted'[r] = counted[r] + IF r \in Accounted(j) THEN 1 ELSE 0
               /\ raced' = IF job[j].stale THEN raced \cup {job[j].of} ELSE raced
               /\ \A i \in Jobs \ {j} : ~job'[i].stale =>
                    ~job[i].stale /\ ~(job[i].pc = "write" /\ job[i].of = job[j].of)
               /\ UNCHANGED missed
         /\ UNCHANGED landed
<1>1. \A i \in Jobs : job[i] \in JobType
  BY DEF TypeInv
<1>2. job[j].pc = "write" /\ UNCHANGED <<reqVars, queue, tries, landed, acked, dead, dropped, evicted, recounted>>
  BY DEF WriteSnapshot
<1>3. CASE /\ job' = [job EXCEPT ![j].pc = "answer"] /\ missed' = missed \cup Accounted(j)
           /\ UNCHANGED <<kv, counted, raced>>
  <2>1. job' = [job EXCEPT ![j] = [job[j] EXCEPT !.pc = "answer"]]
    BY <1>1, <1>3 DEF TypeInv, JobType
  <2>2. /\ job'[j].pc = "answer" /\ job'[j].lost = job[j].lost /\ job'[j].batch = job[j].batch /\ job'[j].of = job[j].of
        /\ \A i \in Jobs \ {j} : job'[i] = job[i]
    BY <1>1, <2>1 DEF TypeInv, JobType
  <2>3. WorkEffect
    BY <1>2, <2>2 DEF WorkEffect, Counting
  <2> QED BY <1>2, <1>3, <2>2, <2>3
<1>4. CASE /\ kv' = [kv EXCEPT ![SnapshotKey(job[j].of)] = Updated(j)]
           /\ counted' = [r \in Messages |-> counted[r] + IF r \in Accounted(j) THEN 1 ELSE 0]
           /\ raced' = IF job[j].stale THEN raced \cup {job[j].of} ELSE raced
           /\ job' = [i \in Jobs |->
                IF i = j THEN [job[j] EXCEPT !.pc = "answer"]
                ELSE [job[i] EXCEPT !.stale = @ \/ (job[i].pc = "write" /\ job[i].of = job[j].of)]]
           /\ UNCHANGED missed
  <2>1. /\ job'[j].pc = "answer" /\ job'[j].lost = job[j].lost /\ job'[j].batch = job[j].batch /\ job'[j].of = job[j].of
    BY <1>1, <1>4 DEF JobType
  <2>2. ASSUME NEW i \in Jobs \ {j}
        PROVE  /\ job'[i].pc = job[i].pc /\ job'[i].chunks = job[i].chunks /\ job'[i].base = job[i].base
               /\ job'[i].lost = job[i].lost /\ job'[i].batch = job[i].batch /\ job'[i].of = job[i].of
               /\ job'[i].stale = (job[i].stale \/ (job[i].pc = "write" /\ job[i].of = job[j].of))
    <3> DEFINE b == job[i].stale \/ (job[i].pc = "write" /\ job[i].of = job[j].of)
    <3>1. job'[i] = [job[i] EXCEPT !.stale = b]
      BY <1>4
    <3> HIDE DEF b
    <3>2. /\ job'[i].pc = job[i].pc /\ job'[i].chunks = job[i].chunks /\ job'[i].base = job[i].base
          /\ job'[i].lost = job[i].lost /\ job'[i].batch = job[i].batch /\ job'[i].of = job[i].of
          /\ job'[i].stale = b
      BY <1>1, <3>1 DEF JobType
    <3> QED BY <3>2 DEF b
  <2>3. WorkEffect
    BY <1>2, <2>1, <2>2 DEF WorkEffect, Counting
  <2>4. \A r \in Messages : counted'[r] = counted[r] + IF r \in Accounted(j) THEN 1 ELSE 0
    BY <1>4
  <2>5. \A i \in Jobs \ {j} : ~job'[i].stale =>
                    ~job[i].stale /\ ~(job[i].pc = "write" /\ job[i].of = job[j].of)
    <3> TAKE i \in Jobs \ {j}
    <3>1. job'[i].stale = (job[i].stale \/ (job[i].pc = "write" /\ job[i].of = job[j].of))
      BY <2>2
    <3> QED BY <3>1, Zenon
  <2>6. kv' = [kv EXCEPT ![job[j].of] = Updated(j)] /\ raced' = IF job[j].stale THEN raced \cup {job[j].of} ELSE raced
    BY <1>4 DEF SnapshotKey
  <2> QED BY <1>2, <1>4, <2>1, <2>2, <2>3, <2>4, <2>5, <2>6
<1> QED BY <1>3, <1>4 DEF WriteSnapshot

LEMMA RedeliverHas ==
  ASSUME TypeInv, NEW j \in Jobs, Redeliver(j)
  PROVE  /\ \A q \in Pipelines : /\ queue[q] \subseteq queue'[q]
                                 /\ \A r \in queue'[q] \ queue[q] : r \in job[j].batch /\ q = job[j].of /\ tries[r] < MaxTries
         /\ dead \subseteq dead' /\ \A r \in dead' \ dead : r \in job[j].batch
         /\ \A r \in job[j].batch : Queued(r)' \/ r \in dead'
<1>1. job[j].of \in Pipelines /\ job[j].batch \subseteq Messages
  BY DEF TypeInv, JobType
<1>2. \A q \in Pipelines : queue'[q] = IF q = job[j].of THEN queue[q] \cup {r \in job[j].batch : tries[r] < MaxTries}
                                       ELSE queue[q]
  BY <1>1 DEF Redeliver, TypeInv
<1>3. \A r \in job[j].batch : r \in queue'[job[j].of] \/ r \in dead'
  <2> TAKE r \in job[j].batch
  <2>1. tries[r] \in Nat /\ MaxTries \in Nat
    BY <1>1, PipelineAssumption DEF TypeInv
  <2>2. tries[r] < MaxTries \/ tries[r] >= MaxTries
    BY <2>1
  <2>3. CASE tries[r] < MaxTries
    <3>1. r \in queue'[job[j].of]
      BY <1>1, <1>2, <2>3
    <3> QED BY <3>1
  <2>4. CASE tries[r] >= MaxTries
    BY <2>4 DEF Redeliver
  <2> QED BY <2>2, <2>3, <2>4
<1> QED BY <1>1, <1>2, <1>3 DEF Redeliver, Queued

LEMMA AnswerHas ==
  ASSUME TypeInv, NEW j \in Jobs, Answer(j)
  PROVE  /\ EndEffect(j) /\ job[j].pc = "answer"
         /\ \/ acked' = acked \cup job[j].batch /\ UNCHANGED <<dead, queue>> /\ ~job[j].lost
            \/ job[j].lost /\ UNCHANGED acked /\ \A r \in job[j].batch : Queued(r)' \/ r \in dead'
         /\ UNCHANGED recounted
<1>1. job'[j] = IdleJob /\ \A i \in Jobs \ {j} : job'[i] = job[i]
  BY DEF Answer, TypeInv
<1>2. job[j].pc = "answer" /\ UNCHANGED <<reqVars, tries, landed, dropped, evicted, metrics, recounted>>
  BY DEF Answer
<1>3. CASE ~job[j].lost
  <2>1. acked' = acked \cup job[j].batch /\ UNCHANGED <<dead, queue>>
    BY <1>3 DEF Answer, Acknowledge
  <2> QED BY <1>1, <1>2, <1>3, <2>1 DEF EndEffect
<1>4. CASE job[j].lost
  <2>1. Redeliver(j) /\ UNCHANGED acked
    BY <1>4 DEF Answer, Acknowledge
  <2> QED BY <1>1, <1>2, <1>4, <2>1, RedeliverHas DEF EndEffect
<1> QED BY <1>3, <1>4

LEMMA InterruptHas ==
  ASSUME TypeInv, NEW j \in Jobs, Interrupt(j)
  PROVE  /\ EndEffect(j)
         /\ UNCHANGED acked /\ \A r \in job[j].batch : Queued(r)' \/ r \in dead'
         /\ recounted' = recounted \cup {r \in job[j].batch : counted[r] > 0}
<1>1. job'[j] = IdleJob /\ \A i \in Jobs \ {j} : job'[i] = job[i]
  BY DEF Interrupt, TypeInv
<1>2. /\ UNCHANGED <<reqVars, tries, landed, acked, dropped, evicted, metrics>>
      /\ recounted' = recounted \cup {r \in job[j].batch : counted[r] > 0}
      /\ Redeliver(j)
  BY DEF Interrupt
<1> QED BY <1>1, <1>2, RedeliverHas DEF EndEffect

-----------------------------------------------------------------------------
(* A message stays in one place, and is taken at most MaxTries times.      *)

\* What a consumer is given, or has, is a message of its queue.
LEMMA HandsTyped ==
  ASSUME TypeInv
  PROVE  /\ \A i \in Jobs : job[i].batch \subseteq Messages /\ job[i].of \in Pipelines
         /\ \A p \in Pipelines : queue[p] \subseteq Messages
BY DEF TypeInv, JobType

\* A message in one place stays out of the others.
LEMMA UnpublishedStep ==
  ASSUME TypeInv, Unpublished, UNCHANGED <<reqVars, dropped, evicted>>,
         \A r \in Messages : Queued(r)' \/ InHand(r)' \/ r \in acked' \cup dead' =>
                               Queued(r) \/ InHand(r) \/ r \in acked \cup dead,
         \A r \in Messages : tries'[r] # tries[r] \/ counted'[r] # counted[r] => Queued(r) \/ InHand(r)
  PROVE  Unpublished'
<1>1. ASSUME NEW r \in Messages, req[r] # "done"
      PROVE  /\ ~Queued(r)' /\ ~InHand(r)'
             /\ r \notin acked' \cup dead' \cup dropped' \cup evicted'
             /\ tries'[r] = 0 /\ counted'[r] = 0
  <2>1. /\ ~Queued(r) /\ ~InHand(r)
        /\ r \notin acked \cup dead \cup dropped \cup evicted
        /\ tries[r] = 0 /\ counted[r] = 0
    BY <1>1 DEF Unpublished
  <2> QED BY <2>1
<1>2. req' = req /\ log' = log
  BY DEF reqVars
<1> HIDE DEF Queued, InHand
<1> QED BY <1>1, <1>2 DEF Unpublished

LEMMA TakeKeeps ==
  ASSUME TypeInv, Unpublished, InPlace, TriesRight, CountedOnceInv, Delivered, AckedLanded,
         UNCHANGED unreadable,
         NEW j \in Jobs, NEW p \in Pipelines, NEW batch \in SUBSET Messages, TakeEffect(j, p, batch)
  PROVE  Unpublished' /\ InPlace' /\ TriesRight' /\ CountedOnceInv' /\ Delivered' /\ AckedLanded'
<1> USE DEF metrics
<1>0. /\ job[j].batch = {} /\ \A i \in Jobs \ {j} : job[i].batch \cap batch = {}
      /\ batch \subseteq Of(p) /\ batch \subseteq queue[p]
  BY DEF InPlace, TakeEffect
<1>1. /\ \A i \in Jobs : job'[i].batch = IF i = j THEN batch ELSE job[i].batch
      /\ \A i \in Jobs \ {j} : job'[i] = job[i]
      /\ job'[j].of = p
  BY DEF TakeEffect
<1>2. Unpublished'
  <2>1. \A r \in Messages : Queued(r)' => Queued(r)
    BY DEF TakeEffect, Queued
  <2>2. \A r \in Messages : InHand(r)' => InHand(r) \/ Queued(r)
    BY <1>0, <1>1 DEF InHand, Queued
  <2>3. \A r \in Messages : tries'[r] # tries[r] => Queued(r)
    BY <1>0 DEF TakeEffect, Queued
  <2> QED BY <2>1, <2>2, <2>3, UnpublishedStep DEF TakeEffect
<1>3. InPlace'
  <2>1. \A q \in Pipelines : queue'[q] \subseteq Of(q) /\ queue'[q] \subseteq queue[q] /\ queue'[q] \cap batch = {}
    <3> TAKE q \in Pipelines
    <3>1. queue[q] \subseteq Of(q) /\ queue'[q] = IF q = p THEN queue[q] \ batch ELSE queue[q]
      BY DEF InPlace, TakeEffect
    <3>2. q # p => Of(q) \cap Of(p) = {}
      BY PipelineAssumption DEF Of, Pipelines
    <3> QED BY <3>1, <3>2, <1>0
  <2>2. \A i \in Jobs : /\ job'[i].batch \subseteq Of(job'[i].of)
                        /\ job'[i].pc = "idle" => job'[i].batch = {}
    <3> TAKE i \in Jobs
    <3>1. CASE i = j
      BY <3>1, <1>0, <1>1 DEF TakeEffect
    <3>2. CASE i # j
      BY <3>2, <1>1 DEF InPlace
    <3> QED BY <3>1, <3>2
  <2>3. \A i \in Jobs, q \in Pipelines : job'[i].batch \cap queue'[q] = {}
    <3> TAKE i \in Jobs, q \in Pipelines
    <3>1. i # j => job[i].batch \cap queue[q] = {}
      BY DEF InPlace
    <3> QED BY <3>1, <2>1, <1>1
  <2>4. \A i, k \in Jobs : i # k => job'[i].batch \cap job'[k].batch = {}
    <3> TAKE i, k \in Jobs
    <3> HAVE i # k
    <3>1. job[i].batch \cap job[k].batch = {}
      BY DEF InPlace
    <3> QED BY <3>1, <1>0, <1>1
  <2> QED BY <2>1, <2>2, <2>3, <2>4 DEF InPlace
<1>4. TriesRight'
  <2>0. /\ \A r \in batch : r \in Messages /\ tries[r] < MaxTries /\ counted[r] <= tries[r] /\ tries'[r] = tries[r] + 1
        /\ \A r \in Messages : tries[r] \in Nat /\ counted[r] \in Nat
        /\ \A r \in Messages \ batch : tries'[r] = tries[r]
        /\ MaxTries \in Nat /\ counted' = counted
    BY <1>0, PipelineAssumption DEF TriesRight, TakeEffect, TypeInv
  <2>1. \A r \in Messages : counted'[r] <= tries'[r] /\ tries'[r] <= MaxTries
    <3> TAKE r \in Messages
    <3>1. CASE r \in batch
      BY <3>1, <2>0
    <3>2. CASE r \notin batch
      BY <3>2, <2>0 DEF TriesRight
    <3> QED BY <3>1, <3>2
  <2>2. \A q \in Pipelines : \A r \in queue'[q] : tries'[r] < MaxTries
    <3> TAKE q \in Pipelines
    <3> TAKE r \in queue'[q]
    <3>1. r \in queue[q] /\ r \notin batch /\ r \in Messages
      <4>1. q # p => Of(q) \cap Of(p) = {}
        BY PipelineAssumption DEF Of, Pipelines
      <4>2. queue[q] \subseteq Of(q) /\ queue[q] \subseteq Messages
        BY HandsTyped DEF InPlace
      <4> QED BY <4>1, <4>2, <1>0, ZenonT(30) DEF TakeEffect
    <3> QED BY <3>1, <2>0 DEF TriesRight
  <2>3. ASSUME NEW i \in Jobs, Counting(i)', NEW r \in job'[i].batch PROVE counted'[r] < tries'[r]
    <3>1. CASE i = j
      BY <3>1, <1>1, <2>0
    <3>2. CASE i # j
      <4>1. Counting(i) /\ r \in job[i].batch /\ r \notin batch
        BY <3>2, <2>3, <1>0, <1>1 DEF Counting
      <4>2. r \in Messages
        BY <4>1, HandsTyped
      <4> QED BY <4>1, <4>2, <2>0 DEF TriesRight
    <3> QED BY <3>1, <3>2
  <2> QED BY <2>1, <2>2, <2>3 DEF TriesRight
<1>5. CountedOnceInv'
  <2>0. counted' = counted /\ recounted' = recounted /\ CountedAtMostOnce'
    BY DEF TakeEffect, CountedOnceInv, CountedAtMostOnce
  <2>1. \A q \in Pipelines : queue'[q] \subseteq queue[q]
    BY DEF TakeEffect
  <2>2. \A q \in Pipelines : \A r \in queue'[q] : r \notin recounted => counted[r] = 0
    BY <2>1 DEF CountedOnceInv
  <2>3. ASSUME NEW i \in Jobs, Counting(i)' \/ job'[i].lost, NEW r \in job'[i].batch, r \notin recounted
        PROVE counted[r] = 0
    <3>1. CASE i = j
      BY <3>1, <2>3, <1>0, <1>1 DEF CountedOnceInv
    <3>2. CASE i # j
      BY <3>2, <2>3, <1>1 DEF CountedOnceInv, Counting
    <3> QED BY <3>1, <3>2
  <2> QED BY <2>0, <2>2, <2>3 DEF CountedOnceInv
<1>6. Delivered'
  <2>0. log' = log /\ landed' = landed
    BY DEF TakeEffect, reqVars
  <2>1. ASSUME NEW i \in Jobs, ~job'[i].lost, NEW r \in job'[i].batch \ unreadable
        PROVE  (Waiting(i, r) \/ HasLanded(job[i].batch, r))'
    <3>1. CASE i = j
      BY <3>1, <2>1, <1>1 DEF TakeEffect
    <3>2. CASE i # j
      <4>1. Waiting(i, r) \/ HasLanded(job[i].batch, r)
        BY <3>2, <2>1, <1>1 DEF Delivered
      <4>2. job'[i] = job[i]
        BY <3>2, <1>1
      <4> QED BY <4>1, <4>2, <2>0 DEF Waiting, HasLanded, Deduped
    <3> QED BY <3>1, <3>2
  <2> QED BY <2>1 DEF Delivered
<1>7. AckedLanded'
  BY DEF TakeEffect, reqVars, AckedLanded
<1> QED BY <1>2, <1>3, <1>4, <1>5, <1>6, <1>7

-----------------------------------------------------------------------------
LEMMA EndKeeps ==
  ASSUME TypeInv, Unpublished, InPlace, TriesRight, CountedOnceInv, Delivered,
         UNCHANGED unreadable,
         NEW j \in Jobs, EndEffect(j), recounted \subseteq recounted',
         \A r \in job[j].batch : r \notin recounted' /\ (\E q \in Pipelines : r \in queue'[q]) => counted[r] = 0
  PROVE  Unpublished' /\ InPlace' /\ TriesRight' /\ CountedOnceInv' /\ Delivered'
<1> USE DEF metrics
<1>0. job'[j].batch = {} /\ job'[j].pc = "idle" /\ ~job'[j].lost /\ job'[j].of \in Pipelines
  BY DEF EndEffect, IdleJob, Pipelines
<1>1. \A i \in Jobs \ {j} : job'[i] = job[i]
  BY DEF EndEffect
<1>2. Unpublished'
  <2>1. \A r \in Messages : Queued(r)' => Queued(r) \/ InHand(r)
    BY DEF EndEffect, Queued, InHand
  <2>2. \A r \in Messages : InHand(r)' => InHand(r)
    BY <1>0, <1>1 DEF InHand
  <2>3. \A r \in Messages : r \in acked' \cup dead' => InHand(r) \/ r \in acked \cup dead
    BY DEF EndEffect, InHand
  <2> QED BY <2>1, <2>2, <2>3, UnpublishedStep DEF EndEffect
<1>3. InPlace'
  <2>1. \A q \in Pipelines : queue'[q] \subseteq Of(q)
    <3> TAKE q \in Pipelines
    <3>1. queue[q] \subseteq Of(q) /\ job[j].batch \subseteq Of(job[j].of)
      BY DEF InPlace
    <3> QED BY <3>1 DEF EndEffect
  <2>2. \A i \in Jobs : /\ job'[i].batch \subseteq Of(job'[i].of)
                        /\ job'[i].pc = "idle" => job'[i].batch = {}
    <3> TAKE i \in Jobs
    <3>1. CASE i = j
      BY <3>1, <1>0
    <3>2. CASE i # j
      BY <3>2, <1>1 DEF InPlace
    <3> QED BY <3>1, <3>2
  <2>3. \A i \in Jobs, q \in Pipelines : job'[i].batch \cap queue'[q] = {}
    <3> TAKE i \in Jobs, q \in Pipelines
    <3>1. i # j => job[i].batch \cap queue[q] = {} /\ job[i].batch \cap job[j].batch = {}
      BY DEF InPlace
    <3>2. \A r \in queue'[q] : r \in queue[q] \/ r \in job[j].batch
      BY DEF EndEffect
    <3> QED BY <3>1, <3>2, <1>0, <1>1
  <2>4. \A i, k \in Jobs : i # k => job'[i].batch \cap job'[k].batch = {}
    <3> TAKE i, k \in Jobs
    <3> HAVE i # k
    <3>1. job[i].batch \cap job[k].batch = {}
      BY DEF InPlace
    <3> QED BY <3>1, <1>0, <1>1
  <2> QED BY <2>1, <2>2, <2>3, <2>4 DEF InPlace
<1>4. TriesRight'
  <2>0. tries' = tries /\ counted' = counted
    BY DEF EndEffect
  <2>1. \A q \in Pipelines : \A r \in queue'[q] : tries[r] < MaxTries
    BY DEF EndEffect, TriesRight
  <2>2. ASSUME NEW i \in Jobs, Counting(i)', NEW r \in job'[i].batch PROVE counted[r] < tries[r]
    <3>1. i # j
      BY <2>2, <1>0
    <3> QED BY <2>2, <3>1, <1>1 DEF Counting, TriesRight
  <2> QED BY <2>0, <2>1, <2>2 DEF TriesRight
<1>5. CountedOnceInv'
  <2>0. counted' = counted /\ recounted \subseteq recounted'
    BY DEF EndEffect
  <2>1. CountedAtMostOnce'
    BY <2>0 DEF CountedOnceInv, CountedAtMostOnce
  <2>2. ASSUME NEW q \in Pipelines, NEW r \in queue'[q], r \notin recounted' PROVE counted[r] = 0
    <3>1. CASE r \in queue[q]
      BY <3>1, <2>0, <2>2 DEF CountedOnceInv
    <3>2. CASE r \notin queue[q]
      BY <3>2, <2>2 DEF EndEffect
    <3> QED BY <3>1, <3>2
  <2>3. ASSUME NEW i \in Jobs, Counting(i)' \/ job'[i].lost, NEW r \in job'[i].batch, r \notin recounted'
        PROVE counted[r] = 0
    <3>1. i # j
      BY <2>3, <1>0
    <3> QED BY <2>0, <2>3, <3>1, <1>1 DEF CountedOnceInv, Counting
  <2> QED BY <2>0, <2>1, <2>2, <2>3 DEF CountedOnceInv
<1>6. Delivered'
  <2>0. log' = log /\ landed' = landed
    BY DEF EndEffect, reqVars
  <2>1. ASSUME NEW i \in Jobs, ~job'[i].lost, NEW r \in job'[i].batch \ unreadable
        PROVE  (Waiting(i, r) \/ HasLanded(job[i].batch, r))'
    <3>1. i # j /\ job'[i] = job[i]
      BY <2>1, <1>0, <1>1
    <3>2. Waiting(i, r) \/ HasLanded(job[i].batch, r)
      BY <3>1, <2>1 DEF Delivered
    <3> QED BY <3>1, <3>2, <2>0 DEF Waiting, HasLanded, Deduped
  <2> QED BY <2>1 DEF Delivered
<1> QED BY <1>2, <1>3, <1>4, <1>5, <1>6

-----------------------------------------------------------------------------
(* What was acknowledged has landed.                                       *)

LEMMA WorkKeepsPlaces ==
  ASSUME TypeInv, Unpublished, InPlace, WorkEffect,
         \A r \in Messages : counted'[r] # counted[r] => InHand(r)
  PROVE  Unpublished' /\ InPlace'
<1>1. Unpublished'
  <2>1. \A r \in Messages : (Queued(r)' <=> Queued(r)) /\ (InHand(r)' <=> InHand(r))
    BY DEF WorkEffect, Queued, InHand
  <2> QED BY <2>1, UnpublishedStep DEF WorkEffect
<1>2. \A i \in Jobs : /\ job'[i].batch = job[i].batch /\ job'[i].of = job[i].of
                      /\ job'[i].pc = "idle" => job[i].pc = "idle"
  BY DEF WorkEffect
<1>3. InPlace'
  BY <1>2 DEF InPlace, WorkEffect
<1> QED BY <1>1, <1>3

\* A step of a consumer that does not count.
LEMMA WorkKeepsCounts ==
  ASSUME TypeInv, TriesRight, CountedOnceInv, WorkEffect, UNCHANGED counted
  PROVE  TriesRight' /\ CountedOnceInv'
<1>1. \A i \in Jobs : /\ job'[i].batch = job[i].batch
                      /\ Counting(i)' => Counting(i)
                      /\ job'[i].lost => job[i].lost \/ Counting(i)
  BY DEF WorkEffect
<1>2. TriesRight'
  <2>1. ASSUME NEW i \in Jobs, Counting(i)', NEW r \in job'[i].batch PROVE counted[r] < tries[r]
    BY <2>1, <1>1 DEF TriesRight
  <2> QED BY <2>1 DEF TriesRight, WorkEffect
<1>3. CountedOnceInv'
  <2>1. ASSUME NEW i \in Jobs, Counting(i)' \/ job'[i].lost, NEW r \in job'[i].batch, r \notin recounted
        PROVE counted[r] = 0
    BY <2>1, <1>1 DEF CountedOnceInv
  <2> QED BY <2>1 DEF CountedOnceInv, CountedAtMostOnce, WorkEffect
<1> QED BY <1>2, <1>3

\* The step that counts: all of a batch that lost nothing, once.
LEMMA WriteKeepsCounts ==
  ASSUME TypeInv, InPlace, TriesRight, CountedOnceInv, WorkEffect,
         NEW j \in Jobs, job[j].pc = "write", job'[j].pc = "answer", job'[j].lost = job[j].lost,
         \A r \in Messages : counted'[r] = counted[r] + IF r \in Accounted(j) THEN 1 ELSE 0
  PROVE  TriesRight' /\ CountedOnceInv'
<1>0. /\ Counting(j) /\ ~Counting(j)' /\ job'[j].batch = job[j].batch
      /\ Accounted(j) \subseteq job[j].batch /\ job[j].batch \subseteq Messages
      /\ job[j].lost => Accounted(j) = {}
  BY DEF Counting, WorkEffect, Accounted, TypeInv, JobType
<1>1. \A i \in Jobs : /\ job'[i].batch = job[i].batch
                      /\ Counting(i)' => Counting(i)
                      /\ job'[i].lost => job[i].lost \/ Counting(i)
  BY DEF WorkEffect
<1>2. \A r \in Messages : r \notin Accounted(j) => counted'[r] = counted[r]
  BY DEF TypeInv
<1>3. \A r \in Accounted(j) : r \in Messages /\ counted[r] < tries[r] /\ counted'[r] = counted[r] + 1
                              /\ (r \notin recounted => counted'[r] = 1)
  BY <1>0 DEF TypeInv, TriesRight, CountedOnceInv
<1>4. \A i \in Jobs \ {j} : job[i].batch \cap Accounted(j) = {}
  BY <1>0 DEF InPlace
<1>5. \A q \in Pipelines : queue[q] \cap Accounted(j) = {}
  BY <1>0 DEF InPlace
<1>6. \A r \in Messages : tries[r] \in Nat /\ counted[r] \in Nat
  BY DEF TypeInv
<1>7. TriesRight'
  <2>1. \A r \in Messages : counted'[r] <= tries[r] /\ tries[r] <= MaxTries
    <3> TAKE r \in Messages
    <3>1. CASE r \in Accounted(j)
      BY <3>1, <1>3, <1>6 DEF TriesRight
    <3>2. CASE r \notin Accounted(j)
      BY <3>2, <1>2 DEF TriesRight
    <3> QED BY <3>1, <3>2
  <2>2. ASSUME NEW i \in Jobs, Counting(i)', NEW r \in job'[i].batch PROVE counted'[r] < tries[r]
    <3>1. i # j
      BY <2>2, <1>0
    <3>2. r \in job[i].batch /\ r \notin Accounted(j) /\ r \in Messages /\ Counting(i)
      BY <2>2, <3>1, <1>1, <1>4, HandsTyped
    <3> QED BY <3>2, <1>2 DEF TriesRight
  <2>3. tries' = tries /\ queue' = queue
    BY DEF WorkEffect
  <2> QED BY <2>1, <2>2, <2>3 DEF TriesRight
<1>8. CountedOnceInv'
  <2>1. CountedAtMostOnce'
    <3>1. ASSUME NEW r \in Messages, r \notin recounted PROVE counted'[r] <= 1
      <4>1. CASE r \in Accounted(j)
        BY <4>1, <3>1, <1>3
      <4>2. CASE r \notin Accounted(j)
        BY <4>2, <3>1, <1>2 DEF CountedOnceInv, CountedAtMostOnce
      <4> QED BY <4>1, <4>2
    <3> QED BY <3>1 DEF CountedAtMostOnce, WorkEffect
  <2>2. ASSUME NEW q \in Pipelines, NEW r \in queue[q], r \notin recounted PROVE counted'[r] = 0
    <3>1. r \notin Accounted(j) /\ r \in Messages
      BY <1>5, HandsTyped
    <3> QED BY <3>1, <2>2, <1>2 DEF CountedOnceInv
  <2>3. ASSUME NEW i \in Jobs, Counting(i)' \/ job'[i].lost, NEW r \in job'[i].batch, r \notin recounted
        PROVE counted'[r] = 0
    <3>1. r \in job[i].batch /\ r \in Messages /\ (Counting(i) \/ job[i].lost)
      BY <2>3, <1>1, HandsTyped
    <3>2. r \notin Accounted(j)
      <4>1. CASE i = j
        BY <4>1, <2>3, <1>0
      <4>2. CASE i # j
        BY <4>2, <3>1, <1>4
      <4> QED BY <4>1, <4>2
    <3> QED BY <3>1, <3>2, <2>3, <1>2 DEF CountedOnceInv
  <2>4. queue' = queue /\ recounted' = recounted
    BY DEF WorkEffect
  <2> QED BY <2>1, <2>2, <2>3, <2>4 DEF CountedOnceInv
<1> QED BY <1>7, <1>8

-----------------------------------------------------------------------------
\* Working on, a consumer that does not deliver a chunk.
LEMMA WorkKeepsDelivered ==
  ASSUME Delivered, AckedLanded, WorkEffect, UNCHANGED <<landed, unreadable>>,
         \A i \in Jobs : \A r \in job[i].batch : Waiting(i, r) => Waiting(i, r)'
  PROVE  Delivered' /\ AckedLanded'
<1>0. log' = log /\ landed' = landed /\ unreadable' = unreadable /\ acked' = acked
      /\ \A i \in Jobs : job'[i].batch = job[i].batch /\ (job[i].lost => job'[i].lost)
  BY DEF WorkEffect, reqVars
<1>1. ASSUME NEW i \in Jobs, ~job'[i].lost, NEW r \in job'[i].batch \ unreadable
      PROVE  (Waiting(i, r) \/ HasLanded(job[i].batch, r))'
  <2>1. r \in job[i].batch \ unreadable /\ (Waiting(i, r) \/ HasLanded(job[i].batch, r))
    BY <1>0, <1>1 DEF Delivered
  <2>2. HasLanded(job[i].batch, r) => HasLanded(job[i].batch, r)'
    BY <1>0 DEF HasLanded, Deduped
  <2> QED BY <2>1, <2>2
<1>2. Delivered'
  BY <1>0, <1>1 DEF Delivered
<1>3. AckedLanded'
  BY <1>0 DEF AckedLanded
<1> QED BY <1>2, <1>3

LEMMA DeliverKeepsDelivered ==
  ASSUME TypeInv, Delivered, AckedLanded, UNCHANGED unreadable, NEW j \in Jobs, DeliverChunk(j)
  PROVE  Delivered' /\ AckedLanded'
<1>0. /\ WorkEffect
      /\ job[j].pc = "deliver" /\ job[j].chunks # << >> /\ job[j].chunks \in Seq(Seq(Messages))
      /\ job'[j].chunks = Tail(job[j].chunks) /\ job'[j].pc = "deliver"
      /\ ~job'[j].lost => landed' = landed \cup Content(job[j].batch, Head(job[j].chunks))
      /\ landed \subseteq landed'
      /\ \A i \in Jobs \ {j} : job'[i] = job[i]
  BY DeliverHas
<1>1. log' = log /\ acked' = acked /\ unreadable' = unreadable
      /\ \A i \in Jobs : job'[i].batch = job[i].batch /\ (job[i].lost => job'[i].lost)
  BY <1>0 DEF WorkEffect, reqVars
<1>2. \A b, r : HasLanded(b, r) => HasLanded(b, r)'
  BY <1>0, <1>1 DEF HasLanded, Deduped
<1>3. ASSUME ~job'[j].lost, NEW r \in Range(Head(job[j].chunks)) PROVE HasLanded(job[j].batch, r)'
  <2>1. <<"log", r>> \in Content(job[j].batch, Head(job[j].chunks))
    BY DEF Content
  <2>2. \A k \in Deduped(job[j].batch, r) : <<"apply", k>> \in Content(job[j].batch, Head(job[j].chunks))
    BY DEF Content
  <2>3. Deduped(job[j].batch, r)' = Deduped(job[j].batch, r)
    BY <1>1 DEF Deduped
  <2> QED BY <1>0, <1>3, <2>1, <2>2, <2>3 DEF HasLanded
<1>4. ASSUME NEW i \in Jobs, ~job'[i].lost, NEW r \in job'[i].batch \ unreadable
      PROVE  (Waiting(i, r) \/ HasLanded(job[i].batch, r))'
  <2>1. r \in job[i].batch \ unreadable /\ (Waiting(i, r) \/ HasLanded(job[i].batch, r))
    BY <1>1, <1>4 DEF Delivered
  <2>2. CASE HasLanded(job[i].batch, r)
    BY <2>2, <1>1, <1>2
  <2>3. CASE i # j /\ Waiting(i, r)
    BY <2>3, <1>0 DEF Waiting
  <2>4. CASE i = j /\ Waiting(i, r)
    <3>1. PICK q \in DOMAIN job[j].chunks : r \in Range(job[j].chunks[q])
      BY <2>4 DEF Waiting
    <3>2. CASE q = 1
      <4>1. r \in Range(Head(job[j].chunks))
        BY <3>1, <3>2, <1>0
      <4> QED BY <4>1, <1>1, <1>3, <1>4, <2>4
    <3>3. CASE q # 1
      <4> DEFINE cs == job[j].chunks
      <4>1. q - 1 \in DOMAIN Tail(cs) /\ Tail(cs)[q - 1] = cs[q]
        <5>1. cs \in Seq(Seq(Messages)) /\ cs # << >> /\ q \in DOMAIN cs
          BY <1>0
        <5> HIDE DEF cs
        <5> QED BY <5>1, <3>3
      <4>2. Waiting(j, r)'
        BY <4>1, <3>1, <1>0 DEF Waiting
      <4> QED BY <4>2, <2>4
    <3> QED BY <3>2, <3>3
  <2> QED BY <2>1, <2>2, <2>3, <2>4
<1>5. Delivered'
  BY <1>1, <1>4 DEF Delivered
<1>6. AckedLanded'
  BY <1>0, <1>1 DEF AckedLanded
<1> QED BY <1>5, <1>6

\* What landed of a batch is every assignment in it: each is with the first
\* message that has it.
LEMMA DedupedCovers ==
  ASSUME NEW batch \in SUBSET Messages, NEW r \in batch \ unreadable, NEW k \in log[r].applies
  PROVE  \E q \in batch \ unreadable : k \in Deduped(batch, q)
<1> DEFINE With == {q \in batch \ unreadable : k \in log[q].applies}
<1>1. With # {} /\ With \in SUBSET Nat
  BY PipelineAssumption
<1>2. PICK q \in With : \A s \in With : q <= s
  <2> HIDE DEF With
  <2> QED BY <1>1, LeastNumber
<1>3. \A s \in batch \ unreadable : q < s \/ q = s \/ s < q
  BY PipelineAssumption
<1>4. \A s \in batch \ unreadable : s < q => k \notin log[s].applies
  <2> TAKE s \in batch \ unreadable
  <2>1. s \in With => q <= s
    BY <1>2
  <2>2. s \in Nat /\ q \in Nat
    BY PipelineAssumption
  <2> QED BY <2>1, <2>2
<1>5. k \in Deduped(batch, q)
  BY <1>2, <1>4 DEF Deduped
<1> QED BY <1>5

LEMMA AnswerKeepsAcked ==
  ASSUME TypeInv, Delivered, AckedLanded, UNCHANGED unreadable, NEW j \in Jobs, Answer(j)
  PROVE  AckedLanded'
<1>0. job[j].pc = "answer" /\ log' = log /\ landed' = landed
      /\ \/ acked' = acked \cup job[j].batch /\ ~job[j].lost
         \/ UNCHANGED acked
  BY AnswerHas DEF EndEffect, reqVars
<1>1. ASSUME ~job[j].lost, NEW r \in job[j].batch \ unreadable
      PROVE  /\ <<"log", r>> \in landed
             /\ \A k \in log[r].applies : <<"apply", k>> \in landed
  <2>1. \A q \in job[j].batch \ unreadable : HasLanded(job[j].batch, q)
    BY <1>0, <1>1 DEF Delivered, Waiting
  <2>2. job[j].batch \in SUBSET Messages
    BY HandsTyped
  <2>3. ASSUME NEW k \in log[r].applies PROVE <<"apply", k>> \in landed
    <3>1. PICK q \in job[j].batch \ unreadable : k \in Deduped(job[j].batch, q)
      BY <2>2, DedupedCovers
    <3> QED BY <3>1, <2>1 DEF HasLanded
  <2> QED BY <2>1, <2>3 DEF HasLanded
<1> QED BY <1>0, <1>1 DEF AckedLanded

-----------------------------------------------------------------------------
LEMMA SafetyInit == Init => SafetyInv
<1> SUFFICES ASSUME Init PROVE SafetyInv
  OBVIOUS
<1>1. TypeInv
  BY TypeInit
<1>2. /\ \A p \in Pipelines : queue[p] = {}
      /\ \A j \in Jobs : job[j] = IdleJob
      /\ IdleJob.pc = "idle" /\ IdleJob.batch = {} /\ ~IdleJob.lost
      /\ \A r \in Messages : req[r] = "new" /\ log[r] = NoLog /\ tries[r] = 0 /\ counted[r] = 0
      /\ NoLog.applies = {}
      /\ acked = {} /\ dead = {} /\ dropped = {} /\ evicted = {}
  BY DEF Init, IdleJob, NoLog
<1>3. Unpublished
  BY <1>2 DEF Unpublished, Queued, InHand
<1>4. InPlace
  BY <1>2 DEF InPlace
<1>5. TriesRight
  BY <1>2, PipelineAssumption DEF TriesRight, Counting
<1>6. CountedOnceInv
  BY <1>2 DEF CountedOnceInv, CountedAtMostOnce, Counting
<1>7. Delivered /\ AckedLanded
  BY <1>2 DEF Delivered, AckedLanded
<1> QED BY <1>1, <1>3, <1>4, <1>5, <1>6, <1>7 DEF SafetyInv

LEMMA SafetyStep == SafetyInv /\ [Next]_vars => SafetyInv'
<1> SUFFICES ASSUME SafetyInv, [Next]_vars PROVE SafetyInv'
  OBVIOUS
<1> USE DEF SafetyInv
<1>0. TypeInv'
  BY TypeStep
<1>1. ASSUME RequestStep, UNCHANGED unreadable PROVE SafetyInv'
  <2>1. RequestEffect
    BY <1>1, RequestEffects
  <2> QED BY <1>0, <1>1, <2>1, RequestKeepsPlaces, RequestKeepsCounts, RequestKeepsDelivered
<1>2. ASSUME NEW j \in Jobs, NEW p \in Pipelines, Take(j, p), UNCHANGED unreadable PROVE SafetyInv'
  <2>1. PICK batch \in SUBSET Messages : TakeEffect(j, p, batch)
    BY <1>2, TakeHas
  <2> QED BY <1>0, <1>2, <2>1, TakeKeeps
<1>3. ASSUME NEW j \in Jobs, DeliverChunk(j), UNCHANGED unreadable PROVE SafetyInv'
  <2>1. WorkEffect /\ UNCHANGED counted
    BY <1>3, DeliverHas DEF metrics
  <2> QED BY <1>0, <1>3, <2>1, WorkKeepsPlaces, WorkKeepsCounts, DeliverKeepsDelivered
<1>4. ASSUME NEW j \in Jobs, ReadSnapshot(j), UNCHANGED unreadable PROVE SafetyInv'
  <2>1. WorkEffect /\ UNCHANGED <<counted, landed>> /\ job[j].chunks = << >>
        /\ \A i \in Jobs \ {j} : job'[i] = job[i]
    BY <1>4, ReadHas DEF metrics
  <2>2. \A i \in Jobs : \A r \in job[i].batch : Waiting(i, r) => Waiting(i, r)'
    BY <2>1 DEF Waiting
  <2> QED BY <1>0, <1>4, <2>1, <2>2, WorkKeepsPlaces, WorkKeepsCounts, WorkKeepsDelivered
<1>5. ASSUME NEW j \in Jobs, WriteSnapshot(j), UNCHANGED unreadable PROVE SafetyInv'
  <2>1. /\ WorkEffect /\ UNCHANGED landed
        /\ job[j].pc = "write" /\ job'[j].pc = "answer" /\ job'[j].lost = job[j].lost
        /\ \A i \in Jobs \ {j} : job'[i].pc = job[i].pc /\ job'[i].chunks = job[i].chunks
        /\ \/ UNCHANGED counted
           \/ \A r \in Messages : counted'[r] = counted[r] + IF r \in Accounted(j) THEN 1 ELSE 0
    BY <1>5, WriteHas DEF metrics
  <2>2. \A i \in Jobs : \A r \in job[i].batch : Waiting(i, r) => Waiting(i, r)'
    BY <2>1 DEF Waiting
  <2>3. \A r \in Messages : counted'[r] # counted[r] => InHand(r)
    <3>1. Accounted(j) \subseteq job[j].batch
      BY DEF Accounted
    <3> QED BY <2>1, <3>1 DEF InHand, TypeInv
  <2>4. TriesRight' /\ CountedOnceInv'
    BY <2>1, WorkKeepsCounts, WriteKeepsCounts
  <2> QED BY <1>0, <1>5, <2>1, <2>2, <2>3, <2>4, WorkKeepsPlaces, WorkKeepsDelivered
<1>6. ASSUME NEW j \in Jobs, Answer(j), UNCHANGED unreadable PROVE SafetyInv'
  <2>1. EndEffect(j) /\ recounted' = recounted /\ (job[j].lost \/ UNCHANGED queue)
    BY <1>6, AnswerHas
  <2>2. \A r \in job[j].batch : r \notin recounted' /\ (\E q \in Pipelines : r \in queue'[q]) => counted[r] = 0
    BY <2>1 DEF CountedOnceInv
  <2> QED BY <1>0, <1>6, <2>1, <2>2, EndKeeps, AnswerKeepsAcked
<1>7. ASSUME NEW j \in Jobs, Interrupt(j), UNCHANGED unreadable PROVE SafetyInv'
  <2>1. /\ EndEffect(j) /\ UNCHANGED acked
        /\ recounted' = recounted \cup {r \in job[j].batch : counted[r] > 0}
    BY <1>7, InterruptHas
  <2>2. \A r \in job[j].batch : r \notin recounted' => counted[r] = 0
    BY <2>1, HandsTyped DEF TypeInv
  <2>3. AckedLanded'
    BY <1>7, <2>1 DEF EndEffect, reqVars, AckedLanded
  <2> QED BY <1>0, <1>7, <2>1, <2>2, <2>3, EndKeeps
<1>8. CASE UNCHANGED vars
  BY <1>8, <1>0 DEF vars, reqVars, metrics, Unpublished, InPlace, TriesRight, CountedOnceInv, CountedAtMostOnce,
     Delivered, AckedLanded, Queued, InHand, Counting, Waiting, HasLanded, Deduped
<1> QED BY <1>1, <1>2, <1>3, <1>4, <1>5, <1>6, <1>7, <1>8, StepSplit DEF JobStep

LEMMA SafetyAlways == Spec => []SafetyInv
BY SafetyInit, SafetyStep, PTL DEF Spec

(* Whatever requests, consumers and faults do, a message is acknowledged   *)
(* only when the backend has its log and every assignment in it            *)
(* (queue.rs, consume; ack_decision).                                      *)
THEOREM AckedCorrect == Spec => []AckedLanded
BY SafetyAlways, PTL DEF SafetyInv

-----------------------------------------------------------------------------
(* No assignment is swallowed.                                             *)

\* The log of a request is on its way, or was lost in one of the known ways.
Held(r) ==
  \/ req[r] \in {"ship", "publish"} \/ Queued(r) \/ InHand(r)
  \/ r \in dropped \/ r \in evicted \/ r \in dead \/ r \in acked \cap unreadable

Reached(k) == <<"apply", k>> \in landed \/ \E r \in Requests : k \in log[r].applies /\ Held(r)

LEMMA SwallowedIs == NothingSwallowed <=> \A k \in assigned : Reached(k)
BY DEF NothingSwallowed, Reached, Held

\* What the handlers do to the assignments: those that a log leaves out were
\* seen, and those it has go where the request goes.
AssignEffect ==
  /\ \/ assigned' = assigned /\ seen' \subseteq seen
     \/ \E r \in Requests, keys \in SUBSET Keys :
          /\ assigned' = assigned \cup keys /\ seen' = seen \cup keys
          /\ log'[r].applies = keys \ seen /\ req'[r] = "ship"
  /\ \A r \in Requests : req[r] \in {"ship", "publish"} /\ log[r].applies # {} =>
       /\ log'[r] = log[r]
       /\ \/ req'[r] \in {"ship", "publish"}
          \/ Queued(r)' \/ r \in dropped' \/ r \in evicted'

LEMMA AssignEffects ==
  ASSUME TypeInv, Unpublished, RequestStep
  PROVE  AssignEffect
<1>0. /\ Requests \subseteq Messages /\ EventRequests \subseteq Messages
      /\ ResolveRequests \subseteq Requests /\ ApplyRequests \subseteq Requests
      /\ Requests \cap EventRequests = {}
  BY PipelineAssumption DEF Requests, Messages
<1>1. ASSUME NEW r \in Requests, NEW n, NEW keys \in SUBSET Keys, LogAssign(r, keys, n),
             req[r] \in {"new", "reading"}, req' = [req EXCEPT ![r] = "ship"]
      PROVE  AssignEffect
  <2>1. r \in Messages
    BY <1>0
  <2>2. log'[r] = [applies |-> Kept(keys), resolves |-> n, any |-> TRUE]
    BY <1>1, <2>1 DEF LogAssign, TypeInv
  <2>3. log'[r].applies = keys \ seen
    BY <2>2 DEF Kept
  <2>4. req'[r] = "ship" /\ \A q \in Messages \ {r} : req'[q] = req[q]
    BY <1>1, <2>1 DEF TypeInv
  <2>5. \A q \in Messages \ {r} : log'[q] = log[q]
    BY <1>1, <2>1, LogAssignEffect
  <2>6. assigned' = assigned \cup keys /\ seen' = seen \cup keys
    BY <1>1 DEF LogAssign
  <2> QED BY <1>0, <1>1, <2>3, <2>4, <2>5, <2>6 DEF AssignEffect
<1>2. ASSUME NEW r \in Requests, NEW s, req[r] = "new", req' = [req EXCEPT ![r] = s],
             UNCHANGED <<log, seen, assigned>>
      PROVE  AssignEffect
  <2>1. \A q \in Messages \ {r} : req'[q] = req[q]
    BY <1>0, <1>2 DEF TypeInv
  <2> QED BY <1>0, <1>2, <2>1 DEF AssignEffect
<1>3. ASSUME NEW r \in ResolveRequests, Resolve(r) \/ Resume(r) PROVE AssignEffect
  BY <1>0, <1>1, <1>2, <1>3 DEF Resolve, Resume
<1>4. ASSUME NEW r \in ApplyRequests, Apply(r) PROVE AssignEffect
  BY <1>0, <1>1, <1>2, <1>4 DEF Apply
<1>5. ASSUME NEW r \in Requests, Ship(r) PROVE AssignEffect
  <2>1. r \in Messages /\ req[r] = "ship" /\ UNCHANGED <<log, assigned>> /\ seen' \subseteq seen
    BY <1>0, <1>5 DEF Ship, Swept
  <2>2. /\ req'[r] = IF log[r].any THEN "publish" ELSE "done"
        /\ \A q \in Messages \ {r} : req'[q] = req[q]
    BY <1>5, <2>1 DEF Ship, TypeInv
  <2>3. ~log[r].any => log[r].applies = {}
    BY <2>1 DEF Unpublished
  <2> QED BY <1>0, <2>1, <2>2, <2>3 DEF AssignEffect
<1>6. ASSUME NEW r \in Requests, Publish(r) PROVE AssignEffect
  <2>1. r \in Messages /\ UNCHANGED <<log, assigned, seen>>
    BY <1>0, <1>6 DEF Publish
  <2>2. \A q \in Messages \ {r} : req'[q] = req[q]
    BY <1>6, <2>1 DEF Publish, TypeInv
  <2>3. Queued(r)' \/ r \in dropped'
    BY <1>6 DEF Publish, Queued, TypeInv, Pipelines
  <2> QED BY <1>0, <2>1, <2>2, <2>3 DEF AssignEffect
<1>7. ASSUME NEW r \in EventRequests, PublishEvents(r) PROVE AssignEffect
  <2>1. r \in Messages /\ r \notin Requests /\ UNCHANGED <<assigned, seen>>
    BY <1>0, <1>7 DEF PublishEvents
  <2>2. \A q \in Messages \ {r} : req'[q] = req[q]
    BY <1>7, <2>1 DEF PublishEvents, TypeInv
  <2>3. \A q \in Messages \ {r} : log'[q] = log[q]
    BY <1>7, <2>1 DEF PublishEvents, TypeInv
  <2> QED BY <1>0, <2>1, <2>2, <2>3 DEF AssignEffect
<1>8. CASE Evict
  <2>1. \A r \in Messages : req'[r] = IF r \in Running THEN "done" ELSE req[r]
    BY <1>8 DEF Evict
  <2>2. \A r \in Running : r \in evicted'
    BY <1>8 DEF Evict
  <2>3. UNCHANGED <<log, assigned>> /\ seen' \subseteq seen
    BY <1>8 DEF Evict
  <2> QED BY <1>0, <2>1, <2>2, <2>3 DEF AssignEffect
<1> QED BY <1>3, <1>4, <1>5, <1>6, <1>7, <1>8 DEF RequestStep

LEMMA RequestKeepsReached ==
  ASSUME SafetyInv, seen \subseteq assigned, NothingSwallowed, RequestStep, UNCHANGED unreadable
  PROVE  seen' \subseteq assigned' /\ NothingSwallowed'
<1> USE DEF SafetyInv
<1>0. RequestEffect /\ AssignEffect
  BY RequestEffects, AssignEffects
<1>1. ASSUME NEW r \in Requests, NEW k \in log[r].applies, Held(r) PROVE k \in log'[r].applies /\ Held(r)'
  <2>0. r \in Messages
    BY DEF Requests, Messages
  <2>1. CASE req[r] \in {"ship", "publish"}
    BY <1>0, <2>1 DEF AssignEffect, Held
  <2>2. CASE Queued(r) \/ InHand(r) \/ r \in acked \/ r \in dead \/ r \in dropped \/ r \in evicted
    <3>1. log'[r] = log[r]
      BY <1>0, <2>0, <2>2, RequestKeepsLogs
    <3>2. (Queued(r) => Queued(r)') /\ (InHand(r) => InHand(r)')
      BY <1>0 DEF RequestEffect, Queued, InHand
    <3>3. /\ acked' = acked /\ dead' = dead /\ unreadable' = unreadable
          /\ dropped \subseteq dropped' /\ evicted \subseteq evicted'
      BY <1>0 DEF RequestEffect
    <3>4. CASE r \notin acked
      <4>1. Held(r)'
        BY <2>2, <3>2, <3>3, <3>4 DEF Held
      <4> QED BY <4>1, <3>1
    <3>5. CASE r \in acked
      <4>1. req[r] = "done"
        BY <1>0, <2>0, <2>2, RequestKeepsLogs
      <4>2. Held(r)'
        BY <1>1, <4>1, <3>2, <3>3 DEF Held
      <4> QED BY <4>2, <3>1
    <3> QED BY <3>4, <3>5
  <2> QED BY <1>1, <2>1, <2>2 DEF Held
<1>2. \A k : Reached(k) => Reached(k)'
  BY <1>0, <1>1 DEF Reached, RequestEffect
<1>3. \A k \in assigned : Reached(k)'
  BY <1>2, SwallowedIs
<1>4. CASE assigned' = assigned /\ seen' \subseteq seen
  <2>1. \A k \in assigned' : Reached(k)'
    BY <1>3, <1>4
  <2>2. NothingSwallowed' <=> \A k \in assigned' : Reached(k)'
    BY DEF NothingSwallowed, Reached, Held
  <2> QED BY <1>4, <2>1, <2>2
<1>5. ASSUME NEW r \in Requests, NEW keys \in SUBSET Keys,
             assigned' = assigned \cup keys, seen' = seen \cup keys,
             log'[r].applies = keys \ seen, req'[r] = "ship"
      PROVE  seen' \subseteq assigned' /\ NothingSwallowed'
  <2>1. \A k \in keys \ seen : Reached(k)'
    BY <1>5 DEF Reached, Held
  <2>2. \A k \in assigned' : Reached(k)'
    BY <1>3, <1>5, <2>1
  <2>3. NothingSwallowed' <=> \A k \in assigned' : Reached(k)'
    BY DEF NothingSwallowed, Reached, Held
  <2> QED BY <1>5, <2>2, <2>3
<1> QED BY <1>0, <1>4, <1>5 DEF AssignEffect

LEMMA JobKeepsReached ==
  ASSUME SafetyInv, SafetyInv', seen \subseteq assigned, NothingSwallowed,
         UNCHANGED <<reqVars, unreadable>>, dropped \subseteq dropped', evicted \subseteq evicted',
         landed \subseteq landed',
         \A r \in Messages : Queued(r) \/ InHand(r) \/ r \in dead \/ r \in acked =>
                               Queued(r)' \/ InHand(r)' \/ r \in dead' \/ r \in acked'
  PROVE  seen' \subseteq assigned' /\ NothingSwallowed'
<1>0. log' = log /\ req' = req /\ assigned' = assigned /\ seen' = seen /\ unreadable' = unreadable
  BY DEF reqVars
<1>1. ASSUME NEW r \in Requests, NEW k \in log[r].applies, Held(r)
      PROVE  <<"apply", k>> \in landed' \/ Held(r)'
  <2>0. r \in Messages
    BY DEF Requests, Messages
  <2>1. CASE r \in acked' \ unreadable
    BY <1>0, <2>1 DEF SafetyInv, AckedLanded
  <2>2. CASE r \notin acked' \ unreadable
    <3>1. CASE req[r] \in {"ship", "publish"} \/ r \in dropped \/ r \in evicted
      BY <3>1, <1>0 DEF Held
    <3>2. CASE Queued(r) \/ InHand(r) \/ r \in dead \/ r \in acked
      BY <3>2, <2>0, <2>2, <1>0 DEF Held
    <3> QED BY <1>1, <3>1, <3>2 DEF Held
  <2> QED BY <2>1, <2>2
<1>2. \A k : Reached(k) => Reached(k)'
  BY <1>0, <1>1 DEF Reached
<1>3. \A k \in assigned' : Reached(k)'
  BY <1>0, <1>2, SwallowedIs
<1>4. NothingSwallowed' <=> \A k \in assigned' : Reached(k)'
  BY DEF NothingSwallowed, Reached, Held
<1> QED BY <1>0, <1>3, <1>4

\* A batch goes from hand to hand: no message disappears.
LEMMA JobMoves ==
  ASSUME TypeInv, InPlace, JobStep, UNCHANGED unreadable
  PROVE  /\ UNCHANGED reqVars /\ dropped \subseteq dropped' /\ evicted \subseteq evicted'
         /\ landed \subseteq landed'
         /\ \A r \in Messages : Queued(r) \/ InHand(r) \/ r \in dead \/ r \in acked =>
                                  Queued(r)' \/ InHand(r)' \/ r \in dead' \/ r \in acked'
<1>1. ASSUME NEW j \in Jobs, NEW p \in Pipelines, NEW batch, TakeEffect(j, p, batch)
      PROVE  \A r \in Messages : Queued(r) \/ InHand(r) => Queued(r)' \/ InHand(r)'
  <2> TAKE r \in Messages
  <2>1. job[j].batch = {} /\ job'[j].batch = batch
    BY <1>1 DEF TakeEffect, InPlace
  <2>2. CASE r \in batch
    BY <2>1, <2>2 DEF InHand
  <2>3. CASE r \notin batch
    <3>1. Queued(r) => Queued(r)'
      BY <1>1, <2>3 DEF TakeEffect, Queued
    <3>2. InHand(r) => InHand(r)'
      BY <1>1, <2>1 DEF TakeEffect, InHand
    <3> QED BY <3>1, <3>2
  <2> QED BY <2>2, <2>3
<1>2. ASSUME WorkEffect
      PROVE  \A r \in Messages : (Queued(r) => Queued(r)') /\ (InHand(r) => InHand(r)')
  BY <1>2 DEF WorkEffect, Queued, InHand
<1>3. ASSUME NEW j \in Jobs, EndEffect(j),
             \A r \in job[j].batch : Queued(r)' \/ r \in dead' \/ r \in acked'
      PROVE  \A r \in Messages : Queued(r) \/ InHand(r) => Queued(r)' \/ InHand(r)' \/ r \in dead' \/ r \in acked'
  <2> TAKE r \in Messages
  <2>1. Queued(r) => Queued(r)'
    BY <1>3 DEF EndEffect, Queued
  <2>2. InHand(r) => r \in job[j].batch \/ InHand(r)'
    BY <1>3 DEF EndEffect, InHand
  <2> QED BY <1>3, <2>1, <2>2
<1>4. ASSUME NEW j \in Jobs, NEW p \in Pipelines, Take(j, p)
      PROVE  /\ UNCHANGED <<reqVars, dropped, evicted, landed, dead, acked>>
             /\ \A r \in Messages : Queued(r) \/ InHand(r) => Queued(r)' \/ InHand(r)'
  <2>1. PICK batch \in SUBSET Messages : TakeEffect(j, p, batch)
    BY <1>4, TakeHas
  <2>2. UNCHANGED <<reqVars, dropped, evicted, landed, dead, acked>>
    BY <2>1 DEF TakeEffect
  <2> QED BY <1>1, <2>1, <2>2
<1>5. ASSUME NEW j \in Jobs, DeliverChunk(j) \/ ReadSnapshot(j) \/ WriteSnapshot(j)
      PROVE  WorkEffect /\ landed \subseteq landed'
  BY <1>5, DeliverHas, ReadHas, WriteHas
<1>6. ASSUME NEW j \in Jobs, Answer(j) \/ Interrupt(j)
      PROVE  EndEffect(j) /\ \A r \in job[j].batch : Queued(r)' \/ r \in dead' \/ r \in acked'
  BY <1>6, AnswerHas, InterruptHas
<1>a. CASE \E j \in Jobs, p \in Pipelines : Take(j, p)
  BY <1>a, <1>4
<1>b. CASE \E j \in Jobs : DeliverChunk(j) \/ ReadSnapshot(j) \/ WriteSnapshot(j)
  BY <1>b, <1>2, <1>5 DEF WorkEffect
<1>c. CASE \E j \in Jobs : Answer(j) \/ Interrupt(j)
  BY <1>c, <1>3, <1>6 DEF EndEffect
<1> QED BY <1>a, <1>b, <1>c DEF JobStep

\* What the deduplication has seen was reported by the resolver.
SeenReported == seen \subseteq assigned

(* An assignment the resolver reported is never swallowed: the backend has *)
(* it, or it is on its way, or its log was lost in one of the known ways,  *)
(* whatever the deduplication, its sweeps and evictions do (lib.rs,        *)
(* log_assign; flag_log/mod.rs, dedup_flag_applies).                       *)
THEOREM NothingSwallowedEver == Spec => []NothingSwallowed
<1>1. Init => SeenReported /\ NothingSwallowed
  BY DEF Init, NothingSwallowed, SeenReported
<1>2. SafetyInv /\ SafetyInv' /\ SeenReported /\ NothingSwallowed /\ [Next]_vars
      => SeenReported' /\ NothingSwallowed'
  <2> USE DEF SeenReported
  <2> SUFFICES ASSUME SafetyInv, SafetyInv', seen \subseteq assigned, NothingSwallowed, [Next]_vars
               PROVE  seen' \subseteq assigned' /\ NothingSwallowed'
    OBVIOUS
  <2>1. CASE RequestStep /\ UNCHANGED unreadable
    BY <2>1, RequestKeepsReached
  <2>2. CASE JobStep /\ UNCHANGED unreadable
    <3>1. /\ UNCHANGED reqVars /\ dropped \subseteq dropped' /\ evicted \subseteq evicted'
          /\ landed \subseteq landed'
          /\ \A r \in Messages : Queued(r) \/ InHand(r) \/ r \in dead \/ r \in acked =>
                                   Queued(r)' \/ InHand(r)' \/ r \in dead' \/ r \in acked'
      BY <2>2, JobMoves DEF SafetyInv
    <3> QED BY <2>2, <3>1, JobKeepsReached
  <2>3. CASE UNCHANGED vars
    BY <2>3 DEF vars, reqVars, NothingSwallowed, Queued, InHand
  <2> QED BY <2>1, <2>2, <2>3, StepSplit
<1> QED BY <1>1, <1>2, SafetyAlways, PTL DEF Spec

-----------------------------------------------------------------------------
(* The snapshots are the sums of what was counted.                         *)

LEMMA OfTyped ==
  /\ \A p \in Pipelines : Of(p) \in SUBSET Messages /\ IsFiniteSet(Of(p))
  /\ \A p, q \in Pipelines : p # q => Of(p) \cap Of(q) = {}
<1>1. \A p \in Pipelines : Of(p) \in SUBSET Messages
  BY DEF Of, Messages
<1>2. \A p \in Pipelines : IsFiniteSet(Of(p))
  BY <1>1, PipelineAssumption, FS_Subset
<1>3. \A p, q \in Pipelines : p # q => Of(p) \cap Of(q) = {}
  BY PipelineAssumption DEF Of, Pipelines
<1> QED BY <1>1, <1>2, <1>3

LEMMA CountsType ==
  ASSUME TypeInv, NEW r \in Messages
  PROVE  Counts(counted, log)[r] \in Nat /\ Added(log)[r] \in Nat
         /\ Counts(counted, log)[r] = counted[r] * log[r].resolves /\ Added(log)[r] = log[r].resolves
<1>1. log[r].resolves \in {0, 1} /\ counted[r] \in Nat
  BY DEF TypeInv, LogType
<1>2. counted[r] * 0 = 0 /\ counted[r] * 1 = counted[r]
  BY <1>1
<1> QED BY <1>1, <1>2 DEF Counts, Added

\* What was counted of a pipeline.
CountedOf(p) == SumOver(Counts(counted, log), Of(p))

\* SnapshotExact in terms of the sums that FoldProofs knows.
SumsExact == \A p \in Pipelines : p \notin raced => kv[p] = CountedOf(p)

LEMMA SnapshotIs == TypeInv => (SnapshotExact <=> SumsExact)
<1> SUFFICES ASSUME TypeInv PROVE SnapshotExact <=> SumsExact
  OBVIOUS
<1>1. \A p \in Pipelines : CountedSum(counted, log, Of(p)) = CountedOf(p)
  <2> TAKE p \in Pipelines
  <2>1. Of(p) \in SUBSET Messages
    BY OfTyped
  <2> QED BY <2>1, CountedTotal DEF TypeInv, CountedOf
<1> QED BY <1>1, SnapshotSums DEF SumsExact

\* The sums are those of before if no count and no counted log changed.
LEMMA CountsStay ==
  ASSUME TypeInv, TypeInv', NEW p \in Pipelines,
         \A r \in Of(p) : counted'[r] = counted[r] /\ (log'[r] = log[r] \/ counted[r] = 0)
  PROVE  CountedOf(p)' = CountedOf(p)
<1> DEFINE w == Counts(counted, log)
           v == Counts(counted', log')
<1>1. Of(p) \in SUBSET Messages /\ IsFiniteSet(Of(p))
  BY OfTyped
<1>2. \A r \in Of(p) : w[r] \in Nat /\ w[r] = v[r]
  <2> TAKE r \in Of(p)
  <2>0. r \in Messages
    BY <1>1
  <2>1. w[r] \in Nat /\ w[r] = counted[r] * log[r].resolves
    BY <2>0, CountsType
  <2>2. v[r] = counted'[r] * log'[r].resolves
    BY <2>0 DEF Counts
  <2>3. log[r].resolves \in {0, 1} /\ log'[r].resolves \in {0, 1}
    BY <2>0 DEF TypeInv, LogType
  <2>4. CASE log'[r] = log[r]
    <3> HIDE DEF w, v
    <3> QED BY <2>1, <2>2, <2>4
  <2>5. CASE counted[r] = 0
    <3> HIDE DEF w, v
    <3>1. counted'[r] = 0
      BY <2>5
    <3>2. counted'[r] * log'[r].resolves = 0 /\ counted[r] * log[r].resolves = 0
      BY <2>3, <2>5, <3>1
    <3> QED BY <2>1, <2>2, <3>2
  <2> QED BY <2>4, <2>5
<1>3. SumOver(w, Of(p)) = SumOver(v, Of(p))
  <2> HIDE DEF w, v
  <2> QED BY <1>1, <1>2, TotalSame
<1>4. CountedOf(p)' = SumOver(v, Of(p))
  BY DEF CountedOf, Counts
<1> QED BY <1>3, <1>4 DEF CountedOf

MetricsPart == BaseExact /\ SumsExact

LEMMA MetricsStay ==
  ASSUME TypeInv, TypeInv', SumsExact, UNCHANGED <<kv, counted, raced>>,
         \A r \in Messages : log'[r] = log[r] \/ counted[r] = 0
  PROVE  SumsExact'
<1>1. kv' = kv /\ raced' = raced /\ counted' = counted
  OBVIOUS
<1>2. \A p \in Pipelines : CountedOf(p)' = CountedOf(p)
  <2> TAKE p \in Pipelines
  <2>1. Of(p) \in SUBSET Messages
    BY OfTyped
  <2>2. \A r \in Of(p) : counted'[r] = counted[r] /\ (log'[r] = log[r] \/ counted[r] = 0)
    BY <1>1, <2>1
  <2> QED BY <2>2, CountsStay
<1> QED BY <1>1, <1>2 DEF SumsExact

\* An update in time adds its batch to what is counted.
LEMMA WriteKeepsMetrics ==
  ASSUME SafetyInv, TypeInv', MetricsPart, NEW j \in Jobs, WriteSnapshot(j)
  PROVE  MetricsPart'
<1> USE DEF SafetyInv
<1>0. /\ WorkEffect
      /\ job[j].pc = "write" /\ job'[j].pc = "answer"
      /\ \A i \in Jobs \ {j} : job'[i].pc = job[i].pc /\ job'[i].base = job[i].base
      /\ log' = log
  BY WriteHas DEF WorkEffect, reqVars
<1>1. CASE UNCHANGED <<kv, counted, raced>> /\ \A i \in Jobs \ {j} : job'[i].stale = job[i].stale
  <2>1. SumsExact'
    BY <1>0, <1>1, MetricsStay DEF MetricsPart
  <2>2. BaseExact'
    <3>1. \A i \in Jobs : job'[i].of = job[i].of
      BY <1>0 DEF WorkEffect
    <3>2. kv' = kv
      BY <1>1
    <3> QED BY <1>0, <1>1, <3>1, <3>2 DEF MetricsPart, BaseExact
  <2> QED BY <2>1, <2>2 DEF MetricsPart
<1>2. CASE /\ kv' = [kv EXCEPT ![job[j].of] = Updated(j)]
           /\ \A r \in Messages : counted'[r] = counted[r] + IF r \in Accounted(j) THEN 1 ELSE 0
           /\ raced' = IF job[j].stale THEN raced \cup {job[j].of} ELSE raced
           /\ \A i \in Jobs \ {j} : ~job'[i].stale =>
                ~job[i].stale /\ ~(job[i].pc = "write" /\ job[i].of = job[j].of)
  <2> DEFINE p == job[j].of
             A == Accounted(j)
  <2>1. p \in Pipelines /\ A \in SUBSET Of(p) /\ Of(p) \in SUBSET Messages /\ IsFiniteSet(Of(p))
    <3>1. A \subseteq job[j].batch
      BY DEF Accounted
    <3> QED BY <3>1, OfTyped, HandsTyped DEF InPlace
  <2>2. \A q \in Pipelines : kv'[q] = IF q = p THEN Updated(j) ELSE kv[q]
    BY <1>2, <2>1 DEF TypeInv
  <2>3. ASSUME NEW q \in Pipelines, q # p PROVE CountedOf(q)' = CountedOf(q)
    <3>1. Of(q) \in SUBSET Messages /\ Of(q) \cap Of(p) = {}
      BY <2>1, <2>3, OfTyped
    <3>2. \A r \in Of(q) : r \in Messages /\ r \notin A
      BY <2>1, <3>1
    <3>3. \A r \in Of(q) : counted'[r] = counted[r]
      BY <1>2, <3>2 DEF TypeInv
    <3> QED BY <1>0, <3>3, CountsStay
  <2>4. CountedOf(p)' = CountedOf(p) + SumOver(Added(log), A)
    <3> DEFINE w == Counts(counted, log)
               v == Added(log)
               u == Counts(counted', log')
    <3>1. \A r \in Of(p) : w[r] \in Nat /\ v[r] \in Nat
      BY <2>1, CountsType
    <3>2. ASSUME NEW r \in Of(p) PROVE u[r] = w[r] + (IF r \in A THEN v[r] ELSE 0)
      <4>0. r \in Messages
        BY <2>1
      <4>1. /\ w[r] = counted[r] * log[r].resolves /\ v[r] = log[r].resolves
            /\ u[r] = counted'[r] * log[r].resolves
        BY <4>0, <1>0, CountsType DEF Counts
      <4>2. counted[r] \in Nat /\ log[r].resolves \in {0, 1}
        BY <4>0 DEF TypeInv, LogType
      <4>3. CASE r \in A
        <5>1. counted'[r] = counted[r] + 1
          BY <4>0, <4>3, <1>2
        <5>2. (counted[r] + 1) * log[r].resolves = counted[r] * log[r].resolves + log[r].resolves
          <6>1. CASE log[r].resolves = 0
            BY <6>1, <4>2
          <6>2. CASE log[r].resolves = 1
            BY <6>2, <4>2
          <6> QED BY <6>1, <6>2, <4>2
        <5> HIDE DEF w, v, u
        <5> QED BY <4>1, <4>3, <5>1, <5>2
      <4>4. CASE r \notin A
        <5>1. counted'[r] = counted[r]
          BY <4>0, <4>2, <4>4, <1>2
        <5>2. w[r] \in Nat
          BY <3>1
        <5> HIDE DEF w, v, u, A
        <5> QED BY <4>1, <4>4, <5>1, <5>2
      <4> QED BY <4>3, <4>4
    <3>3. SumOver(u, Of(p)) = SumOver(w, Of(p)) + SumOver(v, A)
      <4> HIDE DEF w, v, u, p, A
      <4>1. \A r \in A : v[r] \in Nat
        BY <2>1, <3>1
      <4> QED BY <2>1, <3>1, <3>2, <4>1, TotalPlus
    <3>4. CountedOf(p)' = SumOver(u, Of(p))
      <4>1. p \in Pipelines /\ job'[j].of = p
        BY <1>0, <2>1 DEF WorkEffect
      <4> QED BY <4>1 DEF CountedOf, Counts
    <3> QED BY <3>3, <3>4 DEF CountedOf
  <2>5. BaseExact'
    <3>1. ASSUME NEW i \in Jobs, job'[i].pc = "write", ~job'[i].stale
          PROVE  job'[i].base = kv'[job'[i].of]
      <4>1. i # j /\ job[i].pc = "write" /\ ~job[i].stale /\ job[i].of # p /\ job'[i].of = job[i].of
            /\ job'[i].base = job[i].base
        BY <1>0, <1>2, <3>1 DEF WorkEffect
      <4>2. job[i].base = kv[job[i].of] /\ job[i].of \in Pipelines
        BY <4>1, HandsTyped DEF MetricsPart, BaseExact
      <4> QED BY <2>2, <4>1, <4>2
    <3> QED BY <3>1 DEF BaseExact
  <2>6. \A q \in Pipelines : q \notin raced' => kv'[q] = CountedOf(q)'
    <3> TAKE q \in Pipelines
    <3> HAVE q \notin raced'
    <3>1. q \notin raced /\ kv[q] = CountedOf(q)
      BY <1>2 DEF MetricsPart, SumsExact
    <3>2. CASE q # p
      BY <2>2, <2>3, <3>1, <3>2
    <3>3. CASE q = p
      <4>1. ~job[j].stale
        BY <1>2, <3>3
      <4>2. job[j].base = kv[p]
        BY <1>0, <4>1 DEF MetricsPart, BaseExact
      <4>3. Updated(j) = job[j].base + SumOver(Added(log), A)
        BY UpdatedType
      <4>4. kv'[q] = Updated(j)
        BY <2>2, <3>3
      <4>5. kv'[q] = CountedOf(p) + SumOver(Added(log), A)
        BY <3>1, <3>3, <4>2, <4>3, <4>4
      <4>6. kv'[q] = CountedOf(p)'
        BY <4>5, <2>4
      <4>7. CountedOf(q)' = CountedOf(p)'
        <5>1. q = p /\ job'[j].of = p
          BY <3>3, <1>0 DEF WorkEffect
        <5> QED BY <5>1 DEF CountedOf
      <4> QED BY <4>6, <4>7
    <3> QED BY <3>2, <3>3
  <2> QED BY <2>5, <2>6 DEF MetricsPart, SumsExact
<1> QED BY <1>1, <1>2, WriteHas

LEMMA MetricsStep ==
  ASSUME SafetyInv, SafetyInv', MetricsPart, [Next]_vars
  PROVE  MetricsPart'
<1> USE DEF SafetyInv
<1>1. CASE RequestStep /\ UNCHANGED unreadable
  <2>1. RequestEffect
    BY <1>1, RequestEffects
  <2>2. UNCHANGED metrics /\ job' = job /\ \A r \in Messages : log'[r] = log[r] \/ counted[r] = 0
    BY <2>1 DEF RequestEffect, metrics, Unpublished
  <2>3. SumsExact'
    BY <2>2, MetricsStay DEF MetricsPart, metrics
  <2>4. BaseExact'
    BY <2>2 DEF MetricsPart, BaseExact, metrics
  <2> QED BY <2>3, <2>4 DEF MetricsPart
<1>2. ASSUME UNCHANGED <<reqVars, metrics>>,
             \A i \in Jobs : job'[i].pc = "write" /\ ~job'[i].stale =>
                               job'[i] = job[i] \/ job'[i].base = kv[job'[i].of]
      PROVE  MetricsPart'
  <2>1. SumsExact'
    BY <1>2, MetricsStay DEF MetricsPart, reqVars, metrics
  <2>2. BaseExact'
    BY <1>2 DEF MetricsPart, BaseExact, metrics
  <2> QED BY <2>1, <2>2 DEF MetricsPart
<1>3. ASSUME UNCHANGED unreadable, NEW j \in Jobs, NEW p \in Pipelines, Take(j, p) PROVE MetricsPart'
  <2>1. PICK batch \in SUBSET Messages : TakeEffect(j, p, batch)
    BY <1>3, TakeHas
  <2> QED BY <1>2, <2>1 DEF TakeEffect
<1>4. ASSUME NEW j \in Jobs, DeliverChunk(j) PROVE MetricsPart'
  BY <1>2, <1>4, DeliverHas DEF WorkEffect
<1>5. ASSUME NEW j \in Jobs, ReadSnapshot(j) PROVE MetricsPart'
  <2>1. /\ WorkEffect /\ UNCHANGED metrics
        /\ ~job'[j].stale => job'[j].base = kv[job[j].of]
        /\ \A i \in Jobs \ {j} : job'[i] = job[i]
    BY <1>5, ReadHas
  <2>2. job'[j].of = job[j].of /\ UNCHANGED reqVars
    BY <2>1 DEF WorkEffect
  <2> QED BY <1>2, <2>1, <2>2
<1>6. ASSUME NEW j \in Jobs, Answer(j) \/ Interrupt(j) PROVE MetricsPart'
  <2>1. EndEffect(j)
    BY <1>6, AnswerHas, InterruptHas
  <2> QED BY <1>2, <2>1 DEF EndEffect, IdleJob
<1>7. CASE UNCHANGED vars
  BY <1>2, <1>7 DEF vars
<1>8. ASSUME NEW j \in Jobs, WriteSnapshot(j) PROVE MetricsPart'
  BY <1>8, WriteKeepsMetrics
<1> QED BY <1>1, <1>3, <1>4, <1>5, <1>6, <1>7, <1>8, StepSplit DEF JobStep

LEMMA MetricsInit == Init => MetricsPart
<1> SUFFICES ASSUME Init PROVE MetricsPart
  OBVIOUS
<1>1. TypeInv
  BY TypeInit
<1>2. BaseExact
  BY DEF Init, BaseExact, IdleJob
<1>3. ASSUME NEW p \in Pipelines PROVE kv[p] = CountedOf(p)
  <2> DEFINE w == Counts(counted, log)
             z == [r \in Messages |-> 0]
  <2>1. Of(p) \in SUBSET Messages /\ IsFiniteSet(Of(p))
    BY OfTyped
  <2>2. \A r \in Of(p) : w[r] \in Nat /\ w[r] = 0
    <3> TAKE r \in Of(p)
    <3>1. w[r] \in Nat /\ w[r] = counted[r] * log[r].resolves /\ log[r].resolves \in {0, 1} /\ counted[r] = 0
      BY <1>1, <2>1, CountsType DEF Init, TypeInv, LogType
    <3> HIDE DEF w
    <3>2. counted[r] * log[r].resolves = 0
      BY <3>1
    <3> QED BY <3>1, <3>2
  <2>3. SumOver(w, Of(p)) = 0 + SumOver(w, {})
    <3> HIDE DEF w
    <3> DEFINE h == [T \in SUBSET Of(p) |-> 0]
    <3>1. SetSumEq(h, w, Of(p)) /\ h \in [SUBSET Of(p) -> Nat]
      <4>1. \A T \in SUBSET Of(p) : T # {} => FirstOf(T) \in Of(p)
        BY FirstIn
      <4>2. \A T \in SUBSET Of(p) : T # {} => w[FirstOf(T)] = 0
        BY <2>2, <4>1
      <4> QED BY <4>2 DEF SetSumEq
    <3>2. SumOver(w, Of(p)) = h[Of(p)]
      <4> HIDE DEF h
      <4> QED BY <2>1, <3>1, TotalIs DEF SetSumFcn
    <3>3. h[Of(p)] = 0 /\ SumOver(w, {}) = 0
      BY TotalEmpty
    <3> QED BY <3>2, <3>3
  <2>4. CountedOf(p) = 0
    BY <2>3, TotalEmpty DEF CountedOf
  <2> QED BY <2>4 DEF Init
<1> QED BY <1>2, <1>3 DEF MetricsPart, SumsExact

\* A consumer that will acknowledge its batch has counted it, or its put failed.
CountedPart ==
  /\ AckedCounted
  /\ \A j \in Jobs : job[j].pc = "answer" /\ ~job[j].lost =>
       \A r \in job[j].batch \ unreadable : r \in missed \/ counted[r] >= 1

\* A step that acknowledges nothing: what is counted stays counted.
LEMMA CountedStays ==
  ASSUME TypeInv, CountedPart, UNCHANGED <<unreadable, acked>>, missed \subseteq missed',
         \A r \in Messages : counted'[r] = counted[r] \/ counted'[r] = counted[r] + 1,
         \A i \in Jobs : job'[i].pc = "answer" /\ ~job'[i].lost =>
            \/ job'[i].batch = job[i].batch /\ job[i].pc = "answer" /\ ~job[i].lost
            \/ \A r \in job'[i].batch \ unreadable : r \in missed' \/ counted'[r] >= 1
  PROVE  CountedPart'
<1>1. \A r \in Messages : r \in missed \/ counted[r] >= 1 => r \in missed' \/ counted'[r] >= 1
  BY DEF TypeInv
<1>2. AckedCounted'
  BY <1>1 DEF CountedPart, AckedCounted, TypeInv
<1>3. ASSUME NEW i \in Jobs, job'[i].pc = "answer", ~job'[i].lost, NEW r \in job'[i].batch \ unreadable
      PROVE  r \in missed' \/ counted'[r] >= 1
  <2>1. CASE job'[i].batch = job[i].batch /\ job[i].pc = "answer" /\ ~job[i].lost
    BY <2>1, <1>1, <1>3, HandsTyped DEF CountedPart
  <2> QED BY <2>1, <1>3
<1> QED BY <1>2, <1>3 DEF CountedPart

LEMMA CountedStep ==
  ASSUME SafetyInv, CountedPart, [Next]_vars
  PROVE  CountedPart'
<1> USE DEF SafetyInv
<1>1. CASE RequestStep /\ UNCHANGED unreadable
  <2>1. RequestEffect
    BY <1>1, RequestEffects
  <2> QED BY <1>1, <2>1, CountedStays DEF RequestEffect, metrics
<1>2. ASSUME UNCHANGED unreadable, NEW j \in Jobs, NEW p \in Pipelines, Take(j, p) PROVE CountedPart'
  <2>1. PICK batch \in SUBSET Messages : TakeEffect(j, p, batch)
    BY <1>2, TakeHas
  <2>2. job'[j].pc = "answer" => job'[j].batch \ unreadable = {}
    BY <2>1 DEF TakeEffect, Waiting
  <2>3. /\ UNCHANGED <<acked, missed, counted>>
        /\ \A i \in Jobs \ {j} : job'[i] = job[i]
    BY <2>1 DEF TakeEffect, metrics
  <2> QED BY <1>2, <2>2, <2>3, CountedStays
<1>3. ASSUME UNCHANGED unreadable, NEW j \in Jobs, DeliverChunk(j) PROVE CountedPart'
  <2>1. /\ UNCHANGED <<acked, missed, counted>> /\ job'[j].pc = "deliver"
        /\ \A i \in Jobs \ {j} : job'[i] = job[i]
    BY <1>3, DeliverHas DEF WorkEffect, metrics
  <2> QED BY <1>3, <2>1, CountedStays
<1>4. ASSUME UNCHANGED unreadable, NEW j \in Jobs, ReadSnapshot(j) PROVE CountedPart'
  <2>1. /\ UNCHANGED <<acked, missed, counted>> /\ job'[j].pc = "write"
        /\ \A i \in Jobs \ {j} : job'[i] = job[i]
    BY <1>4, ReadHas DEF WorkEffect, metrics
  <2> QED BY <1>4, <2>1, CountedStays
<1>5. ASSUME UNCHANGED unreadable, NEW j \in Jobs, WriteSnapshot(j) PROVE CountedPart'
  <2>1. /\ acked' = acked /\ job'[j].lost = job[j].lost
        /\ \A i \in Jobs : job'[i].batch = job[i].batch
        /\ \A i \in Jobs \ {j} : job'[i].pc = job[i].pc /\ job'[i].lost = job[i].lost
        /\ \/ counted' = counted /\ missed' = missed \cup Accounted(j)
           \/ /\ \A r \in Messages : counted'[r] = counted[r] + IF r \in Accounted(j) THEN 1 ELSE 0
              /\ missed' = missed
    BY <1>5, WriteHas DEF WorkEffect
  <2>2. ~job[j].lost => \A r \in job[j].batch \ unreadable : r \in Accounted(j) /\ r \in Messages
    BY HandsTyped DEF Accounted
  <2>3. \A r \in Messages : counted[r] \in Nat
    BY DEF TypeInv
  <2>4. ~job'[j].lost => \A r \in job'[j].batch \ unreadable : r \in missed' \/ counted'[r] >= 1
    BY <2>1, <2>2, <2>3
  <2>5. \A r \in Messages : counted'[r] = counted[r] \/ counted'[r] = counted[r] + 1
    BY <2>1, <2>3
  <2> QED BY <1>5, <2>1, <2>4, <2>5, CountedStays
<1>6. ASSUME UNCHANGED unreadable, NEW j \in Jobs, Answer(j) PROVE CountedPart'
  <2>1. /\ UNCHANGED <<missed, counted>> /\ job'[j].pc = "idle"
        /\ \A i \in Jobs \ {j} : job'[i] = job[i]
        /\ job[j].pc = "answer"
        /\ acked' = acked \/ (~job[j].lost /\ acked' = acked \cup job[j].batch)
    BY <1>6, AnswerHas DEF EndEffect, metrics, IdleJob
  <2>2. AckedCounted'
    BY <1>6, <2>1 DEF CountedPart, AckedCounted
  <2> QED BY <1>6, <2>1, <2>2 DEF CountedPart
<1>7. ASSUME UNCHANGED unreadable, NEW j \in Jobs, Interrupt(j) PROVE CountedPart'
  <2>1. /\ UNCHANGED <<acked, missed, counted>> /\ job'[j].pc = "idle"
        /\ \A i \in Jobs \ {j} : job'[i] = job[i]
    BY <1>7, InterruptHas DEF EndEffect, metrics, IdleJob
  <2> QED BY <1>7, <2>1, CountedStays
<1>8. CASE UNCHANGED vars
  BY <1>8, CountedStays DEF vars, metrics
<1> QED BY <1>1, <1>2, <1>3, <1>4, <1>5, <1>6, <1>7, <1>8, StepSplit DEF JobStep

(* The metrics in KV count no message twice and every acknowledged one     *)
(* once, and each snapshot is the sum of what was counted, whatever is     *)
(* redelivered, refused or interrupted, outside the windows that the       *)
(* history variables mark (queue.rs; lib.rs, update_kv_snapshot).          *)
THEOREM MetricsCorrect == Spec => []MetricsExact
<1>1. SafetyInv /\ MetricsPart /\ CountedPart => MetricsExact
  <2> SUFFICES ASSUME SafetyInv, MetricsPart, CountedPart PROVE MetricsExact
    OBVIOUS
  <2> USE DEF SafetyInv
  <2>1. TypeOK
    <3>1. queue["events"] \subseteq EventRequests /\ queue["flaglogs"] \subseteq Requests
      BY DEF InPlace, Of, Pipelines
    <3>2. tries \in [Messages -> 0 .. MaxTries] /\ counted \in [Messages -> 0 .. MaxTries]
      <4>1. \A r \in Messages : tries[r] \in 0 .. MaxTries /\ counted[r] \in 0 .. MaxTries
        <5> TAKE r \in Messages
        <5>1. tries[r] \in Nat /\ counted[r] \in Nat /\ MaxTries \in Nat
          BY PipelineAssumption DEF TypeInv
        <5>2. counted[r] <= tries[r] /\ tries[r] <= MaxTries
          BY DEF TriesRight
        <5> QED BY <5>1, <5>2
      <4> QED BY <4>1 DEF TypeInv
    <3>3. \A j \in Jobs : job[j].batch \subseteq Messages /\ job[j].of \in Pipelines
      BY HandsTyped
    <3> QED BY <3>1, <3>2, <3>3 DEF TypeOK, TypeInv, LogType
  <2> QED BY <2>1, SnapshotIs DEF MetricsExact, MetricsPart, CountedOnceInv, CountedPart, CountedOnce
<1>2. Init => CountedPart
  BY DEF Init, CountedPart, AckedCounted, IdleJob
<1> QED BY <1>1, <1>2, MetricsInit, MetricsStep, CountedStep, SafetyAlways, PTL DEF Spec

-----------------------------------------------------------------------------
(* Delivery of the chunks of an invocation.  An attempt never gets more    *)
(* than what is left (AttemptFits), which with the cut back-off keeps the  *)
(* deadline; and the chunks behind the current one are all open (Open),    *)
(* which makes every step one that ChunkDelivery allows.                   *)

\* Chunks are settled in their order.
Open == \A c \in 1 .. NChunks : c >= chunk => settled[c] = "none"

DeliveryInv == DeliveryTypeOK /\ WithinDeadline /\ Open

-----------------------------------------------------------------------------
\* attempt_budget_ms: an attempt that is begun ends before the deadline.
LEMMA AttemptFits ==
  ASSUME DeliveryInv, Trying
  PROVE  /\ attempt_budget_ms(Remaining) \in Nat
         /\ spent + attempt_budget_ms(Remaining) <= Budget
<1>1. Remaining = Budget - spent /\ Remaining \in Nat /\ Remaining >= MIN_ATTEMPT
  BY DeliveryAssumption DEF DeliveryInv, DeliveryTypeOK, WithinDeadline, Trying, Remaining, MaxOf
<1>2. \A n \in Nat : (n * 4) \div 10 \in Nat /\ (n * 4) \div 10 <= n
  OBVIOUS
<1> QED BY <1>1, <1>2, DeliveryAssumption DEF attempt_budget_ms, MaxOf, DeliveryInv, DeliveryTypeOK

\* Settling the current chunk.
LEMMA SettleKeeps ==
  ASSUME DeliveryInv, chunk <= NChunks, NEW result \in {"ok", "lost"}, Settle(result)
  PROVE  /\ settled' \in [1 .. NChunks -> {"none", "ok", "lost"}]
         /\ chunk' \in 1 .. NChunks + 1 /\ dest' \in 1 .. NDest /\ attempt' \in 1 .. DELIVERY_ATTEMPTS
         /\ Open'
<1> USE DeliveryAssumption DEF Settle, DeliveryInv, DeliveryTypeOK
<1>1. settled' = [settled EXCEPT ![chunk] = result] /\ chunk' = chunk + 1
  OBVIOUS
<1>2. Open'
  BY <1>1 DEF Open
<1> QED BY <1>2

\* Going on after a failed POST that ended at time t.
LEMMA GoOnKeeps ==
  ASSUME DeliveryInv, chunk <= NChunks, NEW t \in Nat, t <= Budget, NEW retryable \in BOOLEAN,
         GoOn(t, retryable)
  PROVE  /\ settled' \in [1 .. NChunks -> {"none", "ok", "lost"}]
         /\ chunk' \in 1 .. NChunks + 1 /\ dest' \in 1 .. NDest /\ attempt' \in 1 .. DELIVERY_ATTEMPTS
         /\ spent' \in Nat /\ spent' <= Budget
         /\ Open'
         /\ \/ UNCHANGED settled
            \/ settled' = [settled EXCEPT ![chunk] = "lost"]
<1> USE DeliveryAssumption DEF DeliveryInv, DeliveryTypeOK
<1>1. CASE retryable /\ attempt < DELIVERY_ATTEMPTS
  <2>1. retry_backoff_ms(attempt) \in Nat
    BY DEF retry_backoff_ms
  <2>2. spent' \in Nat /\ spent' <= Budget
    BY <1>1, <2>1 DEF GoOn, MinOf, MaxOf
  <2>3. attempt' = attempt + 1 /\ UNCHANGED <<settled, chunk, dest>>
    BY <1>1 DEF GoOn
  <2> QED BY <1>1, <2>2, <2>3 DEF Open
<1>2. CASE ~(retryable /\ attempt < DELIVERY_ATTEMPTS) /\ dest < NDest
  <2>1. spent' = t /\ dest' = dest + 1 /\ attempt' = 1 /\ UNCHANGED <<settled, chunk>>
    BY <1>2 DEF GoOn
  <2> QED BY <1>2, <2>1 DEF Open
<1>3. CASE ~(retryable /\ attempt < DELIVERY_ATTEMPTS) /\ ~(dest < NDest)
  <2>1. spent' = t /\ Settle("lost")
    BY <1>3 DEF GoOn
  <2> QED BY <2>1, SettleKeeps DEF Settle
<1> QED BY <1>1, <1>2, <1>3

-----------------------------------------------------------------------------
LEMMA DeliveryInvInit == DeliveryInit => DeliveryInv
BY DeliveryAssumption DEF DeliveryInit, DeliveryInv, DeliveryTypeOK, WithinDeadline, Open

\* An answer that did not count, at any time within the attempt's budget.
LEMMA RefusedKeeps ==
  ASSUME DeliveryInv, NEW t \in Nat, NEW retryable \in BOOLEAN, Refused(t, retryable)
  PROVE  DeliveryInv'
<1>1. spent + t \in Nat /\ spent + t <= Budget
  BY AttemptFits, DeliveryAssumption DEF Refused, DeliveryInv, DeliveryTypeOK
<1>2. chunk <= NChunks /\ GoOn(spent + t, retryable) /\ UNCHANGED <<reached, untried>>
  BY DEF Refused, Trying
<1> QED BY <1>1, <1>2, GoOnKeeps DEF DeliveryInv, DeliveryTypeOK, WithinDeadline

LEMMA NoAnswerKeeps ==
  ASSUME DeliveryInv, NEW t \in Nat, NoAnswer(t)
  PROVE  DeliveryInv'
<1> DEFINE u == spent + MinOf(t, attempt_budget_ms(Remaining))
<1>1. u \in Nat /\ u <= Budget
  BY AttemptFits, DeliveryAssumption DEF NoAnswer, MinOf, DeliveryInv, DeliveryTypeOK
<1>2. /\ chunk <= NChunks /\ GoOn(u, TRUE) /\ UNCHANGED untried
      /\ reached' \in {reached, reached \cup {chunk}}
  BY DEF NoAnswer, Trying
<1>3. reached' \subseteq 1 .. NChunks
  BY <1>2, DeliveryAssumption DEF DeliveryInv, DeliveryTypeOK
<1> HIDE DEF u
<1> QED BY <1>1, <1>2, <1>3, GoOnKeeps DEF DeliveryInv, DeliveryTypeOK, WithinDeadline

LEMMA DeliveryInvStep == DeliveryInv /\ [DeliveryNext]_deliveryVars => DeliveryInv'
<1> SUFFICES ASSUME DeliveryInv, [DeliveryNext]_deliveryVars PROVE DeliveryInv'
  OBVIOUS
<1> USE DeliveryAssumption
<1>1. CASE GiveUp
  <2>1. chunk <= NChunks /\ Settle("lost") /\ UNCHANGED <<reached, spent>>
    BY <1>1 DEF GiveUp
  <2>2. untried' \subseteq 1 .. NChunks
    BY <1>1 DEF GiveUp, DeliveryInv, DeliveryTypeOK
  <2> QED BY <2>1, <2>2, SettleKeeps DEF DeliveryInv, DeliveryTypeOK, WithinDeadline
<1>2. ASSUME NEW t \in Durations, Accepted(t) PROVE DeliveryInv'
  <2>1. chunk <= NChunks /\ Settle("ok") /\ spent' = spent + t /\ UNCHANGED untried
    BY <1>2 DEF Accepted, Trying
  <2>2. spent' \in Nat /\ spent' <= Budget
    BY <1>2, <2>1, AttemptFits DEF Accepted, DeliveryInv, DeliveryTypeOK
  <2>3. reached' \subseteq 1 .. NChunks
    BY <1>2, <2>1 DEF Accepted, DeliveryInv, DeliveryTypeOK
  <2> QED BY <2>1, <2>2, <2>3, SettleKeeps DEF DeliveryInv, DeliveryTypeOK, WithinDeadline
<1>3. ASSUME NEW t \in Durations, NEW retryable \in BOOLEAN, Refused(t, retryable) PROVE DeliveryInv'
  BY <1>3, RefusedKeeps
<1>4. ASSUME NEW t \in Durations \cup {Budget}, NoAnswer(t) PROVE DeliveryInv'
  BY <1>4, NoAnswerKeeps
<1>5. CASE UNCHANGED deliveryVars
  BY <1>5 DEF deliveryVars, DeliveryInv, DeliveryTypeOK, WithinDeadline, Open
<1> QED BY <1>1, <1>2, <1>3, <1>4, <1>5 DEF DeliveryNext

LEMMA DeliveryInvAlways == DeliverySpec => []DeliveryInv
BY DeliveryInvInit, DeliveryInvStep, PTL DEF DeliverySpec

(* Whatever is slow, refused or unanswered, all chunks, destinations,      *)
(* attempts and back-offs of an invocation end within its budget           *)
(* (flag_log/mod.rs, deliver).                                             *)
THEOREM DeadlineKept == DeliverySpec => []WithinDeadline
BY DeliveryInvAlways, PTL DEF DeliveryInv

(* Every variable keeps its type; no destination gets more than            *)
(* DELIVERY_ATTEMPTS attempts for a chunk.                                 *)
THEOREM DeliveryTypeCorrect == DeliverySpec => []DeliveryTypeOK
BY DeliveryInvAlways, PTL DEF DeliveryInv

(* Attempts and time are bounded together, for any number of chunks and    *)
(* destinations and any durations.                                         *)
THEOREM BudgetKept == DeliverySpec => []WithinBudget
BY DeadlineKept, DeliveryTypeCorrect, PTL DEF WithinBudget

-----------------------------------------------------------------------------
\* A step of deliver is a step of the abstract delivery of its chunk.
LEMMA AbstractStep ==
  ASSUME DeliveryInv, chunk <= NChunks,
         reached' \in {reached, reached \cup {chunk}},
         \/ UNCHANGED settled
         \/ settled' = [settled EXCEPT ![chunk] = "lost"]
         \/ settled' = [settled EXCEPT ![chunk] = "ok"] /\ reached' = reached \cup {chunk}
  PROVE  [Abstract!Next]_<<settled, reached>>
<1>1. chunk \in 1 .. NChunks /\ settled[chunk] = "none"
  BY DeliveryAssumption DEF DeliveryInv, DeliveryTypeOK, Open
<1>2. CASE UNCHANGED settled /\ reached' = reached \cup {chunk}
  BY <1>1, <1>2 DEF Abstract!Next, Abstract!Arrive
<1>3. CASE settled' = [settled EXCEPT ![chunk] = "lost"]
  BY <1>1, <1>3 DEF Abstract!Next, Abstract!Lose
<1>4. CASE settled' = [settled EXCEPT ![chunk] = "ok"] /\ reached' = reached \cup {chunk}
  BY <1>1, <1>4 DEF Abstract!Next, Abstract!Deliver
<1>5. CASE UNCHANGED <<settled, reached>>
  BY <1>5
<1> QED BY <1>2, <1>3, <1>4, <1>5

(* Delivering with destinations, retries and a deadline implements         *)
(* ChunkDelivery: a chunk is reported as delivered only if a destination   *)
(* has it, and is settled once (flag_log/mod.rs, deliver).                 *)
THEOREM DeliveryImplements == DeliverySpec => ImplementsChunkDelivery
<1>1. DeliveryInit => Abstract!Init
  BY DEF DeliveryInit, Abstract!Init
<1>2. DeliveryInv /\ [DeliveryNext]_deliveryVars => [Abstract!Next]_<<settled, reached>>
  <2> SUFFICES ASSUME DeliveryInv, [DeliveryNext]_deliveryVars
               PROVE  [Abstract!Next]_<<settled, reached>>
    OBVIOUS
  <2>1. CASE GiveUp
    BY <2>1, AbstractStep DEF GiveUp, Settle
  <2>2. ASSUME NEW t \in Durations, Accepted(t) PROVE [Abstract!Next]_<<settled, reached>>
    BY <2>2, AbstractStep DEF Accepted, Trying, Settle
  <2>3. ASSUME NEW t \in Nat, NEW retryable \in BOOLEAN, GoOn(t, retryable)
        PROVE  \/ UNCHANGED settled
               \/ settled' = [settled EXCEPT ![chunk] = "lost"]
    BY <2>3 DEF GoOn, Settle
  <2>4. ASSUME NEW t \in Durations, NEW retryable \in BOOLEAN, Refused(t, retryable)
        PROVE  [Abstract!Next]_<<settled, reached>>
    <3>1. spent + t \in Nat /\ chunk <= NChunks /\ UNCHANGED reached
      BY <2>4, DeliveryAssumption DEF Refused, Trying, DeliveryInv, DeliveryTypeOK
    <3> QED BY <2>3, <2>4, <3>1, AbstractStep DEF Refused
  <2>5. ASSUME NEW t \in Durations \cup {Budget}, NoAnswer(t)
        PROVE  [Abstract!Next]_<<settled, reached>>
    <3> DEFINE u == spent + MinOf(t, attempt_budget_ms(Remaining))
    <3>1. u \in Nat
      BY <2>5, AttemptFits, DeliveryAssumption DEF NoAnswer, MinOf, DeliveryInv, DeliveryTypeOK
    <3>2. chunk <= NChunks /\ GoOn(u, TRUE) /\ reached' \in {reached, reached \cup {chunk}}
      BY <2>5 DEF NoAnswer, Trying
    <3> HIDE DEF u
    <3> QED BY <2>3, <3>1, <3>2, AbstractStep
  <2>6. CASE UNCHANGED deliveryVars
    BY <2>6 DEF deliveryVars
  <2> QED BY <2>1, <2>2, <2>4, <2>5, <2>6 DEF DeliveryNext
<1> QED BY <1>1, <1>2, DeliveryInvAlways, PTL DEF DeliverySpec, ImplementsChunkDelivery, Abstract!Spec

-----------------------------------------------------------------------------
(* The time a stalled destination leaves.  The worst that can happen to a  *)
(* destination's attempts is that each is stalled for its whole share; a   *)
(* schedule is a lower bound of what is left at each attempt if all of     *)
(* them are.                                                               *)

\* What is left after a POST that took its whole share, and a back-off.
Shared(left) == MaxOf(left - attempt_budget_ms(left), 0)
BackedOff(left, n) == MaxOf(Shared(left) - retry_backoff_ms(n), 0)

Schedule(floor) ==
  /\ floor \in [1 .. NChunks + 1 -> [1 .. NDest -> [1 .. DELIVERY_ATTEMPTS -> Nat]]]
  /\ floor[1][1][1] <= Budget
  /\ \A c \in 1 .. NChunks : \A d \in 1 .. NDest : \A a \in 1 .. DELIVERY_ATTEMPTS :
       /\ a < DELIVERY_ATTEMPTS => floor[c][d][a + 1] <= BackedOff(floor[c][d][a], a)
       /\ d < NDest => floor[c][d + 1][1] <= Shared(floor[c][d][a])
       /\ floor[c + 1][1][1] <= Shared(floor[c][d][a])
       /\ c <= FundedChunks /\ ~(d = NDest /\ a > 1) => floor[c][d][a] >= MIN_ATTEMPT

\* The budget pays for every destination of the first FundedChunks chunks.
Funded == \E floor : Schedule(floor)

\* What is left is at least what the schedule says.
OnSchedule(floor) ==
  /\ floor[chunk][dest][attempt] <= Remaining
  /\ FallbackGetsTime

LEMMA FloorIs ==
  ASSUME NEW floor, Schedule(floor),
         NEW c \in 1 .. NChunks + 1, NEW d \in 1 .. NDest, NEW a \in 1 .. DELIVERY_ATTEMPTS
  PROVE  floor[c][d][a] \in Nat
<1>1. floor[c] \in [1 .. NDest -> [1 .. DELIVERY_ATTEMPTS -> Nat]]
  BY DEF Schedule
<1>2. floor[c][d] \in [1 .. DELIVERY_ATTEMPTS -> Nat]
  BY <1>1
<1> QED BY <1>2

\* What the schedule says of the attempts after this one.
LEMMA FloorFalls ==
  ASSUME NEW floor, Schedule(floor),
         NEW c \in 1 .. NChunks, NEW d \in 1 .. NDest, NEW a \in 1 .. DELIVERY_ATTEMPTS
  PROVE  /\ floor[c][d][a] \in Nat
         /\ a < DELIVERY_ATTEMPTS => /\ floor[c][d][a + 1] \in Nat
                                    /\ floor[c][d][a + 1] <= BackedOff(floor[c][d][a], a)
         /\ d < NDest => floor[c][d + 1][1] \in Nat /\ floor[c][d + 1][1] <= Shared(floor[c][d][a])
         /\ floor[c + 1][1][1] \in Nat /\ floor[c + 1][1][1] <= Shared(floor[c][d][a])
         /\ c <= FundedChunks /\ ~(d = NDest /\ a > 1) => floor[c][d][a] >= MIN_ATTEMPT
<1> USE DeliveryAssumption
<1>1. c \in 1 .. NChunks + 1 /\ c + 1 \in 1 .. NChunks + 1
  OBVIOUS
<1>2. 1 \in 1 .. NDest /\ 1 \in 1 .. DELIVERY_ATTEMPTS
  OBVIOUS
<1>3. floor[c][d][a] \in Nat /\ floor[c + 1][1][1] \in Nat
  BY <1>1, <1>2, FloorIs
<1>4. a < DELIVERY_ATTEMPTS => floor[c][d][a + 1] \in Nat
  <2>1. a < DELIVERY_ATTEMPTS => a + 1 \in 1 .. DELIVERY_ATTEMPTS
    OBVIOUS
  <2> QED BY <1>1, <2>1, FloorIs
<1>5. d < NDest => floor[c][d + 1][1] \in Nat
  <2>1. d < NDest => d + 1 \in 1 .. NDest
    OBVIOUS
  <2> QED BY <1>1, <1>2, <2>1, FloorIs
<1> QED BY <1>3, <1>4, <1>5 DEF Schedule

\* More time left is more time left after the attempt.
LEMMA SharedRises ==
  ASSUME NEW m \in Nat, NEW n \in Nat, m <= n
  PROVE  Shared(m) \in Nat /\ Shared(m) <= Shared(n) /\ Shared(m) <= m
<1>1. \A k \in Nat : /\ (k * 4) \div 10 \in Nat /\ (k * 4) \div 10 <= k
                     /\ 10 * ((k * 4) \div 10) <= 4 * k /\ 4 * k < 10 * ((k * 4) \div 10) + 10
  OBVIOUS
<1>2. m - (m * 4) \div 10 <= n - (n * 4) \div 10
  BY <1>1
<1> QED BY <1>1, <1>2, DeliveryAssumption DEF Shared, attempt_budget_ms, MaxOf

\* A failed POST that ended by the end of its share.
LEMMA GoOnSchedule ==
  ASSUME DeliveryInv, Trying, NEW floor, Schedule(floor), OnSchedule(floor), NEW t \in Nat,
         t <= spent + attempt_budget_ms(Remaining), NEW retryable \in BOOLEAN, GoOn(t, retryable), UNCHANGED untried
  PROVE  OnSchedule(floor)'
<1> USE DeliveryAssumption
<1> DEFINE left == floor[chunk][dest][attempt]
<1>1. /\ chunk \in 1 .. NChunks /\ dest \in 1 .. NDest /\ attempt \in 1 .. DELIVERY_ATTEMPTS
      /\ spent \in Nat /\ spent <= Budget /\ Budget \in Nat
  BY DEF DeliveryInv, DeliveryTypeOK, WithinDeadline, Trying
<1>2. left \in Nat /\ left <= Remaining /\ Remaining = Budget - spent /\ Remaining \in Nat
  BY <1>1, FloorFalls DEF OnSchedule, Remaining, MaxOf
<1>3. /\ attempt < DELIVERY_ATTEMPTS => floor[chunk][dest][attempt + 1] <= BackedOff(left, attempt)
      /\ dest < NDest => floor[chunk][dest + 1][1] <= Shared(left)
      /\ floor[chunk + 1][1][1] <= Shared(left)
  BY <1>1, FloorFalls
<1>4. /\ attempt < DELIVERY_ATTEMPTS => floor[chunk][dest][attempt + 1] \in Nat
      /\ dest < NDest => floor[chunk][dest + 1][1] \in Nat
      /\ floor[chunk + 1][1][1] \in Nat
  BY <1>1, FloorFalls
<1> HIDE DEF left
<1>5. Shared(left) \in Nat /\ Shared(left) <= Shared(Remaining) /\ Shared(Remaining) \in Nat
  BY <1>2, SharedRises
<1>6. attempt_budget_ms(Remaining) \in Nat /\ spent + attempt_budget_ms(Remaining) <= Budget
  BY AttemptFits
<1>7. t <= Budget /\ Shared(Remaining) <= Budget - t
  BY <1>1, <1>2, <1>6 DEF Shared, MaxOf
<1>8. FallbackGetsTime'
  BY DEF OnSchedule, FallbackGetsTime
<1>9. CASE retryable /\ attempt < DELIVERY_ATTEMPTS
  <2>1. /\ attempt' = attempt + 1 /\ dest' = dest /\ chunk' = chunk
        /\ spent' = t + MinOf(retry_backoff_ms(attempt), MaxOf(Budget - t, 0))
    BY <1>9 DEF GoOn
  <2>2. retry_backoff_ms(attempt) \in Nat
    BY DEF retry_backoff_ms
  <2>3. BackedOff(left, attempt) <= Remaining'
    BY <1>1, <1>5, <1>7, <2>1, <2>2 DEF BackedOff, Remaining, MaxOf, MinOf
  <2>4. Remaining' \in Int /\ BackedOff(left, attempt) \in Int
    BY <1>1, <1>5, <2>1, <2>2 DEF BackedOff, Remaining, MaxOf, MinOf
  <2>5. floor[chunk][dest][attempt + 1] <= Remaining'
    BY <1>3, <1>4, <1>9, <2>3, <2>4
  <2> QED BY <1>8, <2>1, <2>5 DEF OnSchedule
<1>10. CASE ~(retryable /\ attempt < DELIVERY_ATTEMPTS)
  <2>1. spent' = t
    BY <1>10 DEF GoOn
  <2>2. Shared(left) <= Remaining' /\ Remaining' \in Int
    BY <1>1, <1>5, <1>7, <2>1 DEF Remaining, MaxOf
  <2>3. CASE dest < NDest
    <3>1. dest' = dest + 1 /\ attempt' = 1 /\ chunk' = chunk
      BY <1>10, <2>3 DEF GoOn
    <3> QED BY <1>3, <1>4, <1>5, <1>8, <2>2, <2>3, <3>1 DEF OnSchedule
  <2>4. CASE ~(dest < NDest)
    <3>1. dest' = 1 /\ attempt' = 1 /\ chunk' = chunk + 1
      BY <1>10, <2>4 DEF GoOn, Settle
    <3> QED BY <1>3, <1>4, <1>5, <1>8, <2>2, <3>1 DEF OnSchedule
  <2> QED BY <2>3, <2>4
<1> QED BY <1>9, <1>10

LEMMA ScheduleKept ==
  ASSUME DeliveryInv, NEW floor, Schedule(floor), OnSchedule(floor), [DeliveryNext]_deliveryVars
  PROVE  OnSchedule(floor)'
<1> USE DeliveryAssumption
<1> DEFINE left == floor[chunk][dest][attempt]
<1>1. ASSUME chunk <= NChunks
      PROVE  /\ chunk \in 1 .. NChunks /\ dest \in 1 .. NDest /\ attempt \in 1 .. DELIVERY_ATTEMPTS
             /\ left \in Nat /\ left <= Remaining
             /\ floor[chunk + 1][1][1] \in Nat /\ floor[chunk + 1][1][1] <= Shared(left)
             /\ chunk <= FundedChunks /\ ~(dest = NDest /\ attempt > 1) => left >= MIN_ATTEMPT
  <2>1. chunk \in 1 .. NChunks /\ dest \in 1 .. NDest /\ attempt \in 1 .. DELIVERY_ATTEMPTS
    BY <1>1 DEF DeliveryInv, DeliveryTypeOK
  <2> QED BY <2>1, FloorFalls DEF OnSchedule
<1>2. spent \in Nat /\ spent <= Budget /\ Budget \in Nat /\ Remaining = Budget - spent
  BY DEF DeliveryInv, DeliveryTypeOK, WithinDeadline, Remaining, MaxOf
<1> HIDE DEF left
<1>3. CASE GiveUp
  <2>1. chunk <= NChunks /\ chunk' = chunk + 1 /\ dest' = 1 /\ attempt' = 1 /\ spent' = spent
    BY <1>3 DEF GiveUp, Settle
  <2>2. Shared(left) \in Nat /\ Shared(left) <= left
    BY <1>1, <2>1, SharedRises
  <2>3. floor[chunk'][dest'][attempt'] <= Remaining'
    BY <1>1, <1>2, <2>1, <2>2 DEF Remaining, MaxOf
  <2>4. \/ untried' = untried
        \/ untried' = untried \cup {chunk} /\ chunk > FundedChunks
    <3>1. ASSUME HasSecret, ~(dest = NDest /\ attempt > 1) PROVE chunk > FundedChunks
      <4>1. Remaining < MIN_ATTEMPT
        BY <1>3, <3>1 DEF GiveUp
      <4> QED BY <1>1, <1>2, <2>1, <3>1, <4>1
    <3> QED BY <1>3, <3>1 DEF GiveUp
  <2> QED BY <2>3, <2>4 DEF OnSchedule, FallbackGetsTime
<1>4. ASSUME NEW t \in Durations, Accepted(t) PROVE OnSchedule(floor)'
  <2>1. /\ chunk <= NChunks /\ chunk' = chunk + 1 /\ dest' = 1 /\ attempt' = 1
        /\ spent' = spent + t /\ untried' = untried /\ t \in Nat /\ t <= attempt_budget_ms(Remaining) /\ Trying
    BY <1>4 DEF Accepted, Trying, Settle
  <2>2. attempt_budget_ms(Remaining) \in Nat /\ spent + attempt_budget_ms(Remaining) <= Budget
    BY <2>1, AttemptFits
  <2>3. Shared(left) \in Nat /\ Shared(left) <= Shared(Remaining) /\ Shared(Remaining) \in Nat
    BY <1>1, <1>2, <2>1, SharedRises
  <2>4. Shared(Remaining) <= Remaining' /\ Remaining' \in Nat
    BY <1>2, <2>1, <2>2 DEF Shared, Remaining, MaxOf
  <2>5. floor[chunk'][dest'][attempt'] <= Remaining'
    BY <1>1, <2>1, <2>3, <2>4
  <2> QED BY <2>1, <2>5 DEF OnSchedule, FallbackGetsTime
<1>5. ASSUME NEW t \in Durations, NEW retryable \in BOOLEAN, Refused(t, retryable) PROVE OnSchedule(floor)'
  <2>1. t \in Nat /\ Trying /\ t <= attempt_budget_ms(Remaining) /\ GoOn(spent + t, retryable) /\ UNCHANGED untried
    BY <1>5 DEF Refused
  <2>2. spent + t \in Nat /\ spent + t <= spent + attempt_budget_ms(Remaining)
    BY <1>2, <2>1, AttemptFits
  <2> QED BY <2>1, <2>2, GoOnSchedule
<1>6. ASSUME NEW t \in Durations \cup {Budget}, NoAnswer(t) PROVE OnSchedule(floor)'
  <2> DEFINE u == spent + MinOf(t, attempt_budget_ms(Remaining))
  <2>1. t \in Nat /\ Trying /\ GoOn(u, TRUE) /\ UNCHANGED untried
    BY <1>6 DEF NoAnswer
  <2>2. u \in Nat /\ u <= spent + attempt_budget_ms(Remaining)
    BY <1>2, <2>1, AttemptFits DEF MinOf
  <2> HIDE DEF u
  <2> QED BY <2>1, <2>2, GoOnSchedule
<1>7. CASE UNCHANGED deliveryVars
  BY <1>7 DEF deliveryVars, OnSchedule, FallbackGetsTime, Remaining
<1> QED BY <1>3, <1>4, <1>5, <1>6, <1>7 DEF DeliveryNext

(* A stalled destination leaves the next one its time (ATTEMPT_SHARE): if  *)
(* the budget pays for the schedule on which every attempt of the first    *)
(* FundedChunks chunks is stalled, then whatever mix of answers, refusals, *)
(* stalls and back-offs there is, none of these chunks is given up before  *)
(* each of its destinations was tried.                                     *)
THEOREM FallbackCorrect == Funded => (DeliverySpec => []FallbackGetsTime)
<1> SUFFICES ASSUME NEW floor, Schedule(floor) PROVE DeliverySpec => []FallbackGetsTime
  BY DEF Funded
<1> DEFINE Inv == OnSchedule(floor)
<1>1. DeliveryInit => Inv
  BY DeliveryAssumption DEF DeliveryInit, OnSchedule, FallbackGetsTime, Remaining, MaxOf, Schedule
<1>2. DeliveryInv /\ Inv /\ [DeliveryNext]_deliveryVars => Inv'
  BY ScheduleKept
<1>3. Inv => FallbackGetsTime
  BY DEF OnSchedule
<1> QED BY <1>1, <1>2, <1>3, DeliveryInvAlways, PTL DEF DeliverySpec

\* What is left after a stalled attempt.
LEMMA SharedIs ==
  ASSUME NEW left \in Nat, MIN_ATTEMPT = 250
  PROVE  /\ left >= 625 => Shared(left) = left - (left * 4) \div 10
         /\ left < 625 /\ left >= 250 => Shared(left) = left - 250
         /\ left < 250 => Shared(left) = 0
         /\ \A n : BackedOff(left, n) = MaxOf(Shared(left) - (IF n = 1 THEN 250 ELSE 1000), 0)
BY DEF Shared, BackedOff, attempt_budget_ms, retry_backoff_ms, MaxOf

\* The schedule of INVOCATION_BUDGET_MS.
LEMMA OneChunkFunded ==
  ASSUME NDest = 2, DELIVERY_ATTEMPTS = 3, MIN_ATTEMPT = 250, Budget = 25000, FundedChunks = 1
  PROVE  Funded
<1> DEFINE At(c, d, a) ==
             CASE c = 1 /\ d = 1 -> (IF a = 1 THEN 25000 ELSE IF a = 2 THEN 14750 ELSE 7850)
               [] c = 1 /\ d = 2 -> (IF a = 1 THEN 4710 ELSE IF a = 2 THEN 2576 ELSE 546)
               [] c = 2 /\ d = 1 -> (IF a = 1 THEN 296 ELSE 0)
               [] c = 2 /\ d = 2 -> 0
               [] c > 2 -> 0
           floor == [c \in 1 .. NChunks + 1 |-> [d \in 1 .. NDest |-> [a \in 1 .. DELIVERY_ATTEMPTS |-> At(c, d, a)]]]
<1> USE DeliveryAssumption
<1>1. \A c \in 1 .. NChunks + 1 : \A d \in 1 .. NDest : \A a \in 1 .. DELIVERY_ATTEMPTS :
        floor[c][d][a] = At(c, d, a)
  <2> HIDE DEF At
  <2> QED OBVIOUS
<1>2. /\ Shared(25000) = 15000 /\ Shared(14750) = 8850 /\ Shared(7850) = 4710
      /\ Shared(4710) = 2826 /\ Shared(2576) = 1546 /\ Shared(546) = 296
      /\ Shared(296) = 46 /\ Shared(0) = 0
  BY SharedIs
<1>3. ASSUME NEW n \in Nat, Shared(n) \in Nat
      PROVE  /\ BackedOff(n, 1) = IF Shared(n) < 250 THEN 0 ELSE Shared(n) - 250
             /\ BackedOff(n, 2) = IF Shared(n) < 1000 THEN 0 ELSE Shared(n) - 1000
  BY <1>3 DEF BackedOff, retry_backoff_ms, MaxOf
<1>4. \A c \in 1 .. NChunks + 1, d \in 1 .. 2, a \in 1 .. 3 : At(c, d, a) \in Nat /\ Shared(At(c, d, a)) \in Nat
  BY <1>2
<1>5. ASSUME NEW c \in 1 .. NChunks, NEW d \in 1 .. 2, NEW a \in 1 .. 3
      PROVE  /\ a < 3 => At(c, d, a + 1) <= BackedOff(At(c, d, a), a)
             /\ d < 2 => At(c, d + 1, 1) <= Shared(At(c, d, a))
             /\ At(c + 1, 1, 1) <= Shared(At(c, d, a))
             /\ c <= 1 /\ ~(d = 2 /\ a > 1) => At(c, d, a) >= 250
  <2>1. CASE c > 2
    BY <1>2, <1>3, <2>1
  <2>2. CASE c = 1 /\ d = 1
    BY <1>2, <1>3, <2>2
  <2>3. CASE c = 1 /\ d = 2
    BY <1>2, <1>3, <2>3
  <2>4. CASE c = 2 /\ d = 1
    BY <1>2, <1>3, <2>4
  <2>5. CASE c = 2 /\ d = 2
    BY <1>2, <1>3, <2>5
  <2> QED BY <2>1, <2>2, <2>3, <2>4, <2>5
<1>6. floor \in [1 .. NChunks + 1 -> [1 .. NDest -> [1 .. DELIVERY_ATTEMPTS -> Nat]]]
  <2> HIDE DEF At
  <2> QED BY <1>4
<1>7. At(1, 1, 1) = Budget /\ 1 \in 1 .. NChunks + 1
  OBVIOUS
<1> HIDE DEF At, floor
<1>8. \A c \in 1 .. NChunks : \A d \in 1 .. NDest : \A a \in 1 .. DELIVERY_ATTEMPTS :
        /\ a < DELIVERY_ATTEMPTS => floor[c][d][a + 1] <= BackedOff(floor[c][d][a], a)
        /\ d < NDest => floor[c][d + 1][1] <= Shared(floor[c][d][a])
        /\ floor[c + 1][1][1] <= Shared(floor[c][d][a])
        /\ c <= FundedChunks /\ ~(d = NDest /\ a > 1) => floor[c][d][a] >= MIN_ATTEMPT
  BY <1>1, <1>5
<1>9. Schedule(floor)
  BY <1>1, <1>6, <1>7, <1>8, SMTT(30) DEF Schedule
<1> QED BY <1>9 DEF Funded

\* The schedule of QUEUE_BUDGET_MS.
LEMMA TwoChunksFunded ==
  ASSUME NDest = 2, DELIVERY_ATTEMPTS = 3, MIN_ATTEMPT = 250, Budget = 120000, FundedChunks = 2
  PROVE  Funded
<1> DEFINE At(c, d, a) ==
             CASE c = 1 /\ d = 1 -> (IF a = 1 THEN 120000 ELSE IF a = 2 THEN 71750 ELSE 42050)
               [] c = 1 /\ d = 2 -> (IF a = 1 THEN 25230 ELSE IF a = 2 THEN 14888 ELSE 7933)
               [] c = 2 /\ d = 1 -> (IF a = 1 THEN 4760 ELSE IF a = 2 THEN 2606 ELSE 564)
               [] c = 2 /\ d = 2 -> (IF a = 1 THEN 314 ELSE 0)
               [] c > 2 -> 0
           floor == [c \in 1 .. NChunks + 1 |-> [d \in 1 .. NDest |-> [a \in 1 .. DELIVERY_ATTEMPTS |-> At(c, d, a)]]]
<1> USE DeliveryAssumption
<1>1. \A c \in 1 .. NChunks + 1 : \A d \in 1 .. NDest : \A a \in 1 .. DELIVERY_ATTEMPTS :
        floor[c][d][a] = At(c, d, a)
  <2> HIDE DEF At
  <2> QED OBVIOUS
<1>2. /\ Shared(120000) = 72000 /\ Shared(71750) = 43050 /\ Shared(42050) = 25230
      /\ Shared(25230) = 15138 /\ Shared(14888) = 8933 /\ Shared(7933) = 4760
      /\ Shared(4760) = 2856 /\ Shared(2606) = 1564 /\ Shared(564) = 314
      /\ Shared(314) = 64 /\ Shared(0) = 0
  BY SharedIs
<1>3. ASSUME NEW n \in Nat, Shared(n) \in Nat
      PROVE  /\ BackedOff(n, 1) = IF Shared(n) < 250 THEN 0 ELSE Shared(n) - 250
             /\ BackedOff(n, 2) = IF Shared(n) < 1000 THEN 0 ELSE Shared(n) - 1000
  BY <1>3 DEF BackedOff, retry_backoff_ms, MaxOf
<1>4. \A c \in 1 .. NChunks + 1, d \in 1 .. 2, a \in 1 .. 3 : At(c, d, a) \in Nat /\ Shared(At(c, d, a)) \in Nat
  BY <1>2
<1>5. ASSUME NEW c \in 1 .. NChunks, NEW d \in 1 .. 2, NEW a \in 1 .. 3
      PROVE  /\ a < 3 => At(c, d, a + 1) <= BackedOff(At(c, d, a), a)
             /\ d < 2 => At(c, d + 1, 1) <= Shared(At(c, d, a))
             /\ At(c + 1, 1, 1) <= Shared(At(c, d, a))
             /\ c <= 2 /\ ~(d = 2 /\ a > 1) => At(c, d, a) >= 250
  <2>1. CASE c > 2
    BY <1>2, <1>3, <2>1
  <2>2. CASE c = 1 /\ d = 1
    BY <1>2, <1>3, <2>2
  <2>3. CASE c = 1 /\ d = 2
    BY <1>2, <1>3, <2>3
  <2>4. CASE c = 2 /\ d = 1
    BY <1>2, <1>3, <2>4
  <2>5. CASE c = 2 /\ d = 2
    BY <1>2, <1>3, <2>5
  <2> QED BY <2>1, <2>2, <2>3, <2>4, <2>5
<1>6. floor \in [1 .. NChunks + 1 -> [1 .. NDest -> [1 .. DELIVERY_ATTEMPTS -> Nat]]]
  <2> HIDE DEF At
  <2> QED BY <1>4
<1>7. At(1, 1, 1) = Budget /\ 1 \in 1 .. NChunks + 1
  OBVIOUS
<1> HIDE DEF At, floor
<1>8. \A c \in 1 .. NChunks : \A d \in 1 .. NDest : \A a \in 1 .. DELIVERY_ATTEMPTS :
        /\ a < DELIVERY_ATTEMPTS => floor[c][d][a + 1] <= BackedOff(floor[c][d][a], a)
        /\ d < NDest => floor[c][d + 1][1] <= Shared(floor[c][d][a])
        /\ floor[c + 1][1][1] <= Shared(floor[c][d][a])
        /\ c <= FundedChunks /\ ~(d = NDest /\ a > 1) => floor[c][d][a] >= MIN_ATTEMPT
  BY <1>1, <1>5
<1>9. Schedule(floor)
  BY <1>1, <1>6, <1>7, <1>8, SMTT(30) DEF Schedule
<1> QED BY <1>9 DEF Funded

(* The two budgets of the worker, with two destinations and its attempts   *)
(* and MIN_ATTEMPT_MS: INVOCATION_BUDGET_MS funds one chunk, and           *)
(* QUEUE_BUDGET_MS two, however many the batch has.                        *)
THEOREM BudgetsFund ==
  ASSUME NDest = 2, DELIVERY_ATTEMPTS = 3, MIN_ATTEMPT = 250,
         \/ Budget = 25000 /\ FundedChunks = 1
         \/ Budget = 120000 /\ FundedChunks = 2
  PROVE  DeliverySpec => []FallbackGetsTime
<1>1. Funded
  BY OneChunkFunded, TwoChunksFunded
<1> QED BY <1>1, FallbackCorrect

=============================================================================
