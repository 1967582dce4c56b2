-------------------------- MODULE ClockTraceProofs --------------------------
(***************************************************************************)
(* Machine-checked: the ring holds the newest samples of one recording, a   *)
(* stopped recording is frozen, a recording has one or two samples of each  *)
(* second, and a fetch that nobody disturbs gets the whole recording, for   *)
(* every capacity, chunk and page, every rhythm of task-time, and pulses    *)
(* that come or not.                                                        *)
(*                                                                          *)
(* That a sample is newer than the one before it is not inductive: InHand   *)
(* adds that no time passes while a sample is in hand, and that task-time   *)
(* looks once for each time that passes, so what is in the ring is older.   *)
(***************************************************************************)
EXTENDS MCClockTrace, TLAPS

\* The sample in hand is of this moment, and the one look there is for it.
InHand == taking # NoSample => taking.up = now /\ taking.pps = edges /\ ~due

\* The ring: it has turned only when it is full, and what is in it is not newer
\* than the present, or older while a sample of the present is still to come.
Ring ==
    /\ trace.state = "IDLE" => trace.count = 0
    /\ trace.count < CLOCK_TRACE_CAP => trace.head = 0
    /\ trace.startedMs <= now
    /\ \A i \in 1..trace.count :
         /\ Kept[i] \in SampleRecord /\ Kept[i].up <= now /\ Kept[i].pps <= edges
         /\ due \/ taking # NoSample => Kept[i].up < now

\* The look that task-time has had found no second without a sample.
NoSecondWithoutSample ==
    (trace.state = "REC" /\ trace.count > 0 /\ ~due /\ taking = NoSample)
      => now - trace.lastSampleMs < Second

\* What is still to be sent is what the client is still owed.
Owed == Sending => client.owed = xfer.left

TraceInductive ==
    TypeOK /\ InHand /\ Ring /\ RingHoldsNewestRun /\ NoSecondWithoutSample /\ Owed

\* A fetch that nobody has disturbed: the recording is the one it began with,
\* and it has got the samples from the first to where it reads.
Undisturbed ==
    alone /\ client.at # "idle" =>
      /\ client.at # "failed" /\ trace.state = "STOP" /\ trace.count > 0
      /\ client.from = SeqFirst /\ client.end = trace.nextSeq
      /\ Len(client.rows) <= trace.count
      /\ \A i \in 1..Len(client.rows) : client.rows[i] = Kept[i]
      /\ client.at = "done" => Len(client.rows) = trace.count
      /\ client.at = "reading" => /\ xfer.next = client.from + Len(client.rows)
                                  /\ xfer.left <= trace.nextSeq - xfer.next

FetchInductive == TraceInductive /\ alone \in BOOLEAN /\ Undisturbed

-----------------------------------------------------------------------------
(* The ring.                                                                *)

\* An index goes round at most once.
Turn(x) == x % CLOCK_TRACE_CAP

LEMMA ModOnce ==
    ASSUME NEW c \in Nat \ {0}, NEW x \in 0..(2 * c - 1)
    PROVE  x % c = IF x < c THEN x ELSE x - c
OBVIOUS

LEMMA TurnOnce ==
    \A x \in 0..(2 * CLOCK_TRACE_CAP - 1) :
      Turn(x) = IF x < CLOCK_TRACE_CAP THEN x ELSE x - CLOCK_TRACE_CAP
BY ModOnce, TraceAssumption DEF Turn

LEMMA MaxPair ==
    ASSUME NEW a \in Int, NEW b \in Int PROVE Max({a, b}) = IF a >= b THEN a ELSE b
BY DEF Max

LEMMA MinPair ==
    ASSUME NEW a \in Int, NEW b \in Int PROVE Min({a, b}) = IF a <= b THEN a ELSE b
BY DEF Min

\* Where the i-th of the samples is.
LEMMA KeptAt ==
    ASSUME TypeOK
    PROVE  /\ SeqFirst = trace.dropped /\ SeqFirst \in Nat
           /\ \A i \in 1..trace.count : Kept[i] = trace.buf[Turn(trace.head + (i - 1))]
           /\ Kept = [ i \in 1..trace.count |-> Kept[i] ]
<1>1. /\ trace.count \in Nat /\ trace.dropped \in Nat /\ trace.nextSeq \in Nat
      /\ trace.nextSeq = trace.count + trace.dropped
  BY TraceAssumption DEF TypeOK, TraceRecord
<1>2. SeqFirst = trace.dropped /\ SeqFirst \in Nat
  BY <1>1 DEF SeqFirst
<1>3. \A i \in 1..trace.count : (SeqFirst + i - 1) - SeqFirst = i - 1
  BY <1>2
<1>4. \A i \in 1..trace.count :
        Kept[i] = trace.buf[(trace.head + ((SeqFirst + i - 1) - SeqFirst)) % CLOCK_TRACE_CAP]
  BY DEF Kept, SampleOf
<1> QED BY <1>2, <1>3, <1>4 DEF Kept, Turn

\* A push keeps what was there, in order, but for the oldest of a full ring, and
\* is the newest.
LEMMA PushOK ==
    ASSUME TypeOK, trace.state = "REC", NEW s \in SampleRecord,
           s.seq = trace.nextSeq, trace.count < CLOCK_TRACE_CAP => trace.head = 0,
           NEW t, t = Push(trace, s)
    PROVE  /\ t \in TraceRecord /\ t.state = "REC" /\ t.buf # NoBuf
           /\ t.nextSeq = trace.nextSeq + 1 /\ t.nextSeq = t.count + t.dropped
           /\ t.startedMs = trace.startedMs
           /\ t.count < CLOCK_TRACE_CAP => t.head = 0
           /\ t.count \in 1..CLOCK_TRACE_CAP
           /\ t.buf[Turn(t.head + (t.count - 1))] = s
           /\ \A i \in 1..(t.count - 1) :
                /\ i + (t.dropped - trace.dropped) \in 1..trace.count
                /\ t.buf[Turn(t.head + (i - 1))] = Kept[i + (t.dropped - trace.dropped)]
<1> DEFINE cap == CLOCK_TRACE_CAP
           index == IF trace.count < cap THEN Turn(trace.head + trace.count) ELSE trace.head
<1>1. cap \in Nat \ {0}
  BY TraceAssumption
<1>2. /\ trace \in TraceRecord
      /\ trace.buf \in Buffer /\ trace.head \in 0..(cap - 1) /\ trace.count \in 0..cap
      /\ trace.dropped \in Nat /\ trace.nextSeq \in Nat
      /\ trace.nextSeq = trace.count + trace.dropped
  BY DEF TypeOK, TraceRecord
<1>3. \A x \in 0..(2 * cap - 1) : Turn(x) = IF x < cap THEN x ELSE x - cap
  BY TurnOnce
<1>4. NoBuf \notin Buffer
  <2>1. DOMAIN NoBuf = {} /\ 0 \in 0..(cap - 1)
    BY <1>1 DEF NoBuf
  <2> QED BY <2>1 DEF Buffer
<1> DEFINE buf == [trace.buf EXCEPT ![index] = s]
<1>5. index \in 0..(cap - 1) /\ (trace.count < cap => index = trace.count)
  <2> HIDE DEF cap
  <2> QED BY <1>1, <1>2, <1>3 DEF cap
<1>6. /\ buf \in Buffer /\ buf[index] = s
      /\ \A j \in 0..(cap - 1) : j # index => buf[j] = trace.buf[j]
  BY <1>2, <1>5 DEF Buffer
<1>7. CASE trace.count < cap
  <2>1. t = [trace EXCEPT !.buf = buf, !.count = @ + 1, !.nextSeq = s.seq + 1]
    BY <1>7 DEF Push, Turn
  <2>2. s.seq + 1 = trace.nextSeq + 1 /\ s.seq + 1 \in Nat /\ trace.count + 1 \in 0..cap
    BY <1>1, <1>2, <1>7
  <2> HIDE DEF index, buf, cap
  <2>3. t \in TraceRecord
    BY <1>2, <1>6, <2>1, <2>2, Zenon DEF TraceRecord, cap
  <2>4. /\ t.state = "REC" /\ t.buf = buf /\ t.count = trace.count + 1
        /\ t.nextSeq = trace.nextSeq + 1 /\ t.head = 0 /\ t.dropped = trace.dropped
        /\ t.startedMs = trace.startedMs
    BY <1>2, <1>7, <2>1, <2>2 DEF TraceRecord, cap
  <2>5. \A i \in 1..t.count : Turn(0 + (i - 1)) = i - 1
    BY <1>1, <1>2, <1>3, <1>7, <2>4
  <2>6. \A i \in 1..trace.count : Kept[i] = trace.buf[i - 1]
    BY <1>2, <1>7, <2>4, <2>5, KeptAt DEF cap
  <2> QED BY <1>1, <1>2, <1>4, <1>5, <1>6, <1>7, <2>3, <2>4, <2>5, <2>6 DEF cap
<1>8. CASE ~(trace.count < cap)
  <2> DEFINE next == Turn(trace.head + 1)
  <2>1. t = [trace EXCEPT !.buf = buf, !.head = next, !.dropped = @ + 1, !.nextSeq = s.seq + 1]
    BY <1>8 DEF Push, Turn
  <2>2. index = trace.head /\ trace.count = cap
    BY <1>1, <1>2, <1>8
  <2> HIDE DEF index, buf, cap
  <2>3. next = IF trace.head + 1 < cap THEN trace.head + 1 ELSE 0
    BY <1>1, <1>2, <1>3
  <2>4. /\ next \in 0..(cap - 1) /\ trace.dropped + 1 \in Nat
        /\ s.seq + 1 = trace.nextSeq + 1 /\ s.seq + 1 \in Nat
    BY <1>1, <1>2, <2>3
  <2> HIDE DEF next
  <2>5. t \in TraceRecord
    BY <1>2, <1>6, <2>1, <2>4, Zenon DEF TraceRecord, cap
  <2>6. /\ t.state = "REC" /\ t.buf = buf /\ t.count = cap
        /\ t.nextSeq = trace.nextSeq + 1 /\ t.head = next /\ t.dropped = trace.dropped + 1
        /\ t.startedMs = trace.startedMs
    BY <1>2, <2>1, <2>2, <2>4 DEF TraceRecord
  <2>7. \A i \in 1..(cap - 1) :
          /\ Turn(next + (i - 1)) = Turn(trace.head + i) /\ Turn(trace.head + i) # trace.head
          /\ Turn(trace.head + i) \in 0..(cap - 1)
    BY <1>1, <1>2, <1>3, <2>3
  <2>8. Turn(next + (cap - 1)) = trace.head
    BY <1>1, <1>2, <1>3, <2>3
  <2>9. \A i \in 1..(cap - 1) : Kept[i + 1] = trace.buf[Turn(trace.head + i)]
    <3> SUFFICES ASSUME NEW i \in 1..(cap - 1) PROVE Kept[i + 1] = trace.buf[Turn(trace.head + i)]
      OBVIOUS
    <3>1. i + 1 \in 1..trace.count /\ (i + 1) - 1 = i
      BY <1>1, <2>2
    <3> QED BY <3>1, KeptAt
  <2>10. \A i \in 1..(cap - 1) : buf[Turn(next + (i - 1))] = Kept[i + 1]
    BY <1>6, <2>2, <2>7, <2>9
  <2> QED BY <1>1, <1>2, <1>4, <1>6, <2>2, <2>4, <2>5, <2>6, <2>8, <2>10 DEF cap
<1> QED BY <1>7, <1>8
\* What a read returns: as much as there is, from the first there is.
LEMMA ReadOK ==
    ASSUME TypeOK, Ring, NEW from \in Nat, NEW n \in Nat, NEW c, c = Read(from, n)
    PROVE  /\ c \in Seq(SampleRecord) /\ Len(c) <= n
           /\ (trace.state = "STOP" /\ trace.count > 0 /\ SeqFirst <= from
                /\ n <= trace.nextSeq - from) =>
                /\ Len(c) = n
                /\ \A i \in 1..n : /\ (from - SeqFirst) + i \in 1..trace.count
                                  /\ c[i] = Kept[(from - SeqFirst) + i]
<1>1. /\ trace.count \in Nat /\ trace.nextSeq \in Nat /\ SeqFirst \in Nat
      /\ trace.nextSeq = SeqFirst + trace.count
  BY KeptAt, TraceAssumption, SMTT(30) DEF TypeOK, TraceRecord
<1>2. CASE trace.state # "STOP" \/ trace.count = 0
  <2>1. c = <<>>
    BY <1>2 DEF Read
  <2> QED BY <1>1, <1>2, <2>1
<1>3. CASE ~(trace.state # "STOP" \/ trace.count = 0)
  <2> DEFINE first == Max({from, SeqFirst})
             got == Max({0, Min({n, trace.nextSeq - first})})
  <2>1. c = [ i \in 1..got |-> SampleOf(first + i - 1) ]
    BY <1>3 DEF Read
  <2>2. first = IF from >= SeqFirst THEN from ELSE SeqFirst
    BY <1>1, MaxPair
  <2> HIDE DEF first
  <2>3. Min({n, trace.nextSeq - first}) =
          IF n <= trace.nextSeq - first THEN n ELSE trace.nextSeq - first
    BY <1>1, <2>2, MinPair
  <2>4. Min({n, trace.nextSeq - first}) \in Int
    BY <1>1, <2>2, <2>3
  <2>5. got = IF 0 >= Min({n, trace.nextSeq - first}) THEN 0 ELSE Min({n, trace.nextSeq - first})
    BY <2>4, MaxPair
  <2>6. got \in Nat /\ got <= n /\ first \in Nat /\ SeqFirst <= first
        /\ (got > 0 => got <= trace.nextSeq - first)
    BY <1>1, <2>2, <2>3, <2>5
  <2>7. SeqFirst <= from /\ n <= trace.nextSeq - from => got = n /\ first = from
    BY <1>1, <2>2, <2>3, <2>5
  <2> HIDE DEF got
  <2>8. \A i \in 1..got : /\ (first - SeqFirst) + i \in 1..trace.count
                         /\ SampleOf(first + i - 1) = Kept[(first - SeqFirst) + i]
    <3> SUFFICES ASSUME NEW i \in 1..got
                 PROVE  /\ (first - SeqFirst) + i \in 1..trace.count
                        /\ SampleOf(first + i - 1) = Kept[(first - SeqFirst) + i]
      OBVIOUS
    <3>1. (first - SeqFirst) + i \in 1..trace.count
      BY <1>1, <2>6
    <3>2. SeqFirst + ((first - SeqFirst) + i) - 1 = first + i - 1
      BY <1>1, <2>6
    <3> QED BY <3>1, <3>2 DEF Kept
  <2>9. \A i \in 1..got : SampleOf(first + i - 1) \in SampleRecord
    BY <2>8 DEF Ring
  <2>10. c \in Seq(SampleRecord) /\ Len(c) = got
    BY <2>1, <2>6, <2>9
  <2> QED BY <2>1, <2>6, <2>7, <2>8, <2>10
<1> QED BY <1>2, <1>3

-----------------------------------------------------------------------------
(* What the steps have in common.                                           *)

LEMMA TakingType ==
    ASSUME TypeOK, taking # NoSample
    PROVE  taking \in [ up : 0..now, pps : 0..edges, met : BOOLEAN ]
BY DEF TypeOK

\* A request only marks the sample in hand.
LEMMA RequestOK ==
    ASSUME TypeOK, TakesRequest
    PROVE  /\ taking' \in [ up : 0..now, pps : 0..edges, met : BOOLEAN ] \cup {NoSample}
           /\ taking' = NoSample <=> taking = NoSample
           /\ taking # NoSample => taking'.up = taking.up /\ taking'.pps = taking.pps
           /\ ~Sending /\ ~uploading
<1>1. CASE taking = NoSample
  BY <1>1 DEF TakesRequest, Shed
<1>2. CASE taking # NoSample
  <2>1. taking \in [ up : 0..now, pps : 0..edges, met : BOOLEAN ]
    BY <1>2 DEF TypeOK
  <2>2. taking' = [taking EXCEPT !.met = TRUE]
    BY <1>2 DEF TakesRequest
  <2>3. taking' \in [ up : 0..now, pps : 0..edges, met : BOOLEAN ]
    BY <2>1, <2>2, Zenon
  <2>4. taking'.up = taking.up /\ taking'.pps = taking.pps /\ taking'.up \in 0..now
    BY <2>1, <2>2, <2>3
  <2>5. now \in Nat
    BY TraceAssumption DEF TypeOK
  <2>6. taking' # NoSample
    BY <2>4, <2>5 DEF NoSample
  <2> QED BY <1>2, <2>3, <2>4, <2>6 DEF TakesRequest, Shed
<1> QED BY <1>1, <1>2

\* The ring is as it was, and the present has not gone back.
LEMMA SameRing ==
    ASSUME TypeOK, Ring, RingHoldsNewestRun, UNCHANGED trace,
           now' \in Nat, now' >= now, edges' \in Nat, edges' >= edges,
           due' \/ taking' # NoSample => now' > now \/ due \/ taking # NoSample
    PROVE  Ring' /\ RingHoldsNewestRun'
<1>1. Kept' = Kept /\ SeqFirst' = SeqFirst
  BY DEF Kept, SampleOf, SeqFirst
<1>2. RingHoldsNewestRun'
  BY <1>1 DEF RingHoldsNewestRun
<1>3. now \in Nat /\ edges \in Nat /\ trace.startedMs \in Nat
  BY TraceAssumption DEF TypeOK, TraceRecord
<1>4. ASSUME NEW i \in 1..trace.count
      PROVE  /\ Kept[i] \in SampleRecord /\ Kept[i].up <= now' /\ Kept[i].pps <= edges'
             /\ due' \/ taking' # NoSample => Kept[i].up < now'
  <2>1. /\ Kept[i] \in SampleRecord /\ Kept[i].up <= now /\ Kept[i].pps <= edges
        /\ due \/ taking # NoSample => Kept[i].up < now
    BY DEF Ring
  <2>2. Kept[i].up \in Nat /\ Kept[i].pps \in Nat
    BY <2>1 DEF SampleRecord
  <2> QED BY <1>3, <2>1, <2>2
<1>5. trace.startedMs <= now'
  BY <1>3 DEF Ring
<1> QED BY <1>1, <1>2, <1>4, <1>5 DEF Ring

\* A recording that is just begun, or none.
LEMMA EmptyRing ==
    ASSUME trace'.count = 0, trace'.head = 0, trace'.startedMs <= now'
    PROVE  Ring' /\ RingHoldsNewestRun'
BY DEF Ring, RingHoldsNewestRun

LEMMA FreedType ==
    /\ Freed \in TraceRecord /\ Freed.state = "IDLE" /\ Freed.buf = NoBuf
    /\ Freed.count = 0 /\ Freed.head = 0 /\ Freed.startedMs = 0
    /\ Freed.nextSeq = 0 /\ Freed.dropped = 0
<1>1. 0 \in 0..(CLOCK_TRACE_CAP - 1) /\ 0 \in 0..CLOCK_TRACE_CAP
  BY TraceAssumption
<1>2. Freed \in TraceRecord
  BY <1>1 DEF Freed, TraceRecord
<1> QED BY <1>2 DEF Freed

LEMMA FreshType ==
    ASSUME TypeOK
    PROVE  /\ Fresh \in TraceRecord /\ Fresh.state = "REC" /\ Fresh.buf # NoBuf
           /\ Fresh.count = 0 /\ Fresh.head = 0 /\ Fresh.startedMs = now
           /\ Fresh.nextSeq = 0 /\ Fresh.dropped = 0
<1> DEFINE buf == [ i \in 0..(CLOCK_TRACE_CAP - 1) |-> NoSample ]
<1>1. buf \in Buffer /\ now \in Nat /\ 0 \in 0..(CLOCK_TRACE_CAP - 1)
  BY TraceAssumption DEF Buffer, TypeOK
<1>2. buf # NoBuf
  <2>1. 0 \in DOMAIN buf /\ DOMAIN NoBuf = {}
    BY <1>1 DEF NoBuf
  <2> HIDE DEF buf
  <2> QED BY <2>1
<1> HIDE DEF buf
<1>3. Fresh = [Freed EXCEPT !.state = "REC", !.startedMs = now, !.buf = buf]
  BY DEF Fresh, buf
<1>4. Fresh \in TraceRecord
  BY <1>1, <1>3, FreedType, Zenon DEF TraceRecord
<1> QED BY <1>2, <1>3, <1>4, FreedType DEF TraceRecord

-----------------------------------------------------------------------------
(* The steps of task-time.                                                  *)

LEMMA InitOK == Init => TraceInductive
<1> SUFFICES ASSUME Init PROVE TraceInductive
  OBVIOUS
<1> USE DEF Init
<1>1. 0 \in 0..MaxTime /\ 0 \in 0..MaxStarts /\ 0 \in Nat /\ now = 0
  BY TraceAssumption
<1>2. xfer \in [ left : Nat, next : Nat ] /\ ~Sending
  BY DEF NoXfer, Sending
<1>3. client \in ClientRecord /\ client.at = "idle"
  BY DEF NoFetch, ClientRecord
<1>4. due \in BOOLEAN /\ taking = NoSample /\ uploading \in BOOLEAN
  OBVIOUS
<1>5. TypeOK
  BY <1>1, <1>2, <1>3, <1>4, FreedType DEF TypeOK
<1>6. Ring /\ RingHoldsNewestRun
  BY <1>1, FreedType DEF Ring, RingHoldsNewestRun
<1> QED BY <1>2, <1>4, <1>5, <1>6, FreedType DEF TraceInductive, InHand, NoSecondWithoutSample, Owed

LEMMA PassOK == ASSUME TraceInductive, Pass PROVE TraceInductive'
<1> USE DEF TraceInductive
<1>1. PICK d \in Steps, on \in Streams :
        /\ now + d <= MaxTime
        /\ now' = now + d
        /\ \E s \in { (now + d) \div Second, (now + d - 1) \div Second } :
             /\ s >= second
             /\ second' = s
             /\ edges' = IF on THEN edges + (s - second) ELSE edges
  BY DEF Pass
<1>2. PICK s \in { (now + d) \div Second, (now + d - 1) \div Second } :
             /\ s >= second
             /\ second' = s
             /\ edges' = IF on THEN edges + (s - second) ELSE edges
  BY <1>1
<1>3. d \in Nat /\ d > 0 /\ now \in Nat /\ second \in Nat /\ edges \in 0..second /\ MaxTime \in Nat
      /\ Second \in Nat \ {0}
  BY TraceAssumption DEF TypeOK
<1>4. s \in Int
  BY <1>2, <1>3
<1>5. /\ now' \in 0..MaxTime /\ now' > now /\ now' \in Nat
      /\ second' \in Nat /\ edges' \in 0..second' /\ edges' >= edges /\ edges' \in Nat
  BY <1>1, <1>2, <1>3, <1>4
<1>6. due' = TRUE /\ taking = NoSample /\ UNCHANGED <<trace, taking, xfer, uploading, client, starts>>
  BY DEF Pass
<1>7. due' \in BOOLEAN
  BY <1>6
<1>8. TypeOK'
  BY <1>5, <1>6, <1>7 DEF TypeOK, Sending
<1>9. Ring' /\ RingHoldsNewestRun'
  <2>1. UNCHANGED trace /\ now' >= now
    BY <1>3, <1>5, <1>6
  <2>2. due' \/ taking' # NoSample => now' > now \/ due \/ taking # NoSample
    BY <1>5
  <2> QED BY <1>5, <2>1, <2>2, SameRing
<1> QED BY <1>6, <1>8, <1>9 DEF InHand, NoSecondWithoutSample, Owed, Sending

LEMMA LookOK == ASSUME TraceInductive, MaybeSample PROVE TraceInductive'
<1> USE DEF TraceInductive
<1>1. /\ due /\ due' = FALSE /\ UNCHANGED <<trace, now, second, edges, xfer, uploading, client, starts>>
      /\ \/ taking' = [ up |-> now, pps |-> edges, met |-> FALSE ]
         \/ taking' = NoSample /\ ~(trace.state = "REC" /\ Wants)
  BY DEF MaybeSample
<1>2. due' \in BOOLEAN
  BY <1>1
<1>3. now \in Nat /\ edges \in Nat
  BY TraceAssumption DEF TypeOK
<1>4. taking' \in [ up : 0..now, pps : 0..edges, met : BOOLEAN ] \cup {NoSample}
  <2>1. now \in 0..now /\ edges \in 0..edges
    BY <1>3
  <2>2. [ up |-> now, pps |-> edges, met |-> FALSE ] \in [ up : 0..now, pps : 0..edges, met : BOOLEAN ]
    BY <2>1
  <2> QED BY <1>1, <2>2
<1>5. TypeOK'
  BY <1>1, <1>2, <1>4 DEF TypeOK, Sending
<1>6. Ring' /\ RingHoldsNewestRun'
  BY <1>1, <1>3, SameRing
<1>7. InHand'
  BY <1>1 DEF InHand
<1>8. NoSecondWithoutSample'
  <2>1. now \in Nat /\ Second \in Nat /\ trace.lastSampleMs \in Nat
    BY TraceAssumption DEF TypeOK, TraceRecord
  <2>2. taking' = NoSample /\ trace.state = "REC" => now - trace.lastSampleMs < Second
    <3>1. ~Wants => now - trace.lastSampleMs < Second
      BY <2>1 DEF Wants
    <3>2. NoSample.up = -1
      BY DEF NoSample
    <3>3. taking' = NoSample => ~(trace.state = "REC" /\ Wants)
      BY <1>1, <1>3, <3>2
    <3> QED BY <3>1, <3>3
  <2> QED BY <1>1, <2>2 DEF NoSecondWithoutSample
<1> QED BY <1>1, <1>5, <1>6, <1>7, <1>8 DEF Owed, Sending

\* The sample enters the recording that is under way as its newest; the others
\* move down by off, the oldest of a full ring out of it.
LEMMA Finished ==
    ASSUME TraceInductive, FinishSample, trace.state = "REC"
    PROVE  LET off == trace'.dropped - trace.dropped IN
           /\ trace' \in TraceRecord /\ trace'.state = "REC" /\ trace'.buf # NoBuf
           /\ trace'.nextSeq = trace'.count + trace'.dropped
           /\ trace'.count < CLOCK_TRACE_CAP => trace'.head = 0
           /\ trace'.startedMs = trace.startedMs
           /\ trace'.lastSampleMs = now /\ trace'.lastPps = edges
           /\ trace'.count \in Nat \ {0} /\ trace'.dropped \in Nat /\ off \in Int
           /\ SeqFirst' = trace'.dropped
           /\ Kept'[trace'.count] = [ seq |-> trace.nextSeq, up |-> now, pps |-> edges ]
           /\ (trace'.count - 1) + off = trace.count
           /\ \A i \in 1..(trace'.count - 1) :
                i + off \in 1..trace.count /\ Kept'[i] = Kept[i + off]
<1> USE DEF TraceInductive
<1>1. taking # NoSample /\ trace' = Taken(trace)
  BY DEF FinishSample
<1>2. /\ taking \in [ up : 0..now, pps : 0..edges, met : BOOLEAN ]
      /\ taking.up = now /\ taking.pps = edges /\ now \in Nat /\ edges \in Nat
  BY <1>1, TakingType, TraceAssumption DEF InHand, TypeOK
<1> DEFINE s == [ seq |-> trace.nextSeq, up |-> taking.up, pps |-> taking.pps ]
           t == Push(trace, s)
           off == t.dropped - trace.dropped
<1>3. trace' = [t EXCEPT !.lastPps = taking.pps, !.lastSampleMs = taking.up]
  BY <1>1 DEF Taken
<1>4. /\ trace.nextSeq \in Nat /\ trace.count \in Nat
      /\ trace.dropped \in Nat /\ trace.nextSeq = trace.count + trace.dropped
  BY TraceAssumption DEF TypeOK, TraceRecord
<1>5. s \in SampleRecord /\ s.seq = trace.nextSeq
      /\ s = [ seq |-> trace.nextSeq, up |-> now, pps |-> edges ]
  BY <1>2, <1>4 DEF SampleRecord
<1> HIDE DEF s
<1>6. /\ t \in TraceRecord /\ t.state = "REC" /\ t.buf # NoBuf
      /\ t.nextSeq = trace.nextSeq + 1 /\ t.nextSeq = t.count + t.dropped
      /\ t.startedMs = trace.startedMs
      /\ t.count < CLOCK_TRACE_CAP => t.head = 0
      /\ t.count \in 1..CLOCK_TRACE_CAP
      /\ t.buf[Turn(t.head + (t.count - 1))] = s
      /\ \A i \in 1..(t.count - 1) :
           i + off \in 1..trace.count /\ t.buf[Turn(t.head + (i - 1))] = Kept[i + off]
  BY <1>5, PushOK DEF Ring
<1> HIDE DEF t
<1>7. trace' \in TraceRecord
  BY <1>2, <1>3, <1>6, Zenon DEF TraceRecord
<1>8. /\ trace'.state = "REC" /\ trace'.buf = t.buf /\ trace'.head = t.head
      /\ trace'.count = t.count /\ trace'.nextSeq = t.nextSeq /\ trace'.dropped = t.dropped
      /\ trace'.startedMs = trace.startedMs /\ trace'.lastSampleMs = now
      /\ trace'.lastPps = edges
  BY <1>2, <1>3, <1>6 DEF TraceRecord
<1>9. /\ SeqFirst' = t.dropped
      /\ \A i \in 1..t.count : Kept'[i] = t.buf[Turn(t.head + (i - 1))]
  <2>1. trace'.count \in Nat /\ trace'.dropped \in Nat /\ trace'.nextSeq = trace'.count + trace'.dropped
    BY <1>6, <1>7, <1>8, TraceAssumption DEF TraceRecord
  <2>2. SeqFirst' = trace'.dropped
    BY <2>1 DEF SeqFirst
  <2>3. \A i \in 1..trace'.count : (SeqFirst' + i - 1) - SeqFirst' = i - 1
    BY <2>1, <2>2
  <2>4. \A i \in 1..trace'.count :
          Kept'[i] = trace'.buf[Turn(trace'.head + ((SeqFirst' + i - 1) - SeqFirst'))]
    BY DEF Kept, SampleOf, Turn
  <2> HIDE DEF off
  <2> QED BY <1>8, <2>2, <2>3, <2>4
<1>10. t.dropped \in Nat /\ t.count \in Nat \ {0} /\ off \in Int
  BY <1>4, <1>6, TraceAssumption DEF TraceRecord
<1>11. (t.count - 1) + off = trace.count
  BY <1>4, <1>6, <1>10
<1>12. Kept'[t.count] = s
  BY <1>6, <1>9, <1>10
<1>13. \A i \in 1..(t.count - 1) : i + off \in 1..trace.count /\ Kept'[i] = Kept[i + off]
  BY <1>6, <1>9, <1>10
<1> QED BY <1>5, <1>6, <1>7, <1>8, <1>9, <1>10, <1>11, <1>12, <1>13

\* The sample enters the recording that is under way, or nothing does.
LEMMA FinishOK == ASSUME TraceInductive, FinishSample PROVE TraceInductive'
<1> USE DEF TraceInductive
<1>1. /\ taking # NoSample /\ taking' = NoSample /\ trace' = Taken(trace)
      /\ UNCHANGED <<now, second, edges, due, xfer, uploading, client, starts>>
  BY DEF FinishSample
<1>2. ~due /\ now \in Nat /\ edges \in Nat
  BY <1>1, TraceAssumption DEF InHand, TypeOK
<1>3. InHand' /\ Owed'
  BY <1>1 DEF InHand, Owed, Sending
<1>4. CASE trace.state # "REC"
  <2>1. trace' = trace
    BY <1>1, <1>4 DEF Taken
  <2>2. TypeOK'
    BY <1>1, <2>1 DEF TypeOK, Sending
  <2>3. Ring' /\ RingHoldsNewestRun'
    BY <1>1, <1>2, <2>1, SameRing
  <2> QED BY <1>3, <1>4, <2>1, <2>2, <2>3 DEF NoSecondWithoutSample
<1>5. CASE trace.state = "REC"
  <2> DEFINE s == [ seq |-> trace.nextSeq, up |-> now, pps |-> edges ]
             n == trace'.count
             off == trace'.dropped - trace.dropped
  <2>1. /\ trace' \in TraceRecord /\ trace'.state = "REC" /\ trace'.buf # NoBuf
        /\ trace'.nextSeq = n + trace'.dropped
        /\ n < CLOCK_TRACE_CAP => trace'.head = 0
        /\ trace'.startedMs = trace.startedMs /\ trace'.lastSampleMs = now
        /\ n \in Nat \ {0} /\ trace'.dropped \in Nat /\ off \in Int
        /\ SeqFirst' = trace'.dropped
        /\ Kept'[n] = s
        /\ (n - 1) + off = trace.count
        /\ \A i \in 1..(n - 1) : i + off \in 1..trace.count /\ Kept'[i] = Kept[i + off]
    BY <1>5, Finished
  <2>2. /\ trace.nextSeq \in Nat /\ trace.count \in Nat
        /\ trace.dropped \in Nat /\ trace.nextSeq = trace.count + trace.dropped
        /\ trace.startedMs \in Nat /\ trace.startedMs <= now
        /\ SeqFirst = trace.dropped
    BY TraceAssumption, KeptAt DEF TypeOK, TraceRecord, Ring
  <2>3. s \in SampleRecord /\ s.seq = trace.nextSeq /\ s.up = now /\ s.pps = edges
    BY <1>2, <2>2 DEF SampleRecord
  <2>4. off = trace'.dropped - trace.dropped
    OBVIOUS
  <2> HIDE DEF s, n, off
  <2>5. TypeOK'
    BY <1>1, <1>5, <2>1 DEF TypeOK, Sending, n
  <2>6. ASSUME NEW i \in 1..trace.count
        PROVE  /\ Kept[i] \in SampleRecord /\ Kept[i].up < now /\ Kept[i].pps <= edges
               /\ Kept[i].up \in Nat /\ Kept[i].pps \in Nat /\ Kept[i].up >= trace.startedMs
               /\ Kept[i].seq = trace.dropped + i - 1
               /\ i > 1 => Kept[i].up > Kept[i - 1].up /\ Kept[i].pps >= Kept[i - 1].pps
    BY <1>1, <2>2 DEF Ring, RingHoldsNewestRun, SampleRecord
  <2>7. ASSUME NEW i \in 1..n
        PROVE  /\ Kept'[i] \in SampleRecord /\ Kept'[i].up <= now /\ Kept'[i].pps <= edges
               /\ Kept'[i].up >= trace.startedMs
               /\ Kept'[i].seq = trace'.dropped + i - 1
               /\ i > 1 => Kept'[i].up > Kept'[i - 1].up /\ Kept'[i].pps >= Kept'[i - 1].pps
    <3>1. CASE i = n
      <4>1. Kept'[i] = s /\ s.up >= trace.startedMs /\ s.seq = trace'.dropped + i - 1
        BY <2>1, <2>2, <2>3, <2>4, <3>1
      <4>2. i > 1 => i - 1 \in 1..(n - 1)
        BY <2>1, <3>1
      <4>3. i > 1 => s.up > Kept'[i - 1].up /\ s.pps >= Kept'[i - 1].pps
        BY <2>1, <2>3, <2>6, <4>2
      <4> QED BY <1>2, <2>3, <4>1, <4>3
    <3>2. CASE i # n
      <4>1. i \in 1..(n - 1)
        BY <2>1, <3>2
      <4>2. i + off \in 1..trace.count /\ Kept'[i] = Kept[i + off]
        BY <2>1, <4>1
      <4>3. Kept'[i].seq = trace'.dropped + i - 1
        BY <2>1, <2>2, <2>4, <2>6, <4>2
      <4>4. i > 1 => /\ Kept'[i - 1] = Kept[i + off - 1] /\ i + off > 1
                     /\ (i - 1) + off = i + off - 1
        BY <2>1, <4>1, <4>2
      <4>5. Kept[i + off].up \in Nat /\ now \in Nat /\ Kept[i + off].up < now
        BY <1>2, <2>6, <4>2
      <4>6. i > 1 => Kept[i + off].up > Kept[i + off - 1].up
                     /\ Kept[i + off].pps >= Kept[i + off - 1].pps
        <5>1. \A k \in 1..trace.count :
                k > 1 => Kept[k].up > Kept[k - 1].up /\ Kept[k].pps >= Kept[k - 1].pps
          BY <2>6
        <5>2. (i + off) - 1 = i + off - 1
          BY <2>1
        <5> QED BY <4>2, <4>4, <5>1, <5>2
      <4>7. /\ Kept[i + off] \in SampleRecord /\ Kept[i + off].up <= now
            /\ Kept[i + off].pps <= edges /\ Kept[i + off].up >= trace.startedMs
        BY <2>6, <4>2, <4>5
      <4> QED BY <4>2, <4>3, <4>4, <4>6, <4>7
    <3> QED BY <3>1, <3>2
  <2>8. Ring'
    BY <1>1, <1>2, <2>1, <2>2, <2>7 DEF Ring, n
  <2>9. RingHoldsNewestRun'
    BY <2>1, <2>7 DEF RingHoldsNewestRun, n
  <2>10. NoSecondWithoutSample'
    <3>1. now - trace'.lastSampleMs < Second
      BY <1>2, <2>1, TraceAssumption
    <3> QED BY <1>1, <3>1 DEF NoSecondWithoutSample
  <2> QED BY <1>3, <2>5, <2>8, <2>9, <2>10
<1> QED BY <1>4, <1>5

-----------------------------------------------------------------------------
(* The requests that change the recording.                                  *)

\* The ring is empty and nothing else changes.
LEMMA EmptiedOK ==
    ASSUME TraceInductive, TakesRequest, trace' \in TraceRecord,
           trace'.count = 0, trace'.head = 0, trace'.nextSeq = 0, trace'.dropped = 0,
           trace'.startedMs <= now, (trace'.state = "IDLE") <=> (trace'.buf = NoBuf),
           starts' \in 0..MaxStarts, UNCHANGED <<now, second, edges, due, xfer, uploading, client>>
    PROVE  TraceInductive'
<1> USE DEF TraceInductive
<1>1. TypeOK'
  BY RequestOK DEF TypeOK, Sending
<1>2. InHand'
  BY RequestOK DEF InHand
<1>3. Ring' /\ RingHoldsNewestRun'
  BY EmptyRing
<1> QED BY <1>1, <1>2, <1>3 DEF NoSecondWithoutSample, Owed, Sending

LEMMA StartOK == ASSUME TraceInductive, Start PROVE TraceInductive'
<1> USE DEF TraceInductive
<1>1. /\ TakesRequest /\ starts' = starts + 1 /\ starts < MaxStarts
      /\ trace' \in {Fresh, Freed} /\ UNCHANGED <<now, second, edges, due, xfer, uploading, client>>
  BY DEF Start
<1>2. starts' \in 0..MaxStarts
  BY <1>1, TraceAssumption DEF TypeOK
<1>3. now \in Nat
  BY TraceAssumption DEF TypeOK
<1>4. CASE trace' = Fresh
  BY <1>1, <1>2, <1>3, <1>4, FreshType, EmptiedOK
<1>5. CASE trace' = Freed
  BY <1>1, <1>2, <1>3, <1>5, FreedType, EmptiedOK
<1> QED BY <1>1, <1>4, <1>5

LEMMA ClearOK == ASSUME TraceInductive, Clear PROVE TraceInductive'
<1> USE DEF TraceInductive
<1>1. /\ TakesRequest /\ trace' = Freed
      /\ UNCHANGED <<now, second, edges, due, xfer, uploading, client, starts>>
  BY DEF Clear
<1>2. now \in Nat /\ starts' \in 0..MaxStarts
  BY <1>1, TraceAssumption DEF TypeOK
<1> QED BY <1>1, <1>2, FreedType, EmptiedOK

LEMMA StopOK == ASSUME TraceInductive, Stop PROVE TraceInductive'
<1> USE DEF TraceInductive
<1>1. /\ TakesRequest /\ trace.state = "REC" /\ trace' = [trace EXCEPT !.state = "STOP"]
      /\ UNCHANGED <<now, second, edges, due, xfer, uploading, client, starts>>
  BY DEF Stop
<1>2. trace' \in TraceRecord
  BY <1>1 DEF TypeOK, TraceRecord
<1>3. /\ trace'.state = "STOP" /\ trace'.buf = trace.buf /\ trace'.head = trace.head
      /\ trace'.count = trace.count /\ trace'.nextSeq = trace.nextSeq
      /\ trace'.dropped = trace.dropped /\ trace'.startedMs = trace.startedMs
  BY <1>1 DEF TypeOK, TraceRecord
<1>4. TypeOK'
  BY <1>1, <1>2, <1>3, RequestOK DEF TypeOK, Sending
<1>5. InHand'
  BY <1>1, RequestOK DEF InHand
<1>6. Kept' = Kept /\ SeqFirst' = SeqFirst
  BY <1>3 DEF Kept, SampleOf, SeqFirst
<1>7. Ring' /\ RingHoldsNewestRun'
  BY <1>1, <1>3, <1>6, RequestOK DEF Ring, RingHoldsNewestRun
<1> QED BY <1>1, <1>3, <1>4, <1>5, <1>7 DEF NoSecondWithoutSample, Owed, Sending

-----------------------------------------------------------------------------
(* The requests of a client.                                                *)

\* What a request of at most n samples is answered with.
LEMMA SentOK ==
    ASSUME TypeOK, NEW from \in Nat, NEW n \in Nat, NEW s, s = Sent(from, n)
    PROVE  /\ s \in [ left : Nat, next : Nat ] /\ s.left <= n
           /\ SeqFirst <= from => s.next = from
           /\ s.left > 0 => s.left <= trace.nextSeq - s.next
           /\ s.left = 0 /\ n > 0 => trace.nextSeq <= from \/ trace.count = 0
           /\ s.left = 0 \/ s # NoXfer
<1>1. /\ trace.count \in Nat /\ trace.nextSeq \in Nat /\ SeqFirst \in Nat
      /\ trace.nextSeq = SeqFirst + trace.count
  BY KeptAt, TraceAssumption, SMTT(30) DEF TypeOK, TraceRecord
<1> DEFINE first == Max({from, SeqFirst})
           avail == Max({0, trace.nextSeq - first})
<1>2. first = IF from >= SeqFirst THEN from ELSE SeqFirst
  BY <1>1, MaxPair
<1> HIDE DEF first
<1>3. avail = IF 0 >= trace.nextSeq - first THEN 0 ELSE trace.nextSeq - first
  BY <1>1, <1>2, MaxPair
<1> HIDE DEF avail
<1>4. first \in Nat /\ avail \in Nat
  BY <1>1, <1>2, <1>3
<1>5. s = [ left |-> Min({avail, n}), next |-> first ]
  BY DEF Sent, first, avail
<1>6. Min({avail, n}) = IF avail <= n THEN avail ELSE n
  BY <1>4, MinPair
<1>7. s.left = (IF avail <= n THEN avail ELSE n) /\ s.next = first /\ s.left \in Nat
  BY <1>4, <1>5, <1>6
<1>8. s.left = 0 \/ s # NoXfer
  BY <1>7 DEF NoXfer
<1> QED BY <1>1, <1>2, <1>3, <1>4, <1>5, <1>7, <1>8

\* A request that begins a download or ends one leaves the recording alone.
LEMMA AnsweredOK ==
    ASSUME TraceInductive, UNCHANGED <<trace, now, second, edges, due, uploading, starts>>,
           taking' \in [ up : 0..now, pps : 0..edges, met : BOOLEAN ] \cup {NoSample},
           taking' = NoSample <=> taking = NoSample,
           taking # NoSample => taking'.up = taking.up /\ taking'.pps = taking.pps,
           xfer' \in [ left : Nat, next : Nat ], client' \in ClientRecord,
           client'.at = "reading" <=> Sending', ~uploading, Owed'
    PROVE  TraceInductive'
<1> USE DEF TraceInductive
<1>1. TypeOK'
  BY DEF TypeOK
<1>2. InHand'
  BY DEF InHand
<1>3. Ring' /\ RingHoldsNewestRun'
  <2>1. now \in Nat /\ edges \in Nat
    BY TraceAssumption DEF TypeOK
  <2>2. due' \/ taking' # NoSample => now' > now \/ due \/ taking # NoSample
    OBVIOUS
  <2> QED BY <2>1, <2>2, SameRing
<1> QED BY <1>1, <1>2, <1>3 DEF NoSecondWithoutSample

\* The first request of a fetch.
LEMMA FetchStep ==
    ASSUME TraceInductive, NEW full \in BOOLEAN, Fetch(full)
    PROVE  /\ TraceInductive' /\ UNCHANGED trace
           /\ client.at \notin {"paging", "reading"} /\ client'.at \in {"paging", "reading"}
           /\ trace.state = "STOP" /\ trace.count > 0
           /\ client'.from = SeqFirst /\ client'.end = trace.nextSeq /\ client'.rows = <<>>
           /\ client'.at = "reading" => /\ xfer'.next = SeqFirst
                                        /\ xfer'.left <= trace.nextSeq - xfer'.next
<1> USE DEF TraceInductive
<1> DEFINE all == [ NoFetch EXCEPT !.full = full, !.from = SeqFirst, !.end = trace.nextSeq ]
<1>1. /\ client.at \in {"idle", "done", "failed"} /\ TakesRequest
      /\ trace.state = "STOP" /\ trace.count > 0
      /\ IF full THEN /\ xfer' = Sent(SeqFirst, trace.count)
                      /\ client' = [all EXCEPT !.at = "reading", !.owed = trace.count]
                 ELSE xfer' = NoXfer /\ client' = [all EXCEPT !.at = "paging"]
      /\ UNCHANGED <<trace, now, second, edges, due, uploading, starts>>
  BY DEF Fetch
<1>2. /\ trace.count \in Nat /\ trace.nextSeq \in Nat /\ SeqFirst \in Nat
      /\ trace.nextSeq = SeqFirst + trace.count
  <2>1. SeqFirst = trace.dropped
    BY KeptAt
  <2> QED BY <2>1, TraceAssumption DEF TypeOK, TraceRecord
<1>3. NoFetch \in ClientRecord /\ NoFetch.rows = <<>>
  BY DEF NoFetch, ClientRecord
<1>4. all \in ClientRecord
  BY <1>2, <1>3, Zenon DEF ClientRecord
<1>5. all.rows = <<>> /\ all.from = SeqFirst /\ all.end = trace.nextSeq
  BY <1>3 DEF ClientRecord
<1> HIDE DEF all
<1>6. CASE full
  <2>1. xfer' = Sent(SeqFirst, trace.count) /\ client' = [all EXCEPT !.at = "reading", !.owed = trace.count]
    BY <1>1, <1>6
  <2>2. client' \in ClientRecord
    BY <1>2, <1>4, <2>1, Zenon DEF ClientRecord
  <2>3. /\ client'.at = "reading" /\ client'.owed = trace.count /\ client'.rows = <<>>
        /\ client'.from = SeqFirst /\ client'.end = trace.nextSeq
    BY <1>4, <1>5, <2>1 DEF ClientRecord
  <2>4. /\ xfer' \in [ left : Nat, next : Nat ] /\ xfer'.left <= trace.count
        /\ xfer'.next = SeqFirst /\ xfer'.left # 0 /\ xfer' # NoXfer
        /\ xfer'.left <= trace.nextSeq - xfer'.next
    BY <1>1, <1>2, <2>1, SentOK
  <2>5. xfer'.left = trace.count
    <3>1. trace.nextSeq - SeqFirst = trace.count /\ trace.count > 0
      BY <1>1, <1>2
    <3>2. Max({SeqFirst, SeqFirst}) = SeqFirst
      BY <1>2, MaxPair
    <3>3. Max({0, trace.nextSeq - SeqFirst}) = trace.count
      BY <1>2, <3>1, MaxPair
    <3>4. Min({trace.count, trace.count}) = trace.count
      BY <1>2, MinPair
    <3> QED BY <2>1, <3>2, <3>3, <3>4 DEF Sent
  <2>6. Sending' /\ Owed'
    BY <2>3, <2>4, <2>5 DEF Sending, Owed
  <2>7. TraceInductive'
    BY <1>1, <2>2, <2>3, <2>4, <2>6, RequestOK, AnsweredOK
  <2> QED BY <1>1, <2>3, <2>4, <2>7
<1>7. CASE ~full
  <2>1. xfer' = NoXfer /\ client' = [all EXCEPT !.at = "paging"]
    BY <1>1, <1>7
  <2>2. client' \in ClientRecord
    BY <1>4, <2>1, Zenon DEF ClientRecord
  <2>3. /\ client'.at = "paging" /\ client'.rows = <<>>
        /\ client'.from = SeqFirst /\ client'.end = trace.nextSeq
    BY <1>4, <1>5, <2>1 DEF ClientRecord
  <2>4. xfer' \in [ left : Nat, next : Nat ] /\ ~Sending' /\ Owed'
    BY <2>1 DEF NoXfer, Sending, Owed
  <2>5. TraceInductive'
    BY <1>1, <2>2, <2>3, <2>4, RequestOK, AnsweredOK
  <2> QED BY <1>1, <2>3, <2>5
<1> QED BY <1>6, <1>7
\* The request of a page.
LEMMA AskStep ==
    ASSUME TraceInductive, AskPage
    PROVE  /\ TraceInductive' /\ UNCHANGED trace /\ client.at = "paging"
           /\ client'.from = client.from /\ client'.end = client.end /\ client'.rows = client.rows
           /\ \/ client'.at = "failed" /\ trace.state # "STOP"
              \/ /\ client'.at = "done"
                 /\ trace.nextSeq <= client.from + Len(client.rows) \/ trace.count = 0
              \/ /\ client'.at = "reading"
                 /\ SeqFirst <= client.from => xfer'.next = client.from + Len(client.rows)
                 /\ xfer'.left <= trace.nextSeq - xfer'.next
<1> USE DEF TraceInductive
<1> DEFINE from == client.from + Len(client.rows)
           sent == Sent(from, Page)
<1>1. /\ client.at = "paging" /\ TakesRequest
      /\ UNCHANGED <<trace, now, second, edges, due, uploading, starts>>
      /\ \/ xfer' = NoXfer /\ trace.state # "STOP" /\ client' = [client EXCEPT !.at = "failed"]
         \/ xfer' = NoXfer /\ sent.left = 0 /\ client' = [client EXCEPT !.at = "done"]
         \/ xfer' = sent /\ sent.left # 0
              /\ client' = [client EXCEPT !.at = "reading", !.owed = sent.left]
  BY DEF AskPage
<1>2. /\ client \in ClientRecord /\ client.from \in Nat /\ Len(client.rows) \in Nat
      /\ from \in Nat /\ Page \in Nat /\ Page > 0 /\ trace.nextSeq \in Nat /\ SeqFirst \in Nat
      /\ from >= client.from
  <2>1. client \in ClientRecord /\ client.from \in Nat /\ client.rows \in Seq(SampleRecord)
    BY DEF TypeOK, ClientRecord
  <2>2. trace.nextSeq \in Nat /\ SeqFirst \in Nat
    BY KeptAt DEF TypeOK, TraceRecord
  <2> QED BY <2>1, <2>2, TraceAssumption
<1> HIDE DEF from
<1>3. /\ sent \in [ left : Nat, next : Nat ]
      /\ SeqFirst <= from => sent.next = from
      /\ sent.left > 0 => sent.left <= trace.nextSeq - sent.next
      /\ sent.left = 0 => trace.nextSeq <= from \/ trace.count = 0
      /\ sent.left = 0 \/ sent # NoXfer
  <2>1. sent = Sent(from, Page)
    OBVIOUS
  <2> HIDE DEF sent
  <2> QED BY <1>2, <2>1, SentOK
<1> HIDE DEF sent
<1>4. NoXfer \in [ left : Nat, next : Nat ] /\ sent.left \in Nat
  BY <1>3 DEF NoXfer
<1>5. ASSUME NEW at \in {"failed", "done"}, client' = [client EXCEPT !.at = at], xfer' = NoXfer
      PROVE  /\ TraceInductive' /\ client'.at = at /\ client'.from = client.from
             /\ client'.end = client.end /\ client'.rows = client.rows
  <2>1. client' \in ClientRecord
    BY <1>2, <1>5, Zenon DEF ClientRecord
  <2>2. /\ client'.at = at /\ client'.from = client.from
        /\ client'.end = client.end /\ client'.rows = client.rows
    BY <1>2, <1>5 DEF ClientRecord
  <2>3. ~Sending' /\ Owed'
    BY <1>5 DEF Sending, Owed
  <2>4. TraceInductive'
    BY <1>1, <1>4, <1>5, <2>1, <2>2, <2>3, RequestOK, AnsweredOK
  <2> QED BY <2>2, <2>4
<1>6. CASE xfer' = NoXfer /\ trace.state # "STOP" /\ client' = [client EXCEPT !.at = "failed"]
  BY <1>1, <1>5, <1>6
<1>7. CASE xfer' = NoXfer /\ sent.left = 0 /\ client' = [client EXCEPT !.at = "done"]
  BY <1>1, <1>3, <1>5, <1>7 DEF from
<1>8. CASE /\ xfer' = sent /\ sent.left # 0
           /\ client' = [client EXCEPT !.at = "reading", !.owed = sent.left]
  <2>1. client' \in ClientRecord
    BY <1>2, <1>4, <1>8, Zenon DEF ClientRecord
  <2>2. /\ client'.at = "reading" /\ client'.from = client.from /\ client'.owed = sent.left
        /\ client'.end = client.end /\ client'.rows = client.rows
    BY <1>2, <1>8 DEF ClientRecord
  <2>3. Sending' /\ Owed'
    BY <1>3, <1>8, <2>2 DEF Sending, Owed
  <2>4. TraceInductive'
    BY <1>1, <1>3, <1>8, <2>1, <2>2, <2>3, RequestOK, AnsweredOK
  <2>5. /\ SeqFirst <= client.from => xfer'.next = from
        /\ xfer'.left <= trace.nextSeq - xfer'.next
    BY <1>2, <1>3, <1>4, <1>8
  <2> QED BY <1>1, <2>2, <2>4, <2>5 DEF from
<1> QED BY <1>1, <1>6, <1>7, <1>8

\* One chunk of what is still to be sent.
LEMMA SendStep ==
    ASSUME TraceInductive, SendChunk
    PROVE  /\ TraceInductive' /\ UNCHANGED trace /\ client.at = "reading"
           /\ client'.from = client.from /\ client'.end = client.end
           /\ \E chunk \in Seq(SampleRecord), want \in Nat :
                /\ chunk = Read(xfer.next, want)
                /\ client'.rows = client.rows \o chunk
                /\ Len(chunk) <= want /\ want <= xfer.left
                /\ \/ Len(chunk) < want
                   \/ /\ Len(chunk) = xfer.left
                      /\ client'.at = IF \/ client.from + Len(client'.rows) >= client.end
                                         \/ client.from + Len(client'.rows) >= trace.nextSeq
                                      THEN "done" ELSE "paging"
                   \/ /\ client'.at = "reading" /\ xfer'.next = xfer.next + Len(chunk)
                      /\ xfer'.left = xfer.left - Len(chunk)
<1> USE DEF TraceInductive
<1> DEFINE want == Min({xfer.left, Chunk})
           chunk == Read(xfer.next, want)
           n == Len(chunk)
           got == [client EXCEPT !.rows = @ \o chunk, !.owed = @ - n]
           ends == n < want \/ n = xfer.left
<1>1. /\ xfer # NoXfer
      /\ xfer' = IF ends THEN NoXfer ELSE [ left |-> xfer.left - n, next |-> xfer.next + n ]
      /\ client' = IF ~ends THEN got
                   ELSE IF got.owed > 0 THEN [got EXCEPT !.at = "failed"] ELSE Asked(got)
      /\ UNCHANGED <<trace, now, second, edges, due, taking, uploading, starts>>
  BY DEF SendChunk
<1>2. /\ xfer \in [ left : Nat, next : Nat ] /\ xfer.left \in Nat /\ xfer.next \in Nat
      /\ client \in ClientRecord /\ client.rows \in Seq(SampleRecord)
      /\ client.at = "reading" /\ client.owed = xfer.left /\ ~uploading
  BY <1>1 DEF TypeOK, ClientRecord, Sending, Owed
<1>3. want = IF xfer.left <= Chunk THEN xfer.left ELSE Chunk
  BY <1>2, TraceAssumption, MinPair
<1>4. want \in Nat /\ want <= xfer.left
  BY <1>2, <1>3, TraceAssumption
<1> HIDE DEF want
<1>5. chunk \in Seq(SampleRecord) /\ n <= want /\ n \in Nat
  <2>1. chunk = Read(xfer.next, want)
    OBVIOUS
  <2> HIDE DEF chunk
  <2>2. chunk \in Seq(SampleRecord) /\ Len(chunk) <= want
    BY <1>2, <1>4, <2>1, ReadOK
  <2> QED BY <2>2
<1> HIDE DEF chunk
<1>6. client.rows \o chunk \in Seq(SampleRecord) /\ client.owed - n \in Nat
  BY <1>2, <1>4, <1>5
<1>7. got \in ClientRecord
  BY <1>2, <1>6, Zenon DEF ClientRecord
<1>8. /\ got.at = "reading" /\ got.from = client.from /\ got.end = client.end
      /\ got.rows = client.rows \o chunk /\ got.owed = xfer.left - n
  BY <1>2 DEF ClientRecord
<1> HIDE DEF got, n
<1>9. ASSUME xfer' \in [ left : Nat, next : Nat ], client' \in ClientRecord,
             client'.at = "reading" <=> Sending', Owed'
      PROVE  TraceInductive'
  <2>1. taking' \in [ up : 0..now, pps : 0..edges, met : BOOLEAN ] \cup {NoSample}
    BY <1>1 DEF TypeOK
  <2> QED BY <1>1, <1>2, <1>9, <2>1, AnsweredOK
<1>10. ASSUME ends, NEW at \in {"failed", "done", "paging"}, client' = [got EXCEPT !.at = at]
       PROVE  /\ TraceInductive' /\ client'.at = at /\ client'.from = client.from
              /\ client'.end = client.end /\ client'.rows = client.rows \o chunk
  <2>1. client' \in ClientRecord
    BY <1>7, <1>10, Zenon DEF ClientRecord
  <2>2. /\ client'.at = at /\ client'.from = client.from
        /\ client'.end = client.end /\ client'.rows = client.rows \o chunk
    BY <1>7, <1>8, <1>10 DEF ClientRecord
  <2>3. xfer' = NoXfer /\ NoXfer \in [ left : Nat, next : Nat ] /\ ~Sending' /\ Owed'
    BY <1>1, <1>10 DEF NoXfer, Sending, Owed
  <2> QED BY <1>9, <2>1, <2>2, <2>3
<1>11. CASE ends /\ got.owed > 0
  <2>1. client' = [got EXCEPT !.at = "failed"]
    BY <1>1, <1>11
  <2>2. n < want
    BY <1>2, <1>5, <1>8, <1>11
  <2> QED BY <1>1, <1>2, <1>4, <1>5, <1>10, <1>11, <2>1, <2>2 DEF chunk, n
<1>12. CASE ends /\ ~(got.owed > 0)
  <2> DEFINE next == client.from + Len(client.rows \o chunk)
             at == IF next >= client.end \/ next >= trace.nextSeq THEN "done" ELSE "paging"
  <2>1. client' = [got EXCEPT !.at = at]
    BY <1>1, <1>8, <1>12 DEF Asked
  <2>2. n = xfer.left
    BY <1>2, <1>4, <1>5, <1>8, <1>12
  <2>3. at \in {"failed", "done", "paging"}
    OBVIOUS
  <2> HIDE DEF at
  <2>4. /\ TraceInductive' /\ client'.at = at /\ client'.from = client.from
        /\ client'.end = client.end /\ client'.rows = client.rows \o chunk
    BY <1>10, <1>12, <2>1, <2>3
  <2> QED BY <1>1, <1>2, <1>4, <1>5, <2>2, <2>4 DEF chunk, n, at
<1>13. CASE ~ends
  <2>1. client' = got /\ xfer' = [ left |-> xfer.left - n, next |-> xfer.next + n ]
    BY <1>1, <1>13
  <2>2. xfer.left - n \in Nat /\ xfer.left - n # 0 /\ xfer.next + n \in Nat
    BY <1>2, <1>4, <1>5, <1>13
  <2>3. /\ xfer' \in [ left : Nat, next : Nat ] /\ xfer'.left = xfer.left - n
        /\ xfer'.next = xfer.next + n /\ xfer' # NoXfer
    BY <2>1, <2>2 DEF NoXfer
  <2>4. Sending' /\ Owed'
    BY <1>8, <2>1, <2>3 DEF Sending, Owed
  <2>5. TraceInductive'
    BY <1>7, <1>8, <1>9, <2>1, <2>3, <2>4
  <2> QED BY <1>1, <1>2, <1>4, <1>5, <1>8, <2>1, <2>3, <2>5 DEF chunk, n
<1> QED BY <1>11, <1>12, <1>13

-----------------------------------------------------------------------------
(* A fetch.                                                                 *)

\* An upload comes and goes: the recording, the sample in hand and what the
\* client has are as they were.
LEMMA UploadStep ==
    ASSUME TraceInductive, UploadBegins \/ UploadEnds PROVE TraceInductive'
<1> USE DEF TraceInductive
<1>1. /\ UNCHANGED <<trace, now, second, edges, due, xfer, client>>
      /\ taking' \in [ up : 0..now, pps : 0..edges, met : BOOLEAN ] \cup {NoSample}
      /\ taking' = NoSample <=> taking = NoSample
      /\ taking # NoSample => taking'.up = taking.up /\ taking'.pps = taking.pps
      /\ uploading' \in BOOLEAN /\ ~(Sending /\ uploading') /\ starts' \in 0..MaxStarts
  <2>1. CASE UploadBegins
    BY <2>1, RequestOK, TraceAssumption DEF UploadBegins, TypeOK
  <2>2. CASE UploadEnds
    BY <2>2 DEF UploadEnds, TypeOK
  <2> QED BY <2>1, <2>2
<1>2. TypeOK'
  BY <1>1 DEF TypeOK, Sending
<1>3. InHand'
  BY <1>1 DEF InHand
<1>4. Ring' /\ RingHoldsNewestRun'
  <2>1. now \in Nat /\ edges \in Nat
    BY TraceAssumption DEF TypeOK
  <2>2. due' \/ taking' # NoSample => now' > now \/ due \/ taking # NoSample
    BY <1>1
  <2> QED BY <1>1, <2>1, <2>2, SameRing
<1> QED BY <1>1, <1>2, <1>3, <1>4 DEF NoSecondWithoutSample, Owed, Sending

LEMMA StepOK == TraceInductive /\ [Next]_vars => TraceInductive'
<1> SUFFICES ASSUME TraceInductive, [Next]_vars PROVE TraceInductive'
  OBVIOUS
<1>1. CASE Pass
  BY <1>1, PassOK
<1>2. CASE MaybeSample
  BY <1>2, LookOK
<1>3. CASE FinishSample
  BY <1>3, FinishOK
<1>4. CASE Start
  BY <1>4, StartOK
<1>5. CASE Stop
  BY <1>5, StopOK
<1>6. CASE Clear
  BY <1>6, ClearOK
<1>7. ASSUME NEW full \in BOOLEAN, Fetch(full) PROVE TraceInductive'
  BY <1>7, FetchStep
<1>8. CASE AskPage
  BY <1>8, AskStep
<1>9. CASE SendChunk
  BY <1>9, SendStep
<1>11. CASE UploadBegins \/ UploadEnds
  BY <1>11, UploadStep
<1>10. CASE UNCHANGED vars
  <2>1. UNCHANGED <<trace, now, second, edges, due, taking, xfer, uploading, client, starts>>
    BY <1>10 DEF vars
  <2>2. Kept' = Kept /\ SeqFirst' = SeqFirst
    BY <2>1 DEF Kept, SampleOf, SeqFirst
  <2> QED BY <2>1, <2>2 DEF TraceInductive, TypeOK, InHand, Ring, RingHoldsNewestRun,
                            NoSecondWithoutSample, Owed, Sending
<1> QED BY <1>1, <1>2, <1>3, <1>4, <1>5, <1>6, <1>7, <1>8, <1>9, <1>10, <1>11 DEF Next

\* While the recording and the fetch are as they were, so is what the fetch got.
LEMMA FetchKept ==
    ASSUME Undisturbed, UNCHANGED <<trace, xfer, client>>, alone' => alone
    PROVE  Undisturbed'
<1>1. Kept' = Kept /\ SeqFirst' = SeqFirst
  BY DEF Kept, SampleOf, SeqFirst
<1> QED BY <1>1 DEF Undisturbed

\* To start or to clear ends a recording that was stopped; the fetch of it does
\* not count any more.
LEMMA FetchDisturbed ==
    ASSUME Undisturbed, UNCHANGED client, trace'.state # trace.state, MCNext
    PROVE  Undisturbed'
<1>1. ~Begins
  BY DEF Begins
<1>2. alone' => alone /\ ~Disturbs
  BY <1>1 DEF MCNext
<1>3. trace.state = "REC" \/ Disturbs
  BY DEF Disturbs
<1> QED BY <1>2, <1>3 DEF Undisturbed

\* The numbers of the recording, and what a fetch has.
LEMMA Counts ==
    ASSUME TypeOK
    PROVE  /\ SeqFirst \in Nat /\ trace.count \in Nat /\ trace.nextSeq \in Nat
           /\ trace.nextSeq = SeqFirst + trace.count
           /\ client.rows \in Seq(SampleRecord) /\ Len(client.rows) \in Nat
           /\ xfer.next \in Nat /\ xfer.left \in Nat
<1>1. client.rows \in Seq(SampleRecord) /\ xfer.next \in Nat /\ xfer.left \in Nat
  BY DEF TypeOK, ClientRecord
<1>2. /\ trace.count \in Nat /\ trace.nextSeq \in Nat /\ trace.dropped \in Nat
      /\ trace.nextSeq = trace.count + trace.dropped
  BY TraceAssumption DEF TypeOK, TraceRecord
<1> QED BY <1>1, <1>2, KeptAt

LEMMA FetchAsk ==
    ASSUME TraceInductive, Undisturbed, AskPage, alone' => alone PROVE Undisturbed'
<1>1. /\ UNCHANGED trace /\ client.at = "paging"
      /\ client'.from = client.from /\ client'.end = client.end /\ client'.rows = client.rows
      /\ \/ client'.at = "failed" /\ trace.state # "STOP"
         \/ /\ client'.at = "done"
            /\ trace.nextSeq <= client.from + Len(client.rows) \/ trace.count = 0
         \/ /\ client'.at = "reading"
            /\ SeqFirst <= client.from => xfer'.next = client.from + Len(client.rows)
            /\ xfer'.left <= trace.nextSeq - xfer'.next
  BY AskStep
<1>2. Kept' = Kept /\ SeqFirst' = SeqFirst
  BY <1>1 DEF Kept, SampleOf, SeqFirst
<1>3. /\ SeqFirst \in Nat /\ trace.count \in Nat /\ trace.nextSeq = SeqFirst + trace.count
      /\ client.rows \in Seq(SampleRecord) /\ Len(client.rows) \in Nat
  BY Counts DEF TraceInductive
<1> SUFFICES ASSUME alone PROVE Undisturbed'
  BY DEF Undisturbed
<1>4. /\ trace.state = "STOP" /\ trace.count > 0
      /\ client.from = SeqFirst /\ client.end = trace.nextSeq
      /\ Len(client.rows) <= trace.count
      /\ \A i \in 1..Len(client.rows) : client.rows[i] = Kept[i]
  BY <1>1 DEF Undisturbed
<1>5. client'.at \in {"done", "reading"}
  BY <1>1, <1>4
<1>6. client'.at = "done" => Len(client.rows) = trace.count
  BY <1>1, <1>3, <1>4
<1>7. client'.at = "reading" => /\ xfer'.next = client.from + Len(client.rows)
                                /\ xfer'.left <= trace.nextSeq - xfer'.next
  BY <1>1, <1>3, <1>4
<1> QED BY <1>1, <1>2, <1>4, <1>5, <1>6, <1>7 DEF Undisturbed

LEMMA Concat ==
    ASSUME NEW S, NEW r \in Seq(S), NEW c \in Seq(S)
    PROVE  /\ Len(r) \in Nat /\ Len(c) \in Nat /\ Len(r \o c) = Len(r) + Len(c)
           /\ \A i \in 1..Len(r) : (r \o c)[i] = r[i]
           /\ \A i \in 1..Len(c) : (r \o c)[Len(r) + i] = c[i]
OBVIOUS

LEMMA FetchSend ==
    ASSUME TraceInductive, Undisturbed, SendChunk, alone' => alone PROVE Undisturbed'
<1>1. /\ UNCHANGED trace /\ client.at = "reading"
      /\ client'.from = client.from /\ client'.end = client.end
  BY SendStep
<1>2. PICK chunk \in Seq(SampleRecord), want \in Nat :
        /\ chunk = Read(xfer.next, want)
        /\ client'.rows = client.rows \o chunk
        /\ Len(chunk) <= want /\ want <= xfer.left
        /\ \/ Len(chunk) < want
           \/ /\ Len(chunk) = xfer.left
              /\ client'.at = IF \/ client.from + Len(client'.rows) >= client.end
                                 \/ client.from + Len(client'.rows) >= trace.nextSeq
                              THEN "done" ELSE "paging"
           \/ /\ client'.at = "reading" /\ xfer'.next = xfer.next + Len(chunk)
              /\ xfer'.left = xfer.left - Len(chunk)
  BY SendStep
<1>3. Kept' = Kept /\ SeqFirst' = SeqFirst
  BY <1>1 DEF Kept, SampleOf, SeqFirst
<1>4. /\ SeqFirst \in Nat /\ trace.count \in Nat /\ trace.nextSeq = SeqFirst + trace.count
      /\ trace.nextSeq \in Nat /\ client.rows \in Seq(SampleRecord)
      /\ xfer.next \in Nat /\ xfer.left \in Nat /\ Ring /\ TypeOK
  BY Counts DEF TraceInductive
<1> DEFINE had == Len(client.rows)
           has == Len(client'.rows)
<1>5. /\ had \in Nat /\ Len(chunk) \in Nat /\ has = had + Len(chunk)
      /\ \A i \in 1..had : client'.rows[i] = client.rows[i]
      /\ \A i \in 1..Len(chunk) : client'.rows[had + i] = chunk[i]
  <2>1. client'.rows = client.rows \o chunk
    BY <1>2
  <2> QED BY <1>4, <2>1, Concat
<1> SUFFICES ASSUME alone PROVE Undisturbed'
  BY DEF Undisturbed
<1>6. /\ trace.state = "STOP" /\ trace.count > 0
      /\ client.from = SeqFirst /\ client.end = trace.nextSeq
      /\ had <= trace.count
      /\ \A i \in 1..had : client.rows[i] = Kept[i]
      /\ xfer.next = client.from + had
      /\ xfer.left <= trace.nextSeq - xfer.next
  BY <1>1 DEF Undisturbed
<1> HIDE DEF had, has
<1>7. SeqFirst <= xfer.next /\ want <= trace.nextSeq - xfer.next /\ xfer.next - SeqFirst = had
  BY <1>2, <1>4, <1>5, <1>6
<1>8. /\ Len(chunk) = want
      /\ \A i \in 1..want : chunk[i] = Kept[(xfer.next - SeqFirst) + i]
  <2>1. chunk = Read(xfer.next, want) /\ want \in Nat
    BY <1>2
  <2>2. /\ trace.state = "STOP" /\ trace.count > 0 /\ SeqFirst <= xfer.next
        /\ want <= trace.nextSeq - xfer.next /\ xfer.next \in Nat /\ Ring /\ TypeOK
    BY <1>4, <1>6, <1>7
  <2>3. Len(chunk) = want
    BY <2>1, <2>2, ReadOK
  <2>4. ASSUME NEW i \in 1..want PROVE chunk[i] = Kept[(xfer.next - SeqFirst) + i]
    BY <2>1, <2>2, ReadOK
  <2> QED BY <2>3, <2>4
<1>9. has = had + want /\ has <= trace.count
  BY <1>2, <1>4, <1>5, <1>6, <1>7, <1>8, SMTT(30)
<1>10. \A i \in 1..has : client'.rows[i] = Kept[i]
  <2> SUFFICES ASSUME NEW i \in 1..has PROVE client'.rows[i] = Kept[i]
    OBVIOUS
  <2>1. CASE i \in 1..had
    BY <1>5, <1>6, <2>1
  <2>2. CASE i \notin 1..had
    <3> DEFINE k == i - had
    <3>1. k \in 1..want /\ had + k = i
      BY <1>5, <1>9, <2>2
    <3> HIDE DEF k
    <3>2. client'.rows[had + k] = chunk[k] /\ chunk[k] = Kept[had + k]
      BY <1>5, <1>7, <1>8, <3>1
    <3> QED BY <3>1, <3>2
  <2> QED BY <2>1, <2>2
<1>11. \/ /\ want = xfer.left
          /\ client'.at = IF client.from + has >= client.end \/ client.from + has >= trace.nextSeq
                          THEN "done" ELSE "paging"
       \/ client'.at = "reading" /\ xfer'.next = xfer.next + want /\ xfer'.left = xfer.left - want
  <2>1. ~(Len(chunk) < want)
    BY <1>5, <1>8
  <2> QED BY <1>2, <1>8, <2>1 DEF has
<1>12. client'.at \in {"done", "paging", "reading"}
  BY <1>11
<1>13. client'.at = "done" => has = trace.count
  BY <1>4, <1>5, <1>6, <1>9, <1>11
<1>14. client'.at = "reading" => /\ xfer'.next = client.from + has
                                 /\ xfer'.left <= trace.nextSeq - xfer'.next
  <2>1. /\ client.from = SeqFirst /\ xfer.next = client.from + had
        /\ xfer.left <= trace.nextSeq - xfer.next /\ want \in Nat
    BY <1>2, <1>6
  <2>2. had \in Nat /\ SeqFirst \in Nat /\ xfer.left \in Nat /\ trace.nextSeq \in Nat
    BY <1>4, <1>5
  <2>3. client'.at = "reading" => xfer'.next = xfer.next + want /\ xfer'.left = xfer.left - want
    BY <1>11
  <2> QED BY <1>9, <2>1, <2>2, <2>3
<1> QED BY <1>1, <1>3, <1>6, <1>9, <1>10, <1>12, <1>13, <1>14 DEF Undisturbed, has

LEMMA FetchBegun ==
    ASSUME TraceInductive, NEW full \in BOOLEAN, Fetch(full) PROVE Undisturbed'
<1>1. /\ UNCHANGED trace /\ client'.at \in {"paging", "reading"}
      /\ trace.state = "STOP" /\ trace.count > 0
      /\ client'.from = SeqFirst /\ client'.end = trace.nextSeq /\ client'.rows = <<>>
      /\ client'.at = "reading" => /\ xfer'.next = SeqFirst
                                   /\ xfer'.left <= trace.nextSeq - xfer'.next
  BY FetchStep
<1>2. Kept' = Kept /\ SeqFirst' = SeqFirst
  BY <1>1 DEF Kept, SampleOf, SeqFirst
<1>3. SeqFirst \in Nat /\ trace.count \in Nat /\ Len(client'.rows) = 0
  BY <1>1, KeptAt, TraceAssumption DEF TraceInductive, TypeOK, TraceRecord
<1> QED BY <1>1, <1>2, <1>3 DEF Undisturbed

LEMMA FetchOK == FetchInductive /\ [MCNext]_mcvars => FetchInductive'
<1> SUFFICES ASSUME FetchInductive, [MCNext]_mcvars PROVE FetchInductive'
  OBVIOUS
<1>1. TraceInductive /\ Undisturbed /\ alone \in BOOLEAN
  BY DEF FetchInductive
<1>2. CASE UNCHANGED mcvars
  <2>1. UNCHANGED <<trace, now, second, edges, due, taking, xfer, uploading, client, starts, alone>>
    BY <1>2 DEF mcvars
  <2>2. UNCHANGED vars
    BY <2>1 DEF vars
  <2>3. TraceInductive'
    BY <1>1, <2>2, StepOK
  <2> QED BY <1>1, <2>1, <2>3, FetchKept DEF FetchInductive
<1>3. CASE MCNext
  <2>1. TraceInductive'
    BY <1>1, <1>3, StepOK DEF MCNext
  <2>2. alone' \in BOOLEAN
    BY <1>1, <1>3 DEF MCNext
  <2>3. client.at = "paging" \/ client.at = "reading" \/ UNCHANGED client => (alone' => alone)
    BY <1>3 DEF MCNext, Begins
  <2>4. ASSUME Pass \/ MaybeSample \/ UploadBegins \/ UploadEnds PROVE Undisturbed'
    <3>1. UNCHANGED <<trace, xfer, client>>
      BY <2>4 DEF Pass, MaybeSample, UploadBegins, UploadEnds
    <3>2. alone' => alone
      BY <2>3, <3>1
    <3> QED BY <1>1, <3>1, <3>2, FetchKept
  <2>5. ASSUME FinishSample \/ Stop PROVE Undisturbed'
    <3>1. UNCHANGED <<xfer, client>> /\ (trace.state # "REC" => UNCHANGED trace)
      BY <2>5 DEF FinishSample, Taken, Stop
    <3>2. alone' => alone
      BY <2>3, <3>1
    <3>3. CASE trace.state = "REC"
      BY <1>1, <3>1, <3>2, <3>3 DEF Undisturbed
    <3> QED BY <1>1, <3>1, <3>2, <3>3, FetchKept
  <2>6. ASSUME Start \/ Clear PROVE Undisturbed'
    <3>1. UNCHANGED <<xfer, client>> /\ trace.state # "REC" /\ trace' \in {Fresh, Freed}
      BY <2>6 DEF Start, Clear
    <3>2. Fresh.state = "REC" /\ Freed.state = "IDLE"
      BY <1>1, FreshType, FreedType DEF TraceInductive
    <3>3. alone' => alone
      BY <2>3, <3>1
    <3>4. CASE trace.state = "STOP"
      BY <1>1, <1>3, <3>1, <3>2, <3>4, FetchDisturbed
    <3>5. CASE trace.state # "STOP"
      BY <1>1, <3>1, <3>3, <3>5 DEF Undisturbed
    <3> QED BY <3>4, <3>5
  <2>7. ASSUME NEW full \in BOOLEAN, Fetch(full) PROVE Undisturbed'
    BY <1>1, <2>7, FetchBegun
  <2>8. ASSUME AskPage PROVE Undisturbed'
    <3>1. alone' => alone
      BY <1>1, <2>3, <2>8, AskStep
    <3> QED BY <1>1, <2>8, <3>1, FetchAsk
  <2>9. ASSUME SendChunk PROVE Undisturbed'
    <3>1. alone' => alone
      BY <1>1, <2>3, <2>9, SendStep
    <3> QED BY <1>1, <2>9, <3>1, FetchSend
  <2>10. Undisturbed'
    BY <1>3, <2>4, <2>5, <2>6, <2>7, <2>8, <2>9 DEF MCNext, Next
  <2> QED BY <2>1, <2>2, <2>10 DEF FetchInductive
<1> QED BY <1>2, <1>3

-----------------------------------------------------------------------------
(* One or two samples of each second.  Two samples may be close together, a *)
(* pulse after a second without one; a third would need another pulse, or a *)
(* second after the second.  Marks says of each sample how many pulses have *)
(* come since, in terms of the seconds that have gone by since.             *)

\* The second that is counted is the one the time is in, or has just left.
Counted ==
    /\ second * Second <= now /\ now <= (second + 1) * Second
    /\ due \/ taking # NoSample => now > 0

Marks ==
    \A i \in 1..trace.count :
      Kept[i].up > 0 /\ Kept[i].up <= ((second - edges) + Kept[i].pps + 1) * Second

\* What the look compares with is the newest sample.
Newest ==
    trace.state = "REC" /\ trace.count > 0 =>
      trace.lastSampleMs = Kept[trace.count].up /\ trace.lastPps = Kept[trace.count].pps

\* Why the sample in hand was taken.
Wanted ==
    taking # NoSample /\ trace.state = "REC" /\ trace.count > 0 =>
      edges # trace.lastPps \/ now - trace.lastSampleMs >= Second

\* A sample is of a new pulse, or a second after the one before it.
Pairs ==
    \A i \in 1..(trace.count - 1) :
      Kept[i + 1].pps > Kept[i].pps \/ Kept[i + 1].up - Kept[i].up >= Second

Cadence ==
    TraceInductive /\ Counted /\ Marks /\ Newest /\ Wanted /\ Pairs /\ OneOrTwoEachSecond

LEMMA TimesMonotone ==
    ASSUME NEW a \in Int, NEW b \in Int, a <= b, NEW c \in Nat PROVE a * c <= b * c
<1>1. PICK k \in Nat : b = a + k
  <2>1. b - a \in Nat /\ b = a + (b - a)
    OBVIOUS
  <2> QED BY <2>1
<1>2. b * c = a * c + k * c /\ k * c \in Nat /\ a * c \in Int
  BY <1>1
<1> QED BY <1>2

LEMMA DivBounds ==
    ASSUME NEW t \in Nat, NEW c \in Nat \ {0}
    PROVE  t \div c \in Nat /\ (t \div c) * c <= t /\ t < (t \div c) * c + c
<1>1. t = c * (t \div c) + (t % c) /\ t % c \in 0..(c - 1) /\ t \div c \in Nat
  OBVIOUS
<1> QED BY <1>1

\* The second of a moment, by either way to divide.
LEMMA SecondOf ==
    ASSUME NEW t \in Nat \ {0}, NEW c \in Nat \ {0},
           NEW s, s = t \div c \/ s = (t - 1) \div c
    PROVE  s \in Nat /\ s * c <= t /\ t <= (s + 1) * c
<1>1. /\ t \div c \in Nat /\ (t \div c) * c <= t /\ t < (t \div c) * c + c
  BY DivBounds
<1>2. /\ (t - 1) \div c \in Nat /\ ((t - 1) \div c) * c <= t - 1
      /\ t - 1 < ((t - 1) \div c) * c + c
  <2>1. t - 1 \in Nat
    OBVIOUS
  <2> QED BY <2>1, DivBounds
<1>3. s \in Nat /\ s * c \in Nat /\ (s + 1) * c = s * c + c
  BY <1>1, <1>2
<1> QED BY <1>1, <1>2, <1>3

\* Numbers of a sample.
LEMMA SampleNumbers ==
    ASSUME TraceInductive
    PROVE  /\ now \in Nat /\ second \in Nat /\ edges \in 0..second /\ trace.count \in Nat
           /\ Second \in Nat \ {0} /\ LongestStep \in Nat /\ trace.lastSampleMs \in Nat
           /\ \A i \in 1..trace.count :
                /\ Kept[i].up \in Nat /\ Kept[i].pps \in Nat /\ Kept[i].up <= now
                /\ Kept[i].pps <= edges
                /\ due \/ taking # NoSample => Kept[i].up < now
BY TraceAssumption DEF TraceInductive, TypeOK, TraceRecord, Ring, SampleRecord

\* Steps that leave the samples, the time and the sample in hand alone, but for
\* the request that it meets, or that stop the recording.
LEMMA CadenceKept ==
    ASSUME Cadence, TraceInductive', UNCHANGED <<now, second, edges, due>>,
           Kept' = Kept, trace'.count = trace.count,
           trace'.lastSampleMs = trace.lastSampleMs, trace'.lastPps = trace.lastPps,
           trace'.state = "REC" => trace.state = "REC",
           taking' # NoSample => taking # NoSample,
           missed' = missed
    PROVE  Cadence'
BY DEF Cadence, Counted, Marks, Newest, Wanted, Pairs, OneOrTwoEachSecond, Watched

\* A recording without a sample has nothing to be said of.
LEMMA CadenceEmpty ==
    ASSUME TraceInductive', Counted', trace'.count = 0
    PROVE  Cadence'
BY DEF Cadence, Marks, Newest, Wanted, Pairs, OneOrTwoEachSecond

LEMMA CadencePass == ASSUME Cadence, MCNext, Pass PROVE Cadence'
<1> USE DEF Cadence
<1>1. PICK d \in Steps, on \in Streams :
        /\ now' = now + d
        /\ \E s \in { (now + d) \div Second, (now + d - 1) \div Second } :
             /\ s >= second
             /\ second' = s
             /\ edges' = IF on THEN edges + (s - second) ELSE edges
  BY DEF Pass
<1>2. /\ UNCHANGED <<trace, taking>> /\ taking = NoSample /\ due' = TRUE
      /\ Kept' = Kept
  BY DEF Pass, Kept, SampleOf, SeqFirst
<1>3. d \in Nat \ {0} /\ d <= LongestStep
  BY TraceAssumption
<1>4. TraceInductive'
  BY PassOK
<1>5. now' = now + d /\ now' > now /\ now' \in Nat \ {0}
  BY <1>1, <1>3, SampleNumbers
<1>6. /\ second' \in Nat /\ second' * Second <= now' /\ now' <= (second' + 1) * Second
      /\ second' >= second
      /\ edges' >= edges /\ edges' - edges <= second' - second /\ edges' \in Nat
  <2>1. PICK s \in { (now + d) \div Second, (now + d - 1) \div Second } :
             /\ s >= second
             /\ second' = s
             /\ edges' = IF on THEN edges + (s - second) ELSE edges
    BY <1>1
  <2>2. s \in Nat /\ s * Second <= now + d /\ now + d <= (s + 1) * Second
    <3> DEFINE t == now + d
    <3>1. t \in Nat \ {0} /\ Second \in Nat \ {0}
      BY <1>5, SampleNumbers
    <3>2. s = t \div Second \/ s = (t - 1) \div Second
      <4>1. now \in Int /\ d \in Int /\ (now + d) - 1 = now + d - 1
        BY <1>3, SampleNumbers
      <4> QED BY <2>1, <4>1
    <3> HIDE DEF t
    <3>3. s \in Nat /\ s * Second <= t /\ t <= (s + 1) * Second
      BY <3>1, <3>2, SecondOf
    <3> QED BY <3>3 DEF t
  <2>3. edges' >= edges /\ edges' - edges <= s - second /\ edges' \in Nat
    BY <2>1, <2>2, SampleNumbers
  <2> QED BY <1>5, <2>1, <2>2, <2>3
<1>7. Counted'
  BY <1>5, <1>6 DEF Counted
<1>8. Marks'
  <2> SUFFICES ASSUME NEW i \in 1..trace.count
               PROVE  /\ Kept[i].up > 0
                      /\ Kept[i].up <= ((second' - edges') + Kept[i].pps + 1) * Second
    BY <1>2 DEF Marks
  <2>1. /\ Kept[i].up > 0 /\ Kept[i].up \in Nat /\ Kept[i].pps \in Nat
        /\ Kept[i].up <= ((second - edges) + Kept[i].pps + 1) * Second
    BY SampleNumbers DEF Marks
  <2> DEFINE old == (second - edges) + Kept[i].pps + 1
             new == (second' - edges') + Kept[i].pps + 1
  <2>2. old \in Int /\ new \in Int /\ old <= new
    BY <1>6, <2>1, SampleNumbers
  <2> HIDE DEF old, new
  <2>3. old * Second <= new * Second /\ old * Second \in Int /\ new * Second \in Int
    BY <2>2, TimesMonotone, SampleNumbers
  <2>4. Kept[i].up <= old * Second
    BY <2>1 DEF old
  <2>5. Kept[i].up <= new * Second
    BY <2>1, <2>3, <2>4
  <2> QED BY <2>1, <2>5 DEF new
<1>9. Newest' /\ Wanted' /\ Pairs'
  BY <1>2 DEF Newest, Wanted, Pairs
<1>10. missed \subseteq missed' \/ trace.count = 0
  BY <1>2 DEF MCNext
<1>11. trace.state = "REC" /\ due /\ trace.count # 0 => now \in missed'
  BY <1>2, <1>5, SampleNumbers DEF MCNext, LeftOut
<1>12. OneOrTwoEachSecond'
  <2>1. ASSUME NEW i \in 1..(trace.count - 1), Watched(Kept[i].up, Kept[i + 1].up)'
        PROVE  Kept[i + 1].up - Kept[i].up < Second + LongestStep
    <3>1. trace.count # 0
      BY <2>1, SampleNumbers
    <3>2. Watched(Kept[i].up, Kept[i + 1].up)
      BY <1>2, <1>10, <2>1, <3>1 DEF Watched
    <3> QED BY <2>1, <3>2 DEF OneOrTwoEachSecond
  <2>2. ASSUME trace.state = "REC", trace.count > 0, Watched(Kept[trace.count].up, now)'
        PROVE  now' - Kept[trace.count].up < Second + LongestStep
    <3>1. /\ trace.count \in 1..trace.count /\ trace.count # 0
          /\ Kept[trace.count].up \in Nat
          /\ due => Kept[trace.count].up < now
      BY <2>2, SampleNumbers
    <3>2. ~due
      BY <1>2, <1>5, <1>11, <2>2, <3>1 DEF Watched
    <3>3. now - Kept[trace.count].up < Second
      BY <1>2, <2>2, <3>2 DEF TraceInductive, NoSecondWithoutSample, Newest
    <3> QED BY <1>3, <1>5, <3>1, <3>3, SampleNumbers
  <2> QED BY <1>2, <2>1, <2>2 DEF OneOrTwoEachSecond
<1> QED BY <1>4, <1>7, <1>8, <1>9, <1>12

\* The look, and why it takes a sample.
LEMMA CadenceLook == ASSUME Cadence, MCNext, MaybeSample PROVE Cadence'
<1> USE DEF Cadence
<1>1. /\ due /\ UNCHANGED <<trace, now, second, edges>>
      /\ taking' # NoSample => Wants
      /\ Kept' = Kept
  BY DEF MaybeSample, Kept, SampleOf, SeqFirst
<1>2. TraceInductive'
  BY LookOK
<1>3. Counted'
  BY <1>1, SampleNumbers DEF Counted
<1>4. Wanted'
  <2> SUFFICES ASSUME taking' # NoSample, trace.state = "REC", trace.count > 0
               PROVE  edges # trace.lastPps \/ now - trace.lastSampleMs >= Second
    BY <1>1 DEF Wanted
  <2>1. trace.lastSampleMs # 0
    BY SampleNumbers DEF Newest, Marks
  <2> QED BY <1>1, <2>1 DEF Wants
<1>5. missed' = missed \/ trace.count = 0
  BY <1>1, SampleNumbers DEF MCNext, LeftOut
<1>6. OneOrTwoEachSecond'
  BY <1>1, <1>5, SampleNumbers DEF OneOrTwoEachSecond, Watched
<1> QED BY <1>1, <1>2, <1>3, <1>4, <1>6 DEF Marks, Newest, Pairs

\* The sample in hand is a third only after a second.
LEMMA CadenceFinish ==
    ASSUME Cadence, MCNext, FinishSample, trace.state = "REC" PROVE Cadence'
<1> USE DEF Cadence
<1> DEFINE n == trace'.count
           off == trace'.dropped - trace.dropped
           c == trace.count
<1>1. /\ trace'.state = "REC" /\ trace'.lastSampleMs = now /\ trace'.lastPps = edges
      /\ n \in Nat \ {0} /\ off \in Int
      /\ Kept'[n] = [ seq |-> trace.nextSeq, up |-> now, pps |-> edges ]
      /\ (n - 1) + off = c
      /\ \A i \in 1..(n - 1) : i + off \in 1..c /\ Kept'[i] = Kept[i + off]
  BY Finished
<1>2. /\ taking # NoSample /\ taking' = NoSample /\ UNCHANGED <<now, second, edges, due>>
  BY DEF FinishSample
<1>3. TraceInductive'
  BY FinishOK
<1>4. Kept'[n].up = now /\ Kept'[n].pps = edges
  BY <1>1
<1>5. missed' = missed
  BY <1>1, <1>2 DEF MCNext, LeftOut
<1> HIDE DEF n, off, c
<1>6. /\ now \in Nat /\ second \in Nat /\ edges \in 0..second /\ c \in Nat
      /\ Second \in Nat \ {0} /\ LongestStep \in Nat /\ now > 0
      /\ \A i \in 1..c :
           /\ Kept[i].up \in Nat /\ Kept[i].pps \in Nat /\ Kept[i].up < now
           /\ Kept[i].pps <= edges
  BY <1>2, SampleNumbers DEF Counted, c
<1>7. Counted'
  BY <1>2 DEF Counted
<1>8. Marks'
  <2>1. now <= ((second - edges) + edges + 1) * Second
    <3>1. (second - edges) + edges + 1 = second + 1
      BY <1>6
    <3> QED BY <3>1 DEF Counted
  <2>2. \A i \in 1..c :
          Kept[i].up > 0 /\ Kept[i].up <= ((second - edges) + Kept[i].pps + 1) * Second
    BY DEF Marks, c
  <2>3. \A i \in 1..n : i = n \/ i \in 1..(n - 1)
    BY <1>1
  <2>4. \A i \in 1..n :
          Kept'[i].up > 0 /\ Kept'[i].up <= ((second - edges) + Kept'[i].pps + 1) * Second
    BY <1>1, <1>4, <1>6, <2>1, <2>2, <2>3
  <2> QED BY <1>2, <2>4 DEF Marks, n
<1>9. Newest' /\ Wanted'
  BY <1>1, <1>2, <1>4 DEF Newest, Wanted, n
\* The newest of before, when there is one.
<1>10. n > 1 => /\ c > 0 /\ c \in 1..c /\ Kept'[n - 1] = Kept[c]
                /\ \/ edges > Kept[c].pps
                   \/ now - Kept[c].up >= Second
  <2> SUFFICES ASSUME n > 1
               PROVE  /\ c > 0 /\ c \in 1..c /\ Kept'[n - 1] = Kept[c]
                      /\ edges > Kept[c].pps \/ now - Kept[c].up >= Second
    OBVIOUS
  <2>1. n - 1 \in 1..(n - 1)
    BY <1>1
  <2>2. c \in 1..c /\ Kept'[n - 1] = Kept[c]
    BY <1>1, <2>1
  <2>3. c > 0
    BY <1>6, <2>2
  <2>4. edges # Kept[c].pps \/ now - Kept[c].up >= Second
    BY <1>2, <2>3 DEF Wanted, Newest, c
  <2> QED BY <1>6, <2>2, <2>3, <2>4
<1>11. Pairs'
  <2> SUFFICES ASSUME NEW i \in 1..(n - 1)
               PROVE  Kept'[i + 1].pps > Kept'[i].pps \/ Kept'[i + 1].up - Kept'[i].up >= Second
    BY DEF Pairs, n
  <2>1. CASE i = n - 1
    <3>1. i + 1 = n /\ n > 1
      BY <1>1, <2>1
    <3> QED BY <1>4, <1>10, <2>1, <3>1
  <2>2. CASE i # n - 1
    <3>1. i + 1 \in 1..(n - 1) /\ (i + 1) + off = (i + off) + 1
      BY <1>1, <2>2
    <3>2. i + off \in 1..c /\ (i + off) + 1 \in 1..c
      BY <1>1, <3>1
    <3>3. i + off \in 1..(c - 1)
      BY <1>6, <3>2
    <3> QED BY <1>1, <3>1, <3>3 DEF Pairs, c
  <2> QED BY <2>1, <2>2
<1>12. ASSUME NEW i \in 1..(n - 2) PROVE Kept'[i + 2].up - Kept'[i].up >= Second
  <2>1. i \in 1..(n - 1) /\ i + off \in 1..c /\ Kept'[i] = Kept[i + off]
    BY <1>1
  <2>2. CASE i = n - 2
    <3>1. i + 2 = n /\ n > 1 /\ i + off = c - 1
      BY <1>1, <2>2
    <3>2. c - 1 \in 1..(c - 1) /\ c - 1 \in 1..c /\ (c - 1) + 1 = c
      BY <1>6, <2>1, <3>1
    <3>3. Kept[c].pps > Kept[c - 1].pps \/ Kept[c].up - Kept[c - 1].up >= Second
      BY <3>2 DEF Pairs, c
    <3>4. /\ Kept[c].up < now /\ Kept[c].up \in Nat /\ Kept[c - 1].up \in Nat
          /\ Kept[c].pps \in Nat /\ Kept[c - 1].pps \in Nat
          /\ Kept[c - 1].up < Kept[c].up
      <4>1. Kept[c].up > Kept[c - 1].up
        BY <1>10, <3>1, <3>2, <1>6 DEF TraceInductive, RingHoldsNewestRun, c
      <4> QED BY <1>6, <1>10, <3>1, <3>2, <4>1
    <3>5. now - Kept[c - 1].up >= Second
      <4>1. CASE now - Kept[c].up >= Second \/ Kept[c].up - Kept[c - 1].up >= Second
        BY <1>6, <3>4, <4>1
      <4>2. CASE edges > Kept[c].pps /\ Kept[c].pps > Kept[c - 1].pps
        <5> DEFINE k == (second - edges) + Kept[c - 1].pps + 1
        <5>1. k \in Int /\ k <= second - 1
          BY <1>6, <3>4, <4>2
        <5>2. Kept[c - 1].up <= k * Second
          BY <3>2 DEF Marks, c
        <5> HIDE DEF k
        <5>3. k * Second <= (second - 1) * Second /\ k * Second \in Int
          BY <1>6, <5>1, TimesMonotone
        <5>4. (second - 1) * Second = second * Second - Second /\ second * Second \in Int
          BY <1>6
        <5>5. second * Second <= now
          BY DEF Counted
        <5> QED BY <1>6, <3>4, <5>2, <5>3, <5>4, <5>5
      <4> QED BY <1>10, <3>1, <3>3, <4>1, <4>2
    <3> QED BY <1>4, <2>1, <3>1, <3>5
  <2>3. CASE i # n - 2
    <3>1. i + 2 \in 1..(n - 1) /\ (i + 2) + off = (i + off) + 2
      BY <1>1, <2>3
    <3>2. (i + off) + 2 \in 1..c /\ Kept'[i + 2] = Kept[(i + off) + 2]
      BY <1>1, <3>1
    <3>3. i + off \in 1..(c - 2)
      BY <1>6, <2>1, <3>2
    <3> QED BY <2>1, <3>2, <3>3 DEF OneOrTwoEachSecond, c
  <2> QED BY <2>2, <2>3
<1>13. ASSUME NEW i \in 1..(n - 1), Watched(Kept'[i].up, Kept'[i + 1].up)
       PROVE  Kept'[i + 1].up - Kept'[i].up < Second + LongestStep
  <2>1. CASE i = n - 1
    <3>1. i + 1 = n /\ n > 1
      BY <1>1, <2>1
    <3>2. Kept'[i] = Kept[c] /\ Kept'[i + 1].up = now /\ c > 0
      BY <1>4, <1>10, <2>1, <3>1
    <3> QED BY <1>13, <3>2 DEF OneOrTwoEachSecond, c
  <2>2. CASE i # n - 1
    <3>1. i + 1 \in 1..(n - 1) /\ (i + 1) + off = (i + off) + 1
      BY <1>1, <2>2
    <3>2. i + off \in 1..c /\ (i + off) + 1 \in 1..c
      BY <1>1, <3>1
    <3>3. i + off \in 1..(c - 1)
      BY <1>6, <3>2
    <3>4. Kept'[i] = Kept[i + off] /\ Kept'[i + 1] = Kept[(i + off) + 1]
      BY <1>1, <3>1
    <3> QED BY <1>13, <3>3, <3>4 DEF OneOrTwoEachSecond, c
  <2> QED BY <2>1, <2>2
<1>14. OneOrTwoEachSecond'
  <2>1. now - Kept'[n].up < Second + LongestStep
    BY <1>4, <1>6
  <2> QED BY <1>2, <1>5, <1>12, <1>13, <2>1 DEF OneOrTwoEachSecond, Watched, n
<1> QED BY <1>3, <1>7, <1>8, <1>9, <1>11, <1>14

LEMMA CadenceOK == Cadence /\ [MCNext]_mcvars => Cadence'
<1> SUFFICES ASSUME Cadence, [MCNext]_mcvars PROVE Cadence'
  OBVIOUS
<1>1. TraceInductive
  BY DEF Cadence
<1>2. CASE UNCHANGED mcvars
  <2>1. UNCHANGED <<trace, now, second, edges, due, taking, missed>> /\ UNCHANGED vars
    BY <1>2 DEF mcvars, vars
  <2>2. TraceInductive'
    BY <1>1, <2>1, StepOK
  <2>3. Kept' = Kept
    BY <2>1 DEF Kept, SampleOf, SeqFirst
  <2> QED BY <2>1, <2>2, <2>3, CadenceKept
<1>3. CASE MCNext
  <2>1. TraceInductive' /\ Next
    BY <1>1, <1>3, StepOK DEF MCNext
  <2>2. ASSUME UNCHANGED now, trace'.count # 0 PROVE missed' = missed
    BY <1>3, <2>2 DEF MCNext, LeftOut
  <2>3. ASSUME UNCHANGED <<trace, now, second, edges, due>>, taking' # NoSample => taking # NoSample
        PROVE  Cadence'
    <3>1. Kept' = Kept
      BY <2>3 DEF Kept, SampleOf, SeqFirst
    <3>2. CASE trace'.count = 0
      BY <2>1, <2>3, <3>2, CadenceEmpty DEF Cadence, Counted
    <3>3. CASE trace'.count # 0
      BY <2>1, <2>2, <2>3, <3>1, <3>3, CadenceKept
    <3> QED BY <3>2, <3>3
  <2>4. CASE Pass
    BY <1>3, <2>4, CadencePass
  <2>5. CASE MaybeSample
    BY <1>3, <2>5, CadenceLook
  <2>6. CASE FinishSample
    <3>1. trace.state # "REC" => UNCHANGED trace
      BY <2>6 DEF FinishSample, Taken
    <3>2. UNCHANGED <<now, second, edges, due>> /\ taking' = NoSample
      BY <2>6 DEF FinishSample
    <3> QED BY <1>3, <2>3, <2>6, <3>1, <3>2, CadenceFinish
  <2>7. CASE Start \/ Clear
    <3>1. /\ trace' \in {Fresh, Freed} /\ TakesRequest /\ UNCHANGED <<now, second, edges, due>>
      BY <2>7 DEF Start, Clear
    <3>2. trace'.count = 0
      BY <1>1, <3>1, FreshType, FreedType DEF TraceInductive
    <3>3. taking' # NoSample => taking # NoSample
      BY <1>1, <3>1, RequestOK DEF TraceInductive
    <3>4. Counted'
      BY <3>1, <3>3 DEF Cadence, Counted
    <3> QED BY <2>1, <3>2, <3>4, CadenceEmpty
  <2>8. CASE Stop
    <3>1. /\ TakesRequest /\ trace' = [trace EXCEPT !.state = "STOP"]
          /\ UNCHANGED <<now, second, edges, due>>
      BY <2>8 DEF Stop
    <3>2. /\ trace'.state = "STOP" /\ trace'.buf = trace.buf /\ trace'.head = trace.head
          /\ trace'.count = trace.count /\ trace'.nextSeq = trace.nextSeq
          /\ trace'.lastSampleMs = trace.lastSampleMs /\ trace'.lastPps = trace.lastPps
      BY <1>1, <3>1 DEF TraceInductive, TypeOK, TraceRecord
    <3>3. Kept' = Kept
      BY <3>2 DEF Kept, SampleOf, SeqFirst
    <3>4. taking' # NoSample => taking # NoSample
      BY <1>1, <3>1, RequestOK DEF TraceInductive
    <3>5. CASE trace'.count = 0
      BY <2>1, <3>1, <3>4, <3>5, CadenceEmpty DEF Cadence, Counted
    <3>6. CASE trace'.count # 0
      BY <2>1, <2>2, <3>1, <3>2, <3>3, <3>4, <3>6, CadenceKept
    <3> QED BY <3>5, <3>6
  <2>9. CASE (\E full \in BOOLEAN : Fetch(full)) \/ AskPage \/ UploadBegins
    <3>1. TakesRequest /\ UNCHANGED <<trace, now, second, edges, due>>
      BY <2>9 DEF Fetch, AskPage, UploadBegins
    <3>2. taking' # NoSample => taking # NoSample
      BY <1>1, <3>1, RequestOK DEF TraceInductive
    <3> QED BY <2>3, <3>1, <3>2
  <2>10. CASE SendChunk \/ UploadEnds
    <3>1. UNCHANGED <<trace, now, second, edges, due, taking>>
      BY <2>10 DEF SendChunk, UploadEnds
    <3> QED BY <2>3, <3>1
  <2> QED BY <2>1, <2>4, <2>5, <2>6, <2>7, <2>8, <2>9, <2>10 DEF Next
<1> QED BY <1>2, <1>3

-----------------------------------------------------------------------------
(* The theorems.                                                            *)

LEMMA SpecInductive == Spec => []TraceInductive
BY InitOK, StepOK, PTL DEF Spec

LEMMA FetchSpecInductive == MCSpec => []FetchInductive
<1>1. MCInit => FetchInductive
  <2> SUFFICES ASSUME MCInit PROVE FetchInductive
    OBVIOUS
  <2>1. TraceInductive /\ client.at = "idle"
    BY InitOK DEF MCInit, Init, NoFetch
  <2>2. alone \in BOOLEAN
    BY DEF MCInit
  <2> QED BY <2>1, <2>2 DEF FetchInductive, Undisturbed
<1> QED BY <1>1, FetchOK, PTL DEF MCSpec

\* The recording and the download have their types, what was pushed is kept or
\* counted as dropped, and task-time is shed exactly while something is sent
\* (clock_trace.cpp, pushUnlocked; web_portal.cpp, the download).
THEOREM TraceTypes == Spec => []TypeOK
<1>1. TraceInductive => TypeOK
  BY DEF TraceInductive
<1> QED BY <1>1, SpecInductive, PTL

\* However often the ring has gone round, it holds the newest samples in order,
\* none of them from an earlier recording (clock_trace.cpp, pushUnlocked).
THEOREM TraceRing == Spec => []RingHoldsNewestRun
<1>1. TraceInductive => RingHoldsNewestRun
  BY DEF TraceInductive
<1> QED BY <1>1, SpecInductive, PTL

\* A recording has one or two samples of each second, with pulses, without them
\* and across their loss and return, but for the time of an upload: no three of
\* its samples are within a second, none is more than a second and a loop after
\* the one before it (clock_trace.cpp, clockTraceMaybeSample).
THEOREM TraceSeconds == MCSpec => []OneOrTwoEachSecond
<1>1. MCInit => Cadence
  <2> SUFFICES ASSUME MCInit PROVE Cadence
    OBVIOUS
  <2>1. TraceInductive /\ trace.count = 0
    BY InitOK, FreedType DEF MCInit, Init
  <2>2. Counted
    BY TraceAssumption DEF MCInit, Init, Counted
  <2> QED BY <2>1, <2>2 DEF Cadence, Marks, Newest, Wanted, Pairs, OneOrTwoEachSecond
<1>2. Cadence => OneOrTwoEachSecond
  BY DEF Cadence
<1> QED BY <1>1, <1>2, CadenceOK, PTL DEF MCSpec

\* The second look at the state, with the lock, keeps the sample in hand out of
\* a recording that was stopped meanwhile (clock_trace.cpp, clockTraceMaybeSample).
THEOREM TraceFrozen == Spec => StoppedIsFrozen
<1> DEFINE Frozen == trace.state = "STOP" /\ trace'.state = "STOP" => trace' = trace
<1>1. TraceInductive /\ [Next]_vars => [Frozen]_vars
  <2> SUFFICES ASSUME TraceInductive, Next, trace.state = "STOP", trace'.state = "STOP"
               PROVE  trace' = trace
    BY DEF vars
  <2>1. Fresh.state = "REC" /\ Freed.state = "IDLE"
    BY FreshType, FreedType DEF TraceInductive
  <2> QED BY <2>1 DEF Next, Pass, MaybeSample, FinishSample, Taken, Start, Stop, Clear, Fetch,
                      AskPage, SendChunk, UploadBegins, UploadEnds
<1> QED BY <1>1, SpecInductive, PTL DEF Spec, StoppedIsFrozen

\* Nobody starting or clearing meanwhile, the client gets the whole recording,
\* each sample once and in order, whether it asks for all in one response or for
\* pages (tools/clock_trace_client.py; web_portal.cpp, the download).
THEOREM TraceFetch == MCSpec => []FetchIsWhole
<1>1. FetchInductive => FetchIsWhole
  <2> SUFFICES ASSUME FetchInductive, alone
               PROVE  client.at # "failed" /\ (client.at = "done" => client.rows = Kept)
    BY DEF FetchIsWhole
  <2>1. client.at # "failed"
    BY DEF FetchInductive, Undisturbed
  <2>2. ASSUME client.at = "done" PROVE client.rows = Kept
    <3>1. /\ client.rows \in Seq(SampleRecord) /\ trace.count \in Nat
          /\ Kept = [ i \in 1..trace.count |-> Kept[i] ]
      BY KeptAt, TraceAssumption
         DEF FetchInductive, TraceInductive, TypeOK, ClientRecord, TraceRecord
    <3>2. /\ Len(client.rows) = trace.count
          /\ \A i \in 1..Len(client.rows) : client.rows[i] = Kept[i]
      BY <2>2 DEF FetchInductive, Undisturbed
    <3>3. client.rows = [ i \in 1..Len(client.rows) |-> client.rows[i] ]
      BY <3>1
    <3> QED BY <3>1, <3>2, <3>3
  <2> QED BY <2>1, <2>2
<1> QED BY <1>1, FetchSpecInductive, PTL
=============================================================================
