----------------------------- MODULE ClockTrace -----------------------------
(***************************************************************************)
(* clock_trace.cpp, its handlers in web_portal.cpp and the client of        *)
(* tools/clock_trace_client.py: a ring of samples that task-time records,   *)
(* task-net starts, stops, clears and sends, and a client puts together.    *)
(*                                                                          *)
(* task-time looks at the state and decides to take a sample without the    *)
(* lock, and looks again when it has it.  A download sends the ring chunk by*)
(* chunk; task-time takes no new sample meanwhile, nor during a firmware    *)
(* upload, but finishes the one in its hands.                               *)
(*                                                                          *)
(* Abstracted: of a sample, its sequence number, its time and its pulse     *)
(* count; time is in milliseconds, pulses come every Second.  While a sample*)
(* is in hand task-net answers one request at most: a request takes         *)
(* thousands of times as long.                                              *)
(***************************************************************************)
EXTENDS Integers, Sequences, FiniteSetsExt

CONSTANTS
    CLOCK_TRACE_CAP,     \* samples in the ring
    Chunk,               \* samples read at a time, kChunk
    Page,                \* samples the client asks for at a time
    Second,              \* between two pulses, and between two samples without
    Steps,               \* times between two loops of task-time
    LongestStep,         \* the longest of them
    Streams,             \* what the pulse output may do: TRUE pulses, FALSE none
    AllocOutcomes,       \* what the heap may answer
    MaxTime, MaxStarts   \* bounds: time, and recordings and uploads explored

ASSUME TraceAssumption ==
    /\ CLOCK_TRACE_CAP \in Nat \ {0} /\ Chunk \in Nat \ {0} /\ Page \in Nat \ {0}
    /\ Second \in Nat \ {0} /\ Steps \subseteq Nat \ {0}
    /\ LongestStep \in Nat /\ \A d \in Steps : d <= LongestStep
    /\ Streams \subseteq BOOLEAN /\ AllocOutcomes \subseteq BOOLEAN
    /\ MaxTime \in Nat /\ MaxStarts \in Nat

VARIABLES
    trace,      \* state, buffer, indices and the last sample of the recording
    now,        \* millis
    second,     \* the last second whose pulse, if there was one, is counted
    edges,      \* pulses counted by GpsService
    due,        \* whether task-time has yet to pass maybeSample
    taking,     \* the sample task-time has in its hands
    xfer,       \* the download task-net is sending
    uploading,  \* task-net is receiving a firmware image
    client,     \* what the client has asked for and got
    starts      \* recordings and uploads so far

vars == <<trace, now, second, edges, due, taking, xfer, uploading, client, starts>>

NoPps == -1
NoBuf == <<>>
NoSample == [ up |-> -1, pps |-> 0, met |-> FALSE ]
NoXfer == [ left |-> 0, next |-> 0 ]
NoFetch == [ at |-> "idle", full |-> FALSE, from |-> 0, end |-> 0, owed |-> 0, rows |-> <<>> ]

\* freeBufUnlocked
Freed ==
    [ state |-> "IDLE", buf |-> NoBuf, head |-> 0, count |-> 0, dropped |-> 0,
      nextSeq |-> 0, startedMs |-> 0, lastPps |-> NoPps, lastSampleMs |-> 0 ]

Init ==
    /\ trace = Freed
    /\ now = 0 /\ second = 0 /\ edges = 0
    /\ due = FALSE
    /\ taking = NoSample
    /\ xfer = NoXfer
    /\ uploading = FALSE
    /\ client = NoFetch
    /\ starts = 0

-----------------------------------------------------------------------------
(* The ring.                                                                *)

\* Fault: the oldest sample is overwritten and stays the first.
PushKeepingHead(t, s) ==
    IF t.count < CLOCK_TRACE_CAP
    THEN [t EXCEPT !.buf[(t.head + t.count) % CLOCK_TRACE_CAP] = s,
                   !.count = @ + 1, !.nextSeq = s.seq + 1]
    ELSE [t EXCEPT !.buf[t.head] = s, !.dropped = @ + 1, !.nextSeq = s.seq + 1]

\* Fault: what is lost is not counted.
PushUncounted(t, s) ==
    IF t.count < CLOCK_TRACE_CAP
    THEN [t EXCEPT !.buf[(t.head + t.count) % CLOCK_TRACE_CAP] = s,
                   !.count = @ + 1, !.nextSeq = s.seq + 1]
    ELSE [t EXCEPT !.buf[t.head] = s, !.head = (@ + 1) % CLOCK_TRACE_CAP,
                   !.nextSeq = s.seq + 1]

\* A full ring loses its oldest sample.
Push(t, s) ==
    IF t.count < CLOCK_TRACE_CAP
    THEN [t EXCEPT !.buf[(t.head + t.count) % CLOCK_TRACE_CAP] = s,
                   !.count = @ + 1, !.nextSeq = s.seq + 1]
    ELSE [t EXCEPT !.buf[t.head] = s, !.head = (@ + 1) % CLOCK_TRACE_CAP,
                   !.dropped = @ + 1, !.nextSeq = s.seq + 1]

SeqFirst == trace.nextSeq - trace.count

SampleOf(seq) == trace.buf[(trace.head + (seq - SeqFirst)) % CLOCK_TRACE_CAP]

\* Fault: read as if the ring had not wrapped.
ReadUnwrapped(from, n) ==
    IF trace.state # "STOP" \/ trace.count = 0 THEN <<>>
    ELSE LET first == Max({from, SeqFirst})
             got == Max({0, Min({n, trace.nextSeq - first})})
         IN [ i \in 1..got |-> trace.buf[(first - SeqFirst + i - 1) % CLOCK_TRACE_CAP] ]

\* clockTraceRead: up to n samples, from the first there is.
Read(from, n) ==
    IF trace.state # "STOP" \/ trace.count = 0 THEN <<>>
    ELSE LET first == Max({from, SeqFirst})
             got == Max({0, Min({n, trace.nextSeq - first})})
         IN [ i \in 1..got |-> SampleOf(first + i - 1) ]

-----------------------------------------------------------------------------
(* task-time.                                                               *)

Sending == xfer # NoXfer

\* ipcShedNtp
Shed == Sending \/ uploading

\* Time passes between two loops.  A pulse within the millisecond of the loop
\* may be counted before or after it.
Pass ==
    /\ ~due \/ Shed
    /\ taking = NoSample
    /\ \E d \in Steps, on \in Streams :
         /\ now + d <= MaxTime
         /\ now' = now + d
         /\ \E s \in { (now + d) \div Second, (now + d - 1) \div Second } :
              /\ s >= second
              /\ second' = s
              /\ edges' = IF on THEN edges + (s - second) ELSE edges
    /\ due' = TRUE
    /\ UNCHANGED <<trace, taking, xfer, uploading, client, starts>>

\* Fault: a sample is taken with a new pulse only.
WantsOnPulse == edges # 0 /\ edges # trace.lastPps

\* A new pulse, or a second without one.
Wants ==
    \/ edges # 0 /\ edges # trace.lastPps
    \/ trace.lastSampleMs = 0
    \/ now - trace.lastSampleMs >= Second

\* The first look, without the lock.
MaybeSample ==
    /\ due
    /\ ~Shed
    /\ due' = FALSE
    /\ taking' = IF trace.state = "REC" /\ Wants
                 THEN [ up |-> now, pps |-> edges, met |-> FALSE ]
                 ELSE NoSample
    /\ UNCHANGED <<trace, now, second, edges, xfer, uploading, client, starts>>

\* Fault: the state is not looked at again.
TakenBlindly(t) ==
    IF t.buf = NoBuf THEN t
    ELSE [Push(t, [ seq |-> t.nextSeq, up |-> taking.up, pps |-> taking.pps ])
            EXCEPT !.lastPps = taking.pps, !.lastSampleMs = taking.up]

\* The second look, with it.
Taken(t) ==
    IF t.state # "REC" THEN t
    ELSE [Push(t, [ seq |-> t.nextSeq, up |-> taking.up, pps |-> taking.pps ])
            EXCEPT !.lastPps = taking.pps, !.lastSampleMs = taking.up]

FinishSample ==
    /\ taking # NoSample
    /\ trace' = Taken(trace)
    /\ taking' = NoSample
    /\ UNCHANGED <<now, second, edges, due, xfer, uploading, client, starts>>

-----------------------------------------------------------------------------
(* task-net: one request at a time.                                         *)

TakesRequest ==
    /\ ~Shed
    /\ taking.met = FALSE
    /\ taking' = IF taking = NoSample THEN taking ELSE [taking EXCEPT !.met = TRUE]

Fresh ==
    [Freed EXCEPT !.state = "REC", !.startedMs = now,
                  !.buf = [ i \in 0..(CLOCK_TRACE_CAP - 1) |-> NoSample ]]

\* What a stopped recording holds is freed before the new one has its memory.
Start ==
    /\ TakesRequest
    /\ trace.state # "REC"
    /\ starts < MaxStarts
    /\ starts' = starts + 1
    /\ \E allocated \in AllocOutcomes : trace' = IF allocated THEN Fresh ELSE Freed
    /\ UNCHANGED <<now, second, edges, due, xfer, uploading, client>>

Stop ==
    /\ TakesRequest
    /\ trace.state = "REC"
    /\ trace' = [trace EXCEPT !.state = "STOP"]
    /\ UNCHANGED <<now, second, edges, due, xfer, uploading, client, starts>>

Clear ==
    /\ TakesRequest
    /\ trace.state = "STOP"
    /\ trace' = Freed
    /\ UNCHANGED <<now, second, edges, due, xfer, uploading, client, starts>>

\* An upload holds the web server until it ends; one that fails leaves the
\* recording under way.
UploadBegins ==
    /\ TakesRequest
    /\ starts < MaxStarts
    /\ starts' = starts + 1
    /\ uploading' = TRUE
    /\ UNCHANGED <<trace, now, second, edges, due, xfer, client>>

UploadEnds ==
    /\ uploading
    /\ uploading' = FALSE
    /\ UNCHANGED <<trace, now, second, edges, due, taking, xfer, client, starts>>

\* What is sent of a request for limit samples: none when there is nothing.
Sent(from, limit) ==
    LET first == Max({from, SeqFirst})
        avail == Max({0, trace.nextSeq - first})
    IN [ left |-> Min({avail, limit}), next |-> first ]

-----------------------------------------------------------------------------
(* The client.                                                              *)

\* When a page is complete, its header says where the next one begins, and
\* whether there is one.
Asked(c) ==
    LET next == c.from + Len(c.rows) IN
    [c EXCEPT !.at = IF next >= c.end \/ next >= trace.nextSeq THEN "done" ELSE "paging"]

\* The browser asks for all there is in one request; the tool first asks for
\* the range, and then for pages.
Fetch(full) ==
    /\ client.at \in {"idle", "done", "failed"}
    /\ TakesRequest
    /\ trace.state = "STOP"
    /\ trace.count > 0
    /\ LET all == [ NoFetch EXCEPT !.full = full, !.from = SeqFirst, !.end = trace.nextSeq ]
       IN IF full
          THEN /\ xfer' = Sent(SeqFirst, trace.count)
               /\ client' = [all EXCEPT !.at = "reading", !.owed = trace.count]
          ELSE /\ xfer' = NoXfer
               /\ client' = [all EXCEPT !.at = "paging"]
    /\ UNCHANGED <<trace, now, second, edges, due, uploading, starts>>

\* A page: refused unless stopped, nothing (204) when there is no more, which
\* ends the fetch as well.
AskPage ==
    /\ client.at = "paging"
    /\ TakesRequest
    /\ LET from == client.from + Len(client.rows)
           sent == Sent(from, Page)
       IN IF trace.state # "STOP"
          THEN xfer' = NoXfer /\ client' = [client EXCEPT !.at = "failed"]
          ELSE IF sent.left = 0
          THEN xfer' = NoXfer /\ client' = [client EXCEPT !.at = "done"]
          ELSE xfer' = sent /\ client' = [client EXCEPT !.at = "reading", !.owed = sent.left]
    /\ UNCHANGED <<trace, now, second, edges, due, uploading, starts>>

\* One chunk.  The body ends early when nothing can be read, and the client
\* then fails, since the header promised more.
SendChunk ==
    /\ xfer # NoXfer
    /\ LET want == Min({xfer.left, Chunk})
           chunk == Read(xfer.next, want)
           n == Len(chunk)
           got == [client EXCEPT !.rows = @ \o chunk, !.owed = @ - n]
           ends == n < want \/ n = xfer.left
       IN /\ xfer' = IF ends THEN NoXfer ELSE [ left |-> xfer.left - n, next |-> xfer.next + n ]
          /\ client' = IF ~ends THEN got
                       ELSE IF got.owed > 0 THEN [got EXCEPT !.at = "failed"]
                       ELSE Asked(got)
    /\ UNCHANGED <<trace, now, second, edges, due, taking, uploading, starts>>

Next ==
    \/ Pass \/ MaybeSample \/ FinishSample
    \/ Start \/ Stop \/ Clear
    \/ \E full \in BOOLEAN : Fetch(full)
    \/ AskPage \/ SendChunk
    \/ UploadBegins \/ UploadEnds

Spec == Init /\ [][Next]_vars

-----------------------------------------------------------------------------
(* Properties.                                                              *)

Kept == [ i \in 1..trace.count |-> SampleOf(SeqFirst + i - 1) ]

SampleRecord == [ seq : Nat, up : Nat, pps : Nat ]

Buffer == [ 0..(CLOCK_TRACE_CAP - 1) -> SampleRecord \cup {NoSample} ]

TraceRecord ==
    [ state : {"IDLE", "REC", "STOP"}, buf : Buffer \cup {NoBuf}, head : 0..(CLOCK_TRACE_CAP - 1),
      count : 0..CLOCK_TRACE_CAP, dropped : Nat, nextSeq : Nat, startedMs : Nat,
      lastPps : Nat \cup {NoPps}, lastSampleMs : Nat ]

ClientRecord ==
    [ at : {"idle", "paging", "reading", "done", "failed"}, full : BOOLEAN, from : Nat,
      end : Nat, owed : Nat, rows : Seq(SampleRecord) ]

\* Types; a buffer is there unless idle; what was pushed is kept or counted as
\* dropped; a download is under way exactly while a client reads it.
TypeOK ==
    /\ trace \in TraceRecord
    /\ (trace.state = "IDLE") <=> (trace.buf = NoBuf)
    /\ trace.nextSeq = trace.count + trace.dropped
    /\ now \in 0..MaxTime /\ second \in Nat /\ edges \in 0..second
    /\ due \in BOOLEAN /\ starts \in 0..MaxStarts
    /\ taking \in [ up : 0..now, pps : 0..edges, met : BOOLEAN ] \cup {NoSample}
    /\ xfer \in [ left : Nat, next : Nat ] /\ client \in ClientRecord
    /\ client.at = "reading" <=> Sending
    /\ uploading \in BOOLEAN /\ ~(Sending /\ uploading)

\* The ring always holds the newest samples of the recording under way or
\* stopped last, none twice and none missing, in the order they were taken.
RingHoldsNewestRun ==
    \A i \in 1..trace.count :
      /\ Kept[i].seq = SeqFirst + i - 1
      /\ Kept[i].up >= trace.startedMs
      /\ i > 1 => Kept[i].up > Kept[i - 1].up /\ Kept[i].pps >= Kept[i - 1].pps

\* While a recording is stopped nothing enters it, not even the sample that was
\* in hand when it was stopped.
StoppedIsFrozen ==
    [][ (trace.state = "STOP" /\ trace'.state = "STOP") => trace' = trace ]_vars
=============================================================================
