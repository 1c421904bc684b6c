--------------------------- MODULE PublisherProofs ---------------------------
(***************************************************************************)
(* Proofs about Publisher, for any number of threads, devices, requests    *)
(* and faults.                                                             *)
(***************************************************************************)
EXTENDS Publisher, TLAPS

(***************************************************************************)
(* The inductive invariant.  A thread that goes on to `return _client'     *)
(* finds a client; a thread about to build has not built one before.       *)
(***************************************************************************)
ClientsExist ==
    /\ \A w \in Worker : At(w, "get") => _client # NoClient
    /\ \A w \in Worker : At(w, "build") => w \notin Built
    /\ _client = NoClient => Built = {}

(* Every number in use has been given, and is in one place only: one job,  *)
(* or one place of one queue.                                              *)
Pending(c) == 1..Len(outq[c])
NumbersAsked ==
    /\ \A w \in Worker : job[w] # NoJob => job[w].no <= asked
    /\ \A c \in Built : \A i \in Pending(c) : outq[c][i].no <= asked

NumbersOnce ==
    /\ \A v, w \in Worker :
          job[v] # NoJob /\ job[w] # NoJob /\ job[v].no = job[w].no => v = w
    /\ \A w \in Worker, c \in Built : \A i \in Pending(c) :
          job[w] # NoJob => outq[c][i].no # job[w].no
    /\ \A b, c \in Built : \A i \in Pending(b), j \in Pending(c) :
          outq[b][i].no = outq[c][j].no => b = c /\ i = j

(* What has not been transmitted since it was last put back in the queue   *)
(* has run no more often than it was resent.                               *)
RanBefore(n) == ran[n] <= resent[n]
RanAsSent ==
    /\ \A n \in Number : n > asked => RanBefore(n)
    /\ \A w \in Worker : job[w] # NoJob => RanBefore(job[w].no)
    /\ \A c \in Built : \A i \in sent[c] + 1 .. Len(outq[c]) : RanBefore(outq[c][i].no)

(* A command is not retained, so a device that connects is not given one.  *)
CommandsNotRetained ==
    /\ \A d \in DeviceId : retained[<<d, "cmd">>] = 0
    /\ \A c \in Built : \A i \in Pending(c) : outq[c][i].chan = "cmd" => ~ outq[c][i].retain

IInv == /\ TypeOK /\ ClientsExist /\ NumbersAsked /\ NumbersOnce
        /\ RanAsSent /\ CommandsNotRetained /\ CommandsRunOnce

(* What TypeOK says of one job. *)
LEMMA JobType ==
    ASSUME TypeOK, NEW w \in Worker, job[w] # NoJob
    PROVE  /\ job[w] \in Job /\ job[w].dev \in DeviceId /\ job[w].chan \in {"cmd", "desired"}
           /\ job[w].no \in Number /\ job[w].no \in Nat
           /\ job[w].at \in {"check", "test", "build", "get", "publish"}
           /\ job[w].client \in Worker \cup {NoClient}
           /\ job[w].at = "publish" => job[w].client \in Built
<1>1. job[w] \in Job /\ (job[w].at = "publish" => job[w].client \in Built)
  BY DEF TypeOK
<1>. QED
  BY <1>1, PublisherAssumption DEF Job, Number

(* What TypeOK says of one queue. *)
LEMMA QueueType ==
    ASSUME TypeOK, NEW c \in Built
    PROVE  /\ c \in Worker /\ outq[c] \in Seq(Message) /\ sent[c] \in Nat /\ Len(outq[c]) \in Nat
           /\ sent[c] <= Len(outq[c])
           /\ \A i \in Pending(c) :
                 /\ outq[c][i] \in Message
                 /\ outq[c][i].dev \in DeviceId /\ outq[c][i].chan \in {"cmd", "desired"}
                 /\ outq[c][i].no \in Number /\ outq[c][i].no \in Nat
                 /\ outq[c][i].retain \in BOOLEAN
<1>1. c \in Worker /\ outq[c] \in Seq(Message) /\ sent[c] \in 0..Len(outq[c])
  BY DEF TypeOK
<1>2. \A i \in Pending(c) : outq[c][i] \in Message
  BY <1>1 DEF Pending
<1>. QED
  BY <1>1, <1>2, PublisherAssumption DEF Message, Number

(***************************************************************************)
(* The parts of the invariant that are about numbers and queues.           *)
(***************************************************************************)
Delivery == /\ NumbersAsked /\ NumbersOnce /\ RanAsSent
            /\ CommandsNotRetained /\ CommandsRunOnce

(* While the queues stay, jobs that go on or end disturb none of it. *)
LEMMA JobsGoOn ==
    ASSUME IInv, UNCHANGED <<channel, asked>>,
           \A w \in Worker : job'[w] # NoJob => job[w] # NoJob /\ job'[w].no = job[w].no
    PROVE  Delivery'
<1>1. /\ outq' = outq /\ sent' = sent /\ retained' = retained /\ ran' = ran
      /\ resent' = resent /\ asked' = asked
  BY DEF channel
<1>2. NumbersAsked'
  BY <1>1 DEF IInv, NumbersAsked, Pending, Built
<1>3. NumbersOnce'
  BY <1>1 DEF IInv, NumbersOnce, Pending, Built
<1>4. RanAsSent'
  BY <1>1 DEF IInv, RanAsSent, RanBefore, Built
<1>5. CommandsNotRetained' /\ CommandsRunOnce'
  BY <1>1 DEF IInv, CommandsNotRetained, CommandsRunOnce, Pending, Built
<1>. QED
  BY <1>2, <1>3, <1>4, <1>5 DEF Delivery

(* The initial state. *)
LEMMA InitOK == Init => IInv
<1>. SUFFICES ASSUME Init
              PROVE  IInv
  OBVIOUS
<1>1. Built = {} /\ DOMAIN sent = {} /\ _client = NoClient /\ \A w \in Worker : job[w] = NoJob
  BY DEF Init, Built, NoQueue
<1>2. TypeOK
  BY <1>1, PublisherAssumption DEF Init, TypeOK, Number
<1>3. ClientsExist /\ NumbersAsked /\ NumbersOnce
  BY <1>1 DEF ClientsExist, NumbersAsked, NumbersOnce, At
<1>4. RanAsSent /\ CommandsRunOnce
  BY <1>1 DEF Init, RanAsSent, RanBefore, CommandsRunOnce
<1>5. CommandsNotRetained
  BY <1>1 DEF Init, CommandsNotRetained
<1>. QED
  BY <1>2, <1>3, <1>4, <1>5 DEF IInv

(* A new request takes the next number. *)
LEMMA RequestOK ==
    ASSUME IInv, NEW w \in Worker, NEW d \in DeviceId, NEW chan \in {"cmd", "desired"},
           NEW step \in {"check", "test"}, Request(w, d, chan, step),
           registered' = registered, linked' = linked,
           wanted' \in [DeviceId -> 0..asked']
    PROVE  IInv'
<1>. DEFINE r == [dev |-> d, chan |-> chan, no |-> asked + 1, at |-> step, client |-> NoClient]
<1>1. /\ job[w] = NoJob /\ asked < MaxRequests /\ asked' = asked + 1
      /\ job' = [job EXCEPT ![w] = r]
      /\ _client' = _client /\ outq' = outq /\ sent' = sent /\ retained' = retained
      /\ ran' = ran /\ resent' = resent /\ dropped' = dropped /\ faults' = faults
  BY DEF Request, channel
<1>2. asked \in Nat /\ asked + 1 \in Number /\ asked' \in 0..MaxRequests
  BY <1>1, PublisherAssumption DEF IInv, TypeOK, Number
<1>3. r \in Job /\ r.no = asked + 1 /\ r.at = step /\ r.at # "publish"
  BY <1>2 DEF Job
<1>. HIDE DEF r
<1>4. job' \in [Worker -> Job \cup {NoJob}] /\ job'[w] = r
      /\ \A v \in Worker : v # w => job'[v] = job[v]
  BY <1>1, <1>3 DEF IInv, TypeOK
<1>5. TypeOK'
  BY <1>1, <1>2, <1>3, <1>4 DEF IInv, TypeOK, Built
<1>6. ClientsExist'
  BY <1>1, <1>3, <1>4 DEF IInv, ClientsExist, At, Built
<1>7. NumbersAsked'
  <2>1. \A v \in Worker : job'[v] # NoJob => job'[v].no <= asked'
    BY <1>1, <1>2, <1>3, <1>4, JobType DEF IInv, NumbersAsked
  <2>2. \A c \in Built : \A i \in Pending(c) : outq[c][i].no <= asked + 1
    BY <1>2, QueueType DEF IInv, NumbersAsked
  <2>. QED
    BY <1>1, <2>1, <2>2 DEF NumbersAsked, Pending, Built
<1>8. NumbersOnce'
  <2>1. \A v \in Worker : v # w /\ job[v] # NoJob => job[v].no # r.no
    BY <1>2, <1>3, JobType DEF IInv, NumbersAsked
  <2>2. \A c \in Built : \A i \in Pending(c) : outq[c][i].no # r.no
    BY <1>2, <1>3, QueueType DEF IInv, NumbersAsked
  <2>3. /\ \A u, v \in Worker :
             job'[u] # NoJob /\ job'[v] # NoJob /\ job'[u].no = job'[v].no => u = v
        /\ \A v \in Worker, c \in Built : \A i \in Pending(c) :
             job'[v] # NoJob => outq[c][i].no # job'[v].no
    BY <1>4, <2>1, <2>2 DEF IInv, NumbersOnce
  <2>. QED
    BY <1>1, <2>3 DEF IInv, NumbersOnce, Pending, Built
<1>9. RanAsSent'
  <2>1. /\ \A n \in Number : n > asked + 1 => RanBefore(n)
        /\ RanBefore(r.no)
    BY <1>2, <1>3 DEF IInv, RanAsSent, Number
  <2>2. \A v \in Worker : job'[v] # NoJob => RanBefore(job'[v].no)
    BY <1>4, <2>1 DEF IInv, RanAsSent
  <2>. QED
    BY <1>1, <2>1, <2>2 DEF IInv, RanAsSent, RanBefore, Built
<1>10. CommandsNotRetained' /\ CommandsRunOnce'
  BY <1>1 DEF IInv, CommandsNotRetained, CommandsRunOnce, Pending, Built
<1>. QED
  BY <1>5, <1>6, <1>7, <1>8, <1>9, <1>10 DEF IInv

(* A request that is refused, or goes on to its next step. *)
LEMMA CheckTestGetOK ==
    ASSUME IInv, NEW w \in Worker, Check(w) \/ Test(w) \/ Get(w)
    PROVE  IInv'
<1>1. /\ job[w] # NoJob /\ UNCHANGED <<world, _client, channel, dropped, asked, faults>>
      /\ UNCHANGED <<outq, sent>>
  BY DEF Check, Test, Get, At, channel
<1>2. job[w] \in Job
  BY <1>1, JobType DEF IInv
<1>3. PICK r \in Job \cup {NoJob} :
         /\ job' = [job EXCEPT ![w] = r]
         /\ r # NoJob => r.no = job[w].no
         /\ r # NoJob /\ r.at = "get" => _client # NoClient
         /\ r # NoJob /\ r.at = "build" => _client = NoClient
         /\ r # NoJob /\ r.at = "publish" => r.client = _client /\ job[w].at = "get"
  <2>1. CASE Check(w)
    <3>1. CASE job[w].dev \in registered
      <4>. DEFINE r == [job[w] EXCEPT !.at = "test"]
      <4>1. r \in Job /\ r.no = job[w].no /\ r.at = "test"
        BY <1>2 DEF Job
      <4>2. job' = [job EXCEPT ![w] = r]
        BY <2>1, <3>1 DEF Check, GoTo
      <4>. QED
        BY <4>1, <4>2
    <3>2. CASE job[w].dev \notin registered
      BY <2>1, <3>2 DEF Check, Done
    <3>. QED
      BY <3>1, <3>2
  <2>2. CASE Test(w)
    <3>1. ASSUME NEW step \in {"build", "get"}, job' = [job EXCEPT ![w].at = step],
                 step = "build" <=> _client = NoClient
          PROVE  \E r \in Job :
                    /\ job' = [job EXCEPT ![w] = r] /\ r.no = job[w].no /\ r.at = step
      <4>. DEFINE r == [job[w] EXCEPT !.at = step]
      <4>1. r \in Job /\ r.no = job[w].no /\ r.at = step
        BY <1>2 DEF Job
      <4>2. job' = [job EXCEPT ![w] = r]
        BY <3>1
      <4>. QED
        BY <4>1, <4>2
    <3>2. CASE _client = NoClient
      BY <2>2, <3>1, <3>2 DEF Test, GoTo
    <3>3. CASE _client # NoClient
      BY <2>2, <3>1, <3>3 DEF Test, GoTo
    <3>. QED
      BY <3>2, <3>3
  <2>3. CASE Get(w)
    <3>. DEFINE r == [job[w] EXCEPT !.at = "publish", !.client = _client]
    <3>1. job[w].at = "get" /\ _client \in Worker \cup {NoClient}
      BY <2>3 DEF Get, At, IInv, TypeOK
    <3>2. r \in Job /\ r.no = job[w].no /\ r.at = "publish" /\ r.client = _client
      BY <1>2, <3>1 DEF Job
    <3>3. job' = [job EXCEPT ![w] = r]
      BY <2>3 DEF Get
    <3>. QED
      BY <3>1, <3>2, <3>3
  <2>. QED
    BY <2>1, <2>2, <2>3
<1>4. /\ job' \in [Worker -> Job \cup {NoJob}] /\ job'[w] = r
      /\ \A v \in Worker : v # w => job'[v] = job[v]
  BY <1>3 DEF IInv, TypeOK
<1>5. job[w].at = "get" => _client \in Built
  BY <1>1 DEF IInv, ClientsExist, At, TypeOK
<1>6. TypeOK'
  BY <1>1, <1>3, <1>4, <1>5 DEF IInv, TypeOK, Built, world, channel
<1>7. ClientsExist'
  BY <1>1, <1>3, <1>4 DEF IInv, ClientsExist, At, Built
<1>8. Delivery'
  BY <1>1, <1>3, <1>4, JobsGoOn
<1>. QED
  BY <1>6, <1>7, <1>8 DEF IInv, Delivery

(* A client that is built has an empty queue, and nobody else's changes.   *)
LEMMA BuildOK ==
    ASSUME IInv, NEW w \in Worker, Build(w)
    PROVE  IInv'
<1>1. /\ job[w] # NoJob /\ w \notin Built
      /\ outq' = [c \in Built \cup {w} |-> IF c = w THEN <<>> ELSE outq[c]]
      /\ sent' = [c \in Built \cup {w} |-> IF c = w THEN 0 ELSE sent[c]]
      /\ _client' = w /\ job' = [job EXCEPT ![w].at = "get"]
      /\ UNCHANGED <<world, retained, ran, resent, dropped, asked, faults>>
  BY DEF Build, GoTo, At, IInv, ClientsExist
<1>2. /\ Built' = Built \cup {w} /\ DOMAIN sent' = Built'
      /\ outq'[w] = <<>> /\ sent'[w] = 0
      /\ \A c \in Built : outq'[c] = outq[c] /\ sent'[c] = sent[c]
  BY <1>1 DEF Built
<1>3. <<>> \in Seq(Message) /\ Len(<<>>) = 0 /\ Pending(w)' = {}
  <2>1. <<>> \in Seq(Message) /\ Len(<<>>) = 0
    OBVIOUS
  <2>. QED
    BY <1>2, <2>1 DEF Pending
<1>4. /\ job'[w] \in Job /\ job'[w].no = job[w].no /\ job'[w].at = "get"
      /\ job' \in [Worker -> Job \cup {NoJob}]
      /\ \A v \in Worker : v # w => job'[v] = job[v]
  <2>. DEFINE r == [job[w] EXCEPT !.at = "get"]
  <2>1. job[w] \in Job
    BY <1>1, JobType DEF IInv
  <2>2. r \in Job /\ r.no = job[w].no /\ r.at = "get"
    BY <2>1 DEF Job
  <2>3. job' = [job EXCEPT ![w] = r] /\ job \in [Worker -> Job \cup {NoJob}]
    BY <1>1 DEF IInv, TypeOK
  <2>. HIDE DEF r
  <2>. QED
    BY <2>2, <2>3
<1>5. TypeOK'
  <2>1. \A c \in Built' : outq'[c] \in Seq(Message) /\ sent'[c] \in 0..Len(outq'[c])
    <3>1. \A c \in Built : outq[c] \in Seq(Message) /\ sent[c] \in 0..Len(outq[c])
      BY DEF IInv, TypeOK
    <3>2. outq'[w] \in Seq(Message) /\ sent'[w] \in 0..Len(outq'[w])
      BY <1>2, <1>3
    <3>. QED
      BY <1>2, <3>1, <3>2
  <2>2. \A v \in Worker : job'[v] # NoJob /\ job'[v].at = "publish" => job'[v].client \in Built'
    BY <1>2, <1>4 DEF IInv, TypeOK
  <2>3. Built' \subseteq Worker /\ _client' \in Built' \cup {NoClient}
    BY <1>1, <1>2 DEF IInv, TypeOK
  <2>. QED
    BY <1>1, <1>2, <1>4, <2>1, <2>2, <2>3 DEF IInv, TypeOK, world
<1>6. ClientsExist'
  BY <1>1, <1>2, <1>4, PublisherAssumption DEF IInv, ClientsExist, At
<1>7. /\ \A c \in Built : Pending(c)' = Pending(c)
      /\ \A v \in Worker : job'[v] # NoJob => job[v] # NoJob /\ job'[v].no = job[v].no
  BY <1>1, <1>2, <1>4 DEF Pending
<1>8. NumbersAsked'
  BY <1>1, <1>2, <1>3, <1>7 DEF IInv, NumbersAsked
<1>9. NumbersOnce'
  BY <1>1, <1>2, <1>3, <1>7 DEF IInv, NumbersOnce
<1>10. RanAsSent'
  BY <1>1, <1>2, <1>3, <1>7 DEF IInv, RanAsSent, RanBefore
<1>11. CommandsNotRetained' /\ CommandsRunOnce'
  BY <1>1, <1>2, <1>3, <1>7 DEF IInv, CommandsNotRetained, CommandsRunOnce
<1>. QED
  BY <1>5, <1>6, <1>8, <1>9, <1>10, <1>11 DEF IInv

(* What is published goes from the job to the end of one queue.            *)
LEMMA PublishOK ==
    ASSUME IInv, NEW w \in Worker, Publish(w)
    PROVE  IInv'
<1>. DEFINE c == job[w].client
            m == [dev |-> job[w].dev, chan |-> job[w].chan, no |-> job[w].no,
                  retain |-> job[w].chan = "desired"]
<1>. TypeOK
  BY DEF IInv
<1>1. /\ job[w] # NoJob /\ job[w].at = "publish"
      /\ outq' = [outq EXCEPT ![c] = Append(outq[c], m)]
      /\ job' = [job EXCEPT ![w] = NoJob]
      /\ UNCHANGED <<world, _client, sent, retained, ran, resent, dropped, asked, faults>>
  BY DEF Publish, Enqueue, Done, At
<1>2. c \in Built /\ m \in Message
  <2>1. m.retain \in BOOLEAN
    OBVIOUS
  <2>. QED
    BY <1>1, JobType DEF Message
<1>3. m.no = job[w].no /\ m.chan = job[w].chan /\ (m.chan = "cmd" => ~ m.retain)
  OBVIOUS
<1>. HIDE DEF c, m
<1>4. PICK n \in Nat : n = Len(outq[c])
  BY <1>2, QueueType
<1>5. /\ Built' = Built /\ \A b \in Built : b # c => outq'[b] = outq[b]
      /\ outq'[c] = Append(outq[c], m) /\ outq'[c] \in Seq(Message)
  BY <1>1, <1>2, QueueType DEF Built
<1>6. /\ Len(outq'[c]) = n + 1 /\ outq'[c][n + 1] = m
      /\ \A i \in 1..n : outq'[c][i] = outq[c][i]
  BY <1>2, <1>4, <1>5, QueueType
<1>7. job'[w] = NoJob /\ \A v \in Worker : v # w => job'[v] = job[v]
  BY <1>1 DEF TypeOK
<1>8. TypeOK'
  <2>1. \A b \in Built : outq'[b] \in Seq(Message) /\ sent'[b] \in 0..Len(outq'[b])
    BY <1>1, <1>4, <1>5, <1>6, QueueType
  <2>2. job' \in [Worker -> Job \cup {NoJob}]
    BY <1>1 DEF TypeOK
  <2>. QED
    BY <1>1, <1>5, <1>7, <2>1, <2>2 DEF TypeOK, world
<1>9. ClientsExist'
  BY <1>1, <1>5, <1>7 DEF IInv, ClientsExist, At
<1>10. NumbersAsked'
  BY <1>1, <1>3, <1>4, <1>5, <1>6, <1>7 DEF IInv, NumbersAsked, Pending
<1>11. \A b \in Built : \A i \in Pending(b)' :
          \/ b = c /\ i = n + 1 /\ outq'[b][i].no = job[w].no
          \/ i \in Pending(b) /\ outq'[b][i] = outq[b][i] /\ outq[b][i].no # job[w].no
  BY <1>1, <1>3, <1>4, <1>5, <1>6 DEF IInv, NumbersOnce, Pending
<1>12. NumbersOnce'
  <2>1. \A v \in Worker, b \in Built : \A i \in Pending(b)' :
           job'[v] # NoJob => outq'[b][i].no # job'[v].no
    <3>. SUFFICES ASSUME NEW v \in Worker, NEW b \in Built, NEW i \in Pending(b)',
                         job'[v] # NoJob
                  PROVE  outq'[b][i].no # job'[v].no
      OBVIOUS
    <3>1. v # w /\ job'[v] = job[v] /\ job[v] # NoJob
      BY <1>7
    <3>2. job[v].no # job[w].no
      BY <1>1, <3>1 DEF IInv, NumbersOnce
    <3>3. i \in Pending(b) => outq[b][i].no # job[v].no
      BY <3>1 DEF IInv, NumbersOnce
    <3>. QED
      BY <1>11, <3>1, <3>2, <3>3
  <2>2. \A a, b \in Built : \A i \in Pending(a)', j \in Pending(b)' :
           outq'[a][i].no = outq'[b][j].no => a = b /\ i = j
    BY <1>11 DEF IInv, NumbersOnce
  <2>. QED
    BY <1>5, <1>7, <2>1, <2>2 DEF IInv, NumbersOnce
<1>13. RanAsSent'
  <2>1. \A b \in Built : \A i \in sent[b] + 1 .. Len(outq'[b]) : RanBefore(outq'[b][i].no)
    BY <1>1, <1>3, <1>4, <1>5, <1>6, QueueType DEF IInv, RanAsSent
  <2>. QED
    BY <1>1, <1>5, <1>7, <2>1 DEF IInv, RanAsSent, RanBefore
<1>14. CommandsNotRetained' /\ CommandsRunOnce'
  <2>1. \A b \in Built : \A i \in Pending(b)' : outq'[b][i].chan = "cmd" => ~ outq'[b][i].retain
    <3>. SUFFICES ASSUME NEW b \in Built, NEW i \in Pending(b)'
                  PROVE  outq'[b][i].chan = "cmd" => ~ outq'[b][i].retain
      OBVIOUS
    <3>1. CASE b = c /\ i = n + 1
      BY <1>3, <1>6, <3>1
    <3>2. CASE i \in Pending(b) /\ outq'[b][i] = outq[b][i]
      BY <3>2 DEF IInv, CommandsNotRetained
    <3>. QED
      BY <1>11, <3>1, <3>2
  <2>. QED
    BY <1>1, <1>5, <2>1 DEF IInv, CommandsNotRetained, CommandsRunOnce
<1>. QED
  BY <1>8, <1>9, <1>10, <1>12, <1>13, <1>14 DEF IInv

(* A command that is delivered was not delivered on this connection yet.   *)
LEMMA TransmitOK ==
    ASSUME IInv, NEW c \in Worker, Transmit(c)
    PROVE  IInv'
<1>. DEFINE k == sent[c] + 1
            m == outq[c][k]
<1>. TypeOK
  BY DEF IInv
<1>1. /\ c \in Built /\ sent[c] < Len(outq[c])
      /\ sent' = [sent EXCEPT ![c] = k]
      /\ retained' = IF m.retain THEN [retained EXCEPT ![<<m.dev, m.chan>>] = m.no] ELSE retained
      /\ ran' = ran \/ ran' = [ran EXCEPT ![m.no] = @ + 1]
      /\ UNCHANGED <<world, _client, outq, job, resent, dropped, asked, faults>>
  BY DEF Transmit
<1>2. k \in sent[c] + 1 .. Len(outq[c]) /\ k \in Pending(c)
  BY <1>1, QueueType DEF Pending
<1>3. /\ m.dev \in DeviceId /\ m.chan \in {"cmd", "desired"} /\ m.no \in Number
      /\ m.no \in 0..asked /\ RanBefore(m.no) /\ (m.chan = "cmd" => ~ m.retain)
  <2>1. /\ m.dev \in DeviceId /\ m.chan \in {"cmd", "desired"}
        /\ m.no \in Number /\ m.no \in Nat /\ m.no # 0
    BY <1>1, <1>2, QueueType DEF Number
  <2>2. m.no <= asked /\ asked \in Nat
    BY <1>1, <1>2 DEF IInv, NumbersAsked, TypeOK
  <2>3. RanBefore(m.no) /\ (m.chan = "cmd" => ~ m.retain)
    BY <1>1, <1>2 DEF IInv, RanAsSent, CommandsNotRetained
  <2>. QED
    BY <2>1, <2>2, <2>3
<1>. HIDE DEF k, m
<1>4. /\ Built' = Built /\ DOMAIN sent' = Built /\ sent'[c] = k
      /\ \A b \in Built : b # c => sent'[b] = sent[b]
      /\ \A b \in Built : Pending(b)' = Pending(b)
  BY <1>1 DEF Built, TypeOK, Pending
<1>5. /\ ran' \in [Number -> Nat] /\ ran'[m.no] <= 1 + resent[m.no]
      /\ \A n \in Number : n # m.no => ran'[n] = ran[n]
  <2>1. /\ ran \in [Number -> Nat] /\ resent[m.no] \in Nat /\ ran[m.no] \in Nat
        /\ ran[m.no] <= resent[m.no]
    BY <1>3 DEF TypeOK, RanBefore
  <2>2. CASE ran' = ran
    BY <2>1, <2>2
  <2>3. CASE ran' = [ran EXCEPT ![m.no] = @ + 1]
    BY <1>3, <2>1, <2>3
  <2>. QED
    BY <1>1, <2>2, <2>3
<1>6. /\ retained' \in [DeviceId \X {"cmd", "desired"} -> 0..asked]
      /\ \A d \in DeviceId : retained'[<<d, "cmd">>] = retained[<<d, "cmd">>]
  <2>. DEFINE t == <<m.dev, m.chan>>
  <2>1. /\ t \in DeviceId \X {"cmd", "desired"}
        /\ \A d \in DeviceId : <<d, "cmd">> \in DeviceId \X {"cmd", "desired"}
        /\ m.retain => \A d \in DeviceId : t # <<d, "cmd">>
    BY <1>3
  <2>2. retained' = [retained EXCEPT ![t] = m.no] \/ (retained' = retained /\ ~ m.retain)
    BY <1>1
  <2>. HIDE DEF t
  <2>3. m.retain \/ ~ m.retain
    OBVIOUS
  <2>. QED
    BY <1>1, <1>3, <2>1, <2>2 DEF TypeOK
<1>7. TypeOK'
  <2>1. \A b \in Built : sent'[b] \in 0..Len(outq[b])
    BY <1>1, <1>4, QueueType DEF k
  <2>. QED
    BY <1>1, <1>4, <1>5, <1>6, <2>1 DEF TypeOK, world
<1>8. ClientsExist' /\ NumbersAsked' /\ NumbersOnce'
  BY <1>1, <1>4 DEF IInv, ClientsExist, NumbersAsked, NumbersOnce, At
<1>9. RanAsSent'
  <2>1. \A n \in Number : n > asked => n # m.no
    BY <1>3 DEF TypeOK
  <2>2. \A w \in Worker : job[w] # NoJob => job[w].no # m.no /\ job[w].no \in Number
    BY <1>1, <1>2, JobType DEF IInv, NumbersOnce, m
  <2>3. \A b \in Built : \A i \in sent'[b] + 1 .. Len(outq[b]) :
           /\ i \in sent[b] + 1 .. Len(outq[b]) /\ outq[b][i].no \in Number
           /\ outq[b][i].no # m.no
    <3>1. ASSUME NEW b \in Built, NEW i \in sent'[b] + 1 .. Len(outq[b])
          PROVE  i \in sent[b] + 1 .. Len(outq[b]) /\ i \in Pending(b) /\ (b # c \/ i # k)
      BY <1>1, <1>4, <3>1, QueueType DEF Pending, k
    <3>. QED
      BY <1>1, <1>2, <3>1, QueueType DEF IInv, NumbersOnce, m
  <2>. QED
    BY <1>1, <1>4, <1>5, <2>1, <2>2, <2>3 DEF IInv, RanAsSent, RanBefore
<1>10. CommandsNotRetained'
  BY <1>1, <1>4, <1>6 DEF IInv, CommandsNotRetained
<1>11. CommandsRunOnce'
  BY <1>1, <1>5 DEF IInv, CommandsRunOnce
<1>. QED
  BY <1>7, <1>8, <1>9, <1>10, <1>11 DEF IInv

(* What is acknowledged leaves the queue, the rest moves up by one.        *)
LEMMA PubackOK ==
    ASSUME IInv, NEW c \in Worker, Puback(c)
    PROVE  IInv'
<1>. TypeOK
  BY DEF IInv
<1>1. /\ c \in Built /\ sent[c] > 0
      /\ outq' = [outq EXCEPT ![c] = Tail(outq[c])]
      /\ sent' = [sent EXCEPT ![c] = sent[c] - 1]
      /\ UNCHANGED <<world, _client, retained, ran, resent, job, dropped, asked, faults>>
  BY DEF Puback
<1>2. PICK n \in Nat : n = Len(outq[c])
  BY <1>1, QueueType
<1>3. n > 0 /\ outq[c] # <<>> /\ sent[c] \in 1..n
  BY <1>1, <1>2, QueueType
<1>4. /\ Built' = Built /\ DOMAIN sent' = Built /\ outq'[c] = Tail(outq[c])
      /\ sent'[c] = sent[c] - 1
      /\ \A b \in Built : b # c => outq'[b] = outq[b] /\ sent'[b] = sent[b]
  BY <1>1 DEF Built, TypeOK
<1>5. /\ outq'[c] \in Seq(Message) /\ Len(outq'[c]) = n - 1
      /\ \A i \in 1..n - 1 : outq'[c][i] = outq[c][i + 1]
  <2>1. outq[c] \in Seq(Message) /\ Len(outq[c]) = n /\ n > 0
    BY <1>1, <1>2, <1>3, QueueType
  <2>. QED
    BY <1>4, <2>1
<1>6. \A b \in Built : \A i \in Pending(b)' :
         \E j \in Pending(b) :
            /\ outq'[b][i] = outq[b][j] /\ (b = c => j = i + 1) /\ (b # c => j = i)
            /\ i \in sent'[b] + 1 .. Len(outq'[b]) => j \in sent[b] + 1 .. Len(outq[b])
  <2>1. ASSUME NEW i \in Pending(c)'
        PROVE  /\ i \in Nat /\ i + 1 \in Pending(c) /\ outq'[c][i] = outq[c][i + 1]
               /\ i \in sent'[c] + 1 .. Len(outq'[c]) => i + 1 \in sent[c] + 1 .. Len(outq[c])
    BY <1>2, <1>3, <1>4, <1>5 DEF Pending
  <2>2. ASSUME NEW b \in Built, b # c
        PROVE  Pending(b)' = Pending(b) /\ outq'[b] = outq[b] /\ sent'[b] = sent[b]
    BY <1>4, <2>2 DEF Pending
  <2>. QED
    BY <2>1, <2>2
<1>7. TypeOK'
  <2>1. \A b \in Built : outq'[b] \in Seq(Message) /\ sent'[b] \in 0..Len(outq'[b])
    <3>1. \A b \in Built : outq[b] \in Seq(Message) /\ sent[b] \in 0..Len(outq[b])
      BY DEF TypeOK
    <3>2. outq'[c] \in Seq(Message) /\ sent'[c] \in 0..Len(outq'[c])
      BY <1>2, <1>3, <1>4, <1>5
    <3>. QED
      BY <1>4, <3>1, <3>2
  <2>. QED
    BY <1>1, <1>4, <2>1 DEF TypeOK, world
<1>8. ClientsExist'
  BY <1>1, <1>4 DEF IInv, ClientsExist, At
<1>9. NumbersAsked'
  <2>1. \A b \in Built : \A i \in Pending(b)' : outq'[b][i].no <= asked
    BY <1>6 DEF IInv, NumbersAsked
  <2>2. Built' = Built /\ job' = job /\ asked' = asked
    BY <1>1, <1>4
  <2>. QED
    BY <2>1, <2>2 DEF IInv, NumbersAsked
<1>10. NumbersOnce'
  <2>1. \A w \in Worker, b \in Built : \A i \in Pending(b)' :
           job[w] # NoJob => outq'[b][i].no # job[w].no
    BY <1>6 DEF IInv, NumbersOnce
  <2>2. \A a, b \in Built : \A i \in Pending(a)', j \in Pending(b)' :
           outq'[a][i].no = outq'[b][j].no => a = b /\ i = j
    <3>. SUFFICES ASSUME NEW a \in Built, NEW b \in Built, NEW i \in Pending(a)',
                         NEW j \in Pending(b)', outq'[a][i].no = outq'[b][j].no
                  PROVE  a = b /\ i = j
      OBVIOUS
    <3>1. PICK k \in Pending(a) : /\ outq'[a][i] = outq[a][k]
                                  /\ (a = c => k = i + 1) /\ (a # c => k = i)
      BY <1>6
    <3>2. PICK l \in Pending(b) : /\ outq'[b][j] = outq[b][l]
                                  /\ (b = c => l = j + 1) /\ (b # c => l = j)
      BY <1>6
    <3>3. a = b /\ k = l
      BY <3>1, <3>2 DEF IInv, NumbersOnce
    <3>4. i \in Nat /\ j \in Nat
      BY DEF Pending
    <3>. QED
      BY <3>1, <3>2, <3>3, <3>4
  <2>3. Built' = Built /\ job' = job
    BY <1>1, <1>4
  <2>. QED
    BY <2>1, <2>2, <2>3 DEF IInv, NumbersOnce
<1>11. RanAsSent'
  <2>1. \A b \in Built : \A i \in sent'[b] + 1 .. Len(outq'[b]) : RanBefore(outq'[b][i].no)
    <3>. SUFFICES ASSUME NEW b \in Built, NEW i \in sent'[b] + 1 .. Len(outq'[b])
                  PROVE  RanBefore(outq'[b][i].no)
      OBVIOUS
    <3>1. i \in Pending(b)'
      <4>1. sent'[b] \in Nat /\ Len(outq'[b]) \in Nat
        BY <1>2, <1>3, <1>4, <1>5, QueueType
      <4>. QED
        BY <4>1 DEF Pending
    <3>2. PICK j \in sent[b] + 1 .. Len(outq[b]) : outq'[b][i] = outq[b][j]
      BY <1>6, <3>1
    <3>. QED
      BY <3>2 DEF IInv, RanAsSent
  <2>2. Built' = Built /\ job' = job /\ asked' = asked /\ ran' = ran /\ resent' = resent
    BY <1>1, <1>4
  <2>. QED
    BY <2>1, <2>2 DEF IInv, RanAsSent, RanBefore
<1>12. CommandsNotRetained' /\ CommandsRunOnce'
  <2>1. \A b \in Built : \A i \in Pending(b)' : outq'[b][i].chan = "cmd" => ~ outq'[b][i].retain
    BY <1>6 DEF IInv, CommandsNotRetained
  <2>. QED
    BY <1>1, <1>4, <2>1 DEF IInv, CommandsNotRetained, CommandsRunOnce
<1>. QED
  BY <1>7, <1>8, <1>9, <1>10, <1>11, <1>12 DEF IInv

(* A lost connection counts, for each number it sends again, one resend.   *)
LEMMA ConnectionLostOK ==
    ASSUME IInv, NEW c \in Worker, ConnectionLost(c)
    PROVE  IInv'
<1>. TypeOK
  BY DEF IInv
<1>1. /\ c \in Built /\ faults < MaxFaults /\ faults' = faults + 1
      /\ sent' = [sent EXCEPT ![c] = 0]
      /\ resent' = [n \in Number |-> resent[n] + IF n \in Resent(c) THEN 1 ELSE 0]
      /\ UNCHANGED <<world, _client, outq, retained, ran, job, dropped, asked>>
  BY DEF ConnectionLost
<1>2. /\ Built' = Built /\ DOMAIN sent' = Built /\ sent'[c] = 0
      /\ \A b \in Built : b # c => sent'[b] = sent[b]
      /\ \A b \in Built : Pending(b)' = Pending(b)
  BY <1>1 DEF Built, TypeOK, Pending
<1>3. /\ resent' \in [Number -> Nat] /\ \A n \in Number : resent[n] <= resent'[n]
      /\ \A n \in Resent(c) \cap Number : resent'[n] = resent[n] + 1
  BY <1>1 DEF TypeOK
<1>4. \A n \in Number : ran[n] \in Nat /\ resent[n] \in Nat /\ resent'[n] \in Nat
  BY <1>3 DEF TypeOK
<1>5. TypeOK'
  <2>1. \A b \in Built : sent'[b] \in 0..Len(outq[b])
    BY <1>2, QueueType
  <2>2. faults' \in 0..MaxFaults
    BY <1>1, PublisherAssumption DEF TypeOK
  <2>. QED
    BY <1>1, <1>2, <1>3, <2>1, <2>2 DEF TypeOK, world
<1>6. ClientsExist' /\ NumbersAsked' /\ NumbersOnce'
  BY <1>1, <1>2 DEF IInv, ClientsExist, NumbersAsked, NumbersOnce, At
<1>7. RanAsSent'
  <2>1. \A n \in Number : RanBefore(n) => RanBefore(n)'
    BY <1>1, <1>3, <1>4 DEF RanBefore
  <2>2. \A w \in Worker : job[w] # NoJob => job[w].no \in Number
    BY JobType
  <2>3. ASSUME NEW b \in Built, NEW i \in sent'[b] + 1 .. Len(outq[b])
        PROVE  RanBefore(outq[b][i].no)'
    <3>1. i \in Pending(b) /\ outq[b][i].no \in Number
      BY <1>2, QueueType DEF Pending
    <3>2. CASE b = c /\ i \in 1..sent[c]
      <4>1. outq[b][i].no \in Resent(c)
        BY <3>2 DEF Resent
      <4>2. ran[outq[b][i].no] <= 1 + resent[outq[b][i].no]
        BY <3>1 DEF IInv, CommandsRunOnce
      <4>. QED
        BY <1>1, <1>3, <1>4, <3>1, <4>1, <4>2 DEF RanBefore
    <3>3. CASE ~ (b = c /\ i \in 1..sent[c])
      <4>1. i \in sent[b] + 1 .. Len(outq[b])
        BY <1>2, <3>1, <3>3, QueueType DEF Pending
      <4>. QED
        BY <1>1, <2>1, <3>1, <4>1 DEF IInv, RanAsSent, RanBefore
    <3>. QED
      BY <3>2, <3>3
  <2>. QED
    BY <1>1, <1>2, <2>1, <2>2, <2>3 DEF IInv, RanAsSent
<1>8. CommandsNotRetained'
  BY <1>1, <1>2 DEF IInv, CommandsNotRetained
<1>9. CommandsRunOnce'
  BY <1>1, <1>3, <1>4 DEF IInv, CommandsRunOnce
<1>. QED
  BY <1>5, <1>6, <1>7, <1>8, <1>9 DEF IInv

(* Devices come and go: a command is not retained, so none is run for it.  *)
LEMMA DevicesOK ==
    ASSUME IInv, Unregister \/ \E d \in DeviceId : Link(d) \/ Unlink(d)
    PROVE  IInv'
<1>. TypeOK
  BY DEF IInv
<1>1. /\ UNCHANGED <<_client, outq, sent, retained, resent, job, dropped, asked, faults>>
      /\ registered' \subseteq DeviceId /\ linked' \subseteq DeviceId
  BY DEF Unregister, Link, Unlink, channel, TypeOK
<1>2. wanted' \in [DeviceId -> 0..asked]
  <2>1. wanted \in [DeviceId -> 0..asked] /\ 0 \in 0..asked
    BY DEF TypeOK
  <2>2. wanted' = wanted \/ \E d \in DeviceId : wanted' = [wanted EXCEPT ![d] = 0]
    BY DEF Unregister, Link, Unlink, TypeOK
  <2>. QED
    BY <2>1, <2>2
<1>3. ran' = ran
  <2>1. CASE \E d \in DeviceId : Link(d)
    <3>1. PICK d \in DeviceId : Link(d)
      BY <2>1
    <3>2. ran' = [n \in Number |-> ran[n] + IF n = retained[<<d, "cmd">>] THEN 1 ELSE 0]
      BY <3>1 DEF Link
    <3>3. retained[<<d, "cmd">>] = 0 /\ \A n \in Number : n # 0
      BY DEF IInv, CommandsNotRetained, Number
    <3>4. \A n \in Number : ran'[n] = ran[n]
      BY <3>2, <3>3 DEF TypeOK
    <3>. QED
      BY <3>2, <3>4 DEF TypeOK
  <2>2. CASE Unregister \/ \E d \in DeviceId : Unlink(d)
    BY <2>2 DEF Unregister, Unlink, channel
  <2>. QED
    BY <2>1, <2>2
<1>4. Built' = Built
  BY <1>1 DEF Built
<1>5. TypeOK'
  BY <1>1, <1>2, <1>3, <1>4 DEF TypeOK
<1>6. ClientsExist'
  BY <1>1, <1>4 DEF IInv, ClientsExist, At
<1>7. Delivery'
  BY <1>1, <1>3, JobsGoOn DEF channel
<1>. QED
  BY <1>5, <1>6, <1>7 DEF IInv, Delivery

(* After a restart nothing is on its way.                                  *)
LEMMA RestartOK == ASSUME IInv, Restart PROVE IInv'
<1>. TypeOK
  BY DEF IInv
<1>1. /\ faults < MaxFaults /\ faults' = faults + 1 /\ _client' = NoClient
      /\ outq' = NoQueue /\ sent' = NoQueue /\ job' = [w \in Worker |-> NoJob]
      /\ dropped' = dropped \cup Unsent \cup {job[w].no : w \in {v \in Worker : job[v] # NoJob}}
      /\ UNCHANGED <<world, retained, ran, resent, asked>>
  BY DEF Restart
<1>2. Built' = {} /\ DOMAIN sent' = {} /\ \A w \in Worker : job'[w] = NoJob
  BY <1>1 DEF Built, NoQueue
<1>3. dropped' \subseteq 1..asked
  <2>1. ASSUME NEW c \in Built, NEW i \in sent[c] + 1 .. Len(outq[c])
        PROVE  outq[c][i].no \in 1..asked
    <3>1. i \in Pending(c)
      BY QueueType DEF Pending
    <3>2. outq[c][i].no \in Number /\ outq[c][i].no <= asked
      BY <3>1, QueueType DEF IInv, NumbersAsked
    <3>. QED
      BY <3>2 DEF Number, TypeOK
  <2>2. ASSUME NEW w \in Worker, job[w] # NoJob
        PROVE  job[w].no \in 1..asked
    <3>1. job[w].no \in Number /\ job[w].no <= asked
      BY <2>2, JobType DEF IInv, NumbersAsked
    <3>. QED
      BY <3>1 DEF Number, TypeOK
  <2>3. Unsent \subseteq 1..asked
    BY <2>1 DEF Unsent
  <2>. QED
    BY <1>1, <2>2, <2>3 DEF TypeOK
<1>4. TypeOK'
  <2>1. faults' \in 0..MaxFaults
    BY <1>1, PublisherAssumption DEF TypeOK
  <2>. QED
    BY <1>1, <1>2, <1>3, <2>1 DEF TypeOK, world
<1>5. ClientsExist' /\ NumbersAsked' /\ NumbersOnce'
  BY <1>1, <1>2 DEF ClientsExist, NumbersAsked, NumbersOnce, At
<1>6. RanAsSent' /\ CommandsRunOnce'
  BY <1>1, <1>2 DEF IInv, RanAsSent, RanBefore, CommandsRunOnce
<1>7. CommandsNotRetained'
  BY <1>1, <1>2 DEF IInv, CommandsNotRetained
<1>. QED
  BY <1>4, <1>5, <1>6, <1>7 DEF IInv

\* A step that changes nothing.
LEMMA StutterOK == ASSUME IInv, UNCHANGED vars PROVE IInv'
<1>1. /\ UNCHANGED <<registered, wanted, linked, _client, outq, sent, retained, ran, resent>>
      /\ UNCHANGED <<job, dropped, asked, faults>> /\ Built' = Built
  BY DEF vars, world, channel, Built
<1>2. TypeOK' /\ ClientsExist'
  BY <1>1 DEF IInv, TypeOK, ClientsExist, At
<1>3. Delivery'
  BY <1>1, JobsGoOn DEF channel
<1>. QED
  BY <1>2, <1>3 DEF IInv, Delivery

(* Every step of the publisher keeps the invariant.                        *)
LEMMA NextOK == IInv /\ [Next]_vars => IInv'
<1>. SUFFICES ASSUME IInv, [Next]_vars
              PROVE  IInv'
  OBVIOUS
<1>1. ASSUME NEW w \in Worker, DeviceCmd(w) \/ HawkbitCallback(w) \/ PatchDesired(w)
      PROVE  IInv'
  <2>. TypeOK
    BY DEF IInv
  <2>1. asked \in Nat /\ wanted \in [DeviceId -> 0..asked] /\ registered \subseteq DeviceId
    BY DEF TypeOK
  <2>2. CASE DeviceCmd(w) \/ HawkbitCallback(w)
    <3>1. PICK d \in DeviceId, step \in {"check", "test"} : Request(w, d, "cmd", step)
      BY <2>2 DEF DeviceCmd, HawkbitCallback
    <3>2. registered' = registered /\ wanted' = wanted /\ linked' = linked /\ asked' = asked + 1
      BY <2>2, <3>1 DEF DeviceCmd, HawkbitCallback, Request, world
    <3>3. wanted' \in [DeviceId -> 0..asked']
      BY <2>1, <3>2
    <3>. QED
      BY <3>1, <3>2, <3>3, RequestOK
  <2>3. CASE PatchDesired(w)
    <3>1. PICK d \in registered : /\ Request(w, d, "desired", "test")
                                  /\ wanted' = [wanted EXCEPT ![d] = asked + 1]
      BY <2>3 DEF PatchDesired
    <3>2. registered' = registered /\ linked' = linked /\ asked' = asked + 1
      BY <2>3, <3>1 DEF PatchDesired, Request
    <3>3. wanted' \in [DeviceId -> 0..asked']
      BY <2>1, <3>1, <3>2
    <3>4. d \in DeviceId
      BY <2>1
    <3>. QED
      BY <3>1, <3>2, <3>3, <3>4, RequestOK
  <2>. QED
    BY <1>1, <2>2, <2>3
<1>2. ASSUME NEW w \in Worker, Serve(w)
      PROVE  IInv'
  BY <1>2, CheckTestGetOK, BuildOK, PublishOK DEF Serve
<1>3. ASSUME NEW c \in Worker, Transmit(c) \/ Puback(c) \/ ConnectionLost(c)
      PROVE  IInv'
  BY <1>3, TransmitOK, PubackOK, ConnectionLostOK
<1>4. CASE Unregister \/ \E d \in DeviceId : Link(d) \/ Unlink(d)
  BY <1>4, DevicesOK
<1>5. CASE Restart
  BY <1>5, RestartOK
<1>6. CASE UNCHANGED vars
  BY <1>6, StutterOK
<1>. QED
  BY <1>1, <1>2, <1>3, <1>4, <1>5, <1>6 DEF Next

\* The invariant holds in every state.
LEMMA Inductive == Spec => []IInv
BY InitOK, NextOK, PTL DEF Spec

-----------------------------------------------------------------------------
(* The state of the publisher is well formed in every run (mqtt_pub.py):   *)
(* whoever hands a message to a client finds one, and numbers kept at the  *)
(* broker or lost in a restart are numbers that were given.                *)
THEOREM TypeCorrect == Spec => []TypeOK
BY Inductive, PTL DEF IInv

(* No command is run more often than it was asked for and resent,          *)
(* whatever number of clients the race in _get_client has left behind, and *)
(* however often a device reconnects (publish never retains a command).    *)
THEOREM EachCommandRunsOnce == Spec => []CommandsRunOnce
BY Inductive, PTL DEF IInv

(* No thread builds a client after it has built one, and after the first   *)
(* assignment _get_client returns a client to everybody: so a client may   *)
(* bear its thread's name, and there are never more of them than threads.  *)
THEOREM NobodyBuildsTwice == Spec => []ClientsExist
BY Inductive, PTL DEF IInv

(* The race for the first client ends as the module promises: when nobody  *)
(* is about to build or holds an older client, _client stays and the       *)
(* others' queues only shrink, until the process stops.                    *)
THEOREM RaceEnds == Spec => OneClientInTheEnd
<1>. DEFINE Kept == Settled /\ _client \in Built' =>
                       /\ Settled' /\ _client' = _client
                       /\ \A c \in Built \ {_client} : Len(outq'[c]) <= Len(outq[c])
<1>1. IInv /\ [Next]_vars => [Kept]_vars
  <2>. SUFFICES ASSUME IInv, Next, Settled, _client \in Built'
                PROVE  /\ Settled' /\ _client' = _client
                       /\ \A c \in Built \ {_client} : Len(outq'[c]) <= Len(outq[c])
    OBVIOUS
  <2>. TypeOK
    BY DEF IInv
  <2>1. /\ _client # NoClient /\ _client \in Worker
        /\ \A w \in Worker : ~ At(w, "build")
        /\ \A w \in Worker : At(w, "publish") => job[w].client = _client
    BY DEF Settled, TypeOK
  <2>2. ASSUME UNCHANGED <<_client, outq, job>>
        PROVE  /\ Settled' /\ _client' = _client
               /\ \A c \in Built \ {_client} : Len(outq'[c]) <= Len(outq[c])
    BY <2>1, <2>2, QueueType DEF Settled, At
  <2>3. ASSUME NEW w \in Worker, NEW r, UNCHANGED <<_client, outq>>,
               job' = [job EXCEPT ![w] = r],
               r # NoJob => r.at # "build" /\ (r.at = "publish" => r.client = _client)
        PROVE  /\ Settled' /\ _client' = _client
               /\ \A c \in Built \ {_client} : Len(outq'[c]) <= Len(outq[c])
    <3>1. job'[w] = r /\ \A v \in Worker : v # w => job'[v] = job[v]
      BY <2>3 DEF TypeOK
    <3>. QED
      BY <2>1, <2>3, <3>1, QueueType DEF Settled, At
  <2>4. ASSUME NEW w \in Worker, DeviceCmd(w) \/ HawkbitCallback(w) \/ PatchDesired(w)
        PROVE  \E r : /\ job' = [job EXCEPT ![w] = r] /\ UNCHANGED <<_client, outq>>
                      /\ r.at # "build" /\ r.at # "publish"
    <3>1. PICK d \in DeviceId, chan \in {"cmd", "desired"}, step \in {"check", "test"} :
             Request(w, d, chan, step)
      BY <2>4 DEF DeviceCmd, HawkbitCallback, PatchDesired, TypeOK
    <3>. DEFINE r == [dev |-> d, chan |-> chan, no |-> asked + 1, at |-> step,
                      client |-> NoClient]
    <3>2. r.at = step /\ job' = [job EXCEPT ![w] = r] /\ UNCHANGED <<_client, outq>>
      BY <3>1 DEF Request, channel
    <3>. QED
      BY <3>2
  <2>5. ASSUME NEW w \in Worker, Check(w) \/ Test(w) \/ Get(w)
        PROVE  \E r : /\ job' = [job EXCEPT ![w] = r] /\ UNCHANGED <<_client, outq>>
                      /\ r # NoJob => r.at # "build" /\ (r.at = "publish" => r.client = _client)
    <3>. DEFINE GoesTo(step) == [job[w] EXCEPT !.at = step]
                got == [job[w] EXCEPT !.at = "publish", !.client = _client]
    <3>1. job[w] \in Job
      BY <2>5, JobType DEF Check, Test, Get, At
    <3>2. /\ GoesTo("test").at = "test" /\ GoesTo("get").at = "get"
          /\ got.at = "publish" /\ got.client = _client
      BY <3>1 DEF Job
    <3>3. UNCHANGED <<_client, outq>>
      BY <2>5 DEF Check, Test, Get, channel
    <3>4. \/ job' = [job EXCEPT ![w] = GoesTo("test")]
          \/ job' = [job EXCEPT ![w] = GoesTo("get")]
          \/ job' = [job EXCEPT ![w] = NoJob]
          \/ job' = [job EXCEPT ![w] = got]
      BY <2>1, <2>5 DEF Check, Test, Get, GoTo, Done
    <3>. HIDE DEF GoesTo, got
    <3>. QED
      BY <3>2, <3>3, <3>4
  <2>6. ASSUME NEW w \in Worker, Publish(w)
        PROVE  /\ Settled' /\ _client' = _client
               /\ \A c \in Built \ {_client} : Len(outq'[c]) <= Len(outq[c])
    <3>1. /\ At(w, "publish") /\ _client' = _client /\ job' = [job EXCEPT ![w] = NoJob]
          /\ \E q : outq' = [outq EXCEPT ![job[w].client] = q]
      BY <2>6 DEF Publish, Enqueue, Done
    <3>2. job'[w] = NoJob /\ \A v \in Worker : v # w => job'[v] = job[v]
      BY <3>1 DEF TypeOK
    <3>3. \A c \in Built \ {_client} : outq'[c] = outq[c]
      BY <2>1, <3>1 DEF Built
    <3>. QED
      BY <2>1, <3>1, <3>2, <3>3, QueueType DEF Settled, At
  <2>7. ASSUME NEW b \in Worker, Puback(b)
        PROVE  /\ Settled' /\ _client' = _client
               /\ \A c \in Built \ {_client} : Len(outq'[c]) <= Len(outq[c])
    <3>1. /\ b \in Built /\ sent[b] > 0 /\ outq' = [outq EXCEPT ![b] = Tail(outq[b])]
          /\ _client' = _client /\ job' = job
      BY <2>7 DEF Puback
    <3>2. Len(Tail(outq[b])) <= Len(outq[b])
      BY <3>1, QueueType
    <3>3. \A c \in Built : Len(outq'[c]) <= Len(outq[c])
      BY <3>1, <3>2, QueueType DEF Built
    <3>. QED
      BY <2>1, <3>1, <3>3 DEF Settled, At
  <2>8. CASE \/ Unregister \/ \E d \in DeviceId : Link(d) \/ Unlink(d)
             \/ \E c \in Worker : Transmit(c) \/ ConnectionLost(c)
    <3>1. UNCHANGED <<_client, outq, job>>
      BY <2>8 DEF Unregister, Link, Unlink, Transmit, ConnectionLost, channel
    <3>. QED
      BY <2>2, <3>1
  <2>9. ~ Restart
    BY DEF Restart, NoQueue, Built
  <2>10. \A w \in Worker : ~ Build(w)
    BY <2>1 DEF Build
  <2>. QED
    BY <2>3, <2>4, <2>5, <2>6, <2>7, <2>8, <2>9, <2>10 DEF Next, Serve
<1>. QED
  BY <1>1, Inductive, PTL DEF Spec, OneClientInTheEnd
=============================================================================
