------------------------------ MODULE OtaProofs ------------------------------
(* Proofs about Ota, for any number of connections, devices, groups and      *)
(* modules, any refusals and any bounds.                                     *)
EXTENDS Ota, FiniteSetTheorems, TLAPS

---------------------------------------------------------------------------
(* The inductive invariant.                                                  *)
\* hawkBit's modules have ids that it has given; hawkBit is a record of four fields.
HawkbitOK ==
    /\ hawkbit = [artifact |-> hawkbit.artifact, lastId |-> hawkbit.lastId,
                  deployments |-> hawkbit.deployments, progress |-> hawkbit.progress]
    /\ hawkbit.lastId \in Nat
    /\ hawkbit.artifact \in [DOMAIN hawkbit.artifact -> BOOLEAN]
    /\ DOMAIN hawkbit.artifact \subseteq 1..hawkbit.lastId
    /\ hawkbit.deployments \in [Firmware \X Target -> Nat]
    /\ hawkbit.progress \in [Device -> 0..MaxPct]

HistoryOK == /\ clicks \in [Firmware \X Target -> Nat] /\ toasts \in [Firmware \X Target -> Nat]
             /\ confirmed \subseteq 1..hawkbit.lastId

BoundsOK == spent \in [acts : 0..MaxActs, signIns : 0..MaxSignIns, faults : 0..MaxFaults]

\* Every module created was asked for by one act of the admin; the uploads that are yet to
\* create theirs have their ids in reserve.
Creating == {c \in Slot : job[c] # NoJob /\ job[c].op = "upload" /\ job[c].at \in {"sent", "call"}}
IdsInReserve == hawkbit.lastId + Cardinality(Creating) <= Stock + spent.acts

\* The page waits for nothing when nobody is signed in, and for one upload at a time.
Awaits(c) == job[c] # NoJob /\ job[c].awaited
PageWaits ==
    /\ ~page.signedIn => \A c \in Slot : ~Awaits(c)
    /\ \A b, c \in Slot :
          Awaits(b) /\ Awaits(c) /\ job[b].op = "upload" /\ job[c].op = "upload" => b = c

\* A 401 that the page waits for comes from an expired token or from hawkBit.
Fits(r) ==
    /\ r.op = "status" => r.to \in Device
    /\ r.op = "deploy" => r.fw \in Firmware /\ r.to \in Target
    /\ r.op = "upload" /\ r.at = "upload" => r.fw \in 1..hawkbit.lastId
    /\ r.at = "answered" /\ r.awaited /\ r.code = 401 => expired \/ r.from = "hawkBit"
JobsFit == \A c \in Slot : job[c] # NoJob => Fits(job[c])

\* A confirmed deployment that is yet to be made has its click in reserve; one that is made
\* and yet to be announced has its deployment in reserve.
Unmade(x) == {c \in Slot : /\ job[c] # NoJob /\ job[c].op = "deploy" /\ job[c].at \in {"sent", "call"}
                           /\ <<job[c].fw, job[c].to>> = x}
Unannounced(x) == {c \in Slot : /\ job[c] # NoJob /\ job[c].op = "deploy" /\ job[c].at = "answered"
                                /\ Success(c) /\ <<job[c].fw, job[c].to>> = x}
DeploymentsInReserve ==
    \A x \in Firmware \X Target :
       /\ toasts[x] + Cardinality(Unannounced(x)) <= hawkbit.deployments[x]
       /\ hawkbit.deployments[x] + Cardinality(Unmade(x)) <= clicks[x]

IInv == /\ HawkbitOK /\ job \in [Slot -> Request \cup {NoJob}] /\ page \in Page
        /\ expired \in BOOLEAN /\ BoundsOK /\ HistoryOK
        /\ IdsInReserve /\ PageFits /\ PageWaits /\ JobsFit
        /\ DeploymentsInReserve /\ UploadedIsWhole

---------------------------------------------------------------------------
(* Counting slots.                                                           *)
\* A set of slots is finite, and a part of it has no more of them.
LEMMA FewerSlots ==
    ASSUME NEW S \in SUBSET Slot, NEW T \in SUBSET S
    PROVE  /\ Cardinality(S) \in Nat /\ Cardinality(T) \in Nat
           /\ Cardinality(T) <= Cardinality(S)
<1>1. IsFiniteSet(S) /\ IsFiniteSet(T)
  BY FS_Subset, OtaAssumption
<1>. QED
  BY <1>1, FS_CardinalityType, FS_Subset

\* Taking a slot away from a set of slots.
LEMMA OneSlotLess ==
    ASSUME NEW S \in SUBSET Slot, NEW c \in S, NEW T \in SUBSET (S \ {c})
    PROVE  /\ Cardinality(S) \in Nat /\ Cardinality(T) \in Nat
           /\ Cardinality(T) + 1 <= Cardinality(S)
<1>1. IsFiniteSet(S)
  BY FS_Subset, OtaAssumption
<1>2. Cardinality(S \ {c}) = Cardinality(S) - 1 /\ Cardinality(S) \in Nat
  BY <1>1, FS_RemoveElement, FS_CardinalityType
<1>3. Cardinality(T) <= Cardinality(S \ {c}) /\ Cardinality(T) \in Nat
  BY FewerSlots
<1>. QED
  BY <1>2, <1>3

\* Adding a slot to a set of slots.
LEMMA OneSlotMore ==
    ASSUME NEW S \in SUBSET Slot, NEW c \in Slot, NEW T \in SUBSET (S \cup {c})
    PROVE  /\ Cardinality(S) \in Nat /\ Cardinality(T) \in Nat
           /\ Cardinality(T) <= Cardinality(S) + 1
<1>1. IsFiniteSet(S)
  BY FS_Subset, OtaAssumption
<1>2. Cardinality(S \cup {c}) <= Cardinality(S) + 1 /\ Cardinality(S) \in Nat
  <2>1. Cardinality(S) \in Nat
    BY <1>1, FS_CardinalityType
  <2>2. Cardinality(S \cup {c}) = IF c \in S THEN Cardinality(S) ELSE Cardinality(S) + 1
    BY <1>1, FS_AddElement
  <2>. QED
    BY <2>1, <2>2
<1>3. Cardinality(T) <= Cardinality(S \cup {c}) /\ Cardinality(T) \in Nat
      /\ Cardinality(S \cup {c}) \in Nat
  BY FewerSlots
<1>. QED
  BY <1>2, <1>3

---------------------------------------------------------------------------
(* Types.                                                                    *)
Jobs == [Slot -> Request \cup {NoJob}]

\* What the page asks for, and what it asks it about.
LEMMA Asked ==
    /\ {"list", "upload", "targets", "deploy", "status", "delete"} \subseteq Op
    /\ 0 \in Firmware \cup {0} /\ Firmware \subseteq Firmware \cup {0}
    /\ NoDevice \in Target \cup {NoDevice} /\ Target \subseteq Target \cup {NoDevice}
    /\ Device \subseteq Target \cup {NoDevice}
BY DEF Op, Target

\* The fields of a request.
LEMMA RequestType ==
    ASSUME NEW r \in Request
    PROVE  /\ r.op \in Op /\ r.at \in {"sent", "call", "upload", "answered"}
           /\ r.fw \in Firmware \cup {0} /\ r.to \in Target \cup {NoDevice}
           /\ r.code \in Code \cup {NetworkError}
           /\ r.ids \in SUBSET Firmware /\ r.pct \in 0..MaxPct /\ r.awaited \in BOOLEAN
           /\ r.from \in {"cloud", "hawkBit"}
BY DEF Request

\* An answer keeps what was asked.
LEMMA AnsweredType ==
    ASSUME NEW c \in Slot, job[c] \in Request, NEW code \in Code \cup {NetworkError}
    PROVE  /\ Answered(c, code) \in Request
           /\ Answered(c, code).at = "answered" /\ Answered(c, code).code = code
           /\ Answered(c, code).op = job[c].op /\ Answered(c, code).fw = job[c].fw
           /\ Answered(c, code).to = job[c].to /\ Answered(c, code).awaited = job[c].awaited
BY DEF Answered, Request

\* How a call to hawkBit fails: with hawkBit's code, or with the proxy's.
Failures(c) == {TurnedDown(c, code) : code \in Refusals} \cup {Answered(c, 502)}

\* An answer that is not a success keeps what was asked, too; its 401 is hawkBit's.
LEMMA FailureType ==
    ASSUME NEW c \in Slot, job[c] \in Request, NEW f \in Failures(c) \cup {Answered(c, 404)}
    PROVE  /\ f \in Request /\ f.at = "answered" /\ f.op = job[c].op /\ f.fw = job[c].fw
           /\ f.to = job[c].to /\ f.awaited = job[c].awaited /\ f.code \in Code \ {200, 201}
           /\ f.code = 401 => f.from = "hawkBit"
<1>1. CASE f \in {Answered(c, 502), Answered(c, 404)}
  <2>1. /\ {502, 404} \subseteq Code
    BY DEF Code
  <2>. QED
    BY <1>1, <2>1, AnsweredType
<1>2. ASSUME NEW code \in Refusals, f = TurnedDown(c, code)
      PROVE  /\ f \in Request /\ f.at = "answered" /\ f.op = job[c].op /\ f.fw = job[c].fw
             /\ f.to = job[c].to /\ f.awaited = job[c].awaited /\ f.code = code
             /\ f.from = "hawkBit"
  <2>. DEFINE q == Answered(c, code)
  <2>1. /\ q \in Request /\ q.at = "answered" /\ q.code = code /\ q.op = job[c].op
        /\ q.fw = job[c].fw /\ q.to = job[c].to /\ q.awaited = job[c].awaited
    BY AnsweredType DEF Code
  <2>2. f = [q EXCEPT !.from = "hawkBit"]
    BY <1>2 DEF TurnedDown
  <2>. HIDE DEF q
  <2>. QED
    BY <2>1, <2>2 DEF Request
<1>3. \A code \in Refusals : code \in Code \ {200, 201}
  BY OtaAssumption DEF Code
<1>. QED
  BY <1>1, <1>2, <1>3 DEF Failures

\* A step of one slot.
LEMMA AskType ==
    ASSUME job \in Jobs, NEW c \in Slot, NEW r \in Request \cup {NoJob}, Ask(c, r)
    PROVE  /\ job' \in Jobs /\ job'[c] = r
           /\ \A b \in Slot : b # c => job'[b] = job[b]
BY DEF Ask, Jobs

\* The login page and the firmware page.
LEMMA PagesType ==
    /\ LoginPage \in Page /\ OtaPage \in Page /\ OtaPage.signedIn = TRUE
    /\ LoginPage.signedIn = FALSE /\ OtaPage.uploading = FALSE /\ LoginPage.uploading = FALSE
    /\ LoginPage.timer = FALSE /\ LoginPage.pending = 0 /\ LoginPage.modal = FALSE
    /\ LoginPage.firmware = {}
<1>1. 0 \in 0..MaxPct
  BY OtaAssumption
<1>2. NoRow \in [label : Device \cup {NoDevice}, of : Device \cup {NoDevice}, pct : 0..MaxPct]
  BY <1>1 DEF NoRow
<1>3. LoginPage \in Page
  BY <1>2 DEF LoginPage, Page
<1>. QED
  BY <1>3 DEF LoginPage, OtaPage, Page

---------------------------------------------------------------------------
(* What a step leaves alone.                                                 *)
\* The reserves hold while no request is added to them and nothing is taken out of them.
LEMMA ReservesKept ==
    ASSUME IInv, BoundsOK', spent.acts <= spent'.acts,
           hawkbit'.lastId = hawkbit.lastId, hawkbit'.deployments = hawkbit.deployments,
           clicks' = clicks, toasts' = toasts,
           \A c \in Slot : job'[c] # NoJob /\ job'[c].op \in {"upload", "deploy"} =>
              /\ job[c] # NoJob /\ job[c].op = job'[c].op
              /\ job[c].fw = job'[c].fw \/ job[c].op = "upload"
              /\ job[c].to = job'[c].to
              /\ job'[c].at \in {"sent", "call"} => job[c].at \in {"sent", "call"}
              /\ job'[c].op = "deploy" /\ job'[c].at = "answered" /\ job'[c].code \in {200, 201} =>
                    job[c].at = "answered" /\ job[c].code \in {200, 201}
    PROVE  IdsInReserve' /\ DeploymentsInReserve'
<1>1. IdsInReserve'
  <2>1. Creating' \in SUBSET Creating /\ Creating \in SUBSET Slot
    BY DEF Creating
  <2>2. spent.acts \in Nat /\ spent'.acts \in Nat /\ hawkbit.lastId \in Nat
    BY OtaAssumption DEF IInv, BoundsOK, HawkbitOK
  <2>. QED
    BY <2>1, <2>2, FewerSlots, OtaAssumption DEF IInv, IdsInReserve
<1>2. ASSUME NEW x \in Firmware \X Target
      PROVE  /\ toasts[x] + Cardinality(Unannounced(x)') <= hawkbit.deployments[x]
             /\ hawkbit.deployments[x] + Cardinality(Unmade(x)') <= clicks[x]
  <2>1. /\ Unmade(x)' \in SUBSET Unmade(x) /\ Unmade(x) \in SUBSET Slot
        /\ Unannounced(x)' \in SUBSET Unannounced(x) /\ Unannounced(x) \in SUBSET Slot
    BY DEF Unmade, Unannounced, Success
  <2>2. toasts[x] \in Nat /\ clicks[x] \in Nat /\ hawkbit.deployments[x] \in Nat
    BY DEF IInv, HistoryOK, HawkbitOK
  <2>3. /\ toasts[x] + Cardinality(Unannounced(x)) <= hawkbit.deployments[x]
        /\ hawkbit.deployments[x] + Cardinality(Unmade(x)) <= clicks[x]
    BY DEF IInv, DeploymentsInReserve
  <2>4. /\ Cardinality(Unmade(x)') \in Nat /\ Cardinality(Unmade(x)) \in Nat
        /\ Cardinality(Unannounced(x)') \in Nat /\ Cardinality(Unannounced(x)) \in Nat
        /\ Cardinality(Unmade(x)') <= Cardinality(Unmade(x))
        /\ Cardinality(Unannounced(x)') <= Cardinality(Unannounced(x))
    BY <2>1, FewerSlots
  <2>. QED
    BY <2>2, <2>3, <2>4
<1>. QED
  BY <1>1, <1>2 DEF DeploymentsInReserve

\* What the page shows of uploads, and what it waits for, after a step of one slot that
\* neither begins nor ends an upload it waits for.
LEMMA PageKept ==
    ASSUME IInv, NEW c \in Slot, NEW r \in Request \cup {NoJob}, Ask(c, r),
           page'.uploading = page.uploading, ~page'.signedIn => page' = page,
           r # NoJob /\ r.awaited => page'.signedIn,
           (r # NoJob /\ r.awaited /\ r.op = "upload") <=> (Awaits(c) /\ job[c].op = "upload")
    PROVE  PageFits' /\ PageWaits'
<1>1. /\ job'[c] = r /\ \A b \in Slot : b # c => job'[b] = job[b]
  BY AskType DEF IInv, Jobs
<1>2. \A b \in Slot : (Awaits(b)' /\ job'[b].op = "upload") <=> (Awaits(b) /\ job[b].op = "upload")
  BY <1>1 DEF Awaits
<1>3. PageFits'
  BY <1>2 DEF IInv, PageFits, Awaits
<1>4. PageWaits'
  <2>1. ~page'.signedIn => \A b \in Slot : ~Awaits(b)'
    BY <1>1 DEF IInv, PageWaits, Awaits
  <2>2. \A a, b \in Slot :
           Awaits(a)' /\ Awaits(b)' /\ job'[a].op = "upload" /\ job'[b].op = "upload" => a = b
    BY <1>2 DEF IInv, PageWaits
  <2>. QED
    BY <2>1, <2>2 DEF PageWaits
<1>. QED
  BY <1>3, <1>4

\* The other requests go on fitting when hawkBit has given more ids, when more has failed,
\* and when a token expires; one is renewed only when the page waits for nothing.
LEMMA FitsKept ==
    ASSUME IInv, NEW c \in Slot, NEW r \in Request \cup {NoJob}, Ask(c, r),
           r # NoJob => Fits(r)',
           HawkbitOK', BoundsOK', hawkbit.lastId <= hawkbit'.lastId,
           spent.faults <= spent'.faults, (expired => expired') \/ ~page.signedIn
    PROVE  JobsFit'
<1>1. /\ job'[c] = r /\ \A b \in Slot : b # c => job'[b] = job[b]
  BY AskType DEF IInv, Jobs
<1>2. ASSUME NEW b \in Slot, b # c, job[b] # NoJob
      PROVE  Fits(job[b])'
  <2>1. Fits(job[b]) /\ (~page.signedIn => ~job[b].awaited)
    BY <1>2 DEF IInv, JobsFit, PageWaits, Awaits
  <2>2. /\ hawkbit.lastId \in Nat /\ hawkbit'.lastId \in Nat
        /\ spent.faults \in Nat /\ spent'.faults \in Nat
    BY OtaAssumption DEF IInv, HawkbitOK, BoundsOK
  <2>. QED
    BY <1>1, <1>2, <2>1, <2>2 DEF Fits
<1>3. job'[c] # NoJob => Fits(job[c])'
  BY <1>1 DEF Fits
<1>. QED
  BY <1>1, <1>2, <1>3 DEF JobsFit

---------------------------------------------------------------------------
(* The bounds.                                                               *)
LEMMA ActType ==
    ASSUME BoundsOK, Act
    PROVE  BoundsOK' /\ spent'.acts = spent.acts + 1 /\ spent'.faults = spent.faults
BY OtaAssumption DEF BoundsOK, Act

\* A failed call to hawkBit uses up one of the faults.
LEMMA FaultType ==
    ASSUME BoundsOK, Fault
    PROVE  BoundsOK' /\ spent'.acts = spent.acts /\ spent'.faults = spent.faults + 1
BY OtaAssumption DEF BoundsOK, Fault

\* The counters of what is bounded stay within the bounds.
LEMMA BoundsType ==
    ASSUME BoundsOK
    PROVE  spent.acts \in Nat /\ spent.faults \in Nat /\ spent.signIns \in Nat
BY OtaAssumption DEF BoundsOK

---------------------------------------------------------------------------
(* Steps of the page that hawkBit does not see.                              *)
\* A request that is made, other than an upload or a deployment.
LEMMA AskingOK ==
    ASSUME IInv, NEW c \in Slot, job[c] = NoJob, NEW r \in Request, Ask(c, r),
           r.op \notin {"upload", "deploy"}, r.at = "sent", r.op = "status" => r.to \in Device,
           page' \in Page, page'.uploading = page.uploading, ~page'.signedIn => page' = page,
           r.awaited => page'.signedIn,
           expired' \in BOOLEAN, (expired => expired') \/ ~page.signedIn,
           BoundsOK', spent.acts <= spent'.acts, spent.faults <= spent'.faults,
           UNCHANGED <<hawkbit, story>>
    PROVE  IInv'
<1>1. /\ r # NoJob /\ job' \in Jobs /\ job'[c] = r
      /\ \A b \in Slot : b # c => job'[b] = job[b]
  BY OtaAssumption, AskType DEF IInv, Jobs
<1>2. hawkbit' = hawkbit /\ clicks' = clicks /\ toasts' = toasts /\ confirmed' = confirmed
  BY DEF story
<1>3. HawkbitOK' /\ HistoryOK' /\ UploadedIsWhole' /\ hawkbit.lastId \in Nat
  BY <1>2 DEF IInv, HawkbitOK, HistoryOK, UploadedIsWhole, Exists
<1>4. IdsInReserve' /\ DeploymentsInReserve'
  BY <1>1, <1>2, ReservesKept
<1>5. PageFits' /\ PageWaits'
  BY <1>1, PageKept DEF Awaits
<1>6. Fits(r)'
  BY DEF Fits
<1>7. JobsFit'
  BY <1>2, <1>3, <1>6, FitsKept
<1>. QED
  BY <1>1, <1>3, <1>4, <1>5, <1>7 DEF IInv, Jobs

\* login.js: a new session, and the firmware is asked for.
LEMMA SignInOK == ASSUME IInv, NEW c \in Slot, SignIn(c) PROVE IInv'
<1>. DEFINE r == Call("list", 0, NoDevice)
<1>1. /\ ~page.signedIn /\ job[c] = NoJob /\ page' = OtaPage /\ expired' = FALSE
      /\ Ask(c, r) /\ spent.signIns < MaxSignIns
      /\ spent' = [spent EXCEPT !.signIns = @ + 1] /\ UNCHANGED <<hawkbit, story>>
  BY DEF SignIn
<1>2. r \in Request /\ r.op = "list" /\ r.at = "sent"
  BY Asked, OtaAssumption DEF Call, Request, NetworkError
<1>. HIDE DEF r
<1>3. BoundsOK' /\ spent'.acts = spent.acts /\ spent'.faults = spent.faults
  BY <1>1, OtaAssumption DEF IInv, BoundsOK
<1>4. page.uploading = FALSE
  BY <1>1, PagesType DEF IInv, PageFits
<1>5. expired' \in BOOLEAN /\ page' \in Page /\ page'.signedIn /\ page'.uploading = page.uploading
  BY <1>1, <1>4, PagesType
<1>6. spent.acts <= spent'.acts /\ spent.faults <= spent'.faults
  BY <1>3, BoundsType DEF IInv
<1>. QED
  BY <1>1, <1>2, <1>3, <1>5, <1>6, AskingOK

\* The list of firmware is asked for again.
LEMMA RefreshOK == ASSUME IInv, NEW c \in Slot, Refresh(c) PROVE IInv'
<1>. DEFINE r == Call("list", 0, NoDevice)
<1>1. /\ Act /\ page.signedIn /\ job[c] = NoJob /\ Ask(c, r)
      /\ UNCHANGED <<hawkbit, page, expired, story>>
  BY DEF Refresh, ActOnPage
<1>2. r \in Request /\ r.op = "list" /\ r.at = "sent"
  BY Asked, OtaAssumption DEF Call, Request, NetworkError
<1>. HIDE DEF r
<1>3. BoundsOK' /\ spent.acts <= spent'.acts /\ spent.faults <= spent'.faults
  BY <1>1, ActType, BoundsType DEF IInv
<1>4. expired' \in BOOLEAN /\ page' \in Page /\ page' = page /\ expired' = expired
  BY <1>1 DEF IInv
<1>. QED
  BY <1>1, <1>2, <1>3, <1>4, AskingOK

\* The dialog opens, and its targets are asked for.
LEMMA OpenDeployOK == ASSUME IInv, NEW c \in Slot, NEW fw \in Firmware, OpenDeploy(c, fw) PROVE IInv'
<1>. DEFINE r == Call("targets", fw, NoDevice)
<1>1. /\ Act /\ page.signedIn /\ job[c] = NoJob /\ Ask(c, r)
      /\ page' = [page EXCEPT !.pending = fw] /\ UNCHANGED <<hawkbit, expired, story>>
  BY DEF OpenDeploy, ActOnPage
<1>2. r \in Request /\ r.op = "targets" /\ r.at = "sent"
  BY Asked, OtaAssumption DEF Call, Request, NetworkError
<1>. HIDE DEF r
<1>3. BoundsOK' /\ spent.acts <= spent'.acts /\ spent.faults <= spent'.faults
  BY <1>1, ActType, BoundsType DEF IInv
<1>4. /\ page' \in Page /\ page'.uploading = page.uploading /\ page'.signedIn = page.signedIn
  BY <1>1 DEF IInv, Page
<1>5. expired' \in BOOLEAN /\ expired' = expired
  BY <1>1 DEF IInv
<1>. QED
  BY <1>1, <1>2, <1>3, <1>4, <1>5, AskingOK

\* A device is tracked, and its status is asked for.
LEMMA StartTrackingOK ==
    ASSUME IInv, NEW c \in Slot, NEW d \in Device, StartTracking(c, d) PROVE IInv'
<1>. DEFINE r == Call("status", 0, d)
<1>1. /\ Act /\ page.signedIn /\ job[c] = NoJob /\ Ask(c, r)
      /\ page' = [page EXCEPT !.tracked = d, !.timer = TRUE] /\ UNCHANGED <<hawkbit, expired, story>>
  BY DEF StartTracking, ActOnPage, Tracking
<1>2. r \in Request /\ r.op = "status" /\ r.at = "sent" /\ r.to = d
  BY Asked, OtaAssumption DEF Call, Request, NetworkError
<1>. HIDE DEF r
<1>3. BoundsOK' /\ spent.acts <= spent'.acts /\ spent.faults <= spent'.faults
  BY <1>1, ActType, BoundsType DEF IInv
<1>4. /\ page' \in Page /\ page'.uploading = page.uploading /\ page'.signedIn = page.signedIn
  BY <1>1 DEF IInv, Page
<1>5. expired' \in BOOLEAN /\ expired' = expired
  BY <1>1 DEF IInv
<1>. QED
  BY <1>1, <1>2, <1>3, <1>4, <1>5, AskingOK

\* The timer asks for the status of the tracked device.
LEMMA PollOK == ASSUME IInv, NEW c \in Slot, Poll(c) PROVE IInv'
<1>. DEFINE r == Call("status", 0, page.tracked)
<1>1. /\ page.timer /\ page.tracked # NoDevice /\ job[c] = NoJob /\ Ask(c, r)
      /\ UNCHANGED <<hawkbit, page, expired, spent, story>>
  BY DEF Poll
<1>2. page.tracked \in Device /\ page.signedIn
  BY <1>1, PagesType DEF IInv, Page, PageFits
<1>3. r \in Request /\ r.op = "status" /\ r.at = "sent" /\ r.to \in Device
  BY <1>2, Asked, OtaAssumption DEF Call, Request, NetworkError
<1>. HIDE DEF r
<1>4. BoundsOK' /\ spent.acts <= spent'.acts /\ spent.faults <= spent'.faults
  BY <1>1, BoundsType DEF IInv, BoundsOK
<1>5. expired' \in BOOLEAN /\ page' \in Page /\ page' = page /\ expired' = expired
  BY <1>1 DEF IInv
<1>. QED
  BY <1>1, <1>2, <1>3, <1>4, <1>5, AskingOK

\* A module is deleted by a request that is not the page's.
LEMMA DeleteByScriptOK ==
    ASSUME IInv, NEW c \in Slot, NEW fw \in Firmware, DeleteByScript(c, fw) PROVE IInv'
<1>. DEFINE q == Call("delete", fw, NoDevice)
            r == [q EXCEPT !.awaited = FALSE]
<1>1. /\ Act /\ job[c] = NoJob /\ Ask(c, r) /\ UNCHANGED <<hawkbit, page, expired, story>>
  BY DEF DeleteByScript
<1>2. q \in Request /\ q.op = "delete" /\ q.at = "sent"
  BY Asked, OtaAssumption DEF Call, Request, NetworkError
<1>. HIDE DEF q
<1>3. r \in Request /\ r.op = "delete" /\ r.at = "sent" /\ r.awaited = FALSE
  BY <1>2 DEF Request
<1>. HIDE DEF r
<1>4. BoundsOK' /\ spent.acts <= spent'.acts /\ spent.faults <= spent'.faults
  BY <1>1, ActType, BoundsType DEF IInv
<1>5. expired' \in BOOLEAN /\ page' \in Page /\ page' = page /\ expired' = expired
  BY <1>1 DEF IInv
<1>. QED
  BY <1>1, <1>3, <1>4, <1>5, AskingOK

\* The page is left, by the button or after a 401: it waits for nothing any more.
LEMMA LeavingOK ==
    ASSUME IInv, page' = LoginPage, job' \in Jobs,
           \A c \in Slot : job'[c] # NoJob =>
              job[c] # NoJob /\ job'[c] = [job[c] EXCEPT !.awaited = FALSE],
           BoundsOK', spent.acts <= spent'.acts, spent'.faults = spent.faults,
           UNCHANGED <<hawkbit, expired, story>>
    PROVE  IInv'
<1>1. ASSUME NEW c \in Slot, job'[c] # NoJob
      PROVE  /\ job[c] \in Request /\ job[c] # NoJob /\ job'[c].awaited = FALSE
             /\ job'[c].op = job[c].op /\ job'[c].at = job[c].at /\ job'[c].fw = job[c].fw
             /\ job'[c].to = job[c].to /\ job'[c].code = job[c].code
  <2>1. job[c] \in Request /\ job[c] # NoJob /\ job'[c] = [job[c] EXCEPT !.awaited = FALSE]
    BY <1>1 DEF IInv
  <2>. QED
    BY <2>1 DEF Request
<1>2. /\ hawkbit' = hawkbit /\ clicks' = clicks /\ toasts' = toasts /\ confirmed' = confirmed
      /\ expired' = expired
  BY DEF story
<1>3. HawkbitOK' /\ HistoryOK' /\ UploadedIsWhole'
  BY <1>2 DEF IInv, HawkbitOK, HistoryOK, UploadedIsWhole, Exists
<1>4. IdsInReserve' /\ DeploymentsInReserve'
  BY <1>1, <1>2, ReservesKept
<1>5. PageFits' /\ PageWaits' /\ page' \in Page
  BY <1>1, PagesType DEF PageFits, PageWaits, Awaits
<1>6. JobsFit'
  BY <1>1, <1>2 DEF IInv, JobsFit, Fits
<1>7. expired' \in BOOLEAN
  BY <1>2 DEF IInv
<1>. QED
  BY <1>3, <1>4, <1>5, <1>6, <1>7 DEF IInv, Jobs

\* The button: the page forgets its requests.
LEMMA LogoutOK == ASSUME IInv, Logout PROVE IInv'
<1>1. page' = LoginPage /\ job' = Forsaken(job) /\ Act /\ UNCHANGED <<hawkbit, expired, story>>
  BY DEF Logout
<1>2. \A c \in Slot : job[c] # NoJob => [job[c] EXCEPT !.awaited = FALSE] \in Request
  BY DEF IInv, Request
<1>3. job' \in Jobs /\ \A c \in Slot : job'[c] # NoJob =>
                          job[c] # NoJob /\ job'[c] = [job[c] EXCEPT !.awaited = FALSE]
  BY <1>1, <1>2 DEF Forsaken, Jobs
<1>4. BoundsOK' /\ spent.acts <= spent'.acts /\ spent'.faults = spent.faults
  BY <1>1, ActType, BoundsType DEF IInv
<1>. QED
  BY <1>1, <1>3, <1>4, LeavingOK

\* apiFetch on a 401: the page is left, and its requests with it.
LEMMA UnauthorizedOK == ASSUME IInv, NEW c \in Slot, Unauthorized(c) PROVE IInv'
<1>. DEFINE jobs == [job EXCEPT ![c] = NoJob]
<1>1. /\ page' = LoginPage /\ job' = Forsaken(jobs)
      /\ UNCHANGED <<hawkbit, expired, spent, story>>
  BY DEF Unauthorized
<1>2. \A b \in Slot : jobs[b] # NoJob =>
         job[b] # NoJob /\ jobs[b] = job[b] /\ [job[b] EXCEPT !.awaited = FALSE] \in Request
  BY DEF IInv, Request
<1>. HIDE DEF jobs
<1>3. job' \in Jobs /\ \A b \in Slot : job'[b] # NoJob =>
                          job[b] # NoJob /\ job'[b] = [job[b] EXCEPT !.awaited = FALSE]
  BY <1>1, <1>2 DEF Forsaken, Jobs
<1>4. BoundsOK' /\ spent.acts <= spent'.acts /\ spent'.faults = spent.faults
  BY <1>1, BoundsType DEF IInv, BoundsOK
<1>. QED
  BY <1>1, <1>3, <1>4, LeavingOK

\* Nothing is asked and nothing answered.
LEMMA IdleOK ==
    ASSUME IInv, job' = job, page' \in Page, page'.uploading = page.uploading,
           page'.signedIn = page.signedIn, ~page.signedIn => page' = page,
           expired' \in BOOLEAN, expired => expired',
           BoundsOK', spent.acts <= spent'.acts, spent'.faults = spent.faults,
           HawkbitOK', hawkbit'.lastId = hawkbit.lastId, hawkbit'.artifact = hawkbit.artifact,
           hawkbit'.deployments = hawkbit.deployments, UNCHANGED story
    PROVE  IInv'
<1>1. clicks' = clicks /\ toasts' = toasts /\ confirmed' = confirmed
  BY DEF story
<1>2. HistoryOK' /\ UploadedIsWhole'
  BY <1>1 DEF IInv, HistoryOK, UploadedIsWhole, Exists
<1>3. IdsInReserve' /\ DeploymentsInReserve'
  BY <1>1, ReservesKept
<1>4. PageFits'
  BY DEF IInv, PageFits
<1>5. PageWaits'
  BY DEF IInv, PageWaits, Awaits
<1>6. JobsFit'
  BY DEF IInv, JobsFit, Fits
<1>. QED
  BY <1>2, <1>3, <1>4, <1>5, <1>6 DEF IInv

\* The dialog closes; the token runs out.
LEMMA CloseModalExpireOK == ASSUME IInv, CloseModal \/ Expire PROVE IInv'
<1>1. CASE CloseModal
  <2>1. /\ Act /\ page.modal /\ page' = [page EXCEPT !.modal = FALSE]
        /\ UNCHANGED <<hawkbit, job, expired, story>>
    BY <1>1 DEF CloseModal
  <2>2. BoundsOK' /\ spent.acts <= spent'.acts /\ spent'.faults = spent.faults
    BY <2>1, ActType, BoundsType DEF IInv
  <2>3. /\ page' \in Page /\ page'.uploading = page.uploading /\ page'.signedIn = page.signedIn
    BY <2>1 DEF IInv, Page
  <2>4. page.signedIn
    BY <2>1, PagesType DEF IInv, PageFits
  <2>5. HawkbitOK' /\ expired' \in BOOLEAN
    BY <2>1 DEF IInv, HawkbitOK
  <2>. QED
    BY <2>1, <2>2, <2>3, <2>4, <2>5, IdleOK
<1>2. CASE Expire
  <2>1. expired' = TRUE /\ UNCHANGED <<hawkbit, job, page, spent, story>>
    BY <1>2 DEF Expire
  <2>2. BoundsOK' /\ spent.acts <= spent'.acts /\ spent'.faults = spent.faults
    BY <2>1, BoundsType DEF IInv, BoundsOK
  <2>3. HawkbitOK' /\ page' \in Page
    BY <2>1 DEF IInv, HawkbitOK
  <2>4. expired' \in BOOLEAN
    BY <2>1
  <2>. QED
    BY <2>1, <2>2, <2>3, <2>4, IdleOK
<1>. QED
  BY <1>1, <1>2

\* A device makes progress: hawkBit's modules and deployments stay as they are.
LEMMA ProgressOK == ASSUME IInv, NEW d \in Device, Progress(d) PROVE IInv'
<1>1. /\ hawkbit.progress[d] < MaxPct /\ hawkbit' = [hawkbit EXCEPT !.progress[d] = @ + 1]
      /\ UNCHANGED <<job, page, expired, spent, story>>
  BY DEF Progress
<1>2. /\ hawkbit'.lastId = hawkbit.lastId /\ hawkbit'.artifact = hawkbit.artifact
      /\ hawkbit'.deployments = hawkbit.deployments
      /\ hawkbit'.progress = [hawkbit.progress EXCEPT ![d] = @ + 1]
      /\ hawkbit' = [artifact |-> hawkbit'.artifact, lastId |-> hawkbit'.lastId,
                     deployments |-> hawkbit'.deployments, progress |-> hawkbit'.progress]
  BY <1>1 DEF IInv, HawkbitOK
<1>3. hawkbit'.progress \in [Device -> 0..MaxPct]
  BY <1>1, <1>2, OtaAssumption DEF IInv, HawkbitOK
<1>4. HawkbitOK'
  BY <1>2, <1>3 DEF IInv, HawkbitOK
<1>5. BoundsOK' /\ spent.acts <= spent'.acts /\ spent'.faults = spent.faults
  BY <1>1, BoundsType DEF IInv, BoundsOK
<1>6. page' \in Page /\ expired' \in BOOLEAN
  BY <1>1 DEF IInv
<1>. QED
  BY <1>1, <1>2, <1>4, <1>5, <1>6, IdleOK

---------------------------------------------------------------------------
(* Steps that fill a reserve.                                                *)
\* A step of one slot leaves the others' requests where they are.
LEMMA OthersStay ==
    ASSUME IInv, NEW c \in Slot, NEW r \in Request \cup {NoJob}, Ask(c, r)
    PROVE  /\ Creating' \in SUBSET Slot /\ Creating \in SUBSET Slot
           /\ Creating' \ {c} = Creating \ {c}
           /\ \A x \in Firmware \X Target :
                 /\ Unmade(x)' \in SUBSET Slot /\ Unmade(x) \in SUBSET Slot
                 /\ Unannounced(x)' \in SUBSET Slot /\ Unannounced(x) \in SUBSET Slot
                 /\ Unmade(x)' \ {c} = Unmade(x) \ {c}
                 /\ Unannounced(x)' \ {c} = Unannounced(x) \ {c}
<1>1. job'[c] = r /\ \A b \in Slot : b # c => job'[b] = job[b]
  BY AskType DEF IInv, Jobs
<1>. QED
  BY <1>1 DEF Creating, Unmade, Unannounced, Success

\* An upload takes the one place an upload has.
LEMMA SubmitUploadOK == ASSUME IInv, NEW c \in Slot, SubmitUpload(c) PROVE IInv'
<1>. DEFINE r == Call("upload", 0, NoDevice)
<1>1. /\ Act /\ page.signedIn /\ ~page.uploading /\ job[c] = NoJob /\ Ask(c, r)
      /\ page' = [page EXCEPT !.uploading = TRUE] /\ UNCHANGED <<hawkbit, expired, story>>
  BY DEF SubmitUpload, ActOnPage
<1>2. /\ r \in Request /\ r # NoJob /\ r.op = "upload" /\ r.at = "sent" /\ r.awaited
  <2>1. r \in Request /\ r.op = "upload" /\ r.at = "sent"
    BY Asked, OtaAssumption DEF Call, Request, NetworkError
  <2>2. r.awaited
    BY DEF Call
  <2>. QED
    BY <2>1, <2>2, OtaAssumption
<1>. HIDE DEF r
<1>3. BoundsOK' /\ spent'.acts = spent.acts + 1 /\ spent'.faults = spent.faults
  BY <1>1, ActType DEF IInv
<1>4. job' \in Jobs /\ job'[c] = r /\ \A b \in Slot : b # c => job'[b] = job[b]
  BY <1>1, <1>2, AskType DEF IInv, Jobs
<1>5. /\ hawkbit' = hawkbit /\ clicks' = clicks /\ toasts' = toasts /\ confirmed' = confirmed
      /\ expired' = expired
  BY <1>1 DEF story
<1>6. HawkbitOK' /\ HistoryOK' /\ UploadedIsWhole' /\ expired' \in BOOLEAN
  BY <1>5 DEF IInv, HawkbitOK, HistoryOK, UploadedIsWhole, Exists
<1>7. page' \in Page /\ page'.signedIn = page.signedIn /\ page'.uploading = TRUE
  BY <1>1 DEF IInv, Page
<1>8. PageFits'
  BY <1>1, <1>2, <1>4, <1>7 DEF PageFits
<1>9. PageWaits'
  <2>1. \A b \in Slot : ~(Awaits(b) /\ job[b].op = "upload")
    BY <1>1 DEF IInv, PageFits, Awaits
  <2>2. \A b \in Slot : b # c => ~(Awaits(b)' /\ job'[b].op = "upload")
    BY <1>4, <2>1 DEF Awaits
  <2>. QED
    BY <1>1, <1>7, <2>2 DEF PageWaits
<1>10. JobsFit'
  <2>1. Fits(r)' /\ hawkbit.lastId <= hawkbit'.lastId /\ spent.faults <= spent'.faults
    BY <1>2, <1>3, <1>5, BoundsType DEF Fits, IInv, HawkbitOK
  <2>. QED
    BY <1>1, <1>2, <1>3, <1>5, <1>6, <2>1, FitsKept
<1>11. IdsInReserve'
  <2>1. /\ Cardinality(Creating) \in Nat /\ Cardinality(Creating') \in Nat
        /\ Cardinality(Creating') <= Cardinality(Creating) + 1
    BY <1>1, <1>2, OthersStay, OneSlotMore
  <2>2. spent.acts \in Nat /\ hawkbit.lastId \in Nat
    BY BoundsType DEF IInv, HawkbitOK
  <2>. QED
    BY <1>3, <1>5, <2>1, <2>2, OtaAssumption DEF IInv, IdsInReserve
<1>12. DeploymentsInReserve'
  <2>1. \A x \in Firmware \X Target : Unmade(x)' = Unmade(x) /\ Unannounced(x)' = Unannounced(x)
    BY <1>1, <1>2, <1>4 DEF Unmade, Unannounced, Success
  <2>. QED
    BY <1>5, <2>1 DEF IInv, DeploymentsInReserve
<1>. QED
  BY <1>3, <1>4, <1>6, <1>7, <1>8, <1>9, <1>10, <1>11, <1>12 DEF IInv, Jobs

\* A click puts a deployment in reserve.
LEMMA ConfirmDeployOK ==
    ASSUME IInv, NEW c \in Slot, NEW to \in Target, ConfirmDeploy(c, to) PROVE IInv'
<1>0. PICK fw \in Firmware :
         /\ fw = page.pending /\ Act /\ page.signedIn /\ job[c] = NoJob
         /\ Ask(c, Call("deploy", fw, to)) /\ clicks' = [clicks EXCEPT ![<<fw, to>>] = @ + 1]
         /\ UNCHANGED <<hawkbit, page, expired, toasts, confirmed>>
  BY DEF ConfirmDeploy, ActOnPage, IInv, Page
<1>. DEFINE r == Call("deploy", fw, to)
            y == <<fw, to>>
<1>1. /\ Act /\ page.signedIn /\ job[c] = NoJob /\ Ask(c, r)
      /\ clicks' = [clicks EXCEPT ![y] = @ + 1]
      /\ UNCHANGED <<hawkbit, page, expired, toasts, confirmed>>
  BY <1>0
<1>2. y \in Firmware \X Target
  OBVIOUS
<1>3. /\ r \in Request /\ r # NoJob /\ r.op = "deploy" /\ r.at = "sent" /\ r.awaited
      /\ r.fw = fw /\ r.to = to
  <2>1. r \in Request /\ r.op = "deploy" /\ r.at = "sent" /\ r.fw = fw /\ r.to = to
    BY Asked, OtaAssumption DEF Call, Request, NetworkError
  <2>2. r.awaited
    BY DEF Call
  <2>. QED
    BY <2>1, <2>2, OtaAssumption
<1>4. y = <<r.fw, r.to>>
  BY <1>3
<1>. HIDE DEF r, y
<1>5. BoundsOK' /\ spent'.acts = spent.acts + 1 /\ spent'.faults = spent.faults
  BY <1>1, ActType DEF IInv
<1>6. job' \in Jobs /\ job'[c] = r /\ \A b \in Slot : b # c => job'[b] = job[b]
  BY <1>1, <1>3, AskType DEF IInv, Jobs
<1>7. /\ clicks' \in [Firmware \X Target -> Nat] /\ clicks'[y] = clicks[y] + 1
      /\ \A x \in Firmware \X Target : x # y => clicks'[x] = clicks[x]
  BY <1>1, <1>2 DEF IInv, HistoryOK
<1>8. HawkbitOK' /\ HistoryOK' /\ UploadedIsWhole' /\ expired' \in BOOLEAN /\ page' \in Page
  BY <1>1, <1>7 DEF IInv, HawkbitOK, HistoryOK, UploadedIsWhole, Exists
<1>9. PageFits' /\ PageWaits'
  BY <1>1, <1>3, PageKept DEF Awaits
<1>10. JobsFit'
  <2>1. Fits(r)'
    <3>1. r.op = "deploy" /\ r.at = "sent" /\ r.fw \in Firmware /\ r.to \in Target
      BY <1>2, <1>3
    <3>. QED
      BY <3>1 DEF Fits
  <2>2. /\ hawkbit.lastId <= hawkbit'.lastId /\ spent.faults <= spent'.faults
        /\ expired' = expired
    BY <1>1, <1>5, BoundsType DEF IInv, HawkbitOK
  <2>. QED
    BY <1>1, <1>3, <1>5, <1>8, <2>1, <2>2, FitsKept
<1>11. IdsInReserve'
  <2>1. Creating' = Creating
    BY <1>1, <1>3, <1>6 DEF Creating
  <2>2. spent.acts \in Nat /\ hawkbit.lastId \in Nat /\ Cardinality(Creating) \in Nat
    BY BoundsType, FewerSlots DEF IInv, HawkbitOK, Creating
  <2>. QED
    BY <1>1, <1>5, <2>1, <2>2, OtaAssumption DEF IInv, IdsInReserve
<1>12. ASSUME NEW x \in Firmware \X Target
       PROVE  /\ toasts[x] + Cardinality(Unannounced(x)') <= hawkbit.deployments[x]
              /\ hawkbit.deployments[x] + Cardinality(Unmade(x)') <= clicks'[x]
  <2>1. Unannounced(x)' = Unannounced(x) /\ (x # y => Unmade(x)' = Unmade(x))
    BY <1>1, <1>3, <1>4, <1>6 DEF Unmade, Unannounced, Success
  <2>2. /\ Cardinality(Unmade(x)) \in Nat /\ Cardinality(Unmade(x)') \in Nat
        /\ Cardinality(Unmade(x)') <= Cardinality(Unmade(x)) + 1
    BY <1>1, <1>3, OthersStay, OneSlotMore
  <2>3. clicks[x] \in Nat /\ hawkbit.deployments[x] \in Nat
    BY DEF IInv, HistoryOK, HawkbitOK
  <2>4. /\ toasts[x] + Cardinality(Unannounced(x)) <= hawkbit.deployments[x]
        /\ hawkbit.deployments[x] + Cardinality(Unmade(x)) <= clicks[x]
    BY DEF IInv, DeploymentsInReserve
  <2>. QED
    BY <1>7, <2>1, <2>2, <2>3, <2>4
<1>13. DeploymentsInReserve'
  BY <1>1, <1>12 DEF DeploymentsInReserve
<1>. QED
  BY <1>5, <1>6, <1>8, <1>9, <1>10, <1>11, <1>13 DEF IInv, Jobs

---------------------------------------------------------------------------
(* The server's steps.                                                       *)
\* A request goes on without hawkBit's state being touched: it is accepted or answered, a
\* deployment only with a failure.
LEMMA ServedOK ==
    ASSUME IInv, NEW c \in Slot, job[c] # NoJob, NEW r \in Request, Ask(c, r),
           r.op = job[c].op, r.fw = job[c].fw, r.to = job[c].to, r.awaited = job[c].awaited,
           r.at = "answered" \/ (r.at = "call" /\ job[c].at = "sent"),
           r.op = "deploy" /\ r.at = "answered" => r.code \notin {200, 201},
           r.at = "answered" /\ r.code = 401 => expired \/ r.from = "hawkBit",
           BoundsOK', spent.acts <= spent'.acts, spent.faults <= spent'.faults,
           UNCHANGED <<hawkbit, page, expired, story>>
    PROVE  IInv'
<1>1. /\ r # NoJob /\ job' \in Jobs /\ job'[c] = r
      /\ \A b \in Slot : b # c => job'[b] = job[b]
  BY OtaAssumption, AskType DEF IInv, Jobs
<1>2. /\ hawkbit' = hawkbit /\ clicks' = clicks /\ toasts' = toasts /\ confirmed' = confirmed
      /\ page' = page /\ expired' = expired
  BY DEF story
<1>3. HawkbitOK' /\ HistoryOK' /\ UploadedIsWhole' /\ hawkbit.lastId \in Nat
      /\ page' \in Page /\ expired' \in BOOLEAN
  BY <1>2 DEF IInv, HawkbitOK, HistoryOK, UploadedIsWhole, Exists
<1>4. IdsInReserve' /\ DeploymentsInReserve'
  BY <1>1, <1>2, ReservesKept
<1>5. PageFits' /\ PageWaits'
  <2>1. r.awaited => page.signedIn
    BY DEF IInv, PageWaits, Awaits
  <2>. QED
    BY <1>1, <1>2, <2>1, PageKept DEF Awaits
<1>6. Fits(r)'
  BY <1>2 DEF Fits, IInv, JobsFit
<1>7. JobsFit'
  BY <1>2, <1>3, <1>6, FitsKept
<1>. QED
  BY <1>1, <1>3, <1>4, <1>5, <1>7 DEF IInv, Jobs

\* The server takes a request, or turns its token down.
LEMMA AcceptOK == ASSUME IInv, NEW c \in Slot, Accept(c) PROVE IInv'
<1>1. /\ job[c] # NoJob /\ job[c].at = "sent" /\ UNCHANGED <<hawkbit, page, expired, spent, story>>
  BY DEF Accept, At
<1>2. job[c] \in Request
  BY <1>1 DEF IInv
<1>3. BoundsOK' /\ spent.acts <= spent'.acts /\ spent.faults <= spent'.faults
  BY <1>1, BoundsType DEF IInv, BoundsOK
<1>4. CASE expired /\ job[c].op # "delete"
  <2>. DEFINE r == Answered(c, 401)
  <2>1. /\ r \in Request /\ r.at = "answered" /\ r.code = 401 /\ r.op = job[c].op
        /\ r.fw = job[c].fw /\ r.to = job[c].to /\ r.awaited = job[c].awaited
    BY <1>2, AnsweredType DEF Code
  <2>2. Ask(c, r)
    BY <1>4 DEF Accept
  <2>. HIDE DEF r
  <2>. QED
    BY <1>1, <1>3, <1>4, <2>1, <2>2, ServedOK
<1>5. CASE ~(expired /\ job[c].op # "delete")
  <2>. DEFINE r == [job[c] EXCEPT !.at = "call"]
  <2>1. /\ r \in Request /\ r.at = "call" /\ r.op = job[c].op
        /\ r.fw = job[c].fw /\ r.to = job[c].to /\ r.awaited = job[c].awaited
    BY <1>2 DEF Request
  <2>2. Ask(c, r)
    BY <1>5 DEF Accept
  <2>. HIDE DEF r
  <2>. QED
    BY <1>1, <1>3, <2>1, <2>2, ServedOK
<1>. QED
  BY <1>4, <1>5

\* A call that hawkBit turned down, or that failed before it got there.
LEMMA FailedOK ==
    ASSUME IInv, NEW c \in Slot, job[c] # NoJob, NEW f \in Failures(c) \cup {Answered(c, 404)},
           Ask(c, f), Fault \/ spent' = spent,
           UNCHANGED <<hawkbit, page, expired, story>>
    PROVE  IInv'
<1>1. job[c] \in Request
  BY DEF IInv
<1>2. /\ f \in Request /\ f.at = "answered" /\ f.op = job[c].op /\ f.fw = job[c].fw
      /\ f.to = job[c].to /\ f.awaited = job[c].awaited /\ f.code \notin {200, 201}
      /\ f.code = 401 => f.from = "hawkBit"
  BY <1>1, FailureType
<1>3. BoundsOK' /\ spent.acts <= spent'.acts /\ spent.faults <= spent'.faults
  <2>1. CASE Fault
    BY <2>1, FaultType, BoundsType DEF IInv
  <2>2. CASE spent' = spent
    BY <2>2, BoundsType DEF IInv, BoundsOK
  <2>. QED
    BY <2>1, <2>2
<1>. QED
  BY <1>2, <1>3, ServedOK

\* What one call to hawkBit comes to.
LEMMA CallOutcomes ==
    ASSUME NEW c \in Slot, NEW possible \in BOOLEAN, NEW after, NEW next,
           HawkbitCall(c, possible, after, next)
    PROVE  \/ possible /\ hawkbit' = after /\ Ask(c, next) /\ spent' = spent
           \/ hawkbit' = hawkbit /\ Ask(c, Answered(c, 404)) /\ spent' = spent
           \/ hawkbit' = hawkbit /\ Fault /\ \E f \in Failures(c) : Ask(c, f)
           \/ possible /\ hawkbit' = after /\ Fault /\ Ask(c, Answered(c, 502))
BY DEF HawkbitCall, Failures

\* A call costs no act, and at most a fault.
LEMMA CallBounds ==
    ASSUME BoundsOK, spent' = spent \/ Fault
    PROVE  BoundsOK' /\ spent'.acts = spent.acts /\ spent.faults <= spent'.faults
<1>1. CASE spent' = spent
  BY <1>1, BoundsType DEF BoundsOK
<1>2. CASE Fault
  BY <1>2, FaultType, BoundsType
<1>. QED
  BY <1>1, <1>2

\* Calls that only read: the lists and the progress, whatever comes of the call.
LEMMA ReadingOK ==
    ASSUME IInv, NEW c \in Slot, job[c] # NoJob, job[c].op \in {"list", "status", "targets"},
           NEW r \in Request, r.at = "answered", r.code = 200,
           r.op = job[c].op, r.fw = job[c].fw, r.to = job[c].to, r.awaited = job[c].awaited,
           \/ Ask(c, r) /\ spent' = spent
           \/ Ask(c, Answered(c, 404)) /\ spent' = spent
           \/ Fault /\ \E f \in Failures(c) : Ask(c, f),
           UNCHANGED <<hawkbit, page, expired, story>>
    PROVE  IInv'
<1>1. CASE Ask(c, r) /\ spent' = spent
  <2>1. BoundsOK' /\ spent.acts <= spent'.acts /\ spent.faults <= spent'.faults
    BY <1>1, CallBounds, BoundsType DEF IInv
  <2>. QED
    BY <1>1, <2>1, ServedOK
<1>2. CASE Ask(c, Answered(c, 404)) /\ spent' = spent
  BY <1>2, FailedOK
<1>3. CASE Fault /\ \E f \in Failures(c) : Ask(c, f)
  <2>1. PICK f \in Failures(c) : Ask(c, f)
    BY <1>3
  <2>. QED
    BY <1>3, <2>1, FailedOK
<1>. QED
  BY <1>1, <1>2, <1>3

\* The list of firmware, from hawkBit's modules as they are.
LEMMA ListFirmwareOK == ASSUME IInv, NEW c \in Slot, ListFirmware(c) PROVE IInv'
<1>. DEFINE q == Answered(c, 200)
            r == [q EXCEPT !.ids = DOMAIN hawkbit.artifact]
<1>1. /\ job[c] # NoJob /\ job[c].op = "list" /\ HawkbitCall(c, TRUE, hawkbit, r)
      /\ UNCHANGED <<page, expired, story>>
  BY DEF ListFirmware, Serves, At
<1>2. /\ q \in Request /\ q.at = "answered" /\ q.code = 200 /\ q.op = job[c].op
      /\ q.fw = job[c].fw /\ q.to = job[c].to /\ q.awaited = job[c].awaited
  BY <1>1, AnsweredType DEF IInv, Code
<1>3. DOMAIN hawkbit.artifact \in SUBSET Firmware
  <2>1. hawkbit.lastId <= Stock + MaxActs /\ hawkbit.lastId \in Nat
    <3>1. Cardinality(Creating) \in Nat
      BY FewerSlots DEF Creating
    <3>2. hawkbit.lastId \in Nat /\ spent.acts \in 0..MaxActs
      BY DEF IInv, HawkbitOK, BoundsOK
    <3>. QED
      BY <3>1, <3>2, OtaAssumption DEF IInv, IdsInReserve
  <2>. QED
    BY <2>1, OtaAssumption DEF IInv, HawkbitOK, Firmware
<1>. HIDE DEF q
<1>4. /\ r \in Request /\ r.at = "answered" /\ r.code = 200 /\ r.op = job[c].op
      /\ r.fw = job[c].fw /\ r.to = job[c].to /\ r.awaited = job[c].awaited
  BY <1>2, <1>3 DEF Request
<1>. HIDE DEF r
<1>5. hawkbit' = hawkbit /\ (\/ Ask(c, r) /\ spent' = spent
                             \/ Ask(c, Answered(c, 404)) /\ spent' = spent
                             \/ Fault /\ \E f \in Failures(c) : Ask(c, f))
  BY <1>1 DEF HawkbitCall, Failures
<1>. QED
  BY <1>1, <1>4, <1>5, ReadingOK

\* The status of a device, from hawkBit's progress as it is.
LEMMA OtaStatusOK == ASSUME IInv, NEW c \in Slot, OtaStatus(c) PROVE IInv'
<1>. DEFINE q == Answered(c, 200)
            r == [q EXCEPT !.pct = hawkbit.progress[job[c].to]]
<1>1. /\ job[c] # NoJob /\ job[c].op = "status" /\ HawkbitCall(c, TRUE, hawkbit, r)
      /\ UNCHANGED <<page, expired, story>>
  BY DEF OtaStatus, Serves, At
<1>2. /\ q \in Request /\ q.at = "answered" /\ q.code = 200 /\ q.op = job[c].op
      /\ q.fw = job[c].fw /\ q.to = job[c].to /\ q.awaited = job[c].awaited
  BY <1>1, AnsweredType DEF IInv, Code
<1>3. hawkbit.progress[job[c].to] \in 0..MaxPct
  BY <1>1 DEF IInv, HawkbitOK, JobsFit, Fits
<1>. HIDE DEF q
<1>4. /\ r \in Request /\ r.at = "answered" /\ r.code = 200 /\ r.op = job[c].op
      /\ r.fw = job[c].fw /\ r.to = job[c].to /\ r.awaited = job[c].awaited
  BY <1>2, <1>3 DEF Request
<1>. HIDE DEF r
<1>5. hawkbit' = hawkbit /\ (\/ Ask(c, r) /\ spent' = spent
                             \/ Ask(c, Answered(c, 404)) /\ spent' = spent
                             \/ Fault /\ \E f \in Failures(c) : Ask(c, f))
  BY <1>1 DEF HawkbitCall, Failures
<1>. QED
  BY <1>1, <1>4, <1>5, ReadingOK

\* The targets, from the process's own tables.
LEMMA TargetsOK == ASSUME IInv, NEW c \in Slot, Targets(c) PROVE IInv'
<1>. DEFINE r == Answered(c, 200)
<1>1. /\ job[c] # NoJob /\ job[c].op = "targets" /\ Ask(c, r)
      /\ UNCHANGED <<hawkbit, page, expired, spent, story>>
  BY DEF Targets, Serves, At
<1>2. /\ r \in Request /\ r.at = "answered" /\ r.code = 200 /\ r.op = job[c].op
      /\ r.fw = job[c].fw /\ r.to = job[c].to /\ r.awaited = job[c].awaited
  BY <1>1, AnsweredType DEF IInv, Code
<1>. HIDE DEF r
<1>. QED
  BY <1>1, <1>2, ReadingOK

---------------------------------------------------------------------------
(* Calls that change hawkBit's state.                                        *)
\* What such a call leaves alone, given what it does to hawkBit and to the reserves.
LEMMA ChangingOK ==
    ASSUME IInv, NEW c \in Slot, job[c] # NoJob, NEW r \in Request, Ask(c, r),
           r.op = job[c].op, r.to = job[c].to, r.awaited = job[c].awaited,
           r.op \in {"upload", "delete", "deploy"}, r.op = "deploy" => r.fw = job[c].fw,
           r.at = "answered" \/ (r.at = "upload" /\ r.fw \in 1..hawkbit'.lastId),
           r.at = "answered" => r.code # 401, page' = page, expired' = expired,
           HawkbitOK', HistoryOK', hawkbit.lastId <= hawkbit'.lastId,
           spent' = spent \/ Fault,
           IdsInReserve', DeploymentsInReserve', UploadedIsWhole'
    PROVE  IInv'
<1>1. r # NoJob /\ job' \in Jobs
  BY OtaAssumption, AskType DEF IInv, Jobs
<1>2. BoundsOK' /\ spent.faults <= spent'.faults
  BY CallBounds DEF IInv
<1>3. page' \in Page /\ expired' \in BOOLEAN
  BY DEF IInv
<1>4. PageFits' /\ PageWaits'
  <2>1. r.awaited => page.signedIn
    BY DEF IInv, PageWaits, Awaits
  <2>. QED
    BY <1>1, <2>1, PageKept DEF Awaits
<1>5. Fits(r)'
  <2>1. r.op = "deploy" => r.fw \in Firmware /\ r.to \in Target
    BY DEF IInv, JobsFit, Fits
  <2>. QED
    BY <2>1 DEF Fits
<1>6. JobsFit'
  BY <1>2, <1>5, FitsKept
<1>. QED
  BY <1>1, <1>2, <1>3, <1>4, <1>6 DEF IInv, Jobs

\* The modules change, and nothing else that hawkBit keeps.
LEMMA ModulesChange ==
    ASSUME IInv, NEW id \in Nat, NEW a, hawkbit' = [hawkbit EXCEPT !.lastId = id, !.artifact = a],
           a \in [DOMAIN a -> BOOLEAN], DOMAIN a \subseteq 1..id
    PROVE  /\ HawkbitOK' /\ hawkbit'.lastId = id /\ hawkbit'.artifact = a
           /\ hawkbit'.deployments = hawkbit.deployments
<1>1. /\ hawkbit'.lastId = id /\ hawkbit'.artifact = a
      /\ hawkbit'.deployments = hawkbit.deployments /\ hawkbit'.progress = hawkbit.progress
      /\ hawkbit' = [artifact |-> hawkbit'.artifact, lastId |-> hawkbit'.lastId,
                     deployments |-> hawkbit'.deployments, progress |-> hawkbit'.progress]
  BY DEF IInv, HawkbitOK
<1>. QED
  BY <1>1 DEF IInv, HawkbitOK

\* A step of one slot that is no deployment, before or after, takes and adds none.
LEMMA NoDeployment ==
    ASSUME IInv, NEW c \in Slot, NEW r \in Request \cup {NoJob}, Ask(c, r),
           job[c] # NoJob => job[c].op # "deploy", r # NoJob => r.op # "deploy",
           hawkbit'.deployments = hawkbit.deployments, clicks' = clicks, toasts' = toasts
    PROVE  DeploymentsInReserve'
<1>1. job'[c] = r /\ \A b \in Slot : b # c => job'[b] = job[b]
  BY AskType DEF IInv, Jobs
<1>2. \A x \in Firmware \X Target : Unmade(x)' = Unmade(x) /\ Unannounced(x)' = Unannounced(x)
  BY <1>1 DEF Unmade, Unannounced, Success
<1>. QED
  BY <1>2 DEF IInv, DeploymentsInReserve

\* A step of one slot that is no upload yet to create its module afterwards.
LEMMA NoCreation ==
    ASSUME IInv, NEW c \in Slot, NEW r \in Request \cup {NoJob}, Ask(c, r),
           r # NoJob => r.op # "upload" \/ r.at \notin {"sent", "call"},
           hawkbit'.lastId = hawkbit.lastId, spent'.acts = spent.acts
    PROVE  IdsInReserve'
<1>1. job'[c] = r /\ \A b \in Slot : b # c => job'[b] = job[b]
  BY AskType DEF IInv, Jobs
<1>2. Creating' \in SUBSET Creating /\ Creating \in SUBSET Slot
  BY <1>1 DEF Creating
<1>3. /\ Cardinality(Creating) \in Nat /\ Cardinality(Creating') \in Nat
      /\ Cardinality(Creating') <= Cardinality(Creating)
  BY <1>2, FewerSlots
<1>. QED
  BY <1>3, BoundsType, OtaAssumption DEF IInv, IdsInReserve, HawkbitOK

\* The first call of an upload: an empty module, with an id that nobody had.
LEMMA CreateModuleOK == ASSUME IInv, NEW c \in Slot, CreateModule(c) PROVE IInv'
<1>. DEFINE id == hawkbit.lastId + 1
            a == [x \in DOMAIN hawkbit.artifact \cup {id} |-> x # id /\ hawkbit.artifact[x]]
            after == [hawkbit EXCEPT !.lastId = id, !.artifact = a]
            next == [job[c] EXCEPT !.at = "upload", !.fw = id]
<1>1. /\ job[c] # NoJob /\ job[c].op = "upload" /\ job[c].at = "call"
      /\ HawkbitCall(c, TRUE, after, next) /\ UNCHANGED <<page, expired, story>>
  BY DEF CreateModule, Serves, At
<1>2. job[c] \in Request /\ c \in Creating
  BY <1>1 DEF IInv, Creating
<1>3. hawkbit.lastId \in Nat /\ id \in Nat /\ id \in 1..id /\ id \in Firmware
  <2>1. /\ Cardinality(Creating) \in Nat
        /\ Cardinality({}) \in Nat /\ Cardinality({}) + 1 <= Cardinality(Creating)
    BY <1>2, OneSlotLess DEF Creating
  <2>2. hawkbit.lastId \in Nat /\ spent.acts \in 0..MaxActs
    BY DEF IInv, HawkbitOK, BoundsOK
  <2>. QED
    BY <2>1, <2>2, OtaAssumption DEF IInv, IdsInReserve, Firmware
<1>4. /\ next \in Request /\ next.at = "upload" /\ next.fw = id /\ next.op = job[c].op
      /\ next.to = job[c].to /\ next.awaited = job[c].awaited /\ next.code = job[c].code
  BY <1>2, <1>3 DEF Request
<1>5. /\ a \in [DOMAIN hawkbit.artifact \cup {id} -> BOOLEAN]
      /\ \A x \in DOMAIN hawkbit.artifact : x # id => a[x] = (x # id /\ hawkbit.artifact[x])
  OBVIOUS
<1>6. DOMAIN a = DOMAIN hawkbit.artifact \cup {id} /\ DOMAIN a \subseteq 1..id
  <2>1. DOMAIN hawkbit.artifact \subseteq 1..hawkbit.lastId
    BY DEF IInv, HawkbitOK
  <2>. QED
    BY <1>3, <2>1
<1>. DEFINE failed == Answered(c, 502)
<1>7. /\ failed \in Request /\ failed.at = "answered" /\ failed.op = job[c].op
      /\ failed.to = job[c].to /\ failed.awaited = job[c].awaited /\ failed.code = 502
  BY <1>2, AnsweredType DEF Code
<1>. HIDE DEF next, failed
<1>8. ASSUME hawkbit' = after, spent' = spent \/ Fault, NEW r \in {next, failed}, Ask(c, r)
      PROVE  IInv'
  <2>1. /\ HawkbitOK' /\ hawkbit'.lastId = id /\ hawkbit'.artifact = a
        /\ hawkbit'.deployments = hawkbit.deployments
    <3>. HIDE DEF a, id
    <3>. QED
      BY <1>3, <1>5, <1>6, <1>8, ModulesChange
  <2>2. r \in Request /\ r.op = "upload" /\ r.at \in {"upload", "answered"}
    BY <1>1, <1>4, <1>7, <1>8
  <2>3. clicks' = clicks /\ toasts' = toasts /\ confirmed' = confirmed
    BY <1>1 DEF story
  <2>4. confirmed \subseteq 1..hawkbit.lastId /\ confirmed \subseteq 1..id /\ id \notin confirmed
    <3>1. confirmed \subseteq 1..hawkbit.lastId
      BY DEF IInv, HistoryOK
    <3>. QED
      BY <1>3, <3>1
  <2>5. HistoryOK'
    BY <2>1, <2>3, <2>4 DEF IInv, HistoryOK
  <2>6. UploadedIsWhole'
    <3>1. ASSUME NEW fw \in confirmed, fw \in DOMAIN a
          PROVE  a[fw]
      <4>1. fw # id /\ fw \in DOMAIN hawkbit.artifact
        BY <1>6, <2>4, <3>1
      <4>2. hawkbit.artifact[fw]
        BY <4>1 DEF IInv, UploadedIsWhole, Exists
      <4>. QED
        BY <4>1, <4>2
    <3>. HIDE DEF a
    <3>. QED
      BY <2>1, <2>3, <3>1 DEF UploadedIsWhole, Exists
  <2>7. DeploymentsInReserve'
    BY <1>1, <1>8, <2>1, <2>2, <2>3, NoDeployment
  <2>8. IdsInReserve'
    <3>1. Creating' \in SUBSET (Creating \ {c}) /\ Creating \in SUBSET Slot
      <4>1. c \notin Creating'
        BY <1>8, <2>2, AskType DEF Creating, IInv, Jobs
      <4>. QED
        BY <1>8, <2>2, <4>1, OthersStay
    <3>2. /\ Cardinality(Creating) \in Nat /\ Cardinality(Creating') \in Nat
          /\ Cardinality(Creating') + 1 <= Cardinality(Creating)
      BY <1>2, <3>1, OneSlotLess
    <3>3. spent'.acts = spent.acts /\ spent.acts \in Nat
      BY <1>8, CallBounds, BoundsType DEF IInv
    <3>. QED
      BY <1>3, <2>1, <3>2, <3>3, OtaAssumption DEF IInv, IdsInReserve
  <2>9. /\ r.op = job[c].op /\ r.to = job[c].to /\ r.awaited = job[c].awaited
        /\ r.at = "answered" => r.code # 401
        /\ r.at = "answered" \/ (r.at = "upload" /\ r.fw \in 1..hawkbit'.lastId)
        /\ hawkbit.lastId <= hawkbit'.lastId
    BY <1>3, <1>4, <1>7, <1>8, <2>1
  <2>. QED
    BY <1>1, <1>8, <2>1, <2>2, <2>5, <2>6, <2>7, <2>8, <2>9, ChangingOK
<1>9. \/ hawkbit' = after /\ Ask(c, next) /\ spent' = spent
      \/ hawkbit' = hawkbit /\ spent' = spent /\ Ask(c, Answered(c, 404))
      \/ hawkbit' = hawkbit /\ Fault /\ \E f \in Failures(c) : Ask(c, f)
      \/ hawkbit' = after /\ Fault /\ Ask(c, failed)
  <2>. HIDE DEF after
  <2>. QED
    BY <1>1 DEF HawkbitCall, Failures, failed
<1>. HIDE DEF after
<1>10. CASE hawkbit' = hawkbit
  <2>1. UNCHANGED <<hawkbit, page, expired, story>>
    BY <1>1, <1>10
  <2>2. ASSUME Ask(c, Answered(c, 404)), spent' = spent
        PROVE  IInv'
    BY <1>1, <2>1, <2>2, FailedOK
  <2>3. ASSUME NEW f \in Failures(c), Fault, Ask(c, f)
        PROVE  IInv'
    BY <1>1, <2>1, <2>3, FailedOK
  <2>. QED
    BY <1>8, <1>9, <2>2, <2>3
<1>. QED
  BY <1>8, <1>9, <1>10

\* A call that hawkBit turned down, did not know the subject of, or never got.
LEMMA FailedCallOK ==
    ASSUME IInv, NEW c \in Slot, job[c] # NoJob, UNCHANGED <<hawkbit, page, expired, story>>,
           \/ Ask(c, Answered(c, 404)) /\ spent' = spent
           \/ Fault /\ \E f \in Failures(c) : Ask(c, f)
    PROVE  IInv'
<1>1. CASE Ask(c, Answered(c, 404)) /\ spent' = spent
  BY <1>1, FailedOK
<1>2. ASSUME NEW f \in Failures(c), Fault, Ask(c, f)
      PROVE  IInv'
  BY <1>2, FailedOK
<1>. QED
  BY <1>1, <1>2

\* The artifacts change, and nothing else that hawkBit keeps.
LEMMA ArtifactsChange ==
    ASSUME IInv, NEW a, hawkbit' = [hawkbit EXCEPT !.artifact = a],
           a \in [DOMAIN a -> BOOLEAN], DOMAIN a \subseteq DOMAIN hawkbit.artifact
    PROVE  /\ HawkbitOK' /\ hawkbit'.lastId = hawkbit.lastId /\ hawkbit'.artifact = a
           /\ hawkbit'.deployments = hawkbit.deployments
<1>1. /\ hawkbit'.lastId = hawkbit.lastId /\ hawkbit'.artifact = a
      /\ hawkbit'.deployments = hawkbit.deployments /\ hawkbit'.progress = hawkbit.progress
      /\ hawkbit' = [artifact |-> hawkbit'.artifact, lastId |-> hawkbit'.lastId,
                     deployments |-> hawkbit'.deployments, progress |-> hawkbit'.progress]
  BY DEF IInv, HawkbitOK
<1>. QED
  BY <1>1 DEF IInv, HawkbitOK

\* The second call of an upload completes the module, if it is still there.
LEMMA UploadArtifactOK == ASSUME IInv, NEW c \in Slot, UploadArtifact(c) PROVE IInv'
<1>. DEFINE fw == job[c].fw
            a == [x \in DOMAIN hawkbit.artifact |-> x = fw \/ hawkbit.artifact[x]]
            after == [hawkbit EXCEPT !.artifact = a]
            made == Answered(c, 201)
            failed == Answered(c, 502)
<1>1. /\ job[c] # NoJob /\ job[c].op = "upload" /\ job[c].at = "upload"
      /\ confirmed' = (IF job'[c].code = 201 THEN confirmed \cup {fw} ELSE confirmed)
      /\ UNCHANGED <<page, expired, clicks, toasts>>
  BY DEF UploadArtifact, Serves, At
<1>2. HawkbitCall(c, Exists(fw), after, made)
  BY DEF UploadArtifact
<1>3. job[c] \in Request /\ fw \in 1..hawkbit.lastId
  BY <1>1 DEF IInv, JobsFit, Fits
<1>4. /\ made \in Request /\ made.at = "answered" /\ made.op = job[c].op
      /\ made.to = job[c].to /\ made.awaited = job[c].awaited /\ made.code = 201
  BY <1>3, AnsweredType DEF Code
<1>5. /\ failed \in Request /\ failed.at = "answered" /\ failed.op = job[c].op
      /\ failed.to = job[c].to /\ failed.awaited = job[c].awaited /\ failed.code = 502
  BY <1>3, AnsweredType DEF Code
<1>6. \/ hawkbit' = after /\ Ask(c, made) /\ spent' = spent
      \/ hawkbit' = hawkbit /\ spent' = spent /\ Ask(c, Answered(c, 404))
      \/ hawkbit' = hawkbit /\ Fault /\ \E f \in Failures(c) : Ask(c, f)
      \/ hawkbit' = after /\ Fault /\ Ask(c, failed)
  <2>. HIDE DEF after, made
  <2>. QED
    BY <1>2 DEF HawkbitCall, Failures, failed
<1>7. /\ a \in [DOMAIN hawkbit.artifact -> BOOLEAN]
      /\ \A x \in DOMAIN hawkbit.artifact : a[x] <=> (x = fw \/ hawkbit.artifact[x])
  OBVIOUS
<1>8. DOMAIN a = DOMAIN hawkbit.artifact
  OBVIOUS
<1>. HIDE DEF made, failed
<1>9. ASSUME hawkbit' = after, spent' = spent \/ Fault, NEW r \in {made, failed}, Ask(c, r)
      PROVE  IInv'
  <2>1. /\ HawkbitOK' /\ hawkbit'.lastId = hawkbit.lastId /\ hawkbit'.artifact = a
        /\ hawkbit'.deployments = hawkbit.deployments
    <3>. HIDE DEF a
    <3>. QED
      BY <1>7, <1>8, <1>9, ArtifactsChange
  <2>2. /\ r \in Request /\ r.op = "upload" /\ r.at = "answered" /\ r.to = job[c].to
        /\ r.awaited = job[c].awaited /\ r.code # 401 /\ r.op = job[c].op
    BY <1>1, <1>4, <1>5, <1>9
  <2>3. confirmed' \subseteq confirmed \cup {fw}
    BY <1>1
  <2>4. HistoryOK'
    BY <1>1, <1>3, <2>1, <2>3 DEF IInv, HistoryOK
  <2>5. UploadedIsWhole'
    <3>1. ASSUME NEW x \in confirmed', x \in DOMAIN a
          PROVE  a[x]
      <4>1. x = fw \/ (x \in DOMAIN hawkbit.artifact => hawkbit.artifact[x])
        BY <2>3 DEF IInv, UploadedIsWhole, Exists
      <4>. HIDE DEF a
      <4>. QED
        BY <1>7, <1>8, <3>1, <4>1
    <3>. HIDE DEF a
    <3>. QED
      BY <2>1, <3>1 DEF UploadedIsWhole, Exists
  <2>6. DeploymentsInReserve'
    BY <1>1, <1>9, <2>1, <2>2, NoDeployment
  <2>7. spent'.acts = spent.acts
    BY <1>9, CallBounds DEF IInv
  <2>8. IdsInReserve'
    BY <1>9, <2>1, <2>2, <2>7, NoCreation
  <2>9. hawkbit.lastId <= hawkbit'.lastId
    BY <2>1 DEF IInv, HawkbitOK
  <2>. QED
    BY <1>1, <1>9, <2>1, <2>2, <2>4, <2>5, <2>6, <2>8, <2>9, ChangingOK
<1>. HIDE DEF after
<1>10. CASE /\ hawkbit' = hawkbit
            /\ \/ Ask(c, Answered(c, 404)) /\ spent' = spent
               \/ Fault /\ \E f \in Failures(c) : Ask(c, f)
  <2>1. ASSUME NEW f \in Failures(c) \cup {Answered(c, 404)}, Ask(c, f)
        PROVE  confirmed' = confirmed
    <3>1. f \in Request /\ f.code # 201
      BY <1>3, FailureType
    <3>2. job'[c].code # 201
      BY <2>1, <3>1, AskType DEF IInv, Jobs
    <3>. QED
      BY <1>1, <3>2
  <2>2. confirmed' = confirmed
    BY <1>10, <2>1
  <2>3. UNCHANGED <<hawkbit, page, expired, story>>
    BY <1>1, <1>10, <2>2 DEF story
  <2>. QED
    BY <1>1, <1>10, <2>3, FailedCallOK
<1>. QED
  BY <1>6, <1>9, <1>10

\* A module that is deleted goes with its artifact.
LEMMA DeleteModuleOK == ASSUME IInv, NEW c \in Slot, DeleteModule(c) PROVE IInv'
<1>. DEFINE fw == job[c].fw
            a == [x \in DOMAIN hawkbit.artifact \ {fw} |-> hawkbit.artifact[x]]
            after == [hawkbit EXCEPT !.artifact = a]
            made == Answered(c, 200)
            failed == Answered(c, 502)
<1>1. /\ job[c] # NoJob /\ job[c].op = "delete" /\ UNCHANGED <<page, expired, story>>
  BY DEF DeleteModule, Serves, At
<1>2. HawkbitCall(c, Exists(fw), after, made)
  BY DEF DeleteModule
<1>3. job[c] \in Request
  BY <1>1 DEF IInv
<1>4. /\ made \in Request /\ made.at = "answered" /\ made.op = job[c].op
      /\ made.to = job[c].to /\ made.awaited = job[c].awaited /\ made.code = 200
  BY <1>3, AnsweredType DEF Code
<1>5. /\ failed \in Request /\ failed.at = "answered" /\ failed.op = job[c].op
      /\ failed.to = job[c].to /\ failed.awaited = job[c].awaited /\ failed.code = 502
  BY <1>3, AnsweredType DEF Code
<1>6. \/ hawkbit' = after /\ Ask(c, made) /\ spent' = spent
      \/ hawkbit' = hawkbit /\ spent' = spent /\ Ask(c, Answered(c, 404))
      \/ hawkbit' = hawkbit /\ Fault /\ \E f \in Failures(c) : Ask(c, f)
      \/ hawkbit' = after /\ Fault /\ Ask(c, failed)
  <2>. HIDE DEF after, made
  <2>. QED
    BY <1>2 DEF HawkbitCall, Failures, failed
<1>7. /\ DOMAIN a = DOMAIN hawkbit.artifact \ {fw}
      /\ \A x \in DOMAIN a : a[x] = hawkbit.artifact[x]
      /\ a \in [DOMAIN a -> BOOLEAN]
  <2>1. hawkbit.artifact \in [DOMAIN hawkbit.artifact -> BOOLEAN]
    BY DEF IInv, HawkbitOK
  <2>. QED
    BY <2>1
<1>. HIDE DEF made, failed, a
<1>8. ASSUME hawkbit' = after, spent' = spent \/ Fault, NEW r \in {made, failed}, Ask(c, r)
      PROVE  IInv'
  <2>1. /\ HawkbitOK' /\ hawkbit'.lastId = hawkbit.lastId /\ hawkbit'.artifact = a
        /\ hawkbit'.deployments = hawkbit.deployments
    BY <1>7, <1>8, ArtifactsChange
  <2>2. /\ r \in Request /\ r.op = "delete" /\ r.at = "answered" /\ r.to = job[c].to
        /\ r.awaited = job[c].awaited /\ r.code # 401 /\ r.op = job[c].op
    BY <1>1, <1>4, <1>5, <1>8
  <2>3. clicks' = clicks /\ toasts' = toasts /\ confirmed' = confirmed
    BY <1>1 DEF story
  <2>4. HistoryOK'
    BY <2>1, <2>3 DEF IInv, HistoryOK
  <2>5. UploadedIsWhole'
    BY <1>7, <2>1, <2>3 DEF IInv, UploadedIsWhole, Exists
  <2>6. DeploymentsInReserve'
    BY <1>1, <1>8, <2>1, <2>2, <2>3, NoDeployment
  <2>7. spent'.acts = spent.acts
    BY <1>8, CallBounds DEF IInv
  <2>8. IdsInReserve'
    BY <1>8, <2>1, <2>2, <2>7, NoCreation
  <2>9. hawkbit.lastId <= hawkbit'.lastId
    BY <2>1 DEF IInv, HawkbitOK
  <2>. QED
    BY <1>1, <1>8, <2>1, <2>2, <2>4, <2>5, <2>6, <2>8, <2>9, ChangingOK
<1>. HIDE DEF after
<1>9. CASE /\ hawkbit' = hawkbit
           /\ \/ Ask(c, Answered(c, 404)) /\ spent' = spent
              \/ Fault /\ \E f \in Failures(c) : Ask(c, f)
  BY <1>1, <1>9, FailedCallOK
<1>. QED
  BY <1>6, <1>8, <1>9

\* A deployment that is made takes its click out of the reserve, whatever answer arrives.
LEMMA DeployOK == ASSUME IInv, NEW c \in Slot, Deploy(c) PROVE IInv'
<1>. DEFINE y == <<job[c].fw, job[c].to>>
            after == [hawkbit EXCEPT !.deployments[y] = @ + 1]
            made == Answered(c, 200)
            failed == Answered(c, 502)
<1>1. /\ job[c] # NoJob /\ job[c].op = "deploy" /\ job[c].at = "call"
      /\ UNCHANGED <<page, expired, story>>
  BY DEF Deploy, Serves, At
<1>2. HawkbitCall(c, Exists(job[c].fw), after, made)
  BY DEF Deploy
<1>3. job[c] \in Request /\ y \in Firmware \X Target
  BY <1>1 DEF IInv, JobsFit, Fits
<1>4. /\ made \in Request /\ made.at = "answered" /\ made.op = job[c].op /\ made.fw = job[c].fw
      /\ made.to = job[c].to /\ made.awaited = job[c].awaited /\ made.code = 200
  BY <1>3, AnsweredType DEF Code
<1>5. /\ failed \in Request /\ failed.at = "answered" /\ failed.op = job[c].op
      /\ failed.fw = job[c].fw
      /\ failed.to = job[c].to /\ failed.awaited = job[c].awaited /\ failed.code = 502
  BY <1>3, AnsweredType DEF Code
<1>6. \/ hawkbit' = after /\ Ask(c, made) /\ spent' = spent
      \/ hawkbit' = hawkbit /\ spent' = spent /\ Ask(c, Answered(c, 404))
      \/ hawkbit' = hawkbit /\ Fault /\ \E f \in Failures(c) : Ask(c, f)
      \/ hawkbit' = after /\ Fault /\ Ask(c, failed)
  <2>. HIDE DEF after, made
  <2>. QED
    BY <1>2 DEF HawkbitCall, Failures, failed
<1>7. hawkbit' = after =>
         /\ HawkbitOK' /\ hawkbit'.lastId = hawkbit.lastId /\ hawkbit'.artifact = hawkbit.artifact
         /\ hawkbit'.deployments[y] = hawkbit.deployments[y] + 1
         /\ \A x \in Firmware \X Target :
               x # y => hawkbit'.deployments[x] = hawkbit.deployments[x]
  <2>. SUFFICES ASSUME hawkbit' = after
                PROVE  /\ HawkbitOK' /\ hawkbit'.lastId = hawkbit.lastId
                       /\ hawkbit'.artifact = hawkbit.artifact
                       /\ hawkbit'.deployments[y] = hawkbit.deployments[y] + 1
                       /\ \A x \in Firmware \X Target :
                             x # y => hawkbit'.deployments[x] = hawkbit.deployments[x]
    OBVIOUS
  <2>. HIDE DEF y
  <2>1. /\ hawkbit'.lastId = hawkbit.lastId /\ hawkbit'.artifact = hawkbit.artifact
        /\ hawkbit'.deployments = [hawkbit.deployments EXCEPT ![y] = @ + 1]
        /\ hawkbit'.progress = hawkbit.progress
        /\ hawkbit' = [artifact |-> hawkbit'.artifact, lastId |-> hawkbit'.lastId,
                       deployments |-> hawkbit'.deployments, progress |-> hawkbit'.progress]
    BY DEF IInv, HawkbitOK
  <2>2. hawkbit.deployments \in [Firmware \X Target -> Nat]
    BY DEF IInv, HawkbitOK
  <2>3. /\ hawkbit'.deployments \in [Firmware \X Target -> Nat]
        /\ hawkbit'.deployments[y] = hawkbit.deployments[y] + 1
        /\ \A x \in Firmware \X Target : x # y => hawkbit'.deployments[x] = hawkbit.deployments[x]
    BY <1>3, <2>1, <2>2
  <2>4. HawkbitOK'
    BY <2>1, <2>3 DEF IInv, HawkbitOK
  <2>. QED
    BY <2>1, <2>3, <2>4
<1>. HIDE DEF made, failed, after
<1>8. ASSUME hawkbit' = after, spent' = spent \/ Fault, NEW r \in {made, failed}, Ask(c, r)
      PROVE  IInv'
  <2>1. /\ r \in Request /\ r.op = "deploy" /\ r.at = "answered" /\ r.to = job[c].to
        /\ r.awaited = job[c].awaited /\ r.code # 401 /\ r.op = job[c].op /\ r.fw = job[c].fw
    BY <1>1, <1>4, <1>5, <1>8
  <2>2. clicks' = clicks /\ toasts' = toasts /\ confirmed' = confirmed
    BY <1>1 DEF story
  <2>3. HistoryOK' /\ UploadedIsWhole'
    BY <1>7, <1>8, <2>2 DEF IInv, HistoryOK, UploadedIsWhole, Exists
  <2>4. job'[c] = r /\ \A b \in Slot : b # c => job'[b] = job[b]
    BY <1>8, <2>1, AskType DEF IInv, Jobs
  <2>5. ASSUME NEW x \in Firmware \X Target
        PROVE  /\ toasts[x] + Cardinality(Unannounced(x)') <= hawkbit'.deployments[x]
               /\ hawkbit'.deployments[x] + Cardinality(Unmade(x)') <= clicks[x]
    <3>1. /\ toasts[x] + Cardinality(Unannounced(x)) <= hawkbit.deployments[x]
          /\ hawkbit.deployments[x] + Cardinality(Unmade(x)) <= clicks[x]
      BY DEF IInv, DeploymentsInReserve
    <3>2. toasts[x] \in Nat /\ clicks[x] \in Nat /\ hawkbit.deployments[x] \in Nat
      BY DEF IInv, HistoryOK, HawkbitOK
    <3>3. CASE x = y
      <4>1. c \in Unmade(x) /\ c \notin Unmade(x)'
        BY <1>1, <2>1, <2>4, <3>3 DEF Unmade
      <4>2. Unmade(x)' \in SUBSET (Unmade(x) \ {c}) /\ Unmade(x) \in SUBSET Slot
        BY <1>8, <2>1, <4>1, OthersStay
      <4>3. /\ Cardinality(Unmade(x)) \in Nat /\ Cardinality(Unmade(x)') \in Nat
            /\ Cardinality(Unmade(x)') + 1 <= Cardinality(Unmade(x))
        BY <4>1, <4>2, OneSlotLess
      <4>4. /\ Unannounced(x)' \in SUBSET (Unannounced(x) \cup {c})
            /\ Unannounced(x) \in SUBSET Slot
        BY <1>8, <2>1, OthersStay
      <4>5. /\ Cardinality(Unannounced(x)) \in Nat /\ Cardinality(Unannounced(x)') \in Nat
            /\ Cardinality(Unannounced(x)') <= Cardinality(Unannounced(x)) + 1
        BY <4>4, OneSlotMore
      <4>. QED
        BY <1>7, <1>8, <3>1, <3>2, <3>3, <4>3, <4>5
    <3>4. CASE x # y
      <4>1. Unmade(x)' = Unmade(x) /\ Unannounced(x)' = Unannounced(x)
        BY <1>1, <2>1, <2>4, <3>4 DEF Unmade, Unannounced, Success
      <4>. QED
        BY <1>7, <1>8, <3>1, <3>4, <4>1
    <3>. QED
      BY <3>3, <3>4
  <2>6. DeploymentsInReserve'
    BY <2>2, <2>5 DEF DeploymentsInReserve
  <2>7. spent'.acts = spent.acts
    BY <1>8, CallBounds DEF IInv
  <2>8. IdsInReserve'
    BY <1>7, <1>8, <2>1, <2>7, NoCreation
  <2>9. hawkbit.lastId <= hawkbit'.lastId
    BY <1>7, <1>8 DEF IInv, HawkbitOK
  <2>. QED
    BY <1>1, <1>7, <1>8, <2>1, <2>3, <2>6, <2>8, <2>9, ChangingOK
<1>9. CASE /\ hawkbit' = hawkbit
           /\ \/ Ask(c, Answered(c, 404)) /\ spent' = spent
              \/ Fault /\ \E f \in Failures(c) : Ask(c, f)
  BY <1>1, <1>9, FailedCallOK
<1>. QED
  BY <1>6, <1>8, <1>9

---------------------------------------------------------------------------
(* The page's handlers go on.                                                *)
\* Whoever receives an answer is signed in.
LEMMA ReceiverType ==
    ASSUME IInv, NEW c \in Slot, job[c] # NoJob, job[c].awaited
    PROVE  page.signedIn /\ job[c] \in Request
BY DEF IInv, PageWaits, Awaits

\* An answer is taken, and at most a list or a status asked for.
LEMMA ReceivedOK ==
    ASSUME IInv, NEW c \in Slot, job[c] # NoJob, ~job[c].awaited \/ job[c].op # "upload",
           NEW r \in Request \cup {NoJob}, Ask(c, r),
           r # NoJob => r.op \in {"list", "status"} /\ r.at = "sent" /\ page.signedIn,
           r # NoJob /\ r.op = "status" => r.to \in Device,
           page' \in Page, page'.uploading = page.uploading, page'.signedIn = page.signedIn,
           ~page.signedIn => page' = page,
           hawkbit' = hawkbit, expired' = expired, spent' = spent, clicks' = clicks,
           confirmed' = confirmed, HistoryOK', DeploymentsInReserve'
    PROVE  IInv'
<1>1. job' \in Jobs
  BY AskType DEF IInv, Jobs
<1>2. HawkbitOK' /\ BoundsOK' /\ UploadedIsWhole' /\ expired' \in BOOLEAN
  BY DEF IInv, HawkbitOK, BoundsOK, UploadedIsWhole, Exists
<1>3. IdsInReserve'
  BY NoCreation
<1>4. PageFits' /\ PageWaits'
  BY PageKept DEF Awaits
<1>5. JobsFit'
  <2>1. r # NoJob => Fits(r)'
    BY DEF Fits
  <2>2. hawkbit.lastId <= hawkbit'.lastId /\ spent.faults <= spent'.faults
    BY BoundsType DEF IInv, HawkbitOK
  <2>. QED
    BY <1>2, <2>1, <2>2, FitsKept
<1>. QED
  BY <1>1, <1>2, <1>3, <1>4, <1>5 DEF IInv, Jobs

\* ... and nothing is announced.
LEMMA ReceivedQuietlyOK ==
    ASSUME IInv, NEW c \in Slot, job[c] # NoJob, ~job[c].awaited \/ job[c].op # "upload",
           Ask(c, NoJob), page' \in Page, page'.uploading = page.uploading,
           page'.signedIn = page.signedIn, ~page.signedIn => page' = page,
           UNCHANGED <<hawkbit, expired, spent, story>>
    PROVE  IInv'
<1>1. job'[c] = NoJob /\ \A b \in Slot : b # c => job'[b] = job[b]
  BY AskType DEF IInv, Jobs
<1>2. /\ hawkbit' = hawkbit /\ expired' = expired /\ spent' = spent /\ clicks' = clicks
      /\ toasts' = toasts /\ confirmed' = confirmed
  BY DEF story
<1>3. HistoryOK' /\ BoundsOK' /\ spent.acts <= spent'.acts
  BY <1>2, BoundsType DEF IInv, HistoryOK, BoundsOK
<1>4. DeploymentsInReserve'
  BY <1>1, <1>2, <1>3, ReservesKept
<1>5. NoJob \in Request \cup {NoJob}
  OBVIOUS
<1>. QED
  BY <1>2, <1>3, <1>4, <1>5, ReceivedOK

\* The handlers of answers that announce nothing.
LEMMA QuietReceiversOK ==
    ASSUME IInv, NEW c \in Slot, Discard(c) \/ FirmwareListed(c) \/ TargetsListed(c) \/ Polled(c)
    PROVE  IInv'
<1>1. /\ job[c] # NoJob /\ Ask(c, NoJob) /\ UNCHANGED <<hawkbit, expired, spent, story>>
      /\ ~job[c].awaited \/ job[c].op # "upload"
  BY DEF Discard, FirmwareListed, TargetsListed, Polled, Receives, Done, At
<1>2. page \in Page /\ job[c] \in Request
  BY <1>1 DEF IInv
<1>3. /\ page' \in Page /\ page'.uploading = page.uploading /\ page'.signedIn = page.signedIn
      /\ ~page.signedIn => page' = page
  <2>1. CASE Discard(c)
    BY <1>2, <2>1 DEF Discard
  <2>2. CASE FirmwareListed(c)
    <3>1. page.signedIn
      BY <1>1, <2>2, ReceiverType DEF FirmwareListed, Receives
    <3>2. page' = page \/ page' = [page EXCEPT !.firmware = job[c].ids]
      BY <2>2 DEF FirmwareListed
    <3>3. job[c].ids \in SUBSET Firmware
      BY <1>2, RequestType
    <3>. QED
      BY <1>2, <3>1, <3>2, <3>3 DEF Page
  <2>3. CASE TargetsListed(c)
    <3>1. page.signedIn
      BY <1>1, <2>3, ReceiverType DEF TargetsListed, Receives
    <3>2. page' = [page EXCEPT !.modal = TRUE]
      BY <2>3 DEF TargetsListed
    <3>. QED
      BY <1>2, <3>1, <3>2 DEF Page
  <2>4. CASE Polled(c)
    <3>. DEFINE row == IF Success(c)
                         THEN [label |-> page.tracked, of |-> job[c].to, pct |-> job[c].pct]
                         ELSE NoRow
    <3>1. page.signedIn
      BY <1>1, <2>4, ReceiverType DEF Polled, Receives
    <3>2. page' = [page EXCEPT !.row = row]
      BY <2>4 DEF Polled
    <3>3. job[c].to \in Device /\ job[c].pct \in 0..MaxPct /\ page.tracked \in Device \cup {NoDevice}
      BY <1>1, <1>2, <2>4, RequestType DEF Polled, Receives, IInv, JobsFit, Fits, Page
    <3>4. row \in [label : Device \cup {NoDevice}, of : Device \cup {NoDevice}, pct : 0..MaxPct]
      BY <3>3, OtaAssumption DEF NoRow
    <3>. HIDE DEF row
    <3>. QED
      BY <1>2, <3>1, <3>2, <3>4 DEF Page
  <2>. QED
    BY <2>1, <2>2, <2>3, <2>4
<1>. QED
  BY <1>1, <1>3, ReceivedQuietlyOK

\* The one upload that the page waits for is over, and the button enabled.
LEMMA UploadedOK == ASSUME IInv, NEW c \in Slot, Uploaded(c) PROVE IInv'
<1>. DEFINE q == Call("list", 0, NoDevice)
<1>1. /\ job[c] # NoJob /\ job[c].op = "upload" /\ job[c].awaited
      /\ page' = [page EXCEPT !.uploading = FALSE]
      /\ UNCHANGED <<hawkbit, expired, spent, story>>
  BY DEF Uploaded, Receives, At
<1>2. q \in Request /\ q.op = "list" /\ q.at = "sent"
  BY Asked, OtaAssumption DEF Call, Request, NetworkError
<1>3. PICK r \in {q, NoJob} : Ask(c, r)
  BY DEF Uploaded, Done
<1>. HIDE DEF q
<1>4. r \in Request \cup {NoJob} /\ (r # NoJob => r.op = "list" /\ r.at = "sent")
  BY <1>2
<1>5. job' \in Jobs /\ job'[c] = r /\ \A b \in Slot : b # c => job'[b] = job[b]
  BY <1>3, <1>4, AskType DEF IInv, Jobs
<1>6. /\ hawkbit' = hawkbit /\ expired' = expired /\ spent' = spent /\ clicks' = clicks
      /\ toasts' = toasts /\ confirmed' = confirmed
  BY <1>1 DEF story
<1>7. HawkbitOK' /\ HistoryOK' /\ BoundsOK' /\ UploadedIsWhole' /\ expired' \in BOOLEAN
  BY <1>6 DEF IInv, HawkbitOK, HistoryOK, BoundsOK, UploadedIsWhole, Exists
<1>8. page.signedIn
  BY <1>1, ReceiverType
<1>9. page' \in Page /\ page'.uploading = FALSE /\ page'.signedIn = page.signedIn
  BY <1>1 DEF IInv, Page
<1>10. \A b \in Slot : ~(Awaits(b)' /\ job'[b].op = "upload")
  <2>1. \A b \in Slot : b # c => ~(Awaits(b) /\ job[b].op = "upload")
    BY <1>1 DEF IInv, PageWaits, Awaits
  <2>. QED
    BY <1>4, <1>5, <2>1 DEF Awaits
<1>11. PageFits' /\ PageWaits'
  BY <1>8, <1>9, <1>10 DEF PageFits, PageWaits, Awaits
<1>12. IdsInReserve'
  BY <1>3, <1>4, <1>6, NoCreation
<1>13. DeploymentsInReserve'
  BY <1>1, <1>3, <1>4, <1>6, NoDeployment
<1>14. JobsFit'
  <2>1. r # NoJob => Fits(r)'
    BY <1>4 DEF Fits
  <2>2. hawkbit.lastId <= hawkbit'.lastId /\ spent.faults <= spent'.faults
    BY <1>6, BoundsType DEF IInv, HawkbitOK
  <2>. QED
    BY <1>3, <1>4, <1>6, <1>7, <2>1, <2>2, FitsKept
<1>. QED
  BY <1>5, <1>7, <1>9, <1>11, <1>12, <1>13, <1>14 DEF IInv, Jobs

\* A deployment that is announced takes itself out of the reserve.
LEMMA DeployedOK == ASSUME IInv, NEW c \in Slot, Deployed(c) PROVE IInv'
<1>. DEFINE to == job[c].to
            y == <<job[c].fw, to>>
            q == Call("status", 0, to)
            hidden == [page EXCEPT !.modal = FALSE]
            tracking == [hidden EXCEPT !.tracked = to, !.timer = TRUE]
<1>1. /\ job[c] # NoJob /\ job[c].op = "deploy" /\ job[c].awaited /\ job[c].at = "answered"
      /\ UNCHANGED <<hawkbit, expired, spent, clicks, confirmed>>
  BY DEF Deployed, Receives, At
<1>2. page.signedIn /\ job[c] \in Request /\ page \in Page
  BY <1>1, ReceiverType DEF IInv
<1>3. CASE ~Success(c)
  BY <1>1, <1>2, <1>3, ReceivedQuietlyOK DEF Deployed, Done, story
<1>4. CASE Success(c)
  <2>1. /\ toasts' = [toasts EXCEPT ![y] = @ + 1]
        /\ \/ to \in Device /\ page' = tracking /\ Ask(c, q)
           \/ page' = hidden /\ Ask(c, NoJob)
    BY <1>4 DEF Deployed, Done, Tracking
  <2>2. y \in Firmware \X Target
    BY <1>1 DEF IInv, JobsFit, Fits
  <2>3. to \in Device => q \in Request /\ q.op = "status" /\ q.at = "sent" /\ q.to = to
    BY Asked, OtaAssumption DEF Call, Request, NetworkError
  <2>4. hidden \in Page /\ hidden.uploading = page.uploading /\ hidden.signedIn = page.signedIn
    BY <1>2 DEF Page
  <2>5. to \in Device => /\ tracking \in Page /\ tracking.uploading = page.uploading
                         /\ tracking.signedIn = page.signedIn
    <3>. HIDE DEF hidden
    <3>. QED
      BY <2>4 DEF Page
  <2>. HIDE DEF hidden, tracking, q
  <2>6. PICK r \in Request \cup {NoJob} :
           /\ Ask(c, r) /\ (r # NoJob => r.op = "status" /\ r.at = "sent" /\ r.to \in Device)
    BY <2>1, <2>3
  <2>7. page' \in Page /\ page'.uploading = page.uploading /\ page'.signedIn = page.signedIn
    BY <2>1, <2>4, <2>5
  <2>8. job'[c] = r /\ \A b \in Slot : b # c => job'[b] = job[b]
    BY <2>6, AskType DEF IInv, Jobs
  <2>9. /\ toasts' \in [Firmware \X Target -> Nat] /\ toasts'[y] = toasts[y] + 1
        /\ \A x \in Firmware \X Target : x # y => toasts'[x] = toasts[x]
    <3>1. toasts \in [Firmware \X Target -> Nat]
      BY DEF IInv, HistoryOK
    <3>. HIDE DEF y
    <3>. QED
      BY <2>1, <2>2, <3>1
  <2>10. HistoryOK'
    BY <1>1, <2>9 DEF IInv, HistoryOK
  <2>11. ASSUME NEW x \in Firmware \X Target
         PROVE  /\ toasts'[x] + Cardinality(Unannounced(x)') <= hawkbit.deployments[x]
                /\ hawkbit.deployments[x] + Cardinality(Unmade(x)') <= clicks[x]
    <3>1. /\ toasts[x] + Cardinality(Unannounced(x)) <= hawkbit.deployments[x]
          /\ hawkbit.deployments[x] + Cardinality(Unmade(x)) <= clicks[x]
      BY DEF IInv, DeploymentsInReserve
    <3>2. toasts[x] \in Nat /\ clicks[x] \in Nat /\ hawkbit.deployments[x] \in Nat
      BY DEF IInv, HistoryOK, HawkbitOK
    <3>3. Unmade(x)' = Unmade(x)
      BY <1>1, <2>6, <2>8 DEF Unmade
    <3>4. CASE x = y
      <4>1. c \in Unannounced(x) /\ c \notin Unannounced(x)'
        BY <1>1, <1>4, <2>6, <2>8, <3>4 DEF Unannounced
      <4>2. Unannounced(x)' \in SUBSET (Unannounced(x) \ {c}) /\ Unannounced(x) \in SUBSET Slot
        BY <2>6, <4>1, OthersStay
      <4>3. /\ Cardinality(Unannounced(x)) \in Nat /\ Cardinality(Unannounced(x)') \in Nat
            /\ Cardinality(Unannounced(x)') + 1 <= Cardinality(Unannounced(x))
        BY <4>1, <4>2, OneSlotLess
      <4>. QED
        BY <2>9, <3>1, <3>2, <3>3, <3>4, <4>3
    <3>5. CASE x # y
      <4>1. Unannounced(x)' = Unannounced(x)
        BY <1>1, <2>6, <2>8, <3>5 DEF Unannounced, Success
      <4>. QED
        BY <2>9, <3>1, <3>3, <3>5, <4>1
    <3>. QED
      BY <3>4, <3>5
  <2>12. DeploymentsInReserve'
    BY <1>1, <2>11 DEF DeploymentsInReserve
  <2>. QED
    BY <1>1, <1>2, <2>6, <2>7, <2>10, <2>12, ReceivedOK
<1>. QED
  BY <1>3, <1>4

\* The connections of all requests break.
LEMMA RestartOK == ASSUME IInv, Restart PROVE IInv'
<1>1. /\ Fault /\ UNCHANGED <<hawkbit, page, expired, story>>
      /\ job' = [c \in Slot |-> IF job[c] = NoJob THEN NoJob ELSE Answered(c, NetworkError)]
  BY DEF Restart
<1>2. ASSUME NEW c \in Slot
      PROVE  /\ job[c] = NoJob => job'[c] = NoJob
             /\ job[c] # NoJob =>
                   /\ job'[c] \in Request /\ job'[c] # NoJob /\ job'[c].at = "answered"
                   /\ job'[c].code = NetworkError /\ job'[c].op = job[c].op
                   /\ job'[c].fw = job[c].fw /\ job'[c].to = job[c].to
                   /\ job'[c].awaited = job[c].awaited
  <2>1. CASE job[c] = NoJob
    BY <1>1, <2>1
  <2>2. CASE job[c] # NoJob
    <3>1. job[c] \in Request /\ job'[c] = Answered(c, NetworkError)
      BY <1>1, <2>2 DEF IInv
    <3>. QED
      BY <2>2, <3>1, AnsweredType, OtaAssumption
  <2>. QED
    BY <2>1, <2>2
<1>3. job' \in Jobs
  <2>1. \A c \in Slot : job'[c] \in Request \cup {NoJob}
    BY <1>2
  <2>. QED
    BY <1>1, <2>1 DEF Jobs
<1>4. /\ hawkbit' = hawkbit /\ clicks' = clicks /\ toasts' = toasts /\ confirmed' = confirmed
      /\ page' = page /\ expired' = expired
  BY <1>1 DEF story
<1>5. HawkbitOK' /\ HistoryOK' /\ UploadedIsWhole' /\ expired' \in BOOLEAN /\ page' \in Page
  BY <1>4 DEF IInv, HawkbitOK, HistoryOK, UploadedIsWhole, Exists
<1>6. BoundsOK' /\ spent.acts <= spent'.acts /\ spent'.faults = spent.faults + 1
  BY <1>1, FaultType, BoundsType DEF IInv
<1>7. IdsInReserve' /\ DeploymentsInReserve'
  BY <1>2, <1>4, <1>6, ReservesKept DEF NetworkError
<1>8. \A c \in Slot : (Awaits(c)' <=> Awaits(c)) /\ (Awaits(c) => job'[c].op = job[c].op)
  BY <1>2 DEF Awaits
<1>9. PageFits'
  BY <1>4, <1>8 DEF IInv, PageFits, Awaits
<1>10. PageWaits'
  BY <1>4, <1>8 DEF IInv, PageWaits
<1>11. JobsFit'
  BY <1>2, <1>4 DEF IInv, JobsFit, Fits, NetworkError
<1>. QED
  BY <1>3, <1>5, <1>6, <1>7, <1>9, <1>10, <1>11 DEF IInv, Jobs

---------------------------------------------------------------------------
(* The invariant and what follows from it.                                   *)
LEMMA InitOK == Init => IInv
<1>. SUFFICES ASSUME Init
              PROVE  IInv
  OBVIOUS
<1>. DEFINE stocked == [id \in 1..Stock |-> TRUE]
<1>1. /\ hawkbit.artifact = stocked /\ hawkbit.lastId = Stock /\ hawkbit.deployments = NoCount
      /\ hawkbit.progress = [d \in Device |-> 0]
      /\ hawkbit = [artifact |-> hawkbit.artifact, lastId |-> hawkbit.lastId,
                    deployments |-> hawkbit.deployments, progress |-> hawkbit.progress]
  BY DEF Init
<1>2. stocked \in [1..Stock -> BOOLEAN] /\ DOMAIN stocked = 1..Stock
  OBVIOUS
<1>3. NoCount \in [Firmware \X Target -> Nat] /\ \A x \in Firmware \X Target : NoCount[x] = 0
  BY DEF NoCount
<1>4. [d \in Device |-> 0] \in [Device -> 0..MaxPct]
  BY OtaAssumption
<1>. HIDE DEF stocked
<1>5. HawkbitOK
  BY <1>1, <1>2, <1>3, <1>4, OtaAssumption DEF HawkbitOK
<1>6. /\ \A c \in Slot : job[c] = NoJob
      /\ job \in [Slot -> Request \cup {NoJob}] /\ page = LoginPage
  BY DEF Init
<1>7. expired \in BOOLEAN
  BY DEF Init
<1>8. BoundsOK /\ spent.acts = 0
  BY OtaAssumption DEF Init, BoundsOK
<1>9. HistoryOK /\ UploadedIsWhole /\ clicks = NoCount /\ toasts = NoCount
  BY <1>3 DEF Init, HistoryOK, UploadedIsWhole
<1>10. Cardinality({}) = 0
  BY FS_EmptySet
<1>11. IdsInReserve
  <2>1. Creating = {}
    BY <1>6 DEF Creating
  <2>. QED
    BY <1>1, <1>8, <1>10, <2>1, OtaAssumption DEF IdsInReserve
<1>12. DeploymentsInReserve
  <2>1. ASSUME NEW x \in Firmware \X Target
        PROVE  Cardinality(Unmade(x)) = 0 /\ Cardinality(Unannounced(x)) = 0
    BY <1>6, <1>10 DEF Unmade, Unannounced
  <2>2. ASSUME NEW x \in Firmware \X Target
        PROVE  toasts[x] = 0 /\ hawkbit.deployments[x] = 0 /\ clicks[x] = 0
    BY <1>1, <1>3, <1>9
  <2>. QED
    BY <2>1, <2>2 DEF DeploymentsInReserve
<1>13. PageFits /\ PageWaits /\ page \in Page
  BY <1>6, PagesType DEF PageFits, PageWaits, Awaits
<1>14. JobsFit
  BY <1>6 DEF JobsFit
<1>. QED
  BY <1>5, <1>6, <1>7, <1>8, <1>9, <1>11, <1>12, <1>13, <1>14 DEF IInv

\* A step that changes nothing.
LEMMA StutterOK == ASSUME IInv, UNCHANGED vars PROVE IInv'
<1>1. /\ job' = job /\ page' = page /\ hawkbit' = hawkbit /\ spent' = spent /\ UNCHANGED story
      /\ expired' = expired
  BY DEF vars
<1>2. HawkbitOK' /\ BoundsOK' /\ page' \in Page /\ spent.acts <= spent'.acts
  BY <1>1, BoundsType DEF IInv, HawkbitOK, BoundsOK
<1>3. expired' \in BOOLEAN
  BY <1>1 DEF IInv
<1>. QED
  BY <1>1, <1>2, <1>3, IdleOK

\* Every step keeps the invariant.
LEMMA NextOK == IInv /\ [Next]_vars => IInv'
<1>. SUFFICES ASSUME IInv, [Next]_vars
              PROVE  IInv'
  OBVIOUS
<1>1. CASE Admin
  BY <1>1, SignInOK, RefreshOK, SubmitUploadOK, OpenDeployOK, DeleteByScriptOK, ConfirmDeployOK,
     StartTrackingOK, LogoutOK, CloseModalExpireOK DEF Admin
<1>2. ASSUME NEW c \in Slot, Serve(c)
      PROVE  IInv'
  BY <1>2, ListFirmwareOK, CreateModuleOK, UploadArtifactOK, DeleteModuleOK, DeployOK,
     OtaStatusOK, TargetsOK DEF Serve
<1>3. ASSUME NEW c \in Slot, Receive(c)
      PROVE  IInv'
  BY <1>3, UnauthorizedOK, QuietReceiversOK, UploadedOK, DeployedOK DEF Receive
<1>4. ASSUME NEW c \in Slot, Poll(c) \/ Accept(c)
      PROVE  IInv'
  BY <1>4, PollOK, AcceptOK
<1>5. CASE Expire \/ Restart \/ \E d \in Device : Progress(d)
  BY <1>5, CloseModalExpireOK, RestartOK, ProgressOK
<1>6. CASE UNCHANGED vars
  BY <1>6, StutterOK
<1>. QED
  BY <1>1, <1>2, <1>3, <1>4, <1>5, <1>6 DEF Next

\* The invariant holds in every state.
LEMMA Inductive == Spec => []IInv
BY InitOK, NextOK, PTL DEF Spec

\* The invariant says all that the reserves are there for.
LEMMA InvariantFacts == IInv => OtaTypeOK /\ DeploymentsAddUp /\ UploadedIsWhole
<1>. SUFFICES ASSUME IInv
              PROVE  OtaTypeOK /\ DeploymentsAddUp
  BY DEF IInv
<1>1. hawkbit.lastId \in Firmware \cup {0} /\ 1..hawkbit.lastId \subseteq Firmware
  <2>1. Cardinality(Creating) \in Nat
    BY FewerSlots DEF Creating
  <2>2. hawkbit.lastId \in Nat /\ spent.acts \in 0..MaxActs
    BY DEF IInv, HawkbitOK, BoundsOK
  <2>. QED
    BY <2>1, <2>2, OtaAssumption DEF IInv, IdsInReserve, Firmware
<1>2. OtaTypeOK
  BY <1>1 DEF IInv, OtaTypeOK, HawkbitOK, BoundsOK, HistoryOK
<1>3. DeploymentsAddUp
  <2>. SUFFICES ASSUME NEW x \in Firmware \X Target
                PROVE  toasts[x] <= hawkbit.deployments[x] /\ hawkbit.deployments[x] <= clicks[x]
    BY DEF DeploymentsAddUp
  <2>1. Cardinality(Unmade(x)) \in Nat /\ Cardinality(Unannounced(x)) \in Nat
    BY FewerSlots DEF Unmade, Unannounced
  <2>2. toasts[x] \in Nat /\ clicks[x] \in Nat /\ hawkbit.deployments[x] \in Nat
    BY DEF IInv, HistoryOK, HawkbitOK
  <2>. QED
    BY <2>1, <2>2 DEF IInv, DeploymentsInReserve
<1>. QED
  BY <1>2, <1>3

\* The page fits the requests it waits for, in every run: the upload button is disabled
\* exactly while an upload is awaited, nothing is left of a session that has ended, and every
\* module created was asked for (ota.js, app.js, ota.py).
THEOREM TypeCorrect == Spec => []OtaTypeOK
BY Inductive, InvariantFacts, PTL

\* A module whose upload was answered 201 has its artifact for as long as it is there, with
\* deletions, failures and restarts in between (post_firmware's two calls).
THEOREM ConfirmedUploadIsWhole == Spec => []UploadedIsWhole
BY Inductive, InvariantFacts, PTL

\* Announced deployments were made, and those that were made were confirmed, each as often,
\* whatever calls fail on their way back (deploy_firmware, confirmDeploy).
THEOREM DeploymentsAreOnesConfirmed == Spec => []DeploymentsAddUp
BY Inductive, InvariantFacts, PTL

\* No one with a good token is signed out by a 401 that an earlier session left on its way:
\* the page that is left forgets its requests (app.js: apiFetch).
THEOREM NobodySignedOutForNothing == Spec => SignedOutForAReason
<1>. DEFINE Reason == expired \/ Logout \/ \E c \in Slot : Unauthorized(c) /\ job[c].from = "hawkBit"
            ForAReason == page.signedIn /\ ~page'.signedIn => Reason
<1>1. IInv /\ [Next]_vars => [ForAReason]_vars
  <2>. SUFFICES ASSUME IInv, Next, page.signedIn, ~page'.signedIn, ~Logout
                PROVE  Reason
    OBVIOUS
  <2>. page \in Page
    BY DEF IInv
  <2>1. ASSUME NEW c \in Slot, Unauthorized(c)
        PROVE  Reason
    <3>1. job[c] # NoJob /\ job[c].at = "answered" /\ job[c].awaited /\ job[c].code = 401
      BY <2>1 DEF Unauthorized, At
    <3>2. expired \/ job[c].from = "hawkBit"
      BY <3>1 DEF IInv, JobsFit, Fits
    <3>. QED
      BY <2>1, <3>2
  <2>2. CASE Admin
    <3>1. \/ page' = OtaPage \/ page' = page \/ page' = [page EXCEPT !.uploading = TRUE]
          \/ \E fw \in Firmware : page' = [page EXCEPT !.pending = fw]
          \/ \E d \in Device : page' = [page EXCEPT !.tracked = d, !.timer = TRUE]
          \/ page' = [page EXCEPT !.modal = FALSE]
      BY <2>2 DEF Admin, SignIn, Refresh, SubmitUpload, OpenDeploy, DeleteByScript,
                  ConfirmDeploy, StartTracking, Tracking, CloseModal
    <3>. QED
      BY <3>1, PagesType DEF Page
  <2>3. ASSUME NEW c \in Slot, Poll(c) \/ Accept(c) \/ Serve(c) \/ Discard(c)
        PROVE  page' = page
    BY <2>3 DEF Poll, Accept, Serve, ListFirmware, CreateModule, UploadArtifact, DeleteModule,
                Deploy, OtaStatus, Targets, Discard
  <2>4. ASSUME NEW c \in Slot,
               FirmwareListed(c) \/ Uploaded(c) \/ TargetsListed(c) \/ Polled(c) \/ Deployed(c)
        PROVE  page'.signedIn
    <3>. DEFINE hidden == [page EXCEPT !.modal = FALSE]
    <3>1. \/ page' = page \/ page' = [page EXCEPT !.firmware = job[c].ids]
          \/ page' = [page EXCEPT !.uploading = FALSE] \/ page' = [page EXCEPT !.modal = TRUE]
          \/ \E row : page' = [page EXCEPT !.row = row]
          \/ page' = hidden \/ page' = [hidden EXCEPT !.tracked = job[c].to, !.timer = TRUE]
      BY <2>4 DEF FirmwareListed, Uploaded, TargetsListed, Polled, Deployed, Tracking
    <3>2. hidden.signedIn = page.signedIn /\ DOMAIN hidden = DOMAIN page
      BY DEF Page
    <3>. HIDE DEF hidden
    <3>. QED
      BY <3>1, <3>2 DEF Page
  <2>5. CASE Expire \/ Restart \/ \E d \in Device : Progress(d)
    BY <2>5 DEF Expire, Restart, Progress
  <2>. QED
    BY <2>1, <2>2, <2>3, <2>4, <2>5 DEF Next, Receive
<1>. QED
  BY <1>1, Inductive, PTL DEF Spec, SignedOutForAReason
=============================================================================
