-------------------------------- MODULE Ota --------------------------------
(* Firmware and deployments: the page static/ota.js with the fetch wrapper   *)
(* of app.js, the proxy ota.py, the client hawkbit.py, and hawkBit itself.   *)
(*                                                                           *)
(* A request of the page takes a slot (a browser has a few connections per   *)
(* host) and goes through sent, call (create, upload), answered.  The page's *)
(* handler resumes when its answer is received; in between the admin goes on.*)
(* post_firmware is a coroutine that calls hawkBit without awaiting: while   *)
(* it does, the event loop takes no request and sends no answer.             *)
EXTENDS Naturals, FiniteSets
CONSTANTS
    Slot,        \* connections of the browser
    Device,
    Group,
    NoDevice,
    NoJob,
    Stock,       \* how many modules hawkBit has from before, each with its artifact
    Refusals,    \* codes with which hawkBit turns a call down
    MaxActs,     \* bound: what the admin does on the page
    MaxSignIns,  \* bound: how often the admin signs in
    MaxFaults,   \* bound: calls to hawkBit that are refused or fail, and restarts
    MaxPct       \* bound: the progress of a target

VARIABLES
    hawkbit,     \* modules (id |-> has it its artifact), ids given, deployments, progress
    job,         \* the request of each slot
    page,        \* what the browser shows and holds
    expired,     \* the token's day is over
    spent,       \* how much of the bounds is used
    clicks,      \* history: confirmed deployments, per firmware and target
    toasts,      \* history: "Deployment created."
    confirmed    \* history: modules whose upload was answered 201
story == <<clicks, toasts, confirmed>>
vars == <<hawkbit, job, page, expired, spent, story>>

Firmware == 1..Stock + MaxActs
Target == Device \cup Group
Code == Refusals \cup {200, 201, 401, 404, 502}
NetworkError == 0
Op == {"list", "upload", "targets", "deploy", "status", "delete"}

Request == [op : Op, at : {"sent", "call", "upload", "answered"}, fw : Firmware \cup {0},
            to : Target \cup {NoDevice}, code : Code \cup {NetworkError},
            ids : SUBSET Firmware, pct : 0..MaxPct, awaited : BOOLEAN,
            from : {"cloud", "hawkBit"}]        \* history: who turned the request down

\* _request takes every status from 400 on for a refusal, and no other.
ASSUME OtaAssumption ==
    /\ Stock \in Nat /\ MaxActs \in Nat /\ MaxSignIns \in Nat /\ MaxFaults \in Nat /\ MaxPct \in Nat
    /\ Refusals \subseteq 400..599
    /\ IsFiniteSet(Slot) /\ NoJob \notin Request

NoRow == [label |-> NoDevice, of |-> NoDevice, pct |-> 0]
Page == [signedIn : BOOLEAN, firmware : SUBSET Firmware, uploading : BOOLEAN,
         pending : Firmware \cup {0}, modal : BOOLEAN, tracked : Device \cup {NoDevice},
         timer : BOOLEAN,
         row : [label : Device \cup {NoDevice}, of : Device \cup {NoDevice}, pct : 0..MaxPct]]

LoginPage == [signedIn |-> FALSE, firmware |-> {}, uploading |-> FALSE, pending |-> 0,
              modal |-> FALSE, tracked |-> NoDevice, timer |-> FALSE, row |-> NoRow]
OtaPage == [LoginPage EXCEPT !.signedIn = TRUE]

\* The upload button is disabled exactly while an upload is awaited, and nothing of the
\* page is left when the admin is signed out.
PageFits ==
    /\ page.uploading <=> \E c \in Slot : /\ job[c] # NoJob
                                          /\ job[c].op = "upload" /\ job[c].awaited
    /\ ~page.signedIn => page = LoginPage

\* Types, and the page fits the requests it waits for.
OtaTypeOK ==
    /\ PageFits
    /\ hawkbit.lastId \in Firmware \cup {0}
    /\ hawkbit.artifact \in [DOMAIN hawkbit.artifact -> BOOLEAN]
    /\ DOMAIN hawkbit.artifact \subseteq 1..hawkbit.lastId
    /\ hawkbit.deployments \in [Firmware \X Target -> Nat]
    /\ hawkbit.progress \in [Device -> 0..MaxPct]
    /\ job \in [Slot -> Request \cup {NoJob}]
    /\ page \in Page
    /\ expired \in BOOLEAN
    /\ spent \in [acts : 0..MaxActs, signIns : 0..MaxSignIns, faults : 0..MaxFaults]
    /\ {clicks, toasts} \subseteq [Firmware \X Target -> Nat]
    /\ confirmed \subseteq Firmware

NoCount == [x \in Firmware \X Target |-> 0]

Init ==
    /\ hawkbit = [artifact |-> [id \in 1..Stock |-> TRUE], lastId |-> Stock,
                  deployments |-> NoCount, progress |-> [d \in Device |-> 0]]
    /\ job = [c \in Slot |-> NoJob]
    /\ page = LoginPage
    /\ expired = FALSE
    /\ spent = [acts |-> 0, signIns |-> 0, faults |-> 0]
    /\ clicks = NoCount /\ toasts = NoCount /\ confirmed = {}

---------------------------------------------------------------------------
(* The browser's side of a request.                                          *)
At(c, step) == job[c] # NoJob /\ job[c].at = step
Call(op, fw, to) == [op |-> op, at |-> "sent", fw |-> fw, to |-> to, code |-> NetworkError,
                     ids |-> {}, pct |-> 0, awaited |-> TRUE, from |-> "cloud"]
Ask(c, request) == job' = [job EXCEPT ![c] = request]
Done(c) == Ask(c, NoJob)
\* Faulty variant of Forsaken: what the page asked for is still awaited.
ForsakenNot(jobs) == jobs
\* A page that is left forgets its requests; the server serves them all the same.
Forsaken(jobs) == [c \in Slot |-> IF jobs[c] = NoJob THEN NoJob
                                  ELSE [jobs[c] EXCEPT !.awaited = FALSE]]

\* What the admin does: bounded, and needs a free slot if it makes a request.
Act == /\ spent.acts < MaxActs
       /\ spent' = [spent EXCEPT !.acts = @ + 1]
ActOnPage(c) == Act /\ page.signedIn /\ job[c] = NoJob

\* login, then /ui/ota, which loads the list at once.
SignIn(c) ==
    /\ ~page.signedIn /\ job[c] = NoJob
    /\ page' = OtaPage
    /\ expired' = FALSE
    /\ Ask(c, Call("list", 0, NoDevice))
    /\ spent.signIns < MaxSignIns
    /\ spent' = [spent EXCEPT !.signIns = @ + 1]
    /\ UNCHANGED <<hawkbit, story>>

Logout ==
    /\ page.signedIn
    /\ page' = LoginPage
    /\ job' = Forsaken(job)
    /\ Act
    /\ UNCHANGED <<hawkbit, expired, story>>

Refresh(c) ==
    /\ ActOnPage(c)
    /\ Ask(c, Call("list", 0, NoDevice))
    /\ UNCHANGED <<hawkbit, page, expired, story>>

SubmitUpload(c) ==
    /\ ActOnPage(c)
    /\ ~page.uploading
    /\ page' = [page EXCEPT !.uploading = TRUE]
    /\ Ask(c, Call("upload", 0, NoDevice))
    /\ UNCHANGED <<hawkbit, expired, story>>

OpenDeploy(c, fw) ==
    /\ ActOnPage(c)
    /\ fw \in page.firmware
    /\ page' = [page EXCEPT !.pending = fw]
    /\ Ask(c, Call("targets", fw, NoDevice))
    /\ UNCHANGED <<hawkbit, expired, story>>

\* The confirm button is not disabled while the request is on its way.
ConfirmDeploy(c, to) ==
    /\ ActOnPage(c)
    /\ page.modal /\ page.pending # 0
    /\ Ask(c, Call("deploy", page.pending, to))
    /\ clicks' = [clicks EXCEPT ![<<page.pending, to>>] = @ + 1]
    /\ UNCHANGED <<hawkbit, page, expired, toasts, confirmed>>

CloseModal ==
    /\ Act
    /\ page.modal
    /\ page' = [page EXCEPT !.modal = FALSE]
    /\ UNCHANGED <<hawkbit, job, expired, story>>

\* Faulty variant of Tracking: the timer is set first and then cleared as the old one.
TrackingCleared(p, d) == [p EXCEPT !.tracked = d, !.timer = FALSE]

\* startTracking, but for the first poll.
Tracking(p, d) == [p EXCEPT !.tracked = d, !.timer = TRUE]

StartTracking(c, d) ==
    /\ ActOnPage(c)
    /\ page' = Tracking(page, d)
    /\ Ask(c, Call("status", 0, d))
    /\ UNCHANGED <<hawkbit, expired, story>>

\* The timer of startTracking.
Poll(c) ==
    /\ page.timer /\ page.tracked # NoDevice
    /\ job[c] = NoJob
    /\ Ask(c, Call("status", 0, page.tracked))
    /\ UNCHANGED <<hawkbit, page, expired, spent, story>>

\* DELETE has no button: another client of the API with a token of its own.
DeleteByScript(c, fw) ==
    /\ Act
    /\ job[c] = NoJob
    /\ fw \in 1..hawkbit.lastId
    /\ Ask(c, [Call("delete", fw, NoDevice) EXCEPT !.awaited = FALSE])
    /\ UNCHANGED <<hawkbit, page, expired, story>>

---------------------------------------------------------------------------
(* The server's side.                                                        *)
\* Nothing on the event loop is in post_firmware's calls to hawkBit.
LoopFree == \A c \in Slot : job[c] # NoJob /\ job[c].op = "upload" =>
                job[c].at \notin {"call", "upload"}

Answered(c, code) == [job[c] EXCEPT !.at = "answered", !.code = code]
TurnedDown(c, code) == [Answered(c, code) EXCEPT !.from = "hawkBit"]

\* require_admin, for the requests of the page.
Accept(c) ==
    /\ At(c, "sent") /\ LoopFree
    /\ Ask(c, IF expired /\ job[c].op # "delete" THEN Answered(c, 401)
              ELSE [job[c] EXCEPT !.at = "call"])
    /\ UNCHANGED <<hawkbit, page, expired, spent, story>>

\* One call to hawkBit, which turns hawkBit's state to `after' and the job to `next' if
\* it is `possible': it is answered; or it is turned down, with a code that is passed
\* through; or it fails on the way there or on the way back.
Fault == /\ spent.faults < MaxFaults
         /\ spent' = [spent EXCEPT !.faults = @ + 1]
HawkbitCall(c, possible, after, next) ==
    \/ /\ possible
       /\ hawkbit' = after
       /\ Ask(c, next)
       /\ UNCHANGED spent
    \/ /\ ~possible
       /\ Ask(c, Answered(c, 404))
       /\ UNCHANGED <<hawkbit, spent>>
    \/ /\ Fault
       /\ \E code \in Refusals : Ask(c, TurnedDown(c, code))
       /\ UNCHANGED hawkbit
    \/ /\ Fault
       /\ hawkbit' \in {hawkbit} \cup {h \in {after} : possible}
       /\ Ask(c, Answered(c, 502))

Serves(c, op, step) == At(c, step) /\ job[c].op = op
Exists(fw) == fw \in DOMAIN hawkbit.artifact

ListFirmware(c) ==
    /\ Serves(c, "list", "call")
    /\ HawkbitCall(c, TRUE, hawkbit, [Answered(c, 200) EXCEPT !.ids = DOMAIN hawkbit.artifact])
    /\ UNCHANGED <<page, expired, story>>

CreateModule(c) ==
    LET id == hawkbit.lastId + 1
    IN /\ Serves(c, "upload", "call")
       /\ HawkbitCall(c, TRUE,
              [hawkbit EXCEPT !.lastId = id,
                   !.artifact = [x \in DOMAIN @ \cup {id} |-> x # id /\ @[x]]],
              [job[c] EXCEPT !.at = "upload", !.fw = id])
       /\ UNCHANGED <<page, expired, story>>

\* Faulty variant of UploadArtifact: a failure of the second call is swallowed.
UploadSwallowing(c) ==
    LET fw == job[c].fw
    IN /\ Serves(c, "upload", "upload")
       /\ \/ /\ Exists(fw)
             /\ hawkbit' = [hawkbit EXCEPT !.artifact[fw] = TRUE]
             /\ UNCHANGED spent
          \/ Fault /\ UNCHANGED hawkbit
       /\ Ask(c, Answered(c, 201))
       /\ confirmed' = confirmed \cup {fw}
       /\ UNCHANGED <<page, expired, clicks, toasts>>

UploadArtifact(c) ==
    LET fw == job[c].fw
    IN /\ Serves(c, "upload", "upload")
       /\ HawkbitCall(c, Exists(fw),
              [hawkbit EXCEPT !.artifact = [x \in DOMAIN @ |-> x = fw \/ @[x]]],
              Answered(c, 201))
       /\ confirmed' = IF job'[c].code = 201 THEN confirmed \cup {fw} ELSE confirmed
       /\ UNCHANGED <<page, expired, clicks, toasts>>

DeleteModule(c) ==
    /\ Serves(c, "delete", "call")
    /\ HawkbitCall(c, Exists(job[c].fw),
           [hawkbit EXCEPT !.artifact = [x \in DOMAIN @ \ {job[c].fw} |-> @[x]]],
           Answered(c, 200))
    /\ UNCHANGED <<page, expired, story>>

\* Faulty variant of Deploy: a call that got no answer is made a second time.
DeployRetrying(c) ==
    LET what == <<job[c].fw, job[c].to>>
    IN /\ Serves(c, "deploy", "call") /\ Exists(job[c].fw)
       /\ \/ UNCHANGED spent /\ hawkbit' = [hawkbit EXCEPT !.deployments[what] = @ + 1]
          \/ Fault /\ hawkbit' = [hawkbit EXCEPT !.deployments[what] = @ + 2]
       /\ Ask(c, Answered(c, 200))
       /\ UNCHANGED <<page, expired, story>>

Deploy(c) ==
    /\ Serves(c, "deploy", "call")
    /\ HawkbitCall(c, Exists(job[c].fw),
           [hawkbit EXCEPT !.deployments[<<job[c].fw, job[c].to>>] = @ + 1],
           Answered(c, 200))
    /\ UNCHANGED <<page, expired, story>>

OtaStatus(c) ==
    /\ Serves(c, "status", "call")
    /\ HawkbitCall(c, TRUE, hawkbit,
           [Answered(c, 200) EXCEPT !.pct = hawkbit.progress[job[c].to]])
    /\ UNCHANGED <<page, expired, story>>

\* GET /devices and GET /groups: the process's own tables, no call to hawkBit.
Targets(c) ==
    /\ Serves(c, "targets", "call")
    /\ Ask(c, Answered(c, 200))
    /\ UNCHANGED <<hawkbit, page, expired, spent, story>>

Serve(c) == \/ ListFirmware(c) \/ CreateModule(c) \/ UploadArtifact(c)
            \/ DeleteModule(c) \/ Deploy(c) \/ OtaStatus(c) \/ Targets(c)

---------------------------------------------------------------------------
(* The page's handlers go on.                                                *)
Receives(c, op) == /\ At(c, "answered") /\ LoopFree
                   /\ job[c].awaited /\ job[c].op = op /\ job[c].code # 401
Success(c) == job[c].code \in {200, 201}

\* Faulty variant of Unauthorized: the token is cleared, and the page stays.
UnauthorizedStaying(c) ==
    /\ At(c, "answered") /\ LoopFree
    /\ job[c].awaited /\ job[c].code = 401
    /\ page' = [page EXCEPT !.signedIn = FALSE]
    /\ Done(c)
    /\ UNCHANGED <<hawkbit, expired, spent, story>>

\* apiFetch takes every 401 for the end of the token.
Unauthorized(c) ==
    /\ At(c, "answered") /\ LoopFree
    /\ job[c].awaited /\ job[c].code = 401
    /\ page' = LoginPage
    /\ job' = Forsaken([job EXCEPT ![c] = NoJob])
    /\ UNCHANGED <<hawkbit, expired, spent, story>>

Discard(c) ==
    /\ At(c, "answered") /\ ~job[c].awaited
    /\ Done(c)
    /\ UNCHANGED <<hawkbit, page, expired, spent, story>>

FirmwareListed(c) ==
    /\ Receives(c, "list")
    /\ page' = IF Success(c) THEN [page EXCEPT !.firmware = job[c].ids] ELSE page
    /\ Done(c)
    /\ UNCHANGED <<hawkbit, expired, spent, story>>

\* The list is loaded again, after a success; `finally' enables the button.
Uploaded(c) ==
    /\ Receives(c, "upload")
    /\ page' = [page EXCEPT !.uploading = FALSE]
    /\ IF Success(c) THEN Ask(c, Call("list", 0, NoDevice)) ELSE Done(c)
    /\ UNCHANGED <<hawkbit, expired, spent, story>>

TargetsListed(c) ==
    /\ Receives(c, "targets")
    /\ page' = [page EXCEPT !.modal = TRUE]
    /\ Done(c)
    /\ UNCHANGED <<hawkbit, expired, spent, story>>

\* A deployment to a device is tracked at once, whatever is tracked by now.
Deployed(c) ==
    LET to == job[c].to
        hidden == [page EXCEPT !.modal = FALSE]
    IN /\ Receives(c, "deploy")
       /\ IF ~Success(c)
            THEN Done(c) /\ UNCHANGED <<page, toasts>>
            ELSE /\ toasts' = [toasts EXCEPT ![<<job[c].fw, to>>] = @ + 1]
                 /\ IF to \in Device
                      THEN page' = Tracking(hidden, to) /\ Ask(c, Call("status", 0, to))
                      ELSE page' = hidden /\ Done(c)
       /\ UNCHANGED <<hawkbit, expired, spent, clicks, confirmed>>

\* pollStatus labels the answer with the device that is tracked by now.
Polled(c) ==
    /\ Receives(c, "status")
    /\ page' = [page EXCEPT !.row = IF Success(c)
                    THEN [label |-> page.tracked, of |-> job[c].to, pct |-> job[c].pct]
                    ELSE NoRow]
    /\ Done(c)
    /\ UNCHANGED <<hawkbit, expired, spent, story>>

Receive(c) == \/ Unauthorized(c) \/ Discard(c) \/ FirmwareListed(c) \/ Uploaded(c)
              \/ TargetsListed(c) \/ Deployed(c) \/ Polled(c)

---------------------------------------------------------------------------
(* Around them.                                                              *)
\* The last session outlasts the rest: a bound.
Expire ==
    /\ page.signedIn /\ ~expired /\ spent.signIns < MaxSignIns
    /\ expired' = TRUE
    /\ UNCHANGED <<hawkbit, job, page, spent, story>>

\* A device downloads and installs what is deployed to it or to a group.
Progress(d) ==
    /\ \E fw \in Firmware, to \in {d} \cup Group : hawkbit.deployments[<<fw, to>>] > 0
    /\ hawkbit.progress[d] < MaxPct
    /\ hawkbit' = [hawkbit EXCEPT !.progress[d] = @ + 1]
    /\ UNCHANGED <<job, page, expired, spent, story>>

\* The process stops and starts; its connections break.  It keeps nothing else, so a
\* restart without a request is none.
Restart ==
    /\ \E c \in Slot : job[c] # NoJob /\ job[c].at # "answered"
    /\ Fault
    /\ job' = [c \in Slot |-> IF job[c] = NoJob THEN NoJob ELSE Answered(c, NetworkError)]
    /\ UNCHANGED <<hawkbit, page, expired, story>>

Admin == \/ \E c \in Slot :
               \/ SignIn(c) \/ Refresh(c) \/ SubmitUpload(c)
               \/ \E fw \in Firmware : OpenDeploy(c, fw) \/ DeleteByScript(c, fw)
               \/ \E to \in Target : ConfirmDeploy(c, to)
               \/ \E d \in Device : StartTracking(c, d)
         \/ Logout \/ CloseModal
Next == \/ Admin
        \/ \E c \in Slot : Poll(c) \/ Accept(c) \/ Serve(c) \/ Receive(c)
        \/ Expire \/ Restart
        \/ \E d \in Device : Progress(d)

Spec == Init /\ [][Next]_vars

\* Requests are served to their end (httpx gives up after ten seconds), handlers of the
\* page go on, and the timer fires.  Nobody has to do anything.
FairSpec == /\ Spec
            /\ \A c \in Slot : /\ WF_vars(Accept(c)) /\ WF_vars(Serve(c))
                               /\ WF_vars(Receive(c)) /\ WF_vars(Poll(c))

---------------------------------------------------------------------------
\* A module whose upload was answered 201 has its artifact, as long as it is there:
\* post_firmware answers only after both calls.
UploadedIsWhole == \A fw \in confirmed : Exists(fw) => hawkbit.artifact[fw]

\* hawkBit has no more deployments of a firmware to a target than were confirmed, and
\* no fewer than the page announced: no call is repeated, and none is announced that
\* was not made, although each may be accepted and reported as failed.
DeploymentsAddUp ==
    \A x \in Firmware \X Target : /\ toasts[x] <= hawkbit.deployments[x]
                                 /\ hawkbit.deployments[x] <= clicks[x]

\* Whatever polls of other devices are answered late and under the wrong name, in the
\* end the status table shows the tracked device as it is at hawkBit, and stays so.
ShowsTracked ==
    page.signedIn /\ page.tracked # NoDevice =>
        page.row = [label |-> page.tracked, of |-> page.tracked,
                    pct |-> hawkbit.progress[page.tracked]]
SettlesOnTracked == <>[]ShowsTracked

\* Nobody is signed out whose token is good, other than by the button or by a 401 that is
\* hawkBit's own answer, passed through: neither a failure or a restart nor a 401 that an
\* earlier session has left on its way ends a session.
SignedOutForAReason ==
    [][page.signedIn /\ ~page'.signedIn =>
         expired \/ Logout \/ \E c \in Slot : Unauthorized(c) /\ job[c].from = "hawkBit"]_vars
=============================================================================
