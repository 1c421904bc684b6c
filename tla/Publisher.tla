------------------------------ MODULE Publisher -----------------------------
(***************************************************************************)
(* The publisher's client and who uses it (app/mqtt_pub.py, app/ota.py):   *)
(* the handlers that relay a command to a device, and those that publish   *)
(* a desired object after its commit.  Desired takes it for granted that   *)
(* there is one client; here it comes to be.  _get_client tests the global *)
(* _client, builds a client and assigns it, without a lock: threads that   *)
(* publish for the first time together build one each, and the one that is *)
(* assigned over keeps its connection, its thread and its queue.           *)
(*                                                                         *)
(* A client bears the name of the thread that built it; none builds two,   *)
(* for _client is not None afterwards.  Every request has a number, which  *)
(* its message carries.  A command is sent on to the devices that are      *)
(* connected when the broker gets it, a desired object is retained.        *)
(***************************************************************************)
EXTENDS Naturals, Sequences, FiniteSets

CONSTANTS
    Worker,         \* threads of the pool
    DeviceId,
    NoClient,       \* _client at first
    NoJob,          \* the job of an idle thread
    MaxRequests,    \* bound on the requests
    MaxFaults       \* bound on lost connections and restarts of the process

ASSUME PublisherAssumption ==
    MaxRequests \in Nat /\ MaxFaults \in Nat /\ NoClient \notin Worker

VARIABLES
    registered,     \* devices.id
    wanted,         \* device -> number of the last PATCH committed, or 0
    _client,        \* the module's global: a client, or NoClient
    outq,           \* client -> its messages without acknowledgement
    sent,           \* client -> how many of them its connection has delivered
    job,            \* worker -> the request it serves, or NoJob
    linked,         \* devices connected to the broker
    retained,       \* <<device, channel>> -> number retained at the broker, or 0
    ran,            \* history: number -> how often a device ran the command
    resent,         \* history: number -> how often a loss had it sent again
    dropped,        \* history: numbers that a restart took
    asked, faults

channel == <<outq, sent, retained, ran, resent>>
world == <<registered, wanted, linked>>
vars == <<world, _client, channel, job, dropped, asked, faults>>

Number == 1..MaxRequests
Message == [dev : DeviceId, chan : {"cmd", "desired"}, no : Number, retain : BOOLEAN]
Job == [dev : DeviceId, chan : {"cmd", "desired"}, no : Number,
        at : {"check", "test", "build", "get", "publish"}, client : Worker \cup {NoClient}]

\* Clients that have been built: their network loops run.
Built == DOMAIN outq

TypeOK ==
    /\ registered \subseteq DeviceId /\ linked \subseteq DeviceId
    /\ wanted \in [DeviceId -> 0..asked]
    /\ _client \in Built \cup {NoClient}
    /\ Built \subseteq Worker /\ DOMAIN sent = Built
    /\ \A c \in Built : outq[c] \in Seq(Message) /\ sent[c] \in 0..Len(outq[c])
    /\ job \in [Worker -> Job \cup {NoJob}]
    /\ \A w \in Worker : job[w] # NoJob /\ job[w].at = "publish" => job[w].client \in Built
    /\ retained \in [DeviceId \X {"cmd", "desired"} -> 0..asked]
    /\ ran \in [Number -> Nat] /\ resent \in [Number -> Nat]
    /\ dropped \subseteq 1..asked
    /\ asked \in 0..MaxRequests /\ faults \in 0..MaxFaults

NoQueue == [c \in {} |-> <<>>]

Init ==
    /\ registered = DeviceId /\ linked = {} /\ wanted = [d \in DeviceId |-> 0]
    /\ _client = NoClient
    /\ outq = NoQueue /\ sent = NoQueue
    /\ job = [w \in Worker |-> NoJob]
    /\ retained = [t \in DeviceId \X {"cmd", "desired"} |-> 0]
    /\ ran = [n \in Number |-> 0] /\ resent = [n \in Number |-> 0]
    /\ dropped = {}
    /\ asked = 0 /\ faults = 0

-----------------------------------------------------------------------------
(* The handlers. *)
At(w, step) == job[w] # NoJob /\ job[w].at = step
GoTo(w, step) == job' = [job EXCEPT ![w].at = step]
Done(w) == job' = [job EXCEPT ![w] = NoJob]
Request(w, d, chan, step) ==
    /\ job[w] = NoJob
    /\ asked < MaxRequests
    /\ asked' = asked + 1
    /\ job' = [job EXCEPT ![w] = [dev |-> d, chan |-> chan, no |-> asked + 1, at |-> step,
                                  client |-> NoClient]]
    /\ UNCHANGED <<_client, channel, dropped, faults>>

(* POST of a valid command by an admin; the webhook, which does not look   *)
(* whether the device exists; and a PATCH that has committed.  The one     *)
(* editor of a device waits for the answer.                                *)
DeviceCmd(w) == (\E d \in DeviceId : Request(w, d, "cmd", "check")) /\ UNCHANGED world

HawkbitCallback(w) == (\E d \in DeviceId : Request(w, d, "cmd", "test")) /\ UNCHANGED world

PatchDesired(w) ==
    /\ \E d \in registered :
         /\ \A v \in Worker : job[v] # NoJob => job[v].dev # d \/ job[v].chan # "desired"
         /\ Request(w, d, "desired", "test")
         /\ wanted' = [wanted EXCEPT ![d] = asked + 1]
    /\ UNCHANGED <<registered, linked>>

(* device_cmd: SELECT 1 FROM devices, or 404. *)
Check(w) ==
    /\ At(w, "check")
    /\ IF job[w].dev \in registered THEN GoTo(w, "test") ELSE Done(w)
    /\ UNCHANGED <<world, _client, channel, dropped, asked, faults>>

(* _get_client: if _client is None. *)
Test(w) ==
    /\ At(w, "test")
    /\ GoTo(w, IF _client = NoClient THEN "build" ELSE "get")
    /\ UNCHANGED <<world, _client, channel, dropped, asked, faults>>

(* Faulty variant: the client that is assigned over is shut down. *)
BuildReplacing(w) ==
    /\ At(w, "build")
    /\ outq' = [c \in {w} |-> <<>>] /\ sent' = [c \in {w} |-> 0]
    /\ _client' = w
    /\ job' = [v \in Worker |-> IF v = w THEN [job[v] EXCEPT !.at = "get"]
                                ELSE IF At(v, "publish") THEN [job[v] EXCEPT !.client = w]
                                ELSE job[v]]
    /\ UNCHANGED <<world, retained, ran, resent, dropped, asked, faults>>

(* A new client with its thread, then the assignment. *)
Build(w) ==
    /\ At(w, "build")
    /\ outq' = [c \in Built \cup {w} |-> IF c = w THEN <<>> ELSE outq[c]]
    /\ sent' = [c \in Built \cup {w} |-> IF c = w THEN 0 ELSE sent[c]]
    /\ _client' = w
    /\ GoTo(w, "get")
    /\ UNCHANGED <<world, retained, ran, resent, dropped, asked, faults>>

(* return _client: the global as it is now. *)
Get(w) ==
    /\ At(w, "get")
    /\ job' = [job EXCEPT ![w].at = "publish", ![w].client = _client]
    /\ UNCHANGED <<world, _client, channel, dropped, asked, faults>>

Enqueue(w, retain) ==
    /\ outq' = [outq EXCEPT ![job[w].client] =
                   Append(@, [dev |-> job[w].dev, chan |-> job[w].chan, no |-> job[w].no,
                              retain |-> retain])]
    /\ Done(w)
    /\ UNCHANGED <<world, _client, sent, retained, ran, resent, dropped, asked, faults>>

(* Faulty variant: everything is published with the retain flag. *)
PublishRetaining(w) == At(w, "publish") /\ Enqueue(w, TRUE)

(* publish hands the message to the client, connected or not. *)
Publish(w) == At(w, "publish") /\ Enqueue(w, job[w].chan = "desired")

Serve(w) == Check(w) \/ Test(w) \/ Build(w) \/ Get(w) \/ Publish(w)

-----------------------------------------------------------------------------
(* The clients' threads and the broker. *)
Transmit(c) ==
    /\ c \in Built /\ sent[c] < Len(outq[c])
    /\ sent' = [sent EXCEPT ![c] = @ + 1]
    /\ LET m == outq[c][sent[c] + 1]
       IN  /\ retained' = IF m.retain THEN [retained EXCEPT ![<<m.dev, m.chan>>] = m.no]
                                      ELSE retained
           /\ ran' = IF m.chan = "cmd" /\ m.dev \in linked THEN [ran EXCEPT ![m.no] = @ + 1]
                                                           ELSE ran
    /\ UNCHANGED <<world, _client, outq, job, resent, dropped, asked, faults>>

Puback(c) ==
    /\ c \in Built /\ sent[c] > 0
    /\ outq' = [outq EXCEPT ![c] = Tail(@)]
    /\ sent' = [sent EXCEPT ![c] = @ - 1]
    /\ UNCHANGED <<world, _client, retained, ran, resent, job, dropped, asked, faults>>

Resent(c) == {outq[c][i].no : i \in 1..sent[c]}

(* Faulty variant: the next publish is to build a new client. *)
ConnectionLostDropping(c) ==
    /\ c \in Built /\ faults < MaxFaults
    /\ faults' = faults + 1
    /\ sent' = [sent EXCEPT ![c] = 0]
    /\ resent' = [n \in Number |-> resent[n] + IF n \in Resent(c) THEN 1 ELSE 0]
    /\ _client' = NoClient
    /\ UNCHANGED <<world, outq, retained, ran, job, dropped, asked>>

(* What was not acknowledged is sent again on the next connection. *)
ConnectionLost(c) ==
    /\ c \in Built /\ faults < MaxFaults
    /\ faults' = faults + 1
    /\ sent' = [sent EXCEPT ![c] = 0]
    /\ resent' = [n \in Number |-> resent[n] + IF n \in Resent(c) THEN 1 ELSE 0]
    /\ UNCHANGED <<world, _client, outq, retained, ran, job, dropped, asked>>

-----------------------------------------------------------------------------
(* Devices come and go, at the registry and at the broker.  A device that  *)
(* connects is given what is retained for it.                              *)
Unregister ==
    /\ \E d \in registered : /\ registered' = registered \ {d}
                             /\ wanted' = [wanted EXCEPT ![d] = 0]
    /\ UNCHANGED <<linked, _client, channel, job, dropped, asked, faults>>

Link(d) ==
    /\ d \notin linked /\ linked' = linked \cup {d}
    /\ ran' = [n \in Number |-> ran[n] + IF n = retained[<<d, "cmd">>] THEN 1 ELSE 0]
    /\ UNCHANGED <<registered, wanted, _client, outq, sent, retained, resent, job, dropped,
                   asked, faults>>

Unlink(d) ==
    /\ d \in linked /\ linked' = linked \ {d}
    /\ UNCHANGED <<registered, wanted, _client, channel, job, dropped, asked, faults>>

(* Faulty variant: the mark of what was sent outlives the queue. *)
RestartUnmarked ==
    /\ faults < MaxFaults
    /\ faults' = faults + 1
    /\ _client' = NoClient /\ outq' = NoQueue
    /\ job' = [w \in Worker |-> NoJob]
    /\ UNCHANGED <<world, sent, retained, ran, resent, dropped, asked>>

(* The process stops and starts: the clients go, with what they have not   *)
(* delivered.                                                              *)
Unsent == UNION {{outq[c][i].no : i \in sent[c] + 1 .. Len(outq[c])} : c \in Built}
Restart ==
    /\ faults < MaxFaults
    /\ faults' = faults + 1
    /\ _client' = NoClient /\ outq' = NoQueue /\ sent' = NoQueue
    /\ job' = [w \in Worker |-> NoJob]
    /\ dropped' = dropped \cup Unsent
                    \cup {job[w].no : w \in {v \in Worker : job[v] # NoJob}}
    /\ UNCHANGED <<world, retained, ran, resent, asked>>

Next == \/ \E w \in Worker : DeviceCmd(w) \/ HawkbitCallback(w) \/ PatchDesired(w) \/ Serve(w)
        \/ \E c \in Worker : Transmit(c) \/ Puback(c) \/ ConnectionLost(c)
        \/ Unregister
        \/ \E d \in DeviceId : Link(d) \/ Unlink(d)
        \/ Restart

Spec == Init /\ [][Next]_vars

(* Threads of the pool and of the clients go on. *)
FairSpec == /\ Spec
            /\ \A w \in Worker : WF_vars(Serve(w)) /\ WF_vars(Transmit(w)) /\ WF_vars(Puback(w))

-----------------------------------------------------------------------------
(* A command is run once for each time it was asked for, and once more for *)
(* each time a lost connection had it sent again.  A device that connects  *)
(* again is not given it anew (publish: commands must never be retained),  *)
(* and two clients do not both send it.                                    *)
CommandsRunOnce == \A n \in Number : ran[n] <= 1 + resent[n]

(* The race for the first client ends: once all have built who are going   *)
(* to, and nobody holds a client that was assigned over, no such client is *)
(* given anything any more and _client stays for as long as the process    *)
(* runs (_get_client).                                                     *)
Settled == /\ _client # NoClient
           /\ \A w \in Worker : ~At(w, "build")
           /\ \A w \in Worker : At(w, "publish") => job[w].client = _client
OneClientInTheEnd ==
    [][Settled /\ _client \in Built' =>
         /\ Settled' /\ _client' = _client
         /\ \A c \in Built \ {_client} : Len(outq'[c]) <= Len(outq[c])]_vars

(* What a client has been given reaches its device: a device that stays    *)
(* connected runs the command, whichever of the clients has it, over lost  *)
(* connections; unless a restart takes it.                                 *)
Waiting(n, d) == \E c \in Built : \E i \in sent[c] + 1 .. Len(outq[c]) :
                    /\ outq[c][i].no = n /\ outq[c][i].dev = d
                    /\ outq[c][i].chan = "cmd"
CommandArrives ==
    \A n \in Number, d \in DeviceId :
       Waiting(n, d) ~> ran[n] > 0 \/ d \notin linked \/ n \in dropped

(* Once nothing about a device is on its way, the broker retains the       *)
(* object of its last PATCH: what is published by one client arrives in    *)
(* the order of the commits (mqtt_pub: a single lazily-created publisher   *)
(* client).                                                                *)
OnItsWay(d) ==
    \/ \E w \in Worker : job[w] # NoJob /\ job[w].dev = d /\ job[w].chan = "desired"
    \/ \E c \in Built : \E i \in 1..Len(outq[c]) : outq[c][i].dev = d /\ outq[c][i].chan = "desired"
NewestRetained ==
    \A d \in DeviceId : wanted[d] \notin dropped \cup {0} /\ ~OnItsWay(d) =>
                           retained[<<d, "desired">>] = wanted[d]
=============================================================================
