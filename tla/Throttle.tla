------------------------------ MODULE Throttle ------------------------------
(***************************************************************************)
(* The device check of app/auth.py that the broker calls: the throttle,    *)
(* a list of times of failures per source in the memory of the process,    *)
(* used by the threads of the pool without a lock.  One source stands for  *)
(* all, as each has a list of its own.                                     *)
(*                                                                         *)
(* A check (_is_throttled) fetches the list, filters it into a new one and *)
(* puts that in its place; a failure (_record_auth_failure) fetches the    *)
(* list and appends.  A thread holds the list it fetched, not the source's *)
(* name, so lists are objects with references: an append may go to a list  *)
(* that has been replaced since, or that a filter has already passed.      *)
(*                                                                         *)
(* A failure is the time it was appended at; the model goes by its age, in *)
(* ticks of the clock.  A list is looked at for how many there are in it   *)
(* and how old they are, so it is a set of failures.  One that is Old      *)
(* passes no filter any more and leaves the model, for another to take its *)
(* place: no list is counted that could hold it.                           *)
(*                                                                         *)
(* Whether the credentials are right is left open: the tables say so at    *)
(* the moment of the SELECT, or the environment for the bridge.            *)
(***************************************************************************)
EXTENDS Naturals, FiniteSets

CONSTANTS
    Worker,         \* threads of the pool
    NoJob,          \* the job of an idle thread
    MaxFailures,    \* _RATE_MAX_FAILURES
    Window,         \* _RATE_WINDOW_SECONDS, in ticks
    MaxLate,        \* bound on the ticks a check takes
    Failure         \* bounds the failures that are remembered and under way

ASSUME ThrottleAssumption ==
    /\ IsFiniteSet(Worker) /\ IsFiniteSet(Failure)
    /\ MaxFailures \in Nat \ {0}
    /\ Window \in Nat /\ MaxLate \in Nat

VARIABLES
    current,        \* _auth_failures[source]: a reference
    lists,          \* reference -> the list, for the lists somebody holds
    job,            \* worker -> the request it serves, or NoJob
    age,            \* failure -> ticks since it was appended by this process
    alone           \* history: failures of the window that no check overlapped

vars == <<current, lists, job, age, alone>>
failures == <<age, alone>>

Old == Window + MaxLate + 1
Ref == 1..Cardinality(Worker) + 2

\* late: ticks since cutoff was computed.
Job == [at : {"fetch", "replace", "judge", "record", "append"}, ref : Ref,
        late : 0..MaxLate]

ASSUME JobAssumption == NoJob \notin Job

Busy == {w \in Worker : job[w] # NoJob}
Live == {current} \cup {job[w].ref : w \in Busy}

TypeOK ==
    /\ current \in Ref
    /\ job \in [Worker -> Job \cup {NoJob}]
    /\ lists \in [Live -> SUBSET Failure]
    /\ age \in [Failure -> 0..Old]
    /\ alone \subseteq Failure

Fresh == {f \in Failure : age[f] = Old}
NoFailures == age' = [f \in Failure |-> Old] /\ alone' = {}

Init ==
    /\ current = 1 /\ lists = [r \in {1} |-> {}]
    /\ job = [w \in Worker |-> NoJob]
    /\ age = [f \in Failure |-> Old] /\ alone = {}

-----------------------------------------------------------------------------
At(w, step) == job[w] # NoJob /\ job[w].at = step

(* A new list, and the lists out of the given ones that are still held. *)
Upsert(heap, ref, list) ==
    [r \in DOMAIN heap \cup {ref} |-> IF r = ref THEN list ELSE heap[r]]
Collect(heap) == lists' = [r \in Live' |-> heap[r]]

Done(w) == job' = [job EXCEPT ![w] = NoJob]
GoTo(w, step, ref) == job' = [job EXCEPT ![w] = [@ EXCEPT !.at = step, !.ref = ref]]
GoToRecord(w) == job' = [job EXCEPT ![w] = [@ EXCEPT !.at = "record", !.late = 0]]

Within(list, ticks) == {f \in list : age[f] <= ticks}
NewList == CHOOSE r \in Ref : r \notin Live
NewFailure == CHOOSE f \in Failure : f \in Fresh

(* Faulty variant: the threads go on with the lists they held. *)
RestartKeeping ==
    /\ current' = 1 /\ lists' = [r \in {1} |-> {}]
    /\ NoFailures
    /\ UNCHANGED job

(* The process stops and starts: its memory is gone. *)
Restart ==
    /\ current' = 1 /\ lists' = [r \in {1} |-> {}]
    /\ job' = [w \in Worker |-> NoJob]
    /\ NoFailures

(* cutoff and the get of _is_throttled.  A request without the internal    *)
(* key has been answered 401 before it gets here.  There is a failure left *)
(* for each request that is under way.                                     *)
Arrive(w) ==
    /\ job[w] = NoJob
    /\ Cardinality(Busy) < Cardinality(Fresh)
    /\ job' = [job EXCEPT ![w] = [at |-> "fetch", ref |-> current, late |-> 0]]
    /\ UNCHANGED <<current, lists, failures>>

(* Faulty variant: nothing ever leaves the list. *)
FilterNothing(w) ==
    /\ At(w, "fetch")
    /\ current' = current
    /\ GoTo(w, "replace", NewList)
    /\ Collect(Upsert(lists, NewList, lists[job[w].ref]))
    /\ UNCHANGED failures

(* Faulty variant: t > cutoff. *)
FilterEarly(w) ==
    /\ At(w, "fetch")
    /\ current' = current
    /\ GoTo(w, "replace", NewList)
    /\ Collect(Upsert(lists, NewList,
         {f \in lists[job[w].ref] : age[f] < Window + job[w].late}))
    /\ UNCHANGED failures

(* The comprehension: a new list of what is not before the cutoff. *)
Filter(w) ==
    /\ At(w, "fetch")
    /\ current' = current
    /\ GoTo(w, "replace", NewList)
    /\ Collect(Upsert(lists, NewList, Within(lists[job[w].ref], Window + job[w].late)))
    /\ UNCHANGED failures

(* _auth_failures[source] = recent. *)
Replace(w) ==
    /\ At(w, "replace")
    /\ current' = job[w].ref
    /\ GoTo(w, "judge", job[w].ref)
    /\ Collect(lists)
    /\ UNCHANGED failures

(* len(recent) >= _RATE_MAX_FAILURES; recent is the source's list by now,  *)
(* and others append to it.                                                *)
TooMany(w) == Cardinality(lists[job[w].ref]) >= MaxFailures

(* Faulty variants: one failure more than the limit; and a request that is *)
(* turned down makes the failures that count against it new.               *)
JudgeLate(w) ==
    /\ At(w, "judge")
    /\ \/ Done(w)
       \/ Cardinality(lists[job[w].ref]) <= MaxFailures /\ GoToRecord(w)
    /\ current' = current /\ Collect(lists)
    /\ UNCHANGED failures

JudgeRenewing(w) ==
    /\ At(w, "judge")
    /\ \/ /\ TooMany(w) /\ Done(w)
          /\ age' = [f \in Failure |-> IF f \in lists[job[w].ref] THEN 0 ELSE age[f]]
       \/ ~TooMany(w) /\ (Done(w) \/ GoToRecord(w)) /\ UNCHANGED age
    /\ current' = current /\ Collect(lists)
    /\ UNCHANGED alone

(* 429; or the credentials are looked at: 200, or a failure to record. *)
Judge(w) ==
    /\ At(w, "judge")
    /\ \/ Done(w)
       \/ ~TooMany(w) /\ GoToRecord(w)
    /\ current' = current /\ Collect(lists)
    /\ UNCHANGED failures

(* setdefault: the list as it is now. *)
Record(w) ==
    /\ At(w, "record")
    /\ GoTo(w, "append", current)
    /\ current' = current /\ Collect(lists)
    /\ UNCHANGED failures

(* A check is about to put a list in place that was filtered too early, or *)
(* the list in hand has been replaced.                                     *)
Overlapped(w) ==
    \/ job[w].ref # current
    \/ \E v \in Worker : At(v, "replace") \/ (At(v, "fetch") /\ job[v].ref # current)

(* time.time() and append to the list that was fetched; 403. *)
AppendFailure(w) ==
    /\ At(w, "append")
    /\ age' = [age EXCEPT ![NewFailure] = 0]
    /\ alone' = alone \cup (IF Overlapped(w) THEN {} ELSE {NewFailure})
    /\ Done(w)
    /\ current' = current
    /\ Collect(Upsert(lists, job[w].ref, lists[job[w].ref] \cup {NewFailure}))

Serve(w) == Filter(w) \/ Replace(w) \/ Judge(w) \/ Record(w) \/ AppendFailure(w)

Older(a) == IF a = Old THEN Old ELSE a + 1
Checking(w) == At(w, "fetch") \/ At(w, "replace") \/ At(w, "judge")

(* The clock. *)
Tick ==
    /\ \A w \in Worker : Checking(w) => job[w].late < MaxLate
    /\ age' = [f \in Failure |-> Older(age[f])]
    /\ lists' = [r \in Live |-> {f \in lists[r] : age'[f] < Old}]
    /\ alone' = {f \in alone : age'[f] <= Window}
    /\ job' = [w \in Worker |-> IF Checking(w) THEN [job[w] EXCEPT !.late = @ + 1] ELSE job[w]]
    /\ UNCHANGED current

Next == Restart \/ Tick \/ \E w \in Worker : Arrive(w) \/ Serve(w)

Spec == Init /\ [][Next]_vars

(* The clock goes on, and a thread that serves a request gets to its end. *)
FairSpec == Spec /\ WF_vars(Tick) /\ \A w \in Worker : WF_vars(Serve(w))

-----------------------------------------------------------------------------
(* Whoever is turned down with 429 belongs to a source that has really     *)
(* failed that often within the window, counted from when the request      *)
(* came: races between the threads lose failures, they never invent any or *)
(* keep them for longer (_is_throttled).                                   *)
NoFalseLockout ==
    \A w \in Worker : At(w, "judge") /\ TooMany(w) =>
                        Cardinality(Within(Failure, Window + job[w].late)) >= MaxFailures

(* A failure is forgotten only if a check overlapped its recording: each   *)
(* of the others is in the list until the window has passed it, whatever   *)
(* checks come later (_is_throttled, _record_auth_failure).                *)
CountedUnlessOverlapped == alone \subseteq lists[current]

(* The rate is limited for any number of threads: of the failures of a     *)
(* window that no check overlapped, those beyond the limit are of threads  *)
(* that had passed the check together, one each; with one thread the limit *)
(* is exact (_is_throttled before _record_auth_failure).                   *)
RateLimited == Cardinality(alone) <= MaxFailures - 1 + Cardinality(Worker)

(* A source that is throttled is let in again, however often it comes back *)
(* meanwhile: what is turned down does not count (internal_auth).          *)
Throttled == Cardinality(Within(lists[current], Window)) >= MaxFailures
LockoutEnds == Throttled ~> ~Throttled
=============================================================================
