--------------------------- MODULE ThrottleProofs ---------------------------
(***************************************************************************)
(* Theorems about Throttle, for any number of threads, any limit and any   *)
(* window: its types, that nobody is shut out for nothing, that no failure *)
(* is forgotten without a race, and that the rate is limited.              *)
(***************************************************************************)
EXTENDS Throttle, FiniteSetTheorems, TLAPS

(* There is a failure left for each request that is under way, and one     *)
(* that is taken anew is in no list.                                       *)
ReserveInv == Cardinality(Busy) <= Cardinality(Fresh)
FreshInNoList == \A r \in Live : \A f \in lists[r] : age[f] # Old

(* A list that has been filtered holds what was within the window when its *)
(* check began, whoever has appended to it since.                          *)
FilteredInv ==
    \A w \in Worker : At(w, "replace") \/ At(w, "judge") =>
        \A f \in lists[job[w].ref] : age[f] <= Window + job[w].late

(* What no check overlapped is in the list, and in every list that a check *)
(* may yet put in its place.                                               *)
AloneInv == \A f \in alone : age[f] <= Window
CountedInv ==
    /\ alone \subseteq lists[current]
    /\ \A w \in Worker : At(w, "fetch") \/ At(w, "replace") => alone \subseteq lists[job[w].ref]

(* The threads that may still record a failure once the limit is reached:  *)
(* no other gets past the check.                                           *)
MayRecord(w) == At(w, "record") \/ At(w, "append") \/ (At(w, "judge") /\ ~TooMany(w))
Past == {w \in Worker : MayRecord(w)}
RateInv ==
    Cardinality(alone) >= MaxFailures =>
        Cardinality(alone) + Cardinality(Past) <= MaxFailures - 1 + Cardinality(Worker)

IInv ==
    /\ TypeOK /\ ReserveInv /\ FreshInNoList /\ FilteredInv
    /\ AloneInv /\ CountedInv /\ RateInv

-----------------------------------------------------------------------------
(* Types.                                                                    *)
Jobs == [Worker -> Job \cup {NoJob}]
Step == {"fetch", "replace", "judge", "record", "append"}

(* The bounds of the clock and of the lists.                                 *)
LEMMA Bounds ==
    /\ Old \in Nat \ {0} /\ Window \in Nat /\ MaxLate \in Nat
    /\ Window + MaxLate < Old /\ MaxFailures \in Nat /\ MaxFailures >= 1
    /\ Cardinality(Worker) \in Nat
BY FS_CardinalityType, ThrottleAssumption DEF Old

(* The parts of a set of threads or failures are finite, and no larger.      *)
LEMMA Fewer ==
    ASSUME NEW U, IsFiniteSet(U), NEW S \in SUBSET U, NEW T \in SUBSET S
    PROVE  /\ IsFiniteSet(S) /\ IsFiniteSet(T)
           /\ Cardinality(S) \in Nat /\ Cardinality(T) \in Nat
           /\ Cardinality(T) <= Cardinality(S)
<1>1. IsFiniteSet(S) /\ IsFiniteSet(T)
  BY FS_Subset
<1>. QED
  BY <1>1, FS_CardinalityType, FS_Subset

(* Taking one away, and adding one.                                          *)
LEMMA OneLess ==
    ASSUME NEW U, IsFiniteSet(U), NEW S \in SUBSET U, NEW x \in S, NEW T \in SUBSET (S \ {x})
    PROVE  /\ Cardinality(S) \in Nat /\ Cardinality(T) \in Nat
           /\ Cardinality(T) + 1 <= Cardinality(S)
<1>1. IsFiniteSet(S)
  BY FS_Subset
<1>2. Cardinality(S \ {x}) = Cardinality(S) - 1 /\ Cardinality(S) \in Nat
  BY <1>1, FS_RemoveElement, FS_CardinalityType
<1>3. Cardinality(T) <= Cardinality(S \ {x}) /\ Cardinality(T) \in Nat
  BY <1>1, Fewer
<1>. QED
  BY <1>2, <1>3

(* A set with at most one more.                                              *)
LEMMA OneMore ==
    ASSUME NEW U, IsFiniteSet(U), NEW S \in SUBSET U, NEW x, NEW T \in SUBSET (S \cup {x})
    PROVE  /\ Cardinality(S) \in Nat /\ Cardinality(T) \in Nat
           /\ Cardinality(T) <= Cardinality(S) + 1
<1>1. IsFiniteSet(S)
  BY FS_Subset
<1>2. Cardinality(S) \in Nat
  BY <1>1, FS_CardinalityType
<1>3. IsFiniteSet(S \cup {x})
      /\ Cardinality(S \cup {x}) = IF x \in S THEN Cardinality(S) ELSE Cardinality(S) + 1
  BY <1>1, FS_AddElement
<1>4. Cardinality(T) <= Cardinality(S \cup {x}) /\ Cardinality(T) \in Nat
  BY <1>3, Fewer
<1>. QED
  BY <1>2, <1>3, <1>4

(* The request of a busy thread.                                             *)
LEMMA JobType ==
    ASSUME TypeOK, NEW w \in Worker, job[w] # NoJob
    PROVE  /\ job[w] \in Job /\ job[w].at \in Step /\ job[w].ref \in Ref
           /\ job[w].late \in 0..MaxLate
           /\ job[w].ref \in Live /\ lists[job[w].ref] \subseteq Failure
<1>1. job[w] \in Job
  BY DEF TypeOK
<1>2. job[w].ref \in Live
  BY DEF Live, Busy
<1>. QED
  BY <1>1, <1>2 DEF Job, Step, TypeOK

(* What a thread does to its own request.                                    *)
LEMMA GoToType ==
    ASSUME TypeOK, NEW w \in Worker, job[w] # NoJob, NEW step \in Step, NEW ref \in Ref,
           GoTo(w, step, ref)
    PROVE  /\ job' \in Jobs /\ job'[w] # NoJob
           /\ job'[w].at = step /\ job'[w].ref = ref /\ job'[w].late = job[w].late
           /\ \A v \in Worker : v # w => job'[v] = job[v]
<1>1. job[w] \in Job
  BY JobType
<1>2. job' = [job EXCEPT ![w] = [job[w] EXCEPT !.at = step, !.ref = ref]]
  BY DEF GoTo
<1>3. [job[w] EXCEPT !.at = step, !.ref = ref] \in Job
  BY <1>1 DEF Job, Step
<1>. QED
  BY <1>1, <1>2, <1>3, JobAssumption DEF TypeOK, Jobs, Job

(* A thread goes on to record a failure; its check is over.                  *)
LEMMA GoToRecordType ==
    ASSUME TypeOK, NEW w \in Worker, job[w] # NoJob, GoToRecord(w)
    PROVE  /\ job' \in Jobs /\ job'[w] # NoJob
           /\ job'[w].at = "record" /\ job'[w].ref = job[w].ref
           /\ \A v \in Worker : v # w => job'[v] = job[v]
<1>1. job[w] \in Job
  BY JobType
<1>2. job' = [job EXCEPT ![w] = [job[w] EXCEPT !.at = "record", !.late = 0]]
  BY DEF GoToRecord
<1>3. [job[w] EXCEPT !.at = "record", !.late = 0] \in Job
  <2>1. 0 \in 0..MaxLate
    BY Bounds
  <2>. QED
    BY <1>1, <2>1 DEF Job
<1>. QED
  BY <1>1, <1>2, <1>3, JobAssumption DEF TypeOK, Jobs, Job

(* A thread is done with its request.                                        *)
LEMMA DoneType ==
    ASSUME TypeOK, NEW w \in Worker, Done(w)
    PROVE  /\ job' \in Jobs /\ job'[w] = NoJob
           /\ \A v \in Worker : v # w => job'[v] = job[v]
BY DEF Done, TypeOK, Jobs

(* There is a reference left for one list more than the threads hold.        *)
LEMMA NewListFree ==
    ASSUME TypeOK
    PROVE  NewList \in Ref /\ NewList \notin Live
<1>. DEFINE Other == Ref \ {current}
            Holder == [r \in Other |-> CHOOSE w \in Worker : job[w].ref = r]
<1>1. SUFFICES ASSUME Ref \subseteq Live
               PROVE  FALSE
  BY DEF NewList
<1>2. \A r \in Other : Holder[r] \in Worker /\ job[Holder[r]].ref = r
  BY <1>1 DEF Live, Busy
<1>3. Holder \in [Other -> Worker]
  BY <1>2
<1>4. IsFiniteSet(Ref) /\ Cardinality(Ref) = Cardinality(Worker) + 2
  BY Bounds, FS_Interval DEF Ref
<1>5. IsFiniteSet(Other) /\ Cardinality(Other) = Cardinality(Worker) + 1
  <2>1. current \in Ref
    BY DEF TypeOK
  <2>2. /\ IsFiniteSet(Ref \ {current})
        /\ Cardinality(Ref \ {current}) =
             IF current \in Ref THEN Cardinality(Ref) - 1 ELSE Cardinality(Ref)
    BY <1>4, FS_RemoveElement
  <2>. QED
    BY <1>4, <2>1, <2>2, Bounds
<1>6. Cardinality(Worker) < Cardinality(Other)
  BY <1>5, Bounds
<1>. HIDE DEF Other, Holder
<1>7. PICK x, y \in Other : x # y /\ Holder[x] = Holder[y]
  BY <1>3, <1>5, <1>6, FS_PigeonHole, ThrottleAssumption
<1>. QED
  BY <1>2, <1>7

(* A thread that is about to record finds a failure to take.                 *)
LEMMA NewFailureFree ==
    ASSUME TypeOK, ReserveInv, NEW w \in Worker, job[w] # NoJob
    PROVE  NewFailure \in Fresh
<1>1. SUFFICES ASSUME Fresh = {}
               PROVE  FALSE
  BY DEF NewFailure, Fresh
<1>2. w \in Busy /\ Busy \in SUBSET Worker /\ {} \in SUBSET (Busy \ {w})
  BY DEF Busy
<1>3. Cardinality(Busy) >= 1 /\ Cardinality(Busy) \in Nat
  <2>1. Cardinality({}) = 0
    BY FS_EmptySet
  <2>. QED
    BY <1>2, <2>1, OneLess, ThrottleAssumption
<1>4. Cardinality(Fresh) = 0
  BY <1>1, FS_EmptySet
<1>. QED
  BY <1>3, <1>4 DEF ReserveInv

(* The lists that are held after a step of one thread.                       *)
LEMMA LiveAfter ==
    ASSUME NEW w \in Worker, \A v \in Worker : v # w => job'[v] = job[v],
           NEW L, Live \subseteq L, current' \in L, job'[w] # NoJob => job'[w].ref \in L
    PROVE  Live' \subseteq L
BY DEF Live, Busy

(* A step that makes no list leaves the lists that are held as they are.     *)
SameLists ==
    /\ lists' \in [Live' -> SUBSET Failure]
    /\ \A r \in Live' : r \in Live /\ lists'[r] = lists[r]

(* The lists that are held after a step that makes none.                     *)
LEMMA CollectType ==
    ASSUME TypeOK, Collect(lists), Live' \subseteq Live
    PROVE  SameLists
BY DEF Collect, TypeOK, SameLists

-----------------------------------------------------------------------------
(* What each step of a thread does, as far as the invariants look at it.     *)
OfOthers(w) == \A v \in Worker : v # w => job'[v] = job[v]

(* A request comes: its thread holds the list in place.                      *)
LEMMA ArriveDoes ==
    ASSUME TypeOK, NEW w \in Worker, Arrive(w)
    PROVE  /\ job' \in Jobs /\ job'[w] # NoJob /\ OfOthers(w)
           /\ job'[w].at = "fetch" /\ job'[w].ref = current
           /\ current' = current /\ age' = age /\ alone' = alone /\ SameLists
<1>1. current \in Ref /\ 0 \in 0..MaxLate
  BY Bounds DEF TypeOK
<1>2. [at |-> "fetch", ref |-> current, late |-> 0] \in Job
  BY <1>1 DEF Job
<1>3. /\ job' \in Jobs /\ job'[w] # NoJob /\ OfOthers(w)
      /\ job'[w].at = "fetch" /\ job'[w].ref = current
  BY <1>2, JobAssumption DEF Arrive, TypeOK, Jobs, OfOthers
<1>4. current' = current /\ age' = age /\ alone' = alone /\ lists' = lists
  BY DEF Arrive, failures
<1>5. Live' = Live
  BY <1>3, <1>4 DEF Live, Busy, OfOthers, Arrive
<1>6. SameLists
  BY <1>4, <1>5 DEF SameLists, TypeOK
<1>. QED
  BY <1>3, <1>4, <1>6

(* The filtered copy is a list that nobody else holds.                       *)
LEMMA FilterDoes ==
    ASSUME TypeOK, NEW w \in Worker, Filter(w)
    PROVE  /\ job' \in Jobs /\ job'[w] # NoJob /\ OfOthers(w)
           /\ job'[w].at = "replace" /\ job'[w].ref = NewList /\ job'[w].late = job[w].late
           /\ current' = current /\ age' = age /\ alone' = alone
           /\ lists' \in [Live' -> SUBSET Failure]
           /\ NewList \in Ref /\ NewList \notin Live /\ NewList \in Live'
           /\ lists'[NewList] = Within(lists[job[w].ref], Window + job[w].late)
           /\ \A r \in Live' : r # NewList => r \in Live /\ lists'[r] = lists[r]
<1>1. At(w, "fetch") /\ job[w] # NoJob
  BY DEF Filter, At
<1>2. NewList \in Ref /\ NewList \notin Live
  BY NewListFree
<1>3. /\ job' \in Jobs /\ job'[w] # NoJob /\ OfOthers(w)
      /\ job'[w].at = "replace" /\ job'[w].ref = NewList /\ job'[w].late = job[w].late
  <2>1. "replace" \in Step /\ GoTo(w, "replace", NewList)
    BY DEF Filter, Step
  <2>. QED
    BY <1>1, <1>2, <2>1, GoToType DEF OfOthers
<1>4. current' = current /\ age' = age /\ alone' = alone
  BY DEF Filter, failures
<1>5. Live' \subseteq Live \cup {NewList}
  <2>1. current' \in Live \cup {NewList}
    BY <1>4 DEF Live
  <2>. QED
    BY <1>3, <2>1, LiveAfter DEF OfOthers
<1>6. NewList \in Live'
  BY <1>3 DEF Live, Busy
<1>. DEFINE heap == Upsert(lists, NewList, Within(lists[job[w].ref], Window + job[w].late))
<1>7. lists' = [r \in Live' |-> heap[r]]
  BY DEF Filter, Collect
<1>8. DOMAIN lists = Live /\ lists \in [Live -> SUBSET Failure]
  BY DEF TypeOK
<1>9. Within(lists[job[w].ref], Window + job[w].late) \in SUBSET Failure
  BY <1>1, JobType DEF Within
<1>10. heap \in [Live \cup {NewList} -> SUBSET Failure]
  BY <1>8, <1>9 DEF Upsert
<1>11. /\ heap[NewList] = Within(lists[job[w].ref], Window + job[w].late)
       /\ \A r \in Live : heap[r] = lists[r]
  BY <1>2, <1>8 DEF Upsert
<1>. HIDE DEF heap
<1>. QED
  BY <1>2, <1>3, <1>4, <1>5, <1>6, <1>7, <1>10, <1>11

(* The thread's list comes in place, and the thread keeps it.                *)
LEMMA ReplaceDoes ==
    ASSUME TypeOK, NEW w \in Worker, Replace(w)
    PROVE  /\ At(w, "replace") /\ job' \in Jobs /\ job'[w] # NoJob /\ OfOthers(w)
           /\ job'[w].at = "judge" /\ job'[w].ref = job[w].ref /\ job'[w].late = job[w].late
           /\ current' = job[w].ref /\ current' \in Ref
           /\ age' = age /\ alone' = alone /\ SameLists
<1>1. At(w, "replace") /\ job[w] # NoJob
  BY DEF Replace, At
<1>2. job[w].ref \in Ref /\ job[w].ref \in Live
  BY <1>1, JobType
<1>3. /\ job' \in Jobs /\ job'[w] # NoJob /\ OfOthers(w)
      /\ job'[w].at = "judge" /\ job'[w].ref = job[w].ref /\ job'[w].late = job[w].late
  <2>1. "judge" \in Step /\ GoTo(w, "judge", job[w].ref)
    BY DEF Replace, Step
  <2>. QED
    BY <1>1, <1>2, <2>1, GoToType DEF OfOthers
<1>4. current' = job[w].ref /\ age' = age /\ alone' = alone /\ Collect(lists)
  BY DEF Replace, failures
<1>5. Live' \subseteq Live
  BY <1>2, <1>3, <1>4, LiveAfter DEF OfOthers
<1>6. SameLists
  BY <1>4, <1>5, CollectType
<1>. QED
  BY <1>1, <1>2, <1>3, <1>4, <1>6

(* Only a thread that does not find too many goes on to record.              *)
LEMMA JudgeDoes ==
    ASSUME TypeOK, NEW w \in Worker, Judge(w)
    PROVE  /\ At(w, "judge") /\ job' \in Jobs /\ OfOthers(w)
           /\ \/ job'[w] = NoJob
              \/ /\ ~TooMany(w) /\ job'[w] # NoJob
                 /\ job'[w].at = "record" /\ job'[w].ref = job[w].ref
           /\ current' = current /\ age' = age /\ alone' = alone /\ SameLists
<1>1. At(w, "judge") /\ job[w] # NoJob
  BY DEF Judge, At
<1>2. job[w].ref \in Live /\ current \in Live
  BY <1>1, JobType DEF Live
<1>3. /\ job' \in Jobs /\ OfOthers(w)
      /\ \/ job'[w] = NoJob
         \/ /\ ~TooMany(w) /\ job'[w] # NoJob
            /\ job'[w].at = "record" /\ job'[w].ref = job[w].ref
  <2>1. CASE Done(w)
    BY <2>1, DoneType DEF OfOthers
  <2>2. CASE ~TooMany(w) /\ GoToRecord(w)
    BY <1>1, <2>2, GoToRecordType DEF OfOthers
  <2>. QED
    BY <2>1, <2>2 DEF Judge
<1>4. current' = current /\ age' = age /\ alone' = alone /\ Collect(lists)
  BY DEF Judge, failures
<1>5. Live' \subseteq Live
  BY <1>2, <1>3, <1>4, LiveAfter DEF OfOthers
<1>6. SameLists
  BY <1>4, <1>5, CollectType
<1>. QED
  BY <1>1, <1>3, <1>4, <1>6

(* The thread takes up the list in place.                                    *)
LEMMA RecordDoes ==
    ASSUME TypeOK, NEW w \in Worker, Record(w)
    PROVE  /\ At(w, "record") /\ job' \in Jobs /\ job'[w] # NoJob /\ OfOthers(w)
           /\ job'[w].at = "append" /\ job'[w].ref = current
           /\ current' = current /\ age' = age /\ alone' = alone /\ SameLists
<1>1. At(w, "record") /\ job[w] # NoJob
  BY DEF Record, At
<1>2. current \in Ref /\ current \in Live
  BY DEF TypeOK, Live
<1>3. /\ job' \in Jobs /\ job'[w] # NoJob /\ OfOthers(w)
      /\ job'[w].at = "append" /\ job'[w].ref = current
  <2>1. "append" \in Step /\ GoTo(w, "append", current)
    BY DEF Record, Step
  <2>. QED
    BY <1>1, <1>2, <2>1, GoToType DEF OfOthers
<1>4. current' = current /\ age' = age /\ alone' = alone /\ Collect(lists)
  BY DEF Record, failures
<1>5. Live' \subseteq Live
  BY <1>2, <1>3, <1>4, LiveAfter DEF OfOthers
<1>6. SameLists
  BY <1>4, <1>5, CollectType
<1>. QED
  BY <1>1, <1>3, <1>4, <1>6

(* One failure, taken anew, goes to the list in hand and to no other.        *)
LEMMA AppendDoes ==
    ASSUME TypeOK, ReserveInv, NEW w \in Worker, AppendFailure(w)
    PROVE  /\ At(w, "append") /\ job' \in Jobs /\ job'[w] = NoJob /\ OfOthers(w)
           /\ current' = current
           /\ NewFailure \in Failure /\ age[NewFailure] = Old
           /\ age' = [age EXCEPT ![NewFailure] = 0]
           /\ alone' = alone \cup (IF Overlapped(w) THEN {} ELSE {NewFailure})
           /\ lists' \in [Live' -> SUBSET Failure]
           /\ \A r \in Live' : r \in Live
           /\ \A r \in Live' : lists'[r] = IF r = job[w].ref THEN lists[r] \cup {NewFailure}
                                                             ELSE lists[r]
<1>1. At(w, "append") /\ job[w] # NoJob
  BY DEF AppendFailure, At
<1>2. job[w].ref \in Live /\ current \in Live /\ lists[job[w].ref] \subseteq Failure
  BY <1>1, JobType DEF Live
<1>3. job' \in Jobs /\ job'[w] = NoJob /\ OfOthers(w)
  <2>1. Done(w)
    BY DEF AppendFailure
  <2>. QED
    BY <2>1, DoneType DEF OfOthers
<1>4. NewFailure \in Failure /\ age[NewFailure] = Old
  BY <1>1, NewFailureFree DEF Fresh
<1>5. /\ current' = current
      /\ age' = [age EXCEPT ![NewFailure] = 0]
      /\ alone' = alone \cup (IF Overlapped(w) THEN {} ELSE {NewFailure})
  BY DEF AppendFailure
<1>6. Live' \subseteq Live
  BY <1>2, <1>3, <1>5, LiveAfter DEF OfOthers
<1>. DEFINE heap == Upsert(lists, job[w].ref, lists[job[w].ref] \cup {NewFailure})
<1>7. lists' = [r \in Live' |-> heap[r]]
  BY DEF AppendFailure, Collect
<1>8. DOMAIN lists = Live /\ lists \in [Live -> SUBSET Failure]
  BY DEF TypeOK
<1>9. \A r \in Live : heap[r] = IF r = job[w].ref THEN lists[r] \cup {NewFailure} ELSE lists[r]
  BY <1>2, <1>8 DEF Upsert
<1>10. \A r \in Live : heap[r] \in SUBSET Failure
  BY <1>2, <1>4, <1>8, <1>9
<1>. HIDE DEF heap
<1>. QED
  BY <1>1, <1>3, <1>4, <1>5, <1>6, <1>7, <1>9, <1>10

(* Everything gets older, lists and checks alike.                            *)
LEMMA TickDoes ==
    ASSUME TypeOK, Tick
    PROVE  /\ job' \in Jobs /\ current' = current
           /\ \A w \in Worker : (job'[w] = NoJob) <=> (job[w] = NoJob)
           /\ \A w \in Worker : job[w] # NoJob =>
                job'[w].at = job[w].at /\ job'[w].ref = job[w].ref
           /\ \A w \in Worker : Checking(w) =>
                job'[w].late = job[w].late + 1 /\ job[w].late < MaxLate
           /\ age' \in [Failure -> 0..Old]
           /\ \A f \in Failure : age'[f] = Older(age[f])
           /\ lists' \in [Live' -> SUBSET Failure] /\ Live' = Live
           /\ \A r \in Live : lists'[r] = {f \in lists[r] : age'[f] < Old}
           /\ alone' = {f \in alone : age'[f] <= Window}
<1>1. \A w \in Worker : Checking(w) => job[w].late < MaxLate /\ job[w] # NoJob
  BY DEF Tick, Checking, At
<1>2. \A w \in Worker : job'[w] = IF Checking(w) THEN [job[w] EXCEPT !.late = @ + 1] ELSE job[w]
  BY DEF Tick
<1>3. \A w \in Worker : Checking(w) =>
         /\ [job[w] EXCEPT !.late = @ + 1] \in Job
         /\ [job[w] EXCEPT !.late = @ + 1].at = job[w].at
         /\ [job[w] EXCEPT !.late = @ + 1].ref = job[w].ref
         /\ [job[w] EXCEPT !.late = @ + 1].late = job[w].late + 1
  <2>1. SUFFICES ASSUME NEW w \in Worker, Checking(w)
                 PROVE  /\ [job[w] EXCEPT !.late = @ + 1] \in Job
                        /\ [job[w] EXCEPT !.late = @ + 1].at = job[w].at
                        /\ [job[w] EXCEPT !.late = @ + 1].ref = job[w].ref
                        /\ [job[w] EXCEPT !.late = @ + 1].late = job[w].late + 1
    OBVIOUS
  <2>2. job[w] \in Job /\ job[w].late \in 0..MaxLate /\ job[w].late < MaxLate
    BY <1>1, <2>1, JobType
  <2>3. job[w].late + 1 \in 0..MaxLate /\ MaxLate \in Nat
    BY <2>2, Bounds
  <2>. QED
    BY <2>2, <2>3 DEF Job
<1>4. job' \in Jobs
  <2>1. \A w \in Worker : job'[w] \in Job \cup {NoJob}
    BY <1>2, <1>3 DEF TypeOK
  <2>. QED
    BY <2>1 DEF Tick, Jobs
<1>5. \A w \in Worker : (job'[w] = NoJob) <=> (job[w] = NoJob)
  BY <1>1, <1>2, <1>3, JobAssumption
<1>6. \A w \in Worker : job[w] # NoJob => job'[w].at = job[w].at /\ job'[w].ref = job[w].ref
  BY <1>2, <1>3
<1>7. \A w \in Worker : Checking(w) => job'[w].late = job[w].late + 1 /\ job[w].late < MaxLate
  BY <1>1, <1>2, <1>3
<1>8. current' = current
  BY DEF Tick
<1>9. Live' = Live
  BY <1>5, <1>6, <1>8 DEF Live, Busy
<1>10. age' \in [Failure -> 0..Old] /\ \A f \in Failure : age'[f] = Older(age[f])
  BY Bounds DEF Tick, Older, TypeOK
<1>11. /\ lists' \in [Live -> SUBSET Failure]
       /\ \A r \in Live : lists'[r] = {f \in lists[r] : age'[f] < Old}
  BY DEF Tick, TypeOK
<1>. QED
  BY <1>4, <1>5, <1>6, <1>7, <1>8, <1>9, <1>10, <1>11 DEF Tick

(* Nothing is left.                                                          *)
LEMMA RestartDoes ==
    ASSUME Restart
    PROVE  /\ current' = 1 /\ Live' = {1} /\ lists' = [r \in {1} |-> {}]
           /\ \A w \in Worker : job'[w] = NoJob
           /\ age' = [f \in Failure |-> Old] /\ alone' = {}
           /\ TypeOK'
<1>1. current' = 1 /\ lists' = [r \in {1} |-> {}] /\ age' = [f \in Failure |-> Old]
      /\ alone' = {} /\ job' = [w \in Worker |-> NoJob]
  BY DEF Restart, NoFailures
<1>2. Live' = {1}
  BY <1>1 DEF Live, Busy
<1>3. 1 \in Ref /\ Old \in 0..Old
  BY Bounds DEF Ref
<1>. QED
  BY <1>1, <1>2, <1>3 DEF TypeOK

-----------------------------------------------------------------------------
(* The invariant is kept.                                                    *)
LEMMA TypeNext ==
    ASSUME TypeOK, ReserveInv, [Next]_vars
    PROVE  TypeOK'
<1>. USE DEF SameLists, Jobs
<1>1. CASE Restart
  BY <1>1, RestartDoes
<1>2. CASE Tick
  BY <1>2, TickDoes DEF TypeOK
<1>3. ASSUME NEW w \in Worker, Arrive(w) PROVE TypeOK'
  BY <1>3, ArriveDoes DEF TypeOK
<1>4. ASSUME NEW w \in Worker, Filter(w) PROVE TypeOK'
  BY <1>4, FilterDoes DEF TypeOK
<1>5. ASSUME NEW w \in Worker, Replace(w) PROVE TypeOK'
  BY <1>5, ReplaceDoes DEF TypeOK
<1>6. ASSUME NEW w \in Worker, Judge(w) PROVE TypeOK'
  BY <1>6, JudgeDoes DEF TypeOK
<1>7. ASSUME NEW w \in Worker, Record(w) PROVE TypeOK'
  BY <1>7, RecordDoes DEF TypeOK
<1>8. ASSUME NEW w \in Worker, AppendFailure(w) PROVE TypeOK'
  <2>1. age' \in [Failure -> 0..Old]
    BY <1>8, AppendDoes, Bounds DEF TypeOK
  <2>2. alone' \subseteq Failure
    BY <1>8, AppendDoes DEF TypeOK
  <2>. QED
    BY <1>8, <2>1, <2>2, AppendDoes DEF TypeOK
<1>9. CASE UNCHANGED vars
  BY <1>9 DEF TypeOK, vars, Live, Busy
<1>. QED
  BY <1>1, <1>2, <1>3, <1>4, <1>5, <1>6, <1>7, <1>8, <1>9 DEF Next, Serve

(* The threads that are busy, and the failures that are free.                *)
LEMMA ReserveNext ==
    ASSUME TypeOK, ReserveInv, [Next]_vars
    PROVE  ReserveInv'
<1>0. /\ Busy \in SUBSET Worker /\ Busy' \in SUBSET Worker
      /\ Fresh \in SUBSET Failure /\ Fresh' \in SUBSET Failure
      /\ IsFiniteSet(Worker) /\ IsFiniteSet(Failure)
  BY ThrottleAssumption DEF Busy, Fresh
<1>1. /\ Cardinality(Busy) \in Nat /\ Cardinality(Busy') \in Nat
      /\ Cardinality(Fresh) \in Nat /\ Cardinality(Fresh') \in Nat
  BY <1>0, Fewer
<1>2. ASSUME Busy' \subseteq Busy, Fresh \subseteq Fresh' PROVE ReserveInv'
  <2>1. Cardinality(Busy') <= Cardinality(Busy)
    BY <1>0, <1>2, Fewer
  <2>2. Cardinality(Fresh) <= Cardinality(Fresh')
    BY <1>0, <1>2, Fewer
  <2>. QED
    BY <1>1, <2>1, <2>2 DEF ReserveInv
<1>3. CASE Restart
  <2>1. Busy' = {}
    BY <1>3, RestartDoes DEF Busy
  <2>2. Cardinality({}) = 0
    BY FS_EmptySet
  <2>. QED
    BY <1>1, <2>1, <2>2 DEF ReserveInv
<1>4. CASE Tick
  <2>1. Busy' = Busy
    BY <1>4, TickDoes DEF Busy
  <2>2. Fresh \subseteq Fresh'
    BY <1>4, TickDoes DEF Fresh, Older
  <2>. QED
    BY <1>2, <2>1, <2>2
<1>5. ASSUME NEW w \in Worker, Arrive(w) PROVE ReserveInv'
  <2>1. Busy' \in SUBSET (Busy \cup {w}) /\ Fresh' = Fresh
    BY <1>5, ArriveDoes DEF Busy, Fresh, OfOthers
  <2>2. Cardinality(Busy') <= Cardinality(Busy) + 1
    BY <1>0, <2>1, OneMore
  <2>3. Cardinality(Busy) < Cardinality(Fresh)
    BY <1>5 DEF Arrive
  <2>. QED
    BY <1>1, <2>1, <2>2, <2>3 DEF ReserveInv
<1>6. ASSUME NEW w \in Worker, Filter(w) \/ Replace(w) \/ Judge(w) \/ Record(w)
      PROVE  ReserveInv'
  <2>1. w \in Busy
    BY <1>6 DEF Filter, Replace, Judge, Record, At, Busy
  <2>2. OfOthers(w) /\ age' = age
    BY <1>6, FilterDoes, ReplaceDoes, JudgeDoes, RecordDoes
  <2>. QED
    BY <1>2, <2>1, <2>2 DEF Busy, Fresh, OfOthers
<1>7. ASSUME NEW w \in Worker, AppendFailure(w) PROVE ReserveInv'
  <2>1. w \in Busy
    BY <1>7 DEF AppendFailure, At, Busy
  <2>2. Busy' \in SUBSET (Busy \ {w})
    BY <1>7, AppendDoes DEF Busy, OfOthers
  <2>3. Fresh \in SUBSET (Fresh' \cup {NewFailure})
    BY <1>7, AppendDoes DEF Fresh, TypeOK
  <2>4. Cardinality(Busy') + 1 <= Cardinality(Busy)
    BY <1>0, <2>1, <2>2, OneLess
  <2>5. Cardinality(Fresh) <= Cardinality(Fresh') + 1
    BY <1>0, <2>3, OneMore
  <2>. QED
    BY <1>1, <2>4, <2>5 DEF ReserveInv
<1>8. CASE UNCHANGED vars
  BY <1>8 DEF ReserveInv, Busy, Fresh, vars
<1>. QED
  BY <1>3, <1>4, <1>5, <1>6, <1>7, <1>8 DEF Next, Serve

(* Nothing that has left the window by far is in a list.                     *)
LEMMA FreshNext ==
    ASSUME TypeOK, ReserveInv, FreshInNoList, [Next]_vars
    PROVE  FreshInNoList'
<1>. USE DEF SameLists
<1>1. CASE Restart
  BY <1>1, RestartDoes DEF FreshInNoList
<1>2. CASE Tick
  <2>1. SUFFICES ASSUME NEW r \in Live', NEW f \in lists'[r] PROVE age'[f] # Old
    BY DEF FreshInNoList
  <2>2. age'[f] < Old
    BY <1>2, <2>1, TickDoes
  <2>. QED
    BY <2>2, Bounds
<1>3. ASSUME NEW w \in Worker, Arrive(w) \/ Replace(w) \/ Judge(w) \/ Record(w)
      PROVE  FreshInNoList'
  BY <1>3, ArriveDoes, ReplaceDoes, JudgeDoes, RecordDoes DEF FreshInNoList
<1>4. ASSUME NEW w \in Worker, Filter(w) PROVE FreshInNoList'
  <2>1. job[w].ref \in Live
    BY <1>4, JobType DEF Filter, At
  <2>. QED
    BY <1>4, <2>1, FilterDoes DEF FreshInNoList, Within
<1>5. ASSUME NEW w \in Worker, AppendFailure(w) PROVE FreshInNoList'
  <2>1. SUFFICES ASSUME NEW r \in Live', NEW f \in lists'[r] PROVE age'[f] # Old
    BY DEF FreshInNoList
  <2>2. r \in Live /\ f \in Failure
    BY <1>5, <2>1, AppendDoes
  <2>5. lists'[r] = IF r = job[w].ref THEN lists[r] \cup {NewFailure} ELSE lists[r]
    BY <1>5, AppendDoes
  <2>3. f \in lists[r] \/ f = NewFailure
    BY <2>1, <2>5
  <2>4. age'[f] = IF f = NewFailure THEN 0 ELSE age[f]
    BY <1>5, <2>2, AppendDoes DEF TypeOK
  <2>. QED
    BY <2>2, <2>3, <2>4, Bounds DEF FreshInNoList
<1>6. CASE UNCHANGED vars
  BY <1>6 DEF FreshInNoList, Live, Busy, vars
<1>. QED
  BY <1>1, <1>2, <1>3, <1>4, <1>5, <1>6 DEF Next, Serve

(* A list that has been filtered stays so while the clock goes on.           *)
LEMMA FilteredNext ==
    ASSUME TypeOK, ReserveInv, FilteredInv, [Next]_vars
    PROVE  FilteredInv'
<1>. USE DEF SameLists
<1>. DEFINE Filtered(v) == At(v, "replace") \/ At(v, "judge")
<1>0. ASSUME NEW v \in Worker, job'[v] = job[v], age' = age,
             Filtered(v)', lists'[job[v].ref] = lists[job[v].ref]
      PROVE  \A f \in lists'[job'[v].ref] : age'[f] <= Window + job'[v].late
  BY <1>0 DEF FilteredInv, At
<1>1. CASE Restart
  BY <1>1, RestartDoes DEF FilteredInv, At
<1>2. CASE Tick
  <2>1. SUFFICES ASSUME NEW v \in Worker, Filtered(v)',
                        NEW f \in lists'[job'[v].ref]
                 PROVE  age'[f] <= Window + job'[v].late
    BY DEF FilteredInv
  <2>2. Filtered(v) /\ job[v] # NoJob /\ job'[v].ref = job[v].ref
    BY <1>2, <2>1, TickDoes DEF At
  <2>3. job[v].ref \in Live /\ job[v].late \in 0..MaxLate
        /\ lists[job[v].ref] \subseteq Failure
    BY <2>2, JobType
  <2>4. job'[v].late = job[v].late + 1
    BY <1>2, <2>2, TickDoes DEF Checking
  <2>5. f \in lists[job[v].ref]
    BY <1>2, <2>1, <2>2, <2>3, TickDoes
  <2>6. f \in Failure /\ age[f] \in 0..Old
    BY <2>3, <2>5 DEF TypeOK
  <2>7. age[f] <= Window + job[v].late
    BY <2>2, <2>5 DEF FilteredInv
  <2>8. age'[f] <= age[f] + 1
    BY <1>2, <2>6, TickDoes, Bounds DEF Older
  <2>9. age'[f] \in Nat
    BY <1>2, <2>6, TickDoes, Bounds
  <2>. QED
    BY <2>3, <2>4, <2>6, <2>7, <2>8, <2>9, Bounds
<1>3. ASSUME NEW w \in Worker, Arrive(w) \/ Judge(w) \/ Record(w) PROVE FilteredInv'
  <2>1. SUFFICES ASSUME NEW v \in Worker, Filtered(v)'
                 PROVE  \A f \in lists'[job'[v].ref] : age'[f] <= Window + job'[v].late
    BY DEF FilteredInv
  <2>2. OfOthers(w) /\ age' = age /\ SameLists /\ ~Filtered(w)'
    BY <1>3, ArriveDoes, JudgeDoes, RecordDoes DEF At
  <2>3. v # w /\ job'[v] = job[v]
    BY <2>1, <2>2 DEF OfOthers
  <2>4. job'[v].ref \in Live'
    BY <2>1 DEF Live, Busy, At
  <2>. QED
    BY <1>0, <2>1, <2>2, <2>3, <2>4
<1>4. ASSUME NEW w \in Worker, Filter(w) PROVE FilteredInv'
  <2>1. SUFFICES ASSUME NEW v \in Worker, Filtered(v)'
                 PROVE  \A f \in lists'[job'[v].ref] : age'[f] <= Window + job'[v].late
    BY DEF FilteredInv
  <2>2. CASE v = w
    BY <1>4, <2>2, FilterDoes DEF Within
  <2>3. CASE v # w
    <3>1. job'[v] = job[v] /\ age' = age
      BY <1>4, <2>3, FilterDoes DEF OfOthers
    <3>2. job[v].ref \in Live' /\ job[v].ref \in Live
      BY <2>1, <3>1 DEF Live, Busy, At
    <3>3. lists'[job[v].ref] = lists[job[v].ref]
      BY <1>4, <3>2, FilterDoes
    <3>. QED
      BY <1>0, <2>1, <3>1, <3>3
  <2>. QED
    BY <2>2, <2>3
<1>5. ASSUME NEW w \in Worker, Replace(w) PROVE FilteredInv'
  <2>1. SUFFICES ASSUME NEW v \in Worker, Filtered(v)'
                 PROVE  \A f \in lists'[job'[v].ref] : age'[f] <= Window + job'[v].late
    BY DEF FilteredInv
  <2>2. job'[v].ref = job[v].ref /\ job'[v].late = job[v].late /\ Filtered(v)
    BY <1>5, <2>1, ReplaceDoes DEF OfOthers, At
  <2>3. job'[v].ref \in Live'
    BY <2>1 DEF Live, Busy, At
  <2>. QED
    BY <1>5, <2>2, <2>3, ReplaceDoes DEF FilteredInv
<1>6. ASSUME NEW w \in Worker, AppendFailure(w) PROVE FilteredInv'
  <2>1. SUFFICES ASSUME NEW v \in Worker, Filtered(v)',
                        NEW f \in lists'[job'[v].ref]
                 PROVE  age'[f] <= Window + job'[v].late
    BY DEF FilteredInv
  <2>2. v # w /\ job'[v] = job[v] /\ Filtered(v) /\ job[v] # NoJob
    BY <1>6, <2>1, AppendDoes DEF OfOthers, At
  <2>3. job[v].ref \in Live' /\ job[v].late \in 0..MaxLate
    BY <2>1, <2>2, JobType DEF Live, Busy, At
  <2>7. /\ lists'[job[v].ref] \subseteq Failure
        /\ lists'[job[v].ref] = IF job[v].ref = job[w].ref
                                  THEN lists[job[v].ref] \cup {NewFailure}
                                  ELSE lists[job[v].ref]
    BY <1>6, <2>3, AppendDoes
  <2>4. f \in Failure /\ (f \in lists[job[v].ref] \/ f = NewFailure)
    BY <2>1, <2>2, <2>7
  <2>5. age'[f] = IF f = NewFailure THEN 0 ELSE age[f]
    BY <1>6, <2>4, AppendDoes DEF TypeOK
  <2>6. f # NewFailure => age[f] <= Window + job[v].late
    BY <2>2, <2>4 DEF FilteredInv
  <2>. QED
    BY <2>2, <2>3, <2>5, <2>6, Bounds
<1>7. CASE UNCHANGED vars
  BY <1>7 DEF FilteredInv, At, vars
<1>. QED
  BY <1>1, <1>2, <1>3, <1>4, <1>5, <1>6, <1>7 DEF Next, Serve

(* What counts is in the lists that are in place or may come there.          *)
LEMMA AloneNext ==
    ASSUME TypeOK, ReserveInv, AloneInv, [Next]_vars
    PROVE  AloneInv'
<1>1. CASE Restart
  BY <1>1, RestartDoes DEF AloneInv
<1>2. CASE Tick
  BY <1>2, TickDoes DEF AloneInv
<1>3. ASSUME NEW w \in Worker, Arrive(w) \/ Filter(w) \/ Replace(w) \/ Judge(w) \/ Record(w)
      PROVE  AloneInv'
  <2>1. age' = age /\ alone' = alone
    BY <1>3, ArriveDoes, FilterDoes, ReplaceDoes, JudgeDoes, RecordDoes
  <2>. QED
    BY <2>1 DEF AloneInv
<1>4. ASSUME NEW w \in Worker, AppendFailure(w) PROVE AloneInv'
  <2>1. SUFFICES ASSUME NEW f \in alone' PROVE age'[f] <= Window
    BY DEF AloneInv
  <2>2. NewFailure \in Failure /\ (f \in alone \/ f = NewFailure)
    BY <1>4, <2>1, AppendDoes
  <2>3. f \in Failure
    BY <2>2 DEF TypeOK
  <2>4. age'[f] = IF f = NewFailure THEN 0 ELSE age[f]
    BY <1>4, <2>3, AppendDoes DEF TypeOK
  <2>. QED
    BY <2>2, <2>4, Bounds DEF AloneInv
<1>5. CASE UNCHANGED vars
  BY <1>5 DEF AloneInv, vars
<1>. QED
  BY <1>1, <1>2, <1>3, <1>4, <1>5 DEF Next, Serve

(* No check puts a list in place that has lost what counts.                  *)
LEMMA CountedNext ==
    ASSUME TypeOK, ReserveInv, AloneInv, CountedInv, [Next]_vars
    PROVE  CountedInv'
<1>. USE DEF SameLists
<1>. DEFINE Pending(v) == At(v, "fetch") \/ At(v, "replace")
<1>0. /\ current \in Live /\ current' \in Live'
      /\ \A v \in Worker : Pending(v) => job[v].ref \in Live
      /\ \A v \in Worker : Pending(v)' => job'[v].ref \in Live'
  BY DEF Live, Busy, At
<1>1. CASE Restart
  BY <1>1, RestartDoes DEF CountedInv, At
<1>2. CASE Tick
  <2>1. ASSUME NEW r \in Live, alone \subseteq lists[r] PROVE alone' \subseteq lists'[r]
    <3>1. SUFFICES ASSUME NEW f \in alone' PROVE f \in lists'[r]
      OBVIOUS
    <3>2. f \in alone /\ age'[f] <= Window /\ f \in Failure
      BY <1>2, <3>1, TickDoes DEF TypeOK
    <3>3. age'[f] \in Nat
      BY <1>2, <3>2, TickDoes, Bounds
    <3>4. age'[f] < Old
      BY <3>2, <3>3, Bounds
    <3>. QED
      BY <1>2, <2>1, <3>2, <3>4, TickDoes
  <2>2. alone' \subseteq lists'[current']
    BY <1>0, <1>2, <2>1, TickDoes DEF CountedInv
  <2>3. ASSUME NEW v \in Worker, Pending(v)' PROVE alone' \subseteq lists'[job'[v].ref]
    <3>1. Pending(v) /\ job'[v].ref = job[v].ref
      BY <1>2, <2>3, TickDoes DEF At
    <3>. QED
      BY <1>0, <2>1, <3>1 DEF CountedInv
  <2>. QED
    BY <2>2, <2>3 DEF CountedInv
<1>3. ASSUME NEW w \in Worker, Arrive(w) PROVE CountedInv'
  <2>1. alone' \subseteq lists'[current']
    BY <1>0, <1>3, ArriveDoes DEF CountedInv
  <2>2. ASSUME NEW v \in Worker, Pending(v)' PROVE alone' \subseteq lists'[job'[v].ref]
    <3>1. CASE v = w
      BY <1>3, <2>1, <3>1, ArriveDoes
    <3>2. CASE v # w
      <4>1. job'[v] = job[v] /\ Pending(v)
        BY <1>3, <2>2, <3>2, ArriveDoes DEF OfOthers, At
      <4>2. lists'[job[v].ref] = lists[job[v].ref]
        BY <1>0, <1>3, <2>2, <4>1, ArriveDoes
      <4>. QED
        BY <1>3, <4>1, <4>2, ArriveDoes DEF CountedInv
    <3>. QED
      BY <3>1, <3>2
  <2>. QED
    BY <2>1, <2>2 DEF CountedInv
<1>4. ASSUME NEW w \in Worker, Filter(w) PROVE CountedInv'
  <2>1. At(w, "fetch") /\ job[w] # NoJob
    BY <1>4 DEF Filter, At
  <2>2. alone \subseteq lists[job[w].ref] /\ job[w].late \in Nat
    BY <2>1, JobType, Bounds DEF CountedInv
  <2>3. alone \subseteq Within(lists[job[w].ref], Window + job[w].late)
    <3>1. SUFFICES ASSUME NEW f \in alone PROVE age[f] <= Window + job[w].late
      BY <2>2 DEF Within
    <3>2. age[f] <= Window /\ age[f] \in Nat
      BY Bounds DEF AloneInv, TypeOK
    <3>. QED
      BY <2>2, <3>2, Bounds
  <2>4. alone' \subseteq lists'[current']
    BY <1>0, <1>4, FilterDoes DEF CountedInv
  <2>5. ASSUME NEW v \in Worker, Pending(v)' PROVE alone' \subseteq lists'[job'[v].ref]
    <3>1. CASE v = w
      BY <1>4, <2>3, <3>1, FilterDoes
    <3>2. CASE v # w
      <4>1. job'[v] = job[v] /\ Pending(v)
        BY <1>4, <2>5, <3>2, FilterDoes DEF OfOthers, At
      <4>2. lists'[job[v].ref] = lists[job[v].ref]
        BY <1>0, <1>4, <2>5, <4>1, FilterDoes
      <4>. QED
        BY <1>4, <4>1, <4>2, FilterDoes DEF CountedInv
    <3>. QED
      BY <3>1, <3>2
  <2>. QED
    BY <2>4, <2>5 DEF CountedInv
<1>5. ASSUME NEW w \in Worker, Replace(w) PROVE CountedInv'
  <2>1. alone \subseteq lists[job[w].ref]
    BY <1>5, ReplaceDoes DEF CountedInv
  <2>2. alone' \subseteq lists'[current']
    BY <1>0, <1>5, <2>1, ReplaceDoes
  <2>3. ASSUME NEW v \in Worker, Pending(v)' PROVE alone' \subseteq lists'[job'[v].ref]
    <3>1. job'[v].ref = job[v].ref /\ Pending(v)
      BY <1>5, <2>3, ReplaceDoes DEF OfOthers, At
    <3>. QED
      BY <1>0, <1>5, <2>3, <3>1, ReplaceDoes DEF CountedInv
  <2>. QED
    BY <2>2, <2>3 DEF CountedInv
<1>6. ASSUME NEW w \in Worker, Judge(w) \/ Record(w) PROVE CountedInv'
  <2>1. /\ OfOthers(w) /\ ~Pending(w)' /\ SameLists
        /\ current' = current /\ alone' = alone
    BY <1>6, JudgeDoes, RecordDoes DEF At
  <2>2. alone' \subseteq lists'[current']
    BY <1>0, <2>1 DEF CountedInv
  <2>3. ASSUME NEW v \in Worker, Pending(v)' PROVE alone' \subseteq lists'[job'[v].ref]
    <3>1. job'[v] = job[v] /\ Pending(v)
      BY <2>1, <2>3 DEF OfOthers, At
    <3>. QED
      BY <1>0, <2>1, <2>3, <3>1 DEF CountedInv
  <2>. QED
    BY <2>2, <2>3 DEF CountedInv
<1>7. ASSUME NEW w \in Worker, AppendFailure(w) PROVE CountedInv'
  <2>1. \A r \in Live' : lists'[r] = IF r = job[w].ref THEN lists[r] \cup {NewFailure}
                                                       ELSE lists[r]
    BY <1>7, AppendDoes
  <2>2. ASSUME NEW r \in Live', alone \subseteq lists[r],
               Overlapped(w) \/ r = job[w].ref
        PROVE  alone' \subseteq lists'[r]
    <3>1. alone' = alone \cup (IF Overlapped(w) THEN {} ELSE {NewFailure})
      BY <1>7, AppendDoes
    <3>2. CASE r = job[w].ref
      BY <2>1, <2>2, <3>1, <3>2
    <3>3. CASE r # job[w].ref
      BY <2>1, <2>2, <3>1, <3>3
    <3>. QED
      BY <3>2, <3>3
  <2>3. current' = current
    BY <1>7, AppendDoes
  <2>4. Overlapped(w) \/ current = job[w].ref
    BY DEF Overlapped
  <2>5. alone' \subseteq lists'[current']
    BY <1>0, <2>2, <2>3, <2>4 DEF CountedInv
  <2>6. ASSUME NEW v \in Worker, Pending(v)' PROVE alone' \subseteq lists'[job'[v].ref]
    <3>1. job'[v] = job[v] /\ Pending(v)
      BY <1>7, <2>6, AppendDoes DEF OfOthers, At
    <3>2. Overlapped(w) \/ job[v].ref = job[w].ref
      BY <3>1 DEF Overlapped
    <3>. QED
      BY <1>0, <2>2, <2>6, <3>1, <3>2 DEF CountedInv
  <2>. QED
    BY <2>5, <2>6 DEF CountedInv
<1>8. CASE UNCHANGED vars
  BY <1>8 DEF CountedInv, At, vars
<1>. QED
  BY <1>1, <1>2, <1>3, <1>4, <1>5, <1>6, <1>7, <1>8 DEF Next, Serve

(* Once the limit is reached, nobody passes the check who had not passed it. *)
LEMMA PastShrinks ==
    ASSUME TypeOK, ReserveInv, FilteredInv, CountedInv, [Next]_vars,
           Cardinality(alone) >= MaxFailures,
           NEW v \in Worker, MayRecord(v)'
    PROVE  /\ MayRecord(v)
           /\ \A w \in Worker : AppendFailure(w) => v # w
<1>. USE DEF SameLists
<1>0. job'[v] # NoJob /\ job'[v].ref \in Live'
      /\ (At(v, "judge")' => ~TooMany(v)')
  BY DEF MayRecord, At, Live, Busy
<1>1. ASSUME job'[v].at = job[v].at, job'[v].ref = job[v].ref, job[v] # NoJob,
             TypeOK', At(v, "judge") => lists[job[v].ref] \subseteq lists'[job[v].ref]
      PROVE  MayRecord(v)
  <2>1. CASE At(v, "judge")'
    <3>1. At(v, "judge") /\ Cardinality(lists'[job[v].ref]) < MaxFailures
      <4>1. lists'[job'[v].ref] \subseteq Failure /\ IsFiniteSet(Failure)
        BY <1>0, <1>1, ThrottleAssumption DEF TypeOK
      <4>2. Cardinality(lists'[job'[v].ref]) \in Nat
        BY <4>1, Fewer
      <4>. QED
        BY <1>0, <1>1, <2>1, <4>2, Bounds DEF At, TooMany
    <3>2. lists'[job[v].ref] \in SUBSET Failure /\ IsFiniteSet(Failure)
      BY <1>0, <1>1, ThrottleAssumption DEF TypeOK
    <3>3. /\ Cardinality(lists[job[v].ref]) \in Nat
          /\ Cardinality(lists'[job[v].ref]) \in Nat
          /\ Cardinality(lists[job[v].ref]) <= Cardinality(lists'[job[v].ref])
      BY <1>1, <3>1, <3>2, Fewer
    <3>. QED
      BY <3>1, <3>3, Bounds DEF MayRecord, TooMany
  <2>2. CASE ~At(v, "judge")'
    BY <1>1, <2>2 DEF MayRecord, At
  <2>. QED
    BY <2>1, <2>2
<1>2. TypeOK'
  BY TypeNext
<1>3. CASE Restart
  BY <1>0, <1>3, RestartDoes
<1>4. ASSUME Tick PROVE MayRecord(v)
  <2>1. job[v] # NoJob /\ job'[v].at = job[v].at /\ job'[v].ref = job[v].ref
    BY <1>0, <1>4, TickDoes
  <2>2. ASSUME At(v, "judge") PROVE lists[job[v].ref] \subseteq lists'[job[v].ref]
    <3>1. SUFFICES ASSUME NEW f \in lists[job[v].ref] PROVE f \in lists'[job[v].ref]
      OBVIOUS
    <3>2. job[v].ref \in Live /\ job[v].late \in 0..MaxLate /\ f \in Failure
      BY <2>1, JobType
    <3>3. age[f] <= Window + job[v].late /\ age[f] \in 0..Old
      BY <2>2, <3>2 DEF FilteredInv, TypeOK
    <3>4. job[v].late < MaxLate
      BY <1>4, <2>2, TickDoes DEF Checking
    <3>5. age[f] < Window + MaxLate
      BY <3>2, <3>3, <3>4, Bounds
    <3>6. age'[f] < Old
      BY <1>4, <3>2, <3>3, <3>5, TickDoes, Bounds DEF Older
    <3>. QED
      BY <1>4, <3>2, <3>6, TickDoes
  <2>. QED
    BY <1>1, <1>2, <2>1, <2>2
<1>6. ASSUME NEW w \in Worker, Arrive(w) \/ Filter(w) \/ Replace(w) \/ Judge(w) \/ Record(w),
             v # w
      PROVE  MayRecord(v)
  <2>1. job'[v] = job[v]
    BY <1>6, ArriveDoes, FilterDoes, ReplaceDoes, JudgeDoes, RecordDoes DEF OfOthers
  <2>2. job[v].ref \in Live /\ job[v].ref \in Live'
    BY <1>0, <2>1 DEF Live, Busy
  <2>3. lists'[job[v].ref] = lists[job[v].ref]
    BY <1>6, <2>2, ArriveDoes, FilterDoes, ReplaceDoes, JudgeDoes, RecordDoes
  <2>. QED
    BY <1>0, <1>1, <1>2, <2>1, <2>3
<1>7. ASSUME NEW w \in Worker, Arrive(w) \/ Filter(w) \/ Replace(w) \/ Judge(w) \/ Record(w),
             v = w
      PROVE  MayRecord(v)
  <2>1. CASE Arrive(w)
    BY <1>7, <2>1, ArriveDoes DEF MayRecord, At
  <2>2. CASE Filter(w)
    BY <1>7, <2>2, FilterDoes DEF MayRecord, At
  <2>3. CASE Replace(w)
    <3>1. alone \subseteq lists[job[v].ref] /\ At(v, "judge")'
      BY <1>7, <2>3, ReplaceDoes DEF CountedInv, At
    <3>2. lists'[job'[v].ref] = lists[job[v].ref]
      BY <1>0, <1>7, <2>3, ReplaceDoes
    <3>3. lists[job[v].ref] \in SUBSET Failure /\ IsFiniteSet(Failure)
      BY <1>7, <2>3, ReplaceDoes, JobType, ThrottleAssumption DEF At
    <3>4. /\ Cardinality(alone) \in Nat /\ Cardinality(lists[job[v].ref]) \in Nat
          /\ Cardinality(alone) <= Cardinality(lists[job[v].ref])
      BY <3>1, <3>3, Fewer
    <3>5. Cardinality(lists'[job'[v].ref]) >= MaxFailures
      BY <3>2, <3>4, Bounds
    <3>6. TooMany(v)'
      BY <3>5 DEF TooMany
    <3>. QED
      BY <1>0, <3>1, <3>6
  <2>4. CASE Judge(w)
    BY <1>0, <1>7, <2>4, JudgeDoes DEF MayRecord
  <2>5. CASE Record(w)
    BY <1>7, <2>5, RecordDoes DEF MayRecord
  <2>. QED
    BY <1>7, <2>1, <2>2, <2>3, <2>4, <2>5
<1>8. ASSUME NEW w \in Worker, AppendFailure(w) PROVE MayRecord(v)
  <2>1. v # w /\ job'[v] = job[v]
    BY <1>0, <1>8, AppendDoes DEF OfOthers
  <2>2. lists[job[v].ref] \subseteq lists'[job[v].ref]
    <3>1. job[v].ref \in Live'
      BY <1>0, <2>1
    <3>2. lists'[job[v].ref] = IF job[v].ref = job[w].ref
                               THEN lists[job[v].ref] \cup {NewFailure} ELSE lists[job[v].ref]
      BY <1>8, <3>1, AppendDoes
    <3>. QED
      BY <3>2
  <2>. QED
    BY <1>0, <1>1, <1>2, <2>1, <2>2
<1>9. ASSUME NEW w \in Worker, AppendFailure(w) PROVE v # w
  BY <1>0, <1>9, AppendDoes
<1>10. ASSUME UNCHANGED vars PROVE MayRecord(v)
  BY <1>10 DEF MayRecord, At, TooMany, vars
<1>. QED
  <2>1. MayRecord(v)
    BY <1>3, <1>4, <1>6, <1>7, <1>8, <1>10 DEF Next, Serve
  <2>. QED
    BY <1>9, <2>1

(* Each failure beyond the limit is of a thread that had passed the check.   *)
LEMMA RateNext ==
    ASSUME TypeOK, ReserveInv, FilteredInv, CountedInv, RateInv, [Next]_vars
    PROVE  RateInv'
<1>0. /\ Past \in SUBSET Worker /\ Past' \in SUBSET Worker
      /\ alone \in SUBSET Failure /\ alone' \in SUBSET Failure
      /\ IsFiniteSet(Worker) /\ IsFiniteSet(Failure)
  BY TypeNext, ThrottleAssumption DEF Past, TypeOK
<1>1. /\ Cardinality(Past) \in Nat /\ Cardinality(Past') \in Nat
      /\ Cardinality(alone) \in Nat /\ Cardinality(alone') \in Nat
  BY <1>0, Fewer
<1>2. CASE alone' \subseteq alone
  <2>1. Cardinality(alone') <= Cardinality(alone)
    BY <1>0, <1>2, Fewer
  <2>2. ASSUME Cardinality(alone) >= MaxFailures
        PROVE  Cardinality(Past') <= Cardinality(Past)
    <3>1. Past' \in SUBSET Past
      BY <2>2, PastShrinks DEF Past
    <3>. QED
      BY <1>0, <3>1, Fewer
  <2>. QED
    BY <1>1, <2>1, <2>2, Bounds DEF RateInv
<1>3. ASSUME NEW w \in Worker, AppendFailure(w) PROVE RateInv'
  <2>1. alone' \in SUBSET (alone \cup {NewFailure})
    BY <1>3, AppendDoes
  <2>2. Cardinality(alone') <= Cardinality(alone) + 1
    BY <1>0, <2>1, OneMore
  <2>3. w \in Past /\ w \notin Past' /\ w \in Worker
    BY <1>3, AppendDoes DEF Past, MayRecord, At
  <2>4. Cardinality(Past') + 1 <= Cardinality(Worker)
    <3>1. Past' \in SUBSET (Worker \ {w}) /\ Worker \in SUBSET Worker
      BY <1>0, <2>3
    <3>. QED
      BY <1>0, <2>3, <3>1, OneLess
  <2>5. CASE Cardinality(alone) < MaxFailures
    BY <1>1, <2>2, <2>4, <2>5, Bounds DEF RateInv
  <2>6. CASE Cardinality(alone) >= MaxFailures
    <3>1. Past' \in SUBSET (Past \ {w})
      BY <2>3, <2>6, PastShrinks DEF Past
    <3>2. Cardinality(Past') + 1 <= Cardinality(Past)
      BY <1>0, <2>3, <3>1, OneLess
    <3>. QED
      BY <1>1, <2>2, <2>6, <3>2, Bounds DEF RateInv
  <2>. QED
    BY <1>1, <2>5, <2>6, Bounds
<1>4. alone' \subseteq alone \/ \E w \in Worker : AppendFailure(w)
  BY RestartDoes, TickDoes, ArriveDoes, FilterDoes, ReplaceDoes, JudgeDoes, RecordDoes
     DEF Next, Serve, vars
<1>. QED
  BY <1>2, <1>3, <1>4

-----------------------------------------------------------------------------
(* The theorems.                                                             *)
LEMMA InitOK == Init => IInv
<1>. SUFFICES ASSUME Init PROVE IInv
  OBVIOUS
<1>1. Busy = {} /\ Live = {1} /\ \A w \in Worker : job[w] = NoJob
  BY DEF Init, Busy, Live
<1>2. TypeOK
  <2>1. 1 \in Ref /\ Old \in 0..Old
    BY Bounds DEF Ref
  <2>. QED
    BY <1>1, <2>1 DEF Init, TypeOK
<1>3. ReserveInv
  <2>1. Cardinality(Fresh) \in Nat
    <3>1. Fresh \in SUBSET Failure
      BY DEF Fresh
    <3>. QED
      BY <3>1, Fewer, ThrottleAssumption
  <2>. QED
    BY <1>1, <2>1, FS_EmptySet DEF ReserveInv
<1>4. FreshInNoList /\ FilteredInv /\ AloneInv /\ CountedInv
  BY <1>1 DEF Init, FreshInNoList, FilteredInv, AloneInv, CountedInv, At
<1>5. RateInv
  BY FS_EmptySet, Bounds DEF Init, RateInv
<1>. QED
  BY <1>2, <1>3, <1>4, <1>5 DEF IInv

(* Every step keeps the invariant.                                           *)
LEMMA StepOK == IInv /\ [Next]_vars => IInv'
BY TypeNext, ReserveNext, FreshNext, FilteredNext, AloneNext, CountedNext, RateNext DEF IInv

(* The invariant holds in every state.                                       *)
LEMMA Invariance == Spec => []IInv
<1>1. Init => IInv
  BY InitOK
<1>2. IInv /\ [Next]_vars => IInv'
  BY StepOK
<1>. QED
  BY <1>1, <1>2, PTL DEF Spec

(* The throttle's lists, ages and requests keep their types; there is always *)
(* a reference for a new list and a failure for a request under way.         *)
THEOREM TypeCorrect == Spec => []TypeOK
<1>1. IInv => TypeOK
  BY DEF IInv
<1>. QED
  BY <1>1, Invariance, PTL

(* For any number of threads, whoever is turned down has failed as often as  *)
(* the limit says within the window (_is_throttled).                         *)
THEOREM NobodyShutOutForNothing == Spec => []NoFalseLockout
<1>1. IInv => NoFalseLockout
  <2>1. SUFFICES ASSUME IInv, NEW w \in Worker, At(w, "judge"), TooMany(w)
                 PROVE  Cardinality(Within(Failure, Window + job[w].late)) >= MaxFailures
    BY DEF NoFalseLockout
  <2>2. lists[job[w].ref] \subseteq Failure
    BY <2>1, JobType DEF IInv, At
  <2>3. lists[job[w].ref] \subseteq Within(Failure, Window + job[w].late)
    BY <2>1, <2>2 DEF IInv, FilteredInv, Within
  <2>4. Within(Failure, Window + job[w].late) \in SUBSET Failure
    BY DEF Within
  <2>5. /\ Cardinality(lists[job[w].ref]) \in Nat
        /\ Cardinality(Within(Failure, Window + job[w].late)) \in Nat
        /\ Cardinality(lists[job[w].ref])
             <= Cardinality(Within(Failure, Window + job[w].late))
    BY <2>3, <2>4, Fewer, ThrottleAssumption
  <2>6. Cardinality(lists[job[w].ref]) >= MaxFailures
    BY <2>1 DEF TooMany
  <2>. QED
    BY <2>5, <2>6, Bounds
<1>. QED
  BY <1>1, Invariance, PTL

(* For any number of threads, a failure is forgotten within its window only  *)
(* if a check overlapped its recording (_record_auth_failure).               *)
THEOREM FailuresCount == Spec => []CountedUnlessOverlapped
<1>1. IInv => CountedUnlessOverlapped
  BY DEF IInv, CountedInv, CountedUnlessOverlapped
<1>. QED
  BY <1>1, Invariance, PTL

(* For any number of threads and any limit, the failures of a window that no *)
(* check overlapped are fewer than the limit and the threads together        *)
(* (internal_auth).                                                          *)
THEOREM RateIsLimited == Spec => []RateLimited
<1>1. IInv => RateLimited
  <2>1. SUFFICES ASSUME IInv PROVE RateLimited
    OBVIOUS
  <2>2. Past \in SUBSET Worker /\ alone \in SUBSET Failure
    BY <2>1 DEF IInv, TypeOK, Past
  <2>3. Cardinality(Past) \in Nat /\ Cardinality(alone) \in Nat
    BY <2>2, Fewer, ThrottleAssumption
  <2>. QED
    BY <2>1, <2>3, Bounds DEF IInv, RateInv, RateLimited
<1>. QED
  BY <1>1, Invariance, PTL
=============================================================================
