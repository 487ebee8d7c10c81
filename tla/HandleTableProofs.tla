------------------------- MODULE HandleTableProofs -------------------------
(* Proofs about HandleTable, for any threads, scopes, bounds and limits.   *)
EXTENDS HandleTable, TLAPS, FiniteSetTheorems

Busy == {"send", "count", "spill", "drained", "release", "callback"}

(* Every id a thread is about to queue, drain, release or call back for is *)
(* an id of the table, and a bounded drain that took a release had a turn. *)
JobFits(j) == /\ j.at \in Busy => j.id \in Handle
              /\ j.at \in {"drainSpill", "drained"} => j.left > 0
JobOK == \A t \in Threads : JobFits(job[t])

TypeInv == TypeOK /\ JobOK

(* An empty table is well typed.                                           *)
LEMMA TypeInit == Init => TypeInv
  BY HandleTableAssumption DEF Init, TypeInv, TypeOK, JobOK, JobFits, Busy, Live, Handle, Entry, Cause, Job, Idle,
         Place, NoLimit

(* The part of the type invariant that concerns the critical sections.     *)
EntriesType == Live \subseteq Handle /\ entries \in [Live -> Entry]
CoreType == /\ EntriesType
            /\ released \in [Cause -> Nat]
            /\ job \in [Threads -> Job] /\ JobOK

(* A thread may take any well-typed job.                                   *)
LEMMA BecomesType ==
  ASSUME TypeInv, NEW t \in Threads, NEW j \in Job, Becomes(t, j),
         JobFits(j)
  PROVE  job' \in [Threads -> Job] /\ JobOK'
  <1>1. job \in [Threads -> Job] /\ job' = [job EXCEPT ![t] = j]
    BY DEF TypeInv, TypeOK, Becomes
  <1> QED BY <1>1 DEF JobOK, TypeInv

(* Removing one entry leaves a well-typed table.                           *)
LEMMA WithoutType ==
  ASSUME TypeOK, NEW id \in Live
  PROVE  /\ DOMAIN Without(id) = Live \ {id}
         /\ Without(id) \in [Live \ {id} -> Entry]
  BY DEF TypeOK, Without, Entry, Live

(* Removing a set of handles keeps the table well typed.                   *)
LEMMA RemoveType ==
  ASSUME TypeInv, NEW t \in Threads, NEW id \in Handle, NEW cause \in Cause,
         NEW then \in {"idle", "drain", "sweep"}, id \in Live,
         Remove(t, id, cause, then)
  PROVE  CoreType'
  <1> DEFINE j == [job[t] EXCEPT !.at = "callback", !.then = then, !.id = id,
                                 !.todo = @ \ {id}]
  <1>1. entries' \in [Live \ {id} -> Entry] /\ DOMAIN entries' = Live \ {id}
    BY WithoutType DEF Remove, TypeInv
  <1>2. released' \in [Cause -> Nat]
    <2>1. released \in [Cause -> Nat] /\ released' = [released EXCEPT ![cause] = @ + 1]
      BY DEF Remove, TypeOK, TypeInv
    <2>2. released[cause] \in Nat
      BY <2>1
    <2> QED BY <2>1, <2>2
  <1>3. job' \in [Threads -> Job] /\ JobOK'
    <2>1. job[t] \in Job
      BY DEF TypeInv, TypeOK
    <2>2. id \in 0..MaxHandles
      BY HandleTableAssumption DEF Handle
    <2>3. job[t].todo \ {id} \in SUBSET Handle
      BY <2>1 DEF Job
    <2>4. j \in Job
      BY <2>1, <2>2, <2>3 DEF Job, Place
    <2>5. JobFits(j)
      BY <2>1 DEF Job, JobFits
    <2>6. Becomes(t, j)
      BY DEF Remove
    <2> QED BY ONLY TypeInv, <2>4, <2>5, <2>6, BecomesType
  <1> QED BY <1>1, <1>2, <1>3 DEF TypeOK, TypeInv, CoreType, EntriesType, Live

(* A thread that goes on in its operation keeps a well-typed place.        *)
LEMMA GoOnType ==
  ASSUME TypeInv, NEW t \in Threads, NEW id,
         NEW then \in {"idle", "drain", "sweep"}, GoOn(t, id, then)
  PROVE  job' \in [Threads -> Job] /\ JobOK'
  <1> DEFINE j == [job[t] EXCEPT !.at = then, !.then = "idle", !.id = 0,
                                 !.todo = @ \ {id}]
  <1>1. job[t] \in Job
    BY DEF TypeInv, TypeOK
  <1>2. 0 \in 0..MaxHandles
    BY HandleTableAssumption
  <1>3. job[t].todo \ {id} \in SUBSET Handle
    BY <1>1 DEF Job
  <1>4. j \in Job
    BY <1>1, <1>2, <1>3 DEF Job, Place
  <1>5. JobFits(j)
    BY <1>1 DEF Job, Busy, JobFits
  <1>6. Becomes(t, j)
    BY DEF GoOn
  <1> QED BY ONLY TypeInv, <1>4, <1>5, <1>6, BecomesType

(* A function to the naturals stays one when one value is replaced.        *)
LEMMA NatUpdate ==
  ASSUME NEW f \in [Handle -> Nat], NEW id \in Handle, NEW n \in Nat
  PROVE  [f EXCEPT ![id] = n] \in [Handle -> Nat]
  OBVIOUS

(* A function to the integers stays one when one value is replaced.        *)
LEMMA IntUpdate ==
  ASSUME NEW f \in [Handle -> Int], NEW id \in Handle, NEW n \in Int
  PROVE  [f EXCEPT ![id] = n] \in [Handle -> Int]
  OBVIOUS

(* Head and tail of a sequence that is not empty.                          *)
LEMMA HeadTail ==
  ASSUME NEW q \in Seq(Handle), q # << >>
  PROVE  Head(q) \in Handle /\ Tail(q) \in Seq(Handle)
  OBVIOUS

(* Storing a well-typed entry under a live id.                             *)
LEMMA EntryUpdate ==
  ASSUME EntriesType, NEW id \in Live, NEW e \in Entry,
         entries' = [entries EXCEPT ![id] = e]
  PROVE  EntriesType'
  <1>1. entries' \in [Live -> Entry] /\ DOMAIN entries' = Live
    BY DEF EntriesType
  <1> QED BY <1>1 DEF EntriesType, Live

(* A live handle has at least one reference.                               *)
LEMMA RefsBound ==
  ASSUME TypeInv, NEW id \in Live
  PROVE  entries[id].refs \in 1..MaxRefs
  <1>1. entries[id] \in Entry
    BY DEF TypeInv, TypeOK
  <1> QED BY <1>1 DEF Entry

(* Changing the reference count of a live handle, within bounds.           *)
LEMMA RefsType ==
  ASSUME EntriesType, NEW id \in Live, NEW n \in 1..MaxRefs,
         entries' = [entries EXCEPT ![id].refs = n]
  PROVE  EntriesType'
  <1>1. [entries[id] EXCEPT !.refs = n] \in Entry
    <2>1. entries[id] \in Entry
      BY DEF EntriesType
    <2> QED BY <2>1 DEF Entry
  <1>2. entries' = [entries EXCEPT ![id] = [entries[id] EXCEPT !.refs = n]]
    BY DEF EntriesType
  <1> QED BY <1>1, <1>2, EntryUpdate

(* Dropping one reference keeps the table well typed.                      *)
LEMMA DropOneType ==
  ASSUME TypeInv, NEW t \in Threads, NEW id \in Handle, NEW cause \in Cause,
         NEW then \in {"idle", "drain", "sweep"}, DropOne(t, id, cause, then)
  PROVE  CoreType'
  <1>1. CASE id \notin Live /\ GoOn(t, id, then) /\ UNCHANGED <<entries, released>>
    <2>1. job' \in [Threads -> Job] /\ JobOK'
      BY <1>1, GoOnType
    <2>2. EntriesType /\ released \in [Cause -> Nat]
      BY DEF EntriesType, TypeInv, TypeOK
    <2> QED BY <1>1, <2>1, <2>2 DEF CoreType, EntriesType, Live
  <1>2. CASE /\ id \in Live /\ entries[id].refs > 1
             /\ entries' = [entries EXCEPT ![id].refs = @ - 1]
             /\ GoOn(t, id, then)
             /\ UNCHANGED released
    <2>1. entries[id].refs - 1 \in 1..MaxRefs
      BY <1>2, RefsBound, HandleTableAssumption
    <2>2. EntriesType
      BY DEF EntriesType, TypeInv, TypeOK
    <2>3. EntriesType'
      BY <1>2, <2>1, <2>2, RefsType
    <2> QED BY <1>2, <2>3, GoOnType DEF CoreType, TypeInv, TypeOK
  <1>3. CASE id \in Live /\ Remove(t, id, cause, then)
    BY <1>3, RemoveType
  <1> QED BY <1>1, <1>2, <1>3 DEF DropOne

(* Taking a handle with all its references keeps the table well typed.     *)
LEMMA DropAllType ==
  ASSUME TypeInv, NEW t \in Threads, NEW id \in Handle, NEW cause \in Cause,
         NEW then \in {"idle", "drain", "sweep"}, DropAll(t, id, cause, then)
  PROVE  CoreType'
  <1>1. CASE id \notin Live /\ GoOn(t, id, then) /\ UNCHANGED <<entries, released>>
    <2>1. job' \in [Threads -> Job] /\ JobOK'
      BY <1>1, GoOnType
    <2>2. EntriesType /\ released \in [Cause -> Nat]
      BY DEF EntriesType, TypeInv, TypeOK
    <2> QED BY <1>1, <2>1, <2>2 DEF CoreType, EntriesType, Live
  <1>2. CASE id \in Live /\ Remove(t, id, cause, then)
    BY <1>2, RemoveType
  <1> QED BY <1>1, <1>2 DEF DropAll

(* The methods that are one critical section.                              *)
LEMMA CallType ==
  ASSUME TypeInv, NEW t \in Threads, Call(t)
  PROVE  TypeInv'
  <1> USE HandleTableAssumption
  <1>1. ASSUME NEW s \in Scopes, Register(t, s) PROVE TypeInv'
    <2>1. nextID \in Handle /\ nextID' \in 1..(MaxHandles + 1)
      BY <1>1 DEF TypeInv, TypeOK, Register, Handle
    <2> DEFINE fresh == [scope |-> s, refs |-> 1, escaped |-> FALSE, references |-> {}]
    <2>2. EntriesType'
      <3>1. fresh \in Entry
        BY DEF Entry
      <3>2. entries' = [h \in Live \cup {nextID} |-> IF h = nextID THEN fresh ELSE entries[h]]
        BY <1>1 DEF Register
      <3> HIDE DEF fresh
      <3>3. entries' \in [Live \cup {nextID} -> Entry] /\ DOMAIN entries' = Live \cup {nextID}
        BY <3>1, <3>2 DEF TypeInv, TypeOK
      <3> QED BY <2>1, <3>3 DEF EntriesType, TypeInv, TypeOK, Live
    <2>3. held' \in [Handle -> Nat]
      BY <1>1 DEF TypeInv, TypeOK, Register
    <2> QED BY <1>1, <2>1, <2>2, <2>3
         DEF TypeInv, TypeOK, JobOK, Register, EntriesType, Live, queueVars, countVars
  <1>2. ASSUME NEW id \in Handle, Retain(t, id) PROVE TypeInv'
    <2>3. entries[id].refs + 1 \in 1..MaxRefs
      BY <1>2, RefsBound DEF Retain
    <2>4. EntriesType
      BY DEF EntriesType, TypeInv, TypeOK
    <2>1. EntriesType'
      BY <1>2, <2>3, <2>4, RefsType DEF Retain
    <2>2. held' \in [Handle -> Nat]
      <3>1. held \in [Handle -> Nat] /\ held' = [held EXCEPT ![id] = held[id] + 1]
        BY <1>2 DEF TypeInv, TypeOK, Retain
      <3>2. held[id] + 1 \in Nat
        BY <1>2, <3>1 DEF Retain
      <3> QED BY <3>1, <3>2, NatUpdate
    <2> QED BY <1>2, <2>1, <2>2
         DEF TypeInv, TypeOK, JobOK, Retain, EntriesType, Live, queueVars, countVars
  <1>3. ASSUME NEW id \in Handle, Escape(t, id) PROVE TypeInv'
    <2>1. EntriesType'
      <3>1. EntriesType /\ id \in Live /\ entries[id] \in Entry
        BY <1>3 DEF TypeInv, TypeOK, EntriesType, Escape
      <3>2. [entries[id] EXCEPT !.escaped = TRUE] \in Entry
        BY <3>1 DEF Entry
      <3>3. entries' = [entries EXCEPT ![id] = [entries[id] EXCEPT !.escaped = TRUE]]
        BY <1>3, <3>1 DEF Escape, EntriesType
      <3> QED BY <3>1, <3>2, <3>3, EntryUpdate
    <2> QED BY <1>3, <2>1
         DEF TypeInv, TypeOK, JobOK, Escape, EntriesType, Live, queueVars, countVars, ghostVars
  <1>4. ASSUME NEW from \in Handle, NEW to \in Handle, RecordReference(t, from, to)
        PROVE TypeInv'
    <2>1. EntriesType'
      <3>1. EntriesType /\ from \in Live /\ entries[from] \in Entry
        BY <1>4 DEF TypeInv, TypeOK, EntriesType, RecordReference
      <3>2. [entries[from] EXCEPT !.references = @ \cup {to}] \in Entry
        BY <3>1 DEF Entry
      <3>3. entries' = [entries EXCEPT ![from] = [entries[from] EXCEPT !.references = @ \cup {to}]]
        BY <1>4, <3>1 DEF RecordReference, EntriesType
      <3> QED BY <3>1, <3>2, <3>3, EntryUpdate
    <2> QED BY <1>4, <2>1
         DEF TypeInv, TypeOK, JobOK, RecordReference, EntriesType, Live, queueVars, countVars, ghostVars
  <1>5. ASSUME NEW from \in Handle, NEW to \in Handle, DropReference(t, from, to)
        PROVE TypeInv'
    <2>1. EntriesType'
      <3>1. EntriesType /\ from \in Live /\ entries[from] \in Entry
        BY <1>5 DEF TypeInv, TypeOK, EntriesType, DropReference
      <3>2. [entries[from] EXCEPT !.references = @ \ {to}] \in Entry
        BY <3>1 DEF Entry
      <3>3. entries' = [entries EXCEPT ![from] = [entries[from] EXCEPT !.references = @ \ {to}]]
        BY <1>5, <3>1 DEF DropReference, EntriesType
      <3> QED BY <3>1, <3>2, <3>3, EntryUpdate
    <2> QED BY <1>5, <2>1
         DEF TypeInv, TypeOK, JobOK, DropReference, EntriesType, Live, queueVars, countVars, ghostVars
  <1>6. ASSUME NEW id \in Handle, NEW cause \in {"explicit", "finalizer"}, Release(t, id, cause)
        PROVE TypeInv'
    <2>1. CoreType'
      BY <1>6, DropOneType DEF Release, Cause
    <2>2. held' \in [Handle -> Nat]
      <3>1. held \in [Handle -> Nat] /\ held' = [held EXCEPT ![id] = held[id] - 1]
        BY <1>6 DEF TypeInv, TypeOK, Release
      <3>2. held[id] - 1 \in Nat
        BY <1>6, <3>1 DEF Release
      <3> QED BY <3>1, <3>2, NatUpdate
    <2> QED BY <1>6, <2>1, <2>2
         DEF TypeInv, TypeOK, Release, CoreType, EntriesType, Live, queueVars
  <1>7. ASSUME NEW id \in Handle, ReleaseAllRefs(t, id) PROVE TypeInv'
    <2>1. CoreType'
      BY <1>7, DropAllType DEF ReleaseAllRefs, Cause
    <2> QED BY <1>7, <2>1
         DEF TypeInv, TypeOK, ReleaseAllRefs, CoreType, EntriesType, Live, queueVars, ghostVars
  <1>8. ASSUME NEW id \in Handle, QueueRelease(t, id) PROVE TypeInv'
    <2> DEFINE j == [job[t] EXCEPT !.at = "send", !.id = id]
    <2>1. job[t] \in Job
      BY DEF TypeInv, TypeOK
    <2>5. id \in 0..MaxHandles
      BY DEF Handle
    <2>6. j \in Job
      BY <2>1, <2>5 DEF Job, Place
    <2>2. j \in Job /\ JobFits(j)
      BY <2>1, <2>6 DEF Job, JobFits
    <2>3. job' \in [Threads -> Job] /\ JobOK'
      BY <1>8, <2>2, BecomesType DEF QueueRelease, TypeInv, TypeOK, JobOK
    <2>4. held' \in [Handle -> Nat]
      <3>1. held \in [Handle -> Nat] /\ held' = [held EXCEPT ![id] = held[id] - 1]
        BY <1>8 DEF TypeInv, TypeOK, QueueRelease
      <3>2. held[id] - 1 \in Nat
        BY <1>8, <3>1 DEF QueueRelease
      <3> QED BY <3>1, <3>2, NatUpdate
    <2> QED BY <1>8, <2>3, <2>4
         DEF TypeInv, TypeOK, QueueRelease, tableVars, countVars, Live
  <1>9. ASSUME NEW max \in 0..MaxDrain, StartDrain(t, max) PROVE TypeInv'
    <2> DEFINE j == [job[t] EXCEPT !.at = "drain",
                                   !.left = IF max = 0 THEN NoLimit ELSE max]
    <2>1. job[t] \in Job
      BY DEF TypeInv, TypeOK
    <2>4. (IF max = 0 THEN NoLimit ELSE max) \in 0..NoLimit
      BY DEF NoLimit
    <2>5. j \in Job
      BY <2>1, <2>4 DEF Job, Place
    <2>2. j \in Job /\ JobFits(j)
      BY <2>1, <2>5 DEF Job, JobFits, Busy
    <2>3. job' \in [Threads -> Job] /\ JobOK'
      BY <1>9, <2>2, BecomesType DEF StartDrain
    <2> QED BY <1>9, <2>3
         DEF TypeInv, TypeOK, StartDrain, tableVars, countVars, ghostVars, Live
  <1>10. ASSUME NEW ids \in SUBSET Handle, NEW scoped \in BOOLEAN, StartSweep(t, ids, scoped)
         PROVE TypeInv'
    <2> DEFINE j == [job[t] EXCEPT !.at = "sweep", !.todo = ids, !.swept = ids,
                                   !.scoped = scoped]
    <2>1. job[t] \in Job
      BY DEF TypeInv, TypeOK
    <2>3a. j \in Job
      BY <2>1 DEF Job, Place
    <2>2. j \in Job /\ JobFits(j)
      BY <2>1, <2>3a DEF Job, JobFits, Busy
    <2>3. job' \in [Threads -> Job] /\ JobOK'
      BY <1>10, <2>2, BecomesType DEF StartSweep
    <2> QED BY <1>10, <2>3
         DEF TypeInv, TypeOK, StartSweep, tableVars, countVars, ghostVars, Live
  <1>11. ASSUME NEW s \in Scopes, ReleaseScope(t, s) PROVE TypeInv'
    BY <1>10, <1>11 DEF ReleaseScope, TypeInv, TypeOK
  <1>12. ASSUME ReleaseAll(t) PROVE TypeInv'
    BY <1>10, <1>12 DEF ReleaseAll, TypeInv, TypeOK
  <1> QED BY <1>1, <1>2, <1>3, <1>4, <1>5, <1>6, <1>7, <1>8, <1>9, <1>11, <1>12
       DEF Call

(* The later steps of the methods that unlock in between.                  *)
LEMMA ContinueType ==
  ASSUME TypeInv, NEW t \in Threads, Continue(t)
  PROVE  TypeInv'
  <1> USE HandleTableAssumption
  <1>j. job[t] \in Job /\ job[t].then \in {"idle", "drain", "sweep"}
    <2>1. job[t] \in Job
      BY DEF TypeInv, TypeOK
    <2> QED BY <2>1 DEF Job
  <1>i. job[t].at \in Busy => job[t].id \in Handle
    BY DEF TypeInv, JobOK, JobFits
  <1>e. Idle \in Job /\ JobFits(Idle)
    BY DEF Idle, Job, JobFits, Place, Busy, NoLimit
  <1>1. ASSUME Callback(t) PROVE TypeInv'
    <2>1. job' \in [Threads -> Job] /\ JobOK'
      BY <1>1, <1>j, GoOnType DEF Callback
    <2>2. calls' \in [Handle -> Nat]
      <3>1. job[t].id \in Handle
        BY <1>1, <1>i DEF Callback, Busy
      <3>2. /\ calls \in [Handle -> Nat]
            /\ calls' = [calls EXCEPT ![job[t].id] = @ + 1]
        BY <1>1 DEF Callback, TypeInv, TypeOK
      <3> QED BY <3>1, <3>2
    <2> QED BY <1>1, <2>1, <2>2
         DEF Callback, TypeInv, TypeOK, tableVars, countVars, Live
  <1>2. ASSUME Send(t) PROVE TypeInv'
    <2>1. job[t].id \in Handle
      BY <1>2, <1>i DEF Send, Busy
    <2>2. queue' \in Seq(Handle)
      <3>1. queue' = Append(queue, job[t].id) \/ queue' = queue
        BY <1>2 DEF Send
      <3>2. queue \in Seq(Handle)
        BY DEF TypeInv, TypeOK
      <3> QED BY <2>1, <3>1, <3>2
    <2>3. ASSUME NEW p \in {"count", "spill"}, Becomes(t, [job[t] EXCEPT !.at = p])
          PROVE  job' \in [Threads -> Job] /\ JobOK'
      <3>1. [job[t] EXCEPT !.at = p] \in Job
        BY <1>j DEF Job, Place
      <3>2. JobFits([job[t] EXCEPT !.at = p])
        BY <1>j, <2>1 DEF Job, JobFits
      <3> QED BY <3>1, <3>2, <2>3, BecomesType
    <2>4. job' \in [Threads -> Job] /\ JobOK'
      BY <1>2, <2>3 DEF Send
    <2> QED BY <1>2, <2>2, <2>4 DEF Send, TypeInv, TypeOK, countVars, ghostVars, Live
  <1>3. ASSUME CountQueued(t) PROVE TypeInv'
    <2>1. job' \in [Threads -> Job] /\ JobOK'
      BY <1>3, GoOnType DEF CountQueued
    <2>2. queued \in Nat /\ queued' = queued + 1
      BY <1>3 DEF CountQueued, TypeInv, TypeOK
    <2>3. queued' \in Nat
      BY <2>2
    <2> QED BY <1>3, <2>1, <2>3
         DEF CountQueued, TypeInv, TypeOK, tableVars, ghostVars, Live
  <1>4. ASSUME Spill(t) PROVE TypeInv'
    <2>1. job' \in [Threads -> Job] /\ JobOK'
      BY <1>4, GoOnType DEF Spill
    <2>2. job[t].id \in Handle
      BY <1>4, <1>i DEF Spill, Busy
    <2>3. CASE SpillFull(job[t].id)
      <3>1. /\ lost \in [Handle -> Nat]
            /\ lost' = [lost EXCEPT ![job[t].id] = @ + 1]
            /\ drops \in Nat /\ drops' = drops + 1
        BY <1>4, <2>3 DEF Spill, TypeInv, TypeOK
      <3>2. lost' \in [Handle -> Nat] /\ drops' \in Nat
        BY <2>2, <3>1
      <3> QED BY <1>4, <2>1, <2>3, <3>2 DEF Spill, TypeInv, TypeOK, Live
    <2>4. CASE ~SpillFull(job[t].id)
      <3>1. /\ order \in Seq(Handle) /\ spill \in [Handle -> Int]
            /\ order' = Append(order, job[t].id) \/ order' = order
            /\ spill' = [spill EXCEPT ![job[t].id] = @ + 1]
            /\ total \in Int /\ total' = total + 1
            /\ queued \in Nat /\ queued' = queued + 1
        BY <1>4, <2>4 DEF Spill, TypeInv, TypeOK
      <3>2. order' \in Seq(Handle)
        <4>1. order \in Seq(Handle)
          BY <3>1
        <4>2. order' = Append(order, job[t].id) \/ order' = order
          BY <3>1
        <4> QED BY <2>2, <4>1, <4>2
      <3>3. spill' \in [Handle -> Int]
        BY <2>2, <3>1
      <3>4. total' \in Int /\ queued' \in Nat
        BY <3>1
      <3> QED BY <1>4, <2>1, <2>4, <3>2, <3>3, <3>4 DEF Spill, TypeInv, TypeOK, Live
    <2> QED BY <2>3, <2>4
  <1>5. ASSUME DrainQueue(t) PROVE TypeInv'
    <2>1. CASE job[t].left = 0 /\ Becomes(t, Idle) /\ UNCHANGED queue
      <3>1. job' \in [Threads -> Job] /\ JobOK'
        BY <1>e, <2>1, BecomesType
      <3> QED BY <1>5, <2>1, <3>1 DEF DrainQueue, TypeInv, TypeOK, countVars, ghostVars, Live
    <2>2. CASE /\ job[t].left > 0 /\ queue # << >> /\ queue' = Tail(queue)
               /\ Becomes(t, [job[t] EXCEPT !.at = "drained", !.id = Head(queue)])
      <3>1. Head(queue) \in Handle /\ queue' \in Seq(Handle)
        <4>1. queue \in Seq(Handle)
          BY DEF TypeInv, TypeOK
        <4> QED BY <2>2, <4>1, HeadTail
      <3>2. Head(queue) \in 0..MaxHandles
        BY <3>1 DEF Handle
      <3>3. [job[t] EXCEPT !.at = "drained", !.id = Head(queue)] \in Job
        BY <1>j, <3>2 DEF Job, Place
      <3>4. JobFits([job[t] EXCEPT !.at = "drained", !.id = Head(queue)])
        BY <1>j, <2>2, <3>1 DEF Job, JobFits
      <3>5. job' \in [Threads -> Job] /\ JobOK'
        BY <2>2, <3>3, <3>4, BecomesType
      <3> QED BY <1>5, <3>1, <3>5 DEF DrainQueue, TypeInv, TypeOK, countVars, ghostVars, Live
    <2>3. CASE /\ job[t].left > 0
               /\ Becomes(t, [job[t] EXCEPT !.at = "drainSpill"])
               /\ UNCHANGED queue
      <3>1. [job[t] EXCEPT !.at = "drainSpill"] \in Job
        BY <1>j DEF Job, Place
      <3>2. JobFits([job[t] EXCEPT !.at = "drainSpill"])
        BY <1>j, <2>3 DEF Job, JobFits, Busy
      <3>3. job' \in [Threads -> Job] /\ JobOK'
        BY <2>3, <3>1, <3>2, BecomesType
      <3> QED BY <1>5, <2>3, <3>3 DEF DrainQueue, TypeInv, TypeOK, countVars, ghostVars, Live
    <2> QED BY <1>5, <2>1, <2>2, <2>3 DEF DrainQueue
  <1>6. ASSUME DrainSpill(t) PROVE TypeInv'
    <2>0. job[t].left > 0
      BY <1>6 DEF DrainSpill, TypeInv, JobOK, JobFits
    <2>1. CASE order = << >> /\ Becomes(t, Idle) /\ UNCHANGED <<spill, order, total>>
      <3>1. job' \in [Threads -> Job] /\ JobOK'
        BY <1>e, <2>1, BecomesType
      <3> QED BY <1>6, <2>1, <3>1 DEF DrainSpill, TypeInv, TypeOK, countVars, ghostVars, Live
    <2>2. CASE /\ order # << >>
               /\ spill' = [spill EXCEPT ![Head(order)] = @ - 1]
               /\ total' = total - 1
               /\ order' = IF spill[Head(order)] <= 1 THEN Tail(order) ELSE order
               /\ Becomes(t, [job[t] EXCEPT !.at = "drained", !.id = Head(order)])
      <3>1. Head(order) \in Handle /\ order' \in Seq(Handle)
        <4>1. order \in Seq(Handle)
          BY DEF TypeInv, TypeOK
        <4> QED BY <2>2, <4>1, HeadTail
      <3>2. Head(order) \in 0..MaxHandles
        BY <3>1 DEF Handle
      <3>3. [job[t] EXCEPT !.at = "drained", !.id = Head(order)] \in Job
        BY <1>j, <3>2 DEF Job, Place
      <3>4. JobFits([job[t] EXCEPT !.at = "drained", !.id = Head(order)])
        BY <1>j, <2>2, <3>1, <2>0 DEF Job, JobFits
      <3>5. job' \in [Threads -> Job] /\ JobOK'
        BY <2>2, <3>3, <3>4, BecomesType
      <3>6. spill \in [Handle -> Int] /\ total \in Int
        BY DEF TypeInv, TypeOK
      <3>7. spill' \in [Handle -> Int] /\ total' \in Int
        <4>1. spill[Head(order)] - 1 \in Int /\ total - 1 \in Int
          BY <3>1, <3>6
        <4>2. spill' = [spill EXCEPT ![Head(order)] = spill[Head(order)] - 1]
          BY <2>2
        <4> QED BY <2>2, <3>1, <3>6, <4>1, <4>2, IntUpdate
      <3> QED BY <1>6, <3>1, <3>5, <3>7 DEF DrainSpill, TypeInv, TypeOK, countVars, ghostVars, Live
    <2> QED BY <1>6, <2>1, <2>2 DEF DrainSpill
  <1>7. ASSUME CountDrain(t) PROVE TypeInv'
    <2> DEFINE j == [job[t] EXCEPT !.at = "release",
                                   !.left = IF @ = NoLimit THEN @ ELSE @ - 1]
    <2>1. job[t].left > 0 /\ job[t].id \in Handle
      BY <1>7 DEF CountDrain, TypeInv, JobOK, JobFits, Busy
    <2>2. (IF job[t].left = NoLimit THEN job[t].left ELSE job[t].left - 1) \in 0..NoLimit
      BY <1>j, <2>1 DEF Job, NoLimit
    <2>3. j \in Job
      BY <1>j, <2>2 DEF Job, Place
    <2>4. JobFits(j)
      BY <1>j, <2>1 DEF Job, JobFits
    <2>5. job' \in [Threads -> Job] /\ JobOK'
      BY <1>7, <2>3, <2>4, BecomesType DEF CountDrain
    <2>6. drains \in Nat /\ drains' = drains + 1
      BY <1>7 DEF CountDrain, TypeInv, TypeOK
    <2>7. drains' \in Nat
      BY <2>6
    <2> QED BY <1>7, <2>5, <2>7
         DEF CountDrain, TypeInv, TypeOK, tableVars, ghostVars, Live
  <1>8. ASSUME DrainRelease(t) PROVE TypeInv'
    <2>1. CoreType'
      BY <1>8, <1>i, DropOneType DEF DrainRelease, Cause, Busy
    <2> QED BY <1>8, <2>1
         DEF TypeInv, TypeOK, DrainRelease, CoreType, EntriesType, Live, queueVars, ghostVars
  <1>9. ASSUME Sweep(t) PROVE TypeInv'
    <2>1. PICK id \in job[t].todo : DropAll(t, id, "scope", "sweep")
      BY <1>9 DEF Sweep
    <2>2. id \in Handle
      BY <1>j DEF Job
    <2>3. CoreType'
      BY <2>1, <2>2, DropAllType DEF Cause
    <2> QED BY <1>9, <2>3
         DEF TypeInv, TypeOK, Sweep, CoreType, EntriesType, Live, queueVars, ghostVars
  <1>10. ASSUME EndSweep(t) PROVE TypeInv'
    <2>1. job' \in [Threads -> Job] /\ JobOK'
      BY <1>e, <1>10, BecomesType DEF EndSweep
    <2> QED BY <1>10, <2>1
         DEF TypeInv, TypeOK, EndSweep, tableVars, countVars, ghostVars, Live
  <1> QED BY <1>1, <1>2, <1>3, <1>4, <1>5, <1>6, <1>7, <1>8, <1>9, <1>10 DEF Continue

(* The type invariant and its strengthening hold in every reachable state. *)
LEMMA TypeInvariant == Spec => []TypeInv
  <1>1. TypeInv /\ [Next]_vars => TypeInv'
    <2> SUFFICES ASSUME TypeInv, [Next]_vars PROVE TypeInv'
      OBVIOUS
    <2>1. CASE UNCHANGED vars
      BY <2>1 DEF vars, tableVars, countVars, ghostVars, TypeInv, TypeOK, JobOK, Live
    <2>2. CASE Next
      BY <2>2, CallType, ContinueType DEF Next
    <2> QED BY <2>1, <2>2
  <1> QED BY TypeInit, <1>1, PTL DEF Spec

(* Every variable keeps its type: no reference count leaves its bounds, no *)
(* thread acts on an id that is not one, no drain counts below zero.       *)
THEOREM TypeCorrect == Spec => []TypeOK
  BY TypeInvariant, PTL DEF TypeInv

----------------------------------------------------------------------------
(* What a step may do to the set of live handles.  Every step is of one of *)
(* four kinds, and the theorems below need to know no more than that.      *)

(* No handle comes, goes, or has its callback run.                         *)
Quiet ==
  /\ nextID' = nextID /\ calls' = calls /\ released' = released
  /\ DOMAIN entries' = Live
  /\ \A h \in Live : entries'[h].references \subseteq entries[h].references \cup Live
  /\ \A t \in Threads : job'[t].at = "callback" => job'[t] = job[t]

Registration ==
  /\ nextID \in Handle /\ nextID' = nextID + 1
  /\ calls' = calls /\ job' = job /\ released' = released
  /\ DOMAIN entries' = Live \cup {nextID}
  /\ \A h \in Live : h # nextID => entries'[h] = entries[h]
  /\ entries'[nextID].references = {}

Removal(t, id) ==
  /\ id \in Live
  /\ nextID' = nextID /\ calls' = calls
  /\ \E cause \in Cause : released' = [released EXCEPT ![cause] = @ + 1]
  /\ entries' = Without(id)
  /\ job'[t].at = "callback" /\ job'[t].id = id
  /\ \A u \in Threads : u # t => job'[u] = job[u]

CallbackRun(t) ==
  /\ nextID' = nextID /\ entries' = entries /\ released' = released
  /\ job[t].at = "callback" /\ job'[t].at # "callback"
  /\ job[t].id \in Handle
  /\ calls' = [calls EXCEPT ![job[t].id] = @ + 1]
  /\ \A u \in Threads : u # t => job'[u] = job[u]

KnownStep ==
  \/ Quiet \/ Registration
  \/ \E t \in Threads : CallbackRun(t)
  \/ \E t \in Threads : \E id \in Handle : Removal(t, id)

(* A thread that takes a job other than a callback is quiet.               *)
LEMMA QuietJob ==
  ASSUME TypeInv, NEW t \in Threads, NEW j, Becomes(t, j), j.at # "callback"
  PROVE  \A u \in Threads : job'[u].at = "callback" => job'[u] = job[u]
  BY DEF TypeInv, TypeOK, Becomes

(* Going on in an operation is no step of a handle's life.                 *)
LEMMA QuietGoOn ==
  ASSUME TypeInv, NEW t \in Threads, NEW id,
         NEW then \in {"idle", "drain", "sweep"}, GoOn(t, id, then)
  PROVE  /\ \A u \in Threads : job'[u].at = "callback" => job'[u] = job[u]
         /\ job'[t].at = then
         /\ \A u \in Threads : u # t => job'[u] = job[u]
  <1> DEFINE j == [job[t] EXCEPT !.at = then, !.then = "idle", !.id = 0,
                                 !.todo = @ \ {id}]
  <1>1. job[t] \in Job /\ job \in [Threads -> Job]
    BY DEF TypeInv, TypeOK
  <1>2. j.at = then
    BY <1>1 DEF Job
  <1>3. Becomes(t, j)
    BY DEF GoOn
  <1> HIDE DEF j
  <1>4. j.at # "callback"
    BY <1>2
  <1>5. job' = [job EXCEPT ![t] = j]
    BY <1>3 DEF Becomes
  <1> QED BY <1>1, <1>2, <1>3, <1>4, <1>5, QuietJob

(* Removing one handle is one handle's release.                            *)
LEMMA RemoveKind ==
  ASSUME TypeInv, NEW t \in Threads, NEW id \in Handle, id \in Live,
         NEW cause \in Cause, NEW then, Remove(t, id, cause, then),
         nextID' = nextID, calls' = calls
  PROVE  Removal(t, id)
  <1> DEFINE j == [job[t] EXCEPT !.at = "callback", !.then = then, !.id = id,
                                 !.todo = @ \ {id}]
  <1>1. job[t] \in Job /\ job \in [Threads -> Job]
    BY DEF TypeInv, TypeOK
  <1>2. j.at = "callback" /\ j.id = id
    BY <1>1 DEF Job
  <1>3. Becomes(t, j)
    BY DEF Remove
  <1> HIDE DEF j
  <1>4. job' = [job EXCEPT ![t] = j]
    BY <1>3 DEF Becomes
  <1> QED BY <1>1, <1>2, <1>4 DEF Removal, Remove

(* Dropping one reference is one step of one handle, or none.              *)
LEMMA DropOneKind ==
  ASSUME TypeInv, NEW t \in Threads, NEW id \in Handle, NEW cause \in Cause,
         NEW then \in {"idle", "drain", "sweep"}, DropOne(t, id, cause, then),
         nextID' = nextID, calls' = calls
  PROVE  KnownStep
  <1>1. CASE id \notin Live /\ GoOn(t, id, then) /\ UNCHANGED <<entries, released>>
    BY <1>1, QuietGoOn DEF KnownStep, Quiet, Live
  <1>2. CASE /\ id \in Live
             /\ entries' = [entries EXCEPT ![id].refs = @ - 1]
             /\ GoOn(t, id, then) /\ UNCHANGED released
    <2>1. DOMAIN entries' = Live
      BY <1>2 DEF TypeInv, TypeOK, Live
    <2>2. \A h \in Live : entries'[h].references = entries[h].references
      BY <1>2 DEF TypeInv, TypeOK, Entry, Live
    <2> QED BY <1>2, <2>1, <2>2, QuietGoOn DEF KnownStep, Quiet
  <1>3. CASE id \in Live /\ Remove(t, id, cause, then)
    BY <1>3, RemoveKind DEF KnownStep
  <1> QED BY <1>1, <1>2, <1>3 DEF DropOne

(* Taking a handle is one step of one handle, or none.                     *)
LEMMA DropAllKind ==
  ASSUME TypeInv, NEW t \in Threads, NEW id \in Handle, NEW cause \in Cause,
         NEW then \in {"idle", "drain", "sweep"}, DropAll(t, id, cause, then),
         nextID' = nextID, calls' = calls
  PROVE  KnownStep
  <1>1. CASE id \notin Live /\ GoOn(t, id, then) /\ UNCHANGED <<entries, released>>
    BY <1>1, QuietGoOn DEF KnownStep, Quiet, Live
  <1>2. CASE id \in Live /\ Remove(t, id, cause, then)
    BY <1>2, RemoveKind DEF KnownStep
  <1> QED BY <1>1, <1>2 DEF DropAll

(* The call of an operation is one step of one handle's life, or none.     *)
LEMMA CallKind ==
  ASSUME TypeInv, NEW t \in Threads, Call(t)
  PROVE  KnownStep
  <1> DEFINE Untouched == nextID' = nextID /\ calls' = calls
  <1>0. job \in [Threads -> Job] /\ job[t] \in Job
    BY DEF TypeInv, TypeOK
  <1>1. ASSUME NEW s \in Scopes, Register(t, s) PROVE KnownStep
    <2>1. nextID \in Handle /\ nextID' = nextID + 1
      BY <1>1 DEF TypeInv, TypeOK, Register, Handle
    <2> QED BY <1>1, <2>1 DEF KnownStep, Registration, Register, countVars, Live
  <1>2. ASSUME NEW id \in Handle, Retain(t, id) PROVE KnownStep
    <2>1. DOMAIN entries' = Live
      BY <1>2 DEF TypeInv, TypeOK, Live, Retain
    <2>2. \A h \in Live : entries'[h].references = entries[h].references
      BY <1>2 DEF TypeInv, TypeOK, Entry, Live, Retain
    <2> QED BY <1>2, <2>1, <2>2 DEF KnownStep, Quiet, Retain, countVars
  <1>3. ASSUME NEW id \in Handle, Escape(t, id) PROVE KnownStep
    <2>1. DOMAIN entries' = Live
      BY <1>3 DEF TypeInv, TypeOK, Live, Escape
    <2>2. \A h \in Live : entries'[h].references = entries[h].references
      BY <1>3 DEF TypeInv, TypeOK, Entry, Live, Escape
    <2> QED BY <1>3, <2>1, <2>2 DEF KnownStep, Quiet, Escape, countVars, ghostVars
  <1>4. ASSUME NEW from \in Handle, NEW to \in Handle, RecordReference(t, from, to)
        PROVE KnownStep
    <2>1. DOMAIN entries' = Live
      BY <1>4 DEF TypeInv, TypeOK, Live, RecordReference
    <2>2. \A h \in Live : entries'[h].references \subseteq entries[h].references \cup {to}
      BY <1>4 DEF TypeInv, TypeOK, Entry, Live, RecordReference
    <2> QED BY <1>4, <2>1, <2>2 DEF KnownStep, Quiet, RecordReference, countVars, ghostVars
  <1>5. ASSUME NEW from \in Handle, NEW to \in Handle, DropReference(t, from, to)
        PROVE KnownStep
    <2>1. DOMAIN entries' = Live
      BY <1>5 DEF TypeInv, TypeOK, Live, DropReference
    <2>2. \A h \in Live : entries'[h].references \subseteq entries[h].references
      BY <1>5 DEF TypeInv, TypeOK, Entry, Live, DropReference
    <2> QED BY <1>5, <2>1, <2>2 DEF KnownStep, Quiet, DropReference, countVars, ghostVars
  <1>6. ASSUME NEW id \in Handle, NEW cause \in Cause, Release(t, id, cause) PROVE KnownStep
    BY <1>6, DropOneKind DEF Release
  <1>7. ASSUME NEW id \in Handle, ReleaseAllRefs(t, id) PROVE KnownStep
    BY <1>7, DropAllKind DEF Cause, ReleaseAllRefs, ghostVars
  <1>8. ASSUME NEW id \in Handle, QueueRelease(t, id) PROVE KnownStep
    <2>1. [job[t] EXCEPT !.at = "send", !.id = id].at # "callback"
      BY <1>0 DEF Job
    <2>2. \A u \in Threads : job'[u].at = "callback" => job'[u] = job[u]
      BY <1>8, <2>1, QuietJob DEF QueueRelease
    <2> QED BY <1>8, <2>2 DEF KnownStep, Quiet, QueueRelease, countVars, tableVars, Live
  <1>9. ASSUME NEW max \in 0..MaxDrain, StartDrain(t, max) PROVE KnownStep
    <2>1. [job[t] EXCEPT !.at = "drain", !.left = IF max = 0 THEN NoLimit ELSE max].at # "callback"
      BY <1>0 DEF Job
    <2>2. \A u \in Threads : job'[u].at = "callback" => job'[u] = job[u]
      BY <1>9, <2>1, QuietJob DEF StartDrain
    <2> QED BY <1>9, <2>2 DEF KnownStep, Quiet, StartDrain, countVars, tableVars, ghostVars, Live
  <1>10. ASSUME NEW ids, NEW scoped, StartSweep(t, ids, scoped) PROVE KnownStep
    <2>1. [job[t] EXCEPT !.at = "sweep", !.todo = ids, !.swept = ids, !.scoped = scoped].at
            # "callback"
      BY <1>0 DEF Job
    <2>2. \A u \in Threads : job'[u].at = "callback" => job'[u] = job[u]
      BY <1>10, <2>1, QuietJob DEF StartSweep
    <2> QED BY <1>10, <2>2 DEF KnownStep, Quiet, StartSweep, countVars, tableVars, ghostVars, Live
  <1>11. ASSUME NEW s \in Scopes, ReleaseScope(t, s) PROVE KnownStep
    BY <1>10, <1>11 DEF ReleaseScope
  <1>12. ASSUME ReleaseAll(t) PROVE KnownStep
    BY <1>10, <1>12 DEF ReleaseAll
  <1> QED BY <1>1, <1>2, <1>3, <1>4, <1>5, <1>6, <1>7, <1>8, <1>9, <1>11, <1>12
       DEF Call, Cause

(* Continuing a release, a drain or a sweep is no step of a handle's life, *)
(* or the start of the next release.                                       *)
LEMMA ContinueKind ==
  ASSUME TypeInv, NEW t \in Threads, Continue(t)
  PROVE  KnownStep
  <1>0. job \in [Threads -> Job] /\ job[t] \in Job
    BY DEF TypeInv, TypeOK
  <1>t. job[t].then \in {"idle", "drain", "sweep"}
    BY <1>0 DEF Job
  <1>d. ASSUME NEW id, Becomes(t, [job[t] EXCEPT !.at = "drained", !.id = id])
        PROVE  \A u \in Threads : job'[u].at = "callback" => job'[u] = job[u]
    <2>1. [job[t] EXCEPT !.at = "drained", !.id = id].at # "callback"
      BY <1>0 DEF Job
    <2> QED BY <1>d, <2>1, QuietJob
  <1>p. ASSUME NEW p \in {"count", "spill", "drainSpill"}, Becomes(t, [job[t] EXCEPT !.at = p])
        PROVE  \A u \in Threads : job'[u].at = "callback" => job'[u] = job[u]
    <2>1. [job[t] EXCEPT !.at = p].at # "callback"
      BY <1>0 DEF Job
    <2> QED BY <1>p, <2>1, QuietJob
  <1>e. ASSUME Becomes(t, Idle)
        PROVE  \A u \in Threads : job'[u].at = "callback" => job'[u] = job[u]
    <2>1. Idle.at # "callback"
      BY DEF Idle
    <2> QED BY <1>e, <2>1, QuietJob
  <1>1. ASSUME Callback(t) PROVE KnownStep
    <2>1. job[t].id \in Handle
      BY <1>1 DEF Callback, TypeInv, JobOK, JobFits, Busy
    <2>2. job'[t].at # "callback" /\ \A u \in Threads : u # t => job'[u] = job[u]
      BY <1>1, <1>t, QuietGoOn DEF Callback
    <2> QED BY <1>1, <2>1, <2>2 DEF KnownStep, CallbackRun, Callback, countVars, tableVars
  <1>2. ASSUME Send(t) PROVE KnownStep
    <2>1. \A u \in Threads : job'[u].at = "callback" => job'[u] = job[u]
      BY <1>2, <1>p DEF Send
    <2> QED BY <1>2, <2>1 DEF KnownStep, Quiet, Send, countVars, ghostVars, Live
  <1>3. ASSUME CountQueued(t) PROVE KnownStep
    <2>1. \A u \in Threads : job'[u].at = "callback" => job'[u] = job[u]
      BY <1>3, QuietGoOn DEF CountQueued
    <2> QED BY <1>3, <2>1 DEF KnownStep, Quiet, CountQueued, countVars, tableVars, ghostVars, Live
  <1>4. ASSUME Spill(t) PROVE KnownStep
    <2>1. \A u \in Threads : job'[u].at = "callback" => job'[u] = job[u]
      BY <1>4, QuietGoOn DEF Spill
    <2> QED BY <1>4, <2>1 DEF KnownStep, Quiet, Spill, countVars, Live
  <1>5. ASSUME DrainQueue(t) PROVE KnownStep
    <2>1. \A u \in Threads : job'[u].at = "callback" => job'[u] = job[u]
      BY <1>5, <1>d, <1>e, <1>p DEF DrainQueue
    <2> QED BY <1>5, <2>1 DEF KnownStep, Quiet, DrainQueue, countVars, ghostVars, Live
  <1>6. ASSUME DrainSpill(t) PROVE KnownStep
    <2>1. \A u \in Threads : job'[u].at = "callback" => job'[u] = job[u]
      BY <1>6, <1>d, <1>e DEF DrainSpill
    <2> QED BY <1>6, <2>1 DEF KnownStep, Quiet, DrainSpill, countVars, ghostVars, Live
  <1>7. ASSUME CountDrain(t) PROVE KnownStep
    <2>1. [job[t] EXCEPT !.at = "release",
                         !.left = IF @ = NoLimit THEN @ ELSE @ - 1].at # "callback"
      BY <1>0 DEF Job
    <2>2. \A u \in Threads : job'[u].at = "callback" => job'[u] = job[u]
      BY <1>7, <2>1, QuietJob DEF CountDrain
    <2> QED BY <1>7, <2>2 DEF KnownStep, Quiet, CountDrain, countVars, tableVars, ghostVars, Live
  <1>8. ASSUME DrainRelease(t) PROVE KnownStep
    <2>1. job[t].id \in Handle
      BY <1>8 DEF DrainRelease, TypeInv, JobOK, JobFits, Busy
    <2> QED BY <1>8, <2>1, DropOneKind DEF Cause, DrainRelease, ghostVars
  <1>9. ASSUME Sweep(t) PROVE KnownStep
    <2>1. PICK id \in job[t].todo : DropAll(t, id, "scope", "sweep")
      BY <1>9 DEF Sweep
    <2>2. id \in Handle
      BY <1>0 DEF Job
    <2> QED BY <1>9, <2>1, <2>2, DropAllKind DEF Cause, Sweep, ghostVars
  <1>10. ASSUME EndSweep(t) PROVE KnownStep
    <2>1. \A u \in Threads : job'[u].at = "callback" => job'[u] = job[u]
      BY <1>10, <1>e DEF EndSweep
    <2> QED BY <1>10, <2>1 DEF KnownStep, Quiet, EndSweep, countVars, tableVars, ghostVars, Live
  <1> QED BY <1>1, <1>2, <1>3, <1>4, <1>5, <1>6, <1>7, <1>8, <1>9, <1>10 DEF Continue

(* Every step of the table is one of the kinds of step a handle's life     *)
(* knows.                                                                  *)
LEMMA StepKind == TypeInv /\ [Next]_vars => KnownStep
  <1> SUFFICES ASSUME TypeInv, [Next]_vars PROVE KnownStep
    OBVIOUS
  <1>1. CASE UNCHANGED vars
    BY <1>1 DEF vars, tableVars, countVars, ghostVars, KnownStep, Quiet, Live
  <1>2. CASE Next
    BY <1>2, CallKind, ContinueKind DEF Next
  <1> QED BY <1>1, <1>2

----------------------------------------------------------------------------
(* The inductive invariant behind the handle's lifetime.  Ids from nextID  *)
(* on are untouched, live handles are never called back, and a thread in a *)
(* callback owns a removed handle alone.                                   *)
LifeInv ==
  /\ \A id \in Handle : id >= nextID => id \notin Live /\ calls[id] = 0
  /\ \A id \in Live : calls[id] = 0
  /\ \A t \in Threads : job[t].at = "callback" =>
       job[t].id < nextID /\ job[t].id \notin Live /\ calls[job[t].id] = 0
  /\ \A t, u \in Threads :
       job[t].at = "callback" /\ job[u].at = "callback" /\ job[t].id = job[u].id => t = u
  /\ \A id \in Handle : calls[id] <= 1

(* No handle is alive at first.                                            *)
LEMMA LifeInit == Init => LifeInv
  BY HandleTableAssumption DEF Init, LifeInv, Live, Handle, Idle

(* Every known kind of step keeps the invariant about lives.               *)
LEMMA LifeStep ==
  ASSUME TypeInv, TypeInv', LifeInv, KnownStep
  PROVE  LifeInv'
  <1>0. /\ Live \subseteq Handle /\ nextID \in Nat /\ nextID' \in Nat
        /\ Handle \subseteq Nat /\ calls \in [Handle -> Nat]
        /\ \A t \in Threads : job[t].at = "callback" => job[t].id \in Handle
    <2>1. /\ Live \subseteq Handle /\ nextID \in 1..(MaxHandles + 1)
          /\ calls \in [Handle -> Nat]
      BY DEF TypeInv, TypeOK
    <2>2. nextID' \in 1..(MaxHandles + 1)
      BY DEF TypeInv, TypeOK
    <2>3. \A t \in Threads : job[t].at = "callback" => job[t].id \in Handle
      BY DEF TypeInv, JobOK, JobFits, Busy
    <2>4. \A n \in 1..(MaxHandles + 1) : n \in Nat
      BY HandleTableAssumption
    <2>5. Handle \subseteq Nat
      BY HandleTableAssumption DEF Handle
    <2> QED BY <2>1, <2>2, <2>3, <2>4, <2>5
  <1>1. CASE Quiet
    BY <1>0, <1>1 DEF Quiet, LifeInv, Live
  <1>2. CASE Registration
    <2>1. /\ nextID \in Handle /\ nextID' = nextID + 1 /\ calls' = calls /\ job' = job
          /\ Live' = Live \cup {nextID} /\ calls[nextID] = 0
      BY <1>0, <1>2 DEF Registration, LifeInv, Live
    <2>2. \A g \in Handle : g >= nextID' => g \notin Live' /\ calls'[g] = 0
      <3>1. \A g \in Handle : g >= nextID + 1 => g >= nextID /\ g # nextID
        BY <1>0
      <3>2. \A g \in Handle : g >= nextID => g \notin Live /\ calls[g] = 0
        BY DEF LifeInv
      <3> QED BY <2>1, <3>1, <3>2
    <2>3. \A g \in Live' : calls'[g] = 0
      BY <2>1 DEF LifeInv
    <2>4. \A u \in Threads : job'[u].at = "callback" =>
            job'[u].id < nextID' /\ job'[u].id \notin Live' /\ calls'[job'[u].id] = 0
      <3>1. \A u \in Threads : job[u].at = "callback" =>
              /\ job[u].id \in Nat /\ job[u].id < nextID
              /\ job[u].id \notin Live /\ calls[job[u].id] = 0
        BY <1>0 DEF LifeInv
      <3>2. \A n \in Nat : n < nextID => n < nextID' /\ n # nextID
        BY <1>0, <2>1
      <3> QED BY <2>1, <3>1, <3>2
    <2> QED BY <2>1, <2>2, <2>3, <2>4 DEF LifeInv
  <1>3. ASSUME NEW t \in Threads, CallbackRun(t) PROVE LifeInv'
    <2>1. /\ calls'[job[t].id] = calls[job[t].id] + 1
          /\ \A id \in Handle : id # job[t].id => calls'[id] = calls[id]
      BY <1>0, <1>3 DEF CallbackRun
    <2>2. /\ nextID' = nextID /\ Live' = Live /\ job[t].at = "callback"
          /\ job[t].id < nextID /\ job[t].id \notin Live /\ calls[job[t].id] = 0
      BY <1>3 DEF CallbackRun, LifeInv, Live
    <2>3. \A u \in Threads : job'[u].at = "callback" =>
            job[u].at = "callback" /\ job'[u] = job[u] /\ job[u].id # job[t].id
      BY <1>3, <2>2 DEF CallbackRun, LifeInv
    <2>4. \A g \in Handle : g >= nextID' => g \notin Live' /\ calls'[g] = 0
      BY <1>0, <2>1, <2>2 DEF LifeInv
    <2>8. calls'[job[t].id] = 1
      BY <2>1, <2>2
    <2>9. \A g \in Live' : g \in Handle /\ g # job[t].id /\ calls[g] = 0
      BY <1>0, <2>2 DEF LifeInv
    <2>5. (\A g \in Live' : calls'[g] = 0) /\ \A g \in Handle : calls'[g] <= 1
      BY <2>1, <2>8, <2>9 DEF LifeInv
    <2>10. \A u \in Threads : job'[u].at = "callback" =>
             /\ job'[u] = job[u] /\ job[u].id \in Handle /\ job[u].id # job[t].id
             /\ job[u].id < nextID /\ job[u].id \notin Live /\ calls[job[u].id] = 0
      BY <1>0, <2>3 DEF LifeInv
    <2>6. \A u \in Threads : job'[u].at = "callback" =>
            job'[u].id < nextID' /\ job'[u].id \notin Live' /\ calls'[job'[u].id] = 0
      BY <2>1, <2>2, <2>10
    <2>7. \A u, v \in Threads : job'[u].at = "callback" /\ job'[v].at = "callback"
                                /\ job'[u].id = job'[v].id => u = v
      BY <2>3 DEF LifeInv
    <2> QED BY <2>4, <2>5, <2>6, <2>7 DEF LifeInv
  <1>4. ASSUME NEW t \in Threads, NEW id \in Handle, Removal(t, id) PROVE LifeInv'
    <2>1. Live' = Live \ {id}
      BY <1>4 DEF Removal, Without, Live
    <2>2. id < nextID /\ calls[id] = 0 /\ nextID' = nextID /\ calls' = calls
      BY <1>0, <1>4 DEF Removal, LifeInv
    <2>3. \A u \in Threads : u # t /\ job'[u].at = "callback" => job'[u] = job[u] /\ job[u].id # id
      BY <1>4 DEF Removal, LifeInv
    <2>4. job'[t].id = id
      BY <1>4 DEF Removal
    <2>5. \A g \in Handle : g >= nextID' => g \notin Live' /\ calls'[g] = 0
      BY <2>1, <2>2 DEF LifeInv
    <2>6. (\A g \in Live' : calls'[g] = 0) /\ \A g \in Handle : calls'[g] <= 1
      BY <2>1, <2>2 DEF LifeInv
    <2>7. \A u \in Threads : job'[u].at = "callback" =>
            job'[u].id < nextID' /\ job'[u].id \notin Live' /\ calls'[job'[u].id] = 0
      BY <2>1, <2>2, <2>3, <2>4 DEF LifeInv
    <2>8. \A u, v \in Threads : job'[u].at = "callback" /\ job'[v].at = "callback"
                                /\ job'[u].id = job'[v].id => u = v
      BY <2>3, <2>4 DEF LifeInv
    <2> QED BY <2>5, <2>6, <2>7, <2>8 DEF LifeInv
  <1> QED BY <1>1, <1>2, <1>3, <1>4 DEF KnownStep

(* The invariant about lives holds in every reachable state.               *)
LEMMA LifeInvariant == Spec => []LifeInv
  <1>1. TypeInv /\ TypeInv' /\ LifeInv /\ [Next]_vars => LifeInv'
    BY LifeStep, StepKind
  <1> QED BY LifeInit, <1>1, TypeInvariant, PTL DEF Spec

(* A handle's release callback runs at most once and never while the       *)
(* handle is live, whatever releases, sweeps and drains race: "Table       *)
(* guarantees it is called at most once per id" (table.go).                *)
THEOREM AtMostOnce == Spec => []ReleasedAtMostOnce
  <1>1. LifeInv => ReleasedAtMostOnce
    BY DEF LifeInv, ReleasedAtMostOnce, InCallback
  <1> QED BY <1>1, LifeInvariant, PTL

(* A released id never names a live handle again.                          *)
THEOREM NeverReused == Spec => IdsAreNeverReused
  <1>1. TypeInv /\ [Next]_vars =>
          [\A id \in 1..(nextID - 1) : id \notin Live => id \notin DOMAIN entries']_vars
    <2> SUFFICES ASSUME TypeInv, KnownStep, NEW id \in 1..(nextID - 1), id \notin Live
                 PROVE  id \notin DOMAIN entries'
      BY StepKind
    <2>0. nextID \in Nat
      BY HandleTableAssumption DEF TypeInv, TypeOK
    <2>1. CASE Quiet
      BY <2>1 DEF Quiet
    <2>2. CASE Registration
      BY <2>0, <2>2 DEF Registration
    <2>3. CASE \E t \in Threads : CallbackRun(t)
      BY <2>3 DEF CallbackRun, Live
    <2>4. CASE \E t \in Threads : \E h \in Handle : Removal(t, h)
      BY <2>4 DEF Removal, Without, Live
    <2> QED BY <2>1, <2>2, <2>3, <2>4 DEF KnownStep
  <1> QED BY <1>1, TypeInvariant, PTL DEF Spec, IdsAreNeverReused

----------------------------------------------------------------------------
(* No edge of the reference graph ever dangles.                            *)
THEOREM EdgesStayLive == Spec => []EdgesAreLive
  <1>1. Init => EdgesAreLive
    BY DEF Init, EdgesAreLive, Live
  <1>2. TypeInv /\ EdgesAreLive /\ [Next]_vars => EdgesAreLive'
    <2> SUFFICES ASSUME TypeInv, EdgesAreLive, KnownStep PROVE EdgesAreLive'
      BY StepKind
    <2>1. CASE Quiet
      BY <2>1 DEF Quiet, EdgesAreLive, Live
    <2>2. CASE Registration
      BY <2>2 DEF Registration, EdgesAreLive, Live
    <2>3. ASSUME NEW t \in Threads, CallbackRun(t) PROVE EdgesAreLive'
      BY <2>3 DEF CallbackRun, EdgesAreLive, Live
    <2>4. ASSUME NEW t \in Threads, NEW id \in Handle, Removal(t, id) PROVE EdgesAreLive'
      <3>1. DOMAIN entries' = Live \ {id}
        BY <2>4 DEF Removal, Without
      <3>2. \A h \in Live \ {id} : entries'[h].references = entries[h].references \ {id}
        <4> TAKE h \in Live \ {id}
        <4>1. entries[h] \in Entry
          BY DEF TypeInv, TypeOK
        <4>2. entries'[h] = [entries[h] EXCEPT !.references = @ \ {id}]
          BY <2>4 DEF Removal, Without
        <4> QED BY <4>1, <4>2 DEF Entry
      <3> QED BY <3>1, <3>2 DEF EdgesAreLive, Live
    <2> QED BY <2>1, <2>2, <2>3, <2>4 DEF KnownStep
  <1> QED BY <1>1, <1>2, TypeInvariant, PTL DEF Spec

----------------------------------------------------------------------------
(* Sweeps.  A thread has a snapshot only while it sweeps or runs a         *)
(* callback on a sweep's behalf; every id of the snapshot was handed out,  *)
(* and the ids it has visited are gone for good.                           *)
Sweeping(j) == j.at = "sweep" \/ (j.at = "callback" /\ j.then = "sweep")
SweepFits(j, n, live) ==
  /\ j.todo \subseteq j.swept
  /\ j.swept # {} => Sweeping(j)
  /\ \A h \in j.swept : h < n /\ (h \notin j.todo => h \notin live)
SweepInv == \A t \in Threads : SweepFits(job[t], nextID, Live)

(* The ids handed out grow, and none of them comes back to life.           *)
Onward == /\ nextID' \in Int /\ nextID \in Int /\ nextID <= nextID'
          /\ \A h \in Handle : h < nextID /\ h \notin Live => h \notin Live'

(* A step that keeps the sweeps in order ends none before its time.        *)
SweepsOn == /\ SweepInv'
            /\ \A t \in Threads : job[t].swept # {} /\ job'[t].swept = {} =>
                                    job[t].todo = {}

(* No step of the table brings an id back.                                 *)
LEMMA StepsOnward ==
  ASSUME TypeInv, TypeInv', KnownStep
  PROVE  Onward
  <1>1. nextID \in Int /\ nextID' \in Int
    BY HandleTableAssumption DEF TypeInv, TypeOK
  <1>2. nextID <= nextID'
    BY <1>1 DEF KnownStep, Quiet, Registration, CallbackRun, Removal
  <1>3. ASSUME NEW h \in Handle, h < nextID, h \notin Live PROVE h \notin Live'
    <2>1. CASE Quiet
      BY <1>3, <2>1 DEF Quiet, Live
    <2>2. CASE Registration
      BY <1>1, <1>3, <2>2 DEF Registration, Live, Handle
    <2>3. CASE \E t \in Threads : CallbackRun(t)
      BY <1>3, <2>3 DEF CallbackRun, Live
    <2>4. CASE \E t \in Threads : \E g \in Handle : Removal(t, g)
      BY <1>3, <2>4 DEF Removal, Without, Live
    <2> QED BY <2>1, <2>2, <2>3, <2>4 DEF KnownStep
  <1> QED BY <1>1, <1>2, <1>3 DEF Onward

(* A sweep's snapshot stays in order while other threads step.             *)
LEMMA SweepAges ==
  ASSUME NEW j \in Job, SweepFits(j, nextID, Live), Onward
  PROVE  SweepFits(j, nextID', Live')
  <1>1. j.swept \subseteq Handle
    BY DEF Job
  <1>2. \A h \in j.swept : h < nextID'
    BY <1>1 DEF SweepFits, Onward, Handle
  <1> QED BY <1>1, <1>2 DEF SweepFits, Onward

(* A thread that takes the job j leaves the sweeps in order when j's       *)
(* snapshot is, and when its own sweep goes on or had nothing left to do.  *)
LEMMA SweepBecomes ==
  ASSUME TypeInv, SweepInv, Onward, NEW t \in Threads, NEW j, Becomes(t, j),
         SweepFits(j, nextID', Live'),
         job[t].swept \in {{}, j.swept} \/ job[t].todo = {}
  PROVE  SweepsOn
  <1>1. job \in [Threads -> Job] /\ job' = [job EXCEPT ![t] = j]
    BY DEF TypeInv, TypeOK, Becomes
  <1>2. \A u \in Threads : u # t => job'[u] = job[u] /\ job[u] \in Job
    BY <1>1
  <1>3. \A u \in Threads : u # t => SweepFits(job'[u], nextID', Live')
    BY <1>2, SweepAges DEF SweepInv
  <1>4. job'[t] = j
    BY <1>1
  <1> QED BY <1>2, <1>3, <1>4 DEF SweepsOn, SweepInv

(* A thread outside a sweep that takes a job without a snapshot.           *)
LEMMA SweepBeside ==
  ASSUME TypeInv, SweepInv, Onward, NEW t \in Threads, NEW j, Becomes(t, j),
         ~Sweeping(job[t]), j.swept = job[t].swept \/ j.swept = {},
         j.todo = job[t].todo \/ j.todo = {}
  PROVE  SweepsOn
  <1>1. job[t].swept = {} /\ job[t].todo = {}
    BY DEF SweepInv, SweepFits
  <1>2. SweepFits(j, nextID', Live')
    BY <1>1 DEF SweepFits
  <1> QED BY <1>1, <1>2, SweepBecomes

(* Going on after the removal of id, inside a sweep or outside of one.     *)
LEMMA SweepGoOn ==
  ASSUME TypeInv, SweepInv, Onward, NEW t \in Threads, NEW id, NEW then,
         GoOn(t, id, then),
         ~Sweeping(job[t]) \/ (then = "sweep" /\ id \notin Live')
  PROVE  SweepsOn
  <1> DEFINE j == [job[t] EXCEPT !.at = then, !.then = "idle", !.id = 0,
                                 !.todo = @ \ {id}]
  <1>1. job[t] \in Job /\ SweepFits(job[t], nextID, Live)
    BY DEF TypeInv, TypeOK, SweepInv
  <1>2. j.swept = job[t].swept /\ j.todo = job[t].todo \ {id} /\ j.at = then
    BY <1>1 DEF Job
  <1>3. Becomes(t, j)
    BY DEF GoOn
  <1> HIDE DEF j
  <1>4. SweepFits(job[t], nextID', Live')
    BY <1>1, SweepAges
  <1>5. SweepFits(j, nextID', Live')
    BY <1>1, <1>2, <1>4 DEF SweepFits, Sweeping
  <1> QED BY <1>2, <1>3, <1>5, SweepBecomes

(* Removing id, inside a sweep or outside of one.                          *)
LEMMA SweepRemove ==
  ASSUME TypeInv, SweepInv, Onward, NEW t \in Threads, NEW id, NEW cause,
         NEW then, Remove(t, id, cause, then),
         ~Sweeping(job[t]) \/ then = "sweep"
  PROVE  SweepsOn
  <1> DEFINE j == [job[t] EXCEPT !.at = "callback", !.then = then, !.id = id,
                                 !.todo = @ \ {id}]
  <1>1. job[t] \in Job /\ SweepFits(job[t], nextID, Live)
    BY DEF TypeInv, TypeOK, SweepInv
  <1>2. /\ j.swept = job[t].swept /\ j.todo = job[t].todo \ {id}
        /\ j.at = "callback" /\ j.then = then
    BY <1>1 DEF Job
  <1>3. Becomes(t, j) /\ id \notin Live'
    BY DEF Remove, Without, Live
  <1> HIDE DEF j
  <1>4. SweepFits(job[t], nextID', Live')
    BY <1>1, SweepAges
  <1>5. SweepFits(j, nextID', Live')
    BY <1>1, <1>2, <1>3, <1>4 DEF SweepFits, Sweeping
  <1> QED BY <1>2, <1>3, <1>5, SweepBecomes

(* A step that gives no thread another job.                                *)
LEMMA SweepSame ==
  ASSUME TypeInv, SweepInv, Onward, job' = job
  PROVE  SweepsOn
  <1>1. \A u \in Threads : job[u] \in Job
    BY DEF TypeInv, TypeOK
  <1> QED BY <1>1, SweepAges DEF SweepsOn, SweepInv

(* The calls of the table keep the sweeps in order.                        *)
LEMMA CallSweeps ==
  ASSUME TypeInv, SweepInv, LifeInv, Onward, NEW t \in Threads, Call(t)
  PROVE  SweepsOn
  <1>0. job[t] \in Job
    BY DEF TypeInv, TypeOK
  <1>i. job[t].at = "idle" => ~Sweeping(job[t])
    BY DEF Sweeping
  <1>1. ASSUME NEW s \in Scopes, Register(t, s) PROVE SweepsOn
    BY <1>1, SweepSame DEF Register
  <1>2. ASSUME NEW id \in Handle, Retain(t, id) \/ Escape(t, id) PROVE SweepsOn
    BY <1>2, SweepSame DEF Retain, Escape
  <1>3. ASSUME NEW from \in Handle, NEW to \in Handle,
               RecordReference(t, from, to) \/ DropReference(t, from, to)
        PROVE SweepsOn
    BY <1>3, SweepSame DEF RecordReference, DropReference
  <1>4. ASSUME NEW id \in Handle, NEW cause, Release(t, id, cause) PROVE SweepsOn
    BY <1>4, <1>i, SweepGoOn, SweepRemove DEF Release, DropOne
  <1>5. ASSUME NEW id \in Handle, ReleaseAllRefs(t, id) PROVE SweepsOn
    BY <1>5, <1>i, SweepGoOn, SweepRemove DEF ReleaseAllRefs, DropAll
  <1>6. ASSUME NEW id \in Handle, QueueRelease(t, id) PROVE SweepsOn
    <2> DEFINE j == [job[t] EXCEPT !.at = "send", !.id = id]
    <2>1. j.swept = job[t].swept /\ j.todo = job[t].todo
      BY <1>0 DEF Job
    <2>2. CASE Becomes(t, j)
      BY <1>6, <1>i, <2>1, <2>2, SweepBeside DEF QueueRelease
    <2>3. CASE job' = job
      BY <2>3, SweepSame
    <2> QED BY <1>6, <2>2, <2>3 DEF QueueRelease
  <1>7. ASSUME NEW max \in 0..MaxDrain, StartDrain(t, max) PROVE SweepsOn
    <2> DEFINE j == [job[t] EXCEPT !.at = "drain",
                                   !.left = IF max = 0 THEN NoLimit ELSE max]
    <2>1. j.swept = job[t].swept /\ j.todo = job[t].todo
      BY <1>0 DEF Job
    <2> QED BY <1>7, <1>i, <2>1, SweepBeside DEF StartDrain
  <1>8. ASSUME NEW ids \in SUBSET Live, NEW scoped, StartSweep(t, ids, scoped)
        PROVE SweepsOn
    <2> DEFINE j == [job[t] EXCEPT !.at = "sweep", !.todo = ids, !.swept = ids,
                                   !.scoped = scoped]
    <2>1. j.swept = ids /\ j.todo = ids /\ j.at = "sweep"
      BY <1>0 DEF Job
    <2>2. Becomes(t, j) /\ job[t].swept = {}
      BY <1>8, <1>i DEF StartSweep, SweepInv, SweepFits
    <2> HIDE DEF j
    <2>3. \A h \in ids : h < nextID'
      <3>1. Live \subseteq Handle /\ Handle \subseteq Int
        BY HandleTableAssumption DEF TypeInv, TypeOK, Handle
      <3>2. \A h \in Live : h < nextID
        BY <3>1 DEF LifeInv, Onward
      <3> QED BY <3>1, <3>2 DEF Onward
    <2>4. SweepFits(j, nextID', Live')
      BY <2>1, <2>3 DEF SweepFits, Sweeping
    <2> QED BY <2>2, <2>4, SweepBecomes
  <1>9. ASSUME NEW s \in Scopes, ReleaseScope(t, s) PROVE SweepsOn
    BY <1>8, <1>9 DEF ReleaseScope
  <1>10. ASSUME ReleaseAll(t) PROVE SweepsOn
    BY <1>8, <1>10 DEF ReleaseAll
  <1> QED BY <1>1, <1>2, <1>3, <1>4, <1>5, <1>6, <1>7, <1>9, <1>10 DEF Call

(* The later steps of a method keep the sweeps in order.                   *)
LEMMA ContinueSweeps ==
  ASSUME TypeInv, SweepInv, LifeInv, Onward, NEW t \in Threads, Continue(t)
  PROVE  SweepsOn
  <1>0. job[t] \in Job
    BY DEF TypeInv, TypeOK
  <1>i. job[t].at \notin {"sweep", "callback"} => ~Sweeping(job[t])
    BY DEF Sweeping
  <1>e. Idle.swept = {} /\ Idle.todo = {}
    BY DEF Idle
  <1>1. ASSUME Callback(t) PROVE SweepsOn
    <2>1. job[t].id \notin Live' /\ (Sweeping(job[t]) => job[t].then = "sweep")
      BY <1>1 DEF Callback, LifeInv, Sweeping, tableVars, Live
    <2> QED BY <1>1, <2>1, SweepGoOn DEF Callback
  <1>2. ASSUME Send(t) PROVE SweepsOn
    <2>1. PICK p \in {"count", "spill"} : Becomes(t, [job[t] EXCEPT !.at = p])
      BY <1>2 DEF Send
    <2>2. /\ [job[t] EXCEPT !.at = p].swept = job[t].swept
          /\ [job[t] EXCEPT !.at = p].todo = job[t].todo
      BY <1>0 DEF Job
    <2> QED BY <1>2, <1>i, <2>1, <2>2, SweepBeside DEF Send
  <1>3. ASSUME CountQueued(t) PROVE SweepsOn
    BY <1>3, <1>i, SweepGoOn DEF CountQueued
  <1>4. ASSUME Spill(t) PROVE SweepsOn
    BY <1>4, <1>i, SweepGoOn DEF Spill
  <1>5. ASSUME DrainQueue(t) PROVE SweepsOn
    <2>1. CASE Becomes(t, Idle)
      BY <1>5, <1>e, <1>i, <2>1, SweepBeside DEF DrainQueue
    <2>2. CASE Becomes(t, [job[t] EXCEPT !.at = "drained", !.id = Head(queue)])
      <3>1. /\ [job[t] EXCEPT !.at = "drained", !.id = Head(queue)].swept = job[t].swept
            /\ [job[t] EXCEPT !.at = "drained", !.id = Head(queue)].todo = job[t].todo
        BY <1>0 DEF Job
      <3> QED BY <1>5, <1>i, <2>2, <3>1, SweepBeside DEF DrainQueue
    <2>3. CASE Becomes(t, [job[t] EXCEPT !.at = "drainSpill"])
      <3>1. /\ [job[t] EXCEPT !.at = "drainSpill"].swept = job[t].swept
            /\ [job[t] EXCEPT !.at = "drainSpill"].todo = job[t].todo
        BY <1>0 DEF Job
      <3> QED BY <1>5, <1>i, <2>3, <3>1, SweepBeside DEF DrainQueue
    <2> QED BY <1>5, <2>1, <2>2, <2>3 DEF DrainQueue
  <1>6. ASSUME DrainSpill(t) PROVE SweepsOn
    <2>1. CASE Becomes(t, Idle)
      BY <1>6, <1>e, <1>i, <2>1, SweepBeside DEF DrainSpill
    <2>2. CASE Becomes(t, [job[t] EXCEPT !.at = "drained", !.id = Head(order)])
      <3>1. /\ [job[t] EXCEPT !.at = "drained", !.id = Head(order)].swept = job[t].swept
            /\ [job[t] EXCEPT !.at = "drained", !.id = Head(order)].todo = job[t].todo
        BY <1>0 DEF Job
      <3> QED BY <1>6, <1>i, <2>2, <3>1, SweepBeside DEF DrainSpill
    <2> QED BY <1>6, <2>1, <2>2 DEF DrainSpill
  <1>7. ASSUME CountDrain(t) PROVE SweepsOn
    <2> DEFINE j == [job[t] EXCEPT !.at = "release",
                                   !.left = IF @ = NoLimit THEN @ ELSE @ - 1]
    <2>1. j.swept = job[t].swept /\ j.todo = job[t].todo
      BY <1>0 DEF Job
    <2> QED BY <1>7, <1>i, <2>1, SweepBeside DEF CountDrain
  <1>8. ASSUME DrainRelease(t) PROVE SweepsOn
    BY <1>8, <1>i, SweepGoOn, SweepRemove DEF DrainRelease, DropOne
  <1>9. ASSUME Sweep(t) PROVE SweepsOn
    <2>1. PICK id \in job[t].todo : DropAll(t, id, "scope", "sweep")
      BY <1>9 DEF Sweep
    <2>2. CASE id \notin Live /\ GoOn(t, id, "sweep") /\ UNCHANGED <<entries, released>>
      BY <2>2, SweepGoOn DEF Live
    <2>3. CASE Remove(t, id, "scope", "sweep")
      BY <2>3, SweepRemove
    <2> QED BY <2>1, <2>2, <2>3 DEF DropAll
  <1>10. ASSUME EndSweep(t) PROVE SweepsOn
    <2>1. Becomes(t, Idle) /\ job[t].todo = {}
      BY <1>10 DEF EndSweep
    <2>2. SweepFits(Idle, nextID', Live')
      BY <1>e DEF SweepFits
    <2> QED BY <2>1, <2>2, SweepBecomes
  <1> QED BY <1>1, <1>2, <1>3, <1>4, <1>5, <1>6, <1>7, <1>8, <1>9, <1>10 DEF Continue

(* A step keeps every sweep in order and ends none before its time.        *)
LEMMA StepSweeps == TypeInv /\ TypeInv' /\ LifeInv /\ SweepInv /\ [Next]_vars => SweepsOn
  <1> SUFFICES ASSUME TypeInv, TypeInv', LifeInv, SweepInv, [Next]_vars PROVE SweepsOn
    OBVIOUS
  <1>1. Onward
    BY StepKind, StepsOnward
  <1>2. CASE UNCHANGED vars
    BY <1>1, <1>2, SweepSame DEF vars
  <1>3. CASE Next
    BY <1>1, <1>3, CallSweeps, ContinueSweeps DEF Next
  <1> QED BY <1>2, <1>3

(* The sweeps are in order in every reachable state.                       *)
LEMMA SweepInvariant == Spec => []SweepInv
  <1>1. Init => SweepInv
    BY DEF Init, SweepInv, SweepFits, Idle
  <1>2. TypeInv /\ TypeInv' /\ LifeInv /\ SweepInv /\ [Next]_vars => SweepInv'
    BY StepSweeps DEF SweepsOn
  <1> QED BY <1>1, <1>2, TypeInvariant, LifeInvariant, PTL DEF Spec

(* ReleaseScope and ReleaseAll return only when every handle they found is *)
(* gone, however many threads released, registered and drained meanwhile.  *)
THEOREM SweepsAreComplete == Spec => SweepIsComplete
  <1>1. TypeInv /\ TypeInv' /\ LifeInv /\ SweepInv /\ [Next]_vars =>
          [\A t \in Threads :
             (job[t].swept # {} /\ job'[t].swept = {}) =>
                job[t].swept \cap DOMAIN entries' = {}]_vars
    <2> SUFFICES ASSUME TypeInv, TypeInv', LifeInv, SweepInv, [Next]_vars,
                        NEW t \in Threads, job[t].swept # {}, job'[t].swept = {}
                 PROVE  job[t].swept \cap DOMAIN entries' = {}
      OBVIOUS
    <2>1. job[t].todo = {}
      BY StepSweeps DEF SweepsOn
    <2>2. Onward
      BY StepKind, StepsOnward
    <2>3. job[t].swept \subseteq Handle
      BY DEF TypeInv, TypeOK, Job
    <2> QED BY <2>1, <2>2, <2>3 DEF SweepInv, SweepFits, Onward, Live
  <1> QED BY <1>1, TypeInvariant, LifeInvariant, SweepInvariant, PTL
         DEF Spec, SweepIsComplete

----------------------------------------------------------------------------
(* The books.  Counting is done one element at a time: a step adds to a    *)
(* set, or takes from it, one thread, one place of a queue, one release.   *)
Bit(b) == IF b THEN 1 ELSE 0

(* Two sets that differ at most in x.                                      *)
LEMMA CountMove ==
  ASSUME NEW S, IsFiniteSet(S), NEW T, NEW x,
         \A y : y # x => (y \in T <=> y \in S)
  PROVE  /\ IsFiniteSet(T) /\ Cardinality(S) \in Nat /\ Cardinality(T) \in Nat
         /\ Cardinality(T) = Cardinality(S) + Bit(x \in T) - Bit(x \in S)
  <1>0. Cardinality(S) \in Nat
    BY FS_CardinalityType
  <1>1. CASE x \in T
    <2>1. T = S \cup {x}
      BY <1>1
    <2>2. /\ IsFiniteSet(T)
          /\ Cardinality(T) = IF x \in S THEN Cardinality(S) ELSE Cardinality(S) + 1
      BY <2>1, FS_AddElement
    <2>3. Cardinality(T) \in Nat
      BY <2>2, FS_CardinalityType
    <2> QED BY <1>0, <1>1, <2>2, <2>3 DEF Bit
  <1>2. CASE x \notin T
    <2>1. T = S \ {x}
      BY <1>2
    <2>2. /\ IsFiniteSet(T)
          /\ Cardinality(T) = IF x \in S THEN Cardinality(S) - 1 ELSE Cardinality(S)
      BY <2>1, FS_RemoveElement
    <2>3. Cardinality(T) \in Nat
      BY <2>2, FS_CardinalityType
    <2> QED BY <1>0, <1>2, <2>2, <2>3 DEF Bit
  <1> QED BY <1>1, <1>2

(* The places of a queue that hold g.                                      *)
Named(q, g) == {i \in 1..Len(q) : q[i] = g}

(* The places of a queue can be counted.                                   *)
LEMMA NamedFinite ==
  ASSUME NEW q \in Seq(Handle), NEW g
  PROVE  IsFiniteSet(Named(q, g)) /\ Cardinality(Named(q, g)) \in Nat
  <1>1. IsFiniteSet(1..Len(q))
    BY FS_Interval
  <1>2. Named(q, g) \in SUBSET (1..Len(q))
    BY DEF Named
  <1> QED BY <1>1, <1>2, FS_Subset, FS_CardinalityType

(* Appending h adds a place that holds h.                                  *)
LEMMA NamedAppend ==
  ASSUME NEW q \in Seq(Handle), NEW h \in Handle, NEW g
  PROVE  Cardinality(Named(Append(q, h), g)) = Cardinality(Named(q, g)) + Bit(h = g)
  <1> DEFINE n == Len(q) + 1
  <1>1. Len(Append(q, h)) = n /\ n \in Nat /\ Append(q, h)[n] = h
    OBVIOUS
  <1>2. \A i \in 1..Len(q) : Append(q, h)[i] = q[i]
    OBVIOUS
  <1>3. \A y : y # n => (y \in Named(Append(q, h), g) <=> y \in Named(q, g))
    BY <1>1, <1>2 DEF Named
  <1>4. (n \in Named(Append(q, h), g) <=> h = g) /\ n \notin Named(q, g)
    BY <1>1 DEF Named
  <1>5. Cardinality(Named(Append(q, h), g))
          = Cardinality(Named(q, g)) + Bit(n \in Named(Append(q, h), g)) - Bit(n \in Named(q, g))
    BY <1>3, NamedFinite, CountMove
  <1> QED BY <1>4, <1>5, NamedFinite DEF Bit

(* Taking the head takes a place that holds it.                            *)
LEMMA NamedTail ==
  ASSUME NEW q \in Seq(Handle), q # << >>, NEW g
  PROVE  Cardinality(Named(Tail(q), g)) = Cardinality(Named(q, g)) - Bit(Head(q) = g)
  <1> DEFINE A == Named(Tail(q), g)
             B == Named(q, g) \ {1}
             f == [i \in A |-> i + 1]
  <1>1. Len(q) \in Nat /\ Len(q) > 0 /\ Len(Tail(q)) = Len(q) - 1 /\ q[1] = Head(q)
    OBVIOUS
  <1>2. \A i \in 1..(Len(q) - 1) : Tail(q)[i] = q[i + 1]
    OBVIOUS
  <1>3. \A i \in A : i \in 1..(Len(q) - 1) /\ q[i + 1] = g
    BY <1>1, <1>2 DEF Named
  <1>4. f \in [A -> B]
    BY <1>1, <1>3 DEF Named
  <1>5. \A i, k \in A : f[i] = f[k] => i = k
    BY <1>3
  <1>6. \A k \in B : \E i \in A : f[i] = k
    <2> TAKE k \in B
    <2>1. k \in 2..Len(q) /\ q[k] = g
      BY DEF Named
    <2>2. k - 1 \in 1..(Len(q) - 1) /\ Tail(q)[k - 1] = q[(k - 1) + 1]
      BY <1>1, <1>2, <2>1
    <2>3. k - 1 \in A /\ f[k - 1] = k
      BY <1>1, <2>1, <2>2 DEF Named
    <2> QED BY <2>3
  <1>7. ExistsBijection(A, B)
    BY <1>4, <1>5, <1>6 DEF ExistsBijection, Bijection, Injection, Surjection, IsInjective
  <1>8. IsFiniteSet(A)
    <2>1. Tail(q) \in Seq(Handle)
      BY HeadTail
    <2> QED BY <2>1, NamedFinite
  <1>9. Cardinality(B) = Cardinality(A)
    BY <1>7, <1>8, FS_Bijection
  <1>10. Cardinality(B) = Cardinality(Named(q, g)) + Bit(1 \in B) - Bit(1 \in Named(q, g))
    BY NamedFinite, CountMove
  <1>11. (1 \in Named(q, g) <=> Head(q) = g) /\ 1 \notin B
    BY <1>1 DEF Named
  <1>12. Cardinality(Named(q, g)) \in Nat
    BY NamedFinite
  <1> HIDE DEF A, B
  <1>13. Cardinality(A) = Cardinality(Named(q, g)) - Bit(Head(q) = g)
    BY <1>9, <1>10, <1>11, <1>12 DEF Bit
  <1> QED BY <1>13 DEF A

(* The threads that carry one finalizer release of g, or stand at a place. *)
Carriers == {"send", "spill", "drained", "release"}
Carries(j, g) == j.id = g /\ j.at \in Carriers
Carrying(g) == {t \in Threads : Carries(job[t], g)}
Standing(p) == {t \in Threads : job[t].at = p}
Active == {t \in Threads : job[t].at # "idle"}

(* A job that carries no release and has none to count.                    *)
Loose(j) == j.at \notin Carriers \cup {"count"}

(* Everything that is owed to g: the references clients own, those whose   *)
(* release is on its way, and those whose release was refused.             *)
Owed(g) == held[g] + (Cardinality(Named(queue, g)) + spill[g]
                      + Cardinality(Carrying(g))) + lost[g]

(* The strong references of a live handle are what is owed to it, and ids  *)
(* not handed out yet are owed nothing.                                    *)
RefsInv == /\ \A id \in Live : entries[id].refs = Owed(id)
           /\ \A h \in Handle : h >= nextID => Owed(h) = 0

(* What the counting needs: few threads are inside the table, and no count *)
(* of spilled releases is negative.                                        *)
Countable == IsFiniteSet(Active) /\ \A h \in Handle : spill[h] >= 0

(* The sets of threads that are counted are finite.                        *)
LEMMA ThreadsFinite ==
  ASSUME IsFiniteSet(Active)
  PROVE  /\ \A g : IsFiniteSet(Carrying(g)) /\ Cardinality(Carrying(g)) \in Nat
         /\ \A p : p # "idle" => IsFiniteSet(Standing(p)) /\ Cardinality(Standing(p)) \in Nat
  <1>1. \A g : Carrying(g) \in SUBSET Active
    BY DEF Carrying, Carries, Carriers, Active
  <1>2. \A p : p # "idle" => Standing(p) \in SUBSET Active
    BY DEF Standing, Active
  <1>3. \A S \in SUBSET Active : IsFiniteSet(S) /\ Cardinality(S) \in Nat
    BY FS_Subset, FS_CardinalityType
  <1> QED BY <1>1, <1>2, <1>3

(* A thread that takes the job j moves the counts of threads with it.      *)
LEMMA ThreadsMove ==
  ASSUME TypeInv, IsFiniteSet(Active), NEW t \in Threads, NEW j, Becomes(t, j)
  PROVE  /\ IsFiniteSet(Active')
         /\ \A g : Cardinality(Carrying(g)') = Cardinality(Carrying(g))
                                    + Bit(Carries(j, g)) - Bit(Carries(job[t], g))
         /\ \A p : p # "idle" =>
              Cardinality(Standing(p)') = Cardinality(Standing(p))
                                    + Bit(j.at = p) - Bit(job[t].at = p)
  <1>1. job'[t] = j /\ \A u \in Threads : u # t => job'[u] = job[u]
    BY DEF TypeInv, TypeOK, Becomes
  <1>2. IsFiniteSet(Active')
    <2>1. \A u : u # t => (u \in Active' <=> u \in Active)
      BY <1>1 DEF Active
    <2> QED BY <2>1, CountMove
  <1>3. ASSUME NEW g
        PROVE  Cardinality(Carrying(g)') = Cardinality(Carrying(g))
                                    + Bit(Carries(j, g)) - Bit(Carries(job[t], g))
    <2>1. \A u : u # t => (u \in Carrying(g)' <=> u \in Carrying(g))
      BY <1>1 DEF Carrying
    <2>2. (t \in Carrying(g)' <=> Carries(j, g)) /\ (t \in Carrying(g) <=> Carries(job[t], g))
      BY <1>1 DEF Carrying
    <2>3. Cardinality(Carrying(g)') = Cardinality(Carrying(g))
                                    + Bit(t \in Carrying(g)') - Bit(t \in Carrying(g))
      BY <2>1, ThreadsFinite, CountMove
    <2> QED BY <2>2, <2>3 DEF Bit
  <1>4. ASSUME NEW p, p # "idle"
        PROVE  Cardinality(Standing(p)') = Cardinality(Standing(p))
                                    + Bit(j.at = p) - Bit(job[t].at = p)
    <2>1. \A u : u # t => (u \in Standing(p)' <=> u \in Standing(p))
      BY <1>1 DEF Standing
    <2>2. (t \in Standing(p)' <=> j.at = p) /\ (t \in Standing(p) <=> job[t].at = p)
      BY <1>1 DEF Standing
    <2>3. Cardinality(Standing(p)') = Cardinality(Standing(p))
                                    + Bit(t \in Standing(p)') - Bit(t \in Standing(p))
      BY <1>4, <2>1, ThreadsFinite, CountMove
    <2> QED BY <2>2, <2>3 DEF Bit
  <1> QED BY <1>2, <1>3, <1>4

(* Everything owed is a number.                                            *)
LEMMA OwedType ==
  ASSUME TypeInv, Countable, NEW g \in Handle
  PROVE  /\ held[g] \in Nat /\ lost[g] \in Nat /\ spill[g] \in Nat
         /\ Cardinality(Named(queue, g)) \in Nat /\ Cardinality(Carrying(g)) \in Nat
         /\ Owed(g) \in Nat
  <1>1. held[g] \in Nat /\ lost[g] \in Nat /\ spill[g] \in Nat
    BY DEF TypeInv, TypeOK, Countable
  <1>2. Cardinality(Named(queue, g)) \in Nat
    BY NamedFinite DEF TypeInv, TypeOK
  <1>3. Cardinality(Carrying(g)) \in Nat
    BY ThreadsFinite DEF Countable
  <1> QED BY <1>1, <1>2, <1>3 DEF Owed

(* What is owed to x and its references move together, by d.               *)
LEMMA OwesOn ==
  ASSUME TypeInv, Countable, RefsInv, NEW x \in Handle, NEW d \in Int,
         nextID' = nextID, d = 0 \/ x < nextID,
         \A g \in Handle : Owed(g)' = Owed(g) + (IF g = x THEN d ELSE 0),
         DOMAIN entries' \subseteq Live,
         \A g \in DOMAIN entries' :
           entries'[g].refs = entries[g].refs + (IF g = x THEN d ELSE 0)
  PROVE  RefsInv'
  <1>1. Live \subseteq Handle /\ nextID \in Int /\ Handle \subseteq Int
    BY HandleTableAssumption DEF TypeInv, TypeOK, Handle
  <1>2. \A g \in DOMAIN entries' : entries'[g].refs = Owed(g)'
    BY <1>1 DEF RefsInv
  <1>3. \A h \in Handle : h >= nextID => Owed(h)' = 0
    BY <1>1 DEF RefsInv
  <1> QED BY <1>2, <1>3 DEF RefsInv, Live

(* The references of one live handle change, the others' stay.             *)
LEMMA RefsMove ==
  ASSUME TypeInv, NEW id \in Live, NEW n,
         entries' = [entries EXCEPT ![id].refs = n]
  PROVE  /\ DOMAIN entries' = Live /\ entries'[id].refs = n
         /\ \A g \in Live : g # id => entries'[g].refs = entries[g].refs
  <1>1. entries \in [Live -> Entry] /\ entries[id] \in Entry
    BY DEF TypeInv, TypeOK
  <1>2. entries' = [entries EXCEPT ![id] = [entries[id] EXCEPT !.refs = n]]
    BY <1>1
  <1>3. [entries[id] EXCEPT !.refs = n].refs = n
    BY <1>1 DEF Entry
  <1> QED BY <1>1, <1>2, <1>3

(* The references of the handles that stay, when one handle goes.          *)
LEMMA RefsWithout ==
  ASSUME TypeInv, NEW id, entries' = Without(id)
  PROVE  /\ DOMAIN entries' = Live \ {id}
         /\ \A g \in Live \ {id} : entries'[g].refs = entries[g].refs
  <1>1. \A g \in Live : entries[g] \in Entry
    BY DEF TypeInv, TypeOK
  <1>2. \A g \in Live \ {id} : entries'[g] = [entries[g] EXCEPT !.references = @ \ {id}]
    BY DEF Without
  <1> QED BY <1>1, <1>2 DEF Without, Entry

(* A thread that goes on in its operation carries no release.              *)
LEMMA GoOnLoose ==
  ASSUME TypeInv, NEW t \in Threads, NEW id, NEW then \in {"idle", "drain", "sweep"},
         GoOn(t, id, then)
  PROVE  \E j : Becomes(t, j) /\ Loose(j)
  <1> DEFINE j == [job[t] EXCEPT !.at = then, !.then = "idle", !.id = 0,
                                 !.todo = @ \ {id}]
  <1>1. j.at = then
    BY DEF TypeInv, TypeOK, Job
  <1>2. Becomes(t, j)
    BY DEF GoOn
  <1> HIDE DEF j
  <1> QED BY <1>1, <1>2 DEF Loose, Carriers

(* So does one that runs the callback of a handle it removed.              *)
LEMMA RemoveLoose ==
  ASSUME TypeInv, NEW t \in Threads, NEW id, NEW cause, NEW then,
         Remove(t, id, cause, then)
  PROVE  \E j : Becomes(t, j) /\ Loose(j)
  <1> DEFINE j == [job[t] EXCEPT !.at = "callback", !.then = then, !.id = id,
                                 !.todo = @ \ {id}]
  <1>1. j.at = "callback"
    BY DEF TypeInv, TypeOK, Job
  <1>2. Becomes(t, j)
    BY DEF Remove
  <1> HIDE DEF j
  <1> QED BY <1>1, <1>2 DEF Loose, Carriers

(* Dropping one reference takes one off the handle, or takes the handle.   *)
LEMMA DropOneBooks ==
  ASSUME TypeInv, NEW t \in Threads, NEW id \in Handle, NEW cause,
         NEW then \in {"idle", "drain", "sweep"}, DropOne(t, id, cause, then)
  PROVE  /\ DOMAIN entries' \subseteq Live
         /\ \A g \in DOMAIN entries' :
              entries'[g].refs = entries[g].refs + (IF g = id THEN -1 ELSE 0)
         /\ \E j : Becomes(t, j) /\ Loose(j)
  <1>0. \A g \in Live : entries[g].refs \in Int
    BY RefsBound
  <1>2. CASE id \notin Live /\ GoOn(t, id, then) /\ UNCHANGED <<entries, released>>
    BY <1>0, <1>2, GoOnLoose DEF Live
  <1>3. CASE /\ id \in Live
             /\ entries' = [entries EXCEPT ![id].refs = @ - 1]
             /\ GoOn(t, id, then)
    <2>1. entries' = [entries EXCEPT ![id].refs = entries[id].refs - 1]
      BY <1>3
    <2>2. /\ DOMAIN entries' = Live /\ entries'[id].refs = entries[id].refs - 1
          /\ \A g \in Live : g # id => entries'[g].refs = entries[g].refs
      BY ONLY TypeInv, <1>3, <2>1, RefsMove
    <2>3. \E j : Becomes(t, j) /\ Loose(j)
      BY <1>3, GoOnLoose
    <2> QED BY <1>0, <1>3, <2>2, <2>3
  <1>4. CASE id \in Live /\ Remove(t, id, cause, then)
    <2>1. \E j : Becomes(t, j) /\ Loose(j)
      BY <1>4, RemoveLoose
    <2>2. /\ DOMAIN entries' = Live \ {id}
          /\ \A g \in Live \ {id} : entries'[g].refs = entries[g].refs
      BY <1>4, RefsWithout DEF Remove
    <2> QED BY <1>0, <2>1, <2>2
  <1> QED BY <1>2, <1>3, <1>4 DEF DropOne

(* Taking a handle changes no other handle's references.                   *)
LEMMA DropAllBooks ==
  ASSUME TypeInv, NEW t \in Threads, NEW id, NEW cause,
         NEW then \in {"idle", "drain", "sweep"}, DropAll(t, id, cause, then)
  PROVE  /\ DOMAIN entries' \subseteq Live
         /\ \A g \in DOMAIN entries' : entries'[g].refs = entries[g].refs
         /\ \E j : Becomes(t, j) /\ Loose(j)
  <1>1. CASE id \notin Live /\ GoOn(t, id, then) /\ UNCHANGED <<entries, released>>
    <2>1. \E j : Becomes(t, j) /\ Loose(j)
      BY <1>1, GoOnLoose
    <2> QED BY <1>1, <2>1 DEF Live
  <1>2. CASE id \in Live /\ Remove(t, id, cause, then)
    <2>1. \E j : Becomes(t, j) /\ Loose(j)
      BY <1>2, RemoveLoose
    <2>2. /\ DOMAIN entries' = Live \ {id}
          /\ \A g \in Live \ {id} : entries'[g].refs = entries[g].refs
      BY <1>2, RefsWithout DEF Remove
    <2> QED BY <2>1, <2>2
  <1> QED BY <1>1, <1>2 DEF DropAll

(* The finalizer counters: what was counted as queued, or will be by the   *)
(* threads that have just sent, was drained, is being counted as drained,  *)
(* or is pending.                                                          *)
QueueInv ==
  /\ queued + Cardinality(Standing("count"))
       = drains + Cardinality(Standing("drained")) + Len(queue) + total
  /\ Len(queue) <= QueueCapacity

(* The releases that are spilled, one by one.                              *)
Pending == {p \in Handle \X Nat : p[2] \in 1..spill[p[1]]}

(* The spill map, its order and its total describe the same releases.      *)
SpillInv ==
  /\ \A h \in Handle : spill[h] >= 0
  /\ \A i, k \in 1..Len(order) : order[i] = order[k] => i = k
  /\ {order[i] : i \in 1..Len(order)} = SpillNames
  /\ Len(order) = Cardinality(SpillNames)
  /\ Cardinality(SpillNames) <= SpillLimit
  /\ IsFiniteSet(Pending) /\ total = Cardinality(Pending)

Accounts == TypeInv /\ LifeInv /\ IsFiniteSet(Active) /\ SpillInv /\ RefsInv /\ QueueInv
AccountsOn == IsFiniteSet(Active') /\ RefsInv' /\ QueueInv'

(* Steps beside the books: nothing owed moves, handles may only go.        *)
Beside ==
  /\ nextID' = nextID /\ queue' = queue /\ spill' = spill /\ total' = total
  /\ queued' = queued /\ drains' = drains /\ lost' = lost /\ held' = held
  /\ DOMAIN entries' \subseteq Live
  /\ \A g \in DOMAIN entries' : entries'[g].refs = entries[g].refs
  /\ \/ job' = job
     \/ \E t \in Threads : Loose(job[t]) /\ \E j : Becomes(t, j) /\ Loose(j)

(* What the numbers of the books are.                                      *)
LEMMA BookTypes ==
  ASSUME Accounts
  PROVE  /\ Countable
         /\ queued \in Nat /\ drains \in Nat /\ total \in Nat /\ Len(queue) \in Nat
         /\ Cardinality(Standing("count")) \in Nat
         /\ Cardinality(Standing("drained")) \in Nat
         /\ nextID \in Int /\ Live \subseteq Handle /\ Handle \subseteq Int
         /\ \A h \in Live : h < nextID /\ entries[h].refs \in Int
         /\ TypeInv /\ RefsInv /\ QueueInv /\ IsFiniteSet(Active)
  <1>1. Countable
    BY DEF Accounts, SpillInv, Countable
  <1>2. /\ queued \in Nat /\ drains \in Nat /\ queue \in Seq(Handle)
        /\ nextID \in Int /\ Live \subseteq Handle /\ Handle \subseteq Int
    BY HandleTableAssumption DEF Accounts, TypeInv, TypeOK, Handle
  <1>3. total \in Nat
    BY FS_CardinalityType DEF Accounts, SpillInv
  <1>4. /\ Cardinality(Standing("count")) \in Nat
        /\ Cardinality(Standing("drained")) \in Nat
    BY ThreadsFinite DEF Accounts
  <1>5. \A h \in Live : h < nextID /\ entries[h].refs \in Int
    BY <1>2, RefsBound DEF Accounts, LifeInv
  <1> QED BY <1>1, <1>2, <1>3, <1>4, <1>5 DEF Accounts

(* What is owed to a handle is a sum of counts.                            *)
LEMMA BookCounts ==
  ASSUME Accounts, NEW g \in Handle
  PROVE  /\ held[g] \in Nat /\ lost[g] \in Nat /\ spill[g] \in Nat
         /\ Cardinality(Named(queue, g)) \in Nat
         /\ Cardinality(Carrying(g)) \in Nat /\ Owed(g) \in Nat
         /\ Owed(g) = held[g] + (Cardinality(Named(queue, g)) + spill[g]
                                + Cardinality(Carrying(g))) + lost[g]
  <1>1. TypeInv /\ Countable
    BY BookTypes
  <1> QED BY <1>1, OwedType DEF Owed

(* Replacing one value of a function adds the difference there.            *)
LEMMA OneMoves ==
  ASSUME NEW f \in [Handle -> Int], NEW id \in Handle, NEW d \in Int, NEW h,
         h = [f EXCEPT ![id] = f[id] + d]
  PROVE  \A g \in Handle : h[g] = f[g] + (IF g = id THEN d ELSE 0)
  OBVIOUS

(* Threads that carry nothing before and after do not count.               *)
LEMMA LooseSame ==
  ASSUME TypeInv, IsFiniteSet(Active),
         \/ job' = job
         \/ \E t \in Threads : Loose(job[t]) /\ \E j : Becomes(t, j) /\ Loose(j)
  PROVE  /\ IsFiniteSet(Active')
         /\ \A g : Cardinality(Carrying(g)') = Cardinality(Carrying(g))
         /\ Cardinality(Standing("count")') = Cardinality(Standing("count"))
         /\ Cardinality(Standing("drained")') = Cardinality(Standing("drained"))
  <1>1. CASE job' = job
    BY <1>1 DEF Active, Carrying, Standing
  <1>2. ASSUME NEW t \in Threads, NEW j, Loose(job[t]), Becomes(t, j), Loose(j)
        PROVE  /\ IsFiniteSet(Active')
               /\ \A g : Cardinality(Carrying(g)') = Cardinality(Carrying(g))
               /\ Cardinality(Standing("count")') = Cardinality(Standing("count"))
               /\ Cardinality(Standing("drained")') = Cardinality(Standing("drained"))
    <2>1. /\ \A g : ~Carries(j, g) /\ ~Carries(job[t], g)
          /\ j.at \notin {"count", "drained"} /\ job[t].at \notin {"count", "drained"}
      BY <1>2 DEF Loose, Carries, Carriers
    <2>2. /\ \A g : Cardinality(Carrying(g)) \in Nat
          /\ Cardinality(Standing("count")) \in Nat
          /\ Cardinality(Standing("drained")) \in Nat
      BY ThreadsFinite
    <2>3. /\ IsFiniteSet(Active')
          /\ \A g : Cardinality(Carrying(g)') = Cardinality(Carrying(g))
                                    + Bit(Carries(j, g)) - Bit(Carries(job[t], g))
          /\ \A p : p # "idle" =>
               Cardinality(Standing(p)') = Cardinality(Standing(p))
                                    + Bit(j.at = p) - Bit(job[t].at = p)
      BY <1>2, ThreadsMove
    <2> QED BY <2>1, <2>2, <2>3 DEF Bit
  <1> QED BY <1>1, <1>2

(* A step beside the books leaves them balanced.                           *)
LEMMA BesideBooks ==
  ASSUME Accounts, Beside
  PROVE  AccountsOn
  <1>1. /\ IsFiniteSet(Active')
        /\ \A g : Cardinality(Carrying(g)') = Cardinality(Carrying(g))
        /\ Cardinality(Standing("count")') = Cardinality(Standing("count"))
        /\ Cardinality(Standing("drained")') = Cardinality(Standing("drained"))
    BY LooseSame DEF Accounts, Beside
  <1>2. QueueInv'
    BY <1>1 DEF Accounts, QueueInv, Beside
  <1>3. RefsInv'
    <2>1. \A g \in Handle : Owed(g)' = Owed(g)
      BY <1>1 DEF Owed, Named, Beside
    <2> QED BY <2>1, BookTypes DEF RefsInv, Accounts, Beside, Live
  <1> QED BY <1>1, <1>2, <1>3 DEF AccountsOn

(* Registering: the new handle is owed its one reference.                  *)
LEMMA RegisterBooks ==
  ASSUME Accounts, NEW t \in Threads, NEW s \in Scopes, Register(t, s)
  PROVE  AccountsOn
  <1>0. nextID \in Handle /\ nextID \notin Live
    BY BookTypes DEF TypeInv, TypeOK, Register, Handle
  <1> PICK n \in Handle : n = nextID /\ n \notin Live
    BY <1>0
  <1>1. /\ nextID' = n + 1 /\ job' = job /\ queue' = queue /\ spill' = spill
        /\ lost' = lost /\ total' = total /\ queued' = queued /\ drains' = drains
        /\ held'[n] = 1 /\ \A g \in Handle : g # n => held'[g] = held[g]
    BY BookTypes DEF TypeInv, TypeOK, Register, queueVars, countVars
  <1>2. /\ DOMAIN entries' = Live \cup {n} /\ entries'[n].refs = 1
        /\ \A g \in Live : entries'[g] = entries[g]
    BY DEF Register
  <1>3. \A g : Carrying(g)' = Carrying(g)
    BY <1>1 DEF Carrying
  <1>4. \A g \in Handle : Owed(g)' = held'[g] + (Cardinality(Named(queue, g)) + spill[g]
                                 + Cardinality(Carrying(g))) + lost[g]
    BY <1>1, <1>3 DEF Owed
  <1>5. \A g \in Handle : g # n => Owed(g)' = Owed(g)
    BY <1>1, <1>4 DEF Owed
  <1>6. Owed(n)' = 1
    <2>1. Owed(n) = 0
      BY BookTypes DEF RefsInv
    <2> DEFINE a == held[n]
               b == Cardinality(Named(queue, n))
               c == spill[n]
               d == Cardinality(Carrying(n))
               e == lost[n]
    <2>2. /\ a \in Nat /\ b \in Nat /\ c \in Nat /\ d \in Nat /\ e \in Nat
          /\ a + (b + c + d) + e = 0
      BY <2>1, BookCounts
    <2>3. Owed(n)' = 1 + (b + c + d) + e
      BY <1>1, <1>4
    <2> HIDE DEF a, b, c, d, e
    <2> QED BY <2>2, <2>3
  <1>7. RefsInv'
    <2>1. \A g \in DOMAIN entries' : entries'[g].refs = Owed(g)'
      BY <1>2, <1>5, <1>6, BookTypes DEF RefsInv
    <2>2. \A h \in Handle : h >= nextID' => Owed(h)' = 0
      <3>1. \A h \in Handle : h >= nextID' => h # n /\ h >= nextID
        BY <1>1, BookTypes
      <3> QED BY <1>5, <3>1, BookTypes DEF RefsInv
    <2> QED BY <2>1, <2>2 DEF RefsInv, Live
  <1>8. IsFiniteSet(Active') /\ QueueInv'
    BY <1>1, BookTypes DEF Active, QueueInv, Standing
  <1> QED BY <1>7, <1>8 DEF AccountsOn

(* Retaining: one reference more, owned by the client.                     *)
LEMMA RetainBooks ==
  ASSUME Accounts, NEW t \in Threads, NEW id \in Handle, Retain(t, id)
  PROVE  AccountsOn
  <1>1. /\ nextID' = nextID /\ id \in Live /\ job' = job /\ queue' = queue
        /\ spill' = spill /\ lost' = lost /\ total' = total
        /\ queued' = queued /\ drains' = drains
        /\ held' = [held EXCEPT ![id] = held[id] + 1]
        /\ entries' = [entries EXCEPT ![id].refs = entries[id].refs + 1]
    BY DEF Retain, queueVars, countVars
  <1>2. \A g : Carrying(g)' = Carrying(g)
    BY <1>1 DEF Carrying
  <1>3. \A g \in Handle : Owed(g)' = Owed(g) + (IF g = id THEN 1 ELSE 0)
    <2> TAKE g \in Handle
    <2>1. held'[g] = held[g] + (IF g = id THEN 1 ELSE 0)
      <3>1. held \in [Handle -> Int]
        BY BookTypes DEF TypeInv, TypeOK
      <3> QED BY <1>1, <3>1, OneMoves
    <2>2. Owed(g)' = held'[g] + (Cardinality(Named(queue, g)) + spill[g]
                                 + Cardinality(Carrying(g))) + lost[g]
      BY <1>1, <1>2 DEF Owed, Named
    <2> QED BY <2>1, <2>2, BookCounts
  <1>4. /\ DOMAIN entries' = Live /\ entries'[id].refs = entries[id].refs + 1
        /\ \A g \in Live : g # id => entries'[g].refs = entries[g].refs
    BY ONLY <1>1, Accounts, RefsMove DEF Accounts
  <1>5. \A g \in Live : entries[g].refs \in Int
    BY RefsBound DEF Accounts
  <1>6. RefsInv'
    <2>1. \A g \in DOMAIN entries' :
            entries'[g].refs = entries[g].refs + (IF g = id THEN 1 ELSE 0)
      BY <1>4, <1>5
    <2>2. DOMAIN entries' \subseteq Live /\ id < nextID /\ nextID' = nextID
      BY <1>1, <1>4, BookTypes
    <2>3. TypeInv /\ Countable /\ RefsInv
      BY BookTypes
    <2> QED BY ONLY <1>3, <2>1, <2>2, <2>3, OwesOn
  <1>7. IsFiniteSet(Active') /\ QueueInv'
    BY <1>1, BookTypes DEF Active, QueueInv, Standing
  <1> QED BY <1>6, <1>7 DEF AccountsOn

(* Releasing: the client gives up one reference, the handle loses it.      *)
LEMMA ReleaseBooks ==
  ASSUME Accounts, NEW t \in Threads, NEW id \in Handle, NEW cause, Release(t, id, cause)
  PROVE  AccountsOn
  <1>1. /\ nextID' = nextID /\ Loose(job[t]) /\ queue' = queue /\ held[id] > 0
        /\ spill' = spill /\ lost' = lost /\ total' = total
        /\ queued' = queued /\ drains' = drains
        /\ held' = [held EXCEPT ![id] = held[id] - 1]
        /\ DropOne(t, id, cause, "idle")
    BY DEF Release, queueVars, Loose, Carriers
  <1>2. /\ DOMAIN entries' \subseteq Live
        /\ \A g \in DOMAIN entries' :
             entries'[g].refs = entries[g].refs + (IF g = id THEN -1 ELSE 0)
        /\ \E j : Becomes(t, j) /\ Loose(j)
    BY <1>1, DropOneBooks DEF Accounts
  <1>3. /\ IsFiniteSet(Active')
        /\ \A g : Cardinality(Carrying(g)') = Cardinality(Carrying(g))
        /\ Cardinality(Standing("count")') = Cardinality(Standing("count"))
        /\ Cardinality(Standing("drained")') = Cardinality(Standing("drained"))
    BY <1>1, <1>2, LooseSame DEF Accounts
  <1>4. \A g \in Handle : Owed(g)' = Owed(g) + (IF g = id THEN -1 ELSE 0)
    <2> TAKE g \in Handle
    <2>1. held'[g] = held[g] + (IF g = id THEN -1 ELSE 0)
      <3>1. held \in [Handle -> Int]
        BY BookTypes DEF TypeInv, TypeOK
      <3>2. held' = [held EXCEPT ![id] = held[id] + (-1)]
        BY <1>1, <3>1
      <3> QED BY <3>1, <3>2, OneMoves
    <2>2. Owed(g)' = held'[g] + (Cardinality(Named(queue, g)) + spill[g]
                                 + Cardinality(Carrying(g))) + lost[g]
      BY <1>1, <1>3 DEF Owed, Named
    <2> QED BY <2>1, <2>2, BookCounts
  <1>5. id < nextID
    <2>1. Owed(id) > 0
      BY <1>1, BookCounts
    <2> QED BY <2>1, BookTypes DEF RefsInv
  <1>6. RefsInv'
    BY <1>1, <1>2, <1>4, <1>5, OwesOn, BookTypes
  <1>7. QueueInv'
    BY <1>1, <1>3, BookTypes DEF QueueInv
  <1> QED BY <1>3, <1>6, <1>7 DEF AccountsOn

(* When the table stays and nothing owed changes, references stay right.   *)
LEMMA OwesSame ==
  ASSUME Accounts, nextID' = nextID, entries' = entries,
         \A g \in Handle : Owed(g)' = Owed(g)
  PROVE  RefsInv'
  BY BookTypes DEF RefsInv, Live

(* Queueing: the reference passes from the client to the release.          *)
LEMMA QueueReleaseBooks ==
  ASSUME Accounts, NEW t \in Threads, NEW id \in Handle, QueueRelease(t, id)
  PROVE  AccountsOn
  <1> DEFINE j == [job[t] EXCEPT !.at = "send", !.id = id]
  <1>1. /\ nextID' = nextID /\ entries' = entries /\ queue' = queue /\ spill' = spill
        /\ lost' = lost /\ total' = total /\ queued' = queued /\ drains' = drains
        /\ job[t].at = "idle" /\ held[id] > 0
        /\ held' = [held EXCEPT ![id] = held[id] - 1]
    BY DEF QueueRelease, tableVars, countVars
  <1>2. \A g \in Handle : held'[g] = held[g] + (IF g = id THEN -1 ELSE 0)
    <2>1. held \in [Handle -> Int]
      BY BookTypes DEF TypeInv, TypeOK
    <2>2. held' = [held EXCEPT ![id] = held[id] + (-1)]
      BY <1>1, <2>1
    <2> QED BY <2>1, <2>2, OneMoves
  <1>3. CASE id \in Live
    <2>1. Becomes(t, j)
      BY <1>3 DEF QueueRelease
    <2>2. j.at = "send" /\ j.id = id
      BY BookTypes DEF TypeInv, TypeOK, Job
    <2> HIDE DEF j
    <2>3. /\ IsFiniteSet(Active')
          /\ \A g : Cardinality(Carrying(g)') = Cardinality(Carrying(g))
                                    + Bit(Carries(j, g)) - Bit(Carries(job[t], g))
          /\ \A p : p # "idle" =>
               Cardinality(Standing(p)') = Cardinality(Standing(p))
                                    + Bit(j.at = p) - Bit(job[t].at = p)
      BY <2>1, BookTypes, ThreadsMove
    <2>4. \A g \in Handle : Owed(g)' = Owed(g)
      <3> TAKE g \in Handle
      <3>1. Cardinality(Carrying(g)') = Cardinality(Carrying(g)) + (IF g = id THEN 1 ELSE 0)
        BY <1>1, <2>2, <2>3, BookCounts DEF Bit, Carries, Carriers
      <3>2. Owed(g)' = held'[g] + (Cardinality(Named(queue, g)) + spill[g]
                                   + Cardinality(Carrying(g)')) + lost[g]
        BY <1>1 DEF Owed
      <3> QED BY <1>2, <3>1, <3>2, BookCounts
    <2>5. QueueInv'
      <3>1. /\ Cardinality(Standing("count")') = Cardinality(Standing("count"))
            /\ Cardinality(Standing("drained")') = Cardinality(Standing("drained"))
        <4>1. /\ ~(j.at = "count") /\ ~(job[t].at = "count")
              /\ ~(j.at = "drained") /\ ~(job[t].at = "drained")
          BY <1>1, <2>2
        <4>2. /\ Cardinality(Standing("count")') = Cardinality(Standing("count")) + 0 - 0
              /\ Cardinality(Standing("drained")') = Cardinality(Standing("drained")) + 0 - 0
          BY <2>3, <4>1 DEF Bit
        <4> QED BY <4>2, BookTypes
      <3> QED BY <1>1, <3>1, BookTypes DEF QueueInv
    <2> QED BY <1>1, <2>3, <2>4, <2>5, OwesSame DEF AccountsOn
  <1>4. CASE id \notin Live
    <2>1. job' = job
      BY <1>4 DEF QueueRelease
    <2>2. \A g : Carrying(g)' = Carrying(g)
      BY <2>1 DEF Carrying
    <2>3. \A g \in Handle : Owed(g)' = Owed(g) + (IF g = id THEN -1 ELSE 0)
      <3> TAKE g \in Handle
      <3>1. Owed(g)' = held'[g] + (Cardinality(Named(queue, g)) + spill[g]
                                   + Cardinality(Carrying(g))) + lost[g]
        BY <1>1, <2>2 DEF Owed
      <3> QED BY <1>2, <3>1, BookCounts
    <2>4. id < nextID
      <3>1. Owed(id) > 0
        BY <1>1, BookCounts
      <3> QED BY <3>1, BookTypes DEF RefsInv
    <2>5. RefsInv'
      <3>1. \A g \in DOMAIN entries' :
              entries'[g].refs = entries[g].refs + (IF g = id THEN -1 ELSE 0)
        BY <1>1, <1>4, BookTypes DEF Live
      <3>2. DOMAIN entries' \subseteq Live /\ nextID' = nextID
        BY <1>1 DEF Live
      <3>3. TypeInv /\ Countable /\ RefsInv
        BY BookTypes
      <3> QED BY ONLY <2>3, <2>4, <3>1, <3>2, <3>3, OwesOn
    <2>6. IsFiniteSet(Active') /\ QueueInv'
      BY <1>1, <2>1, BookTypes DEF Active, QueueInv, Standing
    <2> QED BY <2>5, <2>6 DEF AccountsOn
  <1> QED BY <1>3, <1>4

(* Sending: the release passes from the thread to the queue, or the thread *)
(* goes to the spill with it.                                              *)
LEMMA SendBooks ==
  ASSUME Accounts, NEW t \in Threads, Send(t)
  PROVE  AccountsOn
  <1>0. job[t].at = "send" /\ job[t] \in Job
    BY BookTypes DEF Send, TypeInv, TypeOK
  <1> PICK id \in Handle : id = job[t].id
    BY <1>0, BookTypes DEF TypeInv, JobOK, JobFits, Busy
  <1>1. /\ nextID' = nextID /\ entries' = entries /\ spill' = spill /\ held' = held
        /\ lost' = lost /\ total' = total /\ queued' = queued /\ drains' = drains
    BY DEF Send, countVars, ghostVars
  <1>2. \A g \in Handle : Owed(g)' = held[g] + (Cardinality(Named(queue', g)) + spill[g]
                                        + Cardinality(Carrying(g)')) + lost[g]
    BY <1>1 DEF Owed
  <1>3. CASE Len(queue) < QueueCapacity
    <2> DEFINE j == [job[t] EXCEPT !.at = "count"]
    <2>1. Becomes(t, j) /\ queue' = Append(queue, id)
      BY <1>3 DEF Send
    <2>2. j.at = "count"
      BY <1>0 DEF Job
    <2> HIDE DEF j
    <2>3. /\ IsFiniteSet(Active')
          /\ \A g : Cardinality(Carrying(g)') = Cardinality(Carrying(g))
                                    + Bit(Carries(j, g)) - Bit(Carries(job[t], g))
          /\ \A p : p # "idle" =>
               Cardinality(Standing(p)') = Cardinality(Standing(p))
                                    + Bit(j.at = p) - Bit(job[t].at = p)
      BY <2>1, BookTypes, ThreadsMove
    <2>4. \A g \in Handle : Owed(g)' = Owed(g)
      <3> TAKE g \in Handle
      <3>1. Cardinality(Carrying(g)') = Cardinality(Carrying(g)) + (IF g = id THEN -1 ELSE 0)
        BY <1>0, <2>2, <2>3, BookCounts DEF Bit, Carries, Carriers
      <3>2. Cardinality(Named(queue', g))
              = Cardinality(Named(queue, g)) + (IF g = id THEN 1 ELSE 0)
        <4>1. queue \in Seq(Handle)
          BY BookTypes DEF TypeInv, TypeOK
        <4> QED BY <2>1, <4>1, NamedAppend, BookCounts DEF Bit
      <3> QED BY <1>2, <3>1, <3>2, BookCounts
    <2>5. QueueInv'
      <3>1. /\ Cardinality(Standing("count")') = Cardinality(Standing("count")) + 1
            /\ Cardinality(Standing("drained")') = Cardinality(Standing("drained"))
        BY <1>0, <2>2, <2>3, BookTypes DEF Bit
      <3>2. Len(queue') = Len(queue) + 1
        <4>1. queue \in Seq(Handle)
          BY BookTypes DEF TypeInv, TypeOK
        <4> QED BY <2>1, <4>1
      <3> QED BY HandleTableAssumption, <1>1, <1>3, <3>1, <3>2, BookTypes DEF QueueInv
    <2> QED BY <1>1, <2>3, <2>4, <2>5, OwesSame DEF AccountsOn
  <1>4. CASE Len(queue) >= QueueCapacity
    <2> DEFINE j == [job[t] EXCEPT !.at = "spill"]
    <2>1. Becomes(t, j) /\ queue' = queue
      BY HandleTableAssumption, <1>4, BookTypes DEF Send
    <2>2. j.at = "spill" /\ j.id = job[t].id
      BY <1>0 DEF Job
    <2> HIDE DEF j
    <2>3. /\ IsFiniteSet(Active')
          /\ \A g : Cardinality(Carrying(g)') = Cardinality(Carrying(g))
                                    + Bit(Carries(j, g)) - Bit(Carries(job[t], g))
          /\ \A p : p # "idle" =>
               Cardinality(Standing(p)') = Cardinality(Standing(p))
                                    + Bit(j.at = p) - Bit(job[t].at = p)
      BY <2>1, BookTypes, ThreadsMove
    <2>4. \A g \in Handle : Owed(g)' = Owed(g)
      <3> TAKE g \in Handle
      <3>1. Cardinality(Carrying(g)') = Cardinality(Carrying(g))
        BY <1>0, <2>2, <2>3, BookCounts DEF Bit, Carries, Carriers
      <3> QED BY <1>2, <2>1, <3>1, BookCounts
    <2>5. QueueInv'
      <3>1. /\ Cardinality(Standing("count")') = Cardinality(Standing("count"))
            /\ Cardinality(Standing("drained")') = Cardinality(Standing("drained"))
        BY <1>0, <2>2, <2>3, BookTypes DEF Bit
      <3> QED BY <1>1, <2>1, <3>1, BookTypes DEF QueueInv
    <2> QED BY <1>1, <2>3, <2>4, <2>5, OwesSame DEF AccountsOn
  <1>5. Len(queue) \in Int /\ QueueCapacity \in Int
    BY HandleTableAssumption, BookTypes
  <1> QED BY <1>3, <1>4, <1>5

(* Counting what was sent.                                                 *)
LEMMA CountQueuedBooks ==
  ASSUME Accounts, NEW t \in Threads, CountQueued(t)
  PROVE  AccountsOn
  <1>0. job[t].at = "count"
    BY DEF CountQueued
  <1>1. /\ nextID' = nextID /\ entries' = entries /\ spill' = spill /\ held' = held
        /\ lost' = lost /\ total' = total /\ queued' = queued + 1 /\ drains' = drains
        /\ queue' = queue
    BY DEF CountQueued, tableVars, ghostVars
  <1>2. PICK j : Becomes(t, j) /\ Loose(j)
    BY GoOnLoose, BookTypes DEF CountQueued
  <1>3. /\ IsFiniteSet(Active')
        /\ \A g : Cardinality(Carrying(g)') = Cardinality(Carrying(g))
                                  + Bit(Carries(j, g)) - Bit(Carries(job[t], g))
        /\ \A p : p # "idle" =>
             Cardinality(Standing(p)') = Cardinality(Standing(p))
                                  + Bit(j.at = p) - Bit(job[t].at = p)
    BY <1>2, BookTypes, ThreadsMove
  <1>4. \A g \in Handle : Owed(g)' = Owed(g)
    <2> TAKE g \in Handle
    <2>1. Cardinality(Carrying(g)') = Cardinality(Carrying(g))
      BY <1>0, <1>2, <1>3, BookCounts DEF Bit, Carries, Carriers, Loose
    <2> QED BY <1>1, <2>1 DEF Owed
  <1>5. QueueInv'
    <2>1. /\ Cardinality(Standing("count")') = Cardinality(Standing("count")) - 1
          /\ Cardinality(Standing("drained")') = Cardinality(Standing("drained"))
      BY <1>0, <1>2, <1>3, BookTypes DEF Bit, Loose, Carriers
    <2> QED BY <1>1, <2>1, BookTypes DEF QueueInv
  <1> QED BY <1>1, <1>3, <1>4, <1>5, OwesSame DEF AccountsOn

(* Spilling: the release passes from the thread to the spill map, or is    *)
(* refused and written off.                                                *)
LEMMA SpillBooks ==
  ASSUME Accounts, NEW t \in Threads, Spill(t)
  PROVE  AccountsOn
  <1>0. job[t].at = "spill"
    BY DEF Spill
  <1> PICK id \in Handle : id = job[t].id
    BY <1>0, BookTypes DEF TypeInv, JobOK, JobFits, Busy
  <1>1. /\ nextID' = nextID /\ entries' = entries /\ held' = held
        /\ drains' = drains /\ queue' = queue
    BY DEF Spill
  <1>2. PICK j : Becomes(t, j) /\ Loose(j)
    BY GoOnLoose, BookTypes DEF Spill
  <1>3. /\ IsFiniteSet(Active')
        /\ \A g : Cardinality(Carrying(g)') = Cardinality(Carrying(g))
                                  + Bit(Carries(j, g)) - Bit(Carries(job[t], g))
        /\ \A p : p # "idle" =>
             Cardinality(Standing(p)') = Cardinality(Standing(p))
                                  + Bit(j.at = p) - Bit(job[t].at = p)
    BY <1>2, BookTypes, ThreadsMove
  <1>4. \A g \in Handle :
          Cardinality(Carrying(g)') = Cardinality(Carrying(g)) + (IF g = id THEN -1 ELSE 0)
    BY <1>0, <1>2, <1>3, BookCounts DEF Bit, Carries, Carriers, Loose
  <1>5. /\ Cardinality(Standing("count")') = Cardinality(Standing("count"))
        /\ Cardinality(Standing("drained")') = Cardinality(Standing("drained"))
    BY <1>0, <1>2, <1>3, BookTypes DEF Bit, Loose, Carriers
  <1>6. \A g \in Handle : Owed(g)' = held[g] + (Cardinality(Named(queue, g)) + spill'[g]
                                        + Cardinality(Carrying(g)')) + lost'[g]
    BY <1>1 DEF Owed
  <1>7. CASE SpillFull(id)
    <2>1. /\ spill' = spill /\ total' = total /\ queued' = queued
          /\ lost' = [lost EXCEPT ![id] = lost[id] + 1]
      BY <1>7 DEF Spill
    <2>2. \A g \in Handle : lost'[g] = lost[g] + (IF g = id THEN 1 ELSE 0)
      <3>1. lost \in [Handle -> Int]
        BY BookTypes DEF TypeInv, TypeOK
      <3> QED BY <2>1, <3>1, OneMoves
    <2>3. \A g \in Handle : Owed(g)' = Owed(g)
      <3> TAKE g \in Handle
      <3>1. Owed(g)' = held[g] + (Cardinality(Named(queue, g)) + spill[g]
                 + (Cardinality(Carrying(g)) + (IF g = id THEN -1 ELSE 0)))
                 + (lost[g] + (IF g = id THEN 1 ELSE 0))
        BY <1>4, <1>6, <2>1, <2>2
      <3> QED BY <3>1, BookCounts
    <2>4. QueueInv'
      BY <1>1, <1>5, <2>1, BookTypes DEF QueueInv
    <2> QED BY <1>1, <1>3, <2>3, <2>4, OwesSame DEF AccountsOn
  <1>8. CASE ~SpillFull(id)
    <2>1. /\ spill' = [spill EXCEPT ![id] = spill[id] + 1] /\ total' = total + 1
          /\ queued' = queued + 1 /\ lost' = lost
      BY <1>8 DEF Spill
    <2>2. \A g \in Handle : spill'[g] = spill[g] + (IF g = id THEN 1 ELSE 0)
      <3>1. spill \in [Handle -> Int]
        BY BookTypes DEF TypeInv, TypeOK
      <3> QED BY <2>1, <3>1, OneMoves
    <2>3. \A g \in Handle : Owed(g)' = Owed(g)
      <3> TAKE g \in Handle
      <3> QED BY <1>4, <1>6, <2>1, <2>2, BookCounts
    <2>4. QueueInv'
      <3> DEFINE c == Cardinality(Standing("count"))
                 d == Cardinality(Standing("drained"))
                 n == Len(queue)
      <3>1. /\ queued \in Nat /\ drains \in Nat /\ total \in Nat
            /\ c \in Nat /\ d \in Nat /\ n \in Nat
            /\ queued + c = drains + d + n + total
        BY BookTypes DEF QueueInv
      <3>2. queued' + c = drains + d + n + total'
        <4> HIDE DEF c, d, n
        <4> QED BY <2>1, <3>1
      <3> QED BY <1>1, <1>5, <3>2, BookTypes DEF QueueInv
    <2> QED BY <1>1, <1>3, <2>3, <2>4, OwesSame DEF AccountsOn
  <1> QED BY <1>7, <1>8

(* Receiving: the release passes from the queue to the draining thread.    *)
LEMMA DrainQueueBooks ==
  ASSUME Accounts, NEW t \in Threads, DrainQueue(t)
  PROVE  AccountsOn
  <1>0. job[t].at = "drain" /\ job[t] \in Job /\ Loose(job[t]) /\ queue \in Seq(Handle)
    BY BookTypes DEF DrainQueue, TypeInv, TypeOK, Loose, Carriers
  <1>1. /\ nextID' = nextID /\ entries' = entries /\ spill' = spill /\ held' = held
        /\ lost' = lost /\ total' = total /\ queued' = queued /\ drains' = drains
    BY DEF DrainQueue, countVars, ghostVars
  <1>2. ASSUME NEW j, Becomes(t, j), Loose(j), queue' = queue PROVE AccountsOn
    <2>1. Beside
      BY <1>0, <1>1, <1>2 DEF Beside, Live
    <2> QED BY <2>1, BesideBooks
  <1>3. CASE Becomes(t, Idle) /\ UNCHANGED queue
    BY <1>2, <1>3 DEF Loose, Carriers, Idle
  <1>4. CASE Becomes(t, [job[t] EXCEPT !.at = "drainSpill"]) /\ UNCHANGED queue
    <2>1. Loose([job[t] EXCEPT !.at = "drainSpill"])
      BY <1>0 DEF Job, Loose, Carriers
    <2> QED BY <1>2, <1>4, <2>1
  <1>5. CASE /\ queue # << >> /\ queue' = Tail(queue)
             /\ Becomes(t, [job[t] EXCEPT !.at = "drained", !.id = Head(queue)])
    <2> PICK id \in Handle : id = Head(queue)
      BY <1>0, <1>5, HeadTail
    <2> DEFINE j == [job[t] EXCEPT !.at = "drained", !.id = id]
    <2>1. Becomes(t, j)
      BY <1>5
    <2>2. j.at = "drained" /\ j.id = id
      BY <1>0 DEF Job
    <2> HIDE DEF j
    <2>3. /\ IsFiniteSet(Active')
          /\ \A g : Cardinality(Carrying(g)') = Cardinality(Carrying(g))
                                    + Bit(Carries(j, g)) - Bit(Carries(job[t], g))
          /\ \A p : p # "idle" =>
               Cardinality(Standing(p)') = Cardinality(Standing(p))
                                    + Bit(j.at = p) - Bit(job[t].at = p)
      BY <2>1, BookTypes, ThreadsMove
    <2>4. \A g \in Handle : Owed(g)' = Owed(g)
      <3> TAKE g \in Handle
      <3>1. Cardinality(Carrying(g)') = Cardinality(Carrying(g)) + (IF g = id THEN 1 ELSE 0)
        BY <1>0, <2>2, <2>3, BookCounts DEF Bit, Carries, Carriers
      <3>2. Cardinality(Named(queue', g))
              = Cardinality(Named(queue, g)) + (IF g = id THEN -1 ELSE 0)
        BY <1>0, <1>5, NamedTail, BookCounts DEF Bit
      <3>3. Owed(g)' = held[g] + (Cardinality(Named(queue', g)) + spill[g]
                                  + Cardinality(Carrying(g)')) + lost[g]
        BY <1>1 DEF Owed
      <3> QED BY <3>1, <3>2, <3>3, BookCounts
    <2>5. QueueInv'
      <3>1. /\ ~(j.at = "count") /\ ~(job[t].at = "count")
            /\ j.at = "drained" /\ ~(job[t].at = "drained")
        BY <1>0, <2>2
      <3>2. /\ Cardinality(Standing("count")') = Cardinality(Standing("count")) + 0 - 0
            /\ Cardinality(Standing("drained")') = Cardinality(Standing("drained")) + 1 - 0
        BY <2>3, <3>1 DEF Bit
      <3>3. Len(queue') = Len(queue) - 1
        BY <1>0, <1>5
      <3>4. QueueCapacity \in Int
        BY HandleTableAssumption
      <3> DEFINE c == Cardinality(Standing("count"))
                 d == Cardinality(Standing("drained"))
                 n == Len(queue)
      <3>5. /\ queued \in Nat /\ drains \in Nat /\ total \in Nat
            /\ c \in Nat /\ d \in Nat /\ n \in Nat
            /\ queued + c = drains + d + n + total /\ n <= QueueCapacity
        BY BookTypes DEF QueueInv
      <3>6. queued + c = drains + (d + 1 - 0) + (n - 1) + total /\ n - 1 <= QueueCapacity
        <4> HIDE DEF c, d, n
        <4> QED BY <3>4, <3>5
      <3>7. c + 0 - 0 = c
        BY <3>5
      <3> QED BY <1>1, <3>2, <3>3, <3>6, <3>7 DEF QueueInv
    <2> QED BY <1>1, <2>3, <2>4, <2>5, OwesSame DEF AccountsOn
  <1> QED BY <1>3, <1>4, <1>5 DEF DrainQueue

(* The oldest spilled name is one that has a release pending.              *)
LEMMA OldestSpilled ==
  ASSUME Accounts, order # << >>
  PROVE  Head(order) \in SpillNames
  <1>1. order \in Seq(Handle)
    BY BookTypes DEF TypeInv, TypeOK
  <1>2. 1 \in 1..Len(order) /\ order[1] = Head(order)
    BY <1>1
  <1> QED BY <1>2 DEF Accounts, SpillInv

(* Draining the spill: the release passes from the map to the thread.      *)
LEMMA DrainSpillBooks ==
  ASSUME Accounts, NEW t \in Threads, DrainSpill(t)
  PROVE  AccountsOn
  <1>0. job[t].at = "drainSpill" /\ job[t] \in Job /\ Loose(job[t])
    BY BookTypes DEF DrainSpill, TypeInv, TypeOK, Loose, Carriers
  <1>1. /\ nextID' = nextID /\ entries' = entries /\ held' = held
        /\ lost' = lost /\ queued' = queued /\ drains' = drains /\ queue' = queue
    BY DEF DrainSpill, countVars, ghostVars
  <1>2. CASE Becomes(t, Idle) /\ UNCHANGED <<spill, order, total>>
    <2>1. Loose(Idle)
      BY DEF Loose, Carriers, Idle
    <2>2. Beside
      BY <1>0, <1>1, <1>2, <2>1 DEF Beside, Live
    <2> QED BY <2>2, BesideBooks
  <1>3. CASE /\ order # << >> /\ total' = total - 1
             /\ spill' = [spill EXCEPT ![Head(order)] = @ - 1]
             /\ Becomes(t, [job[t] EXCEPT !.at = "drained", !.id = Head(order)])
    <2> PICK id \in Handle : id = Head(order)
      BY <1>3, OldestSpilled DEF SpillNames
    <2> DEFINE j == [job[t] EXCEPT !.at = "drained", !.id = id]
    <2>1. Becomes(t, j)
      BY <1>3
    <2>2. j.at = "drained" /\ j.id = id
      BY <1>0 DEF Job
    <2> HIDE DEF j
    <2>3. /\ IsFiniteSet(Active')
          /\ \A g : Cardinality(Carrying(g)') = Cardinality(Carrying(g))
                                    + Bit(Carries(j, g)) - Bit(Carries(job[t], g))
          /\ \A p : p # "idle" =>
               Cardinality(Standing(p)') = Cardinality(Standing(p))
                                    + Bit(j.at = p) - Bit(job[t].at = p)
      BY <2>1, BookTypes, ThreadsMove
    <2>4. \A g \in Handle : Owed(g)' = Owed(g)
      <3> TAKE g \in Handle
      <3>1. Cardinality(Carrying(g)') = Cardinality(Carrying(g)) + (IF g = id THEN 1 ELSE 0)
        BY <1>0, <2>2, <2>3, BookCounts DEF Bit, Carries, Carriers
      <3>2. spill'[g] = spill[g] + (IF g = id THEN -1 ELSE 0)
        <4>1. spill \in [Handle -> Int]
          BY BookTypes DEF TypeInv, TypeOK
        <4>2. spill' = [spill EXCEPT ![id] = spill[id] + (-1)]
          BY <1>3, <4>1
        <4> QED BY <4>1, <4>2, OneMoves
      <3>3. Owed(g)' = held[g] + (Cardinality(Named(queue, g)) + spill'[g]
                                  + Cardinality(Carrying(g)')) + lost[g]
        BY <1>1 DEF Owed
      <3> QED BY <3>1, <3>2, <3>3, BookCounts
    <2>5. QueueInv'
      <3>1. /\ ~(j.at = "count") /\ ~(job[t].at = "count")
            /\ j.at = "drained" /\ ~(job[t].at = "drained")
        BY <1>0, <2>2
      <3>2. /\ Cardinality(Standing("count")') = Cardinality(Standing("count")) + 0 - 0
            /\ Cardinality(Standing("drained")') = Cardinality(Standing("drained")) + 1 - 0
        BY <2>3, <3>1 DEF Bit
      <3> QED BY <1>1, <1>3, <3>2, BookTypes DEF QueueInv
    <2> QED BY <1>1, <2>3, <2>4, <2>5, OwesSame DEF AccountsOn
  <1> QED BY <1>2, <1>3 DEF DrainSpill

(* Counting what was drained; the thread keeps the release.                *)
LEMMA CountDrainBooks ==
  ASSUME Accounts, NEW t \in Threads, CountDrain(t)
  PROVE  AccountsOn
  <1> DEFINE j == [job[t] EXCEPT !.at = "release",
                                 !.left = IF @ = NoLimit THEN @ ELSE @ - 1]
  <1>0. job[t].at = "drained" /\ job[t] \in Job
    BY BookTypes DEF CountDrain, TypeInv, TypeOK
  <1>1. /\ nextID' = nextID /\ entries' = entries /\ spill' = spill /\ held' = held
        /\ lost' = lost /\ total' = total /\ queued' = queued /\ drains' = drains + 1
        /\ queue' = queue
    BY DEF CountDrain, tableVars, ghostVars
  <1>2. Becomes(t, j)
    BY DEF CountDrain
  <1>3. j.at = "release" /\ j.id = job[t].id
    BY <1>0 DEF Job
  <1> HIDE DEF j
  <1>4. /\ IsFiniteSet(Active')
        /\ \A g : Cardinality(Carrying(g)') = Cardinality(Carrying(g))
                                  + Bit(Carries(j, g)) - Bit(Carries(job[t], g))
        /\ \A p : p # "idle" =>
             Cardinality(Standing(p)') = Cardinality(Standing(p))
                                  + Bit(j.at = p) - Bit(job[t].at = p)
    BY <1>2, BookTypes, ThreadsMove
  <1>5. \A g \in Handle : Owed(g)' = Owed(g)
    <2> TAKE g \in Handle
    <2>1. Cardinality(Carrying(g)') = Cardinality(Carrying(g))
      BY <1>0, <1>3, <1>4, BookCounts DEF Bit, Carries, Carriers
    <2> QED BY <1>1, <2>1 DEF Owed
  <1>6. QueueInv'
    <2>1. /\ ~(j.at = "count") /\ ~(job[t].at = "count")
          /\ ~(j.at = "drained") /\ job[t].at = "drained"
      BY <1>0, <1>3
    <2>2. /\ Cardinality(Standing("count")') = Cardinality(Standing("count")) + 0 - 0
          /\ Cardinality(Standing("drained")') = Cardinality(Standing("drained")) + 0 - 1
      BY <1>4, <2>1 DEF Bit
    <2> QED BY <1>1, <2>2, BookTypes DEF QueueInv
  <1> QED BY <1>1, <1>4, <1>5, <1>6, OwesSame DEF AccountsOn

(* Applying a drained release: it is carried no more, the handle loses it. *)
LEMMA DrainReleaseBooks ==
  ASSUME Accounts, NEW t \in Threads, DrainRelease(t)
  PROVE  AccountsOn
  <1>0. job[t].at = "release"
    BY DEF DrainRelease
  <1> PICK id \in Handle : id = job[t].id
    BY <1>0, BookTypes DEF TypeInv, JobOK, JobFits, Busy
  <1>1. /\ nextID' = nextID /\ queue' = queue /\ spill' = spill /\ held' = held
        /\ lost' = lost /\ total' = total /\ queued' = queued /\ drains' = drains
    BY DEF DrainRelease, queueVars, ghostVars
  <1>2. /\ DOMAIN entries' \subseteq Live
        /\ \A g \in DOMAIN entries' :
             entries'[g].refs = entries[g].refs + (IF g = id THEN -1 ELSE 0)
        /\ \E j : Becomes(t, j) /\ Loose(j)
    BY DropOneBooks, BookTypes DEF DrainRelease
  <1> PICK j : Becomes(t, j) /\ Loose(j)
    BY <1>2
  <1>3. /\ IsFiniteSet(Active')
        /\ \A g : Cardinality(Carrying(g)') = Cardinality(Carrying(g))
                                  + Bit(Carries(j, g)) - Bit(Carries(job[t], g))
        /\ \A p : p # "idle" =>
             Cardinality(Standing(p)') = Cardinality(Standing(p))
                                  + Bit(j.at = p) - Bit(job[t].at = p)
    BY BookTypes, ThreadsMove
  <1>4. \A g \in Handle : Owed(g)' = Owed(g) + (IF g = id THEN -1 ELSE 0)
    <2> TAKE g \in Handle
    <2>1. Cardinality(Carrying(g)') = Cardinality(Carrying(g)) + (IF g = id THEN -1 ELSE 0)
      BY <1>0, <1>3, BookCounts DEF Bit, Carries, Carriers, Loose
    <2>2. Owed(g)' = held[g] + (Cardinality(Named(queue, g)) + spill[g]
                                + Cardinality(Carrying(g)')) + lost[g]
      BY <1>1 DEF Owed
    <2> QED BY <2>1, <2>2, BookCounts
  <1>5. id < nextID
    <2>1. t \in Carrying(id)
      BY <1>0 DEF Carrying, Carries, Carriers
    <2>2. Cardinality(Carrying(id)) # 0
      BY <2>1, FS_EmptySet, ThreadsFinite, BookTypes
    <2> DEFINE a == held[id]
               b == Cardinality(Named(queue, id))
               c == spill[id]
               d == Cardinality(Carrying(id))
               e == lost[id]
    <2>3. Owed(id) > 0
      <3>1. /\ a \in Nat /\ b \in Nat /\ c \in Nat /\ d \in Nat /\ e \in Nat
            /\ d # 0 /\ Owed(id) = a + (b + c + d) + e
        BY <2>2, BookCounts
      <3> HIDE DEF a, b, c, d, e
      <3> QED BY <3>1
    <2> QED BY <2>3, BookTypes DEF RefsInv
  <1>6. RefsInv'
    <2>1. TypeInv /\ Countable /\ RefsInv
      BY BookTypes
    <2> QED BY ONLY <1>1, <1>2, <1>4, <1>5, <2>1, OwesOn
  <1>7. QueueInv'
    <2>1. /\ ~(j.at = "count") /\ ~(job[t].at = "count")
          /\ ~(j.at = "drained") /\ ~(job[t].at = "drained")
      BY <1>0 DEF Loose, Carriers
    <2>2. /\ Cardinality(Standing("count")') = Cardinality(Standing("count")) + 0 - 0
          /\ Cardinality(Standing("drained")') = Cardinality(Standing("drained")) + 0 - 0
      BY <1>3, <2>1 DEF Bit
    <2> QED BY <1>1, <2>2, BookTypes DEF QueueInv
  <1> QED BY <1>3, <1>6, <1>7 DEF AccountsOn

(* The calls that are beside the books.                                    *)
LEMMA CallBooks ==
  ASSUME Accounts, NEW t \in Threads, Call(t)
  PROVE  AccountsOn
  <1>0. TypeInv /\ job[t] \in Job
    BY BookTypes DEF TypeInv, TypeOK
  <1>i. job[t].at = "idle" => Loose(job[t])
    BY DEF Loose, Carriers
  <1>1. ASSUME NEW s \in Scopes, Register(t, s) PROVE AccountsOn
    BY <1>1, RegisterBooks
  <1>2. ASSUME NEW id \in Handle, Retain(t, id) PROVE AccountsOn
    BY <1>2, RetainBooks
  <1>3. ASSUME NEW id \in Handle, Escape(t, id) PROVE AccountsOn
    <2>1. DOMAIN entries' = Live /\ \A h \in Live : entries'[h].refs = entries[h].refs
      BY <1>0, <1>3 DEF TypeInv, TypeOK, Entry, Live, Escape
    <2>2. Beside
      BY <1>3, <2>1 DEF Beside, Escape, queueVars, countVars, ghostVars
    <2> QED BY <2>2, BesideBooks
  <1>4. ASSUME NEW from \in Handle, NEW to \in Handle, RecordReference(t, from, to)
        PROVE AccountsOn
    <2>1. DOMAIN entries' = Live /\ \A h \in Live : entries'[h].refs = entries[h].refs
      BY <1>0, <1>4 DEF TypeInv, TypeOK, Entry, Live, RecordReference
    <2>2. Beside
      BY <1>4, <2>1 DEF Beside, RecordReference, queueVars, countVars, ghostVars
    <2> QED BY <2>2, BesideBooks
  <1>5. ASSUME NEW from \in Handle, NEW to \in Handle, DropReference(t, from, to)
        PROVE AccountsOn
    <2>1. DOMAIN entries' = Live /\ \A h \in Live : entries'[h].refs = entries[h].refs
      BY <1>0, <1>5 DEF TypeInv, TypeOK, Entry, Live, DropReference
    <2>2. Beside
      BY <1>5, <2>1 DEF Beside, DropReference, queueVars, countVars, ghostVars
    <2> QED BY <2>2, BesideBooks
  <1>6. ASSUME NEW id \in Handle, NEW cause, Release(t, id, cause) PROVE AccountsOn
    BY <1>6, ReleaseBooks
  <1>7. ASSUME NEW id \in Handle, ReleaseAllRefs(t, id) PROVE AccountsOn
    <2>1. /\ DOMAIN entries' \subseteq Live
          /\ \A g \in DOMAIN entries' : entries'[g].refs = entries[g].refs
          /\ \E j : Becomes(t, j) /\ Loose(j)
      BY <1>0, <1>7, DropAllBooks DEF ReleaseAllRefs
    <2>2. Beside
      BY <1>i, <1>7, <2>1 DEF Beside, ReleaseAllRefs, queueVars, ghostVars
    <2> QED BY <2>2, BesideBooks
  <1>8. ASSUME NEW id \in Handle, QueueRelease(t, id) PROVE AccountsOn
    BY <1>8, QueueReleaseBooks
  <1>9. ASSUME NEW max \in 0..MaxDrain, StartDrain(t, max) PROVE AccountsOn
    <2> DEFINE j == [job[t] EXCEPT !.at = "drain",
                                   !.left = IF max = 0 THEN NoLimit ELSE max]
    <2>1. j.at = "drain" /\ Becomes(t, j)
      BY <1>0, <1>9 DEF Job, StartDrain
    <2> HIDE DEF j
    <2>2. Loose(j)
      BY <2>1 DEF Loose, Carriers
    <2>3. Beside
      BY <1>i, <1>9, <2>1, <2>2 DEF Beside, StartDrain, tableVars, countVars, ghostVars, Live
    <2> QED BY <2>3, BesideBooks
  <1>10. ASSUME NEW ids, NEW scoped, StartSweep(t, ids, scoped) PROVE AccountsOn
    <2> DEFINE j == [job[t] EXCEPT !.at = "sweep", !.todo = ids, !.swept = ids,
                                   !.scoped = scoped]
    <2>1. j.at = "sweep" /\ Becomes(t, j)
      BY <1>0, <1>10 DEF Job, StartSweep
    <2> HIDE DEF j
    <2>2. Loose(j)
      BY <2>1 DEF Loose, Carriers
    <2>3. Beside
      BY <1>i, <1>10, <2>1, <2>2 DEF Beside, StartSweep, tableVars, countVars, ghostVars, Live
    <2> QED BY <2>3, BesideBooks
  <1>11. ASSUME NEW s \in Scopes, ReleaseScope(t, s) PROVE AccountsOn
    BY <1>10, <1>11 DEF ReleaseScope
  <1>12. ASSUME ReleaseAll(t) PROVE AccountsOn
    BY <1>10, <1>12 DEF ReleaseAll
  <1> QED BY <1>1, <1>2, <1>3, <1>4, <1>5, <1>6, <1>7, <1>8, <1>9, <1>11, <1>12
       DEF Call

(* The later steps that are beside the books.                              *)
LEMMA ContinueBooks ==
  ASSUME Accounts, NEW t \in Threads, Continue(t)
  PROVE  AccountsOn
  <1>0. TypeInv /\ job[t] \in Job /\ job[t].then \in {"idle", "drain", "sweep"}
    BY BookTypes DEF TypeInv, TypeOK, Job
  <1>i. job[t].at \in {"callback", "sweep"} => Loose(job[t])
    BY DEF Loose, Carriers
  <1>1. ASSUME Callback(t) PROVE AccountsOn
    <2>1. \E j : Becomes(t, j) /\ Loose(j)
      BY <1>0, <1>1, GoOnLoose DEF Callback
    <2>2. Beside
      BY <1>i, <1>1, <2>1 DEF Beside, Callback, tableVars, countVars, Live
    <2> QED BY <2>2, BesideBooks
  <1>2. ASSUME Sweep(t) PROVE AccountsOn
    <2>1. PICK id \in job[t].todo : DropAll(t, id, "scope", "sweep")
      BY <1>2 DEF Sweep
    <2>2. /\ DOMAIN entries' \subseteq Live
          /\ \A g \in DOMAIN entries' : entries'[g].refs = entries[g].refs
          /\ \E j : Becomes(t, j) /\ Loose(j)
      BY <1>0, <2>1, DropAllBooks
    <2>3. Beside
      BY <1>i, <1>2, <2>2 DEF Beside, Sweep, queueVars, ghostVars
    <2> QED BY <2>3, BesideBooks
  <1>3. ASSUME EndSweep(t) PROVE AccountsOn
    <2>1. Loose(Idle)
      BY DEF Loose, Carriers, Idle
    <2>2. Beside
      BY <1>i, <1>3, <2>1 DEF Beside, EndSweep, tableVars, countVars, ghostVars, Live
    <2> QED BY <2>2, BesideBooks
  <1> QED BY <1>1, <1>2, <1>3, SendBooks, CountQueuedBooks, SpillBooks, DrainQueueBooks,
             DrainSpillBooks, CountDrainBooks, DrainReleaseBooks DEF Continue

----------------------------------------------------------------------------
(* The spill: one name more or less, one release more or less.             *)

(* The names of the spill are few.                                         *)
LEMMA NamesFinite == IsFiniteSet(SpillNames) /\ Cardinality(SpillNames) \in Nat
  <1>1. IsFiniteSet(Handle)
    BY HandleTableAssumption, FS_Interval DEF Handle
  <1>2. SpillNames \in SUBSET Handle
    BY DEF SpillNames
  <1> QED BY <1>1, <1>2, FS_Subset, FS_CardinalityType

(* Spilling one release of id, under a name that has its place or gets the *)
(* last one.                                                               *)
LEMMA SpillPush ==
  ASSUME TypeInv, SpillInv, NEW id \in Handle, ~SpillFull(id),
         order' = (IF spill[id] = 0 THEN Append(order, id) ELSE order),
         spill' = [spill EXCEPT ![id] = @ + 1], total' = total + 1
  PROVE  SpillInv'
  <1>0. /\ spill \in [Handle -> Int] /\ order \in Seq(Handle)
        /\ spill[id] \in Nat /\ \A h \in Handle : spill[h] \in Nat
    BY DEF TypeInv, TypeOK, SpillInv
  <1>1. spill'[id] = spill[id] + 1 /\ \A h \in Handle : h # id => spill'[h] = spill[h]
    BY <1>0
  <1>2. \A h \in Handle : spill'[h] >= 0
    BY <1>0, <1>1
  <1>3. SpillNames' = SpillNames \cup {id}
    BY <1>0, <1>1 DEF SpillNames
  <1>4. IsFiniteSet(Pending') /\ total' = Cardinality(Pending')
    <2> DEFINE x == <<id, spill[id] + 1>>
    <2>1. \A y : y # x => (y \in Pending' <=> y \in Pending)
      <3>1. ASSUME NEW h \in Handle, NEW k \in Nat, <<h, k>> # x
            PROVE  k \in 1..spill'[h] <=> k \in 1..spill[h]
        <4>1. CASE h # id
          BY <1>1, <4>1
        <4>2. CASE h = id
          <5>1. k # spill[id] + 1
            BY <3>1, <4>2
          <5> QED BY <1>0, <1>1, <4>2, <5>1
        <4> QED BY <4>1, <4>2
      <3>2. ASSUME NEW y \in Handle \X Nat, y # x
            PROVE  y[2] \in 1..spill'[y[1]] <=> y[2] \in 1..spill[y[1]]
        <4>1. y[1] \in Handle /\ y[2] \in Nat /\ y = <<y[1], y[2]>>
          BY <3>2
        <4>2. <<y[1], y[2]>> # x
          BY <3>2, <4>1
        <4> HIDE DEF x
        <4> QED BY <3>1, <4>1, <4>2
      <3> QED BY <3>2 DEF Pending
    <2>2. x \in Pending' /\ x \notin Pending
      BY <1>0, <1>1 DEF Pending
    <2> HIDE DEF x
    <2>3. IsFiniteSet(Pending) /\ total = Cardinality(Pending)
      BY DEF SpillInv
    <2>4. /\ IsFiniteSet(Pending') /\ Cardinality(Pending) \in Nat
          /\ Cardinality(Pending') = Cardinality(Pending) + Bit(x \in Pending') - Bit(x \in Pending)
      BY <2>1, <2>3, CountMove
    <2> QED BY <2>2, <2>3, <2>4 DEF Bit
  <1>5. CASE spill[id] # 0
    <2>1. SpillNames' = SpillNames /\ order' = order
      BY <1>0, <1>3, <1>5 DEF SpillNames
    <2> QED BY <1>2, <1>4, <2>1 DEF SpillInv
  <1>6. CASE spill[id] = 0
    <2>1. id \notin SpillNames /\ order' = Append(order, id)
      BY <1>0, <1>6 DEF SpillNames
    <2>2. /\ Len(order) \in Nat /\ Len(order') = Len(order) + 1
          /\ order'[Len(order) + 1] = id
          /\ \A i \in 1..Len(order) : order'[i] = order[i]
      BY <1>0, <2>1
    <2>3. \A i \in 1..Len(order) : order[i] # id /\ order[i] \in SpillNames
      BY <2>1 DEF SpillInv
    <2>4. \A i, k \in 1..Len(order') : order'[i] = order'[k] => i = k
      <3>1. \A i \in 1..Len(order') : i = Len(order) + 1 \/ i \in 1..Len(order)
        BY <2>2
      <3>2. \A i, k \in 1..Len(order) : order[i] = order[k] => i = k
        BY DEF SpillInv
      <3> QED BY <2>2, <2>3, <3>1, <3>2
    <2>5. {order'[i] : i \in 1..Len(order')} = SpillNames'
      <3>1. \A h \in SpillNames' : \E i \in 1..Len(order') : order'[i] = h
        <4> TAKE h \in SpillNames'
        <4>1. CASE h = id
          BY <2>2, <4>1
        <4>2. CASE h \in SpillNames
          <5>1. PICK i \in 1..Len(order) : order[i] = h
            BY <4>2 DEF SpillInv
          <5>2. i \in 1..Len(order') /\ order'[i] = h
            BY <2>2, <5>1
          <5> QED BY <5>2
        <4> QED BY <1>3, <4>1, <4>2
      <3>2. \A i \in 1..Len(order') : order'[i] \in SpillNames'
        <4>1. \A i \in 1..Len(order') : i = Len(order) + 1 \/ i \in 1..Len(order)
          BY <2>2
        <4> QED BY <1>3, <2>2, <2>3, <4>1
      <3> QED BY <3>1, <3>2
    <2>6. Cardinality(SpillNames') = Cardinality(SpillNames) + 1
      BY <1>3, <2>1, NamesFinite, FS_AddElement
    <2>7. /\ Len(order') = Cardinality(SpillNames') /\ Cardinality(SpillNames') <= SpillLimit
      BY HandleTableAssumption, <1>6, <2>2, <2>6, NamesFinite DEF SpillInv, SpillFull
    <2> QED BY <1>2, <1>4, <2>4, <2>5, <2>7 DEF SpillInv
  <1> QED BY <1>5, <1>6

(* Draining one release of the oldest name, which leaves with its last.    *)
LEMMA SpillPop ==
  ASSUME TypeInv, SpillInv, NEW id \in Handle, order # << >>, id = Head(order),
         order' = (IF spill[id] <= 1 THEN Tail(order) ELSE order),
         spill' = [spill EXCEPT ![id] = @ - 1], total' = total - 1
  PROVE  SpillInv'
  <1>0. /\ spill \in [Handle -> Int] /\ order \in Seq(Handle)
        /\ \A h \in Handle : spill[h] \in Nat
    BY DEF TypeInv, TypeOK, SpillInv
  <1>1. /\ Len(order) \in Nat /\ Len(order) > 0 /\ order[1] = id
        /\ Len(Tail(order)) = Len(order) - 1
        /\ \A i \in 1..(Len(order) - 1) : Tail(order)[i] = order[i + 1]
    BY <1>0
  <1>2. id \in SpillNames /\ spill[id] \in Nat /\ spill[id] > 0
    <2>1. 1 \in 1..Len(order)
      BY <1>1
    <2> QED BY <1>0, <1>1, <2>1 DEF SpillInv, SpillNames
  <1>3. spill'[id] = spill[id] - 1 /\ \A h \in Handle : h # id => spill'[h] = spill[h]
    BY <1>0
  <1>4. \A h \in Handle : spill'[h] >= 0
    BY <1>0, <1>2, <1>3
  <1>5. IsFiniteSet(Pending') /\ total' = Cardinality(Pending')
    <2> DEFINE x == <<id, spill[id]>>
    <2>1. \A y : y # x => (y \in Pending' <=> y \in Pending)
      <3>1. ASSUME NEW h \in Handle, NEW k \in Nat, <<h, k>> # x
            PROVE  k \in 1..spill'[h] <=> k \in 1..spill[h]
        <4>1. CASE h # id
          BY <1>3, <4>1
        <4>2. CASE h = id
          <5>1. k # spill[id]
            BY <3>1, <4>2
          <5> QED BY <1>2, <1>3, <4>2, <5>1
        <4> QED BY <4>1, <4>2
      <3>2. ASSUME NEW y \in Handle \X Nat, y # x
            PROVE  y[2] \in 1..spill'[y[1]] <=> y[2] \in 1..spill[y[1]]
        <4>1. y[1] \in Handle /\ y[2] \in Nat /\ y = <<y[1], y[2]>>
          BY <3>2
        <4>2. <<y[1], y[2]>> # x
          BY <3>2, <4>1
        <4> HIDE DEF x
        <4> QED BY <3>1, <4>1, <4>2
      <3> QED BY <3>2 DEF Pending
    <2>2. x \notin Pending' /\ x \in Pending
      BY <1>2, <1>3 DEF Pending
    <2> HIDE DEF x
    <2>3. IsFiniteSet(Pending) /\ total = Cardinality(Pending)
      BY DEF SpillInv
    <2>4. /\ IsFiniteSet(Pending') /\ Cardinality(Pending) \in Nat
          /\ Cardinality(Pending') = Cardinality(Pending) + Bit(x \in Pending') - Bit(x \in Pending)
      BY <2>1, <2>3, CountMove
    <2> QED BY <2>2, <2>3, <2>4 DEF Bit
  <1>6. CASE spill[id] > 1
    <2>1. SpillNames' = SpillNames
      BY <1>0, <1>2, <1>3, <1>6 DEF SpillNames
    <2>2. order' = order
      BY <1>2, <1>6
    <2> QED BY <1>4, <1>5, <2>1, <2>2 DEF SpillInv
  <1>7. CASE spill[id] <= 1
    <2>1. SpillNames' = SpillNames \ {id} /\ order' = Tail(order)
      BY <1>0, <1>2, <1>3, <1>7 DEF SpillNames
    <2>2. Len(order') = Len(order) - 1
      BY <1>1, <2>1
    <2> PICK n \in Nat : n = Len(order) /\ Len(order') = n - 1
      BY <1>1, <2>2
    <2>3. \A i \in 1..Len(order') : i + 1 \in 1..Len(order) /\ order'[i] = order[i + 1]
      <3>1. \A i \in 1..(n - 1) : i + 1 \in 1..n
        OBVIOUS
      <3>2. \A i \in 1..(n - 1) : order'[i] = order[i + 1]
        BY <1>1, <2>1
      <3> QED BY <3>1, <3>2
    <2>4. \A i, k \in 1..Len(order) : order[i] = order[k] => i = k
      BY DEF SpillInv
    <2>5. \A i, k \in 1..Len(order') : order'[i] = order'[k] => i = k
      <3> TAKE i, k \in 1..Len(order')
      <3> HAVE order'[i] = order'[k]
      <3>1. i + 1 = k + 1
        BY <2>3, <2>4
      <3> QED BY <3>1
    <2>6. {order'[i] : i \in 1..Len(order')} = SpillNames'
      <3>1. \A h \in SpillNames' : \E i \in 1..Len(order') : order'[i] = h
        <4> TAKE h \in SpillNames'
        <4>1. PICK k \in 1..Len(order) : order[k] = h
          BY <2>1 DEF SpillInv
        <4>2. k # 1
          BY <1>1, <2>1, <4>1
        <4>3. k - 1 \in 1..Len(order') /\ (k - 1) + 1 = k
          <5>1. k \in 1..n
            BY <4>1
          <5>2. k - 1 \in 1..(n - 1) /\ (k - 1) + 1 = k
            BY ONLY <4>2, <5>1, n \in Nat
          <5> QED BY <5>2
        <4> QED BY <2>3, <4>1, <4>3
      <3>2. \A i \in 1..Len(order') : order'[i] \in SpillNames'
        <4> TAKE i \in 1..Len(order')
        <4>1. order'[i] = order[i + 1] /\ i + 1 \in 1..Len(order) /\ 1 \in 1..Len(order)
          BY <1>1, <2>3
        <4>2. order[i + 1] # id
          <5>1. i + 1 # 1
            OBVIOUS
          <5> QED BY <1>1, <2>4, <4>1, <5>1
        <4>3. order[i + 1] \in SpillNames
          BY <4>1 DEF SpillInv
        <4> QED BY <2>1, <4>1, <4>2, <4>3
      <3> QED BY <3>1, <3>2
    <2>7. Cardinality(SpillNames') = Cardinality(SpillNames) - 1
      BY <1>2, <2>1, NamesFinite, FS_RemoveElement
    <2>8. Len(order') = Cardinality(SpillNames') /\ Cardinality(SpillNames') <= SpillLimit
      BY HandleTableAssumption, <2>2, <2>7, NamesFinite DEF SpillInv
    <2> QED BY <1>4, <1>5, <2>5, <2>6, <2>8 DEF SpillInv
  <1>8. spill[id] > 1 \/ spill[id] <= 1
    BY <1>2
  <1> QED BY <1>6, <1>7, <1>8

(* A step leaves the spill alone, or pushes or pops one release.           *)
LEMMA SpillStep ==
  ASSUME Accounts, [Next]_vars
  PROVE  SpillInv'
  <1>1. ASSUME spill' = spill, order' = order, total' = total PROVE SpillInv'
    <2>1. SpillNames' = SpillNames /\ Pending' = Pending
      BY <1>1 DEF SpillNames, Pending
    <2> QED BY <1>1, <2>1 DEF Accounts, SpillInv
  <1>2. ASSUME NEW t \in Threads, Call(t) PROVE SpillInv'
    <2>1. spill' = spill /\ order' = order /\ total' = total
      <3>1. ASSUME NEW s \in Scopes, Register(t, s) \/ ReleaseScope(t, s)
            PROVE  spill' = spill /\ order' = order /\ total' = total
        BY <3>1 DEF Register, ReleaseScope, StartSweep, queueVars, tableVars
      <3>2. ASSUME NEW id \in Handle, \/ Retain(t, id) \/ Escape(t, id)
                                      \/ ReleaseAllRefs(t, id) \/ QueueRelease(t, id)
            PROVE  spill' = spill /\ order' = order /\ total' = total
        BY <3>2 DEF Retain, Escape, ReleaseAllRefs, QueueRelease, queueVars, tableVars
      <3>3. ASSUME NEW id \in Handle, NEW cause, Release(t, id, cause)
            PROVE  spill' = spill /\ order' = order /\ total' = total
        BY <3>3 DEF Release, queueVars
      <3>4. ASSUME NEW from \in Handle, NEW to \in Handle,
                   RecordReference(t, from, to) \/ DropReference(t, from, to)
            PROVE  spill' = spill /\ order' = order /\ total' = total
        BY <3>4 DEF RecordReference, DropReference, queueVars
      <3>5. ASSUME NEW max, StartDrain(t, max)
            PROVE  spill' = spill /\ order' = order /\ total' = total
        BY <3>5 DEF StartDrain, tableVars
      <3>6. ASSUME ReleaseAll(t)
            PROVE  spill' = spill /\ order' = order /\ total' = total
        BY <3>6 DEF ReleaseAll, StartSweep, tableVars
      <3> QED BY <1>2, <3>1, <3>2, <3>3, <3>4, <3>5, <3>6 DEF Call
    <2> QED BY <1>1, <2>1
  <1>3. ASSUME NEW t \in Threads, Continue(t) PROVE SpillInv'
    <2>1. CASE Spill(t)
      <3>1. job[t].id \in Handle
        BY <2>1, BookTypes DEF Spill, TypeInv, JobOK, JobFits, Busy
      <3>2. CASE SpillFull(job[t].id)
        BY <1>1, <2>1, <3>2 DEF Spill
      <3>3. CASE ~SpillFull(job[t].id)
        <4> PICK id \in Handle : id = job[t].id
          BY <3>1
        <4>1. /\ order' = (IF spill[id] = 0 THEN Append(order, id) ELSE order)
              /\ spill' = [spill EXCEPT ![id] = @ + 1] /\ total' = total + 1
          BY <2>1, <3>3 DEF Spill
        <4> QED BY <3>3, <4>1, SpillPush DEF Accounts
      <3> QED BY <3>2, <3>3
    <2>2. CASE DrainSpill(t)
      <3>1. CASE UNCHANGED <<spill, order, total>>
        BY <1>1, <3>1
      <3>2. CASE /\ order # << >> /\ total' = total - 1
                 /\ spill' = [spill EXCEPT ![Head(order)] = @ - 1]
                 /\ order' = IF spill[Head(order)] <= 1 THEN Tail(order) ELSE order
        <4> PICK id \in Handle : id = Head(order)
          BY <3>2, OldestSpilled DEF SpillNames
        <4> QED BY <3>2, SpillPop DEF Accounts
      <3> QED BY <2>2, <3>1, <3>2 DEF DrainSpill
    <2>3. CASE Callback(t) \/ Send(t) \/ CountQueued(t) \/ DrainQueue(t)
      BY <1>1, <2>3 DEF Callback, Send, CountQueued, DrainQueue, tableVars
    <2>4. CASE CountDrain(t) \/ DrainRelease(t) \/ Sweep(t) \/ EndSweep(t)
      BY <1>1, <2>4 DEF CountDrain, DrainRelease, Sweep, EndSweep, tableVars, queueVars
    <2> QED BY <1>3, <2>1, <2>2, <2>3, <2>4 DEF Continue
  <1>4. CASE UNCHANGED vars
    BY <1>1, <1>4 DEF vars, tableVars
  <1> QED BY <1>2, <1>3, <1>4 DEF Next

(* Every handle handed out is live or was released under one cause.        *)
LEMMA ReleasesStep ==
  ASSUME TypeInv, LifeInv, ReleasesAccounted, KnownStep
  PROVE  ReleasesAccounted'
  <1>1. /\ released \in [Cause -> Nat] /\ nextID \in Int
        /\ \A h \in Live : h \in Handle
        /\ released["explicit"] \in Nat /\ released["finalizer"] \in Nat
        /\ released["scope"] \in Nat
    BY HandleTableAssumption DEF TypeInv, TypeOK, Cause
  <1>2. IsFiniteSet(Live) /\ Cardinality(Live) \in Nat
    <2>1. IsFiniteSet(Handle)
      BY HandleTableAssumption, FS_Interval DEF Handle
    <2>2. Live \in SUBSET Handle
      BY <1>1
    <2> QED BY <2>1, <2>2, FS_Subset, FS_CardinalityType
  <1>3. CASE Quiet
    BY <1>3 DEF Quiet, ReleasesAccounted, Live
  <1>4. CASE Registration
    <2>1. nextID \notin Live /\ Live' = Live \cup {nextID}
      BY <1>1, <1>4 DEF Registration, LifeInv, Live
    <2>2. Cardinality(Live') = Cardinality(Live) + 1
      BY <1>2, <2>1, FS_AddElement
    <2> QED BY <1>1, <1>2, <1>4, <2>2 DEF Registration, ReleasesAccounted
  <1>5. ASSUME NEW t \in Threads, CallbackRun(t) PROVE ReleasesAccounted'
    BY <1>5 DEF CallbackRun, ReleasesAccounted, Live
  <1>6. ASSUME NEW t \in Threads, NEW id \in Handle, Removal(t, id) PROVE ReleasesAccounted'
    <2>1. id \in Live /\ Live' = Live \ {id} /\ nextID' = nextID
      BY <1>6 DEF Removal, Without, Live
    <2>2. Cardinality(Live') = Cardinality(Live) - 1
      BY <1>2, <2>1, FS_RemoveElement
    <2>3. PICK cause \in Cause : released' = [released EXCEPT ![cause] = @ + 1]
      BY <1>6 DEF Removal
    <2>4. released'["explicit"] + released'["finalizer"] + released'["scope"]
            = released["explicit"] + released["finalizer"] + released["scope"] + 1
      <3>1. /\ released'[cause] = released[cause] + 1
            /\ \A c \in Cause : c # cause => released'[c] = released[c]
        BY <1>1, <2>3
      <3> QED BY <1>1, <3>1 DEF Cause
    <2>5. \A c \in Cause : released'[c] \in Int
      BY <1>1, <2>3
    <2> QED BY <1>1, <1>2, <2>1, <2>2, <2>4, <2>5 DEF ReleasesAccounted, Cause
  <1> QED BY <1>3, <1>4, <1>5, <1>6 DEF KnownStep

(* The books balance in an empty table.                                    *)
LEMMA BooksInit ==
  Init => IsFiniteSet(Active) /\ SpillInv /\ RefsInv /\ QueueInv /\ ReleasesAccounted
  <1> SUFFICES ASSUME Init
               PROVE  IsFiniteSet(Active) /\ SpillInv /\ RefsInv /\ QueueInv /\ ReleasesAccounted
    OBVIOUS
  <1>1. /\ Active = {} /\ Standing("count") = {} /\ Standing("drained") = {}
        /\ \A g : Carrying(g) = {}
    BY DEF Init, Active, Standing, Carrying, Carries, Carriers, Idle
  <1>2. /\ queue = << >> /\ order = << >> /\ total = 0 /\ queued = 0 /\ drains = 0
        /\ nextID = 1 /\ Live = {} /\ \A h \in Handle : spill[h] = 0
        /\ \A h \in Handle : held[h] = 0 /\ lost[h] = 0
        /\ released = [c \in Cause |-> 0]
    BY DEF Init, Live
  <1>3. IsFiniteSet({}) /\ Cardinality({}) = 0
    BY FS_EmptySet
  <1>4. SpillNames = {} /\ Pending = {}
    BY <1>2 DEF SpillNames, Pending
  <1>5. Len(order) = 0 /\ 1..Len(order) = {} /\ Len(queue) = 0 /\ 1..Len(queue) = {}
    BY <1>2
  <1>6. SpillInv
    <2>1. {order[i] : i \in 1..Len(order)} = SpillNames
      BY <1>4, <1>5
    <2> QED BY HandleTableAssumption, <1>2, <1>3, <1>4, <1>5, <2>1 DEF SpillInv
  <1>7. \A g \in Handle : Owed(g) = 0
    <2> TAKE g \in Handle
    <2>1. Named(queue, g) = {}
      BY <1>5 DEF Named
    <2>2. /\ Cardinality(Named(queue, g)) = 0 /\ Cardinality(Carrying(g)) = 0
          /\ held[g] = 0 /\ lost[g] = 0 /\ spill[g] = 0
      BY <1>1, <1>2, <1>3, <2>1
    <2> QED BY <2>2 DEF Owed
  <1>8. QueueInv
    <2>1. Cardinality(Standing("count")) = 0 /\ Cardinality(Standing("drained")) = 0
      BY <1>1, <1>3
    <2> QED BY HandleTableAssumption, <1>2, <1>5, <2>1 DEF QueueInv
  <1>9. ReleasesAccounted
    BY <1>2, <1>3 DEF ReleasesAccounted, Cause
  <1> QED BY <1>1, <1>2, <1>3, <1>6, <1>7, <1>8, <1>9 DEF RefsInv

(* The inductive invariant behind the books.                               *)
BooksInv == IsFiniteSet(Active) /\ SpillInv /\ RefsInv /\ QueueInv /\ ReleasesAccounted

(* Every step keeps the books.                                             *)
LEMMA BooksStep == TypeInv /\ LifeInv /\ BooksInv /\ [Next]_vars => BooksInv'
  <1> SUFFICES ASSUME TypeInv, LifeInv, BooksInv, [Next]_vars PROVE BooksInv'
    OBVIOUS
  <1>1. Accounts
    BY DEF Accounts, BooksInv
  <1>2. ReleasesAccounted'
    BY StepKind, ReleasesStep DEF BooksInv
  <1>3. CASE UNCHANGED vars
    <2>1. Beside
      BY <1>3 DEF vars, tableVars, countVars, ghostVars, Beside, Live
    <2> QED BY <1>1, <1>2, <2>1, BesideBooks, SpillStep DEF BooksInv, AccountsOn
  <1>4. CASE Next
    <2>1. AccountsOn
      BY <1>1, <1>4, CallBooks, ContinueBooks DEF Next
    <2> QED BY <1>1, <1>2, <2>1, SpillStep DEF BooksInv, AccountsOn
  <1> QED BY <1>3, <1>4

(* What the invariant says in the words of the property.                   *)
LEMMA BooksMeaning == TypeInv /\ LifeInv /\ BooksInv /\ EdgesAreLive => BooksBalance
  <1> SUFFICES ASSUME TypeInv, LifeInv, BooksInv, EdgesAreLive PROVE BooksBalance
    OBVIOUS
  <1>1. ReferencesConserved
    <2>1. \A id : InFlight(id) = Cardinality(Named(queue, id)) + spill[id]
                                 + Cardinality(Carrying(id))
      BY DEF InFlight, Named, Carrying, Carries, Carriers
    <2> QED BY <2>1 DEF BooksInv, RefsInv, ReferencesConserved, Owed
  <1>2. QueueAccounted
    <2>1. (order = << >>) = (total = 0)
      <3>1. order = << >> <=> SpillNames = {}
        <4>1. order \in Seq(Handle)
          BY DEF TypeInv, TypeOK
        <4>2. order = << >> <=> Len(order) = 0
          BY <4>1
        <4> QED BY <4>2, NamesFinite, FS_EmptySet DEF BooksInv, SpillInv
      <3>2. SpillNames = {} <=> Pending = {}
        <4>1. \A h \in Handle : spill[h] \in Int
          BY DEF TypeInv, TypeOK
        <4>2. ASSUME SpillNames = {} PROVE Pending = {}
          BY <4>1, <4>2 DEF SpillNames, Pending
        <4>3. ASSUME NEW h \in SpillNames PROVE Pending # {}
          <5>1. h \in Handle /\ 1 \in 1..spill[h]
            BY <4>1 DEF SpillNames
          <5>2. <<h, 1>> \in Pending
            BY <5>1 DEF Pending
          <5> QED BY <5>2
        <4> QED BY <4>2, <4>3
      <3>3. total = 0 <=> Pending = {}
        BY FS_EmptySet DEF BooksInv, SpillInv
      <3> QED BY <3>1, <3>2, <3>3
    <2>2. At("count") = Cardinality(Standing("count"))
          /\ At("drained") = Cardinality(Standing("drained"))
      BY DEF At, Standing
    <2> QED BY <2>1, <2>2 DEF BooksInv, SpillInv, QueueInv, QueueAccounted
  <1> QED BY <1>1, <1>2 DEF BooksInv, BooksBalance

(* The table's books always balance: no strong reference, no finalizer     *)
(* release and no cause of release is lost or counted twice, whatever the  *)
(* threads do between two holdings of the lock, with a queue and a spill   *)
(* of any size.                                                            *)
THEOREM BooksAlwaysBalance == Spec => []BooksBalance
  <1>1. Init => BooksInv
    BY BooksInit DEF BooksInv
  <1> QED BY <1>1, BooksStep, BooksMeaning, EdgesStayLive, TypeInvariant, LifeInvariant, PTL DEF Spec

----------------------------------------------------------------------------
(* A step moves one handle to a new stage when it leaves the others alone. *)
LEMMA StageMoves ==
  ASSUME NEW h \in Handle, NEW new, Stage'[h] = new,
         \A g \in Handle : g # h => Stage'[g] = Stage[g]
  PROVE  Stage' = [Stage EXCEPT ![h] = new]
  BY DEF Stage

(* Every step of the table is a step of one handle's lifetime, or none.    *)
THEOREM RefinesLifetime == Spec => ImplementsLifetime
  <1>1. Init => Lifetime!Init
    BY HandleTableAssumption DEF Init, Lifetime!Init, Stage, Handle
  <1>2. TypeInv /\ LifeInv /\ [Next]_vars => [Lifetime!Next]_Stage
    <2> SUFFICES ASSUME TypeInv, LifeInv, KnownStep
                 PROVE  Lifetime!Next \/ Stage' = Stage
      BY StepKind
    <2>0. /\ Live \subseteq Handle /\ nextID \in Nat
          /\ Handle \subseteq Nat /\ calls \in [Handle -> Nat]
      <3>1. /\ Live \subseteq Handle /\ nextID \in 1..(MaxHandles + 1)
            /\ calls \in [Handle -> Nat]
        BY DEF TypeInv, TypeOK
      <3>2. nextID \in Nat /\ Handle \subseteq Nat
        BY <3>1, HandleTableAssumption DEF Handle
      <3> QED BY <3>1, <3>2
    <2>1. CASE Quiet
      BY <2>1 DEF Quiet, Stage, Live
    <2>2. CASE Registration
      <3>1. Lifetime!Open(nextID)
        <4>1. nextID \in Handle /\ Stage[nextID] = "unborn" /\ Stage'[nextID] = "live"
          BY <2>0, <2>2 DEF Registration, Stage, Live
        <4>2. \A g \in Handle : g < nextID => Stage[g] # "unborn"
          BY <2>0 DEF Stage
        <4>3. \A g \in Handle : g # nextID => Stage'[g] = Stage[g]
          <5>1. /\ calls' = calls /\ Live' = Live \cup {nextID}
                /\ nextID' = nextID + 1
            BY <2>2 DEF Registration, Live
          <5>2. \A g \in Handle : g # nextID => (g >= nextID' <=> g >= nextID)
            BY <2>0, <5>1
          <5> QED BY <5>1, <5>2 DEF Stage
        <4> QED BY <4>1, <4>2, <4>3, StageMoves DEF Lifetime!Open
      <3> QED BY <2>2, <3>1 DEF Lifetime!Next, Registration
    <2>3. ASSUME NEW t \in Threads, CallbackRun(t) PROVE Lifetime!Next
      <3>1. Lifetime!FinishRelease(job[t].id)
        <4> DEFINE h == job[t].id
        <4>1. h \in Handle /\ h < nextID /\ h \notin Live /\ calls[h] = 0
          BY <2>3 DEF CallbackRun, LifeInv
        <4>2. nextID' = nextID /\ Live' = Live /\ calls' = [calls EXCEPT ![h] = @ + 1]
          BY <2>3 DEF CallbackRun, Live
        <4> HIDE DEF h
        <4>3. calls'[h] = 1 /\ \A g \in Handle : g # h => calls'[g] = calls[g]
          BY <2>0, <4>1, <4>2
        <4>4. Stage[h] = "releasing" /\ Stage'[h] = "released"
          BY <2>0, <4>1, <4>2, <4>3 DEF Stage
        <4>5. \A g \in Handle : g # h => Stage'[g] = Stage[g]
          BY <4>2, <4>3 DEF Stage
        <4> QED BY <4>1, <4>4, <4>5, StageMoves DEF Lifetime!FinishRelease, h
      <3> QED BY <2>3, <3>1 DEF Lifetime!Next, CallbackRun
    <2>4. ASSUME NEW t \in Threads, NEW id \in Handle, Removal(t, id) PROVE Lifetime!Next
      <3>1. DOMAIN entries' = Live \ {id}
        BY <2>4 DEF Removal, Without
      <3>2. Lifetime!BeginRelease(id)
        <4>1. /\ id \in Live /\ id < nextID /\ calls[id] = 0
              /\ nextID' = nextID /\ calls' = calls /\ Live' = Live \ {id}
          BY <2>0, <2>4, <3>1 DEF Removal, LifeInv, Live
        <4>2. Stage[id] = "live" /\ Stage'[id] = "releasing"
          BY <2>0, <4>1 DEF Stage
        <4>3. \A g \in Handle : g # id => Stage'[g] = Stage[g]
          BY <4>1 DEF Stage
        <4> QED BY <4>2, <4>3, StageMoves DEF Lifetime!BeginRelease
      <3> QED BY <3>2 DEF Lifetime!Next
    <2> QED BY <2>1, <2>2, <2>3, <2>4 DEF KnownStep
  <1> QED BY <1>1, <1>2, TypeInvariant, LifeInvariant, PTL
         DEF Spec, Lifetime!Spec, ImplementsLifetime
=============================================================================
