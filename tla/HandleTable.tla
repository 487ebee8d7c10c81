---------------------------- MODULE HandleTable ----------------------------
(***************************************************************************)
(* The table of cross-runtime object handles, pkg/handles/table.go.        *)
(*                                                                         *)
(* Threads call the methods of one Table.  Everything a method does under  *)
(* one holding of t.mu is one step here; where a method unlocks between    *)
(* two critical sections, or calls a release callback outside the lock,    *)
(* the thread stops at a place of its own and the others may run.          *)
(*                                                                         *)
(* held, calls and lost are history variables: who owns a strong           *)
(* reference, how often a callback ran, and how many finalizer releases    *)
(* the full queue refused.  No step reads them except as what a            *)
(* well-behaved client knows (it gives up only references it owns).        *)
(***************************************************************************)
EXTENDS Integers, Sequences, FiniteSets

CONSTANTS
  Threads,        (* goroutines and host threads that call the table         *)
  Scopes,         (* lifetime scopes                                         *)
  MaxHandles,     (* bound: handles ever registered                          *)
  MaxRefs,        (* bound: strong references of one handle                  *)
  MaxEdges,       (* bound: reference edges out of one handle                *)
  MaxDrain,       (* bound: largest positive max of a drain                  *)
  MaxQueued,      (* bound: finalizer releases ever queued or refused        *)
  QueueCapacity,  (* finalizerQueueCapacity                                  *)
  SpillLimit      (* finalizerSpillHandleLimit                               *)

ASSUME HandleTableAssumption ==
  /\ MaxHandles \in Nat /\ MaxRefs \in Nat \ {0}
  /\ MaxEdges \in Nat /\ MaxDrain \in Nat /\ MaxQueued \in Nat
  /\ QueueCapacity \in Nat /\ SpillLimit \in Nat

VARIABLES
  nextID,    (* Table.nextID                                                 *)
  entries,   (* Table.entries: the live handles                              *)
  queue,     (* Table.finalizerQueue, a channel                              *)
  spill,     (* Table.finalizerSpill: id -> pending releases, 0 when absent  *)
  order,     (* Table.finalizerOrder                                         *)
  total,     (* Table.finalizerTotal                                         *)
  queued,    (* Table.finalizerQueued                                        *)
  drains,    (* Table.finalizerDrains                                        *)
  drops,     (* Table.finalizerDrops                                         *)
  released,  (* Table.{explicit,finalizer,scope}Releases, by cause           *)
  job,       (* what each thread is doing inside the table                   *)
  held,      (* history: strong references owned by clients, per handle      *)
  calls,     (* history: release callbacks run, per handle                   *)
  lost       (* history: finalizer releases refused by the full spill        *)

tableVars == <<nextID, entries, queue, spill, order, total>>
countVars == <<queued, drains, drops, released>>
ghostVars == <<held, calls, lost>>
vars == <<tableVars, countVars, job, ghostVars>>

Handle == 1..MaxHandles
Cause == {"explicit", "finalizer", "scope"}
Entry == [scope : Scopes, refs : 1..MaxRefs, escaped : BOOLEAN,
          references : SUBSET Handle]

(***************************************************************************)
(* A thread's job.  "then" is where it goes on after a release callback;   *)
(* "todo" are the ids a sweep has still to visit, "swept" all the ids of   *)
(* its snapshot, and "scoped" tells ReleaseScope from ReleaseAll; "left"   *)
(* counts down the max of a bounded drain, with NoLimit for max <= 0.      *)
(***************************************************************************)
NoLimit == MaxDrain + 1
Place == {"idle", "send", "count", "spill", "drain", "drainSpill",
          "drained", "release", "sweep", "callback"}
Job == [at : Place, then : {"idle", "drain", "sweep"}, id : 0..MaxHandles,
        left : 0..NoLimit, todo : SUBSET Handle, swept : SUBSET Handle,
        scoped : BOOLEAN]
Idle == [at |-> "idle", then |-> "idle", id |-> 0, left |-> 0,
         todo |-> {}, swept |-> {}, scoped |-> FALSE]

Live == DOMAIN entries
SpillNames == {h \in Handle : spill[h] > 0}

Init ==
  /\ nextID = 1
  /\ entries = [h \in {} |-> Idle]
  /\ queue = << >> /\ order = << >> /\ total = 0
  /\ spill = [h \in Handle |-> 0]
  /\ queued = 0 /\ drains = 0 /\ drops = 0
  /\ released = [c \in Cause |-> 0]
  /\ job = [t \in Threads |-> Idle]
  /\ held = [h \in Handle |-> 0]
  /\ calls = [h \in Handle |-> 0]
  /\ lost = [h \in Handle |-> 0]

----------------------------------------------------------------------------
(* The critical sections shared by several methods.                        *)

(* Thread t leaves the critical section with the job j.                    *)
Becomes(t, j) == job' = [job EXCEPT ![t] = j]

(* dropReferencesLocked(id); delete(t.entries, id) *)
Without(id) ==
  [h \in Live \ {id} |->
     [entries[h] EXCEPT !.references = @ \ {id}]]

(* Mutant: the callback runs before the entry is deleted.                  *)
RemoveAfterwards(t, id, cause, then) ==
  /\ released' = [released EXCEPT ![cause] = @ + 1]
  /\ Becomes(t, [job[t] EXCEPT !.at = "callback", !.then = then, !.id = id,
                               !.todo = @ \ {id}])
  /\ UNCHANGED entries

(* The removal inside release and releaseAll; the callback follows.        *)
Remove(t, id, cause, then) ==
  /\ entries' = Without(id)
  /\ released' = [released EXCEPT ![cause] = @ + 1]
  /\ Becomes(t, [job[t] EXCEPT !.at = "callback", !.then = then, !.id = id,
                               !.todo = @ \ {id}])

(* No callback to run: the method goes on, a sweep with its next id.       *)
GoOn(t, id, then) ==
  Becomes(t, [job[t] EXCEPT !.at = then, !.then = "idle", !.id = 0,
                            !.todo = @ \ {id}])

(* release(id, cause): one strong reference goes; the last one removes.    *)
DropOne(t, id, cause, then) ==
  \/ /\ id \notin Live
     /\ GoOn(t, id, then)
     /\ UNCHANGED <<entries, released>>
  \/ /\ id \in Live
     /\ entries[id].refs > 1
     /\ entries' = [entries EXCEPT ![id].refs = @ - 1]
     /\ GoOn(t, id, then)
     /\ UNCHANGED released
  \/ /\ id \in Live
     /\ entries[id].refs <= 1
     /\ Remove(t, id, cause, then)

(* releaseAll(id, cause): the handle goes whatever its reference count.    *)
DropAll(t, id, cause, then) ==
  \/ /\ id \notin Live
     /\ GoOn(t, id, then)
     /\ UNCHANGED <<entries, released>>
  \/ /\ id \in Live
     /\ Remove(t, id, cause, then)

queueVars == <<queue, spill, order, total>>

----------------------------------------------------------------------------
(* Methods that are one critical section.                                  *)

(* Mutant: the least free id is handed out again.                          *)
RegisterReusing(t, s) ==
  /\ job[t].at = "idle"
  /\ \E id \in Handle \ Live :
       /\ \A free \in Handle \ Live : id <= free
       /\ entries' = [h \in Live \cup {id} |->
                        IF h = id
                        THEN [scope |-> s, refs |-> 1, escaped |-> FALSE,
                              references |-> {}]
                        ELSE entries[h]]
       /\ held' = [held EXCEPT ![id] = 1]
       /\ nextID' = IF id = nextID THEN nextID + 1 ELSE nextID
  /\ UNCHANGED <<queueVars, countVars, job, calls, lost>>

Register(t, s) ==
  /\ job[t].at = "idle"
  /\ nextID <= MaxHandles
  /\ entries' = [h \in Live \cup {nextID} |->
                   IF h = nextID
                   THEN [scope |-> s, refs |-> 1, escaped |-> FALSE,
                         references |-> {}]
                   ELSE entries[h]]
  /\ nextID' = nextID + 1
  /\ held' = [held EXCEPT ![nextID] = 1]
  /\ UNCHANGED <<queueVars, countVars, job, calls, lost>>

Retain(t, id) ==
  /\ job[t].at = "idle"
  /\ id \in Live
  /\ entries[id].refs < MaxRefs
  /\ entries' = [entries EXCEPT ![id].refs = @ + 1]
  /\ held' = [held EXCEPT ![id] = @ + 1]
  /\ UNCHANGED <<nextID, queueVars, countVars, job, calls, lost>>

Escape(t, id) ==
  /\ job[t].at = "idle"
  /\ id \in Live
  /\ entries' = [entries EXCEPT ![id].escaped = TRUE]
  /\ UNCHANGED <<nextID, queueVars, countVars, job, ghostVars>>

RecordReference(t, from, to) ==
  /\ job[t].at = "idle"
  /\ from \in Live /\ to \in Live
  /\ Cardinality(entries[from].references) < MaxEdges
  /\ entries' = [entries EXCEPT ![from].references = @ \cup {to}]
  /\ UNCHANGED <<nextID, queueVars, countVars, job, ghostVars>>

DropReference(t, from, to) ==
  /\ job[t].at = "idle"
  /\ from \in Live
  /\ entries' = [entries EXCEPT ![from].references = @ \ {to}]
  /\ UNCHANGED <<nextID, queueVars, countVars, job, ghostVars>>

(* Release, and ReleaseFromFinalizer when cause is "finalizer".            *)
Release(t, id, cause) ==
  /\ job[t].at = "idle"
  /\ held[id] > 0
  /\ held' = [held EXCEPT ![id] = @ - 1]
  /\ DropOne(t, id, cause, "idle")
  /\ UNCHANGED <<nextID, queueVars, queued, drains, drops, calls, lost>>

ReleaseAllRefs(t, id) ==
  /\ job[t].at = "idle"
  /\ id \in Live
  /\ DropAll(t, id, "explicit", "idle")
  /\ UNCHANGED <<nextID, queueVars, queued, drains, drops, ghostVars>>

(* Mutant: the error of a callback ends the sweep.                         *)
CallbackAborts(t) ==
  /\ job[t].at = "callback"
  /\ calls' = [calls EXCEPT ![job[t].id] = @ + 1]
  /\ GoOn(t, job[t].id, job[t].then) \/ Becomes(t, Idle)
  /\ UNCHANGED <<tableVars, countVars, held, lost>>

(* callRelease: the callback runs outside the lock.  Its error is returned *)
(* to the caller and changes no control flow of the table.                 *)
Callback(t) ==
  /\ job[t].at = "callback"
  /\ calls' = [calls EXCEPT ![job[t].id] = @ + 1]
  /\ GoOn(t, job[t].id, job[t].then)
  /\ UNCHANGED <<tableVars, countVars, held, lost>>

----------------------------------------------------------------------------
(* QueueReleaseFromFinalizer                                               *)

(* An unknown handle is refused; a known one goes on without the lock.     *)
QueueRelease(t, id) ==
  /\ job[t].at = "idle"
  /\ held[id] > 0
  /\ queued + drops < MaxQueued
  /\ held' = [held EXCEPT ![id] = @ - 1]
  /\ IF id \in Live
     THEN Becomes(t, [job[t] EXCEPT !.at = "send", !.id = id])
     ELSE UNCHANGED job
  /\ UNCHANGED <<tableVars, countVars, calls, lost>>

(* select { case t.finalizerQueue <- id: ... default: ... }                *)
Send(t) ==
  /\ job[t].at = "send"
  /\ IF Len(queue) < QueueCapacity
     THEN /\ queue' = Append(queue, job[t].id)
          /\ Becomes(t, [job[t] EXCEPT !.at = "count"])
     ELSE /\ Becomes(t, [job[t] EXCEPT !.at = "spill"])
          /\ UNCHANGED queue
  /\ UNCHANGED <<nextID, entries, spill, order, total, countVars, ghostVars>>

CountQueued(t) ==
  /\ job[t].at = "count"
  /\ queued' = queued + 1
  /\ GoOn(t, job[t].id, "idle")
  /\ UNCHANGED <<tableVars, drains, drops, released, ghostVars>>

SpillFull(id) == spill[id] = 0 /\ Cardinality(SpillNames) >= SpillLimit

Spill(t) ==
  LET id == job[t].id IN
  /\ job[t].at = "spill"
  /\ GoOn(t, job[t].id, "idle")
  /\ IF SpillFull(id)
     THEN /\ drops' = drops + 1
          /\ lost' = [lost EXCEPT ![id] = @ + 1]
          /\ UNCHANGED <<spill, order, total, queued>>
     ELSE /\ order' = IF spill[id] = 0 THEN Append(order, id) ELSE order
          /\ spill' = [spill EXCEPT ![id] = @ + 1]
          /\ total' = total + 1
          /\ queued' = queued + 1
          /\ UNCHANGED <<drops, lost>>
  /\ UNCHANGED <<nextID, entries, queue, drains, released, held, calls>>

----------------------------------------------------------------------------
(* DrainFinalizerReleases(max)                                             *)

StartDrain(t, max) ==
  /\ job[t].at = "idle"
  /\ Becomes(t, [job[t] EXCEPT !.at = "drain",
                               !.left = IF max = 0 THEN NoLimit ELSE max])
  /\ UNCHANGED <<tableVars, countVars, ghostVars>>

(* The loop test, and the receive of nextQueuedFinalizerRelease.           *)
DrainQueue(t) ==
  /\ job[t].at = "drain"
  /\ \/ /\ job[t].left = 0
        /\ Becomes(t, Idle)
        /\ UNCHANGED queue
     \/ /\ job[t].left > 0 /\ queue # << >>
        /\ queue' = Tail(queue)
        /\ Becomes(t, [job[t] EXCEPT !.at = "drained", !.id = Head(queue)])
     \/ /\ job[t].left > 0 /\ queue = << >>
        /\ Becomes(t, [job[t] EXCEPT !.at = "drainSpill"])
        /\ UNCHANGED queue
  /\ UNCHANGED <<nextID, entries, spill, order, total, countVars, ghostVars>>

(* Mutant: all the spilled releases of a handle count as one.              *)
DrainSpillWhole(t) ==
  /\ job[t].at = "drainSpill"
  /\ IF order = << >>
     THEN Becomes(t, Idle) /\ UNCHANGED <<spill, order, total>>
     ELSE /\ spill' = [spill EXCEPT ![Head(order)] = 0]
          /\ total' = total - spill[Head(order)]
          /\ order' = Tail(order)
          /\ Becomes(t, [job[t] EXCEPT !.at = "drained", !.id = Head(order)])
  /\ UNCHANGED <<nextID, entries, queue, countVars, ghostVars>>

(* The oldest spilled name gives up one release, and its place in the      *)
(* order with the last one.                                                *)
DrainSpill(t) ==
  /\ job[t].at = "drainSpill"
  /\ \/ /\ order = << >>
        /\ Becomes(t, Idle)
        /\ UNCHANGED <<spill, order, total>>
     \/ /\ order # << >>
        /\ spill' = [spill EXCEPT ![Head(order)] = @ - 1]
        /\ total' = total - 1
        /\ order' = IF spill[Head(order)] <= 1 THEN Tail(order) ELSE order
        /\ Becomes(t, [job[t] EXCEPT !.at = "drained", !.id = Head(order)])
  /\ UNCHANGED <<nextID, entries, queue, countVars, ghostVars>>

CountDrain(t) ==
  /\ job[t].at = "drained"
  /\ drains' = drains + 1
  /\ Becomes(t, [job[t] EXCEPT !.at = "release",
                               !.left = IF @ = NoLimit THEN @ ELSE @ - 1])
  /\ UNCHANGED <<tableVars, queued, drops, released, ghostVars>>

DrainRelease(t) ==
  /\ job[t].at = "release"
  /\ DropOne(t, job[t].id, "finalizer", "drain")
  /\ UNCHANGED <<nextID, queueVars, queued, drains, drops, ghostVars>>

----------------------------------------------------------------------------
(* ReleaseScope and ReleaseAll: a snapshot of ids under the lock, then one *)
(* releaseAll per id, least id first, each under the lock on its own.      *)

StartSweep(t, ids, scoped) ==
  /\ job[t].at = "idle"
  /\ Becomes(t, [job[t] EXCEPT !.at = "sweep", !.todo = ids, !.swept = ids,
                               !.scoped = scoped])
  /\ UNCHANGED <<tableVars, countVars, ghostVars>>

ReleaseScope(t, s) ==
  StartSweep(t, {h \in Live : entries[h].scope = s /\ ~entries[h].escaped},
             TRUE)

ReleaseAll(t) == StartSweep(t, Live, FALSE)

Sweep(t) ==
  /\ job[t].at = "sweep"
  /\ \E id \in job[t].todo :
       /\ \A other \in job[t].todo : id <= other
       /\ DropAll(t, id, "scope", "sweep")
  /\ UNCHANGED <<nextID, queueVars, queued, drains, drops, ghostVars>>

EndSweep(t) ==
  /\ job[t].at = "sweep"
  /\ job[t].todo = {}
  /\ Becomes(t, Idle)
  /\ UNCHANGED <<tableVars, countVars, ghostVars>>

----------------------------------------------------------------------------
(* A thread's choice of a method, and the rest of the method it is in.     *)
Call(t) ==
  \/ \E s \in Scopes : Register(t, s) \/ ReleaseScope(t, s)
  \/ \E id \in Handle : \/ Retain(t, id) \/ Escape(t, id)
                        \/ Release(t, id, "explicit")
                        \/ Release(t, id, "finalizer")
                        \/ ReleaseAllRefs(t, id)
                        \/ QueueRelease(t, id)
  \/ \E from, to \in Handle : RecordReference(t, from, to)
                              \/ DropReference(t, from, to)
  \/ \E max \in 0..MaxDrain : StartDrain(t, max)
  \/ ReleaseAll(t)

Continue(t) ==
  \/ Callback(t)
  \/ Send(t) \/ CountQueued(t) \/ Spill(t)
  \/ DrainQueue(t) \/ DrainSpill(t) \/ CountDrain(t) \/ DrainRelease(t)
  \/ Sweep(t) \/ EndSweep(t)

Next == \E t \in Threads : Call(t) \/ Continue(t)

Spec == Init /\ [][Next]_vars

----------------------------------------------------------------------------
(* Properties                                                              *)

(* The type of every variable. *)
TypeOK ==
  /\ nextID \in 1..(MaxHandles + 1)
  /\ Live \subseteq Handle
  /\ entries \in [Live -> Entry]
  /\ queue \in Seq(Handle) /\ order \in Seq(Handle)
  /\ spill \in [Handle -> Int] /\ total \in Int
  /\ queued \in Nat /\ drains \in Nat /\ drops \in Nat
  /\ released \in [Cause -> Nat]
  /\ job \in [Threads -> Job]
  /\ held \in [Handle -> Nat]
  /\ calls \in [Handle -> Nat]
  /\ lost \in [Handle -> Nat]

InCallback(id) == {t \in Threads : job[t].at = "callback" /\ job[t].id = id}

(* The release callback of a handle runs at most once, never while the     *)
(* handle can still be looked up, and no second thread is about to run it: *)
(* "Table guarantees it is called at most once per id".                    *)
ReleasedAtMostOnce ==
  /\ \A id \in Handle : calls[id] <= 1
  /\ \A id \in Live : calls[id] = 0 /\ InCallback(id) = {}
  /\ \A id \in Handle : \A t, u \in InCallback(id) : t = u /\ calls[id] = 0

(* The reference graph has edges between live handles only, so that the    *)
(* cycle diagnostics never walk into a released handle.                    *)
EdgesAreLive == \A id \in Live : entries[id].references \subseteq Live

(* Finalizer releases of id on their way from a proxy to the table.        *)
InFlight(id) ==
  Cardinality({i \in 1..Len(queue) : queue[i] = id}) + spill[id]
  + Cardinality({t \in Threads : /\ job[t].id = id
                                 /\ job[t].at \in {"send", "spill",
                                                   "drained", "release"}})

(* Reference counting loses and invents nothing: the strong references of  *)
(* a live handle are those its clients own, those whose finalizer release  *)
(* is on its way, and those the full queue refused and counted as drops.   *)
ReferencesConserved ==
  \A id \in Live : entries[id].refs = held[id] + InFlight(id) + lost[id]

At(place) == Cardinality({t \in Threads : job[t].at = place})

(* The finalizer diagnostics add up: releases counted as queued, and those *)
(* sent but not yet counted, are drained, being drained, or pending; the   *)
(* spill map, its order and its total describe the same releases.          *)
QueueAccounted ==
  /\ queued + At("count") = drains + At("drained") + Len(queue) + total
  /\ Len(queue) <= QueueCapacity
  /\ Cardinality(SpillNames) <= SpillLimit
  /\ {order[i] : i \in 1..Len(order)} = SpillNames
  /\ Len(order) = Cardinality(SpillNames)
  /\ (order = << >>) = (total = 0)

(* Every handle ever registered is live or was released under one cause.   *)
ReleasesAccounted ==
  Cardinality(Live) + released["explicit"] + released["finalizer"]
    + released["scope"] = nextID - 1

(* The books of the table balance: references, the queue of finalizer      *)
(* releases with its spill, the causes of releases and the reference graph. *)
BooksBalance ==
  /\ ReferencesConserved /\ QueueAccounted /\ ReleasesAccounted
  /\ EdgesAreLive

(* A released id never names a live handle again, so a stale proxy or a    *)
(* late finalizer release can never reach somebody else's object.          *)
IdsAreNeverReused ==
  [][\A id \in 1..(nextID - 1) : id \notin Live => id \notin DOMAIN entries']_vars

(* A scope or shutdown sweep that returns has left none of the handles of  *)
(* its snapshot in the table, whatever ran beside it and whichever         *)
(* callbacks failed.                                                       *)
SweepIsComplete ==
  [][\A t \in Threads :
       (job[t].swept # {} /\ job'[t].swept = {}) =>
          job[t].swept \cap DOMAIN entries' = {}]_vars

(* The stage of every handle, as a client sees it.                         *)
Stage ==
  [h \in Handle |-> IF h >= nextID THEN "unborn"
                    ELSE IF h \in Live THEN "live"
                    ELSE IF calls[h] = 0 THEN "releasing"
                    ELSE IF calls[h] = 1 THEN "released" ELSE "released again"]

Lifetime == INSTANCE HandleLifetime WITH Handles <- Handle, stage <- Stage

(* The table with its locks, queues and sweeps gives every handle the      *)
(* lifetime of HandleLifetime: each step of any thread is one step of one  *)
(* handle's life or none at all.                                           *)
ImplementsLifetime == Lifetime!Spec
=============================================================================
