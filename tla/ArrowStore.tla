----------------------------- MODULE ArrowStore -----------------------------
(***************************************************************************)
(* The shared store of named buffers of pkg/arrow.                         *)
(*                                                                         *)
(* A name is bound to a Buffer, which has an owner reference and borrows.  *)
(* Go code and Arrow C Data exports hold leases and end them through the   *)
(* lease.  Guests hold views: BufGet borrows by name and BufRelease, which *)
(* a finalizer may call on any thread, only queues the name, for the       *)
(* Golden Thread to release the oldest borrow of that name later.          *)
(*                                                                         *)
(* Each action up to a release callback is one critical section of the     *)
(* store.  The callback, called after the unlock, is part of it: it        *)
(* touches nothing of the store.  A Buffer is numbered by the first memory *)
(* it has had.  freed, lost and holder are the environment and history.    *)
(***************************************************************************)
EXTENDS Integers, Sequences, SequencesExt, FiniteSets

CONSTANTS
  Names,          (* names of buffers                                        *)
  Slots,          (* places where a lease or a view can be kept              *)
  QueueCapacity,  (* capacity of DeferredRelease                             *)
  MaxOverflow,    (* maxDeferredReleaseOverflowNames                         *)
  MaxTombstones,  (* maxReleasedBufferTombstones                             *)
  MaxMemory,      (* bound: memory regions put into the store                *)
  External,       (* those of them that come with a release callback         *)
  MaxNamed        (* bound: named borrows of a name                          *)

Nil == 0

ASSUME ArrowStoreAssumption ==
  /\ IsFiniteSet(Names) /\ IsFiniteSet(Slots)
  /\ QueueCapacity \in Nat /\ MaxOverflow \in Nat
  /\ MaxTombstones \in Nat /\ MaxMemory \in Nat /\ MaxNamed \in Nat
  /\ External \subseteq 1..MaxMemory
  /\ Nil \notin Names

Memory == 1..MaxMemory
Buffer == Memory

VARIABLES
  made,          (* memory regions put into the store so far                 *)
  buffers,       (* SharedStore.buffers                                      *)
  refs, borrowRefs, owned,  (* Buffer.refs, .borrowRefs, those with .ownerRef *)
  memory,        (* Buffer.Data or Buffer.ExternalData                       *)
  hooked,        (* the Buffers with a release callback                      *)
  namedBorrows,  (* SharedStore.namedBorrows                                 *)
  detached,      (* SharedStore.detached                                     *)
  tombstones,    (* SharedStore.releasedOrder, the keys of .released         *)
  deferred,      (* DeferredRelease                                          *)
  order, counts, (* deferredReleaseOverflow                                  *)
  drain, hand,   (* DrainDeferred: its place, the name it has taken          *)
  holder,        (* what is kept in each place                               *)
  freed,         (* history: calls of the release callback of each memory    *)
  lost           (* history: releases dropped, by name                       *)

bufferVars == <<refs, borrowRefs, owned, memory, hooked, freed>>
nameVars == <<made, buffers, tombstones>>
deferVars == <<deferred, order, counts, lost>>
drainVars == <<drain, hand>>
storeVars == <<bufferVars, nameVars, deferVars, drainVars, namedBorrows, detached,
          holder>>

Kept == [kind : {"none", "lease", "view", "spill"}, name : Names \cup {Nil},
         buf : Buffer \cup {Nil}, mem : Memory \cup {Nil}]
Nothing == [kind |-> "none", name |-> Nil, buf |-> Nil, mem |-> Nil]

StoreInit ==
  /\ made = 0 /\ buffers = [n \in Names |-> Nil]
  /\ refs = [b \in Buffer |-> 0] /\ borrowRefs = [b \in Buffer |-> 0]
  /\ owned = {} /\ memory = [b \in Buffer |-> Nil] /\ hooked = {}
  /\ namedBorrows = [n \in Names |-> << >>] /\ detached = {}
  /\ tombstones = << >>
  /\ deferred = << >> /\ order = << >> /\ counts = [n \in Names |-> 0]
  /\ drain = "queue" /\ hand = Nil
  /\ holder = [h \in Slots |-> Nothing]
  /\ freed = [m \in Memory |-> 0] /\ lost = [n \in Names |-> 0]

----------------------------------------------------------------------------
(* Tombstones                                                              *)

ForgetReleased(n) == RemoveFirst(tombstones, n)

MarkReleased(n) ==
  IF n \in ToSet(tombstones) THEN tombstones
  ELSE LET all == Append(tombstones, n)
       IN  IF Len(all) > MaxTombstones THEN Tail(all) ELSE all

----------------------------------------------------------------------------
(* Putting memory into the store                                           *)

(* A new Buffer for memory m under name n; the old one keeps its borrows.  *)
Publish(n, m) ==
  /\ buffers' = [buffers EXCEPT ![n] = m]
  /\ memory' = [memory EXCEPT ![m] = m]
  /\ hooked' = IF m \in External THEN hooked \cup {m} ELSE hooked
  /\ UNCHANGED <<borrowRefs, freed>>

(* Mutant: one borrow is overlooked.                                       *)
SharedTwice(b) == refs[b] > 2

(* Somebody other than the owner has it.                                   *)
Shared(b) == refs[b] > 1

Create(n, m) ==
  /\ buffers[n] = Nil
  /\ Publish(n, m)
  /\ refs' = [refs EXCEPT ![m] = 1] /\ owned' = owned \cup {m}
  /\ UNCHANGED detached

Detach(n, m) ==
  LET b == buffers[n] IN
  /\ b # Nil /\ Shared(b)
  /\ Publish(n, m)
  /\ refs' = [refs EXCEPT ![b] = @ - 1, ![m] = 1]
  /\ owned' = (owned \ {b}) \cup {m}
  /\ detached' = detached \cup {b}

(* A Buffer with nobody but its owner gets the new memory itself.          *)
Refill(n, m) ==
  LET b == buffers[n] IN
  /\ b # Nil /\ ~Shared(b)
  /\ freed' = IF b \in hooked THEN [freed EXCEPT ![memory[b]] = @ + 1] ELSE freed
  /\ memory' = [memory EXCEPT ![b] = m]
  /\ hooked' = IF m \in External THEN hooked \cup {b} ELSE hooked \ {b}
  /\ refs' = [refs EXCEPT ![b] = 1]
  /\ borrowRefs' = [borrowRefs EXCEPT ![b] = 0]
  /\ owned' = owned \cup {b}
  /\ UNCHANGED <<buffers, detached>>

(* SetWithValidityMetadata, SetExternalArrowWithMetadata                   *)
Set(n) ==
  /\ made < MaxMemory /\ made' = made + 1
  /\ tombstones' = ForgetReleased(n)
  /\ \/ Create(n, made')
     \/ Detach(n, made')
     \/ Refill(n, made')
  /\ UNCHANGED <<namedBorrows, deferVars, drainVars, holder>>

Allocate(n) ==
  /\ made < MaxMemory /\ made' = made + 1
  /\ tombstones' = ForgetReleased(n)
  /\ made' \notin External /\ Create(n, made')
  /\ UNCHANGED <<namedBorrows, deferVars, drainVars, holder>>

(* External memory that fails validation is given back at once.            *)
SetRejected ==
  /\ made < MaxMemory /\ made' = made + 1
  /\ made' \in External /\ freed' = [freed EXCEPT ![made'] = @ + 1]
  /\ UNCHANGED <<refs, borrowRefs, owned, memory, hooked, buffers, tombstones,
                 namedBorrows, detached, deferVars, drainVars, holder>>

----------------------------------------------------------------------------
(* Borrowing and releasing                                                 *)

(* takeBufferReleaseLocked, and the callback after the unlock.             *)
TakeRelease(b) ==
  IF refs'[b] <= 0 /\ b \in hooked
  THEN /\ hooked' = hooked \ {b}
       /\ freed' = [freed EXCEPT ![memory[b]] = @ + 1]
  ELSE UNCHANGED <<hooked, freed>>

Borrow(h, n, kind) ==
  LET b == buffers[n] IN
  /\ holder[h].kind = "none" /\ b # Nil
  /\ kind = "view" => Len(namedBorrows[n]) < MaxNamed
  /\ refs' = [refs EXCEPT ![b] = @ + 1]
  /\ borrowRefs' = [borrowRefs EXCEPT ![b] = @ + 1]
  /\ namedBorrows' = IF kind = "view"
                     THEN [namedBorrows EXCEPT ![n] = Append(@, b)]
                     ELSE namedBorrows
  /\ holder' = [holder EXCEPT ![h] = [kind |-> kind, name |-> n, buf |-> b,
                                      mem |-> memory[b]]]
  /\ UNCHANGED <<owned, memory, hooked, freed, nameVars, deferVars, drainVars,
                 detached>>

(* releaseBufferLocked                                                     *)
ReleaseBuffer(n, b) ==
  /\ IF borrowRefs[b] > 0
     THEN /\ borrowRefs' = [borrowRefs EXCEPT ![b] = @ - 1]
          /\ refs' = [refs EXCEPT ![b] = IF @ > 0 THEN @ - 1 ELSE @]
     ELSE UNCHANGED <<borrowRefs, refs>>
  /\ TakeRelease(b)
  /\ IF refs'[b] <= 0
     THEN /\ buffers' = IF buffers[n] = b THEN [buffers EXCEPT ![n] = Nil]
                        ELSE buffers
          /\ detached' = detached \ {b}
     ELSE UNCHANGED <<buffers, detached>>
  /\ UNCHANGED <<owned, memory>>

(* BorrowedBuffer.Release, once for each lease.                            *)
ReleaseLease(h) ==
  /\ holder[h].kind = "lease"
  /\ ReleaseBuffer(holder[h].name, holder[h].buf)
  /\ holder' = [holder EXCEPT ![h] = Nothing]
  /\ UNCHANGED <<made, tombstones, namedBorrows, deferVars, drainVars>>

Free(n) ==
  LET b == buffers[n] IN
  /\ b # Nil
  /\ refs' = [refs EXCEPT ![b] = IF b \in owned THEN @ - 1 ELSE @]
  /\ owned' = owned \ {b}
  /\ TakeRelease(b)
  /\ buffers' = [buffers EXCEPT ![n] = Nil]
  /\ tombstones' = MarkReleased(n)
  /\ detached' = IF refs'[b] <= 0 THEN detached \ {b} ELSE detached \cup {b}
  /\ UNCHANGED <<made, borrowRefs, memory, namedBorrows, deferVars, drainVars,
                 holder>>

----------------------------------------------------------------------------
(* Deferred releases of views                                              *)

BufRelease(h) ==
  /\ holder[h].kind = "view"
  /\ IF Len(deferred) < QueueCapacity
     THEN /\ deferred' = Append(deferred, holder[h].name)
          /\ holder' = [holder EXCEPT ![h] = Nothing]
     ELSE /\ holder' = [holder EXCEPT ![h].kind = "spill"]
          /\ UNCHANGED deferred
  /\ UNCHANGED <<bufferVars, nameVars, namedBorrows, detached, order, counts,
                 lost, drainVars>>

(* queueDeferredReleaseOverflow, recordDeferredDrop                        *)
Spill(h) ==
  LET n == holder[h].name IN
  /\ holder[h].kind = "spill"
  /\ IF counts[n] = 0 /\ Len(order) >= MaxOverflow
     THEN /\ lost' = [lost EXCEPT ![n] = @ + 1]
          /\ UNCHANGED <<order, counts>>
     ELSE /\ order' = IF counts[n] = 0 THEN Append(order, n) ELSE order
          /\ counts' = [counts EXCEPT ![n] = @ + 1]
          /\ UNCHANGED lost
  /\ holder' = [holder EXCEPT ![h] = Nothing]
  /\ UNCHANGED <<bufferVars, nameVars, namedBorrows, detached, deferred,
                 drainVars>>

DrainQueue ==
  /\ drain = "queue"
  /\ IF deferred = << >>
     THEN drain' = "overflow" /\ UNCHANGED <<deferred, hand>>
     ELSE drain' = "release" /\ hand' = Head(deferred) /\ deferred' = Tail(deferred)
  /\ UNCHANGED <<bufferVars, nameVars, namedBorrows, detached, order, counts,
                 lost, holder>>

(* Mutant: the overflow is not looked at.                                  *)
DrainQueueAlone ==
  /\ drain = "overflow" /\ drain' = "queue"
  /\ UNCHANGED <<bufferVars, nameVars, namedBorrows, detached, deferVars, hand,
                 holder>>

(* nextDeferredReleaseOverflow; an empty overflow ends DrainDeferred.      *)
DrainOverflow ==
  /\ drain = "overflow"
  /\ \/ order = << >> /\ drain' = "queue" /\ UNCHANGED <<order, counts, hand>>
     \/ /\ order # << >>
        /\ drain' = "release" /\ hand' = Head(order)
        /\ counts' = [counts EXCEPT ![Head(order)] = @ - 1]
        /\ order' = IF counts'[Head(order)] = 0 THEN Tail(order) ELSE order
  /\ UNCHANGED <<bufferVars, nameVars, namedBorrows, detached, deferred, lost,
                 holder>>

(* releaseNamedBorrow: the oldest borrow of the name, if there is one.     *)
DrainRelease ==
  /\ drain = "release"
  /\ drain' = "queue" /\ hand' = Nil
  /\ IF namedBorrows[hand] # << >>
     THEN /\ ReleaseBuffer(hand, Head(namedBorrows[hand]))
          /\ namedBorrows' = [namedBorrows EXCEPT ![hand] = Tail(@)]
     ELSE UNCHANGED <<bufferVars, buffers, namedBorrows, detached>>
  /\ UNCHANGED <<made, tombstones, deferVars, holder>>

DrainDeferred == DrainQueue \/ DrainOverflow \/ DrainRelease

StoreNext ==
  \/ \E n \in Names : Set(n) \/ Allocate(n) \/ Free(n)
  \/ SetRejected
  \/ \E h \in Slots : \/ \E n \in Names, kind \in {"lease", "view"} : Borrow(h, n, kind)
                        \/ ReleaseLease(h) \/ BufRelease(h) \/ Spill(h)
  \/ DrainDeferred

StoreSpec == StoreInit /\ [][StoreNext]_storeVars

(* Every pump cycle drains; a thread in BufRelease goes on.                *)
StoreFairSpec == StoreSpec /\ WF_storeVars(DrainDeferred) /\ \A h \in Slots : WF_storeVars(Spill(h))

----------------------------------------------------------------------------
(* Properties                                                              *)

StoreTypeOK ==
  /\ made \in 0..MaxMemory /\ buffers \in [Names -> Buffer \cup {Nil}]
  /\ refs \in [Buffer -> Nat] /\ borrowRefs \in [Buffer -> Nat]
  /\ owned \subseteq Buffer /\ memory \in [Buffer -> Memory \cup {Nil}]
  /\ hooked \subseteq Buffer /\ namedBorrows \in [Names -> Seq(Buffer)]
  /\ detached \subseteq Buffer
  /\ tombstones \in Seq(Names) /\ Len(tombstones) <= MaxTombstones
  /\ deferred \in Seq(Names) /\ Len(deferred) <= QueueCapacity
  /\ order \in Seq(Names) /\ Len(order) <= MaxOverflow
  /\ counts \in [Names -> Nat]
  /\ drain \in {"queue", "overflow", "release"} /\ hand \in Names \cup {Nil}
  /\ holder \in [Slots -> Kept] /\ freed \in [Memory -> Nat]
  /\ lost \in [Names -> Nat]

One(p) == IF p THEN 1 ELSE 0
Holding(kind, b) == {h \in Slots : holder[h].kind = kind /\ holder[h].buf = b}
Places(q, x) == {i \in DOMAIN q : q[i] = x}
NamedOf(b) == UNION {{<<n, i>> : i \in Places(namedBorrows[n], b)} : n \in Names}

(* A Buffer has one reference for its owner and one for each lease and     *)
(* each borrow in a named queue, through every replacement under a name    *)
(* that is still borrowed.                                                 *)
ReferencesConserved ==
  \A b \in Buffer :
    /\ refs[b] = One(b \in owned) + borrowRefs[b]
    /\ borrowRefs[b] = Cardinality(Holding("lease", b)) + Cardinality(NamedOf(b))

(* The three tables agree: a Buffer with an owner is the one its name is   *)
(* bound to, detached holds those that live on borrows alone, a tombstone  *)
(* stands for a name that is not bound.                                    *)
TablesAgree ==
  /\ owned = {buffers[n] : n \in {x \in Names : buffers[x] # Nil}}
  /\ \A n, o \in Names : n # o /\ buffers[n] # Nil => buffers[n] # buffers[o]
  /\ detached = {b \in Buffer : refs[b] > 0 /\ b \notin owned}
  /\ \A n \in ToSet(tombstones) : buffers[n] = Nil
  /\ Cardinality(ToSet(tombstones)) = Len(tombstones)

(* External memory is given back to its producer exactly once, when no     *)
(* Buffer with a reference has it any more: replacing in place, Free, the  *)
(* last lease, the last named borrow and a failed import account for it.   *)
Backed(m) == \E b \in Buffer : refs[b] > 0 /\ memory[b] = m
ReleasedOnceUnused ==
  \A m \in Memory :
    freed[m] = One(m \in External /\ m <= made /\ ~Backed(m))

(* "The lease keeps the backing memory alive until Release is called", and *)
(* it stays the same memory when the name is set again.                    *)
LeasesStayValid ==
  \A h \in Slots : holder[h].kind = "lease" =>
    /\ memory[holder[h].buf] = holder[h].mem
    /\ refs[holder[h].buf] > 0 /\ freed[holder[h].mem] = 0

(* A name has as many named borrows as guests have views of it that they   *)
(* have not given back, or whose release is on its way, or was dropped:    *)
(* the queue, its overflow and the drain lose and invent nothing.          *)
Viewing(n) == {h \in Slots : holder[h].kind \in {"view", "spill"} /\ holder[h].name = n}
Coming(n) ==
  /\ Cardinality(Viewing(n))
     + Cardinality(Places(deferred, n)) + counts[n] + One(hand = n) + lost[n]
     = Len(namedBorrows[n])
  /\ (counts[n] > 0) <=> (n \in ToSet(order))
NamedBorrowsBalance == \A n \in Names : Coming(n)

(* The store's books balance: references, tables, memory, leases, named    *)
(* borrows.                                                                *)
BooksBalance ==
  /\ StoreTypeOK /\ ReferencesConserved /\ TablesAgree
  /\ ReleasedOnceUnused /\ LeasesStayValid /\ NamedBorrowsBalance

(* No borrow of a Buffer stays in its name's queue for ever once every     *)
(* view of the name has been given back, unless the overflow was full, or  *)
(* guests keep the channel, which is drained first, filled.                *)
InUse(n) == \E h \in Slots : holder[h].name = n
BorrowsAreReturned ==
  \A n \in Names, b \in Buffer :
    []<>(b \notin ToSet(namedBorrows[n]) \/ InUse(n) \/ lost[n] > 0
         \/ deferred # << >>)
=============================================================================
