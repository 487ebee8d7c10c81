------------------------------ MODULE Proxies ------------------------------
(***************************************************************************)
(* Values of the manifest executor and the guests' proxies of them:        *)
(* pkg/manifest/stubs.go, executor.go, captures.go.                        *)
(*                                                                         *)
(* A value that leaves the executor gets a handle, remembered under the    *)
(* identity of the value, and travels as a descriptor.  A guest makes one  *)
(* proxy for it, which retains the handle; the value a manifest function   *)
(* returns escapes its scope and is marked as a transfer, and the proxy of *)
(* a transfer adopts the reference the registration made.  Guests collect  *)
(* proxies when they like; the finalizers queue releases, which the        *)
(* executor drains after an op.                                            *)
(*                                                                         *)
(* The executor and the bridge run on the Golden Thread, one call at a     *)
(* time, so an operation is one step, with the proxy the guest makes of    *)
(* its answer.  Only the collectors run at any time; whether one runs      *)
(* before an operation or between it and its answer makes no difference.   *)
(* The table of handles is that of module HandleTable, its queue a bag.    *)
(***************************************************************************)
EXTENDS Integers, Sequences, FiniteSets

CONSTANTS
  Guests,       (* guest runtimes                                            *)
  Untagged,     (* those whose proxy cache knows no job from a handle        *)
  Objects,      (* Go values with an identity                                *)
  Owners,       (* runtimes under which handles are registered               *)
  None,         (* no handle, no descriptor                                  *)
  Jobs,         (* numbers of jobs                                           *)
  JobGuests,    (* bound: guests for which jobs are captured                 *)
  MaxHandles,   (* bound: handles ever registered                            *)
  MaxDepth,     (* bound: manifest functions running                         *)
  MaxPending    (* bound: releases of one handle on their way                *)

ASSUME ProxiesAssumption ==
  /\ Untagged \subseteq Guests /\ JobGuests \subseteq Guests
  /\ "go" \in Owners
  /\ MaxHandles \in Nat /\ MaxDepth \in Nat /\ MaxPending \in Nat
  /\ Jobs \subseteq 1..MaxHandles
  /\ None \notin 1..MaxHandles /\ None \notin Objects

VARIABLES
  entries,   (* Table.entries: the live handles                              *)
  nextID,    (* Table.nextID                                                 *)
  bridged,   (* Executor.bridgeHandles: the handle of each identity          *)
  stack,     (* the guests that called the manifest functions now running    *)
  open,      (* proxies neither closed nor collected: __omnivm_proxy_cache   *)
  queue,     (* releases of collected proxies not yet drained, per handle    *)
  fate,      (* history: how each handle fares, see Fate                     *)
  crossed    (* history: values asked for again where their handle was lost  *)

tableVars == <<entries, nextID, bridged>>
ghostVars == <<fate, crossed>>
vars == <<tableVars, stack, open, queue, ghostVars>>

Handle == 1..MaxHandles
Entry == [object : Objects \union {None}, owner : Owners, refs : Nat, escaped : BOOLEAN,
          scope : 0..MaxDepth, adopted : BOOLEAN]
Proxy == [guest : Guests, of : {"handle", "job"}, id : Handle]
Live == DOMAIN entries

(* "sound"; "shared" once two proxies have adopted the one reference, or   *)
(* a job has lent the handle its number; "ended" once a scope, a close or  *)
(* an EOF took it, or it was gone before some proxy was made.              *)
Fate == {"sound", "shared", "ended"}
Depth == Len(stack)

Init ==
  /\ entries = [h \in {} |-> None]
  /\ nextID = 1
  /\ bridged = [o \in Objects |-> None]
  /\ stack = << >>
  /\ open = {}
  /\ queue = [h \in Handle |-> 0]
  /\ fate = [h \in Handle |-> "sound"]
  /\ crossed = {}

----------------------------------------------------------------------------
(* Handles.                                                                *)

(* bridgeHandleForValue: the cached handle, if it is live and w's.         *)
Found(o, w) ==
  /\ bridged[o] \in Live
  /\ entries[bridged[o]].owner = w

IdOf(o, w) == IF Found(o, w) THEN bridged[o] ELSE nextID

CanName(o, w) == Found(o, w) \/ nextID <= MaxHandles

(* The handles of gone leave the table; their release callbacks forget     *)
(* the identities that still name them (forgetReleasedHandle).             *)
Without(table, gone) == [h \in DOMAIN table \ gone |-> table[h]]
Forget(cache, gone) ==
  [o \in Objects |-> IF cache[o] \in gone THEN None ELSE cache[o]]

(* Register: a new handle, with one reference, in the current scope.       *)
Registered(o, w) ==
  [h \in Live \union {nextID} |->
     IF h \in Live THEN entries[h]
     ELSE [object |-> o, owner |-> w, refs |-> 1, escaped |-> FALSE,
           scope |-> Depth, adopted |-> FALSE]]

Table(o, w) == IF Found(o, w) THEN entries ELSE Registered(o, w)

(* Mutant: the identity of a new handle is not remembered.                 *)
RememberedNot(o, w) == bridged

(* e.bridgeHandles[ident] = id                                             *)
Remembered(o, w) == [bridged EXCEPT ![o] = IdOf(o, w)]

(* The value o is named for a guest by the cached handle, or by a new one, *)
(* which takes the place of an old one in the cache; gone is forgotten.    *)
Named(o, w, gone) ==
  /\ CanName(o, w)
  /\ bridged' = Forget(Remembered(o, w), gone)
  /\ nextID' = nextID + (IF Found(o, w) THEN 0 ELSE 1)
  /\ crossed' = IF ~Found(o, w) /\ bridged[o] \in Live
                THEN crossed \union {o} ELSE crossed

(* Release, n times: the last reference removes the handle.                *)
Less(table, n) ==
  [h \in {h \in DOMAIN table : table[h].refs > n[h]} |->
     [table[h] EXCEPT !.refs = @ - n[h]]]
Gone(n) == {h \in Live : n[h] > 0 /\ entries[h].refs <= n[h]}
Once(id) == [h \in Handle |-> IF h = id THEN 1 ELSE 0]

Ended(gone) == [h \in Handle |-> IF h \in gone THEN "ended" ELSE fate[h]]

(* ReleaseAllRefs, ReleaseScope and ReleaseAll: whatever the references.   *)
End(gone) ==
  /\ entries' = Without(entries, gone)
  /\ bridged' = Forget(bridged, gone)
  /\ fate' = Ended(gone)

(* What a scope takes with it.                                             *)
Scoped(table, depth) ==
  {h \in DOMAIN table : table[h].scope = depth /\ ~table[h].escaped}

(* The open proxy the cache of p's guest has for it.                       *)
Cached(p) ==
  {q \in open : /\ q.guest = p.guest /\ q.id = p.id
                /\ q.of = p.of \/ p.guest \in Untagged}

(* Mutant: a transfer is retained as well.                                 *)
ClaimedTwice(table, id, transfer) ==
  IF id \in DOMAIN table
  THEN [table EXCEPT ![id].adopted = @ \/ transfer, ![id].refs = @ + 1]
  ELSE table

(* handle_adopt of a transfer retains and releases; handle_retain of       *)
(* anything else retains.  A dead handle refuses, which nobody hears of.   *)
Claimed(table, id, transfer) ==
  CASE id \notin DOMAIN table -> table
    [] id \in DOMAIN table /\ transfer -> [table EXCEPT ![id].adopted = TRUE]
    [] OTHER -> [table EXCEPT ![id].refs = @ + 1]

(* How the handle fares when proxy p is made of it.                        *)
Fares(table, p, transfer) ==
  CASE p.of = "job" -> "shared"
    [] p.of # "job" /\ p.id \notin DOMAIN table ->
         IF transfer THEN fate[p.id] ELSE "ended"
    [] OTHER -> IF transfer /\ table[p.id].adopted THEN "shared"
                ELSE fate[p.id]

(* The guest materializes the descriptor it is answered with: the open     *)
(* proxy of its cache as it is, or a new one, which claims a reference and *)
(* has a finalizer.  table is what the operation leaves, without gone.     *)
Answered(p, transfer, table, gone) ==
  IF Cached(p) # {}
  THEN /\ entries' = table
       /\ fate' = Ended(gone)
       /\ UNCHANGED open
  ELSE /\ entries' = Claimed(table, p.id, transfer)
       /\ fate' = [Ended(gone) EXCEPT ![p.id] =
                     IF p.id \in gone /\ ~transfer THEN "ended"
                     ELSE Fares(table, p, transfer)]
       /\ open' = open \union {p}

----------------------------------------------------------------------------
(* The executor.                                                           *)

AHandle(g, id) == [guest |-> g, of |-> "handle", id |-> id]

(* An op captures the value o for guest g (autoResourceRefForCapture,      *)
(* genericStreamHandle): the descriptor is no transfer.                    *)
Capture(g, o) ==
  /\ Named(o, "go", {})
  /\ Answered(AHandle(g, IdOf(o, "go")), FALSE, Table(o, "go"), {})
  /\ UNCHANGED <<stack, queue>>

(* An op opens a resource for a runtime (opResource), or exports a table:  *)
(* a binding, with no identity.                                            *)
OpenResource(w) ==
  /\ nextID <= MaxHandles
  /\ entries' = Registered(None, w)
  /\ nextID' = nextID + 1
  /\ UNCHANGED <<bridged, stack, open, queue, ghostVars>>

(* An op captures a binding that names a handle itself.                    *)
CaptureRef(g, id) ==
  /\ id < nextID
  /\ Answered(AHandle(g, id), FALSE, entries, {})
  /\ UNCHANGED <<nextID, bridged, stack, queue, crossed>>

(* An op captures a job.  The descriptor carries the number of the job     *)
(* where that of a value carries its handle (jobProxyValue).               *)
CaptureJob(g, j) ==
  /\ Answered([guest |-> g, of |-> "job", id |-> j], FALSE, entries, {})
  /\ UNCHANGED <<nextID, bridged, stack, queue, crossed>>

(* A guest calls a manifest function (dispatchBridgeFunc).                 *)
Enter(g) ==
  /\ Depth < MaxDepth
  /\ stack' = <<g>> \o stack
  /\ UNCHANGED <<tableVars, open, queue, ghostVars>>

Escaped(table, id) ==
  [h \in DOMAIN table |-> [table[h] EXCEPT !.escaped = @ \/ h = id]]

(* The scope of the function is popped, and its result goes to the caller. *)
Leave(p, transfer, table) ==
  LET gone == Scoped(table, Depth)
  IN /\ stack' = Tail(stack)
     /\ Answered(p, transfer, Without(table, gone), gone)

(* Mutant: the result is marked as a transfer, but does not escape.        *)
ReturnWithoutEscape(o) ==
  LET id == IdOf(o, "go")
      table == Table(o, "go")
  IN /\ stack # << >>
     /\ Named(o, "go", Scoped(table, Depth))
     /\ Leave(AHandle(Head(stack), id), TRUE, table)
     /\ UNCHANGED queue

(* The function returns the value o: bridgeReturnValue names it, lets it   *)
(* escape and marks the descriptor; then the scope is popped.              *)
Return(o) ==
  LET id == IdOf(o, "go")
      table == Escaped(Table(o, "go"), id)
  IN /\ stack # << >>
     /\ Named(o, "go", Scoped(table, Depth))
     /\ Leave(AHandle(Head(stack), id), TRUE, table)
     /\ UNCHANGED queue

(* It returns a descriptor it was given: a live handle escapes and is      *)
(* marked as a transfer (escapeBridgeReturnHandle), a dead one is not.     *)
ReturnMarker(id) ==
  LET table == Escaped(entries, id)
  IN /\ stack # << >>
     /\ id < nextID
     /\ bridged' = Forget(bridged, Scoped(table, Depth))
     /\ Leave(AHandle(Head(stack), id), id \in Live, table)
     /\ UNCHANGED <<nextID, queue, crossed>>

(* It returns a primitive, or fails.                                       *)
ReturnNothing ==
  /\ stack # << >>
  /\ End(Scoped(entries, Depth))
  /\ stack' = Tail(stack)
  /\ UNCHANGED <<nextID, open, queue, crossed>>

(* The owner is done with the handle: a resource or table op closes it, a  *)
(* stream ends or is cancelled (ReleaseAllRefs).                           *)
Finish(id) ==
  /\ id \in Live
  /\ End({id})
  /\ UNCHANGED <<nextID, stack, open, queue, crossed>>

(* After an op, nested or not, and at the host's boundary                  *)
(* (drainPostOpDeferredWork, DrainFinalizerReleases(0)).                   *)
Drain ==
  /\ \E h \in Handle : queue[h] > 0
  /\ entries' = Less(entries, queue)
  /\ bridged' = Forget(bridged, Gone(queue))
  /\ queue' = [h \in Handle |-> 0]
  /\ UNCHANGED <<nextID, stack, open, ghostVars>>

(* The manifest ends (releaseAllHandleScopes); the next one has an         *)
(* executor, and identities, of its own, and the same table.               *)
EndRun ==
  /\ stack = << >>
  /\ LET gone == Scoped(entries, 0)
     IN /\ entries' = Without(entries, gone)
        /\ fate' = Ended(gone)
        /\ crossed' = crossed \union ({entries[h].object : h \in Live \ gone} \ {None})
  /\ bridged' = [o \in Objects |-> None]
  /\ UNCHANGED <<nextID, stack, open, queue>>

(* The worker is drained: every handle goes (ReleaseAll).                  *)
DrainWorker ==
  /\ stack = << >>
  /\ Live # {}
  /\ End(Live)
  /\ UNCHANGED <<nextID, stack, open, queue, crossed>>

----------------------------------------------------------------------------
(* The guests.                                                             *)

(* handle_get, handle_index, handle_iter, handle_call: a proxy leads to    *)
(* another value, which is named for the runtime of its parent             *)
(* (bridgeResultValue).                                                    *)
Get(p, o) ==
  /\ p \in open /\ p.of = "handle" /\ p.id \in Live
  /\ LET w == entries[p.id].owner
     IN /\ Named(o, w, {})
        /\ Answered(AHandle(p.guest, IdOf(o, w)), FALSE, Table(o, w), {})
  /\ UNCHANGED <<stack, queue>>

(* Mutant: the finalizer is not detached when the proxy is closed.         *)
CloseAttached(p) ==
  /\ p \in open /\ p.id \in Live
  /\ entries' = Less(entries, Once(p.id))
  /\ bridged' = Forget(bridged, Gone(Once(p.id)))
  /\ open' = open \ {p}
  /\ queue' = [queue EXCEPT ![p.id] = @ + 1]
  /\ UNCHANGED <<nextID, stack, ghostVars>>

(* The guest closes a proxy (handle_release_explicit): one reference goes, *)
(* and the finalizer with it.  Of a dead handle it fails, and the proxy    *)
(* stays as it is.                                                         *)
Close(p) ==
  /\ p \in open /\ p.id \in Live
  /\ entries' = Less(entries, Once(p.id))
  /\ bridged' = Forget(bridged, Gone(Once(p.id)))
  /\ open' = open \ {p}
  /\ UNCHANGED <<nextID, stack, queue, ghostVars>>

(* A collector takes a proxy, at any time, and its finalizer runs          *)
(* (handle_release_finalizer): the release is queued, if the handle is     *)
(* still there.  A finalizer that comes late is one more release that has  *)
(* not been drained.                                                       *)
Collect(p) ==
  /\ p \in open
  /\ queue[p.id] < MaxPending
  /\ open' = open \ {p}
  /\ queue' = IF p.id \in Live THEN [queue EXCEPT ![p.id] = @ + 1] ELSE queue
  /\ UNCHANGED <<tableVars, stack, ghostVars>>

Next ==
  \/ \E g \in Guests, o \in Objects : Capture(g, o)
  \/ \E w \in Owners : OpenResource(w)
  \/ \E g \in Guests, h \in Handle : CaptureRef(g, h)
  \/ \E g \in JobGuests, j \in Jobs : CaptureJob(g, j)
  \/ \E g \in Guests : Enter(g)
  \/ \E o \in Objects : Return(o)
  \/ \E h \in Handle : ReturnMarker(h)
  \/ ReturnNothing
  \/ \E h \in Handle : Finish(h)
  \/ Drain
  \/ EndRun
  \/ DrainWorker
  \/ \E p \in open, o \in Objects : Get(p, o)
  \/ \E p \in open : Close(p)
  \/ \E p \in open : Collect(p)

Spec == Init /\ [][Next]_vars

(* Every op of the executor and every boundary of the host ends with a drain. *)
FairSpec ==
  /\ Spec
  /\ WF_vars(Drain)

----------------------------------------------------------------------------
(* Properties.                                                             *)

TypeOK ==
  /\ entries \in [Live -> Entry] /\ Live \subseteq 1..(nextID - 1)
  /\ \A h \in Live : entries[h].refs > 0
  /\ nextID \in 1..(MaxHandles + 1)
  /\ bridged \in [Objects -> Handle \union {None}]
  /\ stack \in Seq(Guests) /\ Depth <= MaxDepth
  /\ open \subseteq Proxy
  /\ queue \in [Handle -> Nat]
  /\ fate \in [Handle -> Fate] /\ crossed \subseteq Objects

Holders(h) == Cardinality({p \in open : p.id = h}) + queue[h]

(* Every reference of a handle has an owner that will give it up: a proxy, *)
(* a queued release, or the registration as long as nobody has adopted it. *)
ReferencesAreOwned ==
  \A h \in Live : fate[h] = "sound" =>
    entries[h].refs = Holders(h) + (IF entries[h].adopted THEN 0 ELSE 1)

(* A proxy that is neither closed nor collected names a live handle, until *)
(* the owner ends it: other proxies of the value may come, be collected    *)
(* and be closed in any guest, and what a function returned outlives the   *)
(* scope it was made in.                                                   *)
OwnedProxiesAreLive ==
  \A p \in open : fate[p.id] = "sound" => p.id \in Live

(* A value has one handle, and so one proxy in each guest, however it is   *)
(* reached; unless it was reached through different runtimes, or its       *)
(* handle outlived the executor that knew it.                              *)
IdentityIsKept ==
  \A h, i \in Live :
    /\ entries[h].object = entries[i].object /\ entries[h].object # None
    /\ entries[h].object \notin crossed
    => h = i

(* Nobody holds h any more.                                                *)
Unused(h) ==
  /\ h \in Live /\ fate[h] = "sound" /\ entries[h].adopted
  /\ \A p \in open : p.id # h

(* A value that was handed over is released once the proxies of it are     *)
(* gone.                                                                   *)
UnusedIsReleased == \A h \in Handle : Unused(h) ~> ~Unused(h)
=============================================================================
