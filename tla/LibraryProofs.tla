--------------------------- MODULE LibraryProofs ---------------------------
(***************************************************************************)
(* Proofs about Library.  One lock serves runs, loads, calls and           *)
(* cooperative runs, some of which keep it from one entry of the host to   *)
(* another: for any number of entries, executors, guest calls and threads  *)
(* it is held by at most one manifest, whose executor is the one wired.    *)
(*                                                                         *)
(* And about UnitCache, which the workers of a server share: for any       *)
(* number of processes, goroutines, units and deaths, a build gets what it *)
(* asked for, and fails for nothing but its unit and a dead one's litter.  *)
(***************************************************************************)
EXTENDS Library, UnitCache, FiniteSetTheorems, TLAPS

----------------------------------------------------------------------------
(* Sequences                                                               *)

(* A sequence with one element replaced.                                   *)
LEMMA Replaced ==
  ASSUME NEW S, NEW s \in Seq(S), NEW i \in DOMAIN s, NEW e \in S, NEW t,
         t = [s EXCEPT ![i] = e]
  PROVE  /\ t \in Seq(S) /\ Len(t) = Len(s) /\ DOMAIN t = DOMAIN s
         /\ \A j \in DOMAIN s : t[j] = IF j = i THEN e ELSE s[j]
  OBVIOUS

(* A sequence with one element more at its end ...                         *)
LEMMA Appended ==
  ASSUME NEW S, NEW s \in Seq(S), NEW e \in S, NEW t, t = Append(s, e)
  PROVE  /\ t \in Seq(S) /\ Len(t) = Len(s) + 1 /\ t # << >>
         /\ DOMAIN t = DOMAIN s \cup {Len(s) + 1} /\ Len(s) + 1 \notin DOMAIN s
         /\ \A j \in DOMAIN s : t[j] = s[j]
         /\ t[Len(s) + 1] = e
  OBVIOUS

(* ... or without its last ...                                             *)
LEMMA Fronted ==
  ASSUME NEW S, NEW s \in Seq(S), s # << >>, NEW t, t = Front(s)
  PROVE  /\ t \in Seq(S) /\ Len(t) = Len(s) - 1 /\ DOMAIN t = DOMAIN s \ {Len(s)}
         /\ \A j \in DOMAIN t : t[j] = s[j]
  <1>1. Len(s) \in Nat /\ Len(s) >= 1 /\ DOMAIN s = 1..Len(s)
    OBVIOUS
  <1>2. Len(s) - 1 \in Nat /\ \A j \in 1..Len(s) - 1 : j \in DOMAIN s /\ s[j] \in S
    BY <1>1
  <1>3. t = SubSeq(s, 1, Len(s) - 1)
    BY DEF Front
  <1>4. t = [j \in 1..Len(s) - 1 |-> s[j]]
    BY <1>1, <1>3
  <1>5. Len(t) = Len(s) - 1 /\ t \in Seq(S)
    BY <1>2, <1>4
  <1> QED BY <1>1, <1>4, <1>5

(* ... or without its first.                                               *)
LEMMA Tailed ==
  ASSUME NEW S, NEW s \in Seq(S), s # << >>, NEW t, t = Tail(s)
  PROVE  /\ t \in Seq(S) /\ Len(t) = Len(s) - 1 /\ Head(s) = s[1] /\ Head(s) \in S
         /\ 1 \in DOMAIN s
         /\ \A j \in DOMAIN t : j + 1 \in DOMAIN s /\ t[j] = s[j + 1] /\ j \in Nat
  OBVIOUS

(* The last element of a sequence.                                         *)
LEMMA LastOf ==
  ASSUME NEW S, NEW s \in Seq(S), s # << >>
  PROVE  Len(s) \in DOMAIN s /\ Last(s) = s[Len(s)] /\ Last(s) \in S
  BY DEF Last

----------------------------------------------------------------------------
(* The invariant                                                           *)

Holds(i) == stack[i].at = "body" /\ stack[i].op \in Holding
Serves(i, x) == stack[i].op = "task" /\ stack[i].caller = x
Busy == {"orchestrating", "calling"}

(* Only the entry on top waits for the lock, and a shutdown enters first.  *)
FrameOK(f) ==
  /\ f.op \in Holding \cup {"submit"} => f.exec \in Execs
  /\ f.at = "body" => f.op \in Holding \cup {"direct", "task"}
  /\ f.op = "task" => f.at = "body" /\ f.caller \in Execs \cup Foreign
  /\ f.op # "task" => f.caller = 0
Frames == \A i \in DOMAIN stack :
  /\ FrameOK(stack[i])
  /\ i # Len(stack) => stack[i].at = "body"
  /\ stack[i].op = "shutdown" => i = 1

(* The lock is held for a cooperative run or by one entry, and the wiring  *)
(* is its own.                                                             *)
Owner(i) ==
  /\ locked /\ coopRuns = {}
  /\ manifestExecutor = stack[i].exec /\ stack[i].prev = 0 /\ ~stack[i].prevFallback
  /\ stack[i].op = "call" => ~useGoFallback
  /\ \A j \in DOMAIN stack : Holds(j) => j = i
Lock ==
  /\ ~locked => manifestExecutor = 0 /\ ~useGoFallback /\ coopRuns = {}
  /\ locked => coopRuns # {} \/ \E i \in DOMAIN stack : Holds(i)
  /\ \A x \in coopRuns : /\ locked /\ coopRuns = {x} /\ manifestExecutor = x
                         /\ \A i \in DOMAIN stack : ~Holds(i)
  /\ \A i \in DOMAIN stack : Holds(i) => Owner(i)

(* A run has at most one guest call under way, queued or being served.     *)
Calls ==
  /\ \A x \in Execs : job[x] \in Busy => x \in coopRuns
  /\ \A k \in DOMAIN queue : queue[k] \in Execs => job[queue[k]] = "calling"
  /\ \A i \in DOMAIN stack, x \in Execs : Serves(i, x) => job[x] = "calling"
  /\ \A k, l \in DOMAIN queue : queue[k] \in Execs /\ queue[k] = queue[l] => k = l
  /\ \A i, j \in DOMAIN stack, x \in Execs : Serves(i, x) /\ Serves(j, x) => i = j
  /\ \A i \in DOMAIN stack, k \in DOMAIN queue, x \in Execs : Serves(i, x) => queue[k] # x

Ended == ~initialized => stack = << >> /\ ~locked

Inv == TypeOK /\ Frames /\ Lock /\ Calls /\ Ended

LEMMA Names == Foreign \cap Execs = {} /\ 0 \notin Foreign /\ 0 \notin Execs
               /\ Execs \subseteq 0..MaxExecs
  BY LibraryAssumption DEF Execs

LEMMA InvInit == ASSUME Init PROVE Inv
  <1>1. DOMAIN stack = {} /\ DOMAIN queue = {} /\ coopRuns = {}
    BY DEF Init
  <1>2. TypeOK
    <2>1. << >> \in Seq(Entry) /\ << >> \in Seq(Execs \cup Foreign)
      OBVIOUS
    <2>2. 0 \in 0..MaxExecs /\ 0 \in 0..MaxCalls /\ 0 \in 0..MaxEntries
      BY LibraryAssumption
    <2>3. /\ job \in [Execs -> {"none", "orchestrating", "calling", "over"}]
          /\ foreign \in [Foreign -> {"idle", "calling"}]
      BY DEF Init
    <2> QED BY <2>1, <2>2, <2>3 DEF Init, TypeOK
  <1>3. Frames /\ Lock
    BY <1>1 DEF Init, Frames, Lock
  <1>4. Calls
    BY <1>1 DEF Init, Calls, Busy
  <1>5. Ended
    BY DEF Init, Ended
  <1> QED BY <1>2, <1>3, <1>4, <1>5 DEF Inv

(* The stack grows by a frame that waits for the lock, runs code that      *)
(* needs none, or serves a call.                                           *)
FrameOf(op, place, x, caller) ==
  [op |-> op, at |-> place, exec |-> x, caller |-> caller, prev |-> 0, prevFallback |-> FALSE]

LEMMA Begun ==
  ASSUME TypeOK, NEW op \in Ops, NEW place \in {"locking", "body"}, NEW x \in 0..MaxExecs,
         NEW c \in {0} \cup Execs \cup Foreign, Begin(op, place, x, c)
  PROVE  /\ stack' \in Seq(Entry) /\ stack' # << >> /\ Len(stack') = Len(stack) + 1
         /\ Len(stack) \in Nat
         /\ DOMAIN stack' = DOMAIN stack \cup {Len(stack')} /\ Len(stack') \notin DOMAIN stack
         /\ \A i \in DOMAIN stack : stack'[i] = stack[i]
         /\ stack'[Len(stack')] = FrameOf(op, place, x, c)
  <1>1. FrameOf(op, place, x, c) \in Entry
    BY LibraryAssumption DEF FrameOf, Entry
  <1>2. stack \in Seq(Entry) /\ stack' = Append(stack, FrameOf(op, place, x, c))
    BY DEF TypeOK, Begin, FrameOf
  <1> HIDE DEF FrameOf
  <1> QED BY <1>1, <1>2, Appended

LEMMA Popped ==
  ASSUME TypeOK, stack # << >>, Pop
  PROVE  /\ stack' \in Seq(Entry) /\ DOMAIN stack' = DOMAIN stack \ {Len(stack)}
         /\ Len(stack') = Len(stack) - 1 /\ Len(stack) \in Nat
         /\ \A i \in DOMAIN stack' : i \in DOMAIN stack /\ stack'[i] = stack[i]
         /\ Len(stack) \in DOMAIN stack /\ Top = stack[Len(stack)] /\ Top \in Entry
  <1>1. stack \in Seq(Entry) /\ stack' = Front(stack)
    BY DEF TypeOK, Pop
  <1>2. Len(stack) \in DOMAIN stack /\ Top = stack[Len(stack)] /\ Top \in Entry
    BY <1>1, LastOf DEF Top
  <1>3. /\ stack' \in Seq(Entry) /\ DOMAIN stack' = DOMAIN stack \ {Len(stack)}
        /\ Len(stack') = Len(stack) - 1
        /\ \A i \in DOMAIN stack' : stack'[i] = stack[i]
    BY <1>1, Fronted
  <1> QED BY <1>1, <1>2, <1>3

LEMMA FramesPopped == ASSUME Inv, stack # << >>, Pop PROVE Frames'
  BY Popped DEF Inv, Frames, FrameOK

LEMMA FramesBegun ==
  ASSUME Inv, GuestRuns, NEW op \in Ops, NEW place \in {"locking", "body"},
         NEW x \in 0..MaxExecs, NEW c \in {0} \cup Execs \cup Foreign, Begin(op, place, x, c),
         FrameOK(FrameOf(op, place, x, c)), op = "shutdown" => stack = << >>
  PROVE  Frames'
  <1>1. \A i \in DOMAIN stack : FrameOK(stack[i]) /\ (i # Len(stack) => stack[i].at = "body")
                                /\ (stack[i].op = "shutdown" => i = 1)
    BY DEF Inv, Frames
  <1>2. \A i \in DOMAIN stack : stack[i].at = "body"
    <2> SUFFICES ASSUME NEW i \in DOMAIN stack PROVE stack[i].at = "body"
      OBVIOUS
    <2>1. stack \in Seq(Entry) /\ stack # << >>
      BY DEF Inv, TypeOK
    <2>2. Top = stack[Len(stack)]
      BY <2>1, LastOf DEF Top
    <2> QED BY <1>1, <2>1, <2>2 DEF GuestRuns
  <1>3. TypeOK
    BY DEF Inv
  <1>4. /\ DOMAIN stack' = DOMAIN stack \cup {Len(stack')}
        /\ \A i \in DOMAIN stack : stack'[i] = stack[i]
        /\ stack'[Len(stack')] = FrameOf(op, place, x, c)
        /\ Len(stack') = Len(stack) + 1
    BY <1>3, Begun
  <1>5. op = "shutdown" => Len(stack') = 1
    BY <1>4
  <1>6. FrameOf(op, place, x, c).op = op
    BY DEF FrameOf
  <1>7. ASSUME NEW i \in DOMAIN stack'
        PROVE  /\ FrameOK(stack'[i]) /\ (i # Len(stack') => stack'[i].at = "body")
               /\ (stack'[i].op = "shutdown" => i = 1)
    BY <1>1, <1>2, <1>4, <1>5, <1>6
  <1> QED BY <1>7 DEF Frames, FrameOK

(* The steps that change neither who holds the lock nor which calls are    *)
(* being served.                                                           *)
SameHolders ==
  /\ \A i \in DOMAIN stack' :
       (Holds(i))' => i \in DOMAIN stack /\ Holds(i) /\ stack'[i] = stack[i]
  /\ \A i \in DOMAIN stack : Holds(i) => i \in DOMAIN stack' /\ (Holds(i))'
FewerServed ==
  \A i \in DOMAIN stack', x \in Execs :
    (Serves(i, x))' => i \in DOMAIN stack /\ Serves(i, x)

LEMMA SameStack == ASSUME UNCHANGED stack PROVE SameHolders /\ FewerServed
  BY DEF SameHolders, FewerServed, Holds, Serves

LEMMA LockKept ==
  ASSUME Inv, UNCHANGED <<wiring, coopRuns>>, SameHolders PROVE Lock'
  <1>1. /\ locked' = locked /\ coopRuns' = coopRuns
        /\ manifestExecutor' = manifestExecutor /\ useGoFallback' = useGoFallback
    BY DEF wiring
  <1>2. (~locked => manifestExecutor = 0 /\ ~useGoFallback /\ coopRuns = {})'
    BY <1>1 DEF Inv, Lock
  <1>3. (locked => coopRuns # {} \/ \E i \in DOMAIN stack : Holds(i))'
    BY <1>1 DEF Inv, Lock, SameHolders
  <1>4. (\A x \in coopRuns : /\ locked /\ coopRuns = {x} /\ manifestExecutor = x
                             /\ \A i \in DOMAIN stack : ~Holds(i))'
    BY <1>1 DEF Inv, Lock, SameHolders
  <1>5. ASSUME NEW i \in DOMAIN stack', (Holds(i))' PROVE (Owner(i))'
    BY <1>1, <1>5 DEF Inv, Lock, SameHolders, Owner
  <1> QED BY <1>2, <1>3, <1>4, <1>5 DEF Lock

LEMMA CallsKept ==
  ASSUME Inv, UNCHANGED <<job, queue, coopRuns>>, FewerServed PROVE Calls'
  BY DEF Inv, Calls, FewerServed

LEMMA QuietBegun ==
  ASSUME TypeOK, NEW op \in Ops, NEW place \in {"locking", "body"}, NEW x \in 0..MaxExecs,
         NEW c \in {0} \cup Execs \cup Foreign, Begin(op, place, x, c)
  PROVE  /\ place = "locking" \/ op \notin Holding => SameHolders
         /\ op # "task" => FewerServed
  <1>1. /\ DOMAIN stack' = DOMAIN stack \cup {Len(stack')}
        /\ \A i \in DOMAIN stack : stack'[i] = stack[i]
        /\ stack'[Len(stack')] = FrameOf(op, place, x, c)
    BY Begun
  <1>2. FrameOf(op, place, x, c).op = op /\ FrameOf(op, place, x, c).at = place
    BY DEF FrameOf
  <1>3. place = "locking" \/ op \notin Holding => SameHolders
    BY <1>1, <1>2 DEF SameHolders, Holds
  <1>4. op # "task" => FewerServed
    BY <1>1, <1>2 DEF FewerServed, Serves
  <1> QED BY <1>3, <1>4

LEMMA QuietPopped ==
  ASSUME TypeOK, stack # << >>, Pop
  PROVE  /\ Top.at = "locking" \/ Top.op \notin Holding => SameHolders
         /\ FewerServed
  <1>1. /\ DOMAIN stack' = DOMAIN stack \ {Len(stack)}
        /\ \A i \in DOMAIN stack' : i \in DOMAIN stack /\ stack'[i] = stack[i]
        /\ Top = stack[Len(stack)]
    BY Popped
  <1>2. Top.at = "locking" \/ Top.op \notin Holding => SameHolders
    BY <1>1 DEF SameHolders, Holds
  <1>3. FewerServed
    BY <1>1 DEF FewerServed, Serves
  <1> QED BY <1>2, <1>3

----------------------------------------------------------------------------
(* The steps                                                               *)

LEMMA InvEnter == ASSUME Inv, NEW op \in Ops, Enter(op) PROVE Inv'
  <1>1. TypeOK /\ initialized /\ GuestRuns /\ initialized' = initialized
    BY DEF Inv, Enter
  <1>2. /\ UNCHANGED <<wiring, coopRuns>> /\ UNCHANGED <<job, queue, coopRuns>>
        /\ UNCHANGED <<manifestModules, forsaken, foreign, handles, calls>>
    BY DEF Enter
  <1>3. made' \in 0..MaxExecs /\ entries' \in 0..MaxEntries /\ made \in 0..MaxExecs
    BY <1>1, LibraryAssumption DEF Enter, TypeOK
  <1>4. \E place \in {"locking", "body"}, x \in 0..MaxExecs :
          /\ Begin(op, place, x, 0) /\ op # "task"
          /\ place = "body" => op = "direct"
          /\ op \in Holding \cup {"submit"} => x \in Execs
          /\ op = "shutdown" => stack = << >>
    <2> DEFINE P(place, x) == /\ Begin(op, place, x, 0) /\ op # "task"
                              /\ place = "body" => op = "direct"
                              /\ op \in Holding \cup {"submit"} => x \in Execs
                              /\ op = "shutdown" => stack = << >>
    <2>1. CASE op \in {"run", "load", "submit"} /\ made < MaxExecs /\ Begin(op, "locking", made + 1, 0)
      <3>1. made + 1 \in 0..MaxExecs /\ made + 1 \in Execs
        BY <1>3, <2>1, LibraryAssumption DEF Execs
      <3>2. P("locking", made + 1)
        BY <2>1, <3>1
      <3> HIDE DEF P
      <3>3. \E place \in {"locking", "body"}, x \in 0..MaxExecs : P(place, x)
        BY <3>1, <3>2
      <3> QED BY <3>3 DEF P
    <2>2. CASE op = "call" /\ \E x \in 1..made : Begin(op, "locking", x, 0)
      <3>1. PICK x \in 1..made : Begin(op, "locking", x, 0)
        BY <2>2
      <3>2. x \in 0..MaxExecs /\ x \in Execs
        BY <1>3, LibraryAssumption DEF Execs
      <3>3. P("locking", x)
        BY <2>2, <3>1, <3>2
      <3> HIDE DEF P
      <3>4. \E place \in {"locking", "body"}, y \in 0..MaxExecs : P(place, y)
        BY <3>2, <3>3
      <3> QED BY <3>4 DEF P
    <2>3. CASE op = "drain" /\ Begin(op, "locking", 0, 0)
      <3>1. P("locking", 0) /\ 0 \in 0..MaxExecs
        BY <2>3, LibraryAssumption DEF Holding
      <3> HIDE DEF P
      <3>2. \E place \in {"locking", "body"}, x \in 0..MaxExecs : P(place, x)
        BY <3>1
      <3> QED BY <3>2 DEF P
    <2>4. CASE op = "shutdown" /\ stack = << >> /\ Begin(op, "locking", 0, 0)
      <3>1. P("locking", 0) /\ 0 \in 0..MaxExecs
        BY <2>4, LibraryAssumption DEF Holding
      <3> HIDE DEF P
      <3>2. \E place \in {"locking", "body"}, x \in 0..MaxExecs : P(place, x)
        BY <3>1
      <3> QED BY <3>2 DEF P
    <2>5. CASE op = "direct" /\ Begin(op, "body", 0, 0)
      <3>1. P("body", 0) /\ 0 \in 0..MaxExecs
        BY <2>5, LibraryAssumption DEF Holding
      <3> HIDE DEF P
      <3>2. \E place \in {"locking", "body"}, x \in 0..MaxExecs : P(place, x)
        BY <3>1
      <3> QED BY <3>2 DEF P
    <2> QED BY <2>1, <2>2, <2>3, <2>4, <2>5 DEF Enter
  <1>5. PICK place \in {"locking", "body"}, x \in 0..MaxExecs :
          /\ Begin(op, place, x, 0) /\ op # "task"
          /\ place = "body" => op = "direct"
          /\ op \in Holding \cup {"submit"} => x \in Execs
          /\ op = "shutdown" => stack = << >>
    BY <1>4
  <1>6. 0 \in {0} \cup Execs \cup Foreign
    OBVIOUS
  <1>7. FrameOK(FrameOf(op, place, x, 0))
    <2>1. /\ FrameOf(op, place, x, 0).op = op /\ FrameOf(op, place, x, 0).at = place
          /\ FrameOf(op, place, x, 0).exec = x /\ FrameOf(op, place, x, 0).caller = 0
      BY DEF FrameOf
    <2> QED BY <1>5, <2>1 DEF FrameOK
  <1>8. stack' \in Seq(Entry)
    BY <1>1, <1>5, <1>6, Begun
  <1>9. Frames'
    BY <1>1, <1>5, <1>6, <1>7, FramesBegun
  <1>10. SameHolders /\ FewerServed
    BY <1>1, <1>5, <1>6, QuietBegun DEF Holding
  <1>11. Lock' /\ Calls'
    BY <1>2, <1>10, LockKept, CallsKept
  <1>12. TypeOK'
    BY <1>1, <1>2, <1>3, <1>8 DEF TypeOK, wiring
  <1>13. Ended'
    BY <1>1 DEF Ended
  <1> QED BY <1>9, <1>11, <1>12, <1>13 DEF Inv

(* A step that takes a frame off the stack, which did not hold the lock.   *)
LEMMA PopQuietly ==
  ASSUME Inv, stack # << >>, Pop, Top.at = "locking" \/ Top.op \notin Holding
  PROVE  /\ stack' \in Seq(Entry) /\ Frames' /\ SameHolders /\ FewerServed
         /\ initialized
  BY Popped, FramesPopped, QuietPopped DEF Inv, Ended

LEMMA InvCallFails == ASSUME Inv, CallFails PROVE Inv'
  <1>1. stack # << >> /\ Pop /\ Top.at = "locking" /\ ~locked
    BY DEF CallFails, Locking
  <1>2. stack' \in Seq(Entry) /\ Frames' /\ SameHolders /\ FewerServed /\ initialized
    BY <1>1, PopQuietly
  <1>3. /\ UNCHANGED <<wiring, coopRuns>> /\ UNCHANGED <<job, queue, coopRuns>>
        /\ UNCHANGED <<initialized, manifestModules, forsaken, foreign, handles, counts>>
    BY <1>1 DEF CallFails, wiring, Inv, TypeOK
  <1>4. Lock' /\ Calls'
    BY <1>2, <1>3, LockKept, CallsKept
  <1>5. TypeOK' /\ Ended'
    BY <1>2, <1>3 DEF Inv, TypeOK, Ended, wiring, counts
  <1> QED BY <1>2, <1>4, <1>5 DEF Inv

LEMMA InvLeaveDirect == ASSUME Inv, LeaveDirect PROVE Inv'
  <1>1. stack # << >> /\ Pop /\ Top.op \notin Holding
    BY DEF LeaveDirect, Holding
  <1>2. stack' \in Seq(Entry) /\ Frames' /\ SameHolders /\ FewerServed /\ initialized
    BY <1>1, PopQuietly
  <1>3. /\ UNCHANGED <<wiring, coopRuns>> /\ UNCHANGED <<job, queue, coopRuns>>
        /\ UNCHANGED <<initialized, manifestModules, forsaken, foreign, handles, counts>>
    BY DEF LeaveDirect
  <1>4. Lock' /\ Calls'
    BY <1>2, <1>3, LockKept, CallsKept
  <1>5. TypeOK' /\ Ended'
    BY <1>2, <1>3 DEF Inv, TypeOK, Ended, wiring, counts
  <1> QED BY <1>2, <1>4, <1>5 DEF Inv

(* Drain, Shutdown and ForeignDrain: nothing was wired.                    *)
LEMMA Unwired ==
  ASSUME Inv, ~locked, Unload, UNCHANGED <<locked, useGoFallback, coopRuns>>
  PROVE  /\ UNCHANGED <<wiring, coopRuns>>
         /\ manifestModules' \subseteq Execs /\ handles' \subseteq Execs
         /\ manifestExecutor' \in 0..MaxExecs
  BY DEF Inv, TypeOK, Lock, Unload, wiring

LEMMA InvDrain == ASSUME Inv, Drain \/ Shutdown PROVE Inv'
  <1>1. stack # << >> /\ Pop /\ Top.at = "locking" /\ ~locked /\ Unload
    BY DEF Drain, Shutdown, Locking
  <1>2. stack' \in Seq(Entry) /\ Frames' /\ SameHolders /\ FewerServed /\ initialized
    BY <1>1, PopQuietly
  <1>3. /\ UNCHANGED <<locked, useGoFallback, coopRuns>> /\ UNCHANGED <<job, queue, coopRuns>>
        /\ UNCHANGED <<forsaken, foreign, counts>>
    BY DEF Drain, Shutdown
  <1>4. /\ UNCHANGED <<wiring, coopRuns>>
        /\ manifestModules' \subseteq Execs /\ handles' \subseteq Execs
    BY <1>1, <1>3, Unwired
  <1>5. Lock' /\ Calls'
    BY <1>2, <1>3, <1>4, LockKept, CallsKept
  <1>6. initialized' = initialized \/ (initialized' = FALSE /\ Top.op = "shutdown")
    BY DEF Drain, Shutdown, Locking
  <1>7. TypeOK'
    BY <1>2, <1>3, <1>4, <1>6 DEF Inv, TypeOK, wiring, counts
  <1>8. Top.op = "shutdown" => stack' = << >>
    <2>1. /\ Len(stack) \in DOMAIN stack /\ Top = stack[Len(stack)]
          /\ Len(stack') = Len(stack) - 1 /\ stack' \in Seq(Entry)
      BY <1>1, Popped DEF Inv
    <2>2. Top.op = "shutdown" => Len(stack) = 1
      BY <2>1 DEF Inv, Frames
    <2>3. ASSUME Top.op = "shutdown" PROVE stack' = << >>
      <3>1. Len(stack) = 1 /\ Len(stack') = Len(stack) - 1
        BY <2>1, <2>2, <2>3, Zenon
      <3>2. Len(stack') = 0
        BY <3>1
      <3> QED BY <2>1, <3>2
    <2> QED BY <2>3
  <1>9. Ended'
    BY <1>1, <1>2, <1>3, <1>6, <1>8 DEF Ended
  <1> QED BY <1>2, <1>5, <1>7, <1>9 DEF Inv

LEMMA InvForeignDrain == ASSUME Inv, NEW f \in Foreign, ForeignDrain(f) PROVE Inv'
  <1>1. /\ ~locked /\ Unload
        /\ UNCHANGED <<locked, useGoFallback, coopRuns>> /\ UNCHANGED <<job, queue, coopRuns>>
        /\ UNCHANGED <<initialized, forsaken, foreign, stack, counts>>
    BY DEF ForeignDrain
  <1>2. SameHolders /\ FewerServed
    BY <1>1, SameStack
  <1>3. /\ UNCHANGED <<wiring, coopRuns>>
        /\ manifestModules' \subseteq Execs /\ handles' \subseteq Execs
    BY <1>1, Unwired
  <1>4. Lock' /\ Calls'
    BY <1>1, <1>2, <1>3, LockKept, CallsKept
  <1>5. TypeOK' /\ Ended' /\ Frames'
    BY <1>1, <1>3 DEF Inv, TypeOK, Ended, Frames, wiring, counts
  <1> QED BY <1>4, <1>5 DEF Inv

Wired(e, p, b) == [e EXCEPT !.at = "body", !.prev = p, !.prevFallback = b]

LEMMA FrameWired ==
  ASSUME NEW e \in Entry, NEW p \in 0..MaxExecs, NEW b \in BOOLEAN
  PROVE  /\ Wired(e, p, b) \in Entry /\ Wired(e, p, b).op = e.op
         /\ Wired(e, p, b).at = "body" /\ Wired(e, p, b).exec = e.exec
         /\ Wired(e, p, b).caller = e.caller /\ Wired(e, p, b).prev = p
         /\ Wired(e, p, b).prevFallback = b
  <1>1. Wired(e, p, b) \in Entry
    BY DEF Wired, Entry
  <1>2. /\ Wired(e, p, b).op = e.op /\ Wired(e, p, b).exec = e.exec
        /\ Wired(e, p, b).caller = e.caller
    BY DEF Wired, Entry
  <1>3. Wired(e, p, b).at = "body" /\ Wired(e, p, b).prev = p
    BY DEF Wired, Entry
  <1>4. Wired(e, p, b).prevFallback = b
    BY DEF Wired, Entry
  <1> QED BY <1>1, <1>2, <1>3, <1>4

(* The entry on top takes the lock.                                        *)
LEMMA InvAcquire == ASSUME Inv, Acquire PROVE Inv'
  <1> DEFINE n == Len(stack)
             f == Wired(Top, manifestExecutor, useGoFallback)
  <1>1. /\ stack # << >> /\ Top.at = "locking" /\ Top.op \in Holding /\ ~locked
        /\ locked' = TRUE /\ manifestExecutor' = Top.exec
        /\ useGoFallback' = (useGoFallback \/ Top.op # "call")
        /\ stack' = [stack EXCEPT ![n] = f]
        /\ UNCHANGED <<job, queue, coopRuns>>
        /\ UNCHANGED <<initialized, manifestModules, forsaken, foreign, handles, counts>>
    <2>1. stack \in Seq(Entry) /\ stack # << >>
      BY DEF Inv, TypeOK, Acquire, Locking
    <2>2. Top = stack[n] /\ n \in DOMAIN stack
      BY <2>1, LastOf DEF Top
    <2> QED BY <2>1, <2>2 DEF Acquire, Wire, Locking, Wired
  <1>2. manifestExecutor = 0 /\ ~useGoFallback /\ coopRuns = {}
    BY <1>1 DEF Inv, Lock
  <1>3. n \in DOMAIN stack /\ Top = stack[n] /\ Top \in Entry /\ stack \in Seq(Entry)
    BY <1>1, LastOf DEF Inv, TypeOK, Top
  <1>4. /\ f \in Entry /\ f.op = Top.op /\ f.at = "body" /\ f.exec = Top.exec
        /\ f.caller = Top.caller /\ f.prev = 0 /\ ~f.prevFallback
    <2>1. useGoFallback = FALSE /\ manifestExecutor \in 0..MaxExecs
      BY <1>2 DEF Inv, TypeOK
    <2>2. Top \in Entry
      BY <1>3
    <2>3. /\ f \in Entry /\ f.op = Top.op /\ f.at = "body" /\ f.exec = Top.exec
          /\ f.caller = Top.caller /\ f.prev = manifestExecutor
          /\ f.prevFallback = useGoFallback
      BY <2>1, <2>2, FrameWired
    <2> HIDE DEF f
    <2> QED BY <1>2, <2>1, <2>3
  <1> HIDE DEF f
  <1>5. /\ stack' \in Seq(Entry) /\ DOMAIN stack' = DOMAIN stack /\ Len(stack') = n
        /\ \A i \in DOMAIN stack : stack'[i] = IF i = n THEN f ELSE stack[i]
    BY <1>1, <1>3, <1>4, Replaced
  <1>6. \A i \in DOMAIN stack : ~Holds(i)
    BY <1>1 DEF Inv, Lock, Owner
  <1>7. Top.exec \in Execs /\ FrameOK(f)
    BY <1>1, <1>3, <1>4 DEF Inv, Frames, FrameOK, Holding
  <1>8. Frames'
    BY <1>3, <1>4, <1>5, <1>7 DEF Inv, Frames, FrameOK
  <1>9. (Owner(n))' /\ (Holds(n))' /\ \A i \in DOMAIN stack' : (Holds(i))' => i = n
    BY <1>1, <1>2, <1>3, <1>4, <1>5, <1>6 DEF Holds, Owner
  <1>10. Lock'
    <2>1. coopRuns' = {} /\ locked' /\ n \in DOMAIN stack'
      BY <1>1, <1>2, <1>3, <1>5
    <2> QED BY <1>9, <2>1 DEF Lock
  <1>11. FewerServed
    BY <1>3, <1>4, <1>5 DEF FewerServed, Serves
  <1>12. Calls'
    BY <1>1, <1>11, CallsKept
  <1>13. TypeOK'
    BY <1>1, <1>3, <1>5, <1>7 DEF Inv, TypeOK, Execs, counts
  <1>14. Ended'
    BY <1>1 DEF Inv, Ended
  <1> QED BY <1>8, <1>10, <1>12, <1>13, <1>14 DEF Inv

LEMMA InvLeave == ASSUME Inv, Leave PROVE Inv'
  <1>1. /\ stack # << >> /\ Top.at = "body" /\ Top.op \in Holding /\ Pop
        /\ locked' = FALSE /\ manifestExecutor' = Top.prev
        /\ useGoFallback' = IF Top.op = "call" THEN useGoFallback ELSE Top.prevFallback
        /\ UNCHANGED <<job, queue, coopRuns>>
        /\ UNCHANGED <<initialized, forsaken, foreign, handles, counts>>
    BY DEF Leave
  <1>2. /\ stack' \in Seq(Entry) /\ DOMAIN stack' = DOMAIN stack \ {Len(stack)}
        /\ \A i \in DOMAIN stack' : i \in DOMAIN stack /\ stack'[i] = stack[i]
        /\ Len(stack) \in DOMAIN stack /\ Top = stack[Len(stack)]
    BY <1>1, Popped DEF Inv
  <1>3. Holds(Len(stack)) /\ Owner(Len(stack)) /\ initialized
    BY <1>1, <1>2 DEF Inv, Lock, Holds, Ended
  <1>4. manifestExecutor' = 0 /\ ~useGoFallback' /\ coopRuns' = {}
    BY <1>1, <1>2, <1>3 DEF Owner
  <1>5. \A i \in DOMAIN stack' : ~(Holds(i))'
    BY <1>2, <1>3 DEF Owner, Holds
  <1>6. Lock'
    BY <1>1, <1>4, <1>5 DEF Lock
  <1>7. Frames' /\ FewerServed
    BY <1>1, FramesPopped, QuietPopped DEF Inv
  <1>8. Calls'
    BY <1>1, <1>7, CallsKept
  <1>9. manifestModules' \subseteq Execs
    BY <1>2 DEF Leave, Inv, TypeOK, Frames, FrameOK, Holding
  <1>10. useGoFallback' \in BOOLEAN /\ manifestExecutor' \in 0..MaxExecs
    <2>1. Top \in Entry
      BY <1>1, Popped DEF Inv
    <2>2. Top.prevFallback \in BOOLEAN /\ Top.prev \in 0..MaxExecs
      BY <2>1 DEF Entry
    <2> QED BY <1>1, <2>2 DEF Inv, TypeOK
  <1>11. TypeOK'
    BY <1>1, <1>2, <1>9, <1>10 DEF Inv, TypeOK, counts
  <1>12. Ended'
    BY <1>1, <1>3 DEF Ended
  <1> QED BY <1>6, <1>7, <1>8, <1>11, <1>12 DEF Inv

(* A cooperative run takes the lock and leaves its frame.                  *)
LEMMA InvSubmit == ASSUME Inv, Submit PROVE Inv'
  <1> DEFINE x == Top.exec
  <1>1. /\ stack # << >> /\ Top.at = "locking" /\ Top.op = "submit" /\ ~locked /\ Pop
        /\ locked' = TRUE /\ manifestExecutor' = x
        /\ useGoFallback' = (useGoFallback \/ Top.op # "call")
        /\ coopRuns' = coopRuns \cup {x} /\ job' = [job EXCEPT ![x] = "orchestrating"]
        /\ UNCHANGED <<initialized, manifestModules, forsaken, queue, foreign, handles, counts>>
    BY DEF Submit, Wire, Locking
  <1>2. stack' \in Seq(Entry) /\ Frames' /\ SameHolders /\ FewerServed /\ initialized
    BY <1>1, PopQuietly
  <1>3. coopRuns = {} /\ \A i \in DOMAIN stack : ~Holds(i)
    BY <1>1 DEF Inv, Lock, Owner
  <1>4. x \in Execs
    <2>1. Len(stack) \in DOMAIN stack /\ Top = stack[Len(stack)]
      BY <1>1, Popped DEF Inv
    <2> QED BY <1>1, <2>1 DEF Inv, Frames, FrameOK
  <1> HIDE DEF x
  <1>5. \A i \in DOMAIN stack' : ~(Holds(i))'
    BY <1>2, <1>3 DEF SameHolders
  <1>6. Lock'
    <2>1. coopRuns' = {x} /\ locked' /\ manifestExecutor' = x
      BY <1>1, <1>3
    <2> QED BY <1>5, <2>1 DEF Lock
  <1>7. \A y \in Execs : job[y] \notin Busy
    BY <1>3 DEF Inv, Calls
  <1>8. Calls'
    <2>1. \A k \in DOMAIN queue : queue[k] \notin Execs
      BY <1>7 DEF Inv, Calls, Busy
    <2>2. \A i \in DOMAIN stack', y \in Execs : ~(Serves(i, y))'
      BY <1>2, <1>7 DEF FewerServed, Inv, Calls, Busy
    <2>3. \A y \in Execs : job'[y] \in Busy => y \in coopRuns'
      BY <1>1, <1>7 DEF Inv, TypeOK
    <2>4. queue' = queue
      BY <1>1
    <2> QED BY <2>1, <2>2, <2>3, <2>4 DEF Calls
  <1>9. TypeOK'
    <2>1. coopRuns' \subseteq Execs /\ manifestExecutor' \in 0..MaxExecs
          /\ job' \in [Execs -> {"none", "orchestrating", "calling", "over"}]
      BY <1>1, <1>4 DEF Inv, TypeOK, Execs
    <2> QED BY <1>1, <1>2, <2>1 DEF Inv, TypeOK, counts
  <1>10. Ended'
    BY <1>1, <1>2 DEF Ended
  <1> QED BY <1>2, <1>6, <1>8, <1>9, <1>10 DEF Inv

LEMMA InvHostRun == ASSUME Inv, NEW x \in Execs, HostRun(x) PROVE Inv'
  <1>1. /\ job[x] = "orchestrating" /\ calls' = calls + 1 /\ calls < MaxCalls
        /\ job' = [job EXCEPT ![x] = "calling"] /\ queue' = Append(queue, x)
        /\ UNCHANGED <<initialized, wiring, manifestModules, coopRuns, forsaken, foreign, stack,
                       handles, made, entries>>
    BY DEF HostRun
  <1>2. SameHolders /\ FewerServed
    BY <1>1, SameStack
  <1>3. UNCHANGED <<wiring, coopRuns>>
    BY <1>1
  <1>4. Lock' /\ Frames' /\ Ended'
    BY <1>1, <1>2, <1>3, LockKept DEF Inv, Frames, Ended, wiring
  <1> DEFINE n == Len(queue')
  <1>5. /\ queue' \in Seq(Execs \cup Foreign) /\ DOMAIN queue' = DOMAIN queue \cup {n}
        /\ n \notin DOMAIN queue /\ \A k \in DOMAIN queue : queue'[k] = queue[k]
        /\ queue'[n] = x
    <2>1. queue \in Seq(Execs \cup Foreign) /\ x \in Execs \cup Foreign
      BY DEF Inv, TypeOK
    <2> QED BY <1>1, <2>1, Appended
  <1> HIDE DEF n
  <1>6. job' \in [Execs -> {"none", "orchestrating", "calling", "over"}] /\ job'[x] = "calling"
        /\ \A y \in Execs : y # x => job'[y] = job[y]
    BY <1>1 DEF Inv, TypeOK
  <1>7. /\ \A k \in DOMAIN queue : queue[k] # x
        /\ \A i \in DOMAIN stack : ~Serves(i, x)
    BY <1>1 DEF Inv, Calls
  <1>8. Calls'
    <2>1. \A y \in Execs : job'[y] \in Busy => y \in coopRuns'
      BY <1>1, <1>6 DEF Inv, Calls, Busy
    <2>2. \A k \in DOMAIN queue' : queue'[k] \in Execs => job'[queue'[k]] = "calling"
      BY <1>5, <1>6 DEF Inv, Calls
    <2>3. \A i \in DOMAIN stack', y \in Execs : (Serves(i, y))' => Serves(i, y) /\ i \in DOMAIN stack
      BY <1>2 DEF FewerServed
    <2>4. \A i \in DOMAIN stack', y \in Execs : (Serves(i, y))' => job'[y] = "calling"
      BY <1>6, <2>3 DEF Inv, Calls
    <2>5. \A k, l \in DOMAIN queue' : queue'[k] \in Execs /\ queue'[k] = queue'[l] => k = l
      BY <1>5, <1>7 DEF Inv, Calls
    <2>6. \A i, j \in DOMAIN stack', y \in Execs : (Serves(i, y))' /\ (Serves(j, y))' => i = j
      BY <2>3 DEF Inv, Calls
    <2>7. \A i \in DOMAIN stack', k \in DOMAIN queue', y \in Execs :
            (Serves(i, y))' => queue'[k] # y
      BY <1>5, <1>7, <2>3 DEF Inv, Calls
    <2> QED BY <2>1, <2>2, <2>4, <2>5, <2>6, <2>7 DEF Calls
  <1>9. TypeOK'
    <2>1. calls' \in 0..MaxCalls
      BY <1>1, LibraryAssumption DEF Inv, TypeOK
    <2> QED BY <1>1, <1>5, <1>6, <2>1 DEF Inv, TypeOK, wiring
  <1> QED BY <1>4, <1>8, <1>9 DEF Inv

LEMMA InvFinish == ASSUME Inv, NEW x \in Execs, Finish(x) PROVE Inv'
  <1>1. /\ job[x] = "orchestrating" /\ job' = [job EXCEPT ![x] = "over"]
        /\ UNCHANGED <<initialized, wiring, manifestModules, coopRuns, forsaken, queue, foreign,
                       stack, handles, counts>>
    BY DEF Finish
  <1>2. SameHolders /\ FewerServed
    BY <1>1, SameStack
  <1>3. UNCHANGED <<wiring, coopRuns>>
    BY <1>1
  <1>4. Lock' /\ Frames' /\ Ended'
    BY <1>1, <1>2, <1>3, LockKept DEF Inv, Frames, Ended, wiring
  <1>5. job' \in [Execs -> {"none", "orchestrating", "calling", "over"}] /\ job'[x] = "over"
        /\ \A y \in Execs : y # x => job'[y] = job[y]
    BY <1>1 DEF Inv, TypeOK
  <1>6. Calls'
    <2>1. \A y \in Execs : job[y] = "calling" => job'[y] = "calling"
      BY <1>1, <1>5
    <2>2. \A y \in Execs : job'[y] \in Busy => job[y] \in Busy
      BY <1>5 DEF Busy
    <2> QED BY <1>1, <1>2, <2>1, <2>2 DEF Inv, Calls, FewerServed
  <1>7. TypeOK'
    BY <1>1, <1>5 DEF Inv, TypeOK, wiring, counts
  <1> QED BY <1>4, <1>6, <1>7 DEF Inv

LEMMA InvForeignCall == ASSUME Inv, NEW f \in Foreign, ForeignCall(f) PROVE Inv'
  <1>1. /\ calls' = calls + 1 /\ calls < MaxCalls
        /\ foreign' = [foreign EXCEPT ![f] = "calling"] /\ queue' = Append(queue, f)
        /\ UNCHANGED <<initialized, wiring, manifestModules, coopRuns, job, forsaken, stack,
                       handles, made, entries>>
    BY DEF ForeignCall
  <1>2. SameHolders /\ FewerServed
    BY <1>1, SameStack
  <1>3. UNCHANGED <<wiring, coopRuns>>
    BY <1>1
  <1>4. Lock' /\ Frames' /\ Ended'
    BY <1>1, <1>2, <1>3, LockKept DEF Inv, Frames, Ended, wiring
  <1> DEFINE n == Len(queue')
  <1>5. /\ queue' \in Seq(Execs \cup Foreign) /\ DOMAIN queue' = DOMAIN queue \cup {n}
        /\ n \notin DOMAIN queue /\ \A k \in DOMAIN queue : queue'[k] = queue[k]
        /\ queue'[n] = f
    <2>1. queue \in Seq(Execs \cup Foreign) /\ f \in Execs \cup Foreign
      BY DEF Inv, TypeOK
    <2> QED BY <1>1, <2>1, Appended
  <1> HIDE DEF n
  <1>6. f \notin Execs
    BY Names
  <1>7. Calls'
    <2>1. /\ \A k \in DOMAIN queue' : queue'[k] \in Execs => job'[queue'[k]] = "calling"
          /\ \A k, l \in DOMAIN queue' : queue'[k] \in Execs /\ queue'[k] = queue'[l] => k = l
      BY <1>1, <1>5, <1>6 DEF Inv, Calls
    <2>2. \A i \in DOMAIN stack', k \in DOMAIN queue', y \in Execs :
            (Serves(i, y))' => queue'[k] # y
      BY <1>2, <1>5, <1>6 DEF Inv, Calls, FewerServed
    <2>3. job' = job /\ coopRuns' = coopRuns
      BY <1>1
    <2>4. /\ \A i \in DOMAIN stack', x \in Execs : (Serves(i, x))' => job[x] = "calling"
          /\ \A i, j \in DOMAIN stack', x \in Execs : (Serves(i, x))' /\ (Serves(j, x))' => i = j
      BY <1>2 DEF Inv, Calls, FewerServed
    <2>5. \A x \in Execs : job[x] \in Busy => x \in coopRuns
      BY DEF Inv, Calls
    <2> QED BY <2>1, <2>2, <2>3, <2>4, <2>5 DEF Calls
  <1>8. TypeOK'
    <2>1. calls' \in 0..MaxCalls /\ foreign' \in [Foreign -> {"idle", "calling"}]
      BY <1>1, LibraryAssumption DEF Inv, TypeOK
    <2> QED BY <1>1, <1>5, <2>1 DEF Inv, TypeOK, wiring
  <1> QED BY <1>4, <1>7, <1>8 DEF Inv

(* The head of the queue is served in a frame of its own.                  *)
LEMMA InvServeHead ==
  ASSUME Inv, ServeHead, GuestRuns, initialized PROVE Inv'
  <1> DEFINE c == Head(queue)
  <1>1. /\ queue # << >> /\ queue' = Tail(queue) /\ Begin("task", "body", 0, c)
        /\ UNCHANGED <<initialized, wiring, manifestModules, coopRuns, job, forsaken,
                       foreign, handles, counts>>
    BY DEF ServeHead
  <1>2. /\ queue' \in Seq(Execs \cup Foreign) /\ c = queue[1] /\ c \in Execs \cup Foreign
        /\ 1 \in DOMAIN queue
        /\ \A k \in DOMAIN queue' : k + 1 \in DOMAIN queue /\ queue'[k] = queue[k + 1] /\ k \in Nat
    <2>1. queue \in Seq(Execs \cup Foreign)
      BY DEF Inv, TypeOK
    <2> HIDE DEF c
    <2>2. queue' \in Seq(Execs \cup Foreign) /\ Head(queue) = queue[1] /\ 1 \in DOMAIN queue
          /\ Head(queue) \in Execs \cup Foreign
          /\ \A k \in DOMAIN queue' : k + 1 \in DOMAIN queue /\ queue'[k] = queue[k + 1] /\ k \in Nat
      BY <1>1, <2>1, Tailed
    <2> QED BY <2>2 DEF c
  <1> HIDE DEF c
  <1>3. /\ "task" \in Ops /\ "body" \in {"locking", "body"} /\ 0 \in 0..MaxExecs
        /\ c \in {0} \cup Execs \cup Foreign /\ TypeOK
    BY <1>2, LibraryAssumption DEF Ops, Inv
  <1>4. /\ stack' \in Seq(Entry) /\ DOMAIN stack' = DOMAIN stack \cup {Len(stack')}
        /\ Len(stack') \notin DOMAIN stack
        /\ \A i \in DOMAIN stack : stack'[i] = stack[i]
        /\ stack'[Len(stack')] = FrameOf("task", "body", 0, c)
    BY <1>1, <1>3, Begun
  <1>5. /\ FrameOf("task", "body", 0, c).op = "task" /\ FrameOf("task", "body", 0, c).at = "body"
        /\ FrameOf("task", "body", 0, c).caller = c
    BY DEF FrameOf
  <1>6. FrameOK(FrameOf("task", "body", 0, c))
    BY <1>2, <1>5 DEF FrameOK, Holding
  <1>7. Frames'
    BY <1>1, <1>3, <1>6, FramesBegun
  <1>8. SameHolders
    BY <1>1, <1>3, QuietBegun DEF Holding
  <1>9. UNCHANGED <<wiring, coopRuns>>
    BY <1>1
  <1>10. Lock'
    BY <1>8, <1>9, LockKept
  <1>11. \A i \in DOMAIN stack', x \in Execs :
           (Serves(i, x))' <=> (i \in DOMAIN stack /\ Serves(i, x)) \/ (i = Len(stack') /\ x = c)
    BY <1>4, <1>5 DEF Serves
  <1>12. Calls'
    <2>1. \A k, l \in DOMAIN queue' : queue'[k] \in Execs /\ queue'[k] = queue'[l] => k = l
      BY <1>2 DEF Inv, Calls
    <2>2. \A k \in DOMAIN queue' : queue'[k] \in Execs => job[queue'[k]] = "calling"
      BY <1>2 DEF Inv, Calls
    <2>3. \A k \in DOMAIN queue' : c \in Execs => queue'[k] # c
      <3> SUFFICES ASSUME NEW k \in DOMAIN queue', c \in Execs, queue'[k] = c PROVE FALSE
        OBVIOUS
      <3>1. k + 1 = 1 /\ k \in Nat /\ k \in DOMAIN queue'
        BY <1>2 DEF Inv, Calls
      <3> QED BY <1>2, <3>1
    <2>4. \A i \in DOMAIN stack, x \in Execs : Serves(i, x) => x # c
      BY <1>2 DEF Inv, Calls
    <2>5. \A i \in DOMAIN stack', x \in Execs : (Serves(i, x))' => job[x] = "calling"
      BY <1>2, <1>11 DEF Inv, Calls
    <2>6. \A i, j \in DOMAIN stack', x \in Execs : (Serves(i, x))' /\ (Serves(j, x))' => i = j
      BY <1>11, <2>4 DEF Inv, Calls
    <2>7. \A i \in DOMAIN stack', k \in DOMAIN queue', x \in Execs :
            (Serves(i, x))' => queue'[k] # x
      BY <1>2, <1>11, <2>3 DEF Inv, Calls
    <2>8. /\ job' = job /\ coopRuns' = coopRuns
          /\ \A x \in Execs : job[x] \in Busy => x \in coopRuns
      BY <1>1 DEF Inv, Calls
    <2> QED BY <2>1, <2>2, <2>5, <2>6, <2>7, <2>8 DEF Calls
  <1>13. TypeOK'
    BY <1>1, <1>2, <1>4 DEF Inv, TypeOK, wiring, counts
  <1>14. Ended'
    BY <1>1 DEF Ended
  <1> QED BY <1>7, <1>10, <1>12, <1>13, <1>14 DEF Inv

LEMMA InvStep == ASSUME Inv, Step \/ PumpUntil PROVE Inv'
  <1>1. ServeHead
    BY DEF Step, PumpUntil
  <1>2. GuestRuns
    BY DEF Step, PumpUntil, GuestRuns
  <1>3. initialized
    BY DEF Step, PumpUntil, Inv, Lock, Ended
  <1> QED BY <1>1, <1>2, <1>3, InvServeHead

LEMMA InvEndTask == ASSUME Inv, EndTask PROVE Inv'
  <1> DEFINE c == Top.caller
  <1>1. /\ stack # << >> /\ Top.op = "task" /\ Pop
        /\ IF c \in Foreign
           THEN foreign' = [foreign EXCEPT ![c] = "idle"] /\ UNCHANGED job
           ELSE job' = [job EXCEPT ![c] = "orchestrating"] /\ UNCHANGED foreign
        /\ UNCHANGED <<initialized, wiring, manifestModules, coopRuns, forsaken, queue, handles,
                       counts>>
    BY DEF EndTask
  <1>2. stack' \in Seq(Entry) /\ Frames' /\ SameHolders /\ FewerServed /\ initialized
    BY <1>1, PopQuietly DEF Holding
  <1>3. /\ Len(stack) \in DOMAIN stack /\ Top = stack[Len(stack)]
        /\ DOMAIN stack' = DOMAIN stack \ {Len(stack)}
    BY <1>1, Popped DEF Inv
  <1>4. c \in Execs \cup Foreign
    BY <1>1, <1>3 DEF Inv, Frames, FrameOK
  <1>5. c \in Execs => Serves(Len(stack), c)
    BY <1>1, <1>3 DEF Serves
  <1> HIDE DEF c
  <1>6. UNCHANGED <<wiring, coopRuns>>
    BY <1>1
  <1>7. Lock'
    BY <1>2, <1>6, LockKept
  <1>8. /\ job' \in [Execs -> {"none", "orchestrating", "calling", "over"}]
        /\ foreign' \in [Foreign -> {"idle", "calling"}]
        /\ \A y \in Execs : y # c => job'[y] = job[y]
        /\ \A y \in Execs : job'[y] \in Busy => job[y] \in Busy
    <2>1. CASE c \in Foreign
      BY <1>1, <2>1, Names DEF Inv, TypeOK
    <2>2. CASE c \notin Foreign
      <3>1. c \in Execs /\ job[c] = "calling"
        BY <1>3, <1>4, <1>5, <2>2 DEF Inv, Calls
      <3> QED BY <1>1, <2>2, <3>1 DEF Inv, TypeOK, Busy
    <2> QED BY <2>1, <2>2
  <1>9. Calls'
    <2>1. \A i \in DOMAIN stack', y \in Execs : (Serves(i, y))' => y # c
      BY <1>2, <1>3, <1>5 DEF FewerServed, Inv, Calls
    <2>2. \A k \in DOMAIN queue : queue[k] \in Execs => queue[k] # c
      BY <1>3, <1>5 DEF Inv, Calls
    <2>3. \A i \in DOMAIN stack', y \in Execs : (Serves(i, y))' => job'[y] = "calling"
      BY <1>2, <1>8, <2>1 DEF FewerServed, Inv, Calls
    <2>4. \A k \in DOMAIN queue : queue[k] \in Execs => job'[queue[k]] = "calling"
      BY <1>8, <2>2 DEF Inv, Calls
    <2>5. \A y \in Execs : job'[y] \in Busy => y \in coopRuns
      BY <1>8 DEF Inv, Calls
    <2>6. queue' = queue /\ coopRuns' = coopRuns
      BY <1>1
    <2>7. /\ \A i, j \in DOMAIN stack', x \in Execs : (Serves(i, x))' /\ (Serves(j, x))' => i = j
          /\ \A i \in DOMAIN stack', k \in DOMAIN queue, x \in Execs :
               (Serves(i, x))' => queue[k] # x
      BY <1>2 DEF FewerServed, Inv, Calls
    <2>8. \A k, l \in DOMAIN queue : queue[k] \in Execs /\ queue[k] = queue[l] => k = l
      BY DEF Inv, Calls
    <2> QED BY <2>3, <2>4, <2>5, <2>6, <2>7, <2>8 DEF Calls
  <1>10. TypeOK'
    BY <1>1, <1>2, <1>8 DEF Inv, TypeOK, wiring, counts
  <1>11. Ended'
    BY <1>1, <1>2 DEF Ended
  <1> QED BY <1>2, <1>7, <1>9, <1>10, <1>11 DEF Inv

LEMMA InvResult == ASSUME Inv, NEW x \in Execs, Result(x) PROVE Inv'
  <1>1. /\ stack = << >> /\ x \in coopRuns /\ job[x] = "over"
        /\ coopRuns' = coopRuns \ {x} /\ locked' = FALSE
        /\ manifestExecutor' = 0 /\ useGoFallback' = FALSE
        /\ UNCHANGED <<initialized, manifestModules, job, forsaken, queue, foreign, stack,
                       handles, counts>>
    BY DEF Result
  <1>2. coopRuns = {x} /\ DOMAIN stack' = {}
    BY <1>1 DEF Inv, Lock
  <1>3. Lock' /\ Frames'
    BY <1>1, <1>2 DEF Lock, Frames
  <1>4. Calls'
    <2>1. \A y \in Execs : job[y] \in Busy => y \in coopRuns'
      BY <1>1 DEF Inv, Calls, Busy
    <2>2. FewerServed
      BY <1>1, SameStack
    <2> QED BY <1>1, <2>1, <2>2 DEF Inv, Calls, FewerServed
  <1>5. TypeOK'
    <2>1. 0 \in 0..MaxExecs /\ coopRuns' \subseteq Execs
      BY <1>1, LibraryAssumption DEF Inv, TypeOK
    <2> QED BY <1>1, <2>1 DEF Inv, TypeOK, counts
  <1>6. Ended'
    BY <1>1 DEF Ended
  <1> QED BY <1>3, <1>4, <1>5, <1>6 DEF Inv

(* The other steps change nothing the invariant speaks of.                 *)
LEMMA InvQuiet ==
  ASSUME Inv, UNCHANGED <<initialized, wiring, manifestModules, coopRuns, job, queue, foreign,
                          stack, counts>>,
         forsaken' \subseteq Execs, handles' \subseteq Execs
  PROVE  Inv'
  <1>1. SameHolders /\ FewerServed
    BY SameStack
  <1>2. UNCHANGED <<wiring, coopRuns>> /\ UNCHANGED <<job, queue, coopRuns>>
    OBVIOUS
  <1>3. Lock' /\ Calls'
    BY <1>1, <1>2, LockKept, CallsKept
  <1>4. TypeOK' /\ Frames' /\ Ended'
    BY DEF Inv, TypeOK, Frames, Ended, wiring, counts
  <1> QED BY <1>3, <1>4 DEF Inv

LEMMA InvOther ==
  ASSUME Inv, NEW x \in Execs, Forsake(x) \/ Register(x) PROVE Inv'
  <1>1. /\ UNCHANGED <<initialized, wiring, manifestModules, coopRuns, job, queue, foreign,
                       stack, counts>>
        /\ forsaken' \subseteq Execs /\ handles' \subseteq Execs
    BY DEF Inv, TypeOK, Forsake, Register
  <1> QED BY <1>1, InvQuiet

LEMMA InvNext == ASSUME Inv, [Next]_vars PROVE Inv'
  <1>1. ASSUME NEW op \in Ops, Enter(op) PROVE Inv'
    BY <1>1, InvEnter
  <1>2. CASE HostLoop
    BY <1>2, InvStep, InvResult DEF HostLoop
  <1>3. CASE Ends
    BY <1>3, InvAcquire, InvCallFails, InvLeave, InvLeaveDirect, InvDrain, InvSubmit, InvEndTask
       DEF Ends
  <1>4. CASE PumpUntil
    BY <1>4, InvStep
  <1>5. ASSUME NEW x \in Execs, Goroutine(x) \/ Forsake(x) \/ Register(x) PROVE Inv'
    BY <1>5, InvHostRun, InvFinish, InvOther DEF Goroutine
  <1>6. ASSUME NEW f \in Foreign, ForeignCall(f) \/ ForeignDrain(f) PROVE Inv'
    BY <1>6, InvForeignCall, InvForeignDrain
  <1>7. CASE UNCHANGED vars
    <2>1. /\ UNCHANGED <<initialized, wiring, manifestModules, coopRuns, job, queue, foreign,
                         stack, counts>>
          /\ forsaken' \subseteq Execs /\ handles' \subseteq Execs
      BY <1>7 DEF vars, Inv, TypeOK
    <2> QED BY <2>1, InvQuiet
  <1> QED BY <1>1, <1>2, <1>3, <1>4, <1>5, <1>6, <1>7 DEF Next

LEMMA Invariance == Spec => []Inv
  BY InvInit, InvNext, PTL DEF Spec

----------------------------------------------------------------------------
(* What follows                                                            *)

(* Every variable keeps its type, whatever the host, its guests and other  *)
(* threads do.                                                             *)
THEOREM TypeCorrect == Spec => []TypeOK
  <1>1. Inv => TypeOK
    BY DEF Inv
  <1> QED BY <1>1, Invariance, PTL

LEMMA RunningIs ==
  ASSUME Inv
  PROVE  /\ ~locked => Running = {}
         /\ locked => \E x \in Execs : Running = {x} /\ manifestExecutor = x
  <1> DEFINE H == {j \in DOMAIN stack : stack[j].at = "body" /\ stack[j].op \in Holding}
             E == {stack[i].exec : i \in H}
  <1>1. Running = coopRuns \cup E
    BY DEF Running
  <1>2. \A i \in H : i \in DOMAIN stack /\ Holds(i) /\ Owner(i) /\ stack[i].exec \in Execs
    BY DEF Holds, Inv, Lock, Frames, FrameOK
  <1>3. \A i \in DOMAIN stack : Holds(i) => i \in H
    BY DEF Holds
  <1>4. ASSUME ~locked PROVE Running = {}
    <2>1. coopRuns = {} /\ H = {}
      BY <1>2, <1>4 DEF Inv, Lock, Owner
    <2> QED BY <1>1, <2>1
  <1>5. ASSUME locked PROVE \E x \in Execs : Running = {x} /\ manifestExecutor = x
    <2>1. CASE coopRuns # {}
      <3>1. PICK x \in coopRuns : TRUE
        BY <2>1
      <3>2. coopRuns = {x} /\ manifestExecutor = x /\ x \in Execs /\ H = {}
        BY <1>2, <3>1 DEF Inv, Lock, TypeOK
      <3> QED BY <1>1, <3>2
    <2>2. CASE \E i \in DOMAIN stack : Holds(i)
      <3>1. PICK i \in DOMAIN stack : Holds(i)
        BY <2>2
      <3>2. Owner(i) /\ i \in H /\ stack[i].exec \in Execs
        BY <1>2, <1>3, <3>1
      <3>3. coopRuns = {} /\ manifestExecutor = stack[i].exec /\ H = {i}
        BY <1>2, <3>2 DEF Owner
      <3> HIDE DEF H
      <3>4. Running = {stack[i].exec}
        BY <1>1, <3>3
      <3> QED BY <3>2, <3>3, <3>4
    <2> QED BY <1>5, <2>1, <2>2 DEF Inv, Lock
  <1> QED BY <1>4, <1>5

(* manifestExecutionMu is held by the one manifest that is being executed, *)
(* and while it is free nothing is wired: no path of the entry points, the *)
(* failing ones included, loses the lock or leaves an executor behind.     *)
THEOREM LockStaysAccounted == Spec => []LockIsAccounted
  <1>1. ASSUME Inv PROVE LockIsAccounted
    <2>1. \A x \in Execs : Cardinality({x}) = 1
      BY FS_Singleton
    <2>2. Cardinality({}) = 0
      BY FS_EmptySet
    <2>3. Cardinality(Running) = IF locked THEN 1 ELSE 0
      BY <1>1, <2>1, <2>2, RunningIs
    <2> QED BY <1>1, <2>3 DEF LockIsAccounted, Inv, Lock
  <1> QED BY <1>1, Invariance, PTL

(* Guest code reaches the executor of its own manifest.                    *)
THEOREM CallbacksReach == Spec => []CallbacksReachTheirOwn
  <1>1. ASSUME Inv, stack # << >>, Top.at = "body", CodeOf(Top) # 0
        PROVE  manifestExecutor = CodeOf(Top)
    <2>1. Len(stack) \in DOMAIN stack /\ Top = stack[Len(stack)]
      BY <1>1, LastOf DEF Inv, TypeOK, Top
    <2>2. CASE Top.op \in Holding
      <3>1. Holds(Len(stack)) /\ CodeOf(Top) = Top.exec
        BY <1>1, <2>1, <2>2 DEF Holds, CodeOf
      <3> QED BY <1>1, <2>1, <3>1 DEF Inv, Lock, Owner
    <2>3. CASE Top.op \notin Holding
      <3>1. CodeOf(Top) = Top.caller /\ Top.caller \in Execs
        BY <1>1, <2>3 DEF CodeOf
      <3>2. Top.op = "task"
        BY <1>1, <2>1, <3>1, Names DEF Inv, Frames, FrameOK
      <3>3. Serves(Len(stack), Top.caller)
        BY <2>1, <3>2 DEF Serves
      <3>4. Top.caller \in coopRuns
        BY <1>1, <2>1, <3>1, <3>3 DEF Inv, Calls, Busy
      <3> QED BY <1>1, <3>1, <3>4 DEF Inv, Lock
    <2> QED BY <2>2, <2>3
  <1>2. Inv => CallbacksReachTheirOwn
    BY <1>1 DEF CallbacksReachTheirOwn
  <1> QED BY <1>2, Invariance, PTL

(* Neither a drain, from whatever thread, nor a shutdown cuts off a        *)
(* manifest that is being executed.                                        *)
THEOREM NothingCutOff == Spec => NothingIsCutOff
  <1>1. Inv => NothingAfterShutdown
    <2> SUFFICES ASSUME Inv, ~initialized PROVE NothingAfterShutdown
      BY DEF NothingAfterShutdown
    <2>1. ~locked /\ coopRuns = {}
      BY DEF Inv, Ended, Lock
    <2>2. \A x \in Execs : job[x] \in {"none", "over"}
      BY <2>1 DEF Inv, TypeOK, Calls, Busy
    <2> QED BY <2>1, <2>2, RunningIs DEF NothingAfterShutdown
  <1>2. ASSUME Inv, [Next]_vars PROVE [DrainsSpareRuns]_vars
    <2>1. \/ handles \subseteq handles' \/ ~locked
      BY <1>2 DEF Next, Enter, HostLoop, Step, PumpUntil, ServeHead, Result, Ends, Acquire,
         CallFails, Leave, LeaveDirect, Drain, Shutdown, Submit, EndTask, Goroutine, HostRun,
         Finish, Forsake, Register, ForeignCall, ForeignDrain, vars
    <2> QED BY <1>2, <2>1, RunningIs DEF DrainsSpareRuns
  <1> QED BY <1>1, <1>2, Invariance, PTL DEF NothingIsCutOff, Spec


----------------------------------------------------------------------------
(* The cache of units: its invariant                                       *)

ProcPlaces ==
  {"down", "hashed", "compile", "relink", "link", "failed", "built", "open", "broken", "ready"}
ThreadPlaces == {"idle", "mutex", "flock", "load"} \cup InWorkspace
Artifacts == [key : Keys, version : Versions \cup {Absent}, sound : BOOLEAN]
Published == [version : Versions \cup {Absent}, sound : BOOLEAN, mod : Nat]

(* Processes and threads have places of their own; a thread that builds    *)
(* has an artifact; a stamp is of one hash; the cache is finite.           *)
UnitTypes ==
  /\ upsets \in Nat /\ sources \in Versions /\ lock \in SUBSET Units
  /\ stamp = {} \/ \E h \in Hashes : stamp = {h}
  /\ dylib \in Versions \cup {Absent} /\ newer \in BOOLEAN /\ deceived \in BOOLEAN
  /\ members \in [DOMAIN members -> {"part", "whole"}] /\ DOMAIN members \in SUBSET Keys
  /\ cache \in [DOMAIN cache -> Published] /\ DOMAIN cache \in SUBSET Keys
  /\ IsFiniteSet(DOMAIN cache)
  /\ clock \in Nat
  /\ flock \in Agents \cup {Nobody} /\ buildMu \in [Procs -> Threads \cup {Nobody}]
  /\ loaded \in [Procs -> SUBSET Keys] /\ hash \in [Procs -> Hashes]
  /\ support \in [Procs -> Versions \cup {Absent}]
  /\ forced \in [Procs -> BOOLEAN] /\ sound \in [Procs -> BOOLEAN]
  /\ at \in [Agents -> Places]
  /\ \A p \in Procs : at[p] \in ProcPlaces
  /\ \A t \in Threads : at[t] \in ThreadPlaces
  /\ build \in [Threads -> Artifacts \cup {NoBuild}]
  /\ \A t \in Threads : at[t] # "idle" => build[t] \in Artifacts
  /\ outcome \in [Threads -> {"none", "loaded", "rejected", "missing", "refused"}]

(* Whoever builds does so in a process that is ready, under its hash.      *)
AtWork ==
  \A t \in Threads : at[t] # "idle" =>
    at[ProcessOf[t]] = "ready" /\ TheKey(t).hash = hash[ProcessOf[t]]

(* Who is in the workspace, and whose artifact is not there.               *)
Alone == \A a \in Agents : at[a] \in InWorkspace => flock = a
Unpublished ==
  \A t \in Threads : at[t] \in InWorkspace \ {"prune", "done", "failed"} => ~InCache(TheKey(t))

(* What is compiled is there as a whole.                                   *)
Whole ==
  \A t \in Threads : at[t] \in {"compile", "relink", "link"} =>
    TheKey(t) \in DOMAIN members /\ members[TheKey(t)] = "whole"

(* What was published just now is the newest.                              *)
Newest ==
  /\ \A k \in DOMAIN cache : cache[k].mod <= clock
  /\ \A t \in Threads : at[t] = "prune" => InCache(TheKey(t)) /\ cache[TheKey(t)].mod = clock

(* The dylib is of the present sources, or is being replaced by one.       *)
Fit(v) == v \in {Absent, sources}

(* Unless contents passed for built, the dylib is of the present sources   *)
(* where a start would leave it as it is: no file is newer and there is no *)
(* stamp, or the stamp is of these sources; and where it is to be stamped. *)
Stamped ==
  ~deceived =>
    /\ stamp = {} => newer \/ Fit(dylib)
    /\ \A h \in stamp : h.version = sources => Fit(dylib)
    /\ \A p \in Procs :
         hash[p].version = sources /\ (at[p] = "link" \/ (at[p] = "compile" /\ ~forced[p]))
           => Fit(dylib)
Hashed == \A p \in Procs : sound[p] => hash[p].version = sources

(* While nobody changes them, a process that starts goes from the sources  *)
(* it hashed to their dylib.                                               *)
Linked ==
  /\ \A p \in Procs : sound[p] =>
       /\ at[p] = "compile" /\ ~forced[p] => Fit(dylib)
       /\ at[p] \in {"link", "built", "open", "ready"} => Fit(dylib)
       /\ at[p] = "ready" => support[p] = sources
  /\ \A a \in Agents : at[a] = "link" => dylib # Absent

(* A sound artifact is linked to the sources of its key.                   *)
OfItsKey(k, a) == a.sound => a.version = k.hash.version
Keyed ==
  /\ \A k \in DOMAIN cache : OfItsKey(k, cache[k])
  /\ \A t \in Threads : at[t] = "rename" => OfItsKey(TheKey(t), build[t])

UnitInv ==
  /\ UnitTypes /\ AtWork /\ Alone /\ Unpublished /\ Whole /\ Newest
  /\ Stamped /\ Hashed /\ Linked /\ Keyed

(* The kinds of agents, and the version no dylib has.                      *)
LEMMA UnitNames ==
  /\ Procs \subseteq Agents /\ Threads \subseteq Agents /\ Nobody \notin Agents
  /\ \A t \in Threads : t \notin Procs /\ ProcessOf[t] \in Procs
  /\ Absent \notin Versions
  BY UnitCacheAssumption DEF Agents, Absent, Versions

(* The invariant holds when all processes are down.                        *)
LEMMA UnitInvInit == ASSUME UnitInit PROVE UnitInv
  <1>1. hash \in [Procs -> Hashes]
    BY UnitNames DEF UnitInit, Current, Hashes
  <1>2. UnitTypes
    <2>1. Disguised(sources, newer) \in BOOLEAN
      BY DEF Disguised
    <2>2. IsFiniteSet({}) /\ DOMAIN << >> = {}
      BY FS_EmptySet
    <2> QED BY <1>1, <2>1, <2>2, UnitNames
    DEF UnitInit, UnitTypes, Places, ProcPlaces, ThreadPlaces, NoBuild, Agents
  <1>3. AtWork /\ Alone /\ Unpublished /\ Whole /\ Newest
    BY UnitNames DEF UnitInit, AtWork, Alone, Unpublished, Whole, Newest, InWorkspace, Agents
  <1>4. Stamped
    BY UnitNames DEF UnitInit, Stamped, Disguised, Fit, Agents
  <1>5. Hashed /\ Linked /\ Keyed
    BY UnitNames DEF UnitInit, Hashed, Linked, Keyed, Current, Agents
  <1> QED BY <1>2, <1>3, <1>4, <1>5 DEF UnitInv

----------------------------------------------------------------------------
(* The cache of units: each action keeps it                                *)

(* What is hashed are the present sources.                                 *)
LEMMA UnitHashSources ==
  ASSUME UnitInv, NEW p \in Procs, HashSources(p) PROVE UnitInv'
  <1> USE UnitNames
  <1>1. Current \in Hashes /\ Current.version = sources
    BY DEF UnitInv, UnitTypes, Current, Hashes
  <1>2. UnitTypes'
    BY <1>1 DEF UnitInv, UnitTypes, HashSources, Goto, fileVars, cacheVars, boundVars,
       Places, ProcPlaces
  <1>3. AtWork' /\ Alone' /\ Unpublished' /\ Whole' /\ Newest'
    BY DEF UnitInv, UnitTypes, HashSources, Goto, fileVars, cacheVars, AtWork, Alone,
       Unpublished, Whole, Newest, InWorkspace, TheKey, InCache
  <1>4. Stamped' /\ Hashed' /\ Linked' /\ Keyed'
    BY <1>1 DEF UnitInv, UnitTypes, HashSources, Goto, fileVars, cacheVars, Stamped,
       Hashed, Linked, Keyed, OfItsKey, Fit, TheKey
  <1> QED BY <1>2, <1>3, <1>4 DEF UnitInv

(* A process that does not force a rebuild has seen a stamp of its hash,   *)
(* or no stamp and a dylib as young as the sources: it is of these, or the *)
(* process was deceived and counts as unsound.                             *)
LEMMA UnitLockSupport ==
  ASSUME UnitInv, NEW p \in Procs, LockSupport(p) PROVE UnitInv'
  <1> USE UnitNames
  <1>1. /\ forced' \in [Procs -> BOOLEAN] /\ sound' \in [Procs -> BOOLEAN]
        /\ \A q \in Procs : q # p => forced'[q] = forced[q] /\ sound'[q] = sound[q]
        /\ sound'[p] => sound[p] /\ (forced'[p] \/ ~deceived)
        /\ ~forced'[p] => IF stamp = {} THEN ~newer /\ dylib # Absent ELSE stamp = {hash[p]}
    <2> DEFINE F == IF stamp = {} THEN newer \/ dylib = Absent ELSE stamp # {hash[p]}
               S == sound[p] /\ (F \/ ~deceived)
    <2>1. F \in BOOLEAN /\ S \in BOOLEAN
      OBVIOUS
    <2>2. forced' = [forced EXCEPT ![p] = F] /\ sound' = [sound EXCEPT ![p] = S]
      <3>1. forced' = [forced EXCEPT ![p] = F] /\ forced'[p] = F
        BY <2>1 DEF UnitInv, UnitTypes, LockSupport
      <3>2. sound' = [sound EXCEPT ![p] = sound[p] /\ (forced'[p] \/ ~deceived)]
        BY DEF LockSupport
      <3> HIDE DEF F
      <3> QED BY <3>1, <3>2
    <2>3. forced'[p] = F /\ sound'[p] = S
      BY <2>1, <2>2 DEF UnitInv, UnitTypes
    <2> HIDE DEF F, S
    <2>4. /\ forced' \in [Procs -> BOOLEAN] /\ sound' \in [Procs -> BOOLEAN]
          /\ \A q \in Procs : q # p => forced'[q] = forced[q] /\ sound'[q] = sound[q]
      BY <2>1, <2>2 DEF UnitInv, UnitTypes
    <2>5. S => sound[p] /\ (F \/ ~deceived)
      BY DEF S
    <2>6. ~F => IF stamp = {} THEN ~newer /\ dylib # Absent ELSE stamp = {hash[p]}
      BY DEF F
    <2> QED BY <2>3, <2>4, <2>5, <2>6
  <1>2. /\ at[p] = "hashed" /\ at'[p] = "compile"
        /\ \A a \in Agents : a # p => at'[a] = at[a]
    BY DEF UnitInv, UnitTypes, LockSupport, Goto
  <1>3. UnitTypes'
    BY <1>1 DEF UnitInv, UnitTypes, LockSupport, Goto, fileVars, cacheVars, boundVars,
       Places, ProcPlaces
  <1>4. AtWork' /\ Alone' /\ Unpublished' /\ Whole' /\ Newest'
    BY DEF UnitInv, UnitTypes, LockSupport, Goto, fileVars, cacheVars, AtWork, Alone,
       Unpublished, Whole, Newest, InWorkspace, TheKey, InCache
  <1>5. ~deceived /\ ~forced'[p] /\ hash[p].version = sources => Fit(dylib)
    BY <1>1 DEF UnitInv, Stamped, Fit
  <1>6. Stamped'
    BY <1>1, <1>2, <1>5 DEF UnitInv, LockSupport, fileVars, Stamped, Fit
  <1>7. Hashed' /\ Linked'
    BY <1>1, <1>2, <1>5 DEF UnitInv, LockSupport, fileVars, Hashed, Linked, Fit
  <1>8. Keyed'
    BY <1>2 DEF UnitInv, LockSupport, cacheVars, Keyed, OfItsKey, TheKey
  <1> QED BY <1>3, <1>4, <1>6, <1>7, <1>8 DEF UnitInv

(* A stamp is of the sources the process has hashed.                       *)
LEMMA UnitSupportBuilt ==
  ASSUME UnitInv, NEW p \in Procs, SupportBuilt(p) PROVE UnitInv'
  <1> USE UnitNames
  <1>1. /\ forced' \in [Procs -> BOOLEAN] /\ sound' \in [Procs -> BOOLEAN]
        /\ \A q \in Procs : q # p => forced'[q] = forced[q] /\ sound'[q] = sound[q]
        /\ sound'[p] => sound[p] /\ at[p] = "link"
    <2>1. forced' = [forced EXCEPT ![p] = FALSE]
      BY DEF SupportBuilt
    <2>2. (sound' = sound /\ at[p] = "link") \/ sound' = [sound EXCEPT ![p] = FALSE]
      BY DEF SupportBuilt
    <2>3. sound \in [Procs -> BOOLEAN] /\ forced \in [Procs -> BOOLEAN]
      BY DEF UnitInv, UnitTypes
    <2>4. /\ forced' \in [Procs -> BOOLEAN]
          /\ \A q \in Procs : q # p => forced'[q] = forced[q]
      BY <2>1, <2>3
    <2>5. CASE sound' = sound /\ at[p] = "link"
      BY <2>3, <2>4, <2>5
    <2>6. CASE sound' = [sound EXCEPT ![p] = FALSE]
      BY <2>3, <2>4, <2>6
    <2> QED BY <2>2, <2>5, <2>6
  <1>2. \/ /\ at[p] = "link" /\ stamp' = {hash[p]}
           /\ deceived' \in BOOLEAN
           /\ ~deceived' => ~deceived \/ sound[p]
        \/ stamp' = stamp /\ deceived' = deceived
    BY DEF UnitInv, UnitTypes, SupportBuilt
  <1>3. /\ at[p] \in {"link", "failed"} /\ at'[p] = "built"
        /\ \A a \in Agents : a # p => at'[a] = at[a]
    BY DEF UnitInv, UnitTypes, SupportBuilt, Goto
  <1>4. stamp' = {} \/ \E h \in Hashes : stamp' = {h}
    <2>1. hash[p] \in Hashes
      BY DEF UnitInv, UnitTypes
    <2> QED BY <1>2, <2>1 DEF UnitInv, UnitTypes
  <1>5. UnitTypes'
    BY <1>1, <1>2, <1>4 DEF UnitInv, UnitTypes, SupportBuilt, Goto, cacheVars, boundVars,
       Places, ProcPlaces
  <1>6. AtWork' /\ Alone' /\ Unpublished' /\ Whole' /\ Newest'
    BY DEF UnitInv, UnitTypes, SupportBuilt, Goto, cacheVars, AtWork, Alone, Unpublished,
       Whole, Newest, InWorkspace, TheKey, InCache
  <1>7. \A q \in Procs : at'[q] \notin {"link", "compile"}
    BY <1>3 DEF UnitInv, Alone, InWorkspace
  <1>8. Stamped'
    <2>1. UNCHANGED <<sources, dylib, newer, hash>>
      BY DEF SupportBuilt
    <2>2. CASE at[p] = "link" /\ stamp' = {hash[p]} /\ (~deceived' => ~deceived \/ sound[p])
      <3>1. ~deceived' /\ hash[p].version = sources => Fit(dylib)
        BY <2>2 DEF UnitInv, Stamped, Linked
      <3> QED BY <1>7, <2>1, <2>2, <3>1 DEF Stamped, Fit
    <2>3. CASE stamp' = stamp /\ deceived' = deceived
      BY <1>7, <2>1, <2>3 DEF UnitInv, Stamped, Fit
    <2> QED BY <1>2, <2>2, <2>3
  <1>9. Hashed' /\ Linked'
    BY <1>1, <1>3 DEF UnitInv, SupportBuilt, Hashed, Linked, Fit
  <1>10. Keyed'
    BY <1>3 DEF UnitInv, SupportBuilt, cacheVars, Keyed, OfItsKey, TheKey
  <1> QED BY <1>5, <1>6, <1>8, <1>9, <1>10 DEF UnitInv

(* The hash for the keys is that of the dylib, unless the sources changed. *)
LEMMA UnitHashForKeys ==
  ASSUME UnitInv, NEW p \in Procs, HashForKeys(p) PROVE UnitInv'
  <1> USE UnitNames
  <1>1. Current \in Hashes /\ Current.version = sources
    BY DEF UnitInv, UnitTypes, Current, Hashes
  <1>2. UnitTypes'
    BY <1>1 DEF UnitInv, UnitTypes, HashForKeys, Goto, fileVars, cacheVars, boundVars,
       Places, ProcPlaces
  <1>3. AtWork' /\ Alone' /\ Unpublished' /\ Whole' /\ Newest'
    BY DEF UnitInv, UnitTypes, HashForKeys, Goto, fileVars, cacheVars, AtWork, Alone,
       Unpublished, Whole, Newest, InWorkspace, TheKey, InCache
  <1>4. Stamped' /\ Hashed' /\ Linked' /\ Keyed'
    BY <1>1 DEF UnitInv, UnitTypes, HashForKeys, Goto, fileVars, cacheVars, Stamped,
       Hashed, Linked, Keyed, OfItsKey, Fit, TheKey
  <1> QED BY <1>2, <1>3, <1>4 DEF UnitInv

(* What is opened is the dylib as it is now.                               *)
LEMMA UnitOpenSupport ==
  ASSUME UnitInv, NEW p \in Procs, OpenSupport(p) PROVE UnitInv'
  <1> USE UnitNames
  <1>1. UnitTypes'
    BY DEF UnitInv, UnitTypes, OpenSupport, Goto, fileVars, cacheVars, boundVars, Places,
       ProcPlaces
  <1>2. AtWork' /\ Alone' /\ Unpublished' /\ Whole' /\ Newest'
    BY DEF UnitInv, UnitTypes, OpenSupport, Goto, fileVars, cacheVars, AtWork, Alone,
       Unpublished, Whole, Newest, InWorkspace, TheKey, InCache
  <1>3. Stamped' /\ Hashed' /\ Linked' /\ Keyed'
    BY DEF UnitInv, UnitTypes, OpenSupport, Goto, fileVars, cacheVars, Stamped, Hashed,
       Linked, Keyed, OfItsKey, Fit, TheKey
  <1> QED BY <1>1, <1>2, <1>3 DEF UnitInv

(* Cargo takes the dylib away only to make it anew ...                     *)
LEMMA UnitCompileAll ==
  ASSUME UnitInv, NEW a \in Agents, CompileAll(a) PROVE UnitInv'
  <1> USE UnitNames
  <1>1. {k.unit : k \in DOMAIN members} \in SUBSET Units
    BY DEF UnitInv, UnitTypes, Keys
  <1>2. UnitTypes'
    <2>1. newer' \in BOOLEAN
      BY DEF UnitInv, UnitTypes, CompileAll
    <2> QED BY <1>1, <2>1 DEF UnitInv, UnitTypes, CompileAll, Goto, cacheVars, procVars,
       boundVars, Places, ProcPlaces, ThreadPlaces, InWorkspace, Agents
  <1>3. AtWork' /\ Alone' /\ Unpublished' /\ Whole' /\ Newest'
    BY DEF UnitInv, UnitTypes, CompileAll, Goto, cacheVars, procVars, AtWork, Alone,
       Unpublished, Whole, Newest, InWorkspace, TheKey, InCache
  <1>4. Stamped' /\ Hashed' /\ Linked' /\ Keyed'
    BY DEF UnitInv, UnitTypes, CompileAll, Forced, Goto, cacheVars, procVars, Stamped,
       Hashed, Linked, Keyed, OfItsKey, Fit, TheKey, Alone, InWorkspace
  <1> QED BY <1>2, <1>3, <1>4 DEF UnitInv

(* ... of the present sources.                                             *)
LEMMA UnitRelink ==
  ASSUME UnitInv, NEW a \in Agents, Relink(a) PROVE UnitInv'
  <1> USE UnitNames
  <1>1. UnitTypes'
    BY DEF UnitInv, UnitTypes, Relink, Goto, cacheVars, procVars, boundVars, Places,
       ProcPlaces, ThreadPlaces, InWorkspace, Agents
  <1>2. AtWork' /\ Alone' /\ Unpublished' /\ Whole' /\ Newest'
    BY DEF UnitInv, UnitTypes, Relink, Goto, cacheVars, procVars, AtWork, Alone,
       Unpublished, Whole, Newest, InWorkspace, TheKey, InCache
  <1>3. Stamped' /\ Hashed' /\ Linked' /\ Keyed'
    BY DEF UnitInv, UnitTypes, Relink, Goto, cacheVars, procVars, Stamped, Hashed, Linked,
       Keyed, OfItsKey, Fit, TheKey, Alone, InWorkspace
  <1> QED BY <1>1, <1>2, <1>3 DEF UnitInv

(* A build starts in a process that is ready, with a key of its hash.      *)
LEMMA UnitCall ==
  ASSUME UnitInv, NEW t \in Threads, NEW u \in Units, Call(t, u) PROVE UnitInv'
  <1> USE UnitNames
  <1>1. Key(ProcessOf[t], u) \in Keys /\ Key(ProcessOf[t], u).hash = hash[ProcessOf[t]]
    BY DEF UnitInv, UnitTypes, Key, Keys
  <1>2. /\ build'[t] \in Artifacts /\ build'[t].key = Key(ProcessOf[t], u)
        /\ build' \in [Threads -> Artifacts \cup {NoBuild}]
        /\ \A s \in Threads : s # t => build'[s] = build[s]
    BY <1>1 DEF UnitInv, UnitTypes, Call, Artifacts
  <1>3. /\ at' \in [Agents -> Places]
        /\ at'[t] \in ThreadPlaces /\ \A a \in Agents \ {t} : at'[a] = at[a]
    BY DEF UnitInv, UnitTypes, Call, Goto, Places, ThreadPlaces
  <1>4. outcome' \in [Threads -> {"none", "loaded", "rejected", "missing", "refused"}]
    BY DEF UnitInv, UnitTypes, Call
  <1>5. UnitTypes'
    BY <1>2, <1>3, <1>4 DEF UnitInv, UnitTypes, Call, Goto, fileVars, cacheVars, procVars,
       Places, ProcPlaces, ThreadPlaces
  <1>6. AtWork' /\ Alone' /\ Unpublished' /\ Whole' /\ Newest'
    BY <1>1, <1>2 DEF UnitInv, UnitTypes, Call, Goto, fileVars, cacheVars, procVars,
       AtWork, Alone, Unpublished, Whole, Newest, InWorkspace, TheKey, InCache
  <1>7. Stamped' /\ Hashed' /\ Linked' /\ Keyed'
    BY <1>2 DEF UnitInv, UnitTypes, Call, Goto, fileVars, cacheVars, procVars, Stamped,
       Hashed, Linked, Keyed, OfItsKey, Fit, TheKey
  <1> QED BY <1>5, <1>6, <1>7 DEF UnitInv

(* The first lock: nothing of the workspace has changed.                   *)
LEMMA UnitLockProcess ==
  ASSUME UnitInv, NEW t \in Threads, LockProcess(t) PROVE UnitInv'
  <1> USE UnitNames
  <1>1. UnitTypes'
    BY DEF UnitInv, UnitTypes, LockProcess, Goto, fileVars, cacheVars, procVars, boundVars,
       Places, ProcPlaces, ThreadPlaces
  <1>2. AtWork' /\ Alone' /\ Unpublished' /\ Whole' /\ Newest'
    BY DEF UnitInv, UnitTypes, LockProcess, Goto, fileVars, cacheVars, procVars, AtWork,
       Alone, Unpublished, Whole, Newest, InWorkspace, TheKey, InCache
  <1>3. Stamped' /\ Hashed' /\ Linked' /\ Keyed'
    BY DEF UnitInv, UnitTypes, LockProcess, Goto, fileVars, cacheVars, procVars, Stamped,
       Hashed, Linked, Keyed, OfItsKey, Fit, TheKey
  <1> QED BY <1>1, <1>2, <1>3 DEF UnitInv

(* The second: whoever gets it has looked again for the artifact.          *)
LEMMA UnitLockWorkspace ==
  ASSUME UnitInv, NEW t \in Threads, LockWorkspace(t) PROVE UnitInv'
  <1> USE UnitNames
  <1>1. UnitTypes'
    BY DEF UnitInv, UnitTypes, LockWorkspace, Goto, fileVars, cacheVars, procVars,
       boundVars, Places, ProcPlaces, ThreadPlaces, InWorkspace
  <1>2. AtWork' /\ Alone' /\ Unpublished' /\ Whole' /\ Newest'
    BY DEF UnitInv, UnitTypes, LockWorkspace, Goto, fileVars, cacheVars, procVars, AtWork,
       Alone, Unpublished, Whole, Newest, InWorkspace, TheKey, InCache
  <1>3. Stamped' /\ Hashed' /\ Linked' /\ Keyed'
    BY DEF UnitInv, UnitTypes, LockWorkspace, Goto, fileVars, cacheVars, procVars, Stamped,
       Hashed, Linked, Keyed, OfItsKey, Fit, TheKey
  <1> QED BY <1>1, <1>2, <1>3 DEF UnitInv

(* The member becomes whole before it is compiled.                         *)
LEMMA UnitWriteMember ==
  ASSUME UnitInv, NEW t \in Threads, WriteMember(t) PROVE UnitInv'
  <1> USE UnitNames
  <1>1. TheKey(t) \in Keys /\ t \in Agents /\ at[t] \in InWorkspace /\ flock = t
    BY DEF UnitInv, UnitTypes, WriteMember, TheKey, Artifacts, Alone, InWorkspace
  <1>2. /\ DOMAIN members' = DOMAIN members \cup {TheKey(t)}
        /\ members'[TheKey(t)] = (IF at[t] = "member" THEN "part" ELSE "whole")
        /\ \A k \in DOMAIN members : k # TheKey(t) => members'[k] = members[k]
        /\ members' = [k \in DOMAIN members' |-> members'[k]]
    BY DEF WriteMember, With
  <1>3. members' \in [DOMAIN members' -> {"part", "whole"}] /\ DOMAIN members' \in SUBSET Keys
    BY <1>1, <1>2 DEF UnitInv, UnitTypes
  <1>4. UnitTypes'
    BY <1>3 DEF UnitInv, UnitTypes, WriteMember, Goto, fileVars, procVars, boundVars,
       Places, ProcPlaces, ThreadPlaces, InWorkspace
  <1>5. AtWork' /\ Alone' /\ Unpublished' /\ Newest'
    BY <1>1 DEF UnitInv, UnitTypes, WriteMember, Goto, fileVars, procVars, AtWork, Alone,
       Unpublished, Newest, InWorkspace, TheKey, InCache
  <1>6. Whole'
    BY <1>1, <1>2 DEF UnitInv, UnitTypes, WriteMember, Goto, fileVars, procVars, Alone,
       Whole, InWorkspace, TheKey
  <1>7. Stamped' /\ Hashed' /\ Linked' /\ Keyed'
    BY DEF UnitInv, UnitTypes, WriteMember, Goto, fileVars, procVars, Stamped, Hashed,
       Linked, Keyed, OfItsKey, Fit, TheKey
  <1> QED BY <1>4, <1>5, <1>6, <1>7 DEF UnitInv

(* The artifact is linked to the dylib that the process itself has loaded. *)
LEMMA UnitUnitBuilt ==
  ASSUME UnitInv, NEW t \in Threads, UnitBuilt(t) PROVE UnitInv'
  <1> USE UnitNames
  <1>1. /\ t \in Agents /\ at[t] = "link" /\ at[ProcessOf[t]] = "ready"
        /\ build[t] \in Artifacts
        /\ TheKey(t).hash = hash[ProcessOf[t]] /\ dylib # Absent
    BY DEF UnitInv, UnitTypes, UnitBuilt, AtWork, Linked
  <1>2. build'[t] = [build[t] EXCEPT !.version = dylib, !.sound = sound[ProcessOf[t]]]
    BY DEF UnitInv, UnitTypes, UnitBuilt
  <1>3. /\ build'[t] \in Artifacts /\ build'[t].key = build[t].key
        /\ build'[t].version = dylib /\ build'[t].sound = sound[ProcessOf[t]]
    <2>1. dylib \in Versions \cup {Absent} /\ sound[ProcessOf[t]] \in BOOLEAN
      BY DEF UnitInv, UnitTypes
    <2> QED BY <1>1, <1>2, <2>1 DEF Artifacts
  <1>4. /\ build' \in [Threads -> Artifacts \cup {NoBuild}]
        /\ \A s \in Threads : s # t => build'[s] = build[s]
    BY <1>3 DEF UnitInv, UnitTypes, UnitBuilt
  <1>5. \A s \in Threads : TheKey(s)' = TheKey(s)
    BY <1>3, <1>4 DEF TheKey
  <1>6. UnitTypes'
    BY <1>3, <1>4 DEF UnitInv, UnitTypes, UnitBuilt, Goto, fileVars, cacheVars, procVars,
       boundVars, Places, ProcPlaces, ThreadPlaces, InWorkspace
  <1>7. AtWork' /\ Alone' /\ Unpublished' /\ Whole' /\ Newest'
    BY <1>5 DEF UnitInv, UnitTypes, UnitBuilt, Goto, fileVars, cacheVars, procVars, AtWork,
       Alone, Unpublished, Whole, Newest, InWorkspace, InCache
  <1>8. Stamped' /\ Hashed' /\ Linked'
    BY DEF UnitInv, UnitTypes, UnitBuilt, Goto, fileVars, cacheVars, procVars, Stamped,
       Hashed, Linked, Fit
  <1>9. Keyed'
    BY <1>1, <1>3, <1>4, <1>5 DEF UnitInv, UnitTypes, UnitBuilt, Goto, fileVars, cacheVars,
       procVars, Hashed, Linked, Fit, Keyed, OfItsKey
  <1> QED BY <1>6, <1>7, <1>8, <1>9 DEF UnitInv

(* The artifact goes under its key, as the newest.                         *)
LEMMA UnitPublish ==
  ASSUME UnitInv, NEW t \in Threads, Publish(t) PROVE UnitInv'
  <1> USE UnitNames
  <1> DEFINE k == TheKey(t)
             r == [version |-> build[t].version, sound |-> build[t].sound,
             mod |-> clock + 1]
  <1>1. /\ t \in Agents /\ at[t] = "rename" /\ at[ProcessOf[t]] = "ready"
        /\ build[t] \in Artifacts
        /\ at[t] \in InWorkspace /\ flock = t /\ OfItsKey(k, build[t])
    BY DEF UnitInv, UnitTypes, Publish, AtWork, Alone, InWorkspace, Keyed
  <1>2. /\ k \in Keys /\ r \in Published
        /\ r.mod = clock + 1 /\ r.version = build[t].version /\ r.sound = build[t].sound
    BY <1>1 DEF UnitInv, UnitTypes, TheKey, Artifacts, Published
  <1>3. /\ DOMAIN cache' = DOMAIN cache \cup {k} /\ cache'[k] = r
        /\ \A j \in DOMAIN cache : j # k => cache'[j] = cache[j]
        /\ cache' = [j \in DOMAIN cache' |-> cache'[j]]
    BY DEF Publish, With
  <1>4. /\ cache' \in [DOMAIN cache' -> Published] /\ DOMAIN cache' \in SUBSET Keys
        /\ IsFiniteSet(DOMAIN cache')
    <2>1. cache' \in [DOMAIN cache' -> Published] /\ DOMAIN cache' \in SUBSET Keys
      BY <1>2, <1>3 DEF UnitInv, UnitTypes
    <2> HIDE DEF k
    <2> QED BY <1>3, <2>1, FS_AddElement DEF UnitInv, UnitTypes
  <1> HIDE DEF r
  <1>5. UnitTypes'
    BY <1>4 DEF UnitInv, UnitTypes, Publish, Goto, fileVars, procVars, boundVars, Places,
       ProcPlaces, ThreadPlaces, InWorkspace
  <1>6. AtWork' /\ Alone' /\ Unpublished' /\ Whole'
    BY <1>1, <1>3 DEF UnitInv, UnitTypes, Publish, Goto, fileVars, procVars, AtWork, Alone,
       Unpublished, Whole, InWorkspace, TheKey, InCache
  <1>7. Newest'
    <2>1. \A j \in DOMAIN cache' : cache'[j].mod <= clock + 1
      BY <1>2, <1>3 DEF UnitInv, UnitTypes, Newest, Published
    <2>2. \A s \in Threads : at'[s] = "prune" => s = t
      BY <1>1 DEF UnitInv, UnitTypes, Publish, Goto, Alone, InWorkspace
    <2>3. TheKey(t)' = k /\ InCache(k)' /\ cache'[k].mod = clock + 1 /\ clock' = clock + 1
      BY <1>2, <1>3 DEF Publish, TheKey, InCache
    <2> QED BY <2>1, <2>2, <2>3 DEF Newest
  <1>8. Stamped' /\ Hashed' /\ Linked'
    BY DEF UnitInv, UnitTypes, Publish, Goto, fileVars, procVars, Stamped, Hashed, Linked,
       Fit
  <1>9. Keyed'
    <2>1. OfItsKey(k, cache'[k])
      BY <1>1, <1>2, <1>3 DEF OfItsKey
    <2>2. \A j \in DOMAIN cache' : OfItsKey(j, cache'[j])
      BY <1>3, <2>1 DEF UnitInv, Keyed
    <2> QED BY <2>2 DEF UnitInv, UnitTypes, Publish, Goto, fileVars, Keyed, OfItsKey, TheKey
  <1> QED BY <1>5, <1>6, <1>7, <1>8, <1>9 DEF UnitInv

(* A prune takes artifacts away and changes none that stays ...            *)
LEMMA PruneOnly ==
  ASSUME UnitInv, NEW t \in Threads, Prune(t)
  PROVE  /\ cache' = [k \in DOMAIN cache' |-> cache[k]]
         /\ DOMAIN cache' \subseteq DOMAIN cache /\ IsFiniteSet(DOMAIN cache')
  <1> DEFINE p == ProcessOf[t]
             spare == {k \in DOMAIN cache : ~IsLoaded(p, k)}
             excess == Cardinality(DOMAIN cache) - CacheMaxArtifacts
             older(k) == {j \in spare : cache[j].mod <= cache[k].mod}
             gone == {k \in spare : Cardinality(older(k)) <= excess}
  <1>1. cache' = [k \in DOMAIN cache \ gone |-> cache[k]]
    BY DEF Prune, Pruned
  <1> HIDE DEF gone
  <1>2. DOMAIN cache' = DOMAIN cache \ gone
    BY <1>1
  <1>3. DOMAIN cache' \subseteq DOMAIN cache
    BY <1>2
  <1>4. IsFiniteSet(DOMAIN cache')
    BY <1>3, FS_Subset DEF UnitInv, UnitTypes
  <1> QED BY <1>1, <1>2, <1>3, <1>4

(* ... so that the invariant stays.                                        *)
LEMMA UnitPrune ==
  ASSUME UnitInv, NEW t \in Threads, Prune(t) PROVE UnitInv'
  <1> USE UnitNames
  <1>1. /\ cache' = [k \in DOMAIN cache' |-> cache[k]]
        /\ DOMAIN cache' \subseteq DOMAIN cache /\ IsFiniteSet(DOMAIN cache')
    BY PruneOnly
  <1>2. t \in Agents /\ at[t] = "prune" /\ flock = t
    BY DEF UnitInv, UnitTypes, Prune, Alone, InWorkspace
  <1>3. cache' \in [DOMAIN cache' -> Published] /\ DOMAIN cache' \in SUBSET Keys
    BY <1>1 DEF UnitInv, UnitTypes
  <1>4. UnitTypes'
    BY <1>1, <1>3 DEF UnitInv, UnitTypes, Prune, Goto, fileVars, procVars, boundVars,
       Places, ProcPlaces, ThreadPlaces, InWorkspace
  <1>5. AtWork' /\ Alone' /\ Unpublished' /\ Whole' /\ Newest'
    BY <1>1, <1>2 DEF UnitInv, UnitTypes, Prune, Goto, fileVars, procVars, AtWork, Alone,
       Unpublished, Whole, Newest, InWorkspace, TheKey, InCache
  <1>6. Stamped' /\ Hashed' /\ Linked' /\ Keyed'
    BY <1>1 DEF UnitInv, UnitTypes, Prune, Goto, fileVars, procVars, Stamped, Hashed,
       Linked, Keyed, OfItsKey, Fit, TheKey
  <1> QED BY <1>4, <1>5, <1>6 DEF UnitInv

(* Nobody but the build that ends is in the workspace.                     *)
LEMMA UnitEndBuild ==
  ASSUME UnitInv, NEW t \in Threads, EndBuild(t) PROVE UnitInv'
  <1> USE UnitNames
  <1>1. t \in Agents /\ at[t] \in InWorkspace /\ flock = t
    BY DEF UnitInv, UnitTypes, EndBuild, Alone, InWorkspace
  <1>2. /\ members' = [k \in DOMAIN members' |-> members[k]]
        /\ DOMAIN members' = DOMAIN members \ {TheKey(t)}
    BY DEF EndBuild, Without
  <1>3. members' \in [DOMAIN members' -> {"part", "whole"}] /\ DOMAIN members' \in SUBSET Keys
    BY <1>2 DEF UnitInv, UnitTypes
  <1>4. UnitTypes'
    BY <1>3 DEF UnitInv, UnitTypes, EndBuild, Goto, fileVars, procVars, boundVars, Places,
       ProcPlaces, ThreadPlaces
  <1>5. AtWork' /\ Alone' /\ Unpublished' /\ Whole' /\ Newest'
    BY <1>1 DEF UnitInv, UnitTypes, EndBuild, Goto, fileVars, procVars, AtWork, Alone,
       Unpublished, Whole, Newest, InWorkspace, TheKey, InCache
  <1>6. Stamped' /\ Hashed' /\ Linked' /\ Keyed'
    BY DEF UnitInv, UnitTypes, EndBuild, Goto, fileVars, procVars, Stamped, Hashed, Linked,
       Keyed, OfItsKey, Fit, TheKey
  <1> QED BY <1>4, <1>5, <1>6 DEF UnitInv

(* A unit is loaded into its own process only.                             *)
LEMMA UnitLoad ==
  ASSUME UnitInv, NEW t \in Threads, Load(t) PROVE UnitInv'
  <1> USE UnitNames
  <1>1. TheKey(t) \in Keys
    BY DEF UnitInv, UnitTypes, Load, TheKey, Artifacts
  <1>2. loaded' \in [Procs -> SUBSET Keys]
    BY <1>1 DEF UnitInv, UnitTypes, Load
  <1>3. outcome' \in [Threads -> {"none", "loaded", "rejected", "missing", "refused"}]
    BY DEF UnitInv, UnitTypes, Load
  <1>4. UnitTypes'
    BY <1>2, <1>3 DEF UnitInv, UnitTypes, Load, Goto, fileVars, cacheVars, boundVars,
       Places, ProcPlaces, ThreadPlaces
  <1>5. AtWork' /\ Alone' /\ Unpublished' /\ Whole' /\ Newest'
    BY DEF UnitInv, UnitTypes, Load, Goto, cacheVars, AtWork, Alone, Unpublished, Whole,
       Newest, InWorkspace, TheKey, InCache
  <1>6. Stamped' /\ Hashed' /\ Linked' /\ Keyed'
    BY DEF UnitInv, UnitTypes, Load, Goto, fileVars, cacheVars, Stamped, Hashed, Linked,
       Keyed, OfItsKey, Fit, TheKey
  <1> QED BY <1>4, <1>5, <1>6 DEF UnitInv

(* With a process its threads, and only they, give everything up.          *)
LEMMA UnitDie ==
  ASSUME UnitInv, NEW p \in Procs, Die(p) PROVE UnitInv'
  <1> USE UnitNames
  <1>1. /\ at' \in [Agents -> Places] /\ at'[p] = "down"
        /\ \A q \in Procs : q # p => at'[q] = at[q]
        /\ \A t \in Threads : at'[t] = IF ProcessOf[t] = p THEN "idle" ELSE at[t]
        /\ \A t \in Threads : build'[t] = IF ProcessOf[t] = p THEN NoBuild ELSE build[t]
        /\ \A a \in Agents :
             flock = a /\ at'[a] = at[a] /\ at[a] \in InWorkspace => flock' = flock
    BY DEF UnitInv, UnitTypes, Die, Places, InWorkspace
  <1>2. upsets' \in Nat
    BY DEF UnitInv, UnitTypes, Die
  <1>3. build' \in [Threads -> Artifacts \cup {NoBuild}]
    BY DEF UnitInv, UnitTypes, Die
  <1>4. outcome' \in [Threads -> {"none", "loaded", "rejected", "missing", "refused"}]
    BY DEF UnitInv, UnitTypes, Die
  <1>5. UnitTypes'
    BY <1>1, <1>2, <1>3, <1>4 DEF UnitInv, UnitTypes, Die, fileVars, cacheVars, ProcPlaces,
       ThreadPlaces
  <1>6. AtWork' /\ Alone' /\ Unpublished' /\ Whole' /\ Newest'
    BY <1>1 DEF UnitInv, UnitTypes, Die, cacheVars, AtWork, Alone, Unpublished, Whole,
       Newest, InWorkspace, TheKey, InCache, Agents
  <1>7. Stamped' /\ Hashed' /\ Linked' /\ Keyed'
    BY <1>1 DEF UnitInv, UnitTypes, Die, fileVars, cacheVars, Stamped, Hashed, Linked,
       Keyed, OfItsKey, Fit, TheKey, Agents
  <1> QED BY <1>5, <1>6, <1>7 DEF UnitInv

(* Contents that pass for built are marked; no start is sound any more.    *)
LEMMA UnitChangeSources ==
  ASSUME UnitInv, ChangeSources PROVE UnitInv'
  <1> USE UnitNames
  <1>1. PICK v \in Versions \ {sources}, fresh \in BOOLEAN :
          sources' = v /\ newer' = fresh /\ deceived' = (deceived \/ Disguised(v, fresh))
    BY DEF ChangeSources
  <1>2. Disguised(v, fresh) \in BOOLEAN
    BY DEF Disguised
  <1>3. UnitTypes'
    BY <1>1, <1>2 DEF UnitInv, UnitTypes, ChangeSources, cacheVars
  <1>4. AtWork' /\ Alone' /\ Unpublished' /\ Whole' /\ Newest' /\ Keyed'
    BY DEF UnitInv, ChangeSources, cacheVars, AtWork, Alone, Unpublished, Whole, Newest,
       Keyed, OfItsKey, InWorkspace, TheKey, InCache
  <1>5. Stamped'
    BY <1>1, <1>2 DEF UnitInv, UnitTypes, ChangeSources, Stamped, Disguised, Fit
  <1>6. Hashed' /\ Linked'
    BY DEF UnitInv, UnitTypes, ChangeSources, Hashed, Linked
  <1> QED BY <1>3, <1>4, <1>5, <1>6 DEF UnitInv

(* Every step keeps the invariant.                                         *)
LEMMA UnitInvNext == ASSUME UnitInv, [UnitNext]_unitVars PROVE UnitInv'
  <1>1. CASE UNCHANGED unitVars
    BY <1>1 DEF unitVars, fileVars, cacheVars, procVars, boundVars, UnitInv, UnitTypes,
       AtWork, Alone, Unpublished, Whole, Newest,
       Stamped, Hashed, Linked, Keyed, OfItsKey, Fit, TheKey, InCache
  <1>2. ASSUME NEW p \in Procs, Start(p) \/ Die(p) PROVE UnitInv'
    BY <1>2, UnitNames, UnitHashSources, UnitLockSupport, UnitCompileAll, UnitRelink,
       UnitSupportBuilt,
       UnitHashForKeys, UnitOpenSupport, UnitDie DEF Start
  <1>3. ASSUME NEW t \in Threads, Build(t) \/ \E u \in Units : Call(t, u) PROVE UnitInv'
    BY <1>3, UnitNames, UnitLockProcess, UnitLockWorkspace, UnitWriteMember,
       UnitCompileAll, UnitRelink,
       UnitUnitBuilt, UnitPublish, UnitPrune, UnitEndBuild, UnitLoad, UnitCall DEF Build
  <1> QED BY <1>1, <1>2, <1>3, UnitChangeSources DEF UnitNext

(* So it holds always.                                                     *)
LEMMA UnitInvariance == UnitSpec => []UnitInv
  BY UnitInvInit, UnitInvNext, PTL DEF UnitSpec

(* Which actions take an agent from one place to the other.                *)
LEMMA WhoMoves ==
  ASSUME UnitInv, UnitNext
  PROVE  /\ \A p \in Procs : at[p] = "open" /\ at'[p] = "ready" => OpenSupport(p)
         /\ \A t \in Threads :
              /\ at[t] # "failed" /\ at'[t] = "failed" => CompileAll(t) \/ UnitBuilt(t)
              /\ at[t] = "prune" /\ at'[t] = "done" => Prune(t)
              /\ at[t] = "load" /\ at'[t] = "idle" /\ at'[ProcessOf[t]] = "ready" => Load(t)
  <1> USE UnitNames
  <1>1. CASE \E p \in Procs : Start(p)
    BY <1>1 DEF UnitInv, UnitTypes, Start, HashSources, LockSupport, CompileAll, Relink,
       SupportBuilt, HashForKeys, OpenSupport, Goto
  <1>2. CASE \E p \in Procs : Die(p)
    BY <1>2 DEF UnitInv, UnitTypes, Die, Agents
  <1>3. CASE \E t \in Threads : Build(t)
    BY <1>3 DEF UnitInv, UnitTypes, Build, LockProcess, LockWorkspace, WriteMember,
       CompileAll,
       Relink, UnitBuilt, Publish, Prune, EndBuild, Load, Goto
  <1>4. CASE \E t \in Threads : \E u \in Units : Call(t, u)
    BY <1>4 DEF UnitInv, UnitTypes, Call, Goto
  <1>5. CASE ChangeSources
    BY <1>5 DEF ChangeSources
  <1> QED BY <1>1, <1>2, <1>3, <1>4, <1>5 DEF UnitNext

----------------------------------------------------------------------------
(* The cache of units: what it promises                                    *)

(* A process that starts gets the dylib of the sources it has hashed.      *)
LEMMA SupportFresh == ASSUME UnitInv, UnitNext PROVE SupportIsFresh
  <1> SUFFICES ASSUME NEW p \in Procs, at[p] = "open", at'[p] = "ready", sound[p]
               PROVE  support'[p] = hash[p].version
    BY DEF SupportIsFresh
  <1>1. OpenSupport(p)
    BY WhoMoves
  <1>2. dylib # Absent /\ support'[p] = dylib
    BY <1>1, UnitNames DEF UnitInv, UnitTypes, OpenSupport, Goto
  <1> QED BY <1>2 DEF UnitInv, Hashed, Linked, Fit

(* The only member that is not litter is the one of the build itself.      *)
LEMMA FailuresOwn == ASSUME UnitInv, UnitNext PROVE FailuresAreTheirOwn
  <1> SUFFICES ASSUME NEW t \in Threads, at[t] # "failed", at'[t] = "failed"
               PROVE  TheKey(t).unit \in Bad \/ \E k \in Litter : Spoils(k)
    BY DEF FailuresAreTheirOwn
  <1>1. /\ t \in Agents /\ at[t] \in {"compile", "link"}
        /\ \E k \in DOMAIN members :
             IF at[t] = "compile" THEN members[k] = "part" ELSE k.unit \in Bad
    <2>1. CompileAll(t) \/ UnitBuilt(t)
      BY WhoMoves
    <2>2. t \in Agents /\ at \in [Agents -> Places]
      BY UnitNames DEF UnitInv, UnitTypes
    <2>3. CASE CompileAll(t)
      BY <2>2, <2>3 DEF CompileAll, Goto, Partial
    <2>4. CASE UnitBuilt(t)
      BY <2>2, <2>4 DEF UnitBuilt, Goto, Rejected
    <2> QED BY <2>1, <2>3, <2>4
  <1>2. PICK k \in DOMAIN members :
          IF at[t] = "compile" THEN members[k] = "part" ELSE k.unit \in Bad
    BY <1>1
  <1>3. \A s \in Threads : at[s] \in InWorkspace => s = t
    BY <1>1, UnitNames DEF UnitInv, Alone, InWorkspace
  <1>4. k \in Litter \/ k = TheKey(t)
    BY <1>3 DEF Litter
  <1>5. members[TheKey(t)] = "whole"
    BY <1>1 DEF UnitInv, Whole
  <1> QED BY <1>2, <1>4, <1>5 DEF Spoils

(* When the newest artifact goes, as many go as this process has not       *)
(* loaded: all of them.                                                    *)
LEMMA PruneSpares == ASSUME UnitInv, UnitNext PROVE PruneSparesTheNew
  <1> SUFFICES ASSUME NEW t \in Threads, at[t] = "prune", at'[t] = "done", ~InCache(TheKey(t))',
                      NEW l \in DOMAIN cache'
               PROVE  IsLoaded(ProcessOf[t], l)
    BY DEF PruneSparesTheNew
  <1> DEFINE p == ProcessOf[t]
             k == TheKey(t)
             spare == {j \in DOMAIN cache : ~IsLoaded(p, j)}
             excess == Cardinality(DOMAIN cache) - CacheMaxArtifacts
             older(j) == {i \in spare : cache[i].mod <= cache[j].mod}
             gone == {j \in spare : Cardinality(older(j)) <= excess}
  <1>1. Prune(t)
    BY WhoMoves
  <1>2. cache' = [j \in DOMAIN cache \ gone |-> cache[j]]
    BY <1>1 DEF Prune, Pruned
  <1>3. k \in DOMAIN cache /\ \A j \in DOMAIN cache : cache[j].mod <= cache[k].mod
    BY DEF UnitInv, Newest, InCache
  <1>4. k \in gone
    <2>1. TheKey(t)' = k
      BY <1>1 DEF Prune, TheKey
    <2>2. k \notin DOMAIN cache'
      BY <2>1 DEF InCache
    <2> HIDE DEF gone, k
    <2> QED BY <1>2, <1>3, <2>2
  <1>5. older(k) = spare
    BY <1>3
  <1>6. spare \subseteq DOMAIN cache /\ IsFiniteSet(DOMAIN cache)
    BY DEF UnitInv, UnitTypes
  <1>7. IsFiniteSet(spare)
    BY <1>6, FS_Subset
  <1>8. \A j \in spare :
          Cardinality(older(j)) <= Cardinality(spare) /\ Cardinality(older(j)) \in Nat
    <2> TAKE j \in spare
    <2>1. older(j) \subseteq spare
      OBVIOUS
    <2> HIDE DEF older, spare
    <2>2. IsFiniteSet(older(j)) /\ Cardinality(older(j)) <= Cardinality(spare)
      BY <1>7, <2>1, FS_Subset
    <2> QED BY <2>2, FS_CardinalityType
  <1>9. Cardinality(spare) \in Nat /\ excess \in Int
    <2>1. Cardinality(spare) \in Nat /\ Cardinality(DOMAIN cache) \in Nat
      <3> HIDE DEF spare
      <3> QED BY <1>6, <1>7, FS_CardinalityType
    <2> QED BY <2>1, UnitCacheAssumption
  <1>10. Cardinality(spare) <= excess
    BY <1>4, <1>5
  <1>11. \A j \in spare : j \in gone
    <2> TAKE j \in spare
    <2>1. Cardinality(older(j)) <= excess
      <3> HIDE DEF older, spare, excess
      <3> QED BY <1>8, <1>9, <1>10
    <2> QED BY <2>1
  <1>12. l \in DOMAIN cache /\ l \notin gone
    <2> HIDE DEF gone
    <2> QED BY <1>2
  <1> QED BY <1>11, <1>12

(* The process that loads has opened the dylib that was linked to.         *)
LEMMA FittingLoads == ASSUME UnitInv, UnitNext PROVE LoadsFit
  <1> SUFFICES ASSUME NEW t \in Threads,
                      at[t] = "load", at'[t] = "idle", at'[ProcessOf[t]] = "ready"
               PROVE  LET p == ProcessOf[t]
                          k == TheKey(t)
                      IN
                      /\ outcome'[t] = "loaded" => k \in loaded'[p]
                      /\ \A l \in loaded'[p] \ loaded[p] :
                           /\ l = k /\ InCache(k)
                           /\ sound[p] /\ cache[k].sound => cache[k].version = support[p]
                      /\ outcome'[t] = "refused" => InCache(k) /\ ~(sound[p] /\ cache[k].sound)
    BY DEF LoadsFit
  <1> DEFINE p == ProcessOf[t]
             k == TheKey(t)
  <1>1. Load(t)
    BY WhoMoves
  <1>2. p \in Procs /\ at[p] = "ready" /\ k.hash = hash[p]
    BY UnitNames DEF UnitInv, AtWork
  <1>3. ASSUME InCache(k), sound[p], cache[k].sound PROVE cache[k].version = support[p]
    BY <1>2, <1>3 DEF UnitInv, Hashed, Linked, Keyed, OfItsKey, InCache
  <1>4. \/ outcome'[t] = "loaded" /\ k \in loaded[p] /\ loaded' = loaded
        \/ outcome'[t] = "missing" /\ loaded' = loaded
        \/ outcome'[t] = "loaded" /\ loaded'[p] = loaded[p] \cup {k} /\ InCache(k)
        \/ /\ outcome'[t] = "refused" /\ loaded' = loaded
           /\ InCache(k) /\ cache[k].version # support[p]
    BY <1>1, <1>2 DEF UnitInv, UnitTypes, Load, IsLoaded
  <1> QED BY <1>3, <1>4

(* The invariant gives the state part of the property.                     *)
LEMMA UnitsOnce == ASSUME UnitInv PROVE UnitTypeOK /\ NobodyBuildsTwice
  <1>1. IsFiniteSet(stamp) /\ stamp \subseteq Hashes /\ Cardinality(stamp) <= 1
    <2>1. CASE stamp = {}
      BY <2>1, FS_EmptySet
    <2>2. ASSUME NEW h \in Hashes, stamp = {h}
          PROVE  IsFiniteSet(stamp) /\ stamp \subseteq Hashes /\ Cardinality(stamp) <= 1
      <3>1. IsFiniteSet({h}) /\ Cardinality({h}) = 1
        BY FS_Singleton
      <3> QED BY <2>2, <3>1
    <2> QED BY <2>1, <2>2 DEF UnitInv, UnitTypes
  <1>2. Range(members) \subseteq {"part", "whole"}
    BY DEF UnitInv, UnitTypes, Range
  <1>3. UnitTypeOK
    BY <1>1, <1>2, UnitNames DEF UnitInv, UnitTypes, UnitTypeOK
  <1> QED BY <1>3 DEF UnitInv, Alone, Unpublished, NobodyBuildsTwice

(* Whoever builds a unit disturbs nobody and is disturbed by nobody, but   *)
(* by what a process that died has left in the workspace.                  *)
THEOREM BuildsStayApart == UnitSpec => BuildsKeepTheirOwn
  BY UnitInvariance, UnitsOnce, SupportFresh, FailuresOwn, PruneSpares, FittingLoads, PTL
  DEF BuildsKeepTheirOwn, UnitSpec
=============================================================================
